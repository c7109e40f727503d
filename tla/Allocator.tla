------------------------------ MODULE Allocator -----------------------------
(***************************************************************************)
(* What a zone promises its clients: an element handed out belongs to one  *)
(* client until that client gives it back.                                 *)
(***************************************************************************)
CONSTANTS Elem, Client

VARIABLE holds       \* the elements each client has been given

Init == holds = [c \in Client |-> {}]

Alloc(c) == \E e \in Elem :
              /\ \A d \in Client : e \notin holds[d]
              /\ holds' = [holds EXCEPT ![c] = @ \cup {e}]

Free(c) == \E e \in holds[c] : holds' = [holds EXCEPT ![c] = @ \ {e}]

Next == \E c \in Client : Alloc(c) \/ Free(c)

Spec == Init /\ [][Next]_holds
=============================================================================
