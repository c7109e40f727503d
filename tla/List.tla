-------------------------------- MODULE List --------------------------------
(***************************************************************************)
(* The circular doubly linked lists of libkern/list.h, as pure operators   *)
(* on a value L = [next, prev] of two functions over the nodes in memory.  *)
(* A node is the address of a struct list_head: a list head or the link    *)
(* embedded in an entry (container_of only shifts an address, so an entry  *)
(* and its link are one value here).  Each operator performs the stores of *)
(* the C function in the C function's order.                               *)
(***************************************************************************)
CONSTANT NULL      \* 0x0, what list_del leaves in the links of an entry

INIT_LIST_HEAD(L, list) ==
  [next |-> [L.next EXCEPT ![list] = list],
   prev |-> [L.prev EXCEPT ![list] = list]]

(* __list_add: insert new between the consecutive nodes prev and next. *)
list_insert(L, new, prev, next) ==
  [next |-> [L.next EXCEPT ![new] = next, ![prev] = new],
   prev |-> [L.prev EXCEPT ![next] = new, ![new] = prev]]

(* __list_del: make prev and next point to each other. *)
list_unlink(L, prev, next) ==
  [next |-> [L.next EXCEPT ![prev] = next],
   prev |-> [L.prev EXCEPT ![next] = prev]]

list_add(L, new, head) == list_insert(L, new, head, L.next[head])

list_add_tail(L, new, head) == list_insert(L, new, L.prev[head], head)

list_del(L, entry) ==
  LET U == list_unlink(L, L.prev[entry], L.next[entry])
  IN  [next |-> [U.next EXCEPT ![entry] = NULL],
       prev |-> [U.prev EXCEPT ![entry] = NULL]]

(* list_replace reads old->prev after old->next->prev was overwritten. *)
list_replace(L, old, new) ==
  LET back  == [L.prev EXCEPT ![L.next[old]] = new]
      front == back[old]
  IN  [next |-> [L.next EXCEPT ![new] = L.next[old], ![front] = new],
       prev |-> [back EXCEPT ![new] = front]]

list_replace_init(L, old, new) == INIT_LIST_HEAD(list_replace(L, old, new), old)

list_del_init(L, entry) ==
  INIT_LIST_HEAD(list_unlink(L, L.prev[entry], L.next[entry]), entry)

list_move(L, list, head) ==
  list_add(list_unlink(L, L.prev[list], L.next[list]), list, head)

list_move_tail(L, list, head) ==
  list_add_tail(list_unlink(L, L.prev[list], L.next[list]), list, head)

list_is_last(L, list, head) == L.next[list] = head

list_empty(L, head) == L.next[head] = head

list_empty_careful(L, head) == L.next[head] = head /\ L.next[head] = L.prev[head]

list_is_singular(L, head) == ~ list_empty(L, head) /\ L.next[head] = L.prev[head]

list_first_entry(L, head) == L.next[head]

list_last_entry(L, head) == L.prev[head]

(* __list_cut_position, then the guards of list_cut_position. *)
list_cut(L, list, head, entry) ==
  LET newFirst == L.next[entry]
      next1    == [L.next EXCEPT ![list] = L.next[head]]
  IN  [next |-> [next1 EXCEPT ![entry] = list, ![head] = newFirst],
       prev |-> [L.prev EXCEPT ![next1[list]] = list, ![list] = entry,
                               ![newFirst] = head]]

list_cut_position(L, list, head, entry) ==
  IF \/ list_empty(L, head)
     \/ list_is_singular(L, head) /\ L.next[head] # entry /\ head # entry
  THEN L
  ELSE IF entry = head THEN INIT_LIST_HEAD(L, list)
       ELSE list_cut(L, list, head, entry)

(* Mutant: the store to next->prev is forgotten. *)
list_join_oneway(L, list, prev, next) ==
  [next |-> [L.next EXCEPT ![prev] = L.next[list], ![L.prev[list]] = next],
   prev |-> [L.prev EXCEPT ![L.next[list]] = prev]]

(* __list_splice: put the entries of list between prev and next. *)
list_join(L, list, prev, next) ==
  [next |-> [L.next EXCEPT ![prev] = L.next[list], ![L.prev[list]] = next],
   prev |-> [L.prev EXCEPT ![L.next[list]] = prev, ![next] = L.prev[list]]]

list_splice(L, list, head) ==
  IF list_empty(L, list) THEN L ELSE list_join(L, list, head, L.next[head])

list_splice_tail(L, list, head) ==
  IF list_empty(L, list) THEN L ELSE list_join(L, list, L.prev[head], head)

list_splice_init(L, list, head) ==
  IF list_empty(L, list) THEN L
  ELSE INIT_LIST_HEAD(list_join(L, list, head, L.next[head]), list)

list_splice_tail_init(L, list, head) ==
  IF list_empty(L, list) THEN L
  ELSE INIT_LIST_HEAD(list_join(L, list, L.prev[head], head), list)
-----------------------------------------------------------------------------
(* Not code: what the nodes of S, heads included, owe each other.          *)
WellLinked(L, S) ==
  \A n \in S : /\ L.next[n] \in S /\ L.prev[n] \in S
              /\ L.prev[L.next[n]] = n /\ L.next[L.prev[n]] = n

(* A set that contains head and the successor of each of its members.      *)
Traversal(L, head, S) == head \in S /\ \A n \in S : L.next[n] \in S

(* Walking next from head meets every node of S: they form one ring.       *)
OneRing(L, head, S) ==
  \A R \in SUBSET S : Traversal(L, head, R) => R = S
=============================================================================
