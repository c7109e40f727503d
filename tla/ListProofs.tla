----------------------------- MODULE ListProofs -----------------------------
(***************************************************************************)
(* list_add, list_add_tail, list_del and list_move of module List keep a   *)
(* list well linked and in one ring, whatever its length.                  *)
(***************************************************************************)
EXTENDS List, TLAPS

(* The link fields of the nodes N. *)
Links(N) == [next : [N -> N \cup {NULL}], prev : [N -> N \cup {NULL}]]

(* One node more, after the node last: the ring stays a ring.              *)
LEMMA RingGrow ==
  ASSUME NEW L, NEW M, NEW S, NEW last \in S, NEW new, new \notin S, WellLinked(L, S),
         \A n \in S : M.next[n] = IF n = last THEN new ELSE L.next[n],
         \A n \in S : M.prev[n] = IF n = L.next[last] THEN new ELSE L.prev[n],
         M.next[new] = L.next[last], M.prev[new] = last
  PROVE  /\ WellLinked(M, S \cup {new})
         /\ \A origin \in S : OneRing(L, origin, S) => OneRing(M, origin, S \cup {new})
<1>1. \A n \in S : /\ L.next[n] \in S /\ L.prev[n] \in S
                   /\ L.prev[L.next[n]] = n /\ L.next[L.prev[n]] = n
  BY DEF WellLinked
<1>2. ASSUME NEW n \in S \cup {new}
      PROVE  /\ M.next[n] \in S \cup {new} /\ M.prev[n] \in S \cup {new}
             /\ M.prev[M.next[n]] = n /\ M.next[M.prev[n]] = n
  BY <1>1
<1>3. WellLinked(M, S \cup {new})
  BY <1>2 DEF WellLinked
<1>4. ASSUME NEW origin \in S, OneRing(L, origin, S), NEW R \in SUBSET (S \cup {new}),
             Traversal(M, origin, R)
      PROVE  R = S \cup {new}
  <2> DEFINE Q == R \ {new}
  <2>1. Q \in SUBSET S /\ origin \in Q
    BY <1>4 DEF Traversal
  <2>2. ASSUME NEW n \in Q PROVE L.next[n] \in Q
    <3>1. M.next[n] \in R /\ n \in S /\ L.next[n] \in S
      BY <1>1, <1>4, <2>1 DEF Traversal
    <3>2. CASE n = last
      BY <1>4, <3>1, <3>2 DEF Traversal
    <3>3. QED
      BY <3>1, <3>2
  <2>3. Q = S
    BY <1>4, <2>1, <2>2 DEF OneRing, Traversal
  <2>4. QED
    BY <1>4, <2>3 DEF Traversal
<1>5. QED
  BY <1>3, <1>4 DEF OneRing

(* One node less: the others stay a ring.                                  *)
LEMMA RingShrink ==
  ASSUME NEW L, NEW M, NEW S, NEW e \in S, WellLinked(L, S),
         \A n \in S \ {e} : M.next[n] = IF n = L.prev[e] THEN L.next[e] ELSE L.next[n],
         \A n \in S \ {e} : M.prev[n] = IF n = L.next[e] THEN L.prev[e] ELSE L.prev[n]
  PROVE  /\ WellLinked(M, S \ {e})
         /\ \A origin \in S \ {e} : OneRing(L, origin, S) => OneRing(M, origin, S \ {e})
<1> DEFINE p == L.prev[e]
           q == L.next[e]
<1>1. \A n \in S : /\ L.next[n] \in S /\ L.prev[n] \in S
                   /\ L.prev[L.next[n]] = n /\ L.next[L.prev[n]] = n
  BY DEF WellLinked
<1>2. ASSUME NEW n \in S \ {e}
      PROVE  /\ M.next[n] \in S \ {e} /\ M.prev[n] \in S \ {e}
             /\ M.prev[M.next[n]] = n /\ M.next[M.prev[n]] = n
  <2>1. (n # p => L.next[n] # e) /\ (n # q => L.prev[n] # e)
    BY <1>1
  <2>2. (n = p => q # e) /\ (n = q => p # e)
    BY <1>1
  <2>3. M.next[n] \in S \ {e} /\ M.prev[n] \in S \ {e}
    BY <1>1, <2>1, <2>2
  <2>4. M.prev[M.next[n]] = n /\ M.next[M.prev[n]] = n
    BY <1>1, <2>1, <2>3
  <2>5. QED
    BY <2>3, <2>4
<1>3. WellLinked(M, S \ {e})
  BY <1>2 DEF WellLinked
<1>4. ASSUME NEW origin \in S \ {e}, OneRing(L, origin, S), NEW R \in SUBSET (S \ {e}),
             Traversal(M, origin, R)
      PROVE  R = S \ {e}
  <2>1. CASE p \in R
    <3> DEFINE Q == R \cup {e}
    <3>1. q \in R
      BY <1>4, <2>1 DEF Traversal
    <3>2. \A n \in Q : L.next[n] \in Q
      BY <1>1, <1>4, <3>1 DEF Traversal
    <3>3. Q \in SUBSET S /\ origin \in Q
      BY <1>4 DEF Traversal
    <3>4. Q = S
      BY <1>4, <3>2, <3>3 DEF OneRing, Traversal
    <3>5. QED
      BY <1>4, <3>4
  <2>2. CASE p \notin R
    <3>1. \A n \in R : L.next[n] \in R
      BY <1>4, <2>2 DEF Traversal
    <3>2. R = S
      BY <1>4, <3>1 DEF OneRing, Traversal
    <3>3. QED
      BY <1>1, <2>2, <3>2
  <2>3. QED
    BY <2>1, <2>2
<1>5. QED
  BY <1>3, <1>4 DEF OneRing
-----------------------------------------------------------------------------
(* list_add_tail puts the new entry between the last entry and the head.   *)
LEMMA AddTailRing ==
  ASSUME NEW N, NULL \notin N, NEW L \in Links(N), NEW S \in SUBSET N, WellLinked(L, S),
         NEW head \in S, NEW new \in N \ S
  PROVE  /\ WellLinked(list_add_tail(L, new, head), S \cup {new})
         /\ \A origin \in S : OneRing(L, origin, S) =>
              OneRing(list_add_tail(L, new, head), origin, S \cup {new})
<1> DEFINE last == L.prev[head]
           M == list_add_tail(L, new, head)
<1>1. last \in S /\ L.next[last] = head
  BY DEF WellLinked
<1>2. /\ M.next = [L.next EXCEPT ![new] = head, ![last] = new]
      /\ M.prev = [L.prev EXCEPT ![head] = new, ![new] = last]
  BY <1>1 DEF Links, list_add_tail, list_insert
<1>3. /\ \A n \in S : M.next[n] = IF n = last THEN new ELSE L.next[n]
      /\ \A n \in S : M.prev[n] = IF n = head THEN new ELSE L.prev[n]
      /\ M.next[new] = head /\ M.prev[new] = last
  BY <1>1, <1>2 DEF Links
<1> HIDE DEF M, last
<1>4. QED
  BY <1>1, <1>3, RingGrow DEF M

(* list_del leaves the other nodes of the list.                            *)
LEMMA DelRing ==
  ASSUME NEW N, NULL \notin N, NEW L \in Links(N), NEW S \in SUBSET N, WellLinked(L, S),
         NEW e \in S
  PROVE  /\ WellLinked(list_del(L, e), S \ {e})
         /\ \A origin \in S \ {e} : OneRing(L, origin, S) =>
              OneRing(list_del(L, e), origin, S \ {e})
<1> DEFINE p == L.prev[e]
           q == L.next[e]
           M == list_del(L, e)
<1>1. p \in S /\ q \in S /\ L.next[p] = e /\ L.prev[q] = e
  BY DEF WellLinked
<1>2. /\ M.next = [L.next EXCEPT ![p] = q, ![e] = NULL]
      /\ M.prev = [L.prev EXCEPT ![q] = p, ![e] = NULL]
  BY <1>1 DEF Links, list_del, list_unlink
<1>3. /\ \A n \in S \ {e} : M.next[n] = IF n = p THEN q ELSE L.next[n]
      /\ \A n \in S \ {e} : M.prev[n] = IF n = q THEN p ELSE L.prev[n]
  BY <1>1, <1>2 DEF Links
<1> HIDE DEF M
<1>4. QED
  BY <1>3, RingShrink DEF M

(* list_move takes an entry from one list to the front of another.         *)
LEMMA MoveRing ==
  ASSUME NEW N, NULL \notin N, NEW L \in Links(N),
         NEW S \in SUBSET N, NEW T \in SUBSET N, S \cap T = {},
         WellLinked(L, S), WellLinked(L, T), NEW e \in S, NEW head \in T
  PROVE  /\ list_move(L, e, head) \in Links(N)
         /\ WellLinked(list_move(L, e, head), S \ {e})
         /\ WellLinked(list_move(L, e, head), T \cup {e})
         /\ \A origin \in S \ {e} : OneRing(L, origin, S) =>
              OneRing(list_move(L, e, head), origin, S \ {e})
         /\ \A origin \in T : OneRing(L, origin, T) =>
              OneRing(list_move(L, e, head), origin, T \cup {e})
<1> DEFINE p == L.prev[e]
           q == L.next[e]
           f == L.next[head]
           M == list_move(L, e, head)
<1>1. /\ p \in S /\ q \in S /\ L.next[p] = e /\ L.prev[q] = e
      /\ f \in T /\ L.prev[f] = head /\ e \notin T
  BY DEF WellLinked
<1>2. /\ M.next = [[L.next EXCEPT ![p] = q] EXCEPT ![e] = f, ![head] = e]
      /\ M.prev = [[L.prev EXCEPT ![q] = p] EXCEPT ![f] = e, ![e] = head]
      /\ M \in Links(N)
  BY <1>1 DEF Links, list_move, list_unlink, list_add, list_insert
<1>3. /\ \A n \in S \ {e} : M.next[n] = IF n = p THEN q ELSE L.next[n]
      /\ \A n \in S \ {e} : M.prev[n] = IF n = q THEN p ELSE L.prev[n]
  BY <1>1, <1>2 DEF Links
<1>4. /\ \A n \in T : M.next[n] = IF n = head THEN e ELSE L.next[n]
      /\ \A n \in T : M.prev[n] = IF n = f THEN e ELSE L.prev[n]
      /\ M.next[e] = f /\ M.prev[e] = head
  BY <1>1, <1>2 DEF Links
<1> HIDE DEF M
<1>5. /\ WellLinked(M, S \ {e})
      /\ \A origin \in S \ {e} : OneRing(L, origin, S) => OneRing(M, origin, S \ {e})
  BY <1>3, RingShrink
<1>6. /\ WellLinked(M, T \cup {e})
      /\ \A origin \in T : OneRing(L, origin, T) => OneRing(M, origin, T \cup {e})
  BY <1>1, <1>4, RingGrow
<1>7. QED
  BY <1>2, <1>5, <1>6 DEF M
=============================================================================
