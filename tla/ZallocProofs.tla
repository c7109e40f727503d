---------------------------- MODULE ZallocProofs ----------------------------
(***************************************************************************)
(* A zone whose callers take turns and never exhaust it keeps its lists    *)
(* and counters in step and implements module Allocator, for any number of *)
(* elements and clients.                                                   *)
(***************************************************************************)
EXTENDS Zalloc, ListProofs, FiniteSetTheorems

OnFree == Elem \ (fresh \cup Held)

(* The two lists are disjoint rings that share the elements out.           *)
ZoneLists ==
  /\ fresh \cap Held = {}
  /\ WellLinked(links, OnFree \cup {FREE}) /\ OneRing(links, FREE, OnFree \cup {FREE})
  /\ WellLinked(links, Held \cup {USED}) /\ OneRing(links, USED, Held \cup {USED})

(* At most one zalloc is under way, and what it read is still first.       *)
OneZalloc ==
  \A c \in Client : meta[c] # NULL =>
    /\ fresh = {} /\ meta[c] \in OnFree /\ meta[c] = links.next[FREE]
    /\ \A d \in Client : d # c => meta[d] = NULL

ZoneTypes ==
  /\ links \in Links(Node) /\ fresh \in SUBSET Elem /\ panicked \in BOOLEAN
  /\ meta \in [Client -> Elem \cup {NULL}] /\ holds \in [Client -> SUBSET Elem]

ZoneCounts == count = Cardinality(Held) /\ count_free = Cardinality(Elem \ Held)

ZInv == ZoneTypes /\ ZoneLists /\ OneZalloc /\ ZoneCounts /\ ElementIsNew

(* Walking a ring meets exactly its nodes: list_for_each_entry over either *)
(* list of the zone visits what ZoneLists says is on it.                   *)
LEMMA EntriesOfRing ==
  ASSUME NEW head, NEW S \in SUBSET Node, head \in S,
         WellLinked(links, S), OneRing(links, head, S)
  PROVE  Entries(head) = S \ {head}
<1>1. Traversal(links, head, S)
  BY Zenon DEF WellLinked, Traversal
<1>2. ASSUME NEW R \in SUBSET Node, Traversal(links, head, R) PROVE S \subseteq R
  <2> DEFINE Q == R \cap S
  <2>1. Q \in SUBSET S /\ Traversal(links, head, Q)
    BY Zenon, <1>1, <1>2 DEF Traversal
  <2>2. Q = S
    BY Zenon, <2>1 DEF OneRing
  <2>3. QED
    BY Zenon, <2>2
<1>3. QED
  BY Zenon, <1>1, <1>2 DEF Entries

(* The assumptions on the constants, in the form the proofs use.           *)
LEMMA ZallocFacts ==
  /\ IsFiniteSet(Elem) /\ FREE # USED /\ FREE \notin Elem /\ USED \notin Elem
  /\ NULL \notin Node
BY Zenon, ZallocAssumption DEF Node

(* zone_create enters its loop with two empty lists.                       *)
LEMMA ZInit == Init => ZInv
<1> SUFFICES ASSUME Init PROVE ZInv
  BY Zenon
<1> USE ZallocFacts
<1>1. Held = {} /\ OnFree = {}
  BY Zenon DEF Init, Held, OnFree
<1>2. ZoneTypes
  BY Zenon DEF Init, ZoneTypes, Links, Node
<1>3. ZoneLists
  BY Zenon, <1>1 DEF Init, ZoneLists, WellLinked, OneRing, Traversal, Node
<1>4. OneZalloc /\ ElementIsNew
  BY Zenon DEF Init, OneZalloc, ElementIsNew
<1>5. ZoneCounts
  <2>1. Elem \ {} = Elem
    BY Zenon
  <2>2. QED
    BY Zenon, <1>1, <2>1, FS_EmptySet DEF Init, ZoneCounts
<1>6. QED
  BY Zenon, <1>2, <1>3, <1>4, <1>5 DEF ZInv

(* A turn of the loop of zone_create takes an element to the free list.    *)
LEMMA ZCreate == ZInv /\ zone_create_elem => ZInv'
<1> SUFFICES ASSUME ZInv, zone_create_elem PROVE ZInv'
  BY Zenon
<1> USE ZallocFacts
<1>1. PICK e \in fresh : /\ links' = list_add_tail(links, e, FREE)
                         /\ fresh' = fresh \ {e}
  BY Zenon DEF zone_create_elem
<1>2. Held' = Held /\ UNCHANGED <<count, count_free, meta, holds, panicked>>
  BY Zenon DEF zone_create_elem, Held
<1>3. /\ links \in Links(Node) /\ fresh \in SUBSET Elem /\ Held \subseteq Elem
      /\ fresh \cap Held = {}
  BY DEF ZInv, ZoneTypes, ZoneLists, Held
<1>4. OnFree' = OnFree \cup {e} /\ e \notin OnFree /\ e \in Elem
  BY Zenon, <1>1, <1>2, <1>3 DEF OnFree
<1> DEFINE S == OnFree \cup {FREE}
           T == Held \cup {USED}
           N == Node
<1>5. /\ S \in SUBSET N /\ FREE \in S /\ e \in N \ S /\ NULL \notin N /\ links \in Links(N)
      /\ WellLinked(links, S) /\ OneRing(links, FREE, S)
  BY Zenon, <1>3, <1>4 DEF OnFree, Node, ZInv, ZoneLists
<1>6. OnFree' \cup {FREE} = S \cup {e}
  BY Zenon, <1>4
<1>7. WellLinked(links, T) /\ OneRing(links, USED, T) /\ T \in SUBSET N /\ S \cap T = {} /\ e \notin T
  BY Zenon, <1>1, <1>3 DEF ZInv, ZoneLists, OnFree, Node
<1>8. /\ links'.next = [links.next EXCEPT ![e] = FREE, ![links.prev[FREE]] = e]
      /\ links'.prev = [links.prev EXCEPT ![FREE] = e, ![e] = links.prev[FREE]]
      /\ links' \in Links(N) /\ links.prev[FREE] \in S
  BY Zenon, <1>1, <1>5 DEF WellLinked, Links, list_add_tail, list_insert
<1> HIDE DEF S, N
<1>9. WellLinked(links', S \cup {e}) /\ OneRing(links', FREE, S \cup {e})
  BY Zenon, <1>1, <1>5, AddTailRing
<1>10. \A n \in T : links'.next[n] = links.next[n] /\ links'.prev[n] = links.prev[n]
  BY <1>5, <1>7, <1>8 DEF Links
<1>11. WellLinked(links', T) /\ OneRing(links', USED, T)
  BY <1>7, <1>10 DEF WellLinked, OneRing, Traversal
<1>12. ZoneLists'
  BY Zenon, <1>1, <1>2, <1>3, <1>6, <1>9, <1>11 DEF ZoneLists
<1>13. ZoneTypes'
  BY Zenon, <1>1, <1>2, <1>8 DEF ZInv, ZoneTypes, N
<1>14. OneZalloc'
  BY Zenon, <1>1, <1>2 DEF ZInv, OneZalloc
<1>15. ZoneCounts' /\ ElementIsNew'
  BY Zenon, <1>2 DEF ZInv, ZoneCounts, ElementIsNew
<1>16. QED
  BY Zenon, <1>12, <1>13, <1>14, <1>15 DEF ZInv

(* zalloc reads the first free element; with an element left it is one.    *)
LEMMA ZFirst ==
  ASSUME Serial, ~ Exhaust, ZInv, NEW c \in Client, zalloc_first(c)
  PROVE  ZInv'
<1> USE ZallocFacts
<1>1. UNCHANGED <<links, count, count_free, fresh, holds, panicked>> /\ Held' = Held
      /\ OnFree' = OnFree
  BY Zenon DEF zalloc_first, Held, OnFree
<1>2. fresh = {} /\ \A d \in Client : meta[d] = NULL
  BY Zenon DEF zalloc_first, Ready, Idle
<1>3. links.next[FREE] \in OnFree
  BY Zenon DEF zalloc_first, list_empty, ZInv, ZoneLists, WellLinked
<1>4. meta' = [meta EXCEPT ![c] = links.next[FREE]] /\ meta \in [Client -> Elem \cup {NULL}]
  BY Zenon DEF zalloc_first, list_first_entry, ZInv, ZoneTypes
<1>5. ZoneTypes'
  BY Zenon, <1>1, <1>3, <1>4 DEF ZInv, ZoneTypes, OnFree
<1>6. OneZalloc'
  BY Zenon, <1>1, <1>2, <1>3, <1>4 DEF OneZalloc
<1>7. ZoneLists' /\ ZoneCounts' /\ ElementIsNew'
  BY Zenon, <1>1 DEF ZInv, ZoneLists, ZoneCounts, ElementIsNew
<1>8. QED
  BY Zenon, <1>5, <1>6, <1>7 DEF ZInv

(* The counters follow the elements the clients hold.                      *)
LEMMA HeldCount ==
  ASSUME NEW H \in SUBSET Elem, NEW e \in Elem \ H
  PROVE  /\ Cardinality(H \cup {e}) = Cardinality(H) + 1
         /\ Cardinality(Elem \ (H \cup {e})) = Cardinality(Elem \ H) - 1
         /\ Cardinality(H) \in Nat /\ Cardinality(Elem \ H) \in Nat
<1>1. IsFiniteSet(H) /\ IsFiniteSet(Elem \ H)
  BY Zenon, ZallocFacts, FS_Subset
<1>2. Cardinality(H \cup {e}) = Cardinality(H) + 1
  BY Zenon, <1>1, FS_AddElement
<1>3. Elem \ (H \cup {e}) = (Elem \ H) \ {e}
  BY Zenon
<1>4. Cardinality((Elem \ H) \ {e}) = Cardinality(Elem \ H) - 1
  BY Zenon, <1>1, FS_RemoveElement
<1>5. QED
  BY Zenon, <1>1, <1>2, <1>3, <1>4, FS_CardinalityType

(* zalloc moves the element it read to the used list.                      *)
LEMMA ZMove ==
  ASSUME ZInv, NEW c \in Client, zalloc_move(c)
  PROVE  ZInv' /\ A!Alloc(c)
<1> USE ZallocFacts
<1> DEFINE e == meta[c]
<1>1. /\ links' = list_move(links, e, USED)
      /\ count' = count + 1 /\ count_free' = count_free - 1
      /\ holds' = [holds EXCEPT ![c] = holds[c] \cup {e}]
      /\ meta' = [meta EXCEPT ![c] = NULL]
      /\ UNCHANGED <<fresh, panicked>>
  BY Zenon DEF zalloc_move
<1>2. /\ e \in OnFree /\ fresh = {} /\ \A d \in Client : d # c => meta[d] = NULL
      /\ e \in Elem /\ e \notin Held
  BY Zenon DEF zalloc_move, ZInv, OneZalloc, OnFree
<1>3. /\ links \in Links(Node) /\ holds \in [Client -> SUBSET Elem]
      /\ meta \in [Client -> Elem \cup {NULL}] /\ Held \in SUBSET Elem
  BY Zenon DEF ZInv, ZoneTypes, Held
<1> HIDE DEF e
<1>4. Held' = Held \cup {e} /\ OnFree' = OnFree \ {e}
  <2>1. \A d \in Client : holds'[d] = IF d = c THEN holds[c] \cup {e} ELSE holds[d]
    BY Zenon, <1>1, <1>3
  <2>2. Held' = Held \cup {e}
    BY Zenon, <2>1 DEF Held
  <2>3. QED
    BY Zenon, <1>1, <2>2 DEF OnFree
<1> DEFINE S == OnFree \cup {FREE}
           T == Held \cup {USED}
           N == Node
<1>5. /\ S \in SUBSET N /\ T \in SUBSET N /\ S \cap T = {} /\ NULL \notin N
      /\ links \in Links(N) /\ e \in S /\ FREE \in S \ {e} /\ USED \in T
  BY Zenon, <1>2, <1>3 DEF OnFree, Node
<1>6. /\ WellLinked(links, S) /\ OneRing(links, FREE, S)
      /\ WellLinked(links, T) /\ OneRing(links, USED, T)
  BY Zenon DEF ZInv, ZoneLists
<1>7. OnFree' \cup {FREE} = S \ {e} /\ Held' \cup {USED} = T \cup {e}
  BY Zenon, <1>2, <1>4
<1> HIDE DEF S, T, N
<1>8. /\ links' \in Links(N)
      /\ WellLinked(links', S \ {e}) /\ OneRing(links', FREE, S \ {e})
      /\ WellLinked(links', T \cup {e}) /\ OneRing(links', USED, T \cup {e})
  BY Zenon, <1>1, <1>5, <1>6, MoveRing
<1>9. ZoneLists'
  BY Zenon, <1>1, <1>2, <1>7, <1>8 DEF ZoneLists
<1>10. ZoneTypes'
  BY Zenon, <1>1, <1>2, <1>3, <1>8 DEF N, ZInv, ZoneTypes
<1>11. OneZalloc'
  BY Zenon, <1>1, <1>2, <1>3 DEF OneZalloc
<1>12. ZoneCounts'
  BY Zenon, <1>1, <1>2, <1>3, <1>4, HeldCount DEF ZInv, ZoneCounts
<1>13. \A d \in Client : e \notin holds[d]
  BY Zenon, <1>2 DEF Held
<1>14. ElementIsNew'
  BY Zenon, <1>1, <1>3, <1>13 DEF ZInv, ElementIsNew
<1>15. A!Alloc(c)
  BY Zenon, <1>1, <1>2, <1>13 DEF A!Alloc
<1>16. QED
  BY Zenon, <1>9, <1>10, <1>11, <1>12, <1>14, <1>15 DEF ZInv

(* zfree moves an element of the caller back to the free list.             *)
LEMMA ZFree ==
  ASSUME Serial, ZInv, NEW c \in Client, NEW e \in holds[c], zfree(c, e)
  PROVE  ZInv' /\ A!Free(c)
<1> USE ZallocFacts
<1>1. /\ links' = list_move(links, e, FREE)
      /\ count' = count - 1 /\ count_free' = count_free + 1
      /\ holds' = [holds EXCEPT ![c] = holds[c] \ {e}]
      /\ UNCHANGED <<fresh, meta, panicked>>
  BY Zenon DEF zfree
<1>2. fresh = {} /\ \A d \in Client : meta[d] = NULL
  BY Zenon DEF zfree, Ready, Idle
<1>3. /\ links \in Links(Node) /\ holds \in [Client -> SUBSET Elem] /\ Held \in SUBSET Elem
      /\ e \in Elem /\ e \in Held /\ \A d \in Client : d # c => e \notin holds[d]
  BY DEF ZInv, ZoneTypes, Held, ElementIsNew
<1>4. Held' = Held \ {e} /\ OnFree' = OnFree \cup {e} /\ e \notin OnFree
  <2>1. \A d \in Client : holds'[d] = holds[d] \ {e}
    BY Zenon, <1>1, <1>3
  <2>2. Held' = Held \ {e}
    BY <2>1 DEF Held
  <2>3. QED
    BY Zenon, <1>1, <1>2, <1>3, <2>2 DEF OnFree
<1> DEFINE S == OnFree \cup {FREE}
           T == Held \cup {USED}
           N == Node
<1>5. /\ S \in SUBSET N /\ T \in SUBSET N /\ S \cap T = {} /\ NULL \notin N
      /\ links \in Links(N) /\ e \in T /\ USED \in T \ {e} /\ FREE \in S
  BY Zenon, <1>3 DEF OnFree, Node
<1>6. /\ WellLinked(links, S) /\ OneRing(links, FREE, S)
      /\ WellLinked(links, T) /\ OneRing(links, USED, T)
  BY Zenon DEF ZInv, ZoneLists
<1>7. OnFree' \cup {FREE} = S \cup {e} /\ Held' \cup {USED} = T \ {e}
  BY Zenon, <1>3, <1>4
<1> HIDE DEF S, T, N
<1>8. /\ links' \in Links(N)
      /\ WellLinked(links', T \ {e}) /\ OneRing(links', USED, T \ {e})
      /\ WellLinked(links', S \cup {e}) /\ OneRing(links', FREE, S \cup {e})
  BY Zenon, <1>1, <1>5, <1>6, MoveRing
<1>9. ZoneLists'
  BY Zenon, <1>1, <1>2, <1>7, <1>8 DEF ZoneLists
<1>10. ZoneTypes'
  BY Zenon, <1>1, <1>3, <1>8 DEF N, ZInv, ZoneTypes
<1>11. OneZalloc'
  BY Zenon, <1>1, <1>2 DEF OneZalloc
<1>12. ZoneCounts'
  <2> DEFINE H == Held \ {e}
  <2>1. H \in SUBSET Elem /\ e \in Elem \ H /\ Held = H \cup {e}
    BY Zenon, <1>3
  <2>2. /\ Cardinality(Held) = Cardinality(H) + 1
        /\ Cardinality(Elem \ Held) = Cardinality(Elem \ H) - 1
        /\ Cardinality(H) \in Nat /\ Cardinality(Elem \ H) \in Nat
    BY Zenon, <2>1, HeldCount
  <2>3. QED
    BY <1>1, <1>4, <2>2 DEF ZInv, ZoneCounts
<1>13. ElementIsNew'
  BY Zenon, <1>1, <1>3 DEF ZInv, ElementIsNew
<1>14. A!Free(c)
  BY Zenon, <1>1 DEF A!Free
<1>15. QED
  BY Zenon, <1>9, <1>10, <1>11, <1>12, <1>13, <1>14 DEF ZInv

(* A zfree that finds nothing, or a halted kernel, leaves the zone alone.  *)
LEMMA ZStill ==
  ASSUME ZInv, UNCHANGED <<links, count, count_free, fresh, meta, holds>>,
         panicked' \in BOOLEAN
  PROVE  ZInv'
<1>1. Held' = Held /\ OnFree' = OnFree
  BY Zenon DEF Held, OnFree
<1>2. ZoneTypes'
  BY Zenon DEF ZInv, ZoneTypes
<1>3. ZoneLists' /\ OneZalloc' /\ ZoneCounts' /\ ElementIsNew'
  BY Zenon, <1>1 DEF ZInv, ZoneLists, OneZalloc, ZoneCounts, ElementIsNew
<1>4. QED
  BY Zenon, <1>2, <1>3 DEF ZInv

(* Every step keeps the invariant and is a step of Allocator or none.      *)
LEMMA ZStep ==
  ASSUME Serial, ~ Exhaust, ZInv, [Next]_vars
  PROVE  ZInv' /\ [A!Next]_holds
<1>1. CASE zone_create_elem
  BY Zenon, <1>1, ZCreate DEF zone_create_elem
<1>2. CASE Halted \/ UNCHANGED vars
  BY Zenon, <1>2, ZStill DEF Halted, vars, ZInv, ZoneTypes
<1>3. ASSUME NEW c \in Client, zalloc_first(c) PROVE ZInv' /\ [A!Next]_holds
  BY Zenon, <1>3, ZFirst DEF zalloc_first
<1>4. ASSUME NEW c \in Client, zalloc_move(c) PROVE ZInv' /\ [A!Next]_holds
  BY Zenon, <1>4, ZMove DEF A!Next
<1>5. ASSUME NEW c \in Client, NEW e \in holds[c], zfree(c, e)
      PROVE  ZInv' /\ [A!Next]_holds
  BY Zenon, <1>5, ZFree DEF A!Next
<1>6. ASSUME NEW c \in Client, NEW e \in Elem, zfree_missing(c, e)
      PROVE  ZInv' /\ [A!Next]_holds
  <2>1. panicked' \in BOOLEAN
    BY <1>6, Zenon DEF zfree_missing
  <2>2. QED
    BY Zenon, <1>6, <2>1, ZStill DEF zfree_missing
<1>7. QED
  BY Zenon, <1>1, <1>2, <1>3, <1>4, <1>5, <1>6 DEF Next, Free

(* zalloc and zfree keep the invariant of a zone.                          *)
THEOREM ZoneInductive ==
  ASSUME Serial, ~ Exhaust PROVE Spec => []ZInv
<1>1. Init => ZInv
  BY Zenon, ZInit
<1>2. ZInv /\ [Next]_vars => ZInv'
  BY Zenon, ZStep
<1>3. QED
  BY <1>1, <1>2, PTL DEF Spec

(* The counters of the zone never leave 0..max.                            *)
THEOREM ZoneTypeOK ==
  ASSUME Serial, ~ Exhaust PROVE Spec => []TypeOK
<1>1. ZInv => TypeOK
  <2> SUFFICES ASSUME ZInv PROVE TypeOK
    BY Zenon
  <2>1. Held \in SUBSET Elem /\ Elem \ Held \in SUBSET Elem
    BY Zenon DEF ZInv, ZoneTypes, Held
  <2>2. \A H \in SUBSET Elem : Cardinality(H) \in 0..Cardinality(Elem)
    BY ZallocFacts, FS_Subset, FS_CardinalityType
  <2>3. count \in 0..Cardinality(Elem) /\ count_free \in 0..Cardinality(Elem)
    BY Zenon, <2>1, <2>2 DEF ZInv, ZoneCounts
  <2>4. QED
    BY Zenon, <2>3 DEF TypeOK, ZInv, ZoneTypes, Links, Node
<1>2. QED
  BY <1>1, ZoneInductive, PTL

(* list_for_each_entry over the used list meets what the clients hold, the *)
(* rest is on the free list, and the counters count both.                  *)
THEOREM ZoneListsCounted ==
  ASSUME Serial, ~ Exhaust PROVE Spec => []ZoneAccounted
<1>1. ZInv => ZoneAccounted
  <2> SUFFICES ASSUME ZInv, fresh = {} PROVE
        /\ Entries(USED) = Held /\ Entries(FREE) = Elem \ Held
        /\ count = Cardinality(Held) /\ count_free = Cardinality(Elem \ Held)
    BY Zenon DEF ZoneAccounted
  <2> USE ZallocFacts
  <2>1. OnFree = Elem \ Held /\ Held \in SUBSET Elem
    BY Zenon DEF OnFree, Held, ZInv, ZoneTypes
  <2>2. Entries(USED) = (Held \cup {USED}) \ {USED}
    BY Zenon, <2>1, EntriesOfRing DEF ZInv, ZoneLists, Node
  <2>3. Entries(FREE) = (OnFree \cup {FREE}) \ {FREE}
    BY Zenon, <2>1, EntriesOfRing DEF ZInv, ZoneLists, Node
  <2>4. QED
    BY Zenon, <2>1, <2>2, <2>3 DEF ZInv, ZoneCounts
<1>2. QED
  BY <1>1, ZoneInductive, PTL

(* A zone implements Allocator: zalloc hands out an element nobody holds   *)
(* and only its holder gives it back.                                      *)
THEOREM ZoneRefines ==
  ASSUME Serial, ~ Exhaust PROVE Spec => Refines
<1>1. Init => A!Init
  BY Zenon DEF Init, A!Init
<1>2. ZInv /\ [Next]_vars => [A!Next]_holds
  BY Zenon, ZStep
<1>3. QED
  BY <1>1, <1>2, ZoneInductive, PTL DEF Spec, Refines, A!Spec
=============================================================================
