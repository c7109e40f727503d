------------------------------- MODULE Zalloc -------------------------------
(***************************************************************************)
(* One zone of the zone allocator, kern/mm/zalloc.c: the loop of           *)
(* zone_create that fills the free list, zalloc and zfree, on the linked   *)
(* lists of module List.                                                   *)
(*                                                                         *)
(* A metadata struct and the element that follows it are one value.        *)
(* zalloc reads the head of the free list and then moves what it read; it  *)
(* runs with IRQs unmasked in thread_create, so another client can come    *)
(* between.  zfree is one step: thread_destroy masks IRQs around it.  With *)
(* Serial the clients do not overlap, as in module Sched.                  *)
(***************************************************************************)
EXTENDS Integers, FiniteSets, List

CONSTANTS
  Elem,        \* the metadata structs in the pages of the zone
  FREE,        \* &zone->free_elems
  USED,        \* &zone->used_elems
  Client,      \* the callers of zalloc and zfree
  Serial,      \* clients do not overlap
  Exhaust      \* may zalloc be called when no element is free

ASSUME ZallocAssumption ==
  /\ IsFiniteSet(Elem)
  /\ FREE # USED /\ FREE \notin Elem /\ USED \notin Elem
  /\ NULL \notin Elem \cup {FREE, USED}
  /\ Serial \in BOOLEAN /\ Exhaust \in BOOLEAN

VARIABLES
  links,       \* zone_alloc_metadata.alloc of every element, and both heads
  count,       \* zone->count
  count_free,  \* zone->count_free
  fresh,       \* elements zone_create has not put on the free list yet
  meta,        \* local variable of the zalloc a client is in, NULL outside
  holds,       \* history: the elements each client has and has not freed
  panicked

vars == <<links, count, count_free, fresh, meta, holds, panicked>>

Node == Elem \cup {FREE, USED}
Held == UNION {holds[c] : c \in Client}

(* Entries met by list_for_each_entry from head. *)
Entries(head) ==
  {n \in Node \ {head} : \A S \in SUBSET Node : Traversal(links, head, S) => n \in S}

(* zone_create up to its loop: counters set, both lists empty. *)
Init ==
  /\ links = [next |-> [n \in Node |-> IF n \in {FREE, USED} THEN n ELSE NULL],
              prev |-> [n \in Node |-> IF n \in {FREE, USED} THEN n ELSE NULL]]
  /\ count = 0 /\ count_free = Cardinality(Elem)
  /\ fresh = Elem /\ panicked = FALSE
  /\ meta = [c \in Client |-> NULL]
  /\ holds = [c \in Client |-> {}]

(* One turn of the loop of zone_create. *)
zone_create_elem ==
  /\ \E e \in fresh :
       /\ links' = list_add_tail(links, e, FREE)
       /\ fresh' = fresh \ {e}
  /\ UNCHANGED <<count, count_free, meta, holds, panicked>>

Ready == fresh = {} /\ ~ panicked
Idle  == Serial => \A c \in Client : meta[c] = NULL

zalloc_first(c) ==
  /\ Ready /\ meta[c] = NULL /\ Idle
  /\ Exhaust \/ ~ list_empty(links, FREE)
  /\ meta' = [meta EXCEPT ![c] = list_first_entry(links, FREE)]
  /\ UNCHANGED <<links, count, count_free, fresh, holds, panicked>>

(* Mutant: the element stays on the free list. *)
zalloc_move_copy(c) ==
  /\ Ready /\ meta[c] # NULL
  /\ count' = count + 1 /\ count_free' = count_free - 1
  /\ holds' = [holds EXCEPT ![c] = @ \cup {meta[c]}]
  /\ meta' = [meta EXCEPT ![c] = NULL]
  /\ UNCHANGED <<links, fresh, panicked>>

zalloc_move(c) ==
  /\ Ready /\ meta[c] # NULL
  /\ links' = list_move(links, meta[c], USED)
  /\ count' = count + 1 /\ count_free' = count_free - 1
  /\ holds' = [holds EXCEPT ![c] = @ \cup {meta[c]}]
  /\ meta' = [meta EXCEPT ![c] = NULL]
  /\ UNCHANGED <<fresh, panicked>>

(* Mutant: the element leaves the used list and joins no other. *)
zfree_lost(c, e) ==
  /\ Ready /\ meta[c] = NULL /\ Idle
  /\ e \in Entries(USED)
  /\ links' = list_del(links, e)
  /\ count' = count - 1 /\ count_free' = count_free + 1
  /\ holds' = [holds EXCEPT ![c] = @ \ {e}]
  /\ UNCHANGED <<fresh, meta, panicked>>

(* zfree finds the element on the used list. *)
zfree(c, e) ==
  /\ Ready /\ meta[c] = NULL /\ Idle
  /\ e \in Entries(USED)
  /\ links' = list_move(links, e, FREE)
  /\ count' = count - 1 /\ count_free' = count_free + 1
  /\ holds' = [holds EXCEPT ![c] = @ \ {e}]
  /\ UNCHANGED <<fresh, meta, panicked>>

(* It reaches the last entry without finding it; an empty used list has no *)
(* last entry, and the call returns without a word.                        *)
zfree_missing(c, e) ==
  /\ Ready /\ meta[c] = NULL /\ Idle
  /\ e \notin Entries(USED)
  /\ panicked' = (Entries(USED) # {})
  /\ UNCHANGED <<links, count, count_free, fresh, meta, holds>>

(* A client frees what it holds, or, by mistake, an element nobody holds.  *)
Free(c) == \/ \E e \in holds[c] : zfree(c, e)
           \/ \E e \in Elem : zfree_missing(c, e)

(* panic does not return. *)
Halted == panicked /\ UNCHANGED vars

Next == \/ zone_create_elem \/ Halted
        \/ \E c \in Client : zalloc_first(c) \/ zalloc_move(c) \/ Free(c)

Spec == Init /\ [][Next]_vars
-----------------------------------------------------------------------------
(* The links stay among the nodes of the zone, and the counters within the *)
(* number of elements: no zfree counts below zero.                         *)
TypeOK ==
  /\ links \in [next : [Node -> Node \cup {NULL}], prev : [Node -> Node \cup {NULL}]]
  /\ count \in 0..Cardinality(Elem) /\ count_free \in 0..Cardinality(Elem)
  /\ fresh \in SUBSET Elem /\ panicked \in BOOLEAN
  /\ meta \in [Client -> Node \cup {NULL}] /\ holds \in [Client -> SUBSET Elem]

(* What the zone promises: see module Allocator. *)
A == INSTANCE Allocator
Refines == A!Spec

(* Every element is on the free list or on the used list once the zone is  *)
(* filled, the used list holds what the clients hold, and the counters     *)
(* kept by zalloc and zfree count the two lists.                           *)
ZoneAccounted ==
  fresh = {} =>
    /\ Entries(USED) = Held /\ Entries(FREE) = Elem \ Held
    /\ count = Cardinality(Held) /\ count_free = Cardinality(Elem \ Held)

(* zalloc allocates a new element: no element has two holders.             *)
ElementIsNew == \A c, d \in Client : c # d => holds[c] \cap holds[d] = {}
=============================================================================
