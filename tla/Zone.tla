-------------------------------- MODULE Zone --------------------------------
(***************************************************************************)
(* The zones of kern/mm/zalloc.c: zone_init, and zone_create with its      *)
(* choice of a descriptor and its arithmetic.  What happens inside a zone  *)
(* is module Zalloc; vm_map_alloc, which zone_create calls in the middle,  *)
(* is module VmMap, and module Kmem joins the two.  Zones are made during  *)
(* boot, by one caller.                                                    *)
(***************************************************************************)
EXTENDS MemConfig, FiniteSets

METADATA_SIZE == 16            \* sizeof(struct zone_alloc_metadata)

Slot == 0..(MAX_NUM_ZONES - 1)

VARIABLES
  used,              \* descriptors whose state is ZONE_STATE_USED
  zone_array,        \* the fields of each descriptor
  num_zones_used,
  panicked

Unused == [elem_size |-> 0, count_free |-> 0, page_count |-> 0, base |-> 0, index |-> 0]

(* zone_init *)
Init ==
  /\ used = {} /\ zone_array = [i \in Slot |-> Unused]
  /\ num_zones_used = 0 /\ panicked = FALSE

Free == Slot \ used

(* The first unused descriptor. *)
FirstFree(i) == i \in Free /\ \A j \in Free : i <= j

count_free(size, max) == max \div size

(* Mutant: the metadata structs are left out. *)
page_count_bare(size, max) ==
  LET whole == (count_free(size, max) * size) \div VM_PAGE_SIZE
  IN  IF whole = 0 THEN 1 ELSE whole

page_count(size, max) ==
  LET whole == (count_free(size, max) * size + max * METADATA_SIZE) \div VM_PAGE_SIZE
  IN  IF whole = 0 THEN 1 ELSE whole

(* vm_map_alloc has returned base. *)
zone_create(size, max, base) ==
  /\ ~ panicked /\ size # 0 /\ max # 0
  /\ \E i \in Slot :
       /\ FirstFree(i)
       /\ used' = used \cup {i}
       /\ zone_array' = [zone_array EXCEPT ![i] =
            [elem_size |-> size, count_free |-> count_free(size, max),
             page_count |-> page_count(size, max), base |-> base, index |-> i]]
  /\ num_zones_used' = num_zones_used + 1
  /\ UNCHANGED panicked

(* No descriptor left, or an argument that is 0: panic. *)
zone_create_fail(size, max) ==
  /\ ~ panicked /\ (Free = {} \/ size = 0 \/ max = 0)
  /\ panicked' = TRUE
  /\ UNCHANGED <<used, zone_array, num_zones_used>>
-----------------------------------------------------------------------------
(* Metadata struct and data of an element. *)
block_size(z) == z.elem_size + METADATA_SIZE

(* The elements of a zone lie in the pages allocated for it, what          *)
(* zone_create is documented to ensure: enough pages for the zone size,    *)
(* plus metadata structures.                                               *)
ElementsFit ==
  \A i \in used : LET z == zone_array[i] IN
    z.count_free * block_size(z) <= z.page_count * VM_PAGE_SIZE

(* No element of one zone shares a byte with an element of another: each   *)
(* zone ends before the next begins.                                       *)
ElementsApart ==
  \A i, j \in used : LET y == zone_array[i]  z == zone_array[j] IN
    i # j => \/ y.base + y.count_free * block_size(y) <= z.base
             \/ z.base + z.count_free * block_size(z) <= y.base

(* The descriptors in use are the first num_zones_used ones, each holding  *)
(* its own index: none is skipped and none is used twice.                  *)
DescriptorsInOrder ==
  /\ used = 0..(num_zones_used - 1)
  /\ \A i \in used : zone_array[i].index = i
-----------------------------------------------------------------------------
(* The bytes from the base of a zone that its elements take.               *)
Extent(z) == z.count_free * block_size(z)

Descriptor == [elem_size : Nat, count_free : Nat, page_count : Nat, base : Nat, index : Nat]

(* The inductive invariant (KmemInvariant).                                *)
ZoneInv ==
  /\ used \subseteq Slot /\ zone_array \in [Slot -> Descriptor]
  /\ num_zones_used \in Nat
  /\ used = 0..(num_zones_used - 1)
  /\ \A i \in used :
       /\ zone_array[i].index = i /\ Extent(zone_array[i]) \in Nat
       /\ Extent(zone_array[i]) <= zone_array[i].page_count * 4096
=============================================================================
