----------------------------- MODULE MemConfig ------------------------------
(***************************************************************************)
(* What the memory modules are told: the memory map the loader passes, the *)
(* callers of the allocators and what they ask for.                        *)
(***************************************************************************)
EXTENDS Integers

CONSTANTS
  MemBase,       \* argument membase of vm_page_bootstrap: kernel_phys_base
  PhysBase,      \* memory_phys_base, from which vm_page_free counts
  MemSize,       \* memory_phys_size
  KernSize,      \* kernel_phys_size
  Base,          \* kernel_virt_base
  TT_L2_SIZE,    \* bytes a level 2 entry maps: 2 MB in the source
  Size,          \* sizes vm_map_alloc is asked for
  MaxEntries,    \* bound: no allocation starts with more map entries
  MAX_NUM_ZONES, \* 12 in the source
  Request,       \* the pairs <<size, max>> zone_create is called with
  Client,        \* callers of the allocators
  Serial         \* TRUE when callers take turns

VM_PAGE_SIZE        == 4096
VM_PAGE_STRUCT_SIZE == 40       \* sizeof(vm_page_t)

(* Of vm_page_bootstrap: pages of memory, their structures, and the pages  *)
(* of the kernel and of these.                                             *)
phys_page_count == MemSize \div VM_PAGE_SIZE
region_size     == phys_page_count * VM_PAGE_STRUCT_SIZE
kern_page_count == (KernSize + region_size) \div VM_PAGE_SIZE + 1

ASSUME VmPageAssumption ==
  /\ MemBase \in Nat /\ PhysBase \in 0..MemBase /\ MemSize \in Nat /\ KernSize \in Nat
  /\ phys_page_count > 0 /\ kern_page_count <= phys_page_count
  /\ Serial \in BOOLEAN

ASSUME VmMapAssumption ==
  /\ Base \in Nat /\ KernSize \in Nat \ {0} /\ TT_L2_SIZE \in Nat \ {0}
  /\ Size \in SUBSET (Nat \ {0}) /\ MaxEntries \in Nat
  /\ Serial \in BOOLEAN

ASSUME ZoneAssumption ==
  MAX_NUM_ZONES \in Nat \ {0} /\ Request \in SUBSET (Nat \X Nat)

(* Elements of at least three bytes, as every zone of the kernel has.      *)
LargeRequests == \A r \in Request : r[1] = 0 \/ r[1] >= 3
=============================================================================
