------------------------------- MODULE VmMap --------------------------------
(***************************************************************************)
(* The kernel's virtual memory map, kern/vm/vm_map.c: vm_map_alloc and the *)
(* vm_map_entry_create calls it makes, from the state vm_configure leaves  *)
(* (one entry, for the kernel image).                                      *)
(*                                                                         *)
(* vm_map_alloc reads the last entry, then allocates and maps page after   *)
(* page, then appends its entries; IRQs are not masked, and vm_map_lock    *)
(* only sets a bit nobody tests.  With Serial the clients take turns.      *)
(* vm_page_alloc is module VmPage: here it numbers the pages it returns.   *)
(* A guard page is filled through the address it was given, so these steps *)
(* need that address to be accessible; module Kmem has the fault.          *)
(***************************************************************************)
EXTENDS MemConfig, Sequences

VM_TRUE  == 1
VM_FALSE == 0
GUARD_FIRST  == "first"
GUARD_LAST   == "last"

VARIABLES
  entries,       \* map->entries: [base, size (less one), guard]
  size,          \* map->size
  nentries,      \* map->nentries
  pages,         \* number of pages vm_page_alloc has returned
  tte,           \* the table at &map->pmap: [block, page] of its entries
  at,            \* where each client is in vm_map_alloc
  call,          \* the arguments and local variables of that call
  allocs         \* history: [base, size, flags] of the calls that returned

mapVars == <<entries, size, nentries>>
vars == <<mapVars, pages, tte, at, call, allocs>>

Entry(base, len, guard) == [base |-> base, size |-> len - 1, guard |-> guard]
End(e) == e.base + e.size + 1

(* The arguments and local variables of a call; todo pages are still to be mapped. *)
Frame(len, flags, vbase, vcursor, todo) ==
  [size |-> len, flags |-> flags, vbase |-> vbase, vcursor |-> vcursor, todo |-> todo]

(* vm_map_create, and the entry vm_configure makes for the kernel. *)
Init ==
  /\ entries = <<Entry(Base, KernSize, VM_FALSE)>>
  /\ size = KernSize /\ nentries = 1
  /\ pages = 0 /\ tte = {} /\ allocs = {}
  /\ at = [c \in Client |-> "out"] /\ call = [c \in Client |-> Frame(0, {}, 0, 0, 0)]

VM_ALIGN_ADDR(addr) == ((addr + 3) \div 4) * 4

Step(c, from, to) == at[c] = from /\ at' = [at EXCEPT ![c] = to]
Idle == Serial => \A c \in Client : at[c] = "out"

vm_map_entry_create(base, len, guard) ==
  /\ entries' = Append(entries, Entry(base, len, guard))
  /\ size' = size + len /\ nentries' = nentries + 1

(* vm_page_alloc and pmap_tt_create_tte for the page at va.  The entry is   *)
(* the block that holds va, so it replaces the one of an earlier page; and *)
(* the table is the memory at &map->pmap, not the one kernel_tte is.       *)
Map(va) ==
  LET block == va \div TT_L2_SIZE IN
  /\ pages' = pages + 1
  /\ tte' = {x \in tte : x.block # block} \cup {[block |-> block, page |-> pages]}

(* TTBR1 has kernel_tte, in which arm_vm_init mapped the image block by    *)
(* block: what can be accessed is what those blocks hold, whatever Map     *)
(* wrote elsewhere.                                                        *)
Accessible(va) ==
  va \div TT_L2_SIZE - Base \div TT_L2_SIZE \in 0..((KernSize - 1) \div TT_L2_SIZE)

(* vm_guard_page_fill writes all of the page at va. *)
vm_guard_page_fill(va) == Accessible(va) /\ Accessible(va + VM_PAGE_SIZE - 1)

page_count(len) == IF len < VM_PAGE_SIZE THEN 1 ELSE len \div VM_PAGE_SIZE

vm_map_alloc(c, len, flags) ==
  LET last == entries[Len(entries)]
      base == VM_ALIGN_ADDR(last.base + last.size + 1) IN
  /\ Step(c, "out", IF GUARD_FIRST \in flags THEN "first" ELSE "pages") /\ Idle
  /\ Len(entries) <= MaxEntries
  /\ call' = [call EXCEPT ![c] = Frame(len, flags, base, base, page_count(len))]
  /\ UNCHANGED <<mapVars, pages, tte, allocs>>

(* Mutant: the cursor stays on the guard page. *)
alloc_guard_first_stay(c) ==
  LET v == call[c].vcursor IN
  /\ Step(c, "first", "pages")
  /\ Map(v) /\ vm_map_entry_create(v, VM_PAGE_SIZE, VM_TRUE)
  /\ vm_guard_page_fill(v)
  /\ UNCHANGED <<call, allocs>>

alloc_guard_first(c) ==
  LET k == call[c]
      v == k.vcursor + VM_PAGE_SIZE IN
  /\ Step(c, "first", "pages")
  /\ Map(k.vcursor) /\ vm_map_entry_create(k.vcursor, VM_PAGE_SIZE, VM_TRUE)
  /\ vm_guard_page_fill(k.vcursor)
  /\ call' = [call EXCEPT ![c] = Frame(k.size, k.flags, v, v, k.todo)]
  /\ UNCHANGED allocs

alloc_page(c) ==
  LET k == call[c] IN
  /\ Step(c, "pages", "pages") /\ k.todo > 0
  /\ Map(k.vcursor)
  /\ call' = [call EXCEPT ![c] = Frame(k.size, k.flags, k.vbase, k.vcursor + VM_PAGE_SIZE, k.todo - 1)]
  /\ UNCHANGED <<mapVars, allocs>>

Returned(c) == [base |-> call[c].vbase, size |-> call[c].size, flags |-> call[c].flags]

(* Mutant: the entry has the size that was asked for. *)
alloc_entry_bare(c) ==
  LET guarded == GUARD_LAST \in call[c].flags IN
  /\ Step(c, "pages", IF guarded THEN "last" ELSE "out") /\ call[c].todo = 0
  /\ vm_map_entry_create(call[c].vbase, call[c].size, VM_FALSE)
  /\ allocs' = IF guarded THEN allocs ELSE allocs \cup {Returned(c)}
  /\ UNCHANGED <<pages, tte, call>>

(* The entry of the allocation; without a last guard page the call returns. *)
alloc_entry(c) ==
  LET guarded == GUARD_LAST \in call[c].flags IN
  /\ Step(c, "pages", IF guarded THEN "last" ELSE "out") /\ call[c].todo = 0
  /\ vm_map_entry_create(call[c].vbase, page_count(call[c].size) * VM_PAGE_SIZE, VM_FALSE)
  /\ allocs' = IF guarded THEN allocs ELSE allocs \cup {Returned(c)}
  /\ UNCHANGED <<pages, tte, call>>

alloc_guard_last(c) ==
  /\ Step(c, "last", "out")
  /\ Map(call[c].vcursor) /\ vm_guard_page_fill(call[c].vcursor)
  /\ vm_map_entry_create(call[c].vcursor, VM_PAGE_SIZE, VM_TRUE)
  /\ allocs' = allocs \cup {Returned(c)}
  /\ UNCHANGED call

Done == \A c \in Client : at[c] = "out"

(* The bound is reached. *)
Finished == Done /\ Len(entries) > MaxEntries /\ UNCHANGED vars

Next == \/ Finished
        \/ \E c \in Client :
             \/ \E len \in Size, flags \in SUBSET {GUARD_FIRST, GUARD_LAST} :
                  vm_map_alloc(c, len, flags)
             \/ alloc_guard_first(c) \/ alloc_page(c) \/ alloc_entry(c) \/ alloc_guard_last(c)

Spec == Init /\ [][Next]_vars
-----------------------------------------------------------------------------
(* The entries follow one another in the order they were made: each starts *)
(* at or after the end of every earlier one, so no two overlap.            *)
EntriesSequential ==
  \A i, j \in DOMAIN entries : i < j => End(entries[i]) <= entries[j].base

(* Once no call is in progress every page vm_page_alloc returned to        *)
(* vm_map_alloc is counted in the size of the map, guard pages included.   *)
PagesAccounted == Done => size = KernSize + pages * VM_PAGE_SIZE

(* Each guard flag an allocation was made with has its guard entry: right  *)
(* below the allocation's base, or right above its last page.              *)
AllocationsGuarded ==
  \A a \in allocs : \A f \in a.flags :
    LET v == IF f = GUARD_FIRST THEN a.base - VM_PAGE_SIZE
             ELSE a.base + page_count(a.size) * VM_PAGE_SIZE IN
    \E i \in DOMAIN entries : entries[i] = Entry(v, VM_PAGE_SIZE, VM_TRUE)
-----------------------------------------------------------------------------
(* The inductive invariant (VmMapProofs).                                  *)
EntryType == [base : Nat, size : Nat, guard : {VM_TRUE, VM_FALSE}]
Flags     == SUBSET {GUARD_FIRST, GUARD_LAST}
CallType  == [size : Nat, flags : Flags, vbase : Nat, vcursor : Nat, todo : Nat]

Top(E) == End(E[Len(E)])

HasGuard(E, v) == \E i \in DOMAIN E : E[i] = Entry(v, VM_PAGE_SIZE, VM_TRUE)

MapTypes ==
  /\ entries \in Seq(EntryType) /\ Len(entries) > 0
  /\ at \in [Client -> {"out", "first", "pages", "last"}]
  /\ call \in [Client -> CallType]

(* Where the call of client c stands. *)
CallInv(c) ==
  LET k == call[c] IN
  /\ at[c] # "out" => \A d \in Client : d # c => at[d] = "out"
  /\ at[c] \in {"first", "pages"} => Top(entries) <= k.vbase
  /\ at[c] = "first" => k.vcursor = k.vbase /\ k.todo = page_count(k.size)
  /\ at[c] \in {"pages", "last"} =>
       /\ k.vcursor + k.todo * 4096 = k.vbase + page_count(k.size) * 4096
       /\ GUARD_FIRST \in k.flags => HasGuard(entries, k.vbase - 4096)
  /\ at[c] = "last" => k.todo = 0 /\ Top(entries) <= k.vcursor

MapInv ==
  /\ MapTypes /\ EntriesSequential /\ AllocationsGuarded
  /\ \A c \in Client : CallInv(c)

(* Where an allocation ends.                                               *)
AllocEnd(a) == a.base + page_count(a.size) * VM_PAGE_SIZE

(* The allocations of A lie above the kernel and below b, one by one.      *)
AllocsBelow(A, b) ==
  /\ \A a \in A : /\ a.base \in Nat /\ a.size \in Nat /\ Base + KernSize <= a.base
                  /\ AllocEnd(a) <= b
  /\ \A x, y \in A : x = y \/ AllocEnd(x) <= y.base \/ AllocEnd(y) <= x.base

(* An entry of n pages from v on that is no guard page.                    *)
HasEntry(E, v, n) == \E i \in DOMAIN E : E[i] = Entry(v, n * VM_PAGE_SIZE, VM_FALSE)

(* What the call of client c has done.                                     *)
CallLayout(c) ==
  LET k == call[c] IN
  /\ at[c] # "out" => Base + KernSize <= k.vbase /\ AllocsBelow(allocs, k.vbase)
  /\ at[c] \in {"first", "last"} => size = KernSize + pages * VM_PAGE_SIZE
  /\ at[c] = "pages" => size + (page_count(k.size) - k.todo) * VM_PAGE_SIZE = KernSize + pages * VM_PAGE_SIZE
  /\ at[c] = "last" => HasEntry(entries, k.vbase, page_count(k.size))

LayoutInv ==
  /\ pages \in Nat /\ size \in Nat /\ Base + KernSize <= Top(entries)
  /\ AllocsBelow(allocs, Top(entries))
  /\ \A a \in allocs : HasEntry(entries, a.base, page_count(a.size))
  /\ Done => size = KernSize + pages * VM_PAGE_SIZE
  /\ \A c \in Client : CallLayout(c)
=============================================================================
