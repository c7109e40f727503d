------------------------------- MODULE VmPage -------------------------------
(***************************************************************************)
(* The physical page allocator, kern/vm/vm_page.c: vm_page_bootstrap, then *)
(* vm_page_alloc and vm_page_free in any order by any of the clients.      *)
(*                                                                         *)
(* vm_page_alloc searches the page structures with IRQs unmasked and then  *)
(* marks the one it found, so another client can come between; with Serial *)
(* the clients take turns.  Addresses are byte addresses.                  *)
(***************************************************************************)
EXTENDS MemConfig

POINTER_SIZE == 8        \* what pointer arithmetic scales by

FREE  == "free"
ALLOC == "alloc"

page_count == phys_page_count

VARIABLES
  pages,         \* vm_page_region: page structures by index
  booted,        \* vm_page_bootstrap has returned
  at,            \* where each client is in vm_page_alloc
  last,          \* local variable of vm_page_alloc: the index it stopped at
  owns,          \* history: the physical addresses each client has been given
  panicked

vars == <<pages, booted, at, last, owns, panicked>>

Init ==
  /\ pages = [i \in {} |-> FREE] /\ booted = FALSE /\ panicked = FALSE
  /\ at = [c \in Client |-> "out"] /\ last = [c \in Client |-> 0]
  /\ owns = [c \in Client |-> {}]

(* The address of page i and of the end of the structure region, which     *)
(* the code computes as a number of vm_address_t.                          *)
paddr(i) == MemBase + i * VM_PAGE_SIZE
region_upper_bound == region_size * POINTER_SIZE

(* __vm_page_alloc_internal succeeds for structure i.                      *)
InRegion(i) == i * VM_PAGE_STRUCT_SIZE < region_upper_bound

(* The first page, then one for each turn of the loop, then the kernel's.  *)
vm_page_bootstrap ==
  /\ ~ booted /\ booted' = TRUE
  /\ LET made == {i \in 0..page_count : \A j \in 1..i : InRegion(j)} IN
       /\ pages' = [i \in made |-> IF i < kern_page_count THEN ALLOC ELSE FREE]
       /\ panicked' = (made # 0..page_count)
  /\ UNCHANGED <<at, last, owns>>

Ready == booted /\ ~ panicked
Idle  == Serial => \A c \in Client : at[c] = "out"

Step(c, from, to) == Ready /\ at[c] = from /\ at' = [at EXCEPT ![c] = to]

IsFree(i) == pages[i] = FREE

(* The loop stops at the first free page, or runs on to the last page.     *)
vm_page_alloc_find(c) ==
  /\ Step(c, "out", "test") /\ Idle
  /\ \E i \in DOMAIN pages :
       /\ IsFree(i) \/ i + 1 \notin DOMAIN pages
       /\ \A j \in DOMAIN pages : j < i => ~ IsFree(j)
       /\ last' = [last EXCEPT ![c] = i]
  /\ UNCHANGED <<pages, booted, owns, panicked>>

vm_page_alloc_fail(c) ==
  /\ Step(c, "test", "out")
  /\ ~ IsFree(last[c])
  /\ panicked' = TRUE
  /\ UNCHANGED <<pages, booted, last, owns>>

vm_page_alloc_test(c) ==
  /\ Step(c, "test", "mark")
  /\ IsFree(last[c])
  /\ UNCHANGED <<pages, booted, last, owns, panicked>>

vm_page_alloc_mark(c) ==
  /\ Step(c, "mark", "out")
  /\ pages' = [pages EXCEPT ![last[c]] = ALLOC]
  /\ owns'  = [owns EXCEPT ![c] = @ \cup {paddr(last[c])}]
  /\ UNCHANGED <<booted, last, panicked>>

(* The index vm_page_free computes, and trusts to be one of the region.    *)
free_idx(p) == (p - PhysBase) \div VM_PAGE_SIZE

(* Mutant: the index is one too high. *)
vm_page_free_next(c, p) ==
  /\ Step(c, "out", "out") /\ Idle
  /\ free_idx(p) + 1 \in DOMAIN pages
  /\ pages' = [pages EXCEPT ![free_idx(p) + 1] = FREE]
  /\ owns'  = [owns EXCEPT ![c] = @ \ {p}]
  /\ UNCHANGED <<booted, last, panicked>>

vm_page_free(c, p) ==
  /\ Step(c, "out", "out") /\ Idle
  /\ free_idx(p) \in DOMAIN pages
  /\ pages' = [pages EXCEPT ![free_idx(p)] = FREE]
  /\ owns'  = [owns EXCEPT ![c] = @ \ {p}]
  /\ UNCHANGED <<booted, last, panicked>>

(* panic does not return.  It may be called elsewhere, between two steps. *)
Halted == panicked /\ UNCHANGED vars
PanicElsewhere == ~ panicked /\ panicked' = TRUE /\ UNCHANGED <<pages, booted, at, last, owns>>

(* A client frees only what it was given. *)
Next == \/ vm_page_bootstrap \/ Halted \/ PanicElsewhere
        \/ \E c \in Client : \/ vm_page_alloc_find(c) \/ vm_page_alloc_fail(c)
                             \/ vm_page_alloc_test(c) \/ vm_page_alloc_mark(c)
                             \/ \E p \in owns[c] : vm_page_free(c, p)

Spec == Init /\ [][Next]_vars
-----------------------------------------------------------------------------
(* One structure for every page, and no search ends outside of them.      *)
TypeOK ==
  /\ pages \in [IF booted THEN 0..page_count ELSE {} -> {FREE, ALLOC}]
  /\ booted \in BOOLEAN /\ panicked \in BOOLEAN
  /\ at \in [Client -> {"out", "test", "mark"}] /\ last \in [Client -> 0..page_count]
  /\ owns \in [Client -> SUBSET {paddr(i) : i \in 0..page_count}]

Kernel == {paddr(i) : i \in 0..(kern_page_count - 1)}

(* A physical page has at most one owner, and the pages of the kernel and  *)
(* of the page structures are never given away, whatever is allocated and  *)
(* freed: what "allocate a new physical memory page" means.                *)
PagesExclusive ==
  /\ \A c, d \in Client : c # d => owns[c] \cap owns[d] = {}
  /\ \A c \in Client : owns[c] \cap Kernel = {}

(* Freeing a page makes it available again: a page that is neither the     *)
(* kernel's, nor owned, nor being allocated, is free.                      *)
FreedPagesFree ==
  \A i \in DOMAIN pages :
    \/ IsFree(i) \/ paddr(i) \in Kernel
    \/ \E c \in Client : paddr(i) \in owns[c]
-----------------------------------------------------------------------------
(* The inductive invariant (KmemInvariant): one search at a time, of a page *)
(* that is still free when it is marked, and owned pages are marked.       *)
PageInv ==
  /\ TypeOK
  /\ \A c \in Client : at[c] # "out" =>
       booted /\ \A d \in Client : d # c => at[d] = "out"
  /\ \A c \in Client : at[c] = "mark" => pages[last[c]] = FREE
  /\ booted => \A i \in 0..page_count : i < kern_page_count => pages[i] = ALLOC
  /\ \A c \in Client : \A i \in 0..page_count :
       paddr(i) \in owns[c] => i >= kern_page_count /\ booted /\ pages[i] = ALLOC
  /\ \A c, d \in Client : c # d => owns[c] \cap owns[d] = {}
  /\ FreedPagesFree
=============================================================================
