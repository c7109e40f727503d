--------------------------- MODULE KmemInvariant ----------------------------
(***************************************************************************)
(* The invariants of the allocators on top of one another (module Kmem):   *)
(* that of the page allocator, for callers that take turns and a kernel at *)
(* the base of memory, that of the zones, and what the allocators' calls   *)
(* of one another are for.  Steps of Kmem are steps of each of its parts.  *)
(* KmemProofs has the stacks and the theorems.                             *)
(***************************************************************************)
EXTENDS Kmem, TLAPS

(* The counts vm_page_bootstrap computes are natural numbers, and the      *)
(* kernel fits in the pages.                                               *)
LEMMA PageFacts ==
  /\ P!page_count \in Nat /\ P!page_count > 0 /\ P!kern_page_count \in Nat
  /\ P!kern_page_count <= P!page_count /\ MemBase \in Nat
<1>1. P!page_count \in Nat
  BY VmPageAssumption DEF P!page_count, P!phys_page_count, P!VM_PAGE_SIZE
<1>2. P!region_size \in Nat
  BY <1>1 DEF P!page_count, P!region_size, P!VM_PAGE_STRUCT_SIZE
<1>3. P!kern_page_count \in Nat
  BY <1>2, VmPageAssumption DEF P!kern_page_count, P!VM_PAGE_SIZE
<1>4. P!kern_page_count = kern_page_count /\ P!page_count = phys_page_count
  BY DEF P!page_count, P!kern_page_count, P!phys_page_count, P!region_size, P!VM_PAGE_SIZE,
         P!VM_PAGE_STRUCT_SIZE, kern_page_count, phys_page_count, region_size, VM_PAGE_SIZE,
         VM_PAGE_STRUCT_SIZE
<1>5. QED
  BY Zenon, <1>1, <1>3, <1>4, VmPageAssumption

(* Page structures and physical addresses correspond.                      *)
LEMMA PaddrFacts ==
  /\ \A i, j \in 0..P!page_count : P!paddr(i) = P!paddr(j) => i = j
  /\ MemBase = PhysBase => \A i \in 0..P!page_count : P!free_idx(P!paddr(i)) = i
BY PageFacts DEF P!paddr, P!free_idx, P!VM_PAGE_SIZE

(* The bounds check of __vm_page_alloc_internal stops no page.             *)
LEMMA AllInRegion == \A j \in 1..P!page_count : P!InRegion(j)
BY PageFacts DEF P!InRegion, P!region_upper_bound, P!page_count, P!region_size, P!VM_PAGE_STRUCT_SIZE, P!POINTER_SIZE

(* Before vm_page_bootstrap there are no page structures.                  *)
LEMMA PageInit == P!Init => P!PageInv
<1> SUFFICES ASSUME P!Init PROVE P!PageInv
  BY Zenon
<1>1. pages = [i \in {} |-> P!FREE] /\ ~ booted /\ DOMAIN pages = {}
  BY Zenon DEF P!Init
<1>2. pages \in [{} -> {P!FREE, P!ALLOC}]
  BY Zenon, <1>1
<1>3. P!TypeOK
  <2>1. booted \in BOOLEAN /\ panicked \in BOOLEAN
    BY Zenon DEF P!Init
  <2>2. pages \in [IF booted THEN 0..P!page_count ELSE {} -> {P!FREE, P!ALLOC}]
    BY Zenon, <1>1, <1>2
  <2>3. 0 \in 0..P!page_count
    BY PageFacts
  <2>4. page_at \in [Client -> {"out", "test", "mark"}] /\ last \in [Client -> 0..P!page_count]
    BY Zenon, <2>3 DEF P!Init
  <2>5. owns \in [Client -> SUBSET {P!paddr(i) : i \in 0..P!page_count}]
    BY Zenon DEF P!Init
  <2>6. QED
    BY Zenon, <2>1, <2>2, <2>4, <2>5 DEF P!TypeOK
<1>4. P!FreedPagesFree
  BY Zenon, <1>1 DEF P!FreedPagesFree
<1>5. QED
  BY Zenon, <1>1, <1>3, <1>4 DEF P!Init, P!PageInv

(* vm_page_bootstrap marks the pages of the kernel and frees the others.   *)
LEMMA PageBoot == P!PageInv /\ P!vm_page_bootstrap => P!PageInv'
<1> SUFFICES ASSUME P!PageInv, P!vm_page_bootstrap PROVE P!PageInv'
  BY Zenon
<1> USE PageFacts
<1> DEFINE made == {i \in 0..P!page_count : \A j \in 1..i : P!InRegion(j)}
<1>1. made = 0..P!page_count
  BY AllInRegion
<1>2. /\ pages' = [i \in 0..P!page_count |-> IF i < P!kern_page_count THEN P!ALLOC ELSE P!FREE]
      /\ panicked' = FALSE /\ booted' = TRUE /\ ~ booted
  BY Zenon, <1>1 DEF P!vm_page_bootstrap
<1>3. UNCHANGED <<page_at, last, owns>>
  BY Zenon DEF P!vm_page_bootstrap
<1>4. \A c \in Client : page_at[c] = "out" /\ \A i \in 0..P!page_count : P!paddr(i) \notin owns[c]
  BY Zenon, <1>2 DEF P!PageInv
<1>5. P!TypeOK'
  BY Zenon, <1>2, <1>3 DEF P!PageInv, P!TypeOK
<1>6. P!FreedPagesFree'
  BY <1>2 DEF P!FreedPagesFree, P!IsFree, P!Kernel, P!FREE, P!ALLOC
<1>7. QED
  BY Zenon, <1>2, <1>3, <1>4, <1>5, <1>6 DEF P!PageInv

(* The search of vm_page_alloc ends at a page structure.                   *)
LEMMA PageFind ==
  ASSUME Serial, P!PageInv, NEW c \in Client, P!vm_page_alloc_find(c)
  PROVE  P!PageInv'
<1>1. booted /\ \A d \in Client : page_at[d] = "out"
  BY Zenon DEF P!vm_page_alloc_find, P!Step, P!Ready, P!Idle
<1>2. PICK i \in DOMAIN pages : last' = [last EXCEPT ![c] = i]
  BY Zenon DEF P!vm_page_alloc_find
<1>3. i \in 0..P!page_count
  BY Zenon, <1>1, <1>2 DEF P!PageInv, P!TypeOK
<1>4. page_at' = [page_at EXCEPT ![c] = "test"] /\ UNCHANGED <<pages, booted, owns, panicked>>
  BY Zenon DEF P!vm_page_alloc_find, P!Step
<1>5. P!TypeOK'
  BY Zenon, <1>2, <1>3, <1>4 DEF P!PageInv, P!TypeOK
<1>6. P!FreedPagesFree'
  BY Zenon, <1>4 DEF P!PageInv, P!FreedPagesFree, P!IsFree
<1>7. QED
  BY Zenon, <1>1, <1>2, <1>4, <1>5, <1>6 DEF P!PageInv, P!TypeOK

(* The test that follows lets only a free page through.                    *)
LEMMA PageTest ==
  ASSUME P!PageInv, NEW c \in Client, P!vm_page_alloc_test(c) \/ P!vm_page_alloc_fail(c)
  PROVE  P!PageInv'
<1>1. /\ UNCHANGED <<pages, booted, last, owns>> /\ panicked' \in BOOLEAN
      /\ page_at[c] = "test"
      /\ \/ page_at' = [page_at EXCEPT ![c] = "mark"] /\ pages[last[c]] = P!FREE
         \/ page_at' = [page_at EXCEPT ![c] = "out"]
  BY Zenon DEF P!PageInv, P!TypeOK, P!vm_page_alloc_test, P!vm_page_alloc_fail, P!Step, P!IsFree
<1>2. P!TypeOK'
  BY Zenon, <1>1 DEF P!PageInv, P!TypeOK
<1>3. P!FreedPagesFree'
  BY Zenon, <1>1 DEF P!PageInv, P!FreedPagesFree, P!IsFree
<1>4. QED
  BY <1>1, <1>2, <1>3 DEF P!PageInv, P!TypeOK

(* vm_page_alloc gives away a page that was free, so nobody owned it.      *)
LEMMA PageMark ==
  ASSUME P!PageInv, NEW c \in Client, P!vm_page_alloc_mark(c)
  PROVE  P!PageInv'
<1> USE PageFacts
<1> DEFINE k == last[c]
<1>1. /\ page_at[c] = "mark" /\ page_at' = [page_at EXCEPT ![c] = "out"]
      /\ pages' = [pages EXCEPT ![k] = P!ALLOC]
      /\ owns' = [owns EXCEPT ![c] = owns[c] \cup {P!paddr(k)}]
      /\ UNCHANGED <<booted, last, panicked>>
  BY Zenon DEF P!vm_page_alloc_mark, P!Step
<1>2. booted /\ k \in 0..P!page_count /\ pages[k] = P!FREE
      /\ \A d \in Client : d # c => page_at[d] = "out"
  BY Zenon, <1>1 DEF P!PageInv, P!TypeOK
<1>3. /\ pages \in [0..P!page_count -> {P!FREE, P!ALLOC}] /\ page_at \in [Client -> {"out", "test", "mark"}]
      /\ owns \in [Client -> SUBSET {P!paddr(i) : i \in 0..P!page_count}]
  BY Zenon, <1>2 DEF P!PageInv, P!TypeOK
<1>4. /\ k >= P!kern_page_count
      /\ \A d \in Client : P!paddr(k) \notin owns[d]
  BY <1>2 DEF P!PageInv, P!FREE, P!ALLOC
<1> HIDE DEF k
<1>5. P!TypeOK'
  BY <1>1, <1>2, <1>3 DEF P!PageInv, P!TypeOK
<1>6. \A d \in Client : \A i \in 0..P!page_count :
        P!paddr(i) \in owns'[d] => i >= P!kern_page_count /\ booted' /\ pages'[i] = P!ALLOC
  BY <1>1, <1>2, <1>3, <1>4, PaddrFacts DEF P!PageInv
<1>7. \A d, e \in Client : d # e => owns'[d] \cap owns'[e] = {}
  BY <1>1, <1>3, <1>4 DEF P!PageInv
<1>8. P!FreedPagesFree'
  <2>1. ASSUME NEW i \in 0..P!page_count
        PROVE  pages'[i] = P!FREE \/ P!paddr(i) \in P!Kernel \/ \E d \in Client : P!paddr(i) \in owns'[d]
    <3>1. pages[i] = P!FREE \/ P!paddr(i) \in P!Kernel \/ \E d \in Client : P!paddr(i) \in owns[d]
      BY Zenon, <1>3 DEF P!PageInv, P!FreedPagesFree, P!IsFree
    <3>2. \A d \in Client : owns[d] \subseteq owns'[d]
      BY Zenon, <1>1, <1>3
    <3>3. CASE i = k
      BY Zenon, <3>3, <1>1, <1>3
    <3>4. CASE i # k
      BY Zenon, <3>1, <3>2, <3>4, <1>1, <1>3
    <3>5. QED
      BY Zenon, <3>3, <3>4
  <2>2. DOMAIN pages' = 0..P!page_count
    BY Zenon, <1>1, <1>3
  <2>3. QED
    BY Zenon, <2>1, <2>2 DEF P!FreedPagesFree, P!IsFree
<1>9. \A d \in Client : page_at'[d] = "out"
  BY Zenon, <1>1, <1>2, <1>3
<1>10. \A i \in 0..P!page_count : i < P!kern_page_count => pages'[i] = P!ALLOC
  BY Zenon, <1>1, <1>2, <1>3 DEF P!PageInv
<1>11. QED
  BY Zenon, <1>5, <1>6, <1>7, <1>8, <1>9, <1>10 DEF P!PageInv

(* vm_page_free frees the page structure of the page it is given.          *)
LEMMA PageFree ==
  ASSUME Serial, MemBase = PhysBase, P!PageInv, NEW c \in Client, NEW p \in owns[c],
         P!vm_page_free(c, p)
  PROVE  P!PageInv'
<1> USE PageFacts
<1>1. booted /\ \A d \in Client : page_at[d] = "out"
  BY Zenon DEF P!vm_page_free, P!Step, P!Ready, P!Idle
<1>2. /\ pages \in [0..P!page_count -> {P!FREE, P!ALLOC}] /\ page_at \in [Client -> {"out", "test", "mark"}]
      /\ owns \in [Client -> SUBSET {P!paddr(i) : i \in 0..P!page_count}]
  BY Zenon, <1>1 DEF P!PageInv, P!TypeOK
<1>3. PICK k \in 0..P!page_count : p = P!paddr(k)
  BY Zenon, <1>2
<1>4. /\ page_at' = [page_at EXCEPT ![c] = "out"]
      /\ pages' = [pages EXCEPT ![k] = P!FREE]
      /\ owns' = [owns EXCEPT ![c] = owns[c] \ {p}]
      /\ UNCHANGED <<booted, last, panicked>>
  BY Zenon, <1>3, PaddrFacts DEF P!vm_page_free, P!Step
<1>5. k >= P!kern_page_count /\ \A d \in Client : d # c => p \notin owns[d]
  BY Zenon, <1>3 DEF P!PageInv
<1>6. P!TypeOK'
  BY Zenon, <1>1, <1>2, <1>4 DEF P!PageInv, P!TypeOK
<1>7. \A d \in Client : owns'[d] = owns[d] \ {p}
  BY Zenon, <1>2, <1>4, <1>5
<1>8. \A d \in Client : \A i \in 0..P!page_count :
        P!paddr(i) \in owns'[d] => i >= P!kern_page_count /\ booted' /\ pages'[i] = P!ALLOC
  BY Zenon, <1>1, <1>2, <1>3, <1>4, <1>7 DEF P!PageInv
<1>9. P!FreedPagesFree'
  <2>1. ASSUME NEW i \in 0..P!page_count
        PROVE  pages'[i] = P!FREE \/ P!paddr(i) \in P!Kernel \/ \E d \in Client : P!paddr(i) \in owns'[d]
    <3>1. pages[i] = P!FREE \/ P!paddr(i) \in P!Kernel \/ \E d \in Client : P!paddr(i) \in owns[d]
      BY Zenon, <1>2 DEF P!PageInv, P!FreedPagesFree, P!IsFree
    <3>2. i # k => P!paddr(i) # p
      BY Zenon, <1>3, PaddrFacts
    <3>3. QED
      BY Zenon, <3>1, <3>2, <1>2, <1>4, <1>7
  <2>2. DOMAIN pages' = 0..P!page_count
    BY Zenon, <1>2, <1>4
  <2>3. QED
    BY Zenon, <2>1, <2>2 DEF P!FreedPagesFree, P!IsFree
<1>10. \A d \in Client : page_at'[d] = "out"
  BY Zenon, <1>1, <1>2, <1>4
<1>11. \A i \in 0..P!page_count : i < P!kern_page_count => pages'[i] = P!ALLOC
  BY <1>1, <1>2, <1>4, <1>5 DEF P!PageInv
<1>12. \A d, e \in Client : d # e => owns'[d] \cap owns'[e] = {}
  BY Zenon, <1>7 DEF P!PageInv
<1>13. QED
  BY Zenon, <1>6, <1>8, <1>9, <1>10, <1>11, <1>12 DEF P!PageInv

(* Every step of the page allocator keeps the invariant.                   *)
LEMMA PageStep == ASSUME Serial, MemBase = PhysBase, P!PageInv, [P!Next]_(P!vars) PROVE P!PageInv'
<1>1. CASE UNCHANGED P!vars
  BY Zenon, <1>1 DEF P!vars, P!PageInv, P!TypeOK, P!FreedPagesFree, P!IsFree
<1>2. CASE P!PanicElsewhere
  <2>1. panicked' \in BOOLEAN
    BY <1>2, Zenon DEF P!PanicElsewhere
  <2>2. UNCHANGED <<pages, booted, page_at, last, owns>>
    BY Zenon, <1>2 DEF P!PanicElsewhere
  <2>3. QED
    BY Zenon, <2>1, <2>2 DEF P!PageInv, P!TypeOK, P!FreedPagesFree, P!IsFree
<1>3. QED
  BY Zenon, <1>1, <1>2, PageBoot, PageFind, PageTest, PageMark, PageFree DEF P!Next, P!Halted
-----------------------------------------------------------------------------
(* A step of Kmem is a step of the page allocator or leaves it alone; a    *)
(* zone_create that panics, and a data abort, are a panic elsewhere.       *)
LEMMA PagesRefined == [Next]_vars => [P!Next]_(P!vars)
<1> SUFFICES ASSUME [Next]_vars PROVE [P!Next]_(P!vars)
  BY Zenon
<1>1. CASE vm_configure
  BY Zenon, <1>1 DEF vm_configure, P!Next
<1>2. CASE ZoneCreateFails
  BY Zenon, <1>2 DEF ZoneCreateFails, Z!zone_create_fail, P!Next, P!PanicElsewhere, pageVars
<1>3. CASE Halted
  BY Zenon, <1>3 DEF Halted, vars, pageVars, P!vars
<1>4. ASSUME NEW p \in owns[PageUser], vm_page_free(p) PROVE P!Next
  BY Zenon, <1>4, KmemAssumption DEF vm_page_free, P!Next
<1>5. ASSUME NEW t \in Thread, stack_free(t) PROVE UNCHANGED P!vars
  BY Zenon, <1>5 DEF stack_free, pageVars, P!vars
<1>6. ASSUME NEW c \in Client, NEW len, NEW flags, NEW j, Calls(c, len, flags, j)
      PROVE  UNCHANGED P!vars
  BY Zenon, <1>6 DEF Calls, pageVars, P!vars
<1>7. ASSUME NEW c \in Client, vm_page_alloc(c) PROVE P!Next
  BY Zenon, <1>7 DEF vm_page_alloc, P!Next
<1>8. ASSUME NEW c \in Client, MapPage(c) PROVE P!Next
  BY Zenon, <1>8 DEF MapPage, Receive, P!Next
<1>9. ASSUME NEW c \in Client, Return(c) PROVE P!Next \/ UNCHANGED P!vars
  BY Zenon, <1>9 DEF Return, Receive, P!Next, pageVars, P!vars
<1>10. ASSUME NEW c \in Client, AllocEntry(c) PROVE UNCHANGED P!vars
  BY Zenon, <1>10 DEF AllocEntry, pageVars, P!vars
<1>11. CASE UNCHANGED vars
  BY Zenon, <1>11 DEF vars, pageVars, P!vars
<1>12. ASSUME NEW c \in Client, Faults(c) PROVE P!Next
  BY Zenon, <1>12 DEF Faults, P!Ready, P!Next, P!PanicElsewhere, pageVars
<1>13. QED
  BY Zenon, <1>1, <1>2, <1>3, <1>4, <1>5, <1>6, <1>7, <1>8, <1>9, <1>10, <1>11, <1>12
     DEF Next, vm_map_alloc, MapReturns, ZoneCreate, zone_create, ZoneReturns, stack_init,
         StackReturns, stack_alloc

(* A step of Kmem is a step of the map or leaves it alone: what            *)
(* zone_create and stack_alloc ask for is a vm_map_alloc like any other.   *)
LEMMA MapRefined == [Next]_vars => [M!Next]_(M!vars)
<1> SUFFICES ASSUME [Next]_vars PROVE [M!Next]_(M!vars)
  BY Zenon
<1>1. CASE vm_configure
  BY Zenon, <1>1 DEF vm_configure, mapVars, M!vars, M!mapVars
<1>2. CASE ZoneCreateFails
  BY Zenon, <1>2 DEF ZoneCreateFails, mapVars, M!vars, M!mapVars
<1>3. CASE Halted
  BY Zenon, <1>3 DEF Halted, vars, mapVars, M!vars, M!mapVars
<1>4. ASSUME NEW p \in owns[PageUser], vm_page_free(p) PROVE UNCHANGED M!vars
  BY Zenon, <1>4 DEF vm_page_free, mapVars, M!vars, M!mapVars
<1>5. ASSUME NEW t \in Thread, stack_free(t) PROVE UNCHANGED M!vars
  BY Zenon, <1>5 DEF stack_free, mapVars, M!vars, M!mapVars
<1>6. ASSUME NEW c \in Client, NEW len \in Size,
             NEW flags \in SUBSET {M!GUARD_FIRST, M!GUARD_LAST}, NEW j, Calls(c, len, flags, j)
      PROVE  M!Next
  BY Zenon, <1>6 DEF Calls, M!Next
<1>7. ASSUME NEW c \in Client, vm_page_alloc(c) PROVE UNCHANGED M!vars
  BY Zenon, <1>7 DEF vm_page_alloc, mapVars, M!vars, M!mapVars
<1>8. ASSUME NEW c \in Client, MapPage(c) PROVE M!Next
  BY Zenon, <1>8 DEF MapPage, M!Next
<1>9. ASSUME NEW c \in Client, Return(c) PROVE M!Next
  BY Zenon, <1>9 DEF Return, M!Next
<1>10. ASSUME NEW c \in Client, AllocEntry(c) PROVE M!Next
  BY Zenon, <1>10 DEF AllocEntry, M!Next
<1>11. CASE UNCHANGED vars
  BY Zenon, <1>11 DEF vars, mapVars, M!vars, M!mapVars
<1>12. ASSUME NEW c \in Client, NEW r \in Request, zone_create(c, r) PROVE M!Next
  BY Zenon, <1>6, <1>12, SizeAssumption DEF zone_create
<1>13. ASSUME NEW c \in Client, NEW t \in Thread, stack_alloc(c, t) PROVE M!Next
  BY Zenon, <1>6, <1>13, SizeAssumption DEF stack_alloc
<1>14. ASSUME NEW c \in Client, NEW len \in Size,
              NEW flags \in SUBSET {M!GUARD_FIRST, M!GUARD_LAST}, vm_map_alloc(c, len, flags)
       PROVE  M!Next
  BY <1>6, <1>14 DEF vm_map_alloc
<1>15. ASSUME NEW c \in Client, Faults(c) PROVE UNCHANGED M!vars
  BY Zenon, <1>15 DEF Faults, mapVars, M!vars, M!mapVars
<1>16. QED
  BY Zenon, <1>1, <1>2, <1>3, <1>4, <1>5, <1>7, <1>8, <1>9, <1>10, <1>11, <1>12, <1>13, <1>14,
     <1>15, KmemAssumption
     DEF Next, MapReturns, ZoneCreate, ZoneReturns, stack_init, StackReturns

-----------------------------------------------------------------------------
(* What each client's vm_map_alloc is for.                                 *)
JobOK(c) ==
  LET j == job[c]  k == call[c] IN
  /\ j.kind \in {"none", "map", "zone", "stack"} /\ (j.kind = "none" <=> map_at[c] = "out")
  /\ j.kind = "zone" =>
       /\ j.req \in Request /\ j.req[1] # 0 /\ j.req[2] # 0
       /\ k.size = Z!page_count(j.req[1], j.req[2]) * VM_PAGE_SIZE /\ k.flags = {}
       /\ map_at[c] = "pages" /\ (j.req = StackRequest => stack_zone = NONE)
  /\ j.kind = "stack" =>
       /\ j.thread \in Thread /\ k.size = THREAD_STACK_DEFAULT_SIZE
       /\ k.flags = {M!GUARD_FIRST, M!GUARD_LAST}

JobInv == DOMAIN job = Client /\ map_at[PageUser] = "out" /\ \A c \in Client : JobOK(c)

(* The physical pages the map was given, in order: no client but a caller  *)
(* of vm_map_alloc was given one of them, and none was given twice.        *)
FrameInv ==
  /\ frames \in Seq(Nat)
  /\ \A i \in DOMAIN frames : \E c \in Client \ {PageUser} : frames[i] \in owns[c]
  /\ \A i, j \in DOMAIN frames : frames[i] = frames[j] => i = j

(* An address inside the zone of stack structures.                         *)
InStackZone(e) ==
  LET z == zone_array[stack_zone] IN
  z.base <= e /\ e < z.base + z.count_free * Z!block_size(z)

ZoneAlloc(z)  == [base |-> z.base, size |-> z.page_count * VM_PAGE_SIZE, flags |-> {}]
StackAlloc(b) == [base |-> b, size |-> THREAD_STACK_DEFAULT_SIZE,
                  flags |-> {M!GUARD_FIRST, M!GUARD_LAST}]

Structure == [elem : Nat, stack_base : Nat]

StackTypes ==
  /\ stacks \in Seq(Structure) /\ elems \in Seq(Nat)
  /\ stack_base \in [Thread -> Nat \cup {NONE}]
  /\ stack_zone \in used \cup {NONE}
  /\ stack_zone = NONE => elems = <<>> /\ stacks = <<>>

(* The elements of the zone of stack structures: those that are free,      *)
(* those in the list, and the one a stack_alloc in progress holds are all  *)
(* different.                                                              *)
ElemInv ==
  /\ \A k \in DOMAIN elems : InStackZone(elems[k])
  /\ \A i \in DOMAIN stacks : InStackZone(stacks[i].elem)
  /\ \A k, l \in DOMAIN elems : elems[k] = elems[l] => k = l
  /\ \A i, j \in DOMAIN stacks : stacks[i].elem = stacks[j].elem => i = j
  /\ \A i \in DOMAIN stacks, k \in DOMAIN elems : stacks[i].elem # elems[k]
  /\ \A c \in Client : job[c].kind = "stack" =>
       /\ stack_zone # NONE /\ job[c].elem \in Nat /\ InStackZone(job[c].elem)
       /\ \A k \in DOMAIN elems : elems[k] # job[c].elem
       /\ \A i \in DOMAIN stacks : stacks[i].elem # job[c].elem

(* Zones and stacks are allocations of the map, each a different one.      *)
RegionInv ==
  /\ \A i \in used : ZoneAlloc(zone_array[i]) \in allocs
  /\ \A i, j \in used : zone_array[i].base = zone_array[j].base => i = j
  /\ \A i \in DOMAIN stacks : StackAlloc(stacks[i].stack_base) \in allocs
  /\ \A i, j \in DOMAIN stacks : stacks[i].stack_base = stacks[j].stack_base => i = j
  /\ \A t \in Thread : stack_base[t] # NONE =>
       \E i \in DOMAIN stacks : stacks[i].stack_base = stack_base[t]

StackInv == StackTypes /\ ElemInv /\ RegionInv

(* Where the calls of a map are: the values, and that only one is in       *)
(* progress.                                                               *)
LEMMA MapCalls1 ==
  ASSUME M!MapInv
  PROVE  /\ DOMAIN map_at = Client /\ DOMAIN call = Client
         /\ \A c, d \in Client : map_at[c] # "out" /\ d # c => map_at[d] = "out"
BY DEF M!MapInv, M!MapTypes, M!CallInv

(* A call keeps its arguments until it returns.                            *)
LEMMA ArgumentsKept ==
  ASSUME M!MapInv, NEW c \in Client,
         M!alloc_guard_first(c) \/ M!alloc_page(c) \/ M!alloc_entry(c) \/ M!alloc_guard_last(c)
  PROVE  /\ map_at[c] # "out"
         /\ \A d \in Client : /\ call'[d].size = call[d].size /\ call'[d].flags = call[d].flags
                              /\ d # c => map_at'[d] = map_at[d] /\ call'[d] = call[d]
BY MapCalls1 DEF M!alloc_guard_first, M!alloc_page, M!alloc_entry, M!alloc_guard_last, M!Step, M!Frame

(* A call starts with the arguments it was made with.                      *)
LEMMA ArgumentsSet ==
  ASSUME M!MapInv, NEW c \in Client, NEW len, NEW flags, NEW j, Calls(c, len, flags, j)
  PROVE  /\ c # PageUser /\ map_at[c] = "out" /\ map_at'[c] # "out"
         /\ call'[c].size = len /\ call'[c].flags = flags
         /\ M!GUARD_FIRST \notin flags => map_at'[c] = "pages"
         /\ \A d \in Client : d # c => map_at'[d] = map_at[d] /\ call'[d] = call[d]
BY Zenon, MapCalls1 DEF Calls, M!vm_map_alloc, M!Step, M!Frame

(* A new call is for a zone, for a stack or for something else.            *)
LEMMA JobStart ==
  ASSUME M!MapInv, JobInv, NEW c \in Client, NEW len, NEW flags, NEW j,
         Calls(c, len, flags, j), stack_zone' = stack_zone,
         j.kind \in {"map", "zone", "stack"},
         j.kind = "zone" =>
           /\ j.req \in Request /\ j.req[1] # 0 /\ j.req[2] # 0 /\ flags = {}
           /\ len = Z!page_count(j.req[1], j.req[2]) * VM_PAGE_SIZE
           /\ j.req = StackRequest => stack_zone = NONE,
         j.kind = "stack" => /\ j.thread \in Thread /\ len = THREAD_STACK_DEFAULT_SIZE
                             /\ flags = {M!GUARD_FIRST, M!GUARD_LAST}
  PROVE  JobInv'
<1>1. /\ c # PageUser /\ map_at[c] = "out" /\ map_at'[c] # "out"
      /\ call'[c].size = len /\ call'[c].flags = flags
      /\ M!GUARD_FIRST \notin flags => map_at'[c] = "pages"
      /\ \A d \in Client : d # c => map_at'[d] = map_at[d] /\ call'[d] = call[d]
  BY Zenon, ArgumentsSet
<1>2. /\ DOMAIN job' = Client /\ job'[c] = j
      /\ \A d \in Client : d # c => job'[d] = job[d]
  BY Zenon DEF Calls, JobInv
<1>3. JobOK(c)'
  BY Zenon, <1>1, <1>2 DEF JobOK
<1>4. ASSUME NEW d \in Client, d # c PROVE JobOK(d)'
  BY Zenon, <1>1, <1>2, <1>4 DEF JobOK, JobInv
<1>5. QED
  BY Zenon, <1>1, <1>2, <1>3, <1>4, KmemAssumption DEF JobInv

(* When vm_map_alloc returns its client does something else.               *)
LEMMA JobEnd ==
  ASSUME M!MapInv, JobInv, NEW c \in Client, Return(c)
  PROVE  JobInv'
<1>1. /\ map_at[c] # "out" /\ map_at'[c] = "out"
      /\ \A d \in Client : d # c => map_at'[d] = map_at[d] /\ call'[d] = call[d]
  BY Zenon, ArgumentsKept, MapCalls1 DEF Return, M!alloc_entry, M!alloc_guard_last, M!Step
<1>2. /\ DOMAIN job' = Client /\ job'[c] = NoJob
      /\ \A d \in Client : d # c => job'[d] = job[d]
  BY Zenon DEF Return, JobInv
<1>3. JobOK(c)'
  <2>1. job'[c].kind = "none"
    BY <1>2 DEF NoJob
  <2>2. QED
    BY Zenon, <1>1, <2>1 DEF JobOK
<1>4. ASSUME NEW d \in Client, d # c PROVE JobOK(d)'
  <2>1. map_at[d] = "out"
    BY Zenon, <1>1, <1>4, MapCalls1
  <2>2. job[d].kind = "none"
    BY Zenon, <2>1 DEF JobInv, JobOK
  <2>3. QED
    BY Zenon, <2>1, <2>2, <1>1, <1>2, <1>4 DEF JobOK
<1>5. QED
  BY Zenon, <1>1, <1>2, <1>3, <1>4, KmemAssumption DEF JobInv

(* Every step keeps what the calls are for.                                *)
LEMMA JobStep == ASSUME M!MapInv, JobInv, [Next]_vars PROVE JobInv'
<1>1. CASE UNCHANGED <<job, map_at, call, stack_zone>>
  BY Zenon, <1>1 DEF JobInv, JobOK
<1>2. ASSUME NEW c \in Client, MapPage(c) \/ AllocEntry(c) PROVE JobInv'
  <2>1. /\ M!alloc_guard_first(c) \/ M!alloc_page(c) \/ M!alloc_entry(c)
        /\ UNCHANGED <<job, stack_zone>>
    BY <1>2, Zenon DEF MapPage, AllocEntry, stackVars
  <2>2. /\ map_at[c] # "out" /\ map_at'[c] # "out"
        /\ \A d \in Client : /\ call'[d].size = call[d].size /\ call'[d].flags = call[d].flags
                             /\ d # c => map_at'[d] = map_at[d]
        /\ map_at'[c] = "pages" \/ M!GUARD_LAST \in call[c].flags
    BY Zenon, <2>1, <1>2, ArgumentsKept, MapCalls1
       DEF MapPage, AllocEntry, M!alloc_guard_first, M!alloc_page, M!alloc_entry, M!Step
  <2>3. ASSUME NEW d \in Client PROVE JobOK(d)'
    BY Zenon, <2>1, <2>2 DEF JobInv, JobOK
  <2>4. QED
    BY Zenon, <2>1, <2>2, <2>3, KmemAssumption DEF JobInv
<1>3. ASSUME NEW c \in Client, Return(c) PROVE JobInv'
  BY Zenon, <1>3, JobEnd
<1>4. ASSUME NEW c \in Client, NEW len, NEW flags, vm_map_alloc(c, len, flags) PROVE JobInv'
  <2>1. PICK j : j = [kind |-> "map"]
    BY Zenon
  <2>2. Calls(c, len, flags, j) /\ stack_zone' = stack_zone /\ j.kind = "map"
    BY Zenon, <2>1, <1>4 DEF vm_map_alloc, stackVars
  <2>3. QED
    BY Zenon, <2>2, JobStart
<1>5. ASSUME NEW c \in Client, NEW r \in Request, zone_create(c, r), UNCHANGED stackVars,
             r = StackRequest => stack_zone = NONE
      PROVE  JobInv'
  <2>1. PICK j : j = [kind |-> "zone", req |-> r]
    BY Zenon
  <2>2. PICK len : len = Z!page_count(r[1], r[2]) * VM_PAGE_SIZE
    BY Zenon
  <2>3. /\ Calls(c, len, {}, j) /\ stack_zone' = stack_zone /\ r[1] # 0 /\ r[2] # 0
        /\ j.kind = "zone" /\ j.req = r
    BY Zenon, <2>1, <2>2, <1>5 DEF zone_create, stackVars
  <2>4. QED
    BY <2>2, <2>3, <1>5, JobStart
<1>6. ASSUME NEW c \in Client, NEW t \in Thread, stack_alloc(c, t) PROVE JobInv'
  <2>1. PICK j : j = [kind |-> "stack", thread |-> t, elem |-> Head(elems)]
    BY Zenon
  <2>2. /\ Calls(c, THREAD_STACK_DEFAULT_SIZE, {M!GUARD_FIRST, M!GUARD_LAST}, j)
        /\ stack_zone' = stack_zone /\ j.kind = "stack" /\ j.thread = t
    BY Zenon, <2>1, <1>6 DEF stack_alloc
  <2>3. QED
    BY Zenon, <2>2, JobStart
<1>7. CASE vm_configure \/ ZoneCreateFails \/ Halted \/ UNCHANGED vars
  BY Zenon, <1>1, <1>7 DEF vm_configure, ZoneCreateFails, Halted, vars, mapVars, stackVars
<1>8. ASSUME NEW p, vm_page_free(p) PROVE JobInv'
  BY Zenon, <1>1, <1>8 DEF vm_page_free, mapVars, stackVars
<1>9. ASSUME NEW t, stack_free(t) PROVE JobInv'
  BY Zenon, <1>1, <1>9 DEF stack_free, mapVars
<1>10. ASSUME NEW c, vm_page_alloc(c) \/ Faults(c) PROVE JobInv'
  BY Zenon, <1>1, <1>10 DEF vm_page_alloc, Faults, mapVars, stackVars
<1>11. QED
  BY Zenon, <1>2, <1>3, <1>4, <1>5, <1>6, <1>7, <1>8, <1>9, <1>10, KmemAssumption
     DEF Next, ZoneCreate, stack_init, MapReturns, ZoneReturns, StackReturns

-----------------------------------------------------------------------------
(* What a page in use is: it has an index in the region, marked allocated, *)
(* that is not one of the kernel's.                                        *)
LEMMA OwnedPage ==
  ASSUME P!PageInv, NEW c \in Client, NEW p \in owns[c]
  PROVE  /\ p \in Nat /\ pages[Index(p)] = P!ALLOC /\ p \notin P!Kernel
         /\ \A d \in Client : d # c => p \notin owns[d]
<1>1. /\ owns \in [Client -> SUBSET {P!paddr(i) : i \in 0..P!page_count}]
      /\ \A i \in 0..P!page_count : P!paddr(i) \in owns[c] =>
           i >= P!kern_page_count /\ pages[i] = P!ALLOC
      /\ \A d \in Client : c # d => owns[c] \cap owns[d] = {}
  BY Zenon DEF P!PageInv, P!TypeOK
<1>2. PICK i \in 0..P!page_count : p = P!paddr(i)
  BY Zenon, <1>1
<1>3. P!page_count \in Nat /\ P!kern_page_count \in Nat /\ MemBase \in Nat
  BY Zenon, PageFacts
<1>4. p = MemBase + i * 4096 /\ i \in Nat /\ i >= P!kern_page_count
      /\ pages[i] = P!ALLOC
  BY <1>1, <1>2, <1>3 DEF P!paddr, P!VM_PAGE_SIZE
<1>5. p \in Nat /\ Index(p) = i
  BY <1>3, <1>4 DEF Index, VM_PAGE_SIZE
<1>6. p \notin P!Kernel
  <2> SUFFICES ASSUME NEW k \in 0..(P!kern_page_count - 1), p = MemBase + k * 4096
               PROVE  FALSE
    BY DEF P!Kernel, P!paddr, P!VM_PAGE_SIZE, P!kern_page_count, P!region_size,
           P!phys_page_count, P!VM_PAGE_STRUCT_SIZE
  <2>1. QED
    BY <1>3, <1>4
<1>7. QED
  BY <1>1, <1>4, <1>5, <1>6 DEF P!ALLOC

(* The page vm_page_alloc returns was nobody's, and is its caller's now.   *)
LEMMA MarkedPage ==
  ASSUME P!PageInv, NEW c \in Client, P!vm_page_alloc_mark(c)
  PROVE  /\ P!paddr(last[c]) \in Nat /\ P!paddr(last[c]) \in owns'[c]
         /\ \A d \in Client : P!paddr(last[c]) \notin owns[d] /\ owns[d] \subseteq owns'[d]
<1>1. /\ owns \in [Client -> SUBSET {P!paddr(i) : i \in 0..P!page_count}]
      /\ last[c] \in 0..P!page_count /\ page_at[c] = "mark"
      /\ pages[last[c]] = P!FREE
      /\ \A d \in Client : \A i \in 0..P!page_count :
           P!paddr(i) \in owns[d] => pages[i] = P!ALLOC
  BY Zenon DEF P!PageInv, P!TypeOK, P!vm_page_alloc_mark, P!Step
<1>2. P!page_count \in Nat /\ MemBase \in Nat
  BY Zenon, PageFacts
<1>3. P!paddr(last[c]) = P!paddr(last[c])
  BY Zenon DEF P!paddr, P!VM_PAGE_SIZE
<1>4. P!paddr(last[c]) \in Nat
  BY <1>1, <1>2 DEF P!paddr, P!VM_PAGE_SIZE
<1>5. owns' = [owns EXCEPT ![c] = owns[c] \cup {P!paddr(last[c])}]
  BY Zenon DEF P!vm_page_alloc_mark
<1>6. QED
  BY Zenon, <1>1, <1>3, <1>4, <1>5 DEF P!FREE, P!ALLOC

(* A page the map receives is one it did not have.                         *)
LEMMA FrameReceive ==
  ASSUME P!PageInv, FrameInv, NEW c \in Client, c # PageUser, Receive(c)
  PROVE  FrameInv'
<1>1. PICK p : p = P!paddr(last[c])
  BY Zenon
<1>2. /\ p \in Nat /\ p \in owns'[c] /\ frames' = Append(frames, p)
      /\ \A d \in Client : p \notin owns[d] /\ owns[d] \subseteq owns'[d]
  BY Zenon, <1>1, MarkedPage DEF Receive
<1>3. /\ frames \in Seq(Nat) /\ frames' \in Seq(Nat) /\ Len(frames) \in Nat
      /\ DOMAIN frames = 1..Len(frames) /\ DOMAIN frames' = 1..(Len(frames) + 1)
      /\ frames'[Len(frames) + 1] = p /\ \A i \in 1..Len(frames) : frames'[i] = frames[i]
  BY <1>2 DEF FrameInv
<1>4. \A i \in DOMAIN frames : frames[i] # p
  BY Zenon, <1>2 DEF FrameInv
<1>5. ASSUME NEW i \in DOMAIN frames' PROVE \E d \in Client \ {PageUser} : frames'[i] \in owns'[d]
  BY <1>2, <1>3 DEF FrameInv
<1>6. ASSUME NEW i \in DOMAIN frames', NEW j \in DOMAIN frames', frames'[i] = frames'[j] PROVE i = j
  BY <1>3, <1>4, <1>6 DEF FrameInv
<1>7. QED
  BY Zenon, <1>3, <1>5, <1>6 DEF FrameInv

(* Every step keeps the pages of the map apart.                            *)
LEMMA FrameStep == ASSUME P!PageInv, FrameInv, [Next]_vars PROVE FrameInv'
<1>1. ASSUME frames' = frames, \A d \in Client \ {PageUser} : owns[d] \subseteq owns'[d]
      PROVE  FrameInv'
  BY Zenon, <1>1 DEF FrameInv
<1>2. ASSUME NEW c \in Client, vm_page_alloc(c) PROVE FrameInv'
  <2>1. CASE P!vm_page_alloc_mark(c)
    BY Zenon, <2>1, <1>1, <1>2, MarkedPage DEF vm_page_alloc, mapVars
  <2>2. CASE ~ P!vm_page_alloc_mark(c)
    BY Zenon, <2>2, <1>1, <1>2
       DEF vm_page_alloc, mapVars, P!vm_page_alloc_find, P!vm_page_alloc_fail, P!vm_page_alloc_test
  <2>3. QED
    BY Zenon, <2>1, <2>2
<1>3. ASSUME NEW p, vm_page_free(p) PROVE FrameInv'
  <2>1. owns' = [owns EXCEPT ![PageUser] = owns[PageUser] \ {p}] /\ frames' = frames
    BY Zenon, <1>3 DEF vm_page_free, P!vm_page_free, mapVars
  <2>2. DOMAIN owns = Client
    BY Zenon DEF P!PageInv, P!TypeOK
  <2>3. QED
    BY Zenon, <1>1, <2>1, <2>2
<1>4. ASSUME NEW c \in Client, MapPage(c) PROVE FrameInv'
  BY Zenon, <1>4, FrameReceive DEF MapPage
<1>5. ASSUME NEW c \in Client, Return(c) PROVE FrameInv'
  BY Zenon, <1>1, <1>5, FrameReceive DEF Return, pageVars
<1>6. CASE UNCHANGED <<frames, owns>>
  BY Zenon, <1>1, <1>6
<1>7. ASSUME NEW c, NEW len, NEW flags, NEW j, Calls(c, len, flags, j) PROVE FrameInv'
  BY Zenon, <1>6, <1>7 DEF Calls, pageVars
<1>8. CASE vm_configure \/ ZoneCreateFails \/ Halted \/ UNCHANGED vars
  BY Zenon, <1>6, <1>8 DEF vm_configure, P!vm_page_bootstrap, ZoneCreateFails, Halted, vars, pageVars, mapVars
<1>9. ASSUME NEW c, AllocEntry(c) \/ Faults(c) PROVE FrameInv'
  BY Zenon, <1>6, <1>9 DEF AllocEntry, Faults, pageVars, mapVars
<1>10. ASSUME NEW t, stack_free(t) PROVE FrameInv'
  BY Zenon, <1>6, <1>10 DEF stack_free, pageVars, mapVars
<1>11. QED
  BY Zenon, <1>2, <1>3, <1>4, <1>5, <1>7, <1>8, <1>9, <1>10
     DEF Next, vm_map_alloc, ZoneCreate, zone_create, stack_init, stack_alloc, MapReturns,
         ZoneReturns, StackReturns

-----------------------------------------------------------------------------
(* The arithmetic of zone_create: c elements of s bytes, x = c * s of      *)
(* them, in a zone of m bytes.                                             *)
LEMMA PagesSuffice ==
  ASSUME NEW c \in Nat, NEW x \in Nat, NEW m \in Nat, NEW whole \in Nat,
         3 * c <= x, x <= m,
         4096 * whole <= x + m * 16, x + m * 16 < 4096 * whole + 4096
  PROVE  x + 16 * c <= (IF whole = 0 THEN 1 ELSE whole) * 4096
<1>1. CASE whole = 0
  BY <1>1
<1>2. CASE whole # 0
  <2>1. whole >= 1
    BY <1>2
  <2>2. CASE 16 * (m - c) >= 4095
    BY <2>1, <2>2
  <2>3. CASE 16 * (m - c) < 4095
    BY <2>1, <2>3
  <2>4. QED
    BY <2>2, <2>3
<1>3. QED
  BY <1>1, <1>2

(* What the C division of natural numbers rounds to.                       *)
LEMMA DivFacts ==
  ASSUME NEW a \in Nat, NEW b \in Nat \ {0}
  PROVE  /\ a \div b \in Nat
         /\ b * (a \div b) <= a /\ a < b * (a \div b) + b
BY SMT

(* The elements of a zone of s-byte elements fit in page_count pages.      *)
LEMMA RequestFits ==
  ASSUME NEW s \in Nat, s >= 3, NEW m \in Nat \ {0}
  PROVE  /\ Z!count_free(s, m) \in Nat /\ Z!page_count(s, m) \in Nat
         /\ Z!count_free(s, m) * (s + 16) <= Z!page_count(s, m) * 4096
<1> DEFINE c == Z!count_free(s, m)
           x == c * s
           whole == (x + m * 16) \div 4096
<1>1. c \in Nat /\ s * c <= m
  BY DivFacts DEF Z!count_free
<1>2. x \in Nat /\ x <= m
  BY <1>1
<1>3. 3 * c <= x
  BY <1>1
<1>4. whole \in Nat /\ 4096 * whole <= x + m * 16 /\ x + m * 16 < 4096 * whole + 4096
  <2>1. x + m * 16 \in Nat /\ 4096 \in Nat \ {0}
    BY <1>2
  <2> HIDE DEF x
  <2>2. QED
    BY <2>1, DivFacts
<1>5. Z!page_count(s, m) = IF whole = 0 THEN 1 ELSE whole
  BY Zenon DEF Z!page_count, Z!VM_PAGE_SIZE, Z!METADATA_SIZE
<1>6. c * (s + 16) = x + 16 * c
  BY <1>1
<1> HIDE DEF c, x, whole
<1>7. x + 16 * c <= (IF whole = 0 THEN 1 ELSE whole) * 4096
  BY <1>1, <1>2, <1>3, <1>4, PagesSuffice
<1>8. QED
  BY <1>1, <1>4, <1>5, <1>6, <1>7 DEF c

(* The first unused descriptor is the one numbered num_zones_used.         *)
LEMMA FirstIsNext ==
  ASSUME Z!ZoneInv, NEW i \in Z!Slot, Z!FirstFree(i)
  PROVE  i = num_zones_used
<1>1. num_zones_used \in Nat /\ used = 0..(num_zones_used - 1)
  BY Zenon DEF Z!ZoneInv
<1>2. QED
  BY <1>1, ZoneAssumption DEF Z!FirstFree, Z!Free, Z!Slot

(* A new zone takes the next descriptor, and its elements fit in the pages *)
(* from its base on.                                                       *)
LEMMA ZoneStep ==
  ASSUME Z!ZoneInv, NEW s \in Nat, s >= 3, NEW m \in Nat, NEW base \in Nat, Z!zone_create(s, m, base)
  PROVE  Z!ZoneInv'
<1>1. m \in Nat \ {0}
  BY Zenon DEF Z!zone_create
<1> DEFINE new(i) == [elem_size |-> s, count_free |-> Z!count_free(s, m),
                      page_count |-> Z!page_count(s, m), base |-> base, index |-> i]
<1>2. PICK i \in Z!Slot : /\ Z!FirstFree(i) /\ used' = used \cup {i}
                        /\ zone_array' = [zone_array EXCEPT ![i] = new(i)]
  BY Zenon DEF Z!zone_create
<1>3. i = num_zones_used /\ i \notin used
  BY Zenon, <1>2, FirstIsNext DEF Z!FirstFree, Z!Free
<1>4. /\ Z!count_free(s, m) \in Nat /\ Z!page_count(s, m) \in Nat
      /\ Z!count_free(s, m) * (s + 16) <= Z!page_count(s, m) * 4096
  BY <1>1, RequestFits
<1>5. num_zones_used' = num_zones_used + 1 /\ num_zones_used \in Nat /\ i \in Nat
  BY <1>3 DEF Z!zone_create, Z!ZoneInv
<1>6. new(i) \in Z!Descriptor
  BY <1>4, <1>5 DEF Z!Descriptor
<1>7. Z!Extent(new(i)) \in Nat /\ Z!Extent(new(i)) <= new(i).page_count * 4096
  <2>1. Z!Extent(new(i)) = Z!count_free(s, m) * (s + 16) /\ new(i).page_count = Z!page_count(s, m)
    BY Zenon DEF Z!Extent, Z!block_size, Z!METADATA_SIZE
  <2>2. QED
    BY <2>1, <1>4
<1>8. zone_array' \in [Z!Slot -> Z!Descriptor] /\ zone_array'[i] = new(i)
      /\ \A j \in used : zone_array'[j] = zone_array[j]
  BY <1>2, <1>3, <1>6 DEF Z!ZoneInv
<1>9. new(i).index = i
  BY Zenon
<1> HIDE DEF new
<1>10. used' = 0..(num_zones_used' - 1) /\ used' \subseteq Z!Slot
  BY <1>2, <1>3, <1>5 DEF Z!ZoneInv
<1>11. ASSUME NEW j \in used'
       PROVE  /\ zone_array'[j].index = j /\ Z!Extent(zone_array'[j]) \in Nat
              /\ Z!Extent(zone_array'[j]) <= zone_array'[j].page_count * 4096
  <2>1. CASE j = i
    BY <2>1, <1>7, <1>8, <1>9
  <2>2. CASE j \in used
    BY <2>2, <1>8 DEF Z!ZoneInv
  <2>3. QED
    BY Zenon, <2>1, <2>2, <1>2
<1>12. num_zones_used' \in Nat
  BY <1>5
<1>13. QED
  BY Zenon, <1>8, <1>10, <1>11, <1>12 DEF Z!ZoneInv

(* Every step of Kmem keeps the invariant of the zones: only the return    *)
(* from zone_create changes a descriptor.                                  *)
LEMMA ZoneKept ==
  ASSUME LargeRequests, M!MapInv, JobInv, Z!ZoneInv, [Next]_vars
  PROVE  Z!ZoneInv'
<1>1. CASE UNCHANGED zoneVars
  BY <1>1 DEF zoneVars, Z!ZoneInv
<1>2. ASSUME NEW c \in Client, ZoneReturns(c) PROVE Z!ZoneInv'
  <2>1. PICK r, b : r = job[c].req /\ b = call[c].vbase
    BY Zenon
  <2>2. r \in Request /\ r[1] # 0 /\ Z!zone_create(r[1], r[2], b)
    BY Zenon, <2>1, <1>2 DEF ZoneReturns, JobInv, JobOK
  <2>3. r[1] \in Nat /\ r[2] \in Nat /\ r[1] >= 3
    BY <2>2, ZoneAssumption DEF LargeRequests
  <2>4. b \in Nat
    <3>1. call[c] \in M!CallType
      BY Zenon DEF M!MapInv, M!MapTypes
    <3>2. QED
      BY Zenon, <3>1, <2>1 DEF M!CallType
  <2>5. QED
    BY Zenon, <2>2, <2>3, <2>4, ZoneStep
<1>3. CASE vm_configure \/ Halted \/ UNCHANGED vars
  BY Zenon, <1>1, <1>3 DEF vm_configure, Halted, vars
<1>4. CASE ZoneCreateFails
  BY Zenon, <1>1, <1>4 DEF ZoneCreateFails, Z!zone_create_fail, zoneVars
<1>5. ASSUME NEW c, vm_page_alloc(c) \/ MapPage(c) \/ AllocEntry(c) \/ Faults(c) PROVE Z!ZoneInv'
  BY Zenon, <1>1, <1>5 DEF vm_page_alloc, MapPage, AllocEntry, Faults
<1>6. ASSUME NEW c, NEW len, NEW flags, NEW j, Calls(c, len, flags, j) PROVE Z!ZoneInv'
  BY Zenon, <1>1, <1>6 DEF Calls
<1>7. ASSUME NEW c, MapReturns(c) \/ StackReturns(c) PROVE Z!ZoneInv'
  BY Zenon, <1>1, <1>7 DEF MapReturns, StackReturns
<1>8. ASSUME NEW p, vm_page_free(p) PROVE Z!ZoneInv'
  BY Zenon, <1>1, <1>8 DEF vm_page_free
<1>9. ASSUME NEW t, stack_free(t) PROVE Z!ZoneInv'
  BY Zenon, <1>1, <1>9 DEF stack_free
<1>10. QED
  BY Zenon, <1>2, <1>3, <1>4, <1>5, <1>6, <1>7, <1>8, <1>9
     DEF Next, vm_map_alloc, ZoneCreate, zone_create, stack_init, stack_alloc

(* zone_init leaves no zone.                                               *)
LEMMA ZoneInit == Z!Init => Z!ZoneInv
BY ZoneAssumption DEF Z!Init, Z!ZoneInv, Z!Slot, Z!Descriptor, Z!Unused
=============================================================================
