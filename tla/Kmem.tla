-------------------------------- MODULE Kmem --------------------------------
(***************************************************************************)
(* The kernel's memory allocators on top of one another: zone_create       *)
(* (Zone) and the stacks of kern/mm/stack.c ask vm_map_alloc (VmMap) for   *)
(* memory, which asks vm_page_alloc (VmPage) for every page.  The three    *)
(* modules are the same as when they are alone; here each step of one is   *)
(* joined with the step of the other it waits for, and addresses are those *)
(* the other module returned.  What the code then writes there may not be  *)
(* accessible (see VmMap): Faults.                                         *)
(*                                                                         *)
(* PageUser stands for a caller of vm_page_alloc and vm_page_free that is  *)
(* not the map; no other client frees a page, as nothing in the kernel     *)
(* does.                                                                   *)
(***************************************************************************)
EXTENDS MemConfig, Sequences, FiniteSets

CONSTANTS
  PageUser,      \* the client that calls vm_page_alloc and vm_page_free itself
  UserPages,     \* bound: pages PageUser has at a time
  UserUntil,     \* bound: PageUser asks for none once the map has more pages than this
  MapCalls,      \* bound: vm_map_alloc calls that are for neither a zone nor a stack
  StackRequest,  \* <<sizeof(stack_t), THREAD_COUNT_MAX * sizeof(stack_t)>>
  Thread,        \* thread structures
  VmSection      \* offset of the .vm section, the page structures, from Base

ASSUME KmemAssumption ==
  /\ PageUser \in Client /\ UserPages \in Nat /\ UserUntil \in Nat /\ MapCalls \in Nat /\ VmSection \in Nat
  /\ StackRequest \in Request /\ StackRequest[1] \in 1..StackRequest[2]

THREAD_STACK_DEFAULT_SIZE == VM_PAGE_SIZE

VARIABLES
  pages, booted, page_at, last, owns, panicked,          \* of VmPage
  entries, size, nentries, tte, map_at, call, allocs,    \* of VmMap
  used, zone_array, num_zones_used,                      \* of Zone
  frames,        \* physical addresses vm_page_alloc returned to the map, in order
  job,           \* what each client's vm_map_alloc is for
  stack_zone,    \* index of the zone of stack structures, or NONE
  elems,         \* its free_elems: addresses of the elements
  stacks,        \* the list of stack structures: [elem, stack_base]
  stack_base     \* of each thread; NONE when it has no stack

pageVars  == <<pages, booted, page_at, last, owns>>
mapVars   == <<entries, size, nentries, tte, map_at, call, allocs, frames>>
zoneVars  == <<used, zone_array, num_zones_used>>
stackVars == <<stack_zone, elems, stacks, stack_base>>
vars == <<pageVars, mapVars, zoneVars, stackVars, job, panicked>>

P == INSTANCE VmPage WITH at <- page_at
M == INSTANCE VmMap WITH at <- map_at, pages <- Len(frames)
Z == INSTANCE Zone

(* Size has what zone_create and stack_alloc ask vm_map_alloc for. *)
ASSUME SizeAssumption ==
  /\ THREAD_STACK_DEFAULT_SIZE \in Size
  /\ \A r \in Request : r[1] # 0 /\ r[2] # 0 => Z!page_count(r[1], r[2]) * VM_PAGE_SIZE \in Size

NONE == -1
NoJob == [kind |-> "none"]

Init ==
  /\ frames = <<>> /\ P!Init /\ M!Init /\ Z!Init
  /\ job = [c \in Client |-> NoJob]
  /\ stack_zone = NONE /\ elems = <<>> /\ stacks = <<>>
  /\ stack_base = [t \in Thread |-> NONE]

vm_configure == P!vm_page_bootstrap /\ UNCHANGED <<mapVars, zoneVars, stackVars, job>>
-----------------------------------------------------------------------------
(* vm_map_alloc, and the pages it asks for one at a time. *)

Calls(c, len, flags, j) ==
  /\ P!Ready /\ c # PageUser
  /\ frames' = frames /\ M!vm_map_alloc(c, len, flags)
  /\ job' = [job EXCEPT ![c] = j]
  /\ UNCHANGED <<pageVars, zoneVars, panicked>>

vm_map_alloc(c, len, flags) ==
  /\ Cardinality(allocs) - num_zones_used - Len(stacks) < MapCalls
  /\ Calls(c, len, flags, [kind |-> "map"]) /\ UNCHANGED stackVars

(* The next thing c's call does is to ask for a page. *)
NeedsPage(c) == map_at[c] \in {"first", "last"} \/ (map_at[c] = "pages" /\ call[c].todo > 0)

MayAllocate(c) ==
  IF c = PageUser THEN Cardinality(owns[c]) < UserPages /\ Len(frames) <= UserUntil
                  ELSE NeedsPage(c)

vm_page_alloc(c) ==
  /\ \/ MayAllocate(c) /\ P!vm_page_alloc_find(c)
     \/ P!vm_page_alloc_fail(c)
     \/ P!vm_page_alloc_test(c)
     \/ c = PageUser /\ P!vm_page_alloc_mark(c)
  /\ UNCHANGED <<mapVars, zoneVars, stackVars, job>>

vm_page_free(p) ==
  /\ P!vm_page_free(PageUser, p)
  /\ UNCHANGED <<mapVars, zoneVars, stackVars, job>>

(* The page is marked and returned, and the map goes on to use it. *)
Receive(c) == P!vm_page_alloc_mark(c) /\ frames' = Append(frames, P!paddr(last[c]))

MapPage(c) ==
  /\ c # PageUser /\ Receive(c)
  /\ M!alloc_guard_first(c) \/ M!alloc_page(c)
  /\ UNCHANGED <<zoneVars, stackVars, job>>

(* The last step of vm_map_alloc. *)
Return(c) ==
  /\ P!Ready
  /\ \/ /\ M!GUARD_LAST \notin call[c].flags
        /\ frames' = frames /\ M!alloc_entry(c) /\ UNCHANGED <<pageVars, panicked>>
     \/ c # PageUser /\ Receive(c) /\ M!alloc_guard_last(c)
  /\ job' = [job EXCEPT ![c] = NoJob]

AllocEntry(c) ==
  /\ P!Ready /\ M!GUARD_LAST \in call[c].flags
  /\ frames' = frames /\ M!alloc_entry(c)
  /\ UNCHANGED <<pageVars, zoneVars, stackVars, job, panicked>>

MapReturns(c) == job[c].kind = "map" /\ Return(c) /\ UNCHANGED <<zoneVars, stackVars>>
-----------------------------------------------------------------------------
(* zone_create, called by one thread during boot. *)

(* Mutant: vm_map_alloc is asked for the zone's maximum size. *)
zone_create_max(c, r) ==
  /\ r[1] # 0 /\ r[2] # 0 /\ Z!Free # {}
  /\ \A d \in Client : job[d].kind # "zone"
  /\ Calls(c, r[2], {}, [kind |-> "zone", req |-> r])

zone_create(c, r) ==
  /\ r[1] # 0 /\ r[2] # 0 /\ Z!Free # {}
  /\ \A d \in Client : job[d].kind # "zone"
  /\ Calls(c, Z!page_count(r[1], r[2]) * VM_PAGE_SIZE, {}, [kind |-> "zone", req |-> r])

ZoneCreate(c) == \E r \in Request \ {StackRequest} : zone_create(c, r) /\ UNCHANGED stackVars

ZoneCreateFails ==
  /\ P!Ready /\ \A d \in Client : job[d].kind # "zone"
  /\ UNCHANGED <<pageVars, mapVars, stackVars, job>>
  /\ \E r \in Request : Z!zone_create_fail(r[1], r[2])

(* The elements of a new zone, in the order zone_create lists them. *)
Elements(i) ==
  LET z == zone_array[i] IN
  [k \in 1..z.count_free |-> z.base + (k - 1) * Z!block_size(z) + Z!METADATA_SIZE]

(* zone_create writes the metadata struct of every element it lists. *)
MetadataAccessible(c) ==
  LET r == job[c].req
      n == Z!count_free(r[1], r[2]) IN
  n > 0 => /\ M!Accessible(call[c].vbase)
           /\ M!Accessible(call[c].vbase + (n - 1) * (r[1] + Z!METADATA_SIZE) + Z!METADATA_SIZE - 1)

(* stack_init calls zone_create and keeps what it returns. *)
ZoneReturns(c) ==
  /\ job[c].kind = "zone" /\ Return(c) /\ MetadataAccessible(c)
  /\ Z!zone_create(job[c].req[1], job[c].req[2], call[c].vbase)
  /\ IF job[c].req = StackRequest
     THEN /\ \E i \in used' \ used : stack_zone' = i /\ elems' = Elements(i)'
          /\ UNCHANGED <<stacks, stack_base>>
     ELSE UNCHANGED stackVars

stack_init(c) == stack_zone = NONE /\ zone_create(c, StackRequest) /\ UNCHANGED stackVars
-----------------------------------------------------------------------------
(* kern/mm/stack.c.  The calls are thread_create's and thread_destroy's;   *)
(* a new thread may be made in a structure that was freed.  zalloc is only *)
(* called while the zone has elements (see Zalloc).                        *)

stack_alloc(c, t) ==
  /\ stack_zone # NONE /\ elems # <<>>
  /\ stack_base[t] = NONE /\ \A d \in Client : job[d].kind # "stack"
  /\ Calls(c, THREAD_STACK_DEFAULT_SIZE, {M!GUARD_FIRST, M!GUARD_LAST},
           [kind |-> "stack", thread |-> t, elem |-> Head(elems)])
  /\ elems' = Tail(elems) /\ UNCHANGED <<stack_zone, stacks, stack_base>>

StackReturns(c) ==
  LET base == call[c].vbase IN
  /\ job[c].kind = "stack" /\ Return(c)
  /\ stacks' = Append(stacks, [elem |-> job[c].elem, stack_base |-> base])
  /\ stack_base' = [stack_base EXCEPT ![job[c].thread] = base]
  /\ UNCHANGED <<zoneVars, stack_zone, elems>>

(* Mutant: a stack is found by its base, and freed where it is listed. *)
stack_free_base(t) ==
  LET found == {i \in DOMAIN stacks : stacks[i].stack_base = stack_base[t]} IN
  /\ P!Ready /\ stack_base[t] # NONE
  /\ elems' = IF found = {} THEN elems ELSE <<stacks[CHOOSE i \in found : TRUE].elem>> \o elems
  /\ stack_base' = [stack_base EXCEPT ![t] = NONE]
  /\ UNCHANGED <<pageVars, mapVars, zoneVars, stack_zone, stacks, job, panicked>>

(* The structure whose own address is the base of the thread's stack is    *)
(* freed, and stays in the list; then the thread is gone.                  *)
stack_free(t) ==
  LET found == {i \in DOMAIN stacks : stacks[i].elem = stack_base[t]} IN
  /\ P!Ready /\ stack_base[t] # NONE
  /\ elems' = IF found = {} THEN elems ELSE <<stack_base[t]>> \o elems
  /\ stack_base' = [stack_base EXCEPT ![t] = NONE]
  /\ UNCHANGED <<pageVars, mapVars, zoneVars, stack_zone, stacks, job, panicked>>
-----------------------------------------------------------------------------
(* A data abort, which panics, where c writes memory vm_map_alloc gave out *)
(* that is not accessible: a guard page it fills, or the metadata of a new *)
(* zone.  Nothing runs after it, so what c did since its last step is not  *)
(* recorded.  (A stack structure lies below the guard page just filled.)   *)
Faults(c) ==
  /\ P!Ready
  /\ \/ /\ page_at[c] = "mark" /\ map_at[c] \in {"first", "last"}
        /\ ~ M!vm_guard_page_fill(call[c].vcursor)
     \/ /\ job[c].kind = "zone" /\ map_at[c] = "pages" /\ call[c].todo = 0
        /\ ~ MetadataAccessible(c)
  /\ panicked' = TRUE
  /\ UNCHANGED <<pageVars, mapVars, zoneVars, stackVars, job>>

Halted == panicked /\ UNCHANGED vars

Next ==
  \/ vm_configure \/ ZoneCreateFails \/ Halted
  \/ \E p \in owns[PageUser] : vm_page_free(p)
  \/ \E t \in Thread : stack_free(t)
  \/ \E c \in Client :
       \/ \E len \in Size, flags \in SUBSET {M!GUARD_FIRST, M!GUARD_LAST} :
            vm_map_alloc(c, len, flags)
       \/ vm_page_alloc(c) \/ MapPage(c) \/ AllocEntry(c) \/ MapReturns(c)
       \/ ZoneCreate(c) \/ ZoneReturns(c) \/ stack_init(c)
       \/ Faults(c) \/ StackReturns(c) \/ \E t \in Thread : stack_alloc(c, t)

Spec == Init /\ [][Next]_vars
-----------------------------------------------------------------------------
(* A page has one owner and the kernel's are never given away, with the    *)
(* map as one of the owners.                                               *)
PagesExclusive == P!PagesExclusive

(* A page that nobody has is free: vm_page_alloc never marks one that      *)
(* vm_map_alloc then loses.                                                *)
FreedPagesFree == P!FreedPagesFree

(* Each guard flag has its guard entry next to the allocation.             *)
AllocationsGuarded == M!AllocationsGuarded

Index(p) == (p - MemBase) \div VM_PAGE_SIZE

(* The map loses no page: vm_page_alloc never returned it one page twice,  *)
(* each is marked allocated and is neither the kernel's nor another        *)
(* caller's; and once no call is in progress the size of the map counts    *)
(* every one of them, guard pages included.                                *)
PagesAccounted ==
  /\ \A i, j \in DOMAIN frames : frames[i] = frames[j] => i = j
  /\ \A i \in DOMAIN frames :
       /\ pages[Index(frames[i])] = P!ALLOC
       /\ frames[i] \notin P!Kernel \cup owns[PageUser]
  /\ M!Done => size = KernSize + Len(frames) * VM_PAGE_SIZE

(* Every zone begins an entry of the map that is not a guard page and      *)
(* holds all of its elements: what zone_create computed for the zone and   *)
(* what it asked vm_map_alloc for agree.                                   *)
ZonesBacked ==
  \A i \in used : LET z == zone_array[i] IN
    \E e \in DOMAIN entries :
      /\ entries[e].base = z.base /\ entries[e].guard = M!VM_FALSE
      /\ z.base + z.count_free * Z!block_size(z) <= M!End(entries[e])

(* What the map hands out, as pairs of first byte and end: the image, the  *)
(* elements of each zone, the stack of each thread.                        *)
Regions ==
  {<<Base, Base + KernSize>>}
    \cup {LET z == zone_array[i] IN <<z.base, z.base + z.count_free * Z!block_size(z)>> : i \in used}
    \cup {<<stacks[i].stack_base, stacks[i].stack_base + THREAD_STACK_DEFAULT_SIZE>> :
            i \in DOMAIN stacks}

(* No two of them share a byte, through any sequence of zone_create,       *)
(* stack_alloc, stack_free and other allocations.                          *)
RegionsApart == \A r, s \in Regions : r = s \/ r[2] <= s[1] \/ s[2] <= r[1]

(* "so the allocation is immediately accessible" (vm_map_alloc): every     *)
(* byte of what it returned can be read and written.                       *)
AllocationsAccessible ==
  \A a \in allocs :
    \A v \in {a.base, a.base + M!page_count(a.size) * VM_PAGE_SIZE - 1} : M!Accessible(v)

(* The page structures, which the linker places behind the image so that   *)
(* they may "grow as required", share no byte with an allocation.          *)
PageStructuresApart ==
  \A a \in allocs :
    \/ Base + VmSection + (phys_page_count + 1) * VM_PAGE_STRUCT_SIZE <= a.base
    \/ a.base + M!page_count(a.size) * VM_PAGE_SIZE <= Base + VmSection

(* Every thread with a stack has exactly one structure in the list for it, *)
(* with a guard page on either side of the stack; no structure is listed   *)
(* twice, and none that is listed is free in the zone (the next stack_alloc *)
(* would write over a link of the list).                                   *)
StacksListed ==
  /\ \A t \in Thread : stack_base[t] # NONE =>
       /\ Cardinality({i \in DOMAIN stacks : stacks[i].stack_base = stack_base[t]}) = 1
       /\ \A v \in {stack_base[t] - VM_PAGE_SIZE, stack_base[t] + THREAD_STACK_DEFAULT_SIZE} :
            \E i \in DOMAIN entries : entries[i] = M!Entry(v, VM_PAGE_SIZE, M!VM_TRUE)
  /\ \A i, j \in DOMAIN stacks : stacks[i].elem = stacks[j].elem => i = j
  /\ \A i \in DOMAIN stacks, k \in DOMAIN elems : stacks[i].elem # elems[k]
=============================================================================
