----------------------------- MODULE KmemProofs -----------------------------
(***************************************************************************)
(* The allocators on top of one another, for any memory, any requests and  *)
(* any number of clients that take turns: the invariants of KmemInvariant  *)
(* and of VmMapProofs hold of them together; the accounts of the map, its  *)
(* regions and the stacks, which involve several of them, follow.          *)
(***************************************************************************)
EXTENDS KmemInvariant

(* Whole pages are as many pages as they are, and one page is one.         *)
LEMMA PageCounts ==
  /\ \A n \in Nat : M!page_count(n * 4096) \in Nat /\ n <= M!page_count(n * 4096)
  /\ M!page_count(4096) = 1 /\ \A n \in Nat : M!page_count(n) \in Nat /\ M!page_count(n) > 0
<1>1. \A n \in Nat : (n * 4096) \div 4096 = n
  BY Z3
<1>2. QED
  BY <1>1 DEF M!page_count, M!VM_PAGE_SIZE

(* A zone lies above the kernel, and its elements in its allocation.       *)
LEMMA ZoneSpan ==
  ASSUME Z!ZoneInv, M!LayoutInv, NEW i \in used, NEW z, z = zone_array[i],
         ZoneAlloc(z) \in allocs
  PROVE  /\ z.base \in Nat /\ Z!Extent(z) \in Nat /\ Base + KernSize <= z.base
         /\ M!AllocEnd(ZoneAlloc(z)) \in Nat
         /\ z.base + Z!Extent(z) <= M!AllocEnd(ZoneAlloc(z))
<1>1. /\ z \in Z!Descriptor /\ Z!Extent(z) \in Nat /\ Z!Extent(z) <= z.page_count * 4096
  BY DEF Z!ZoneInv, Z!Extent, Z!block_size, Z!METADATA_SIZE
<1>2. z.base \in Nat /\ z.page_count \in Nat
  BY Zenon, <1>1 DEF Z!Descriptor
<1>3. PICK n \in Nat : n = M!page_count(z.page_count * 4096) /\ z.page_count <= n
  BY <1>2, PageCounts
<1>4. M!AllocEnd(ZoneAlloc(z)) = z.base + n * 4096
  BY <1>3 DEF M!AllocEnd, ZoneAlloc, VM_PAGE_SIZE, M!VM_PAGE_SIZE
<1>5. Base + KernSize <= z.base
  BY Zenon DEF M!LayoutInv, M!AllocsBelow, ZoneAlloc
<1>6. QED
  BY <1>1, <1>2, <1>3, <1>4, <1>5

(* A stack lies above the kernel, in its allocation.                       *)
LEMMA StackSpan ==
  ASSUME M!LayoutInv, NEW b \in Nat, StackAlloc(b) \in allocs
  PROVE  Base + KernSize <= b /\ M!AllocEnd(StackAlloc(b)) = b + 4096
<1>1. M!AllocEnd(StackAlloc(b)) = b + 4096
  BY PageCounts DEF M!AllocEnd, StackAlloc, THREAD_STACK_DEFAULT_SIZE, VM_PAGE_SIZE,
                    M!VM_PAGE_SIZE
<1>2. QED
  BY <1>1 DEF M!LayoutInv, M!AllocsBelow, StackAlloc

(* No stack shares a byte with a zone ...                                  *)
LEMMA ZoneStackApart ==
  ASSUME Z!ZoneInv, M!LayoutInv, NEW i \in used, NEW z, z = zone_array[i],
         ZoneAlloc(z) \in allocs, NEW b \in Nat, StackAlloc(b) \in allocs
  PROVE  z.base + Z!Extent(z) <= b \/ b + 4096 <= z.base
<1>1. ZoneAlloc(z).base = z.base /\ StackAlloc(b).base = b
  BY Zenon DEF ZoneAlloc, StackAlloc
<1>2. ZoneAlloc(z) # StackAlloc(b)
  <2>1. ZoneAlloc(z).flags # StackAlloc(b).flags
    BY Zenon DEF ZoneAlloc, StackAlloc
  <2>2. QED
    BY Zenon, <2>1
<1>3. \/ M!AllocEnd(ZoneAlloc(z)) <= StackAlloc(b).base
      \/ M!AllocEnd(StackAlloc(b)) <= ZoneAlloc(z).base
  BY Zenon, <1>2 DEF M!LayoutInv, M!AllocsBelow
<1>4. QED
  BY <1>1, <1>3, ZoneSpan, StackSpan

(* ... and none with another stack.                                        *)
LEMMA StacksApart ==
  ASSUME M!LayoutInv, NEW a \in Nat, NEW b \in Nat, StackAlloc(a) \in allocs,
         StackAlloc(b) \in allocs
  PROVE  a = b \/ a + 4096 <= b \/ b + 4096 <= a
<1>1. StackAlloc(a).base = a /\ StackAlloc(b).base = b
  BY Zenon DEF StackAlloc
<1>2. \/ StackAlloc(a) = StackAlloc(b)
      \/ M!AllocEnd(StackAlloc(a)) <= StackAlloc(b).base
      \/ M!AllocEnd(StackAlloc(b)) <= StackAlloc(a).base
  BY Zenon DEF M!LayoutInv, M!AllocsBelow
<1>3. QED
  BY <1>1, <1>2, StackSpan

(* Block k of n blocks of b bytes, its metadata skipped, is in the blocks. *)
LEMMA BlockInside ==
  ASSUME NEW n \in Nat, NEW b \in Nat, b > 16, NEW k \in 1..n
  PROVE  (k - 1) * b + 16 \in Nat /\ (k - 1) * b + 16 < n * b
<1>1. PICK x \in Nat, y \in Nat : k = x + 1 /\ n = x + 1 + y
  <2>1. k - 1 \in Nat /\ n - k \in Nat
    OBVIOUS
  <2>2. k = (k - 1) + 1 /\ n = (k - 1) + 1 + (n - k)
    OBVIOUS
  <2>3. QED
    BY Zenon, <2>1, <2>2
<1>2. (x + 1 + y) * b = x * b + b + y * b /\ x * b \in Nat /\ y * b \in Nat
  BY Z3
<1>3. (k - 1) * b = x * b
  BY <1>1
<1>4. QED
  BY <1>1, <1>2, <1>3

(* Two blocks are at different addresses.                                  *)
LEMMA BlocksDiffer ==
  ASSUME NEW b \in Nat, b > 0, NEW k \in Nat, NEW l \in Nat, k * b = l * b
  PROVE  k = l
BY Z3

(* A step that makes no stack and no zone keeps those that are there.      *)
LEMMA StackKept ==
  ASSUME StackInv, UNCHANGED <<zoneVars, stackVars>>, allocs \subseteq allocs',
         \A c \in Client : job'[c].kind = "stack" => job'[c] = job[c]
  PROVE  StackInv'
<1> USE DEF zoneVars, stackVars
<1>1. StackTypes'
  BY Zenon DEF StackInv, StackTypes
<1>2. ElemInv'
  BY Zenon DEF StackInv, ElemInv, InStackZone
<1>3. RegionInv'
  BY Zenon DEF StackInv, RegionInv, ZoneAlloc, StackAlloc
<1>4. QED
  BY Zenon, <1>1, <1>2, <1>3 DEF StackInv

(* When vm_map_alloc returns, the allocation is new and no call is left.   *)
LEMMA ReturnFacts ==
  ASSUME M!MapInv, JobInv, NEW c \in Client, Return(c)
  PROVE  /\ allocs' = allocs \cup {M!Returned(c)} /\ map_at[c] # "out"
         /\ \A d \in Client : job'[d].kind = "none" /\ (d # c => job[d].kind = "none")
<1>1. allocs' = allocs \cup {M!Returned(c)}
  BY Zenon DEF Return, M!alloc_entry, M!alloc_guard_last
<1>2. map_at[c] # "out"
  BY Zenon DEF Return, M!alloc_entry, M!alloc_guard_last, M!Step
<1>3. job' = [job EXCEPT ![c] = NoJob] /\ DOMAIN job = Client
  BY Zenon DEF Return, JobInv
<1>4. \A d \in Client : d # c => job[d].kind = "none"
  BY Zenon, <1>2, MapCalls1 DEF JobInv, JobOK
<1>5. QED
  BY Zenon, <1>1, <1>2, <1>3, <1>4 DEF NoJob

(* The fields of the stack structures are addresses.                       *)
LEMMA StackFields ==
  ASSUME StackTypes, NEW i \in DOMAIN stacks
  PROVE  stacks[i].elem \in Nat /\ stacks[i].stack_base \in Nat
<1>1. stacks[i] \in Structure
  BY DEF StackTypes
<1>2. QED
  BY Zenon, <1>1 DEF Structure

(* stack_alloc takes the first free element.                               *)
LEMMA StackAllocates ==
  ASSUME StackInv, JobInv, NEW c \in Client, NEW t \in Thread, stack_alloc(c, t)
  PROVE  StackInv'
<1>1. /\ elems \in Seq(Nat) /\ elems # <<>> /\ stack_zone # NONE
      /\ elems' = Tail(elems) /\ UNCHANGED <<stack_zone, stacks, stack_base, zoneVars, allocs>>
  BY Zenon DEF stack_alloc, StackInv, StackTypes, Calls, M!vm_map_alloc
<1>2. /\ job'[c].kind = "stack" /\ job'[c].elem = elems[1]
      /\ \A d \in Client : d # c => job'[d].kind # "stack"
  BY <1>1 DEF stack_alloc, Calls, JobInv
<1>3. /\ elems' \in Seq(Nat) /\ DOMAIN elems = 1..Len(elems) /\ DOMAIN elems' = 1..(Len(elems) - 1)
      /\ \A k \in DOMAIN elems' : k + 1 \in DOMAIN elems /\ elems'[k] = elems[k + 1]
      /\ 1 \in DOMAIN elems /\ Len(elems) \in Nat
  BY <1>1
<1>4. StackTypes'
  BY Zenon, <1>1, <1>3 DEF StackInv, StackTypes, zoneVars
<1>5. RegionInv'
  BY Zenon, <1>1 DEF StackInv, RegionInv, ZoneAlloc, StackAlloc, zoneVars
<1>6. ElemInv'
  <2>1. \A e : InStackZone(e)' <=> InStackZone(e)
    BY Zenon, <1>1 DEF InStackZone, zoneVars
  <2>2. \A k \in DOMAIN elems' : InStackZone(elems'[k]) /\ elems'[k] # elems[1]
    BY <1>3 DEF StackInv, ElemInv
  <2>3. \A k, l \in DOMAIN elems' : elems'[k] = elems'[l] => k = l
    BY <1>3 DEF StackInv, ElemInv
  <2>4. \A i \in DOMAIN stacks : InStackZone(stacks[i].elem) /\ stacks[i].elem # elems[1]
    BY Zenon, <1>3 DEF StackInv, ElemInv
  <2>5. \A i \in DOMAIN stacks, k \in DOMAIN elems' : stacks[i].elem # elems'[k]
    BY Zenon, <1>3 DEF StackInv, ElemInv
  <2>6. elems[1] \in Nat /\ InStackZone(elems[1])
    BY <1>1, <1>3 DEF StackInv, ElemInv
  <2>7. QED
    BY <1>1, <1>2, <2>1, <2>2, <2>3, <2>4, <2>5, <2>6 DEF StackInv, ElemInv
<1>7. QED
  BY Zenon, <1>4, <1>5, <1>6 DEF StackInv

(* stack_free looks for the structure whose address is the base of a       *)
(* stack; stacks lie outside of the zone, so it finds none.                *)
LEMMA StackFrees ==
  ASSUME StackInv, Z!ZoneInv, M!LayoutInv, NEW t \in Thread, stack_free(t)
  PROVE  StackInv'
<1>1. /\ stack_base[t] # NONE /\ stack_base' = [stack_base EXCEPT ![t] = NONE]
      /\ UNCHANGED <<zoneVars, stack_zone, stacks, job, allocs>>
  BY Zenon DEF stack_free, mapVars
<1>2. PICK j \in DOMAIN stacks : stacks[j].stack_base = stack_base[t]
  BY Zenon, <1>1 DEF StackInv, RegionInv
<1>3. PICK b \in Nat : b = stacks[j].stack_base /\ StackAlloc(b) \in allocs
  BY Zenon, <1>2, StackFields DEF StackInv, RegionInv
<1>4. ASSUME NEW i \in DOMAIN stacks PROVE stacks[i].elem # b
  <2>1. stack_zone \in used
    BY DEF StackInv, StackTypes
  <2>2. PICK z : z = zone_array[stack_zone] /\ ZoneAlloc(z) \in allocs
    BY Zenon, <2>1 DEF StackInv, RegionInv
  <2>3. z.base + Z!Extent(z) <= b \/ b + 4096 <= z.base
    BY <1>3, <2>1, <2>2, ZoneStackApart
  <2>4. z.base <= stacks[i].elem /\ stacks[i].elem < z.base + Z!Extent(z) /\ stacks[i].elem \in Nat
    BY Zenon, <2>2, StackFields DEF StackInv, ElemInv, InStackZone, Z!Extent
  <2>5. z.base \in Nat /\ Z!Extent(z) \in Nat
    BY Zenon, <2>1, <2>2, ZoneSpan
  <2>6. QED
    BY <2>3, <2>4, <2>5
<1>5. elems' = elems
  BY Zenon, <1>2, <1>3, <1>4 DEF stack_free
<1>6. StackTypes'
  BY Zenon, <1>1, <1>5 DEF StackInv, StackTypes, zoneVars
<1>7. ElemInv'
  BY Zenon, <1>1, <1>5 DEF StackInv, ElemInv, InStackZone, zoneVars
<1>8. RegionInv'
  BY Zenon, <1>1 DEF StackInv, StackTypes, RegionInv, ZoneAlloc, StackAlloc, zoneVars
<1>9. QED
  BY Zenon, <1>6, <1>7, <1>8 DEF StackInv

(* A stack that was allocated is listed, in an element of its own, above   *)
(* all others.                                                             *)
LEMMA StackListed ==
  ASSUME StackInv, JobInv, M!MapInv, M!LayoutInv, NEW c \in Client, StackReturns(c)
  PROVE  StackInv'
<1>1. PICK b, e, t : b = call[c].vbase /\ e = job[c].elem /\ t = job[c].thread
  BY Zenon
<1>2. /\ job[c].kind = "stack" /\ Return(c)
      /\ stacks' = Append(stacks, [elem |-> e, stack_base |-> b])
      /\ stack_base' = [stack_base EXCEPT ![t] = b]
      /\ UNCHANGED <<zoneVars, stack_zone, elems>>
  BY Zenon, <1>1 DEF StackReturns
<1>3. /\ allocs' = allocs \cup {M!Returned(c)} /\ map_at[c] # "out"
      /\ \A d \in Client : job'[d].kind = "none"
  BY Zenon, <1>2, ReturnFacts
<1>4. M!Returned(c) = StackAlloc(b) /\ t \in Thread
  BY Zenon, <1>1, <1>2 DEF JobInv, JobOK, M!Returned, StackAlloc
<1>5. b \in Nat
  <2>1. call[c] \in M!CallType
    BY Zenon DEF M!MapInv, M!MapTypes
  <2>2. QED
    BY Zenon, <2>1, <1>1 DEF M!CallType
<1>6. /\ stack_zone # NONE /\ e \in Nat /\ InStackZone(e)
      /\ \A k \in DOMAIN elems : elems[k] # e
      /\ \A i \in DOMAIN stacks : stacks[i].elem # e
  BY Zenon, <1>1, <1>2 DEF StackInv, ElemInv
<1>7. \A i \in DOMAIN stacks : stacks[i].stack_base # b
  <2> SUFFICES ASSUME NEW i \in DOMAIN stacks PROVE stacks[i].stack_base # b
    BY Zenon
  <2>1. PICK a \in Nat : a = stacks[i].stack_base /\ StackAlloc(a) \in allocs
    BY Zenon, StackFields DEF StackInv, RegionInv
  <2>2. M!AllocEnd(StackAlloc(a)) <= b
    BY Zenon, <1>1, <1>3, <2>1 DEF M!LayoutInv, M!CallLayout, M!AllocsBelow
  <2>3. M!AllocEnd(StackAlloc(a)) = a + 4096
    BY <2>1, StackSpan
  <2>4. QED
    BY <1>5, <2>1, <2>2, <2>3
<1>8. PICK new \in Structure : new = [elem |-> e, stack_base |-> b]
  BY Zenon, <1>5, <1>6 DEF Structure
<1>9. PICK n : /\ stacks' \in Seq(Structure) /\ DOMAIN stacks' = DOMAIN stacks \cup {n}
               /\ n \notin DOMAIN stacks /\ stacks'[n] = new
               /\ \A i \in DOMAIN stacks : stacks'[i] = stacks[i]
  <2>1. stacks \in Seq(Structure) /\ stacks' = Append(stacks, new)
    BY Zenon, <1>2, <1>8 DEF StackInv, StackTypes
  <2>2. /\ stacks' \in Seq(Structure) /\ DOMAIN stacks' = 1..(Len(stacks) + 1)
        /\ DOMAIN stacks = 1..Len(stacks) /\ Len(stacks) \in Nat
        /\ stacks'[Len(stacks) + 1] = new /\ \A i \in DOMAIN stacks : stacks'[i] = stacks[i]
    BY <2>1
  <2>3. 1..(Len(stacks) + 1) = 1..Len(stacks) \cup {Len(stacks) + 1} /\ Len(stacks) + 1 \notin 1..Len(stacks)
    BY <2>2
  <2>4. QED
    BY Zenon, <2>2, <2>3
<1>10. new.elem = e /\ new.stack_base = b
  BY Zenon, <1>8
<1>11. StackTypes'
  BY Zenon, <1>2, <1>4, <1>5, <1>6, <1>9 DEF StackInv, StackTypes, zoneVars
<1>12. ElemInv'
  <2>1. \A x : InStackZone(x)' <=> InStackZone(x)
    BY Zenon, <1>2 DEF InStackZone, zoneVars
  <2>2. \A i \in DOMAIN stacks' : InStackZone(stacks'[i].elem)
    BY Zenon, <1>6, <1>9, <1>10 DEF StackInv, ElemInv
  <2>3. \A i, j \in DOMAIN stacks' : stacks'[i].elem = stacks'[j].elem => i = j
    BY Zenon, <1>6, <1>9, <1>10 DEF StackInv, ElemInv
  <2>4. \A i \in DOMAIN stacks', k \in DOMAIN elems : stacks'[i].elem # elems[k]
    BY <1>6, <1>9, <1>10 DEF StackInv, ElemInv
  <2>5. QED
    BY Zenon, <1>2, <1>3, <2>1, <2>2, <2>3, <2>4 DEF StackInv, ElemInv
<1>13. RegionInv'
  <2>1. \A z \in used' : ZoneAlloc(zone_array'[z]) \in allocs'
    BY Zenon, <1>2, <1>3 DEF StackInv, RegionInv, zoneVars
  <2>2. \A i \in DOMAIN stacks' : StackAlloc(stacks'[i].stack_base) \in allocs'
    BY Zenon, <1>3, <1>4, <1>9, <1>10 DEF StackInv, RegionInv
  <2>3. \A i, j \in DOMAIN stacks' : stacks'[i].stack_base = stacks'[j].stack_base => i = j
    BY Zenon, <1>7, <1>9, <1>10 DEF StackInv, RegionInv
  <2>4. ASSUME NEW u \in Thread, stack_base'[u] # NONE
        PROVE  \E i \in DOMAIN stacks' : stacks'[i].stack_base = stack_base'[u]
    <3>1. CASE u = t
      BY Zenon, <3>1, <1>2, <1>9, <1>10 DEF StackInv, StackTypes
    <3>2. CASE u # t
      BY <2>4, <3>2, <1>2, <1>9 DEF StackInv, StackTypes, RegionInv
    <3>3. QED
      BY Zenon, <3>1, <3>2
  <2>5. \A i, j \in used' : zone_array'[i].base = zone_array'[j].base => i = j
    BY Zenon, <1>2 DEF StackInv, RegionInv, zoneVars
  <2>6. QED
    BY Zenon, <2>1, <2>2, <2>3, <2>4, <2>5 DEF RegionInv, ZoneAlloc, StackAlloc
<1>14. QED
  BY Zenon, <1>11, <1>12, <1>13 DEF StackInv

(* The memory zone_create was given is where it puts the zone, above the   *)
(* base of every other.                                                    *)
LEMMA ZonePlaced ==
  ASSUME RegionInv, JobInv, M!MapInv, M!LayoutInv, Z!ZoneInv, NEW c \in Client, ZoneReturns(c)
  PROVE  \E i : /\ i \notin used /\ used' = used \cup {i}
                /\ zone_array' = [zone_array EXCEPT ![i] = zone_array'[i]]
                /\ zone_array'[i].elem_size = job[c].req[1]
                /\ ZoneAlloc(zone_array'[i]) \in allocs'
                /\ \A j \in used : zone_array[j].base # zone_array'[i].base
<1>1. PICK s, m, n : s = job[c].req[1] /\ m = job[c].req[2] /\ n = Z!page_count(s, m)
  BY Zenon
<1>2. PICK i \in Z!Slot :
        /\ Z!FirstFree(i) /\ used' = used \cup {i}
        /\ zone_array' = [zone_array EXCEPT ![i] =
             [elem_size |-> s, count_free |-> Z!count_free(s, m),
              page_count |-> n, base |-> call[c].vbase, index |-> i]]
  BY Zenon, <1>1 DEF ZoneReturns, Z!zone_create
<1>3. i \in DOMAIN zone_array
  BY <1>2 DEF Z!ZoneInv, Z!Slot
<1>4. /\ zone_array'[i].base = call[c].vbase /\ zone_array'[i].page_count = n
      /\ zone_array'[i].elem_size = s
      /\ zone_array' = [zone_array EXCEPT ![i] = zone_array'[i]]
  BY Zenon, <1>2, <1>3
<1>5. /\ map_at[c] = "pages" /\ call[c].flags = {} /\ call[c].size = n * VM_PAGE_SIZE
  BY Zenon, <1>1 DEF JobInv, JobOK, ZoneReturns
<1>6. ASSUME NEW j \in used PROVE zone_array[j].base # call[c].vbase
  <2>1. PICK z, a : z = zone_array[j] /\ a = ZoneAlloc(z)
    BY Zenon
  <2>2. z \in Z!Descriptor /\ a \in allocs
    BY <2>1 DEF Z!ZoneInv, RegionInv
  <2>3. z.base \in Nat /\ z.page_count \in Nat /\ a.base = z.base /\ a.size = z.page_count * VM_PAGE_SIZE
    BY Zenon, <2>1, <2>2 DEF Z!Descriptor, ZoneAlloc
  <2>4. M!page_count(a.size) \in Nat /\ M!page_count(a.size) > 0
    BY <2>3, PageCounts DEF VM_PAGE_SIZE
  <2>5. M!AllocEnd(a) <= call[c].vbase
    <3>1. map_at[c] # "out"
      BY <1>5
    <3>2. QED
      BY Zenon, <2>2, <3>1 DEF M!LayoutInv, M!CallLayout, M!AllocsBelow
  <2>6. QED
    BY <2>1, <2>3, <2>4, <2>5 DEF M!AllocEnd, M!VM_PAGE_SIZE
<1>7. M!Returned(c) = ZoneAlloc(zone_array'[i])
  BY Zenon, <1>4, <1>5 DEF M!Returned, ZoneAlloc
<1>8. M!Returned(c) \in allocs'
  BY Zenon, ReturnFacts DEF ZoneReturns
<1>9. i \notin used
  BY Zenon, <1>2 DEF Z!FirstFree, Z!Free
<1>10. \A j \in used : zone_array[j].base # zone_array'[i].base
  BY Zenon, <1>4, <1>6
<1>11. ZoneAlloc(zone_array'[i]) \in allocs' /\ zone_array'[i].elem_size = job[c].req[1]
  BY Zenon, <1>1, <1>4, <1>7, <1>8
<1>12. QED
  BY Zenon, <1>2, <1>4, <1>9, <1>10, <1>11

(* The elements of a new zone lie in it, at different addresses.           *)
LEMMA ElementsPlaced ==
  ASSUME Z!ZoneInv', NEW i \in used', zone_array'[i].elem_size > 0
  PROVE  LET z == zone_array'[i]  E == Elements(i)' IN
         /\ E \in Seq(Nat)
         /\ \A k \in DOMAIN E : z.base <= E[k] /\ E[k] < z.base + z.count_free * Z!block_size(z)
         /\ \A k, l \in DOMAIN E : E[k] = E[l] => k = l
<1>1. PICK z : z = zone_array'[i]
  BY Zenon
<1>2. z \in Z!Descriptor
  <2>1. used' \subseteq Z!Slot /\ zone_array' \in [Z!Slot -> Z!Descriptor]
    BY Zenon DEF Z!ZoneInv
  <2>2. QED
    BY Zenon, <1>1, <2>1
<1>3. PICK n \in Nat, b \in Nat, a \in Nat :
        /\ n = z.count_free /\ b = Z!block_size(z) /\ a = z.base /\ b > 16
  BY <1>1, <1>2 DEF Z!Descriptor, Z!block_size, Z!METADATA_SIZE
<1>4. PICK E : E = Elements(i)' /\ E = [k \in 1..n |-> a + (k - 1) * b + 16]
  BY Zenon, <1>1, <1>3 DEF Elements, Z!block_size, Z!METADATA_SIZE
<1>5. ASSUME NEW k \in 1..n
      PROVE  E[k] \in Nat /\ a <= E[k] /\ E[k] < a + n * b /\ (k - 1) * b = E[k] - a - 16
  <2>1. PICK x \in Nat : x = (k - 1) * b + 16 /\ x < n * b
    BY Zenon, <1>3, BlockInside
  <2>2. n * b \in Nat /\ (k - 1) * b \in Int
    OBVIOUS
  <2>3. PICK y \in Nat : y = n * b
    BY Zenon, <2>2
  <2>4. E[k] = a + x
    BY <1>4, <2>1, <2>2
  <2>5. QED
    BY <2>1, <2>2, <2>3, <2>4
<1>6. E \in Seq(Nat) /\ DOMAIN E = 1..n
  <2>1. DOMAIN E = 1..n /\ E \in [1..n -> Nat]
    BY Zenon, <1>4, <1>5
  <2>2. QED
    BY <2>1
<1>7. ASSUME NEW k \in 1..n, NEW l \in 1..n, E[k] = E[l] PROVE k = l
  <2>1. (k - 1) * b = (l - 1) * b
    BY Zenon, <1>5, <1>7
  <2>2. k - 1 = l - 1
    BY <1>3, <2>1, BlocksDiffer
  <2>3. QED
    BY <2>2
<1>8. QED
  BY Zenon, <1>1, <1>3, <1>4, <1>5, <1>6, <1>7

(* A zone that was created is an allocation of the map; the first one for  *)
(* stack structures has all its elements free.                             *)
LEMMA ZoneListed ==
  ASSUME StackInv, JobInv, M!MapInv, M!LayoutInv, Z!ZoneInv, Z!ZoneInv',
         NEW c \in Client, ZoneReturns(c)
  PROVE  StackInv'
<1>1. PICK i : /\ i \notin used /\ used' = used \cup {i}
               /\ zone_array' = [zone_array EXCEPT ![i] = zone_array'[i]]
               /\ zone_array'[i].elem_size = job[c].req[1]
               /\ ZoneAlloc(zone_array'[i]) \in allocs'
               /\ \A j \in used : zone_array[j].base # zone_array'[i].base
  BY Zenon, ZonePlaced DEF StackInv
<1>2. /\ allocs \subseteq allocs' /\ \A d \in Client : job'[d].kind = "none"
  BY Zenon, ReturnFacts DEF ZoneReturns
<1>3. \A j \in used : zone_array'[j] = zone_array[j]
  <2>1. used \subseteq DOMAIN zone_array
    BY DEF Z!ZoneInv
  <2>2. QED
    BY Zenon, <1>1, <2>1
<1>4. \A j \in used' : ZoneAlloc(zone_array'[j]) \in allocs'
  BY Zenon, <1>1, <1>2, <1>3 DEF StackInv, RegionInv
<1>5. UNCHANGED <<stacks, stack_base>>
  BY Zenon DEF ZoneReturns, stackVars
<1>6. RegionInv'
  <2>1. ASSUME NEW j \in used', NEW k \in used', zone_array'[j].base = zone_array'[k].base PROVE j = k
    <3>1. CASE j = i \/ k = i
      BY Zenon, <2>1, <3>1, <1>1, <1>3
    <3>2. CASE j \in used /\ k \in used
      BY Zenon, <2>1, <3>2, <1>3 DEF StackInv, RegionInv
    <3>3. QED
      BY Zenon, <3>1, <3>2, <1>1
  <2>2. QED
    BY Zenon, <2>1, <1>2, <1>4, <1>5 DEF StackInv, RegionInv, ZoneAlloc, StackAlloc
<1>7. CASE job[c].req = StackRequest
  <2>1. stack_zone = NONE /\ stacks = <<>> /\ DOMAIN stacks = {}
    <3>1. stack_zone = NONE
      BY Zenon, <1>7 DEF ZoneReturns, JobInv, JobOK
    <3>2. QED
      BY <3>1 DEF StackInv, StackTypes
  <2>2. stack_zone' = i /\ elems' = Elements(i)'
    BY Zenon, <1>1, <1>7 DEF ZoneReturns
  <2>3. i \in used' /\ zone_array'[i].elem_size > 0
    BY <1>1, <1>7, KmemAssumption, ZoneAssumption
  <2>4. PICK E : E = elems'
    BY Zenon
  <2>5. /\ E \in Seq(Nat) /\ \A k, l \in DOMAIN E : E[k] = E[l] => k = l
        /\ \A k \in DOMAIN E :
             /\ zone_array'[i].base <= E[k]
             /\ E[k] < zone_array'[i].base + zone_array'[i].count_free * Z!block_size(zone_array'[i])
    BY Zenon, <2>2, <2>3, <2>4, ElementsPlaced
  <2>6. i # NONE
    BY <2>3, ZoneAssumption DEF Z!ZoneInv, Z!Slot, NONE
  <2>7. StackTypes'
    BY Zenon, <1>5, <2>1, <2>2, <2>3, <2>4, <2>5, <2>6 DEF StackInv, StackTypes
  <2>8. ElemInv'
    BY Zenon, <1>2, <1>5, <2>1, <2>2, <2>4, <2>5 DEF ElemInv, InStackZone, Z!block_size
  <2>9. QED
    BY Zenon, <1>6, <2>7, <2>8 DEF StackInv
<1>8. CASE job[c].req # StackRequest
  <2>1. UNCHANGED stackVars
    BY Zenon, <1>8 DEF ZoneReturns
  <2>2. StackTypes'
    BY Zenon, <1>1, <2>1 DEF StackInv, StackTypes, stackVars
  <2>3. \A e : stack_zone # NONE => (InStackZone(e)' <=> InStackZone(e))
    BY Zenon, <1>3, <2>1 DEF StackInv, StackTypes, InStackZone, Z!block_size, stackVars
  <2>4. stack_zone = NONE => DOMAIN elems = {} /\ DOMAIN stacks = {}
    BY DEF StackInv, StackTypes
  <2>5. ElemInv'
    BY Zenon, <1>2, <2>1, <2>3, <2>4 DEF StackInv, ElemInv, stackVars
  <2>6. QED
    BY Zenon, <1>6, <2>2, <2>5 DEF StackInv
<1>9. QED
  BY Zenon, <1>7, <1>8

(* Every step keeps zones and stacks as they should be.                    *)
LEMMA StackStep ==
  ASSUME StackInv, JobInv, M!MapInv, M!LayoutInv, Z!ZoneInv, Z!ZoneInv',
         [Next]_vars
  PROVE  StackInv'
<1>1. ASSUME NEW c \in Client, NEW len, NEW flags, NEW j, Calls(c, len, flags, j),
             UNCHANGED stackVars, j.kind # "stack"
      PROVE  StackInv'
  BY Zenon, <1>1, StackKept DEF Calls, M!vm_map_alloc, JobInv
<1>2. CASE UNCHANGED <<zoneVars, stackVars, allocs, job>>
  BY Zenon, <1>2, StackKept
<1>3. ASSUME NEW c, MapPage(c) \/ AllocEntry(c) PROVE StackInv'
  BY Zenon, <1>2, <1>3 DEF MapPage, AllocEntry, M!alloc_guard_first, M!alloc_page, M!alloc_entry
<1>4. ASSUME NEW c \in Client, MapReturns(c) PROVE StackInv'
  BY Zenon, <1>4, ReturnFacts, StackKept DEF MapReturns
<1>5. ASSUME NEW c \in Client, NEW r, zone_create(c, r), UNCHANGED stackVars PROVE StackInv'
  <2>1. PICK j : j = [kind |-> "zone", req |-> r]
    BY Zenon
  <2>2. j.kind # "stack" /\ Calls(c, Z!page_count(r[1], r[2]) * VM_PAGE_SIZE, {}, j)
    BY Zenon, <1>5, <2>1 DEF zone_create
  <2>3. QED
    BY Zenon, <1>1, <1>5, <2>2
<1>6. ASSUME NEW c \in Client, NEW len, NEW flags, vm_map_alloc(c, len, flags) PROVE StackInv'
  BY Zenon, <1>1, <1>6 DEF vm_map_alloc
<1>7. CASE vm_configure \/ ZoneCreateFails \/ Halted \/ UNCHANGED vars
  BY Zenon, <1>2, <1>7 DEF vm_configure, ZoneCreateFails, Z!zone_create_fail, Halted, vars, mapVars, zoneVars
<1>8. ASSUME NEW p, vm_page_free(p) PROVE StackInv'
  BY Zenon, <1>2, <1>8 DEF vm_page_free, mapVars
<1>9. ASSUME NEW c, vm_page_alloc(c) \/ Faults(c) PROVE StackInv'
  BY Zenon, <1>2, <1>9 DEF vm_page_alloc, Faults, mapVars
<1>10. QED
  BY Zenon, <1>3, <1>4, <1>5, <1>6, <1>7, <1>8, <1>9, StackFrees, StackListed, ZoneListed, StackAllocates
     DEF Next, ZoneCreate, stack_init
-----------------------------------------------------------------------------

(* No call is in progress at first ...                                     *)
LEMMA JobBegin == Init => JobInv
<1> SUFFICES ASSUME Init PROVE JobInv
  BY Zenon
<1>1. /\ job = [c \in Client |-> NoJob] /\ map_at = [c \in Client |-> "out"]
  BY Zenon DEF Init, M!Init
<1>2. QED
  BY Zenon, <1>1, KmemAssumption DEF JobInv, JobOK, NoJob

(* ... and there are no zones and no stacks.                               *)
LEMMA StackBegin == Init => StackInv
<1> SUFFICES ASSUME Init PROVE StackInv
  BY Zenon
<1>1. /\ stack_zone = NONE /\ elems = <<>> /\ stacks = <<>> /\ used = {}
      /\ stack_base = [t \in Thread |-> NONE] /\ job = [c \in Client |-> NoJob]
  BY Zenon DEF Init, Z!Init
<1>2. StackTypes
  BY <1>1 DEF StackTypes
<1>3. ElemInv
  BY <1>1 DEF ElemInv, NoJob
<1>4. RegionInv
  BY <1>1 DEF RegionInv
<1>5. QED
  BY Zenon, <1>2, <1>3, <1>4 DEF StackInv

(* The pages vm_map_alloc was given are its own, and its map counts them.  *)
LEMMA AccountsHold == ASSUME P!PageInv, M!LayoutInv, FrameInv PROVE PagesAccounted
<1>1. \A i, j \in DOMAIN frames : frames[i] = frames[j] => i = j
  BY Zenon DEF FrameInv
<1>2. ASSUME NEW i \in DOMAIN frames
      PROVE  pages[Index(frames[i])] = P!ALLOC /\ frames[i] \notin P!Kernel \cup owns[PageUser]
  <2>1. PICK c \in Client \ {PageUser} : frames[i] \in owns[c]
    BY Zenon DEF FrameInv
  <2>2. QED
    BY Zenon, <2>1, OwnedPage, KmemAssumption
<1>3. M!Done => size = KernSize + Len(frames) * VM_PAGE_SIZE
  BY Zenon DEF M!LayoutInv, M!VM_PAGE_SIZE, VM_PAGE_SIZE
<1>4. QED
  BY Zenon, <1>1, <1>2, <1>3 DEF PagesAccounted

(* A zone's allocation has its entry in the map, and the elements fit it.  *)
LEMMA ZonesHold == ASSUME StackInv, M!LayoutInv, Z!ZoneInv PROVE ZonesBacked
<1> SUFFICES ASSUME NEW i \in used, NEW z, z = zone_array[i]
             PROVE  \E e \in DOMAIN entries :
                      /\ entries[e].base = z.base /\ entries[e].guard = M!VM_FALSE
                      /\ z.base + Z!Extent(z) <= M!End(entries[e])
  BY Zenon DEF ZonesBacked, Z!Extent
<1>1. PICK a \in allocs : a = ZoneAlloc(z)
  BY Zenon DEF StackInv, RegionInv
<1>2. /\ z.base \in Nat /\ Z!Extent(z) \in Nat /\ M!AllocEnd(a) \in Nat
      /\ z.base + Z!Extent(z) <= M!AllocEnd(a) /\ a.base = z.base
  BY Zenon, <1>1, ZoneSpan DEF ZoneAlloc
<1>3. PICK e \in DOMAIN entries :
        entries[e] = M!Entry(a.base, M!page_count(a.size) * M!VM_PAGE_SIZE, M!VM_FALSE)
  BY Zenon DEF M!LayoutInv, M!HasEntry
<1>4. /\ entries[e].base = a.base /\ entries[e].guard = M!VM_FALSE
      /\ entries[e].size = M!page_count(a.size) * M!VM_PAGE_SIZE - 1
  BY <1>3 DEF M!Entry
<1>5. M!page_count(a.size) * M!VM_PAGE_SIZE \in Int
  <2>1. a.size \in Nat
    BY Zenon DEF M!LayoutInv, M!AllocsBelow
  <2>2. QED
    BY <2>1, PageCounts DEF M!VM_PAGE_SIZE
<1>6. M!End(entries[e]) = M!AllocEnd(a)
  BY <1>2, <1>4, <1>5 DEF M!End, M!AllocEnd
<1>7. QED
  BY Zenon, <1>2, <1>4, <1>6

(* No zone shares a byte with another.                                     *)
LEMMA ZonesApart ==
  ASSUME StackInv, M!LayoutInv, Z!ZoneInv, NEW i \in used, NEW j \in used, i # j
  PROVE  \/ zone_array[i].base + Z!Extent(zone_array[i]) <= zone_array[j].base
         \/ zone_array[j].base + Z!Extent(zone_array[j]) <= zone_array[i].base
<1>1. PICK y, z, a, b : /\ y = zone_array[i] /\ z = zone_array[j]
                        /\ a = ZoneAlloc(y) /\ b = ZoneAlloc(z)
  BY Zenon
<1>2. a \in allocs /\ b \in allocs /\ a.base = y.base /\ b.base = z.base /\ a.base # b.base
  BY Zenon, <1>1 DEF StackInv, RegionInv, ZoneAlloc
<1>3. M!AllocEnd(a) <= b.base \/ M!AllocEnd(b) <= a.base
  BY Zenon, <1>2 DEF M!LayoutInv, M!AllocsBelow
<1>4. /\ y.base \in Nat /\ Z!Extent(y) \in Nat /\ M!AllocEnd(a) \in Nat
      /\ y.base + Z!Extent(y) <= M!AllocEnd(a)
      /\ z.base \in Nat /\ Z!Extent(z) \in Nat /\ M!AllocEnd(b) \in Nat
      /\ z.base + Z!Extent(z) <= M!AllocEnd(b)
  BY Zenon, <1>1, <1>2, ZoneSpan
<1>5. QED
  BY <1>1, <1>2, <1>3, <1>4

(* What the regions are allocated by is apart, and above the image.        *)
LEMMA RegionsHold ==
  ASSUME StackInv, M!LayoutInv, Z!ZoneInv PROVE RegionsApart
<1> DEFINE image == <<Base, Base + KernSize>>
           zone  == {<<zone_array[i].base, zone_array[i].base + Z!Extent(zone_array[i])>> : i \in used}
           stack == {<<stacks[i].stack_base, stacks[i].stack_base + 4096>> : i \in DOMAIN stacks}
           Apart(r, s) == r = s \/ r[2] <= s[1] \/ s[2] <= r[1]
<1>1. Regions = {image} \cup zone \cup stack
  BY Zenon DEF Regions, Z!Extent, THREAD_STACK_DEFAULT_SIZE, VM_PAGE_SIZE
<1>2. Base \in Nat /\ KernSize \in Nat /\ image[1] = Base /\ image[2] = Base + KernSize
  BY VmMapAssumption
<1>3. ASSUME NEW i \in used
      PROVE  /\ zone_array[i].base \in Nat /\ Z!Extent(zone_array[i]) \in Nat
             /\ Base + KernSize <= zone_array[i].base /\ ZoneAlloc(zone_array[i]) \in allocs
  BY Zenon, ZoneSpan DEF StackInv, RegionInv
<1>4. ASSUME NEW i \in DOMAIN stacks
      PROVE  /\ stacks[i].stack_base \in Nat /\ Base + KernSize <= stacks[i].stack_base
             /\ StackAlloc(stacks[i].stack_base) \in allocs
  BY StackFields, StackSpan DEF StackInv, RegionInv
<1>5. \A r \in {image}, s \in {image} : Apart(r, s)
  BY Zenon
<1>6. \A r \in {image}, s \in zone : Apart(r, s) /\ Apart(s, r)
  BY <1>2, <1>3
<1>7. \A r \in {image}, s \in stack : Apart(r, s) /\ Apart(s, r)
  BY <1>2, <1>4
<1>8. \A r \in zone, s \in stack : Apart(r, s) /\ Apart(s, r)
  <2> SUFFICES ASSUME NEW i \in used, NEW j \in DOMAIN stacks
               PROVE  \/ zone_array[i].base + Z!Extent(zone_array[i]) <= stacks[j].stack_base
                      \/ stacks[j].stack_base + 4096 <= zone_array[i].base
    OBVIOUS
  <2>1. QED
    BY <1>3, <1>4, ZoneStackApart
<1>9. \A r \in zone, s \in zone : Apart(r, s)
  <2> SUFFICES ASSUME NEW i \in used, NEW j \in used, i # j
               PROVE  \/ zone_array[i].base + Z!Extent(zone_array[i]) <= zone_array[j].base
                      \/ zone_array[j].base + Z!Extent(zone_array[j]) <= zone_array[i].base
    OBVIOUS
  <2>1. QED
    BY Zenon, ZonesApart
<1>10. \A r \in stack, s \in stack : Apart(r, s)
  <2> SUFFICES ASSUME NEW i \in DOMAIN stacks, NEW j \in DOMAIN stacks
               PROVE  \/ stacks[i].stack_base = stacks[j].stack_base
                      \/ stacks[i].stack_base + 4096 <= stacks[j].stack_base
                      \/ stacks[j].stack_base + 4096 <= stacks[i].stack_base
    OBVIOUS
  <2>1. QED
    BY <1>4, StacksApart
<1> HIDE DEF image, zone, stack, Apart
<1>11. \A r, s \in Regions : Apart(r, s)
  BY Zenon, <1>1, <1>5, <1>6, <1>7, <1>8, <1>9, <1>10
<1>12. QED
  BY Zenon, <1>11 DEF RegionsApart, Apart

(* The listed structures and the free ones differ from one another.        *)
LEMMA ListsApart ==
  ASSUME StackInv
  PROVE  /\ \A i, j \in DOMAIN stacks : stacks[i].elem = stacks[j].elem => i = j
         /\ \A i \in DOMAIN stacks, k \in DOMAIN elems : stacks[i].elem # elems[k]
BY Zenon DEF StackInv, ElemInv

(* A thread's stack is one listed structure, between two guard pages.      *)
LEMMA StackOfThread ==
  ASSUME StackInv, AllocationsGuarded, NEW t \in Thread, stack_base[t] # NONE
  PROVE  /\ \E j \in DOMAIN stacks :
              {i \in DOMAIN stacks : stacks[i].stack_base = stack_base[t]} = {j}
         /\ \A v \in {stack_base[t] - VM_PAGE_SIZE, stack_base[t] + THREAD_STACK_DEFAULT_SIZE} :
              \E i \in DOMAIN entries : entries[i] = M!Entry(v, VM_PAGE_SIZE, M!VM_TRUE)
<1>1. PICK j \in DOMAIN stacks : stacks[j].stack_base = stack_base[t]
  BY Zenon DEF StackInv, RegionInv
<1>2. {i \in DOMAIN stacks : stacks[i].stack_base = stack_base[t]} = {j}
  BY Zenon, <1>1 DEF StackInv, RegionInv
<1>3. PICK b \in Nat : b = stack_base[t] /\ StackAlloc(b) \in allocs
  BY Zenon, <1>1, StackFields DEF StackInv, RegionInv
<1>4. \A f \in {M!GUARD_FIRST, M!GUARD_LAST} :
        LET v == IF f = M!GUARD_FIRST THEN b - 4096 ELSE b + M!page_count(4096) * 4096 IN
        \E i \in DOMAIN entries : entries[i] = M!Entry(v, 4096, M!VM_TRUE)
  <2>1. PICK a \in allocs : a = StackAlloc(b)
    BY Zenon, <1>3
  <2>2. a.base = b /\ a.size = 4096 /\ a.flags = {M!GUARD_FIRST, M!GUARD_LAST}
    BY Zenon, <2>1 DEF StackAlloc, THREAD_STACK_DEFAULT_SIZE, VM_PAGE_SIZE
  <2>3. QED
    BY <2>2 DEF AllocationsGuarded, M!AllocationsGuarded, M!VM_PAGE_SIZE
<1>5. /\ \E i \in DOMAIN entries : entries[i] = M!Entry(b - 4096, 4096, M!VM_TRUE)
      /\ \E i \in DOMAIN entries : entries[i] = M!Entry(b + 4096, 4096, M!VM_TRUE)
  BY <1>4, PageCounts DEF M!GUARD_FIRST, M!GUARD_LAST
<1>6. QED
  BY <1>2, <1>3, <1>5 DEF VM_PAGE_SIZE, THREAD_STACK_DEFAULT_SIZE

(* So the stacks are listed as they should be, if they are counted right.  *)
LEMMA StacksHold ==
  ASSUME StackInv, AllocationsGuarded,
         \A t \in Thread : stack_base[t] # NONE =>
           Cardinality({i \in DOMAIN stacks : stacks[i].stack_base = stack_base[t]}) = 1
  PROVE  StacksListed
<1>1. \A t \in Thread : stack_base[t] # NONE =>
        \A v \in {stack_base[t] - VM_PAGE_SIZE, stack_base[t] + THREAD_STACK_DEFAULT_SIZE} :
          \E i \in DOMAIN entries : entries[i] = M!Entry(v, VM_PAGE_SIZE, M!VM_TRUE)
  BY Zenon, StackOfThread
<1>2. QED
  BY Zenon, <1>1, ListsApart DEF StacksListed

(* Pages that are owned are marked, and no others but the kernel's.        *)
LEMMA PagesHold == P!PageInv => PagesExclusive /\ FreedPagesFree
<1>1. P!PageInv => PagesExclusive
  BY Zenon, OwnedPage DEF PagesExclusive, P!PagesExclusive
<1>2. QED
  BY Zenon, <1>1 DEF P!PageInv, FreedPagesFree

(* The allocators and what Kmem adds to them start as they should ...      *)
LEMMA PartsBegin ==
  Init => P!Init /\ M!Init /\ Z!Init /\ FrameInv /\ JobInv /\ StackInv
<1>1. Init => P!Init /\ M!Init /\ Z!Init
  BY Zenon DEF Init
<1>2. Init => FrameInv
  BY DEF Init, FrameInv
<1>3. QED
  BY Zenon, <1>1, <1>2, JobBegin, StackBegin

(* ... and every step keeps them so.                                       *)
LEMMA PartsStep ==
  [Next]_vars =>
    /\ [P!Next]_(P!vars) /\ [M!Next]_(M!vars)
    /\ P!PageInv /\ FrameInv => FrameInv'
    /\ M!MapInv /\ JobInv => JobInv'
    /\ LargeRequests /\ M!MapInv /\ JobInv /\ Z!ZoneInv => Z!ZoneInv'
    /\ StackInv /\ JobInv /\ M!MapInv /\ M!LayoutInv /\ Z!ZoneInv /\ Z!ZoneInv' => StackInv'
BY Zenon, PagesRefined, MapRefined, FrameStep, JobStep, ZoneKept, StackStep

(* The proofs about the map, for the map of Kmem.                          *)
MapAlloc  == INSTANCE VmMapProofs WITH at <- map_at, pages <- Len(frames)

(* Its assumptions on the constants are Kmem's.                            *)
LEMMA MapAssumptions ==
  MapAlloc!VmPageAssumption /\ MapAlloc!VmMapAssumption /\ MapAlloc!ZoneAssumption
BY VmPageAssumption, VmMapAssumption, ZoneAssumption
   DEF phys_page_count, kern_page_count, region_size, VM_PAGE_SIZE, VM_PAGE_STRUCT_SIZE,
       MapAlloc!phys_page_count, MapAlloc!kern_page_count, MapAlloc!region_size,
       MapAlloc!VM_PAGE_SIZE, MapAlloc!VM_PAGE_STRUCT_SIZE

(* The layout those proofs are about is the one of the map of Kmem.        *)
LEMMA SameLayout == MapAlloc!LayoutInv => M!LayoutInv
<1>1. /\ M!VM_PAGE_SIZE = MapAlloc!VM_PAGE_SIZE
      /\ \A n : M!page_count(n) = MapAlloc!page_count(n)
  BY DEF M!VM_PAGE_SIZE, MapAlloc!VM_PAGE_SIZE, M!page_count, MapAlloc!page_count
<1>2. \A a : M!AllocEnd(a) = MapAlloc!AllocEnd(a)
  BY Zenon, <1>1 DEF M!AllocEnd, MapAlloc!AllocEnd
<1>3. \A A, b : MapAlloc!AllocsBelow(A, b) <=> M!AllocsBelow(A, b)
  BY Zenon, <1>2 DEF M!AllocsBelow, MapAlloc!AllocsBelow
<1>4. \A E, v, n : MapAlloc!HasEntry(E, v, n) <=> M!HasEntry(E, v, n)
  BY Zenon, <1>1 DEF M!HasEntry, MapAlloc!HasEntry, M!Entry, MapAlloc!Entry, M!VM_FALSE,
                     MapAlloc!VM_FALSE
<1>5. M!Top(entries) = MapAlloc!Top(entries) /\ (M!Done <=> MapAlloc!Done)
  BY Zenon DEF M!Top, MapAlloc!Top, M!End, MapAlloc!End, M!Done, MapAlloc!Done
<1>6. ASSUME NEW c, MapAlloc!CallLayout(c) PROVE M!CallLayout(c)
  BY Zenon, <1>1, <1>3, <1>4, <1>6 DEF M!CallLayout, MapAlloc!CallLayout
<1>7. QED
  BY Zenon, <1>1, <1>3, <1>4, <1>5, <1>6 DEF M!LayoutInv, MapAlloc!LayoutInv

(* The instance the proofs are about is the map of Kmem.                   *)
LEMMA SameMap == /\ M!Init => MapAlloc!Init
                 /\ [M!Next]_(M!vars) => [MapAlloc!Next]_(MapAlloc!vars)
                 /\ MapAlloc!MapInv => M!MapInv
                 /\ MapAlloc!LayoutInv => M!LayoutInv
<1>1. M!Init => MapAlloc!Init
  BY Zenon DEF M!Init, MapAlloc!Init, M!Entry, MapAlloc!Entry, M!VM_FALSE, MapAlloc!VM_FALSE,
         M!Frame, MapAlloc!Frame
<1> USE DEF M!Step, MapAlloc!Step, M!Frame, MapAlloc!Frame, M!Map, MapAlloc!Map, M!Entry,
         MapAlloc!Entry, M!vm_map_entry_create, MapAlloc!vm_map_entry_create,
         M!VM_PAGE_SIZE, MapAlloc!VM_PAGE_SIZE, M!VM_TRUE, MapAlloc!VM_TRUE, M!VM_FALSE,
         MapAlloc!VM_FALSE, M!mapVars, MapAlloc!mapVars
<1>2. ASSUME NEW c, NEW len, NEW flags, M!vm_map_alloc(c, len, flags)
      PROVE  MapAlloc!vm_map_alloc(c, len, flags)
  BY Zenon, <1>2 DEF M!vm_map_alloc, MapAlloc!vm_map_alloc, M!Idle, MapAlloc!Idle, M!page_count,
         MapAlloc!page_count, M!VM_ALIGN_ADDR, MapAlloc!VM_ALIGN_ADDR, M!GUARD_FIRST,
         MapAlloc!GUARD_FIRST
<1>3. ASSUME NEW c, M!alloc_guard_first(c) PROVE MapAlloc!alloc_guard_first(c)
  BY <1>3 DEF M!alloc_guard_first, MapAlloc!alloc_guard_first, M!vm_guard_page_fill,
         MapAlloc!vm_guard_page_fill, M!Accessible, MapAlloc!Accessible
<1>4. ASSUME NEW c, M!alloc_page(c) PROVE MapAlloc!alloc_page(c)
  BY <1>4 DEF M!alloc_page, MapAlloc!alloc_page
<1>5. ASSUME NEW c, M!alloc_entry(c) PROVE MapAlloc!alloc_entry(c)
  BY <1>5 DEF M!alloc_entry, MapAlloc!alloc_entry, M!GUARD_LAST, MapAlloc!GUARD_LAST,
         M!page_count, MapAlloc!page_count, M!Returned, MapAlloc!Returned
<1>6. ASSUME NEW c, M!alloc_guard_last(c) PROVE MapAlloc!alloc_guard_last(c)
  BY <1>6 DEF M!alloc_guard_last, MapAlloc!alloc_guard_last, M!Returned, MapAlloc!Returned,
         M!vm_guard_page_fill, MapAlloc!vm_guard_page_fill, M!Accessible, MapAlloc!Accessible
<1>7. M!Finished => MapAlloc!Finished
  BY Zenon DEF M!Finished, MapAlloc!Finished, M!Done, MapAlloc!Done, M!vars, MapAlloc!vars
<1>8. [M!Next]_(M!vars) => [MapAlloc!Next]_(MapAlloc!vars)
  BY Zenon, <1>2, <1>3, <1>4, <1>5, <1>6, <1>7
     DEF M!Next, MapAlloc!Next, M!vars, MapAlloc!vars, M!GUARD_FIRST,
         MapAlloc!GUARD_FIRST, M!GUARD_LAST, MapAlloc!GUARD_LAST
<1>9. MapAlloc!MapInv => M!MapInv
  <2>1. MapAlloc!MapTypes => M!MapTypes
    BY DEF M!MapTypes, MapAlloc!MapTypes, M!EntryType, MapAlloc!EntryType, M!CallType,
           MapAlloc!CallType, M!Flags, MapAlloc!Flags, M!GUARD_FIRST,
           MapAlloc!GUARD_FIRST, M!GUARD_LAST, MapAlloc!GUARD_LAST
  <2>2. MapAlloc!EntriesSequential => M!EntriesSequential
    BY Zenon DEF M!EntriesSequential, MapAlloc!EntriesSequential, M!End, MapAlloc!End
  <2>3. MapAlloc!AllocationsGuarded => M!AllocationsGuarded
    BY DEF M!AllocationsGuarded, MapAlloc!AllocationsGuarded, M!GUARD_FIRST,
           MapAlloc!GUARD_FIRST, M!page_count, MapAlloc!page_count
  <2>4. ASSUME NEW c, MapAlloc!CallInv(c) PROVE M!CallInv(c)
    BY <2>4 DEF M!CallInv, MapAlloc!CallInv, M!Top, MapAlloc!Top, M!End, MapAlloc!End,
           M!HasGuard, MapAlloc!HasGuard, M!GUARD_FIRST, MapAlloc!GUARD_FIRST,
           M!page_count, MapAlloc!page_count
  <2>5. QED
    BY Zenon, <2>1, <2>2, <2>3, <2>4 DEF M!MapInv, MapAlloc!MapInv
<1>10. QED
  BY Zenon, <1>1, <1>8, <1>9, SameLayout

(* Every behaviour of Kmem is one of the page allocator and one of the     *)
(* map, for any clients.                                                   *)
THEOREM KmemParts == Spec => P!Spec /\ M!Spec /\ MapAlloc!Spec
BY PartsBegin, PartsStep, SameMap, PTL DEF Spec, P!Spec, M!Spec, MapAlloc!Spec

(* The inductive invariants of the parts, in Kmem: pages ...               *)
LEMMA KmemPageInv == ASSUME Serial, MemBase = PhysBase PROVE Spec => []P!PageInv
<1>1. P!PageInv /\ [P!Next]_(P!vars) => P!PageInv'
  BY Zenon, PageStep
<1>2. QED
  BY <1>1, PageInit, KmemParts, PTL DEF P!Spec

(* ... and map.                                                            *)
LEMMA KmemMapInv == ASSUME Serial PROVE Spec => [](M!MapInv /\ M!LayoutInv)
<1>1. MapAlloc!Spec => [](MapAlloc!MapInv /\ MapAlloc!LayoutInv)
  BY Zenon, MapAlloc!LayoutInductive, MapAssumptions
<1>2. QED
  BY <1>1, SameMap, KmemParts, PTL

(* Every page vm_map_alloc and the other callers of vm_page_alloc have is  *)
(* theirs alone, and none is the kernel's.                                 *)
THEOREM KmemPages ==
  ASSUME Serial, MemBase = PhysBase PROVE Spec => []PagesExclusive
BY PagesHold, KmemPageInv, PTL

(* No page that vm_page_alloc marked is lost between it and vm_map_alloc.  *)
THEOREM KmemPagesFree ==
  ASSUME Serial, MemBase = PhysBase PROVE Spec => []FreedPagesFree
BY PagesHold, KmemPageInv, PTL

(* Guarded allocations have their guard pages, whoever asks for them.      *)
THEOREM KmemGuarded == ASSUME Serial PROVE Spec => []AllocationsGuarded
<1>1. M!MapInv => AllocationsGuarded
  BY Zenon DEF M!MapInv, AllocationsGuarded
<1>2. QED
  BY <1>1, KmemMapInv, PTL

(* The calls are for what JobInv says, throughout.                         *)
LEMMA KmemJobs == ASSUME Serial PROVE Spec => []JobInv
BY PartsBegin, PartsStep, KmemMapInv, PTL DEF Spec

(* The map loses no page and shares none: what vm_page_alloc gave it is    *)
(* its own, once each, and counted in its size between calls.              *)
THEOREM KmemAccounted == ASSUME Serial, MemBase = PhysBase PROVE Spec => []PagesAccounted
BY AccountsHold, PartsBegin, PartsStep, KmemPageInv, KmemMapInv, PTL DEF Spec

(* The inductive invariant of the zones, in Kmem.                          *)
LEMMA KmemZoneInv == ASSUME Serial, LargeRequests PROVE Spec => []Z!ZoneInv
BY PartsBegin, PartsStep, ZoneInit, KmemMapInv, KmemJobs, PTL DEF Spec

(* The pages zone_create allocates hold the elements and their metadata.   *)
THEOREM ZoneElementsFit == ASSUME Serial, LargeRequests PROVE Spec => []Z!ElementsFit
<1>1. Z!ZoneInv => Z!ElementsFit
  BY DEF Z!ZoneInv, Z!ElementsFit, Z!Extent, Z!VM_PAGE_SIZE
<1>2. QED
  BY <1>1, KmemZoneInv, PTL

(* zone_create takes descriptors in order and none twice.                  *)
THEOREM ZoneDescriptors == ASSUME Serial, LargeRequests PROVE Spec => []Z!DescriptorsInOrder
<1>1. Z!ZoneInv => Z!DescriptorsInOrder
  BY DEF Z!ZoneInv, Z!DescriptorsInOrder
<1>2. QED
  BY <1>1, KmemZoneInv, PTL

(* Zones and stacks are what StackInv says, throughout.                    *)
LEMMA KmemStackInv == ASSUME Serial, LargeRequests PROVE Spec => []StackInv
BY PartsBegin, PartsStep, KmemJobs, KmemMapInv, KmemZoneInv, PTL DEF Spec

(* No element of one zone overlaps an element of another.                  *)
THEOREM ZoneElementsApart == ASSUME Serial, LargeRequests PROVE Spec => []Z!ElementsApart
<1>1. StackInv /\ M!LayoutInv /\ Z!ZoneInv => Z!ElementsApart
  BY Zenon, ZonesApart DEF Z!ElementsApart, Z!Extent
<1>2. QED
  BY <1>1, KmemStackInv, KmemMapInv, KmemZoneInv, PTL

(* Every zone begins an entry of the map that holds all of its elements,   *)
(* whatever else is allocated before and after zone_create.                *)
THEOREM KmemZonesBacked == ASSUME Serial, LargeRequests PROVE Spec => []ZonesBacked
BY ZonesHold, KmemStackInv, KmemMapInv, KmemZoneInv, PTL

(* The image, the zones and the stacks share no byte, whatever is          *)
(* allocated and freed, for any zones with elements of three bytes or      *)
(* more.                                                                   *)
THEOREM KmemRegions == ASSUME Serial, LargeRequests PROVE Spec => []RegionsApart
BY RegionsHold, KmemStackInv, KmemMapInv, KmemZoneInv, PTL

(* What is known of finite sets.                                           *)
Sets == INSTANCE FiniteSetTheorems

(* A set with one element has cardinality one.                             *)
LEMMA SingletonCount == \A x : Cardinality({x}) = 1
<1>1. \A x : Cardinality({x}) = Sets!Cardinality({x})
  BY Zenon DEF Cardinality, Sets!Cardinality
<1>2. QED
  BY Zenon, <1>1, Sets!FS_Singleton

(* Every thread with a stack has one structure listed for it and its guard *)
(* pages, and no listed structure is handed out again.                     *)
THEOREM KmemStacks == ASSUME Serial, LargeRequests PROVE Spec => []StacksListed
<1>1. ASSUME StackInv, AllocationsGuarded PROVE StacksListed
  <2>1. \A t \in Thread : stack_base[t] # NONE =>
          Cardinality({i \in DOMAIN stacks : stacks[i].stack_base = stack_base[t]}) = 1
    BY Zenon, <1>1, StackOfThread, SingletonCount
  <2>2. QED
    BY Zenon, <1>1, <2>1, StacksHold
<1>2. QED
  BY <1>1, KmemStackInv, KmemGuarded, PTL
=============================================================================
