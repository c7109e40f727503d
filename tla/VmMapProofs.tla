---------------------------- MODULE VmMapProofs -----------------------------
(***************************************************************************)
(* With callers that take turns, the entries of a map follow one another   *)
(* and guarded allocations have their guard pages, for any sizes and any   *)
(* number of entries.                                                      *)
(***************************************************************************)
EXTENDS VmMap, TLAPS

(* VM_ALIGN_ADDR never lowers an address, and vm_map_alloc maps at least   *)
(* one page.                                                               *)
LEMMA MapFacts ==
  /\ \A a \in Nat : VM_ALIGN_ADDR(a) \in Nat /\ VM_ALIGN_ADDR(a) >= a
  /\ \A n \in Nat : page_count(n) \in Nat /\ page_count(n) > 0
BY DEF VM_ALIGN_ADDR, page_count, VM_PAGE_SIZE

(* vm_map_entry_create at or above the end of the last entry keeps the     *)
(* order, and every guard entry stays.                                     *)
LEMMA AppendEntry ==
  ASSUME MapTypes, EntriesSequential, NEW new \in EntryType, Top(entries) <= new.base,
         entries' = Append(entries, new)
  PROVE  /\ entries' \in Seq(EntryType) /\ Len(entries') > 0
         /\ EntriesSequential' /\ Top(entries') = End(new)
         /\ \A v : HasGuard(entries, v) => HasGuard(entries', v)
         /\ \A v : new = Entry(v, VM_PAGE_SIZE, VM_TRUE) => HasGuard(entries', v)
<1> DEFINE n == Len(entries)
<1>2. n \in Nat \ {0} /\ entries \in Seq(EntryType)
  BY DEF MapTypes
<1>3. /\ entries' \in Seq(EntryType) /\ Len(entries') = n + 1
      /\ entries'[n + 1] = new /\ \A i \in 1..n : entries'[i] = entries[i]
      /\ DOMAIN entries' = 1..(n + 1) /\ DOMAIN entries = 1..n
  BY <1>2
<1>4. \A i \in 1..n : End(entries[i]) <= new.base
  <2> SUFFICES ASSUME NEW i \in 1..n PROVE End(entries[i]) <= new.base
    BY Zenon
  <2>1. entries[i] \in EntryType /\ entries[n] \in EntryType
    BY <1>2
  <2>2. i < n => End(entries[i]) <= entries[n].base
    BY <1>2, <1>3 DEF EntriesSequential
  <2>3. QED
    BY <2>1, <2>2, <1>2 DEF Top, End, EntryType
<1>5. EntriesSequential'
  <2> SUFFICES ASSUME NEW i \in 1..(n + 1), NEW j \in 1..(n + 1), i < j
               PROVE  End(entries'[i]) <= entries'[j].base
    BY Zenon, <1>3 DEF EntriesSequential, End
  <2>1. CASE j = n + 1
    BY <2>1, <1>2, <1>3, <1>4
  <2>2. CASE j # n + 1
    BY <2>2, <1>2, <1>3 DEF EntriesSequential
  <2>3. QED
    BY Zenon, <2>1, <2>2
<1>6. Top(entries') = End(new)
  BY Zenon, <1>2, <1>3 DEF Top, End
<1>7. \A v : HasGuard(entries, v) => HasGuard(entries', v)
  <2> SUFFICES ASSUME NEW v, HasGuard(entries, v) PROVE HasGuard(entries', v)
    BY Zenon
  <2>1. PICK i \in 1..n : entries[i] = Entry(v, VM_PAGE_SIZE, VM_TRUE)
    BY Zenon, <1>3 DEF HasGuard
  <2>2. i \in DOMAIN entries' /\ entries'[i] = Entry(v, VM_PAGE_SIZE, VM_TRUE)
    BY <2>1, <1>2, <1>3
  <2>3. QED
    BY Zenon, <2>2 DEF HasGuard, Entry
<1>8. \A v : new = Entry(v, VM_PAGE_SIZE, VM_TRUE) => HasGuard(entries', v)
  <2>1. n + 1 \in DOMAIN entries'
    BY <1>2, <1>3
  <2>2. QED
    BY Zenon, <2>1, <1>3 DEF HasGuard
<1>9. Len(entries') > 0
  BY <1>2, <1>3
<1>10. QED
  BY Zenon, <1>3, <1>5, <1>6, <1>7, <1>8, <1>9

(* The guard entries an allocation needs.                                  *)
Guarded(E, a) ==
  \A f \in a.flags : HasGuard(E, IF f = GUARD_FIRST THEN a.base - VM_PAGE_SIZE
                              ELSE a.base + page_count(a.size) * VM_PAGE_SIZE)

(* AllocationsGuarded, one allocation at a time, before and after a step.  *)
LEMMA GuardedDef ==
  /\ AllocationsGuarded <=> \A a \in allocs : Guarded(entries, a)
  /\ AllocationsGuarded' <=> \A a \in allocs' : Guarded(entries', a)
BY Zenon DEF AllocationsGuarded, Guarded, HasGuard

(* An allocation stays guarded while no guard entry goes away.             *)
LEMMA GuardedKept ==
  ASSUME \A v : HasGuard(entries, v) => HasGuard(entries', v), NEW a, Guarded(entries, a)
  PROVE  Guarded(entries', a)
BY Zenon DEF Guarded

(* The other clients are out of the allocator and stay there.              *)
LEMMA OthersOut ==
  ASSUME MapTypes, NEW c \in Client, CallInv(c), at[c] # "out",
         NEW to \in {"out", "first", "pages", "last"}, at' = [at EXCEPT ![c] = to]
  PROVE  /\ at' \in [Client -> {"out", "first", "pages", "last"}] /\ at'[c] = to
         /\ \A d \in Client : d # c => at'[d] = "out" /\ CallInv(d)'
BY DEF MapTypes, CallInv

(* The map vm_configure leaves.                                            *)
LEMMA MapInit == Init => MapInv
<1> SUFFICES ASSUME Init PROVE MapInv
  BY Zenon
<1>0. Entry(Base, KernSize, VM_FALSE) \in EntryType
  BY VmMapAssumption DEF Entry, EntryType
<1>1. PICK e \in EntryType : entries = <<e>>
  BY Zenon, <1>0 DEF Init
<1>2. MapTypes
  <2>1. entries \in Seq(EntryType) /\ Len(entries) > 0
    BY <1>1
  <2>2. Frame(0, {}, 0, 0, 0) \in CallType
    BY Zenon DEF Frame, CallType, Flags
  <2>3. QED
    BY Zenon, <2>1, <2>2 DEF Init, MapTypes
<1>3. EntriesSequential
  BY <1>1 DEF EntriesSequential
<1>4. AllocationsGuarded /\ \A c \in Client : CallInv(c)
  BY DEF Init, AllocationsGuarded, CallInv
<1>5. QED
  BY Zenon, <1>2, <1>3, <1>4 DEF MapInv

(* A call starts above the last entry.                                     *)
LEMMA MapStart ==
  ASSUME Serial, MapInv, NEW c \in Client, NEW len \in Size, NEW flags \in Flags,
         vm_map_alloc(c, len, flags)
  PROVE  MapInv'
<1> DEFINE last == entries[Len(entries)]
           base == VM_ALIGN_ADDR(last.base + last.size + 1)
           to == IF GUARD_FIRST \in flags THEN "first" ELSE "pages"
           k == Frame(len, flags, base, base, page_count(len))
<1>1. last \in EntryType /\ Top(entries) = last.base + last.size + 1
  BY DEF MapInv, MapTypes, Top, End
<1>2. base \in Nat /\ Top(entries) <= base /\ Top(entries) \in Nat
  <2>1. last.base + last.size + 1 \in Nat
    BY <1>1 DEF EntryType
  <2>2. QED
    BY Zenon, <2>1, <1>1, MapFacts
<1>3. len \in Nat /\ page_count(len) \in Nat
  BY Zenon, VmMapAssumption, MapFacts
<1>4. k \in CallType /\ k.vbase = base /\ k.vcursor = base /\ k.todo = page_count(len)
      /\ k.size = len /\ k.flags = flags
  BY Zenon, <1>2, <1>3 DEF CallType, Frame
<1>5. /\ at' = [at EXCEPT ![c] = to] /\ call' = [call EXCEPT ![c] = k]
      /\ entries' = entries /\ allocs' = allocs /\ \A d \in Client : at[d] = "out"
  BY Zenon DEF vm_map_alloc, Step, Idle, mapVars
<1> HIDE DEF base, k, last
<1>6. MapTypes'
  BY Zenon, <1>4, <1>5 DEF MapInv, MapTypes
<1>7. Top(entries') = Top(entries) /\ EntriesSequential' /\ AllocationsGuarded'
  BY Zenon, <1>5 DEF MapInv, Top, End, EntriesSequential, AllocationsGuarded
<1>8. \A d \in Client : d # c => CallInv(d)'
  BY <1>5 DEF MapInv, MapTypes, CallInv
<1>9. CallInv(c)'
  <2>1. at'[c] = to /\ call'[c] = k /\ \A d \in Client : d # c => at'[d] = "out"
    BY Zenon, <1>5 DEF MapInv, MapTypes
  <2>2. Top(entries') <= k.vbase
    BY Zenon, <1>2, <1>4, <1>7
  <2>3. QED
    BY <2>1, <2>2, <1>4 DEF CallInv
<1>10. QED
  BY Zenon, <1>6, <1>7, <1>8, <1>9 DEF MapInv

(* The first guard page.                                                   *)
LEMMA MapGuardFirst ==
  ASSUME MapInv, NEW c \in Client, alloc_guard_first(c)
  PROVE  MapInv'
<1>0. PICK k, v : k = call[c] /\ v = k.vcursor
  BY Zenon
<1>1. /\ at[c] = "first" /\ k \in CallType /\ v = k.vbase /\ Top(entries) <= v /\ v \in Nat
      /\ k.todo = page_count(k.size) /\ CallInv(c) /\ MapTypes /\ EntriesSequential
      /\ page_count(k.size) \in Nat /\ k.todo \in Nat
  <2>1. at[c] = "first" /\ k \in CallType /\ MapTypes /\ CallInv(c) /\ EntriesSequential
    BY Zenon, <1>0 DEF MapInv, MapTypes, alloc_guard_first, Step
  <2>2. k.size \in Nat /\ v \in Nat /\ k.todo \in Nat
    BY Zenon, <2>1, <1>0 DEF CallType
  <2>3. QED
    BY <2>1, <2>2, <1>0, MapFacts DEF CallInv
<1>2. /\ at' = [at EXCEPT ![c] = "pages"] /\ allocs' = allocs
      /\ entries' = Append(entries, Entry(v, 4096, VM_TRUE))
      /\ call' = [call EXCEPT ![c] = Frame(k.size, k.flags, v + 4096, v + 4096, k.todo)]
  BY <1>0 DEF alloc_guard_first, Step, vm_map_entry_create, VM_PAGE_SIZE
<1>3. /\ entries' \in Seq(EntryType) /\ Len(entries') > 0
      /\ EntriesSequential' /\ Top(entries') = v + 4096
      /\ \A x : HasGuard(entries, x) => HasGuard(entries', x)
      /\ HasGuard(entries', v)
  <2>1. PICK e : e = Entry(v, 4096, VM_TRUE)
    OBVIOUS
  <2>2. e \in EntryType /\ e.base = v /\ End(e) = v + 4096
    BY <2>1, <1>1 DEF Entry, EntryType, End
  <2>3. Top(entries) <= e.base /\ entries' = Append(entries, e)
    BY <2>1, <2>2, <1>1, <1>2
  <2>4. e = Entry(v, VM_PAGE_SIZE, VM_TRUE)
    BY Zenon, <2>1 DEF VM_PAGE_SIZE
  <2>5. QED
    BY <2>2, <2>3, <2>4, <1>1, AppendEntry
<1>4. AllocationsGuarded'
  <2>1. \A a \in allocs : Guarded(entries', a)
    BY <1>3, GuardedDef, GuardedKept DEF MapInv
  <2>2. QED
    BY <2>1, <1>2, GuardedDef
<1>5. /\ at' \in [Client -> {"out", "first", "pages", "last"}] /\ at'[c] = "pages"
      /\ \A d \in Client : d # c => at'[d] = "out" /\ CallInv(d)'
  BY Zenon, <1>1, <1>2, OthersOut
<1>6. /\ call' \in [Client -> CallType] /\ call'[c].vbase = v + 4096 /\ call'[c].vcursor = v + 4096
      /\ call'[c].todo = k.todo /\ call'[c].size = k.size /\ call'[c].flags = k.flags
  <2>1. PICK q : q = Frame(k.size, k.flags, v + 4096, v + 4096, k.todo)
    OBVIOUS
  <2>2. /\ q \in CallType /\ q.vbase = v + 4096 /\ q.vcursor = v + 4096
        /\ q.todo = k.todo /\ q.size = k.size /\ q.flags = k.flags
    BY <2>1, <1>1 DEF CallType, Frame
  <2>3. call' = [call EXCEPT ![c] = q] /\ call \in [Client -> CallType]
    BY <2>1, <1>0, <1>1, <1>2 DEF MapTypes
  <2>4. QED
    BY <2>2, <2>3
<1>7. CallInv(c)'
  <2>1. call'[c].vbase - 4096 = v
    BY <1>1, <1>6
  <2>2. HasGuard(entries', call'[c].vbase - 4096)
    BY <2>1, <1>3
  <2>3. Top(entries') <= call'[c].vbase
    BY <1>1, <1>3, <1>6
  <2>4. page_count(call[c].size)' = k.todo
    BY <1>1, <1>6 DEF page_count
  <2>5. (call[c].vcursor + call[c].todo * 4096 = call[c].vbase + page_count(call[c].size) * 4096)'
    BY <2>4, <1>1, <1>6
  <2>6. QED
    BY <2>2, <2>3, <2>5, <1>5 DEF CallInv
<1>8. QED
  BY <1>3, <1>4, <1>5, <1>6, <1>7 DEF MapInv, MapTypes

(* A page of the allocation.                                               *)
LEMMA MapPage ==
  ASSUME MapInv, NEW c \in Client, alloc_page(c)
  PROVE  MapInv'
<1>0. PICK k : k = call[c]
  BY Zenon
<1>1. at[c] = "pages" /\ k \in CallType /\ MapTypes /\ CallInv(c) /\ k.todo > 0
  BY Zenon, <1>0 DEF MapInv, MapTypes, alloc_page, Step
<1>2. PICK q : q = Frame(k.size, k.flags, k.vbase, k.vcursor + 4096, k.todo - 1)
  OBVIOUS
<1>3. /\ q \in CallType /\ q.vbase = k.vbase /\ q.vcursor = k.vcursor + 4096
      /\ q.todo = k.todo - 1 /\ q.size = k.size /\ q.flags = k.flags
  BY <1>1, <1>2 DEF CallType, Frame
<1>4. /\ at' = [at EXCEPT ![c] = "pages"] /\ allocs' = allocs /\ entries' = entries
      /\ call' = [call EXCEPT ![c] = q]
  BY <1>0, <1>2 DEF alloc_page, Step, mapVars, VM_PAGE_SIZE
<1>5. /\ at' \in [Client -> {"out", "first", "pages", "last"}] /\ at'[c] = "pages"
      /\ \A d \in Client : d # c => at'[d] = "out" /\ CallInv(d)'
  BY Zenon, <1>1, <1>4, OthersOut
<1>6. call' \in [Client -> CallType] /\ call'[c] = q
  BY <1>1, <1>3, <1>4 DEF MapTypes
<1>7. EntriesSequential' /\ AllocationsGuarded'
  BY Zenon, <1>4 DEF MapInv, EntriesSequential, AllocationsGuarded
<1>8. CallInv(c)'
  <2>1. k.vcursor + k.todo * 4096 = k.vbase + page_count(k.size) * 4096
    BY <1>0, <1>1 DEF CallInv
  <2>2. page_count(k.size) \in Nat /\ k.vcursor \in Nat /\ k.todo \in Nat /\ k.vbase \in Nat
    BY Zenon, <1>1, MapFacts DEF CallType
  <2>3. q.vcursor + q.todo * 4096 = q.vbase + page_count(q.size) * 4096
    BY <2>1, <2>2, <1>3
  <2>4. Top(entries') <= q.vbase
    BY <1>0, <1>1, <1>3, <1>4 DEF CallInv
  <2>5. GUARD_FIRST \in q.flags => HasGuard(entries', q.vbase - 4096)
    BY <1>0, <1>1, <1>3, <1>4 DEF CallInv
  <2>6. QED
    BY <2>3, <2>4, <2>5, <1>5, <1>6 DEF CallInv
<1>9. QED
  BY Zenon, <1>1, <1>4, <1>5, <1>6, <1>7, <1>8 DEF MapInv, MapTypes

(* A call that returns adds its allocation to the history with the guard   *)
(* entries it was asked for.                                               *)
LEMMA ReturnGuarded ==
  ASSUME MapInv, NEW c \in Client, \A v : HasGuard(entries, v) => HasGuard(entries', v),
         \A f \in call[c].flags :
           HasGuard(entries', IF f = GUARD_FIRST THEN call[c].vbase - 4096
                              ELSE call[c].vbase + page_count(call[c].size) * 4096),
         allocs' = allocs \cup {Returned(c)}
  PROVE  AllocationsGuarded'
<1>1. PICK r : r = Returned(c)
  OBVIOUS
<1>2. r.base = call[c].vbase /\ r.size = call[c].size /\ r.flags = call[c].flags
  BY Zenon, <1>1 DEF Returned
<1>3. Guarded(entries', r)
  BY <1>2 DEF Guarded, VM_PAGE_SIZE
<1>4. \A a \in allocs : Guarded(entries', a)
  BY GuardedDef, GuardedKept DEF MapInv
<1>5. QED
  BY <1>1, <1>3, <1>4, GuardedDef

(* The entry of the allocation.                                            *)
LEMMA MapEntry ==
  ASSUME MapInv, NEW c \in Client, alloc_entry(c)
  PROVE  MapInv'
<1>0. PICK k, len, to : /\ k = call[c] /\ len = page_count(k.size) * 4096
                        /\ to = IF GUARD_LAST \in k.flags THEN "last" ELSE "out"
  OBVIOUS
<1>1. at[c] = "pages" /\ k \in CallType /\ MapTypes /\ EntriesSequential /\ CallInv(c) /\ k.todo = 0
  BY Zenon, <1>0 DEF MapInv, MapTypes, alloc_entry, Step
<1>2. /\ k.size \in Nat /\ k.vbase \in Nat /\ k.vcursor \in Nat /\ k.flags \in Flags
      /\ page_count(k.size) \in Nat /\ page_count(k.size) > 0
  BY Zenon, <1>1, MapFacts DEF CallType
<1>3. len \in Nat /\ len > 0 /\ k.vcursor = k.vbase + len /\ Top(entries) <= k.vbase
  BY <1>0, <1>1, <1>2 DEF CallInv
<1>4. PICK e : e = Entry(k.vbase, len, VM_FALSE)
  BY Zenon
<1>5. e \in EntryType /\ e.base = k.vbase /\ End(e) = k.vcursor
  BY <1>2, <1>3, <1>4 DEF Entry, EntryType, End
<1>6. /\ at' = [at EXCEPT ![c] = to] /\ entries' = Append(entries, e) /\ call' = call
      /\ allocs' = IF GUARD_LAST \in k.flags THEN allocs ELSE allocs \cup {Returned(c)}
  BY <1>0, <1>4 DEF alloc_entry, Step, vm_map_entry_create, VM_PAGE_SIZE
<1>7. /\ entries' \in Seq(EntryType) /\ Len(entries') > 0
      /\ EntriesSequential' /\ Top(entries') = k.vcursor
      /\ \A x : HasGuard(entries, x) => HasGuard(entries', x)
  BY Zenon, <1>1, <1>3, <1>5, <1>6, AppendEntry
<1>8. /\ at' \in [Client -> {"out", "first", "pages", "last"}] /\ at'[c] = to
      /\ \A d \in Client : d # c => at'[d] = "out" /\ CallInv(d)'
  BY Zenon, <1>0, <1>1, <1>6, OthersOut
<1>9. GUARD_FIRST \in k.flags => HasGuard(entries', k.vbase - 4096)
  BY <1>0, <1>1, <1>7 DEF CallInv
<1>10. AllocationsGuarded'
  <2>1. CASE GUARD_LAST \in k.flags
    <3>1. \A a \in allocs : Guarded(entries', a)
      BY Zenon, <1>7, GuardedDef, GuardedKept DEF MapInv
    <3>2. QED
      BY Zenon, <3>1, <2>1, <1>6, GuardedDef
  <2>2. CASE GUARD_LAST \notin k.flags
    <3>1. \A f \in k.flags : f = GUARD_FIRST
      BY Zenon, <2>2, <1>2 DEF Flags
    <3>2. QED
      BY <3>1, <2>2, <1>0, <1>6, <1>7, <1>9, ReturnGuarded
  <2>3. QED
    BY Zenon, <2>1, <2>2
<1>11. CallInv(c)'
  <2>1. Top(entries') <= k.vcursor /\ to \in {"last", "out"}
    BY <1>0, <1>2, <1>7
  <2>2. k.vcursor + k.todo * 4096 = k.vbase + page_count(k.size) * 4096
    BY <1>0, <1>1 DEF CallInv
  <2>3. QED
    BY <2>1, <2>2, <1>0, <1>1, <1>6, <1>8, <1>9 DEF CallInv
<1>12. QED
  BY Zenon, <1>1, <1>6, <1>7, <1>8, <1>10, <1>11 DEF MapInv, MapTypes

(* The last guard page.                                                    *)
LEMMA MapGuardLast ==
  ASSUME MapInv, NEW c \in Client, alloc_guard_last(c)
  PROVE  MapInv'
<1>0. PICK k, v : k = call[c] /\ v = k.vcursor
  BY Zenon
<1>1. at[c] = "last" /\ k \in CallType /\ MapTypes /\ EntriesSequential /\ CallInv(c)
  BY Zenon, <1>0 DEF MapInv, MapTypes, alloc_guard_last, Step
<1>2. v \in Nat /\ k.vbase \in Nat /\ page_count(k.size) \in Nat /\ k.flags \in Flags
  BY Zenon, <1>0, <1>1, MapFacts DEF CallType
<1>3. v = k.vbase + page_count(k.size) * 4096 /\ Top(entries) <= v
  BY <1>0, <1>1, <1>2 DEF CallInv
<1>4. PICK e : e = Entry(v, VM_PAGE_SIZE, VM_TRUE)
  BY Zenon
<1>5. e \in EntryType /\ e.base = v
  BY <1>2, <1>4 DEF Entry, EntryType, VM_PAGE_SIZE
<1>6. /\ at' = [at EXCEPT ![c] = "out"] /\ entries' = Append(entries, e) /\ call' = call
      /\ allocs' = allocs \cup {Returned(c)}
  BY Zenon, <1>0, <1>4 DEF alloc_guard_last, Step, vm_map_entry_create
<1>7. /\ entries' \in Seq(EntryType) /\ Len(entries') > 0 /\ EntriesSequential'
      /\ \A x : HasGuard(entries, x) => HasGuard(entries', x)
      /\ HasGuard(entries', v)
  BY <1>1, <1>3, <1>4, <1>5, <1>6, AppendEntry
<1>8. /\ at' \in [Client -> {"out", "first", "pages", "last"}] /\ at'[c] = "out"
      /\ \A d \in Client : d # c => at'[d] = "out" /\ CallInv(d)'
  BY Zenon, <1>1, <1>6, OthersOut
<1>9. \A f \in k.flags : HasGuard(entries', IF f = GUARD_FIRST THEN k.vbase - 4096
                                           ELSE k.vbase + page_count(k.size) * 4096)
  <2>1. GUARD_FIRST \in k.flags => HasGuard(entries', k.vbase - 4096)
    BY <1>0, <1>1, <1>7 DEF CallInv
  <2>2. QED
    BY <2>1, <1>3, <1>7
<1>10. AllocationsGuarded'
  <2>1. \A f \in call[c].flags :
          HasGuard(entries', IF f = GUARD_FIRST THEN call[c].vbase - 4096
                             ELSE call[c].vbase + page_count(call[c].size) * 4096)
    BY <1>0, <1>9
  <2>2. QED
    BY <1>6, <1>7, <2>1, ReturnGuarded
<1>11. CallInv(c)'
  BY Zenon, <1>8 DEF CallInv
<1>12. QED
  BY Zenon, <1>1, <1>6, <1>7, <1>8, <1>10, <1>11 DEF MapInv, MapTypes

(* With callers that take turns every step keeps the invariant.            *)
LEMMA MapStep == ASSUME Serial, MapInv, [Next]_vars PROVE MapInv'
<1>1. CASE UNCHANGED vars
  BY <1>1 DEF vars, mapVars, MapInv, MapTypes, EntriesSequential, AllocationsGuarded, CallInv
<1>2. CASE Finished
  BY Zenon, <1>1, <1>2 DEF Finished
<1>3. ASSUME NEW c \in Client, NEW len \in Size, NEW flags \in Flags,
             vm_map_alloc(c, len, flags)
      PROVE  MapInv'
  BY Zenon, <1>3, MapStart
<1>4. ASSUME NEW c \in Client,
             alloc_guard_first(c) \/ alloc_page(c) \/ alloc_entry(c) \/ alloc_guard_last(c)
      PROVE  MapInv'
  BY Zenon, <1>4, MapGuardFirst, MapPage, MapEntry, MapGuardLast
<1>5. QED
  BY Zenon, <1>1, <1>2, <1>3, <1>4 DEF Next, Flags

(* The invariant always holds.                                             *)
THEOREM MapInductive == ASSUME Serial PROVE Spec => []MapInv
<1>1. MapInv /\ [Next]_vars => MapInv'
  BY Zenon, MapStep
<1>2. QED
  BY MapInit, <1>1, PTL DEF Spec

(* The entries vm_map_alloc makes follow one another without overlap.      *)
THEOREM MapSequential == ASSUME Serial PROVE Spec => []EntriesSequential
<1>1. MapInv => EntriesSequential
  BY Zenon DEF MapInv
<1>2. QED
  BY MapInductive, <1>1, PTL

(* Every allocation has the guard entries its flags ask for, next to it.   *)
THEOREM MapGuarded == ASSUME Serial PROVE Spec => []AllocationsGuarded
<1>1. MapInv => AllocationsGuarded
  BY Zenon DEF MapInv
<1>2. QED
  BY MapInductive, <1>1, PTL
-----------------------------------------------------------------------------
(* Where the allocations lie, and how the map counts its pages.            *)

(* An allocation above all others joins them.                              *)
LEMMA AllocsGrow ==
  ASSUME NEW A, NEW b \in Nat, AllocsBelow(A, b), NEW r, NEW top \in Nat, NEW e \in Nat,
         r.base \in Nat, r.size \in Nat, Base + KernSize <= r.base, b <= r.base,
         e = AllocEnd(r), e <= top, r.base <= e
  PROVE  AllocsBelow(A \cup {r}, top)
<1>1. page_count(r.size) \in Nat /\ \A a \in A : page_count(a.size) \in Nat
  BY Zenon, MapFacts DEF AllocsBelow
<1>2. \A a \in A : AllocEnd(a) \in Nat /\ AllocEnd(a) <= r.base /\ AllocEnd(a) <= top
  BY <1>1 DEF AllocsBelow, AllocEnd, VM_PAGE_SIZE
<1>3. QED
  BY Zenon, <1>2 DEF AllocsBelow

(* A higher bound holds for the same allocations.                          *)
LEMMA AllocsRaise ==
  ASSUME NEW A, NEW b \in Nat, AllocsBelow(A, b), NEW top \in Nat, b <= top
  PROVE  AllocsBelow(A, top)
<1>1. \A a \in A : page_count(a.size) \in Nat
  BY Zenon, MapFacts DEF AllocsBelow
<1>2. \A a \in A : AllocEnd(a) \in Nat
  BY <1>1 DEF AllocsBelow, AllocEnd, VM_PAGE_SIZE
<1>3. QED
  BY <1>2 DEF AllocsBelow

(* An entry stays when vm_map_entry_create appends another.                *)
LEMMA EntryKept ==
  ASSUME MapTypes, NEW e, entries' = Append(entries, e)
  PROVE  /\ \A v, n : HasEntry(entries, v, n) => HasEntry(entries', v, n)
         /\ \A v, n : e = Entry(v, n * VM_PAGE_SIZE, VM_FALSE) => HasEntry(entries', v, n)
<1> DEFINE m == Len(entries)
<1>1. m \in Nat /\ DOMAIN entries = 1..m
  BY DEF MapTypes
<1>2. /\ DOMAIN entries' = 1..(m + 1) /\ entries'[m + 1] = e /\ m + 1 \in 1..(m + 1)
      /\ \A i \in 1..m : i \in 1..(m + 1) /\ entries'[i] = entries[i]
  BY <1>1 DEF MapTypes
<1> HIDE DEF m
<1>3. QED
  BY Zenon, <1>1, <1>2 DEF HasEntry

(* The end of the map is an address.                                       *)
LEMMA TopNat == ASSUME MapTypes PROVE Top(entries) \in Nat
<1>1. entries[Len(entries)] \in EntryType
  BY DEF MapTypes
<1>2. QED
  BY <1>1 DEF Top, End, EntryType

(* The map vm_configure leaves has no allocation yet.                      *)
LEMMA LayoutInit == Init => LayoutInv
<1> SUFFICES ASSUME Init PROVE LayoutInv
  BY Zenon
<1>1. entries = <<Entry(Base, KernSize, VM_FALSE)>>
  BY Zenon DEF Init
<1>2. Top(entries) = Base + KernSize
  BY <1>1, VmMapAssumption DEF Top, End, Entry
<1>3. pages = 0 /\ size = KernSize /\ allocs = {} /\ \A c \in Client : at[c] = "out"
  BY Zenon DEF Init
<1>4. AllocsBelow(allocs, Top(entries))
  BY Zenon, <1>3 DEF AllocsBelow
<1>5. \A c \in Client : CallLayout(c)
  BY Zenon, <1>3 DEF CallLayout
<1>6. QED
  BY <1>2, <1>3, <1>4, <1>5, VmMapAssumption DEF LayoutInv, VM_PAGE_SIZE

(* A call starts with no page of its own.                                  *)
LEMMA LayoutStart ==
  ASSUME Serial, MapInv, LayoutInv, NEW c \in Client, NEW len \in Size, NEW flags \in Flags,
         vm_map_alloc(c, len, flags)
  PROVE  LayoutInv'
<1> DEFINE last == entries[Len(entries)]
           base == VM_ALIGN_ADDR(last.base + last.size + 1)
           to == IF GUARD_FIRST \in flags THEN "first" ELSE "pages"
           k == Frame(len, flags, base, base, page_count(len))
<1>1. Top(entries) = last.base + last.size + 1 /\ Top(entries) \in Nat
  BY Zenon, TopNat DEF MapInv, Top, End
<1>2. base \in Nat /\ Top(entries) <= base
  <2> HIDE DEF last
  <2>1. VM_ALIGN_ADDR(Top(entries)) >= Top(entries) /\ VM_ALIGN_ADDR(Top(entries)) \in Nat
    BY Zenon, <1>1, MapFacts
  <2>2. QED
    BY <2>1, <1>1
<1>3. page_count(len) \in Nat
  BY Zenon, VmMapAssumption, MapFacts
<1>4. k.vbase = base /\ k.todo = page_count(len) /\ k.size = len
  BY Zenon DEF Frame
<1>5. /\ at' = [at EXCEPT ![c] = to] /\ call' = [call EXCEPT ![c] = k]
      /\ UNCHANGED <<entries, allocs, size, pages>> /\ \A d \in Client : at[d] = "out"
  BY Zenon DEF vm_map_alloc, Step, Idle, mapVars
<1>6. to \in {"first", "pages"}
  BY Zenon
<1> HIDE DEF base, k, last, to
<1>7. /\ at'[c] = to /\ call'[c] = k /\ \A d \in Client : d # c => at'[d] = "out"
  BY Zenon, <1>5 DEF MapInv, MapTypes
<1>8. /\ pages \in Nat /\ size = KernSize + pages * VM_PAGE_SIZE /\ AllocsBelow(allocs, Top(entries))
      /\ Base + KernSize <= Top(entries)
  BY Zenon, <1>5 DEF LayoutInv, Done
<1>9. AllocsBelow(allocs, base) /\ Base + KernSize <= base
  <2>1. AllocsBelow(allocs, base)
    BY Zenon, <1>1, <1>2, <1>8, AllocsRaise
  <2>2. QED
    BY <2>1, <1>1, <1>2, <1>8, VmMapAssumption
<1>10. CallLayout(c)'
  <2>1. size + (page_count(k.size) - k.todo) * VM_PAGE_SIZE = KernSize + pages * VM_PAGE_SIZE
    BY <1>3, <1>4, <1>8, VmMapAssumption DEF VM_PAGE_SIZE
  <2>2. to # "last"
    BY <1>6
  <2>3. QED
    BY Zenon, <2>1, <2>2, <1>4, <1>5, <1>7, <1>8, <1>9 DEF CallLayout
<1>11. \A d \in Client : d # c => CallLayout(d)'
  BY Zenon, <1>7 DEF CallLayout
<1>12. ~ Done'
  BY <1>6, <1>7 DEF Done
<1>13. QED
  BY Zenon, <1>5, <1>10, <1>11, <1>12 DEF LayoutInv

(* The first guard page.                                                   *)
LEMMA LayoutGuardFirst ==
  ASSUME MapInv, LayoutInv, NEW c \in Client, alloc_guard_first(c)
  PROVE  LayoutInv'
<1>0. PICK k, v : k = call[c] /\ v = k.vcursor
  BY Zenon
<1>1. /\ at[c] = "first" /\ k \in CallType /\ CallInv(c) /\ MapTypes /\ CallLayout(c)
  BY Zenon, <1>0 DEF MapInv, MapTypes, LayoutInv, alloc_guard_first, Step
<1>2. /\ v \in Nat /\ k.vbase = v /\ Top(entries) <= v /\ Top(entries) \in Nat
      /\ k.todo = page_count(k.size) /\ k.todo \in Nat
  BY <1>0, <1>1, TopNat DEF CallInv, CallType
<1>3. PICK e, q : /\ e = Entry(v, VM_PAGE_SIZE, VM_TRUE)
                  /\ q = Frame(k.size, k.flags, v + VM_PAGE_SIZE, v + VM_PAGE_SIZE, k.todo)
  OBVIOUS
<1>4. /\ at' = [at EXCEPT ![c] = "pages"] /\ allocs' = allocs /\ entries' = Append(entries, e)
      /\ call' = [call EXCEPT ![c] = q] /\ size' = size + VM_PAGE_SIZE /\ pages' = pages + 1
  BY <1>0, <1>3 DEF alloc_guard_first, Step, Map, vm_map_entry_create, VM_PAGE_SIZE
<1>5. q.vbase = v + VM_PAGE_SIZE /\ q.todo = k.todo /\ q.size = k.size
  BY <1>3 DEF Frame
<1>6. /\ at'[c] = "pages" /\ call'[c] = q
      /\ \A d \in Client : d # c => at'[d] = "out"
  BY <1>1, <1>4 DEF CallInv, MapTypes
<1>7. Top(entries') = v + VM_PAGE_SIZE
  <2>1. e \in EntryType /\ e.base = v /\ End(e) = v + VM_PAGE_SIZE
    BY <1>2, <1>3 DEF Entry, EntryType, End, VM_PAGE_SIZE
  <2>2. QED
    BY <2>1, <1>1, <1>2, <1>4, AppendEntry DEF MapInv
<1>8. /\ pages \in Nat /\ size \in Nat /\ size = KernSize + pages * VM_PAGE_SIZE
      /\ AllocsBelow(allocs, Top(entries)) /\ Base + KernSize <= Top(entries)
  BY Zenon, <1>1 DEF LayoutInv, CallLayout
<1>9. AllocsBelow(allocs', v + VM_PAGE_SIZE) /\ Base + KernSize <= v + VM_PAGE_SIZE
  <2>1. Top(entries) <= v + VM_PAGE_SIZE /\ v + VM_PAGE_SIZE \in Nat /\ Base + KernSize <= v + VM_PAGE_SIZE
    BY <1>2, <1>8, VmMapAssumption DEF VM_PAGE_SIZE
  <2>2. QED
    BY <2>1, <1>2, <1>4, <1>8, AllocsRaise
<1>10. CallLayout(c)'
  <2>1. size' + (page_count(q.size) - q.todo) * VM_PAGE_SIZE = KernSize + pages' * VM_PAGE_SIZE
    BY <1>2, <1>4, <1>5, <1>8, VmMapAssumption DEF VM_PAGE_SIZE
  <2>2. QED
    BY <2>1, <1>5, <1>6, <1>9 DEF CallLayout
<1>11. \A d \in Client : d # c => CallLayout(d)'
  BY Zenon, <1>6 DEF CallLayout
<1>12. \A a \in allocs' : HasEntry(entries', a.base, page_count(a.size))
  BY Zenon, <1>1, <1>4, EntryKept DEF LayoutInv
<1>13. pages' \in Nat /\ size' \in Nat /\ ~ Done'
  BY <1>4, <1>6, <1>8 DEF Done, VM_PAGE_SIZE
<1>14. QED
  BY Zenon, <1>7, <1>9, <1>10, <1>11, <1>12, <1>13 DEF LayoutInv

(* A page of the allocation.                                               *)
LEMMA LayoutPage ==
  ASSUME MapInv, LayoutInv, NEW c \in Client, alloc_page(c)
  PROVE  LayoutInv'
<1>0. PICK k, n, q : /\ k = call[c] /\ n = page_count(k.size)
                     /\ q = Frame(k.size, k.flags, k.vbase, k.vcursor + VM_PAGE_SIZE, k.todo - 1)
  BY Zenon
<1>1. /\ at[c] = "pages" /\ k \in CallType /\ CallInv(c) /\ MapTypes /\ CallLayout(c)
  BY Zenon, <1>0 DEF MapInv, MapTypes, LayoutInv, alloc_page, Step
<1>2. k.todo \in Nat /\ n \in Nat
  BY <1>0, <1>1, MapFacts DEF CallType
<1>3. /\ at' = [at EXCEPT ![c] = "pages"] /\ UNCHANGED <<allocs, entries, size>>
      /\ call' = [call EXCEPT ![c] = q] /\ pages' = pages + 1
  BY <1>0 DEF alloc_page, Step, Map, mapVars, VM_PAGE_SIZE
<1>4. q.vbase = k.vbase /\ q.todo = k.todo - 1 /\ q.size = k.size
  BY Zenon, <1>0 DEF Frame
<1>5. /\ at'[c] = "pages" /\ call'[c] = q
      /\ \A d \in Client : d # c => at'[d] = "out"
  BY <1>1, <1>3 DEF CallInv, MapTypes
<1>6. /\ pages \in Nat /\ size \in Nat /\ size + (n - k.todo) * VM_PAGE_SIZE = KernSize + pages * VM_PAGE_SIZE
      /\ AllocsBelow(allocs, k.vbase) /\ Base + KernSize <= k.vbase
  BY Zenon, <1>0, <1>1 DEF LayoutInv, CallLayout
<1>7. CallLayout(c)'
  <2>1. size' + (page_count(q.size) - q.todo) * VM_PAGE_SIZE = KernSize + pages' * VM_PAGE_SIZE
    BY <1>0, <1>2, <1>3, <1>4, <1>6, VmMapAssumption DEF VM_PAGE_SIZE
  <2>2. QED
    BY <2>1, <1>3, <1>4, <1>5, <1>6 DEF CallLayout
<1>8. \A d \in Client : d # c => CallLayout(d)'
  BY Zenon, <1>5 DEF CallLayout
<1>9. pages' \in Nat /\ size' \in Nat /\ ~ Done'
  BY <1>3, <1>5, <1>6 DEF Done
<1>10. QED
  BY Zenon, <1>3, <1>7, <1>8, <1>9 DEF LayoutInv

(* The entry of the allocation; a call without a last guard returns.       *)
LEMMA LayoutEntry ==
  ASSUME MapInv, LayoutInv, NEW c \in Client, alloc_entry(c)
  PROVE  LayoutInv'
<1>0. PICK k, n, to, r : /\ k = call[c] /\ n = page_count(k.size) /\ r = Returned(c)
                         /\ to = IF GUARD_LAST \in k.flags THEN "last" ELSE "out"
  BY Zenon
<1>1. /\ at[c] = "pages" /\ k \in CallType /\ CallInv(c) /\ MapTypes /\ CallLayout(c) /\ k.todo = 0
  BY Zenon, <1>0 DEF MapInv, MapTypes, LayoutInv, alloc_entry, Step
<1>2. /\ k.vcursor \in Nat /\ k.vbase \in Nat /\ k.size \in Nat /\ n \in Nat \ {0}
      /\ k.vcursor = k.vbase + n * VM_PAGE_SIZE /\ Top(entries) <= k.vbase /\ Top(entries) \in Nat
  BY <1>0, <1>1, MapFacts, TopNat DEF CallInv, CallType, VM_PAGE_SIZE
<1>3. PICK e : e = Entry(k.vbase, n * VM_PAGE_SIZE, VM_FALSE)
  OBVIOUS
<1>4. /\ at' = [at EXCEPT ![c] = to] /\ UNCHANGED <<call, pages>>
      /\ entries' = Append(entries, e) /\ size' = size + n * VM_PAGE_SIZE
      /\ allocs' = IF GUARD_LAST \in k.flags THEN allocs ELSE allocs \cup {r}
  BY <1>0, <1>3 DEF alloc_entry, Step, vm_map_entry_create, VM_PAGE_SIZE
<1>5. /\ at'[c] = to /\ call'[c] = k /\ \A d \in Client : d # c => at'[d] = "out"
  BY <1>0, <1>1, <1>4 DEF CallInv, MapTypes
<1>6. Top(entries') = k.vcursor
  <2>1. e \in EntryType /\ e.base = k.vbase /\ End(e) = k.vcursor
    BY <1>2, <1>3 DEF Entry, EntryType, End, VM_PAGE_SIZE
  <2>2. QED
    BY <2>1, <1>1, <1>2, <1>4, AppendEntry DEF MapInv
<1>7. /\ pages \in Nat /\ size \in Nat /\ AllocsBelow(allocs, k.vbase) /\ Base + KernSize <= k.vbase
      /\ size + (n - k.todo) * VM_PAGE_SIZE = KernSize + pages * VM_PAGE_SIZE
  BY Zenon, <1>0, <1>1 DEF LayoutInv, CallLayout
<1>8. /\ pages' \in Nat /\ size' \in Nat /\ size' = KernSize + pages' * VM_PAGE_SIZE
      /\ Base + KernSize <= Top(entries')
  BY <1>1, <1>2, <1>4, <1>6, <1>7, VmMapAssumption DEF VM_PAGE_SIZE
<1>9. r.base = k.vbase /\ r.size = k.size
  BY Zenon, <1>0 DEF Returned
<1>10. AllocsBelow(allocs', Top(entries'))
  <2>1. AllocsBelow(allocs, k.vcursor)
    BY <1>2, <1>7, AllocsRaise DEF VM_PAGE_SIZE
  <2>2. AllocEnd(r) = k.vcursor
    BY <1>0, <1>2, <1>9 DEF AllocEnd, VM_PAGE_SIZE
  <2>3. AllocsBelow(allocs \cup {r}, k.vcursor)
    <3>1. PICK b \in Nat, t \in Nat : b = k.vbase /\ t = k.vcursor
      BY <1>2
    <3>2. /\ AllocsBelow(allocs, b) /\ r.base \in Nat /\ r.size \in Nat
          /\ Base + KernSize <= r.base /\ b <= r.base /\ t = AllocEnd(r) /\ r.base <= t
      BY <3>1, <2>2, <1>2, <1>7, <1>9 DEF VM_PAGE_SIZE
    <3>3. AllocsBelow(allocs \cup {r}, t)
      BY <3>2, AllocsGrow
    <3>4. QED
      BY Zenon, <3>1, <3>3
  <2>4. QED
    BY Zenon, <2>1, <2>3, <1>4, <1>6
<1>11. HasEntry(entries', k.vbase, n)
  BY Zenon, <1>1, <1>3, <1>4, EntryKept
<1>12. \A a \in allocs' : HasEntry(entries', a.base, page_count(a.size))
  <2>1. \A a \in allocs : HasEntry(entries', a.base, page_count(a.size))
    BY Zenon, <1>1, <1>4, EntryKept DEF LayoutInv
  <2>2. HasEntry(entries', r.base, page_count(r.size))
    BY Zenon, <1>0, <1>9, <1>11
  <2>3. QED
    BY Zenon, <2>1, <2>2, <1>4
<1>13. CallLayout(c)'
  <2>1. to # "first" /\ to # "pages" /\ (to # "out" => allocs' = allocs)
    BY <1>0, <1>4
  <2>2. QED
    BY Zenon, <2>1, <1>0, <1>5, <1>7, <1>8, <1>11 DEF CallLayout
<1>14. \A d \in Client : d # c => CallLayout(d)'
  BY Zenon, <1>5 DEF CallLayout
<1>15. QED
  BY Zenon, <1>8, <1>10, <1>12, <1>13, <1>14 DEF LayoutInv

(* The last guard page.                                                    *)
LEMMA LayoutGuardLast ==
  ASSUME MapInv, LayoutInv, NEW c \in Client, alloc_guard_last(c)
  PROVE  LayoutInv'
<1>0. PICK k, v, n, r : /\ k = call[c] /\ v = k.vcursor /\ n = page_count(k.size)
                        /\ r = Returned(c)
  BY Zenon
<1>1. at[c] = "last" /\ k \in CallType /\ CallInv(c) /\ MapTypes /\ CallLayout(c)
  BY Zenon, <1>0 DEF MapInv, MapTypes, LayoutInv, alloc_guard_last, Step
<1>2. /\ v \in Nat /\ k.vbase \in Nat /\ k.size \in Nat /\ n \in Nat \ {0}
      /\ v = k.vbase + n * VM_PAGE_SIZE /\ Top(entries) <= v /\ Top(entries) \in Nat
  BY <1>0, <1>1, MapFacts, TopNat DEF CallInv, CallType, VM_PAGE_SIZE
<1>3. PICK e : e = Entry(v, VM_PAGE_SIZE, VM_TRUE)
  OBVIOUS
<1>4. /\ at' = [at EXCEPT ![c] = "out"] /\ call' = call /\ entries' = Append(entries, e)
      /\ allocs' = allocs \cup {r} /\ size' = size + VM_PAGE_SIZE /\ pages' = pages + 1
  BY <1>0, <1>3 DEF alloc_guard_last, Step, Map, vm_map_entry_create, VM_PAGE_SIZE
<1>5. \A d \in Client : at'[d] = "out"
  BY <1>1, <1>4 DEF CallInv, MapTypes
<1>6. Top(entries') = v + VM_PAGE_SIZE
  <2>1. e \in EntryType /\ e.base = v /\ End(e) = v + VM_PAGE_SIZE
    BY <1>2, <1>3 DEF Entry, EntryType, End, VM_PAGE_SIZE
  <2>2. QED
    BY <2>1, <1>1, <1>2, <1>4, AppendEntry DEF MapInv
<1>7. /\ pages \in Nat /\ size \in Nat /\ size = KernSize + pages * VM_PAGE_SIZE
      /\ AllocsBelow(allocs, k.vbase) /\ Base + KernSize <= k.vbase
      /\ HasEntry(entries, k.vbase, n)
  BY Zenon, <1>0, <1>1 DEF LayoutInv, CallLayout
<1>8. /\ pages' \in Nat /\ size' \in Nat /\ size' = KernSize + pages' * VM_PAGE_SIZE
      /\ Base + KernSize <= Top(entries')
  BY <1>2, <1>4, <1>6, <1>7, VmMapAssumption DEF VM_PAGE_SIZE
<1>9. r.base = k.vbase /\ r.size = k.size
  BY Zenon, <1>0 DEF Returned
<1>10. AllocsBelow(allocs', Top(entries'))
  <2>1. AllocEnd(r) = v
    BY <1>0, <1>2, <1>9 DEF AllocEnd, VM_PAGE_SIZE
  <2>2. PICK b \in Nat, t \in Nat, m \in Nat : b = k.vbase /\ t = v + VM_PAGE_SIZE /\ m = v
    BY <1>2 DEF VM_PAGE_SIZE
  <2>3. /\ AllocsBelow(allocs, b) /\ r.base \in Nat /\ r.size \in Nat
        /\ Base + KernSize <= r.base /\ b <= r.base /\ m = AllocEnd(r) /\ m <= t /\ r.base <= m
    BY <2>1, <2>2, <1>2, <1>7, <1>9 DEF VM_PAGE_SIZE
  <2>4. AllocsBelow(allocs \cup {r}, t)
    BY Zenon, <2>3, AllocsGrow
  <2>5. QED
    BY <2>2, <2>4, <1>4, <1>6
<1>11. \A a \in allocs' : HasEntry(entries', a.base, page_count(a.size))
  <2>1. \A a \in allocs : HasEntry(entries', a.base, page_count(a.size))
    BY Zenon, <1>1, <1>4, EntryKept DEF LayoutInv
  <2>2. HasEntry(entries', r.base, page_count(r.size))
    BY Zenon, <1>0, <1>1, <1>4, <1>7, <1>9, EntryKept
  <2>3. QED
    BY Zenon, <2>1, <2>2, <1>4
<1>12. \A d \in Client : CallLayout(d)'
  BY Zenon, <1>5 DEF CallLayout
<1>13. QED
  BY Zenon, <1>8, <1>10, <1>11, <1>12 DEF LayoutInv

(* With callers that take turns every step keeps the layout.               *)
LEMMA LayoutStep == ASSUME Serial, MapInv, LayoutInv, [Next]_vars PROVE LayoutInv'
<1>1. CASE UNCHANGED vars
  BY Zenon, <1>1 DEF vars, mapVars, LayoutInv, CallLayout, Done
<1>2. CASE Finished
  BY Zenon, <1>1, <1>2 DEF Finished
<1>3. ASSUME NEW c \in Client, NEW len \in Size, NEW flags \in Flags,
             vm_map_alloc(c, len, flags)
      PROVE  LayoutInv'
  BY Zenon, <1>3, LayoutStart
<1>4. ASSUME NEW c \in Client,
             alloc_guard_first(c) \/ alloc_page(c) \/ alloc_entry(c) \/ alloc_guard_last(c)
      PROVE  LayoutInv'
  BY Zenon, <1>4, LayoutGuardFirst, LayoutPage, LayoutEntry, LayoutGuardLast
<1>5. QED
  BY Zenon, <1>1, <1>2, <1>3, <1>4 DEF Next, Flags

(* Allocations lie above the kernel and apart from each other, each in an  *)
(* entry of its own.                                                       *)
THEOREM LayoutInductive == ASSUME Serial PROVE Spec => [](MapInv /\ LayoutInv)
<1>1. MapInv /\ LayoutInv /\ [Next]_vars => (MapInv /\ LayoutInv)'
  BY Zenon, MapStep, LayoutStep
<1>2. QED
  BY MapInit, LayoutInit, <1>1, PTL DEF Spec

(* Once no call of vm_map_alloc is in progress, the size of the map counts *)
(* every page it took.                                                     *)
THEOREM MapAccounts == ASSUME Serial PROVE Spec => []PagesAccounted
<1>1. LayoutInv => PagesAccounted
  BY Zenon DEF LayoutInv, PagesAccounted
<1>2. QED
  BY LayoutInductive, <1>1, PTL
=============================================================================
