----------------------------- MODULE SchedProofs ----------------------------
(***************************************************************************)
(* The scheduler, for any number of threads and tasks and with or without  *)
(* ticks in the trampoline: the inductive invariant of module Sched, a     *)
(* lemma for each action, and the theorems; then the boot program of       *)
(* module KernelMain, whose every step is one of Sched's.                  *)
(***************************************************************************)
EXTENDS KernelMain, ListProofs

(* Threads attached to a task. *)
Attached == {t \in Thread : siblings.next[t] # NULL}

(* Where a listed thread is in its own code: the CPU's program counter for *)
(* the running thread, ELR_EL1 while the scheduler has interrupted it, x19 *)
(* while it is being resumed, and thread->entry for all the others.        *)
Where(t) == IF t # cur THEN entry[t]
            ELSE IF pc = "sched" THEN elr
            ELSE IF pc \in {"tail", "tramp"} THEN x19 ELSE pc

Creating(t) == t \in Listed /\ Where(t) \in CreateLoc

ListInv ==
  /\ WellLinked(threads, Listed \cup {HEAD})
  /\ OneRing(threads, HEAD, Listed \cup {HEAD})
  /\ WellLinked(siblings, Attached \cup Task)
  /\ Listed \subseteq Attached /\ Attached \subseteq zone

RunInv ==
  /\ Live(cur)
  /\ cpu_active_thread # NULL => Live(cpu_active_thread)
  /\ pc # "tail" => cpu_active_thread = cur
  /\ pc = "sched" => irqOff
  /\ pc = "tail" => irqOff \/ ~ timer

(* One thread_create is in progress at most.  The thread under             *)
(* construction is on the lists exactly when its creator has put it there, *)
(* and the tail its creator has read is still the tail of the list.        *)
CreateInv ==
  \A t \in Thread : Creating(t) =>
    /\ local[t] \in zone /\ local[t] \notin handles
    /\ local[t] \in Attached <=> Where(t) \in {"tc_list", "tc_link", "tc_active"}
    /\ local[t] \in Listed <=> Where(t) = "tc_active"
    /\ Where(t) \in {"tc_assign", "tc_list", "tc_link"} => entry[local[t]] = Body
    /\ Where(t) = "tc_link" => last[t] = threads.prev[HEAD]
    /\ Where(t) = "tc_count" => thread_id[local[t]] = thread_id_max
    /\ Where(t) \in {"tc_stack", "tc_assign", "tc_list", "tc_link"} =>
         thread_id[local[t]] < thread_id_max /\ \A u \in Listed : thread_id[u] # thread_id[local[t]]
    /\ \A u \in Thread : Creating(u) => u = t

IdInv ==
  /\ \A t \in Listed : thread_id[t] < thread_id_max
  /\ UniqueThreadIds

(* thread_destroy is never interrupted, does not overlap a thread_create,  *)
(* and works on a thread that is complete and is not the one running.      *)
DestroyInv ==
  /\ \A t \in Thread : entry[t] \notin DestroyLoc
  /\ x19 \notin DestroyLoc /\ elr \notin DestroyLoc
  /\ pc \in DestroyLoc => irqOff /\ \A t \in Thread : ~ Creating(t)
  /\ pc = "td_check" => local[cur] \in handles
  /\ pc = "td_del" => local[cur] \in handles /\ local[cur] # cur
  /\ pc = "td_free" => local[cur] \in handles \ Attached
  /\ \A h \in handles : h \in zone /\ (h \in Listed \/ (pc = "td_free" /\ h = local[cur]))

TaskInv ==
  /\ \A t \in Attached : task[t] # NULL
  /\ current_task # NULL => current_task = task[cur]

HeldInv == held => irqOff /\ pc \in {Body} \cup CreateLoc \cup DestroyLoc \cup PanicLoc

IInv == /\ Serial
        /\ TypeOK /\ ListInv /\ RunInv /\ CreateInv /\ IdInv /\ DestroyInv /\ TaskInv /\ HeldInv
-----------------------------------------------------------------------------
USE SchedAssumption DEF Body, CreateLoc, DestroyLoc, PanicLoc, ThreadLoc, Loc, Step

(* A step that changes no links and frees no thread keeps the lists.       *)
LEMMA ListInvKept ==
  ASSUME ListInv, threads' = threads, siblings' = siblings, zone \subseteq zone'
  PROVE  ListInv' /\ Listed' = Listed /\ Attached' = Attached
<1>1. Listed' = Listed /\ Attached' = Attached
  BY Zenon DEF Listed, OnList, Attached
<1>2. QED
  BY Zenon, <1>1 DEF ListInv

(* What the invariant says of a thread that is inside thread_create and    *)
(* has the CPU.                                                            *)
LEMMA Creator ==
  ASSUME IInv, pc \in CreateLoc
  PROVE  /\ cur \in Listed /\ Creating(cur) /\ Where(cur) = pc
         /\ \A t \in Listed : t # cur => entry[t] \notin CreateLoc
         /\ local[cur] \in zone /\ local[cur] \notin handles
         /\ local[cur] \in Attached <=> pc \in {"tc_list", "tc_link", "tc_active"}
         /\ local[cur] \in Listed <=> pc = "tc_active"
         /\ pc \in {"tc_assign", "tc_list", "tc_link"} => entry[local[cur]] = Body
         /\ pc = "tc_link" => last[cur] = threads.prev[HEAD]
         /\ pc = "tc_count" => thread_id[local[cur]] = thread_id_max
         /\ pc \in {"tc_stack", "tc_assign", "tc_list", "tc_link"} =>
              /\ thread_id[local[cur]] < thread_id_max
              /\ \A u \in Listed : thread_id[u] # thread_id[local[cur]]
<1> USE DEF IInv
<1>1. cur \in Listed /\ cur \in Thread /\ Where(cur) = pc
  BY Zenon DEF RunInv, Live, Listed, OnList, Where, TypeOK
<1>2. Creating(cur)
  BY Zenon, <1>1 DEF Creating
<1>3. \A t \in Thread : Creating(t) => t = cur
  BY Zenon, <1>1, <1>2 DEF CreateInv
<1>4. \A t \in Listed : t # cur => entry[t] \notin CreateLoc
  BY Zenon, <1>3 DEF Creating, Where, Listed
<1>5. QED
  BY Zenon, <1>1, <1>2, <1>4 DEF CreateInv

(* To show CreateInv after a step of the creator only its own thread need  *)
(* be looked at: all others are outside thread_create and stay there.      *)
LEMMA OthersNotCreating ==
  ASSUME cur' = cur, NEW t \in Thread, t # cur, t \in Listed' => entry'[t] \notin CreateLoc
  PROVE  ~ Creating(t)'
BY Zenon DEF Creating, Where

(* The steps of __panic touch no thread.                                   *)
LEMMA PanicInv == IInv /\ (PanicCall \/ PanicCheck \/ PanicSet \/ PanicMask \/ PanicPrint) => IInv'
<1> SUFFICES ASSUME IInv, (PanicCall \/ PanicCheck \/ PanicSet \/ PanicMask \/ PanicPrint) PROVE IInv'
  BY Zenon
<1> USE DEF IInv
<1>1. ListInv' /\ Listed' = Listed /\ Attached' = Attached
  BY Zenon, ListInvKept DEF PanicCall, PanicCheck, PanicSet, PanicMask, PanicPrint, thrVars
<1>2. TypeOK'
  <2>1. irqOff' \in BOOLEAN /\ held' \in BOOLEAN /\ timer' \in BOOLEAN /\ panic_active' \in BOOLEAN
    BY Zenon DEF TypeOK, PanicCall, PanicCheck, PanicSet, PanicMask, PanicPrint, thrVars, cpuVars
  <2>2. QED
    BY <2>1 DEF TypeOK, RunInv, PanicCall, PanicCheck, PanicSet, PanicMask, PanicPrint, thrVars, cpuVars
<1>3. RunInv'
  BY Zenon, <1>1 DEF RunInv, Live, OnList, TypeOK, PanicCall, PanicCheck, PanicSet, PanicMask, PanicPrint, thrVars, cpuVars
<1>4. CreateInv' /\ (pc' \in DestroyLoc => \A t \in Thread : ~ Creating(t)')
  <2>1. \A t \in Thread : Creating(t)' =>
          Creating(t) /\ Where(t)' = Where(t) /\ local'[t] = local[t]
    BY <1>1 DEF Creating, Where, RunInv, TypeOK, PanicCall, PanicCheck, PanicSet, PanicMask, PanicPrint, thrVars, cpuVars
  <2>2. UNCHANGED <<threads, thread_id, thread_id_max, zone, handles, entry, last>>
    BY Zenon DEF PanicCall, PanicCheck, PanicSet, PanicMask, PanicPrint, thrVars
  <2>3. CreateInv'
    BY <1>1, <2>1, <2>2 DEF CreateInv
  <2>4. pc' \in DestroyLoc => \A t \in Thread : ~ Creating(t)'
    BY Zenon, <2>1 DEF DestroyInv, PanicCall, PanicCheck, PanicSet, PanicMask, PanicPrint
  <2>5. QED
    BY Zenon, <2>3, <2>4
<1>5. DestroyInv'
  BY <1>1, <1>4 DEF DestroyInv, RunInv, TypeOK, PanicCall, PanicCheck, PanicSet, PanicMask, PanicPrint, thrVars, cpuVars
<1>6. TaskInv' /\ IdInv'
  BY Zenon, <1>1 DEF TaskInv, IdInv, UniqueThreadIds, PanicCall, PanicCheck, PanicSet, PanicMask, PanicPrint, thrVars, cpuVars
<1>7. HeldInv'
  BY Zenon DEF HeldInv, PanicCall, PanicCheck, PanicSet, PanicMask, PanicPrint
<1>8. QED
  BY Zenon, <1>1, <1>2, <1>3, <1>4, <1>5, <1>6, <1>7

(* Neither do thread_block, thread_unblock and the start of the timer.     *)
LEMMA BlockInv == IInv /\ (thread_block \/ thread_unblock \/ machine_init_timers) => IInv'
<1> SUFFICES ASSUME IInv, (thread_block \/ thread_unblock \/ machine_init_timers) PROVE IInv'
  BY Zenon
<1> USE DEF IInv
<1>1. ListInv' /\ Listed' = Listed /\ Attached' = Attached
  BY Zenon, ListInvKept DEF thread_block, thread_unblock, machine_init_timers, thrVars
<1>2. TypeOK'
  <2>1. irqOff' \in BOOLEAN /\ held' \in BOOLEAN /\ timer' \in BOOLEAN /\ panic_active' \in BOOLEAN
    BY Zenon DEF TypeOK, thread_block, thread_unblock, machine_init_timers, thrVars, cpuVars
  <2>2. QED
    BY <2>1 DEF TypeOK, RunInv, thread_block, thread_unblock, machine_init_timers, thrVars, cpuVars
<1>3. RunInv'
  BY Zenon, <1>1 DEF RunInv, Live, OnList, TypeOK, thread_block, thread_unblock, machine_init_timers, thrVars, cpuVars
<1>4. CreateInv' /\ (pc' \in DestroyLoc => \A t \in Thread : ~ Creating(t)')
  <2>0. UNCHANGED <<pc, cur, elr, x19, entry, local>>
    BY Zenon DEF thread_block, thread_unblock, machine_init_timers, thrVars, cpuVars
  <2>1. \A t \in Thread : Creating(t)' =>
          Creating(t) /\ Where(t)' = Where(t) /\ local'[t] = local[t]
    BY Zenon, <1>1, <2>0 DEF Creating, Where
  <2>2. UNCHANGED <<threads, thread_id, thread_id_max, zone, handles, entry, last>>
    BY Zenon DEF thread_block, thread_unblock, machine_init_timers, thrVars
  <2>3. CreateInv'
    BY <1>1, <2>1, <2>2 DEF CreateInv
  <2>4. pc' \in DestroyLoc => \A t \in Thread : ~ Creating(t)'
    BY Zenon, <2>1 DEF DestroyInv, thread_block, thread_unblock, machine_init_timers
  <2>5. QED
    BY Zenon, <2>3, <2>4
<1>5. DestroyInv'
  BY <1>1, <1>4 DEF DestroyInv, RunInv, TypeOK, thread_block, thread_unblock, machine_init_timers, thrVars, cpuVars
<1>6. TaskInv' /\ IdInv'
  BY Zenon, <1>1 DEF TaskInv, IdInv, UniqueThreadIds, thread_block, thread_unblock, machine_init_timers, thrVars, cpuVars
<1>7. HeldInv'
  BY Zenon DEF HeldInv, thread_block, thread_unblock, machine_init_timers
<1>8. QED
  BY Zenon, <1>1, <1>2, <1>3, <1>4, <1>5, <1>6, <1>7

(* thread_destroy: entry, refusal of the active thread, return.            *)
LEMMA DestroyCallInv == IInv /\ (DestroyBlock \/ DestroyActive \/ DestroyUnblock) => IInv'
<1> SUFFICES ASSUME IInv, (DestroyBlock \/ DestroyActive \/ DestroyUnblock) PROVE IInv'
  BY Zenon
<1> USE DEF IInv
<1>1. ListInv' /\ Listed' = Listed /\ Attached' = Attached
  BY Zenon, ListInvKept DEF DestroyBlock, DestroyActive, DestroyUnblock, thrVars
<1>2. TypeOK'
  <2>1. irqOff' \in BOOLEAN /\ held' \in BOOLEAN /\ timer' \in BOOLEAN /\ panic_active' \in BOOLEAN
    BY Zenon DEF TypeOK, DestroyBlock, DestroyActive, DestroyUnblock, thrVars, cpuVars
  <2>2. QED
    BY <2>1 DEF TypeOK, RunInv, DestroyBlock, DestroyActive, DestroyUnblock, thrVars, cpuVars
<1>3. RunInv'
  BY Zenon, <1>1 DEF RunInv, Live, OnList, TypeOK, DestroyBlock, DestroyActive, DestroyUnblock, thrVars, cpuVars
<1>4. CreateInv' /\ (pc' \in DestroyLoc => \A t \in Thread : ~ Creating(t)')
  <2>1. \A t \in Thread : Creating(t)' =>
          Creating(t) /\ Where(t)' = Where(t) /\ local'[t] = local[t]
    BY <1>1 DEF Creating, Where, RunInv, TypeOK, DestroyBlock, DestroyActive, DestroyUnblock, thrVars, cpuVars
  <2>2. UNCHANGED <<threads, thread_id, thread_id_max, zone, handles, entry, last>>
    BY Zenon DEF DestroyBlock, DestroyActive, DestroyUnblock, thrVars
  <2>3. CreateInv'
    BY <1>1, <2>1, <2>2 DEF CreateInv
  <2>4. pc' \in DestroyLoc => \A t \in Thread : ~ Creating(t)'
    BY Zenon, <2>1 DEF DestroyInv, DestroyBlock, DestroyActive, DestroyUnblock, NoCreateInProgress, Creating, Where, Listed
  <2>5. QED
    BY Zenon, <2>3, <2>4
<1>5. DestroyInv'
  BY <1>1, <1>4 DEF DestroyInv, RunInv, TypeOK, DestroyBlock, DestroyActive, DestroyUnblock, thrVars, cpuVars
<1>6. TaskInv' /\ IdInv'
  BY Zenon, <1>1 DEF TaskInv, IdInv, UniqueThreadIds, DestroyBlock, DestroyActive, DestroyUnblock, thrVars, cpuVars
<1>7. HeldInv'
  BY Zenon DEF HeldInv, DestroyBlock, DestroyActive, DestroyUnblock
<1>8. QED
  BY Zenon, <1>1, <1>2, <1>3, <1>4, <1>5, <1>6, <1>7

(* The timer interrupt moves the running thread's position to ELR_EL1.     *)
LEMMA TickInv == IInv /\ Tick => IInv'
<1> SUFFICES ASSUME IInv, Tick PROVE IInv'
  BY Zenon
<1> USE DEF IInv
<1>1. ListInv' /\ Listed' = Listed /\ Attached' = Attached
  BY Zenon, ListInvKept DEF Tick, thrVars
<1>2. TypeOK'
  <2>1. irqOff' \in BOOLEAN /\ held' \in BOOLEAN /\ timer' \in BOOLEAN /\ panic_active' \in BOOLEAN
    BY Zenon DEF TypeOK, Tick, thrVars, cpuVars
  <2>2. QED
    BY <2>1 DEF TypeOK, RunInv, Tick, thrVars, cpuVars
<1>3. RunInv'
  BY Zenon, <1>1 DEF RunInv, Live, OnList, TypeOK, Tick, thrVars, cpuVars
<1>4. CreateInv' /\ (pc' \in DestroyLoc => \A t \in Thread : ~ Creating(t)')
  <2>1. \A t \in Thread : Creating(t)' =>
          Creating(t) /\ Where(t)' = Where(t) /\ local'[t] = local[t]
    BY Zenon, <1>1 DEF Creating, Where, RunInv, TypeOK, Tick, thrVars, cpuVars
  <2>2. UNCHANGED <<threads, thread_id, thread_id_max, zone, handles, entry, last>>
    BY Zenon DEF Tick, thrVars
  <2>3. CreateInv'
    BY <1>1, <2>1, <2>2 DEF CreateInv
  <2>4. pc' \in DestroyLoc => \A t \in Thread : ~ Creating(t)'
    BY Zenon, <2>1 DEF DestroyInv, Tick
  <2>5. QED
    BY Zenon, <2>3, <2>4
<1>5. DestroyInv'
  BY Zenon, <1>1, <1>4 DEF DestroyInv, RunInv, TypeOK, Tick, thrVars, cpuVars
<1>6. TaskInv' /\ IdInv'
  BY Zenon, <1>1 DEF TaskInv, IdInv, UniqueThreadIds, Tick, thrVars, cpuVars
<1>7. HeldInv'
  BY Zenon DEF HeldInv, Tick
<1>8. QED
  BY Zenon, <1>1, <1>2, <1>3, <1>4, <1>5, <1>6, <1>7

(* The end of a context switch makes the resumed thread the active one.    *)
LEMMA TailInv == IInv /\ (sched_tail \/ fork64_return) => IInv'
<1> SUFFICES ASSUME IInv, (sched_tail \/ fork64_return) PROVE IInv'
  BY Zenon
<1> USE DEF IInv
<1>1. ListInv' /\ Listed' = Listed /\ Attached' = Attached
  BY Zenon, ListInvKept DEF sched_tail, fork64_return, thrVars
<1>2. TypeOK'
  <2>1. irqOff' \in BOOLEAN /\ held' \in BOOLEAN /\ timer' \in BOOLEAN /\ panic_active' \in BOOLEAN
    BY Zenon DEF TypeOK, sched_tail, fork64_return, thrVars, cpuVars
  <2>2. QED
    BY <2>1 DEF TypeOK, RunInv, sched_tail, fork64_return, thrVars, cpuVars
<1>3. RunInv'
  BY Zenon, <1>1 DEF RunInv, Live, OnList, TypeOK, sched_tail, fork64_return, thrVars, cpuVars
<1>4. CreateInv' /\ (pc' \in DestroyLoc => \A t \in Thread : ~ Creating(t)')
  <2>1. \A t \in Thread : Creating(t)' =>
          Creating(t) /\ Where(t)' = Where(t) /\ local'[t] = local[t]
    BY <1>1 DEF Creating, Where, RunInv, TypeOK, sched_tail, fork64_return, thrVars, cpuVars
  <2>2. UNCHANGED <<threads, thread_id, thread_id_max, zone, handles, entry, last>>
    BY Zenon DEF sched_tail, fork64_return, thrVars
  <2>3. CreateInv'
    BY <1>1, <2>1, <2>2 DEF CreateInv
  <2>4. pc' \in DestroyLoc => \A t \in Thread : ~ Creating(t)'
    BY Zenon, <2>1 DEF DestroyInv, sched_tail, fork64_return
  <2>5. QED
    BY Zenon, <2>3, <2>4
<1>5. DestroyInv'
  BY <1>1, <1>4 DEF DestroyInv, RunInv, TypeOK, sched_tail, fork64_return, thrVars, cpuVars
<1>6. TaskInv' /\ IdInv'
  BY Zenon, <1>1 DEF TaskInv, IdInv, UniqueThreadIds, sched_tail, fork64_return, thrVars, cpuVars
<1>7. HeldInv'
  BY Zenon DEF HeldInv, sched_tail, fork64_return
<1>8. QED
  BY Zenon, <1>1, <1>2, <1>3, <1>4, <1>5, <1>6, <1>7

(* thread_create takes an element of the zone that is on no list.          *)
LEMMA CreateZallocInv == IInv /\ CreateZalloc => IInv'
<1> SUFFICES ASSUME IInv, CreateZalloc PROVE IInv'
  BY Zenon
<1> USE DEF IInv
<1>1. /\ cur \in Listed /\ Where(cur) = pc
      /\ \A t \in Listed : t # cur => entry[t] \notin CreateLoc
  BY Zenon DEF RunInv, Live, Listed, OnList, Where, TypeOK, CreateZalloc, NoCreateInProgress
<1>2. ListInv' /\ Listed' = Listed /\ Attached' = Attached
  BY Zenon, ListInvKept DEF CreateZalloc
<1>3. TypeOK'
  BY DEF TypeOK, CreateZalloc, cpuVars
<1>4. RunInv'
  BY Zenon, <1>1, <1>2 DEF RunInv, Live, Listed, OnList, TypeOK, CreateZalloc, cpuVars
<1>5. CreateInv'
  <2>1. PICK new \in Thread \ zone : zone' = zone \cup {new} /\ local' = [local EXCEPT ![cur] = new]
    BY Zenon DEF CreateZalloc
  <2>2. UNCHANGED <<cur, entry, handles>> /\ pc' = "tc_id"
    BY Zenon DEF CreateZalloc, cpuVars
  <2>3. \A t \in Thread : t # cur => ~ Creating(t)'
    BY Zenon, <1>1, <1>2, <2>2, OthersNotCreating
  <2>4. Where(cur)' = "tc_id" /\ local'[cur] = new
    BY Zenon, <2>1, <2>2 DEF Where, TypeOK
  <2>5. new \notin handles /\ new \notin Attached /\ new \notin Listed
    BY Zenon, <2>1 DEF DestroyInv, ListInv
  <2>6. QED
    BY <1>2, <2>1, <2>2, <2>3, <2>4, <2>5 DEF CreateInv
<1>6. DestroyInv'
  BY Zenon, <1>1, <1>2 DEF DestroyInv, TypeOK, CreateZalloc, cpuVars
<1>7. TaskInv' /\ IdInv'
  BY Zenon, <1>1, <1>2 DEF TaskInv, IdInv, UniqueThreadIds, Listed, TypeOK, CreateZalloc, cpuVars
<1>8. HeldInv'
  BY Zenon DEF HeldInv, CreateZalloc
<1>9. QED
  BY Zenon, <1>2, <1>3, <1>4, <1>5, <1>6, <1>7, <1>8

(* The new thread is given an id no other thread has.                      *)
LEMMA CreateIdInv == IInv /\ CreateId => IInv'
<1> SUFFICES ASSUME IInv, CreateId PROVE IInv'
  BY Zenon
<1> USE DEF IInv
<1> DEFINE new == local[cur]
<1>1. /\ cur \in Listed /\ new \in zone \ handles /\ new \in Thread
      /\ \A t \in Listed : t # cur => entry[t] \notin CreateLoc
      /\ new \notin Listed /\ new # cur /\ (new \in Attached <=> pc = "tc_list")
  BY Zenon, Creator DEF TypeOK, CreateId
<1>2. ListInv' /\ Listed' = Listed /\ Attached' = Attached
  BY Zenon, ListInvKept DEF CreateId, thrVars
<1>3. TypeOK'
  BY <1>1 DEF TypeOK, CreateId, thrVars, cpuVars
<1>4. RunInv'
  BY Zenon, <1>1, <1>2 DEF RunInv, Live, Listed, OnList, TypeOK, CreateId, thrVars, cpuVars
<1>5. CreateInv'
  <2>1. cur' = cur /\ \A t \in Listed : t # cur => entry'[t] = entry[t]
    BY Zenon, <1>1 DEF CreateId, thrVars, cpuVars, TypeOK, Listed
  <2>2. \A t \in Thread : t # cur => ~ Creating(t)'
    BY Zenon, <1>1, <1>2, <2>1, OthersNotCreating
  <2>3. Where(cur)' = pc' /\ local'[cur] = new
    BY Zenon, <1>1, <2>1 DEF Where, TypeOK, CreateId
  <2>4. /\ new \in zone' /\ new \notin handles'
        /\ new \in Attached' <=> pc' \in {"tc_list", "tc_link", "tc_active"}
        /\ new \notin Listed' /\ pc' # "tc_active"
        /\ pc' \in {"tc_assign", "tc_list", "tc_link"} => entry'[new] = Body
        /\ pc' = "tc_link" => last'[cur] = threads'.prev[HEAD]
        /\ pc' = "tc_count" => thread_id'[new] = thread_id_max'
    BY Zenon, <1>1, <1>2, Creator DEF CreateId, thrVars, TypeOK
  <2>5. pc' \in {"tc_stack", "tc_assign", "tc_list", "tc_link"} =>
          thread_id'[new] < thread_id_max' /\ \A u \in Listed' : thread_id'[u] # thread_id'[new]
    BY Zenon, <1>1, <1>2, Creator DEF CreateId, thrVars, TypeOK, IdInv, Listed
  <2>6. QED
    BY <2>1, <2>2, <2>3, <2>4, <2>5 DEF CreateInv
<1>6. DestroyInv'
  BY Zenon, <1>1, <1>2 DEF DestroyInv, TypeOK, CreateId, thrVars, cpuVars
<1>7. TaskInv' /\ IdInv'
  BY <1>1, <1>2 DEF TaskInv, IdInv, UniqueThreadIds, Listed, TypeOK, CreateId, thrVars, cpuVars
<1>8. HeldInv'
  BY Zenon DEF HeldInv, CreateId
<1>9. QED
  BY Zenon, <1>2, <1>3, <1>4, <1>5, <1>6, <1>7, <1>8

(* thread_id_max moves past the id just given.                             *)
LEMMA CreateCountInv == IInv /\ CreateCount => IInv'
<1> SUFFICES ASSUME IInv, CreateCount PROVE IInv'
  BY Zenon
<1> USE DEF IInv
<1> DEFINE new == local[cur]
<1>1. /\ cur \in Listed /\ new \in zone \ handles /\ new \in Thread
      /\ \A t \in Listed : t # cur => entry[t] \notin CreateLoc
      /\ new \notin Listed /\ new # cur /\ (new \in Attached <=> pc = "tc_list")
  BY Zenon, Creator DEF TypeOK, CreateCount
<1>2. ListInv' /\ Listed' = Listed /\ Attached' = Attached
  BY Zenon, ListInvKept DEF CreateCount, thrVars
<1>3. TypeOK'
  BY <1>1 DEF TypeOK, CreateCount, thrVars, cpuVars
<1>4. RunInv'
  BY Zenon, <1>1, <1>2 DEF RunInv, Live, Listed, OnList, TypeOK, CreateCount, thrVars, cpuVars
<1>5. CreateInv'
  <2>1. cur' = cur /\ \A t \in Listed : t # cur => entry'[t] = entry[t]
    BY Zenon, <1>1 DEF CreateCount, thrVars, cpuVars, TypeOK, Listed
  <2>2. \A t \in Thread : t # cur => ~ Creating(t)'
    BY Zenon, <1>1, <1>2, <2>1, OthersNotCreating
  <2>3. Where(cur)' = pc' /\ local'[cur] = new
    BY Zenon, <1>1, <2>1 DEF Where, TypeOK, CreateCount
  <2>4. /\ new \in zone' /\ new \notin handles'
        /\ new \in Attached' <=> pc' \in {"tc_list", "tc_link", "tc_active"}
        /\ new \notin Listed' /\ pc' # "tc_active"
        /\ pc' \in {"tc_assign", "tc_list", "tc_link"} => entry'[new] = Body
        /\ pc' = "tc_link" => last'[cur] = threads'.prev[HEAD]
        /\ pc' = "tc_count" => thread_id'[new] = thread_id_max'
    BY Zenon, <1>1, <1>2, Creator DEF CreateCount, thrVars, TypeOK
  <2>5. pc' \in {"tc_stack", "tc_assign", "tc_list", "tc_link"} =>
          thread_id'[new] < thread_id_max' /\ \A u \in Listed' : thread_id'[u] # thread_id'[new]
    BY <1>1, <1>2, Creator DEF CreateCount, thrVars, TypeOK, IdInv, Listed
  <2>6. QED
    BY Zenon, <2>1, <2>2, <2>3, <2>4, <2>5 DEF CreateInv
<1>6. DestroyInv'
  BY Zenon, <1>1, <1>2 DEF DestroyInv, TypeOK, CreateCount, thrVars, cpuVars
<1>7. TaskInv' /\ IdInv'
  BY <1>1, <1>2 DEF TaskInv, IdInv, UniqueThreadIds, Listed, TypeOK, CreateCount, thrVars, cpuVars
<1>8. HeldInv'
  BY Zenon DEF HeldInv, CreateCount
<1>9. QED
  BY Zenon, <1>2, <1>3, <1>4, <1>5, <1>6, <1>7, <1>8

(* The new thread will start at its entry point, on a stack of its own.    *)
LEMMA CreateContextInv == IInv /\ CreateContext => IInv'
<1> SUFFICES ASSUME IInv, CreateContext PROVE IInv'
  BY Zenon
<1> USE DEF IInv
<1> DEFINE new == local[cur]
<1>1. /\ cur \in Listed /\ new \in zone \ handles /\ new \in Thread
      /\ \A t \in Listed : t # cur => entry[t] \notin CreateLoc
      /\ new \notin Listed /\ new # cur /\ (new \in Attached <=> pc = "tc_list")
  BY Zenon, Creator DEF TypeOK, CreateContext
<1>2. ListInv' /\ Listed' = Listed /\ Attached' = Attached
  BY Zenon, ListInvKept DEF CreateContext, thrVars
<1>3. TypeOK'
  BY <1>1 DEF TypeOK, CreateContext, thrVars, cpuVars
<1>4. RunInv'
  BY Zenon, <1>1, <1>2 DEF RunInv, Live, Listed, OnList, TypeOK, CreateContext, thrVars, cpuVars
<1>5. CreateInv'
  <2>1. cur' = cur /\ \A t \in Listed : t # cur => entry'[t] = entry[t]
    BY Zenon, <1>1 DEF CreateContext, thrVars, cpuVars, TypeOK, Listed
  <2>2. \A t \in Thread : t # cur => ~ Creating(t)'
    BY Zenon, <1>1, <1>2, <2>1, OthersNotCreating
  <2>3. Where(cur)' = pc' /\ local'[cur] = new
    BY Zenon, <1>1, <2>1 DEF Where, TypeOK, CreateContext
  <2>4. /\ new \in zone' /\ new \notin handles'
        /\ new \in Attached' <=> pc' \in {"tc_list", "tc_link", "tc_active"}
        /\ new \notin Listed' /\ pc' # "tc_active"
        /\ pc' \in {"tc_assign", "tc_list", "tc_link"} => entry'[new] = Body
        /\ pc' = "tc_link" => last'[cur] = threads'.prev[HEAD]
        /\ pc' = "tc_count" => thread_id'[new] = thread_id_max'
    BY <1>1, <1>2, Creator DEF CreateContext, thrVars, TypeOK
  <2>5. pc' \in {"tc_stack", "tc_assign", "tc_list", "tc_link"} =>
          thread_id'[new] < thread_id_max' /\ \A u \in Listed' : thread_id'[u] # thread_id'[new]
    <3>1. pc = "tc_stack" /\ thread_id' = thread_id /\ thread_id_max' = thread_id_max
      BY Zenon DEF CreateContext, Step
    <3>2. thread_id[new] < thread_id_max /\ \A u \in Listed : thread_id[u] # thread_id[new]
      BY <3>1, Creator, Zenon
    <3>3. QED
      BY <1>2, <3>1, <3>2, Zenon
  <2>6. QED
    BY Zenon, <2>1, <2>2, <2>3, <2>4, <2>5 DEF CreateInv
<1>6. DestroyInv'
  BY <1>1, <1>2 DEF DestroyInv, TypeOK, CreateContext, thrVars, cpuVars
<1>7. TaskInv' /\ IdInv'
  BY Zenon, <1>1, <1>2 DEF TaskInv, IdInv, UniqueThreadIds, Listed, TypeOK, CreateContext, thrVars, cpuVars
<1>8. HeldInv'
  BY Zenon DEF HeldInv, CreateContext
<1>9. QED
  BY Zenon, <1>2, <1>3, <1>4, <1>5, <1>6, <1>7, <1>8

(* The tail of the global list is read.                                    *)
LEMMA CreateListInv == IInv /\ CreateList => IInv'
<1> SUFFICES ASSUME IInv, CreateList PROVE IInv'
  BY Zenon
<1> USE DEF IInv
<1> DEFINE new == local[cur]
<1>1. /\ cur \in Listed /\ new \in zone \ handles /\ new \in Thread
      /\ \A t \in Listed : t # cur => entry[t] \notin CreateLoc
      /\ new \notin Listed /\ new # cur /\ (new \in Attached <=> pc = "tc_list")
  BY Zenon, Creator DEF TypeOK, CreateList
<1>2. ListInv' /\ Listed' = Listed /\ Attached' = Attached
  BY Zenon, ListInvKept DEF CreateList, thrVars
<1>3. TypeOK'
  BY <1>1 DEF TypeOK, CreateList, thrVars, cpuVars
<1>4. RunInv'
  BY Zenon, <1>1, <1>2 DEF RunInv, Live, Listed, OnList, TypeOK, CreateList, thrVars, cpuVars
<1>5. CreateInv'
  <2>1. cur' = cur /\ \A t \in Listed : t # cur => entry'[t] = entry[t]
    BY Zenon, <1>1 DEF CreateList, thrVars, cpuVars, TypeOK, Listed
  <2>2. \A t \in Thread : t # cur => ~ Creating(t)'
    BY Zenon, <1>1, <1>2, <2>1, OthersNotCreating
  <2>3. Where(cur)' = pc' /\ local'[cur] = new
    BY Zenon, <1>1, <2>1 DEF Where, TypeOK, CreateList
  <2>4. /\ new \in zone' /\ new \notin handles'
        /\ new \in Attached' <=> pc' \in {"tc_list", "tc_link", "tc_active"}
        /\ new \notin Listed' /\ pc' # "tc_active"
        /\ pc' \in {"tc_assign", "tc_list", "tc_link"} => entry'[new] = Body
        /\ pc' = "tc_link" => last'[cur] = threads'.prev[HEAD]
        /\ pc' = "tc_count" => thread_id'[new] = thread_id_max'
    BY <1>1, <1>2, Creator, Zenon DEF CreateList, thrVars, TypeOK
  <2>5. pc' \in {"tc_stack", "tc_assign", "tc_list", "tc_link"} =>
          thread_id'[new] < thread_id_max' /\ \A u \in Listed' : thread_id'[u] # thread_id'[new]
    <3>1. pc = "tc_list" /\ thread_id' = thread_id /\ thread_id_max' = thread_id_max
      BY Zenon DEF CreateList, thrVars
    <3>2. thread_id[new] < thread_id_max /\ \A u \in Listed : thread_id[u] # thread_id[new]
      BY <3>1, Creator, Zenon
    <3>3. QED
      BY <1>2, <3>1, <3>2, Zenon
  <2>6. QED
    BY Zenon, <2>1, <2>2, <2>3, <2>4, <2>5 DEF CreateInv
<1>6. DestroyInv'
  BY Zenon, <1>1, <1>2 DEF DestroyInv, TypeOK, CreateList, thrVars, cpuVars
<1>7. TaskInv' /\ IdInv'
  BY Zenon, <1>1, <1>2 DEF TaskInv, IdInv, UniqueThreadIds, Listed, TypeOK, CreateList, thrVars, cpuVars
<1>8. HeldInv'
  BY Zenon DEF HeldInv, CreateList
<1>9. QED
  BY Zenon, <1>2, <1>3, <1>4, <1>5, <1>6, <1>7, <1>8

(* The links of the two lists, in the form the lemmas on lists take.       *)
LEMMA SchedLinks ==
  ASSUME TypeOK
  PROVE  /\ threads \in Links(Thread \cup {HEAD}) /\ siblings \in Links(Thread \cup Task)
         /\ NULL \notin Thread \cup {HEAD} /\ NULL \notin Thread \cup Task
BY Zenon DEF TypeOK, Links

(* The new thread joins the list of its task.                              *)
LEMMA CreateAssignInv == IInv /\ CreateAssign => IInv'
<1> SUFFICES ASSUME IInv, CreateAssign PROVE IInv'
  BY Zenon
<1> USE DEF IInv
<1> DEFINE new == local[cur]
<1>1. /\ cur \in Listed /\ new \in zone \ handles /\ new \in Thread /\ new \notin Attached
      /\ \A t \in Listed : t # cur => entry[t] \notin CreateLoc
      /\ new \notin Listed /\ new # cur /\ entry[new] = Body
  BY Zenon, Creator DEF TypeOK, CreateAssign
<1>2. PICK tk \in Task : /\ siblings' = list_add_tail(siblings, new, tk)
                         /\ task' = [task EXCEPT ![new] = tk]
  BY Zenon DEF CreateAssign
<1>3. /\ siblings' \in Links(Thread \cup Task)
      /\ siblings'.next = [siblings.next EXCEPT ![new] = tk, ![siblings.prev[tk]] = new]
      /\ WellLinked(siblings', Attached \cup Task \cup {new})
  <2> DEFINE N == Thread \cup Task
             Heads == Attached \cup Task
  <2>1. /\ NULL \notin N /\ siblings \in Links(N) /\ Heads \in SUBSET N
        /\ WellLinked(siblings, Heads) /\ tk \in Heads /\ new \in N \ Heads
    BY Zenon, <1>1, SchedLinks DEF ListInv, Attached
  <2> HIDE DEF N, Heads, new
  <2>2. WellLinked(siblings', Heads \cup {new})
    BY <1>2, <2>1, AddTailRing, Zenon
  <2>3. /\ siblings' \in Links(N)
        /\ siblings'.next = [siblings.next EXCEPT ![new] = tk, ![siblings.prev[tk]] = new]
    BY Zenon, <1>2, <2>1 DEF WellLinked, Links, list_add_tail, list_insert
  <2>4. QED
    BY Zenon, <2>2, <2>3 DEF N, Heads
<1>4. Attached' = Attached \cup {new} /\ Listed' = Listed /\ UNCHANGED <<threads, zone>>
  <2>1. siblings.prev[tk] \in Attached \cup Task
    BY Zenon DEF ListInv, WellLinked
  <2>2. \A t \in Thread : siblings'.next[t] # NULL <=> (siblings.next[t] # NULL \/ t = new)
    BY <1>1, <1>3, <2>1, SchedLinks DEF Links, Attached
  <2>3. QED
    BY Zenon, <1>1, <2>2 DEF Attached, Listed, OnList, CreateAssign
<1>5. ListInv'
  <2>1. Attached' \cup Task = Attached \cup Task \cup {new}
    BY Zenon, <1>4
  <2>2. QED
    BY <1>1, <1>3, <1>4, <2>1, Zenon DEF ListInv
<1>6. TypeOK'
  BY <1>1, <1>2, <1>3 DEF TypeOK, Links, CreateAssign, cpuVars
<1>7. RunInv'
  BY Zenon, <1>4 DEF RunInv, Live, OnList, CreateAssign, cpuVars
<1>8. CreateInv'
  <2>1. UNCHANGED <<cur, entry, local, zone, handles, thread_id, thread_id_max>> /\ pc' = "tc_list"
    BY Zenon DEF CreateAssign, cpuVars
  <2>2. \A t \in Thread : t # cur => ~ Creating(t)'
    BY Zenon, <1>1, <1>4, <2>1, OthersNotCreating
  <2>3. Where(cur)' = "tc_list"
    BY Zenon, <2>1 DEF Where
  <2>4. thread_id[new] < thread_id_max /\ \A u \in Listed : thread_id[u] # thread_id[new]
    BY Zenon, Creator DEF CreateAssign
  <2>5. QED
    BY <1>1, <1>4, <2>1, <2>2, <2>3, <2>4 DEF CreateInv
<1>9. DestroyInv'
  BY Zenon, <1>1, <1>4 DEF DestroyInv, CreateAssign, cpuVars
<1>10. TaskInv' /\ IdInv' /\ HeldInv'
  <2>1. TaskInv'
    BY <1>1, <1>2, <1>4 DEF TaskInv, TypeOK, Attached, CreateAssign, cpuVars
  <2>2. IdInv' /\ HeldInv'
    BY Zenon, <1>4 DEF IdInv, UniqueThreadIds, HeldInv, CreateAssign
  <2>3. QED
    BY Zenon, <2>1, <2>2
<1>11. QED
  BY Zenon, <1>5, <1>6, <1>7, <1>8, <1>9, <1>10 DEF CreateAssign

(* The new thread joins the ring the scheduler walks: the tail read before *)
(* is still the tail, so __list_add does what list_add_tail means to do.   *)
LEMMA CreateLinkInv == IInv /\ CreateLink => IInv' /\ Listed' = Listed \cup {local[cur]}
<1> SUFFICES ASSUME IInv, CreateLink PROVE IInv' /\ Listed' = Listed \cup {local[cur]}
  BY Zenon
<1> USE DEF IInv
<1> DEFINE new == local[cur]
           Ring == Listed \cup {HEAD}
<1>1. /\ cur \in Listed /\ new \in zone \ handles /\ new \in Thread /\ new \in Attached
      /\ \A t \in Listed : t # cur => entry[t] \notin CreateLoc
      /\ new \notin Listed /\ new # cur /\ entry[new] = Body
      /\ last[cur] = threads.prev[HEAD]
      /\ thread_id[new] < thread_id_max /\ \A u \in Listed : thread_id[u] # thread_id[new]
  BY Zenon, Creator DEF TypeOK, CreateLink
<1>2. threads' = list_add_tail(threads, new, HEAD)
  BY Zenon, <1>1 DEF CreateLink, list_add_tail
<1>3. /\ threads' \in Links(Thread \cup {HEAD})
      /\ threads'.next = [threads.next EXCEPT ![new] = HEAD, ![threads.prev[HEAD]] = new]
      /\ WellLinked(threads', Ring \cup {new})
      /\ OneRing(threads', HEAD, Ring \cup {new})
  <2> DEFINE N == Thread \cup {HEAD}
  <2>1. /\ NULL \notin N /\ threads \in Links(N) /\ Ring \in SUBSET N
        /\ WellLinked(threads, Ring) /\ OneRing(threads, HEAD, Ring)
        /\ HEAD \in Ring /\ new \in N \ Ring
    BY Zenon, <1>1, SchedLinks DEF ListInv, Listed
  <2> HIDE DEF N, Ring, new
  <2>2. WellLinked(threads', Ring \cup {new})
    BY Zenon, <1>2, <2>1, AddTailRing
  <2>3. OneRing(threads', HEAD, Ring \cup {new})
    BY Zenon, <1>2, <2>1, AddTailRing
  <2>4. /\ threads' \in Links(N)
        /\ threads'.next = [threads.next EXCEPT ![new] = HEAD, ![threads.prev[HEAD]] = new]
    BY Zenon, <1>2, <2>1 DEF WellLinked, Links, list_add_tail, list_insert
  <2>5. QED
    BY Zenon, <2>2, <2>3, <2>4 DEF N
<1>4. Listed' = Listed \cup {new} /\ Attached' = Attached /\ UNCHANGED <<siblings, zone>>
  <2>1. threads.prev[HEAD] \in Ring
    BY Zenon DEF ListInv, WellLinked
  <2>2. \A t \in Thread : threads'.next[t] # NULL <=> (threads.next[t] # NULL \/ t = new)
    BY <1>1, <1>3, <2>1, SchedLinks DEF Links, Listed, OnList
  <2>3. QED
    BY Zenon, <1>1, <2>2 DEF Attached, Listed, OnList, CreateLink
<1>5. ListInv'
  <2>1. Listed' \cup {HEAD} = Ring \cup {new}
    BY Zenon, <1>4
  <2>2. QED
    BY <1>1, <1>3, <1>4, <2>1, Zenon DEF ListInv
<1>6. TypeOK'
  BY <1>1, <1>3 DEF TypeOK, Links, CreateLink, cpuVars
<1>7. RunInv'
  <2>1. \A t \in Thread : Live(t) => Live(t)'
    BY Zenon, <1>4 DEF Live, Listed, OnList, CreateLink
  <2>2. QED
    BY Zenon, <2>1 DEF RunInv, CreateLink, cpuVars, TypeOK
<1>8. CreateInv'
  <2>1. UNCHANGED <<cur, entry, local, zone, handles, thread_id, thread_id_max>> /\ pc' = "tc_active"
    BY Zenon DEF CreateLink, cpuVars
  <2>2. \A t \in Thread : t # cur => ~ Creating(t)'
    BY Zenon, <1>1, <1>4, <2>1, OthersNotCreating
  <2>3. Where(cur)' = "tc_active"
    BY Zenon, <2>1 DEF Where
  <2>4. QED
    BY Zenon, <1>1, <1>4, <2>1, <2>2, <2>3 DEF CreateInv
<1>9. DestroyInv'
  BY Zenon, <1>1, <1>4 DEF DestroyInv, CreateLink, cpuVars
<1>10. TaskInv' /\ IdInv' /\ HeldInv'
  BY <1>1, <1>4 DEF TaskInv, IdInv, UniqueThreadIds, HeldInv, CreateLink, cpuVars
<1>11. QED
  BY Zenon, <1>4, <1>5, <1>6, <1>7, <1>8, <1>9, <1>10

(* thread_create completes the thread and forgets it.                      *)
LEMMA CreateActiveInv == IInv /\ CreateActive => IInv'
<1> SUFFICES ASSUME IInv, CreateActive PROVE IInv'
  BY Zenon
<1> USE DEF IInv
<1> DEFINE new == local[cur]
<1>1. /\ cur \in Listed /\ new \in zone \ handles /\ new \in Thread /\ new \in Listed
      /\ \A t \in Listed : t # cur => entry[t] \notin CreateLoc
  BY Zenon, Creator DEF TypeOK, CreateActive
<1>2. ListInv' /\ Listed' = Listed /\ Attached' = Attached
  BY Zenon, ListInvKept DEF CreateActive
<1>3. TypeOK'
  BY <1>1 DEF TypeOK, CreateActive, cpuVars, ACTIVE, INACTIVE
<1>4. RunInv'
  BY Zenon, <1>1, <1>2 DEF RunInv, Live, OnList, TypeOK, CreateActive, cpuVars
<1>5. \A t \in Thread : ~ Creating(t)'
  <2>1. UNCHANGED <<cur, entry>> /\ pc' = Body
    BY Zenon DEF CreateActive, cpuVars
  <2>2. \A t \in Thread : t # cur => ~ Creating(t)'
    BY Zenon, <1>1, <1>2, <2>1, OthersNotCreating
  <2>3. ~ Creating(cur)'
    BY Zenon, <2>1 DEF Creating, Where
  <2>4. QED
    BY Zenon, <2>1, <2>2, <2>3
<1>6. CreateInv'
  BY Zenon, <1>5 DEF CreateInv
<1>7. DestroyInv'
  BY Zenon, <1>1, <1>2 DEF DestroyInv, CreateActive, cpuVars
<1>8. TaskInv' /\ IdInv' /\ HeldInv'
  BY Zenon, <1>2 DEF TaskInv, IdInv, UniqueThreadIds, HeldInv, CreateActive, cpuVars
<1>9. QED
  BY Zenon, <1>2, <1>3, <1>4, <1>6, <1>7, <1>8

(* thread_destroy marks a thread inactive that is not the running one.     *)
LEMMA DestroyDeactivateInv == IInv /\ DestroyDeactivate => IInv'
<1> SUFFICES ASSUME IInv, DestroyDeactivate PROVE IInv'
  BY Zenon
<1> USE DEF IInv
<1>1. local[cur] \in handles /\ local[cur] \in Thread /\ local[cur] # cur /\ irqOff
  BY Zenon DEF DestroyInv, RunInv, TypeOK, DestroyDeactivate
<1>2. ListInv' /\ Listed' = Listed /\ Attached' = Attached
  BY Zenon, ListInvKept DEF DestroyDeactivate
<1>3. TypeOK'
  BY <1>1 DEF TypeOK, DestroyDeactivate, cpuVars, ACTIVE, INACTIVE
<1>4. RunInv'
  BY Zenon, <1>1 DEF RunInv, Live, OnList, TypeOK, DestroyDeactivate, cpuVars
<1>5. \A t \in Thread : ~ Creating(t)'
  BY Zenon, <1>2 DEF DestroyInv, Creating, Where, DestroyDeactivate, cpuVars
<1>6. CreateInv'
  BY Zenon, <1>5 DEF CreateInv
<1>7. DestroyInv'
  BY Zenon, <1>1, <1>2, <1>5 DEF DestroyInv, DestroyDeactivate, cpuVars
<1>8. TaskInv' /\ IdInv' /\ HeldInv'
  BY Zenon, <1>2 DEF TaskInv, IdInv, UniqueThreadIds, HeldInv, DestroyDeactivate, cpuVars
<1>9. QED
  BY Zenon, <1>2, <1>3, <1>4, <1>6, <1>7, <1>8

(* thread_destroy takes the thread off both its lists; those that stay     *)
(* still form one ring.                                                    *)
LEMMA DestroyUnlinkInv == IInv /\ DestroyUnlink => IInv' /\ Listed' = Listed \ {local[cur]}
<1> SUFFICES ASSUME IInv, DestroyUnlink PROVE IInv' /\ Listed' = Listed \ {local[cur]}
  BY Zenon
<1> USE DEF IInv
<1> DEFINE old == local[cur]
           Ring == Listed \cup {HEAD}
           Heads == Attached \cup Task
<1>1. /\ old \in handles /\ old \in Thread /\ old # cur /\ irqOff
      /\ old \in Listed /\ old \in Attached /\ cpu_active_thread = cur
  BY Zenon DEF DestroyInv, RunInv, ListInv, TypeOK, DestroyUnlink
<1>2. /\ threads' \in Links(Thread \cup {HEAD})
      /\ threads'.next = [threads.next EXCEPT ![threads.prev[old]] = threads.next[old], ![old] = NULL]
      /\ WellLinked(threads', Ring \ {old})
      /\ OneRing(threads', HEAD, Ring \ {old})
  <2> DEFINE N == Thread \cup {HEAD}
  <2>1. /\ NULL \notin N /\ threads \in Links(N) /\ Ring \in SUBSET N
        /\ WellLinked(threads, Ring) /\ OneRing(threads, HEAD, Ring) /\ HEAD \in Ring \ {old}
        /\ old \in Ring /\ HEAD \in Ring /\ threads' = list_del(threads, old)
    BY Zenon, <1>1, SchedLinks DEF ListInv, Listed, DestroyUnlink
  <2> HIDE DEF N, Ring, old
  <2>2. WellLinked(threads', Ring \ {old})
    BY <2>1, DelRing, Zenon
  <2>3. OneRing(threads', HEAD, Ring \ {old})
    BY <2>1, DelRing, Zenon
  <2>4. /\ threads' \in Links(N)
        /\ threads'.next = [threads.next EXCEPT ![threads.prev[old]] = threads.next[old], ![old] = NULL]
    BY Zenon, <2>1 DEF WellLinked, Links, list_del, list_unlink
  <2>5. QED
    BY Zenon, <2>2, <2>3, <2>4 DEF N
<1>3. /\ siblings' \in Links(Thread \cup Task)
      /\ siblings'.next = [siblings.next EXCEPT ![siblings.prev[old]] = siblings.next[old], ![old] = NULL]
      /\ WellLinked(siblings', Heads \ {old})
  <2> DEFINE N == Thread \cup Task
  <2>1. /\ NULL \notin N /\ siblings \in Links(N) /\ Heads \in SUBSET N
        /\ WellLinked(siblings, Heads) /\ old \in Heads /\ siblings' = list_del(siblings, old)
    BY Zenon, <1>1, SchedLinks DEF ListInv, Attached, DestroyUnlink
  <2> HIDE DEF N, Heads, old
  <2>2. WellLinked(siblings', Heads \ {old})
    BY <2>1, DelRing, Zenon
  <2>3. /\ siblings' \in Links(N)
        /\ siblings'.next = [siblings.next EXCEPT ![siblings.prev[old]] = siblings.next[old], ![old] = NULL]
    BY Zenon, <2>1 DEF WellLinked, Links, list_del, list_unlink
  <2>4. QED
    BY Zenon, <2>2, <2>3 DEF N
<1>4. Listed' = Listed \ {old} /\ Attached' = Attached \ {old} /\ zone' = zone
  <2>1. threads.prev[old] \in Ring /\ threads.next[old] \in Ring /\ threads.next[old] # NULL
    BY <1>1, SchedLinks DEF ListInv, WellLinked, Listed
  <2>2. \A t \in Thread : threads'.next[t] # NULL <=> (threads.next[t] # NULL /\ t # old)
    BY <1>1, <1>2, <2>1, SchedLinks DEF Links, Listed, OnList
  <2>3. /\ siblings.prev[old] \in Heads /\ siblings.next[old] \in Heads /\ siblings.next[old] # NULL
    BY Zenon, <1>1, SchedLinks DEF ListInv, WellLinked, Attached
  <2>4. \A t \in Thread : siblings'.next[t] # NULL <=> (siblings.next[t] # NULL /\ t # old)
    BY <1>1, <1>3, <2>3, SchedLinks DEF Links, Attached
  <2>5. QED
    BY <2>2, <2>4, Zenon DEF Listed, OnList, Attached, DestroyUnlink
<1>5. ListInv'
  <2>1. Listed' \cup {HEAD} = Ring \ {old} /\ Attached' \cup Task = Heads \ {old}
    BY Zenon, <1>1, <1>4
  <2>2. QED
    BY <1>2, <1>3, <1>4, <2>1, Zenon DEF ListInv
<1>6. TypeOK'
  BY <1>2, <1>3 DEF TypeOK, Links, DestroyUnlink, cpuVars
<1>7. RunInv'
  <2>1. Live(cur)'
    BY Zenon, <1>1, <1>4 DEF RunInv, Live, OnList, Listed, TypeOK, DestroyUnlink, cpuVars
  <2>2. QED
    BY Zenon, <1>1, <2>1 DEF RunInv, Live, OnList, DestroyUnlink, cpuVars
<1>8. \A t \in Thread : ~ Creating(t)'
  BY Zenon, <1>4 DEF DestroyInv, Creating, Where, DestroyUnlink, cpuVars
<1>9. CreateInv'
  BY Zenon, <1>8 DEF CreateInv
<1>10. DestroyInv'
  BY Zenon, <1>1, <1>4, <1>8 DEF DestroyInv, DestroyUnlink, cpuVars
<1>11. TaskInv' /\ IdInv' /\ HeldInv'
  BY Zenon, <1>4 DEF TaskInv, IdInv, UniqueThreadIds, HeldInv, DestroyUnlink, cpuVars
<1>12. QED
  BY Zenon, <1>4, <1>5, <1>6, <1>7, <1>9, <1>10, <1>11

(* thread_destroy frees a thread that is on no list any more.              *)
LEMMA DestroyFreeInv == IInv /\ DestroyFree => IInv'
<1> SUFFICES ASSUME IInv, DestroyFree PROVE IInv'
  BY Zenon
<1> USE DEF IInv
<1> DEFINE old == local[cur]
<1>1. /\ old \in handles /\ old \in Thread /\ old \notin Attached /\ old \notin Listed /\ irqOff
      /\ cur \in Listed /\ cpu_active_thread = cur
  BY Zenon DEF DestroyInv, RunInv, Live, ListInv, Listed, OnList, TypeOK, DestroyFree
<1>2. ListInv' /\ Listed' = Listed /\ Attached' = Attached
  <2>1. Listed' = Listed /\ Attached' = Attached
    BY Zenon DEF Listed, OnList, Attached, DestroyFree
  <2>2. QED
    BY Zenon, <1>1, <2>1 DEF ListInv, DestroyFree
<1>3. TypeOK'
  BY <1>1 DEF TypeOK, DestroyFree, cpuVars, ACTIVE, INACTIVE
<1>4. RunInv'
  BY Zenon, <1>1 DEF RunInv, Live, OnList, TypeOK, DestroyFree, cpuVars
<1>5. \A t \in Thread : ~ Creating(t)'
  BY <1>2 DEF DestroyInv, Creating, Where, DestroyFree, cpuVars
<1>6. CreateInv'
  BY Zenon, <1>5 DEF CreateInv
<1>7. DestroyInv'
  BY <1>1, <1>2, <1>5 DEF DestroyInv, DestroyFree, cpuVars
<1>8. TaskInv'
  BY <1>1, <1>2 DEF TaskInv, TypeOK, ListInv, Attached, DestroyFree, cpuVars
<1>9. IdInv' /\ HeldInv'
  BY <1>1, <1>2 DEF IdInv, UniqueThreadIds, TypeOK, Listed, HeldInv, DestroyFree
<1>10. QED
  BY Zenon, <1>2, <1>3, <1>4, <1>6, <1>7, <1>8, <1>9

(* The successor __select_thread returns is a listed thread: the ring      *)
(* holds cpu_active_thread, so it is not just the head.                    *)
LEMMA SelectThread ==
  ASSUME TypeOK, ListInv, NEW t \in Listed
  PROVE  select_thread(t) \in Listed
<1>1. WellLinked(threads, Listed \cup {HEAD}) /\ HEAD \notin Listed
  BY Zenon DEF ListInv, Listed
<1>2. threads.next[t] \in Listed \cup {HEAD} /\ threads.next[HEAD] \in Listed \cup {HEAD}
  BY Zenon, <1>1 DEF WellLinked
<1>3. threads.next[t] = HEAD => threads.next[HEAD] # HEAD
  BY <1>1 DEF WellLinked
<1>4. QED
  BY Zenon, <1>2, <1>3 DEF select_thread, list_is_last, list_first_entry

(* A context switch saves the position of the interrupted thread in its    *)
(* own structure and takes up the selected thread where it was.            *)
LEMMA ScheduleInv == IInv /\ Schedule => IInv'
<1> SUFFICES ASSUME IInv, Schedule PROVE IInv'
  BY Zenon
<1> USE DEF IInv
<1> DEFINE next == select_thread(cpu_active_thread)
<1>1. /\ pc = "sched" /\ pc' = "tail" /\ irqOff /\ cpu_active_thread = cur /\ cur \in Listed
      /\ cur \in Thread /\ next \in Listed /\ next \in Thread /\ state[next] = ACTIVE
  BY Zenon, SelectThread DEF Schedule, RunInv, Live, Listed, OnList, TypeOK
<1>2. /\ entry' = [entry EXCEPT ![cur] = elr] /\ x19' = entry'[next] /\ cur' = next
      /\ current_task' = task[next]
  BY Zenon, <1>1 DEF Schedule
<1> HIDE DEF next
<1>3. UNCHANGED <<threads, siblings, state, thread_id, task, zone, handles, thread_id_max,
                  cpu_active_thread, elr, local, last, panic_active, irqOff, timer, held>>
  BY Zenon DEF Schedule
<1>4. ListInv' /\ Listed' = Listed /\ Attached' = Attached
  BY Zenon, <1>3, ListInvKept
<1>5. TypeOK'
  BY <1>1, <1>2, <1>3 DEF TypeOK
<1>6. RunInv'
  BY Zenon, <1>1, <1>2, <1>3 DEF RunInv, Live, OnList, Listed, ListInv
<1>7. \A t \in Thread : Where(t)' = Where(t)
  BY Zenon, <1>1, <1>2, <1>3 DEF Where, TypeOK
<1>8. CreateInv'
  <2>1. \A t \in Thread : (Creating(t)' <=> Creating(t))
    BY Zenon, <1>4, <1>7 DEF Creating
  <2>2. ASSUME NEW t \in Thread, Creating(t), Where(t) \in {"tc_assign", "tc_list", "tc_link"}
        PROVE  entry'[local[t]] = entry[local[t]]
    <3>1. local[t] \notin Listed /\ local[t] \in zone
      BY Zenon, <2>2 DEF CreateInv
    <3>2. QED
      BY Zenon, <1>1, <1>2, <3>1 DEF TypeOK
  <2>3. QED
    BY <1>3, <1>4, <1>7, <2>1, <2>2 DEF CreateInv
<1>9. DestroyInv'
  BY Zenon, <1>1, <1>2, <1>3, <1>4 DEF DestroyInv, TypeOK
<1>10. TaskInv' /\ IdInv' /\ HeldInv'
  BY <1>1, <1>2, <1>3, <1>4, Zenon DEF TaskInv, IdInv, UniqueThreadIds, HeldInv
<1>11. QED
  BY Zenon, <1>4, <1>5, <1>6, <1>8, <1>9, <1>10

-----------------------------------------------------------------------------
(* The state in which kernel_init loads the kernel thread.                 *)
LEMMA InitInv == Serial /\ Init => IInv
<1> SUFFICES ASSUME Serial, Init PROVE IInv
  BY Zenon
<1> USE DEF Init
<1>1. KThread \in Thread /\ KThread # HEAD /\ KThread # NULL /\ HEAD # NULL /\ KThread \notin Task
  BY Zenon
<1>2. /\ \A n \in Thread \cup {HEAD} : threads.next[n] = IF n = HEAD THEN KThread ELSE IF n = KThread THEN HEAD ELSE NULL
      /\ \A n \in Thread \cup {HEAD} : threads.prev[n] = IF n = HEAD THEN KThread ELSE IF n = KThread THEN HEAD ELSE NULL
  BY Zenon
<1>3. /\ \A n \in Thread \cup Task : siblings.next[n] = IF n = KTask THEN KThread ELSE IF n = KThread THEN KTask
                                                       ELSE IF n \in Task THEN n ELSE NULL
      /\ \A n \in Thread \cup Task : siblings.prev[n] = IF n = KTask THEN KThread ELSE IF n = KThread THEN KTask
                                                       ELSE IF n \in Task THEN n ELSE NULL
  BY Zenon
<1>4. Listed = {KThread} /\ Attached = {KThread}
  BY <1>1, <1>2, <1>3, Zenon DEF Listed, OnList, Attached
<1>5. ListInv
  <2>1. WellLinked(threads, {KThread, HEAD}) /\ OneRing(threads, HEAD, {KThread, HEAD})
    BY <1>1, <1>2, Zenon DEF WellLinked, OneRing, Traversal
  <2>2. WellLinked(siblings, {KThread} \cup Task)
    BY <1>1, <1>3, Zenon DEF WellLinked
  <2>3. Listed \cup {HEAD} = {KThread, HEAD} /\ Attached \cup Task = {KThread} \cup Task
    BY Zenon, <1>4
  <2>4. QED
    BY <1>4, <2>1, <2>2, <2>3, Zenon DEF ListInv
<1>6. TypeOK
  BY <1>1, Zenon DEF TypeOK, ACTIVE, INACTIVE
<1>7. RunInv
  BY <1>1, <1>2, Zenon DEF RunInv, Live, OnList
<1>8. CreateInv /\ DestroyInv
  BY Zenon, <1>1, <1>4 DEF CreateInv, DestroyInv, Creating, Where
<1>9. IdInv /\ TaskInv /\ HeldInv
  BY <1>1, <1>4 DEF IdInv, UniqueThreadIds, TaskInv, HeldInv
<1>10. QED
  BY Zenon, <1>5, <1>6, <1>7, <1>8, <1>9 DEF IInv

(* A step that changes nothing: cpu_halt, one more turn of the scheduler's *)
(* loop, a lost thread, stuttering.                                        *)
LEMMA UnchangedInv == IInv /\ UNCHANGED vars => IInv'
<1> SUFFICES ASSUME IInv, UNCHANGED vars PROVE IInv'
  BY Zenon
<1> USE DEF IInv, vars, thrVars, cpuVars
<1>1. ListInv' /\ Listed' = Listed /\ Attached' = Attached
  BY Zenon, ListInvKept
<1>2. \A t \in Thread : (Creating(t)' <=> Creating(t)) /\ Where(t)' = Where(t)
  BY Zenon, <1>1 DEF Creating, Where
<1>3. TypeOK'
  BY DEF TypeOK
<1>4. RunInv' /\ HeldInv'
  BY Zenon DEF RunInv, Live, OnList, HeldInv
<1>5. CreateInv' /\ DestroyInv'
  BY <1>1, <1>2, Zenon DEF CreateInv, DestroyInv
<1>6. TaskInv' /\ IdInv'
  BY Zenon, <1>1 DEF TaskInv, IdInv, UniqueThreadIds
<1>7. QED
  BY Zenon, <1>1, <1>3, <1>4, <1>5, <1>6

(* IInv is inductive.                                                      *)
LEMMA NextInv == IInv /\ [Next]_vars => IInv'
<1> SUFFICES ASSUME IInv, [Next]_vars PROVE IInv'
  BY Zenon
<1>1. CASE Create
  BY Zenon, <1>1, CreateZallocInv, CreateIdInv, CreateCountInv, CreateContextInv, CreateAssignInv,
     CreateListInv, CreateLinkInv, CreateActiveInv DEF Create
<1>2. CASE Destroy
  BY Zenon, <1>2, DestroyCallInv, DestroyDeactivateInv, DestroyUnlinkInv, DestroyFreeInv DEF Destroy
<1>3. CASE Panic
  BY Zenon, <1>3, PanicInv, UnchangedInv DEF Panic, cpu_halt
<1>4. CASE Switch
  BY Zenon, <1>4, TickInv, ScheduleInv, TailInv, UnchangedInv DEF Switch, ScheduleRetry, Lost
<1>5. CASE thread_block \/ thread_unblock \/ machine_init_timers
  BY Zenon, <1>5, BlockInv
<1>6. QED
  BY Zenon, <1>1, <1>2, <1>3, <1>4, <1>5, UnchangedInv DEF Next

(* IInv holds in every state, when callers serialise.                      *)
THEOREM Inductive == ASSUME Serial PROVE Spec => []IInv
<1>1. Init => IInv
  BY Zenon, InitInv
<1>2. QED
  BY <1>1, NextInv, PTL DEF Spec

(* Type correctness, for any number of threads and tasks.                  *)
THEOREM SchedTypeOK == ASSUME Serial PROVE Spec => []TypeOK
BY Inductive, PTL DEF IInv

(* The CPU is always on a thread that exists, is listed and is active; the *)
(* scheduler saves a context only into the thread it interrupted, and      *)
(* current_task is the running thread's.                                   *)
THEOREM SchedRunning == ASSUME Serial PROVE Spec => []RunningThreadLive
<1>1. IInv => RunningThreadLive
  BY Zenon DEF IInv, RunInv, TaskInv, RunningThreadLive
<1>2. QED
  BY <1>1, Inductive, PTL

(* The ring the scheduler walks is whole at every tick, whatever call the  *)
(* tick interrupts, and its threads have a task.                           *)
THEOREM SchedList == ASSUME Serial PROVE Spec => []ThreadListSound
<1>1. IInv => ThreadListSound
  BY Zenon DEF IInv, ListInv, TaskInv, Attached, ThreadListSound
<1>2. QED
  BY <1>1, Inductive, PTL

(* Thread ids identify threads when thread_create calls do not overlap.    *)
THEOREM SchedIds == ASSUME Serial PROVE Spec => []UniqueThreadIds
<1>1. IInv => UniqueThreadIds
  BY Zenon DEF IInv, IdInv
<1>2. QED
  BY <1>1, Inductive, PTL

(* No step changes the saved program counter of a listed thread that does  *)
(* not have the CPU.                                                       *)
THEOREM SchedSaved == ASSUME Serial PROVE Spec => SavedContextKept
<1> DEFINE Kept == \A t \in Thread : t # cur /\ OnList(t) /\ OnList(t)' => entry'[t] = entry[t]
<1>1. IInv /\ Next => Kept
  <2> SUFFICES ASSUME IInv, Next, NEW t \in Thread, t # cur, OnList(t), OnList(t)'
               PROVE  entry'[t] = entry[t]
    BY Zenon
  <2>1. CASE CreateContext
    <3>1. local[cur] \notin Listed
      BY Zenon, <2>1, Creator DEF CreateContext
    <3>2. QED
      BY Zenon, <2>1, <3>1 DEF CreateContext, Listed, IInv, TypeOK
  <2>2. CASE Schedule
    BY <2>2 DEF Schedule, IInv, RunInv, TypeOK
  <2>3. CASE DestroyFree
    <3>1. local[cur] \notin Listed
      BY <2>3, Zenon DEF DestroyFree, IInv, DestroyInv, ListInv
    <3>2. QED
      BY Zenon, <2>3, <3>1 DEF DestroyFree, Listed, IInv, TypeOK
  <2>4. CASE UNCHANGED entry
    BY Zenon, <2>4
  <2>5. QED
    BY <2>1, <2>2, <2>3, <2>4, Zenon DEF Next, Create, Destroy, Panic, Switch, thrVars, vars,
       CreateZalloc, CreateId, CreateCount, CreateAssign, CreateList, CreateLink, CreateActive,
       DestroyBlock, DestroyActive, DestroyDeactivate, DestroyUnlink, DestroyUnblock,
       PanicCall, PanicCheck, PanicSet, PanicMask, PanicPrint, cpu_halt, Tick, ScheduleRetry,
       sched_tail, fork64_return, Lost, thread_block, thread_unblock, machine_init_timers
<1>2. IInv /\ [Next]_vars => [Kept]_vars
  BY Zenon, <1>1
<1>3. QED
  BY <1>2, Inductive, PTL DEF Spec, SavedContextKept

(* Between thread_block and thread_unblock the CPU stays on the thread.    *)
THEOREM SchedBlock == ASSUME Serial PROVE Spec => BlockHolds
<1> DEFINE Stays == held => cur' = cur
<1>1. IInv /\ Next => Stays
  <2> SUFFICES ASSUME IInv, Next, held PROVE cur' = cur
    BY Zenon
  <2>1. ~ Schedule
    BY Zenon DEF IInv, HeldInv, Schedule
  <2>2. QED
    BY <2>1, Zenon DEF Next, Create, Destroy, Panic, Switch, cpuVars, vars,
       CreateZalloc, CreateId, CreateCount, CreateContext, CreateAssign, CreateList, CreateLink,
       CreateActive, DestroyBlock, DestroyActive, DestroyDeactivate, DestroyUnlink, DestroyFree,
       DestroyUnblock, PanicCall, PanicCheck, PanicSet, PanicMask, PanicPrint, cpu_halt, Tick,
       ScheduleRetry, sched_tail, fork64_return, Lost, thread_block, thread_unblock,
       machine_init_timers
<1>2. IInv /\ [Next]_vars => [Stays]_vars
  BY Zenon, <1>1
<1>3. QED
  BY <1>2, Inductive, PTL DEF Spec, BlockHolds
-----------------------------------------------------------------------------
(* The boot program.  Places where the kernel thread or the test thread    *)
(* may wait for the CPU; "lost" only with ticks in the trampoline.         *)
Place == {Body, "tramp", "lost"}

(* The kernel thread runs alone until test_thread_1 is complete and then   *)
(* starts the timer; only it calls thread_create, before that, and         *)
(* thread_destroy, after it.  A listed thread is inactive only while one   *)
(* of the two calls works on it.                                           *)
MainInv ==
  /\ mainPc \in {"flag", "create", "created", "loop", "destroyed"}
  /\ timer <=> mainPc \in {"loop", "destroyed"}
  /\ ~ timer => cur = KThread /\ x19 = Body /\ pc # "sched"
  /\ mainPc \notin {"flag", "create"} => test_thread \in Thread \ {KThread}
  /\ pc \in Place \cup {"sched", "tail"} \cup CreateLoc \cup DestroyLoc
  /\ pc \in CreateLoc => mainPc = "created" /\ local[cur] = test_thread
  /\ pc \in DestroyLoc => mainPc = "destroyed" /\ cur = KThread /\ local[cur] = test_thread
  /\ x19 \in Place /\ elr \in Place /\ \A t \in Listed : entry[t] \in Place
  /\ \A t \in Listed : state[t] = ACTIVE \/ (pc \in {"tc_active", "td_del"} /\ t = local[cur])

(* Every step of the boot program is one of Sched.                         *)
LEMMA MainSteps == [MainNext]_allVars => [Next]_vars
BY Zenon DEF MainNext, ThreadStep, MainFlag, MainCreate, MainTimers, MainDestroy, MainDestroyed,
   test_thread_1, InCall, Interrupt, Next, Create, Destroy, allVars

(* The boot program starts in MainInv: the kernel thread alone is listed,  *)
(* active, and about to run.                                               *)
LEMMA MainInitInv == MainInit => MainInv
<1> SUFFICES ASSUME MainInit PROVE MainInv
  BY Zenon
<1>1. Listed = {KThread}
  BY Zenon DEF MainInit, Init, Listed, OnList
<1>2. QED
  BY Zenon, <1>1 DEF MainInit, MainInv, Init, Place

(* The turns of a loop that change nothing.                                *)
LEMMA MainStutter == ASSUME MainInv, UNCHANGED allVars PROVE MainInv'
<1>1. Listed' = Listed
  BY Zenon DEF allVars, vars, thrVars, Listed, OnList
<1>2. QED
  BY Zenon, <1>1 DEF allVars, vars, thrVars, cpuVars, mainVars, MainInv

(* kernel_thread_main itself, and the counting of the test thread.         *)
LEMMA MainThreadInv ==
  ASSUME IInv, MainInv,
         MainFlag \/ MainCreate \/ MainTimers \/ MainDestroy \/ MainDestroyed \/ test_thread_1
  PROVE  MainInv'
<1> USE DEF InMain
<1>1. cur \in Listed /\ cur \in Thread /\ cur \in zone /\ local \in [Thread -> Thread \cup {NULL}]
  BY Zenon DEF IInv, RunInv, Live, Listed, OnList, TypeOK
<1>2. Listed' = Listed
  BY Zenon DEF MainFlag, MainCreate, MainTimers, MainDestroy, MainDestroyed, test_thread_1, vars, thrVars,
     CreateZalloc, machine_init_timers, DestroyBlock, Listed, OnList
<1>3. CASE MainFlag
  BY Zenon, <1>2, <1>3 DEF MainFlag, vars, thrVars, cpuVars, MainInv, Place
<1>4. CASE MainDestroyed
  BY Zenon, <1>2, <1>4 DEF MainDestroyed, vars, thrVars, cpuVars, MainInv, Place
<1>5. CASE test_thread_1
  BY Zenon, <1>2, <1>5 DEF test_thread_1, vars, thrVars, cpuVars, MainInv
<1>6. CASE MainCreate
  <2>1. local'[cur] \in Thread \ {KThread}
    BY Zenon, <1>1, <1>6 DEF MainCreate, CreateZalloc
  <2>2. QED
    BY Zenon, <1>2, <1>6, <2>1 DEF MainCreate, CreateZalloc, cpuVars, MainInv
<1>7. CASE MainTimers
  BY Zenon, <1>2, <1>7 DEF MainTimers, machine_init_timers, thrVars, cpuVars, MainInv, Place
<1>8. CASE MainDestroy
  BY Zenon, <1>2, <1>8 DEF MainDestroy, DestroyBlock, thrVars, cpuVars, MainInv
<1>9. QED
  BY Zenon, <1>3, <1>4, <1>5, <1>6, <1>7, <1>8

(* The steps inside thread_create and thread_destroy.                      *)
LEMMA MainCallInv == ASSUME IInv, MainInv, InCall PROVE MainInv'
<1>1. /\ cur \in Listed /\ cur \in Thread /\ (pc # "tail" => cpu_active_thread = cur)
      /\ local \in [Thread -> Thread \cup {NULL}] /\ state \in [Thread -> {INACTIVE, ACTIVE}]
      /\ entry \in [Thread -> ThreadLoc]
  BY Zenon DEF IInv, RunInv, Live, Listed, OnList, TypeOK
<1>2. CASE CreateId \/ CreateCount \/ CreateAssign \/ CreateList
  <2>1. Listed' = Listed
    BY Zenon, <1>2 DEF CreateId, CreateCount, CreateAssign, CreateList, thrVars, Listed, OnList
  <2>2. /\ UNCHANGED <<cur, timer, x19, elr, entry, local, state, mainVars>>
        /\ pc \in CreateLoc /\ pc' \in CreateLoc /\ pc' # "tc_active" /\ pc # "tc_active"
    BY Zenon, <1>2 DEF InCall, CreateId, CreateCount, CreateAssign, CreateList, thrVars, cpuVars
  <2>3. QED
    BY Zenon, <2>1, <2>2 DEF mainVars, MainInv
<1>3. CASE CreateContext
  <2>1. Listed' = Listed
    BY Zenon, <1>3 DEF CreateContext, Listed, OnList
  <2>2. local[cur] \in Thread /\ local[cur] # cur /\ local[cur] \notin Listed
    BY Zenon, <1>1, <1>3, Creator DEF CreateContext, IInv, TypeOK
  <2>3. local'[cur] = local[cur] /\ \A t \in Listed : entry'[t] = entry[t]
    BY <1>1, <1>3, <2>2 DEF CreateContext, Listed
  <2>4. QED
    BY Zenon, <1>3, <2>1, <2>3 DEF InCall, mainVars, MainInv, CreateContext, cpuVars
<1>4. CASE CreateLink
  <2>1. Listed' = Listed \cup {local[cur]}
    BY Zenon, <1>4, CreateLinkInv
  <2>2. entry[local[cur]] = Body
    BY Zenon, <1>4, Creator DEF CreateLink
  <2>3. QED
    BY Zenon, <1>4, <2>1, <2>2 DEF InCall, mainVars, MainInv, CreateLink, cpuVars, Place
<1>5. CASE CreateActive
  <2>1. Listed' = Listed /\ local[cur] \in Thread
    BY Zenon, <1>5, Creator DEF CreateActive, Listed, OnList, IInv, TypeOK
  <2>2. \A t \in Listed : state'[t] = ACTIVE
    BY Zenon, <1>1, <1>5, <2>1 DEF CreateActive, MainInv, Listed
  <2>3. QED
    BY Zenon, <1>5, <2>1, <2>2 DEF InCall, mainVars, MainInv, CreateActive, cpuVars, Place
<1>6. CASE DestroyActive
  <2>1. local[cur] # cur
    BY Zenon, <1>6 DEF DestroyActive, MainInv
  <2>2. QED
    BY Zenon, <1>1, <1>6, <2>1 DEF DestroyActive
<1>7. CASE DestroyDeactivate
  <2>1. Listed' = Listed
    BY Zenon, <1>7 DEF DestroyDeactivate, Listed, OnList
  <2>2. \A t \in Listed : t # local[cur] => state'[t] = ACTIVE
    BY Zenon, <1>1, <1>7 DEF DestroyDeactivate, MainInv, Listed
  <2>3. QED
    BY Zenon, <1>7, <2>1, <2>2 DEF InCall, mainVars, MainInv, DestroyDeactivate, cpuVars
<1>8. CASE DestroyUnlink
  <2>1. Listed' = Listed \ {local[cur]}
    BY Zenon, <1>8, DestroyUnlinkInv
  <2>2. QED
    BY Zenon, <1>8, <2>1 DEF InCall, mainVars, MainInv, DestroyUnlink, cpuVars
<1>9. CASE DestroyFree
  <2>1. Listed' = Listed /\ local[cur] \notin Listed
    BY Zenon, <1>9 DEF DestroyFree, Listed, OnList, IInv, DestroyInv, ListInv
  <2>2. \A t \in Listed : state'[t] = state[t] /\ entry'[t] = entry[t]
    BY Zenon, <1>1, <1>9, <2>1 DEF DestroyFree, Listed
  <2>3. QED
    BY Zenon, <1>9, <2>1, <2>2 DEF InCall, mainVars, MainInv, DestroyFree, cpuVars
<1>10. CASE DestroyUnblock
  <2>1. Listed' = Listed
    BY Zenon, <1>10 DEF DestroyUnblock, thrVars, Listed, OnList
  <2>2. QED
    BY Zenon, <1>10, <2>1 DEF InCall, mainVars, MainInv, DestroyUnblock, thrVars, cpuVars, Place
<1>11. QED
  BY Zenon, <1>2, <1>3, <1>4, <1>5, <1>6, <1>7, <1>8, <1>9, <1>10 DEF InCall

(* A context switch: a thread goes on where it was, and the timer does not *)
(* interrupt a call.                                                       *)
LEMMA MainSwitchInv == ASSUME IInv, MainInv, Interrupt PROVE MainInv'
<1>1. /\ cur \in Listed /\ cur \in Thread /\ (pc # "tail" => cpu_active_thread = cur)
      /\ entry \in [Thread -> ThreadLoc] /\ (pc = "sched" => irqOff)
      /\ (pc = "tail" => irqOff \/ ~ timer) /\ (pc \in DestroyLoc => irqOff)
  BY Zenon DEF IInv, RunInv, Live, Listed, OnList, TypeOK, DestroyInv
<1>2. Listed' = Listed
  BY Zenon DEF Interrupt, Switch, Tick, Schedule, ScheduleRetry, sched_tail, fork64_return, Lost,
     vars, thrVars, Listed, OnList
<1>3. CASE Tick
  <2>1. pc \in Place
    BY Zenon, <1>1, <1>3 DEF Tick, MainInv
  <2>2. QED
    BY Zenon, <1>2, <1>3, <2>1 DEF Interrupt, mainVars, MainInv, Tick, thrVars, Place
<1>4. CASE Schedule
  <2> DEFINE next == select_thread(cpu_active_thread)
  <2>1. pc = "sched" /\ cpu_active_thread = cur /\ next \in Listed /\ next \in Thread
    BY Zenon, <1>1, <1>4, SelectThread DEF Schedule, IInv, Listed
  <2>2. \A t \in Listed : entry'[t] \in Place
    BY Zenon, <1>1, <1>4, <2>1 DEF Schedule, MainInv, Listed
  <2>3. x19' \in Place /\ timer
    BY Zenon, <1>4, <2>1, <2>2 DEF Schedule, MainInv
  <2>4. QED
    BY Zenon, <1>2, <1>4, <2>1, <2>2, <2>3 DEF Interrupt, mainVars, MainInv, Schedule, Place
<1>5. CASE sched_tail \/ fork64_return
  <2>1. /\ UNCHANGED <<cur, timer, x19, elr, entry, local, state, mainVars>>
        /\ pc \in {"tail", "tramp"} /\ pc' \in Place
    BY Zenon, <1>5 DEF sched_tail, fork64_return, Interrupt, MainInv, thrVars, cpuVars, Place
  <2>2. QED
    BY Zenon, <1>2, <2>1 DEF mainVars, MainInv, Place
<1>6. CASE ScheduleRetry \/ Lost
  BY Zenon, <1>6, MainStutter DEF ScheduleRetry, Lost, Interrupt, allVars
<1>7. QED
  BY Zenon, <1>3, <1>4, <1>5, <1>6 DEF Interrupt, Switch

(* kernel_thread_main and test_thread_1 run on: no tick finds the          *)
(* successor of the running thread inactive, so that the loop of           *)
(* __schedule ends at once, and no panic is reached.                       *)
THEOREM KernelMainRuns == ASSUME Serial PROVE MainSpec => []MainRunsOn
<1>1. MainInit => IInv /\ MainInv
  BY Zenon, InitInv, MainInitInv DEF MainInit
<1>2. IInv /\ MainInv /\ [MainNext]_allVars => IInv' /\ MainInv'
  <2> SUFFICES ASSUME IInv, MainInv, [MainNext]_allVars PROVE MainInv'
    BY Zenon, MainSteps, NextInv
  <2>1. QED
    BY Zenon, MainStutter, MainThreadInv, MainCallInv, MainSwitchInv DEF MainNext, ThreadStep
<1>3. IInv /\ MainInv => MainRunsOn
  <2> SUFFICES ASSUME IInv, MainInv PROVE MainRunsOn
    BY Zenon
  <2>1. pc \notin PanicLoc
    BY Zenon DEF MainInv, Place
  <2>2. ASSUME pc = "sched" PROVE state[select_thread(cpu_active_thread)] = ACTIVE
    <3>1. cpu_active_thread \in Listed
      BY Zenon, <2>2 DEF IInv, RunInv, Live, Listed, OnList, TypeOK
    <3>2. select_thread(cpu_active_thread) \in Listed
      BY Zenon, <3>1, SelectThread DEF IInv
    <3>3. QED
      BY Zenon, <2>2, <3>2 DEF MainInv
  <2>3. QED
    BY Zenon, <2>1, <2>2 DEF MainRunsOn
<1>4. QED
  BY <1>1, <1>2, <1>3, PTL DEF MainSpec
=============================================================================
