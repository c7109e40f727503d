-------------------------------- MODULE Sched -------------------------------
(***************************************************************************)
(* Threads and the preemptive scheduler: kern/thread.c, kern/sched.c, the  *)
(* IRQ path of kern/exception.c and arch/handler.S, kern/panic.c, and the  *)
(* parts of kern/task.c and kern/cpu.c they use.                           *)
(*                                                                         *)
(* There is one CPU.  Its program counter pc ranges over the places where  *)
(* a timer interrupt may separate two steps of the same function; a thread *)
(* that is not running has its program counter in thread->entry, where     *)
(* thread_save_context put it.  Code that runs with IRQs masked is still   *)
(* split into steps, so that it is the mask, not the model, that makes it  *)
(* atomic.  Threads are free to call thread_create, thread_destroy,        *)
(* thread_block, thread_unblock and panic in any order.                    *)
(*                                                                         *)
(* thread_create runs with IRQs unmasked and takes no lock.  With Serial,  *)
(* its callers keep it from overlapping another thread_create or a         *)
(* thread_destroy, as kern/main.c does by calling both from the kernel     *)
(* thread only; ticks and all other calls still fall anywhere inside it.   *)
(* Without Serial the calls overlap freely.                                *)
(***************************************************************************)
EXTENDS Integers, List

CONSTANTS
  Thread,          \* the elements of thread_zone: where a thread_t can live
  Task,            \* the task_t structs; also names the head task->threads
  KThread,         \* the element kernel_thread_create receives
  KTask,           \* kernel_task
  HEAD,            \* &threads, the head of the global thread list
  MaxThreadId,     \* bound: thread_create is not called past it
  Serial,          \* callers serialise thread_create and thread_destroy
  TickInTrampoline \* may a tick fire between the unmask of sched_tail and blr x19

ASSUME SchedAssumption ==
  /\ KThread \in Thread /\ KTask \in Task
  /\ HEAD \notin Thread /\ NULL \notin Thread \cup Task \cup {HEAD}
  /\ Thread \cap Task = {}
  /\ MaxThreadId \in Nat \ {0}
  /\ Serial \in BOOLEAN /\ TickInTrampoline \in BOOLEAN

VARIABLES
  threads,           \* global list: links thread->threads, head HEAD
  siblings,          \* links thread->siblings, heads task->threads
  state,             \* thread->state
  thread_id,         \* thread->thread_id
  task,              \* thread->task
  entry,             \* thread->entry: saved program counter
  local,             \* the thread_t a thread's current call works on
  last,              \* the prev argument of the __list_add a thread is about to run
  zone,              \* elements of thread_zone in use
  handles,           \* history: threads whose thread_create has returned
  thread_id_max,
  cpu_active_thread,
  current_task,
  panic_active,
  cur,               \* the thread whose stack and code the CPU is on
  pc,                \* program counter of the CPU
  x19,               \* register: where __fork64_return will branch to
  elr,               \* ELR_EL1
  irqOff,            \* PSTATE.I
  timer,             \* the EL1 physical timer is enabled
  held               \* history: thread_block called, thread_unblock not yet

thrVars == <<threads, siblings, state, thread_id, task, entry, zone, handles, thread_id_max>>
cpuVars == <<cpu_active_thread, current_task, cur, x19, elr>>
vars == <<thrVars, cpuVars, local, last, panic_active, pc, irqOff, timer, held>>

INACTIVE == 0
ACTIVE   == 1

Body == "body"          \* kernel code of the thread, outside the calls below
CreateLoc  == {"tc_id", "tc_count", "tc_stack", "tc_assign", "tc_list", "tc_link", "tc_active"}
DestroyLoc == {"td_check", "td_del", "td_free", "td_unblock"}
PanicLoc   == {"pa_check", "pa_set", "pa_mask", "pa_print", "halt"}
(* Places a thread can be interrupted at, and so resume from; "zero" is    *)
(* the address 0 that zfree leaves in a dead thread_t.                     *)
ThreadLoc  == {Body, "tramp", "lost", "zero"} \cup CreateLoc \cup DestroyLoc \cup PanicLoc
Loc        == ThreadLoc \cup {"sched", "tail"}
-----------------------------------------------------------------------------
(* kernel_init has created the kernel thread and calls thread_load_context *)
(* on it.  start.S unmasked IRQs, no timer runs, cpu_create zeroed the cpu *)
(* structure.  Elements of thread_zone not used yet hold stale memory.     *)
Init ==
  /\ threads  = [next |-> [n \in Thread \cup {HEAD} |->
                             IF n = HEAD THEN KThread ELSE IF n = KThread THEN HEAD ELSE NULL],
                 prev |-> [n \in Thread \cup {HEAD} |->
                             IF n = HEAD THEN KThread ELSE IF n = KThread THEN HEAD ELSE NULL]]
  /\ siblings = [next |-> [n \in Thread \cup Task |->
                             IF n = KTask THEN KThread ELSE IF n = KThread THEN KTask
                             ELSE IF n \in Task THEN n ELSE NULL],
                 prev |-> [n \in Thread \cup Task |->
                             IF n = KTask THEN KThread ELSE IF n = KThread THEN KTask
                             ELSE IF n \in Task THEN n ELSE NULL]]
  /\ state \in [Thread -> {INACTIVE, ACTIVE}] /\ state[KThread] = ACTIVE
  /\ thread_id = [t \in Thread |-> 0]
  /\ task  = [t \in Thread |-> IF t = KThread THEN KTask ELSE NULL]
  /\ entry = [t \in Thread |-> IF t = KThread THEN Body ELSE "zero"]
  /\ local = [t \in Thread |-> NULL] /\ last = [t \in Thread |-> NULL]
  /\ zone = {KThread} /\ handles = {KThread} /\ thread_id_max = 1
  /\ cpu_active_thread = NULL /\ current_task = NULL /\ panic_active = FALSE
  /\ cur = KThread /\ pc = "tail" /\ x19 = Body /\ elr = Body
  /\ irqOff = FALSE /\ timer = FALSE /\ held = FALSE

Step(from, to) == pc = from /\ pc' = to

OnList(t) == threads.next[t] # NULL
Listed    == {t \in Thread : OnList(t)}
Live(t)   == t \in zone /\ OnList(t) /\ state[t] = ACTIVE

(* What a serialising caller waits for before it creates or destroys. *)
NoCreateInProgress == \A t \in Listed \ {cur} : entry[t] \notin CreateLoc
-----------------------------------------------------------------------------
(* thread_create.  zalloc returns some element not in use (module Zalloc); *)
(* past THREAD_COUNT_MAX threads it has none, which is studied there.      *)
CreateZalloc ==
  /\ Step(Body, "tc_id") /\ thread_id_max < MaxThreadId
  /\ Serial => NoCreateInProgress
  /\ \E new \in Thread \ zone :
       /\ zone' = zone \cup {new}
       /\ local' = [local EXCEPT ![cur] = new]
  /\ UNCHANGED <<threads, siblings, state, thread_id, task, entry, handles, thread_id_max,
                 cpuVars, last, panic_active, irqOff, timer, held>>

(* Mutant: the counter is read one low. *)
CreateId_low ==
  /\ Step("tc_id", "tc_count")
  /\ thread_id' = [thread_id EXCEPT ![local[cur]] = thread_id_max - 1]
  /\ UNCHANGED <<threads, siblings, state, task, entry, zone, handles, thread_id_max,
                 cpuVars, local, last, panic_active, irqOff, timer, held>>

CreateId ==
  /\ Step("tc_id", "tc_count")
  /\ thread_id' = [thread_id EXCEPT ![local[cur]] = thread_id_max]
  /\ UNCHANGED <<threads, siblings, state, task, entry, zone, handles, thread_id_max,
                 cpuVars, local, last, panic_active, irqOff, timer, held>>

CreateCount ==
  /\ Step("tc_count", "tc_stack")
  /\ thread_id_max' = thread_id_max + 1
  /\ UNCHANGED <<threads, siblings, state, thread_id, task, entry, zone, handles,
                 cpuVars, local, last, panic_active, irqOff, timer, held>>

(* stack_alloc gives the thread a stack of its own, with no call on it;    *)
(* thread_init_context sets the entry point.                               *)
CreateContext ==
  /\ Step("tc_stack", "tc_assign")
  /\ entry' = [entry EXCEPT ![local[cur]] = Body]
  /\ local' = [local EXCEPT ![local[cur]] = NULL]
  /\ UNCHANGED <<threads, siblings, state, thread_id, task, zone, handles, thread_id_max,
                 cpuVars, last, panic_active, irqOff, timer, held>>

CreateAssign ==
  /\ Step("tc_assign", "tc_list")
  /\ \E tk \in Task :
       /\ siblings' = list_add_tail(siblings, local[cur], tk)
       /\ task' = [task EXCEPT ![local[cur]] = tk]
  /\ UNCHANGED <<threads, state, thread_id, entry, zone, handles, thread_id_max,
                 cpuVars, local, last, panic_active, irqOff, timer, held>>

(* list_add_tail on the global list, in the two steps a tick can tell      *)
(* apart: it reads head->prev for __list_add, which then stores the links. *)
(* Of those stores the scheduler, which follows next, sees the last one    *)
(* only.  (The siblings lists are written but walked by nothing.)          *)
CreateList ==
  /\ Step("tc_list", "tc_link")
  /\ last' = [last EXCEPT ![cur] = threads.prev[HEAD]]
  /\ UNCHANGED <<thrVars, cpuVars, local, panic_active, irqOff, timer, held>>

CreateLink ==
  /\ Step("tc_link", "tc_active")
  /\ threads' = list_insert(threads, local[cur], last[cur], HEAD)
  /\ last' = [last EXCEPT ![cur] = NULL]
  /\ UNCHANGED <<siblings, state, thread_id, task, entry, zone, handles, thread_id_max,
                 cpuVars, local, panic_active, irqOff, timer, held>>

CreateActive ==
  /\ Step("tc_active", Body)
  /\ state' = [state EXCEPT ![local[cur]] = ACTIVE]
  /\ handles' = handles \cup {local[cur]}
  /\ local' = [local EXCEPT ![cur] = NULL]
  /\ UNCHANGED <<threads, siblings, thread_id, task, entry, zone, thread_id_max,
                 cpuVars, last, panic_active, irqOff, timer, held>>
-----------------------------------------------------------------------------
(* thread_destroy of a thread whose thread_create has returned. *)
DestroyBlock ==
  /\ Step(Body, "td_check")
  /\ Serial => NoCreateInProgress
  /\ \E t \in handles : local' = [local EXCEPT ![cur] = t]
  /\ irqOff' = TRUE
  /\ UNCHANGED <<thrVars, cpuVars, last, panic_active, timer, held>>

DestroyActive ==
  /\ Step("td_check", "pa_check")
  /\ local[cur] = cpu_active_thread
  /\ UNCHANGED <<thrVars, cpuVars, local, last, panic_active, irqOff, timer, held>>

(* Mutant: without the test against cpu_active_thread. *)
DestroyDeactivate_unchecked ==
  /\ Step("td_check", "td_del")
  /\ state' = [state EXCEPT ![local[cur]] = INACTIVE]
  /\ UNCHANGED <<threads, siblings, thread_id, task, entry, zone, handles, thread_id_max,
                 cpuVars, local, last, panic_active, irqOff, timer, held>>

DestroyDeactivate ==
  /\ Step("td_check", "td_del")
  /\ local[cur] # cpu_active_thread
  /\ state' = [state EXCEPT ![local[cur]] = INACTIVE]
  /\ UNCHANGED <<threads, siblings, thread_id, task, entry, zone, handles, thread_id_max,
                 cpuVars, local, last, panic_active, irqOff, timer, held>>

(* Mutant: only the siblings link is deleted. *)
DestroyUnlink_siblings ==
  /\ Step("td_del", "td_free")
  /\ siblings' = list_del(siblings, local[cur])
  /\ UNCHANGED <<threads, state, thread_id, task, entry, zone, handles, thread_id_max,
                 cpuVars, local, last, panic_active, irqOff, timer, held>>

DestroyUnlink ==
  /\ Step("td_del", "td_free")
  /\ siblings' = list_del(siblings, local[cur])
  /\ threads'  = list_del(threads, local[cur])
  /\ UNCHANGED <<state, thread_id, task, entry, zone, handles, thread_id_max,
                 cpuVars, local, last, panic_active, irqOff, timer, held>>

(* stack_free changes nothing: it compares a stack base with the address   *)
(* of the stack structure, which never match.  zfree clears the element.   *)
DestroyFree ==
  /\ Step("td_free", "td_unblock")
  /\ zone' = zone \ {local[cur]} /\ handles' = handles \ {local[cur]}
  /\ state' = [state EXCEPT ![local[cur]] = INACTIVE]
  /\ thread_id' = [thread_id EXCEPT ![local[cur]] = 0]
  /\ task' = [task EXCEPT ![local[cur]] = NULL]
  /\ entry' = [entry EXCEPT ![local[cur]] = "zero"]
  /\ UNCHANGED <<threads, siblings, thread_id_max,
                 cpuVars, local, last, panic_active, irqOff, timer, held>>

DestroyUnblock ==
  /\ Step("td_unblock", Body)
  /\ irqOff' = FALSE /\ held' = FALSE
  /\ local' = [local EXCEPT ![cur] = NULL]
  /\ UNCHANGED <<thrVars, cpuVars, last, panic_active, timer>>
-----------------------------------------------------------------------------
(* Mutant: IRQs stay unmasked. *)
thread_block_open ==
  /\ Step(Body, Body)
  /\ held' = TRUE
  /\ UNCHANGED <<thrVars, cpuVars, local, last, panic_active, irqOff, timer>>

thread_block ==
  /\ Step(Body, Body)
  /\ irqOff' = TRUE /\ held' = TRUE
  /\ UNCHANGED <<thrVars, cpuVars, local, last, panic_active, timer>>

thread_unblock ==
  /\ Step(Body, Body)
  /\ irqOff' = FALSE /\ held' = FALSE
  /\ UNCHANGED <<thrVars, cpuVars, local, last, panic_active, timer>>

(* kernel_thread_main enables the timer once; nothing disables it. *)
machine_init_timers ==
  /\ Step(Body, Body) /\ cur = KThread
  /\ ~ timer /\ timer' = TRUE
  /\ UNCHANGED <<thrVars, cpuVars, local, last, panic_active, irqOff, held>>
-----------------------------------------------------------------------------
(* __panic: a failed check anywhere in kernel code calls it. *)
PanicCall ==
  /\ Step(Body, "pa_check")
  /\ UNCHANGED <<thrVars, cpuVars, local, last, panic_active, irqOff, timer, held>>

PanicCheck ==
  /\ Step("pa_check", IF panic_active THEN "halt" ELSE "pa_set")
  /\ UNCHANGED <<thrVars, cpuVars, local, last, panic_active, irqOff, timer, held>>

PanicSet ==
  /\ Step("pa_set", "pa_mask")
  /\ panic_active' = TRUE
  /\ UNCHANGED <<thrVars, cpuVars, local, last, irqOff, timer, held>>

PanicMask ==
  /\ Step("pa_mask", "pa_print")
  /\ irqOff' = TRUE
  /\ UNCHANGED <<thrVars, cpuVars, local, last, panic_active, timer, held>>

PanicPrint ==
  /\ Step("pa_print", "halt")
  /\ UNCHANGED <<thrVars, cpuVars, local, last, panic_active, irqOff, timer, held>>

(* cpu_halt is "b .": the CPU stays there, and takes IRQs if unmasked. *)
cpu_halt ==
  /\ pc = "halt"
  /\ UNCHANGED vars
-----------------------------------------------------------------------------
(* The timer interrupt: the exception masks IRQs and saves the program     *)
(* counter in ELR_EL1; arm64_handler_irq rearms the timer and calls        *)
(* __schedule.                                                             *)
Tick ==
  /\ timer /\ ~ irqOff /\ (pc = "tramp" => TickInTrampoline)
  /\ elr' = pc /\ pc' = "sched" /\ irqOff' = TRUE
  /\ UNCHANGED <<thrVars, cpu_active_thread, current_task, cur, x19,
                 local, last, panic_active, timer, held>>

(* Mutants: always the first thread; no wrap to the front of the list. *)
select_thread_first(thread) == list_first_entry(threads, HEAD)

select_thread_nowrap(thread) ==
  IF list_is_last(threads, thread, HEAD) THEN thread ELSE threads.next[thread]

select_thread(thread) ==
  IF list_is_last(threads, thread, HEAD) THEN list_first_entry(threads, HEAD)
  ELSE threads.next[thread]

(* Mutant: the context is saved in the wrong thread. *)
Schedule_save ==
  LET next == select_thread(cpu_active_thread) IN
  /\ Step("sched", "tail")
  /\ state[next] = ACTIVE
  /\ current_task' = task[next]
  /\ x19' = entry[next] /\ cur' = next
  /\ entry' = [entry EXCEPT ![next] = elr]
  /\ UNCHANGED <<threads, siblings, state, thread_id, task, zone, handles, thread_id_max,
                 cpu_active_thread, elr, local, last, panic_active, irqOff, timer, held>>

(* __schedule once the selected thread is active: save the interrupted     *)
(* context in cpu_active_thread, then load the selected thread's.          *)
Schedule ==
  LET next == select_thread(cpu_active_thread) IN
  /\ Step("sched", "tail")
  /\ state[next] = ACTIVE
  /\ current_task' = task[next]
  /\ entry' = [entry EXCEPT ![cpu_active_thread] = elr]
  /\ x19' = entry'[next]
  /\ cur' = next
  /\ UNCHANGED <<threads, siblings, state, thread_id, task, zone, handles, thread_id_max,
                 cpu_active_thread, elr, local, last, panic_active, irqOff, timer, held>>

(* One more turn of its while loop: it selects from the same thread again. *)
ScheduleRetry ==
  /\ pc = "sched"
  /\ state[select_thread(cpu_active_thread)] # ACTIVE
  /\ UNCHANGED vars

sched_tail ==
  /\ Step("tail", "tramp")
  /\ cpu_active_thread' = cur
  /\ irqOff' = FALSE
  /\ UNCHANGED <<thrVars, current_task, cur, x19, elr,
                 local, last, panic_active, timer, held>>

(* blr x19.  A thread interrupted in the trampoline itself resumes inside  *)
(* sched_tail with x19 pointing there: its own program counter is gone.    *)
fork64_return ==
  /\ Step("tramp", IF x19 = "tramp" THEN "lost" ELSE x19)
  /\ UNCHANGED <<thrVars, cpuVars, local, last, panic_active, irqOff, timer, held>>

(* Running wild; a tick can still take the CPU away. *)
Lost ==
  /\ pc = "lost"
  /\ UNCHANGED vars
-----------------------------------------------------------------------------
Create  == CreateZalloc \/ CreateId \/ CreateCount \/ CreateContext
           \/ CreateAssign \/ CreateList \/ CreateLink \/ CreateActive
Destroy == DestroyBlock \/ DestroyActive \/ DestroyDeactivate
           \/ DestroyUnlink \/ DestroyFree \/ DestroyUnblock
Panic   == PanicCall \/ PanicCheck \/ PanicSet \/ PanicMask \/ PanicPrint \/ cpu_halt
Switch  == Tick \/ Schedule \/ ScheduleRetry \/ sched_tail \/ fork64_return \/ Lost

Next == \/ Create \/ Destroy \/ Panic \/ Switch
        \/ thread_block \/ thread_unblock \/ machine_init_timers

Spec == Init /\ [][Next]_vars

(* The CPU keeps executing the scheduler once it is in it. *)
FairSpec == Spec /\ WF_vars(Schedule)
-----------------------------------------------------------------------------
(* Every structure of the scheduler keeps its shape: links lead to threads *)
(* or to the head, saved program counters are places in thread code.       *)
TypeOK ==
  /\ threads  \in [next : [Thread \cup {HEAD} -> Thread \cup {HEAD, NULL}],
                  prev : [Thread \cup {HEAD} -> Thread \cup {HEAD, NULL}]]
  /\ siblings \in [next : [Thread \cup Task -> Thread \cup Task \cup {NULL}],
                  prev : [Thread \cup Task -> Thread \cup Task \cup {NULL}]]
  /\ state \in [Thread -> {INACTIVE, ACTIVE}]
  /\ thread_id \in [Thread -> Nat] /\ thread_id_max \in Nat
  /\ task  \in [Thread -> Task \cup {NULL}]
  /\ entry \in [Thread -> ThreadLoc]
  /\ local \in [Thread -> Thread \cup {NULL}]
  /\ last \in [Thread -> Thread \cup {HEAD, NULL}]
  /\ zone \in SUBSET Thread /\ handles \in SUBSET Thread
  /\ cpu_active_thread \in Thread \cup {NULL} /\ current_task \in Task \cup {NULL}
  /\ cur \in Thread /\ pc \in Loc /\ x19 \in ThreadLoc /\ elr \in ThreadLoc
  /\ panic_active \in BOOLEAN /\ irqOff \in BOOLEAN /\ timer \in BOOLEAN /\ held \in BOOLEAN

(* The thread the CPU is on, and the one it believes it is on, are threads *)
(* that exist, are listed and are active: thread_destroy never takes the   *)
(* thread from under the CPU, and the scheduler never switches to one that *)
(* thread_destroy has taken away.  When __schedule saves the interrupted   *)
(* registers the two are one, so that no context is saved into another     *)
(* thread's structure; and after the first switch current_task is the task *)
(* of the thread that runs.                                                *)
RunningThreadLive ==
  /\ Live(cur)
  /\ cpu_active_thread # NULL => Live(cpu_active_thread)
  /\ pc = "sched" => cpu_active_thread = cur
  /\ current_task # NULL => current_task = task[cur]

(* The ring the scheduler walks holds every listed thread and only threads *)
(* whose memory is allocated and that are attached to a task, whatever     *)
(* thread_create and thread_destroy calls are in progress.                 *)
ThreadListSound ==
  /\ WellLinked(threads, Listed \cup {HEAD})
  /\ OneRing(threads, HEAD, Listed \cup {HEAD})
  /\ Listed \subseteq zone
  /\ \A t \in Listed : task[t] # NULL /\ siblings.next[t] # NULL

(* The program counter saved for a thread that waits for the CPU is what   *)
(* it resumes with: no step of another thread changes it.                  *)
SavedContextKept ==
  [][\A t \in Thread : t # cur /\ OnList(t) /\ OnList(t)' => entry'[t] = entry[t]]_vars

(* thread_block keeps the CPU on the current thread until thread_unblock   *)
(* is called (by the thread itself or by a thread_destroy it calls).       *)
BlockHolds == [][held => cur' = cur]_vars

(* thread->thread_id is documented as the thread identifier: no two listed *)
(* threads have the same one.                                              *)
UniqueThreadIds == \A t, u \in Listed : thread_id[t] = thread_id[u] => t = u

(* What the comment in __schedule says of its loop: it continues to select *)
(* a thread until an active one is found (the interrupted thread is one).  *)
SchedulerFindsActive == pc = "sched" ~> pc # "sched"
=============================================================================
