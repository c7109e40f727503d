------------------------------ MODULE KernelMain ----------------------------
(***************************************************************************)
(* The program the kernel really runs on its scheduler (kern/main.c):      *)
(* kernel_thread_main creates test_thread_1, starts the timer, and         *)
(* destroys test_thread_1 once the test thread has counted to DestroyAt.   *)
(* Everything below the calls is module Sched.                             *)
(***************************************************************************)
EXTENDS Sched

CONSTANT DestroyAt          \* 5 in the source

ASSUME KernelMainAssumption == DestroyAt \in Nat \ {0}

VARIABLES
  mainPc,                   \* progress of kernel_thread_main outside its calls
  threadingFlag,            \* CPU_FLAG_THREADING_ENABLED of the boot cpu
  test_thread,              \* its local variable
  counter,                  \* capped at DestroyAt: only counter >= 5 is read
  thread_destroyed

mainVars == <<mainPc, threadingFlag, test_thread, counter, thread_destroyed>>
allVars  == <<vars, mainVars>>

MainInit ==
  /\ Init
  /\ mainPc = "flag" /\ threadingFlag = FALSE /\ test_thread = NULL
  /\ counter = 0 /\ thread_destroyed = FALSE

InMain(at) == cur = KThread /\ pc = Body /\ mainPc = at

(* Mutant: the timer is started before the test thread is created. *)
MainFlag_timer ==
  /\ InMain("flag") /\ mainPc' = "create"
  /\ threadingFlag' = TRUE
  /\ machine_init_timers
  /\ UNCHANGED <<test_thread, counter, thread_destroyed>>

MainFlag ==
  /\ InMain("flag") /\ mainPc' = "create"
  /\ threadingFlag' = TRUE
  /\ UNCHANGED <<vars, test_thread, counter, thread_destroyed>>

MainCreate ==
  /\ InMain("create") /\ mainPc' = "created"
  /\ CreateZalloc
  /\ test_thread' = local'[cur]
  /\ UNCHANGED <<threadingFlag, counter, thread_destroyed>>

MainTimers ==
  /\ InMain("created") /\ mainPc' = "loop"
  /\ machine_init_timers
  /\ UNCHANGED <<threadingFlag, test_thread, counter, thread_destroyed>>

MainDestroy ==
  /\ InMain("loop") /\ mainPc' = "destroyed"
  /\ counter >= DestroyAt /\ ~ thread_destroyed
  /\ DestroyBlock /\ local'[cur] = test_thread
  /\ UNCHANGED <<threadingFlag, test_thread, counter, thread_destroyed>>

MainDestroyed ==
  /\ InMain("destroyed") /\ mainPc' = "loop"
  /\ thread_destroyed' = TRUE
  /\ UNCHANGED <<vars, threadingFlag, test_thread, counter>>

test_thread_1 ==
  /\ cur = test_thread /\ pc = Body /\ counter < DestroyAt
  /\ counter' = counter + 1
  /\ UNCHANGED <<vars, mainPc, threadingFlag, test_thread, thread_destroyed>>

(* The steps inside thread_create and thread_destroy. *)
InCall ==
  /\ \/ CreateId \/ CreateCount \/ CreateContext
     \/ CreateAssign /\ task'[local[cur]] = KTask
     \/ CreateList \/ CreateLink \/ CreateActive
     \/ DestroyActive \/ DestroyDeactivate \/ DestroyUnlink \/ DestroyFree
     \/ DestroyUnblock
  /\ UNCHANGED mainVars

Interrupt == Switch /\ UNCHANGED mainVars

ThreadStep == MainFlag \/ MainCreate \/ MainTimers \/ MainDestroy \/ MainDestroyed
              \/ test_thread_1 \/ InCall

MainNext == ThreadStep \/ Interrupt

(* The CPU executes: the scheduler finishes, the timer fires, and a thread *)
(* that keeps getting the CPU back executes its next instruction.          *)
MainFairness ==
  /\ WF_allVars((Schedule \/ sched_tail \/ fork64_return) /\ UNCHANGED mainVars)
  /\ WF_allVars(Tick /\ UNCHANGED mainVars)
  /\ SF_allVars(ThreadStep /\ cur = KThread)
  /\ SF_allVars(ThreadStep /\ cur # KThread)

MainSpec == MainInit /\ [][MainNext]_allVars /\ MainFairness
-----------------------------------------------------------------------------
(* No tick finds the successor of the running thread inactive, so the      *)
(* loop of __schedule ends at once: test_thread_1 is complete before the   *)
(* timer starts, and thread_destroy runs with IRQs masked.  Nor is         *)
(* thread_destroy asked to destroy the active thread, or the test thread   *)
(* twice: the boot program does not reach panic.                           *)
MainRunsOn ==
  /\ pc = "sched" => state[select_thread(cpu_active_thread)] = ACTIVE
  /\ pc \notin PanicLoc

(* Both threads share the CPU: the test thread gets to count to DestroyAt  *)
(* and the kernel thread gets to destroy it.                               *)
TestThreadDestroyed == <> thread_destroyed

(* The kernel thread is never starved, before or after the destruction.    *)
KThreadRuns == []<> (cur = KThread /\ pc = Body)
=============================================================================
