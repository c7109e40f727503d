--------------------------- MODULE ContextProofs ----------------------------
(***************************************************************************)
(* What a thread finds in its registers when it runs again, and where IRQs *)
(* are masked: for any set of threads and any amount of work, with and     *)
(* without exceptions in the trampoline, on SP0 and, after a handler that  *)
(* returned, on SP1.                                                       *)
(***************************************************************************)
EXTENDS Context, TLAPS

(* Whose value it is, what it is of or for, and how old. *)
Name  == Reg \cup {"stale", "SP_EL1", "frame", "handler", "dispatch", "args",
                   "__fork64_return", "thread", "zero", "tramp", "after blr"}
Value == (Thread \cup {"kernel"}) \X Name \X Nat
Place == {"run", "tramp", "return", "handler", "exit", "el0", "illegal", "halt", "spin", "wild"}
Upper == {"x21", "x22", "x28"}      \* the callee-saved registers a thread gets back

ContextTypes ==
  /\ regs \in [Reg -> Value] /\ frame \in [Slot -> Value]
  /\ context \in [Thread -> [Saved -> Value]]
  /\ entry \in [Thread -> Value] /\ stack \in [Thread -> Value] /\ elr \in Value
  /\ work \in [Thread -> Nat] /\ mode \in [Thread -> Mode] /\ cur \in Thread
  /\ at \in Place /\ spsel \in {0, 1} /\ cause \in Kind \cup {"none"}
  /\ level \in 0..NoLevel

(* Where a thread goes on: where it was interrupted, or in the trampoline. *)
Resumes(t, pc) == pc \in {Own(t, "pc"), Kernel("tramp")}

(* sp is the stack of thread t, as long as the CPU has stayed on SP0, and  *)
(* f holds its registers x21-x28.                                          *)
HasOwn(t, sp, f) ==
  /\ spsel = 0 => sp = Own(t, "sp")
  /\ work[t] > 0 => \A r \in Upper : f[r] = Own(t, r)

(* The thread structure of t holds all that t needs to run again. *)
Kept(t) == Resumes(t, entry[t]) /\ HasOwn(t, stack[t], context[t])

SwitchInv ==
  /\ \A t \in Thread \ {cur} : Kept(t)
  /\ at \in {"return", "tramp"} => HasOwn(cur, regs["sp"], regs) /\ Resumes(cur, regs["x19"])
  /\ at = "tramp" => regs["pc"] = Kernel("tramp")
  /\ at = "run" => HasOwn(cur, regs["sp"], regs) /\ regs["pc"] = Own(cur, "pc")
  /\ at = "illegal" => spsel # 0 /\ HasOwn(cur, regs["sp"], regs) /\ Resumes(cur, regs["pc"])
  /\ at = "exit" \/ (at = "handler" /\ cause # "sync") =>
       HasOwn(cur, frame["sp"], frame) /\ Resumes(cur, elr) /\ frame["elr"] = elr

(* On SP0 a thread that is blocked does not lose the CPU to the timer. *)
MaskInv ==
  /\ IrqsMaskedInHandlers
  /\ spsel = 0 => \A t \in Thread \ {cur} : mode[t] # "blocked"
  /\ spsel = 0 /\ (at \in {"return", "tramp"} \/ (at = "handler" /\ cause = "timer")) =>
       mode[cur] # "blocked"

ContextInv == ContextTypes /\ SwitchInv /\ MaskInv

(* The values of the kernel's own code are values.                         *)
LEMMA KernelValue == \A n \in Name : Kernel(n) \in Value
BY Zenon DEF Kernel, Value

(* kernel_init leaves the first thread about to start, with its entry      *)
(* point and its stack.                                                    *)
LEMMA ContextInit == Init => ContextInv
<1> SUFFICES ASSUME Init PROVE ContextInv
  BY Zenon
<1>1. \A t \in Thread : Own(t, "pc") \in Value /\ Own(t, "sp") \in Value
  BY Zenon DEF Init, Own, Value, Name, Reg
<1>2. Stale \in Value
  BY Zenon, KernelValue DEF Stale, Name
<1>3. /\ entry \in [Thread -> Value] /\ stack \in [Thread -> Value]
      /\ \A t \in Thread : entry[t] = Own(t, "pc") /\ stack[t] = Own(t, "sp") /\ mode[t] = "normal"
  BY Zenon, <1>1 DEF Init
<1>4. regs \in [Reg -> Value] /\ regs["x19"] = entry[First] /\ regs["sp"] = stack[First]
  BY Zenon, <1>2, <1>3, ContextAssumption DEF Init, Reg, Scratch, Callee
<1>5. ContextTypes
  BY <1>2, <1>3, <1>4, ContextAssumption DEF Init, ContextTypes, Place, NoLevel, Mode
<1>6. SwitchInv
  BY <1>3, <1>4, ContextAssumption DEF Init, SwitchInv, Kept, HasOwn, Resumes
<1>7. MaskInv
  BY Zenon, <1>3, ContextAssumption DEF Init, MaskInv, IrqsMaskedInHandlers
<1>8. QED
  BY Zenon, <1>5, <1>6, <1>7 DEF ContextInv

(* A thread's own work gives it new values of its own.                     *)
LEMMA ContextWork == ContextInv /\ Work => ContextInv'
<1> SUFFICES ASSUME ContextInv, Work PROVE ContextInv'
  BY Zenon
<1>1. /\ at = "run" /\ at' = at /\ cur' = cur /\ cause' = cause
      /\ work' = [work EXCEPT ![cur] = work[cur] + 1]
      /\ regs' = [r \in Reg |-> <<cur, r, work[cur] + 1>>]
      /\ UNCHANGED <<spsel, masked, elr, frame, context, entry, stack, mode, level>>
  BY Zenon DEF Work, Runs, thrVars
<1>2. cur \in Thread /\ work \in [Thread -> Nat]
  BY Zenon DEF ContextInv, ContextTypes
<1>3. work' \in [Thread -> Nat] /\ work'[cur] = work[cur] + 1
      /\ \A t \in Thread \ {cur} : work'[t] = work[t]
  BY <1>1, <1>2
<1>4. \A r \in Reg : <<cur, r, work[cur] + 1>> \in Value
  <2>1. \A r \in Reg : r \in Name
    BY Zenon DEF Name
  <2>2. work[cur] + 1 \in Nat
    BY <1>2
  <2>3. QED
    BY Zenon, <2>1, <2>2, <1>2 DEF Value
<1>5. regs' \in [Reg -> Value]
  BY Zenon, <1>1, <1>4
<1>6. ContextTypes'
  BY Zenon, <1>1, <1>3, <1>5 DEF ContextInv, ContextTypes
<1>7. \A t \in Thread \ {cur} : Kept(t)'
  BY Zenon, <1>1, <1>3 DEF ContextInv, SwitchInv, Kept, HasOwn, Resumes, Own, Kernel
<1>8. \A r \in {"pc", "sp"} \cup Upper : regs'[r] = <<cur, r, work'[cur]>>
  BY Zenon, <1>1, <1>3 DEF Reg, Callee, Upper
<1>9. SwitchInv'
  BY Zenon, <1>1, <1>7, <1>8 DEF SwitchInv, HasOwn, Own
<1>10. QED
  BY Zenon, <1>1, <1>6, <1>9 DEF ContextInv, MaskInv, IrqsMaskedInHandlers

(* thread_block masks IRQs and thread_unblock unmasks them; panic changes  *)
(* no register the thread relies on.                                       *)
LEMMA ContextCalled ==
  ContextInv /\ (thread_block \/ thread_unblock \/ PanicSet \/ PanicMask \/ PanicAgain)
    => ContextInv'
<1> SUFFICES ASSUME ContextInv, thread_block \/ thread_unblock \/ PanicSet \/ PanicMask \/ PanicAgain
             PROVE  ContextInv'
  BY Zenon
<1>1. PICK m, mask : /\ mode' = [mode EXCEPT ![cur] = m] /\ masked' = mask
                     /\ \/ m = "blocked" /\ "I" \in mask /\ at' = at
                        \/ m = "normal" /\ "I" \notin mask /\ at' = at
                        \/ m \in {"panic", "loop"} /\ at' = at
                        \/ m = "loop" /\ "I" \in mask /\ at' = "halt"
  BY Zenon DEF thread_block, thread_unblock, PanicSet, PanicMask, PanicAgain, Called
<1>2. at = "run" /\ UNCHANGED <<regs, spsel, elr, frame, context, entry, stack, work, cur, cause, level>>
  BY Zenon DEF thread_block, thread_unblock, PanicSet, PanicMask, PanicAgain, Called, Runs, thrVars
<1>3. cur \in Thread /\ mode \in [Thread -> Mode] /\ m \in Mode
  BY Zenon, <1>1 DEF ContextInv, ContextTypes, Mode
<1>4. /\ mode' \in [Thread -> Mode] /\ mode'[cur] = m
      /\ \A t \in Thread \ {cur} : mode'[t] = mode[t]
  BY Zenon, <1>1, <1>3
<1>5. ContextTypes'
  BY Zenon, <1>1, <1>2, <1>4 DEF ContextInv, ContextTypes, Place
<1>6. SwitchInv'
  BY Zenon, <1>1, <1>2 DEF ContextInv, SwitchInv, Kept, HasOwn, Resumes, Own
<1>7. MaskInv'
  BY Zenon, <1>1, <1>2, <1>4 DEF ContextInv, MaskInv, IrqsMaskedInHandlers
<1>8. QED
  BY Zenon, <1>5, <1>6, <1>7 DEF ContextInv

(* L__dispatch64 keeps what the vector's macro put in the frame, and saves *)
(* there, before it uses them, the registers the switch relies on.         *)
LEMMA ContextEnter ==
  ASSUME ContextInv, NEW kind \in Kind, Interrupts(kind), NEW f \in [Slot -> Value],
         spsel = 0 => f["sp"] = regs["sp"], Enter(kind, f)
  PROVE  ContextInv'
<1>1. /\ masked' = {"A", "I", "F"} /\ elr' = regs["pc"]
      /\ frame' = dispatch64(f, regs, regs["pc"]) /\ regs' = dispatch_regs(regs, regs["pc"])
      /\ at' = "handler" /\ cause' = kind
      /\ UNCHANGED <<spsel, context, entry, stack, work, mode, cur, level>>
  BY Zenon DEF Enter, thrVars
<1>2. /\ at \in {"run", "illegal", "tramp"} \/ kind = "sync"
      /\ kind = "timer" => "I" \notin masked
  BY Zenon DEF Interrupts, Mask
<1>3. regs \in [Reg -> Value] /\ regs["pc"] \in Value
  BY Zenon DEF ContextInv, ContextTypes, Reg
<1>4. /\ frame' \in [Slot -> Value] /\ frame'["elr"] = regs["pc"] /\ frame'["sp"] = f["sp"]
      /\ \A r \in Upper : frame'[r] = regs[r]
  BY Zenon, <1>1, <1>3 DEF dispatch64, Slot, Reg, Scratch, Callee, Upper
<1>5. regs' \in [Reg -> Value]
  BY Zenon, <1>1, <1>3, KernelValue DEF dispatch_regs, Name
<1>6. ContextTypes'
  BY Zenon, <1>1, <1>3, <1>4, <1>5 DEF ContextInv, ContextTypes, Place
<1>7. kind # "sync" => HasOwn(cur, frame["sp"], frame)' /\ Resumes(cur, elr)'
  BY Zenon, <1>1, <1>2, <1>4 DEF ContextInv, SwitchInv, HasOwn, Resumes, Own, Kernel
<1>8. SwitchInv'
  BY Zenon, <1>1, <1>4, <1>7 DEF ContextInv, SwitchInv, Kept, HasOwn, Resumes, Own
<1>9. MaskInv'
  <2>1. "I" \in masked'
    BY Zenon, <1>1
  <2>2. spsel = 0 /\ kind = "timer" => mode[cur] # "blocked"
    BY Zenon, <1>2 DEF ContextInv, SwitchInv, MaskInv, IrqsMaskedInHandlers
  <2>3. QED
    BY Zenon, <1>1, <2>1, <2>2 DEF ContextInv, MaskInv, IrqsMaskedInHandlers
<1>10. QED
  BY Zenon, <1>6, <1>8, <1>9 DEF ContextInv

(* An exception on SP0 saves the thread's stack pointer, one on SP1 does   *)
(* not.                                                                    *)
LEMMA ContextVector ==
  ASSUME ContextInv, NEW kind \in Kind, Vector_sp0(kind) \/ Vector_sp1(kind)
  PROVE  ContextInv'
<1>1. regs \in [Reg -> Value]
  BY Zenon DEF ContextInv, ContextTypes
<1>2. /\ create_exception_frame_sp0(regs) \in [Slot -> Value]
      /\ create_exception_frame_sp0(regs)["sp"] = regs["sp"]
  BY Zenon, <1>1, KernelValue DEF create_exception_frame_sp0, Slot, Reg, Scratch, Callee, Stale, Name
<1>3. create_exception_frame_sp1(regs) \in [Slot -> Value]
  BY Zenon, <1>1, KernelValue DEF create_exception_frame_sp1, Slot, Reg, Scratch, Callee, Stale, Name
<1>4. CASE Vector_sp0(kind)
  BY Zenon, <1>2, <1>4, ContextEnter DEF Vector_sp0
<1>5. CASE Vector_sp1(kind) /\ ~Spin
  <2>1. spsel # 0
    BY <1>5 DEF Vector_sp1
  <2>2. QED
    BY Zenon, <2>1, <1>3, <1>5, ContextEnter DEF Vector_sp1
<1>6. CASE Spin
  BY Zenon, <1>6 DEF Spin, thrVars, ContextInv, ContextTypes, Place, SwitchInv, MaskInv,
                     IrqsMaskedInHandlers, Kept, HasOwn, Resumes, Own
<1>7. QED
  BY Zenon, <1>4, <1>5, <1>6

(* The switch: the interrupted thread is saved from the frame, the next    *)
(* one, which may be the same, gets back what was saved of it.             *)
LEMMA ContextTimer == ContextInv /\ HandleTimer => ContextInv'
<1> SUFFICES ASSUME ContextInv, HandleTimer PROVE ContextInv'
  BY Zenon
<1>1. PICK saved, ent, stk :
        /\ saved = [context EXCEPT ![cur] = thread_save_context(context[cur], frame)]
        /\ ent = [entry EXCEPT ![cur] = elr] /\ stk = [stack EXCEPT ![cur] = saved[cur]["sp"]]
  BY Zenon
<1>2. PICK next, loaded :
        /\ next \in Thread
        /\ loaded = thread_load_context(saved[next], ent[next], stk[next])
        /\ context' = [saved EXCEPT ![next] = loaded] /\ regs' = fork64_exec(regs, loaded)
        /\ entry' = ent /\ stack' = stk /\ cur' = next
  BY Zenon, <1>1 DEF HandleTimer
<1>3. /\ at = "handler" /\ cause = "timer" /\ at' = "return" /\ cause' = "none"
      /\ UNCHANGED <<spsel, masked, elr, frame, work, mode, level>>
  BY Zenon DEF HandleTimer
<1>4. /\ cur \in Thread /\ context \in [Thread -> [Saved -> Value]] /\ frame \in [Slot -> Value]
      /\ entry \in [Thread -> Value] /\ stack \in [Thread -> Value] /\ elr \in Value
  BY Zenon DEF ContextInv, ContextTypes
<1>5. saved[cur] \in [Saved -> Value] /\ \A r \in Upper \cup {"sp"} : saved[cur][r] = frame[r]
  BY Zenon, <1>1, <1>4 DEF thread_save_context, Saved, Slot, Reg, Callee, Upper
<1>6. /\ saved \in [Thread -> [Saved -> Value]]
      /\ ent \in [Thread -> Value] /\ stk \in [Thread -> Value]
  BY Zenon, <1>1, <1>4, <1>5 DEF Saved
<1>7. /\ loaded \in [Saved -> Value] /\ loaded["x19"] = ent[next] /\ loaded["sp"] = stk[next]
      /\ \A r \in Upper : loaded[r] = saved[next][r]
  BY Zenon, <1>2, <1>6, KernelValue DEF thread_load_context, Saved, Callee, Upper, Name
<1>8. /\ regs' \in [Reg -> Value]
      /\ \A r \in Upper \cup {"sp", "x19"} : regs'[r] = loaded[r]
  BY Zenon, <1>2, <1>7, KernelValue DEF fork64_exec, Saved, Reg, Scratch, Callee, Upper, Stale, Name
<1>9. context' \in [Thread -> [Saved -> Value]]
  BY Zenon, <1>2, <1>6, <1>7
<1>10. ContextTypes'
  BY Zenon, <1>2, <1>3, <1>6, <1>8, <1>9 DEF ContextInv, ContextTypes, Place
<1>11. \A t \in Thread : Resumes(t, ent[t]) /\ HasOwn(t, stk[t], saved[t])
  <2> SUFFICES ASSUME NEW t \in Thread PROVE Resumes(t, ent[t]) /\ HasOwn(t, stk[t], saved[t])
    BY Zenon
  <2>1. CASE t = cur
    BY Zenon, <2>1, <1>1, <1>3, <1>4, <1>5 DEF ContextInv, SwitchInv, HasOwn
  <2>2. CASE t # cur
    <3>1. ent[t] = entry[t] /\ stk[t] = stack[t] /\ saved[t] = context[t]
      BY Zenon, <2>2, <1>1, <1>4
    <3>2. Kept(t)
      BY Zenon, <2>2 DEF ContextInv, SwitchInv
    <3>3. QED
      BY Zenon, <3>1, <3>2 DEF Kept
  <2>3. QED
    BY Zenon, <2>1, <2>2
<1>12. \A t \in Thread \ {next} : context'[t] = saved[t]
  BY Zenon, <1>2, <1>6
<1>13. \A t \in Thread \ {next} : Kept(t)'
  BY Zenon, <1>2, <1>3, <1>11, <1>12 DEF Kept, HasOwn, Resumes, Own
<1>14. HasOwn(next, regs["sp"], regs)' /\ Resumes(next, regs["x19"])'
  BY Zenon, <1>2, <1>3, <1>7, <1>8, <1>11 DEF HasOwn, Resumes, Own
<1>15. SwitchInv'
  BY Zenon, <1>2, <1>3, <1>13, <1>14 DEF SwitchInv
<1>16. MaskInv'
  BY Zenon, <1>2, <1>3 DEF ContextInv, MaskInv, IrqsMaskedInHandlers
<1>17. QED
  BY Zenon, <1>10, <1>15, <1>16 DEF ContextInv

(* sched_tail and the jump of __fork64_return touch none of the registers  *)
(* the thread gets back.                                                   *)
LEMMA ContextReturn == ContextInv /\ (sched_tail \/ fork64_return) => ContextInv'
<1>1. ASSUME ContextInv, sched_tail PROVE ContextInv'
  <2>1. /\ at = "return" /\ at' = "tramp" /\ masked' = masked \ {"I"}
        /\ UNCHANGED <<spsel, elr, frame, context, entry, stack, work, mode, cur, cause, level>>
    BY Zenon, <1>1 DEF sched_tail, thrVars
  <2>2. regs \in [Reg -> Value]
    BY Zenon, <1>1 DEF ContextInv, ContextTypes
  <2>3. /\ regs' \in [Reg -> Value] /\ regs'["pc"] = Kernel("tramp")
        /\ \A r \in Upper \cup {"sp", "x19"} : regs'[r] = regs[r]
    BY Zenon, <1>1, <2>2, KernelValue DEF sched_tail, Reg, Scratch, Callee, Upper, Stale, Name
  <2>4. ContextTypes'
    BY Zenon, <1>1, <2>1, <2>3 DEF ContextInv, ContextTypes, Place
  <2>5. SwitchInv'
    BY Zenon, <1>1, <2>1, <2>3 DEF ContextInv, SwitchInv, Kept, HasOwn, Resumes, Own, Kernel
  <2>6. MaskInv'
    BY Zenon, <1>1, <2>1 DEF ContextInv, MaskInv, IrqsMaskedInHandlers
  <2>7. QED
    BY Zenon, <2>4, <2>5, <2>6 DEF ContextInv
<1>2. ASSUME ContextInv, fork64_return PROVE ContextInv'
  <2>1. /\ at = "tramp" /\ at' = IF regs["x19"] = Kernel("tramp") THEN "tramp" ELSE "run"
        /\ regs' = [regs EXCEPT !["pc"] = regs["x19"], !["lr"] = Kernel("after blr")]
        /\ UNCHANGED <<spsel, masked, elr, frame, context, entry, stack, work, mode, cur, cause, level>>
    BY Zenon, <1>2 DEF fork64_return, thrVars
  <2>2. regs \in [Reg -> Value]
    BY Zenon, <1>2 DEF ContextInv, ContextTypes
  <2>3. /\ regs' \in [Reg -> Value] /\ regs'["pc"] = regs["x19"]
        /\ \A r \in Upper \cup {"sp", "x19"} : regs'[r] = regs[r]
    BY Zenon, <2>1, <2>2, KernelValue DEF Reg, Scratch, Callee, Upper, Name
  <2>4. ContextTypes'
    BY Zenon, <1>2, <2>1, <2>3 DEF ContextInv, ContextTypes, Place
  <2>5. SwitchInv'
    BY Zenon, <1>2, <2>1, <2>3 DEF ContextInv, SwitchInv, Kept, HasOwn, Resumes, Own, Kernel
  <2>6. MaskInv'
    BY Zenon, <1>2, <2>1 DEF ContextInv, MaskInv, IrqsMaskedInHandlers
  <2>7. QED
    BY Zenon, <2>4, <2>5, <2>6 DEF ContextInv
<1>3. QED
  BY Zenon, <1>1, <1>2

(* A handler that returns leaves the frame as it is; the exit loads        *)
(* x21-x28 and the program counter from it and leaves SP0 behind.          *)
LEMMA ContextExit == ContextInv /\ (HandleOther \/ exception_exit) => ContextInv'
<1>1. ASSUME ContextInv, HandleOther PROVE ContextInv'
  <2>1. /\ at = "handler" /\ cause \in {"irq", "fiq"} /\ at' = "exit"
        /\ UNCHANGED <<spsel, masked, elr, frame, context, entry, stack, work, mode, cur, cause, level>>
    BY Zenon, <1>1 DEF HandleOther, thrVars
  <2>2. regs \in [Reg -> Value]
    BY Zenon, <1>1 DEF ContextInv, ContextTypes
  <2>3. regs' \in [Reg -> Value]
    BY Zenon, <1>1, <2>2, KernelValue DEF HandleOther, Stale, Name
  <2>4. ContextTypes'
    BY Zenon, <1>1, <2>1, <2>3 DEF ContextInv, ContextTypes, Place
  <2>5. SwitchInv'
    BY Zenon, <1>1, <2>1 DEF ContextInv, SwitchInv, Kept, HasOwn, Resumes, Own
  <2>6. MaskInv'
    BY Zenon, <1>1, <2>1 DEF ContextInv, MaskInv, IrqsMaskedInHandlers
  <2>7. QED
    BY Zenon, <2>4, <2>5, <2>6 DEF ContextInv
<1>2. ASSUME ContextInv, exception_exit PROVE ContextInv'
  <2>1. /\ at = "exit" /\ regs' = exit_regs(regs, frame)
        /\ at' \in {"el0", "illegal", "wild"} /\ spsel' = 1 /\ elr' = frame["elr"] /\ cause' = "none"
        /\ UNCHANGED <<frame, context, entry, stack, work, mode, cur, level>>
    BY Zenon, <1>2 DEF exception_exit, thrVars
  <2>2. regs \in [Reg -> Value] /\ frame \in [Slot -> Value] /\ frame["elr"] \in Value
    BY Zenon, <1>2 DEF ContextInv, ContextTypes, Slot
  <2>3. /\ regs' \in [Reg -> Value] /\ regs'["pc"] = frame["elr"]
        /\ \A r \in Upper : regs'[r] = frame[r]
    BY Zenon, <2>1, <2>2, KernelValue DEF exit_regs, Reg, Slot, Scratch, Callee, Upper, Name
  <2>4. ContextTypes'
    BY <1>2, <2>1, <2>2, <2>3 DEF ContextInv, ContextTypes, Place
  <2>5. spsel' # 0
    BY <2>1
  <2>6. SwitchInv'
    BY Zenon, <1>2, <2>1, <2>3, <2>5 DEF ContextInv, SwitchInv, Kept, HasOwn, Resumes, Own
  <2>7. MaskInv'
    BY Zenon, <1>2, <2>1, <2>5 DEF ContextInv, MaskInv, IrqsMaskedInHandlers
  <2>8. QED
    BY Zenon, <2>4, <2>6, <2>7 DEF ContextInv
<1>3. QED
  BY Zenon, <1>1, <1>2

(* The abort handlers ask for the level of those faults only that have     *)
(* one.                                                                    *)
LEMMA FaultLevels ==
  \A status \in FSC : /\ handle_data_abort(status) \in 0..NoLevel
                      /\ handle_instruction_abort(status) \in 0..NoLevel
BY DEF FSC, handle_data_abort, handle_instruction_abort, vm_fault_get_level, NoLevel,
       ADDRESS_SIZE, TRANSLATION, ACCESS_FLAG, PERMISSION, EXT_ABORT_TT, PARITY_TT

(* Where nothing returns any more.                                         *)
LEMMA ContextHalt ==
  ContextInv /\ (Vector_el0 \/ HandleSync \/ HandleSerror) => ContextInv'
<1> SUFFICES ASSUME ContextInv, Vector_el0 \/ HandleSync \/ HandleSerror PROVE ContextInv'
  BY Zenon
<1>1. /\ UNCHANGED <<regs, spsel, masked, elr, frame, context, entry, stack, work, mode, cur, cause>>
      /\ \/ at' = "halt" /\ at = "handler"
         \/ at' = "spin"
  BY Zenon DEF Vector_el0, Spin, HandleSync, HandleSerror, HandlerPanic, thrVars
<1>2. level' \in 0..NoLevel
  <2>1. level \in 0..NoLevel
    BY Zenon DEF ContextInv, ContextTypes
  <2>2. QED
    BY Zenon, <2>1, FaultLevels DEF Vector_el0, Spin, HandleSync, HandleSerror
<1>3. ContextTypes'
  BY Zenon, <1>1, <1>2 DEF ContextInv, ContextTypes, Place
<1>4. SwitchInv'
  BY Zenon, <1>1 DEF ContextInv, SwitchInv, Kept, HasOwn, Resumes, Own
<1>5. MaskInv'
  BY Zenon, <1>1 DEF ContextInv, MaskInv, IrqsMaskedInHandlers
<1>6. QED
  BY Zenon, <1>3, <1>4, <1>5 DEF ContextInv

(* Every step of the CPU keeps the invariant.                              *)
THEOREM ContextInductive == Spec => []ContextInv
<1>1. ContextInv /\ [Next]_vars => ContextInv'
  <2> SUFFICES ASSUME ContextInv, [Next]_vars PROVE ContextInv'
    BY Zenon
  <2>1. CASE UNCHANGED vars
    BY <2>1 DEF vars, thrVars, ContextInv, ContextTypes, SwitchInv, MaskInv, IrqsMaskedInHandlers,
                Kept, HasOwn, Resumes, Own
  <2>2. QED
    BY Zenon, <2>1, ContextWork, ContextCalled, ContextVector, ContextTimer, ContextReturn,
       ContextExit, ContextHalt DEF Next, Halted
<1>2. QED
  BY ContextInit, <1>1, PTL DEF Spec

(* A thread that runs is where it was interrupted, with its own x21-x28,   *)
(* after any number of switches, and on its own stack unless a handler has *)
(* returned; a thread that a tick hit in the trampoline never runs again,  *)
(* so this needs no assumption on TickInTrampoline.                        *)
THEOREM ContextResumes == Spec => []ResumesWithOwn
<1>1. ContextInv => ResumesWithOwn
  BY Zenon DEF ContextInv, SwitchInv, HasOwn, OnOwnStack, ResumesWithOwn, Upper
<1>2. QED
  BY <1>1, ContextInductive, PTL

(* thread_block, thread_unblock, sched_tail and panic between them: a      *)
(* thread has IRQs masked while it is blocked and not otherwise, and every *)
(* handler and every CPU stopped by panic has them masked.                 *)
THEOREM ContextMasks == Spec => []IrqsMaskedInHandlers
<1>1. ContextInv => IrqsMaskedInHandlers
  BY Zenon DEF ContextInv, MaskInv
<1>2. QED
  BY <1>1, ContextInductive, PTL
=============================================================================
