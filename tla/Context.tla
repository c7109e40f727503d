------------------------------- MODULE Context -------------------------------
(***************************************************************************)
(* Registers, stack pointers and interrupt masks across exceptions and     *)
(* context switches: the vectors, frames, dispatch, exit and fork code of  *)
(* arch/handler.S, the handlers of kern/exception.c, the save and load of  *)
(* a context and thread_block of kern/thread.c, and panic.  Which thread   *)
(* is switched to is module Sched's business: here it is any thread.       *)
(*                                                                         *)
(* A register stands for its class: x2 for x2-x18, x21 for x21 and         *)
(* x23-x27.  A value is <<owner, name, n>>: what the owner had computed    *)
(* into the register after its n-th piece of work, so that a value of      *)
(* another thread, or an old one of the same thread, is told apart.        *)
(***************************************************************************)
EXTENDS Integers

CONSTANTS
  Thread,          \* the threads
  First,           \* the kernel thread, loaded by kernel_init
  MaxWork,         \* bound: pieces of work a thread does
  TickInTrampoline \* may an exception hit between the unmask of sched_tail and blr x19

ASSUME ContextAssumption ==
  First \in Thread /\ MaxWork \in Nat /\ TickInTrampoline \in BOOLEAN

VARIABLES
  regs,      \* the register file of the CPU, sp and pc included
  spsel,     \* SPSel: which of SP_EL0 and SP_EL1 sp is
  masked,    \* PSTATE.A, I and F: the asynchronous exceptions held back
  elr,       \* ELR_EL1
  frame,     \* the exception frame the handler works on
  before,    \* history: the register file when the exception was taken
  context,   \* thread->context
  entry,     \* thread->entry
  stack,     \* thread->stack
  work,      \* pieces of work each thread has done
  mode,      \* what each thread does: see Mode
  panic_active,
  cur,       \* the thread whose code and stack the CPU is on
  at,        \* what the CPU executes
  cause,     \* the exception being handled
  level      \* the translation level a fault report printed, or NoLevel

thrVars == <<context, entry, stack>>
vars == <<regs, spsel, masked, elr, frame, before, thrVars, work, mode, panic_active,
          cur, at, cause, level>>

Scratch == {"x0", "x1", "x2", "lr"}                 \* a C call may change these
Callee  == {"x19", "x20", "x21", "x22", "x28", "fp"} \* and must preserve these
Reg     == Scratch \cup Callee \cup {"sp", "pc"}
Slot    == (Reg \ {"pc"}) \cup {"elr"}               \* of arm64_exception_frame_t
Saved   == Callee \cup {"lr", "sp"}                  \* of cpu_context_t
Mode    == {"normal",   \* runs
            "blocked",  \* is between thread_block and thread_unblock
            "panic",    \* is in __panic and has set panic_active
            "loop"}     \* is in cpu_halt after a second panic
NoLevel == 4

Own(t, r) == <<t, r, work[t]>>
Kernel(n) == <<"kernel", n, 0>>
Stale     == Kernel("stale")  \* what memory or a register happened to hold

(* Thread code runs, on its own stack.  What it does on memory that is not *)
(* its stack is not followed, up to the exception that ends it.            *)
OnOwnStack == regs["sp"] = Own(cur, "sp")
Runs(m)    == at = "run" /\ OnOwnStack /\ mode[cur] \in m
-----------------------------------------------------------------------------
(* kernel_init has called thread_load_context on the kernel thread and     *)
(* __fork64_exec has loaded its context; start.S selected SP0 and unmasked *)
(* everything, and nothing ever sets SP_EL1.  A thread that never ran has  *)
(* an entry point and a stack, nothing else.                               *)
Init ==
  /\ work = [t \in Thread |-> 0]
  /\ entry = [t \in Thread |-> Own(t, "pc")]
  /\ stack = [t \in Thread |-> Own(t, "sp")]
  /\ context = [t \in Thread |-> [r \in Saved |-> Stale]]
  /\ cur = First /\ at = "return" /\ cause = "none" /\ level = NoLevel
  /\ regs = [r \in Reg |-> CASE r = "x19" -> entry[First]
                             [] r = "sp"  -> stack[First]
                             [] OTHER     -> Stale]
  /\ spsel = 0 /\ masked = {} /\ elr = Stale
  /\ mode = [t \in Thread |-> "normal"] /\ panic_active = FALSE
  /\ frame = [s \in Slot |-> Stale] /\ before = regs

(* The thread computes: every register it uses gets a new value. *)
Work ==
  /\ Runs({"normal", "blocked"}) /\ work[cur] < MaxWork
  /\ work' = [work EXCEPT ![cur] = @ + 1]
  /\ regs' = [r \in Reg |-> <<cur, r, work[cur] + 1>>]
  /\ UNCHANGED <<spsel, masked, elr, frame, before, thrVars, mode, panic_active,
                 cur, at, cause, level>>

(* What the thread calls that changes its masks: the registers it gets     *)
(* back are those of its own code.                                         *)
Called(m, mask) ==
  /\ mode' = [mode EXCEPT ![cur] = m] /\ masked' = mask
  /\ UNCHANGED <<regs, spsel, elr, frame, before, thrVars, work, cur, cause, level>>

thread_block   == Runs({"normal"}) /\ Called("blocked", masked \cup {"I"}) /\ UNCHANGED <<panic_active, at>>
thread_unblock == Runs({"blocked"}) /\ Called("normal", masked \ {"I"}) /\ UNCHANGED <<panic_active, at>>

(* __panic: the first call sets panic_active and then masks IRQs; one made *)
(* once it is set goes straight to cpu_halt, with the masks as they are.   *)
PanicSet ==
  /\ Runs({"normal", "blocked"}) /\ ~panic_active /\ panic_active' = TRUE
  /\ Called("panic", masked) /\ UNCHANGED at
PanicMask ==
  Runs({"panic"}) /\ Called("loop", masked \cup {"I"}) /\ at' = "halt" /\ UNCHANGED panic_active
PanicAgain ==
  /\ Runs({"normal", "blocked"}) /\ panic_active
  /\ Called("loop", masked) /\ UNCHANGED <<panic_active, at>>
-----------------------------------------------------------------------------
(* The frame as the vector macros leave it.  On SP0 the frame lies on the  *)
(* stack of the interrupted thread; on SP1 the offset 240 the macro stores *)
(* sp at is the slot of lr, and neither sp nor fp is in its slot.          *)
create_exception_frame_sp0(r) ==
  [s \in Slot |-> IF s \in {"x0", "x1", "fp", "sp"} THEN r[s] ELSE Stale]
create_exception_frame_sp1(r) ==
  [s \in Slot |-> CASE s \in {"x0", "x1"} -> r[s] [] s = "lr" -> r["sp"] [] OTHER -> Stale]

(* L__dispatch64 saves the other general purpose registers, but not lr,    *)
(* and ELR_EL1, which it reads through x22.                                *)
dispatch64(f, r, pc) ==
  [s \in Slot |-> CASE s \in {"x2", "x19", "x20", "x21", "x22", "x28"} -> r[s]
                    [] s = "elr" -> pc
                    [] OTHER -> f[s]]

dispatch_regs(r, pc) ==
  [r EXCEPT !["x0"] = Kernel("frame"), !["x1"] = Kernel("handler"), !["x22"] = pc,
            !["x28"] = Kernel("frame"), !["lr"] = Kernel("dispatch"),
            !["sp"] = Kernel("frame"), !["pc"] = Kernel("handler")]

Enter(kind, f) ==
  /\ masked' = {"A", "I", "F"} /\ elr' = regs["pc"] /\ before' = regs
  /\ frame' = dispatch64(f, regs, regs["pc"])
  /\ regs' = dispatch_regs(regs, regs["pc"])
  /\ at' = "handler" /\ cause' = kind
  /\ UNCHANGED <<spsel, thrVars, work, mode, panic_active, cur, level>>

Kind == {"timer", "irq", "fiq", "serror", "sync"}    \* an SVC, a fault or a trap is "sync"
Mask(kind) == CASE kind \in {"timer", "irq"} -> {"I"} [] kind = "fiq" -> {"F"}
                [] kind = "serror" -> {"A"} [] kind = "sync" -> {}

(* An exception hits the thread, the two instructions of __fork64_return   *)
(* after sched_tail, the instruction after an illegal exception return or, *)
(* as a fault, the first use of a stack pointer that is not a stack.       *)
Interrupts(kind) ==
  /\ \/ at \in {"run", "illegal"}
     \/ at = "tramp" /\ TickInTrampoline
     \/ at = "return" /\ kind = "sync" /\ ~OnOwnStack
  /\ Mask(kind) \cap masked = {}

Spin ==
  /\ at' = "spin"
  /\ UNCHANGED <<regs, spsel, masked, elr, frame, before, thrVars, work, mode, panic_active,
                 cur, cause, level>>

Vector_sp0(kind) ==
  spsel = 0 /\ Interrupts(kind) /\ Enter(kind, create_exception_frame_sp0(regs))

(* The vectors for SP1 stay on SP1.  When it is no stack their own first   *)
(* store may fault, which enters the vector again, for ever.               *)
Vector_sp1(kind) ==
  /\ spsel = 1 /\ Interrupts(kind)
  /\ \/ Enter(kind, create_exception_frame_sp1(regs))
     \/ ~OnOwnStack /\ Spin

(* The vectors for exceptions from EL0 branch to themselves. *)
Vector_el0 == at = "el0" /\ Spin
-----------------------------------------------------------------------------
(* Mutant: saves the live registers, which the handler uses by then. *)
thread_save_context_live(c, f) ==
  [r \in Saved |-> IF r = "lr" THEN c[r] ELSE regs[r]]

(* thread_save_context: the callee-saved registers and sp come from the    *)
(* frame; lr is left alone.  The entry point is read from ELR_EL1.         *)
thread_save_context(c, f) ==
  [r \in Saved |-> IF r = "lr" THEN c[r] ELSE f[r]]

thread_load_context(c, ent, stk) ==
  [c EXCEPT !["x19"] = ent, !["x20"] = Kernel("args"), !["sp"] = stk,
            !["lr"] = Kernel("__fork64_return")]

(* __fork64_exec loads the context; x8 carries sp, x0 is still the thread. *)
fork64_exec(r, c) ==
  [q \in Reg |-> CASE q \in Saved -> c[q]
                   [] q = "pc" -> c["lr"]
                   [] q = "x0" -> Kernel("thread")
                   [] OTHER -> Stale]

(* arm64_handler_irq on the timer: __schedule picks a thread, saves the    *)
(* interrupted one and loads the other, possibly the same one, into the    *)
(* stack pointer that is selected.                                         *)
HandleTimer ==
  /\ at = "handler" /\ cause = "timer"
  /\ LET saved == [context EXCEPT ![cur] = thread_save_context(@, frame)]
         ent   == [entry EXCEPT ![cur] = elr]
         stk   == [stack EXCEPT ![cur] = saved[cur]["sp"]]
     IN \E next \in Thread :
          LET loaded == thread_load_context(saved[next], ent[next], stk[next])
          IN /\ context' = [saved EXCEPT ![next] = loaded]
             /\ regs' = fork64_exec(regs, loaded)
             /\ entry' = ent /\ stack' = stk /\ cur' = next
  /\ at' = "return" /\ cause' = "none"
  /\ UNCHANGED <<spsel, masked, elr, frame, before, work, mode, panic_active, level>>

(* Mutant: interrupts are not unmasked. *)
sched_tail_masked ==
  /\ at = "return" /\ at' = "tramp"
  /\ regs' = [regs EXCEPT !["fp"] = Kernel("zero"), !["pc"] = Kernel("tramp")]
  /\ UNCHANGED <<spsel, masked, elr, frame, before, thrVars, work, mode, panic_active,
                 cur, cause, level>>

(* __fork64_return clears fp and calls sched_tail, whose machine_irq_enable *)
(* clears PSTATE.I and leaves PSTATE.A and PSTATE.F as they are ...         *)
sched_tail ==
  /\ at = "return" /\ at' = "tramp"
  /\ masked' = masked \ {"I"}
  /\ regs' = [r \in Reg |-> CASE r = "fp" -> Kernel("zero")
                              [] r \in Scratch -> Stale
                              [] r = "pc" -> Kernel("tramp")
                              [] OTHER -> regs[r]]
  /\ UNCHANGED <<spsel, elr, frame, before, thrVars, work, mode, panic_active, cur, cause, level>>

(* ... and branches to x19. *)
fork64_return ==
  /\ at = "tramp" /\ at' = IF regs["x19"] = Kernel("tramp") THEN "tramp" ELSE "run"
  /\ regs' = [regs EXCEPT !["pc"] = regs["x19"], !["lr"] = Kernel("after blr")]
  /\ UNCHANGED <<spsel, masked, elr, frame, before, thrVars, work, mode, panic_active,
                 cur, cause, level>>

(* arm64_handler_irq on another intid, and arm64_handler_fiq: acknowledge  *)
(* and return, as C functions, to L__dispatch64.                           *)
HandleOther ==
  /\ at = "handler" /\ cause \in {"irq", "fiq"} /\ at' = "exit"
  /\ regs' = [r \in Reg |-> IF r \in Scratch THEN Stale ELSE regs[r]]
  /\ UNCHANGED <<spsel, masked, elr, frame, before, thrVars, work, mode, panic_active,
                 cur, cause, level>>
-----------------------------------------------------------------------------
(* L__exception_exit reloads what L__dispatch64 saved, fp and lr.  x0 and  *)
(* x1 stay as they are, and sp becomes SP_EL1, whatever that is.           *)
exit_regs(r, f) ==
  [q \in Reg |-> CASE q \in Callee \cup {"x2", "lr"} -> f[q]
                   [] q = "pc" -> f["elr"]
                   [] q = "x0" -> r["x28"]
                   [] q = "sp" /\ spsel = 0 -> Kernel("SP_EL1")
                   [] OTHER -> r[q]]

(* SPSR_EL1 is loaded from the frame's sp.  On SP0 its low four bits are   *)
(* those of a 16-byte aligned address: EL0 with SP0, if bit 4 is clear,    *)
(* and an illegal AArch32 state otherwise.  On SP1 nothing has written the *)
(* slot: the eret may as well end in EL1, with registers that are nobody's *)
(* ("wild").  The masks are whatever bits 6-8 are.                         *)
exception_exit ==
  /\ at = "exit" /\ regs' = exit_regs(regs, frame)
  /\ at' \in IF spsel = 0 THEN {"el0", "illegal"} ELSE {"el0", "illegal", "wild"}
  /\ masked' \in SUBSET {"A", "I", "F"}
  /\ spsel' = 1 /\ elr' = frame["elr"] /\ cause' = "none"
  /\ UNCHANGED <<frame, before, thrVars, work, mode, panic_active, cur, level>>
-----------------------------------------------------------------------------
(* The fault status codes of arch.h. *)
FSC              == 0..63
ADDRESS_SIZE     == 0..3
TRANSLATION      == 4..7
ACCESS_FLAG      == 9..11
PERMISSION       == 13..15
EXT_ABORT_TT     == 21..23
PARITY_TT        == 29..31

(* The level is the low two bits of each code the switch lists. *)
vm_fault_get_level(status) ==
  IF status \in ADDRESS_SIZE \cup TRANSLATION \cup ACCESS_FLAG \cup PERMISSION
                \cup EXT_ABORT_TT \cup PARITY_TT
  THEN status % 4 ELSE -1

(* The levels the panic messages of the two abort handlers print. *)
handle_data_abort(status) ==
  IF status \in TRANSLATION \cup PERMISSION \cup ADDRESS_SIZE
  THEN vm_fault_get_level(status) ELSE NoLevel
handle_instruction_abort(status) ==
  IF status \in TRANSLATION THEN vm_fault_get_level(status) ELSE NoLevel

(* panic in a handler: IRQs are masked already, and nothing returns. *)
HandlerPanic ==
  /\ at = "handler" /\ at' = "halt" /\ panic_active' = TRUE
  /\ UNCHANGED <<regs, spsel, masked, elr, frame, before, thrVars, work, mode, cur, cause>>

(* arm64_handler_synchronous: every class ends in a panic, which halts;    *)
(* only the aborts look further.  The vector for SP1 leaves frame->esr     *)
(* unwritten, so that any class and any status may be found in it.         *)
HandleSync ==
  /\ cause = "sync" /\ HandlerPanic
  /\ \/ \E status \in FSC : level' \in {handle_data_abort(status), handle_instruction_abort(status)}
     \/ UNCHANGED level

(* arm64_handler_serror panics. *)
HandleSerror == cause = "serror" /\ HandlerPanic /\ UNCHANGED level

(* cpu_halt, and the EL0 vectors, loop; nothing is known of a wild CPU. *)
Halted ==
  /\ at \in {"halt", "spin", "wild"} \/ (at = "run" /\ mode[cur] = "loop")
  /\ UNCHANGED vars

Next ==
  \/ Work \/ thread_block \/ thread_unblock \/ PanicSet \/ PanicMask \/ PanicAgain
  \/ \E kind \in Kind : Vector_sp0(kind) \/ Vector_sp1(kind)
  \/ Vector_el0
  \/ HandleTimer \/ sched_tail \/ fork64_return
  \/ HandleOther \/ exception_exit
  \/ HandleSync \/ HandleSerror \/ Halted

Spec == Init /\ [][Next]_vars
-----------------------------------------------------------------------------
(* A thread that runs again after any number of switches is where it was   *)
(* interrupted, with x21-x28 as it left them, whatever the other threads   *)
(* did in between; and it is on its own stack, unless a handler returned   *)
(* once and left the CPU on SP1, whose frames do not keep sp.              *)
ResumesWithOwn ==
  at = "run" =>
    /\ regs["pc"] = Own(cur, "pc")
    /\ spsel = 0 => OnOwnStack
    /\ work[cur] > 0 => \A r \in {"x21", "x22", "x28"} : regs[r] = Own(cur, r)

(* A thread has IRQs masked between thread_block and thread_unblock and    *)
(* nowhere else, in whatever state the thread before it left the CPU, so   *)
(* that the scheduler gets the CPU back; handlers, and a CPU that panic    *)
(* has stopped, have them masked.  Only after a handler that returned may  *)
(* a blocked thread lose the CPU, and its mask with it.                    *)
IrqsMaskedInHandlers ==
  /\ at \in {"handler", "exit", "halt"} => "I" \in masked
  /\ at = "tramp" => "I" \notin masked
  /\ at = "run" /\ mode[cur] = "normal" => "I" \notin masked
  /\ at = "run" /\ mode[cur] = "blocked" /\ spsel = 0 => "I" \in masked

(* handler.S: L__exception_exit loads the stack pointer and link register  *)
(* and the general-purpose registers, switches back to SP0 and erets to    *)
(* where the kernel was before the exception.                              *)
ExitResumes ==
  [][at = "exit" => at' = "run" /\ spsel' = 0 /\ \A r \in Reg : regs'[r] = before[r]]_vars

(* thread.h: the callee registers are saved when switching away and loaded *)
(* when switching back.                                                    *)
CalleeRegistersKept ==
  at = "run" /\ work[cur] > 0 => \A r \in Callee : regs[r] = Own(cur, r)
=============================================================================
