---------------------------- MODULE TrapDispatch ----------------------------
(***************************************************************************)
(* The trap dispatcher of student-distrib/idt.c and the IRQ registry of   *)
(* _projects/loliOS/student-distrib/idt.c, on one CPU with an 8259 PIC.   *)
(*                                                                         *)
(* A trap pushes a frame (the int_regs_t of the trap) and, through an     *)
(* interrupt gate, clears IF.  idt_handle_interrupt classifies the vector *)
(* (Dispatch) and, if the trap came from user mode, runs                  *)
(* signal_handle_all before the iret (ReturnFromTrap).  Traps nest only   *)
(* where the kernel runs with IF set, the sti; hlt of a blocking syscall, *)
(* and where kernel code faults.  The syscall bodies and the signal       *)
(* subsystem are out of scope: a syscall may raise signals, register or   *)
(* unregister IRQ handlers and block, in any order.                       *)
(***************************************************************************)
EXTENDS Integers, Sequences

CONSTANTS
    NUM_EXC, NUM_VEC, INT_IRQ0, INT_SYSCALL,  \* idt.h
    EXC_DE, EXC_GP,                           \* divide error, general protection
    Lines,          \* the modelled IRQ lines
    IRQ_KEYBOARD,   \* the line keyboard_init registers at boot
    Callbacks,      \* driver callbacks
    NULL,
    Signals,        \* signal numbers, SIG_DIV_ZERO and SIG_SEGFAULT among them
    SIG_DIV_ZERO, SIG_SEGFAULT,
    UserVectors,    \* n of the int n instructions user code executes
    FaultVectors    \* exceptions the CPU raises while running code

ASSUME TrapAssumption ==
    /\ NUM_EXC \in Nat /\ NUM_VEC \in Nat
    /\ INT_IRQ0 \in Nat /\ NUM_EXC <= INT_IRQ0 /\ INT_IRQ0 + 15 < INT_SYSCALL
    /\ INT_SYSCALL \in Nat /\ INT_SYSCALL < NUM_VEC
    /\ {EXC_DE, EXC_GP} \subseteq 0 .. NUM_EXC - 1 /\ EXC_DE # EXC_GP
    /\ Lines \subseteq 0 .. 15 /\ IRQ_KEYBOARD \in Lines
    /\ NULL \notin Callbacks
    /\ {SIG_DIV_ZERO, SIG_SEGFAULT} \subseteq Signals
    /\ SIG_DIV_ZERO # SIG_SEGFAULT
    /\ UserVectors \subseteq 0 .. NUM_VEC - 1
    /\ FaultVectors \subseteq 0 .. INT_IRQ0 - 1

CS == {"USER_CS", "KERNEL_CS"}
Phases == {"run", "wait", "signals"}
Frame(v, cs, savedIF) ==
    [vec |-> v, cs |-> cs, phase |-> "run", savedIF |-> savedIF, woke |-> FALSE]

-----------------------------------------------------------------------------
(* Mutants of idt_init: IRQ gates as trap gates (the change the comment *)
(* in idt_init invites), and IRQ gates that user code may raise.          *)
GateTrapForIrqs(v) ==
    [dpl  |-> IF v = INT_SYSCALL THEN 3 ELSE 0,
     type |-> IF v >= INT_IRQ0 /\ v <= INT_IRQ0 + 15 THEN "trap"
              ELSE "interrupt"]

GateUserIrqs(v) ==
    [dpl  |-> IF v = INT_SYSCALL \/ (v >= INT_IRQ0 /\ v <= INT_IRQ0 + 15)
              THEN 3 ELSE 0,
     type |-> "interrupt"]

(* idt_init: every gate is present with DPL 0 and reserved3 = 0, an       *)
(* interrupt gate; the syscall gate has DPL 3.                            *)
Gate(v) ==
    [dpl  |-> IF v = INT_SYSCALL THEN 3 ELSE 0,
     type |-> "interrupt"]

(* The classification of idt_handle_interrupt. *)
IsException(v) == v < NUM_EXC
IsIrq(v) == v >= INT_IRQ0 /\ v <= INT_IRQ0 + 15
IsSyscall(v) == v = INT_SYSCALL
LineOf(v) == v - INT_IRQ0

(* Mutants of handle_user_exception: the signals swapped, the vector    *)
(* raised as if it were a signal number.                                  *)
SignalForInverted(v) == IF v = EXC_DE THEN SIG_SEGFAULT ELSE SIG_DIV_ZERO
SignalForRawVector(v) == v

(* handle_user_exception *)
SignalFor(v) == IF v = EXC_DE THEN SIG_DIV_ZERO ELSE SIG_SEGFAULT

VARIABLES
    stack,      \* the frames of the traps in progress, innermost last
    intr,       \* EFLAGS.IF
    halted,     \* loop() reached
    pending,    \* signals pending for the executing process
    delivered,  \* the signals the last signal_handle_all ran (history)
    handlers,   \* irq_handlers[].callback
    enabled,    \* the PIC mask: enable_irq / disable_irq
    irr,        \* lines requesting service at the PIC
    isr         \* lines in service at the PIC: no EOI yet

vars == <<stack, intr, halted, pending, delivered, handlers, enabled, irr, isr>>

Top == stack[Len(stack)]
InUser == stack = <<>>

(* The CPU enters a trap through gate v from the current context. *)
Enter(v, cs) ==
    /\ stack' = Append(stack, Frame(v, cs, intr))
    /\ intr' = (intr /\ Gate(v).type = "trap")

(* After boot: the process runs in user mode with IF set; keyboard_init *)
(* has registered the keyboard callback and unmasked its line.            *)
Init ==
    /\ stack = <<>>
    /\ intr = TRUE
    /\ halted = FALSE
    /\ pending = {}
    /\ delivered = {}
    /\ \E cb \in Callbacks :
          handlers = [l \in Lines |-> IF l = IRQ_KEYBOARD THEN cb ELSE NULL]
    /\ enabled = [l \in Lines |-> l = IRQ_KEYBOARD]
    /\ irr = {}
    /\ isr = {}

-----------------------------------------------------------------------------
(* User code executes int v: through a gate of DPL 3, or else a general  *)
(* protection fault.                                                       *)
UserInt(v) ==
    /\ InUser
    /\ Enter(IF Gate(v).dpl = 3 THEN v ELSE EXC_GP, "USER_CS")
    /\ UNCHANGED <<halted, pending, delivered, handlers, enabled, irr, isr>>

(* User code raises a CPU exception. *)
UserFault(v) ==
    /\ InUser
    /\ Enter(v, "USER_CS")
    /\ UNCHANGED <<halted, pending, delivered, handlers, enabled, irr, isr>>

(* Kernel code of a syscall or IRQ handler raises a CPU exception. *)
KernelFault(v) ==
    /\ ~InUser /\ ~halted
    /\ Top.phase = "run" /\ (IsSyscall(Top.vec) \/ IsIrq(Top.vec))
    /\ Enter(v, "KERNEL_CS")
    /\ UNCHANGED <<halted, pending, delivered, handlers, enabled, irr, isr>>

(* A device raises its line; the PIC latches the request. *)
DeviceRequest(l) ==
    /\ l \notin irr
    /\ irr' = irr \cup {l}
    /\ UNCHANGED <<stack, intr, halted, pending, delivered, handlers, enabled,
                   isr>>

(* The PIC delivers the highest-priority unmasked request not blocked by *)
(* a line in service, when IF is set: in user mode or in the hlt of a    *)
(* blocked syscall.  hlt returns when the interrupt does.                 *)
TakeIrq(l) ==
    /\ intr /\ ~halted
    /\ l \in irr /\ enabled[l]
    /\ \A m \in isr : m > l
    /\ \A m \in irr : enabled[m] => m >= l
    /\ irr' = irr \ {l}
    /\ isr' = isr \cup {l}
    /\ Enter(INT_IRQ0 + l, IF InUser THEN "USER_CS" ELSE "KERNEL_CS")
    /\ UNCHANGED <<halted, pending, delivered, handlers, enabled>>

-----------------------------------------------------------------------------
(* The paths of idt_handle_interrupt, each from a frame in phase "run". *)
SetTop(f) == stack' = [stack EXCEPT ![Len(stack)] = f]
Dispatched == SetTop([Top EXCEPT !.phase = "signals"])

(* A mutant without the return after handle_user_exception. *)
HandleExceptionNoReturn ==
    /\ ~InUser /\ ~halted /\ Top.phase = "run" /\ IsException(Top.vec)
    /\ pending' = IF Top.cs = "USER_CS" THEN pending \cup {SignalFor(Top.vec)}
                  ELSE pending
    /\ halted' = TRUE
    /\ UNCHANGED <<stack, intr, delivered, handlers, enabled, irr, isr>>

(* A mutant whose kernel path returns instead of calling loop(). *)
HandleExceptionReturnsInKernel ==
    /\ ~InUser /\ ~halted /\ Top.phase = "run" /\ IsException(Top.vec)
    /\ pending' = IF Top.cs = "USER_CS" THEN pending \cup {SignalFor(Top.vec)}
                  ELSE pending
    /\ Dispatched
    /\ UNCHANGED <<intr, halted, delivered, handlers, enabled, irr, isr>>

(* handle_exception: from user mode, handle_user_exception raises the     *)
(* signal and the dispatcher goes on; from kernel mode, dump_registers    *)
(* and loop() for ever.                                                   *)
HandleException ==
    /\ ~InUser /\ ~halted /\ Top.phase = "run" /\ IsException(Top.vec)
    /\ \/ /\ Top.cs = "USER_CS"
          /\ pending' = pending \cup {SignalFor(Top.vec)}
          /\ Dispatched
          /\ UNCHANGED halted
       \/ /\ Top.cs = "KERNEL_CS"
          /\ halted' = TRUE
          /\ UNCHANGED <<stack, pending>>
    /\ UNCHANGED <<intr, delivered, handlers, enabled, irr, isr>>

(* handle_irq: the callback of irq_handlers[irq_num], if any, runs (its   *)
(* effect on the drivers is not modelled here), then send_eoi.  The PIC   *)
(* delivers only unmasked lines, and a line is unmasked only while it has *)
(* a callback, so the NULL case does not arise.                           *)
HandleIrq ==
    /\ ~InUser /\ ~halted /\ Top.phase = "run" /\ IsIrq(Top.vec)
    /\ isr' = isr \ {LineOf(Top.vec)}
    /\ Dispatched
    /\ UNCHANGED <<intr, halted, pending, delivered, handlers, enabled, irr>>

(* An unknown vector is logged. *)
HandleUnknown ==
    /\ ~InUser /\ ~halted /\ Top.phase = "run"
    /\ ~IsException(Top.vec) /\ ~IsIrq(Top.vec) /\ ~IsSyscall(Top.vec)
    /\ Dispatched
    /\ UNCHANGED <<intr, halted, pending, delivered, handlers, enabled, irr,
                   isr>>

(* handle_syscall, one step of the out-of-scope syscall body at a time. *)
InSyscall == ~InUser /\ ~halted /\ IsSyscall(Top.vec)

SyscallRaise(sig) ==
    /\ InSyscall /\ Top.phase = "run"
    /\ pending' = pending \cup {sig}
    /\ UNCHANGED <<stack, intr, halted, delivered, handlers, enabled, irr, isr>>

(* register_irq_handler: store the callback, then enable_irq. *)
RegisterIrqHandler(l, cb) ==
    /\ InSyscall /\ Top.phase = "run"
    /\ handlers' = [handlers EXCEPT ![l] = cb]
    /\ enabled' = [enabled EXCEPT ![l] = TRUE]
    /\ UNCHANGED <<stack, intr, halted, pending, delivered, irr, isr>>

(* unregister_irq_handler: disable_irq, then clear the callback. *)
UnregisterIrqHandler(l) ==
    /\ InSyscall /\ Top.phase = "run"
    /\ enabled' = [enabled EXCEPT ![l] = FALSE]
    /\ handlers' = [handlers EXCEPT ![l] = NULL]
    /\ UNCHANGED <<stack, intr, halted, pending, delivered, irr, isr>>

(* The sti; hlt of a blocking read. *)
SyscallBlock ==
    /\ InSyscall /\ Top.phase = "run"
    /\ SetTop([Top EXCEPT !.phase = "wait", !.woke = FALSE])
    /\ intr' = TRUE
    /\ UNCHANGED <<halted, pending, delivered, handlers, enabled, irr, isr>>

(* A mutant that goes on after hlt without cli. *)
SyscallWakeWithoutCli ==
    /\ InSyscall /\ Top.phase = "wait" /\ Top.woke
    /\ SetTop([Top EXCEPT !.phase = "run", !.woke = FALSE])
    /\ UNCHANGED <<intr, halted, pending, delivered, handlers, enabled, irr,
                   isr>>

(* hlt has returned: cli, and the syscall goes on. *)
SyscallWake ==
    /\ InSyscall /\ Top.phase = "wait" /\ Top.woke
    /\ SetTop([Top EXCEPT !.phase = "run", !.woke = FALSE])
    /\ intr' = FALSE
    /\ UNCHANGED <<halted, pending, delivered, handlers, enabled, irr, isr>>

(* syscall_handle returns; its result goes into regs->eax. *)
SyscallDone ==
    /\ InSyscall /\ Top.phase = "run"
    /\ Dispatched
    /\ UNCHANGED <<intr, halted, pending, delivered, handlers, enabled, irr,
                   isr>>

(* A mutant that runs signal handlers only after syscalls. *)
ReturnFromTrapSyscallSignalsOnly ==
    /\ ~InUser /\ ~halted /\ Top.phase = "signals"
    /\ IF Top.cs = "USER_CS" /\ IsSyscall(Top.vec)
       THEN delivered' = pending /\ pending' = {}
       ELSE UNCHANGED <<pending, delivered>>
    /\ stack' = LET s == SubSeq(stack, 1, Len(stack) - 1)
                IN  IF s # <<>> /\ s[Len(s)].phase = "wait"
                    THEN [s EXCEPT ![Len(s)].woke = TRUE] ELSE s
    /\ intr' = Top.savedIF
    /\ UNCHANGED <<halted, handlers, enabled, irr, isr>>

(* A mutant that runs signal handlers whatever the interrupted context. *)
ReturnFromTrapAlwaysSignals ==
    /\ ~InUser /\ ~halted /\ Top.phase = "signals"
    /\ delivered' = pending /\ pending' = {}
    /\ stack' = LET s == SubSeq(stack, 1, Len(stack) - 1)
                IN  IF s # <<>> /\ s[Len(s)].phase = "wait"
                    THEN [s EXCEPT ![Len(s)].woke = TRUE] ELSE s
    /\ intr' = Top.savedIF
    /\ UNCHANGED <<halted, handlers, enabled, irr, isr>>

(* The end of idt_handle_interrupt: signal_handle_all if regs->cs is the  *)
(* user code segment, then the iret, which restores IF; a hlt the trap    *)
(* interrupted has returned.                                              *)
ReturnFromTrap ==
    /\ ~InUser /\ ~halted /\ Top.phase = "signals"
    /\ IF Top.cs = "USER_CS"
       THEN delivered' = pending /\ pending' = {}
       ELSE UNCHANGED <<pending, delivered>>
    /\ stack' = LET s == SubSeq(stack, 1, Len(stack) - 1)
                IN  IF s # <<>> /\ s[Len(s)].phase = "wait"
                    THEN [s EXCEPT ![Len(s)].woke = TRUE] ELSE s
    /\ intr' = Top.savedIF
    /\ UNCHANGED <<halted, handlers, enabled, irr, isr>>

Dispatch == HandleException \/ HandleIrq \/ HandleUnknown

Next ==
    \/ \E v \in UserVectors : UserInt(v)
    \/ \E v \in FaultVectors : UserFault(v) \/ KernelFault(v)
    \/ \E l \in Lines : DeviceRequest(l) \/ TakeIrq(l)
    \/ Dispatch
    \/ \E sig \in Signals : SyscallRaise(sig)
    \/ \E l \in Lines, cb \in Callbacks : RegisterIrqHandler(l, cb)
    \/ \E l \in Lines : UnregisterIrqHandler(l)
    \/ SyscallBlock \/ SyscallWake \/ SyscallDone
    \/ ReturnFromTrap

(* The CPU goes on executing the kernel code it is in: the dispatcher's  *)
(* paths, the cli after hlt and the return.  Nothing obliges a device to *)
(* interrupt, a program to trap, or a syscall body to finish.            *)
Fairness ==
    /\ WF_vars(Dispatch)
    /\ WF_vars(SyscallWake)
    /\ WF_vars(ReturnFromTrap)

Spec == Init /\ [][Next]_vars /\ Fairness

-----------------------------------------------------------------------------
Frames == [vec : 0 .. NUM_VEC - 1, cs : CS, phase : Phases,
           savedIF : BOOLEAN, woke : BOOLEAN]

(* Every variable holds a value of its type. *)
TypeOK ==
    /\ stack \in Seq(Frames)
    /\ intr \in BOOLEAN
    /\ halted \in BOOLEAN
    /\ pending \subseteq Signals
    /\ delivered \subseteq Signals
    /\ handlers \in [Lines -> Callbacks \cup {NULL}]
    /\ enabled \in [Lines -> BOOLEAN]
    /\ irr \subseteq Lines
    /\ isr \subseteq Lines

(* Kernel code runs with interrupts masked, except in the hlt of a       *)
(* blocked syscall: every gate is an interrupt gate, the iret restores    *)
(* the IF of the interrupted context, and the wait ends with cli.  The    *)
(* terminal's read protocol rests on this.                                *)
KernelMasked == ~InUser /\ Top.phase # "wait" => ~intr

(* When user code runs, no signal is pending: every trap from user mode  *)
(* ran signal_handle_all after its path had raised what it raises, and    *)
(* nothing raises signals outside a trap.                                 *)
NoSignalLeftBehind == InUser => pending = {}

(* Signal handlers run only on the way back to user mode, after the trap *)
(* path has finished: never in a trap nested in the kernel.               *)
SignalsOnlyToUser ==
    [][pending' \subseteq pending /\ pending' # pending =>
         /\ Len(stack) = 1
         /\ stack[1].cs = "USER_CS"
         /\ stack[1].phase = "signals"]_vars

(* A kernel-mode exception never returns: once one is on the stack, no  *)
(* frame is popped and no signal is delivered.                           *)
KernelFaultNeverReturns ==
    [][(\E i \in 1 .. Len(stack) :
          IsException(stack[i].vec) /\ stack[i].cs = "KERNEL_CS")
       => stack' = stack /\ pending' = pending]_vars

(* A user-mode exception returns to user mode having delivered exactly  *)
(* one signal: SIG_DIV_ZERO for a divide error, SIG_SEGFAULT for every   *)
(* other exception.                                                       *)
UserFaultHandled ==
    [][(/\ Len(stack) = 1
        /\ IsException(stack[1].vec) /\ stack[1].cs = "USER_CS"
        /\ stack' = <<>>)
       => delivered' = IF stack[1].vec = EXC_DE THEN {SIG_DIV_ZERO}
                       ELSE {SIG_SEGFAULT}]_vars

(* A user-mode exception is not fatal: the trap returns to user mode.   *)
UserFaultReturns ==
    (stack # <<>> /\ IsException(stack[1].vec) /\ stack[1].cs = "USER_CS")
        ~> InUser

(* The PIC has in service exactly the lines whose IRQ trap has not yet   *)
(* passed send_eoi: every IRQ is acknowledged once, after its callback,   *)
(* and only an IRQ the PIC delivered is acknowledged.                     *)
EoiMatchesFrames ==
    isr = {LineOf(stack[i].vec) :
             i \in {j \in 1 .. Len(stack) : IsIrq(stack[j].vec)
                                           /\ stack[j].phase = "run"}}

(* Two frames of IRQ traps on the stack: the callbacks nest. *)
AtMostOneIrq ==
    \A i, j \in 1 .. Len(stack) :
        IsIrq(stack[i].vec) /\ IsIrq(stack[j].vec) => i = j

=============================================================================
