------------------------- MODULE TrapDispatchProofs -------------------------
(***************************************************************************)
(* Proofs about TrapDispatch for every value of its constants.            *)
(*                                                                         *)
(* KernelMasked, NoSignalLeftBehind and EoiMatchesFrames are not inductive *)
(* alone: each rests on the shape of the trap stack.  A trap from user    *)
(* mode is the bottom frame, and the only one with cs = USER_CS.  Every   *)
(* frame above it entered either as an IRQ in the hlt of a waiting        *)
(* syscall, with IF set, or as a fault of a running syscall or IRQ body,  *)
(* with IF clear.  Only a syscall waits, and a syscall is always the      *)
(* bottom frame.  StackShape states this, and IntrOK ties IF to the top   *)
(* frame.                                                                  *)
(***************************************************************************)
EXTENDS TrapDispatch, SequenceTheorems, TLAPS

(* The bottom frame is the trap from user mode, which ran with IF set. *)
BottomOK(st) ==
    Len(st) > 0 => st[1].cs = "USER_CS" /\ st[1].savedIF

(* How frame i came to be pushed over frame i - 1. *)
NestedOK(st, i) ==
    /\ st[i].cs = "KERNEL_CS"
    /\ \/ /\ st[i - 1].phase = "wait"
          /\ IsIrq(st[i].vec)
          /\ st[i].savedIF
       \/ /\ st[i - 1].phase = "run"
          /\ st[i].vec \in FaultVectors
          /\ ~st[i].savedIF
          /\ IsSyscall(st[i - 1].vec) \/ IsIrq(st[i - 1].vec)

ShapeOK(st) ==
    /\ BottomOK(st)
    /\ \A i \in 2 .. Len(st) : NestedOK(st, i)
    /\ \A i \in 1 .. Len(st) : IsSyscall(st[i].vec) => i = 1
    /\ \A i \in 1 .. Len(st) : st[i].phase = "wait" => IsSyscall(st[i].vec)

StackShape == ShapeOK(stack)

(* IF is set in user mode and in the hlt of a waiting syscall, and only there. *)
IntrOK ==
    IF Len(stack) = 0 THEN intr ELSE (intr <=> stack[Len(stack)].phase = "wait")

IInv ==
    /\ TypeOK
    /\ StackShape
    /\ IntrOK
    /\ NoSignalLeftBehind
    /\ EoiMatchesFrames

-----------------------------------------------------------------------------
(* The lines EoiMatchesFrames says are in service, for a stack st. *)
IrqIdx(st) == {j \in 1 .. Len(st) : IsIrq(st[j].vec) /\ st[j].phase = "run"}
IrqLines(st) == {LineOf(st[i].vec) : i \in IrqIdx(st)}

(* What a frame adds to IrqLines. *)
IrqOf(f) == IF IsIrq(f.vec) /\ f.phase = "run" THEN {LineOf(f.vec)} ELSE {}

LEMMA EoiIsIrqLines == EoiMatchesFrames <=> isr = IrqLines(stack)
    BY DEF EoiMatchesFrames, IrqLines, IrqIdx

(* Two stacks whose frames agree on the vector, and on the phase of the *)
(* IRQ frames, have the same lines in service.                           *)
LEMMA IrqLinesEq ==
    ASSUME NEW a \in Seq(Frames), NEW b \in Seq(Frames), Len(a) = Len(b),
           \A i \in 1 .. Len(a) :
               a[i].vec = b[i].vec /\ (IsIrq(a[i].vec) => a[i].phase = b[i].phase)
    PROVE  IrqLines(a) = IrqLines(b)
<1>1. IrqIdx(a) = IrqIdx(b)
    BY DEF IrqIdx
<1>2. QED
    BY <1>1 DEF IrqLines, IrqIdx

(* Pushing a frame adds its line, if it is an IRQ in its handler. *)
LEMMA IrqLinesAppend ==
    ASSUME NEW st \in Seq(Frames), NEW f \in Frames
    PROVE  IrqLines(Append(st, f)) = IrqLines(st) \cup IrqOf(f)
<1> DEFINE t == Append(st, f)
<1>1. /\ Len(t) = Len(st) + 1
      /\ \A i \in 1 .. Len(st) : t[i] = st[i]
      /\ t[Len(st) + 1] = f
    BY AppendProperties
<1>2. IrqIdx(t) = IrqIdx(st) \cup (IF IsIrq(f.vec) /\ f.phase = "run"
                                  THEN {Len(st) + 1} ELSE {})
    BY <1>1 DEF IrqIdx
<1>3. QED
    BY <1>1, <1>2 DEF IrqLines, IrqOf, IrqIdx

(* The stack without its top frame, as ReturnFromTrap computes it. *)
LEMMA SubSeqFront ==
    ASSUME NEW S, NEW st \in Seq(S), NEW n \in Nat, n = Len(st) - 1
    PROVE  /\ SubSeq(st, 1, n) \in Seq(S)
           /\ Len(SubSeq(st, 1, n)) = n
           /\ \A i \in 1 .. n : SubSeq(st, 1, n)[i] = st[i]
    OBVIOUS

(* Popping a frame that is past its handler leaves the lines as they are. *)
LEMMA IrqLinesFront ==
    ASSUME NEW st \in Seq(Frames), NEW n \in Nat, n = Len(st) - 1,
           st[Len(st)].phase # "run"
    PROVE  IrqLines(SubSeq(st, 1, n)) = IrqLines(st)
<1> DEFINE s == SubSeq(st, 1, n)
<1>1. Len(s) = n /\ \A i \in 1 .. n : s[i] = st[i]
    BY SubSeqFront
<1>2. IrqIdx(s) = IrqIdx(st)
    BY <1>1 DEF IrqIdx
<1>3. QED
    BY <1>1, <1>2 DEF IrqLines, IrqIdx

-----------------------------------------------------------------------------
(* The three ways a step changes the stack keep its shape. *)

(* A trap enters: from user mode with the user code segment; from the     *)
(* kernel, an IRQ in hlt or a fault of a running syscall or IRQ body.     *)
PushOK(st, f) ==
    /\ f.phase = "run"
    /\ IF Len(st) = 0
       THEN f.cs = "USER_CS" /\ f.savedIF
       ELSE /\ ~IsSyscall(f.vec)
            /\ NestedOK(Append(st, f), Len(st) + 1)

LEMMA ShapePush ==
    ASSUME NEW st \in Seq(Frames), ShapeOK(st), NEW f \in Frames, PushOK(st, f)
    PROVE  ShapeOK(Append(st, f))
<1> DEFINE t == Append(st, f)
<1>1. /\ Len(t) = Len(st) + 1
      /\ \A i \in 1 .. Len(st) : t[i] = st[i]
      /\ t[Len(st) + 1] = f
    BY AppendProperties
<1>2. BottomOK(t)
    BY <1>1 DEF PushOK, ShapeOK, BottomOK
<1>3. \A i \in 2 .. Len(t) : NestedOK(t, i)
    <2>1. SUFFICES ASSUME NEW i \in 2 .. Len(t) PROVE NestedOK(t, i)
        OBVIOUS
    <2>2. CASE i <= Len(st)
        <3>1. t[i] = st[i] /\ t[i - 1] = st[i - 1]
            BY <1>1, <2>2
        <3>2. QED
            BY <2>2, <3>1 DEF ShapeOK, NestedOK
    <2>3. CASE i = Len(st) + 1
        BY <2>3, <1>1 DEF PushOK
    <2>4. QED
        BY <1>1, <2>2, <2>3
<1>4. \A i \in 1 .. Len(t) : IsSyscall(t[i].vec) => i = 1
    BY <1>1 DEF PushOK, ShapeOK
<1>5. \A i \in 1 .. Len(t) : t[i].phase = "wait" => IsSyscall(t[i].vec)
    BY <1>1 DEF PushOK, ShapeOK
<1>6. QED
    BY <1>2, <1>3, <1>4, <1>5 DEF ShapeOK

(* The top frame moves to another phase of its handler. *)
LEMMA ShapeSetTop ==
    ASSUME NEW st \in Seq(Frames), ShapeOK(st), Len(st) > 0,
           NEW g \in Frames,
           g.vec = st[Len(st)].vec, g.cs = st[Len(st)].cs,
           g.savedIF = st[Len(st)].savedIF,
           g.phase = "wait" => IsSyscall(g.vec)
    PROVE  ShapeOK([st EXCEPT ![Len(st)] = g])
<1> DEFINE t == [st EXCEPT ![Len(st)] = g]
<1>1. /\ Len(t) = Len(st)
      /\ \A i \in 1 .. Len(st) - 1 : t[i] = st[i]
      /\ t[Len(st)] = g
    OBVIOUS
<1>2. BottomOK(t)
    BY <1>1 DEF ShapeOK, BottomOK
<1>3. \A i \in 2 .. Len(t) : NestedOK(t, i)
    <2>1. SUFFICES ASSUME NEW i \in 2 .. Len(t) PROVE NestedOK(t, i)
        OBVIOUS
    <2>2. t[i - 1] = st[i - 1] /\ t[i].vec = st[i].vec /\ t[i].cs = st[i].cs
          /\ t[i].savedIF = st[i].savedIF
        BY <1>1
    <2>3. QED
        BY <2>2 DEF ShapeOK, NestedOK
<1>4. \A i \in 1 .. Len(t) : IsSyscall(t[i].vec) => i = 1
    BY <1>1 DEF ShapeOK
<1>5. \A i \in 1 .. Len(t) : t[i].phase = "wait" => IsSyscall(t[i].vec)
    BY <1>1 DEF ShapeOK
<1>6. QED
    BY <1>2, <1>3, <1>4, <1>5 DEF ShapeOK

(* A prefix of the stack, with the same frames but for their woke flag,  *)
(* keeps the shape.                                                       *)
LEMMA ShapePop ==
    ASSUME NEW st \in Seq(Frames), ShapeOK(st), NEW t \in Seq(Frames),
           Len(t) <= Len(st),
           \A i \in 1 .. Len(t) : /\ t[i].vec = st[i].vec
                                  /\ t[i].cs = st[i].cs
                                  /\ t[i].phase = st[i].phase
                                  /\ t[i].savedIF = st[i].savedIF
    PROVE  ShapeOK(t)
<1>1. BottomOK(t)
    BY DEF ShapeOK, BottomOK
<1>2. \A i \in 2 .. Len(t) : NestedOK(t, i)
    BY DEF ShapeOK, NestedOK
<1>3. QED
    BY <1>1, <1>2 DEF ShapeOK

-----------------------------------------------------------------------------
(* Only the bottom frame, or the frame over a waiting syscall, is an IRQ; *)
(* so IRQ handlers never nest.                                            *)
LEMMA OneIrq ==
    ASSUME NEW st \in Seq(Frames), ShapeOK(st)
    PROVE  \A i, j \in 1 .. Len(st) :
               IsIrq(st[i].vec) /\ IsIrq(st[j].vec) => i = j
<1> USE TrapAssumption
<1>1. \A i \in 1 .. Len(st) :
          IsIrq(st[i].vec) => i = 1 \/ (i = 2 /\ IsSyscall(st[1].vec))
    <2>1. SUFFICES ASSUME NEW i \in 1 .. Len(st), IsIrq(st[i].vec), i # 1
                   PROVE  i = 2 /\ IsSyscall(st[1].vec)
        OBVIOUS
    <2>2. NestedOK(st, i)
        BY <2>1 DEF ShapeOK
    <2>3. st[i].vec \notin FaultVectors
        <3>1. st[i].vec >= INT_IRQ0
            BY <2>1 DEF IsIrq
        <3>2. \A x \in FaultVectors : ~(x >= INT_IRQ0)
            OBVIOUS
        <3>3. QED
            BY <3>1, <3>2, Zenon
    <2>4. st[i - 1].phase = "wait"
        BY <2>2, <2>3 DEF NestedOK
    <2>5. IsSyscall(st[i - 1].vec)
        <3>1. i - 1 \in 1 .. Len(st)
            BY <2>1
        <3>2. QED
            BY <2>4, <3>1 DEF ShapeOK
    <2>6. i - 1 = 1
        BY <2>1, <2>5 DEF ShapeOK
    <2>7. QED
        BY <2>5, <2>6
<1>2. \A v \in Int : ~(IsIrq(v) /\ IsSyscall(v))
    BY DEF IsIrq, IsSyscall
<1>3. \A i \in 1 .. Len(st) : st[i].vec \in Int
    <2>1. \A i \in 1 .. Len(st) : st[i] \in Frames
        BY ElementOfSeq
    <2>2. QED
        BY <2>1 DEF Frames
<1>4. QED
    BY <1>1, <1>2, <1>3

(* handle_irq's EOI takes the line of the top frame out of service. *)
LEMMA IrqLinesHandled ==
    ASSUME NEW st \in Seq(Frames), ShapeOK(st), Len(st) > 0,
           IsIrq(st[Len(st)].vec), NEW g \in Frames,
           g.vec = st[Len(st)].vec, g.phase # "run"
    PROVE  IrqLines([st EXCEPT ![Len(st)] = g])
               = IrqLines(st) \ {LineOf(st[Len(st)].vec)}
<1> DEFINE n == Len(st)
<1> DEFINE t == [st EXCEPT ![n] = g]
<1>1. \A i \in 1 .. n : IsIrq(st[i].vec) => i = n
    BY OneIrq
<1>2. /\ Len(t) = n
      /\ \A i \in 1 .. n - 1 : t[i] = st[i]
      /\ t[n] = g
    OBVIOUS
<1>3. IrqIdx(t) = IrqIdx(st) \ {n}
    BY <1>2 DEF IrqIdx
<1>4. \A i \in IrqIdx(st) : i = n
    BY <1>1 DEF IrqIdx
<1>5. QED
    BY <1>2, <1>3, <1>4 DEF IrqLines

(* The stack ReturnFromTrap leaves: the frames below the top, the new    *)
(* top woken if it waited in hlt.                                         *)
Popped(st) ==
    LET s == SubSeq(st, 1, Len(st) - 1)
    IN  IF s # <<>> /\ s[Len(s)].phase = "wait"
        THEN [s EXCEPT ![Len(s)].woke = TRUE] ELSE s

LEMMA PoppedProps ==
    ASSUME NEW st \in Seq(Frames), NEW n \in Nat, n = Len(st) - 1
    PROVE  /\ Popped(st) \in Seq(Frames)
           /\ Len(Popped(st)) = n
           /\ \A i \in 1 .. n : /\ Popped(st)[i].vec = st[i].vec
                                /\ Popped(st)[i].cs = st[i].cs
                                /\ Popped(st)[i].phase = st[i].phase
                                /\ Popped(st)[i].savedIF = st[i].savedIF
<1> DEFINE s == SubSeq(st, 1, n)
<1>1. s \in Seq(Frames) /\ Len(s) = n /\ \A i \in 1 .. n : s[i] = st[i]
    BY SubSeqFront
<1>2. CASE n > 0 /\ s[n].phase = "wait"
    <2> DEFINE e == [s[n] EXCEPT !.woke = TRUE]
    <2> DEFINE w == [s EXCEPT ![n] = e]
    <2>0. Len(s) # 0 /\ Len(<<>>) = 0
        BY <1>1, <1>2
    <2>1. s # <<>>
        BY <2>0, Zenon
    <2>2. Popped(st) = w
        BY <1>1, <1>2, <2>1, Zenon DEF Popped
    <2>3. s[n] \in Frames
        BY <1>1, <1>2, ElementOfSeq
    <2>4. e \in Frames /\ e.vec = s[n].vec /\ e.cs = s[n].cs
          /\ e.phase = s[n].phase /\ e.savedIF = s[n].savedIF
        BY <2>3 DEF Frames
    <2>5. /\ w \in Seq(Frames)
          /\ Len(w) = n
          /\ \A j \in 1 .. n : w[j] = IF j = n THEN e ELSE s[j]
        <3>1. n \in 1 .. Len(s) /\ s \in Seq(Frames)
            BY <1>1, <1>2
        <3>2. Len(w) = n
            BY <3>1
        <3>3. \A j \in 1 .. n : w[j] = IF j = n THEN e ELSE s[j]
            <4>1. DOMAIN s = 1 .. n
                BY <1>1
            <4>2. QED
                BY <4>1
        <3>4. w \in Seq(Frames)
            BY <3>1, <2>4, ExceptSeq
        <3>5. QED
            BY <3>2, <3>3, <3>4
    <2>6. QED
        BY <1>1, <2>2, <2>4, <2>5
<1>3. CASE ~(n > 0 /\ s[n].phase = "wait")
    <2>1. Popped(st) = s
        BY <1>1, <1>3 DEF Popped
    <2>2. QED
        BY <1>1, <2>1
<1>4. QED
    BY <1>2, <1>3

-----------------------------------------------------------------------------
(* The vector classes of idt_handle_interrupt are disjoint, and the       *)
(* exceptions the CPU raises are neither IRQs nor the syscall.            *)
LEMMA VectorClasses ==
    /\ \A v \in Int : ~(IsIrq(v) /\ IsSyscall(v))
    /\ \A v \in Int : IsException(v) => ~IsIrq(v) /\ ~IsSyscall(v)
    /\ \A v \in FaultVectors : v \in 0 .. NUM_VEC - 1 /\ ~IsIrq(v) /\ ~IsSyscall(v)
    /\ \A v \in UserVectors : v \in 0 .. NUM_VEC - 1
    /\ EXC_GP \in 0 .. NUM_VEC - 1 /\ IsException(EXC_GP)
    /\ INT_SYSCALL \in 0 .. NUM_VEC - 1
    /\ \A l \in Lines : INT_IRQ0 + l \in 0 .. NUM_VEC - 1
                        /\ IsIrq(INT_IRQ0 + l) /\ LineOf(INT_IRQ0 + l) = l
    /\ SignalFor(EXC_DE) = SIG_DIV_ZERO
    /\ \A v : SignalFor(v) \in Signals
<1> USE TrapAssumption DEF IsIrq, IsSyscall, IsException, LineOf, SignalFor
<1>1. \A v \in Int : ~(IsIrq(v) /\ IsSyscall(v))
    OBVIOUS
<1>2. \A v \in Int : IsException(v) => ~IsIrq(v) /\ ~IsSyscall(v)
    OBVIOUS
<1>3. \A v \in FaultVectors : v \in 0 .. NUM_VEC - 1 /\ ~IsIrq(v) /\ ~IsSyscall(v)
    OBVIOUS
<1>4. \A v \in UserVectors : v \in 0 .. NUM_VEC - 1
    OBVIOUS
<1>5. EXC_GP \in 0 .. NUM_VEC - 1 /\ IsException(EXC_GP)
    OBVIOUS
<1>6. INT_SYSCALL \in 0 .. NUM_VEC - 1
    OBVIOUS
<1>7. \A l \in Lines : INT_IRQ0 + l \in 0 .. NUM_VEC - 1
                       /\ IsIrq(INT_IRQ0 + l) /\ LineOf(INT_IRQ0 + l) = l
    OBVIOUS
<1>8. SignalFor(EXC_DE) = SIG_DIV_ZERO /\ \A v : SignalFor(v) \in Signals
    OBVIOUS
<1>9. QED
    BY <1>1, <1>2, <1>3, <1>4, <1>5, <1>6, <1>7, <1>8

LEMMA InUserLen ==
    ASSUME NEW st \in Seq(Frames)
    PROVE  st = <<>> <=> Len(st) = 0
    BY EmptySeq

LEMMA InitIInv == Init => IInv
<1> SUFFICES ASSUME Init PROVE IInv
    OBVIOUS
<1> USE TrapAssumption
<1>1. TypeOK
    BY EmptySeq DEF Init, TypeOK
<1>2. Len(stack) = 0
    BY EmptySeq DEF Init
<1>3. StackShape
    BY <1>2 DEF StackShape, ShapeOK, BottomOK
<1>4. IntrOK
    BY <1>2 DEF Init, IntrOK
<1>5. NoSignalLeftBehind /\ EoiMatchesFrames
    BY <1>2 DEF Init, NoSignalLeftBehind, EoiMatchesFrames
<1>6. QED
    BY <1>1, <1>3, <1>4, <1>5 DEF IInv

-----------------------------------------------------------------------------
(* The steps that push a trap frame. *)

LEMMA FrameType ==
    ASSUME NEW v \in 0 .. NUM_VEC - 1, NEW cs \in CS, NEW b \in BOOLEAN
    PROVE  /\ Frame(v, cs, b) \in Frames
           /\ Frame(v, cs, b).vec = v /\ Frame(v, cs, b).cs = cs
           /\ Frame(v, cs, b).phase = "run" /\ Frame(v, cs, b).savedIF = b
    BY DEF Frame, Frames, Phases

LEMMA PushStep ==
    ASSUME IInv, NEW f \in Frames, f.savedIF = intr, PushOK(stack, f),
           stack' = Append(stack, f), intr' = FALSE,
           isr' = isr \cup IrqOf(f), IrqOf(f) \subseteq Lines, irr' \subseteq Lines,
           UNCHANGED <<halted, pending, delivered, handlers, enabled>>
    PROVE  IInv'
<1>1. stack \in Seq(Frames)
    BY DEF IInv, TypeOK
<1>2. /\ stack' \in Seq(Frames)
      /\ Len(stack') = Len(stack) + 1
      /\ stack'[Len(stack) + 1] = f
    BY <1>1, AppendProperties
<1>3. TypeOK'
    BY <1>2 DEF IInv, TypeOK
<1>4. StackShape'
    BY <1>1, ShapePush DEF IInv, StackShape
<1>5. IntrOK'
    BY <1>1, <1>2 DEF IntrOK, PushOK
<1>6. NoSignalLeftBehind'
    BY <1>2, InUserLen DEF NoSignalLeftBehind, InUser
<1>7. EoiMatchesFrames'
    <2>1. isr = IrqLines(stack)
        BY EoiIsIrqLines DEF IInv
    <2>2. isr' = IrqLines(stack')
        BY <1>1, <2>1, IrqLinesAppend
    <2>3. QED
        BY <2>2 DEF EoiMatchesFrames, IrqLines, IrqIdx
<1>8. QED
    BY <1>3, <1>4, <1>5, <1>6, <1>7 DEF IInv

(* User code executes int v. *)
LEMMA UserIntStep ==
    ASSUME IInv, NEW v \in UserVectors, UserInt(v)
    PROVE  IInv'
<1> DEFINE u == IF Gate(v).dpl = 3 THEN v ELSE EXC_GP
<1> DEFINE f == Frame(u, "USER_CS", intr)
<1>1. stack \in Seq(Frames) /\ Len(stack) = 0 /\ intr = TRUE
    BY InUserLen DEF UserInt, InUser, IInv, TypeOK, IntrOK
<1>2. u \in {INT_SYSCALL, EXC_GP}
    BY DEF Gate
<1>3. u \in 0 .. NUM_VEC - 1 /\ ~IsIrq(u)
    <2>1. INT_SYSCALL \in 0 .. NUM_VEC - 1 /\ ~IsIrq(INT_SYSCALL)
        BY TrapAssumption DEF IsIrq
    <2>2. EXC_GP \in 0 .. NUM_VEC - 1 /\ ~IsIrq(EXC_GP)
        BY TrapAssumption DEF IsIrq
    <2>3. QED
        BY <1>2, <2>1, <2>2, Zenon
<1>4. f \in Frames /\ f.vec = u /\ f.cs = "USER_CS" /\ f.phase = "run"
      /\ f.savedIF = intr
    <2>1. "USER_CS" \in CS /\ intr \in BOOLEAN
        BY <1>1 DEF CS
    <2>2. QED
        BY <1>3, <2>1 DEF f, Frame, Frames, Phases
<1>5. IrqOf(f) = {}
    BY <1>3, <1>4 DEF IrqOf
<1>6. stack' = Append(stack, f) /\ intr' = FALSE
    BY DEF UserInt, Enter, Gate
<1>7. QED
    BY <1>1, <1>4, <1>5, <1>6, PushStep DEF UserInt, PushOK, IInv, TypeOK

(* User code raises a CPU exception. *)
LEMMA UserFaultStep ==
    ASSUME IInv, NEW v \in FaultVectors, UserFault(v)
    PROVE  IInv'
<1> DEFINE f == Frame(v, "USER_CS", intr)
<1>1. stack \in Seq(Frames) /\ Len(stack) = 0 /\ intr = TRUE
    BY InUserLen DEF UserFault, InUser, IInv, TypeOK, IntrOK
<1>2. v \in 0 .. NUM_VEC - 1 /\ ~IsIrq(v)
    BY VectorClasses
<1>3. f \in Frames /\ f.vec = v /\ f.cs = "USER_CS" /\ f.phase = "run"
      /\ f.savedIF = intr
    BY <1>1, <1>2, FrameType DEF CS
<1>4. IrqOf(f) = {}
    BY <1>2, <1>3 DEF IrqOf
<1>5. stack' = Append(stack, f) /\ intr' = FALSE
    BY DEF UserFault, Enter, Gate
<1>6. QED
    BY <1>1, <1>3, <1>4, <1>5, PushStep DEF UserFault, PushOK, IInv, TypeOK

(* Kernel code of a running syscall or IRQ handler faults. *)
LEMMA KernelFaultStep ==
    ASSUME IInv, NEW v \in FaultVectors, KernelFault(v)
    PROVE  IInv'
<1> DEFINE n == Len(stack)
<1> DEFINE f == Frame(v, "KERNEL_CS", intr)
<1>1. stack \in Seq(Frames) /\ n # 0
    BY InUserLen DEF KernelFault, InUser, IInv, TypeOK
<1>2. stack[n].phase = "run"
      /\ (IsSyscall(stack[n].vec) \/ IsIrq(stack[n].vec))
    BY DEF KernelFault, Top
<1>3. intr = FALSE
    BY <1>1, <1>2 DEF IInv, IntrOK
<1>4. v \in 0 .. NUM_VEC - 1 /\ ~IsIrq(v) /\ ~IsSyscall(v)
    BY VectorClasses
<1>5. f \in Frames /\ f.vec = v /\ f.cs = "KERNEL_CS" /\ f.phase = "run"
      /\ f.savedIF = intr
    BY <1>3, <1>4, FrameType DEF CS
<1>6. IrqOf(f) = {}
    BY <1>4, <1>5 DEF IrqOf
<1>7. PushOK(stack, f)
    <2> DEFINE t == Append(stack, f)
    <2>1. t[n + 1] = f /\ t[(n + 1) - 1] = stack[n]
        BY <1>1, AppendProperties
    <2>2. NestedOK(t, n + 1)
        <3>1. /\ t[n + 1].cs = "KERNEL_CS" /\ t[n + 1].vec \in FaultVectors
              /\ ~t[n + 1].savedIF
            BY <1>3, <1>5, <2>1
        <3>2. /\ t[(n + 1) - 1].phase = "run"
              /\ IsSyscall(t[(n + 1) - 1].vec) \/ IsIrq(t[(n + 1) - 1].vec)
            BY <1>2, <2>1
        <3>3. QED
            BY <3>1, <3>2 DEF NestedOK
    <2>3. QED
        BY <1>1, <1>4, <1>5, <2>2 DEF PushOK
<1>8. stack' = Append(stack, f) /\ intr' = FALSE
    BY DEF KernelFault, Enter, Gate
<1>9. QED
    BY <1>5, <1>6, <1>7, <1>8, PushStep DEF KernelFault, IInv, TypeOK

(* The PIC delivers line l: in user mode, or in the hlt of a syscall. *)
LEMMA TakeIrqStep ==
    ASSUME IInv, NEW l \in Lines, TakeIrq(l)
    PROVE  IInv'
<1> DEFINE n == Len(stack)
<1> DEFINE cs == IF InUser THEN "USER_CS" ELSE "KERNEL_CS"
<1> DEFINE f == Frame(INT_IRQ0 + l, cs, intr)
<1>0. stack \in Seq(Frames)
    BY DEF IInv, TypeOK
<1>1. intr = TRUE /\ (InUser <=> n = 0)
    BY <1>0, InUserLen DEF TakeIrq, InUser
<1>2. /\ INT_IRQ0 + l \in 0 .. NUM_VEC - 1
      /\ IsIrq(INT_IRQ0 + l) /\ LineOf(INT_IRQ0 + l) = l
      /\ ~IsSyscall(INT_IRQ0 + l)
    BY VectorClasses, TrapAssumption
<1>3. f \in Frames /\ f.vec = INT_IRQ0 + l /\ f.cs = cs /\ f.phase = "run"
      /\ f.savedIF = intr
    BY <1>1, <1>2, FrameType DEF CS
<1>4. IrqOf(f) = {l}
    BY <1>2, <1>3 DEF IrqOf
<1>5. PushOK(stack, f)
    <2>1. CASE n = 0
        BY <1>1, <1>3, <2>1 DEF PushOK
    <2>2. CASE n # 0
        <3> DEFINE t == Append(stack, f)
        <3>1. stack[n].phase = "wait"
            BY <1>1, <2>2 DEF IInv, IntrOK
        <3>2. t[n + 1] = f /\ t[(n + 1) - 1] = stack[n]
            BY <1>0, <2>2, AppendProperties
        <3>3. f.cs = "KERNEL_CS"
            BY <1>1, <1>3, <2>2
        <3>4. NestedOK(t, n + 1)
            BY <1>1, <1>2, <1>3, <3>1, <3>2, <3>3 DEF NestedOK
        <3>5. QED
            BY <1>1, <1>2, <1>3, <2>2, <3>4 DEF PushOK
    <2>3. QED
        BY <2>1, <2>2
<1>6. stack' = Append(stack, f) /\ intr' = FALSE
    BY DEF TakeIrq, Enter, Gate
<1>7. isr' = isr \cup IrqOf(f) /\ irr' \subseteq Lines
    BY <1>4 DEF TakeIrq, IInv, TypeOK
<1>8. QED
    BY <1>0, <1>3, <1>4, <1>5, <1>6, <1>7, PushStep DEF TakeIrq, IInv, TypeOK

(* Changing the phase of a top frame that is no IRQ leaves the lines. *)
LEMMA IrqLinesNonIrqTop ==
    ASSUME NEW st \in Seq(Frames), Len(st) > 0, ~IsIrq(st[Len(st)].vec),
           NEW g \in Frames, g.vec = st[Len(st)].vec
    PROVE  IrqLines([st EXCEPT ![Len(st)] = g]) = IrqLines(st)
<1> DEFINE t == [st EXCEPT ![Len(st)] = g]
<1>1. /\ t \in Seq(Frames)
      /\ Len(t) = Len(st)
      /\ \A i \in 1 .. Len(st) : t[i] = IF i = Len(st) THEN g ELSE st[i]
    BY ExceptSeq
<1>2. \A i \in 1 .. Len(t) :
          t[i].vec = st[i].vec /\ (IsIrq(t[i].vec) => t[i].phase = st[i].phase)
    BY <1>1
<1>3. QED
    BY <1>1, <1>2, IrqLinesEq

-----------------------------------------------------------------------------
(* The steps that move the top frame to another phase. *)
LEMMA TopStep ==
    ASSUME IInv, Len(stack) > 0, NEW g \in Frames,
           g.vec = Top.vec, g.cs = Top.cs, g.savedIF = Top.savedIF,
           g.phase = "wait" => IsSyscall(g.vec),
           stack' = [stack EXCEPT ![Len(stack)] = g],
           intr' = (g.phase = "wait"),
           isr' = IrqLines(stack'), isr' \subseteq Lines, pending' \subseteq Signals,
           UNCHANGED <<halted, delivered, handlers, enabled, irr>>
    PROVE  IInv'
<1> DEFINE n == Len(stack)
<1>1. stack \in Seq(Frames)
    BY DEF IInv, TypeOK
<1>2. /\ stack' \in Seq(Frames)
      /\ Len(stack') = n
      /\ stack'[n] = g
    BY <1>1, ExceptSeq
<1>3. TypeOK'
    BY <1>2 DEF IInv, TypeOK
<1>4. StackShape'
    BY <1>1, ShapeSetTop DEF IInv, StackShape, Top
<1>5. IntrOK'
    <2>1. Len(stack') # 0 /\ stack'[Len(stack')].phase = g.phase
        BY <1>2
    <2>2. QED
        BY <2>1 DEF IntrOK
<1>6. NoSignalLeftBehind'
    <2>1. stack' # <<>>
        BY <1>2, InUserLen
    <2>2. QED
        BY <2>1 DEF NoSignalLeftBehind, InUser
<1>7. EoiMatchesFrames'
    BY DEF EoiMatchesFrames, IrqLines, IrqIdx
<1>8. QED
    BY <1>3, <1>4, <1>5, <1>6, <1>7 DEF IInv

(* A path of idt_handle_interrupt finishes (Dispatched) from a running  *)
(* frame: IF stays clear.                                                *)
LEMMA DispatchedStep ==
    ASSUME IInv, ~InUser, Top.phase = "run", Dispatched,
           isr' = IrqLines(stack'), isr' \subseteq Lines, pending' \subseteq Signals,
           UNCHANGED <<intr, halted, delivered, handlers, enabled, irr>>
    PROVE  IInv'
<1> DEFINE n == Len(stack)
<1> DEFINE g == [Top EXCEPT !.phase = "signals"]
<1>1. stack \in Seq(Frames) /\ n > 0
    BY InUserLen DEF IInv, TypeOK, InUser
<1>2. Top \in Frames
    BY <1>1, ElementOfSeq DEF Top
<1>3. g \in Frames /\ g.vec = Top.vec /\ g.cs = Top.cs
      /\ g.savedIF = Top.savedIF /\ g.phase = "signals"
    BY <1>2 DEF Frames, Phases
<1>4. intr = FALSE
    BY <1>1 DEF IInv, IntrOK, Top
<1>5. QED
    BY <1>1, <1>3, <1>4, TopStep DEF Dispatched, SetTop

(* The steps that leave the stack as it is. *)
LEMMA SameStackStep ==
    ASSUME IInv, UNCHANGED <<stack, intr, isr>>,
           pending' \subseteq Signals, InUser => pending' = pending,
           delivered' \subseteq Signals, halted' \in BOOLEAN,
           handlers' \in [Lines -> Callbacks \cup {NULL}],
           enabled' \in [Lines -> BOOLEAN], irr' \subseteq Lines
    PROVE  IInv'
BY DEF IInv, TypeOK, StackShape, IntrOK, NoSignalLeftBehind, EoiMatchesFrames,
       InUser

-----------------------------------------------------------------------------
(* One lemma per action of Next. *)

LEMMA HandleExceptionStep ==
    ASSUME IInv, HandleException
    PROVE  IInv'
<1>1. stack \in Seq(Frames) /\ Len(stack) > 0
    BY InUserLen DEF HandleException, IInv, TypeOK, InUser
<1>2. Top \in Frames /\ ~IsIrq(Top.vec)
    <2>1. Top \in Frames
        BY <1>1, ElementOfSeq DEF Top
    <2>2. Top.vec \in Int
        BY <2>1 DEF Frames
    <2>3. QED
        BY <2>1, <2>2, VectorClasses DEF HandleException
<1>3. CASE Top.cs = "USER_CS"
    <2>1. pending' = pending \cup {SignalFor(Top.vec)} /\ Dispatched
          /\ UNCHANGED <<intr, halted, delivered, handlers, enabled, irr, isr>>
        BY <1>3 DEF HandleException, CS
    <2>2. isr' = IrqLines(stack')
        <3>1. [Top EXCEPT !.phase = "signals"] \in Frames
            BY <1>2 DEF Frames, Phases
        <3>2. stack' = [stack EXCEPT ![Len(stack)] = [Top EXCEPT !.phase = "signals"]]
            BY <2>1 DEF Dispatched, SetTop
        <3> DEFINE g == [Top EXCEPT !.phase = "signals"]
        <3>5. /\ ~IsIrq(stack[Len(stack)].vec)
              /\ g \in Frames /\ g.vec = stack[Len(stack)].vec
            BY <1>2, <3>1 DEF Top, Frames
        <3>3. IrqLines(stack') = IrqLines(stack)
            BY <1>1, <3>2, <3>5, IrqLinesNonIrqTop
        <3>4. QED
            BY <2>1, <3>3, EoiIsIrqLines DEF IInv
    <2>3. pending' \subseteq Signals
        BY <2>1, VectorClasses DEF IInv, TypeOK
    <2>4. QED
        BY <1>1, <2>1, <2>2, <2>3, DispatchedStep DEF HandleException, IInv, TypeOK
<1>4. CASE Top.cs # "USER_CS"
    <2>1. halted' = TRUE /\ UNCHANGED <<stack, pending, intr, delivered, handlers,
                                        enabled, irr, isr>>
        BY <1>4 DEF HandleException
    <2>2. QED
        BY <2>1, SameStackStep DEF IInv, TypeOK
<1>5. QED
    BY <1>3, <1>4

LEMMA HandleIrqStep ==
    ASSUME IInv, HandleIrq
    PROVE  IInv'
<1> DEFINE g == [Top EXCEPT !.phase = "signals"]
<1>1. stack \in Seq(Frames) /\ Len(stack) > 0
    BY InUserLen DEF HandleIrq, IInv, TypeOK, InUser
<1>2. Top \in Frames
    BY <1>1, ElementOfSeq DEF Top
<1>3. g \in Frames /\ g.vec = Top.vec /\ g.phase # "run"
    BY <1>2 DEF Frames, Phases
<1>4. stack' = [stack EXCEPT ![Len(stack)] = g]
    BY DEF HandleIrq, Dispatched, SetTop
<1>5. isr' = IrqLines(stack')
    <2>1. isr = IrqLines(stack)
        BY EoiIsIrqLines DEF IInv
    <2>2. IrqLines(stack') = IrqLines(stack) \ {LineOf(Top.vec)}
        BY <1>1, <1>3, <1>4, IrqLinesHandled DEF HandleIrq, IInv, StackShape, Top
    <2>3. QED
        BY <2>1, <2>2 DEF HandleIrq
<1>6. QED
    BY <1>1, <1>5, DispatchedStep DEF HandleIrq, IInv, TypeOK

LEMMA HandleUnknownStep ==
    ASSUME IInv, HandleUnknown
    PROVE  IInv'
<1>1. stack \in Seq(Frames) /\ Len(stack) > 0
    BY InUserLen DEF HandleUnknown, IInv, TypeOK, InUser
<1>2. Top \in Frames
    BY <1>1, ElementOfSeq DEF Top
<1>3. [Top EXCEPT !.phase = "signals"] \in Frames
    BY <1>2 DEF Frames, Phases
<1>4. isr' = IrqLines(stack')
    <2>1. stack' = [stack EXCEPT ![Len(stack)] = [Top EXCEPT !.phase = "signals"]]
        BY DEF HandleUnknown, Dispatched, SetTop
    <2> DEFINE g == [Top EXCEPT !.phase = "signals"]
    <2>4. /\ ~IsIrq(stack[Len(stack)].vec)
          /\ g \in Frames /\ g.vec = stack[Len(stack)].vec
        BY <1>2, <1>3 DEF HandleUnknown, Top, Frames
    <2>2. IrqLines(stack') = IrqLines(stack)
        BY <1>1, <2>1, <2>4, IrqLinesNonIrqTop
    <2>3. QED
        BY <2>2, EoiIsIrqLines DEF HandleUnknown, IInv
<1>5. QED
    BY <1>1, <1>4, DispatchedStep DEF HandleUnknown, IInv, TypeOK

(* The top frame is a syscall's, so no IRQ. *)
LEMMA SyscallTop ==
    ASSUME IInv, InSyscall
    PROVE  /\ stack \in Seq(Frames) /\ Len(stack) > 0
           /\ Top \in Frames /\ ~IsIrq(Top.vec) /\ IsSyscall(Top.vec)
<1>1. stack \in Seq(Frames) /\ Len(stack) > 0
    BY InUserLen DEF InSyscall, IInv, TypeOK, InUser
<1>2. Top \in Frames
    BY <1>1, ElementOfSeq DEF Top
<1>3. Top.vec \in Int
    BY <1>2 DEF Frames
<1>4. QED
    BY <1>1, <1>2, <1>3, VectorClasses DEF InSyscall

(* The top frame of a syscall moves to phase ph; the lines stay. *)
LEMMA SyscallTopLines ==
    ASSUME IInv, InSyscall, NEW ph \in Phases, NEW w \in BOOLEAN,
           stack' = [stack EXCEPT ![Len(stack)] = [Top EXCEPT !.phase = ph,
                                                          !.woke = w]]
    PROVE  /\ [Top EXCEPT !.phase = ph, !.woke = w] \in Frames
           /\ isr = IrqLines(stack')
<1> DEFINE g == [Top EXCEPT !.phase = ph, !.woke = w]
<1>1. /\ stack \in Seq(Frames) /\ Len(stack) > 0
      /\ Top \in Frames /\ ~IsIrq(Top.vec)
    BY SyscallTop
<1>2. g \in Frames /\ g.vec = stack[Len(stack)].vec
    BY <1>1 DEF Frames, Top
<1>3. IrqLines(stack') = IrqLines(stack)
    BY <1>1, <1>2, IrqLinesNonIrqTop DEF Top
<1>4. QED
    BY <1>2, <1>3, EoiIsIrqLines DEF IInv

LEMMA SyscallBlockStep ==
    ASSUME IInv, SyscallBlock
    PROVE  IInv'
<1> DEFINE g == [Top EXCEPT !.phase = "wait", !.woke = FALSE]
<1>1. /\ stack \in Seq(Frames) /\ Len(stack) > 0
      /\ Top \in Frames /\ IsSyscall(Top.vec)
    BY SyscallTop DEF SyscallBlock
<1>2. stack' = [stack EXCEPT ![Len(stack)] = g]
    BY DEF SyscallBlock, SetTop
<1>3. g \in Frames /\ isr = IrqLines(stack')
    BY <1>2, SyscallTopLines DEF SyscallBlock, Phases
<1>4. g.vec = Top.vec /\ g.cs = Top.cs /\ g.savedIF = Top.savedIF
      /\ g.phase = "wait"
    BY <1>1 DEF Frames
<1>5. QED
    BY <1>1, <1>2, <1>3, <1>4, TopStep DEF SyscallBlock, IInv, TypeOK

LEMMA SyscallWakeStep ==
    ASSUME IInv, SyscallWake
    PROVE  IInv'
<1> DEFINE g == [Top EXCEPT !.phase = "run", !.woke = FALSE]
<1>1. /\ stack \in Seq(Frames) /\ Len(stack) > 0
      /\ Top \in Frames /\ IsSyscall(Top.vec)
    BY SyscallTop DEF SyscallWake
<1>2. stack' = [stack EXCEPT ![Len(stack)] = g]
    BY DEF SyscallWake, SetTop
<1>3. g \in Frames /\ isr = IrqLines(stack')
    BY <1>2, SyscallTopLines DEF SyscallWake, Phases
<1>4. g.vec = Top.vec /\ g.cs = Top.cs /\ g.savedIF = Top.savedIF
      /\ g.phase = "run"
    BY <1>1 DEF Frames
<1>5. QED
    BY <1>1, <1>2, <1>3, <1>4, TopStep DEF SyscallWake, IInv, TypeOK

LEMMA SyscallDoneStep ==
    ASSUME IInv, SyscallDone
    PROVE  IInv'
<1>1. stack' = [stack EXCEPT ![Len(stack)] = [Top EXCEPT !.phase = "signals",
                                                        !.woke = Top.woke]]
    <2>1. Top \in Frames
        BY SyscallTop DEF SyscallDone
    <2>2. [Top EXCEPT !.phase = "signals"]
              = [Top EXCEPT !.phase = "signals", !.woke = Top.woke]
        BY <2>1 DEF Frames
    <2>3. QED
        BY <2>2 DEF SyscallDone, Dispatched, SetTop
<1>2. Top.woke \in BOOLEAN
    BY SyscallTop DEF SyscallDone, Frames
<1>3. isr = IrqLines(stack')
    BY <1>1, <1>2, SyscallTopLines DEF SyscallDone, Phases
<1>4. ~InUser
    BY SyscallTop, InUserLen DEF SyscallDone, InUser
<1>5. QED
    BY <1>3, <1>4, DispatchedStep DEF SyscallDone, IInv, TypeOK

LEMMA SameStackSteps ==
    ASSUME IInv,
           \/ \E l \in Lines : DeviceRequest(l)
           \/ \E sig \in Signals : SyscallRaise(sig)
           \/ \E l \in Lines, cb \in Callbacks : RegisterIrqHandler(l, cb)
           \/ \E l \in Lines : UnregisterIrqHandler(l)
    PROVE  IInv'
<1>1. CASE \E l \in Lines : DeviceRequest(l)
    BY <1>1, SameStackStep DEF DeviceRequest, IInv, TypeOK
<1>2. CASE \E sig \in Signals : SyscallRaise(sig)
    BY <1>2, SameStackStep DEF SyscallRaise, InSyscall, IInv, TypeOK
<1>3. CASE \E l \in Lines, cb \in Callbacks : RegisterIrqHandler(l, cb)
    BY <1>3, SameStackStep DEF RegisterIrqHandler, IInv, TypeOK
<1>4. CASE \E l \in Lines : UnregisterIrqHandler(l)
    BY <1>4, SameStackStep DEF UnregisterIrqHandler, IInv, TypeOK
<1>5. QED
    BY <1>1, <1>2, <1>3, <1>4

(* The end of idt_handle_interrupt: signals if the trap came from user  *)
(* mode, then the iret restores the IF the frame saved.                  *)
LEMMA ReturnFromTrapStep ==
    ASSUME IInv, ReturnFromTrap
    PROVE  IInv'
<1> DEFINE n == Len(stack) - 1
<1>1. stack \in Seq(Frames) /\ Len(stack) > 0 /\ n \in Nat
    BY InUserLen DEF ReturnFromTrap, IInv, TypeOK, InUser
<1>2. stack' = Popped(stack) /\ intr' = Top.savedIF
    BY DEF ReturnFromTrap, Popped
<1>3. /\ stack' \in Seq(Frames)
      /\ Len(stack') = n
      /\ \A i \in 1 .. n : /\ stack'[i].vec = stack[i].vec
                           /\ stack'[i].cs = stack[i].cs
                           /\ stack'[i].phase = stack[i].phase
                           /\ stack'[i].savedIF = stack[i].savedIF
    BY <1>1, <1>2, PoppedProps
<1>4. Top.phase = "signals"
    BY DEF ReturnFromTrap
<1>5. TypeOK'
    <2>1. pending' \subseteq Signals /\ delivered' \subseteq Signals
        BY DEF ReturnFromTrap, IInv, TypeOK
    <2>3. Top.savedIF \in BOOLEAN
        <3>1. Top \in Frames
            BY <1>1, ElementOfSeq DEF Top
        <3>2. QED
            BY <3>1 DEF Frames
    <2>2. QED
        BY <1>2, <1>3, <2>1, <2>3 DEF ReturnFromTrap, IInv, TypeOK
<1>6. StackShape'
    BY <1>1, <1>3, ShapePop DEF IInv, StackShape
<1>7. ASSUME n = 0 PROVE IntrOK' /\ NoSignalLeftBehind'
    <2>1. Top = stack[1]
        BY <1>1, <1>7 DEF Top
    <2>2. Top.cs = "USER_CS" /\ Top.savedIF
        BY <1>1, <2>1 DEF IInv, StackShape, ShapeOK, BottomOK
    <2>3. IntrOK'
        BY <1>2, <1>3, <1>7, <2>2 DEF IntrOK
    <2>4. pending' = {}
        BY <2>2 DEF ReturnFromTrap
    <2>5. NoSignalLeftBehind'
        BY <2>4 DEF NoSignalLeftBehind
    <2>6. QED
        BY <2>3, <2>5
<1>8. ASSUME n # 0 PROVE IntrOK' /\ NoSignalLeftBehind'
    <2>1. NestedOK(stack, n + 1)
        BY <1>1, <1>8 DEF IInv, StackShape, ShapeOK
    <2>2. stack[n].phase = "wait" <=> stack[n + 1].savedIF
        BY <2>1 DEF NestedOK
    <2>3. IntrOK'
        BY <1>1, <1>2, <1>3, <1>8, <2>2 DEF IntrOK, Top
    <2>4. NoSignalLeftBehind'
        <3>1. stack' # <<>>
            BY <1>3, <1>8, InUserLen
        <3>2. QED
            BY <3>1 DEF NoSignalLeftBehind, InUser
    <2>5. QED
        BY <2>3, <2>4
<1>9. EoiMatchesFrames'
    <2>1. IrqLines(SubSeq(stack, 1, n)) = IrqLines(stack)
        BY <1>1, <1>4, IrqLinesFront DEF Top
    <2>2. SubSeq(stack, 1, n) \in Seq(Frames)
          /\ Len(SubSeq(stack, 1, n)) = n
          /\ \A i \in 1 .. n : SubSeq(stack, 1, n)[i] = stack[i]
        BY <1>1, SubSeqFront
    <2>3. IrqLines(stack') = IrqLines(SubSeq(stack, 1, n))
        BY <1>3, <2>2, IrqLinesEq
    <2>4. isr' = isr /\ isr = IrqLines(stack)
        BY EoiIsIrqLines DEF ReturnFromTrap, IInv
    <2>5. QED
        BY <2>1, <2>3, <2>4 DEF EoiMatchesFrames, IrqLines, IrqIdx
<1>10. QED
    BY <1>5, <1>6, <1>7, <1>8, <1>9 DEF IInv

LEMMA NextIInv == IInv /\ [Next]_vars => IInv'
<1> SUFFICES ASSUME IInv, [Next]_vars PROVE IInv'
    OBVIOUS
<1>1. CASE \E v \in UserVectors : UserInt(v)
    BY <1>1, UserIntStep
<1>2. CASE \E v \in FaultVectors : UserFault(v) \/ KernelFault(v)
    BY <1>2, UserFaultStep, KernelFaultStep
<1>3. CASE \E l \in Lines : TakeIrq(l)
    BY <1>3, TakeIrqStep
<1>4. CASE Dispatch
    BY <1>4, HandleExceptionStep, HandleIrqStep, HandleUnknownStep DEF Dispatch
<1>5. CASE SyscallBlock \/ SyscallWake \/ SyscallDone
    BY <1>5, SyscallBlockStep, SyscallWakeStep, SyscallDoneStep
<1>6. CASE ReturnFromTrap
    BY <1>6, ReturnFromTrapStep
<1>7. CASE \/ \E l \in Lines : DeviceRequest(l)
           \/ \E sig \in Signals : SyscallRaise(sig)
           \/ \E l \in Lines, cb \in Callbacks : RegisterIrqHandler(l, cb)
           \/ \E l \in Lines : UnregisterIrqHandler(l)
    BY <1>7, SameStackSteps
<1>8. CASE UNCHANGED vars
    BY <1>8, SameStackStep DEF vars, IInv, TypeOK, InUser
<1>9. QED
    BY <1>1, <1>2, <1>3, <1>4, <1>5, <1>6, <1>7, <1>8 DEF Next

LEMMA IInvSpec == Spec => []IInv
    BY InitIInv, NextIInv, PTL DEF Spec

-----------------------------------------------------------------------------
(* An exception frame is the top frame (nothing traps over it).  A      *)
(* kernel one stays in its handler (loop()); over a user one, nothing is *)
(* pending before handle_user_exception and its one signal after.         *)
ExcOK ==
    Len(stack) > 0 /\ IsException(Top.vec) =>
        IF Top.cs = "KERNEL_CS" THEN Top.phase = "run"
        ELSE pending = IF Top.phase = "run" THEN {} ELSE {SignalFor(Top.vec)}

LEMMA ExcIsTop ==
    ASSUME IInv, NEW i \in 1 .. Len(stack), IsException(stack[i].vec)
    PROVE  i = Len(stack)
<1>1. stack \in Seq(Frames) /\ ShapeOK(stack)
    BY DEF IInv, TypeOK, StackShape
<1>2. stack[i].vec \in Int
    <2>1. stack[i] \in Frames
        BY <1>1, ElementOfSeq
    <2>2. QED
        BY <2>1 DEF Frames
<1>3. ~IsIrq(stack[i].vec) /\ ~IsSyscall(stack[i].vec)
    BY <1>2, VectorClasses
<1>4. SUFFICES ASSUME i < Len(stack) PROVE FALSE
    OBVIOUS
<1>5. NestedOK(stack, i + 1)
    BY <1>1, <1>4 DEF ShapeOK
<1>6. stack[i].phase = "wait" => IsSyscall(stack[i].vec)
    BY <1>1 DEF ShapeOK
<1>7. QED
    BY <1>3, <1>5, <1>6 DEF NestedOK

LEMMA InitExcOK == Init => ExcOK
    BY EmptySeq DEF Init, ExcOK

(* A step whose new top is no exception frame keeps ExcOK. *)
LEMMA ExcOKNoExcTop ==
    ASSUME Len(stack') > 0 => ~IsException(stack'[Len(stack')].vec)
    PROVE  ExcOK'
    BY DEF ExcOK, Top

LEMMA NextExcOK == IInv /\ ExcOK /\ [Next]_vars => ExcOK'
<1> SUFFICES ASSUME IInv, ExcOK, [Next]_vars PROVE ExcOK'
    OBVIOUS
<1> USE TrapAssumption
<1>0. stack \in Seq(Frames)
    BY DEF IInv, TypeOK
<1>1. ASSUME NEW f \in Frames, f.cs = "USER_CS", f.phase = "run",
             InUser, stack' = Append(stack, f), pending' = pending
      PROVE  ExcOK'
    <2>1. Len(stack) = 0 /\ pending = {}
        BY <1>0, <1>1, InUserLen DEF IInv, NoSignalLeftBehind, InUser
    <2>2. Len(stack') = 1 /\ stack'[1] = f
        BY <1>0, <1>1, <2>1, AppendProperties
    <2>3. QED
        BY <1>1, <2>1, <2>2 DEF ExcOK, Top
<1>2. CASE \E v \in UserVectors : UserInt(v)
    <2>1. PICK v \in UserVectors : UserInt(v)
        BY <1>2
    <2> DEFINE u == IF Gate(v).dpl = 3 THEN v ELSE EXC_GP
    <2>2. u \in 0 .. NUM_VEC - 1
        BY VectorClasses DEF Gate
    <2>3. intr \in BOOLEAN
        BY DEF IInv, TypeOK
    <2> DEFINE f == Frame(u, "USER_CS", intr)
    <2>4. f \in Frames /\ f.cs = "USER_CS" /\ f.phase = "run"
        BY <2>2, <2>3, FrameType DEF CS
    <2>5. InUser /\ stack' = Append(stack, f) /\ pending' = pending
        BY <2>1 DEF UserInt, Enter
    <2>6. QED
        BY <2>4, <2>5, <1>1
<1>3. CASE \E v \in FaultVectors : UserFault(v)
    <2>1. PICK v \in FaultVectors : UserFault(v)
        BY <1>3
    <2>2. v \in 0 .. NUM_VEC - 1
        BY VectorClasses
    <2>3. intr \in BOOLEAN
        BY DEF IInv, TypeOK
    <2> DEFINE f == Frame(v, "USER_CS", intr)
    <2>4. f \in Frames /\ f.cs = "USER_CS" /\ f.phase = "run"
        BY <2>2, <2>3, FrameType DEF CS
    <2>5. InUser /\ stack' = Append(stack, f) /\ pending' = pending
        BY <2>1 DEF UserFault, Enter
    <2>6. QED
        BY <2>4, <2>5, <1>1
<1>4. CASE \E v \in FaultVectors : KernelFault(v)
    <2>1. PICK v \in FaultVectors : KernelFault(v)
        BY <1>4
    <2>2. Frame(v, "KERNEL_CS", intr) \in Frames
          /\ Frame(v, "KERNEL_CS", intr).cs = "KERNEL_CS"
          /\ Frame(v, "KERNEL_CS", intr).phase = "run"
        BY VectorClasses, FrameType DEF IInv, TypeOK, CS
    <2>3. Len(stack') > 0 /\ stack'[Len(stack')] = Frame(v, "KERNEL_CS", intr)
        BY <1>0, <2>1, <2>2, AppendProperties DEF KernelFault, Enter
    <2>4. QED
        BY <2>2, <2>3 DEF ExcOK, Top
<1>5. CASE \E l \in Lines : TakeIrq(l)
    <2>1. PICK l \in Lines : TakeIrq(l)
        BY <1>5
    <2> DEFINE f == Frame(INT_IRQ0 + l, IF InUser THEN "USER_CS" ELSE "KERNEL_CS",
                          intr)
    <2>2. f \in Frames /\ f.vec = INT_IRQ0 + l
        BY VectorClasses, FrameType DEF IInv, TypeOK, CS
    <2>6. stack' = Append(stack, f)
        BY <2>1 DEF TakeIrq, Enter
    <2>3. Len(stack') > 0 /\ stack'[Len(stack')] = f
        BY <1>0, <2>2, <2>6, AppendProperties
    <2>4. ~IsException(INT_IRQ0 + l)
        BY DEF IsException
    <2>5. QED
        BY <2>2, <2>3, <2>4, ExcOKNoExcTop
<1>6. ASSUME NEW g \in Frames, Len(stack) > 0, g.vec = Top.vec,
             ~IsException(Top.vec), stack' = [stack EXCEPT ![Len(stack)] = g]
      PROVE  ExcOK'
    <2>1. Len(stack') = Len(stack) /\ stack'[Len(stack)] = g
        BY <1>0, <1>6, ExceptSeq
    <2>2. QED
        BY <1>6, <2>1, ExcOKNoExcTop DEF Top
<1>7. ASSUME InSyscall, NEW ph \in Phases, NEW w \in BOOLEAN,
             stack' = [stack EXCEPT ![Len(stack)] = [Top EXCEPT !.phase = ph,
                                                            !.woke = w]]
      PROVE  ExcOK'
    <2>1. Len(stack) > 0 /\ Top \in Frames /\ IsSyscall(Top.vec)
        BY <1>7, SyscallTop
    <2>2. Top.vec \in Int
        BY <2>1 DEF Frames
    <2>3. ~IsException(Top.vec)
        BY <2>1, <2>2, VectorClasses
    <2>4. [Top EXCEPT !.phase = ph, !.woke = w] \in Frames
          /\ [Top EXCEPT !.phase = ph, !.woke = w].vec = Top.vec
        BY <2>1 DEF Frames
    <2>5. QED
        BY <1>7, <2>1, <2>3, <2>4, <1>6
<1>8. CASE SyscallBlock
    BY <1>8, <1>7 DEF SyscallBlock, SetTop, Phases
<1>9. CASE SyscallWake
    BY <1>9, <1>7 DEF SyscallWake, SetTop, Phases
<1>10. CASE SyscallDone
    <2>1. Top \in Frames
        BY <1>10, SyscallTop DEF SyscallDone
    <2>2. [Top EXCEPT !.phase = "signals"]
              = [Top EXCEPT !.phase = "signals", !.woke = Top.woke]
          /\ Top.woke \in BOOLEAN
        BY <2>1 DEF Frames
    <2>3. QED
        BY <1>10, <1>7, <2>2 DEF SyscallDone, Dispatched, SetTop, Phases

<1>11. CASE HandleException
    <2>1. Len(stack) > 0 /\ Top \in Frames
        BY <1>0, <1>11, InUserLen, ElementOfSeq DEF HandleException, InUser, Top
    <2>2. CASE Top.cs = "USER_CS"
        <3> DEFINE g == [Top EXCEPT !.phase = "signals"]
        <3>1. pending = {}
            BY <1>11, <2>1, <2>2 DEF ExcOK, HandleException
        <3>2. pending' = {SignalFor(Top.vec)}
            BY <1>11, <2>2, <3>1 DEF HandleException
        <3>3. stack' = [stack EXCEPT ![Len(stack)] = g]
            BY <1>11, <2>2 DEF HandleException, Dispatched, SetTop, CS
        <3>4. Len(stack') = Len(stack) /\ stack'[Len(stack')] = g
            BY <1>0, <2>1, <3>3, ExceptSeq DEF Frames, Phases
        <3>5. g.cs = "USER_CS" /\ g.phase = "signals" /\ g.vec = Top.vec
            BY <2>1, <2>2 DEF Frames
        <3>6. QED
            BY <2>1, <3>2, <3>4, <3>5 DEF ExcOK, Top
    <2>3. CASE Top.cs # "USER_CS"
        BY <1>11, <2>3 DEF HandleException, ExcOK, Top
    <2>4. QED
        BY <2>2, <2>3
<1>12. CASE HandleIrq \/ HandleUnknown
    <2>1. Len(stack) > 0 /\ Top \in Frames
        BY <1>0, <1>12, InUserLen, ElementOfSeq DEF HandleIrq, HandleUnknown,
                                                   InUser, Top
    <2>2. Top.vec \in Int /\ ~IsException(Top.vec)
        BY <1>12, <2>1, VectorClasses DEF Frames, HandleIrq, HandleUnknown
    <2>3. [Top EXCEPT !.phase = "signals"] \in Frames
          /\ [Top EXCEPT !.phase = "signals"].vec = Top.vec
        BY <2>1 DEF Frames, Phases
    <2>4. stack' = [stack EXCEPT ![Len(stack)] = [Top EXCEPT !.phase = "signals"]]
        BY <1>12 DEF HandleIrq, HandleUnknown, Dispatched, SetTop
    <2>5. QED
        BY <2>1, <2>2, <2>3, <2>4, <1>6
<1>13. CASE ReturnFromTrap
    <2> DEFINE n == Len(stack) - 1
    <2>1. Len(stack) > 0 /\ n \in Nat
        BY <1>0, <1>13, InUserLen DEF ReturnFromTrap, InUser
    <2>2. stack' = Popped(stack)
        BY <1>13 DEF ReturnFromTrap, Popped
    <2>3. Len(stack') = n
          /\ \A i \in 1 .. n : stack'[i].vec = stack[i].vec
        BY <1>0, <2>1, <2>2, PoppedProps
    <2>4. n > 0 => ~IsException(stack[n].vec)
        BY <2>1, ExcIsTop
    <2>5. QED
        BY <2>3, <2>4, ExcOKNoExcTop
<1>14. CASE \/ \E l \in Lines : DeviceRequest(l)
            \/ \E sig \in Signals : SyscallRaise(sig)
            \/ \E l \in Lines, cb \in Callbacks : RegisterIrqHandler(l, cb)
            \/ \E l \in Lines : UnregisterIrqHandler(l)
    <2>1. CASE \E l \in Lines : DeviceRequest(l)
        BY <2>1 DEF DeviceRequest, ExcOK, Top
    <2>2. CASE ~\E l \in Lines : DeviceRequest(l)
        <3>1. InSyscall /\ stack' = stack
            BY <1>14, <2>2 DEF SyscallRaise, RegisterIrqHandler,
                               UnregisterIrqHandler
        <3>2. Len(stack) > 0 /\ Top \in Frames /\ IsSyscall(Top.vec)
            BY <3>1, SyscallTop
        <3>3. ~IsException(Top.vec)
            BY <3>2, VectorClasses DEF Frames
        <3>4. QED
            BY <3>1, <3>3, ExcOKNoExcTop DEF Top
    <2>3. QED
        BY <2>1, <2>2
<1>15. CASE UNCHANGED vars
    BY <1>15 DEF vars, ExcOK, Top
<1>16. QED
    BY <1>2, <1>3, <1>4, <1>5, <1>8, <1>9, <1>10, <1>11, <1>12, <1>13, <1>14,
       <1>15 DEF Next, Dispatch

LEMMA KInvSpec == Spec => [](IInv /\ ExcOK)
<1>1. Init => IInv /\ ExcOK
    BY InitIInv, InitExcOK
<1>2. IInv /\ ExcOK /\ [Next]_vars => (IInv /\ ExcOK)'
    BY NextIInv, NextExcOK
<1>3. QED
    BY <1>1, <1>2, PTL DEF Spec

(* The facts about the top frame that every trap path starts from. *)
LEMMA TopFacts ==
    ASSUME IInv, Len(stack) > 0
    PROVE  /\ stack \in Seq(Frames) /\ Top \in Frames /\ Top.vec \in Int
           /\ ~InUser
           /\ (intr <=> Top.phase = "wait")
<1>1. stack \in Seq(Frames)
    BY DEF IInv, TypeOK
<1>2. Top \in Frames
    BY <1>1, ElementOfSeq DEF Top
<1>3. Top.vec \in Int
    BY <1>2 DEF Frames
<1>4. ~InUser
    BY <1>1, InUserLen DEF InUser
<1>5. QED
    BY <1>1, <1>2, <1>3, <1>4 DEF IInv, IntrOK, Top

-----------------------------------------------------------------------------
(* Every reachable state of the dispatcher is well typed. *)
THEOREM TypeCorrect == Spec => []TypeOK
<1>1. IInv => TypeOK
    BY DEF IInv
<1>2. QED
    BY IInvSpec, <1>1, PTL

(* Kernel code runs with IF clear except in the hlt of a blocked         *)
(* syscall: the interrupt gates of idt_init, the iret and the cli after  *)
(* hlt keep it so, for every vector numbering and set of lines.           *)
THEOREM KernelMaskedHolds == Spec => []KernelMasked
<1>1. IInv => KernelMasked
    <2> SUFFICES ASSUME IInv, ~InUser, Top.phase # "wait" PROVE ~intr
        BY DEF KernelMasked
    <2>1. Len(stack) # 0
        BY InUserLen DEF IInv, TypeOK, InUser
    <2>2. QED
        BY <2>1 DEF IInv, IntrOK, Top
<1>2. QED
    BY IInvSpec, <1>1, PTL

(* User code never runs with a signal pending: signal_handle_all at the *)
(* end of every trap from user mode drains what the trap raised.         *)
THEOREM NoSignalLeftBehindHolds == Spec => []NoSignalLeftBehind
<1>1. IInv => NoSignalLeftBehind
    BY DEF IInv
<1>2. QED
    BY IInvSpec, <1>1, PTL

(* The PIC's in-service lines are exactly the IRQ traps before their     *)
(* send_eoi: one EOI per delivered IRQ, after its callback.               *)
THEOREM EoiMatchesFramesHolds == Spec => []EoiMatchesFrames
<1>1. IInv => EoiMatchesFrames
    BY DEF IInv
<1>2. QED
    BY IInvSpec, <1>1, PTL

(* IRQ handlers never nest, although a syscall in hlt is interruptible. *)
THEOREM AtMostOneIrqHolds == Spec => []AtMostOneIrq
<1>1. IInv => AtMostOneIrq
    BY OneIrq DEF IInv, TypeOK, StackShape, AtMostOneIrq
<1>2. QED
    BY IInvSpec, <1>1, PTL

-----------------------------------------------------------------------------
(* Action properties. *)

(* The body of KernelFaultNeverReturns holds of every step. *)
LEMMA KernelFaultStepOK ==
    ASSUME IInv, ExcOK, [Next]_vars,
           \E i \in 1 .. Len(stack) :
               IsException(stack[i].vec) /\ stack[i].cs = "KERNEL_CS"
    PROVE  stack' = stack /\ pending' = pending
<1>1. PICK i \in 1 .. Len(stack) :
          IsException(stack[i].vec) /\ stack[i].cs = "KERNEL_CS"
    OBVIOUS
<1>2. i = Len(stack)
    BY <1>1, ExcIsTop
<1>3. Len(stack) > 0 /\ IsException(Top.vec) /\ Top.cs = "KERNEL_CS"
    BY <1>1, <1>2 DEF Top
<1>4. Top.phase = "run"
    BY <1>3 DEF ExcOK
<1>5. /\ stack \in Seq(Frames) /\ Top.vec \in Int /\ ~InUser
      /\ ~intr
    BY <1>3, <1>4, TopFacts
<1>6. ~IsIrq(Top.vec) /\ ~IsSyscall(Top.vec)
    BY <1>3, <1>5, VectorClasses
<1>7. ~(\E v \in UserVectors : UserInt(v))
      /\ ~(\E v \in FaultVectors : UserFault(v) \/ KernelFault(v))
      /\ ~(\E l \in Lines : TakeIrq(l))
    BY <1>5, <1>6 DEF UserInt, UserFault, KernelFault, TakeIrq
<1>8. ~HandleIrq /\ ~HandleUnknown /\ ~ReturnFromTrap /\ ~InSyscall
    BY <1>3, <1>4, <1>6 DEF HandleIrq, HandleUnknown, ReturnFromTrap, InSyscall
<1>9. ~(\E sig \in Signals : SyscallRaise(sig))
      /\ ~(\E l \in Lines, cb \in Callbacks : RegisterIrqHandler(l, cb))
      /\ ~(\E l \in Lines : UnregisterIrqHandler(l))
      /\ ~SyscallBlock /\ ~SyscallWake /\ ~SyscallDone
    BY <1>8 DEF SyscallRaise, RegisterIrqHandler, UnregisterIrqHandler,
                SyscallBlock, SyscallWake, SyscallDone
<1>10. HandleException => stack' = stack /\ pending' = pending
    BY <1>3 DEF HandleException
<1>11. (\E l \in Lines : DeviceRequest(l)) => stack' = stack /\ pending' = pending
    BY DEF DeviceRequest
<1>12. QED
    BY <1>7, <1>8, <1>9, <1>10, <1>11 DEF Next, Dispatch, vars

(* A kernel-mode exception never returns: from the moment its frame is  *)
(* pushed, loop() keeps every frame on the stack and every signal         *)
(* pending, for every value of the constants.                            *)
THEOREM KernelFaultNeverReturnsHolds == Spec => KernelFaultNeverReturns
<1>1. IInv /\ ExcOK /\ [Next]_vars =>
          [(\E i \in 1 .. Len(stack) :
              IsException(stack[i].vec) /\ stack[i].cs = "KERNEL_CS")
           => stack' = stack /\ pending' = pending]_vars
    BY KernelFaultStepOK
<1>2. QED
    BY KInvSpec, <1>1, PTL DEF Spec, KernelFaultNeverReturns

LEMMA OnlyOne ==
    ASSUME NEW n \in Nat, n > 0, ~(n \in 2 .. n)
    PROVE  n = 1
    OBVIOUS

(* A user-mode frame is the bottom one: every nested frame is kernel's. *)
LEMMA UserTopIsBottom ==
    ASSUME IInv, Len(stack) > 0, Top.cs = "USER_CS"
    PROVE  Len(stack) = 1 /\ stack[1] = Top
<1>1. stack \in Seq(Frames) /\ ShapeOK(stack)
    BY DEF IInv, TypeOK, StackShape
<1>2. ~(Len(stack) \in 2 .. Len(stack))
    BY <1>1 DEF ShapeOK, NestedOK, Top
<1>3. Len(stack) = 1
    <2>1. Len(stack) \in Nat
        BY <1>1
    <2>2. QED
        BY <2>1, <1>2, OnlyOne
<1>4. QED
    BY <1>3 DEF Top

(* Outside the user-mode return, no step takes a signal out of pending. *)
LEMMA PendingGrows ==
    ASSUME [Next]_vars, ~(ReturnFromTrap /\ Top.cs = "USER_CS")
    PROVE  pending \subseteq pending'
<1>1. ReturnFromTrap => pending' = pending
    BY DEF ReturnFromTrap
<1>2. HandleException => pending \subseteq pending'
    BY DEF HandleException
<1>3. QED
    BY <1>1, <1>2 DEF Next, Dispatch, vars, UserInt, UserFault, KernelFault,
       DeviceRequest, TakeIrq, HandleIrq, HandleUnknown, SyscallRaise,
       RegisterIrqHandler, UnregisterIrqHandler, SyscallBlock, SyscallWake,
       SyscallDone

(* Signals leave pending only on the way back to user mode (the         *)
(* deliver_signals call of the user-mode return), for every value of   *)
(* the constants.                                                        *)
THEOREM SignalsOnlyToUserHolds == Spec => SignalsOnlyToUser
<1>1. IInv /\ [Next]_vars =>
          [pending' \subseteq pending /\ pending' # pending =>
               /\ Len(stack) = 1
               /\ stack[1].cs = "USER_CS"
               /\ stack[1].phase = "signals"]_vars
    <2> SUFFICES ASSUME IInv, [Next]_vars,
                        pending' \subseteq pending, pending' # pending
                 PROVE  /\ Len(stack) = 1
                        /\ stack[1].cs = "USER_CS"
                        /\ stack[1].phase = "signals"
        BY DEF vars
    <2>1. ReturnFromTrap /\ Top.cs = "USER_CS"
        BY PendingGrows
    <2>2. Len(stack) > 0
        BY <2>1, InUserLen DEF ReturnFromTrap, IInv, TypeOK, InUser
    <2>3. Len(stack) = 1 /\ stack[1] = Top
        BY <2>1, <2>2, UserTopIsBottom
    <2>4. QED
        BY <2>1, <2>3 DEF ReturnFromTrap
<1>2. QED
    BY IInvSpec, <1>1, PTL DEF Spec, SignalsOnlyToUser

(* The body of UserFaultHandled holds of every step. *)
LEMMA UserFaultStepOK ==
    ASSUME IInv, ExcOK, [Next]_vars,
           Len(stack) = 1, IsException(stack[1].vec),
           stack[1].cs = "USER_CS", stack' = <<>>
    PROVE  delivered' = IF stack[1].vec = EXC_DE THEN {SIG_DIV_ZERO}
                        ELSE {SIG_SEGFAULT}
<1>1. Top = stack[1] /\ Len(stack) > 0
    BY DEF Top
<1>2. /\ stack \in Seq(Frames) /\ Top.vec \in Int /\ ~InUser
      /\ (intr <=> Top.phase = "wait")
    BY <1>1, TopFacts
<1>3. ShapeOK(stack)
    BY DEF IInv, StackShape
<1>4. ~IsIrq(Top.vec) /\ ~IsSyscall(Top.vec)
    BY <1>1, <1>2, VectorClasses
<1>5. Top.phase # "wait"
    BY <1>1, <1>3, <1>4 DEF ShapeOK
<1>6. DOMAIN stack = {1} /\ DOMAIN stack' = {}
    BY <1>2
<1>7. ~(\E v \in UserVectors : UserInt(v))
      /\ ~(\E v \in FaultVectors : UserFault(v) \/ KernelFault(v))
      /\ ~(\E l \in Lines : TakeIrq(l))
      /\ ~HandleIrq /\ ~HandleUnknown /\ ~InSyscall
    BY <1>1, <1>2, <1>4, <1>5 DEF UserInt, UserFault, KernelFault, TakeIrq,
       HandleIrq, HandleUnknown, InSyscall
<1>8. ~(\E sig \in Signals : SyscallRaise(sig))
      /\ ~(\E l \in Lines, cb \in Callbacks : RegisterIrqHandler(l, cb))
      /\ ~(\E l \in Lines : UnregisterIrqHandler(l))
      /\ ~SyscallBlock /\ ~SyscallWake /\ ~SyscallDone
    BY <1>7 DEF SyscallRaise, RegisterIrqHandler, UnregisterIrqHandler,
                SyscallBlock, SyscallWake, SyscallDone
<1>9. ~HandleException /\ ~(\E l \in Lines : DeviceRequest(l))
      /\ stack' # stack
    BY <1>1, <1>6 DEF HandleException, Dispatched, SetTop, DeviceRequest
<1>10. ReturnFromTrap
    BY <1>7, <1>8, <1>9 DEF Next, Dispatch, vars
<1>11. Top.phase = "signals" /\ delivered' = pending
    BY <1>1, <1>10 DEF ReturnFromTrap
<1>12. pending = {SignalFor(Top.vec)}
    BY <1>1, <1>11 DEF ExcOK
<1>13. QED
    BY <1>1, <1>12, <1>11 DEF SignalFor

(* A user-mode exception returns having delivered exactly the signal     *)
(* handle_user_exception chose for its vector, for every value of the    *)
(* constants.                                                            *)
THEOREM UserFaultHandledHolds == Spec => UserFaultHandled
<1>1. IInv /\ ExcOK /\ [Next]_vars =>
          [(/\ Len(stack) = 1
            /\ IsException(stack[1].vec) /\ stack[1].cs = "USER_CS"
            /\ stack' = <<>>)
           => delivered' = IF stack[1].vec = EXC_DE THEN {SIG_DIV_ZERO}
                           ELSE {SIG_SEGFAULT}]_vars
    BY UserFaultStepOK
<1>2. QED
    BY KInvSpec, <1>1, PTL DEF Spec, UserFaultHandled

=============================================================================
