--------------------------- MODULE TerminalProofs ---------------------------
(***************************************************************************)
(* Proofs about Terminal for every value of its constants.                 *)
(*                                                                         *)
(* Neither TypeOK nor ReadDecisionValid is inductive alone:                *)
(* that count - nread stays a count, and that the decision of              *)
(* wait_until_readable is still valid at the copy, both rest on the fact   *)
(* that a keystroke cannot be handled while the kernel runs the syscall    *)
(* with interrupts masked.  IInv adds that fact (KernelMasked).            *)
(***************************************************************************)
EXTENDS Terminal, TLAPS

(* The cursor type of TypeOK. *)
CursorOK(cur) ==
    /\ cur \in [logical_x : Nat, screen_x : 0 .. NUM_COLS - 1, screen_y : Int]
    /\ cur.screen_y < NUM_ROWS

(* Inside a syscall, outside the sti; hlt window, interrupts are masked:  *)
(* the interrupt gates cleared IF and nothing in the kernel sets it.       *)
KernelMasked == pc \in {"check", "copy", "write"} => ~intr

IInv ==
    /\ TypeOK
    /\ KernelMasked
    /\ ReadDecisionValid
    /\ NoLostWakeup

-----------------------------------------------------------------------------
(* terminal_putc keeps the cursor a cursor: screen_x in range, screen_y   *)
(* below the last row, logical_x a natural number.                         *)
LEMMA PutcType ==
    ASSUME NEW cur, CursorOK(cur), NEW c
    PROVE  CursorOK(Putc(cur, c))
<1> USE ConstAssumption
<1>1. CursorOK(PutNewline(cur))
    BY DEF CursorOK, PutNewline
<1>2. CursorOK(PutBackspace(cur))
    BY DEF CursorOK, PutBackspace
<1>3. CursorOK(PutPrintable(cur))
    BY DEF CursorOK, PutPrintable
<1>4. QED
    BY <1>1, <1>2, <1>3 DEF Putc

LEMMA TypeOKCursor == TypeOK => CursorOK(cursor)
    BY DEF TypeOK, CursorOK

-----------------------------------------------------------------------------
LEMMA InitIInv == Init => IInv
<1> SUFFICES ASSUME Init PROVE IInv
    OBVIOUS
<1> USE ConstAssumption
<1>1. TypeOK
    BY DEF Init, TypeOK, BufIdx, Cells, PCs, ReadPCs
<1>2. QED
    BY <1>1 DEF Init, IInv, KernelMasked, ReadDecisionValid, NoLostWakeup

LEMMA NextIInv == IInv /\ [Next]_vars => IInv'
<1> SUFFICES ASSUME IInv, [Next]_vars PROVE IInv'
    OBVIOUS
<1> USE ConstAssumption, WriteAssumption
<1> USE DEF IInv
<1>1. ASSUME NEW n \in ReadSizes, ReadEnter(n) PROVE IInv'
    <2>1. req' \in Int /\ req' <= TERMINAL_BUF_SIZE
        BY <1>1 DEF ReadEnter
    <2>2. TypeOK'
        BY <1>1, <2>1 DEF ReadEnter, TypeOK, PCs, ReadPCs
    <2>3. QED
        BY <1>1, <2>2 DEF ReadEnter, KernelMasked, ReadDecisionValid,
                      NoLostWakeup
<1>2. CASE ReadCheck
    <2>1. CASE req <= count /\ nread' = req /\ pc' = "copy" /\ UNCHANGED intr
        BY <1>2, <2>1 DEF ReadCheck, TypeOK, KernelMasked, ReadDecisionValid,
                      NoLostWakeup, PCs, ReadPCs
    <2>2. CASE /\ req > count
               /\ \E i \in NewlineAt : IsFirstNewline(i) /\ nread' = i + 1
               /\ pc' = "copy"
               /\ UNCHANGED intr
        <3>1. PICK i \in NewlineAt : nread' = i + 1
            BY <2>2
        <3>2. i \in 0 .. count - 1 /\ buf[i] = NL
            BY <3>1 DEF NewlineAt
        <3>3. count \in 0 .. TERMINAL_BUF_SIZE
            BY DEF TypeOK
        <3>4. ReadDecisionValid'
            BY <1>2, <2>2, <3>1, <3>2, <3>3 DEF ReadCheck, ReadDecisionValid
        <3>5. QED
            BY <1>2, <2>2, <3>1, <3>2, <3>3, <3>4
            DEF ReadCheck, TypeOK, KernelMasked, NoLostWakeup, PCs, ReadPCs
    <2>3. CASE req > count /\ NewlineAt = {} /\ intr' = TRUE /\ pc' = "halted"
               /\ UNCHANGED nread
        BY <1>2, <2>3 DEF ReadCheck, TypeOK, KernelMasked, ReadDecisionValid,
                      NoLostWakeup, ReadReady, NewlineAt, PCs, ReadPCs
    <2>4. QED
        BY <1>2, <2>1, <2>2, <2>3 DEF ReadCheck
<1>3. CASE Wake
    BY <1>3 DEF Wake, TypeOK, KernelMasked, ReadDecisionValid,
              NoLostWakeup, PCs, ReadPCs
<1>4. CASE ReadCopy
    <2> DEFINE i == IF nread > 0 THEN nread ELSE 0
    <2>1. i \in 0 .. count
        BY <1>4 DEF ReadCopy, ReadDecisionValid, TypeOK
    <2>2. lastRead' \in Seq(Cells)
        BY <1>4, <2>1 DEF ReadCopy, TypeOK, BufIdx
    <2>3. buf' \in [BufIdx -> Cells]
        BY <1>4 DEF ReadCopy, MemmoveResults
    <2>4. count' \in 0 .. TERMINAL_BUF_SIZE
        BY <1>4, <2>1 DEF ReadCopy, TypeOK
    <2>5. TypeOK'
        BY <1>4, <2>2, <2>3, <2>4 DEF ReadCopy, TypeOK, PCs
    <2>6. QED
        BY <1>4, <2>5 DEF ReadCopy, KernelMasked, ReadDecisionValid,
                      NoLostWakeup
<1>5. ASSUME NEW s \in WriteStrings, WriteEnter(s) PROVE IInv'
    BY <1>5 DEF WriteEnter, TypeOK, KernelMasked, ReadDecisionValid,
              NoLostWakeup, PCs
<1>6. CASE WriteChar
    <2>1. Head(wrem) \in WriteChars /\ Tail(wrem) \in Seq(WriteChars)
        BY <1>6 DEF WriteChar, TypeOK
    <2>2. CursorOK(cursor')
        BY <1>6, TypeOKCursor, PutcType DEF WriteChar
    <2>3. TypeOK'
        BY <1>6, <2>1, <2>2 DEF WriteChar, TypeOK, CursorOK
    <2>4. QED
        BY <1>6, <2>3 DEF WriteChar, KernelMasked, ReadDecisionValid,
                      NoLostWakeup
<1>7. CASE WriteDone
    BY <1>7 DEF WriteDone, TypeOK, KernelMasked, ReadDecisionValid,
              NoLostWakeup, PCs
<1>8. ASSUME NEW c \in KeyChars, KeyboardChar(c) PROVE IInv'
    <2>1. pc \in {"user", "halted", "woke"} /\ pc' \in {"user", "woke"}
        BY <1>8 DEF KeyboardChar, Resume, KernelMasked, TypeOK, PCs, ReadPCs
    <2>2. CursorOK(cursor')
        BY <1>8, TypeOKCursor, PutcType DEF KeyboardChar
    <2>3. buf' \in [BufIdx -> Cells] /\ count' \in 0 .. TERMINAL_BUF_SIZE
        BY <1>8 DEF KeyboardChar, TypeOK, KeyChars, Cells, BufIdx
    <2>4. TypeOK'
        BY <1>8, <2>1, <2>2, <2>3 DEF KeyboardChar, TypeOK, PCs, ReadPCs, CursorOK
    <2>5. QED
        BY <2>1, <2>4 DEF KernelMasked, ReadDecisionValid, NoLostWakeup
<1>9. ASSUME NEW k \in CtrlEvents, KeyboardCtrl(k) PROVE IInv'
    <2>1. pc \in {"user", "halted", "woke"} /\ pc' \in {"user", "woke"}
        BY <1>9 DEF KeyboardCtrl, Resume, KernelMasked, TypeOK, PCs, ReadPCs
    <2>2. TypeOK'
        BY <1>9, <2>1 DEF KeyboardCtrl, TypeOK, PCs, ReadPCs
    <2>3. QED
        BY <2>1, <2>2 DEF KernelMasked, ReadDecisionValid, NoLostWakeup
<1>10. CASE OtherIrq
    <2>1. pc \in {"user", "halted", "woke"} /\ pc' \in {"user", "woke"}
        BY <1>10 DEF OtherIrq, Resume, KernelMasked, TypeOK, PCs, ReadPCs
    <2>2. TypeOK'
        BY <1>10, <2>1 DEF OtherIrq, TypeOK, PCs, ReadPCs
    <2>3. QED
        BY <2>1, <2>2 DEF KernelMasked, ReadDecisionValid, NoLostWakeup
<1>11. CASE UNCHANGED vars
    BY <1>11 DEF vars, TypeOK, KernelMasked, ReadDecisionValid, NoLostWakeup,
               ReadReady, NewlineAt
<1>12. QED
    BY <1>1, <1>2, <1>3, <1>4, <1>5, <1>6, <1>7, <1>8, <1>9, <1>10, <1>11
    DEF Next

-----------------------------------------------------------------------------
(* A step that keeps req and lastRead, and returns to user or write mode   *)
(* only from there, keeps what the last read() returned well formed.       *)
LEMMA ResultKept ==
    ASSUME ReadResultWellFormed, req' = req, lastRead' = lastRead,
           pc' \in {"user", "write"} => pc \in {"user", "write"}
    PROVE  ReadResultWellFormed'
    BY DEF ReadResultWellFormed

(* The copy returns what wait_until_readable decided: nbytes, or the bytes *)
(* up to and including the first newline.                                  *)
LEMMA CopyResult ==
    ASSUME IInv, ReadCopy
    PROVE  ReadResultWellFormed'
<1> DEFINE i == IF nread > 0 THEN nread ELSE 0
<1>1. /\ lastRead' = [j \in 1 .. i |-> buf[j - 1]]
      /\ req' = req /\ pc = "copy"
    BY DEF ReadCopy
<1>2. nread \in Int /\ req \in Int
    BY DEF IInv, TypeOK
<1>3. /\ nread <= count
      /\ \/ nread = req
         \/ nread \in 1 .. TERMINAL_BUF_SIZE /\ buf[nread - 1] = NL
    BY <1>1 DEF IInv, ReadDecisionValid
<1>4. Len(lastRead') = i
    BY <1>1, <1>2
<1>5. CASE nread = req
    BY <1>1, <1>2, <1>4, <1>5 DEF ReadResultWellFormed
<1>6. CASE nread \in 1 .. TERMINAL_BUF_SIZE /\ buf[nread - 1] = NL
    <2>1. i = nread /\ nread >= 1
        BY <1>6
    <2>2. Len(lastRead') = nread /\ lastRead'[nread] = NL
        BY <1>1, <1>4, <1>6, <2>1
    <2>3. lastRead' # <<>>
        <3>1. Len(<<>>) = 0 /\ Len(lastRead') # 0
            BY <2>1, <2>2
        <3>2. QED
            BY <3>1, Zenon
    <2>4. QED
        BY <2>2, <2>3 DEF ReadResultWellFormed
<1>7. QED
    BY <1>3, <1>5, <1>6

LEMMA NextResult ==
    IInv /\ ReadResultWellFormed /\ [Next]_vars => ReadResultWellFormed'
<1> SUFFICES ASSUME IInv, ReadResultWellFormed, [Next]_vars
             PROVE  ReadResultWellFormed'
    OBVIOUS
<1>1. CASE ReadCopy
    BY <1>1, CopyResult
<1>2. CASE \E n \in ReadSizes : ReadEnter(n)
    BY <1>2 DEF ReadEnter, ReadResultWellFormed
<1>3. CASE ReadCheck \/ Wake
    <2>1. pc' \in {"copy", "halted", "check"}
        BY <1>3 DEF ReadCheck, Wake
    <2>2. QED
        BY <1>3, <2>1 DEF ReadCheck, Wake, ReadResultWellFormed
<1>4. CASE (\E s \in WriteStrings : WriteEnter(s)) \/ WriteChar \/ WriteDone
    BY <1>4, ResultKept DEF WriteEnter, WriteChar, WriteDone
<1>5. CASE \/ \E c \in KeyChars : KeyboardChar(c)
           \/ \E k \in CtrlEvents : KeyboardCtrl(k)
           \/ OtherIrq
    <2>1. req' = req /\ lastRead' = lastRead /\ pc' = (IF pc = "halted" THEN "woke" ELSE pc)
        BY <1>5 DEF KeyboardChar, KeyboardCtrl, OtherIrq, Resume
    <2>2. QED
        BY <2>1, ResultKept
<1>6. CASE UNCHANGED vars
    BY <1>6, ResultKept DEF vars
<1>7. QED
    BY <1>1, <1>2, <1>3, <1>4, <1>5, <1>6 DEF Next

-----------------------------------------------------------------------------
(* Every reachable state of the terminal is well typed. *)
THEOREM TypeCorrect == Spec => []TypeOK
<1>1. IInv => TypeOK
    BY DEF IInv
<1>2. QED
    BY InitIInv, NextIInv, <1>1, PTL DEF Spec

(* The count and the newline position that wait_until_readable returned   *)
(* are still true of the buffer when terminal_read copies from it.         *)
THEOREM DecisionStable == Spec => []ReadDecisionValid
<1>1. IInv => ReadDecisionValid
    BY DEF IInv
<1>2. QED
    BY InitIInv, NextIInv, <1>1, PTL DEF Spec

(* A read() that has returned gave the program exactly the clamped nbytes *)
(* or a line ending in its newline, for every buffer size: the decision   *)
(* of wait_until_readable reaches the copy of terminal_read intact.        *)
THEOREM ResultWellFormedHolds == Spec => []ReadResultWellFormed
<1>1. Init => ReadResultWellFormed
    BY DEF Init, ReadResultWellFormed
<1>2. IInv /\ ReadResultWellFormed /\ [Next]_vars => IInv' /\ ReadResultWellFormed'
    BY NextIInv, NextResult
<1>3. QED
    BY InitIInv, <1>1, <1>2, PTL DEF Spec

=============================================================================
