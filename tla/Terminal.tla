------------------------------ MODULE Terminal ------------------------------
(***************************************************************************)
(* The terminal line discipline of student-distrib/terminal.c together     *)
(* with the single execution stream that calls it and the interrupts that  *)
(* feed it.                                                                *)
(*                                                                         *)
(* There is one CPU.  The executing process is either in user mode (pc =   *)
(* "user"), inside the read() syscall (pc \in ReadPCs) or inside the       *)
(* write() syscall (pc = "write").  Every gate of the IDT is an interrupt  *)
(* gate (idt.c sets reserved3 = 0), so entering a syscall clears IF, and   *)
(* iret back to user mode sets it again.  The only place the kernel sets   *)
(* IF itself is the sti; hlt pair of wait_until_readable.  An interrupt    *)
(* handler (keyboard, or any other line) runs to completion with IF clear  *)
(* and is therefore one step, enabled only while IF is set.                *)
(*                                                                         *)
(* The character grid is abstracted away: scrolling is represented only by *)
(* what the caller of terminal_scroll_down does to the cursor.             *)
(***************************************************************************)
EXTENDS Integers, Sequences

CONSTANTS
    Chars,              \* keyboard/output characters other than the ones below
    NL, CR, BS, NUL,    \* '\n', '\r', '\b', '\0'
    TERMINAL_BUF_SIZE,  \* capacity of the keyboard input buffer
    NUM_COLS, NUM_ROWS, \* size of the character grid
    NUM_TERMINALS,
    ReadSizes,          \* nbytes arguments a program passes to read()
    WriteStrings,       \* buffers a program passes to write()
    MaxLogicalX         \* model bound on cursor.logical_x

ASSUME ConstAssumption ==
    /\ TERMINAL_BUF_SIZE \in Nat \ {0}
    /\ NUM_COLS \in Nat \ {0}
    /\ NUM_ROWS \in Nat \ {0}
    /\ NUM_TERMINALS \in Nat \ {0}
    /\ ReadSizes \subseteq Int
    /\ MaxLogicalX \in Nat
    /\ {NL, CR, BS, NUL} \cap Chars = {}
    /\ NL # CR /\ NL # BS /\ NL # NUL /\ CR # BS /\ CR # NUL /\ BS # NUL

(* Bytes a keystroke can deliver: keycode_map also yields '\0' (Esc).      *)
KeyChars == Chars \cup {NL, BS, NUL}

(* Bytes a program may write. *)
WriteChars == Chars \cup {NL, CR, BS, NUL}

ASSUME WriteAssumption == WriteStrings \subseteq Seq(WriteChars)

(* Values an input buffer cell can hold: '\b' is never stored. *)
Cells == Chars \cup {NL, NUL}

(* Control sequences of kbd_input_ctrl_t; keycode_to_ctrl yields          *)
(* KCTL_NONE for every Ctrl combination other than Ctrl+L.                 *)
CtrlEvents == {"KCTL_NONE", "KCTL_CLEAR", "KCTL_TERM1", "KCTL_TERM2",
               "KCTL_TERM3"}

BufIdx == 0 .. TERMINAL_BUF_SIZE - 1

ReadPCs == {"check", "halted", "woke", "copy"}
PCs == {"user", "write"} \cup ReadPCs

VARIABLES
    buf,               \* input.buf
    count,             \* input.count
    cursor,            \* cursor (logical_x, screen_x, screen_y)
    display_terminal,  \* display_terminal
    intr,              \* EFLAGS.IF of the CPU (interrupts enabled)
    pc,                \* where the executing process is
    req,               \* nbytes of the read in progress, after clamping
    nread,             \* what wait_until_readable returned
    lastRead,          \* bytes delivered by the last read() (history)
    wrem               \* bytes of the write() in progress still to print

vars == <<buf, count, cursor, display_terminal, intr, pc, req, nread,
          lastRead, wrem>>

Init ==
    /\ buf = [i \in BufIdx |-> NUL]
    /\ count = 0
    /\ cursor = [logical_x |-> 0, screen_x |-> 0, screen_y |-> 0]
    /\ display_terminal = 0
    /\ intr = TRUE
    /\ pc = "user"
    /\ req = 0
    /\ nread = 0
    /\ lastRead = <<>>
    /\ wrem = <<>>

-----------------------------------------------------------------------------
(***************************************************************************)
(* terminal_putc, as a function of the cursor.  Scrolling moves the grid   *)
(* and the caller then decrements screen_y; only the latter is visible     *)
(* here.                                                                   *)
(***************************************************************************)
PutNewline(cur) ==
    LET y == cur.screen_y + 1
    IN  [logical_x |-> 0, screen_x |-> 0,
         screen_y |-> IF y >= NUM_ROWS THEN y - 1 ELSE y]

PutBackspace(cur) ==
    IF cur.logical_x > 0
    THEN LET x == cur.screen_x - 1
         IN  [logical_x |-> cur.logical_x - 1,
              screen_x  |-> IF x < 0 THEN x + NUM_COLS ELSE x,
              screen_y  |-> IF x < 0 THEN cur.screen_y - 1 ELSE cur.screen_y]
    ELSE cur

PutPrintable(cur) ==
    LET x == cur.screen_x + 1
        y == IF x >= NUM_COLS THEN cur.screen_y + 1 ELSE cur.screen_y
    IN  [logical_x |-> cur.logical_x + 1,
         screen_x  |-> IF x >= NUM_COLS THEN x - NUM_COLS ELSE x,
         screen_y  |-> IF y >= NUM_ROWS THEN y - 1 ELSE y]

Putc(cur, c) ==
    CASE c \in {NL, CR} -> PutNewline(cur)
      [] c = BS         -> PutBackspace(cur)
      [] OTHER          -> PutPrintable(cur)

(* The model bound on the logical column, a conjunct of a keystroke (and, *)
(* for a whole write, of WriteEnter).                                      *)
InBound(cur) == cur.logical_x <= MaxLogicalX

-----------------------------------------------------------------------------
(***************************************************************************)
(* The input buffer as wait_until_readable sees it.                        *)
(***************************************************************************)
NewlineAt == {i \in 0 .. count - 1 : buf[i] = NL}

(* i is the index of the first newline, where the scan loop stops. *)
IsFirstNewline(i) == i \in NewlineAt /\ \A j \in NewlineAt : i <= j

(* The loop of wait_until_readable would exit now. *)
ReadReady == req <= count \/ NewlineAt # {}

(* The cells memmove(&buf[0], &buf[i], i) can leave: the first i cells     *)
(* receive buf[i .. 2i-1], where a source index past the array reads       *)
(* whatever follows it (any value); the other cells keep their contents.   *)
MemmoveResults(i) ==
    {f \in [BufIdx -> Cells] :
        \A j \in BufIdx :
            /\ (j < i /\ i + j < TERMINAL_BUF_SIZE) => f[j] = buf[i + j]
            /\ j >= i => f[j] = buf[j]}

-----------------------------------------------------------------------------
(***************************************************************************)
(* The read() syscall: trap entry and the clamp of terminal_read.          *)
(***************************************************************************)
ReadEnter(n) ==
    /\ pc = "user"
    /\ pc' = "check"
    /\ intr' = FALSE
    /\ req' = IF n > TERMINAL_BUF_SIZE THEN TERMINAL_BUF_SIZE ELSE n
    /\ UNCHANGED <<buf, count, cursor, display_terminal, nread, lastRead, wrem>>

(* Mutant: the loop condition tested with >= instead of >. *)
ReadCheckHaltsWhenFull ==
    /\ pc = "check"
    /\ \/ /\ req < count
          /\ nread' = req
          /\ pc' = "copy"
          /\ UNCHANGED intr
       \/ /\ req >= count
          /\ NewlineAt # {}
          /\ \E i \in NewlineAt : IsFirstNewline(i) /\ nread' = i + 1
          /\ pc' = "copy"
          /\ UNCHANGED intr
       \/ /\ req >= count
          /\ NewlineAt = {}
          /\ intr' = TRUE
          /\ pc' = "halted"
          /\ UNCHANGED nread
    /\ UNCHANGED <<buf, count, cursor, display_terminal, req, lastRead, wrem>>

(* Mutant: the newline scan returns i, dropping the newline. *)
ReadCheckDropsNewline ==
    /\ pc = "check"
    /\ \/ /\ req <= count
          /\ nread' = req
          /\ pc' = "copy"
          /\ UNCHANGED intr
       \/ /\ req > count
          /\ NewlineAt # {}
          /\ \E i \in NewlineAt : IsFirstNewline(i) /\ nread' = i
          /\ pc' = "copy"
          /\ UNCHANGED intr
       \/ /\ req > count
          /\ NewlineAt = {}
          /\ intr' = TRUE
          /\ pc' = "halted"
          /\ UNCHANGED nread
    /\ UNCHANGED <<buf, count, cursor, display_terminal, req, lastRead, wrem>>

(* One test of the while loop of wait_until_readable, with interrupts     *)
(* disabled: leave with nbytes, leave at the first newline, or sti; hlt.   *)
(* sti takes effect after hlt, so deciding to sleep and sleeping are one   *)
(* step.                                                                   *)
ReadCheck ==
    /\ pc = "check"
    /\ \/ /\ req <= count
          /\ nread' = req
          /\ pc' = "copy"
          /\ UNCHANGED intr
       \/ /\ req > count
          /\ NewlineAt # {}
          /\ \E i \in NewlineAt : IsFirstNewline(i) /\ nread' = i + 1
          /\ pc' = "copy"
          /\ UNCHANGED intr
       \/ /\ req > count
          /\ NewlineAt = {}
          /\ intr' = TRUE
          /\ pc' = "halted"
          /\ UNCHANGED nread
    /\ UNCHANGED <<buf, count, cursor, display_terminal, req, lastRead, wrem>>

(* Mutant: the cli after hlt is missing. *)
WakeWithoutCli ==
    /\ pc = "woke"
    /\ pc' = "check"
    /\ UNCHANGED <<buf, count, cursor, display_terminal, intr, req, nread,
                   lastRead, wrem>>

(* The cli after hlt returned from an interrupt; back to the loop test. *)
Wake ==
    /\ pc = "woke"
    /\ intr' = FALSE
    /\ pc' = "check"
    /\ UNCHANGED <<buf, count, cursor, display_terminal, req, nread,
                   lastRead, wrem>>

(* The rest of terminal_read: copy i bytes out, shift, decrement count,   *)
(* return to user mode with iret (which sets IF again).                    *)
ReadCopy ==
    LET i == IF nread > 0 THEN nread ELSE 0
    IN  /\ pc = "copy"
        /\ lastRead' = [j \in 1 .. i |-> buf[j - 1]]
        /\ buf' \in MemmoveResults(i)
        /\ count' = count - i
        /\ pc' = "user"
        /\ intr' = TRUE
        /\ UNCHANGED <<cursor, display_terminal, req, nread, wrem>>

-----------------------------------------------------------------------------
(***************************************************************************)
(* The write() syscall: terminal_write calls terminal_putc once per byte,  *)
(* all with IF clear.                                                      *)
(***************************************************************************)
WriteEnter(s) ==
    /\ pc = "user"
    /\ cursor.logical_x + Len(s) <= MaxLogicalX
    /\ pc' = "write"
    /\ wrem' = s
    /\ intr' = FALSE
    /\ UNCHANGED <<buf, count, cursor, display_terminal, req, nread, lastRead>>

WriteChar ==
    /\ pc = "write"
    /\ wrem # <<>>
    /\ cursor' = Putc(cursor, Head(wrem))
    /\ wrem' = Tail(wrem)
    /\ UNCHANGED <<buf, count, display_terminal, intr, pc, req, nread, lastRead>>

WriteDone ==
    /\ pc = "write"
    /\ wrem = <<>>
    /\ pc' = "user"
    /\ intr' = TRUE
    /\ UNCHANGED <<buf, count, cursor, display_terminal, req, nread,
                   lastRead, wrem>>

-----------------------------------------------------------------------------
(***************************************************************************)
(* Interrupts.  A hlt in progress resumes after the handler returns.       *)
(***************************************************************************)
Resume == pc' = IF pc = "halted" THEN "woke" ELSE pc

(* Mutant: a character is stored without the buffer-full test. *)
KeyboardCharNoFullCheck(c) ==
    /\ intr
    /\ \/ /\ c = BS
          /\ count > 0
          /\ count' = count - 1
          /\ cursor' = Putc(cursor, BS)
          /\ UNCHANGED buf
       \/ /\ c # BS
          /\ buf' = [buf EXCEPT ![count] = c]
          /\ count' = count + 1
          /\ cursor' = Putc(cursor, c)
       \/ /\ c = BS /\ count = 0
          /\ UNCHANGED <<buf, count, cursor>>
    /\ InBound(cursor')
    /\ Resume
    /\ UNCHANGED <<display_terminal, intr, req, nread, lastRead, wrem>>

(* A keystroke decoded to a character: handle_char_input. *)
KeyboardChar(c) ==
    /\ intr
    /\ \/ /\ c = BS
          /\ count > 0
          /\ count' = count - 1
          /\ cursor' = Putc(cursor, BS)
          /\ UNCHANGED buf
       \/ /\ c # BS
          /\ count < TERMINAL_BUF_SIZE
          /\ buf' = [buf EXCEPT ![count] = c]
          /\ count' = count + 1
          /\ cursor' = Putc(cursor, c)
       \/ /\ \/ c = BS /\ count = 0
             \/ c # BS /\ count = TERMINAL_BUF_SIZE
          /\ UNCHANGED <<buf, count, cursor>>
    /\ InBound(cursor')
    /\ Resume
    /\ UNCHANGED <<display_terminal, intr, req, nread, lastRead, wrem>>

(* A keystroke decoded to a control sequence: handle_ctrl_input. *)
KeyboardCtrl(k) ==
    /\ intr
    /\ \/ /\ k = "KCTL_CLEAR"
          /\ cursor' = [logical_x |-> 0, screen_x |-> 0, screen_y |-> 0]
          /\ UNCHANGED display_terminal
       \/ /\ k = "KCTL_TERM1"
          /\ display_terminal' = 0
          /\ UNCHANGED cursor
       \/ /\ k \in {"KCTL_NONE", "KCTL_TERM2", "KCTL_TERM3"}
          /\ UNCHANGED <<cursor, display_terminal>>
    /\ Resume
    /\ UNCHANGED <<buf, count, intr, req, nread, lastRead, wrem>>

(* Any other interrupt (another IRQ line, or a keyboard packet that       *)
(* decodes to KTYP_NONE): the terminal is untouched, a hlt resumes.        *)
OtherIrq ==
    /\ intr
    /\ Resume
    /\ UNCHANGED <<buf, count, cursor, display_terminal, intr, req, nread,
                   lastRead, wrem>>

-----------------------------------------------------------------------------
Next ==
    \/ \E n \in ReadSizes : ReadEnter(n)
    \/ ReadCheck
    \/ Wake
    \/ ReadCopy
    \/ \E s \in WriteStrings : WriteEnter(s)
    \/ WriteChar
    \/ WriteDone
    \/ \E c \in KeyChars : KeyboardChar(c)
    \/ \E k \in CtrlEvents : KeyboardCtrl(k)
    \/ OtherIrq

(* The CPU keeps executing the kernel code of a syscall it is in; nobody  *)
(* is obliged to type, and no interrupt is obliged to arrive.              *)
Fairness ==
    /\ WF_vars(ReadCheck)
    /\ WF_vars(Wake)
    /\ WF_vars(ReadCopy)
    /\ WF_vars(WriteChar)
    /\ WF_vars(WriteDone)

Spec == Init /\ [][Next]_vars /\ Fairness

-----------------------------------------------------------------------------
(***************************************************************************)
(* Properties.                                                             *)
(***************************************************************************)

(* Every variable has the type the C declarations give it. *)
TypeOK ==
    /\ buf \in [BufIdx -> Cells]
    /\ count \in 0 .. TERMINAL_BUF_SIZE
    /\ cursor \in [logical_x : Nat, screen_x : 0 .. NUM_COLS - 1,
                   screen_y : Int]
    /\ cursor.screen_y < NUM_ROWS
    /\ display_terminal \in 0 .. NUM_TERMINALS - 1
    /\ intr \in BOOLEAN
    /\ pc \in PCs
    /\ req \in Int
    /\ req <= TERMINAL_BUF_SIZE
    /\ nread \in Int
    /\ lastRead \in Seq(Cells)
    /\ wrem \in Seq(WriteChars)

(* The reader sleeps in hlt only while the input buffer cannot satisfy   *)
(* the blocked read(): a conjunct of the inductive invariant of            *)
(* TerminalProofs, which needs it for the wakeup step.                      *)
NoLostWakeup == pc = "halted" => ~ReadReady

(* The decision wait_until_readable took is still true when terminal_read *)
(* copies: the buffer still holds nread bytes and they end where the       *)
(* decision said (nbytes reached, or the newline).  A keystroke handled    *)
(* between the test and the copy (interrupts left enabled) breaks it.      *)
ReadDecisionValid ==
    pc = "copy" =>
        /\ nread <= count
        /\ \/ nread = req
           \/ nread \in 1 .. TERMINAL_BUF_SIZE /\ buf[nread - 1] = NL

(* The contract of terminal_read towards the program: a completed read()  *)
(* returned exactly the (clamped) nbytes it asked for, or a line ending in *)
(* a newline.                                                              *)
ReadResultWellFormed ==
    pc \in {"user", "write"} =>
        \/ Len(lastRead) = (IF req > 0 THEN req ELSE 0)
        \/ lastRead # <<>> /\ lastRead[Len(lastRead)] = NL

(* A blocked read() makes progress: whenever the reader is inside read()  *)
(* and the buffer satisfies it, read() returns unless typing (backspace)   *)
(* first takes the condition away again.                                  *)
ReaderProgress ==
    (pc \in ReadPCs /\ ReadReady) ~> (pc = "user" \/ ~ReadReady)

ReadStopsAtNewline ==
    pc \in {"user", "write"} =>
        \A j \in 1 .. Len(lastRead) - 1 : lastRead[j] # NL

(* The input buffer is a FIFO queue: the bytes 0 .. count-1 are the typed *)
(* and not erased bytes in typing order, and read() takes a prefix.        *)
Queue == INSTANCE InputQueue
    WITH queue <- [j \in 1 .. count |-> buf[j - 1]],
         result <- lastRead,
         Capacity <- TERMINAL_BUF_SIZE,
         Items <- Cells

QueueSpec == Queue!Spec

=============================================================================
