--------------------------- MODULE TerminalScreen ---------------------------
(***************************************************************************)
(* The character grid of student-distrib/terminal.c: what terminal_putc,   *)
(* terminal_scroll_down, terminal_write_char and terminal_clear do to the  *)
(* video memory, driven by program writes and by the echo of keystrokes.   *)
(*                                                                         *)
(* The cursor arithmetic is Terminal's (T!Putc); this module adds the      *)
(* cells.  A keyboard interrupt runs with IF clear, so it is one step; a   *)
(* write() runs with IF clear too, one terminal_putc per step, and no      *)
(* keystroke is handled until it has returned.  read() does not touch the *)
(* screen and is left to Terminal; here the input buffer only grows and    *)
(* shrinks at the keyboard.                                                *)
(***************************************************************************)
EXTENDS Integers, Sequences

CONSTANTS
    Chars,              \* printable characters
    NL, CR, BS, NUL,    \* '\n', '\r', '\b', '\0'
    SP,                 \* ' '
    TERMINAL_BUF_SIZE,
    NUM_COLS, NUM_ROWS,
    WriteStrings,       \* buffers a program passes to write()
    CtrlInputs,         \* control sequences the keyboard delivers
    MaxLogicalX         \* model bound on cursor.logical_x

VARIABLES
    grid,      \* the character bytes of video_mem, by row and column
    cursor,    \* cursor (logical_x, screen_x, screen_y)
    input,     \* input.buf[0 .. input.count - 1]
    lineText,  \* history: the bytes putc printed on the current logical line
    wrem,      \* the bytes of the write() in progress not yet printed
    lineReach  \* history: the farthest logical_x of the current logical line

vars == <<grid, cursor, input, lineText, wrem, lineReach>>

(* The cursor arithmetic of terminal_putc, from the Terminal module; its  *)
(* other variables do not enter Putc.                                      *)
T == INSTANCE Terminal
        WITH buf <- [i \in 0 .. TERMINAL_BUF_SIZE - 1 |-> NUL], count <- 0,
             display_terminal <- 0, intr <- TRUE, pc <- "user", req <- 0,
             nread <- 0, lastRead <- <<>>, wrem <- <<>>,
             NUM_TERMINALS <- 1, ReadSizes <- {1}

(* terminal.h: a grid of NUM_ROWS by NUM_COLS cells; the control bytes   *)
(* are distinct and none of them is printable.                            *)
ASSUME ScreenAssumption ==
    /\ TERMINAL_BUF_SIZE \in Nat \ {0}
    /\ NUM_COLS \in Nat \ {0}
    /\ NUM_ROWS \in Nat \ {0}
    /\ MaxLogicalX \in Nat
    /\ {NL, CR, BS, NUL} \cap Chars = {}
    /\ NL # CR /\ NL # BS /\ NL # NUL /\ CR # BS /\ CR # NUL /\ BS # NUL
    /\ SP \notin Chars \cup {NL, CR, BS, NUL}
    /\ WriteStrings \subseteq Seq(T!WriteChars)
    /\ CtrlInputs \subseteq T!CtrlEvents

Rows == 0 .. NUM_ROWS - 1
Cols == 0 .. NUM_COLS - 1

(* cursor_pos_t: logical_x may run past the row, screen_x stays on it. *)
CursorPos == [logical_x : Nat, screen_x : Cols, screen_y : Int]

(* What a cell of the grid can hold. *)
ScreenCells == Chars \cup {NUL, SP}

(* The cells in the order of video_mem: cell k is row k \div NUM_COLS.     *)
CellAt(k) == <<k \div NUM_COLS, k % NUM_COLS>>

(* The video memory at boot holds whatever was on the screen; the cursor  *)
(* and the input buffer are the initializer of terminal_states[0].        *)
Init ==
    /\ grid \in [Rows \X Cols -> ScreenCells]
    /\ cursor = [logical_x |-> 0, screen_x |-> 0, screen_y |-> 0]
    /\ input = <<>>
    /\ lineText = <<>>
    /\ wrem = <<>>
    /\ lineReach = 0

-----------------------------------------------------------------------------
(* terminal_write_char: the byte at ((y * NUM_COLS + x) << 1).  With x in *)
(* range, a row above the grid is memory below VIDEO, which is not shown.  *)
WriteChar(g, cur, c) ==
    IF cur.screen_y \in Rows
    THEN [g EXCEPT ![<<cur.screen_y, cur.screen_x>>] = c]
    ELSE g

(* Mutant: the rows are not moved, only the last one is cleared. *)
ScrollDownNoShift(g) ==
    [p \in Rows \X Cols |-> IF p[1] = NUM_ROWS - 1 THEN NUL ELSE g[p]]

(* terminal_scroll_down: every row takes the one below it (the memmove of *)
(* shift_count bytes), and the last row is cleared to '\0' (the memset).   *)
ScrollDown(g) ==
    [p \in Rows \X Cols |->
        IF p[1] = NUM_ROWS - 1 THEN NUL ELSE g[<<p[1] + 1, p[2]>>]]

(* Whether terminal_putc scrolls: the row it advanced to is off the grid. *)
Scrolls(cur, c) ==
    \/ c \in {NL, CR} /\ cur.screen_y + 1 >= NUM_ROWS
    \/ /\ c \notin {NL, CR, BS}
       /\ cur.screen_x + 1 >= NUM_COLS
       /\ cur.screen_y + 1 >= NUM_ROWS

(* Mutant: the backspace clears the cell under the cursor before moving   *)
(* the cursor back, that is the cell it leaves.                           *)
PutcGridEraseFirst(g, cur, c) ==
    CASE c \in {NL, CR} ->
            IF Scrolls(cur, c) THEN ScrollDown(g) ELSE g
      [] c = BS ->
            IF cur.logical_x > 0 THEN WriteChar(g, cur, SP) ELSE g
      [] OTHER ->
            LET w == WriteChar(g, cur, c)
            IN  IF Scrolls(cur, c) THEN ScrollDown(w) ELSE w

(* The grid after terminal_putc(c): a backspace blanks the cell under the *)
(* cursor it moved back to; another byte is written where the cursor was  *)
(* and may then scroll; a newline only may scroll.                         *)
PutcGrid(g, cur, c) ==
    CASE c \in {NL, CR} ->
            IF Scrolls(cur, c) THEN ScrollDown(g) ELSE g
      [] c = BS ->
            IF cur.logical_x > 0 THEN WriteChar(g, T!Putc(cur, BS), SP) ELSE g
      [] OTHER ->
            LET w == WriteChar(g, cur, c)
            IN  IF Scrolls(cur, c) THEN ScrollDown(w) ELSE w

(* What the current logical line holds after terminal_putc(c). *)
PutcLine(line, cur, c) ==
    CASE c \in {NL, CR} -> <<>>
      [] c = BS -> IF cur.logical_x > 0 THEN SubSeq(line, 1, Len(line) - 1)
                   ELSE line
      [] OTHER  -> Append(line, c)

(* How far the current logical line has reached after terminal_putc(c). *)
PutcReach(reach, cur, c) ==
    IF c \in {NL, CR} THEN 0
    ELSE IF T!Putc(cur, c).logical_x > reach THEN T!Putc(cur, c).logical_x
    ELSE reach

(* One terminal_putc on the state, as a step. *)
Putc(c) ==
    /\ grid' = PutcGrid(grid, cursor, c)
    /\ cursor' = T!Putc(cursor, c)
    /\ lineText' = PutcLine(lineText, cursor, c)
    /\ lineReach' = PutcReach(lineReach, cursor, c)

-----------------------------------------------------------------------------
(* terminal_write is entered through the syscall gate, which clears IF.   *)
(* The whole buffer must fit the model bound on logical_x.                *)
TerminalWrite(s) ==
    /\ wrem = <<>>
    /\ cursor.logical_x + Len(s) <= MaxLogicalX
    /\ wrem' = s
    /\ UNCHANGED <<grid, cursor, input, lineText, lineReach>>

(* One iteration of the loop of terminal_write: terminal_putc(src[i]). *)
WritePutc ==
    /\ wrem # <<>>
    /\ Putc(Head(wrem))
    /\ wrem' = Tail(wrem)
    /\ UNCHANGED input

(* Mutant: the buffer-full test is missing, so a keystroke is always      *)
(* stored and echoed.                                                      *)
HandleCharInputNoFullCheck(c) ==
    /\ wrem = <<>>
    /\ \/ /\ c = BS /\ Len(input) > 0
          /\ input' = SubSeq(input, 1, Len(input) - 1)
          /\ Putc(BS)
       \/ /\ c # BS
          /\ input' = Append(input, c)
          /\ Putc(c)
    /\ T!InBound(cursor')
    /\ UNCHANGED wrem

(* handle_char_input: a backspace drops the newest byte if there is one,  *)
(* another byte is stored if the buffer has room; either is echoed.        *)
(* Otherwise nothing happens, which is a stuttering step.  The interrupt  *)
(* waits while a write() holds IF clear.                                   *)
HandleCharInput(c) ==
    /\ wrem = <<>>
    /\ \/ /\ c = BS /\ Len(input) > 0
          /\ input' = SubSeq(input, 1, Len(input) - 1)
          /\ Putc(BS)
       \/ /\ c # BS /\ Len(input) < TERMINAL_BUF_SIZE
          /\ input' = Append(input, c)
          /\ Putc(c)
    /\ T!InBound(cursor')
    /\ UNCHANGED wrem

(* terminal_clear, reached through handle_ctrl_input(KCTL_CLEAR): every   *)
(* cell becomes ' ', the cursor goes home, the input buffer is kept.       *)
HandleCtrlInput(k) ==
    /\ wrem = <<>>
    /\ k = "KCTL_CLEAR"
    /\ grid' = [p \in Rows \X Cols |-> SP]
    /\ cursor' = [logical_x |-> 0, screen_x |-> 0, screen_y |-> 0]
    /\ lineText' = <<>>
    /\ lineReach' = 0
    /\ UNCHANGED <<input, wrem>>

Next ==
    \/ \E s \in WriteStrings : TerminalWrite(s)
    \/ WritePutc
    \/ \E c \in T!KeyChars : HandleCharInput(c)
    \/ \E k \in CtrlInputs : HandleCtrlInput(k)

Spec == Init /\ [][Next]_vars

-----------------------------------------------------------------------------
(* Every variable has the type of its declaration: the grid holds screen  *)
(* bytes, the buffer holds at most TERMINAL_BUF_SIZE keystrokes.           *)
TypeOK ==
    /\ grid \in [Rows \X Cols -> ScreenCells]
    /\ cursor \in CursorPos /\ cursor.logical_x <= MaxLogicalX
    /\ input \in Seq(T!KeyChars \ {BS}) /\ Len(input) <= TERMINAL_BUF_SIZE
    /\ lineText \in Seq(ScreenCells)
    /\ wrem \in Seq(T!WriteChars)
    /\ lineReach \in Nat

(* The cell index in video_mem where the current logical line began. *)
LineStart == cursor.screen_y * NUM_COLS + cursor.screen_x - cursor.logical_x

(* The screen shows the current line: from where it began to the cursor,  *)
(* the cells hold what terminal_putc printed on it since the last newline *)
(* or clear, with backspaced bytes gone, across wraps and scrolls, as     *)
(* long as its beginning has not scrolled off the top.                    *)
LineShown ==
    LineStart >= 0 =>
        \A k \in 1 .. Len(lineText) : grid[CellAt(LineStart + k - 1)] = lineText[k]

(* What a backspace erases is gone from the screen: the cells of the      *)
(* current logical line from the cursor up to the farthest it reached     *)
(* hold the ' ' that terminal_putc('\b') wrote, also where a backspace at *)
(* column 0 went back to the end of the row above, and after scrolls.     *)
ErasedBlank ==
    LineStart >= 0 =>
        \A j \in Len(lineText) + 1 .. lineReach :
            grid[CellAt(LineStart + j - 1)] = SP

(* The bytes of a buffer after its last newline. *)
LastLine(s) ==
    LET nl == {i \in 1 .. Len(s) : s[i] = NL}
    IN  IF nl = {} THEN s
        ELSE SubSeq(s, (CHOOSE i \in nl : \A j \in nl : j <= i) + 1, Len(s))

(* With only the keyboard driving the terminal, the echo is the line      *)
(* being typed: the buffered bytes after the last newline are the text on *)
(* the cursor's line (spec 5: backspace never erases across a line the     *)
(* user did not type on this logical line).                                *)
EchoMatchesInput == LastLine(input) = lineText

=============================================================================
