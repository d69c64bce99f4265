------------------------ MODULE TerminalScreenProofs ------------------------
(***************************************************************************)
(* Proofs about TerminalScreen for every grid size, buffer size and set   *)
(* of writes: the grid keeps screen bytes, and the screen shows the line  *)
(* being printed (LineShown), across wraps, scrolls and backspaces.       *)
(***************************************************************************)
EXTENDS TerminalScreen, SequenceTheorems, TLAPS

(* The index in video_mem, in cells, of the cell under a cursor. *)
Pos(cur) == cur.screen_y * NUM_COLS + cur.screen_x

(* The cells from index s on hold line. *)
ShownAt(g, s, line) ==
    \A k \in 1 .. Len(line) : g[CellAt(s + k - 1)] = line[k]

(* LineShown, for any grid, cursor and line. *)
Shown(g, cur, line) ==
    Pos(cur) - cur.logical_x >= 0 => ShownAt(g, Pos(cur) - cur.logical_x, line)

(* The grid as terminal_putc leaves it for the next call. *)
GridOK(g, cur, line) ==
    /\ g \in [Rows \X Cols -> ScreenCells]
    /\ cur \in CursorPos /\ cur.screen_y < NUM_ROWS
    /\ line \in Seq(ScreenCells) /\ Len(line) = cur.logical_x
    /\ Shown(g, cur, line)

(* ErasedBlank, for any grid, cursor, line and reach. *)
Blank(g, cur, line, reach) ==
    Pos(cur) - cur.logical_x >= 0 =>
        \A j \in Len(line) + 1 .. reach :
            g[CellAt(Pos(cur) - cur.logical_x + j - 1)] = SP

(* The farthest cell the line reached is on the grid and not behind the  *)
(* cursor, and the cells from the cursor to it are blank.                 *)
ReachOK(g, cur, line, reach) ==
    /\ reach \in Nat /\ cur.logical_x <= reach
    /\ Pos(cur) - cur.logical_x + reach <= NUM_ROWS * NUM_COLS - 1
    /\ Blank(g, cur, line, reach)

(* The inductive invariant: LineShown needs the line to be as long as the *)
(* logical column and the cursor to be above the bottom edge; ErasedBlank *)
(* needs the reach to stay on the grid, so that a scroll finds the line   *)
(* at its reach; the bound on logical_x needs the write in progress to    *)
(* fit under it.                                                           *)
IInv ==
    /\ TypeOK
    /\ GridOK(grid, cursor, lineText)
    /\ ReachOK(grid, cursor, lineText, lineReach)
    /\ cursor.logical_x + Len(wrem) <= MaxLogicalX

-----------------------------------------------------------------------------
(* Cell arithmetic of terminal_write_char's index y * NUM_COLS + x. *)
LEMMA CellOf ==
    ASSUME NEW y \in Int, NEW x \in Cols
    PROVE  CellAt(y * NUM_COLS + x) = <<y, x>>
    BY ScreenAssumption DEF CellAt, Cols

LEMMA CellShift ==
    ASSUME NEW i \in Int
    PROVE  CellAt(i - NUM_COLS) = <<CellAt(i)[1] - 1, CellAt(i)[2]>>
    BY ScreenAssumption DEF CellAt

LEMMA CellIn ==
    ASSUME NEW i \in 0 .. NUM_ROWS * NUM_COLS - 1
    PROVE  CellAt(i) \in Rows \X Cols
    BY ScreenAssumption DEF CellAt, Rows, Cols

LEMMA CellInj ==
    ASSUME NEW i \in Int, NEW j \in Int, CellAt(i) = CellAt(j)
    PROVE  i = j
    BY ScreenAssumption DEF CellAt

(* Multiplication by the row width is monotone and distributes. *)
LEMMA MulMono ==
    ASSUME NEW a \in Int, NEW b \in Int, a <= b, NEW n \in Nat
    PROVE  a * n <= b * n
    OBVIOUS

LEMMA MulNext ==
    ASSUME NEW a \in Int, NEW n \in Int
    PROVE  /\ (a + 1) * n = a * n + n
           /\ (a - 1) * n = a * n - n
    OBVIOUS

(* A cursor on the grid or above it is below its last cell. *)
LEMMA PosBound ==
    ASSUME NEW cur \in CursorPos, cur.screen_y < NUM_ROWS
    PROVE  /\ Pos(cur) \in Int
           /\ Pos(cur) <= NUM_ROWS * NUM_COLS - 1
           /\ Pos(cur) >= 0 => cur.screen_y \in Rows
<1> DEFINE y == cur.screen_y
<1> DEFINE x == cur.screen_x
<1>1. y \in Int /\ x \in 0 .. NUM_COLS - 1 /\ NUM_COLS \in Nat /\ NUM_ROWS \in Int
    BY ScreenAssumption DEF CursorPos, Cols
<1>2. y * NUM_COLS <= (NUM_ROWS - 1) * NUM_COLS
    BY <1>1, MulMono
<1>3. (NUM_ROWS - 1) * NUM_COLS = NUM_ROWS * NUM_COLS - NUM_COLS
    BY <1>1, MulNext
<1>4. y < 0 => y * NUM_COLS <= -1 * NUM_COLS
    BY <1>1, MulMono
<1>5. QED
    BY <1>1, <1>2, <1>3, <1>4 DEF Pos, Rows

-----------------------------------------------------------------------------
(* terminal_putc on the cursor: a printable byte advances one cell, and a *)
(* scroll takes the cursor back one row, at the last cell of the grid.    *)
LEMMA PrintableCursor ==
    ASSUME NEW cur \in CursorPos, cur.screen_y < NUM_ROWS,
           NEW c, c \notin {NL, CR, BS}
    PROVE  /\ T!Putc(cur, c) \in CursorPos
           /\ T!Putc(cur, c).screen_y < NUM_ROWS
           /\ T!Putc(cur, c).logical_x = cur.logical_x + 1
           /\ ~Scrolls(cur, c) => Pos(T!Putc(cur, c)) = Pos(cur) + 1
           /\ Scrolls(cur, c) =>
                 /\ Pos(T!Putc(cur, c)) = Pos(cur) + 1 - NUM_COLS
                 /\ cur.screen_y = NUM_ROWS - 1
                 /\ Pos(cur) = NUM_ROWS * NUM_COLS - 1
<1> DEFINE y == cur.screen_y
<1> DEFINE x == cur.screen_x
<1> DEFINE n == T!Putc(cur, c)
<1>1. y \in Int /\ x \in 0 .. NUM_COLS - 1 /\ cur.logical_x \in Nat
      /\ NUM_COLS \in Nat \ {0} /\ NUM_ROWS \in Nat \ {0}
    BY ScreenAssumption DEF CursorPos, Cols, n, x, y
<1>2. n = T!PutPrintable(cur)
    BY ScreenAssumption DEF T!Putc, n, x, y
<1>3. (y + 1) * NUM_COLS = y * NUM_COLS + NUM_COLS
    BY <1>1, MulNext DEF n, x, y
<1>4. CASE x + 1 < NUM_COLS
    <2>1. n = [logical_x |-> cur.logical_x + 1, screen_x |-> x + 1, screen_y |-> y]
        BY <1>1, <1>2, <1>4 DEF T!PutPrintable, n, x, y
    <2>2. ~Scrolls(cur, c)
        BY <1>1, <1>4 DEF Scrolls, n, x, y
    <2>3. Pos(n) = Pos(cur) + 1
        BY <1>1, <2>1 DEF Pos, n, x, y
    <2>4. QED
        BY <1>1, <1>4, <2>1, <2>2, <2>3 DEF CursorPos, Cols, n, x, y
<1>5. CASE x + 1 >= NUM_COLS /\ y + 1 < NUM_ROWS
    <2>1. n = [logical_x |-> cur.logical_x + 1, screen_x |-> 0, screen_y |-> y + 1]
        BY <1>1, <1>2, <1>5 DEF T!PutPrintable, n, x, y
    <2>2. ~Scrolls(cur, c)
        BY <1>1, <1>5 DEF Scrolls, n, x, y
    <2>3. Pos(n) = Pos(cur) + 1
        BY <1>1, <1>3, <1>5, <2>1 DEF Pos, n, x, y
    <2>4. QED
        BY <1>1, <1>5, <2>1, <2>2, <2>3 DEF CursorPos, Cols, n, x, y
<1>6. CASE x + 1 >= NUM_COLS /\ y + 1 >= NUM_ROWS
    <2>1. n = [logical_x |-> cur.logical_x + 1, screen_x |-> 0, screen_y |-> y]
        BY <1>1, <1>2, <1>6 DEF T!PutPrintable, n, x, y
    <2>2. Scrolls(cur, c)
        BY <1>1, <1>6 DEF Scrolls, n, x, y
    <2>3. Pos(n) = Pos(cur) + 1 - NUM_COLS /\ y = NUM_ROWS - 1
        BY <1>1, <1>6, <2>1 DEF Pos, n, x, y
    <2>4. Pos(cur) = NUM_ROWS * NUM_COLS - 1
        <3>1. x = NUM_COLS - 1 /\ y + 1 = NUM_ROWS
            BY <1>1, <1>6, <2>3 DEF x, y
        <3>2. QED
            BY <1>1, <1>3, <3>1 DEF Pos, x, y
    <2>5. QED
        BY <1>1, <2>1, <2>2, <2>3, <2>4 DEF CursorPos, Cols, n, x, y
<1>7. QED
    BY <1>1, <1>4, <1>5, <1>6 DEF n, x, y

(* A backspace on a non-empty logical line goes back one cell. *)
LEMMA BackspaceCursor ==
    ASSUME NEW cur \in CursorPos, cur.screen_y < NUM_ROWS, cur.logical_x > 0
    PROVE  /\ T!Putc(cur, BS) \in CursorPos
           /\ T!Putc(cur, BS).screen_y < NUM_ROWS
           /\ T!Putc(cur, BS).logical_x = cur.logical_x - 1
           /\ Pos(T!Putc(cur, BS)) = Pos(cur) - 1
<1> DEFINE y == cur.screen_y
<1> DEFINE x == cur.screen_x
<1> DEFINE n == T!Putc(cur, BS)
<1>1. y \in Int /\ x \in 0 .. NUM_COLS - 1 /\ cur.logical_x \in Nat
      /\ NUM_COLS \in Nat \ {0} /\ NUM_ROWS \in Nat \ {0}
    BY ScreenAssumption DEF CursorPos, Cols, n, x, y
<1>2. n = T!PutBackspace(cur)
    BY ScreenAssumption DEF T!Putc, n, x, y
<1>3. (y - 1) * NUM_COLS = y * NUM_COLS - NUM_COLS
    BY <1>1, MulNext DEF n, x, y
<1>4. CASE x - 1 < 0
    <2>1. n = [logical_x |-> cur.logical_x - 1, screen_x |-> x - 1 + NUM_COLS,
               screen_y |-> y - 1]
        BY <1>1, <1>2, <1>4 DEF T!PutBackspace, n, x, y
    <2>2. Pos(n) = Pos(cur) - 1
        BY <1>1, <1>3, <2>1 DEF Pos, n, x, y
    <2>3. x - 1 + NUM_COLS \in Cols /\ cur.logical_x - 1 \in Nat
        BY <1>1, <1>4 DEF Cols, x
    <2>4. n \in CursorPos
        BY <1>1, <2>1, <2>3 DEF CursorPos, y
    <2>5. n.screen_y < NUM_ROWS /\ n.logical_x = cur.logical_x - 1
        BY <1>1, <2>1 DEF y
    <2>6. QED
        BY <2>2, <2>4, <2>5, Zenon DEF n
<1>5. CASE x - 1 >= 0
    <2>1. n = [logical_x |-> cur.logical_x - 1, screen_x |-> x - 1, screen_y |-> y]
        BY <1>1, <1>2, <1>5 DEF T!PutBackspace, n, x, y
    <2>2. QED
        BY <1>1, <1>5, <2>1 DEF Pos, CursorPos, Cols, n, x, y
<1>6. QED
    BY <1>1, <1>4, <1>5 DEF n, x, y

(* On an empty logical line a backspace leaves the cursor. *)
LEMMA BackspaceNone ==
    ASSUME NEW cur \in CursorPos, cur.logical_x = 0
    PROVE  T!Putc(cur, BS) = cur
    BY ScreenAssumption DEF T!Putc, T!PutBackspace, CursorPos

(* A newline starts an empty logical line on the next row, or the last.  *)
LEMMA NewlineCursor ==
    ASSUME NEW cur \in CursorPos, cur.screen_y < NUM_ROWS, NEW c \in {NL, CR}
    PROVE  /\ T!Putc(cur, c) \in CursorPos
           /\ T!Putc(cur, c).screen_y < NUM_ROWS
           /\ T!Putc(cur, c).logical_x = 0
    BY ScreenAssumption DEF T!Putc, T!PutNewline, CursorPos, Cols

-----------------------------------------------------------------------------
(* The grid operations keep the grid a function to screen bytes. *)
LEMMA WriteCharType ==
    ASSUME NEW g \in [Rows \X Cols -> ScreenCells], NEW cur \in CursorPos,
           NEW v \in ScreenCells
    PROVE  WriteChar(g, cur, v) \in [Rows \X Cols -> ScreenCells]
    BY DEF WriteChar, CursorPos

LEMMA ScrollDownType ==
    ASSUME NEW g \in [Rows \X Cols -> ScreenCells]
    PROVE  ScrollDown(g) \in [Rows \X Cols -> ScreenCells]
<1>1. \A p \in Rows \X Cols : p[1] # NUM_ROWS - 1 => <<p[1] + 1, p[2]>> \in Rows \X Cols
    BY ScreenAssumption DEF Rows
<1>2. NUL \in ScreenCells
    BY DEF ScreenCells
<1>3. QED
    BY <1>1, <1>2 DEF ScrollDown

(* terminal_write_char changes the cell under the cursor and no other. *)
LEMMA WriteKeeps ==
    ASSUME NEW g \in [Rows \X Cols -> ScreenCells], NEW cur \in CursorPos,
           cur.screen_y < NUM_ROWS, NEW v,
           NEW i \in 0 .. NUM_ROWS * NUM_COLS - 1, i # Pos(cur)
    PROVE  WriteChar(g, cur, v)[CellAt(i)] = g[CellAt(i)]
<1>1. CellAt(Pos(cur)) = <<cur.screen_y, cur.screen_x>>
    BY CellOf DEF Pos, CursorPos
<1>2. CellAt(i) # CellAt(Pos(cur))
    BY PosBound, CellInj
<1>3. QED
    BY <1>1, <1>2, CellIn DEF WriteChar

LEMMA WriteHits ==
    ASSUME NEW g \in [Rows \X Cols -> ScreenCells], NEW cur \in CursorPos,
           cur.screen_y \in Rows, NEW v
    PROVE  WriteChar(g, cur, v)[CellAt(Pos(cur))] = v
<1>1. CellAt(Pos(cur)) = <<cur.screen_y, cur.screen_x>>
    BY CellOf DEF Pos, CursorPos, Rows
<1>2. QED
    BY <1>1 DEF WriteChar, CursorPos

(* terminal_scroll_down moves every cell but those of the first row one  *)
(* row up, that is NUM_COLS cells back in video_mem.                      *)
LEMMA ScrollKeeps ==
    ASSUME NEW g \in [Rows \X Cols -> ScreenCells],
           NEW i \in NUM_COLS .. NUM_ROWS * NUM_COLS - 1
    PROVE  ScrollDown(g)[CellAt(i - NUM_COLS)] = g[CellAt(i)]
<1>0. i \in 0 .. NUM_ROWS * NUM_COLS - 1 /\ i >= NUM_COLS
    BY ScreenAssumption
<1>1. CellAt(i) \in Rows \X Cols /\ CellAt(i)[1] >= 1
    <2>1. CellAt(i) \in Rows \X Cols
        BY <1>0, CellIn
    <2>2. i \div NUM_COLS >= 1
        BY <1>0, ScreenAssumption
    <2>3. QED
        BY <2>1, <2>2 DEF CellAt
<1>2. CellAt(i - NUM_COLS) = <<CellAt(i)[1] - 1, CellAt(i)[2]>>
    BY CellShift
<1>3. CellAt(i - NUM_COLS) \in Rows \X Cols
      /\ CellAt(i - NUM_COLS)[1] # NUM_ROWS - 1
    BY <1>1, <1>2, ScreenAssumption DEF Rows
<1>4. <<CellAt(i - NUM_COLS)[1] + 1, CellAt(i - NUM_COLS)[2]>> = CellAt(i)
    <2>1. CellAt(i) = <<CellAt(i)[1], CellAt(i)[2]>>
        BY DEF CellAt
    <2>2. CellAt(i)[1] \in Int
        BY <1>1 DEF Rows
    <2>3. QED
        BY <1>2, <2>1, <2>2
<1>5. QED
    BY <1>3, <1>4 DEF ScrollDown

-----------------------------------------------------------------------------
(* A printable byte written at the cursor extends the line it ends. *)
LEMMA WriteShown ==
    ASSUME NEW g \in [Rows \X Cols -> ScreenCells], NEW cur \in CursorPos,
           cur.screen_y < NUM_ROWS, NEW line \in Seq(ScreenCells),
           Len(line) = cur.logical_x, NEW st \in Nat,
           st = Pos(cur) - cur.logical_x, ShownAt(g, st, line),
           NEW c \in ScreenCells
    PROVE  ShownAt(WriteChar(g, cur, c), st, Append(line, c))
<1>1. /\ Pos(cur) \in 0 .. NUM_ROWS * NUM_COLS - 1
      /\ cur.screen_y \in Rows
      /\ Len(line) \in Nat
      /\ cur.logical_x \in Nat
      /\ NUM_ROWS * NUM_COLS \in Int
    BY PosBound, LenProperties, ScreenAssumption DEF CursorPos
<1>2. /\ Len(Append(line, c)) = Len(line) + 1
      /\ \A k \in 1 .. Len(line) : Append(line, c)[k] = line[k]
      /\ Append(line, c)[Len(line) + 1] = c
    BY AppendProperties
<1> SUFFICES ASSUME NEW k \in 1 .. Len(line) + 1
             PROVE  WriteChar(g, cur, c)[CellAt(st + k - 1)] = Append(line, c)[k]
    BY <1>2 DEF ShownAt
<1>3. CASE k <= Len(line)
    <2>1. st + k - 1 \in 0 .. NUM_ROWS * NUM_COLS - 1 /\ st + k - 1 # Pos(cur)
        BY <1>1, <1>3
    <2>2. WriteChar(g, cur, c)[CellAt(st + k - 1)] = g[CellAt(st + k - 1)]
        BY <2>1, WriteKeeps
    <2>3. g[CellAt(st + k - 1)] = line[k]
        BY <1>1, <1>3 DEF ShownAt
    <2>4. QED
        BY <1>1, <1>2, <1>3, <2>2, <2>3
<1>4. CASE k = Len(line) + 1
    <2>1. st + k - 1 = Pos(cur)
        <3>1. Pos(cur) \in Int /\ k - 1 = cur.logical_x
            BY <1>1, <1>4
        <3>2. QED
            BY <3>1
    <2>2. WriteChar(g, cur, c)[CellAt(Pos(cur))] = c
        <3>1. CellAt(Pos(cur)) = <<cur.screen_y, cur.screen_x>>
            BY CellOf DEF Pos, CursorPos
        <3>2. QED
            BY <1>1, <3>1 DEF WriteChar, CursorPos
    <2>3. QED
        BY <1>2, <1>4, <2>1, <2>2
<1>5. k <= Len(line) \/ k = Len(line) + 1
    BY <1>1
<1>6. QED
    BY <1>3, <1>4, <1>5

(* A scroll moves a line that does not start on the first row one row up. *)
LEMMA ScrollShown ==
    ASSUME NEW g \in [Rows \X Cols -> ScreenCells],
           NEW line \in Seq(ScreenCells), NEW st \in Int, st >= NUM_COLS,
           st + Len(line) - 1 <= NUM_ROWS * NUM_COLS - 1, ShownAt(g, st, line)
    PROVE  ShownAt(ScrollDown(g), st - NUM_COLS, line)
<1> SUFFICES ASSUME NEW k \in 1 .. Len(line)
             PROVE  ScrollDown(g)[CellAt(st - NUM_COLS + k - 1)] = line[k]
    BY DEF ShownAt
<1>1. Len(line) \in Nat
    BY LenProperties
<1>2. st + k - 1 \in NUM_COLS .. NUM_ROWS * NUM_COLS - 1
      /\ st - NUM_COLS + k - 1 = (st + k - 1) - NUM_COLS
    BY <1>1, ScreenAssumption
<1>3. ScrollDown(g)[CellAt((st + k - 1) - NUM_COLS)] = g[CellAt(st + k - 1)]
    BY <1>2, ScrollKeeps
<1>4. QED
    BY <1>2, <1>3 DEF ShownAt

(* The line without its last byte, as the backspace of terminal_putc     *)
(* leaves it.                                                              *)
LEMMA SubSeqFront ==
    ASSUME NEW S, NEW line \in Seq(S), NEW m \in Nat, m = Len(line) - 1
    PROVE  /\ SubSeq(line, 1, m) \in Seq(S)
           /\ Len(SubSeq(line, 1, m)) = m
           /\ \A k \in 1 .. m : SubSeq(line, 1, m)[k] = line[k]
<1>1. \A i \in 1 .. m : line[i] \in S
    BY ElementOfSeq
<1>2. QED
    BY <1>1, SubSeqProperties

(* The blank a backspace writes over the cell it moved back to leaves the *)
(* rest of the line in place.                                             *)
LEMMA EraseShown ==
    ASSUME NEW g \in [Rows \X Cols -> ScreenCells], NEW cur \in CursorPos,
           cur.screen_y < NUM_ROWS, NEW line \in Seq(ScreenCells),
           NEW m \in Nat, m = Len(line) - 1, NEW st \in Nat,
           st + m = Pos(cur), ShownAt(g, st, line), NEW v
    PROVE  ShownAt(WriteChar(g, cur, v), st, SubSeq(line, 1, m))
<1>1. /\ Pos(cur) \in 0 .. NUM_ROWS * NUM_COLS - 1
      /\ Len(line) \in Nat
      /\ NUM_ROWS * NUM_COLS \in Int
    BY PosBound, LenProperties, ScreenAssumption
<1>2. /\ Len(SubSeq(line, 1, m)) = m
      /\ \A k \in 1 .. m : SubSeq(line, 1, m)[k] = line[k]
    BY SubSeqFront
<1> SUFFICES ASSUME NEW k \in 1 .. m
             PROVE  WriteChar(g, cur, v)[CellAt(st + k - 1)] = line[k]
    BY <1>2 DEF ShownAt
<1>3. st + k - 1 \in 0 .. NUM_ROWS * NUM_COLS - 1 /\ st + k - 1 # Pos(cur)
    BY <1>1
<1>4. WriteChar(g, cur, v)[CellAt(st + k - 1)] = g[CellAt(st + k - 1)]
    BY <1>3, WriteKeeps
<1>5. QED
    BY <1>1, <1>4 DEF ShownAt

-----------------------------------------------------------------------------
(* terminal_putc of a byte that is neither newline nor backspace: it is   *)
(* written at the cursor, which advances and may wrap and scroll; the line *)
(* grows by the byte and is still on the screen where it began.           *)
LEMMA PrintableOK ==
    ASSUME NEW g, NEW cur, NEW line, GridOK(g, cur, line), NEW c \in ScreenCells
    PROVE  GridOK(PutcGrid(g, cur, c), T!Putc(cur, c), PutcLine(line, cur, c))
<1> DEFINE n == T!Putc(cur, c)
<1> DEFINE w == WriteChar(g, cur, c)
<1> DEFINE st == Pos(cur) - cur.logical_x
<1> DEFINE l2 == Append(line, c)
<1>1. /\ g \in [Rows \X Cols -> ScreenCells]
      /\ cur \in CursorPos /\ cur.screen_y < NUM_ROWS
      /\ line \in Seq(ScreenCells) /\ Len(line) = cur.logical_x
      /\ Shown(g, cur, line)
    BY DEF GridOK
<1>2. c \notin {NL, CR, BS}
    BY ScreenAssumption DEF ScreenCells
<1>3. /\ PutcGrid(g, cur, c) = IF Scrolls(cur, c) THEN ScrollDown(w) ELSE w
      /\ PutcLine(line, cur, c) = l2
    BY <1>2 DEF PutcGrid, PutcLine, w, l2
<1>4. /\ n \in CursorPos
      /\ n.screen_y < NUM_ROWS
      /\ n.logical_x = cur.logical_x + 1
      /\ ~Scrolls(cur, c) => Pos(n) = Pos(cur) + 1
      /\ Scrolls(cur, c) => Pos(n) = Pos(cur) + 1 - NUM_COLS
    BY <1>1, <1>2, PrintableCursor DEF n
<1>5. /\ l2 \in Seq(ScreenCells)
      /\ Len(l2) = Len(line) + 1
    BY <1>1, AppendProperties DEF l2
<1>6. /\ Pos(cur) \in Int /\ Pos(cur) <= NUM_ROWS * NUM_COLS - 1
      /\ cur.logical_x \in Nat /\ NUM_COLS \in Nat \ {0}
      /\ NUM_ROWS * NUM_COLS \in Int
    BY <1>1, PosBound, ScreenAssumption DEF CursorPos
<1>7. w \in [Rows \X Cols -> ScreenCells]
    BY <1>1, WriteCharType DEF w
<1>8. st >= 0 => ShownAt(w, st, l2)
    <2> SUFFICES ASSUME st >= 0 PROVE ShownAt(w, st, l2)
        OBVIOUS
    <2>1. ShownAt(g, st, line)
        BY <1>1 DEF Shown, st
    <2>2. st \in Nat
        BY <1>6 DEF st
    <2>3. QED
        BY <1>1, <2>1, <2>2, WriteShown DEF w, st, l2
<1>9. Len(l2) = n.logical_x
    BY <1>1, <1>4, <1>5
<1>10. CASE ~Scrolls(cur, c)
    <2>1. Pos(n) - n.logical_x = st
        BY <1>4, <1>6, <1>10 DEF st
    <2>2. Shown(w, n, l2)
        BY <1>8, <2>1 DEF Shown
    <2>3. QED
        BY <1>3, <1>4, <1>5, <1>7, <1>9, <1>10, <2>2 DEF GridOK, n
<1>11. CASE Scrolls(cur, c)
    <2>1. Pos(n) - n.logical_x = st - NUM_COLS
        BY <1>4, <1>6, <1>11 DEF st
    <2>2. st - NUM_COLS >= 0 => ShownAt(ScrollDown(w), st - NUM_COLS, l2)
        <3> SUFFICES ASSUME st - NUM_COLS >= 0
                     PROVE  ShownAt(ScrollDown(w), st - NUM_COLS, l2)
            OBVIOUS
        <3>1. ShownAt(w, st, l2)
            BY <1>6, <1>8 DEF st
        <3>2. /\ st \in Int /\ st >= NUM_COLS
              /\ st + Len(l2) - 1 <= NUM_ROWS * NUM_COLS - 1
            BY <1>1, <1>5, <1>6 DEF st
        <3>3. QED
            BY <1>5, <1>7, <3>1, <3>2, ScrollShown
    <2>3. Shown(ScrollDown(w), n, l2)
        BY <2>1, <2>2 DEF Shown
    <2>4. ScrollDown(w) \in [Rows \X Cols -> ScreenCells]
        BY <1>7, ScrollDownType
    <2>5. QED
        BY <1>3, <1>4, <1>5, <1>9, <1>11, <2>3, <2>4 DEF GridOK, n
<1>12. QED
    BY <1>10, <1>11

(* terminal_putc('\b'): on a non-empty line the cursor goes back a cell, *)
(* which is blanked, and the line loses its last byte; on an empty line   *)
(* nothing changes.                                                        *)
LEMMA BackspaceOK ==
    ASSUME NEW g, NEW cur, NEW line, GridOK(g, cur, line)
    PROVE  GridOK(PutcGrid(g, cur, BS), T!Putc(cur, BS), PutcLine(line, cur, BS))
<1> DEFINE n == T!Putc(cur, BS)
<1>1. /\ g \in [Rows \X Cols -> ScreenCells]
      /\ cur \in CursorPos /\ cur.screen_y < NUM_ROWS
      /\ line \in Seq(ScreenCells) /\ Len(line) = cur.logical_x
      /\ Shown(g, cur, line)
    BY DEF GridOK
<1>2. CASE cur.logical_x = 0
    <2>1. PutcGrid(g, cur, BS) = g /\ PutcLine(line, cur, BS) = line
        BY <1>2, ScreenAssumption DEF PutcGrid, PutcLine
    <2>2. QED
        BY <1>1, <1>2, <2>1, BackspaceNone DEF GridOK
<1>3. CASE cur.logical_x > 0
    <2>1. /\ PutcGrid(g, cur, BS) = WriteChar(g, n, SP)
          /\ PutcLine(line, cur, BS) = SubSeq(line, 1, Len(line) - 1)
        BY <1>3, ScreenAssumption DEF PutcGrid, PutcLine, n
    <2>2. /\ n \in CursorPos /\ n.screen_y < NUM_ROWS
          /\ n.logical_x = cur.logical_x - 1
          /\ Pos(n) = Pos(cur) - 1
        BY <1>1, <1>3, BackspaceCursor DEF n
    <2>3. /\ Len(line) - 1 \in Nat /\ Len(line) - 1 = n.logical_x
          /\ Pos(cur) \in Int /\ cur.logical_x \in Nat
        BY <1>1, <1>3, <2>2, PosBound DEF CursorPos
    <2>4. /\ SubSeq(line, 1, Len(line) - 1) \in Seq(ScreenCells)
          /\ Len(SubSeq(line, 1, Len(line) - 1)) = Len(line) - 1
        BY <1>1, <2>3, SubSeqFront
    <2>5. WriteChar(g, n, SP) \in [Rows \X Cols -> ScreenCells]
        BY <1>1, <2>2, WriteCharType DEF ScreenCells
    <2>6. Pos(n) - n.logical_x = Pos(cur) - cur.logical_x
        BY <2>2, <2>3
    <2>7. Shown(WriteChar(g, n, SP), n, SubSeq(line, 1, Len(line) - 1))
        <3> DEFINE st == Pos(cur) - cur.logical_x
        <3> SUFFICES ASSUME st >= 0
                     PROVE  ShownAt(WriteChar(g, n, SP), st,
                                    SubSeq(line, 1, Len(line) - 1))
            BY <2>6 DEF Shown, st
        <3>1. ShownAt(g, st, line) /\ st \in Nat /\ st + Len(line) - 1 = Pos(n)
            BY <1>1, <2>2, <2>3 DEF Shown, st
        <3>2. QED
            BY <1>1, <2>2, <2>3, <3>1, EraseShown DEF st
    <2>8. QED
        BY <2>1, <2>2, <2>3, <2>4, <2>5, <2>7 DEF GridOK, n
<1>4. QED
    BY <1>1, <1>2, <1>3 DEF CursorPos

(* terminal_putc('\n') or ('\r'): the cursor starts an empty line on the *)
(* next row, scrolling at the bottom.                                      *)
LEMMA NewlineOK ==
    ASSUME NEW g, NEW cur, NEW line, GridOK(g, cur, line), NEW c \in {NL, CR}
    PROVE  GridOK(PutcGrid(g, cur, c), T!Putc(cur, c), PutcLine(line, cur, c))
<1>1. /\ g \in [Rows \X Cols -> ScreenCells]
      /\ cur \in CursorPos /\ cur.screen_y < NUM_ROWS
    BY DEF GridOK
<1>2. /\ PutcGrid(g, cur, c) = IF Scrolls(cur, c) THEN ScrollDown(g) ELSE g
      /\ PutcLine(line, cur, c) = <<>>
    BY ScreenAssumption DEF PutcGrid, PutcLine
<1>3. PutcGrid(g, cur, c) \in [Rows \X Cols -> ScreenCells]
    BY <1>1, <1>2, ScrollDownType
<1>4. Shown(PutcGrid(g, cur, c), T!Putc(cur, c), <<>>)
    BY DEF Shown, ShownAt
<1>5. QED
    BY <1>1, <1>2, <1>3, <1>4, NewlineCursor DEF GridOK

(* Every byte terminal_putc is given keeps the screen showing the line. *)
LEMMA PutcOK ==
    ASSUME NEW g, NEW cur, NEW line, GridOK(g, cur, line),
           NEW c \in T!WriteChars \cup T!KeyChars
    PROVE  GridOK(PutcGrid(g, cur, c), T!Putc(cur, c), PutcLine(line, cur, c))
<1>1. c \in ScreenCells \/ c \in {NL, CR} \/ c = BS
    BY DEF T!WriteChars, T!KeyChars, ScreenCells
<1>2. QED
    BY <1>1, PrintableOK, BackspaceOK, NewlineOK

-----------------------------------------------------------------------------
(* A printable byte covers the first erased cell, if any; a scroll comes  *)
(* only from the last cell, where nothing is erased beyond the cursor.    *)
LEMMA PrintableReach ==
    ASSUME NEW g, NEW cur, NEW line, NEW reach, GridOK(g, cur, line),
           ReachOK(g, cur, line, reach), NEW c \in ScreenCells
    PROVE  ReachOK(PutcGrid(g, cur, c), T!Putc(cur, c), PutcLine(line, cur, c),
                   PutcReach(reach, cur, c))
<1> DEFINE n == T!Putc(cur, c)
<1> DEFINE w == WriteChar(g, cur, c)
<1> DEFINE st == Pos(cur) - cur.logical_x
<1>1. /\ g \in [Rows \X Cols -> ScreenCells]
      /\ cur \in CursorPos /\ cur.screen_y < NUM_ROWS
      /\ line \in Seq(ScreenCells) /\ Len(line) = cur.logical_x
    BY DEF GridOK
<1>2. /\ reach \in Nat /\ cur.logical_x <= reach
      /\ st + reach <= NUM_ROWS * NUM_COLS - 1
      /\ Blank(g, cur, line, reach)
    BY DEF ReachOK, st
<1>3. c \notin {NL, CR, BS}
    BY ScreenAssumption DEF ScreenCells
<1>4. /\ PutcGrid(g, cur, c) = IF Scrolls(cur, c) THEN ScrollDown(w) ELSE w
      /\ PutcLine(line, cur, c) = Append(line, c)
    BY <1>3 DEF PutcGrid, PutcLine, w
<1>5. /\ n \in CursorPos
      /\ n.screen_y < NUM_ROWS
      /\ n.logical_x = cur.logical_x + 1
      /\ ~Scrolls(cur, c) => Pos(n) = Pos(cur) + 1
      /\ Scrolls(cur, c) => /\ Pos(n) = Pos(cur) + 1 - NUM_COLS
                            /\ Pos(cur) = NUM_ROWS * NUM_COLS - 1
    BY <1>1, <1>3, PrintableCursor DEF n
<1>6. PutcReach(reach, cur, c) =
        IF cur.logical_x + 1 > reach THEN cur.logical_x + 1 ELSE reach
    BY <1>3, <1>5 DEF PutcReach, n
<1>7. Len(Append(line, c)) = cur.logical_x + 1
    BY <1>1, AppendProperties
<1>8. /\ Pos(cur) \in Int /\ Pos(cur) <= NUM_ROWS * NUM_COLS - 1
      /\ cur.logical_x \in Nat /\ NUM_COLS \in Nat \ {0}
      /\ NUM_ROWS * NUM_COLS \in Int
      /\ Pos(n) \in Int /\ Pos(n) <= NUM_ROWS * NUM_COLS - 1
    BY <1>1, <1>5, PosBound, ScreenAssumption DEF CursorPos, n
<1>9. CASE ~Scrolls(cur, c)
    <2>1. Pos(n) - n.logical_x = st
        BY <1>5, <1>8, <1>9 DEF st
    <2>2. /\ PutcReach(reach, cur, c) \in Nat
          /\ n.logical_x <= PutcReach(reach, cur, c)
          /\ Pos(n) - n.logical_x + PutcReach(reach, cur, c) <= NUM_ROWS * NUM_COLS - 1
        BY <1>2, <1>5, <1>6, <1>8, <1>9, <2>1 DEF st
    <2>3. Blank(w, n, Append(line, c), PutcReach(reach, cur, c))
        <3> SUFFICES ASSUME st >= 0,
                            NEW j \in Len(Append(line, c)) + 1 .. PutcReach(reach, cur, c)
                     PROVE  w[CellAt(st + j - 1)] = SP
            BY <2>1 DEF Blank
        <3>1. j \in Len(line) + 1 .. reach /\ j >= cur.logical_x + 2
            BY <1>1, <1>2, <1>6, <1>7, <1>8
        <3>2. g[CellAt(st + j - 1)] = SP
            BY <1>2, <3>1 DEF Blank, st
        <3>3. st + j - 1 \in 0 .. NUM_ROWS * NUM_COLS - 1 /\ st + j - 1 # Pos(cur)
            <4>1. j \in Int /\ j <= reach /\ j >= cur.logical_x + 2
                BY <1>2, <3>1
            <4>2. st + j - 1 >= 0
                BY <1>8, <4>1
            <4>3. st + j - 1 <= NUM_ROWS * NUM_COLS - 1
                BY <1>2, <1>8, <4>1 DEF st
            <4>4. st + j - 1 > Pos(cur)
                BY <1>8, <4>1 DEF st
            <4>5. QED
                BY <1>8, <4>1, <4>2, <4>3, <4>4 DEF st
        <3>4. w[CellAt(st + j - 1)] = g[CellAt(st + j - 1)]
            <4>1. CellAt(Pos(cur)) = <<cur.screen_y, cur.screen_x>>
                BY <1>1, CellOf DEF Pos, CursorPos
            <4>2. CellAt(st + j - 1) # CellAt(Pos(cur))
                BY <1>8, <3>3, CellInj
            <4>3. QED
                BY <1>1, <4>1, <4>2 DEF w, WriteChar
        <3>5. QED
            BY <3>2, <3>4
    <2>4. QED
        BY <1>4, <1>9, <2>2, <2>3 DEF ReachOK, n, w
<1>10. CASE Scrolls(cur, c)
    <2>1. cur.logical_x = reach
        BY <1>2, <1>5, <1>8, <1>10 DEF st
    <2>2. PutcReach(reach, cur, c) = cur.logical_x + 1
        BY <1>6, <1>8, <2>1
    <2>3. Pos(n) - n.logical_x + (cur.logical_x + 1) <= NUM_ROWS * NUM_COLS - 1
        BY <1>5, <1>8, <1>10
    <2>4. Blank(ScrollDown(w), n, Append(line, c), cur.logical_x + 1)
        BY <1>7, <1>8 DEF Blank
    <2>5. ReachOK(ScrollDown(w), n, Append(line, c), cur.logical_x + 1)
        BY <1>5, <1>8, <2>3, <2>4 DEF ReachOK
    <2>6. PutcGrid(g, cur, c) = ScrollDown(w)
        BY <1>4, <1>10
    <2>7. QED
        BY <1>4, <2>2, <2>5, <2>6 DEF n
<1>11. QED
    BY <1>9, <1>10

(* A backspace blanks the cell it moves back to, which becomes the first  *)
(* erased cell; the reach stays.                                           *)
LEMMA BackspaceReach ==
    ASSUME NEW g, NEW cur, NEW line, NEW reach, GridOK(g, cur, line),
           ReachOK(g, cur, line, reach)
    PROVE  ReachOK(PutcGrid(g, cur, BS), T!Putc(cur, BS), PutcLine(line, cur, BS),
                   PutcReach(reach, cur, BS))
<1> DEFINE n == T!Putc(cur, BS)
<1> DEFINE st == Pos(cur) - cur.logical_x
<1>1. /\ g \in [Rows \X Cols -> ScreenCells]
      /\ cur \in CursorPos /\ cur.screen_y < NUM_ROWS
      /\ line \in Seq(ScreenCells) /\ Len(line) = cur.logical_x
    BY DEF GridOK
<1>2. /\ reach \in Nat /\ cur.logical_x <= reach
      /\ st + reach <= NUM_ROWS * NUM_COLS - 1
      /\ Blank(g, cur, line, reach)
    BY DEF ReachOK, st
<1>3. CASE cur.logical_x = 0
    <2>1. /\ PutcGrid(g, cur, BS) = g /\ PutcLine(line, cur, BS) = line
          /\ n = cur
        BY <1>1, <1>3, BackspaceNone, ScreenAssumption DEF PutcGrid, PutcLine, n
    <2>2. PutcReach(reach, cur, BS) = reach
        BY <1>2, <1>3, <2>1, ScreenAssumption DEF PutcReach, n
    <2>3. QED
        BY <2>1, <2>2 DEF ReachOK, n
<1>4. CASE cur.logical_x > 0
    <2>1. /\ PutcGrid(g, cur, BS) = WriteChar(g, n, SP)
          /\ PutcLine(line, cur, BS) = SubSeq(line, 1, Len(line) - 1)
        BY <1>4, ScreenAssumption DEF PutcGrid, PutcLine, n
    <2>2. /\ n \in CursorPos /\ n.screen_y < NUM_ROWS
          /\ n.logical_x = cur.logical_x - 1
          /\ Pos(n) = Pos(cur) - 1
        BY <1>1, <1>4, BackspaceCursor DEF n
    <2>3. /\ Len(line) - 1 \in Nat
          /\ Pos(cur) \in Int /\ cur.logical_x \in Nat
          /\ Pos(n) \in Int
          /\ NUM_ROWS * NUM_COLS \in Int
          /\ Pos(n) >= 0 => n.screen_y \in Rows
        BY <1>1, <1>4, <2>2, PosBound, ScreenAssumption DEF CursorPos
    <2>4. Len(SubSeq(line, 1, Len(line) - 1)) = Len(line) - 1
        BY <1>1, <2>3, SubSeqFront
    <2>5. PutcReach(reach, cur, BS) = reach
        BY <1>2, <1>4, <2>2, <2>3, ScreenAssumption DEF PutcReach, n
    <2>6. Pos(n) - n.logical_x = st
        BY <2>2, <2>3 DEF st
    <2>7. Blank(WriteChar(g, n, SP), n, SubSeq(line, 1, Len(line) - 1), reach)
        <3> SUFFICES ASSUME st >= 0,
                            NEW j \in Len(SubSeq(line, 1, Len(line) - 1)) + 1 .. reach
                     PROVE  WriteChar(g, n, SP)[CellAt(st + j - 1)] = SP
            BY <2>6 DEF Blank
        <3>1. j \in cur.logical_x .. reach
            BY <1>1, <2>4
        <3>2. CASE j = cur.logical_x
            <4>1. st + j - 1 = Pos(n) /\ n.screen_y \in Rows
                BY <1>1, <1>4, <2>2, <2>3, <3>2 DEF st
            <4>2. CellAt(Pos(n)) = <<n.screen_y, n.screen_x>>
                BY <2>2, CellOf DEF Pos, CursorPos
            <4>3. QED
                BY <1>1, <2>2, <4>1, <4>2 DEF WriteChar, CursorPos
        <3>3. CASE j > cur.logical_x
            <4>1. g[CellAt(st + j - 1)] = SP
                BY <1>1, <1>2, <3>1, <3>3 DEF Blank, st
            <4>2. st + j - 1 \in Int /\ st + j - 1 # Pos(n)
                <5>1. j \in Int /\ j > cur.logical_x
                    BY <1>2, <3>1, <3>3
                <5>2. QED
                    BY <2>2, <2>3, <5>1 DEF st
            <4>3. WriteChar(g, n, SP)[CellAt(st + j - 1)] = g[CellAt(st + j - 1)]
                <5>1. CellAt(Pos(n)) = <<n.screen_y, n.screen_x>>
                    BY <2>2, CellOf DEF Pos, CursorPos
                <5>2. CellAt(st + j - 1) # CellAt(Pos(n))
                    BY <2>3, <4>2, CellInj
                <5>3. QED
                    BY <1>1, <5>1, <5>2 DEF WriteChar
            <4>4. QED
                BY <4>1, <4>3
        <3>4. QED
            BY <2>3, <3>1, <3>2, <3>3
    <2>8. QED
        BY <1>2, <2>1, <2>2, <2>3, <2>5, <2>6, <2>7 DEF ReachOK, n, st
<1>5. QED
    BY <1>1, <1>3, <1>4 DEF CursorPos

(* A newline starts a line that has reached nowhere. *)
LEMMA NewlineReach ==
    ASSUME NEW g, NEW cur, NEW line, NEW reach, GridOK(g, cur, line),
           NEW c \in {NL, CR}
    PROVE  ReachOK(PutcGrid(g, cur, c), T!Putc(cur, c), PutcLine(line, cur, c),
                   PutcReach(reach, cur, c))
<1> DEFINE n == T!Putc(cur, c)
<1>1. /\ n \in CursorPos /\ n.screen_y < NUM_ROWS /\ n.logical_x = 0
    BY NewlineCursor DEF GridOK, n
<1>2. Pos(n) \in Int /\ Pos(n) <= NUM_ROWS * NUM_COLS - 1
    BY <1>1, PosBound
<1>3. PutcLine(line, cur, c) = <<>> /\ PutcReach(reach, cur, c) = 0
    BY ScreenAssumption DEF PutcLine, PutcReach
<1>4. Blank(PutcGrid(g, cur, c), n, <<>>, 0)
    BY DEF Blank
<1>5. QED
    BY <1>1, <1>2, <1>3, <1>4 DEF ReachOK, n

(* Every byte terminal_putc is given keeps the erased cells blank. *)
LEMMA PutcReachOK ==
    ASSUME NEW g, NEW cur, NEW line, NEW reach, GridOK(g, cur, line),
           ReachOK(g, cur, line, reach), NEW c \in T!WriteChars \cup T!KeyChars
    PROVE  ReachOK(PutcGrid(g, cur, c), T!Putc(cur, c), PutcLine(line, cur, c),
                   PutcReach(reach, cur, c))
<1>1. c \in ScreenCells \/ c \in {NL, CR} \/ c = BS
    BY DEF T!WriteChars, T!KeyChars, ScreenCells
<1>2. QED
    BY <1>1, PrintableReach, BackspaceReach, NewlineReach

(* terminal_putc moves the logical column at most one to the right. *)
LEMMA PutcColumn ==
    ASSUME NEW cur \in CursorPos, cur.screen_y < NUM_ROWS,
           NEW c \in T!WriteChars \cup T!KeyChars
    PROVE  T!Putc(cur, c).logical_x <= cur.logical_x + 1
<1>1. cur.logical_x \in Nat
    BY DEF CursorPos
<1>2. CASE c \in ScreenCells
    <2>1. c \notin {NL, CR, BS}
        BY <1>2, ScreenAssumption DEF ScreenCells
    <2>2. QED
        BY <1>1, <2>1, PrintableCursor
<1>3. CASE c \in {NL, CR}
    BY <1>1, <1>3, NewlineCursor
<1>4. CASE c = BS /\ cur.logical_x > 0
    BY <1>1, <1>4, BackspaceCursor
<1>5. CASE c = BS /\ cur.logical_x = 0
    BY <1>1, <1>5, BackspaceNone
<1>6. QED
    BY <1>1, <1>2, <1>3, <1>4, <1>5 DEF T!WriteChars, T!KeyChars, ScreenCells

-----------------------------------------------------------------------------
(* The initial state: a cleared line at the top-left cell. *)
LEMMA InitIInv == Init => IInv
<1> SUFFICES ASSUME Init PROVE IInv
    OBVIOUS
<1>1. cursor \in CursorPos /\ cursor.screen_y < NUM_ROWS /\ cursor.logical_x = 0
    BY ScreenAssumption DEF Init, CursorPos, Cols
<1>2. Shown(grid, cursor, lineText)
    BY DEF Init, Shown, ShownAt
<1>3. TypeOK
    BY <1>1, ScreenAssumption DEF Init, TypeOK
<1>4. GridOK(grid, cursor, lineText)
    BY <1>1, <1>2 DEF Init, GridOK
<1>5. cursor.logical_x + Len(wrem) <= MaxLogicalX
    BY <1>1, ScreenAssumption DEF Init
<1>6. Blank(grid, cursor, lineText, lineReach)
    BY DEF Init, Blank
<1>7. Pos(cursor) - cursor.logical_x + lineReach <= NUM_ROWS * NUM_COLS - 1
    BY <1>1, ScreenAssumption DEF Init, Pos
<1>8. ReachOK(grid, cursor, lineText, lineReach)
    BY <1>1, <1>6, <1>7 DEF Init, ReachOK
<1>9. QED
    BY <1>3, <1>4, <1>5, <1>8 DEF IInv

(* write() taking a buffer that fits under the bound. *)
LEMMA TerminalWriteIInv ==
    ASSUME IInv, NEW s \in WriteStrings, TerminalWrite(s)
    PROVE  IInv'
<1>1. s \in Seq(T!WriteChars)
    BY ScreenAssumption
<1>2. GridOK(grid, cursor, lineText)'
    BY DEF IInv, TerminalWrite
<1>3. TypeOK'
    BY <1>1 DEF IInv, TypeOK, TerminalWrite
<1>4. (cursor.logical_x + Len(wrem) <= MaxLogicalX)'
    BY DEF TerminalWrite
<1>5. ReachOK(grid, cursor, lineText, lineReach)'
    BY DEF IInv, TerminalWrite
<1>6. QED
    BY <1>2, <1>3, <1>4, <1>5 DEF IInv

(* One byte of the write() in progress printed by terminal_putc. *)
LEMMA WritePutcIInv ==
    ASSUME IInv, WritePutc
    PROVE  IInv'
<1> DEFINE c == Head(wrem)
<1>1. /\ c \in T!WriteChars
      /\ Tail(wrem) \in Seq(T!WriteChars)
      /\ Len(Tail(wrem)) = Len(wrem) - 1
    BY HeadTailProperties DEF IInv, TypeOK, WritePutc, c
<1>2. Len(Tail(wrem)) \in Nat /\ Len(wrem) \in Nat
    BY <1>1, LenProperties DEF IInv, TypeOK
<1>3. GridOK(PutcGrid(grid, cursor, c), T!Putc(cursor, c), PutcLine(lineText, cursor, c))
    BY <1>1, PutcOK DEF IInv
<1>4. GridOK(grid, cursor, lineText)'
    BY <1>3 DEF WritePutc, Putc, c
<1>12. ReachOK(PutcGrid(grid, cursor, c), T!Putc(cursor, c),
               PutcLine(lineText, cursor, c), PutcReach(lineReach, cursor, c))
    BY <1>1, PutcReachOK DEF IInv
<1>13. ReachOK(grid, cursor, lineText, lineReach)' /\ lineReach' \in Nat
    BY <1>12 DEF WritePutc, Putc, c, ReachOK
<1>5. cursor'.logical_x <= cursor.logical_x + 1
    BY <1>1, PutcColumn DEF IInv, GridOK, WritePutc, Putc, c
<1>6. /\ cursor' \in CursorPos
      /\ grid' \in [Rows \X Cols -> ScreenCells]
      /\ lineText' \in Seq(ScreenCells)
    BY <1>4 DEF GridOK
<1>7. wrem' = Tail(wrem) /\ input' = input
    BY DEF WritePutc
<1>8. /\ cursor.logical_x \in Nat
      /\ cursor.logical_x + Len(wrem) <= MaxLogicalX
      /\ input \in Seq(T!KeyChars \ {BS}) /\ Len(input) <= TERMINAL_BUF_SIZE
    BY DEF IInv, TypeOK, CursorPos
<1>9. cursor'.logical_x + Len(wrem') <= MaxLogicalX /\ cursor'.logical_x \in Nat
    <2>1. Len(wrem') = Len(wrem) - 1
        BY <1>1, <1>7
    <2>2. cursor'.logical_x \in Nat
        BY <1>6 DEF CursorPos
    <2>3. QED
        BY <1>2, <1>5, <1>8, <2>1, <2>2, ScreenAssumption
<1>10. TypeOK'
    BY <1>1, <1>2, <1>6, <1>7, <1>8, <1>9, <1>13, ScreenAssumption DEF TypeOK
<1>11. QED
    BY <1>4, <1>9, <1>10, <1>13 DEF IInv

(* A keystroke stored (or backspaced) and echoed by handle_char_input. *)
LEMMA HandleCharInputIInv ==
    ASSUME IInv, NEW c \in T!KeyChars, HandleCharInput(c)
    PROVE  IInv'
<1>1. /\ input \in Seq(T!KeyChars \ {BS}) /\ Len(input) <= TERMINAL_BUF_SIZE
      /\ Len(input) \in Nat
      /\ TERMINAL_BUF_SIZE \in Nat /\ MaxLogicalX \in Nat
    BY LenProperties, ScreenAssumption DEF IInv, TypeOK
<1>2. /\ Putc(c)
      /\ T!InBound(cursor')
      /\ wrem' = wrem /\ wrem = <<>>
    BY DEF HandleCharInput
<1>3. GridOK(PutcGrid(grid, cursor, c), T!Putc(cursor, c), PutcLine(lineText, cursor, c))
    BY PutcOK DEF IInv
<1>4. GridOK(grid, cursor, lineText)'
    BY <1>2, <1>3 DEF Putc
<1>10. ReachOK(PutcGrid(grid, cursor, c), T!Putc(cursor, c),
               PutcLine(lineText, cursor, c), PutcReach(lineReach, cursor, c))
    BY PutcReachOK DEF IInv
<1>11. ReachOK(grid, cursor, lineText, lineReach)' /\ lineReach' \in Nat
    BY <1>2, <1>10 DEF Putc, ReachOK
<1>5. /\ input' \in Seq(T!KeyChars \ {BS})
      /\ Len(input') <= TERMINAL_BUF_SIZE
    <2>1. \/ c = BS /\ Len(input) > 0 /\ input' = SubSeq(input, 1, Len(input) - 1)
          \/ c # BS /\ Len(input) < TERMINAL_BUF_SIZE /\ input' = Append(input, c)
        BY DEF HandleCharInput
    <2>2. CASE c = BS /\ Len(input) > 0 /\ input' = SubSeq(input, 1, Len(input) - 1)
        <3>1. Len(input) - 1 \in Nat
            BY <1>1, <2>2
        <3>2. /\ SubSeq(input, 1, Len(input) - 1) \in Seq(T!KeyChars \ {BS})
              /\ Len(SubSeq(input, 1, Len(input) - 1)) = Len(input) - 1
            BY <1>1, <3>1, SubSeqFront
        <3>3. QED
            BY <1>1, <2>2, <3>2
    <2>3. CASE c # BS /\ Len(input) < TERMINAL_BUF_SIZE /\ input' = Append(input, c)
        <3>1. c \in T!KeyChars \ {BS}
            BY <2>3
        <3>2. /\ Append(input, c) \in Seq(T!KeyChars \ {BS})
              /\ Len(Append(input, c)) = Len(input) + 1
            BY <1>1, <3>1, AppendProperties
        <3>3. QED
            BY <1>1, <2>3, <3>2
    <2>4. QED
        BY <2>1, <2>2, <2>3
<1>6. /\ cursor' \in CursorPos /\ cursor'.logical_x <= MaxLogicalX
      /\ grid' \in [Rows \X Cols -> ScreenCells]
      /\ lineText' \in Seq(ScreenCells)
    BY <1>2, <1>4 DEF GridOK, T!InBound
<1>7. /\ wrem' \in Seq(T!WriteChars)
      /\ cursor'.logical_x + Len(wrem') <= MaxLogicalX
    BY <1>1, <1>2, <1>6 DEF CursorPos
<1>8. TypeOK'
    BY <1>5, <1>6, <1>7, <1>11 DEF TypeOK
<1>9. QED
    BY <1>4, <1>7, <1>8, <1>11 DEF IInv

(* terminal_clear: an empty line at the top-left of a blank screen. *)
LEMMA HandleCtrlInputIInv ==
    ASSUME IInv, NEW k \in CtrlInputs, HandleCtrlInput(k)
    PROVE  IInv'
<1>1. /\ cursor' \in CursorPos /\ cursor'.screen_y < NUM_ROWS
      /\ cursor'.logical_x = 0 /\ MaxLogicalX \in Nat
    BY ScreenAssumption DEF HandleCtrlInput, CursorPos, Cols
<1>2. grid' \in [Rows \X Cols -> ScreenCells]
    BY DEF HandleCtrlInput, ScreenCells
<1>3. lineText' = <<>> /\ wrem' = <<>> /\ input' = input
    BY DEF HandleCtrlInput
<1>4. GridOK(grid, cursor, lineText)'
    BY <1>1, <1>2, <1>3 DEF GridOK, Shown, ShownAt
<1>7. lineReach' = 0
    BY DEF HandleCtrlInput
<1>5. TypeOK'
    BY <1>1, <1>2, <1>3, <1>7 DEF IInv, TypeOK
<1>8. Blank(grid, cursor, lineText, lineReach)'
    BY <1>3, <1>7 DEF Blank
<1>9. (Pos(cursor) - cursor.logical_x + lineReach <= NUM_ROWS * NUM_COLS - 1)'
    BY <1>7, ScreenAssumption DEF HandleCtrlInput, Pos
<1>10. ReachOK(grid, cursor, lineText, lineReach)'
    BY <1>1, <1>7, <1>8, <1>9 DEF ReachOK
<1>6. QED
    BY <1>1, <1>3, <1>4, <1>5, <1>10 DEF IInv

(* A step that changes no variable. *)
LEMMA StutterIInv ==
    ASSUME IInv, UNCHANGED vars
    PROVE  IInv'
    BY DEF IInv, TypeOK, GridOK, ReachOK, Blank, vars

(* Every step of the terminal keeps the inductive invariant. *)
LEMMA NextIInv == IInv /\ [Next]_vars => IInv'
<1> SUFFICES ASSUME IInv, [Next]_vars PROVE IInv'
    OBVIOUS
<1>1. CASE \E s \in WriteStrings : TerminalWrite(s)
    BY <1>1, TerminalWriteIInv
<1>2. CASE WritePutc
    BY <1>2, WritePutcIInv
<1>3. CASE \E c \in T!KeyChars : HandleCharInput(c)
    BY <1>3, HandleCharInputIInv
<1>4. CASE \E k \in CtrlInputs : HandleCtrlInput(k)
    BY <1>4, HandleCtrlInputIInv
<1>5. CASE UNCHANGED vars
    BY <1>5, StutterIInv
<1>6. QED
    BY <1>1, <1>2, <1>3, <1>4, <1>5 DEF Next

-----------------------------------------------------------------------------
(* Type correctness of terminal.c's screen state: the grid holds screen  *)
(* bytes, the cursor stays a cursor_pos_t under the bound, and the input  *)
(* buffer holds at most TERMINAL_BUF_SIZE bytes, none a backspace.       *)
THEOREM TypeCorrect == Spec => []TypeOK
<1>1. IInv => TypeOK
    BY DEF IInv
<1>2. QED
    BY <1>1, InitIInv, NextIInv, PTL DEF Spec

(* The screen shows the logical line terminal_putc is printing: for every *)
(* grid size, the cells from where the line began up to the cursor hold   *)
(* the bytes printed on it, across wraps, scrolls and backspaces, as long *)
(* as its beginning is still on the screen.                               *)
THEOREM LineShownHolds == Spec => []LineShown
<1>1. IInv => LineShown
    <2> SUFFICES ASSUME IInv PROVE LineShown
        OBVIOUS
    <2>1. LineStart = Pos(cursor) - cursor.logical_x
        BY ScreenAssumption DEF IInv, TypeOK, CursorPos, Cols, LineStart, Pos
    <2>2. LineStart >= 0 => ShownAt(grid, LineStart, lineText)
        BY <2>1 DEF IInv, GridOK, Shown
    <2>3. QED
        BY <2>2 DEF ShownAt, LineShown
<1>2. QED
    BY <1>1, InitIInv, NextIInv, PTL DEF Spec


(* What a backspace erases stays erased: for every grid size, the cells   *)
(* past the end of the logical line, up to the farthest column it         *)
(* reached, hold spaces, however terminal_putc wrapped, scrolled and      *)
(* backed up over them.                                                   *)
THEOREM ErasedBlankHolds == Spec => []ErasedBlank
<1>1. IInv => ErasedBlank
    <2> SUFFICES ASSUME IInv PROVE ErasedBlank
        OBVIOUS
    <2>1. LineStart = Pos(cursor) - cursor.logical_x
        BY ScreenAssumption DEF IInv, TypeOK, CursorPos, Cols, LineStart, Pos
    <2>2. QED
        BY <2>1 DEF IInv, ReachOK, Blank, ErasedBlank
<1>2. QED
    BY <1>1, InitIInv, NextIInv, PTL DEF Spec

=============================================================================
