----------------------------- MODULE ShellProofs -----------------------------
(***************************************************************************)
(* The screen and the shell on it, for every width and height, every       *)
(* prompt and every length of the line buffer.  The writer's raw writes    *)
(* fall in the screen and what is at and after the cursor is blank; the    *)
(* screen is a terminal; the shell uses the writer through its calls, and  *)
(* what it echoes is what it has in its line buffer.                       *)
(***************************************************************************)
EXTENDS Shell, SequenceTheorems, TLAPS

\* A writer with its cursor on the screen and its memory intact.
Writers == [cells : [0 .. Size - 1 -> Glyphs],
            row : 0 .. BUFFER_HEIGHT - 1,
            col : 0 .. BUFFER_WIDTH]

\* Nothing at the cursor of w or after it.
Clean(w) ==
  \A o \in 0 .. Size - 1 : o >= Offset(w.row, w.col) => w.cells[o] = Blank

\* Multiplying by the width keeps the order.
LEMMA TimesMono ==
  ASSUME NEW a \in Nat, NEW b \in Nat, NEW w \in Nat, a <= b
  PROVE  a * w <= b * w
<1>1. PICK d \in Nat : b = a + d
  OBVIOUS
<1>2. b * w = a * w + d * w
  BY <1>1
<1>3. d * w \in Nat
  OBVIOUS
<1> QED
  BY <1>2, <1>3

\* The size of the screen is a number, and its last row is the width before it.
LEMMA Sizes ==
  /\ Size \in Nat
  /\ Offset(BUFFER_HEIGHT - 1, 0) = Size - BUFFER_WIDTH
  /\ Size >= BUFFER_WIDTH
<1> USE VgaAssumption
<1>1. (BUFFER_HEIGHT - 1) * BUFFER_WIDTH = BUFFER_HEIGHT * BUFFER_WIDTH - BUFFER_WIDTH
  OBVIOUS
<1>2. (BUFFER_HEIGHT - 1) * BUFFER_WIDTH \in Nat
  OBVIOUS
<1> QED
  BY <1>1, <1>2 DEF Size, Offset

\* The cell of a row and a column of the screen is one of its cells.
LEMMA OffsetInScreen ==
  ASSUME NEW r \in 0 .. BUFFER_HEIGHT - 1, NEW c \in 0 .. BUFFER_WIDTH - 1
  PROVE  Offset(r, c) \in 0 .. Size - 1
<1> USE VgaAssumption
<1>1. r * BUFFER_WIDTH <= (BUFFER_HEIGHT - 1) * BUFFER_WIDTH
  BY TimesMono
<1>2. (BUFFER_HEIGHT - 1) * BUFFER_WIDTH = Size - BUFFER_WIDTH
  BY Sizes DEF Offset
<1>3. r * BUFFER_WIDTH \in Nat
  OBVIOUS
<1> QED
  BY <1>1, <1>2, <1>3, Sizes DEF Offset

-----------------------------------------------------------------------------
\* scroll keeps the memory in shape and clears the last row.
LEMMA ScrollClears ==
  ASSUME NEW m \in [0 .. Size - 1 -> Glyphs]
  PROVE  /\ Scroll(m) \in [0 .. Size - 1 -> Glyphs]
         /\ \A o \in 0 .. Size - 1 :
              o >= Offset(BUFFER_HEIGHT - 1, 0) => Scroll(m)[o] = Blank
<1> USE VgaAssumption, Sizes
<1>1. \A o \in 0 .. Size - 1 :
        o < Offset(BUFFER_HEIGHT - 1, 0) => o + BUFFER_WIDTH \in 0 .. Size - 1
  OBVIOUS
<1>2. Blank \in Glyphs
  BY DEF Glyphs
<1>3. Scroll(m) \in [0 .. Size - 1 -> Glyphs]
  BY <1>1, <1>2 DEF Scroll
<1>4. ASSUME NEW o \in 0 .. Size - 1, o >= Offset(BUFFER_HEIGHT - 1, 0)
      PROVE  Scroll(m)[o] = Blank
  <2>1. ~(o < Offset(BUFFER_HEIGHT - 1, 0))
    BY <1>4
  <2> QED
    BY <2>1 DEF Scroll
<1> QED
  BY <1>3, <1>4

\* The next row starts where this one ends.
LEMMA NextRow ==
  ASSUME NEW r \in Nat, NEW c \in 0 .. BUFFER_WIDTH
  PROVE  Offset(r + 1, 0) >= Offset(r, c)
<1> USE VgaAssumption
<1>1. (r + 1) * BUFFER_WIDTH = r * BUFFER_WIDTH + BUFFER_WIDTH
  OBVIOUS
<1>2. r * BUFFER_WIDTH \in Nat
  OBVIOUS
<1> QED
  BY <1>1, <1>2 DEF Offset

\* new_line leaves the cursor in column 0 of a row of the screen, with nothing
\* after it.
LEMMA NewLineKeeps ==
  ASSUME NEW w \in Writers, Clean(w)
  PROVE  NewLine(w) \in Writers /\ Clean(NewLine(w)) /\ NewLine(w).col = 0
<1> USE VgaAssumption
<1>1. CASE w.row < BUFFER_HEIGHT - 1
  <2>1. NewLine(w) = [cells |-> w.cells, row |-> w.row + 1, col |-> 0]
    BY <1>1 DEF NewLine
  <2>2. NewLine(w) \in Writers
    BY <2>1, <1>1 DEF Writers
  <2>3. NewLine(w).col = 0 /\ NewLine(w).row = w.row + 1 /\ NewLine(w).cells = w.cells
    BY <2>1 DEF Writers
  <2>4. Offset(w.row + 1, 0) >= Offset(w.row, w.col)
    BY NextRow DEF Writers
  <2>5. /\ Offset(w.row + 1, 0) \in Int
        /\ Offset(w.row, w.col) \in Int
    BY DEF Offset, Writers
  <2>6. Clean(NewLine(w))
    BY <2>3, <2>4, <2>5 DEF Clean
  <2> QED
    BY <2>2, <2>3, <2>6
<1>2. CASE ~(w.row < BUFFER_HEIGHT - 1)
  <2>1. NewLine(w) = [cells |-> Scroll(w.cells), row |-> w.row, col |-> 0]
    BY <1>2 DEF NewLine
  <2>2. NewLine(w).col = 0 /\ NewLine(w).row = w.row /\ NewLine(w).cells = Scroll(w.cells)
    BY <2>1 DEF Writers
  <2>3. w.row = BUFFER_HEIGHT - 1
    BY <1>2 DEF Writers
  <2>4. w.cells \in [0 .. Size - 1 -> Glyphs]
    BY DEF Writers
  <2>5. /\ Scroll(w.cells) \in [0 .. Size - 1 -> Glyphs]
        /\ \A o \in 0 .. Size - 1 :
             o >= Offset(BUFFER_HEIGHT - 1, 0) => Scroll(w.cells)[o] = Blank
    BY <2>4, ScrollClears
  <2>6. NewLine(w) \in Writers
    BY <2>1, <2>5 DEF Writers
  <2>7. Clean(NewLine(w))
    BY <2>2, <2>3, <2>5 DEF Clean
  <2> QED
    BY <2>2, <2>6, <2>7
<1> QED
  BY <1>1, <1>2

\* A character written at a cursor that is on the screen changes one cell.
LEMMA WriteKeeps ==
  ASSUME NEW w \in Writers, w.col < BUFFER_WIDTH, NEW ch \in Glyphs
  PROVE  /\ WriteCharAt(w, ch) \in [0 .. Size - 1 -> Glyphs]
         /\ \A o \in 0 .. Size - 1 :
              WriteCharAt(w, ch)[o] =
                IF o = Offset(w.row, w.col) THEN ch ELSE w.cells[o]
<1> USE VgaAssumption
<1>1. w.row \in 0 .. BUFFER_HEIGHT - 1 /\ w.col \in 0 .. BUFFER_WIDTH - 1
  BY DEF Writers
<1>2. Offset(w.row, w.col) \in 0 .. Size - 1
  BY <1>1, OffsetInScreen
<1>3. w.cells \in [0 .. Size - 1 -> Glyphs]
  BY DEF Writers
<1>4. DOMAIN w.cells \cup {Offset(w.row, w.col)} = 0 .. Size - 1
  BY <1>2, <1>3, Zenon
<1> QED
  BY <1>3, <1>4 DEF WriteCharAt

\* The cell after a column's is the next column's.
LEMMA NextColumn ==
  ASSUME NEW r \in Nat, NEW c \in Nat
  PROVE  Offset(r, c) \in Int /\ Offset(r, c + 1) = Offset(r, c) + 1
  BY VgaAssumption DEF Offset

\* write_byte keeps the writer on the screen and the rest of it blank.
LEMMA WriteByteKeeps ==
  ASSUME NEW w \in Writers, Clean(w), NEW b \in Glyphs \cup {Newline}
  PROVE  WriteByte(w, b) \in Writers /\ Clean(WriteByte(w, b))
<1> USE VgaAssumption
<1>1. CASE b = Newline
  BY <1>1, NewLineKeeps DEF WriteByte
<1>2. CASE b # Newline
  <2> DEFINE v == IF w.col >= BUFFER_WIDTH THEN NewLine(w) ELSE w
             n == [cells |-> WriteCharAt(v, b), row |-> v.row, col |-> v.col + 1]
  <2>1. NewLine(w) \in Writers /\ Clean(NewLine(w)) /\ NewLine(w).col = 0
    BY NewLineKeeps
  <2>2. v \in Writers /\ Clean(v) /\ v.col < BUFFER_WIDTH
    BY <2>1 DEF Writers
  <2>3. WriteByte(w, b) = n
    BY <1>2 DEF WriteByte
  <2>4. b \in Glyphs
    BY <1>2
  <2> HIDE DEF v
  <2>5. /\ WriteCharAt(v, b) \in [0 .. Size - 1 -> Glyphs]
        /\ \A o \in 0 .. Size - 1 :
             WriteCharAt(v, b)[o] =
               IF o = Offset(v.row, v.col) THEN b ELSE v.cells[o]
    BY <2>2, <2>4, WriteKeeps
  <2>6. v.row \in 0 .. BUFFER_HEIGHT - 1 /\ v.col \in 0 .. BUFFER_WIDTH
    BY <2>2 DEF Writers
  <2>7. n \in Writers
    BY <2>2, <2>5, <2>6 DEF Writers
  <2>8. Offset(v.row, v.col) \in Int /\ Offset(v.row, v.col + 1) = Offset(v.row, v.col) + 1
    BY <2>6, NextColumn, SMTT(30)
  <2>9. Clean(n)
    BY <2>2, <2>5, <2>8 DEF Clean
  <2> QED
    BY <2>3, <2>7, <2>9
<1> QED
  BY <1>1, <1>2

\* backspace blanks the cell it leaves the cursor on.
LEMMA BackspaceKeeps ==
  ASSUME NEW w \in Writers, Clean(w)
  PROVE  Backspace(w) \in Writers /\ Clean(Backspace(w))
<1> USE VgaAssumption
<1>1. CASE ~(w.col > 0)
  BY <1>1 DEF Backspace
<1>2. CASE w.col > 0
  <2> DEFINE v == [cells |-> w.cells, row |-> w.row, col |-> w.col - 1]
             n == [cells |-> WriteCharAt(v, Blank), row |-> v.row, col |-> v.col]
  <2>1. Backspace(w) = n
    BY <1>2 DEF Backspace
  <2>2. v \in Writers /\ v.col < BUFFER_WIDTH /\ v.cells = w.cells /\ v.row = w.row
    BY <1>2 DEF Writers
  <2>3. Blank \in Glyphs
    BY DEF Glyphs
  <2>4. v.row \in 0 .. BUFFER_HEIGHT - 1 /\ v.col \in Nat /\ w.col = v.col + 1
    BY <1>2 DEF Writers
  <2> HIDE DEF v
  <2>5. /\ WriteCharAt(v, Blank) \in [0 .. Size - 1 -> Glyphs]
        /\ \A o \in 0 .. Size - 1 :
             WriteCharAt(v, Blank)[o] =
               IF o = Offset(v.row, v.col) THEN Blank ELSE v.cells[o]
    BY <2>2, <2>3, WriteKeeps
  <2>6. n \in Writers
    BY <2>2, <2>5 DEF Writers
  <2>7. Offset(v.row, v.col) \in Int /\ Offset(w.row, w.col) = Offset(v.row, v.col) + 1
    BY <2>2, <2>4, NextColumn, SMTT(30)
  <2>8. Clean(n)
    BY <2>2, <2>5, <2>7 DEF Clean
  <2> QED
    BY <2>1, <2>6, <2>8
<1> QED
  BY <1>1, <1>2

\* The screen init() and clear leave is blank, with the cursor at its start.
LEMMA BlankIsGood ==
  LET w == [cells |-> BlankScreen, row |-> 0, col |-> 0]
  IN  w \in Writers /\ Clean(w)
<1> DEFINE w == [cells |-> BlankScreen, row |-> 0, col |-> 0]
<1>1. BlankScreen \in [0 .. Size - 1 -> Glyphs]
  BY VgaAssumption DEF BlankScreen, Glyphs
<1>2. w \in Writers
  BY <1>1, VgaAssumption DEF Writers
<1>3. Clean(w)
  BY DEF Clean, BlankScreen
<1> QED
  BY <1>2, <1>3

\* Every call on the writer, from every writer state, keeps the invariant.
LEMMA WriterInvariant == WriterSpec => [](writer \in Writers /\ Clean(writer))
<1> DEFINE Inv == writer \in Writers /\ Clean(writer)
<1>1. WriterInit => Inv
  BY BlankIsGood DEF WriterInit
<1>2. Inv /\ [WriterNext]_writer => Inv'
  <2> SUFFICES ASSUME Inv, [WriterNext]_writer
               PROVE  Inv'
    OBVIOUS
  <2>1. ASSUME NEW b \in Printable \cup {Newline, "ctl"}, Write(b)
        PROVE  Inv'
    <3>1. Shown(b) \in Glyphs \cup {Newline}
      BY DEF Shown, Glyphs
    <3>2. /\ WriteByte(writer, Shown(b)) \in Writers
          /\ Clean(WriteByte(writer, Shown(b)))
      BY <3>1, WriteByteKeeps
    <3> QED
      BY <3>2, <2>1 DEF Write
  <2>2. CASE Clear
    BY <2>2, BlankIsGood DEF Clear, Cleared
  <2>3. CASE Back
    BY <2>3, BackspaceKeeps DEF Back
  <2>4. CASE UNCHANGED writer
    BY <2>4
  <2> QED
    BY <2>1, <2>2, <2>3, <2>4 DEF WriterNext
<1> QED
  BY <1>1, <1>2, PTL DEF WriterSpec

\* No sequence of prints, clears and backspaces makes the writer write outside
\* the screen, whatever the width and the height.
THEOREM ScreenIntact == WriterSpec => []WritesInBuffer
<1>1. writer \in Writers /\ Clean(writer) => WritesInBuffer
  BY DEF Writers, WritesInBuffer
<1> QED
  BY <1>1, WriterInvariant, PTL

\* ... and no old output is ever left at or after the cursor.
THEOREM CursorAtEnd == WriterSpec => []BlankAhead
<1>1. writer \in Writers /\ Clean(writer) => BlankAhead
  BY Zenon DEF Writers, Clean, BlankAhead
<1> QED
  BY <1>1, WriterInvariant, PTL

-----------------------------------------------------------------------------
(* The writer is a terminal.  What is read off the screen, row by row, is   *)
(* compared with the terminal's lines after each operation.                 *)

W == BUFFER_WIDTH
H == BUFFER_HEIGHT

Screens == [0 .. Size - 1 -> Glyphs]

\* A row has a cell, and the screen a row.
LEMMA Dims == W \in Nat \ {0} /\ H \in Nat \ {0}
BY VgaAssumption DEF W, H

\* The cells of two rows do not overlap: a cell of an earlier row comes first.
LEMMA RowsDisjoint ==
  ASSUME NEW r \in Nat, NEW s \in Nat, r < s,
         NEW c \in 0 .. W - 1, NEW d \in 0 .. W
  PROVE  Offset(r, c) < Offset(s, d)
<1>1. (r + 1) * W <= s * W
  BY TimesMono, Dims
<1>2. (r + 1) * W = r * W + W
  BY Dims
<1>3. r * W \in Nat /\ s * W \in Nat
  BY Dims
<1> QED BY <1>1, <1>2, <1>3, Dims DEF Offset, W

\* The cell of a row and a column, and the one after it.
LEMMA CellOf ==
  ASSUME NEW r \in 0 .. H - 1, NEW c \in 0 .. W - 1
  PROVE  Offset(r, c) \in 0 .. Size - 1
BY OffsetInScreen DEF W, H

\* Cells of one row are as far apart as their columns.
LEMMA SameRow ==
  ASSUME NEW r \in Nat, NEW c \in Nat, NEW d \in Nat
  PROVE  /\ Offset(r, c) \in Nat /\ Offset(r, d) \in Nat
         /\ Offset(r, c) - Offset(r, d) = c - d
<1>1. r * BUFFER_WIDTH \in Nat
  BY Dims DEF W
<1> QED BY <1>1 DEF Offset

\* A row read off the screen is a sequence of glyphs.
LEMMA RowTextType ==
  ASSUME NEW m \in Screens, NEW r \in 0 .. H - 1, NEW n \in 0 .. W
  PROVE  /\ RowText(m, r, n) \in Seq(Glyphs)
         /\ Len(RowText(m, r, n)) = n
         /\ \A c \in 1 .. n : RowText(m, r, n)[c] = m[Offset(r, c - 1)]
<1>1. ASSUME NEW c \in 1 .. n PROVE m[Offset(r, c - 1)] \in Glyphs
  <2>1. c - 1 \in 0 .. W - 1
    BY Dims
  <2>2. Offset(r, c - 1) \in 0 .. Size - 1
    BY <2>1, CellOf
  <2> QED BY <2>2 DEF Screens
<1>2. n \in Nat /\ RowText(m, r, n) \in [1 .. n -> Glyphs]
  BY <1>1 DEF RowText
<1> QED BY <1>2 DEF RowText

\* Equal cells read as equal text.
LEMMA RowTextEqual ==
  ASSUME NEW m, NEW k, NEW r, NEW s, NEW n,
         \A c \in 1 .. n : m[Offset(r, c - 1)] = k[Offset(s, c - 1)]
  PROVE  RowText(m, r, n) = RowText(k, s, n)
BY DEF RowText

\* The rows above the cursor.
LEMMA TextAboveType ==
  ASSUME NEW m \in Screens, NEW r \in 0 .. H - 1
  PROVE  /\ TextAbove(m, r) \in Seq(Seq(Glyphs))
         /\ Len(TextAbove(m, r)) = r
         /\ \A i \in 1 .. r : TextAbove(m, r)[i] = RowText(m, i - 1, W)
<1>1. ASSUME NEW i \in 1 .. r PROVE RowText(m, i - 1, W) \in Seq(Glyphs)
  <2>1. i - 1 \in 0 .. H - 1 /\ W \in 0 .. W
    BY Dims
  <2> QED BY <2>1, RowTextType
<1>2. r \in Nat /\ TextAbove(m, r) = [i \in 1 .. r |-> RowText(m, i - 1, W)]
  BY Dims DEF TextAbove, W
<1> DEFINE t == TextAbove(m, r)
<1>3. t \in [1 .. r -> Seq(Glyphs)] /\ \A i \in 1 .. r : t[i] = RowText(m, i - 1, W)
  BY <1>1, <1>2
<1> HIDE DEF t
<1>4. t \in Seq(Seq(Glyphs)) /\ Len(t) = r
  BY <1>2, <1>3
<1> QED BY <1>3, <1>4 DEF t

\* A line, filled up with blanks.
Filled(s) == [i \in 1 .. W |-> IF i <= Len(s) THEN s[i] ELSE Blank]

\* The line of the cursor filled up is what its row shows, because nothing is
\* left at the cursor or after it.
LEMMA FilledIsRow ==
  ASSUME NEW m \in Screens, NEW r \in 0 .. H - 1, NEW n \in 0 .. W,
         \A o \in 0 .. Size - 1 : o >= Offset(r, n) => m[o] = Blank
  PROVE  /\ Filled(RowText(m, r, n)) = RowText(m, r, W)
         /\ Filled(RowText(m, r, n)) \in Seq(Glyphs)
<1>1. W \in 0 .. W /\ r \in Nat
  BY Dims
<1>2. /\ Len(RowText(m, r, n)) = n
      /\ \A c \in 1 .. n : RowText(m, r, n)[c] = m[Offset(r, c - 1)]
  BY RowTextType
<1>3. ASSUME NEW i \in 1 .. W, ~(i <= n)
      PROVE  m[Offset(r, i - 1)] = Blank
  <2>1. i - 1 \in 0 .. W - 1 /\ i - 1 \in Nat /\ n \in Nat /\ i - 1 >= n
    BY <1>3, Dims
  <2>2. Offset(r, i - 1) \in 0 .. Size - 1
    BY <2>1, CellOf
  <2>3. Offset(r, i - 1) >= Offset(r, n)
    <3>1. PICK j \in Nat : j = i - 1 /\ j >= n
      BY <2>1
    <3>2. /\ Offset(r, j) \in Nat /\ Offset(r, n) \in Nat
          /\ Offset(r, j) - Offset(r, n) = j - n
      <4>1. r \in Nat /\ n \in Nat /\ j \in Nat
        BY <1>1, <2>1, Zenon
      <4> QED BY <4>1, SameRow, ZenonT(40)
    <3>3. Offset(r, j) >= Offset(r, n)
      BY <2>1, <3>1, <3>2
    <3> QED BY <3>1, <3>3
  <2> QED BY <2>2, <2>3
<1>4. Filled(RowText(m, r, n)) = RowText(m, r, W)
  <2> DEFINE t == RowText(m, r, n)
  <2>1. ASSUME NEW i \in 1 .. W
        PROVE  (IF i <= Len(t) THEN t[i] ELSE Blank) = m[Offset(r, i - 1)]
    <3>1. CASE i <= n
      <4>1. i \in 1 .. n
        BY <3>1, Dims
      <4> HIDE DEF t
      <4> QED BY <1>2, <3>1, <4>1 DEF t
    <3>2. CASE ~(i <= n)
      BY <1>2, <1>3, <3>2
    <3> QED BY <3>1, <3>2
  <2> HIDE DEF t
  <2> QED BY <2>1 DEF Filled, RowText, t
<1>5. RowText(m, r, W) \in Seq(Glyphs)
  BY <1>1, RowTextType
<1> QED BY <1>4, <1>5

\* A cell written in row r changes no row above it.
LEMMA WriteKeepsAbove ==
  ASSUME NEW m, NEW k, NEW r \in 0 .. H - 1, NEW n \in 0 .. W,
         \A o \in 0 .. Size - 1 : o # Offset(r, n) => k[o] = m[o]
  PROVE  TextAbove(k, r) = TextAbove(m, r)
<1>1. ASSUME NEW i \in 1 .. r PROVE RowText(k, i - 1, W) = RowText(m, i - 1, W)
  <2>1. ASSUME NEW c \in 1 .. W
        PROVE  k[Offset(i - 1, c - 1)] = m[Offset(i - 1, c - 1)]
    <3>1. /\ i - 1 \in 0 .. H - 1 /\ c - 1 \in 0 .. W - 1 /\ i - 1 \in Nat
          /\ i - 1 < r /\ r \in Nat /\ c - 1 \in Nat /\ n \in Nat
      BY Dims
    <3>2. Offset(i - 1, c - 1) \in 0 .. Size - 1
      BY <3>1, CellOf
    <3>3. Offset(i - 1, c - 1) < Offset(r, n)
      BY <3>1, RowsDisjoint
    <3>4. Offset(r, n) \in Nat /\ Offset(i - 1, c - 1) \in Nat
      BY <3>1, SameRow
    <3>5. Offset(i - 1, c - 1) # Offset(r, n)
      BY <3>3, <3>4
    <3> QED BY <3>2, <3>5
  <2> QED BY <2>1, RowTextEqual
<1> QED BY <1>1 DEF TextAbove, W

\* The last lines of s that stay on the screen above the cursor.
KeptLines(s) == IF Len(s) < H THEN s ELSE Tail(s)

\* scroll moves each row up by one.
LEMMA ScrolledRow ==
  ASSUME NEW m, NEW r \in 0 .. H - 2
  PROVE  RowText(Scroll(m), r, W) = RowText(m, r + 1, W)
<1>1. ASSUME NEW c \in 1 .. W
      PROVE  Scroll(m)[Offset(r, c - 1)] = m[Offset(r + 1, c - 1)]
  <2>1. /\ r \in 0 .. H - 1 /\ r \in Nat /\ c - 1 \in 0 .. W - 1 /\ c - 1 \in Nat
        /\ H - 1 \in Nat /\ r < H - 1 /\ 0 \in 0 .. W
    BY Dims
  <2>2. Offset(r, c - 1) \in 0 .. Size - 1
    BY <2>1, CellOf
  <2>3. Offset(r, c - 1) < Offset(H - 1, 0)
    BY <2>1, RowsDisjoint
  <2>4. Offset(r, c - 1) + W = Offset(r + 1, c - 1)
    <3>1. (r + 1) * W = r * W + W /\ r * W \in Nat
      BY <2>1, Dims
    <3> QED BY <2>1, <3>1, Dims DEF Offset, W
  <2> QED BY <2>2, <2>3, <2>4 DEF Scroll, W, H
<1> QED BY <1>1, RowTextEqual

\* One more row handed to the rows above the cursor.
LEMMA AppendRow ==
  ASSUME NEW m \in Screens, NEW r \in 0 .. H - 1
  PROVE  LET p == Append(TextAbove(m, r), RowText(m, r, W))
         IN  /\ p \in Seq(Seq(Glyphs)) /\ Len(p) = r + 1
             /\ \A i \in 1 .. r + 1 : p[i] = RowText(m, i - 1, W)
<1> DEFINE a == TextAbove(m, r)
           x == RowText(m, r, W)
           p == Append(a, x)
           S == Seq(Glyphs)
<1>1. r \in Nat /\ W \in 0 .. W
  BY Dims
<1>2. /\ a \in Seq(S) /\ Len(a) = r
      /\ \A i \in 1 .. r : a[i] = RowText(m, i - 1, W)
  BY TextAboveType
<1>3. x \in S
  BY <1>1, RowTextType
<1> HIDE DEF a, S, x
<1>4. /\ p \in Seq(S) /\ Len(p) = Len(a) + 1
      /\ \A i \in 1 .. Len(a) : p[i] = a[i]
      /\ p[Len(a) + 1] = x
  BY <1>2, <1>3, AppendProperties
<1> HIDE DEF p
<1>5. ASSUME NEW i \in 1 .. r + 1 PROVE p[i] = RowText(m, i - 1, W)
  <2>1. CASE i = r + 1
    <3>1. i - 1 = r
      BY <1>1, <2>1
    <3> QED BY <1>2, <1>4, <2>1, <3>1 DEF x
  <2>2. CASE i # r + 1
    <3>1. i \in 1 .. r
      BY <1>1, <2>2
    <3> QED BY <1>2, <1>4, <3>1
  <2> QED BY <2>1, <2>2
<1> QED BY <1>2, <1>4, <1>5 DEF p, a, x, S

\* A line feed with room below adds the row to those above.
LEMMA FeedAdds ==
  ASSUME NEW m \in Screens, NEW r \in 0 .. H - 1, r < H - 1
  PROVE  TextAbove(m, r + 1) = KeptLines(Append(TextAbove(m, r), RowText(m, r, W)))
<1> DEFINE p == Append(TextAbove(m, r), RowText(m, r, W))
           b == TextAbove(m, r + 1)
<1>1. r \in Nat /\ r + 1 \in 0 .. H - 1 /\ r + 1 < H
  BY Dims
<1>2. /\ p \in Seq(Seq(Glyphs)) /\ Len(p) = r + 1
      /\ \A i \in 1 .. r + 1 : p[i] = RowText(m, i - 1, W)
  BY AppendRow
<1>3. /\ b \in Seq(Seq(Glyphs)) /\ Len(b) = r + 1
      /\ \A i \in 1 .. r + 1 : b[i] = RowText(m, i - 1, W)
  BY <1>1, TextAboveType
<1> HIDE DEF b, p
<1>4. b = p
  BY <1>2, <1>3, SeqEqual
<1>5. KeptLines(p) = p
  BY <1>1, <1>2 DEF KeptLines
<1> QED BY <1>4, <1>5 DEF b, p

\* On the last row it scrolls, and the oldest row goes.
LEMMA FeedScrolls ==
  ASSUME NEW m \in Screens, NEW r, r = H - 1
  PROVE  TextAbove(Scroll(m), r) = KeptLines(Append(TextAbove(m, r), RowText(m, r, W)))
<1> DEFINE p == Append(TextAbove(m, r), RowText(m, r, W))
           n == Scroll(m)
           b == TextAbove(n, r)
<1>1. r \in 0 .. H - 1 /\ r \in Nat
  BY Dims
<1>2. /\ p \in Seq(Seq(Glyphs)) /\ Len(p) = r + 1
      /\ \A i \in 1 .. r + 1 : p[i] = RowText(m, i - 1, W)
  BY <1>1, AppendRow
<1>3. n \in Screens
  BY ScrollClears DEF Screens
<1>4. /\ b \in Seq(Seq(Glyphs)) /\ Len(b) = r
      /\ \A i \in 1 .. r : b[i] = RowText(n, i - 1, W)
  BY <1>1, <1>3, TextAboveType
<1> HIDE DEF b, p
<1>5. Len(p) = H /\ p # << >> /\ KeptLines(p) = Tail(p)
  BY <1>1, <1>2, Dims, EmptySeq DEF KeptLines
<1>6. /\ Tail(p) \in Seq(Seq(Glyphs)) /\ Len(Tail(p)) = r
      /\ \A i \in 1 .. r : Tail(p)[i] = p[i + 1]
  BY <1>1, <1>2, <1>5, HeadTailProperties
<1>7. ASSUME NEW i \in 1 .. r PROVE b[i] = Tail(p)[i]
  <2>1. PICK j \in 0 .. H - 2 : j = i - 1 /\ i = j + 1
    BY <1>1, Dims
  <2>2. RowText(n, j, W) = RowText(m, j + 1, W)
    BY ScrolledRow
  <2>3. i + 1 \in 1 .. r + 1 /\ (i + 1) - 1 = i
    BY <1>1
  <2>4. p[i + 1] = RowText(m, i, W)
    BY <1>2, <2>3
  <2> QED BY <1>4, <1>6, <2>1, <2>2, <2>4, SMTT(30)
<1>8. b = Tail(p)
  BY <1>4, <1>6, <1>7, SeqEqual, SMTT(30)
<1> QED BY <1>5, <1>8 DEF b, p

\* A character on a row with room for it goes to the end of the line.
LEMMA PutShows ==
  ASSUME NEW m \in Screens, NEW k \in Screens, NEW r \in 0 .. H - 1,
         NEW n \in 0 .. W - 1, NEW ch \in Glyphs,
         \A o \in 0 .. Size - 1 : k[o] = IF o = Offset(r, n) THEN ch ELSE m[o]
  PROVE  /\ TextAbove(k, r) = TextAbove(m, r)
         /\ RowText(k, r, n + 1) = Append(RowText(m, r, n), ch)
<1>1. n \in 0 .. W /\ n + 1 \in 0 .. W /\ n \in Nat /\ r \in Nat
  BY Dims
<1>2. TextAbove(k, r) = TextAbove(m, r)
  BY <1>1, WriteKeepsAbove
<1> DEFINE l == RowText(m, r, n)
           x == RowText(k, r, n + 1)
           a == Append(l, ch)
<1>3. /\ l \in Seq(Glyphs) /\ Len(l) = n
      /\ \A c \in 1 .. n : l[c] = m[Offset(r, c - 1)]
  BY <1>1, RowTextType
<1>4. /\ x \in Seq(Glyphs) /\ Len(x) = n + 1
      /\ \A c \in 1 .. n + 1 : x[c] = k[Offset(r, c - 1)]
  BY <1>1, RowTextType
<1> HIDE DEF l, x
<1>5. /\ a \in Seq(Glyphs) /\ Len(a) = n + 1
      /\ \A c \in 1 .. n : a[c] = l[c]
      /\ a[n + 1] = ch
  BY <1>3, AppendProperties
<1> HIDE DEF a
<1>6. ASSUME NEW c \in 1 .. n + 1 PROVE x[c] = a[c]
  <2> DEFINE e == c - 1
  <2>0. e \in 0 .. W - 1 /\ c = e + 1 /\ e \in Nat
    BY <1>1, Dims
  <2>1. PICK d \in 0 .. W - 1 : d = c - 1 /\ c = d + 1 /\ d \in Nat
    BY <2>0
  <2>2. Offset(r, d) \in 0 .. Size - 1
    BY CellOf
  <2>3. x[c] = IF Offset(r, d) = Offset(r, n) THEN ch ELSE m[Offset(r, d)]
    BY <1>4, <2>1, <2>2
  <2>4. CASE d = n
    BY <1>5, <2>1, <2>3, <2>4
  <2>5. CASE d # n
    <3>1. c \in 1 .. n
      BY <1>1, <2>1, <2>5
    <3>2. /\ Offset(r, d) \in Nat /\ Offset(r, n) \in Nat
          /\ Offset(r, d) - Offset(r, n) = d - n
      BY <1>1, <2>1, SameRow
    <3>3. Offset(r, d) # Offset(r, n)
      BY <1>1, <2>1, <2>5, <3>2
    <3> QED BY <1>3, <1>5, <2>1, <2>3, <3>1, <3>3
  <2> QED BY <2>4, <2>5
<1>7. x = a
  BY <1>4, <1>5, <1>6, SeqEqual
<1> QED BY <1>2, <1>7 DEF l, x, a

\* A character blanked at the end of the line leaves the line without it.
LEMMA EraseFront ==
  ASSUME NEW m \in Screens, NEW k \in Screens, NEW r \in 0 .. H - 1,
         NEW n \in 0 .. W - 1,
         \A o \in 0 .. Size - 1 : o # Offset(r, n) => k[o] = m[o]
  PROVE  LET l == RowText(m, r, n + 1)
         IN  /\ l # << >>
             /\ TextAbove(k, r) = TextAbove(m, r)
             /\ RowText(k, r, n) = SubSeq(l, 1, Len(l) - 1)
<1>1. n \in 0 .. W /\ n + 1 \in 0 .. W /\ n \in Nat /\ r \in Nat
  BY Dims
<1>2. TextAbove(k, r) = TextAbove(m, r)
  BY <1>1, WriteKeepsAbove
<1> DEFINE l == RowText(m, r, n + 1)
           x == RowText(k, r, n)
           f == SubSeq(l, 1, n)
<1>3. /\ l \in Seq(Glyphs) /\ Len(l) = n + 1
      /\ \A c \in 1 .. n + 1 : l[c] = m[Offset(r, c - 1)]
  BY <1>1, RowTextType
<1>4. /\ x \in Seq(Glyphs) /\ Len(x) = n
      /\ \A c \in 1 .. n : x[c] = k[Offset(r, c - 1)]
  BY <1>1, RowTextType
<1> HIDE DEF l, x
<1>5. f \in Seq(Glyphs) /\ Len(f) = n /\ \A c \in 1 .. n : f[c] = l[c]
  <2>1. \A i \in 1 .. n : l[i] \in Glyphs
    BY <1>1, <1>3, ElementOfSeq
  <2> QED BY <1>1, <1>3, <2>1, SubSeqProperties
<1> HIDE DEF f
<1>6. ASSUME NEW c \in 1 .. n PROVE x[c] = f[c]
  <2> DEFINE e == c - 1
  <2>0. e \in 0 .. W - 1 /\ e \in Nat /\ e < n /\ c \in 1 .. n + 1
    BY <1>1, Dims
  <2>1. PICK d \in 0 .. W - 1 : d = c - 1 /\ d \in Nat /\ d < n /\ c \in 1 .. n + 1
    BY <2>0
  <2>2. Offset(r, d) \in 0 .. Size - 1
    BY CellOf
  <2>3. /\ Offset(r, d) \in Nat /\ Offset(r, n) \in Nat
        /\ Offset(r, d) - Offset(r, n) = d - n
    BY <1>1, <2>1, SameRow
  <2>4. Offset(r, d) # Offset(r, n)
    BY <1>1, <2>1, <2>3
  <2>5. k[Offset(r, d)] = m[Offset(r, d)]
    BY <2>2, <2>4
  <2> QED BY <1>3, <1>4, <1>5, <2>1, <2>5
<1>7. x = f
  BY <1>4, <1>5, <1>6, SeqEqual
<1>8. Len(l) - 1 = n /\ l # << >>
  BY <1>1, <1>3, EmptySeq
<1> QED BY <1>2, <1>7, <1>8 DEF l, x, f

-----------------------------------------------------------------------------
\* The terminal a writer is.
Above(w) == TextAbove(w.cells, w.row)
CursorText(w) == RowText(w.cells, w.row, w.col)

\* Writers by their parts.
LEMMA Parts ==
  ASSUME NEW w \in Writers
  PROVE  w.cells \in Screens /\ w.row \in 0 .. H - 1 /\ w.col \in 0 .. W
BY DEF Writers, Screens, W, H

\* new_line is the terminal's line feed.
LEMMA NewLineFeeds ==
  ASSUME NEW w \in Writers, Clean(w), NEW v, v = NewLine(w)
  PROVE  /\ Above(v) = KeptLines(Append(Above(w), Filled(CursorText(w))))
         /\ CursorText(v) = << >>
<1>1. PICK m, r, n : m = w.cells /\ r = w.row /\ n = w.col
  OBVIOUS
<1>2. m \in Screens /\ r \in 0 .. H - 1 /\ n \in 0 .. W
  BY <1>1, Parts
<1>3. \A o \in 0 .. Size - 1 : o >= Offset(r, n) => m[o] = Blank
  BY <1>1 DEF Clean
<1>4. Filled(RowText(m, r, n)) = RowText(m, r, W)
  BY <1>2, <1>3, FilledIsRow
<1>5. CASE r < H - 1
  <2>1. v = [cells |-> m, row |-> r + 1, col |-> 0]
    BY <1>1, <1>5 DEF NewLine, H
  <2>2. v.cells = m /\ v.row = r + 1 /\ v.col = 0
    BY <2>1
  <2>3. TextAbove(m, r + 1) = KeptLines(Append(TextAbove(m, r), RowText(m, r, W)))
    BY <1>2, <1>5, FeedAdds
  <2>4. RowText(m, r + 1, 0) = << >>
    BY DEF RowText
  <2> QED BY <1>1, <1>4, <2>2, <2>3, <2>4 DEF Above, CursorText
<1>6. CASE ~(r < H - 1)
  <2>1. v = [cells |-> Scroll(m), row |-> r, col |-> 0]
    BY <1>1, <1>6 DEF NewLine, H
  <2>2. v.cells = Scroll(m) /\ v.row = r /\ v.col = 0
    BY <2>1
  <2>3. r = H - 1
    BY <1>2, <1>6, Dims
  <2>4. TextAbove(Scroll(m), r) = KeptLines(Append(TextAbove(m, r), RowText(m, r, W)))
    BY <1>2, <2>3, FeedScrolls
  <2>5. RowText(Scroll(m), r, 0) = << >>
    BY DEF RowText
  <2> QED BY <1>1, <1>4, <2>2, <2>4, <2>5 DEF Above, CursorText
<1> QED BY <1>5, <1>6

\* A character on a row with room for it is shown at the end of the line.
LEMMA PutAtEnd ==
  ASSUME NEW w \in Writers, NEW b \in Glyphs, w.col < W,
         NEW v, v = [cells |-> WriteCharAt(w, b), row |-> w.row, col |-> w.col + 1]
  PROVE  Above(v) = Above(w) /\ CursorText(v) = Append(CursorText(w), b)
<1>1. PICK m, r, n, k : m = w.cells /\ r = w.row /\ n = w.col /\ k = WriteCharAt(w, b)
  OBVIOUS
<1>2. m \in Screens /\ r \in 0 .. H - 1 /\ n \in 0 .. W
  BY <1>1, Parts
<1>3. n \in 0 .. W - 1
  BY <1>1, <1>2, Dims
<1>4. /\ k \in Screens
      /\ \A o \in 0 .. Size - 1 : k[o] = IF o = Offset(r, n) THEN b ELSE m[o]
  BY <1>1, WriteKeeps DEF Screens, W
<1>5. /\ TextAbove(k, r) = TextAbove(m, r)
      /\ RowText(k, r, n + 1) = Append(RowText(m, r, n), b)
  BY <1>2, <1>3, <1>4, PutShows
<1>6. v.cells = k /\ v.row = r /\ v.col = n + 1
  BY <1>1
<1> QED BY <1>1, <1>5, <1>6 DEF Above, CursorText

\* backspace erases the last character of the line, if it has one.
LEMMA BackErases ==
  ASSUME NEW w \in Writers, NEW v, v = Backspace(w)
  PROVE  \/ v = w
         \/ /\ CursorText(w) # << >>
            /\ Above(v) = Above(w)
            /\ CursorText(v) = SubSeq(CursorText(w), 1, Len(CursorText(w)) - 1)
<1>1. CASE ~(w.col > 0)
  BY <1>1 DEF Backspace
<1>2. CASE w.col > 0
  <2>1. PICK m, r, c : m = w.cells /\ r = w.row /\ c = w.col
    OBVIOUS
  <2>2. m \in Screens /\ r \in 0 .. H - 1 /\ c \in 0 .. W /\ c > 0
    BY <1>2, <2>1, Parts
  <2>3. PICK n : n = c - 1
    OBVIOUS
  <2>4. n \in 0 .. W - 1 /\ c = n + 1
    BY <2>2, <2>3, Dims
  <2>5. PICK u : u = [cells |-> m, row |-> r, col |-> n]
    BY Zenon
  <2>6. PICK k : k = WriteCharAt(u, Blank)
    OBVIOUS
  <2>7. v = [cells |-> k, row |-> r, col |-> n]
    BY <1>2, <2>1, <2>3, <2>5, <2>6 DEF Backspace
  <2>8. u \in Writers /\ u.col < W /\ Blank \in Glyphs
    BY <2>2, <2>4, <2>5, Dims, VgaAssumption DEF Writers, Screens, W, H, Glyphs
  <2>9. /\ k \in Screens
        /\ \A o \in 0 .. Size - 1 : o # Offset(r, n) => k[o] = m[o]
    BY <2>5, <2>6, <2>8, WriteKeeps DEF Screens, W
  <2>10. /\ RowText(m, r, c) # << >>
         /\ TextAbove(k, r) = TextAbove(m, r)
         /\ RowText(k, r, n) = SubSeq(RowText(m, r, c), 1, Len(RowText(m, r, c)) - 1)
    BY <2>2, <2>4, <2>9, EraseFront
  <2>11. v.cells = k /\ v.row = r /\ v.col = n
    BY <2>7
  <2> QED BY <2>1, <2>10, <2>11 DEF Above, CursorText
<1> QED BY <1>1, <1>2

\* write_byte is the terminal's line feed, or shows one character.
LEMMA WriteByteShows ==
  ASSUME NEW w \in Writers, Clean(w), NEW b \in Glyphs \cup {Newline},
         NEW v, v = WriteByte(w, b)
  PROVE  \/ /\ Above(v) = KeptLines(Append(Above(w), Filled(CursorText(w))))
            /\ CursorText(v) = << >>
         \/ /\ b \in Glyphs /\ Len(CursorText(w)) < W
            /\ Above(v) = Above(w)
            /\ CursorText(v) = Append(CursorText(w), b)
         \/ /\ b \in Glyphs /\ Len(CursorText(w)) = W
            /\ Above(v) = KeptLines(Append(Above(w), Filled(CursorText(w))))
            /\ CursorText(v) = << b >>
<1>1. w.cells \in Screens /\ w.row \in 0 .. H - 1 /\ w.col \in 0 .. W
  BY Parts
<1>2. Len(CursorText(w)) = w.col
  BY <1>1, RowTextType DEF CursorText
<1>3. CASE b = Newline
  BY <1>3, NewLineFeeds DEF WriteByte
<1>4. CASE b # Newline /\ w.col < W
  <2>1. v = [cells |-> WriteCharAt(w, b), row |-> w.row, col |-> w.col + 1]
    BY <1>1, <1>4, Dims DEF WriteByte, W
  <2>2. b \in Glyphs
    BY <1>4
  <2>3. Above(v) = Above(w) /\ CursorText(v) = Append(CursorText(w), b)
    BY <1>4, <2>1, <2>2, PutAtEnd
  <2> QED BY <1>2, <1>4, <2>2, <2>3
<1>5. CASE b # Newline /\ w.col = W
  <2>1. PICK n : n = NewLine(w)
    OBVIOUS
  <2>2. v = [cells |-> WriteCharAt(n, b), row |-> n.row, col |-> n.col + 1]
    BY <1>5, <2>1, Dims DEF WriteByte, W
  <2>3. b \in Glyphs
    BY <1>5
  <2>4. n \in Writers /\ n.col = 0
    BY <2>1, NewLineKeeps
  <2>5. n.col < W
    BY <2>4, Dims
  <2>6. Above(v) = Above(n) /\ CursorText(v) = Append(CursorText(n), b)
    BY <2>2, <2>3, <2>4, <2>5, PutAtEnd
  <2>7. /\ Above(n) = KeptLines(Append(Above(w), Filled(CursorText(w))))
        /\ CursorText(n) = << >>
    BY <2>1, NewLineFeeds
  <2>8. Append(<< >>, b) = << b >>
    OBVIOUS
  <2> QED BY <1>2, <1>5, <2>3, <2>6, <2>7, <2>8
<1> QED BY <1>1, <1>3, <1>4, <1>5, Dims

\* The blank screen is the empty terminal.
LEMMA BlankIsEmpty ==
  ASSUME NEW w, w = [cells |-> BlankScreen, row |-> 0, col |-> 0]
  PROVE  Above(w) = << >> /\ CursorText(w) = << >>
BY DEF Above, CursorText, TextAbove, RowText

\* Every step of the writer is a step of the terminal, or one it does not see.
LEMMA WriterStepRefines ==
  ASSUME writer \in Writers, Clean(writer), [WriterNext]_writer
  PROVE  [Term!TermNext]_<<TextAbove(writer.cells, writer.row),
                           RowText(writer.cells, writer.row, writer.col)>>
<1>0. PICK v : v = writer'
  OBVIOUS
<1>1. /\ TextAbove(writer.cells, writer.row)' = Above(v)
      /\ RowText(writer.cells, writer.row, writer.col)' = CursorText(v)
  BY <1>0 DEF Above, TextAbove, CursorText, RowText, Offset
<1>2. /\ Above(writer) = TextAbove(writer.cells, writer.row)
      /\ CursorText(writer) = RowText(writer.cells, writer.row, writer.col)
  BY DEF Above, CursorText
<1>3. \A s : KeptLines(s) = Term!Kept(s)
  BY DEF KeptLines, Term!Kept, H
<1>4. Filled(CursorText(writer)) = Term!Padded
  BY <1>2 DEF Filled, Term!Padded, W
<1>5. ASSUME NEW b \in Printable \cup {Newline, "ctl"}, Write(b)
      PROVE  Term!TermNext
  <2>1. PICK g : g = Shown(b)
    OBVIOUS
  <2>2. g \in Glyphs \cup {Newline} /\ v = WriteByte(writer, g)
    BY <1>0, <1>5, <2>1 DEF Shown, Glyphs, Write
  <2>3. CASE /\ Above(v) = KeptLines(Append(Above(writer), Filled(CursorText(writer))))
             /\ CursorText(v) = << >>
    <3>1. Term!Feed
      BY <1>1, <1>2, <1>3, <1>4, <2>3 DEF Term!Feed
    <3> QED BY <3>1 DEF Term!TermNext
  <2>4. CASE /\ g \in Glyphs /\ Len(CursorText(writer)) < W
             /\ Above(v) = Above(writer)
             /\ CursorText(v) = Append(CursorText(writer), g)
    <3>1. Term!Show(g)
      BY <1>1, <1>2, <2>4 DEF Term!Show, W
    <3> QED BY <2>4, <3>1 DEF Term!TermNext
  <2>5. CASE /\ g \in Glyphs /\ Len(CursorText(writer)) = W
             /\ Above(v) = KeptLines(Append(Above(writer), Filled(CursorText(writer))))
             /\ CursorText(v) = << g >>
    <3>1. Term!Show(g)
      BY <1>1, <1>2, <1>3, <1>4, <2>5 DEF Term!Show, W
    <3> QED BY <2>5, <3>1 DEF Term!TermNext
  <2> QED BY <2>2, <2>3, <2>4, <2>5, WriteByteShows
<1>6. CASE Clear
  <2>1. Above(v) = << >> /\ CursorText(v) = << >>
    BY <1>0, <1>6, BlankIsEmpty DEF Clear, Cleared
  <2>2. Term!Wipe
    BY <1>1, <2>1 DEF Term!Wipe
  <2> QED BY <2>2 DEF Term!TermNext
<1>7. CASE UNCHANGED writer
  BY <1>7 DEF TextAbove, RowText, Offset
<1>8. CASE Back
  <2>1. v = Backspace(writer)
    BY <1>0, <1>8 DEF Back
  <2>2. CASE v = writer
    BY <1>0, <1>7, <2>2
  <2>3. CASE /\ CursorText(writer) # << >>
             /\ Above(v) = Above(writer)
             /\ CursorText(v) = SubSeq(CursorText(writer), 1, Len(CursorText(writer)) - 1)
    <3>1. Term!Erase
      BY <1>1, <1>2, <2>3 DEF Term!Erase
    <3> QED BY <3>1 DEF Term!TermNext
  <2> QED BY <2>1, <2>2, <2>3, BackErases
<1> QED BY <1>5, <1>6, <1>7, <1>8 DEF WriterNext

\* Screen memory, cursor, wrap and scroll together are a terminal that shows the
\* last lines written, for every width and height.
THEOREM ScreenIsTerminal == WriterSpec => ImplementsTerminal
<1>1. WriterInit => Term!TermInit
  BY BlankIsEmpty DEF WriterInit, Term!TermInit, Above, CursorText
<1>2. writer \in Writers /\ Clean(writer) /\ [WriterNext]_writer
        => [Term!TermNext]_<<TextAbove(writer.cells, writer.row),
                             RowText(writer.cells, writer.row, writer.col)>>
  BY WriterStepRefines
<1> QED BY <1>1, <1>2, WriterInvariant, PTL DEF WriterSpec, ImplementsTerminal, Term!TermSpec

-----------------------------------------------------------------------------
(* The shell on the writer.                                                 *)

Bytes == Printable \cup {Newline, "ctl"}

\* What the shell has left to print is bytes, in every step.
LEMMA OutputIsBytes == Spec => [](out \in Seq(Bytes))
<1>1. Init => out \in Seq(Bytes)
  BY ShellAssumption DEF Init, Bytes
<1>2. out \in Seq(Bytes) /\ [Next]_svars => (out \in Seq(Bytes))'
  <2> SUFFICES ASSUME out \in Seq(Bytes), [Next]_svars
               PROVE  out' \in Seq(Bytes)
    OBVIOUS
  <2>1. CASE Emit
    BY <2>1, HeadTailProperties DEF Emit
  <2>2. CASE PrintPrompt
    BY <2>2, ShellAssumption DEF PrintPrompt, Bytes
  <2>3. CASE Execute \/ PsLine
    <3>1. ASSUME NEW o \in Outputs PROVE Append(o, Newline) \in Seq(Bytes)
      <4>1. o \in Seq(Bytes) /\ Newline \in Bytes
        BY <3>1, ShellAssumption DEF Bytes
      <4> QED BY <4>1, AppendProperties
    <3> QED BY <2>3, <3>1, Zenon DEF Execute, PsLine
  <2>4. CASE PsDone \/ TimerSpins \/ Halt
    BY <2>4 DEF PsDone, TimerSpins, Halt
  <2>5. ASSUME NEW k \in Keys, ReadKey(k) PROVE out' \in Seq(Bytes)
    <3>1. PICK c : c = Decode(k)
      OBVIOUS
    <3>2. CASE c = "enter" /\ Commit
      BY <3>2 DEF Commit, Bytes
    <3>3. CASE c \in Printable /\ Type(c)
      BY <3>3 DEF Type, Bytes
    <3>4. CASE Erase \/ Ignore
      BY <3>4 DEF Erase, Ignore
    <3> QED BY <2>5, <3>1, <3>2, <3>3, <3>4 DEF ReadKey
  <2>6. CASE UNCHANGED svars
    BY <2>6 DEF svars
  <2> QED BY <2>1, <2>2, <2>3, <2>4, <2>5, <2>6 DEF Next, Progress
<1> QED BY <1>1, <1>2, PTL DEF Spec

\* A step of the shell leaves the screen alone or makes one call on the writer.
LEMMA ShellCallsWriter ==
  ASSUME out \in Seq(Bytes), [Next]_svars
  PROVE  [WriterNext]_writer
<1>1. CASE Emit
  <2>1. Head(out) \in Bytes
    BY <1>1, HeadTailProperties DEF Emit
  <2> QED BY <1>1, <2>1 DEF Emit, WriterNext, Write, Bytes
<1>2. CASE PrintPrompt
  BY <1>2 DEF PrintPrompt
<1>3. CASE Execute
  BY <1>3 DEF Execute, WriterNext, Clear
<1>4. CASE PsLine \/ PsDone \/ TimerSpins \/ Halt
  BY <1>4 DEF PsLine, PsDone, TimerSpins, Halt
<1>5. ASSUME NEW k \in Keys, ReadKey(k) PROVE [WriterNext]_writer
  <2>1. CASE Erase
    BY <2>1 DEF Erase, WriterNext, Back
  <2>2. CASE UNCHANGED writer
    BY <2>2
  <2> QED BY <1>5, <2>1, <2>2 DEF ReadKey, Commit, Type, Ignore
<1>6. CASE UNCHANGED svars
  BY <1>6 DEF svars
<1> QED BY <1>1, <1>2, <1>3, <1>4, <1>5, <1>6 DEF Next, Progress

\* The shell uses the writer through its calls alone.
THEOREM ShellDrivesWriter == Spec => WriterSpec
<1>1. Init => WriterInit
  BY DEF Init
<1>2. out \in Seq(Bytes) /\ [Next]_svars => [WriterNext]_writer
  BY ShellCallsWriter
<1> QED BY <1>1, <1>2, OutputIsBytes, PTL DEF Spec, WriterSpec

\* So under the shell too nothing is written outside the screen, nothing old is
\* left at the cursor, and the screen is a terminal.
THEOREM ShellScreen == Spec => []WritesInBuffer /\ []BlankAhead /\ ImplementsTerminal
BY ShellDrivesWriter, ScreenIntact, CursorAtEnd, ScreenIsTerminal, PTL

-----------------------------------------------------------------------------
\* The line buffer is never left, and what lies after the line is zero.
THEOREM LineStaysInBuffer == Spec => []LineInBuffer
<1> USE ShellAssumption
<1>1. Init => LineInBuffer
  BY DEF Init, LineInBuffer, EmptyBuf
<1>2. LineInBuffer /\ [Next]_svars => LineInBuffer'
  <2> SUFFICES ASSUME LineInBuffer, [Next]_svars
               PROVE  LineInBuffer'
    OBVIOUS
  <2>1. CASE Emit
    BY <2>1 DEF Emit, LineInBuffer
  <2>2. CASE PrintPrompt
    BY <2>2 DEF PrintPrompt, LineInBuffer, EmptyBuf
  <2>3. CASE Execute
    BY <2>3 DEF Execute, LineInBuffer
  <2>4. CASE PsLine \/ PsDone \/ TimerSpins \/ Halt
    BY <2>4 DEF PsLine, PsDone, TimerSpins, Halt, LineInBuffer
  <2>5. ASSUME NEW k \in Keys, ReadKey(k) PROVE LineInBuffer'
    <3>1. mode = "read"
      BY <2>5 DEF ReadKey
    <3>2. CASE Commit
      BY <3>2 DEF Commit, LineInBuffer
    <3>3. CASE pos > 0 /\ Erase
      BY <3>1, <3>3 DEF Erase, LineInBuffer
    <3>4. ASSUME NEW c, HasRoom, Type(c) PROVE LineInBuffer'
      BY <3>1, <3>4 DEF Type, HasRoom, LineInBuffer
    <3>5. CASE Ignore
      BY <3>5 DEF Ignore, LineInBuffer
    <3> QED BY <2>5, <3>2, <3>3, <3>4, <3>5 DEF ReadKey
  <2>6. CASE UNCHANGED svars
    BY <2>6 DEF svars, LineInBuffer
  <2> QED BY <2>1, <2>2, <2>3, <2>4, <2>5, <2>6 DEF Next, Progress
<1> QED BY <1>1, <1>2, PTL DEF Spec

-----------------------------------------------------------------------------
(* The line on the screen.                                                  *)

Cursor(w) == Offset(w.row, w.col)

\* The n cells of m before cell o hold the first n bytes of t, as far as the
\* screen reaches back.
Ends(m, o, t, n) ==
  \A i \in 1 .. n : o - i >= 0 => m[o - i] = t[n + 1 - i]

\* One more byte written at o.
LEMMA EndsPut ==
  ASSUME NEW m, NEW k, NEW o \in 0 .. Size - 1, NEW t, NEW n \in Nat, NEW b,
         Ends(m, o, t, n), b = t[n + 1],
         \A x \in 0 .. Size - 1 : k[x] = IF x = o THEN b ELSE m[x]
  PROVE  Ends(k, o + 1, t, n + 1)
<1> SUFFICES ASSUME NEW i \in 1 .. n + 1, (o + 1) - i >= 0
             PROVE  k[(o + 1) - i] = t[(n + 1) + 1 - i]
  BY DEF Ends
<1>1. Size \in Nat
  BY Sizes
<1>2. CASE i = 1
  <2>1. (o + 1) - i = o /\ (n + 1) + 1 - i = n + 1
    BY <1>1, <1>2
  <2> QED BY <2>1
<1>3. CASE i # 1
  <2>1. PICK j \in 1 .. n : j = i - 1
    <3> DEFINE e == i - 1
    <3>1. e \in 1 .. n
      BY <1>3
    <3> QED BY <3>1
  <2>2. (o + 1) - i = o - j /\ (n + 1) + 1 - i = n + 1 - j /\ o - j >= 0
    BY <1>1, <2>1
  <2>3. o - j \in 0 .. Size - 1 /\ o - j # o
    BY <1>1, <2>2
  <2>4. m[o - j] = t[n + 1 - j]
    BY <2>2 DEF Ends
  <2> QED BY <2>2, <2>3, <2>4
<1> QED BY <1>2, <1>3

\* The last byte blanked.
LEMMA EndsBack ==
  ASSUME NEW m, NEW k, NEW o \in 0 .. Size - 1, NEW t, NEW u, NEW n \in Nat,
         Ends(m, o + 1, t, n + 1),
         \A i \in 1 .. n : u[i] = t[i],
         \A x \in 0 .. Size - 1 : x # o => k[x] = m[x]
  PROVE  Ends(k, o, u, n)
<1> SUFFICES ASSUME NEW i \in 1 .. n, o - i >= 0
             PROVE  k[o - i] = u[n + 1 - i]
  BY DEF Ends
<1>1. Size \in Nat
  BY Sizes
<1>2. PICK j \in 1 .. n + 1 : j = i + 1
  <2> DEFINE e == i + 1
  <2>1. e \in 1 .. n + 1
    OBVIOUS
  <2> QED BY <2>1
<1>3. (o + 1) - j = o - i /\ (n + 1) + 1 - j = n + 1 - i /\ n + 1 - i \in 1 .. n
  BY <1>1, <1>2
<1>4. o - i \in 0 .. Size - 1 /\ o - i # o
  BY <1>1
<1>5. m[o - i] = t[n + 1 - i]
  BY <1>3 DEF Ends
<1> QED BY <1>3, <1>4, <1>5

\* A scroll takes the cells and the cursor up together.
LEMMA EndsScroll ==
  ASSUME NEW m, NEW t, NEW n \in Nat, Ends(m, Size, t, n)
  PROVE  Ends(Scroll(m), Size - W, t, n)
<1> SUFFICES ASSUME NEW i \in 1 .. n, (Size - W) - i >= 0
             PROVE  Scroll(m)[(Size - W) - i] = t[n + 1 - i]
  BY DEF Ends
<1>1. /\ Size \in Nat /\ Size >= W /\ W \in Nat
      /\ Offset(H - 1, 0) = Size - W
  BY Sizes, Dims DEF W, H
<1>2. PICK x : x = (Size - W) - i
  OBVIOUS
<1>3. x \in 0 .. Size - 1 /\ x < Size - W /\ x + W = Size - i /\ Size - i >= 0
  BY <1>1, <1>2
<1>4. Scroll(m)[x] = m[x + W]
  BY <1>1, <1>3 DEF Scroll, W, H
<1> QED BY <1>2, <1>3, <1>4 DEF Ends

\* What a writer shows up to its cursor.
Shows(w, t, n) == Ends(w.cells, Cursor(w), t, n)

\* A wrap leaves what is shown where it is, or scrolls it.
LEMMA NewLineShows ==
  ASSUME NEW w \in Writers, w.col = W, NEW t, NEW n \in Nat, Shows(w, t, n),
         NEW v, v = NewLine(w)
  PROVE  Shows(v, t, n)
<1>1. w.cells \in Screens /\ w.row \in 0 .. H - 1 /\ w.row \in Nat
  BY Parts, Dims
<1>2. PICK m, r : m = w.cells /\ r = w.row
  OBVIOUS
<1>3. Ends(m, Offset(r, W), t, n)
  BY <1>2 DEF Shows, Cursor
<1>4. Offset(r, W) = Offset(r + 1, 0)
  <2>1. (r + 1) * W = r * W + W /\ r * W \in Nat
    BY <1>1, <1>2, Dims
  <2> QED BY <2>1, Dims DEF Offset, W
<1>5. CASE r < H - 1
  <2>1. v = [cells |-> m, row |-> r + 1, col |-> 0]
    BY <1>2, <1>5 DEF NewLine, H
  <2>2. v.cells = m /\ Cursor(v) = Offset(r + 1, 0)
    BY <2>1 DEF Cursor
  <2> QED BY <1>3, <1>4, <2>2 DEF Shows
<1>6. CASE ~(r < H - 1)
  <2>1. v = [cells |-> Scroll(m), row |-> r, col |-> 0]
    BY <1>2, <1>6 DEF NewLine, H
  <2>2. r = H - 1
    BY <1>1, <1>2, <1>6, Dims
  <2>3. Offset(r, 0) = Size - W
    BY <2>2, Sizes DEF W, H
  <2>4. v.cells = Scroll(m) /\ Cursor(v) = Size - W
    BY <2>1, <2>3 DEF Cursor
  <2>5. Offset(r, W) = Size
    <3>1. r * W \in Nat /\ Size \in Nat
      BY <1>1, <1>2, Dims, Sizes
    <3> QED BY <2>3, <3>1, Dims DEF Offset, W
  <2> QED BY <1>3, <2>4, <2>5, EndsScroll DEF Shows
<1> QED BY <1>5, <1>6

\* write_byte shows one byte more.
LEMMA WriteByteEchoes ==
  ASSUME NEW w \in Writers, Clean(w), NEW t, NEW n \in Nat, Shows(w, t, n),
         NEW b \in Printable, b = t[n + 1], NEW v, v = WriteByte(w, b)
  PROVE  Shows(v, t, n + 1)
<1>1. PICK u : u = IF w.col >= W THEN NewLine(w) ELSE w
  OBVIOUS
<1>2. u \in Writers /\ u.col < W /\ Shows(u, t, n)
  <2>1. w.col \in 0 .. W
    BY Parts
  <2>2. CASE w.col >= W
    <3>1. w.col = W
      BY <2>1, <2>2, Dims
    <3>2. u = NewLine(w)
      BY <1>1, <2>2
    <3>3. u \in Writers /\ u.col = 0
      BY <3>2, NewLineKeeps
    <3>4. Shows(u, t, n)
      BY <3>1, <3>2, NewLineShows
    <3> QED BY <3>3, <3>4, Dims
  <2>3. CASE ~(w.col >= W)
    BY <1>1, <2>1, <2>3, Dims
  <2> QED BY <2>2, <2>3
<1>3. b # Newline /\ b \in Glyphs
  BY VgaAssumption DEF Glyphs
<1>4. v = [cells |-> WriteCharAt(u, b), row |-> u.row, col |-> u.col + 1]
  BY <1>1, <1>3 DEF WriteByte, W
<1>5. PICK m, r, c, k : m = u.cells /\ r = u.row /\ c = u.col /\ k = WriteCharAt(u, b)
  OBVIOUS
<1>6. r \in 0 .. H - 1 /\ c \in 0 .. W - 1 /\ r \in Nat /\ c \in Nat
  <2>1. u.row \in 0 .. H - 1 /\ u.col \in 0 .. W
    BY <1>2, Parts
  <2> QED BY <1>2, <1>5, <2>1, Dims
<1>7. PICK o : o = Offset(r, c)
  OBVIOUS
<1>8. o \in 0 .. Size - 1 /\ Offset(r, c + 1) = o + 1
  BY <1>6, <1>7, CellOf, NextColumn, SMTT(30)
<1>9. \A x \in 0 .. Size - 1 : k[x] = IF x = o THEN b ELSE m[x]
  BY <1>2, <1>3, <1>5, <1>7, WriteKeeps DEF W
<1>10. Ends(m, o, t, n)
  BY <1>2, <1>5, <1>7, SMTT(30) DEF Shows, Cursor
<1>11. Ends(k, o + 1, t, n + 1)
  BY <1>8, <1>9, <1>10, EndsPut, SMTT(30)
<1>12. v.cells = k /\ Cursor(v) = o + 1
  BY <1>4, <1>5, <1>8 DEF Cursor
<1> QED BY <1>11, <1>12 DEF Shows

\* backspace past the start of the row takes one byte off.
LEMMA BackspaceDrops ==
  ASSUME NEW w \in Writers, w.col # 0, NEW t, NEW u, NEW n \in Nat,
         Shows(w, t, n + 1), \A i \in 1 .. n : u[i] = t[i],
         NEW v, v = Backspace(w)
  PROVE  Shows(v, u, n)
<1>1. PICK m, r, c : m = w.cells /\ r = w.row /\ c = w.col
  OBVIOUS
<1>2. m \in Screens /\ r \in 0 .. H - 1 /\ c \in 0 .. W /\ c > 0
  BY <1>1, Parts, Dims
<1>3. PICK d : d = c - 1
  OBVIOUS
<1>4. d \in 0 .. W - 1 /\ c = d + 1 /\ d \in Nat /\ r \in Nat
  BY <1>2, <1>3, Dims
<1>5. PICK x : x = [cells |-> m, row |-> r, col |-> d]
  BY Zenon
<1>6. PICK k : k = WriteCharAt(x, Blank)
  OBVIOUS
<1>7. v = [cells |-> k, row |-> r, col |-> d]
  BY <1>1, <1>2, <1>3, <1>5, <1>6, SMTT(30) DEF Backspace
<1>8. x \in Writers /\ x.col < W /\ Blank \in Glyphs
  BY <1>2, <1>4, <1>5, Dims, VgaAssumption DEF Writers, Screens, W, H, Glyphs
<1>9. PICK o : o = Offset(r, d)
  OBVIOUS
<1>10. \A y \in 0 .. Size - 1 : y # o => k[y] = m[y]
  BY <1>5, <1>6, <1>8, <1>9, WriteKeeps DEF W
<1>11. o \in 0 .. Size - 1 /\ Offset(r, c) = o + 1
  BY <1>2, <1>4, <1>9, CellOf, NextColumn
<1>12. Ends(m, o + 1, t, n + 1)
  BY <1>1, <1>11 DEF Shows, Cursor
<1>13. Ends(k, o, u, n)
  BY <1>10, <1>11, <1>12, EndsBack
<1>14. v.cells = k /\ Cursor(v) = o
  BY <1>7, <1>9 DEF Cursor
<1> QED BY <1>13, <1>14 DEF Shows

-----------------------------------------------------------------------------
\* What is typed while a line is read.
TypedOf(b, p) == Prompt \o [i \in 1 .. p |-> b[i - 1]]

\* The bytes still to be printed are the last ones of t.
Pending(t, o) ==
  /\ Len(o) <= Len(t)
  /\ \A j \in 1 .. Len(o) : o[j] = t[Len(t) - Len(o) + j]

\* While a line is read, what is on the screen and what is still to be printed
\* make up the prompt and the line.
EchoInv ==
  mode = "read" =>
    /\ \A i \in 0 .. pos - 1 : buf[i] \in Printable
    /\ ~lost => /\ Pending(Typed, out)
                /\ Shows(writer, Typed, Len(Typed) - Len(out))

\* The prompt and the line, byte by byte.
LEMMA TypedParts ==
  ASSUME NEW b, NEW p \in Nat, \A i \in 0 .. p - 1 : b[i] \in Printable
  PROVE  LET t == TypedOf(b, p)
             l == Len(Prompt)
         IN  /\ t \in Seq(Printable) /\ Len(t) = l + p /\ l \in Nat
             /\ \A i \in 1 .. l : t[i] = Prompt[i]
             /\ \A i \in l + 1 .. l + p : t[i] = b[i - l - 1]
<1> DEFINE s == [i \in 1 .. p |-> b[i - 1]]
           l == Len(Prompt)
           t == Prompt \o s
<1>1. ASSUME NEW i \in 1 .. p PROVE b[i - 1] \in Printable
  <2>1. i - 1 \in 0 .. p - 1
    OBVIOUS
  <2> QED BY <2>1
<1>2. s \in [1 .. p -> Printable] /\ \A i \in 1 .. p : s[i] = b[i - 1]
  BY <1>1
<1> HIDE DEF s
<1>3. s \in Seq(Printable) /\ Len(s) = p
  BY <1>2
<1>4. Prompt \in Seq(Printable) /\ l \in Nat
  BY ShellAssumption
<1>5. /\ t \in Seq(Printable) /\ Len(t) = l + p
      /\ \A i \in 1 .. l : t[i] = Prompt[i]
      /\ \A i \in l + 1 .. l + p : t[i] = s[i - l]
  <2>1. /\ t \in Seq(Printable) /\ Len(t) = Len(Prompt) + Len(s)
        /\ \A i \in 1 .. Len(Prompt) + Len(s) :
             t[i] = IF i <= Len(Prompt) THEN Prompt[i] ELSE s[i - Len(Prompt)]
    BY <1>3, <1>4, ConcatProperties, Zenon
  <2> HIDE DEF t, l
  <2>2. l = Len(Prompt)
    BY DEF l
  <2>3. \A i \in 1 .. l : t[i] = Prompt[i]
    BY <1>3, <1>4, <2>1, <2>2
  <2>4. \A i \in l + 1 .. l + p : t[i] = s[i - l]
    BY <1>3, <1>4, <2>1, <2>2
  <2> QED BY <1>3, <2>1, <2>2, <2>3, <2>4
<1>6. ASSUME NEW i \in l + 1 .. l + p PROVE s[i - l] = b[i - l - 1]
  <2>1. i - l \in 1 .. p
    BY <1>4
  <2> QED BY <1>2, <2>1
<1> HIDE DEF l, t
<1>7. \A i \in l + 1 .. l + p : t[i] = b[i - l - 1]
  BY <1>5, <1>6
<1>8. t = TypedOf(b, p)
  BY DEF t, s, TypedOf
<1> QED BY <1>4, <1>5, <1>7, <1>8 DEF l

\* One more character in the buffer.
LEMMA TypedMore ==
  ASSUME NEW b, NEW p \in Nat, \A i \in 0 .. p - 1 : b[i] \in Printable,
         NEW e, \A i \in 0 .. p - 1 : e[i] = b[i], e[p] \in Printable,
         NEW t, t = TypedOf(b, p), NEW u, u = TypedOf(e, p + 1)
  PROVE  /\ t \in Seq(Printable) /\ u \in Seq(Printable)
         /\ Len(u) = Len(t) + 1 /\ u[Len(u)] = e[p]
         /\ \A i \in 1 .. Len(t) : u[i] = t[i]
<1> DEFINE l == Len(Prompt)
<1>1. /\ t \in Seq(Printable) /\ Len(t) = l + p /\ l \in Nat
      /\ \A i \in 1 .. l : t[i] = Prompt[i]
      /\ \A i \in l + 1 .. l + p : t[i] = b[i - l - 1]
  BY TypedParts
<1>2. \A i \in 0 .. (p + 1) - 1 : e[i] \in Printable
  <2> SUFFICES ASSUME NEW i \in 0 .. (p + 1) - 1 PROVE e[i] \in Printable
    OBVIOUS
  <2>1. i \in 0 .. p - 1 \/ i = p
    OBVIOUS
  <2> QED BY <2>1
<1>3. /\ u \in Seq(Printable) /\ Len(u) = l + (p + 1)
      /\ \A i \in 1 .. l : u[i] = Prompt[i]
      /\ \A i \in l + 1 .. l + (p + 1) : u[i] = e[i - l - 1]
  <2>1. p + 1 \in Nat
    OBVIOUS
  <2> QED BY <1>2, <2>1, TypedParts, Zenon
<1> HIDE DEF l
<1>4. Len(u) = Len(t) + 1
  BY <1>1, <1>3
<1>5. u[Len(u)] = e[p]
  <2>1. Len(u) \in l + 1 .. l + (p + 1) /\ Len(u) - l - 1 = p
    BY <1>1, <1>3
  <2> QED BY <1>3, <2>1
<1>6. ASSUME NEW i \in 1 .. Len(t) PROVE u[i] = t[i]
  <2>1. CASE i \in 1 .. l
    BY <1>1, <1>3, <2>1
  <2>2. CASE i \notin 1 .. l
    <3>1. i \in l + 1 .. l + p /\ i \in l + 1 .. l + (p + 1) /\ i - l - 1 \in 0 .. p - 1
      BY <1>1, <2>2
    <3> QED BY <1>1, <1>3, <3>1
  <2> QED BY <2>1, <2>2
<1> QED BY <1>1, <1>3, <1>4, <1>5, <1>6

\* A byte printed is one pending byte less.
LEMMA PendingTail ==
  ASSUME NEW t \in Seq(Printable), NEW o \in Seq(Bytes), o # << >>, Pending(t, o),
         NEW n, n = Len(t) - Len(o)
  PROVE  /\ n \in Nat /\ Head(o) = t[n + 1] /\ Head(o) \in Printable
         /\ Pending(t, Tail(o)) /\ Len(t) - Len(Tail(o)) = n + 1
<1>1. /\ Len(o) \in Nat /\ Len(o) > 0 /\ Len(t) \in Nat /\ Len(o) <= Len(t)
      /\ Head(o) = o[1]
  BY DEF Pending
<1>2. PICK q : q = Tail(o)
  BY Zenon
<1>3. /\ Len(q) = Len(o) - 1
      /\ \A i \in 1 .. Len(q) : q[i] = o[i + 1]
  BY <1>2, HeadTailProperties
<1>4. o[1] = t[n + 1] /\ n + 1 \in 1 .. Len(t) /\ n \in Nat
  BY <1>1 DEF Pending
<1>5. t[n + 1] \in Printable
  BY <1>4, ElementOfSeq
<1>6. ASSUME NEW j \in 1 .. Len(q) PROVE q[j] = t[Len(t) - Len(q) + j]
  <2>1. j + 1 \in 1 .. Len(o) /\ Len(t) - Len(o) + (j + 1) = Len(t) - Len(q) + j
    BY <1>1, <1>3
  <2>2. o[j + 1] = t[Len(t) - Len(o) + (j + 1)]
    BY <2>1 DEF Pending
  <2> QED BY <1>3, <2>1, <2>2
<1>7. Len(q) <= Len(t) /\ Len(t) - Len(q) = n + 1
  BY <1>1, <1>3
<1> QED BY <1>1, <1>2, <1>4, <1>5, <1>6, <1>7 DEF Pending

\* What is shown depends on the first bytes of the line only.
LEMMA ShowsSame ==
  ASSUME NEW w, NEW t, NEW u, NEW n \in Nat, Shows(w, t, n),
         \A i \in 1 .. n : u[i] = t[i]
  PROVE  Shows(w, u, n)
<1>1. \A i \in 1 .. n : n + 1 - i \in 1 .. n
  OBVIOUS
<1> QED BY <1>1 DEF Shows, Ends

\* The screen has shown nothing of the line yet.
LEMMA ShowsNothing == ASSUME NEW w, NEW t PROVE Shows(w, t, 0)
BY DEF Shows, Ends

\* All facts the echo rests on.
EchoAll ==
  /\ writer \in Writers /\ Clean(writer)
  /\ out \in Seq(Bytes)
  /\ LineInBuffer
  /\ EchoInv

\* What EchoInv says while a line is read.
LEMMA Reading ==
  ASSUME EchoAll, mode = "read", NEW t, t = Typed
  PROVE  /\ pos \in Nat /\ t = TypedOf(buf, pos) /\ t \in Seq(Printable)
         /\ \A i \in 0 .. pos - 1 : buf[i] \in Printable
         /\ Len(t) = Len(Prompt) + pos /\ Len(Prompt) \in Nat
<1>1. pos \in Nat /\ \A i \in 0 .. pos - 1 : buf[i] \in Printable
  BY ShellAssumption DEF EchoAll, EchoInv, LineInBuffer
<1>2. t = TypedOf(buf, pos)
  BY DEF Typed, TypedOf
<1> QED BY <1>1, <1>2, TypedParts

\* _kprint keeps it.
LEMMA EmitEchoes == ASSUME EchoAll, Emit PROVE EchoInv'
<1> SUFFICES ASSUME mode' = "read" PROVE EchoInv'
  BY DEF EchoInv
<1>1. mode = "read" /\ UNCHANGED <<buf, pos, lost>> /\ out' = Tail(out)
  BY DEF Emit
<1>2. PICK t : t = Typed
  OBVIOUS
<1>3. Typed' = t
  BY <1>1, <1>2 DEF Typed
<1>4. t \in Seq(Printable) /\ \A i \in 0 .. pos - 1 : buf[i] \in Printable
  BY <1>1, <1>2, Reading
<1>5. ASSUME ~lost PROVE Pending(t, Tail(out)) /\ Shows(writer', t, Len(t) - Len(Tail(out)))
  <2>1. Pending(t, out) /\ Shows(writer, t, Len(t) - Len(out))
    BY <1>1, <1>2, <1>5 DEF EchoAll, EchoInv
  <2>2. PICK n : n = Len(t) - Len(out)
    OBVIOUS
  <2>3. out \in Seq(Bytes) /\ out # << >>
    BY DEF EchoAll, Emit
  <2>4. /\ n \in Nat /\ Head(out) = t[n + 1] /\ Head(out) \in Printable
        /\ Pending(t, Tail(out)) /\ Len(t) - Len(Tail(out)) = n + 1
    BY <1>4, <2>1, <2>2, <2>3, PendingTail
  <2>5. PICK b : b = Head(out)
    OBVIOUS
  <2>6. Shown(b) = b
    BY <2>4, <2>5 DEF Shown
  <2>7. PICK v : v = writer'
    OBVIOUS
  <2>8. v = WriteByte(writer, b)
    BY <2>5, <2>6, <2>7 DEF Emit
  <2>9. Shows(v, t, n + 1)
    BY <2>1, <2>2, <2>4, <2>5, <2>8, WriteByteEchoes, SMTT(30) DEF EchoAll
  <2> QED BY <2>4, <2>7, <2>9, Zenon
<1>6. EchoInv' = (mode' = "read" =>
        /\ \A i \in 0 .. pos' - 1 : buf'[i] \in Printable
        /\ ~lost' => /\ Pending(Typed', out')
                     /\ Shows(writer', Typed', Len(Typed') - Len(out')))
  BY DEF EchoInv, Pending, Shows, Ends, Cursor, Offset
<1> QED BY <1>1, <1>3, <1>4, <1>5, <1>6, Zenon

\* EchoInv in the next state.
LEMMA EchoNext ==
  ASSUME NEW v, v = writer', NEW t, t = Typed', NEW o, o = out',
         mode' = "read" =>
           /\ \A i \in 0 .. pos' - 1 : buf'[i] \in Printable
           /\ ~lost' => Pending(t, o) /\ Shows(v, t, Len(t) - Len(o))
  PROVE  EchoInv'
BY DEF EchoInv, Pending, Shows, Ends, Cursor, Offset

\* A fresh prompt: nothing is shown of it, all of it is pending.
LEMMA PromptEchoes == ASSUME PrintPrompt PROVE EchoInv'
<1>1. pos' = 0 /\ out' = Prompt
  BY DEF PrintPrompt
<1>2. PICK b, t, v : b = buf' /\ t = TypedOf(b, 0) /\ v = writer'
  OBVIOUS
<1>3. Typed' = t
  BY <1>1, <1>2 DEF Typed, TypedOf
<1>4. /\ t \in Seq(Printable) /\ Len(t) = Len(Prompt) /\ Len(Prompt) \in Nat
      /\ \A i \in 1 .. Len(Prompt) : t[i] = Prompt[i]
  <2>1. /\ t \in Seq(Printable) /\ Len(t) = Len(Prompt) + 0 /\ Len(Prompt) \in Nat
        /\ \A i \in 1 .. Len(Prompt) : t[i] = Prompt[i]
    BY <1>2, TypedParts
  <2> QED BY <2>1
<1>5. Pending(t, Prompt) /\ Len(t) - Len(Prompt) = 0
  BY <1>4 DEF Pending
<1>6. Shows(v, t, Len(t) - Len(Prompt))
  BY <1>5, ShowsNothing
<1> QED BY <1>1, <1>2, <1>3, <1>5, <1>6, EchoNext

\* A character typed is in the buffer and pending.
LEMMA TypeEchoes ==
  ASSUME EchoAll, mode = "read", out = << >>, HasRoom,
         NEW c \in Printable, Type(c)
  PROVE  EchoInv'
<1>1. PICK t : t = Typed
  OBVIOUS
<1>2. /\ pos \in Nat /\ t = TypedOf(buf, pos) /\ t \in Seq(Printable)
      /\ \A i \in 0 .. pos - 1 : buf[i] \in Printable
  BY <1>1, Reading
<1>3. PICK e, u, v : e = buf' /\ u = TypedOf(e, pos + 1) /\ v = writer'
  OBVIOUS
<1>4. /\ pos' = pos + 1 /\ lost' = lost /\ writer' = writer /\ out' = << c >>
      /\ \A i \in 0 .. pos - 1 : e[i] = buf[i]
      /\ e[pos] = c
  <2>1. DOMAIN buf = 0 .. MAX_CMD_LEN - 1 /\ pos \in 0 .. MAX_CMD_LEN - 1
    BY SMTT(30) DEF EchoAll, LineInBuffer
  <2> QED BY <1>3, <2>1, ShellAssumption DEF Type
<1>5. /\ u \in Seq(Printable) /\ Len(u) = Len(t) + 1 /\ u[Len(u)] = c
      /\ \A i \in 1 .. Len(t) : u[i] = t[i]
  BY <1>2, <1>3, <1>4, TypedMore, SMTT(30)
<1>6. Typed' = u
  BY <1>3, <1>4 DEF Typed, TypedOf
<1>7. \A i \in 0 .. pos' - 1 : buf'[i] \in Printable
  <2> SUFFICES ASSUME NEW i \in 0 .. pos' - 1 PROVE e[i] \in Printable
    BY <1>3
  <2>1. i \in 0 .. pos - 1 \/ i = pos
    BY <1>2, <1>4
  <2> QED BY <1>2, <1>4, <2>1
<1>8. Len(t) \in Nat
  BY <1>2
<1>9. PICK o : o = << c >>
  BY Zenon
<1>10. Len(o) = 1 /\ o[1] = c
  BY <1>9
<1>11. Pending(u, o) /\ Len(u) - Len(o) = Len(t)
  BY <1>5, <1>8, <1>10, SMTT(30) DEF Pending
<1>12. ASSUME ~lost PROVE Shows(v, u, Len(u) - Len(o))
  <2>1. Shows(writer, t, Len(t) - Len(out)) /\ Len(t) - Len(out) = Len(t)
    BY <1>1, <1>8, <1>12 DEF EchoAll, EchoInv
  <2>2. Shows(writer, t, Len(t))
    BY <2>1
  <2>3. Shows(writer, u, Len(t))
    BY <1>5, <1>8, <2>2, ShowsSame, SMTT(30)
  <2> QED BY <1>3, <1>4, <1>11, <2>3
<1> QED BY <1>3, <1>4, <1>6, <1>7, <1>9, <1>11, <1>12, EchoNext, Zenon

\* A character erased is out of the buffer and off the screen, or lost is set.
LEMMA EraseEchoes ==
  ASSUME EchoAll, mode = "read", out = << >>, pos > 0, Erase
  PROVE  EchoInv'
<1>1. PICK u : u = Typed
  OBVIOUS
<1>2. /\ pos \in Nat /\ u = TypedOf(buf, pos) /\ u \in Seq(Printable)
      /\ \A i \in 0 .. pos - 1 : buf[i] \in Printable
  BY <1>1, Reading
<1>3. PICK p, e, t, v : p = pos - 1 /\ e = buf' /\ t = TypedOf(e, p) /\ v = writer'
  OBVIOUS
<1>4. p \in Nat /\ pos = p + 1
  BY <1>2, <1>3
<1>5. /\ pos' = p /\ out' = << >> /\ v = Backspace(writer)
      /\ lost' = (lost \/ writer.col = 0)
      /\ \A i \in 0 .. p - 1 : buf[i] = e[i]
  <2>1. DOMAIN buf = 0 .. MAX_CMD_LEN - 1 /\ pos \in 0 .. MAX_CMD_LEN - 1
    BY DEF EchoAll, LineInBuffer
  <2> QED BY <1>3, <1>4, <2>1, ShellAssumption DEF Erase
<1>6. \A i \in 0 .. p - 1 : e[i] \in Printable
  <2>1. \A i \in 0 .. p - 1 : i \in 0 .. pos - 1
    BY <1>4
  <2> QED BY <1>2, <1>5, <2>1
<1>7. buf[p] \in Printable
  BY <1>2, <1>4
<1>8. /\ t \in Seq(Printable)
      /\ Len(u) = Len(t) + 1 /\ \A i \in 1 .. Len(t) : u[i] = t[i]
  BY <1>2, <1>3, <1>4, <1>5, <1>6, <1>7, TypedMore
<1>9. Typed' = t
  BY <1>3, <1>5 DEF Typed, TypedOf
<1>10. PICK n : n = Len(t)
  OBVIOUS
<1>11. n \in Nat /\ Len(u) = n + 1
  BY <1>8, <1>10
<1>12. PICK o : o = << >>
  OBVIOUS
<1>13. Len(o) = 0 /\ Len(t) - Len(o) = n /\ Pending(t, o)
  BY <1>10, <1>11, <1>12 DEF Pending
<1>14. ASSUME ~lost' PROVE Shows(v, t, n)
  <2>1. ~lost /\ writer.col # 0
    BY <1>5, <1>14, Zenon
  <2>2. Shows(writer, u, Len(u) - Len(out)) /\ Len(u) - Len(out) = n + 1
    BY <1>1, <1>11, <2>1 DEF EchoAll, EchoInv
  <2>3. Shows(writer, u, n + 1)
    BY <2>2
  <2>4. writer \in Writers
    BY DEF EchoAll
  <2> QED BY <1>5, <1>8, <1>10, <1>11, <2>1, <2>3, <2>4, BackspaceDrops
<1> QED BY <1>3, <1>5, <1>6, <1>9, <1>12, <1>13, <1>14, EchoNext

\* Every step of the shell keeps it.
LEMMA StepEchoes == ASSUME EchoAll, [Next]_svars PROVE EchoInv'
<1>1. CASE Emit
  BY <1>1, EmitEchoes
<1>2. CASE PrintPrompt
  BY <1>2, PromptEchoes
<1>3. CASE Execute \/ PsLine \/ PsDone \/ TimerSpins \/ Halt
  BY <1>3 DEF Execute, PsLine, PsDone, TimerSpins, Halt, EchoInv
<1>4. ASSUME NEW k \in Keys, ReadKey(k) PROVE EchoInv'
  <2>1. mode = "read" /\ out = << >>
    BY <1>4 DEF ReadKey
  <2>2. CASE Commit
    BY <2>2 DEF Commit, EchoInv
  <2>3. CASE pos > 0 /\ Erase
    BY <2>1, <2>3, EraseEchoes
  <2>4. ASSUME NEW c \in Printable, HasRoom, Type(c) PROVE EchoInv'
    BY <2>1, <2>4, TypeEchoes
  <2>5. CASE Ignore
    BY <2>5, Zenon DEF Ignore, EchoAll, EchoInv, Typed, Pending, Shows, Ends, Cursor, Offset
  <2> QED BY <1>4, <2>2, <2>3, <2>4, <2>5 DEF ReadKey
<1>5. CASE UNCHANGED svars
  BY <1>5, ZenonT(40) DEF svars, EchoAll, EchoInv, Typed, Pending, Shows, Ends, Cursor, Offset
<1> QED BY <1>1, <1>2, <1>3, <1>4, <1>5 DEF Next, Progress

\* While a line is read and no backspace hit column 0, the cells before the
\* cursor are the prompt and the line buffer, for every size of the screen and
\* every length of the line.
THEOREM EchoMatchesBuffer == Spec => []LineOnScreen
<1>1. Init => EchoInv
  BY DEF Init, EchoInv
<1>2. writer \in Writers /\ Clean(writer) /\ out \in Seq(Bytes) /\ LineInBuffer
        /\ EchoInv /\ [Next]_svars => EchoInv'
  BY StepEchoes DEF EchoAll
<1>3. LineInBuffer /\ EchoInv => LineOnScreen
  <2> SUFFICES ASSUME EchoInv, LineInBuffer, mode = "read", out = << >>, ~lost
               PROVE  LET cursor == Offset(writer.row, writer.col)
                          n == Len(Typed)
                      IN  \A i \in 1 .. n :
                            cursor - i >= 0 => writer.cells[cursor - i] = Typed[n + 1 - i]
    BY DEF LineOnScreen
  <2>1. PICK t : t = Typed
    OBVIOUS
  <2>2. pos \in Nat /\ \A i \in 0 .. pos - 1 : buf[i] \in Printable
    BY ShellAssumption DEF EchoInv, LineInBuffer
  <2>3. t = TypedOf(buf, pos)
    BY <2>1 DEF Typed, TypedOf
  <2>4. t \in Seq(Printable)
    BY <2>2, <2>3, TypedParts
  <2>5. Len(t) - Len(out) = Len(t)
    BY <2>4
  <2>6. Shows(writer, t, Len(t))
    BY <2>1, <2>5 DEF EchoInv
  <2> QED BY <2>1, <2>6 DEF Shows, Ends, Cursor
<1>4. Spec => [](writer \in Writers /\ Clean(writer))
  BY ShellDrivesWriter, WriterInvariant, PTL
<1> QED BY <1>1, <1>2, <1>3, <1>4, OutputIsBytes, LineStaysInBuffer, PTL DEF Spec

=============================================================================
