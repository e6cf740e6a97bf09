-------------------------------- MODULE Vga --------------------------------
(***************************************************************************)
(* The VGA writer of kernel/src/drivers/vga.rs: the cursor, and the cells  *)
(* it writes at VGA_BUFFER_ADDR + 2 * (row * BUFFER_WIDTH + col) through   *)
(* raw pointers, which nothing bounds.  cells is a function from cell      *)
(* numbers; a write outside the screen would add to its domain.  Colours   *)
(* are left out.                                                           *)
(***************************************************************************)
EXTENDS Integers, Sequences

CONSTANTS
  BUFFER_WIDTH,
  BUFFER_HEIGHT,
  Printable       \* the bytes 0x20..=0x7e, the space among them

Blank == " "
Newline == "nl"
Box == "box"      \* 0xFE

ASSUME VgaAssumption ==
  /\ BUFFER_WIDTH \in Nat \ {0}
  /\ BUFFER_HEIGHT \in Nat \ {0}
  /\ Blank \in Printable
  /\ Newline \notin Printable
  /\ Box \notin Printable

VARIABLE writer   \* WRITER and the memory behind it

Glyphs == Printable \cup {Box}

Size == BUFFER_HEIGHT * BUFFER_WIDTH

Offset(r, c) == r * BUFFER_WIDTH + c

BlankScreen == [o \in 0 .. Size - 1 |-> Blank]

\* write_char_at, at the cursor.
WriteCharAt(w, ch) ==
  LET o == Offset(w.row, w.col)
  IN  [x \in DOMAIN w.cells \cup {o} |-> IF x = o THEN ch ELSE w.cells[x]]

\* Mutant: the last row is not cleared.
Scroll_KeepsLast(m) ==
  [o \in 0 .. Size - 1 |->
     IF o < Offset(BUFFER_HEIGHT - 1, 0) THEN m[o + BUFFER_WIDTH] ELSE m[o]]

\* scroll: rows move up by one, the last one is cleared.
Scroll(m) ==
  [o \in 0 .. Size - 1 |->
     IF o < Offset(BUFFER_HEIGHT - 1, 0) THEN m[o + BUFFER_WIDTH] ELSE Blank]

\* new_line.
NewLine(w) ==
  IF w.row < BUFFER_HEIGHT - 1
  THEN [cells |-> w.cells, row |-> w.row + 1, col |-> 0]
  ELSE [cells |-> Scroll(w.cells), row |-> w.row, col |-> 0]

\* Mutant: the wrap comes one column late.
WriteByte_LateWrap(w, b) ==
  IF b = Newline THEN NewLine(w)
  ELSE LET v == IF w.col > BUFFER_WIDTH THEN NewLine(w) ELSE w
       IN  [cells |-> WriteCharAt(v, b), row |-> v.row, col |-> v.col + 1]

\* write_byte: a full row is left only when the next character comes.
WriteByte(w, b) ==
  IF b = Newline THEN NewLine(w)
  ELSE LET v == IF w.col >= BUFFER_WIDTH THEN NewLine(w) ELSE w
       IN  [cells |-> WriteCharAt(v, b), row |-> v.row, col |-> v.col + 1]

\* write_string, for one byte: anything that is not printable becomes a box.
Shown(b) == IF b \in Printable \cup {Newline} THEN b ELSE Box

\* clear.
Cleared(w) == [cells |-> BlankScreen, row |-> 0, col |-> 0]

\* Mutant: the cursor moves back, the character stays.
Backspace_Keeps(w) == [w EXCEPT !.col = IF @ > 0 THEN @ - 1 ELSE @]

\* backspace: nothing in column 0.
Backspace(w) ==
  IF w.col > 0
  THEN LET v == [cells |-> w.cells, row |-> w.row, col |-> w.col - 1]
       IN  [cells |-> WriteCharAt(v, Blank), row |-> v.row, col |-> v.col]
  ELSE w

-----------------------------------------------------------------------------
(* The writer alone, driven by any sequence of calls after init().          *)

WriterInit == writer = [cells |-> BlankScreen, row |-> 0, col |-> 0]

Write(b) == writer' = WriteByte(writer, Shown(b))
Clear == writer' = Cleared(writer)
Back == writer' = Backspace(writer)

WriterNext ==
  \/ \E b \in Printable \cup {Newline, "ctl"} : Write(b)
  \/ Clear
  \/ Back

WriterSpec == WriterInit /\ [][WriterNext]_writer

-----------------------------------------------------------------------------
(* Properties.                                                              *)

\* Every raw write falls in the BUFFER_HEIGHT * BUFFER_WIDTH cells of the screen,
\* whatever is printed, and the cursor is on a row of it, at most one past the
\* last column.
WritesInBuffer ==
  /\ writer.cells \in [0 .. Size - 1 -> Glyphs]
  /\ writer.row \in 0 .. BUFFER_HEIGHT - 1
  /\ writer.col \in 0 .. BUFFER_WIDTH

\* Nothing is left of earlier output at the cursor or after it: a new line starts
\* on a clean row, scrolled or not.
BlankAhead ==
  \A o \in DOMAIN writer.cells :
    o >= Offset(writer.row, writer.col) => writer.cells[o] = Blank

\* The text in the first n columns of row r of m, and in the first r rows.
RowText(m, r, n) == [c \in 1 .. n |-> m[Offset(r, c - 1)]]

TextAbove(m, r) == [i \in 1 .. r |-> RowText(m, i - 1, BUFFER_WIDTH)]

Term == INSTANCE Terminal
  WITH Width <- BUFFER_WIDTH, Height <- BUFFER_HEIGHT, Chars <- Glyphs,
       above <- TextAbove(writer.cells, writer.row),
       line <- RowText(writer.cells, writer.row, writer.col)

\* The screen memory with its cursor is a terminal: it shows the last lines
\* written, in order, wrapped at the width.
ImplementsTerminal == Term!TermSpec

=============================================================================
