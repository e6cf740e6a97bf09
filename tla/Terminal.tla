------------------------------ MODULE Terminal ------------------------------
(***************************************************************************)
(* What a text console promises: it shows the last Height lines of what    *)
(* was written, a line longer than Width going on in the next, and the     *)
(* cursor at the end of the last one.  No memory, no offsets.              *)
(***************************************************************************)
EXTENDS Integers, Sequences

CONSTANTS Width, Height, Chars, Blank

VARIABLES
  above,   \* the complete lines above the cursor, at most Height - 1
  line     \* the line the cursor is at the end of

Padded == [i \in 1 .. Width |-> IF i <= Len(line) THEN line[i] ELSE Blank]

\* The last Height - 1 lines of s.
Kept(s) == IF Len(s) < Height THEN s ELSE Tail(s)

TermInit == above = << >> /\ line = << >>

Feed == above' = Kept(Append(above, Padded)) /\ line' = << >>

Show(c) ==
  \/ Len(line) < Width /\ line' = Append(line, c) /\ UNCHANGED above
  \/ Len(line) = Width /\ above' = Kept(Append(above, Padded)) /\ line' = << c >>

Erase ==
  /\ line # << >>
  /\ line' = SubSeq(line, 1, Len(line) - 1)
  /\ UNCHANGED above

Wipe == above' = << >> /\ line' = << >>

TermNext == Feed \/ (\E c \in Chars : Show(c)) \/ Erase \/ Wipe

TermSpec == TermInit /\ [][TermNext]_<<above, line>>

=============================================================================
