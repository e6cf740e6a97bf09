----------------------------- MODULE KeyQueue -----------------------------
(***************************************************************************)
(* What the keyboard input buffer promises: a first-in first-out queue of  *)
(* at most Capacity bytes, which drops what arrives while it is full.      *)
(***************************************************************************)
EXTENDS Naturals, Sequences

CONSTANTS Byte, Capacity

VARIABLES
  queue,    \* the bytes not yet read, oldest first
  popped    \* the last answer of pop: << >> (None) or <<b>> (Some(b))

QueueInit == queue = << >> /\ popped = << >>

Put(b) ==
  /\ queue' = IF Len(queue) < Capacity THEN Append(queue, b) ELSE queue
  /\ UNCHANGED popped

Take ==
  \/ queue = << >> /\ popped' = << >> /\ UNCHANGED queue
  \/ queue # << >> /\ popped' = << Head(queue) >> /\ queue' = Tail(queue)

QueueNext == Take \/ \E b \in Byte : Put(b)

QueueSpec == QueueInit /\ [][QueueNext]_<<queue, popped>>

=============================================================================
