----------------------------- MODULE KeyBuffer -----------------------------
(***************************************************************************)
(* KeyBuffer of kernel/src/drivers/keyboard.rs: a ring of KEY_BUF_SIZE     *)
(* bytes with a read index, a write index and a count.                     *)
(***************************************************************************)
EXTENDS Integers, Sequences

CONSTANTS
  Byte,         \* the decoded characters
  KEY_BUF_SIZE  \* 256 in the code

ASSUME KeyBufferAssumption ==
  /\ 0 \in Byte
  /\ KEY_BUF_SIZE \in Nat \ {0}

VARIABLES
  ring,     \* KEY_BUFFER
  popped    \* the last answer of pop: << >> or <<b>>

Index == 0 .. KEY_BUF_SIZE - 1

NewRing == [buf |-> [i \in Index |-> 0], read |-> 0, write |-> 0, count |-> 0]

\* Mutant: the fullness test lets one byte too many in.
Push_OffByOne(r, b) ==
  IF r.count <= KEY_BUF_SIZE
  THEN [r EXCEPT !.buf[r.write] = b,
                 !.write = (r.write + 1) % KEY_BUF_SIZE,
                 !.count = r.count + 1]
  ELSE r

\* Mutant: a full ring overwrites the oldest byte in place.
Push_Overwrite(r, b) ==
  [r EXCEPT !.buf[r.write] = b,
            !.write = (r.write + 1) % KEY_BUF_SIZE,
            !.count = IF r.count < KEY_BUF_SIZE THEN r.count + 1 ELSE r.count]

\* KeyBuffer::push
Push(r, b) ==
  IF r.count < KEY_BUF_SIZE
  THEN [r EXCEPT !.buf[r.write] = b,
                 !.write = (r.write + 1) % KEY_BUF_SIZE,
                 !.count = r.count + 1]
  ELSE r

\* KeyBuffer::pop, the ring it leaves and the byte it returns.
AfterPop(r) ==
  IF r.count = 0
  THEN r
  ELSE [r EXCEPT !.read = (r.read + 1) % KEY_BUF_SIZE, !.count = r.count - 1]

PopValue(r) == IF r.count = 0 THEN << >> ELSE << r.buf[r.read] >>

-----------------------------------------------------------------------------
RingInit == ring = NewRing /\ popped = << >>

PushStep(b) == ring' = Push(ring, b) /\ UNCHANGED popped

PopStep == ring' = AfterPop(ring) /\ popped' = PopValue(ring)

RingNext == PopStep \/ \E b \in Byte : PushStep(b)

RingSpec == RingInit /\ [][RingNext]_<<ring, popped>>

-----------------------------------------------------------------------------
(* Properties.                                                              *)

\* The indices stay inside the array and the write index is count slots after
\* the read index: `self.buf[self.write]` and `self.buf[self.read]` are in bounds
\* at every wrap-around.
RingOK ==
  /\ ring \in [buf : [Index -> Byte], read : Index, write : Index,
               count : 0 .. KEY_BUF_SIZE]
  /\ ring.write = (ring.read + ring.count) % KEY_BUF_SIZE

\* The bytes a ring holds, oldest first.
Contents(r) == [i \in 1 .. r.count |-> r.buf[(r.read + i - 1) % KEY_BUF_SIZE]]

Queue == INSTANCE KeyQueue
           WITH queue <- Contents(ring), Capacity <- KEY_BUF_SIZE

\* push and pop through the wrapping indices are the operations of a bounded
\* first-in first-out queue.
ImplementsQueue == Queue!QueueSpec

=============================================================================
