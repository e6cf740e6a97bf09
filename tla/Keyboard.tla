----------------------------- MODULE Keyboard -----------------------------
(***************************************************************************)
(* The keyboard path: the PS/2 controller, the IRQ 1 handler that fills    *)
(* KEY_BUFFER, and the reader, the inner loop of shell::read_line, which   *)
(* takes a character from the buffer, else polls the controller, else      *)
(* halts until the next interrupt.                                         *)
(*                                                                         *)
(* Keys are numbered in the order they are struck; the number stands for   *)
(* the scancode and for the character it decodes to.  The reader's two     *)
(* attempts are two bodies under without_interrupts: the IRQ can be taken  *)
(* between them.                                                           *)
(***************************************************************************)
EXTENDS KeyBuffer, FiniteSets

CONSTANTS
  MaxKeys,   \* bound: keys struck
  Silent     \* keys that decode to nothing (a release, a modifier)

ASSUME KeyboardAssumption ==
  /\ MaxKeys \in Nat
  /\ 0 .. MaxKeys \subseteq Byte
  /\ Silent \subseteq 1 .. MaxKeys

VARIABLES
  struck,     \* number of keys struck so far
  port,       \* the byte a read of port 0x60 returns
  full,       \* STATUS_OUTPUT_BUFFER_FULL
  irq,        \* IRQ 1 is latched in the interrupt controller
  stale,      \* does it stay latched when its byte is polled away?  Never changes
  reader,     \* where the reader is: "try", "poll" or "hlt"
  delivered,  \* characters handed to the reader, in order
  dropped     \* characters push() refused

kvars == <<ring, popped, struck, port, full, irq, stale, reader, delivered, dropped>>

Init ==
  /\ RingInit
  /\ struck = 0
  /\ port = 0
  /\ full = FALSE
  /\ irq = FALSE
  /\ stale \in BOOLEAN
  /\ reader = "try"
  /\ delivered = << >>
  /\ dropped = {}

\* decode_scancode: is there a character for this scancode?  The byte the port
\* returns before any key was struck is not a key.
Decodes(k) == k # 0 /\ k \notin Silent

(* The controller holds one byte; the next key waits until it is read.      *)
Strike ==
  /\ struck < MaxKeys
  /\ ~full
  /\ struck' = struck + 1
  /\ port' = struck'
  /\ full' = TRUE
  /\ irq' = TRUE
  /\ UNCHANGED <<ring, popped, reader, delivered, dropped, stale>>

\* Mutant: the handler forgets a key that arrives while the reader is polling.
HandleInterrupt_SkipsPoll ==
  /\ irq
  /\ irq' = FALSE
  /\ full' = FALSE
  /\ ring' = IF Decodes(port) /\ reader # "poll" THEN Push(ring, port) ELSE ring
  /\ UNCHANGED <<popped, struck, port, reader, delivered, dropped, stale>>

(* handle_interrupt: reads the port without asking for its status.          *)
HandleInterrupt ==
  /\ irq
  /\ irq' = FALSE
  /\ full' = FALSE
  /\ ring' = IF Decodes(port) THEN Push(ring, port) ELSE ring
  /\ dropped' = IF Decodes(port) /\ ring.count = KEY_BUF_SIZE
                THEN dropped \cup {port} ELSE dropped
  /\ UNCHANGED <<popped, struck, port, reader, delivered, stale>>

(* try_read_char.                                                           *)
TryReadChar ==
  /\ reader = "try"
  /\ PopStep
  /\ delivered' = delivered \o popped'
  /\ reader' = IF popped' = << >> THEN "poll" ELSE "try"
  /\ UNCHANGED <<struck, port, full, irq, dropped, stale>>

\* Mutant: poll_char reads the port without looking at the status first.
PollChar_NoStatus ==
  /\ reader = "poll"
  /\ full' = FALSE
  /\ irq' = (stale /\ irq)
  /\ delivered' = IF Decodes(port) THEN Append(delivered, port) ELSE delivered
  /\ reader' = IF Decodes(port) THEN "try" ELSE "hlt"
  /\ UNCHANGED <<ring, popped, struck, port, dropped, stale>>

(* poll_char: nothing when the status says empty, else one decoded byte.    *)
PollChar ==
  /\ reader = "poll"
  /\ full' = FALSE
  /\ irq' = IF full THEN stale /\ irq ELSE irq
  /\ delivered' = IF full /\ Decodes(port) THEN Append(delivered, port) ELSE delivered
  /\ reader' = IF full /\ Decodes(port) THEN "try" ELSE "hlt"
  /\ UNCHANGED <<ring, popped, struck, port, dropped, stale>>

(* hlt ends at any interrupt; the timer's comes in any case.                *)
Wake ==
  /\ reader = "hlt"
  /\ reader' = "try"
  /\ UNCHANGED <<ring, popped, struck, port, full, irq, delivered, dropped, stale>>

Reader == TryReadChar \/ PollChar \/ Wake

Next == Strike \/ HandleInterrupt \/ Reader

Spec == Init /\ [][Next]_kvars

(* The CPU takes a latched interrupt and keeps executing the reader.        *)
FairSpec == Spec /\ WF_kvars(HandleInterrupt) /\ WF_kvars(Reader)

-----------------------------------------------------------------------------
(* Properties.                                                              *)

Count(s, k) == Cardinality({i \in DOMAIN s : s[i] = k})

\* Where key k is now, counted with multiplicity.
Copies(k) ==
  Count(delivered, k) + Count(Contents(ring), k)
    + (IF k \in dropped THEN 1 ELSE 0)
    + (IF full /\ port = k THEN 1 ELSE 0)

\* Every key that decodes is delivered, buffered, still in the controller or
\* refused by a full buffer: the handler and the poll never lose one between
\* them, whichever of the two gets to the controller first.
NoKeyLost ==
  \A k \in 1 .. struck : Decodes(k) => Copies(k) >= 1

\* ... and there is one copy of it: a key is not read by both, except that a
\* stale IRQ makes the handler read the port once more, and only once.
NotCopied ==
  \A k \in 1 .. struck : Copies(k) <= IF stale THEN 2 ELSE 1

\* The buffer holds keys in the order they were struck, all of them older than
\* the one in the controller: whatever order the reader sees, the buffer alone
\* never reorders.
BufferInOrder ==
  LET c == Contents(ring) \o (IF full THEN << port >> ELSE << >>)
  IN  \A i, j \in DOMAIN c : i < j => c[i] < c[j]

\* A key in the buffer or in the controller reaches the reader: neither a hlt
\* that starts just after the key came in nor a lost IRQ blocks it for good.
KeysReachReader ==
  \A k \in 1 .. MaxKeys :
    (struck >= k /\ Decodes(k) /\ k \notin dropped) ~>
      (Count(delivered, k) > 0 \/ k \in dropped)

=============================================================================
