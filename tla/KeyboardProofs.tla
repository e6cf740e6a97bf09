-------------------------- MODULE KeyboardProofs ---------------------------
(***************************************************************************)
(* The ring of any size is a bounded FIFO queue, and the keyboard path     *)
(* around it loses, copies and reorders no key.                            *)
(*                                                                         *)
(* RingOK is inductive by itself.  Under it the contents, read through the *)
(* wrapping indices, change exactly as the abstract queue does, so every   *)
(* step of the ring is a step of KeyQueue.                                 *)
(*                                                                         *)
(* For the handler, the poll and the controller, KInv adds what the        *)
(* invariants of the runs lack to be inductive: the controller holds the   *)
(* last key struck, a latched interrupt means that this key is not in the  *)
(* buffer yet, and an interrupt without a byte behind it is a stale one,   *)
(* for which the key has been handed out once at most.                     *)
(***************************************************************************)
EXTENDS Keyboard, SequenceTheorems, FiniteSetTheorems, TLAPS

N == KEY_BUF_SIZE

Rings == [buf : [Index -> Byte], read : Index, write : Index, count : 0 .. N]

Good(r) == r \in Rings /\ r.write = (r.read + r.count) % N

\* A number below twice the modulus is reduced by at most one subtraction.
LEMMA ModOnce ==
  ASSUME NEW n \in Nat \ {0}, NEW a \in Nat, a < 2 * n
  PROVE  a % n = IF a < n THEN a ELSE a - n
<1>1. CASE a < n
  BY <1>1
<1>2. CASE ~(a < n)
  BY <1>2
<1> QED BY <1>1, <1>2

\* Advancing an index by one.
LEMMA ModSucc ==
  ASSUME NEW n \in Nat \ {0}, NEW a \in 0 .. n - 1
  PROVE  /\ (a + 1) % n \in 0 .. n - 1
         /\ (a + 1) % n = IF a + 1 < n THEN a + 1 ELSE 0
<1> DEFINE b == a + 1
<1>1. b \in Nat /\ b < 2 * n /\ b <= n
  OBVIOUS
<1>2. b % n = IF b < n THEN b ELSE b - n
  <2> HIDE DEF b
  <2> QED BY <1>1, ModOnce, Zenon
<1>3. (a + 1) % n = IF b < n THEN b ELSE 0
  BY <1>1, <1>2
<1> QED BY <1>3

\* The slot i places after a read index.
LEMMA SlotValue ==
  ASSUME NEW r \in Rings, NEW i \in 0 .. N
  PROVE  /\ (r.read + i) % N \in Index
         /\ (r.read + i) % N = IF r.read + i < N THEN r.read + i ELSE r.read + i - N
<1>1. N \in Nat \ {0} /\ r.read \in 0 .. N - 1
  BY KeyBufferAssumption DEF N, Rings, Index
<1>2. r.read + i \in Nat /\ r.read + i < 2 * N
  BY <1>1
<1>3. (r.read + i) % N = IF r.read + i < N THEN r.read + i ELSE r.read + i - N
  BY <1>1, <1>2, ModOnce
<1> QED BY <1>1, <1>3 DEF Index, N

\* The contents are a sequence of bytes, as long as the count.
LEMMA ContentsType ==
  ASSUME NEW r, Good(r)
  PROVE  /\ Contents(r) \in Seq(Byte)
         /\ Len(Contents(r)) = r.count
         /\ r.count \in Nat
         /\ \A i \in 1 .. r.count : Contents(r)[i] = r.buf[(r.read + i - 1) % N]
<1>1. r \in Rings /\ r.count \in 0 .. N /\ r.buf \in [Index -> Byte] /\ N \in Nat
  BY KeyBufferAssumption DEF Good, Rings, N
<1>2. ASSUME NEW i \in 1 .. r.count PROVE r.buf[(r.read + i - 1) % N] \in Byte
  <2>1. i - 1 \in 0 .. N /\ r.read + i - 1 = r.read + (i - 1)
    BY <1>1, KeyBufferAssumption DEF Rings, Index, N
  <2>2. (r.read + (i - 1)) % N \in Index
    BY <1>1, <2>1, SlotValue
  <2> QED BY <1>1, <2>1, <2>2
<1>3. Contents(r) = [i \in 1 .. r.count |-> r.buf[(r.read + i - 1) % N]]
  BY DEF Contents, N
<1>4. r.count \in Nat
  BY <1>1
<1>5. Contents(r) \in [1 .. r.count -> Byte]
  BY <1>2, <1>3
<1>6. Contents(r) \in Seq(Byte) /\ Len(Contents(r)) = r.count
  BY <1>4, <1>5
<1>7. \A i \in 1 .. r.count : Contents(r)[i] = r.buf[(r.read + i - 1) % N]
  BY <1>3
<1> QED BY <1>4, <1>6, <1>7

\* push appends to the contents, or leaves a full ring alone.
LEMMA PushContents ==
  ASSUME NEW r, Good(r), NEW b \in Byte
  PROVE  /\ Good(Push(r, b))
         /\ Contents(Push(r, b)) =
              IF r.count < N THEN Append(Contents(r), b) ELSE Contents(r)
<1> USE KeyBufferAssumption DEF N
<1>1. CASE ~(r.count < N)
  BY <1>1 DEF Push
<1>2. CASE r.count < N
  <2> DEFINE p == Push(r, b)
             w == r.write
  <2>1. /\ r \in Rings /\ r.count \in 0 .. N - 1 /\ r.read \in 0 .. N - 1
        /\ w \in 0 .. N - 1 /\ w \in Index /\ r.buf \in [Index -> Byte]
    BY <1>2 DEF Good, Rings, Index
  <2>2. p = [r EXCEPT !.buf[w] = b, !.write = (w + 1) % N, !.count = r.count + 1]
    BY <1>2 DEF Push
  <2>3. /\ p.buf = [r.buf EXCEPT ![w] = b]
        /\ p.read = r.read
        /\ p.write = (w + 1) % N
        /\ p.count = r.count + 1
    BY <2>1, <2>2 DEF Rings
  <2>4. w = IF r.read + r.count < N THEN r.read + r.count ELSE r.read + r.count - N
    BY <2>1, SlotValue, SMTT(60) DEF Good
  <2>5. /\ (w + 1) % N \in 0 .. N - 1
        /\ (w + 1) % N = IF w + 1 < N THEN w + 1 ELSE 0
    BY <2>1, ModSucc
  <2>6. p \in Rings
    <3>1. (w + 1) % N \in Index /\ r.count + 1 \in 0 .. N
      BY <2>1, <2>5, SMTT(30) DEF Index
    <3>2. [r.buf EXCEPT ![w] = b] \in [Index -> Byte]
      BY <2>1
    <3> QED BY <2>1, <2>2, <3>1, <3>2, Zenon DEF Rings
  <2> HIDE DEF p
  <2>7. Good(p)
    <3>1. r.count + 1 \in 0 .. N
      BY <2>1
    <3>2. (r.read + (r.count + 1)) % N =
            IF r.read + (r.count + 1) < N THEN r.read + (r.count + 1)
                                          ELSE r.read + (r.count + 1) - N
      BY <2>1, <3>1, SlotValue, SMTT(30)
    <3> QED BY <2>1, <2>3, <2>4, <2>5, <2>6, <3>2 DEF Good
  <2>8. ASSUME NEW i \in 1 .. r.count
        PROVE  Contents(p)[i] = Contents(r)[i]
    <3> DEFINE s == (r.read + i - 1) % N
    <3>1. i - 1 \in 0 .. N /\ r.read + i - 1 = r.read + (i - 1)
      BY <2>1
    <3>2. s \in Index /\ s = IF r.read + (i - 1) < N THEN r.read + (i - 1)
                                                    ELSE r.read + (i - 1) - N
      BY <2>1, <3>1, SlotValue
    <3>3. s # w
      BY <2>1, <2>4, <3>2
    <3>4. i \in 1 .. p.count /\ p.count \in Nat
      BY <2>1, <2>3
    <3>5. Contents(p)[i] = p.buf[s] /\ Contents(r)[i] = r.buf[s]
      <4>1. Contents(p)[i] = p.buf[(p.read + i - 1) % N]
        BY <2>7, <3>4, ContentsType
      <4>2. Contents(r)[i] = r.buf[(r.read + i - 1) % N]
        BY ContentsType
      <4> QED BY <2>3, <4>1, <4>2
    <3> HIDE DEF s
    <3> QED BY <2>1, <2>3, <3>2, <3>3, <3>5
  <2>9. Contents(p)[r.count + 1] = b
    <3>1. r.count + 1 \in 1 .. p.count /\ r.read + (r.count + 1) - 1 = r.read + r.count
      BY <2>1, <2>3
    <3>2. Contents(p)[r.count + 1] = p.buf[(p.read + (r.count + 1) - 1) % N]
      BY <2>7, <3>1, ContentsType
    <3>3. (r.read + r.count) % N = w
      BY DEF Good
    <3> QED BY <2>1, <2>3, <3>1, <3>2, <3>3
  <2>10. Contents(p) = Append(Contents(r), b)
    <3>1. /\ Contents(r) \in Seq(Byte) /\ Len(Contents(r)) = r.count
          /\ Contents(p) \in Seq(Byte) /\ Len(Contents(p)) = r.count + 1
      BY <2>3, <2>7, ContentsType
    <3>2. /\ Append(Contents(r), b) \in Seq(Byte)
          /\ Len(Append(Contents(r), b)) = r.count + 1
          /\ \A i \in 1 .. r.count : Append(Contents(r), b)[i] = Contents(r)[i]
          /\ Append(Contents(r), b)[r.count + 1] = b
      BY <3>1, AppendProperties
    <3>3. \A i \in 1 .. r.count + 1 : Contents(p)[i] = Append(Contents(r), b)[i]
      BY <2>1, <2>8, <2>9, <3>2
    <3> QED BY <3>1, <3>2, <3>3, SeqEqual, Zenon
  <2> QED BY <1>2, <2>7, <2>10 DEF p
<1> QED BY <1>1, <1>2

\* pop takes the head of the contents off.
LEMMA PopContents ==
  ASSUME NEW r, Good(r)
  PROVE  /\ Good(AfterPop(r))
         /\ r.count = 0 => AfterPop(r) = r /\ Contents(r) = << >>
         /\ r.count # 0 => /\ Contents(r) # << >>
                           /\ r.buf[r.read] = Head(Contents(r))
                           /\ Contents(AfterPop(r)) = Tail(Contents(r))
<1> USE KeyBufferAssumption DEF N
<1>1. CASE r.count = 0
  <2>1. Contents(r) \in Seq(Byte) /\ Len(Contents(r)) = 0
    BY <1>1, ContentsType
  <2> QED BY <1>1, <2>1, EmptySeq DEF AfterPop
<1>2. CASE r.count # 0
  <2> DEFINE p == AfterPop(r)
             c == Contents(r)
             d == Contents(p)
  <2>1. /\ r \in Rings /\ r.count \in 1 .. N /\ r.read \in 0 .. N - 1
        /\ r.write \in Index /\ r.buf \in [Index -> Byte]
    BY <1>2 DEF Good, Rings, Index
  <2>2. p = [r EXCEPT !.read = (r.read + 1) % N, !.count = r.count - 1]
    BY <1>2 DEF AfterPop
  <2>3. /\ p.buf = r.buf /\ p.read = (r.read + 1) % N
        /\ p.write = r.write /\ p.count = r.count - 1
    BY <2>1, <2>2 DEF Rings
  <2>4. /\ (r.read + 1) % N \in 0 .. N - 1
        /\ (r.read + 1) % N = IF r.read + 1 < N THEN r.read + 1 ELSE 0
    BY <2>1, ModSucc
  <2>5. p \in Rings
    <3>1. (r.read + 1) % N \in Index /\ r.count - 1 \in 0 .. N
      BY <2>1, <2>4 DEF Index
    <3> QED BY <2>1, <2>2, <3>1, Zenon DEF Rings
  <2> HIDE DEF p
  <2>6. ASSUME NEW i \in 0 .. r.count - 1
        PROVE  (p.read + i) % N = (r.read + (i + 1)) % N
    <3>1. i \in 0 .. N /\ i + 1 \in 0 .. N
      BY <2>1
    <3>2. (p.read + i) % N = IF p.read + i < N THEN p.read + i ELSE p.read + i - N
      BY <2>5, <3>1, SlotValue
    <3>3. (r.read + (i + 1)) % N = IF r.read + (i + 1) < N THEN r.read + (i + 1)
                                                          ELSE r.read + (i + 1) - N
      BY <2>1, <3>1, SlotValue
    <3>4. r.read \in Int /\ N \in Int /\ i \in Int /\ i < N /\ i >= 0
      BY <2>1
    <3>5. CASE r.read + 1 < N
      <4>1. p.read = r.read + 1
        BY <2>3, <2>4, <3>5
      <4> QED BY <3>2, <3>3, <3>4, <4>1
    <3>6. CASE ~(r.read + 1 < N)
      <4>1. p.read = 0 /\ r.read + 1 = N
        BY <2>1, <2>3, <2>4, <3>6
      <4>2. (p.read + i) % N = i
        BY <3>2, <3>4, <4>1
      <4>3. (r.read + (i + 1)) % N = r.read + (i + 1) - N
        BY <3>3, <3>4, <4>1
      <4> QED BY <3>4, <4>1, <4>2, <4>3
    <3> QED BY <3>5, <3>6
  <2>7. Good(p)
    <3>1. r.count - 1 \in 0 .. r.count - 1 /\ (r.count - 1) + 1 = r.count
      BY <2>1
    <3>2. (p.read + (r.count - 1)) % N = (r.read + r.count) % N
      BY <2>6, <3>1
    <3> QED BY <2>3, <2>5, <3>2 DEF Good
  <2>8. /\ c \in Seq(Byte) /\ Len(c) = r.count
        /\ d \in Seq(Byte) /\ Len(d) = r.count - 1
    BY <2>3, <2>7, ContentsType
  <2>9. c # << >> /\ c[1] = r.buf[r.read]
    <3>1. 1 \in 1 .. r.count /\ r.read + 1 - 1 = r.read
      BY <2>1
    <3>2. c[1] = r.buf[(r.read + 1 - 1) % N]
      BY <3>1, ContentsType
    <3>3. r.read % N = r.read
      BY <2>1, ModOnce
    <3>4. c # << >>
      BY <2>1, <2>8, EmptySeq
    <3> QED BY <3>1, <3>2, <3>3, <3>4
  <2>10. ASSUME NEW i \in 1 .. r.count - 1
         PROVE  d[i] = c[i + 1]
    <3>1. d[i] = p.buf[(p.read + i - 1) % N]
      BY <2>3, <2>7, ContentsType, SMTT(30)
    <3>2. i + 1 \in 1 .. r.count /\ i - 1 \in 0 .. r.count - 1 /\ (i - 1) + 1 = i
      BY <2>1
    <3>3. c[i + 1] = r.buf[(r.read + (i + 1) - 1) % N]
      BY <3>2, ContentsType
    <3>4. (p.read + (i - 1)) % N = (r.read + i) % N
      BY <2>6, <3>2
    <3>5. p.read + i - 1 = p.read + (i - 1) /\ r.read + (i + 1) - 1 = r.read + i
      BY <2>1, <2>3, <2>4
    <3> QED BY <2>3, <3>1, <3>3, <3>4, <3>5
  <2> HIDE DEF c, d
  <2>11. /\ Head(c) = c[1]
         /\ Tail(c) \in Seq(Byte)
         /\ Len(Tail(c)) = r.count - 1
         /\ \A i \in 1 .. r.count - 1 : Tail(c)[i] = c[i + 1]
    BY <2>8, <2>9, HeadTailProperties
  <2>12. d = Tail(c)
    BY <2>8, <2>10, <2>11, SeqEqual
  <2> QED BY <1>2, <2>7, <2>9, <2>11, <2>12 DEF c, d, p
<1> QED BY <1>1, <1>2

-----------------------------------------------------------------------------
(* The theorems.                                                            *)

\* RingOK is the predicate the lemmas on push and pop preserve.
LEMMA RingOKIsGood == RingOK <=> Good(ring)
BY DEF RingOK, Good, Rings, N

\* The empty ring has its indices in place.
LEMMA RingInitGood == RingInit => RingOK
<1> SUFFICES ASSUME RingInit PROVE RingOK
  OBVIOUS
<1> USE KeyBufferAssumption
<1>1. (0 + 0) % KEY_BUF_SIZE = 0
  OBVIOUS
<1> QED BY <1>1 DEF RingInit, NewRing, RingOK, Index

\* push and pop keep the indices in place.
LEMMA RingStepGood ==
  ASSUME RingOK, [RingNext]_<<ring, popped>>
  PROVE  RingOK'
<1>1. Good(ring)
  BY RingOKIsGood
<1>2. Good(ring')
  <2>1. ASSUME NEW b \in Byte, PushStep(b) PROVE Good(ring')
    BY <1>1, <2>1, PushContents DEF PushStep
  <2>2. CASE PopStep
    BY <1>1, <2>2, PopContents DEF PopStep
  <2>3. CASE UNCHANGED <<ring, popped>>
    BY <1>1, <2>3
  <2> QED BY <2>1, <2>2, <2>3 DEF RingNext
<1> QED BY <1>2 DEF RingOK, Good, Rings, N

\* The indices of the ring of any size stay in bounds and count slots apart.
THEOREM RingInBounds == RingSpec => []RingOK
BY RingInitGood, RingStepGood, PTL DEF RingSpec

\* push and pop on the ring are enqueue and dequeue on its contents.
LEMMA RingStepRefines ==
  ASSUME RingOK, [RingNext]_<<ring, popped>>
  PROVE  [Queue!QueueNext]_<<Contents(ring), popped>>
<1> USE DEF N
<1>1. Good(ring)
  BY RingOKIsGood
<1>2. ASSUME NEW b \in Byte, PushStep(b) PROVE Queue!Put(b)
  <2>1. Contents(Push(ring, b)) =
          IF ring.count < N THEN Append(Contents(ring), b) ELSE Contents(ring)
    BY <1>1, PushContents
  <2>2. Len(Contents(ring)) = ring.count
    BY <1>1, ContentsType
  <2>3. ring' = Push(ring, b) /\ popped' = popped
    BY <1>2 DEF PushStep
  <2>4. Contents(ring)' = Contents(Push(ring, b))
    BY <2>3 DEF Contents
  <2> QED BY <2>1, <2>2, <2>3, <2>4 DEF Queue!Put
<1>3. CASE PopStep
  <2>1. ring' = AfterPop(ring) /\ popped' = PopValue(ring)
    BY <1>3 DEF PopStep
  <2>2. Contents(ring)' = Contents(AfterPop(ring))
    BY <2>1 DEF Contents
  <2>3. CASE ring.count = 0
    BY <1>1, <2>1, <2>2, <2>3, PopContents DEF Queue!QueueNext, Queue!Take, PopValue
  <2>4. CASE ring.count # 0
    BY <1>1, <2>1, <2>2, <2>4, PopContents DEF Queue!QueueNext, Queue!Take, PopValue
  <2> QED BY <2>3, <2>4
<1>4. CASE UNCHANGED <<ring, popped>>
  BY <1>4 DEF Contents
<1> QED BY <1>2, <1>3, <1>4 DEF RingNext, Queue!QueueNext

\* KeyBuffer::push and pop implement a bounded FIFO queue, for every buffer size.
THEOREM RingIsQueue == RingSpec => ImplementsQueue
<1>1. RingInit => Queue!QueueInit
  <2> SUFFICES ASSUME RingInit PROVE Queue!QueueInit
    OBVIOUS
  <2>1. Good(ring) /\ ring.count = 0
    BY RingInitGood, RingOKIsGood DEF RingInit, NewRing
  <2>2. Contents(ring) = << >>
    BY <2>1, PopContents
  <2> QED BY <2>2 DEF RingInit, Queue!QueueInit
<1>2. RingOK /\ [RingNext]_<<ring, popped>>
        => [Queue!QueueNext]_<<Contents(ring), popped>>
  BY RingStepRefines
<1> QED BY <1>1, <1>2, RingInBounds, PTL DEF RingSpec, ImplementsQueue, Queue!QueueSpec

-----------------------------------------------------------------------------
(* How often a value occurs in a sequence.                                  *)

\* The places of s that hold k.
Places(s, k) == {i \in DOMAIN s : s[i] = k}

\* They are finitely many, so Count is a number.
LEMMA CountType ==
  ASSUME NEW S, NEW s \in Seq(S), NEW k
  PROVE  /\ IsFiniteSet(Places(s, k))
         /\ Count(s, k) = Cardinality(Places(s, k))
         /\ Count(s, k) \in Nat
<1>1. DOMAIN s = 1 .. Len(s) /\ Len(s) \in Int
  BY LenProperties
<1>2. IsFiniteSet(1 .. Len(s))
  BY <1>1, FS_Interval
<1>3. IsFiniteSet(Places(s, k))
  BY <1>1, <1>2, FS_Subset DEF Places
<1>4. Count(s, k) = Cardinality(Places(s, k))
  BY DEF Count, Places
<1> QED BY <1>3, <1>4, FS_CardinalityType

\* A value that occurs nowhere is counted 0 times; one that occurs, at least once.
LEMMA CountZero ==
  ASSUME NEW S, NEW s \in Seq(S), NEW k
  PROVE  Count(s, k) = 0 <=> \A i \in DOMAIN s : s[i] # k
<1>1. Count(s, k) = 0 <=> Places(s, k) = {}
  BY CountType, FS_EmptySet
<1> QED BY <1>1 DEF Places

\* Appending adds one occurrence of what is appended.
LEMMA CountAppend ==
  ASSUME NEW S, NEW s \in Seq(S), NEW b \in S, NEW k
  PROVE  Count(Append(s, b), k) = Count(s, k) + (IF b = k THEN 1 ELSE 0)
<1> DEFINE n == Len(s) + 1
           u == Append(s, b)
           P == Places(s, k)
           Q == Places(u, k)
<1>1. DOMAIN s = 1 .. Len(s) /\ Len(s) \in Nat
  BY LenProperties
<1>2. /\ u \in Seq(S) /\ Len(u) = n
      /\ \A i \in 1 .. Len(s) : u[i] = s[i]
      /\ u[n] = b
  BY AppendProperties
<1>3. DOMAIN u = 1 .. n
  BY <1>2, LenProperties
<1> HIDE DEF u
<1>4. IsFiniteSet(P) /\ Cardinality(P) \in Nat
  BY CountType
<1>5. n \notin P
  BY <1>1 DEF Places
<1>6. Q = IF b = k THEN P \cup {n} ELSE P
  BY <1>1, <1>2, <1>3 DEF Places
<1>7. Cardinality(P \cup {n}) = Cardinality(P) + 1
  BY <1>4, <1>5, FS_AddElement, Zenon
<1>8. Cardinality(Q) = Cardinality(P) + (IF b = k THEN 1 ELSE 0)
  BY <1>4, <1>6, <1>7
<1>9. Count(u, k) = Cardinality(Q) /\ Count(s, k) = Cardinality(P)
  BY <1>2, CountType
<1> QED BY <1>8, <1>9 DEF u

\* Taking the head off removes one occurrence of it.
LEMMA CountTail ==
  ASSUME NEW S, NEW s \in Seq(S), s # << >>, NEW k
  PROVE  Count(s, k) = Count(Tail(s), k) + (IF Head(s) = k THEN 1 ELSE 0)
<1> DEFINE u == Tail(s)
           P == Places(s, k)
           Q == Places(u, k)
           R == P \ {1}
           f == [i \in Q |-> i + 1]
<1>1. DOMAIN s = 1 .. Len(s) /\ Len(s) \in Nat
  BY LenProperties
<1>2. /\ u \in Seq(S) /\ Len(u) = Len(s) - 1
      /\ \A i \in 1 .. Len(u) : u[i] = s[i + 1]
      /\ Head(s) = s[1]
  BY HeadTailProperties
<1>3. DOMAIN u = 1 .. Len(u) /\ Len(u) \in Nat /\ Len(s) >= 1
  BY <1>1, <1>2, LenProperties
<1> HIDE DEF u
<1>4. /\ IsFiniteSet(P) /\ Cardinality(P) \in Nat
      /\ IsFiniteSet(Q) /\ Cardinality(Q) \in Nat
      /\ Count(s, k) = Cardinality(P) /\ Count(u, k) = Cardinality(Q)
  BY <1>2, CountType
<1>5. f \in [Q -> R]
  <2> SUFFICES ASSUME NEW i \in Q PROVE i + 1 \in R
    OBVIOUS
  <2>1. i \in 1 .. Len(u) /\ u[i] = k
    BY <1>3 DEF Places
  <2>2. i + 1 \in 1 .. Len(s) /\ s[i + 1] = k /\ i + 1 # 1
    BY <1>1, <1>2, <1>3, <2>1
  <2> QED BY <1>1, <2>2 DEF Places
<1>6. ASSUME NEW i \in Q, NEW j \in Q, f[i] = f[j] PROVE i = j
  <2>1. i \in 1 .. Len(u) /\ j \in 1 .. Len(u)
    BY <1>3 DEF Places
  <2>2. i + 1 = j + 1
    BY <1>6
  <2> QED BY <1>3, <2>1, <2>2
<1>7. ASSUME NEW j \in R PROVE \E i \in Q : f[i] = j
  <2>1. j \in 1 .. Len(s) /\ s[j] = k /\ j # 1
    BY <1>1 DEF Places
  <2>2. j - 1 \in 1 .. Len(u) /\ (j - 1) + 1 = j
    BY <1>1, <1>2, <2>1
  <2>3. u[j - 1] = k
    BY <1>2, <2>1, <2>2
  <2>4. j - 1 \in Q
    BY <1>3, <2>2, <2>3 DEF Places
  <2> QED BY <2>2, <2>4
<1> HIDE DEF f, Q, P
<1>8. f \in Bijection(Q, R)
  BY <1>5, <1>6, <1>7 DEF Bijection, Injection, Surjection, IsInjective
<1>9. Cardinality(R) = Cardinality(Q)
  BY <1>4, <1>8, FS_Bijection DEF ExistsBijection
<1>10. Cardinality(R) = IF 1 \in P THEN Cardinality(P) - 1 ELSE Cardinality(P)
  BY <1>4, FS_RemoveElement, Zenon
<1>11. 1 \in P <=> Head(s) = k
  BY <1>1, <1>2, <1>3 DEF P, Places
<1>12. Cardinality(P) = Cardinality(Q) + (IF Head(s) = k THEN 1 ELSE 0)
  BY <1>4, <1>9, <1>10, <1>11
<1> QED BY <1>4, <1>12 DEF u

-----------------------------------------------------------------------------
(* The controller, the handler and the reader.                              *)

\* Copies of key k outside the controller.
Held(d, r, x, k) ==
  Count(d, k) + Count(Contents(r), k) + (IF k \in x THEN 1 ELSE 0)

\* The controller holds the last key struck, with its interrupt latched; an
\* interrupt without a byte behind it is a stale one.
ControllerOK ==
  /\ struck \in 0 .. MaxKeys /\ port = struck
  /\ full \in BOOLEAN /\ irq \in BOOLEAN /\ stale \in BOOLEAN
  /\ reader \in {"try", "poll", "hlt"}
  /\ delivered \in Seq(Byte) /\ dropped \subseteq Byte
  /\ full => irq
  /\ irq => struck > 0
  /\ irq /\ ~full => stale

\* Contents in the order struck, all older than a key whose interrupt is latched.
Ordered(r) ==
  /\ \A i \in 1 .. r.count : Contents(r)[i] \in 0 .. struck
  /\ irq => \A i \in 1 .. r.count : Contents(r)[i] < struck
  /\ \A i, j \in 1 .. r.count : i < j => Contents(r)[i] < Contents(r)[j]

\* h counts the copies of each key outside the controller.  No key is anywhere
\* before it is struck; the last one, n, is nowhere but in the controller while
\* its byte is there, and at most once while its interrupt is latched.  With the
\* copy in the controller, every key that decodes is there, and not too often.
CountsOK(h, n, fu, iq, st) ==
  /\ \A k \in Nat : k > n => h[k] = 0
  /\ iq => h[n] <= IF fu THEN 0 ELSE 1
  /\ \A k \in 1 .. n : Decodes(k) => h[k] + (IF fu /\ n = k THEN 1 ELSE 0) >= 1
  /\ \A k \in 1 .. n : h[k] + (IF fu /\ n = k THEN 1 ELSE 0) <= IF st THEN 2 ELSE 1

HeldCounts(d, r, x) == [k \in Nat |-> Held(d, r, x, k)]

Counted == CountsOK(HeldCounts(delivered, ring, dropped), struck, full, irq, stale)

KInv == RingOK /\ ControllerOK /\ Ordered(ring) /\ Counted

\* Counts are numbers.
LEMMA HeldType ==
  ASSUME NEW d \in Seq(Byte), NEW r, Good(r), NEW x, NEW k \in Nat
  PROVE  /\ Held(d, r, x, k) \in Nat
         /\ Count(d, k) \in Nat
         /\ Count(Contents(r), k) \in Nat
<1>1. Contents(r) \in Seq(Byte)
  BY ContentsType
<1>2. Count(d, k) \in Nat /\ Count(Contents(r), k) \in Nat
  BY <1>1, CountType
<1> QED BY <1>2 DEF Held

\* The counts of a state are a function to the naturals.
LEMMA HeldCountsType ==
  ASSUME NEW d \in Seq(Byte), NEW r, Good(r), NEW x
  PROVE  /\ HeldCounts(d, r, x) \in [Nat -> Nat]
         /\ \A k \in Nat : HeldCounts(d, r, x)[k] = Held(d, r, x, k)
BY HeldType DEF HeldCounts

\* A key is struck while the controller is empty.
LEMMA CountsStrike ==
  ASSUME NEW h \in [Nat -> Nat], NEW n \in Nat, NEW iq \in BOOLEAN,
         NEW st \in BOOLEAN, CountsOK(h, n, FALSE, iq, st)
  PROVE  CountsOK(h, n + 1, TRUE, TRUE, st)
<1>1. h[n + 1] = 0
  BY DEF CountsOK
<1> QED BY <1>1 DEF CountsOK

\* The handler stores the byte of the port, or drops it.
LEMMA CountsHandle ==
  ASSUME NEW h \in [Nat -> Nat], NEW g \in [Nat -> Nat], NEW n \in Nat \ {0},
         NEW fu \in BOOLEAN, NEW st \in BOOLEAN, fu \/ st,
         CountsOK(h, n, fu, TRUE, st),
         \A k \in Nat : k # n => g[k] = h[k],
         h[n] <= g[n], g[n] <= h[n] + 1, Decodes(n) => g[n] >= 1
  PROVE  CountsOK(g, n, FALSE, FALSE, st)
<1>1. h[n] \in Nat /\ g[n] \in Nat
  OBVIOUS
<1>2. g[n] <= IF st THEN 2 ELSE 1
  BY <1>1 DEF CountsOK
<1>3. ASSUME NEW k \in 1 .. n, k # n
      PROVE  g[k] = h[k] /\ h[k] \in Nat
  BY <1>3
<1> QED BY <1>1, <1>2, <1>3 DEF CountsOK

\* The poll takes the byte out of a full controller.
LEMMA CountsPoll ==
  ASSUME NEW h \in [Nat -> Nat], NEW g \in [Nat -> Nat], NEW n \in Nat \ {0},
         NEW st \in BOOLEAN, CountsOK(h, n, TRUE, TRUE, st),
         \A k \in Nat : g[k] = h[k] + (IF k = n /\ Decodes(n) THEN 1 ELSE 0)
  PROVE  CountsOK(g, n, FALSE, st, st)
<1>1. h[n] = 0
  BY DEF CountsOK
<1>2. g[n] = IF Decodes(n) THEN 1 ELSE 0
  BY <1>1
<1>3. ASSUME NEW k \in Nat, k # n
      PROVE  g[k] = h[k] /\ h[k] \in Nat
  BY <1>3
<1> QED BY <1>1, <1>2, <1>3 DEF CountsOK

\* The facts the invariants of the runs take from KInv.
LEMMA CountedIs ==
  ASSUME RingOK, ControllerOK
  PROVE  Counted => NoKeyLost /\ NotCopied
<1> SUFFICES ASSUME Counted PROVE NoKeyLost /\ NotCopied
  OBVIOUS
<1> DEFINE h == HeldCounts(delivered, ring, dropped)
<1>1. Good(ring) /\ delivered \in Seq(Byte) /\ struck \in Nat /\ port = struck
  BY RingOKIsGood, KeyboardAssumption DEF ControllerOK
<1>2. h \in [Nat -> Nat] /\ \A k \in Nat : h[k] = Held(delivered, ring, dropped, k)
  BY <1>1, HeldCountsType
<1>3. ASSUME NEW k \in 1 .. struck
      PROVE  Copies(k) = h[k] + (IF full /\ struck = k THEN 1 ELSE 0)
  <2>1. k \in Nat /\ h[k] = Held(delivered, ring, dropped, k)
    BY <1>1, <1>2
  <2>2. Count(delivered, k) \in Nat /\ Count(Contents(ring), k) \in Nat
    BY <1>1, <2>1, HeldType
  <2> QED BY <1>1, <2>1, <2>2 DEF Copies, Held
<1>4. CountsOK(h, struck, full, irq, stale)
  BY DEF Counted
<1> HIDE DEF h
<1>5. NoKeyLost
  BY <1>3, <1>4 DEF CountsOK, NoKeyLost
<1>6. NotCopied
  BY <1>3, <1>4 DEF CountsOK, NotCopied
<1> QED BY <1>5, <1>6

\* The buffer and the byte in the controller are in the order struck.
LEMMA OrderedIs ==
  ASSUME RingOK, ControllerOK, Ordered(ring)
  PROVE  BufferInOrder
<1> DEFINE c == Contents(ring)
           m == ring.count
           e == c \o (IF full THEN << port >> ELSE << >>)
<1>1. c \in Seq(Byte) /\ Len(c) = m /\ m \in Nat
  BY RingOKIsGood, ContentsType
<1>2. port = struck /\ struck \in Nat /\ full \in BOOLEAN /\ (full => irq) /\ port \in Byte
  BY KeyboardAssumption DEF ControllerOK
<1> HIDE DEF c
<1>3. CASE ~full
  <2>1. e = c
    BY <1>1, <1>3, ConcatEmptySeq
  <2>2. DOMAIN c = 1 .. m
    BY <1>1, LenProperties
  <2>3. \A i, j \in DOMAIN c : i < j => c[i] < c[j]
    BY <2>2 DEF Ordered, c
  <2> QED BY <2>1, <2>3 DEF BufferInOrder, c
<1>4. CASE full
  <2>1. /\ DOMAIN e = 1 .. m + 1
        /\ \A i \in 1 .. m : e[i] = c[i]
        /\ e[m + 1] = port
    <3>1. << port >> \in Seq(Byte) /\ Len(<< port >>) = 1 /\ << port >>[1] = port
      BY <1>2
    <3>2. e = c \o << port >>
      BY <1>4
    <3> HIDE DEF e
    <3> QED BY <1>1, <3>1, <3>2, ConcatProperties, LenProperties
  <2>2. \A i \in 1 .. m : c[i] \in Nat /\ c[i] < port
    BY <1>2, <1>4 DEF Ordered, c
  <2>3. \A i, j \in 1 .. m : i < j => c[i] < c[j]
    BY DEF Ordered, c
  <2> HIDE DEF e, m
  <2>4. ASSUME NEW i \in DOMAIN e, NEW j \in DOMAIN e, i < j PROVE e[i] < e[j]
    <3>1. i \in 1 .. m
      BY <1>1, <2>1, <2>4
    <3>2. CASE j = m + 1
      BY <2>1, <2>2, <3>1, <3>2
    <3>3. CASE j # m + 1
      <4>1. j \in 1 .. m
        BY <1>1, <2>1, <3>3
      <4> QED BY <2>1, <2>3, <2>4, <3>1, <4>1
    <3> QED BY <3>2, <3>3
  <2> QED BY <2>4 DEF BufferInOrder, e, c
<1> QED BY <1>2, <1>3, <1>4

\* A step that leaves the ring and the answer of pop alone.
LEMMA RingUnchanged ==
  ASSUME RingOK, UNCHANGED <<ring, popped>>
  PROVE  RingOK' /\ [RingNext]_<<ring, popped>>
BY DEF RingOK

\* Nothing is anywhere at the start.
LEMMA KeyboardInit == Init => KInv
<1> SUFFICES ASSUME Init PROVE KInv
  OBVIOUS
<1> USE KeyboardAssumption
<1>1. RingOK /\ Good(ring) /\ ring.count = 0
  BY RingInitGood, RingOKIsGood DEF Init, RingInit, NewRing
<1>2. ControllerOK
  <2>1. struck \in 0 .. MaxKeys /\ port = struck /\ delivered \in Seq(Byte)
    BY DEF Init
  <2>2. full = FALSE /\ irq = FALSE /\ stale \in BOOLEAN /\ reader = "try" /\ dropped = {}
    BY DEF Init
  <2> QED BY <2>1, <2>2, Zenon DEF ControllerOK
<1>3. Ordered(ring)
  BY <1>1 DEF Ordered
<1>4. Contents(ring) = << >>
  BY <1>1, PopContents
<1>5. \A k \in Nat : Held(delivered, ring, dropped, k) = 0
  <2> TAKE k \in Nat
  <2>1. << >> \in Seq(Byte) /\ DOMAIN << >> = {}
    OBVIOUS
  <2>2. Count(<< >>, k) = 0
    BY <2>1, CountZero, Zenon
  <2> QED BY <1>4, <2>2 DEF Init, Held
<1>6. Counted
  BY <1>5 DEF Counted, CountsOK, HeldCounts, Init
<1> QED BY <1>1, <1>2, <1>3, <1>6 DEF KInv

\* A key is struck.
LEMMA StrikeInv ==
  ASSUME KInv, Strike
  PROVE  KInv'
<1> USE KeyboardAssumption
<1>1. RingOK' /\ Good(ring)
  BY RingUnchanged, RingOKIsGood DEF KInv, Strike
<1>2. struck \in Nat /\ struck' = struck + 1 /\ struck' \in 0 .. MaxKeys
  BY DEF KInv, ControllerOK, Strike
<1>3. ControllerOK'
  BY <1>2 DEF KInv, ControllerOK, Strike
<1>4. Ordered(ring)'
  <2>1. ring' = ring
    BY DEF Strike
  <2>2. \A i \in 1 .. ring.count : Contents(ring)[i] \in 0 .. struck
    BY DEF KInv, Ordered
  <2>3. \A i \in 1 .. ring.count :
          Contents(ring)[i] \in 0 .. struck' /\ Contents(ring)[i] < struck'
    BY <1>2, <2>2
  <2> QED BY <2>1, <2>3 DEF KInv, Ordered
<1>5. Counted'
  <2> DEFINE h == HeldCounts(delivered, ring, dropped)
  <2>1. h' = h
    BY DEF HeldCounts, Held, Strike
  <2>2. h \in [Nat -> Nat]
    BY <1>1, HeldCountsType DEF KInv, ControllerOK
  <2>3. CountsOK(h, struck, FALSE, irq, stale) /\ irq \in BOOLEAN /\ stale \in BOOLEAN
    BY Zenon DEF KInv, Counted, ControllerOK, Strike
  <2>4. CountsOK(h, struck + 1, TRUE, TRUE, stale)
    BY <1>2, <2>2, <2>3, CountsStrike, Zenon
  <2>5. full' = TRUE /\ irq' = TRUE /\ stale' = stale
    BY DEF Strike
  <2> HIDE DEF h
  <2>6. CountsOK(h', struck', full', irq', stale')
    BY <1>2, <2>1, <2>4, <2>5, ZenonT(40)
  <2> QED BY <2>6 DEF Counted, h
<1> QED BY <1>1, <1>3, <1>4, <1>5 DEF KInv

\* One more byte in the ring, newer than those it holds.
LEMMA OrderedPush ==
  ASSUME NEW r, Good(r), NEW b \in Byte, NEW n \in Nat, b = n,
         \A i \in 1 .. r.count : Contents(r)[i] \in 0 .. n /\ Contents(r)[i] < n,
         \A i, j \in 1 .. r.count : i < j => Contents(r)[i] < Contents(r)[j]
  PROVE  LET p == Push(r, b)
         IN  /\ \A i \in 1 .. p.count : Contents(p)[i] \in 0 .. n
             /\ \A i, j \in 1 .. p.count : i < j => Contents(p)[i] < Contents(p)[j]
<1> DEFINE p == Push(r, b)
           c == Contents(r)
           d == Contents(p)
<1>1. /\ Good(p)
      /\ d = IF r.count < N THEN Append(c, b) ELSE c
  BY PushContents
<1>2. /\ c \in Seq(Byte) /\ Len(c) = r.count /\ r.count \in Nat
      /\ Len(d) = p.count
  BY <1>1, ContentsType
<1> HIDE DEF c, d, p
<1>3. CASE d = c
  BY <1>2, <1>3 DEF c, d, p
<1>4. CASE d = Append(c, b)
  <2>1. /\ p.count = r.count + 1
        /\ \A i \in 1 .. r.count : d[i] = c[i]
        /\ d[r.count + 1] = b
    BY <1>2, <1>4, AppendProperties
  <2>2. \A i \in 1 .. r.count : d[i] \in 0 .. n /\ d[i] < n
    BY <2>1 DEF c
  <2>3. \A i \in 1 .. p.count : d[i] \in 0 .. n
    BY <1>2, <2>1, <2>2
  <2>4. ASSUME NEW i \in 1 .. p.count, NEW j \in 1 .. p.count, i < j
        PROVE  d[i] < d[j]
    <3>1. i \in 1 .. r.count
      BY <1>2, <2>1, <2>4
    <3>2. CASE j = r.count + 1
      BY <2>1, <2>2, <3>1, <3>2
    <3>3. CASE j # r.count + 1
      <4>1. j \in 1 .. r.count
        BY <1>2, <2>1, <3>3
      <4> QED BY <2>1, <2>4, <3>1, <4>1 DEF c
    <3> QED BY <3>2, <3>3
  <2> QED BY <2>3, <2>4 DEF d, p
<1> QED BY <1>1, <1>3, <1>4

\* What push and the drop list together do to the counts.
LEMMA HeldPush ==
  ASSUME NEW d \in Seq(Byte), NEW r, Good(r), NEW x, NEW b \in Byte, NEW k \in Nat,
         NEW p, p = Push(r, b), NEW y, y = IF r.count = N THEN x \cup {b} ELSE x
  PROVE  /\ k # b => Held(d, p, y, k) = Held(d, r, x, k)
         /\ k = b => /\ Held(d, p, y, k) >= 1
                     /\ Held(d, r, x, k) <= Held(d, p, y, k)
                     /\ Held(d, p, y, k) <= Held(d, r, x, k) + 1
<1>1. /\ Good(p)
      /\ Contents(p) = IF r.count < N THEN Append(Contents(r), b) ELSE Contents(r)
  BY PushContents
<1>2. /\ Count(d, k) \in Nat /\ Count(Contents(r), k) \in Nat
      /\ Contents(r) \in Seq(Byte)
  BY HeldType, ContentsType, Zenon
<1>3. r.count \in Nat /\ N \in Nat /\ r.count <= N
  BY KeyBufferAssumption DEF Good, Rings, N
<1>4. CASE r.count < N
  <2>1. Count(Contents(p), k) = Count(Contents(r), k) + (IF b = k THEN 1 ELSE 0)
    BY <1>1, <1>2, <1>4, CountAppend
  <2>2. y = x
    BY <1>3, <1>4
  <2>3. /\ k # b => Held(d, p, y, k) = Held(d, r, x, k)
        /\ k = b => Held(d, p, y, k) = Held(d, r, x, k) + 1 /\ Held(d, r, x, k) \in Nat
    BY <1>2, <2>1, <2>2 DEF Held
  <2> QED BY <2>3
<1>5. CASE ~(r.count < N)
  <2>1. Contents(p) = Contents(r)
    BY <1>1, <1>5
  <2>2. y = x \cup {b}
    BY <1>3, <1>5
  <2>3. /\ k # b => Held(d, p, y, k) = Held(d, r, x, k)
        /\ k = b => /\ Held(d, p, y, k) >= 1
                    /\ Held(d, r, x, k) <= Held(d, p, y, k)
                    /\ Held(d, p, y, k) <= Held(d, r, x, k) + 1
    BY <1>2, <2>1, <2>2 DEF Held
  <2> QED BY <2>3
<1> QED BY <1>4, <1>5

\* IRQ 1 is taken.
LEMMA HandleInterruptInv ==
  ASSUME KInv, HandleInterrupt
  PROVE  KInv' /\ [RingNext]_<<ring, popped>>
<1> USE KeyboardAssumption
<1>1. Good(ring) /\ RingOK
  BY RingOKIsGood DEF KInv
<1>2. /\ struck \in 0 .. MaxKeys /\ port = struck /\ struck \in Nat \ {0} /\ port \in Byte
      /\ delivered \in Seq(Byte) /\ dropped \subseteq Byte
  BY DEF KInv, ControllerOK, HandleInterrupt
<1>3. full \in BOOLEAN /\ irq = TRUE /\ stale \in BOOLEAN /\ (full \/ stale)
  BY Zenon DEF KInv, ControllerOK, HandleInterrupt
<1>4. /\ irq' = FALSE /\ full' = FALSE /\ popped' = popped /\ struck' = struck
      /\ port' = port /\ reader' = reader /\ delivered' = delivered /\ stale' = stale
  BY DEF HandleInterrupt
<1>5. CASE ~Decodes(port)
  <2>1. ring' = ring /\ dropped' = dropped
    BY <1>5 DEF HandleInterrupt
  <2>2. RingOK' /\ [RingNext]_<<ring, popped>>
    BY <1>1, <1>4, <2>1, RingUnchanged
  <2>3. ControllerOK'
    BY <1>4, <2>1, Zenon DEF KInv, ControllerOK
  <2>4. Ordered(ring)'
    BY <1>4, <2>1 DEF KInv, Ordered
  <2>5. Counted'
    <3> DEFINE h == HeldCounts(delivered, ring, dropped)
    <3>1. h' = h
      BY <1>4, <2>1 DEF HeldCounts, Held
    <3>2. h \in [Nat -> Nat]
      BY <1>1, <1>2, HeldCountsType
    <3>3. CountsOK(h, struck, full, TRUE, stale)
      BY <1>3, Zenon DEF KInv, Counted
    <3> HIDE DEF h
    <3>4. ~Decodes(struck) /\ h[struck] \in Nat
      BY <1>2, <1>5, <3>2
    <3>5. h[struck] <= h[struck] /\ h[struck] <= h[struck] + 1
      BY <3>4
    <3>6. CountsOK(h, struck, FALSE, FALSE, stale)
      BY <1>2, <1>3, <3>2, <3>3, <3>4, <3>5, CountsHandle, ZenonT(40)
    <3>7. CountsOK(h', struck', full', irq', stale')
      BY <1>4, <3>1, <3>6, Zenon
    <3> QED BY <3>7 DEF Counted, h
  <2> QED BY <2>2, <2>3, <2>4, <2>5 DEF KInv
<1>6. CASE Decodes(port)
  <2>1. /\ ring' = Push(ring, port)
        /\ dropped' = IF ring.count = N THEN dropped \cup {port} ELSE dropped
    BY <1>6 DEF HandleInterrupt, N
  <2>2. [RingNext]_<<ring, popped>>
    BY <1>2, <1>4, <2>1 DEF RingNext, PushStep
  <2>3. RingOK'
    BY <1>1, <2>2, RingStepGood
  <2>4. ControllerOK'
    <3>1. dropped' \subseteq Byte
      BY <1>2, <2>1
    <3> QED BY <1>4, <3>1, Zenon DEF KInv, ControllerOK
  <2>5. Ordered(ring)'
    <3>1. /\ \A i \in 1 .. ring.count :
                 Contents(ring)[i] \in 0 .. struck /\ Contents(ring)[i] < struck
          /\ \A i, j \in 1 .. ring.count : i < j => Contents(ring)[i] < Contents(ring)[j]
      BY <1>3 DEF KInv, Ordered
    <3>2. PICK p : p = Push(ring, port)
      OBVIOUS
    <3>3. /\ \A i \in 1 .. p.count : Contents(p)[i] \in 0 .. struck
          /\ \A i, j \in 1 .. p.count : i < j => Contents(p)[i] < Contents(p)[j]
      BY <1>1, <1>2, <3>1, <3>2, OrderedPush, SMTT(30)
    <3>4. ring' = p
      BY <2>1, <3>2
    <3> QED BY <1>4, <3>3, <3>4 DEF Ordered
  <2>6. Counted'
    <3> DEFINE h == HeldCounts(delivered, ring, dropped)
               p == Push(ring, port)
               y == IF ring.count = N THEN dropped \cup {port} ELSE dropped
               g == HeldCounts(delivered, p, y)
    <3>1. Good(p)
      BY <1>1, <1>2, PushContents
    <3>2. /\ h \in [Nat -> Nat] /\ \A k \in Nat : h[k] = Held(delivered, ring, dropped, k)
          /\ g \in [Nat -> Nat] /\ \A k \in Nat : g[k] = Held(delivered, p, y, k)
      <4> HIDE DEF p, y
      <4> QED BY <1>1, <1>2, <3>1, HeldCountsType
    <3>3. CountsOK(h, struck, full, TRUE, stale)
      BY <1>3, Zenon DEF KInv, Counted
    <3>4. ASSUME NEW k \in Nat
          PROVE  /\ k # struck => g[k] = h[k]
                 /\ k = struck => g[k] >= 1 /\ h[k] <= g[k] /\ g[k] <= h[k] + 1
      <4>1. /\ k # port => Held(delivered, p, y, k) = Held(delivered, ring, dropped, k)
            /\ k = port => /\ Held(delivered, p, y, k) >= 1
                           /\ Held(delivered, ring, dropped, k) <= Held(delivered, p, y, k)
                           /\ Held(delivered, p, y, k) <= Held(delivered, ring, dropped, k) + 1
        <5>1. p = Push(ring, port) /\ y = IF ring.count = N THEN dropped \cup {port} ELSE dropped
          OBVIOUS
        <5> HIDE DEF p, y
        <5> QED BY <1>1, <1>2, <5>1, HeldPush
      <4> HIDE DEF h, g, p, y
      <4> QED BY <1>2, <3>2, <4>1, ZenonT(40)
    <3>5. HeldCounts(delivered, ring, dropped)' = g
      BY <1>4, <2>1 DEF HeldCounts, Held
    <3> HIDE DEF h, g
    <3>6. CountsOK(g, struck, FALSE, FALSE, stale)
      <4>1. \A k \in Nat : k # struck => g[k] = h[k]
        BY <3>4
      <4>2. /\ h[struck] <= g[struck] /\ g[struck] <= h[struck] + 1
            /\ Decodes(struck) => g[struck] >= 1
        BY <1>2, <3>4
      <4>3. h \in [Nat -> Nat] /\ g \in [Nat -> Nat] /\ struck \in Nat \ {0}
        BY <1>2, <3>2, Zenon
      <4> QED BY <1>3, <3>3, <4>1, <4>2, <4>3, CountsHandle, ZenonT(40)
    <3> QED BY <1>4, <3>5, <3>6, Zenon DEF Counted
  <2> QED BY <2>2, <2>3, <2>4, <2>5, <2>6 DEF KInv
<1> QED BY <1>5, <1>6

\* The head of the ring goes to the reader.
LEMMA TryReadCharInv ==
  ASSUME KInv, TryReadChar
  PROVE  KInv' /\ [RingNext]_<<ring, popped>>
<1> USE KeyboardAssumption
<1>1. Good(ring) /\ RingOK
  BY RingOKIsGood DEF KInv
<1>2. /\ struck \in 0 .. MaxKeys /\ port = struck /\ struck \in Nat
      /\ delivered \in Seq(Byte) /\ dropped \subseteq Byte
  BY DEF KInv, ControllerOK
<1>3. /\ irq' = irq /\ full' = full /\ struck' = struck
      /\ port' = port /\ dropped' = dropped /\ stale' = stale
      /\ reader' \in {"try", "poll", "hlt"}
      /\ ring' = AfterPop(ring) /\ popped' = PopValue(ring)
      /\ delivered' = delivered \o popped'
  BY DEF TryReadChar, PopStep
<1>4. [RingNext]_<<ring, popped>>
  BY DEF TryReadChar, RingNext
<1>5. RingOK' /\ Good(ring')
  <2>1. RingOK'
    BY <1>1, <1>4, RingStepGood
  <2> QED BY <1>1, <1>3, <2>1, PopContents, SMTT(30)
<1>6. CASE ring.count = 0
  <2>1. ring' = ring /\ popped' = << >>
    BY <1>1, <1>3, <1>6, PopContents DEF PopValue
  <2>2. delivered' = delivered
    BY <1>2, <1>3, <2>1, ConcatEmptySeq
  <2>3. ControllerOK'
    BY <1>3, <2>2, Zenon DEF KInv, ControllerOK
  <2>4. Ordered(ring)'
    BY <1>3, <2>1 DEF KInv, Ordered
  <2>5. HeldCounts(delivered, ring, dropped)' = HeldCounts(delivered, ring, dropped)
    BY <1>3, <2>1, <2>2 DEF HeldCounts, Held
  <2>6. Counted'
    BY <1>3, <2>5, SMTT(30) DEF KInv, Counted
  <2> QED BY <1>4, <1>5, <2>3, <2>4, <2>6 DEF KInv
<1>7. CASE ring.count # 0
  <2> DEFINE c == Contents(ring)
             b == ring.buf[ring.read]
  <2>1. PICK p : p = AfterPop(ring)
    OBVIOUS
  <2>2. /\ c \in Seq(Byte) /\ Len(c) = ring.count /\ ring.count \in Nat
        /\ c # << >> /\ b = Head(c) /\ Contents(p) = Tail(c) /\ Good(p)
    BY <1>1, <1>7, <2>1, PopContents, ContentsType
  <2>3. popped' = << b >> /\ ring' = p
    BY <1>3, <1>7, <2>1, SMTT(30) DEF PopValue
  <2> HIDE DEF b, c
  <2>4. /\ b \in Byte /\ Tail(c) \in Seq(Byte) /\ Len(Tail(c)) = ring.count - 1
        /\ \A i \in 1 .. ring.count - 1 : Tail(c)[i] = c[i + 1]
        /\ p.count = ring.count - 1
    BY <2>2, HeadTailProperties, ContentsType
  <2>5. delivered' = Append(delivered, b) /\ delivered' \in Seq(Byte)
    <3>1. delivered \o << b >> = Append(delivered, b)
      BY <1>2, <2>4, AppendIsConcat
    <3> QED BY <1>2, <1>3, <2>3, <2>4, <3>1, AppendProperties, SMTT(30)
  <2>6. ControllerOK'
    BY <1>3, <2>5, Zenon DEF KInv, ControllerOK
  <2>7. Ordered(ring)'
    <3>1. /\ \A i \in 1 .. ring.count : c[i] \in 0 .. struck
          /\ irq => \A i \in 1 .. ring.count : c[i] < struck
          /\ \A i, j \in 1 .. ring.count : i < j => c[i] < c[j]
      BY DEF KInv, Ordered, c
    <3>2. \A i \in 1 .. p.count : Contents(p)[i] = c[i + 1] /\ i + 1 \in 1 .. ring.count
      BY <2>2, <2>4
    <3>3. /\ \A i \in 1 .. p.count : Contents(p)[i] \in 0 .. struck
          /\ irq => \A i \in 1 .. p.count : Contents(p)[i] < struck
      BY <3>1, <3>2
    <3>4. ASSUME NEW i \in 1 .. p.count, NEW j \in 1 .. p.count, i < j
          PROVE  Contents(p)[i] < Contents(p)[j]
      <4>1. i + 1 < j + 1
        BY <2>2, <2>4, <3>4
      <4> QED BY <3>1, <3>2, <4>1
    <3> QED BY <1>3, <2>3, <3>3, <3>4, SMTT(30) DEF Ordered
  <2>8. Counted'
    <3>1. ASSUME NEW k \in Nat
          PROVE  Held(Append(delivered, b), p, dropped, k) = Held(delivered, ring, dropped, k)
      <4>1. Count(Append(delivered, b), k) = Count(delivered, k) + (IF b = k THEN 1 ELSE 0)
        BY <1>2, <2>4, CountAppend
      <4>2. Count(c, k) = Count(Contents(p), k) + (IF b = k THEN 1 ELSE 0)
        BY <2>2, CountTail
      <4>3. Count(delivered, k) \in Nat /\ Count(Contents(p), k) \in Nat /\ Count(c, k) \in Nat
        BY <1>2, <2>2, <2>4, CountType, ZenonT(40)
      <4> QED BY <4>1, <4>2, <4>3 DEF Held, c
    <3>2. HeldCounts(Append(delivered, b), p, dropped) = HeldCounts(delivered, ring, dropped)
      BY <3>1 DEF HeldCounts
    <3>3. HeldCounts(delivered, ring, dropped)' = HeldCounts(Append(delivered, b), p, dropped)
      BY <1>3, <2>3, <2>5, Zenon DEF HeldCounts, Held
    <3> QED BY <1>3, <3>2, <3>3 DEF KInv, Counted
  <2> QED BY <1>4, <1>5, <2>6, <2>7, <2>8 DEF KInv
<1> QED BY <1>6, <1>7

\* The reader looks at the controller itself.
LEMMA PollCharInv ==
  ASSUME KInv, PollChar
  PROVE  KInv'
<1> USE KeyboardAssumption
<1>1. Good(ring) /\ RingOK'
  BY RingOKIsGood, RingUnchanged DEF KInv, PollChar
<1>2. /\ struck \in 0 .. MaxKeys /\ port = struck /\ struck \in Nat /\ port \in Byte
      /\ delivered \in Seq(Byte) /\ dropped \subseteq Byte
  BY DEF KInv, ControllerOK
<1>3. /\ full' = FALSE /\ struck' = struck /\ ring' = ring
      /\ port' = port /\ dropped' = dropped /\ stale' = stale
      /\ reader' \in {"try", "poll", "hlt"}
  BY DEF PollChar
<1>4. CASE ~full
  <2>1. irq' = irq /\ delivered' = delivered /\ full = FALSE
    BY <1>4, Zenon DEF PollChar, KInv, ControllerOK
  <2>2. ControllerOK'
    BY <1>3, <2>1, Zenon DEF KInv, ControllerOK
  <2>3. Ordered(ring)'
    BY <1>3, <2>1 DEF KInv, Ordered
  <2>4. HeldCounts(delivered, ring, dropped)' = HeldCounts(delivered, ring, dropped)
    BY <1>3, <2>1 DEF HeldCounts, Held
  <2>5. Counted'
    BY <1>3, <2>1, <2>4, ZenonT(40) DEF KInv, Counted
  <2> QED BY <1>1, <2>2, <2>3, <2>5 DEF KInv
<1>5. CASE full
  <2>1. full = TRUE /\ irq = TRUE /\ stale \in BOOLEAN /\ irq' = stale
    BY <1>5, Zenon DEF PollChar, KInv, ControllerOK
  <2>2. struck \in Nat \ {0}
    BY <1>2, <2>1 DEF KInv, ControllerOK
  <2>3. PICK d : d = IF Decodes(port) THEN Append(delivered, port) ELSE delivered
    BY Zenon
  <2>4. delivered' = d /\ d \in Seq(Byte)
    BY <1>2, <1>5, <2>3, AppendProperties DEF PollChar
  <2>5. ControllerOK'
    BY <1>3, <2>1, <2>2, <2>4, ZenonT(40) DEF KInv, ControllerOK
  <2>6. Ordered(ring)'
    BY <1>3, <2>1 DEF KInv, Ordered
  <2>7. Counted'
    <3> DEFINE h == HeldCounts(delivered, ring, dropped)
               g == HeldCounts(d, ring, dropped)
    <3>1. /\ h \in [Nat -> Nat] /\ \A k \in Nat : h[k] = Held(delivered, ring, dropped, k)
          /\ g \in [Nat -> Nat] /\ \A k \in Nat : g[k] = Held(d, ring, dropped, k)
      BY <1>1, <1>2, <2>4, HeldCountsType, ZenonT(40)
    <3>2. ASSUME NEW k \in Nat
          PROVE  g[k] = h[k] + (IF k = struck /\ Decodes(struck) THEN 1 ELSE 0)
      <4>1. Count(delivered, k) \in Nat /\ Count(Contents(ring), k) \in Nat
        BY <1>1, <1>2, HeldType, SMTT(30)
      <4>2. Count(d, k) = Count(delivered, k) + (IF k = struck /\ Decodes(struck) THEN 1 ELSE 0)
        <5>1. Count(Append(delivered, port), k) = Count(delivered, k) + (IF port = k THEN 1 ELSE 0)
          BY <1>2, CountAppend
        <5> QED BY <1>2, <2>3, <4>1, <5>1
      <4>3. Held(d, ring, dropped, k) =
              Held(delivered, ring, dropped, k) + (IF k = struck /\ Decodes(struck) THEN 1 ELSE 0)
        BY <4>1, <4>2 DEF Held
      <4> HIDE DEF g, h
      <4> QED BY <3>1, <4>3
    <3>3. CountsOK(h, struck, TRUE, TRUE, stale)
      BY <2>1, Zenon DEF KInv, Counted
    <3>4. HeldCounts(delivered, ring, dropped)' = g
      BY <1>3, <2>4 DEF HeldCounts, Held
    <3> HIDE DEF g, h
    <3>5. h \in [Nat -> Nat] /\ g \in [Nat -> Nat]
      BY <3>1
    <3>6. CountsOK(g, struck, FALSE, stale, stale)
      BY <2>1, <2>2, <3>2, <3>3, <3>5, CountsPoll, ZenonT(40)
    <3> QED BY <1>3, <2>1, <3>4, <3>6, Zenon DEF Counted
  <2> QED BY <1>1, <2>5, <2>6, <2>7 DEF KInv
<1> QED BY <1>4, <1>5

\* The reader leaves hlt, or nothing happens.
LEMMA WakeInv ==
  ASSUME KInv, Wake \/ UNCHANGED kvars
  PROVE  KInv' /\ [RingNext]_<<ring, popped>>
<1>1. /\ UNCHANGED <<ring, popped, struck, port, full, irq, delivered, dropped, stale>>
      /\ reader' \in {"try", "poll", "hlt"}
  BY DEF Wake, kvars, KInv, ControllerOK
<1>2. RingOK' /\ [RingNext]_<<ring, popped>>
  BY <1>1, RingUnchanged DEF KInv
<1>3. ControllerOK'
  BY <1>1, Zenon DEF KInv, ControllerOK
<1>4. Ordered(ring)'
  BY <1>1 DEF KInv, Ordered
<1>5. HeldCounts(delivered, ring, dropped)' = HeldCounts(delivered, ring, dropped)
  BY <1>1 DEF HeldCounts, Held
<1>6. Counted'
  BY <1>1, <1>5 DEF KInv, Counted
<1> QED BY <1>2, <1>3, <1>4, <1>6 DEF KInv

\* Every step keeps the invariant, and is at most one push or pop of the ring.
LEMMA KeyboardStep ==
  ASSUME KInv, [Next]_kvars
  PROVE  KInv' /\ [RingNext]_<<ring, popped>>
<1>1. CASE Strike
  BY <1>1, StrikeInv DEF Strike
<1>2. CASE HandleInterrupt
  BY <1>2, HandleInterruptInv
<1>3. CASE TryReadChar
  BY <1>3, TryReadCharInv
<1>4. CASE PollChar
  BY <1>4, PollCharInv, Zenon DEF PollChar
<1>5. CASE Wake \/ UNCHANGED kvars
  BY <1>5, WakeInv
<1> QED BY <1>1, <1>2, <1>3, <1>4, <1>5, SMTT(30) DEF Next, Reader

\* The inductive invariant holds throughout.
LEMMA KeyboardInvariant == Spec => []KInv
BY KeyboardInit, KeyboardStep, PTL DEF Spec

\* The handler and the poll of the keyboard, interleaved in any order, drive the
\* ring only through push and pop, for every number of keys and buffer size.
THEOREM KeyboardDrivesRing == Spec => RingSpec
<1>1. Init => RingInit
  BY DEF Init
<1> QED BY <1>1, KeyboardStep, KeyboardInvariant, PTL DEF Spec, RingSpec

\* ... so the buffer between them is the bounded FIFO queue.
THEOREM KeyboardUsesQueue == Spec => []RingOK /\ ImplementsQueue
BY KeyboardDrivesRing, RingInBounds, RingIsQueue

\* Whichever of the handler and the poll gets to the controller first, a key
\* that decodes is delivered, buffered, in the controller or refused.
THEOREM NoKeyIsLost == Spec => []NoKeyLost
<1>1. KInv => NoKeyLost
  BY CountedIs DEF KInv
<1> QED BY <1>1, KeyboardInvariant, PTL

\* A key exists once, or twice where an interrupt stays latched after the poll.
THEOREM NoKeyIsCopied == Spec => []NotCopied
<1>1. KInv => NotCopied
  BY CountedIs DEF KInv
<1> QED BY <1>1, KeyboardInvariant, PTL

\* The buffer and the controller hold keys in the order they were struck.
THEOREM BufferKeepsOrder == Spec => []BufferInOrder
<1>1. KInv => BufferInOrder
  BY OrderedIs DEF KInv
<1> QED BY <1>1, KeyboardInvariant, PTL

=============================================================================
