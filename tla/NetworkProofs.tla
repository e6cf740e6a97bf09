--------------------------- MODULE NetworkProofs ---------------------------
(***************************************************************************)
(* Proofs about modules Packets and Network: what is sent arrives, through *)
(* three layers, whatever the ports, addresses, options and payload; a cut *)
(* frame yields no shorter datagram; the checksum verifies.  The last rests*)
(* on induction over the words of a header and over the carries, by the    *)
(* least natural number for which a statement would fail.                  *)
(***************************************************************************)
EXTENDS Network, WellFoundedInduction, TLAPS

\* The datagrams whose length fits the length field, and the frames.
Datagrams ==
  {d \in [src_port : U16, dst_port : U16, payload : Seq(Byte)] : 8 + Len(d.payload) \in U16}

Frames == [dst : [1 .. 6 -> Byte], src : [1 .. 6 -> Byte], ethertype : U16, payload : Seq(Byte)]

\* Two sequences with the same elements are one.
LEMMA SameElements ==
  \A S : \A s, t \in Seq(S) :
    (Len(s) = Len(t) /\ \A i \in 1 .. Len(s) : s[i] = t[i]) => s = t
  OBVIOUS

\* A u16 lies below the bound.
LEMMA U16Is == \A n : n \in U16 <=> n \in Nat /\ n < 65536
  <1>1. ASSUME NEW k \in Nat PROVE \A n : n \in 0 .. k - 1 <=> n \in Nat /\ n < k
    OBVIOUS
  <1>2. TwoTo16 \in Nat
    BY DEF TwoTo16
  <1>3. \A n : n \in U16 <=> n \in Nat /\ n < TwoTo16
    BY <1>1, <1>2, Zenon DEF U16
  <1> QED  BY <1>3, SMT DEF TwoTo16

\* A u16 is its own remainder.
LEMMA U16Fits ==
  ASSUME NEW n \in U16
  PROVE  n \in Nat /\ n % TwoTo16 = n
  <1>1. ASSUME NEW k \in Nat, NEW m \in Nat, m < k PROVE m % k = m
    BY <1>1
  <1>2. TwoTo16 \in Nat /\ n \in Nat /\ n < TwoTo16
    BY U16Is, SMT DEF TwoTo16
  <1> QED  BY <1>1, <1>2

\* u16::from_be_bytes undoes u16::to_be_bytes.
LEMMA ToBeFacts ==
  ASSUME NEW n \in U16
  PROVE  /\ ToBe(n) \in Seq(Byte) /\ Len(ToBe(n)) = 2
         /\ Be(ToBe(n)[1], ToBe(n)[2]) = n
  <1>0. n \in Nat /\ n < 65536
    BY U16Is, SMT
  <1>1. n \div 256 \in Byte /\ n % 256 \in Byte
    BY <1>0, SMT DEF Byte
  <1>2. (n \div 256) * 256 + (n % 256) = n
    BY <1>0, SMT
  <1> QED  BY <1>1, <1>2 DEF ToBe, Be

\* What two sequences, one after the other, hold.
Cat(s, t) == s \o t

\* The bytes of two sequences, one behind the other.
LEMMA CatFacts ==
  ASSUME NEW s \in Seq(Byte), NEW t \in Seq(Byte)
  PROVE  /\ Cat(s, t) \in Seq(Byte)
         /\ Len(Cat(s, t)) = Len(s) + Len(t)
         /\ \A i \in 1 .. Len(s) : Cat(s, t)[i] = s[i]
         /\ \A i \in 1 .. Len(t) : Cat(s, t)[Len(s) + i] = t[i]
  BY DEF Cat

\* Two bytes behind a sequence.
LEMMA CatPair ==
  ASSUME NEW s \in Seq(Byte), NEW t \in Seq(Byte), Len(t) = 2
  PROVE  /\ Cat(s, t) \in Seq(Byte)
         /\ Len(Cat(s, t)) = Len(s) + 2
         /\ \A i \in 1 .. Len(s) : Cat(s, t)[i] = s[i]
         /\ Cat(s, t)[Len(s) + 1] = t[1] /\ Cat(s, t)[Len(s) + 2] = t[2]
  <1>1. 1 \in 1 .. Len(t) /\ 2 \in 1 .. Len(t)
    OBVIOUS
  <1>2. /\ Cat(s, t) \in Seq(Byte)
        /\ Len(Cat(s, t)) = Len(s) + Len(t)
        /\ \A i \in 1 .. Len(s) : Cat(s, t)[i] = s[i]
        /\ \A i \in 1 .. Len(t) : Cat(s, t)[Len(s) + i] = t[i]
    BY CatFacts, Zenon
  <1> QED  BY <1>1, <1>2, Zenon

\* The fields of a datagram, whose length fits its header.
LEMMA DatagramFacts ==
  ASSUME NEW d \in Datagrams
  PROVE  /\ d.src_port \in U16 /\ d.dst_port \in U16 /\ d.payload \in Seq(Byte)
         /\ d = [src_port |-> d.src_port, dst_port |-> d.dst_port, payload |-> d.payload]
         /\ Len(d.payload) \in Nat
         /\ 8 + Len(d.payload) \in U16 /\ (8 + Len(d.payload)) % TwoTo16 = 8 + Len(d.payload)
  BY U16Fits DEF Datagrams

\* Four pairs of bytes and a payload behind them.
Pairs(a, b, c, z, p) == Cat(Cat(Cat(Cat(a, b), c), z), p)

IsWire(w, a, b, c, p) ==
  /\ w \in Seq(Byte) /\ Len(w) = 8 + Len(p)
  /\ w[1] = a[1] /\ w[2] = a[2] /\ w[3] = b[1] /\ w[4] = b[2] /\ w[5] = c[1] /\ w[6] = c[2]
  /\ \A i \in 1 .. Len(p) : w[8 + i] = p[i]

\* They are laid out as on the wire.
LEMMA FourPairs ==
  ASSUME NEW a \in Seq(Byte), NEW b \in Seq(Byte), NEW c \in Seq(Byte), NEW z \in Seq(Byte),
         NEW p \in Seq(Byte), Len(a) = 2, Len(b) = 2, Len(c) = 2, Len(z) = 2
  PROVE  IsWire(Pairs(a, b, c, z, p), a, b, c, p)
  <1> DEFINE x == Cat(a, b)  y == Cat(x, c)  v == Cat(y, z)  w == Cat(v, p)
  <1>2. /\ x \in Seq(Byte) /\ Len(x) = Len(a) + 2
        /\ \A i \in 1 .. Len(a) : x[i] = a[i]
        /\ x[Len(a) + 1] = b[1] /\ x[Len(a) + 2] = b[2]
    BY CatPair, Zenon
  <1> HIDE DEF x
  <1>3. Len(x) = 4 /\ x[1] = a[1] /\ x[2] = a[2] /\ x[3] = b[1] /\ x[4] = b[2]
    BY <1>2
  <1>5. /\ y \in Seq(Byte) /\ Len(y) = Len(x) + 2
        /\ \A i \in 1 .. Len(x) : y[i] = x[i]
        /\ y[Len(x) + 1] = c[1] /\ y[Len(x) + 2] = c[2]
    BY <1>2, CatPair, ZenonT(60)
  <1> HIDE DEF y
  <1>6. /\ Len(y) = 6 /\ y[1] = a[1] /\ y[2] = a[2] /\ y[3] = b[1] /\ y[4] = b[2]
        /\ y[5] = c[1] /\ y[6] = c[2]
    BY <1>3, <1>5
  <1>8. /\ v \in Seq(Byte) /\ Len(v) = Len(y) + 2
        /\ \A i \in 1 .. Len(y) : v[i] = y[i]
    BY <1>5, CatPair, Zenon
  <1> HIDE DEF v
  <1>9. /\ Len(v) = 8 /\ v[1] = a[1] /\ v[2] = a[2] /\ v[3] = b[1] /\ v[4] = b[2]
        /\ v[5] = c[1] /\ v[6] = c[2]
    BY <1>6, <1>8
  <1>11. /\ w \in Seq(Byte) /\ Len(w) = Len(v) + Len(p)
         /\ \A i \in 1 .. Len(v) : w[i] = v[i]
         /\ \A i \in 1 .. Len(p) : w[Len(v) + i] = p[i]
    BY <1>8, CatFacts, ZenonT(60)
  <1> HIDE DEF w
  <1>12. /\ w \in Seq(Byte) /\ Len(w) = 8 + Len(p)
         /\ w[1] = a[1] /\ w[2] = a[2] /\ w[3] = b[1] /\ w[4] = b[2]
         /\ w[5] = c[1] /\ w[6] = c[2]
         /\ \A i \in 1 .. Len(p) : w[8 + i] = p[i]
    BY <1>9, <1>11
  <1> QED  BY <1>12, Zenon DEF w, v, y, x, Pairs, IsWire

\* The header of a datagram and the payload behind it.
LEMMA UdpWire ==
  ASSUME NEW d \in Datagrams
  PROVE  /\ UdpSerialize(d) \in Seq(Byte)
         /\ Len(UdpSerialize(d)) = 8 + Len(d.payload)
         /\ FromBe(UdpSerialize(d), 0) = d.src_port
         /\ FromBe(UdpSerialize(d), 2) = d.dst_port
         /\ FromBe(UdpSerialize(d), 4) = 8 + Len(d.payload)
         /\ \A i \in 1 .. Len(d.payload) : UdpSerialize(d)[8 + i] = d.payload[i]
  <1> DEFINE n == 8 + Len(d.payload)
             a == ToBe(d.src_port)  b == ToBe(d.dst_port)  c == ToBe(n)  z == << 0, 0 >>
             w == Pairs(a, b, c, z, d.payload)
  <1>1. d.src_port \in U16 /\ d.dst_port \in U16 /\ d.payload \in Seq(Byte) /\ n \in U16 /\ n % TwoTo16 = n
    BY DatagramFacts, Zenon
  <1>2. z \in Seq(Byte) /\ Len(z) = 2
    BY DEF Byte
  <1>3. w = UdpSerialize(d)
    BY <1>1, Zenon DEF UdpSerialize, Cat, Pairs
  <1> HIDE DEF n
  <1>4. /\ a \in Seq(Byte) /\ Len(a) = 2 /\ Be(a[1], a[2]) = d.src_port
        /\ b \in Seq(Byte) /\ Len(b) = 2 /\ Be(b[1], b[2]) = d.dst_port
        /\ c \in Seq(Byte) /\ Len(c) = 2 /\ Be(c[1], c[2]) = n
    BY <1>1, ToBeFacts, Zenon
  <1> HIDE DEF a, b, c, z
  <1>5. /\ w \in Seq(Byte) /\ Len(w) = 8 + Len(d.payload)
        /\ w[1] = a[1] /\ w[2] = a[2] /\ w[3] = b[1] /\ w[4] = b[2]
        /\ w[5] = c[1] /\ w[6] = c[2]
        /\ \A i \in 1 .. Len(d.payload) : w[8 + i] = d.payload[i]
    <2>1. a \in Seq(Byte) /\ b \in Seq(Byte) /\ c \in Seq(Byte)
      BY <1>4, Zenon
    <2>2. Len(a) = 2 /\ Len(b) = 2 /\ Len(c) = 2
      BY <1>4, Zenon
    <2>3. d.payload \in Seq(Byte)
      BY <1>1, Zenon
    <2>4. IsWire(w, a, b, c, d.payload)
      BY <1>2, <2>1, <2>2, <2>3, FourPairs
    <2> QED  BY <2>4, Zenon DEF IsWire
  <1> HIDE DEF w
  <1>6. FromBe(w, 0) = d.src_port /\ FromBe(w, 2) = d.dst_port /\ FromBe(w, 4) = n
    BY <1>4, <1>5, SMTT(60) DEF FromBe
  <1> QED  BY <1>3, <1>5, <1>6, Zenon DEF n

\* A datagram that parse finds behind a header that is whole.
LEMMA UdpParses ==
  ASSUME NEW S, Byte \subseteq S,
         NEW d \in Datagrams, NEW data \in Seq(S), Len(data) >= 8 + Len(d.payload),
         \A i \in 1 .. 8 + Len(d.payload) : data[i] = UdpSerialize(d)[i]
  PROVE  UdpParse(data) = Some(d)
  <1> DEFINE w == UdpSerialize(d)
             n == Len(d.payload)
  <1>1. /\ d.payload \in Seq(Byte) /\ n \in Nat
        /\ d = [src_port |-> d.src_port, dst_port |-> d.dst_port, payload |-> d.payload]
    BY DatagramFacts, Zenon
  <1>2. /\ FromBe(w, 0) = d.src_port /\ FromBe(w, 2) = d.dst_port /\ FromBe(w, 4) = 8 + n
        /\ \A i \in 1 .. n : w[8 + i] = d.payload[i]
    BY UdpWire, Zenon
  <1>3. Len(data) >= 8 + n /\ Len(data) \in Nat /\ \A i \in 1 .. 8 + n : data[i] = w[i]
    OBVIOUS
  <1> HIDE DEF w, n
  <1>4. /\ data[1] = w[1] /\ data[2] = w[2] /\ data[3] = w[3] /\ data[4] = w[4]
        /\ data[5] = w[5] /\ data[6] = w[6]
    <2>1. /\ 1 \in 1 .. 8 + n /\ 2 \in 1 .. 8 + n /\ 3 \in 1 .. 8 + n
          /\ 4 \in 1 .. 8 + n /\ 5 \in 1 .. 8 + n /\ 6 \in 1 .. 8 + n
      BY <1>1
    <2> QED  BY <1>3, <2>1, Zenon
  <1>5. FromBe(data, 0) = d.src_port /\ FromBe(data, 2) = d.dst_port /\ FromBe(data, 4) = 8 + n
    BY <1>2, <1>4 DEF FromBe
  <1>6. Slice(data, 8, 8 + n) = d.payload
    <2> DEFINE p == Slice(data, 8, 8 + n)
    <2>1. p \in Seq(S) /\ Len(p) = n /\ \A i \in 1 .. n : p[i] = data[8 + i]
      BY <1>1, <1>3, SMTT(60) DEF Slice
    <2> HIDE DEF p
    <2>2. ASSUME NEW i \in 1 .. n PROVE p[i] = d.payload[i]
      <3>1. 8 + i \in 1 .. 8 + n
        BY <1>1
      <3>2. data[8 + i] = w[8 + i]
        BY <1>3, <3>1, Zenon
      <3> QED  BY <1>2, <2>1, <3>2, Zenon
    <2>3. Len(d.payload) = n
      BY Zenon DEF n
    <2>4. d.payload \in Seq(S)
      BY <1>1
    <2>5. p = d.payload
      BY <2>1, <2>2, <2>3, <2>4, SameElements
    <2> QED  BY <2>5 DEF p
  <1>7. ~(Len(data) < 8) /\ ~(8 + n < 8) /\ ~(8 + n > Len(data))
    BY <1>1, <1>3
  <1> QED  BY <1>1, <1>5, <1>6, <1>7, Zenon DEF UdpParse, Some

\* UdpDatagram::parse gives back what UdpDatagram::serialize wrote, whatever the
\* ports, the payload and the bytes that follow: the padding of a short frame is
\* never taken for payload.
THEOREM UdpReadsBack ==
  \A d \in Datagrams, tail \in Seq(Byte) : UdpParse(UdpSerialize(d) \o tail) = Some(d)
  <1> SUFFICES ASSUME NEW d \in Datagrams, NEW tail \in Seq(Byte)
               PROVE  UdpParse(Cat(UdpSerialize(d), tail)) = Some(d)
    BY DEF Cat
  <1> DEFINE w == UdpSerialize(d)
             data == Cat(w, tail)
  <1>1. w \in Seq(Byte) /\ Len(w) = 8 + Len(d.payload)
    BY UdpWire, Zenon
  <1>2. /\ data \in Seq(Byte) /\ Len(data) = Len(w) + Len(tail)
        /\ \A i \in 1 .. Len(w) : data[i] = w[i]
    BY <1>1, CatFacts, Zenon
  <1>3. Len(w) \in Nat /\ Len(tail) \in Nat
    BY <1>1
  <1> HIDE DEF data
  <1>4. Len(data) >= 8 + Len(d.payload) /\ \A i \in 1 .. 8 + Len(d.payload) : data[i] = w[i]
    BY <1>1, <1>2, <1>3
  <1>5. UdpParse(data) = Some(d)
    BY <1>2, <1>4, UdpParses, Zenon
  <1> QED  BY <1>5 DEF data

\* Wherever what UdpDatagram::serialize wrote is cut, UdpDatagram::parse answers
\* None, never a shorter datagram.
THEOREM UdpCutIsNone ==
  \A d \in Datagrams : \A n \in 0 .. Len(UdpSerialize(d)) - 1 :
    UdpParse(SubSeq(UdpSerialize(d), 1, n)) = None
  <1> SUFFICES ASSUME NEW d \in Datagrams, NEW n \in 0 .. Len(UdpSerialize(d)) - 1
               PROVE  UdpParse(SubSeq(UdpSerialize(d), 1, n)) = None
    OBVIOUS
  <1> DEFINE w == UdpSerialize(d)
             data == SubSeq(w, 1, n)
  <1>1. w \in Seq(Byte) /\ Len(w) = 8 + Len(d.payload) /\ FromBe(w, 4) = 8 + Len(d.payload)
    BY UdpWire, Zenon
  <1>2. n \in Nat /\ n < Len(w)
    BY <1>1
  <1> HIDE DEF w
  <1>3. Len(data) = n /\ \A i \in 1 .. n : data[i] = w[i]
    BY <1>1, <1>2
  <1> HIDE DEF data
  <1>4. ASSUME n < 8 PROVE UdpParse(data) = None
    BY <1>3, <1>4 DEF UdpParse
  <1>5. ASSUME n >= 8 PROVE UdpParse(data) = None
    <2>1. data[5] = w[5] /\ data[6] = w[6]
      BY <1>2, <1>3, <1>5
    <2>2. FromBe(data, 4) = Len(w)
      BY <1>1, <2>1 DEF FromBe
    <2>3. FromBe(data, 4) > Len(data)
      BY <1>1, <1>2, <1>3, <2>2
    <2> QED  BY <2>3, Zenon DEF UdpParse
  <1>6. UdpParse(data) = None
    BY <1>2, <1>4, <1>5
  <1> QED  BY <1>6, Zenon DEF data, w

\* The part of s that holds t is t.
LEMMA SliceIs ==
  ASSUME NEW s \in Seq(Byte), NEW t \in Seq(Byte), NEW k \in Nat, NEW m \in Nat,
         m = k + Len(t), m <= Len(s),
         \A i \in 1 .. Len(t) : s[k + i] = t[i]
  PROVE  Slice(s, k, m) = t
  <1> DEFINE p == Slice(s, k, m)
  <1>1. Len(t) \in Nat /\ Len(s) \in Nat
    OBVIOUS
  <1>2. p \in Seq(Byte) /\ Len(p) = Len(t) /\ \A i \in 1 .. Len(t) : p[i] = s[k + i]
    BY <1>1 DEF Slice
  <1> HIDE DEF p
  <1>3. p = t
    BY <1>2, SameElements
  <1> QED  BY <1>3 DEF p

\* An address is six bytes.
LEMMA AddressIs ==
  ASSUME NEW a \in [1 .. 6 -> Byte]
  PROVE  a \in Seq(Byte) /\ Len(a) = 6
  <1>1. ASSUME NEW n \in Nat, NEW g \in [1 .. n -> Byte]
        PROVE  g \in Seq(Byte) /\ Len(g) = n
    OBVIOUS
  <1>2. 6 \in Nat
    OBVIOUS
  <1> QED  BY <1>1, <1>2, Zenon

\* EthernetFrame::parse gives back what EthernetFrame::serialize wrote.
THEOREM EthReadsBack == \A f \in Frames : EthParse(EthSerialize(f)) = Some(f)
  <1> SUFFICES ASSUME NEW f \in Frames PROVE EthParse(EthSerialize(f)) = Some(f)
    OBVIOUS
  <1> DEFINE a == f.dst  b == f.src  c == ToBe(f.ethertype)  p == f.payload
             ab == Cat(a, b)  abc == Cat(ab, c)  w == Cat(abc, p)
  <1>1. /\ a \in Seq(Byte) /\ Len(a) = 6 /\ b \in Seq(Byte) /\ Len(b) = 6
        /\ f.ethertype \in U16 /\ p \in Seq(Byte) /\ Len(p) \in Nat
        /\ f = [dst |-> a, src |-> b, ethertype |-> f.ethertype, payload |-> p]
    <2>1. /\ f.dst \in [1 .. 6 -> Byte] /\ f.src \in [1 .. 6 -> Byte]
          /\ f.ethertype \in U16 /\ f.payload \in Seq(Byte)
          /\ f = [dst |-> f.dst, src |-> f.src, ethertype |-> f.ethertype, payload |-> f.payload]
      BY DEF Frames
    <2>2. Len(f.payload) \in Nat
      BY <2>1
    <2> QED  BY <2>1, <2>2, AddressIs, Zenon
  <1>2. w = EthSerialize(f)
    BY Zenon DEF EthSerialize, Cat
  <1> HIDE DEF a, b, p
  <1>3. c \in Seq(Byte) /\ Len(c) = 2 /\ Be(c[1], c[2]) = f.ethertype
    BY <1>1, ToBeFacts, Zenon
  <1> HIDE DEF c
  <1>4. /\ ab \in Seq(Byte) /\ Len(ab) = Len(a) + Len(b)
        /\ \A i \in 1 .. Len(a) : ab[i] = a[i]
        /\ \A i \in 1 .. Len(b) : ab[Len(a) + i] = b[i]
    BY <1>1, CatFacts, Zenon
  <1> HIDE DEF ab
  <1>5. /\ abc \in Seq(Byte) /\ Len(abc) = Len(ab) + 2
        /\ \A i \in 1 .. Len(ab) : abc[i] = ab[i]
        /\ abc[Len(ab) + 1] = c[1] /\ abc[Len(ab) + 2] = c[2]
    BY <1>3, <1>4, CatPair, Zenon
  <1> HIDE DEF abc
  <1>6. /\ w \in Seq(Byte) /\ Len(w) = Len(abc) + Len(p)
        /\ \A i \in 1 .. Len(abc) : w[i] = abc[i]
        /\ \A i \in 1 .. Len(p) : w[Len(abc) + i] = p[i]
    BY <1>1, <1>5, CatFacts, ZenonT(60)
  <1> HIDE DEF w
  <1>7. Len(ab) = 12 /\ Len(abc) = 14 /\ Len(w) = 14 + Len(p)
    BY <1>1, <1>4, <1>5, <1>6
  <1>8. Slice(w, 0, 6) = a
    <2>1. \A i \in 1 .. Len(a) : w[0 + i] = a[i]
      <3> SUFFICES ASSUME NEW i \in 1 .. Len(a) PROVE w[0 + i] = a[i]
        OBVIOUS
      <3>1. 0 + i = i /\ i \in 1 .. Len(ab) /\ i \in 1 .. Len(abc)
        BY <1>1, <1>7
      <3>2. w[i] = abc[i] /\ abc[i] = ab[i] /\ ab[i] = a[i]
        BY <1>4, <1>5, <1>6, <3>1, Zenon
      <3> QED  BY <3>1, <3>2
    <2>2. 6 = 0 + Len(a) /\ 6 <= Len(w) /\ 0 \in Nat /\ 6 \in Nat
      BY <1>1, <1>7
    <2> QED  BY <1>1, <1>6, <2>1, <2>2, SliceIs, Zenon
  <1>9. Slice(w, 6, 12) = b
    <2>1. \A i \in 1 .. Len(b) : w[6 + i] = b[i]
      <3> SUFFICES ASSUME NEW i \in 1 .. Len(b) PROVE w[6 + i] = b[i]
        OBVIOUS
      <3>1. 6 + i \in 1 .. Len(ab) /\ 6 + i \in 1 .. Len(abc)
        BY <1>1, <1>7
      <3>2. w[6 + i] = abc[6 + i] /\ abc[6 + i] = ab[6 + i]
        BY <1>5, <1>6, <3>1, Zenon
      <3>3. ab[Len(a) + i] = b[i]
        BY <1>4, Zenon
      <3> QED  BY <1>1, <3>2, <3>3
    <2>2. 12 = 6 + Len(b) /\ 12 <= Len(w) /\ 6 \in Nat /\ 12 \in Nat
      BY <1>1, <1>7
    <2> QED  BY <1>1, <1>6, <2>1, <2>2, SliceIs, ZenonT(60)
  <1>10. FromBe(w, 12) = f.ethertype
    <2>1. w[13] = c[1] /\ w[14] = c[2]
      BY <1>5, <1>6, <1>7
    <2> QED  BY <1>3, <2>1 DEF FromBe
  <1>11. Slice(w, 14, Len(w)) = p
    <2>1. \A i \in 1 .. Len(p) : w[14 + i] = p[i]
      BY <1>6, <1>7
    <2>2. Len(w) = 14 + Len(p) /\ Len(w) <= Len(w) /\ 14 \in Nat /\ Len(w) \in Nat
      BY <1>1, <1>7
    <2> QED  BY <1>1, <1>6, <2>1, <2>2, SliceIs, Zenon
  <1>12. ~(Len(w) < 14)
    BY <1>1, <1>7
  <1>13. EthParse(w) = Some(f)
    BY <1>1, <1>8, <1>9, <1>10, <1>11, <1>12, Zenon DEF EthParse, Some
  <1> QED  BY <1>2, <1>13

-----------------------------------------------------------------------------
(* Bytes that are joined, taken off and carried over the link.              *)

-----------------------------------------------------------------------------
(* The three layers: what the link leaves of the bytes that were sent.      *)

\* w begins with s; t stands in w behind k bytes.
Starts(w, s) == Len(s) <= Len(w) /\ \A i \in 1 .. Len(s) : w[i] = s[i]

Behind(w, k, t) == \A i \in 1 .. Len(t) : w[k + i] = t[i]

\* c is s and t behind it.
Joins(S, c, s, t) ==
  c \in Seq(S) /\ Len(c) = Len(s) + Len(t) /\ Starts(c, s) /\ Behind(c, Len(s), t)

\* Two pieces over any set, one behind the other.
LEMMA Joined ==
  ASSUME NEW S, NEW s \in Seq(S), NEW t \in Seq(S)
  PROVE  Joins(S, Cat(s, t), s, t)
  BY DEF Cat, Starts, Behind, Joins

\* A piece stays where it is when more bytes follow.
LEMMA StaysBehind ==
  ASSUME NEW S, NEW s \in Seq(S), NEW w \in Seq(S), NEW t \in Seq(S), NEW k \in Nat,
         Starts(w, s), Behind(s, k, t), k + Len(t) <= Len(s)
  PROVE  Behind(w, k, t)
  BY DEF Starts, Behind

\* And so does the beginning.
LEMMA StaysFirst ==
  ASSUME NEW S, NEW a \in Seq(S), NEW b \in Seq(S), NEW c \in Seq(S), Starts(b, a), Starts(c, b)
  PROVE  Starts(c, a)
  BY DEF Starts

\* What the link makes of w: all of it, more, or less.
Carries(S, b, w, d) ==
  /\ b \in Seq(S) /\ d \in {"none", "padded", "cut"}
  /\ d = "none" => Len(b) = Len(w)
  /\ d = "padded" => Len(b) >= Len(w)
  /\ d = "cut" => Len(b) < Len(w)
  /\ \A i \in 1 .. Len(b) : i <= Len(w) => b[i] = w[i]

\* Without its header, what is left is what the link makes of the payload.
LEMMA Strip ==
  ASSUME NEW S, NEW p \in Seq(S), NEW w \in Seq(S), NEW b, NEW d, Carries(S, b, Cat(p, w), d),
         NEW n, n = Len(p), Len(b) >= n
  PROVE  Carries(S, Slice(b, n, Len(b)), w, d)
  <1>1. /\ Len(Cat(p, w)) = n + Len(w) /\ n \in Nat /\ Len(w) \in Nat
        /\ \A i \in 1 .. Len(w) : Cat(p, w)[n + i] = w[i]
    <2>1. Len(Cat(p, w)) = Len(p) + Len(w) /\ Behind(Cat(p, w), Len(p), w)
      BY Joined, Zenon DEF Joins
    <2>2. Len(p) \in Nat /\ Len(w) \in Nat
      OBVIOUS
    <2> QED  BY <2>1, <2>2, Zenon DEF Behind
  <1>2. PICK c : c = Cat(p, w)
    BY Zenon
  <1>3. PICK l, m : l = Len(b) /\ m = Len(w)
    BY Zenon
  <1>4. /\ b \in Seq(S) /\ d \in {"none", "padded", "cut"} /\ l \in Nat /\ m \in Nat /\ l >= n
        /\ d = "none" => l = n + m
        /\ d = "padded" => l >= n + m
        /\ d = "cut" => l < n + m
        /\ \A i \in 1 .. l : i <= n + m => b[i] = c[i]
    BY <1>1, <1>2, <1>3 DEF Carries
  <1>5. PICK x : x = Slice(b, n, l)
    BY Zenon
  <1>6. x \in Seq(S) /\ Len(x) = l - n /\ \A i \in 1 .. l - n : x[i] = b[n + i]
    <2>1. b \in Seq(S) /\ l = Len(b) /\ l \in Nat /\ n \in Nat /\ l >= n
      BY <1>1, <1>3, <1>4, Zenon
    <2> QED  BY <1>5, <2>1, SMTT(30) DEF Slice
  <1>7. ASSUME NEW i \in 1 .. l - n, i <= m PROVE x[i] = w[i]
    <2>1. i \in 1 .. m /\ n + i \in 1 .. l /\ n + i <= n + m
      BY <1>1, <1>4, <1>7
    <2>2. x[i] = b[n + i] /\ b[n + i] = c[n + i] /\ c[n + i] = w[i]
      BY <1>1, <1>2, <1>3, <1>4, <1>6, <2>1, Zenon
    <2> QED  BY <2>2
  <1>8. Carries(S, x, w, d)
    <2>1. /\ d = "none" => Len(x) = m
          /\ d = "padded" => Len(x) >= m
          /\ d = "cut" => Len(x) < m
      BY <1>1, <1>4, <1>6
    <2>2. \A i \in 1 .. Len(x) : i <= m => x[i] = w[i]
      BY <1>6, <1>7, Zenon
    <2> QED  BY <1>3, <1>4, <1>6, <2>1, <2>2, Zenon DEF Carries
  <1> QED  BY <1>3, <1>5, <1>8, Zenon

\* What is left begins as w does, as far as it goes; only a cut makes it shorter.
Left(S, b, w, d) ==
  /\ b \in Seq(S) /\ Len(b) \in Nat
  /\ d # "cut" => Starts(b, w)
  /\ d = "cut" => Len(b) < Len(w)
  /\ d = "none" => Len(b) = Len(w)
  /\ \A i \in 1 .. Len(b) : i <= Len(w) => b[i] = w[i]

\* This is what Carries says.
LEMMA CarriesLeft ==
  ASSUME NEW S, NEW w, Len(w) \in Nat, NEW b, NEW d, Carries(S, b, w, d)
  PROVE  Left(S, b, w, d)
  BY DEF Carries, Starts, Left

-----------------------------------------------------------------------------
(* The receiver, layer by layer.                                            *)

\* Bytes are members of any larger set of bytes.
LEMMA Wider ==
  ASSUME NEW S, Byte \subseteq S, NEW s \in Seq(Byte)
  PROVE  s \in Seq(S)
  OBVIOUS

\* What EthSerialize puts before the payload in WrapEthernet.
EthHeader == Cat(Cat(Mac, Mac), ToBe(IPV4))

\* It has fourteen bytes.
LEMMA EthHeaderIs == EthHeader \in Seq(Byte) /\ Len(EthHeader) = 14
  <1>1. Mac \in Seq(Byte) /\ Len(Mac) = 6
    BY DEF Mac, Byte
  <1>2. ToBe(IPV4) \in Seq(Byte) /\ Len(ToBe(IPV4)) = 2
    <2>1. IPV4 \in U16
      BY U16Is, SMT DEF IPV4
    <2> QED  BY <2>1, ToBeFacts, Zenon
  <1>3. Cat(Mac, Mac) \in Seq(Byte) /\ Len(Cat(Mac, Mac)) = Len(Mac) + Len(Mac)
    BY <1>1, Joined, Zenon DEF Joins
  <1>4. EthHeader \in Seq(Byte) /\ Len(EthHeader) = Len(Cat(Mac, Mac)) + Len(ToBe(IPV4))
    <2>1. Joins(Byte, Cat(Cat(Mac, Mac), ToBe(IPV4)), Cat(Mac, Mac), ToBe(IPV4))
      BY <1>2, <1>3, Joined, Zenon
    <2> QED  BY <2>1, Zenon DEF EthHeader, Joins
  <1> QED  BY <1>1, <1>2, <1>3, <1>4

\* A parser's answer to what the link leaves of a header and w: the rest, or no
\* packet, and then only when the frame was cut.
Passes(answer, S, w, d) ==
  \/ answer.is = "Some" /\ Carries(S, answer.packet.payload, w, d)
  \/ answer.is # "Some" /\ d = "cut"

\* EthernetFrame::parse hands on what the link leaves of the payload.
LEMMA EthReceives ==
  ASSUME NEW S, Byte \subseteq S, NEW w \in Seq(S), NEW b, NEW d,
         Carries(S, b, Cat(EthHeader, w), d)
  PROVE  Passes(EthParse(b), S, w, d)
  <1>1. EthHeader \in Seq(S) /\ Len(EthHeader) = 14
    BY EthHeaderIs, Wider, Zenon
  <1>2. Len(Cat(EthHeader, w)) = Len(EthHeader) + Len(w) /\ Len(w) \in Nat
    <2>1. Joins(S, Cat(EthHeader, w), EthHeader, w)
      BY <1>1, Joined, Zenon
    <2>2. Len(w) \in Nat
      OBVIOUS
    <2> QED  BY <2>1, <2>2, Zenon DEF Joins
  <1>3. Left(S, b, Cat(EthHeader, w), d)
    <2>1. Len(Cat(EthHeader, w)) \in Nat
      BY <1>1, <1>2
    <2> QED  BY <2>1, CarriesLeft, Zenon
  <1>4. CASE Len(b) < 14
    <2>1. d = "cut"
      BY <1>1, <1>2, <1>3, <1>4 DEF Starts, Left
    <2>2. EthParse(b) = None
      BY <1>4, Zenon DEF EthParse
    <2> QED  BY <2>1, <2>2 DEF Passes, None
  <1>5. CASE ~(Len(b) < 14)
    <2>1. Len(b) >= 14 /\ 14 = Len(EthHeader)
      BY <1>1, <1>3, <1>5 DEF Left
    <2>2. Carries(S, Slice(b, 14, Len(b)), w, d)
      BY <1>1, <2>1, Strip, Zenon
    <2>3. /\ EthParse(b).is = "Some"
          /\ EthParse(b).packet.payload = Slice(b, 14, Len(b))
      BY <1>5 DEF EthParse, Some
    <2> QED  BY <2>2, <2>3, Zenon DEF Passes
  <1> QED  BY <1>4, <1>5

\* An IPv4 header for protocol p, with or without options; the checksum is whatever
\* the sender computed.
IsHeader(S, h, p) ==
  /\ h \in Seq(S)
  /\ \E k \in 5 .. 15 : Len(h) = 4 * k /\ h[1] = 64 + k
  /\ h[10] = p

Names(answer, p) == answer.is = "Some" => answer.packet.protocol = p

\* Ipv4Packet::parse skips the header, options included.
LEMMA IpReceives ==
  ASSUME NEW S, NEW w \in Seq(S), NEW h, NEW p, IsHeader(S, h, p), NEW b, NEW d,
         Carries(S, b, Cat(h, w), d)
  PROVE  /\ Passes(IpParse(b), S, w, d)
         /\ Names(IpParse(b), p)
  <1>1. PICK k \in 5 .. 15 : Len(h) = 4 * k /\ h[1] = 64 + k
    BY Zenon DEF IsHeader
  <1>2. h \in Seq(S) /\ h[10] = p
    BY Zenon DEF IsHeader
  <1>3. /\ Cat(h, w) \in Seq(S) /\ Len(Cat(h, w)) = Len(h) + Len(w)
        /\ Starts(Cat(h, w), h)
    BY <1>2, Joined, Zenon DEF Joins
  <1>4. PICK c : c = Cat(h, w)
    BY Zenon
  <1>5. Len(w) \in Nat
    OBVIOUS
  <1>6. /\ c \in Seq(S) /\ Len(c) = 4 * k + Len(w)
        /\ \A i \in 1 .. 4 * k : c[i] = h[i]
    BY <1>1, <1>3, <1>4, Zenon DEF Starts
  <1>7. /\ Len(b) \in Nat /\ Len(c) \in Nat
        /\ d # "cut" => Starts(b, c)
        /\ \A i \in 1 .. Len(b) : i <= Len(c) => b[i] = c[i]
    <2>1. Len(c) \in Nat
      BY <1>6
    <2>2. Left(S, b, c, d)
      BY <1>4, <2>1, CarriesLeft, Zenon
    <2> QED  BY <2>1, <2>2, Zenon DEF Left
  <1>8. Len(b) < 4 * k => d = "cut"
    BY <1>5, <1>6, <1>7 DEF Starts
  <1>9. CASE Len(b) < 20
    <2>1. d = "cut"
      BY <1>7, <1>8, <1>9
    <2>2. IpParse(b) = None
      BY <1>9, Zenon DEF IpParse
    <2>3. IpParse(b).is # "Some"
      BY <2>2 DEF None
    <2> QED  BY <2>1, <2>3, Zenon DEF Passes, Names
  <1>10. CASE ~(Len(b) < 20)
    <2>1. b[1] = 64 + k /\ b[10] = p
      <3>1. /\ 1 \in 1 .. Len(b) /\ 1 <= Len(c) /\ 1 \in 1 .. 4 * k
            /\ 10 \in 1 .. Len(b) /\ 10 <= Len(c) /\ 10 \in 1 .. 4 * k
        <4>1. Len(b) \in Nat /\ Len(c) = 4 * k + Len(w)
          BY <1>6, <1>7, Zenon
        <4> QED  BY <1>5, <1>10, <4>1
      <3>2. b[1] = c[1] /\ b[10] = c[10]
        BY <1>7, <3>1, Zenon
      <3>3. c[1] = h[1] /\ c[10] = h[10]
        BY <1>6, <3>1, Zenon
      <3> QED  BY <1>1, <1>2, <3>2, <3>3, Zenon
    <2>2. b[1] \div 16 = 4 /\ (b[1] % 16) * 4 = 4 * k
      <3>1. (64 + k) \div 16 = 4 /\ (64 + k) % 16 = k /\ k * 4 = 4 * k
        OBVIOUS
      <3> QED  BY <2>1, <3>1, Zenon
    <2>3. CASE 4 * k > Len(b)
      <3>1. d = "cut"
        BY <1>7, <1>8, <2>3
      <3>2. IpParse(b) = Panicked
        BY <1>10, <2>2, <2>3, Zenon DEF IpParse
      <3>3. IpParse(b).is # "Some"
        BY <3>2 DEF Panicked
      <3> QED  BY <3>1, <3>3, Zenon DEF Passes, Names
    <2>4. CASE ~(4 * k > Len(b))
      <3>1. Len(b) >= 4 * k
        BY <1>7, <2>4
      <3>2. Carries(S, Slice(b, 4 * k, Len(b)), w, d)
        BY <1>1, <1>2, <3>1, Strip, Zenon
      <3>3. IpParse(b) =
              Some([src |-> Slice(b, 12, 16), dst |-> Slice(b, 16, 20), protocol |-> b[10],
                    ttl |-> b[9], payload |-> Slice(b, 4 * k, Len(b))])
        BY <1>10, <2>2, <2>4, Zenon DEF IpParse
      <3>4. /\ IpParse(b).is = "Some" /\ IpParse(b).packet.protocol = b[10]
            /\ IpParse(b).packet.payload = Slice(b, 4 * k, Len(b))
        BY <3>3 DEF Some
      <3> QED  BY <2>1, <3>2, <3>4, Zenon DEF Passes, Names
    <2> QED  BY <2>3, <2>4
  <1> QED  BY <1>9, <1>10

\* UdpDatagram::parse finds the datagram in all that was sent and in padded bytes,
\* and nothing in less.
LEMMA UdpReceives ==
  ASSUME NEW S, Byte \subseteq S, NEW m \in Datagrams, NEW b, NEW d,
         Carries(S, b, UdpSerialize(m), d)
  PROVE  /\ d # "cut" => UdpParse(b) = Some(m)
         /\ d = "cut" => UdpParse(b) = None
  <1> DEFINE n == 8 + Len(m.payload)
  <1>1. PICK w : w = UdpSerialize(m)
    BY Zenon
  <1>2. /\ w \in Seq(Byte) /\ Len(w) = n /\ FromBe(w, 4) = n
    BY <1>1, UdpWire, Zenon
  <1>3. /\ b \in Seq(S) /\ Len(b) \in Nat /\ Len(w) \in Nat
        /\ d # "cut" => Starts(b, w)
        /\ d = "cut" => Len(b) < Len(w)
        /\ \A i \in 1 .. Len(b) : i <= Len(w) => b[i] = w[i]
    <2>1. Len(w) \in Nat
      BY <1>2
    <2>2. Left(S, b, w, d)
      BY <1>1, <2>1, CarriesLeft, Zenon
    <2> QED  BY <2>1, <2>2, Zenon DEF Left
  <1> HIDE DEF n
  <1>4. ASSUME d # "cut" PROVE UdpParse(b) = Some(m)
    <2>1. Len(b) >= n /\ \A i \in 1 .. n : b[i] = w[i]
      BY <1>2, <1>3, <1>4 DEF Starts
    <2> QED  BY <1>1, <1>3, <2>1, UdpParses, Zenon DEF n
  <1>5. ASSUME d = "cut" PROVE UdpParse(b) = None
    <2>1. CASE Len(b) < 8
      BY <2>1, Zenon DEF UdpParse
    <2>2. CASE ~(Len(b) < 8)
      <3>1. b[5] = w[5] /\ b[6] = w[6]
        BY <1>3, <1>5, <2>2
      <3>2. FromBe(b, 4) = n
        BY <1>2, <3>1 DEF FromBe
      <3>3. FromBe(b, 4) > Len(b)
        BY <1>2, <1>3, <1>5, <3>2
      <3> QED  BY <3>3, Zenon DEF UdpParse
    <2> QED  BY <2>1, <2>2
  <1> QED  BY <1>4, <1>5

-----------------------------------------------------------------------------
(* Pairs of bytes in a segment.                                             *)

\* A pair behind bytes, of which k were there before.
LEMMA AddPair ==
  ASSUME NEW x \in Seq(Byte), NEW t \in Seq(Byte), NEW k \in Nat, Len(x) = k, Len(t) = 2
  PROVE  /\ Cat(x, t) \in Seq(Byte) /\ Len(Cat(x, t)) = k + 2
         /\ Starts(Cat(x, t), x) /\ Behind(Cat(x, t), k, t)
  <1>1. Joins(Byte, Cat(x, t), x, t)
    BY Joined, Zenon
  <1> QED  BY <1>1, Zenon DEF Joins

\* A field of the sixteen bytes that a header begins with.
LEMMA FieldStays ==
  ASSUME NEW x \in Seq(Byte), NEW w \in Seq(Byte), NEW t \in Seq(Byte), NEW k \in Nat,
         Starts(w, x), Behind(x, k, t), Len(t) = 2, Len(x) = k + 2
  PROVE  Behind(w, k, t)
  <1>1. k + Len(t) <= Len(x)
    OBVIOUS
  <1> QED  BY <1>1, StaysBehind, Zenon

\* u16::from_be_bytes finds the number where u16::to_be_bytes was put.
LEMMA ReadsField ==
  ASSUME NEW n \in U16, NEW w, NEW k \in Nat, Behind(w, k, ToBe(n))
  PROVE  FromBe(w, k) = n
  <1>1. Len(ToBe(n)) = 2 /\ Be(ToBe(n)[1], ToBe(n)[2]) = n
    BY ToBeFacts, Zenon
  <1>2. w[k + 1] = ToBe(n)[1] /\ w[k + 2] = ToBe(n)[2]
    BY <1>1 DEF Behind
  <1> QED  BY <1>1, <1>2, Zenon DEF FromBe

\* Eight pairs, one behind the other.
EightPairs(a, b, c, e, f, g, h, v) ==
  Cat(Cat(Cat(Cat(Cat(Cat(Cat(a, b), c), e), f), g), h), v)

IsPair(t) == t \in Seq(Byte) /\ Len(t) = 2

HasPairs(w, a, b, c, e, f, g, h, v) ==
  /\ Behind(w, 0, a) /\ Behind(w, 2, b) /\ Behind(w, 4, c) /\ Behind(w, 6, e)
  /\ Behind(w, 8, f) /\ Behind(w, 10, g) /\ Behind(w, 12, h) /\ Behind(w, 14, v)

\* Each stands at its place, also when more follows.
LEMMA PairsStand ==
  ASSUME NEW a, NEW b, NEW c, NEW e, NEW f, NEW g, NEW h, NEW v,
         IsPair(a), IsPair(b), IsPair(c), IsPair(e), IsPair(f), IsPair(g), IsPair(h), IsPair(v),
         NEW u, u = EightPairs(a, b, c, e, f, g, h, v)
  PROVE  /\ u \in Seq(Byte) /\ Len(u) = 16
         /\ \A w \in Seq(Byte) : Starts(w, u) => HasPairs(w, a, b, c, e, f, g, h, v)
  <1>1. a \in Seq(Byte) /\ Len(a) = 2
    BY Zenon DEF IsPair
  <1>2. PICK x2 : x2 = Cat(a, b)
    BY Zenon
  <1>3. /\ x2 \in Seq(Byte) /\ Len(x2) = 4
        /\ Starts(x2, a) /\ Behind(x2, 2, b)
    <2>1. b \in Seq(Byte) /\ Len(b) = 2 /\ 2 \in Nat /\ 2 + 2 = 4
      BY DEF IsPair
    <2> QED  BY <1>1, <1>2, <2>1, AddPair, Zenon
  <1>4. PICK x3 : x3 = Cat(x2, c)
    BY Zenon
  <1>5. /\ x3 \in Seq(Byte) /\ Len(x3) = 6
        /\ Starts(x3, x2) /\ Behind(x3, 4, c)
    <2>1. c \in Seq(Byte) /\ Len(c) = 2 /\ 4 \in Nat /\ 4 + 2 = 6
      BY DEF IsPair
    <2> QED  BY <1>3, <1>4, <2>1, AddPair, Zenon
  <1>6. PICK x4 : x4 = Cat(x3, e)
    BY Zenon
  <1>7. /\ x4 \in Seq(Byte) /\ Len(x4) = 8
        /\ Starts(x4, x3) /\ Behind(x4, 6, e)
    <2>1. e \in Seq(Byte) /\ Len(e) = 2 /\ 6 \in Nat /\ 6 + 2 = 8
      BY DEF IsPair
    <2> QED  BY <1>5, <1>6, <2>1, AddPair, Zenon
  <1>8. PICK x5 : x5 = Cat(x4, f)
    BY Zenon
  <1>9. /\ x5 \in Seq(Byte) /\ Len(x5) = 10
        /\ Starts(x5, x4) /\ Behind(x5, 8, f)
    <2>1. f \in Seq(Byte) /\ Len(f) = 2 /\ 8 \in Nat /\ 8 + 2 = 10
      BY DEF IsPair
    <2> QED  BY <1>7, <1>8, <2>1, AddPair, Zenon
  <1>10. PICK x6 : x6 = Cat(x5, g)
    BY Zenon
  <1>11. /\ x6 \in Seq(Byte) /\ Len(x6) = 12
        /\ Starts(x6, x5) /\ Behind(x6, 10, g)
    <2>1. g \in Seq(Byte) /\ Len(g) = 2 /\ 10 \in Nat /\ 10 + 2 = 12
      BY DEF IsPair
    <2> QED  BY <1>9, <1>10, <2>1, AddPair, Zenon
  <1>12. PICK x7 : x7 = Cat(x6, h)
    BY Zenon
  <1>13. /\ x7 \in Seq(Byte) /\ Len(x7) = 14
        /\ Starts(x7, x6) /\ Behind(x7, 12, h)
    <2>1. h \in Seq(Byte) /\ Len(h) = 2 /\ 12 \in Nat /\ 12 + 2 = 14
      BY DEF IsPair
    <2> QED  BY <1>11, <1>12, <2>1, AddPair, Zenon
  <1>14. PICK x8 : x8 = Cat(x7, v)
    BY Zenon
  <1>15. /\ x8 \in Seq(Byte) /\ Len(x8) = 16
        /\ Starts(x8, x7) /\ Behind(x8, 14, v)
    <2>1. v \in Seq(Byte) /\ Len(v) = 2 /\ 14 \in Nat /\ 14 + 2 = 16
      BY DEF IsPair
    <2> QED  BY <1>13, <1>14, <2>1, AddPair, Zenon
  <1>16. u = x8
    BY <1>2, <1>4, <1>6, <1>8, <1>10, <1>12, <1>14, Zenon DEF EightPairs
  <1> SUFFICES ASSUME NEW w \in Seq(Byte), Starts(w, x8)
               PROVE  HasPairs(w, a, b, c, e, f, g, h, v)
    BY <1>15, <1>16, Zenon
  <1>17. Starts(w, x8)
    OBVIOUS
  <1>18. Starts(w, x7)
    BY <1>13, <1>15, <1>17, StaysFirst, Zenon
  <1>19. Starts(w, x6)
    BY <1>11, <1>13, <1>18, StaysFirst, Zenon
  <1>20. Starts(w, x5)
    BY <1>9, <1>11, <1>19, StaysFirst, Zenon
  <1>21. Starts(w, x4)
    BY <1>7, <1>9, <1>20, StaysFirst, Zenon
  <1>22. Starts(w, x3)
    BY <1>5, <1>7, <1>21, StaysFirst, Zenon
  <1>23. Starts(w, x2)
    BY <1>3, <1>5, <1>22, StaysFirst, Zenon
  <1>24. Starts(w, a)
    BY <1>1, <1>3, <1>23, StaysFirst, Zenon
  <1>25. Behind(w, 0, a)
    BY <1>1, <1>24 DEF Starts, Behind
  <1>26. Behind(w, 2, b)
    <2>1. b \in Seq(Byte) /\ Len(b) = 2 /\ 2 \in Nat /\ 2 + 2 = 4
      BY DEF IsPair
    <2> QED  BY <1>3, <1>23, <2>1, FieldStays, Zenon
  <1>27. Behind(w, 4, c)
    <2>1. c \in Seq(Byte) /\ Len(c) = 2 /\ 4 \in Nat /\ 4 + 2 = 6
      BY DEF IsPair
    <2> QED  BY <1>5, <1>22, <2>1, FieldStays, Zenon
  <1>28. Behind(w, 6, e)
    <2>1. e \in Seq(Byte) /\ Len(e) = 2 /\ 6 \in Nat /\ 6 + 2 = 8
      BY DEF IsPair
    <2> QED  BY <1>7, <1>21, <2>1, FieldStays, Zenon
  <1>29. Behind(w, 8, f)
    <2>1. f \in Seq(Byte) /\ Len(f) = 2 /\ 8 \in Nat /\ 8 + 2 = 10
      BY DEF IsPair
    <2> QED  BY <1>9, <1>20, <2>1, FieldStays, Zenon
  <1>30. Behind(w, 10, g)
    <2>1. g \in Seq(Byte) /\ Len(g) = 2 /\ 10 \in Nat /\ 10 + 2 = 12
      BY DEF IsPair
    <2> QED  BY <1>11, <1>19, <2>1, FieldStays, Zenon
  <1>31. Behind(w, 12, h)
    <2>1. h \in Seq(Byte) /\ Len(h) = 2 /\ 12 \in Nat /\ 12 + 2 = 14
      BY DEF IsPair
    <2> QED  BY <1>13, <1>18, <2>1, FieldStays, Zenon
  <1>32. Behind(w, 14, v)
    <2>1. v \in Seq(Byte) /\ Len(v) = 2 /\ 14 \in Nat /\ 14 + 2 = 16
      BY DEF IsPair
    <2> QED  BY <1>15, <1>17, <2>1, FieldStays, Zenon
  <1> QED  BY <1>25, <1>26, <1>27, <1>28, <1>29, <1>30, <1>31, <1>32, Zenon DEF HasPairs

\* The fields of a segment.
LEMMA SegmentFacts ==
  ASSUME NEW m \in TcpMessages
  PROVE  /\ m.src_port \in U16 /\ m.dst_port \in U16 /\ m.window \in U16
         /\ m.seq_num[1] \in U16 /\ m.seq_num[2] \in U16
         /\ m.ack_num[1] \in U16 /\ m.ack_num[2] \in U16
         /\ m.flags \in Byte /\ m.payload \in Seq(Byte)
         /\ m = [src_port |-> m.src_port, dst_port |-> m.dst_port,
                 seq_num |-> <<m.seq_num[1], m.seq_num[2]>>,
                 ack_num |-> <<m.ack_num[1], m.ack_num[2]>>,
                 flags |-> m.flags, window |-> m.window, payload |-> m.payload]
  <1>1. /\ m.src_port \in U16 /\ m.dst_port \in U16 /\ m.window \in U16
        /\ m.seq_num \in U16 \X U16 /\ m.ack_num \in U16 \X U16
        /\ m.flags \in Byte /\ m.payload \in Seq(Byte)
        /\ m = [src_port |-> m.src_port, dst_port |-> m.dst_port,
                seq_num |-> m.seq_num, ack_num |-> m.ack_num,
                flags |-> m.flags, window |-> m.window, payload |-> m.payload]
    BY DEF TcpMessages
  <1>2. ASSUME NEW s \in U16 \X U16
        PROVE  s[1] \in U16 /\ s[2] \in U16 /\ s = <<s[1], s[2]>>
    OBVIOUS
  <1> QED  BY <1>1, <1>2, Zenon

\* A number as two bytes.
LEMMA ToBePair == ASSUME NEW n \in U16 PROVE IsPair(ToBe(n))
  BY ToBeFacts, Zenon DEF IsPair

\* The words of a segment's header.
Words(m) ==
  EightPairs(ToBe(m.src_port), ToBe(m.dst_port), ToBe(m.seq_num[1]), ToBe(m.seq_num[2]),
             ToBe(m.ack_num[1]), ToBe(m.ack_num[2]), << 80, m.flags >>, ToBe(m.window))

\* What a segment looks like on the wire.
LEMMA TcpLayout ==
  ASSUME NEW m \in TcpMessages, NEW w, w = TcpWire(m)
  PROVE  /\ w \in Seq(Byte) /\ Len(w) = 20 + Len(m.payload) /\ Len(m.payload) \in Nat
         /\ Behind(w, 20, m.payload)
         /\ HasPairs(w, ToBe(m.src_port), ToBe(m.dst_port), ToBe(m.seq_num[1]), ToBe(m.seq_num[2]),
                     ToBe(m.ack_num[1]), ToBe(m.ack_num[2]), << 80, m.flags >>, ToBe(m.window))
  <1>1. /\ m.src_port \in U16 /\ m.dst_port \in U16 /\ m.window \in U16
        /\ m.seq_num[1] \in U16 /\ m.seq_num[2] \in U16
        /\ m.ack_num[1] \in U16 /\ m.ack_num[2] \in U16
        /\ m.flags \in Byte /\ m.payload \in Seq(Byte)
    BY SegmentFacts, Zenon
  <1>2. IsPair(<< 80, m.flags >>)
    BY <1>1 DEF IsPair, Byte
  <1>3. /\ IsPair(ToBe(m.src_port)) /\ IsPair(ToBe(m.dst_port)) /\ IsPair(ToBe(m.window))
        /\ IsPair(ToBe(m.seq_num[1])) /\ IsPair(ToBe(m.seq_num[2]))
        /\ IsPair(ToBe(m.ack_num[1])) /\ IsPair(ToBe(m.ack_num[2]))
    BY <1>1, ToBePair, Zenon
  <1>4. PICK u : u = Words(m)
    BY Zenon
  <1>5. /\ u \in Seq(Byte) /\ Len(u) = 16
        /\ \A s \in Seq(Byte) : Starts(s, u) =>
             HasPairs(s, ToBe(m.src_port), ToBe(m.dst_port), ToBe(m.seq_num[1]), ToBe(m.seq_num[2]),
                      ToBe(m.ack_num[1]), ToBe(m.ack_num[2]), << 80, m.flags >>, ToBe(m.window))
    BY <1>2, <1>3, <1>4, PairsStand, Zenon DEF Words
  <1>6. << 0, 0, 0, 0 >> \in Seq(Byte) /\ Len(<< 0, 0, 0, 0 >>) = 4
    BY DEF Byte
  <1>7. PICK z : z = << 0, 0, 0, 0 >>
    BY Zenon
  <1>8. PICK y : y = Cat(u, z)
    BY Zenon
  <1>9. Joins(Byte, y, u, z)
    BY <1>5, <1>6, <1>7, <1>8, Joined, Zenon
  <1>10. y \in Seq(Byte) /\ Starts(y, u) /\ Len(y) = Len(u) + Len(z)
    BY <1>9, Zenon DEF Joins
  <1>11. Len(y) = 20
    BY <1>5, <1>6, <1>7, <1>10
  <1>12. w = Cat(y, m.payload)
    BY <1>4, <1>7, <1>8, Zenon DEF TcpWire, Words, EightPairs, Cat
  <1>13. Joins(Byte, w, y, m.payload)
    BY <1>1, <1>10, <1>12, Joined, Zenon
  <1>14. w \in Seq(Byte) /\ Starts(w, y) /\ Len(w) = 20 + Len(m.payload) /\ Behind(w, 20, m.payload)
    BY <1>11, <1>13, Zenon DEF Joins
  <1>15. Starts(w, u)
    BY <1>5, <1>10, <1>14, StaysFirst, Zenon
  <1>16. Len(m.payload) \in Nat
    BY <1>1
  <1> QED  BY <1>5, <1>14, <1>15, <1>16, Zenon

\* TcpSegment::parse reads every segment that is laid out as the standard says, whatever
\* its fields and payload.
THEOREM TcpReadsBack == \A m \in TcpMessages : TcpParse(TcpWire(m)) = Some(m)
  <1> SUFFICES ASSUME NEW m \in TcpMessages PROVE TcpParse(TcpWire(m)) = Some(m)
    OBVIOUS
  <1>1. PICK w : w = TcpWire(m)
    BY Zenon
  <1>2. /\ w \in Seq(Byte) /\ Len(w) = 20 + Len(m.payload) /\ Len(m.payload) \in Nat
        /\ Behind(w, 20, m.payload)
        /\ HasPairs(w, ToBe(m.src_port), ToBe(m.dst_port), ToBe(m.seq_num[1]), ToBe(m.seq_num[2]),
                    ToBe(m.ack_num[1]), ToBe(m.ack_num[2]), << 80, m.flags >>, ToBe(m.window))
    BY <1>1, TcpLayout, Zenon
  <1>3. /\ m.src_port \in U16 /\ m.dst_port \in U16 /\ m.window \in U16
        /\ m.seq_num[1] \in U16 /\ m.seq_num[2] \in U16
        /\ m.ack_num[1] \in U16 /\ m.ack_num[2] \in U16
        /\ m.payload \in Seq(Byte)
        /\ m = [src_port |-> m.src_port, dst_port |-> m.dst_port,
                seq_num |-> <<m.seq_num[1], m.seq_num[2]>>,
                ack_num |-> <<m.ack_num[1], m.ack_num[2]>>,
                flags |-> m.flags, window |-> m.window, payload |-> m.payload]
    BY SegmentFacts, Zenon
  <1>4. /\ Behind(w, 0, ToBe(m.src_port)) /\ Behind(w, 2, ToBe(m.dst_port))
        /\ Behind(w, 4, ToBe(m.seq_num[1])) /\ Behind(w, 6, ToBe(m.seq_num[2]))
        /\ Behind(w, 8, ToBe(m.ack_num[1])) /\ Behind(w, 10, ToBe(m.ack_num[2]))
        /\ Behind(w, 12, << 80, m.flags >>) /\ Behind(w, 14, ToBe(m.window))
    BY <1>2, Zenon DEF HasPairs
  <1>5. 0 \in Nat /\ 2 \in Nat /\ 4 \in Nat /\ 6 \in Nat /\ 8 \in Nat /\ 10 \in Nat /\ 14 \in Nat
    OBVIOUS
  <1>6. /\ FromBe(w, 0) = m.src_port /\ FromBe(w, 2) = m.dst_port
        /\ FromBe(w, 4) = m.seq_num[1] /\ FromBe(w, 6) = m.seq_num[2]
        /\ FromBe(w, 8) = m.ack_num[1] /\ FromBe(w, 10) = m.ack_num[2]
        /\ FromBe(w, 14) = m.window
    <2>1. FromBe(w, 0) = m.src_port
      BY <1>3, <1>4, <1>5, ReadsField, Zenon
    <2>2. FromBe(w, 2) = m.dst_port
      BY <1>3, <1>4, <1>5, ReadsField, Zenon
    <2>3. FromBe(w, 4) = m.seq_num[1]
      <3>1. m.seq_num[1] \in U16 /\ Behind(w, 4, ToBe(m.seq_num[1])) /\ 4 \in Nat
        BY <1>3, <1>4, <1>5, Zenon
      <3> QED  BY <3>1, ReadsField, Zenon
    <2>4. FromBe(w, 6) = m.seq_num[2]
      <3>1. m.seq_num[2] \in U16 /\ Behind(w, 6, ToBe(m.seq_num[2])) /\ 6 \in Nat
        BY <1>3, <1>4, <1>5, Zenon
      <3> QED  BY <3>1, ReadsField, Zenon
    <2>5. FromBe(w, 8) = m.ack_num[1]
      <3>1. m.ack_num[1] \in U16 /\ Behind(w, 8, ToBe(m.ack_num[1])) /\ 8 \in Nat
        BY <1>3, <1>4, <1>5, Zenon
      <3> QED  BY <3>1, ReadsField, Zenon
    <2>6. FromBe(w, 10) = m.ack_num[2]
      <3>1. m.ack_num[2] \in U16 /\ Behind(w, 10, ToBe(m.ack_num[2])) /\ 10 \in Nat
        BY <1>3, <1>4, <1>5, Zenon
      <3> QED  BY <3>1, ReadsField, Zenon
    <2>7. FromBe(w, 14) = m.window
      BY <1>3, <1>4, <1>5, ReadsField, Zenon
    <2> QED  BY <2>1, <2>2, <2>3, <2>4, <2>5, <2>6, <2>7
  <1>7. w[13] = 80 /\ w[14] = m.flags
    <2>1. Len(<< 80, m.flags >>) = 2 /\ << 80, m.flags >>[1] = 80 /\ << 80, m.flags >>[2] = m.flags
      OBVIOUS
    <2>2. \A i \in 1 .. 2 : w[12 + i] = << 80, m.flags >>[i]
      BY <1>4, <2>1, Zenon DEF Behind
    <2>3. w[12 + 1] = 80 /\ w[12 + 2] = m.flags
      BY <2>1, <2>2
    <2> QED  BY <2>3
  <1>8. (w[13] \div 16) * 4 = 20
    BY <1>7
  <1>9. ~(Len(w) < 20) /\ ~(20 > Len(w)) /\ Len(w) \in Nat /\ 20 \in Nat /\ Len(w) <= Len(w)
    BY <1>2
  <1>10. Slice(w, 20, Len(w)) = m.payload
    BY <1>2, <1>3, <1>9, SliceIs, Zenon DEF Behind
  <1>11. TcpParse(w) = Some(m)
    BY <1>3, <1>6, <1>7, <1>8, <1>9, <1>10, Zenon DEF TcpParse
  <1> QED  BY <1>1, <1>11, Zenon

-----------------------------------------------------------------------------
(* What the sender puts before the message.                                 *)

\* A number cut to sixteen bits is a u16.
LEMMA CutToU16 == ASSUME NEW n \in Nat PROVE n % TwoTo16 \in U16
  <1>1. TwoTo16 \in Nat /\ TwoTo16 > 0
    BY DEF TwoTo16
  <1>2. ASSUME NEW k \in Nat, k > 0 PROVE n % k \in 0 .. k - 1
    BY <1>2
  <1> QED  BY <1>1, <1>2, Zenon DEF U16

\* A run of zero bytes.
LEMMA ZerosType == ASSUME NEW n \in Nat PROVE Zeros(n) \in Seq(Byte) /\ Len(Zeros(n)) = n
  <1>1. Zeros(n) \in [1 .. n -> Byte]
    BY DEF Zeros, Byte
  <1> QED  BY <1>1 DEF Zeros

\* The first ten bytes of an IPv4 header.
IpFront(k, l, p) == Cat(Cat(Cat(<< 64 + k, 0 >>, ToBe(l)), << 0, 1, 64, 0 >>), << 64, p >>)

IsFront(u, k, p) == u \in Seq(Byte) /\ Len(u) = 10 /\ u[1] = 64 + k /\ u[10] = p

\* The version and the header length are the first byte, the protocol the tenth.
LEMMA IpFrontIs ==
  ASSUME NEW k \in 5 .. 15, NEW l \in U16, NEW p \in Byte, NEW u, u = IpFront(k, l, p)
  PROVE  IsFront(u, k, p)
  <1>1. PICK a, c, e : a = << 64 + k, 0 >> /\ c = << 0, 1, 64, 0 >> /\ e = << 64, p >>
    BY Zenon
  <1>2. /\ a \in Seq(Byte) /\ Len(a) = 2 /\ a[1] = 64 + k
        /\ c \in Seq(Byte) /\ Len(c) = 4
        /\ e \in Seq(Byte) /\ Len(e) = 2 /\ e[2] = p
    BY <1>1 DEF Byte
  <1>3. ToBe(l) \in Seq(Byte) /\ Len(ToBe(l)) = 2
    BY ToBeFacts, Zenon
  <1>4. PICK x : x = Cat(a, ToBe(l))
    BY Zenon
  <1>5. Joins(Byte, x, a, ToBe(l))
    BY <1>2, <1>3, <1>4, Joined, Zenon
  <1>6. x \in Seq(Byte) /\ Len(x) = 4 /\ x[1] = a[1]
    BY <1>2, <1>3, <1>5 DEF Joins, Starts
  <1>7. PICK y : y = Cat(x, c)
    BY Zenon
  <1>8. Joins(Byte, y, x, c)
    BY <1>2, <1>6, <1>7, Joined, Zenon
  <1>9. y \in Seq(Byte) /\ Len(y) = 8 /\ y[1] = x[1]
    BY <1>2, <1>6, <1>8 DEF Joins, Starts
  <1>10. u = Cat(y, e)
    BY <1>1, <1>4, <1>7, Zenon DEF IpFront
  <1>11. Joins(Byte, u, y, e)
    BY <1>2, <1>9, <1>10, Joined, Zenon
  <1>12. u \in Seq(Byte) /\ Len(u) = 10 /\ u[1] = y[1] /\ u[10] = e[2]
    BY <1>2, <1>9, <1>11 DEF Joins, Starts, Behind
  <1> QED  BY <1>2, <1>6, <1>9, <1>12, Zenon DEF IsFront

\* The header of a message's packet names its protocol.
Proto(m) == IF IsUdp(m) THEN UDP ELSE TCP

\* Whatever the checksum is, IpHeader is a header.
LEMMA IpHeaderIs ==
  ASSUME NEW n \in Options, NEW sum, Len(bytes) \in Nat, NEW h, h = IpHeader(n, sum)
  PROVE  \E S : Byte \subseteq S /\ IsHeader(S, h, Proto(sent))
  <1>1. PICK j \in 0 .. 10 : n = 4 * j
    BY NetworkAssumption
  <1>2. PICK k \in 5 .. 15 : k = 5 + j
    BY <1>1
  <1>3. n \in Nat /\ 69 + n \div 4 = 64 + k /\ 20 + n = 4 * k
    BY <1>1, <1>2
  <1>4. PICK l : l = (20 + n + Len(bytes)) % TwoTo16
    BY Zenon
  <1>5. l \in U16
    <2>1. 20 + n + Len(bytes) \in Nat
      BY <1>3
    <2> QED  BY <1>4, <2>1, CutToU16, Zenon
  <1>6. Proto(sent) \in Byte
    BY DEF Proto, UDP, TCP, Byte
  <1>7. PICK u : u = IpFront(k, l, Proto(sent))
    BY Zenon
  <1>8. u \in Seq(Byte) /\ Len(u) = 10 /\ u[1] = 64 + k /\ u[10] = Proto(sent)
    <2>1. PICK p \in Byte : p = Proto(sent)
      BY <1>6, Zenon
    <2>2. u = IpFront(k, l, p)
      BY <1>7, <2>1, Zenon
    <2>3. IsFront(u, k, p)
      <3>1. k \in 5 .. 15 /\ l \in U16 /\ p \in Byte
        BY <1>5, <2>1, Zenon
      <3> QED  BY <2>2, <3>1, IpFrontIs, Zenon
    <2> QED  BY <2>1, <2>3, Zenon DEF IsFront
  <1>9. PICK c : c = ToBe(sum)
    BY Zenon
  <1>10. PICK S : S = Byte \cup {sum \div 256, sum % 256}
    BY Zenon
  <1>11. Byte \subseteq S /\ c \in Seq(S) /\ Len(c) = 2
    BY <1>9, <1>10 DEF ToBe
  <1>12. /\ Src \in Seq(Byte) /\ Len(Src) = 4 /\ Dst \in Seq(Byte) /\ Len(Dst) = 4
    BY DEF Src, Dst, Byte
  <1>13. Zeros(n) \in Seq(Byte) /\ Len(Zeros(n)) = n
    BY <1>3, ZerosType, Zenon
  <1>14. u \in Seq(S) /\ Src \in Seq(S) /\ Dst \in Seq(S) /\ Zeros(n) \in Seq(S)
    BY <1>8, <1>11, <1>12, <1>13, Wider, Zenon
  <1>15. PICK x : x = Cat(u, c)
    BY Zenon
  <1>16. Joins(S, x, u, c)
    BY <1>11, <1>14, <1>15, Joined, Zenon
  <1>17. x \in Seq(S) /\ Len(x) = 12 /\ Starts(x, u)
    BY <1>8, <1>11, <1>16 DEF Joins
  <1>18. PICK y : y = Cat(x, Src)
    BY Zenon
  <1>19. Joins(S, y, x, Src)
    BY <1>14, <1>17, <1>18, Joined, Zenon
  <1>20. y \in Seq(S) /\ Len(y) = 16 /\ Starts(y, x)
    BY <1>12, <1>17, <1>19 DEF Joins
  <1>21. PICK z : z = Cat(y, Dst)
    BY Zenon
  <1>22. Joins(S, z, y, Dst)
    BY <1>14, <1>20, <1>21, Joined, Zenon
  <1>23. z \in Seq(S) /\ Len(z) = 20 /\ Starts(z, y)
    BY <1>12, <1>20, <1>22 DEF Joins
  <1>24. h = Cat(z, Zeros(n))
    <2>1. PICK a : a = 64 + k /\ a = 69 + n \div 4
      BY <1>3, Zenon
    <2>2. u = Cat(Cat(Cat(<< a, 0 >>, ToBe(l)), << 0, 1, 64, 0 >>), << 64, Proto(sent) >>)
      BY <1>7, <2>1, Zenon DEF IpFront
    <2>3. h = << a, 0 >> \o ToBe(l) \o << 0, 1, 64, 0 >> \o << 64, Proto(sent) >> \o c
                \o Src \o Dst \o Zeros(n)
      BY <1>4, <1>9, <2>1, Zenon DEF IpHeader, Proto
    <2> QED  BY <1>15, <1>18, <1>21, <2>2, <2>3, Zenon DEF Cat
  <1>25. Joins(S, h, z, Zeros(n))
    BY <1>14, <1>23, <1>24, Joined, Zenon
  <1>26. h \in Seq(S) /\ Len(h) = 20 + n /\ Starts(h, z)
    BY <1>13, <1>23, <1>25 DEF Joins
  <1>27. Starts(h, u)
    <2>1. Starts(z, x)
      BY <1>17, <1>20, <1>23, StaysFirst, Zenon
    <2>2. Starts(h, x)
      BY <1>17, <1>23, <1>26, <2>1, StaysFirst, Zenon
    <2> QED  BY <1>14, <1>17, <1>26, <2>2, StaysFirst, Zenon
  <1>28. h[1] = 64 + k /\ h[10] = Proto(sent)
    BY <1>8, <1>27 DEF Starts
  <1>29. Len(h) = 4 * k
    BY <1>3, <1>26, Zenon
  <1> QED  BY <1>11, <1>26, <1>28, <1>29, Zenon DEF IsHeader

\* The bytes of a message.
Wire(m) == IF IsUdp(m) THEN UdpSerialize(m) ELSE TcpWire(m)

\* A message is one or the other, and a datagram whose length fits is whole.
LEMMA MessageKinds ==
  ASSUME NEW m \in Messages
  PROVE  /\ IsUdp(m) => m \in UdpMessages /\ (Fits(m) => m \in Datagrams)
         /\ ~IsUdp(m) => m \in TcpMessages
  <1>1. m \in UdpMessages \/ m \in TcpMessages
    BY NetworkAssumption
  <1>2. ASSUME m \in UdpMessages PROVE IsUdp(m)
    BY <1>2 DEF UdpMessages, IsUdp
  <1>3. ASSUME m \in TcpMessages PROVE ~IsUdp(m)
    BY <1>3 DEF TcpMessages, IsUdp
  <1>4. ASSUME m \in UdpMessages, Fits(m) PROVE m \in Datagrams
    <2>1. m \in [src_port : U16, dst_port : U16, payload : Seq(Byte)] /\ m.payload \in Seq(Byte)
      BY <1>4 DEF UdpMessages
    <2>2. 8 + Len(m.payload) \in U16
      <3>1. PICK l : l = Len(m.payload)
        BY Zenon
      <3>2. l \in Nat /\ l <= 65527
        BY <1>4, <2>1, <3>1 DEF Fits
      <3>3. 8 + l \in Nat /\ 8 + l < 65536
        BY <3>2, SMT
      <3> QED  BY <3>1, <3>3, U16Is, SMT
    <2> QED  BY <2>1, <2>2, Zenon DEF Datagrams
  <1> QED  BY <1>1, <1>2, <1>3, <1>4, Zenon

\* Also a datagram that is too long for its length field is written as bytes.
LEMMA UdpBytes == ASSUME NEW m \in UdpMessages PROVE UdpSerialize(m) \in Seq(Byte)
  <1>1. m.src_port \in U16 /\ m.dst_port \in U16 /\ m.payload \in Seq(Byte)
    BY DEF UdpMessages
  <1>2. PICK l : l = (8 + Len(m.payload)) % TwoTo16
    BY Zenon
  <1>3. l \in U16
    <2>1. 8 + Len(m.payload) \in Nat
      BY <1>1
    <2> QED  BY <1>2, <2>1, CutToU16, Zenon
  <1>4. /\ ToBe(m.src_port) \in Seq(Byte) /\ Len(ToBe(m.src_port)) = 2
        /\ ToBe(m.dst_port) \in Seq(Byte) /\ Len(ToBe(m.dst_port)) = 2
        /\ ToBe(l) \in Seq(Byte) /\ Len(ToBe(l)) = 2
    BY <1>1, <1>3, ToBeFacts, Zenon
  <1>5. << 0, 0 >> \in Seq(Byte) /\ Len(<< 0, 0 >>) = 2
    BY DEF Byte
  <1>6. IsWire(Pairs(ToBe(m.src_port), ToBe(m.dst_port), ToBe(l), << 0, 0 >>, m.payload),
               ToBe(m.src_port), ToBe(m.dst_port), ToBe(l), m.payload)
    BY <1>1, <1>4, <1>5, FourPairs, Zenon
  <1>7. UdpSerialize(m) = Pairs(ToBe(m.src_port), ToBe(m.dst_port), ToBe(l), << 0, 0 >>, m.payload)
    BY <1>2, Zenon DEF UdpSerialize, Pairs, Cat
  <1> QED  BY <1>6, <1>7, Zenon DEF IsWire

\* Every message is sent as bytes.
LEMMA WireBytes == ASSUME NEW m \in Messages PROVE Wire(m) \in Seq(Byte) /\ Len(Wire(m)) \in Nat
  <1>1. Wire(m) \in Seq(Byte)
    <2>1. CASE IsUdp(m)
      BY <2>1, MessageKinds, UdpBytes, Zenon DEF Wire
    <2>2. CASE ~IsUdp(m)
      BY <2>2, MessageKinds, TcpLayout, Zenon DEF Wire
    <2> QED  BY <2>1, <2>2
  <1> QED  BY <1>1

-----------------------------------------------------------------------------
(* The inductive invariant, and the steps of the sender.                    *)

\* The header h, over S, stands before the message.
Heads(S, h, m) == Byte \subseteq S /\ IsHeader(S, h, Proto(m))

\* The packet, and the frame around it.
Packet(h, m) == Cat(h, Wire(m))
Frame(h, m) == Cat(EthHeader, Packet(h, m))

\* How the last parser answers once the message is received or dropped.
Ends(answer, m, d) ==
  /\ d # "cut" /\ (IsUdp(m) \/ d = "none") /\ Fits(m) => answer = Some(m)
  /\ d = "cut" /\ IsUdp(m) /\ Fits(m) => answer.is # "Some"

\* The inductive invariant: what each layer finds is the message behind the headers
\* that are still to be read, as the link leaves it.
NetInv ==
  /\ sent \in Messages
  /\ layer \in {"send", "ip", "ethernet", "link"} => damage = "none"
  /\ layer = "ip" => bytes = Wire(sent)
  /\ layer = "ethernet" => \E S, h : Heads(S, h, sent) /\ bytes = Packet(h, sent)
  /\ layer = "link" => \E S, h : Heads(S, h, sent) /\ bytes = Frame(h, sent)
  /\ layer = "frame" => \E S, h : Heads(S, h, sent) /\ Carries(S, bytes, Frame(h, sent), damage)
  /\ layer = "packet" => \E S, h : Heads(S, h, sent) /\ Carries(S, bytes, Packet(h, sent), damage)
  /\ layer = "message" =>
       /\ \E S : Byte \subseteq S /\ Carries(S, bytes, Wire(sent), damage)
       /\ received.packet.protocol = Proto(sent)
  /\ layer = "done" => Ends(received, sent, damage)

\* The packet and the frame are sequences over the set of their bytes.
LEMMA FrameType ==
  ASSUME sent \in Messages, NEW S, NEW h, Heads(S, h, sent)
  PROVE  /\ Wire(sent) \in Seq(S) /\ Packet(h, sent) \in Seq(S) /\ Frame(h, sent) \in Seq(S)
         /\ Len(Frame(h, sent)) \in Nat
  <1>1. Byte \subseteq S /\ h \in Seq(S)
    BY Zenon DEF Heads, IsHeader
  <1>2. Wire(sent) \in Seq(S) /\ EthHeader \in Seq(S)
    BY <1>1, WireBytes, EthHeaderIs, Wider, Zenon
  <1>3. Packet(h, sent) \in Seq(S)
    BY <1>1, <1>2, Joined, Zenon DEF Packet, Joins
  <1>4. Frame(h, sent) \in Seq(S)
    BY <1>2, <1>3, Joined, Zenon DEF Frame, Joins
  <1> QED  BY <1>2, <1>3, <1>4

\* The sender's steps put the headers before the message.
LEMMA SendInv ==
  ASSUME NetInv, Transport \/ (\E n \in Options : WrapIp(n)) \/ WrapEthernet
  PROVE  NetInv'
  <1>1. CASE Transport
    <2>1. /\ layer' = "ip" /\ bytes' = Wire(sent) /\ sent' = sent /\ damage' = damage
          /\ layer = "send"
      BY <1>1, Zenon DEF Transport, Wire
    <2>2. sent' \in Messages /\ damage' = "none" /\ bytes' = Wire(sent')
      BY <2>1 DEF NetInv
    <2> QED  BY <2>1, <2>2 DEF NetInv, Wire
  <1>2. ASSUME NEW n \in Options, WrapIp(n) PROVE NetInv'
    <2>1. PICK h : h = IpHeader(n, Checksum(IpHeader(n, 0)))
      BY Zenon
    <2>2. /\ layer = "ip" /\ layer' = "ethernet" /\ bytes' = h \o bytes
          /\ sent' = sent /\ damage' = damage
      BY <1>2, <2>1, Zenon DEF WrapIp
    <2>3. sent \in Messages /\ damage = "none" /\ bytes = Wire(sent)
      BY <2>2 DEF NetInv
    <2>4. Len(bytes) \in Nat
      BY <2>3, WireBytes, Zenon
    <2>5. \E S : Heads(S, h, sent)
      BY <2>1, <2>4, IpHeaderIs, Zenon DEF Heads
    <2>6. \E S : Heads(S, h, sent') /\ bytes' = Packet(h, sent')
      BY <2>2, <2>3, <2>5, Zenon DEF Packet, Cat
    <2> QED  BY <2>2, <2>3, <2>6 DEF NetInv
  <1>3. CASE WrapEthernet
    <2>1. /\ layer = "ethernet" /\ layer' = "link" /\ sent' = sent /\ damage' = damage
          /\ bytes' = EthSerialize([dst |-> Mac, src |-> Mac, ethertype |-> IPV4, payload |-> bytes])
      BY <1>3, Zenon DEF WrapEthernet
    <2>2. sent \in Messages /\ damage = "none" /\ \E S, h : Heads(S, h, sent) /\ bytes = Packet(h, sent)
      BY <2>1 DEF NetInv
    <2>3. PICK S, h : Heads(S, h, sent) /\ bytes = Packet(h, sent)
      BY <2>2, Zenon
    <2>4. bytes' = Cat(EthHeader, bytes)
      BY <2>1 DEF EthSerialize, EthHeader, Cat
    <2>5. Heads(S, h, sent') /\ bytes' = Frame(h, sent')
      BY <2>1, <2>3, <2>4, Zenon DEF Frame
    <2> QED  BY <2>1, <2>2, <2>5 DEF NetInv
  <1> QED  BY <1>1, <1>2, <1>3, Zenon

-----------------------------------------------------------------------------
(* The link and the receiver.                                               *)

\* What the link delivers, pads or cuts, it carries.
LEMMA Delivered ==
  ASSUME NEW S, NEW w \in Seq(S)
  PROVE  Carries(S, w, w, "none")
  BY DEF Carries

\* Bytes of padding behind a frame.
LEMMA Padded ==
  ASSUME NEW S, NEW w \in Seq(S), NEW z \in Seq(S)
  PROVE  Carries(S, Cat(w, z), w, "padded")
  <1>1. Joins(S, Cat(w, z), w, z)
    BY Joined, Zenon
  <1>2. PICK b : b = Cat(w, z)
    BY Zenon
  <1>3. /\ b \in Seq(S) /\ Len(b) = Len(w) + Len(z)
        /\ \A i \in 1 .. Len(w) : b[i] = w[i]
    BY <1>1, <1>2, Zenon DEF Joins, Starts
  <1>4. Len(w) \in Nat /\ Len(z) \in Nat
    OBVIOUS
  <1>5. Carries(S, b, w, "padded")
    BY <1>3, <1>4 DEF Carries
  <1> QED  BY <1>2, <1>5, Zenon

\* A frame of which the end is lost.
LEMMA WasCut ==
  ASSUME NEW S, NEW w \in Seq(S), NEW n \in Nat, n < Len(w)
  PROVE  Carries(S, SubSeq(w, 1, n), w, "cut")
  <1>1. PICK b : b = SubSeq(w, 1, n)
    BY Zenon
  <1>2. b \in Seq(S) /\ Len(b) = n /\ \A i \in 1 .. n : b[i] = w[i]
    BY <1>1
  <1>3. Carries(S, b, w, "cut")
    BY <1>2 DEF Carries
  <1> QED  BY <1>1, <1>3, Zenon

\* The link's steps.
LEMMA LinkInv ==
  ASSUME NetInv, Deliver \/ Pad \/ (\E n \in 0 .. MaxCut : Cut(n))
  PROVE  NetInv'
  <1>1. layer = "link" /\ layer' = "frame" /\ sent' = sent
    BY Zenon DEF Deliver, Pad, Cut
  <1>2. sent \in Messages /\ damage = "none" /\ \E S, h : Heads(S, h, sent) /\ bytes = Frame(h, sent)
    BY <1>1 DEF NetInv
  <1>3. PICK S, h : Heads(S, h, sent) /\ bytes = Frame(h, sent)
    BY <1>2, Zenon
  <1>4. Frame(h, sent) \in Seq(S) /\ Byte \subseteq S
    BY <1>2, <1>3, FrameType, Zenon DEF Heads
  <1>5. Carries(S, bytes', Frame(h, sent), damage')
    <2>1. CASE Deliver
      <3>1. bytes' = Frame(h, sent) /\ damage' = "none"
        BY <1>2, <1>3, <2>1 DEF Deliver
      <3> QED  BY <1>4, <3>1, Delivered, Zenon
    <2>2. CASE Pad
      <3>1. bytes' = Cat(Frame(h, sent), Zeros(MinFrame - Len(bytes))) /\ damage' = "padded"
        BY <1>3, <2>2, Zenon DEF Pad, Cat
      <3>2. MinFrame - Len(bytes) \in Nat
        BY <1>3, <1>4, <2>2, NetworkAssumption DEF Pad
      <3>3. Zeros(MinFrame - Len(bytes)) \in Seq(S)
        BY <1>4, <3>2, ZerosType, Wider, Zenon
      <3> QED  BY <1>4, <3>1, <3>3, Padded, Zenon
    <2>3. ASSUME NEW n \in 0 .. MaxCut, Cut(n) PROVE Carries(S, bytes', Frame(h, sent), damage')
      <3>1. bytes' = SubSeq(Frame(h, sent), 1, n) /\ n < Len(Frame(h, sent)) /\ damage' = "cut"
        BY <1>3, <2>3, Zenon DEF Cut
      <3>2. n \in Nat
        OBVIOUS
      <3> QED  BY <1>4, <3>1, <3>2, WasCut, Zenon
    <2> QED  BY <2>1, <2>2, <2>3, Zenon
  <1>6. Heads(S, h, sent') /\ Carries(S, bytes', Frame(h, sent'), damage')
    BY <1>1, <1>3, <1>5, Zenon
  <1> QED  BY <1>1, <1>2, <1>6 DEF NetInv

\* A datagram or segment that arrives whole is parsed, a datagram that was cut is not.
LEMMA MessageOutcome ==
  ASSUME sent \in Messages, NEW S, Byte \subseteq S, Carries(S, bytes, Wire(sent), damage),
         NEW answer, answer = IF Proto(sent) = UDP THEN UdpParse(bytes) ELSE TcpParse(bytes)
  PROVE  Ends(answer, sent, damage)
  <1>1. CASE IsUdp(sent)
    <2>1. Proto(sent) = UDP /\ Wire(sent) = UdpSerialize(sent)
      BY <1>1, Zenon DEF Proto, Wire
    <2>2. ASSUME Fits(sent)
          PROVE  /\ damage # "cut" => answer = Some(sent)
                 /\ damage = "cut" => answer = None
      <3>1. sent \in Datagrams
        BY <1>1, <2>2, MessageKinds, Zenon
      <3> QED  BY <2>1, <3>1, UdpReceives, Zenon
    <2>3. None.is # "Some"
      BY DEF None
    <2> QED  BY <2>2, <2>3, Zenon DEF Ends
  <1>2. CASE ~IsUdp(sent)
    <2>1. Proto(sent) = TCP /\ Wire(sent) = TcpWire(sent)
      BY <1>2, Zenon DEF Proto, Wire
    <2>2. TCP # UDP
      BY DEF TCP, UDP
    <2>3. answer = TcpParse(bytes)
      BY <2>1, <2>2, Zenon
    <2>4. sent \in TcpMessages
      BY <1>2, MessageKinds, Zenon
    <2>5. ASSUME damage = "none" PROVE answer = Some(sent)
      <3>1. Wire(sent) \in Seq(S) /\ Len(Wire(sent)) \in Nat
        BY WireBytes, Wider, Zenon
      <3>2. Left(S, bytes, Wire(sent), "none")
        BY <2>5, <3>1, CarriesLeft, Zenon
      <3>3. PICK w : w = Wire(sent)
        BY Zenon
      <3>4. bytes \in Seq(S) /\ Len(bytes) = Len(w) /\ \A i \in 1 .. Len(bytes) : bytes[i] = w[i]
        BY <3>1, <3>2, <3>3 DEF Left
      <3>5. bytes = w
        BY <3>1, <3>3, <3>4, SameElements
      <3> QED  BY <2>1, <2>3, <2>4, <3>3, <3>5, TcpReadsBack, Zenon
    <2> QED  BY <1>2, <2>5, Zenon DEF Ends
  <1> QED  BY <1>1, <1>2

\* The receiver's steps.
LEMMA ReceiveInv ==
  ASSUME NetInv, ReceiveFrame \/ ReceivePacket \/ ReceiveMessage
  PROVE  NetInv'
  <1>0. sent \in Messages
    BY Zenon DEF NetInv
  <1>1. ASSUME ReceiveFrame PROVE NetInv'
    <2>1. PICK a : a = EthParse(bytes)
      BY Zenon
    <2>2. /\ layer = "frame" /\ received' = a /\ sent' = sent /\ damage' = damage
          /\ a.is = "Some" => layer' = "packet" /\ bytes' = a.packet.payload
          /\ a.is # "Some" => layer' = "done"
      BY <1>1, <2>1, Zenon DEF ReceiveFrame, Receive
    <2>3. PICK S, h : Heads(S, h, sent) /\ Carries(S, bytes, Frame(h, sent), damage)
      BY <2>2, Zenon DEF NetInv
    <2>4. Packet(h, sent) \in Seq(S) /\ Byte \subseteq S
      BY <1>0, <2>3, FrameType, Zenon DEF Heads
    <2>5. Passes(a, S, Packet(h, sent), damage)
      BY <2>1, <2>3, <2>4, EthReceives, Zenon DEF Frame
    <2>6. CASE a.is = "Some"
      <3>1. Carries(S, bytes', Packet(h, sent), damage')
        BY <2>2, <2>5, <2>6, Zenon DEF Passes
      <3>2. Heads(S, h, sent') /\ Carries(S, bytes', Packet(h, sent'), damage')
        BY <2>2, <2>3, <3>1, Zenon
      <3> QED  BY <1>0, <2>2, <2>6, <3>2 DEF NetInv
    <2>7. CASE a.is # "Some"
      <3>1. damage' = "cut"
        BY <2>2, <2>5, <2>7, Zenon DEF Passes
      <3>2. Ends(received', sent', damage')
        BY <2>2, <2>7, <3>1, Zenon DEF Ends
      <3> QED  BY <1>0, <2>2, <2>7, <3>2 DEF NetInv
    <2> QED  BY <2>6, <2>7
  <1>2. ASSUME ReceivePacket PROVE NetInv'
    <2>1. PICK a : a = IpParse(bytes)
      BY Zenon
    <2>2. /\ layer = "packet" /\ received' = a /\ sent' = sent /\ damage' = damage
          /\ a.is = "Some" => layer' = "message" /\ bytes' = a.packet.payload
          /\ a.is # "Some" => layer' = "done"
      BY <1>2, <2>1, Zenon DEF ReceivePacket, Receive
    <2>3. PICK S, h : Heads(S, h, sent) /\ Carries(S, bytes, Packet(h, sent), damage)
      BY <2>2, Zenon DEF NetInv
    <2>4. Wire(sent) \in Seq(S) /\ Byte \subseteq S /\ IsHeader(S, h, Proto(sent))
      BY <1>0, <2>3, FrameType, Zenon DEF Heads
    <2>5. Passes(a, S, Wire(sent), damage) /\ Names(a, Proto(sent))
      BY <2>1, <2>3, <2>4, IpReceives, Zenon DEF Packet
    <2>6. CASE a.is = "Some"
      <3>1. Carries(S, bytes', Wire(sent), damage')
        BY <2>2, <2>5, <2>6, Zenon DEF Passes
      <3>2. Carries(S, bytes', Wire(sent'), damage') /\ received'.packet.protocol = Proto(sent')
        BY <2>2, <2>5, <2>6, <3>1, Zenon DEF Names
      <3> QED  BY <1>0, <2>2, <2>4, <2>6, <3>2 DEF NetInv
    <2>7. CASE a.is # "Some"
      <3>1. damage' = "cut"
        BY <2>2, <2>5, <2>7, Zenon DEF Passes
      <3>2. Ends(received', sent', damage')
        BY <2>2, <2>7, <3>1, Zenon DEF Ends
      <3> QED  BY <1>0, <2>2, <2>7, <3>2 DEF NetInv
    <2> QED  BY <2>6, <2>7
  <1>3. ASSUME ReceiveMessage PROVE NetInv'
    <2>1. layer = "message"
      BY <1>3, Zenon DEF ReceiveMessage, Receive
    <2>2. PICK a : a = IF Proto(sent) = UDP THEN UdpParse(bytes) ELSE TcpParse(bytes)
      BY Zenon
    <2>3. PICK S : Byte \subseteq S /\ Carries(S, bytes, Wire(sent), damage)
      BY <2>1, Zenon DEF NetInv
    <2>4. received.packet.protocol = Proto(sent)
      BY <2>1, Zenon DEF NetInv
    <2>5. layer' = "done" /\ received' = a /\ sent' = sent /\ damage' = damage
      BY <1>3, <2>2, <2>4, Zenon DEF ReceiveMessage, Receive
    <2>6. Ends(a, sent, damage)
      BY <1>0, <2>2, <2>3, MessageOutcome, Zenon
    <2>7. Ends(received', sent', damage')
      BY <2>5, <2>6, Zenon
    <2> QED  BY <1>0, <2>5, <2>7 DEF NetInv
  <1> QED  BY <1>1, <1>2, <1>3

\* The invariant holds in every reachable state.
LEMMA NetInvHolds == Spec => []NetInv
  <1>1. Init => NetInv
    BY DEF Init, NetInv
  <1>2. NetInv /\ [Next]_nvars => NetInv'
    <2> SUFFICES ASSUME NetInv, [Next]_nvars PROVE NetInv'
      OBVIOUS
    <2>1. CASE Next
      BY <2>1, SendInv, LinkInv, ReceiveInv, Zenon DEF Next
    <2>2. CASE UNCHANGED nvars
      BY <2>2, Zenon DEF nvars, NetInv
    <2> QED  BY <2>1, <2>2
  <1> QED  BY <1>1, <1>2, PTL DEF Spec

\* What the kernel parses is what was sent, through three layers and with IP options:
\* datagrams of every size that fits, also out of a padded frame, and segments out
\* of an unpadded one.
THEOREM EveryMessageArrives == Spec => []MessageArrives
  <1>1. NetInv => MessageArrives
    <2> SUFFICES ASSUME NetInv, layer = "done", Fits(sent),
                        damage \in (IF IsUdp(sent) THEN {"none", "padded"} ELSE {"none"})
                 PROVE  received = Some(sent)
      BY Zenon DEF MessageArrives
    <2>1. Ends(received, sent, damage)
      BY Zenon DEF NetInv
    <2>2. damage # "cut" /\ (IsUdp(sent) \/ damage = "none")
      OBVIOUS
    <2> QED  BY <2>1, <2>2, Zenon DEF Ends
  <1> QED  BY <1>1, NetInvHolds, PTL

\* Wherever a frame is cut, the kernel parses the datagram that was sent or none.
THEOREM NoDatagramIsShort == Spec => []NoShortDatagram
  <1>1. NetInv => NoShortDatagram
    <2> SUFFICES ASSUME NetInv, layer = "done", IsUdp(sent), Fits(sent), received.is = "Some"
                 PROVE  received.packet = sent
      BY Zenon DEF NoShortDatagram
    <2>1. Ends(received, sent, damage)
      BY Zenon DEF NetInv
    <2>2. received = Some(sent)
      BY <2>1, Zenon DEF Ends
    <2> QED  BY <2>2 DEF Some
  <1> QED  BY <1>1, NetInvHolds, PTL

-----------------------------------------------------------------------------
(* The checksum: adding the carries back in.                                *)

\* Every set of natural numbers has a least one.
LEMMA Least ==
  ASSUME NEW T, T \subseteq Nat, T # {}
  PROVE  \E x \in T : \A y \in T : x <= y
  <1>1. IsWellFoundedOn(OpToRel(<, Nat), Nat)
    BY NatLessThanWellFounded, Zenon
  <1>2. PICK x \in T : \A y \in T : ~(<<y, x>> \in OpToRel(<, Nat))
    BY <1>1, WFMin, Zenon
  <1>3. ASSUME NEW y \in T PROVE x <= y
    <2>1. ~(y < x)
      BY <1>2, <1>3, Zenon DEF OpToRel
    <2> QED BY <2>1
  <1> QED BY <1>3

\* The remainder modulo 65535, with 65535 for a multiple: what adding the carries
\* back in leaves.
Carried(n) == IF n = 0 THEN 0 ELSE ((n - 1) % 65535) + 1

\* One step of the loop.
Shorter(n) == (n % TwoTo16) + (n \div TwoTo16)

\* One step of the loop makes a long number shorter and keeps the remainder.
LEMMA ShorterIs ==
  ASSUME NEW n \in Nat
  PROVE  /\ n \div TwoTo16 = 0 => Carried(n) = n
         /\ n \div TwoTo16 # 0 => /\ Shorter(n) \in Nat /\ Shorter(n) < n
                                /\ Carried(Shorter(n)) = Carried(n)
  <1>1. PICK q \in Nat, r \in Nat : q = n \div 65536 /\ r = n % 65536 /\ n = 65536 * q + r /\ r < 65536
    BY SMT
  <1>2. CASE q = 0
    <2>1. n = r
      BY <1>1, <1>2, SMT
    <2>2. Carried(n) = n
      BY <1>1, <2>1, SMT DEF Carried
    <2> QED  BY <1>1, <1>2, <2>2, SMT DEF TwoTo16
  <1>3. CASE q # 0
    <2>1. PICK m \in Nat : m = r + q /\ m > 0 /\ m < n /\ n = m + 65535 * q
      BY <1>1, <1>3, SMT
    <2>2. (n - 1) % 65535 = (m - 1) % 65535
      <3> DEFINE a == (m - 1) \div 65535
                 b == (m - 1) % 65535
      <3>1. a \in Nat /\ b \in Nat /\ m - 1 = 65535 * a + b /\ b < 65535
        BY <2>1, SMT
      <3> HIDE DEF a, b
      <3>2. n - 1 = 65535 * (a + q) + b
        BY <2>1, <3>1, SMT
      <3>3. (n - 1) % 65535 = b
        BY <3>1, <3>2, SMT
      <3> QED  BY <3>3, SMT DEF b
    <2>3. Carried(m) = Carried(n)
      BY <2>1, <2>2, SMT DEF Carried
    <2> QED  BY <1>1, <1>3, <2>1, <2>3, SMT DEF Shorter, TwoTo16
  <1> QED  BY <1>2, <1>3

\* A function that computes what the loop does.
IsFold(f) == f = [n \in Nat |-> IF n \div TwoTo16 = 0 THEN n ELSE f[Shorter(n)]]

\* There is one.
LEMMA FoldExists == \E f : IsFold(f)
  <1> DEFINE f == [n \in Nat |-> Carried(n)]
  <1>1. ASSUME NEW n \in Nat PROVE Carried(n) = IF n \div TwoTo16 = 0 THEN n ELSE f[Shorter(n)]
    BY ShorterIs, SMT
  <1>2. f = [n \in Nat |-> IF n \div TwoTo16 = 0 THEN n ELSE f[Shorter(n)]]
    BY <1>1, Zenon
  <1>3. IsFold(f)
    BY <1>2, Zenon DEF IsFold
  <1> QED  BY <1>3, Zenon

\* And it is what is left modulo 65535.
LEMMA FoldUnique ==
  ASSUME NEW f, IsFold(f), NEW n \in Nat
  PROVE  f[n] = Carried(n)
  <1> DEFINE T == {k \in Nat : f[k] # Carried(k)}
  <1>1. SUFFICES ASSUME T # {} PROVE FALSE
    OBVIOUS
  <1>2. PICK k \in T : \A j \in T : k <= j
    BY <1>1, Least, Zenon
  <1>3. k \in Nat /\ f[k] # Carried(k)
    OBVIOUS
  <1>4. \A j \in Nat : j < k => f[j] = Carried(j)
    BY <1>2
  <1>5. f[k] = IF k \div TwoTo16 = 0 THEN k ELSE f[Shorter(k)]
    BY <1>3, SMT DEF IsFold
  <1> QED  BY <1>3, <1>4, <1>5, ShorterIs, SMT

\* The loop of checksum adds the carries back in until the sum fits sixteen bits.
LEMMA FoldIs == ASSUME NEW n \in Nat PROVE Fold(n) = Carried(n)
  <1> DEFINE f == CHOOSE f : f = [k \in Nat |-> IF k \div TwoTo16 = 0 THEN k ELSE f[(k % TwoTo16) + (k \div TwoTo16)]]
  <1>1. Fold(n) = f[n]
    BY DEF Fold
  <1>2. \E g : g = [k \in Nat |-> IF k \div TwoTo16 = 0 THEN k ELSE g[(k % TwoTo16) + (k \div TwoTo16)]]
    BY FoldExists, Zenon DEF IsFold, Shorter
  <1>3. f = [k \in Nat |-> IF k \div TwoTo16 = 0 THEN k ELSE f[(k % TwoTo16) + (k \div TwoTo16)]]
    BY <1>2, Zenon
  <1> HIDE DEF f
  <1>4. IsFold(f)
    BY <1>3 DEF IsFold, Shorter
  <1> QED  BY <1>1, <1>4, FoldUnique

-----------------------------------------------------------------------------
(* The sum of the words of a header.                                        *)

\* f[i] is the sum of the first i of the numbers g[1] .. g[k].
IsSum(f, g, k) == f = [i \in 0 .. k |-> IF i = 0 THEN 0 ELSE f[i - 1] + g[i]]

Sums(f, g, k) == f[0] = 0 /\ \A i \in 1 .. k : f[i] = f[i - 1] + g[i]

\* The sums begin with zero and each adds the next number.
LEMMA SumSteps ==
  ASSUME NEW k \in Nat, NEW f, NEW g, IsSum(f, g, k)
  PROVE  Sums(f, g, k)
  <1>1. \A i \in 0 .. k : f[i] = IF i = 0 THEN 0 ELSE f[i - 1] + g[i]
    BY Zenon DEF IsSum
  <1> QED  BY <1>1 DEF Sums

\* The sums exist.
LEMMA SumExists ==
  ASSUME NEW k \in Nat, NEW g
  PROVE  \E f : IsSum(f, g, k)
  <1> DEFINE T == {n \in Nat : ~ \E f : IsSum(f, g, n)}
  <1>1. SUFFICES ASSUME T # {} PROVE FALSE
    BY Zenon
  <1>2. PICK n \in T : \A m \in T : n <= m
    BY <1>1, Least, Zenon
  <1>3. n \in Nat /\ ~ \E f : IsSum(f, g, n)
    BY Zenon
  <1>4. CASE n = 0
    <2> DEFINE f == [i \in 0 .. 0 |-> 0]
    <2>1. f = [i \in 0 .. 0 |-> IF i = 0 THEN 0 ELSE f[i - 1] + g[i]]
      OBVIOUS
    <2>2. IsSum(f, g, 0)
      BY <2>1, Zenon DEF IsSum
    <2> QED  BY <1>3, <1>4, <2>2, Zenon
  <1>5. CASE n # 0
    <2>1. n - 1 \in Nat /\ ~(n <= n - 1)
      BY <1>3, <1>5
    <2>2. PICK e : IsSum(e, g, n - 1)
      BY <1>2, <2>1, Zenon
    <2> DEFINE f == [i \in 0 .. n |-> IF i = n THEN e[n - 1] + g[n] ELSE e[i]]
    <2>3. e[0] = 0 /\ \A i \in 1 .. n - 1 : e[i] = e[i - 1] + g[i]
      <3>1. Sums(e, g, n - 1)
        BY <2>1, <2>2, SumSteps, Zenon
      <3> QED  BY <3>1, Zenon DEF Sums
    <2>4. ASSUME NEW i \in 0 .. n PROVE f[i] = IF i = 0 THEN 0 ELSE f[i - 1] + g[i]
      <3>1. CASE i = 0
        BY <1>3, <1>5, <2>3, <3>1
      <3>2. CASE i = n
        <4>1. f[n - 1] = e[n - 1]
          BY <1>3, <2>1
        <4> QED  BY <1>3, <1>5, <3>2, <4>1
      <3>3. CASE i \in 1 .. n - 1
        <4>1. f[i] = e[i] /\ f[i - 1] = e[i - 1]
          BY <1>3, <3>3
        <4> QED  BY <2>3, <3>3, <4>1
      <3> QED  BY <1>3, <3>1, <3>2, <3>3
    <2>5. f = [i \in 0 .. n |-> IF i = 0 THEN 0 ELSE f[i - 1] + g[i]]
      BY <2>4, Zenon
    <2>6. IsSum(f, g, n)
      BY <2>5, Zenon DEF IsSum
    <2> QED  BY <1>3, <2>6, Zenon
  <1> QED  BY <1>4, <1>5

\* A sum of natural numbers is one, and no less than the first of them.
LEMMA SumNat ==
  ASSUME NEW k \in Nat, NEW g \in [1 .. k -> Nat], NEW f, IsSum(f, g, k)
  PROVE  f[k] \in Nat /\ (k > 0 => f[k] >= g[1])
  <1> DEFINE Good(i) == f[i] \in Nat /\ (i > 0 => f[i] >= g[1])
             T == {i \in 0 .. k : ~Good(i)}
  <1>1. f[0] = 0 /\ \A i \in 1 .. k : f[i] = f[i - 1] + g[i]
    <2>1. Sums(f, g, k)
      BY SumSteps, Zenon
    <2> QED  BY <2>1, Zenon DEF Sums
  <1>2. SUFFICES ASSUME T # {} PROVE FALSE
    OBVIOUS
  <1>3. T \subseteq Nat
    OBVIOUS
  <1> HIDE DEF T
  <1>4. PICK n \in T : \A m \in T : n <= m
    BY <1>2, <1>3, Least, Zenon
  <1>5. n \in 0 .. k /\ ~Good(n)
    BY DEF T
  <1>6. n # 0
    BY <1>1, <1>5
  <1>7. n - 1 \in 0 .. k /\ ~(n <= n - 1) /\ n \in 1 .. k
    BY <1>5, <1>6
  <1>8. Good(n - 1)
    BY <1>4, <1>7 DEF T
  <1>9. f[n] = f[n - 1] + g[n] /\ g[n] \in Nat
    BY <1>1, <1>7
  <1>10. CASE n = 1
    BY <1>1, <1>5, <1>7, <1>9, <1>10
  <1>11. CASE n # 1
    <2>1. n - 1 > 0
      BY <1>5, <1>6, <1>11
    <2>2. g[1] \in Nat
      BY <1>7
    <2> QED  BY <1>5, <1>8, <1>9, <2>1, <2>2
  <1> QED  BY <1>10, <1>11

\* h is g but for h[j], which is greater by c.
Differs(h, g, k, j, c) ==
  /\ g \in [1 .. k -> Nat] /\ h \in [1 .. k -> Nat] /\ j \in 1 .. k /\ c \in Nat
  /\ h[j] = g[j] + c /\ \A i \in 1 .. k : i # j => h[i] = g[i]

\* The last of the sums f is greater by c than that of e.
Exceeds(f, e, k, c) == f[k] = e[k] + c

\* Two sums whose numbers differ in one place differ by what the numbers there do.
LEMMA SumDiffers ==
  ASSUME NEW k \in Nat, NEW g, NEW h, NEW j, NEW c, Differs(h, g, k, j, c),
         NEW e, IsSum(e, g, k), NEW f, IsSum(f, h, k)
  PROVE  Exceeds(f, e, k, c)
  <1> j \in 1 .. k /\ c \in Nat /\ g \in [1 .. k -> Nat] /\ h \in [1 .. k -> Nat]
    BY Zenon DEF Differs
  <1> DEFINE Good(i) == e[i] \in Nat /\ f[i] = e[i] + (IF i < j THEN 0 ELSE c)
             T == {i \in 0 .. k : ~Good(i)}
  <1>1. /\ e[0] = 0 /\ \A i \in 1 .. k : e[i] = e[i - 1] + g[i]
        /\ f[0] = 0 /\ \A i \in 1 .. k : f[i] = f[i - 1] + h[i]
    <2>1. Sums(e, g, k) /\ Sums(f, h, k)
      BY SumSteps, Zenon
    <2> QED  BY <2>1, Zenon DEF Sums
  <1>2. CASE T = {}
    <2>1. Good(k)
      BY <1>2
    <2> QED  BY <2>1 DEF Exceeds
  <1>3. CASE T # {}
    <2>1. T \subseteq Nat
      OBVIOUS
    <2> HIDE DEF T
    <2>2. PICK n \in T : \A m \in T : n <= m
      BY <1>3, <2>1, Least, Zenon
    <2>3. n \in 0 .. k /\ ~Good(n)
      BY DEF T
    <2>4. n # 0
      BY <1>1, <2>3
    <2>5. n - 1 \in 0 .. k /\ ~(n <= n - 1) /\ n \in 1 .. k
      BY <2>3, <2>4
    <2>6. Good(n - 1)
      BY <2>2, <2>5 DEF T
    <2>7. e[n] = e[n - 1] + g[n] /\ f[n] = f[n - 1] + h[n] /\ g[n] \in Nat /\ h[n] \in Nat
      BY <1>1, <2>5
    <2>8. h[n] = g[n] + IF n = j THEN c ELSE 0
      BY <2>5, <2>7 DEF Differs
    <2>9. e[n] \in Nat
      <3>1. PICK a : a = e[n - 1] /\ a \in Nat
        BY <2>6, Zenon
      <3>2. PICK b : b = g[n] /\ b \in Nat
        BY <2>7, Zenon
      <3>3. e[n] = a + b
        BY <2>7, <3>1, <3>2, Zenon
      <3>4. \A x, y \in Nat : x + y \in Nat
        OBVIOUS
      <3> QED  BY <3>1, <3>2, <3>3, <3>4, Zenon
    <2>10. f[n] = e[n] + (IF n < j THEN 0 ELSE c)
      <3>1. CASE n < j
        BY <2>5, <2>6, <2>7, <2>8, <3>1
      <3>2. CASE n = j
        BY <2>5, <2>6, <2>7, <2>8, <3>2
      <3>3. CASE n > j
        BY <2>5, <2>6, <2>7, <2>8, <3>3
      <3> QED  BY <2>5, <3>1, <3>2, <3>3
    <2> QED  BY <2>3, <2>9, <2>10
  <1> QED  BY <1>2, <1>3

\* The words of a header.
Words16(h) == [i \in 1 .. (Len(h) + 1) \div 2 |-> Word(h, i)]

\* Each word is a number.
LEMMA WordsType ==
  ASSUME NEW h \in Seq(Byte)
  PROVE  /\ (Len(h) + 1) \div 2 \in Nat
         /\ Words16(h) \in [1 .. (Len(h) + 1) \div 2 -> Nat]
  <1>1. (Len(h) + 1) \div 2 \in Nat
    OBVIOUS
  <1>2. \A b \in Byte : b \in Nat
    BY DEF Byte
  <1>3. ASSUME NEW i \in 1 .. (Len(h) + 1) \div 2 PROVE Word(h, i) \in Nat
    <2>1. 2 * i - 1 \in 1 .. Len(h)
      OBVIOUS
    <2>2. h[2 * i - 1] \in Byte
      BY <2>1
    <2>3. CASE 2 * i <= Len(h)
      <3>1. 2 * i \in 1 .. Len(h)
        BY <2>3
      <3>2. h[2 * i] \in Byte
        BY <3>1
      <3>3. (2 * i - 2) + 1 = 2 * i - 1 /\ (2 * i - 2) + 2 = 2 * i
        OBVIOUS
      <3>4. Word(h, i) = h[2 * i - 1] * 256 + h[2 * i]
        BY <2>3, <3>3, SMT DEF Word, FromBe, Be
      <3>5. h[2 * i - 1] \in Nat /\ h[2 * i] \in Nat
        BY <1>2, <2>2, <3>2, Zenon
      <3> QED  BY <3>4, <3>5, SMT
    <2>4. CASE ~(2 * i <= Len(h))
      <3>1. Word(h, i) = h[2 * i - 1] * 256
        BY <2>4, Zenon DEF Word
      <3>2. h[2 * i - 1] \in Nat
        BY <1>2, <2>2, Zenon
      <3> QED  BY <3>1, <3>2, SMT
    <2> QED  BY <2>3, <2>4
  <1> QED  BY <1>1, <1>3 DEF Words16

\* WordSum is the last of the sums of the words.
LEMMA WordSumIs ==
  ASSUME NEW h \in Seq(Byte), NEW k, k = (Len(h) + 1) \div 2
  PROVE  \E f : IsSum(f, Words16(h), k) /\ WordSum(h) = f[k]
  <1> DEFINE f == CHOOSE f : f = [i \in 0 .. (Len(h) + 1) \div 2 |-> IF i = 0 THEN 0 ELSE f[i - 1] + Word(h, i)]
  <1>1. WordSum(h) = f[k]
    BY DEF WordSum
  <1>2. k \in Nat
    OBVIOUS
  <1>3. PICK e : IsSum(e, Words16(h), k)
    BY <1>2, SumExists, Zenon
  <1>4. ASSUME NEW i \in 0 .. k, i # 0 PROVE Words16(h)[i] = Word(h, i)
    BY <1>2, <1>4 DEF Words16
  <1>5. e = [i \in 0 .. k |-> IF i = 0 THEN 0 ELSE e[i - 1] + Word(h, i)]
    BY <1>3, <1>4, Zenon DEF IsSum
  <1>6. f = [i \in 0 .. k |-> IF i = 0 THEN 0 ELSE f[i - 1] + Word(h, i)]
    BY <1>5, Zenon
  <1> HIDE DEF f
  <1>7. IsSum(f, Words16(h), k)
    BY <1>4, <1>6, Zenon DEF IsSum
  <1> QED  BY <1>1, <1>7, Zenon

\* The one's complement sum of every header is a number.
LEMMA WordSumNat == ASSUME NEW h \in Seq(Byte) PROVE WordSum(h) \in Nat
  <1>1. PICK k : k = (Len(h) + 1) \div 2
    BY Zenon
  <1>2. PICK f : IsSum(f, Words16(h), k) /\ WordSum(h) = f[k]
    BY <1>1, WordSumIs, Zenon
  <1>3. k \in Nat /\ Words16(h) \in [1 .. k -> Nat]
    BY <1>1, WordsType, Zenon
  <1> QED  BY <1>2, <1>3, SumNat, Zenon

-----------------------------------------------------------------------------
(* A header with and without its checksum.                                  *)

\* The checksum is the complement of the one's complement sum.
LEMMA ChecksumIs ==
  ASSUME NEW h \in Seq(Byte)
  PROVE  Checksum(h) = 65535 - Carried(WordSum(h))
  <1>1. PICK s \in Nat : s = WordSum(h)
    BY WordSumNat, Zenon
  <1>2. Fold(s) = Carried(s)
    BY FoldIs, Zenon
  <1>3. TwoTo16 - 1 = 65535
    BY SMT DEF TwoTo16
  <1>4. Checksum(h) = (TwoTo16 - 1) - Carried(s)
    BY <1>1, <1>2, Zenon DEF Checksum
  <1> QED  BY <1>1, <1>3, <1>4, SMT

\* Adding the complement of a sum to it leaves no carry and every bit set.
LEMMA ComplementAdds ==
  ASSUME NEW s \in Nat, s > 0, NEW c, c = 65535 - Carried(s)
  PROVE  c \in Nat /\ c < 65536 /\ Carried(s + c) = 65535
  <1> DEFINE q == (s - 1) \div 65535
             r == (s - 1) % 65535
  <1>1. q \in Nat /\ r \in Nat /\ s - 1 = 65535 * q + r /\ r < 65535
    BY SMT
  <1>2. Carried(s) = r + 1
    BY SMT DEF Carried
  <1> HIDE DEF q, r
  <1>3. c \in Nat /\ c < 65536 /\ s + c = 65535 * (q + 1)
    BY <1>1, <1>2, SMT
  <1>4. PICK t \in Nat : t = s + c /\ t > 0 /\ t - 1 = 65535 * q + 65534
    BY <1>1, <1>3, SMT
  <1>5. (t - 1) % 65535 = 65534
    BY <1>1, <1>4, SMT
  <1>6. Carried(t) = 65535
    BY <1>4, <1>5, SMT DEF Carried
  <1> QED  BY <1>3, <1>4, <1>6, SMT

\* Two headers that differ in the checksum only.
Alike(h, g) ==
  /\ h \in Seq(Byte) /\ g \in Seq(Byte) /\ Len(h) = Len(g) /\ Len(h) >= 12
  /\ \A i \in 1 .. Len(h) : i # 11 /\ i # 12 => h[i] = g[i]

\* A header with checksum c.
HasSum(h, c) == h \in Seq(Byte) /\ Len(h) >= 12 /\ h[1] > 0 /\ Be(h[11], h[12]) = c

\* Headers stay alike when the same bytes follow.
LEMMA AlikeCat ==
  ASSUME NEW h, NEW g, Alike(h, g), NEW t \in Seq(Byte)
  PROVE  Alike(Cat(h, t), Cat(g, t))
  <1>1. Joins(Byte, Cat(h, t), h, t) /\ Joins(Byte, Cat(g, t), g, t)
    BY Joined, Zenon DEF Alike
  <1>2. PICK x, y : x = Cat(h, t) /\ y = Cat(g, t)
    BY Zenon
  <1>3. Joins(Byte, x, h, t) /\ Joins(Byte, y, g, t)
    BY <1>1, <1>2, Zenon
  <1>4. /\ x \in Seq(Byte) /\ y \in Seq(Byte) /\ Len(x) = Len(h) + Len(t) /\ Len(y) = Len(h) + Len(t)
        /\ Len(h) \in Nat /\ Len(t) \in Nat /\ Len(h) >= 12
    BY <1>3 DEF Alike, Joins
  <1>5. ASSUME NEW i \in 1 .. Len(x), i # 11, i # 12 PROVE x[i] = y[i]
    <2>1. CASE i <= Len(h)
      <3>1. i \in 1 .. Len(h)
        BY <1>4, <2>1
      <3>2. x[i] = h[i] /\ y[i] = g[i] /\ h[i] = g[i]
        BY <1>3, <1>5, <3>1 DEF Joins, Starts, Alike
      <3> QED  BY <3>2
    <2>2. CASE i > Len(h)
      <3>1. PICK j \in 1 .. Len(t) : i = Len(h) + j
        <4>1. i - Len(h) \in 1 .. Len(t) /\ i = Len(h) + (i - Len(h))
          BY <1>4, <2>2
        <4> QED  BY <4>1, Zenon
      <3>2. x[i] = t[j]
        BY <1>3, <3>1, Zenon DEF Joins, Behind
      <3>3. y[i] = t[j]
        BY <1>3, <3>1, Zenon DEF Joins, Behind, Alike
      <3> QED  BY <3>2, <3>3
    <2> QED  BY <1>4, <2>1, <2>2
  <1>6. Alike(x, y)
    BY <1>4, <1>5 DEF Alike
  <1> QED  BY <1>2, <1>6, Zenon

\* The checksum stays where it is when bytes follow.
LEMMA HasSumCat ==
  ASSUME NEW h, NEW c, HasSum(h, c), NEW t \in Seq(Byte)
  PROVE  HasSum(Cat(h, t), c)
  <1>1. Joins(Byte, Cat(h, t), h, t)
    BY Joined, Zenon DEF HasSum
  <1>2. PICK x : x = Cat(h, t)
    BY Zenon
  <1>3. Joins(Byte, x, h, t)
    BY <1>1, <1>2, Zenon
  <1>4. x \in Seq(Byte) /\ Len(x) >= 12 /\ x[1] = h[1] /\ x[11] = h[11] /\ x[12] = h[12]
    BY <1>3 DEF Joins, Starts, HasSum
  <1>5. HasSum(x, c)
    BY <1>4, Zenon DEF HasSum
  <1> QED  BY <1>2, <1>5, Zenon

\* The words of a header of even length are its pairs of bytes.
LEMMA WordIs ==
  ASSUME NEW h \in Seq(Byte), NEW k \in Nat, Len(h) = 2 * k, NEW i \in 1 .. k
  PROVE  /\ (Len(h) + 1) \div 2 = k
         /\ Words16(h)[i] = Be(h[2 * i - 1], h[2 * i])
  <1>1. (Len(h) + 1) \div 2 = k
    OBVIOUS
  <1>2. Words16(h)[i] = Word(h, i)
    BY <1>1 DEF Words16
  <1>3. 2 * i <= Len(h) /\ (2 * i - 2) + 1 = 2 * i - 1 /\ (2 * i - 2) + 2 = 2 * i
    OBVIOUS
  <1>4. Word(h, i) = Be(h[2 * i - 1], h[2 * i])
    BY <1>3, Zenon DEF Word, FromBe
  <1> QED  BY <1>1, <1>2, <1>4, Zenon

\* The sums of two headers that differ in the checksum only differ by it.
LEMMA SumsDiffer ==
  ASSUME NEW h, NEW g, Alike(h, g), NEW c \in Nat, HasSum(h, c), HasSum(g, 0),
         NEW k \in Nat, Len(h) = 2 * k
  PROVE  WordSum(g) \in Nat /\ WordSum(g) > 0 /\ WordSum(h) = WordSum(g) + c
  <1>1. h \in Seq(Byte) /\ g \in Seq(Byte) /\ Len(g) = 2 * k /\ k >= 6
    BY DEF Alike
  <1>2. k = (Len(h) + 1) \div 2 /\ k = (Len(g) + 1) \div 2
    BY <1>1
  <1>3. PICK v, w : v = Words16(h) /\ w = Words16(g)
    BY Zenon
  <1>4. v \in [1 .. k -> Nat] /\ w \in [1 .. k -> Nat]
    BY <1>1, <1>2, <1>3, WordsType, Zenon
  <1>5. PICK f : IsSum(f, v, k) /\ WordSum(h) = f[k]
    BY <1>1, <1>2, <1>3, WordSumIs, Zenon
  <1>6. PICK e : IsSum(e, w, k) /\ WordSum(g) = e[k]
    BY <1>1, <1>2, <1>3, WordSumIs, Zenon
  <1>7. \A i \in 1 .. k : /\ v[i] = Be(h[2 * i - 1], h[2 * i])
                         /\ w[i] = Be(g[2 * i - 1], g[2 * i])
    BY <1>1, <1>3, WordIs, Zenon
  <1>8. ASSUME NEW i \in 1 .. k, i # 6 PROVE v[i] = w[i]
    <2>1. /\ 2 * i - 1 \in 1 .. Len(h) /\ 2 * i \in 1 .. Len(h)
          /\ 2 * i - 1 # 11 /\ 2 * i - 1 # 12 /\ 2 * i # 11 /\ 2 * i # 12
      BY <1>8
    <2>2. h[2 * i - 1] = g[2 * i - 1] /\ h[2 * i] = g[2 * i]
      BY <2>1, Zenon DEF Alike
    <2> QED  BY <1>7, <2>2, Zenon
  <1>9. v[6] = c /\ w[6] = 0 /\ 6 \in 1 .. k /\ 1 \in 1 .. k
    <2>1. 6 \in 1 .. k /\ 1 \in 1 .. k /\ 2 * 6 - 1 = 11 /\ 2 * 6 = 12
      BY <1>1
    <2>2. v[6] = Be(h[11], h[12]) /\ w[6] = Be(g[11], g[12])
      BY <1>7, <2>1
    <2> QED  BY <2>1, <2>2, Zenon DEF HasSum
  <1>10. f[k] = e[k] + c
    <2>1. v[6] = w[6] + c
      BY <1>9
    <2>2. \A i \in 1 .. k : i # 6 => v[i] = w[i]
      BY <1>8, Zenon
    <2>3. Differs(v, w, k, 6, c)
      BY <1>4, <1>9, <2>1, <2>2, Zenon DEF Differs
    <2>4. IsSum(f, v, k) /\ IsSum(e, w, k) /\ k \in Nat
      BY <1>5, <1>6, Zenon
    <2>5. Exceeds(f, e, k, c)
      BY <2>3, <2>4, SumDiffers, Zenon
    <2> QED  BY <2>5, Zenon DEF Exceeds
  <1>11. e[k] \in Nat /\ (k > 0 => e[k] >= w[1])
    BY <1>4, <1>6, SumNat, Zenon
  <1>12. w[1] > 0
    <2>1. w[1] = Be(g[1], g[2])
      <3>1. 2 * 1 - 1 = 1 /\ 2 * 1 = 2
        OBVIOUS
      <3> QED  BY <1>7, <1>9, <3>1
    <2>2. g[1] \in Byte /\ g[2] \in Byte /\ g[1] > 0
      BY <1>1 DEF HasSum
    <2>3. PICK a, b : a = g[1] /\ b = g[2]
      BY Zenon
    <2>4. a \in 0 .. 255 /\ b \in 0 .. 255 /\ a > 0
      BY <2>2, <2>3, Zenon DEF Byte
    <2>5. w[1] = a * 256 + b
      BY <2>1, <2>3, Zenon DEF Be
    <2> QED  BY <2>4, <2>5, SMT
  <1>13. w[1] \in Nat
    BY <1>4, <1>9
  <1> QED  BY <1>1, <1>5, <1>6, <1>10, <1>11, <1>12, <1>13

\* The checksum of a header that leaves it zero is a u16.
LEMMA SumFits ==
  ASSUME NEW g, HasSum(g, 0), NEW k \in Nat, Len(g) = 2 * k
  PROVE  Checksum(g) \in U16
  <1>1. g \in Seq(Byte) /\ Alike(g, g)
    BY Zenon DEF HasSum, Alike
  <1>2. 0 \in Nat
    OBVIOUS
  <1>3. PICK s : s = WordSum(g) /\ s \in Nat /\ s > 0
    BY <1>1, <1>2, SumsDiffer, Zenon
  <1>4. PICK c : c = Checksum(g)
    BY Zenon
  <1>5. c = 65535 - Carried(s)
    BY <1>1, <1>3, <1>4, ChecksumIs, SMT
  <1>6. c \in Nat /\ c < 65536
    BY <1>3, <1>5, ComplementAdds, SMT
  <1>7. c \in U16
    BY <1>6, U16Is, SMT
  <1> QED  BY <1>4, <1>7, Zenon

\* A header that carries the checksum computed without it has checksum zero.
LEMMA SumVerifies ==
  ASSUME NEW h, NEW g, Alike(h, g), HasSum(h, Checksum(g)), HasSum(g, 0),
         NEW k \in Nat, Len(h) = 2 * k
  PROVE  Checksum(h) = 0
  <1>1. h \in Seq(Byte) /\ g \in Seq(Byte) /\ Len(g) = 2 * k
    BY DEF Alike
  <1>2. PICK c : c = Checksum(g)
    BY Zenon
  <1>3. c \in Nat
    <2>1. c \in U16
      BY <1>1, <1>2, SumFits, Zenon
    <2> QED  BY <2>1, U16Is, SMT
  <1>4. HasSum(h, c)
    BY <1>2, Zenon
  <1>5. PICK s : s = WordSum(g) /\ s \in Nat /\ s > 0 /\ WordSum(h) = s + c
    BY <1>3, <1>4, SumsDiffer, Zenon
  <1>6. c = 65535 - Carried(s)
    BY <1>1, <1>2, <1>5, ChecksumIs, SMT
  <1>7. Carried(s + c) = 65535
    BY <1>5, <1>6, ComplementAdds, SMT
  <1>8. Checksum(h) = 65535 - Carried(s + c)
    BY <1>1, <1>5, ChecksumIs, SMT
  <1> QED  BY <1>7, <1>8, SMT

\* The header of a packet with n bytes of options and the checksum sum.
IpTail(u, sum, n) == Cat(Cat(Cat(Cat(u, ToBe(sum)), Src), Dst), Zeros(n))

\* IpHeader puts the checksum behind ten bytes that do not depend on it.
LEMMA IpHeaderTail ==
  ASSUME NEW n \in Options, Len(bytes) \in Nat
  PROVE  \E u \in Seq(Byte) : /\ Len(u) = 10 /\ u[1] > 0
                             /\ \A sum : IpHeader(n, sum) = IpTail(u, sum, n)
  <1>1. PICK j \in 0 .. 10 : n = 4 * j
    BY NetworkAssumption
  <1>2. PICK k \in 5 .. 15 : k = 5 + j
    BY <1>1
  <1>3. n \in Nat /\ 69 + n \div 4 = 64 + k
    BY <1>1, <1>2
  <1>4. PICK l : l = (20 + n + Len(bytes)) % TwoTo16
    BY Zenon
  <1>5. l \in U16
    <2>1. 20 + n + Len(bytes) \in Nat
      BY <1>3
    <2> QED  BY <1>4, <2>1, CutToU16, Zenon
  <1>6. Proto(sent) \in Byte
    BY DEF Proto, UDP, TCP, Byte
  <1>7. PICK p \in Byte : p = Proto(sent)
    BY <1>6, Zenon
  <1>8. PICK u : u = IpFront(k, l, p)
    BY Zenon
  <1>9. IsFront(u, k, p)
    <2>1. k \in 5 .. 15 /\ l \in U16 /\ p \in Byte
      BY <1>5, Zenon
    <2> QED  BY <1>8, <2>1, IpFrontIs, Zenon
  <1>10. u \in Seq(Byte) /\ Len(u) = 10 /\ u[1] > 0
    BY <1>9 DEF IsFront
  <1>11. ASSUME NEW sum PROVE IpHeader(n, sum) = IpTail(u, sum, n)
    <2>1. PICK a : a = 64 + k /\ a = 69 + n \div 4
      BY <1>3, Zenon
    <2>2. u = Cat(Cat(Cat(<< a, 0 >>, ToBe(l)), << 0, 1, 64, 0 >>), << 64, p >>)
      BY <1>8, <2>1, Zenon DEF IpFront
    <2>3. IpHeader(n, sum) =
            << a, 0 >> \o ToBe(l) \o << 0, 1, 64, 0 >> \o << 64, p >> \o ToBe(sum)
              \o Src \o Dst \o Zeros(n)
      BY <1>4, <1>7, <2>1, Zenon DEF IpHeader, Proto
    <2> QED  BY <2>2, <2>3, Zenon DEF Cat, IpTail
  <1> QED  BY <1>10, <1>11, Zenon

\* Ten bytes and two checksums make alike headers, each with its checksum.
LEMMA FrontsAlike ==
  ASSUME NEW u \in Seq(Byte), Len(u) = 10, u[1] > 0, NEW c \in U16, NEW d \in U16
  PROVE  /\ Alike(Cat(u, ToBe(c)), Cat(u, ToBe(d)))
         /\ HasSum(Cat(u, ToBe(c)), c) /\ HasSum(Cat(u, ToBe(d)), d)
  <1>1. PICK a, b : a = ToBe(c) /\ b = ToBe(d)
    BY Zenon
  <1>2. /\ a \in Seq(Byte) /\ Len(a) = 2 /\ Be(a[1], a[2]) = c
        /\ b \in Seq(Byte) /\ Len(b) = 2 /\ Be(b[1], b[2]) = d
    BY <1>1, ToBeFacts, Zenon
  <1>3. PICK x, y : x = Cat(u, a) /\ y = Cat(u, b)
    BY Zenon
  <1>4. Joins(Byte, x, u, a) /\ Joins(Byte, y, u, b)
    BY <1>2, <1>3, Joined, Zenon
  <1>5. /\ x \in Seq(Byte) /\ Len(x) = 12 /\ x[1] = u[1] /\ x[11] = a[1] /\ x[12] = a[2]
        /\ y \in Seq(Byte) /\ Len(y) = 12 /\ y[1] = u[1] /\ y[11] = b[1] /\ y[12] = b[2]
    BY <1>2, <1>4 DEF Joins, Starts, Behind
  <1>6. \A i \in 1 .. 10 : x[i] = u[i] /\ y[i] = u[i]
    BY <1>4 DEF Joins, Starts
  <1>7. Alike(x, y)
    BY <1>5, <1>6 DEF Alike
  <1>8. HasSum(x, c) /\ HasSum(y, d)
    BY <1>2, <1>5 DEF HasSum
  <1> QED  BY <1>1, <1>3, <1>7, <1>8, Zenon

\* So do whole headers.
LEMMA HeadersAlike ==
  ASSUME NEW u \in Seq(Byte), Len(u) = 10, u[1] > 0, NEW n \in Nat, NEW c \in U16, NEW d \in U16
  PROVE  /\ Alike(IpTail(u, c, n), IpTail(u, d, n))
         /\ HasSum(IpTail(u, c, n), c) /\ HasSum(IpTail(u, d, n), d)
  <1>1. PICK x, y : x = Cat(u, ToBe(c)) /\ y = Cat(u, ToBe(d))
    BY Zenon
  <1>2. Alike(x, y) /\ HasSum(x, c) /\ HasSum(y, d)
    BY <1>1, FrontsAlike, Zenon
  <1>3. Src \in Seq(Byte) /\ Dst \in Seq(Byte) /\ Zeros(n) \in Seq(Byte)
    <2>1. Src \in Seq(Byte) /\ Dst \in Seq(Byte)
      BY DEF Src, Dst, Byte
    <2> QED  BY <2>1, ZerosType, Zenon
  <1>4. PICK v, w : v = Cat(x, Src) /\ w = Cat(y, Src)
    BY Zenon
  <1>5. Alike(v, w) /\ HasSum(v, c) /\ HasSum(w, d)
    BY <1>2, <1>3, <1>4, AlikeCat, HasSumCat, Zenon
  <1>6. PICK a, b : a = Cat(v, Dst) /\ b = Cat(w, Dst)
    BY Zenon
  <1>7. Alike(a, b) /\ HasSum(a, c) /\ HasSum(b, d)
    BY <1>3, <1>5, <1>6, AlikeCat, HasSumCat, Zenon
  <1>8. /\ Alike(Cat(a, Zeros(n)), Cat(b, Zeros(n)))
        /\ HasSum(Cat(a, Zeros(n)), c) /\ HasSum(Cat(b, Zeros(n)), d)
    BY <1>3, <1>7, AlikeCat, HasSumCat, Zenon
  <1>9. IpTail(u, c, n) = Cat(a, Zeros(n)) /\ IpTail(u, d, n) = Cat(b, Zeros(n))
    BY <1>1, <1>4, <1>6, Zenon DEF IpTail
  <1> QED  BY <1>8, <1>9, Zenon

\* Its length is a number of 16-bit words.
LEMMA HeaderLength ==
  ASSUME NEW u \in Seq(Byte), Len(u) = 10, NEW n \in Nat, NEW c \in U16
  PROVE  Len(IpTail(u, c, n)) = 20 + n
  <1>1. /\ ToBe(c) \in Seq(Byte) /\ Len(ToBe(c)) = 2
        /\ Zeros(n) \in Seq(Byte) /\ Len(Zeros(n)) = n
    BY ToBeFacts, ZerosType, Zenon
  <1>2. Src \in Seq(Byte) /\ Len(Src) = 4 /\ Dst \in Seq(Byte) /\ Len(Dst) = 4
    BY DEF Src, Dst, Byte
  <1>3. PICK x : x = Cat(u, ToBe(c))
    BY Zenon
  <1>4. x \in Seq(Byte) /\ Len(x) = 12
    <2>1. Joins(Byte, x, u, ToBe(c))
      BY <1>1, <1>3, Joined, Zenon
    <2> QED  BY <1>1, <2>1 DEF Joins
  <1>5. PICK y : y = Cat(x, Src)
    BY Zenon
  <1>6. y \in Seq(Byte) /\ Len(y) = 16
    <2>1. Joins(Byte, y, x, Src)
      BY <1>2, <1>4, <1>5, Joined, Zenon
    <2> QED  BY <1>2, <1>4, <2>1 DEF Joins
  <1>7. PICK z : z = Cat(y, Dst)
    BY Zenon
  <1>8. z \in Seq(Byte) /\ Len(z) = 20
    <2>1. Joins(Byte, z, y, Dst)
      BY <1>2, <1>6, <1>7, Joined, Zenon
    <2> QED  BY <1>2, <1>6, <2>1 DEF Joins
  <1>9. Len(Cat(z, Zeros(n))) = 20 + n
    <2>1. Joins(Byte, Cat(z, Zeros(n)), z, Zeros(n))
      BY <1>1, <1>8, Joined, Zenon
    <2> QED  BY <1>1, <1>8, <2>1 DEF Joins
  <1> QED  BY <1>3, <1>5, <1>7, <1>9, Zenon DEF IpTail

\* The header that WrapIp sends has checksum zero.
LEMMA HeaderVerifies ==
  ASSUME NEW n \in Options, Len(bytes) \in Nat,
         NEW h, h = IpHeader(n, Checksum(IpHeader(n, 0)))
  PROVE  h \in Seq(Byte) /\ Checksum(h) = 0
  <1>1. PICK u \in Seq(Byte) : /\ Len(u) = 10 /\ u[1] > 0
                               /\ \A sum : IpHeader(n, sum) = IpTail(u, sum, n)
    BY IpHeaderTail
  <1>2. PICK j \in 0 .. 10 : n = 4 * j
    BY NetworkAssumption
  <1>3. PICK k \in Nat : 20 + n = 2 * k /\ n \in Nat
    <2>1. 10 + 2 * j \in Nat /\ 20 + n = 2 * (10 + 2 * j) /\ n \in Nat
      BY <1>2
    <2> QED  BY <2>1, Zenon
  <1>4. 0 \in U16
    BY U16Is, SMT
  <1>5. PICK g : g = IpTail(u, 0, n)
    BY Zenon
  <1>6. HasSum(g, 0) /\ Len(g) = 2 * k
    <2>1. HasSum(g, 0)
      BY <1>1, <1>3, <1>4, <1>5, HeadersAlike, Zenon
    <2>2. Len(g) = 20 + n
      BY <1>1, <1>3, <1>4, <1>5, HeaderLength, Zenon
    <2> QED  BY <1>3, <2>1, <2>2, Zenon
  <1>7. PICK c \in U16 : c = Checksum(g)
    BY <1>6, SumFits, Zenon
  <1>8. h = IpTail(u, c, n)
    BY <1>1, <1>5, <1>7, Zenon
  <1>9. Alike(h, g) /\ HasSum(h, c)
    BY <1>1, <1>3, <1>4, <1>5, <1>8, HeadersAlike, Zenon
  <1>10. Len(h) = 2 * k
    <2>1. Len(h) = 20 + n
      BY <1>1, <1>3, <1>8, HeaderLength, Zenon
    <2> QED  BY <1>3, <2>1, Zenon
  <1>11. Checksum(h) = 0
    BY <1>6, <1>7, <1>9, <1>10, SumVerifies, Zenon
  <1>12. h \in Seq(Byte)
    BY <1>9, Zenon DEF Alike
  <1> QED  BY <1>11, <1>12

-----------------------------------------------------------------------------
(* The header that is sent.                                                 *)

\* The header that was sent has checksum zero.
HeaderInv == header # << >> => header \in Seq(Byte) /\ Checksum(header) = 0

\* Only WrapIp writes the header.
LEMMA HeaderStays ==
  ASSUME Next, ~ \E n \in Options : WrapIp(n)
  PROVE  header' = header
  BY Zenon DEF Next, Transport, WrapEthernet, Deliver, Pad, Cut, Receive, ReceiveFrame,
               ReceivePacket, ReceiveMessage

\* And it writes one with checksum zero, in front of the message of NetInv.
LEMMA WrapIpHeader ==
  ASSUME NetInv, NEW n \in Options, WrapIp(n)
  PROVE  HeaderInv'
  <1>1. PICK h : h = IpHeader(n, Checksum(IpHeader(n, 0)))
    BY Zenon
  <1>2. layer = "ip" /\ header' = h
    BY <1>1, Zenon DEF WrapIp
  <1>3. sent \in Messages /\ bytes = Wire(sent)
    BY <1>2, Zenon DEF NetInv
  <1>4. Len(bytes) \in Nat
    BY <1>3, WireBytes, Zenon
  <1>5. h \in Seq(Byte) /\ Checksum(h) = 0
    BY <1>1, <1>4, HeaderVerifies, Zenon
  <1>6. header' \in Seq(Byte) /\ Checksum(header') = 0
    BY <1>2, <1>5, Zenon
  <1> QED  BY <1>6, Zenon DEF HeaderInv

\* checksum is the complement of the one's complement sum of the 16-bit words of any
\* prefix of a header, and zero over a header that carries it.
THEOREM ChecksumsVerify == Spec => []ChecksumVerifies
  <1>1. Init => HeaderInv
    BY DEF Init, HeaderInv
  <1>2. NetInv /\ HeaderInv /\ [Next]_nvars => HeaderInv'
    <2> SUFFICES ASSUME NetInv, HeaderInv, [Next]_nvars PROVE HeaderInv'
      OBVIOUS
    <2>1. CASE \E n \in Options : WrapIp(n)
      BY <2>1, WrapIpHeader, Zenon
    <2>2. CASE ~ \E n \in Options : WrapIp(n)
      <3>1. header' = header
        BY <2>2, HeaderStays, Zenon DEF nvars
      <3> QED  BY <3>1, Zenon DEF HeaderInv
    <2> QED  BY <2>1, <2>2, Zenon
  <1>3. HeaderInv => ChecksumVerifies
    <2> SUFFICES ASSUME HeaderInv, header # << >>
                 PROVE  /\ Checksum(header) = 0
                        /\ \A n \in 0 .. Len(header) :
                             LET sum == WordSum(SubSeq(header, 1, n))
                             IN  Checksum(SubSeq(header, 1, n)) =
                                   65535 - (IF sum = 0 THEN 0 ELSE ((sum - 1) % 65535) + 1)
      BY SMT DEF ChecksumVerifies
    <2>1. header \in Seq(Byte) /\ Checksum(header) = 0
      BY Zenon DEF HeaderInv
    <2>2. ASSUME NEW n \in 0 .. Len(header)
          PROVE  LET sum == WordSum(SubSeq(header, 1, n))
                 IN  Checksum(SubSeq(header, 1, n)) =
                       65535 - (IF sum = 0 THEN 0 ELSE ((sum - 1) % 65535) + 1)
      <3>1. PICK g : g = SubSeq(header, 1, n) /\ g \in Seq(Byte)
        <4>1. SubSeq(header, 1, n) \in Seq(Byte)
          BY <2>1
        <4> QED  BY <4>1, Zenon
      <3>2. Checksum(g) = 65535 - Carried(WordSum(g))
        <4>1. g \in Seq(Byte)
          BY <3>1, Zenon
        <4> QED  BY <4>1, ChecksumIs, SMT
      <3> QED  BY <3>1, <3>2, SMT DEF Carried
    <2> QED  BY <2>1, <2>2, SMT
  <1> QED  BY <1>1, <1>2, <1>3, NetInvHolds, PTL DEF Spec

=============================================================================
