------------------------------ MODULE Packets ------------------------------
(***************************************************************************)
(* The codecs of kernel/src/net as operators on sequences of bytes:        *)
(* Ethernet frames, IPv4 packets, TCP segments and UDP datagrams.          *)
(*                                                                         *)
(* A parser answers None or Some(packet); a slice that starts behind the   *)
(* end of the data panics.  A u32 is a pair of u16.                        *)
(***************************************************************************)
EXTENDS Integers, Sequences

Byte == 0 .. 255

\* A u16 wraps here.
TwoTo16 == 65536

U16 == 0 .. TwoTo16 - 1

None == [is |-> "None"]
Panicked == [is |-> "panic"]
Some(packet) == [is |-> "Some", packet |-> packet]

\* u16::to_be_bytes, and u16::from_be_bytes of the bytes at offset i.
ToBe(n) == << n \div 256, n % 256 >>
Be(high, low) == high * 256 + low
FromBe(data, i) == Be(data[i + 1], data[i + 2])

\* data[i..j]
Slice(data, i, j) == SubSeq(data, i + 1, j)

(* Ethernet: two addresses of six bytes, the ethertype, the payload.        *)

EthSerialize(f) == f.dst \o f.src \o ToBe(f.ethertype) \o f.payload

EthParse(data) ==
  IF Len(data) < 14
  THEN None
  ELSE Some([dst |-> Slice(data, 0, 6),
             src |-> Slice(data, 6, 12),
             ethertype |-> FromBe(data, 12),
             payload |-> Slice(data, 14, Len(data))])

(* IPv4.                                                                    *)

IpParse(data) ==
  IF Len(data) < 20 \/ data[1] \div 16 # 4
  THEN None
  ELSE LET ihl == (data[1] % 16) * 4
       IN  IF ihl > Len(data)
           THEN Panicked
           ELSE Some([src |-> Slice(data, 12, 16),
                      dst |-> Slice(data, 16, 20),
                      protocol |-> data[10],
                      ttl |-> data[9],
                      payload |-> Slice(data, ihl, Len(data))])

\* header.chunks(2): chunk i, an odd last byte in the upper half.
Word(header, i) ==
  IF 2 * i <= Len(header) THEN FromBe(header, 2 * i - 2) ELSE header[2 * i - 1] * 256

WordSum(header) ==
  LET sum[i \in 0 .. (Len(header) + 1) \div 2] ==
        IF i = 0 THEN 0 ELSE sum[i - 1] + Word(header, i)
  IN  sum[(Len(header) + 1) \div 2]

\* Mutant: the carries are added once.
Fold_Once(sum) ==
  ((sum % TwoTo16) + (sum \div TwoTo16)) % TwoTo16

\* The loop that adds the carries back in.
Fold(sum) ==
  LET fold[n \in Nat] ==
        IF n \div TwoTo16 = 0 THEN n ELSE fold[(n % TwoTo16) + (n \div TwoTo16)]
  IN  fold[sum]

Checksum(header) == (TwoTo16 - 1) - Fold(WordSum(header))

(* TCP.                                                                     *)

TcpParse(data) ==
  IF Len(data) < 20
  THEN None
  ELSE LET data_offset == (data[13] \div 16) * 4
       IN  IF data_offset > Len(data)
           THEN Panicked
           ELSE Some([src_port |-> FromBe(data, 0),
                      dst_port |-> FromBe(data, 2),
                      seq_num |-> <<FromBe(data, 4), FromBe(data, 6)>>,
                      ack_num |-> <<FromBe(data, 8), FromBe(data, 10)>>,
                      flags |-> data[14],
                      window |-> FromBe(data, 14),
                      payload |-> Slice(data, data_offset, Len(data))])

(* UDP.                                                                     *)

\* The length is cut to 16 bits.
UdpSerialize(d) ==
  ToBe(d.src_port) \o ToBe(d.dst_port)
    \o ToBe((8 + Len(d.payload)) % TwoTo16)
    \o << 0, 0 >> \o d.payload

\* Mutant: the length is not compared with the data, which end the payload.
UdpParse_NoLength(data) ==
  IF Len(data) < 8 \/ FromBe(data, 4) < 8
  THEN None
  ELSE Some([src_port |-> FromBe(data, 0),
             dst_port |-> FromBe(data, 2),
             payload |-> Slice(data, 8, Len(data))])

UdpParse(data) ==
  IF Len(data) < 8 \/ FromBe(data, 4) < 8 \/ FromBe(data, 4) > Len(data)
  THEN None
  ELSE Some([src_port |-> FromBe(data, 0),
             dst_port |-> FromBe(data, 2),
             payload |-> Slice(data, 8, FromBe(data, 4))])

=============================================================================
