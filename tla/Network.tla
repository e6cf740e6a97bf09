------------------------------ MODULE Network ------------------------------
(***************************************************************************)
(* The codecs put together: a UDP datagram or a TCP segment travels in an  *)
(* IPv4 packet in an Ethernet frame from a peer to this kernel.  UDP and   *)
(* Ethernet are serialised by the kernel's own code, IPv4 and TCP, for     *)
(* which it has only parsers, as the standards say.  The link may pad the  *)
(* frame to its minimal size or lose its end.                              *)
(***************************************************************************)
EXTENDS Packets

CONSTANTS
  Messages,   \* what is sent: UDP datagrams and TCP segments
  Options,    \* bytes of IP options a peer may add, multiples of 4
  MinFrame,   \* frames are padded to this size (60)
  MaxCut      \* bound: a frame may be cut to at most this size

\* The fields that the parsers of module Packets answer, with their widths.
UdpMessages == [src_port : U16, dst_port : U16, payload : Seq(Byte)]

TcpMessages ==
  [src_port : U16, dst_port : U16, seq_num : U16 \X U16, ack_num : U16 \X U16,
   flags : Byte, window : U16, payload : Seq(Byte)]

ASSUME NetworkAssumption ==
  /\ Messages \subseteq UdpMessages \cup TcpMessages
  /\ Options \subseteq {4 * n : n \in 0 .. 10}
  /\ MinFrame \in Nat /\ MaxCut \in Nat

VARIABLES
  sent,      \* the message
  bytes,     \* what the current layer handles
  layer,     \* the layer that comes next
  header,    \* the IP header that was sent
  damage,    \* what the link did: "none", "padded", "cut"
  received   \* the answer of the last parser

nvars == <<sent, bytes, layer, header, damage, received>>

Zeros(n) == [i \in 1 .. n |-> 0]

IPV4 == 2048
UDP == 17
TCP == 6
Mac == << 2, 0, 0, 0, 0, 1 >>
Src == << 192, 168, 1, 255 >>
Dst == << 10, 0, 255, 254 >>

IsUdp(m) == "seq_num" \notin DOMAIN m

Init ==
  /\ sent \in Messages
  /\ bytes = << >>
  /\ layer = "send"
  /\ header = << >>
  /\ damage = "none"
  /\ received = None

-----------------------------------------------------------------------------
(* The sender.                                                              *)

\* A segment with data offset 5 (RFC 9293).
TcpWire(m) ==
  ToBe(m.src_port) \o ToBe(m.dst_port)
    \o ToBe(m.seq_num[1]) \o ToBe(m.seq_num[2])
    \o ToBe(m.ack_num[1]) \o ToBe(m.ack_num[2])
    \o << 80, m.flags >> \o ToBe(m.window) \o << 0, 0, 0, 0 >> \o m.payload

Transport ==
  /\ layer = "send"
  /\ bytes' = IF IsUdp(sent) THEN UdpSerialize(sent) ELSE TcpWire(sent)
  /\ layer' = "ip"
  /\ UNCHANGED <<sent, header, damage, received>>

\* A header with n bytes of options and its checksum (RFC 791).
IpHeader(n, sum) ==
  << 69 + n \div 4, 0 >> \o ToBe((20 + n + Len(bytes)) % TwoTo16) \o << 0, 1, 64, 0 >>
    \o << 64, IF IsUdp(sent) THEN UDP ELSE TCP >> \o ToBe(sum) \o Src \o Dst \o Zeros(n)

WrapIp(n) ==
  /\ layer = "ip"
  /\ header' = IpHeader(n, Checksum(IpHeader(n, 0)))
  /\ bytes' = header' \o bytes
  /\ layer' = "ethernet"
  /\ UNCHANGED <<sent, damage, received>>

WrapEthernet ==
  /\ layer = "ethernet"
  /\ bytes' = EthSerialize([dst |-> Mac, src |-> Mac, ethertype |-> IPV4, payload |-> bytes])
  /\ layer' = "link"
  /\ UNCHANGED <<sent, header, damage, received>>

-----------------------------------------------------------------------------
(* The link.                                                                *)

Deliver ==
  /\ layer = "link"
  /\ layer' = "frame"
  /\ UNCHANGED <<sent, bytes, header, damage, received>>

Pad ==
  /\ layer = "link"
  /\ Len(bytes) < MinFrame
  /\ bytes' = bytes \o Zeros(MinFrame - Len(bytes))
  /\ damage' = "padded"
  /\ layer' = "frame"
  /\ UNCHANGED <<sent, header, received>>

Cut(n) ==
  /\ layer = "link"
  /\ n < Len(bytes)
  /\ bytes' = SubSeq(bytes, 1, n)
  /\ damage' = "cut"
  /\ layer' = "frame"
  /\ UNCHANGED <<sent, header, received>>

-----------------------------------------------------------------------------
(* The receiver hands the payload of one layer to the parser of the next.   *)

Receive(from, answer, to) ==
  /\ layer = from
  /\ received' = answer
  /\ layer' = IF answer.is = "Some" THEN to ELSE "done"
  /\ bytes' = IF answer.is = "Some" THEN answer.packet.payload ELSE << >>
  /\ UNCHANGED <<sent, header, damage>>

ReceiveFrame == Receive("frame", EthParse(bytes), "packet")

ReceivePacket == Receive("packet", IpParse(bytes), "message")

ReceiveMessage ==
  Receive("message", IF received.packet.protocol = UDP THEN UdpParse(bytes) ELSE TcpParse(bytes),
          "done")

Next ==
  \/ Transport \/ (\E n \in Options : WrapIp(n)) \/ WrapEthernet
  \/ Deliver \/ Pad \/ (\E n \in 0 .. MaxCut : Cut(n))
  \/ ReceiveFrame \/ ReceivePacket \/ ReceiveMessage

Spec == Init /\ [][Next]_nvars

-----------------------------------------------------------------------------
(* Properties.                                                              *)

\* The largest payload whose length fits the header field.
Fits(m) == Len(m.payload) <= 65527

\* What the kernel parses is what was sent, field by field, through three
\* layers and with IP options: UDP datagrams of every size that fits, also out of
\* a padded frame, and TCP segments out of an unpadded one.
MessageArrives ==
  (layer = "done" /\ Fits(sent)
     /\ damage \in (IF IsUdp(sent) THEN {"none", "padded"} ELSE {"none"})) =>
    received = Some(sent)

\* Wherever a frame is cut, the kernel parses the datagram that was sent or none:
\* never a shorter one.
NoShortDatagram ==
  (layer = "done" /\ IsUdp(sent) /\ Fits(sent) /\ received.is = "Some") =>
    received.packet = sent

\* checksum is the complement of the one's complement sum of 16-bit words, and so
\* zero over a header that carries it.
ChecksumVerifies ==
  header # << >> =>
    /\ Checksum(header) = 0
    /\ \A n \in 0 .. Len(header) :
         LET sum == WordSum(SubSeq(header, 1, n))
         IN  Checksum(SubSeq(header, 1, n)) =
               65535 - (IF sum = 0 THEN 0 ELSE ((sum - 1) % 65535) + 1)

=============================================================================
