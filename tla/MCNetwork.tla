----------------------------- MODULE MCNetwork -----------------------------
(* Messages for TLC: payloads of no, one and a few bytes, and of the        *)
(* largest size that the UDP length field can hold.                         *)
EXTENDS Network

Payload(n) == [i \in 1 .. n |-> (3 * i) % 256]

MCMessages ==
  [src_port : {53, 65535}, dst_port : {256}, payload : {Payload(n) : n \in {0, 1, 5, 65527}}]
    \cup [src_port : {80}, dst_port : {1}, seq_num : {<<0, 1>>, <<65535, 65535>>},
          ack_num : {<<258, 3>>}, flags : {18, 255}, window : {1024},
          payload : {Payload(n) : n \in {0, 7}}]

=============================================================================
