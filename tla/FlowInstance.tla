---------------------------- MODULE FlowInstance ----------------------------
(* The values the runs of the flow accounting modules give their           *)
(* constants: three CPUs of which a run uses some, two flows in the same   *)
(* hash bucket and the all-zero key z, and the elements.                   *)
EXTENDS Naturals, TLC

CONSTANTS c1, c2, c3, a, b, z, e1, e2, e3, e4

OneBucket  == a :> 0 @@ b :> 0
OneBucketZ == OneBucket @@ z :> 0

Spare2 == c1 :> e1 @@ c2 :> e2
Spare3 == Spare2 @@ c3 :> e3

TcpFrame(k) == [headers |-> 3, ether |-> "IPv4", proto |-> "TCP",
                shortIhl |-> FALSE, tuple |-> k, misread |-> k]

(* A segment of each flow. *)
Segments == {TcpFrame(a), TcpFrame(b)}

(* Also a frame that carries the zero key, which no TCP segment can: the   *)
(* protocol is part of the key.                                            *)
SegmentsZ == Segments \cup {[TcpFrame(z) EXCEPT !.proto = "other"]}

(* Also a segment of a whose ihl is too short, so that b's ports are read  *)
(* inside its IPv4 header, and frames the program ignores.                 *)
MixedFrames == Segments \cup
  {[TcpFrame(a) EXCEPT !.shortIhl = TRUE, !.misread = b],
   [TcpFrame(b) EXCEPT !.proto = "other"],
   [TcpFrame(b) EXCEPT !.headers = 2]}
=============================================================================
