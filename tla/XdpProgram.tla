----------------------------- MODULE XdpProgram -----------------------------
(***************************************************************************)
(* xdp_flow_counter of flow_accounting/userspace_flow_count_FA: which      *)
(* frames it counts, and under which key.                                  *)
(***************************************************************************)
EXTENDS FlowTable

CONSTANT Frame  \* the frames the network delivers

(***************************************************************************)
(* A frame, as far as the program tells frames apart.  headers counts the  *)
(* headers that end before data_end (Ethernet, IPv4, and TCP where ip->ihl *)
(* puts it).  tuple is the five-tuple; misread is what the loads give when *)
(* ihl is below 5 and "tcp" points into the IPv4 header.                   *)
(***************************************************************************)
FrameType ==
  [headers : 0..3, ether : {"IPv4", "other"}, proto : {"TCP", "other"},
   shortIhl : BOOLEAN, tuple : Flow, misread : Flow]

ASSUME FramesOK == Frame \subseteq FrameType

(* Mutant: the protocol is not looked at. *)
CountedAnyProtocol(f) == f.headers = 3 /\ f.ether = "IPv4"

Counted(f) == f.headers = 3 /\ f.ether = "IPv4" /\ f.proto = "TCP"

KeyOf(f) == IF f.shortIhl THEN f.misread ELSE f.tuple

(* CPU c receives frame f.  If it passes the checks its key is built and   *)
(* looked up; a frame that fails one leaves every variable as it was.      *)
Receive(c, f) == Counted(f) /\ Lookup(c, KeyOf(f))
=============================================================================
