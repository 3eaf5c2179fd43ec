----------------------------- MODULE MCL7Loader -----------------------------
(* L7Loader with the interface indexes of the lab and a frame of every     *)
(* class, cut short and complete.                                          *)
EXTENDS L7Loader

LabIfIndex == [CLIENT |-> 8, F |-> 6, Z |-> 9]

Whole(p, d) == [headers |-> 4, ether |-> "IPv4", proto |-> p, dport |-> d]
Frames ==
  {Whole("TCP", "80"), Whole("TCP", "443"), Whole("TCP", "53"),
   Whole("UDP", "53"), Whole("UDP", "443"), Whole("ICMP", "other"),
   [Whole("TCP", "80") EXCEPT !.headers = 3],
   [Whole("TCP", "443") EXCEPT !.headers = 2],
   [NoFrame EXCEPT !.headers = 1, !.ether = "ARP"],
   [NoFrame EXCEPT !.headers = 1], NoFrame}

(* A bound: from the start of a second load on, the frames are HTTP, which *)
(* the policy treats differently on every port.  Its cleanup beside other  *)
(* frames is that of the unloader.                                         *)
Preparing == script = "load" /\ line <= Len(Cleanup) + 2
FewFrames ==
  loads > 1 \/ (loads = 1 /\ Preparing)
    => frame \in {Whole("TCP", "80"), NoFrame}
=============================================================================
