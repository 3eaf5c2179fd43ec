----------------------------- MODULE MCLoaders -----------------------------
(* RingEvents with two processes and two CPUs; the ring buffer holds fewer *)
(* records than are reserved.                                              *)
EXTENDS RingEvents, TLC

CONSTANTS p, q

(* Every pair of kinds that differ, and two that attach the same way. *)
Pairs ==
  {p :> k @@ q :> l : <<k, l>> \in {<<"ring", "maps">>, <<"ring", "bloom">>,
                                   <<"maps", "bloom">>, <<"maps", "maps">>}}
=============================================================================
