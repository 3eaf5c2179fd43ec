---------------------------- MODULE MCDrainStop ----------------------------
(* FlowDrain alone, with no bound on the traffic: the counters wrap.       *)
EXTENDS FlowDrain, FlowInstance
=============================================================================
