---------------------------- MODULE MCFlowDrain ----------------------------
(* FlowDrainAudit on the values of FlowInstance: two CPUs and two flows in *)
(* one bucket, with a bound on the packets of each flow.                   *)
EXTENDS FlowDrainAudit, FlowInstance
=============================================================================
