--------------------------- MODULE MCFlowSnapshot ---------------------------
(* FlowSnapshot on the values of FlowInstance: two CPUs, two flows in one  *)
(* bucket and the zero key.  Traffic is unlimited: the counters wrap.      *)
EXTENDS FlowSnapshot, FlowInstance
=============================================================================
