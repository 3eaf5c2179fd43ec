---------------------------- MODULE MCFlowAudit ----------------------------
(* FlowAudit on the values of FlowInstance.  An element is recycled        *)
(* through a CPU's spare only with three CPUs, so the passing run has      *)
(* three; its map holds one flow, so that it fills.                        *)
EXTENDS FlowAudit, FlowInstance
=============================================================================
