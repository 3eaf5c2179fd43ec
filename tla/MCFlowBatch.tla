---------------------------- MODULE MCFlowBatch ----------------------------
(* FlowBatch on the values of FlowInstance: two CPUs and two flows in one  *)
(* bucket.  Traffic is unlimited: the counters wrap.                       *)
EXTENDS FlowBatch, FlowInstance

Packet(k, p) == [headers |-> 3, ether |-> "IPv4", proto |-> p,
                 zeroPort |-> FALSE, endpoints |-> k]
Packets == {Packet(k, p) : k \in {a, b}, p \in {"TCP", "UDP"}}
  \cup {[Packet(k, "TCP") EXCEPT !.zeroPort = TRUE] : k \in {a, b}}

(* The flows, the free elements, and the CPUs together with their spares,  *)
(* are interchangeable.                                                    *)
Interchangeable ==
  {f @@ g @@ h : f \in Permutations({a, b}), g \in Permutations({e3, e4}),
                 h \in {c1 :> c1 @@ c2 :> c2 @@ e1 :> e1 @@ e2 :> e2,
                        c1 :> c2 @@ c2 :> c1 @@ e1 :> e2 @@ e2 :> e1}}
=============================================================================
