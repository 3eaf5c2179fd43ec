--------------------------- MODULE FlowDrainAudit ---------------------------
(***************************************************************************)
(* FlowDrain under the audit of FlowAudit, and with the sum of what it has *)
(* reported of each flow.                                                  *)
(***************************************************************************)
EXTENDS FlowDrain, FlowAudit, FiniteSets

VARIABLE reported  \* the sum of the rows flows.txt holds for each flow

vars == <<drainVars, auditVars, reported>>

-----------------------------------------------------------------------------
Init ==
  /\ DrainInit
  /\ AuditInit
  /\ reported = [k \in Flow |-> 0]

AuditedReceive(c) == AuditLookup(c) /\ UNCHANGED <<userVars, reported>>
AuditedProcess(c) == AuditComplete(c) /\ UNCHANGED <<userVars, reported>>

AppendRow ==
  /\ ReadRow
  /\ reported' = IF ukey \in Linked
                 THEN [reported EXCEPT ![ukey] = @ + val[htab[ukey]]]
                 ELSE reported
  /\ UNCHANGED auditVars

Other ==
  /\ OpenFile \/ OpenFails \/ GetNextKey \/ DeleteRow \/ Wake \/ Quit \/ Signal
  /\ UNCHANGED <<auditVars, reported>>

Next ==
  \/ \E c \in Cpu : AuditedReceive(c) \/ AuditedProcess(c)
  \/ AppendRow
  \/ Other

Spec == Init /\ [][Next]_vars

-----------------------------------------------------------------------------
TypeOK ==
  /\ DrainTypeOK /\ AuditTypeOK
  /\ reported \in [Flow -> Nat]

(* The counts that are in the map and not yet in the file: the entry being *)
(* deleted has been written already.                                       *)
Unreported(k) ==
  IF k \in Linked /\ ~(upc = "delete" /\ ukey = k) THEN val[htab[k]] ELSE 0

(* What flows.txt says of a flow, with what the map still holds of it,     *)
(* never exceeds the packets of it that were handled, unless an element    *)
(* was recycled: the row of read_and_delete_file.c:79 and the delete of    *)
(* line 87 never count a packet twice.                                     *)
NeverOverreports ==
  ~recycled => \A k \in Flow : reported[k] + Unreported(k) <= seen[k]

(* The sum of a count over the flows, as the number of the packets that    *)
(* the count of each flow stands for.                                      *)
Units(count) == UNION {{k} \X (1..count[k]) : k \in Flow}

Total(count) == Cardinality(Units(count))

Unwritten == [k \in Flow |-> Unreported(k)]

(* Recycled or not, over all flows: each packet is reported at most once.  *)
Ledger == INSTANCE FlowLedger WITH
  handled  <- Total(seen),
  stored   <- Total(Unwritten),
  reported <- Total(reported)

KeepsLedger == Ledger!LedgerSpec

(* The process does to the map nothing FlowAudit does not allow of one     *)
(* that deletes keys, so what is proved there holds here: no flow is       *)
(* overcounted, and a settled flow is counted exactly until it is deleted. *)
UsesTable == AuditSpec
=============================================================================
