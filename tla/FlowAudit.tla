------------------------------ MODULE FlowAudit ------------------------------
(***************************************************************************)
(* FlowTable with an auditor beside it: how many packets of each flow the  *)
(* program has really handled, whatever the map says, and whether the      *)
(* memory of one flow's counter was ever given to another flow under a CPU *)
(* that still pointed at it.  The audit observes and changes nothing.      *)
(*                                                                         *)
(* User space is any process that deletes keys (read_and_delete_file.c,    *)
(* flow_tracker_user.c) or none (user_program.c): UserDeletes says which.  *)
(***************************************************************************)
EXTENDS XdpProgram

CONSTANTS
  UserDeletes, \* user space may delete keys
  MaxSeen      \* bound: no new frame of a flow that has handled this many

ASSUME AuditConstantsOK == UserDeletes \in BOOLEAN /\ MaxSeen \in Nat

VARIABLES
  seen,      \* packets of each flow handled so far
  recycled   \* an element was linked for a flow while a CPU pointed at it for another

auditVars == <<seen, recycled>>
auditedVars == <<kernelVars, auditVars>>

-----------------------------------------------------------------------------
AuditInit ==
  /\ TableInit
  /\ seen = [k \in Flow |-> 0]
  /\ recycled = FALSE

AuditLookup(c) ==
  /\ \E f \in Frame : seen[KeyOf(f)] < MaxSeen /\ Receive(c, f)
  /\ UNCHANGED auditVars

AuditComplete(c) ==
  /\ Complete(c)
  /\ seen' = [seen EXCEPT ![key[c]] = @ + 1]
  /\ recycled' = (recycled \/ \E k \in Flow : k = key[c] /\ HeldForAnother(k)')

AuditDelete(k) ==
  /\ UserDeletes
  /\ DeleteElem(k)
  /\ UNCHANGED auditVars

AuditDetach ==
  /\ attached
  /\ Detach
  /\ UNCHANGED auditVars

AuditStep(c) == AuditLookup(c) \/ AuditComplete(c)

AuditNext ==
  \/ \E c \in Cpu : AuditStep(c)
  \/ \E k \in Flow : AuditDelete(k)
  \/ AuditDetach

AuditSpec == AuditInit /\ [][AuditNext]_auditedVars

-----------------------------------------------------------------------------
AuditTypeOK ==
  /\ KernelTypeOK
  /\ seen \in [Flow -> Nat]
  /\ recycled \in BOOLEAN

(* The count the map shows for a flow never exceeds the packets of that    *)
(* flow the program handled, unless an element was recycled under a CPU:   *)
(* the only way the unlocked add of xdp_program.c:73 can credit a flow     *)
(* with another flow's packet.                                             *)
NeverOvercounts ==
  ~recycled =>
    \A k \in Linked : ~HeldForAnother(k) /\ val[htab[k]] <= seen[k]

(* What a step may do to a settled flow it does not delete. *)
StaysExact(k) ==
  /\ Settled(k)'
  /\ htab'[k] = htab[k]
  /\ val'[htab[k]] = IF seen'[k] = seen[k] THEN val[htab[k]]
                     ELSE Bump(val[htab[k]])

(* Once the race of a flow's first packets is over its counter is exact:   *)
(* until user space deletes it, a settled flow stays settled and keeps its *)
(* element, and its count moves when, and only when, one of its packets is *)
(* handled, by one.  Packets are lost only while a first lookup that       *)
(* failed is still to be followed by its update (xdp_program.c:70-79).     *)
SettledStaysExact ==
  [][\A k \in Flow :
       Settled(k) /\ htab'[k] # NoElem => StaysExact(k)]_auditedVars

(* Every flow in the map is settled: where one CPU receives all frames.    *)
AllSettled == \A k \in Linked : Settled(k)

(* What explanation.md says the map holds: the program "updates a BPF hash *)
(* map for every TCP packet".  When no CPU is inside the program, a linked *)
(* flow's count is the number of its packets handled (as a u64).           *)
CountsEveryPacket ==
  (\A c \in Cpu : pc[c] = "idle") =>
    \A k \in Linked : val[htab[k]] = seen[k] % CounterMod
=============================================================================
