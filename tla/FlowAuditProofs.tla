-------------------------- MODULE FlowAuditProofs --------------------------
(***************************************************************************)
(* What the runs of FlowAudit and FlowDrainAudit check on a few CPUs and   *)
(* two flows, for any number of CPUs, flows, elements and frames: the      *)
(* types, the ownership of elements, the absence of overcounting and the   *)
(* exactness of settled counters; and that the read-and-delete writer uses *)
(* the map only as FlowAudit allows, reports no packet twice, and keeps    *)
(* the account of FlowLedger.                                              *)
(***************************************************************************)
EXTENDS FlowDrainAudit, FlowTableProofs, FiniteSetTheorems

AuditInv == seen \in [Flow -> Nat] /\ recycled \in BOOLEAN /\ NeverOvercounts

(* The inductive invariant: an add goes through a pointer, so the count of *)
(* a flow depends on who holds pointers to its element, and that on every  *)
(* element having one owner.                                               *)
IInv == KernelInv /\ AuditInv

-----------------------------------------------------------------------------
(* The key a counted frame is filed under is a flow key. *)
LEMMA KeyOfType == ASSUME NEW f \in Frame PROVE KeyOf(f) \in Flow
BY FramesOK DEF KeyOf, FrameType

(* The initial state satisfies the invariant. *)
LEMMA InitIInv == AuditInit => IInv
<1> SUFFICES ASSUME AuditInit PROVE IInv  OBVIOUS
<1>1. KernelInv  BY InitKernel DEF AuditInit
<1>2. seen \in [Flow -> Nat] /\ recycled \in BOOLEAN  BY DEF AuditInit
<1>3. NeverOvercounts  BY DEF NeverOvercounts, Linked, AuditInit, TableInit
<1> QED  BY <1>1, <1>2, <1>3 DEF IInv, AuditInv

(* A lookup changes one CPU's locals: its pointer is that of its own key. *)
LEMMA LookupIInv ==
  ASSUME IInv, NEW c \in Cpu, AuditLookup(c) PROVE IInv'
<1>1. PICK f \in Frame : Lookup(c, KeyOf(f))  BY DEF AuditLookup, Receive
<1>2. KeyOf(f) \in Flow  BY KeyOfType
<1>3. UNCHANGED <<seen, recycled>>  BY DEF AuditLookup, auditVars
<1>4. KernelInv'  BY <1>1, <1>2, LookupKernel DEF IInv
<1>5. NeverOvercounts'
  <2> USE <1>1, <1>2, <1>3 DEF Lookup, tableVars, IInv, AuditInv
  <2> SUFFICES ASSUME ~recycled, NEW k \in Linked
               PROVE  ~HeldForAnother(k)' /\ val[htab[k]] <= seen[k]
    BY DEF NeverOvercounts, Linked
  <2>1. ~HeldForAnother(k) /\ val[htab[k]] <= seen[k]  BY DEF NeverOvercounts
  <2>2. ~HeldForAnother(k)'
    BY <2>1
    DEF HeldForAnother, Linked, KernelInv, ElementsOwned, KernelTypeOK
  <2> QED  BY <2>1, <2>2
<1> QED  BY <1>3, <1>4, <1>5 DEF IInv, AuditInv

(* A packet that is completed is one more that was handled. *)
LEMMA CompleteSeen ==
  ASSUME IInv, NEW c \in Cpu, AuditComplete(c)
  PROVE  /\ KernelInv' /\ key[c] \in Flow
         /\ seen' \in [Flow -> Nat] /\ recycled' \in BOOLEAN
         /\ recycled => recycled'
         /\ \A k \in Flow : seen'[k] = IF k = key[c] THEN seen[k] + 1
                                       ELSE seen[k]
         /\ \A k \in Flow : k = key[c] /\ HeldForAnother(k)' => recycled'
         /\ \A k : HeldForAnother(k)' /\ htab'[k] = htab[k]
                         => HeldForAnother(k)
<1> USE DEF AuditComplete
<1>1. KernelInv' /\ key[c] \in Flow
  BY CompleteKernel, CompleteLocals DEF IInv
<1>2. seen' \in [Flow -> Nat] /\ recycled' \in BOOLEAN
      /\ \A k \in Flow : seen'[k] = IF k = key[c] THEN seen[k] + 1
                                    ELSE seen[k]
  BY <1>1 DEF IInv, AuditInv
<1>3. \A d \in Cpu : /\ ptr'[d] # NoElem => ptr'[d] = ptr[d]
                     /\ key'[d] = IF d = c THEN NoFlow ELSE key[d]
                     /\ d = c => ptr'[d] = NoElem
  BY CompleteLocals DEF IInv
<1>4. ASSUME NEW k, HeldForAnother(k)', htab'[k] = htab[k]
      PROVE  HeldForAnother(k)
  BY <1>3, <1>4 DEF HeldForAnother
<1>5. ASSUME NEW k \in Flow, k = key[c], HeldForAnother(k)' PROVE recycled'
  BY <1>5 DEF HeldForAnother
<1> QED  BY <1>1, <1>2, <1>4, <1>5

(* An add goes to the element of the CPU's own flow, or to one no flow is  *)
(* linked to, unless an element was recycled.                              *)
LEMMA AddIInv ==
  ASSUME IInv, NEW c \in Cpu, AuditComplete(c), Add(c) PROVE NeverOvercounts'
<1> USE DEF IInv, AuditInv, KernelInv
<1>1. htab' = htab /\ val' = [val EXCEPT ![ptr[c]] = Bump(@)]
  BY DEF Add
<1>2. ptr[c] # NoElem  BY DEF Add, LocalsOK
<1> SUFFICES ASSUME ~recycled', NEW k \in Flow, htab[k] # NoElem
             PROVE  ~HeldForAnother(k)' /\ val'[htab[k]] <= seen'[k]
  BY <1>1 DEF NeverOvercounts, Linked
<1>3. ~HeldForAnother(k) /\ val[htab[k]] <= seen[k]
  BY CompleteSeen DEF NeverOvercounts, Linked
<1>4. ~HeldForAnother(k)'  BY <1>1, <1>3, CompleteSeen
<1>5. htab[k] \in Elem /\ val[htab[k]] \in 0..(CounterMod - 1)
      /\ seen[k] \in Nat
  BY DEF KernelTypeOK
<1>6. CASE ptr[c] = htab[k]
  <2>1. key[c] = k  BY <1>2, <1>3, <1>6 DEF HeldForAnother
  <2>2. seen'[k] = seen[k] + 1  BY <2>1, CompleteSeen
  <2>3. val'[htab[k]] = Bump(val[htab[k]])
    BY <1>1, <1>5, <1>6 DEF KernelTypeOK
  <2> QED  BY <1>3, <1>4, <1>5, <2>2, <2>3, BumpType, ConstantsOK
<1>7. CASE ptr[c] # htab[k]
  <2>1. val'[htab[k]] = val[htab[k]]
    BY <1>1, <1>5, <1>7 DEF KernelTypeOK
  <2> QED  BY <1>3, <1>4, <1>5, <2>1, CompleteSeen, ConstantsOK
<1> QED  BY <1>6, <1>7

(* An insert links an element no other flow is linked to: the element of a *)
(* new key came from the free list, that of an overwritten one was the     *)
(* CPU's spare.                                                            *)
LEMMA InsertIInv ==
  ASSUME IInv, NEW c \in Cpu, AuditComplete(c),
         InsertNew(c) \/ InsertOver(c)
  PROVE  NeverOvercounts'
<1> USE DEF IInv, AuditInv, KernelInv
<1>1. PICK e \in Elem :
        /\ htab' = [htab EXCEPT ![key[c]] = e] /\ val' = [val EXCEPT ![e] = 1]
        /\ \A k \in Flow : htab[k] # e
  <2>1. CASE InsertNew(c)
    <3>1. PICK e \in free : /\ htab' = [htab EXCEPT ![key[c]] = e]
                            /\ val' = [val EXCEPT ![e] = 1]
      BY <2>1 DEF InsertNew
    <3>2. e \in Elem  BY DEF KernelTypeOK
    <3>3. \A k \in Flow : htab[k] # e  BY DEF ElementsOwned
    <3> QED  BY <3>1, <3>2, <3>3
  <2>2. CASE InsertOver(c)
    <3>1. spare[c] \in Elem /\ \A k \in Flow : htab[k] # spare[c]
      BY DEF ElementsOwned, KernelTypeOK
    <3> QED  BY <2>2, <3>1 DEF InsertOver
  <2> QED  BY <2>1, <2>2
<1> SUFFICES ASSUME ~recycled', NEW k \in Flow, htab'[k] # NoElem
             PROVE  ~HeldForAnother(k)' /\ val'[htab'[k]] <= seen'[k]
  BY DEF NeverOvercounts, Linked
<1>2. seen[k] \in Nat /\ key[c] \in Flow  BY CompleteSeen
<1>3. CASE k = key[c]
  <2>1. htab'[k] = e /\ val'[e] = 1  BY <1>1, <1>2, <1>3 DEF KernelTypeOK
  <2>2. ~HeldForAnother(k)' /\ seen'[k] = seen[k] + 1
    BY <1>3, CompleteSeen
  <2> QED  BY <1>2, <2>1, <2>2
<1>4. CASE k # key[c]
  <2>1. htab'[k] = htab[k] /\ htab[k] # e  BY <1>1, <1>4 DEF KernelTypeOK
  <2>2. val'[htab[k]] = val[htab[k]]
    BY <1>1, <2>1 DEF KernelTypeOK
  <2>3. ~HeldForAnother(k) /\ val[htab[k]] <= seen[k]
    BY <2>1, CompleteSeen DEF NeverOvercounts, Linked
  <2>4. ~HeldForAnother(k)' /\ seen'[k] = seen[k]
    BY <1>4, <2>1, <2>3, CompleteSeen
  <2> QED  BY <2>1, <2>2, <2>3, <2>4
<1> QED  BY <1>3, <1>4

(* A failed insert changes nothing but the audit. *)
LEMMA InsertFullIInv ==
  ASSUME IInv, NEW c \in Cpu, AuditComplete(c), InsertFull(c)
  PROVE  NeverOvercounts'
<1> USE DEF IInv, AuditInv, KernelInv
<1>1. htab' = htab /\ val' = val  BY DEF InsertFull, tableVars
<1> SUFFICES ASSUME ~recycled', NEW k \in Flow, htab[k] # NoElem
             PROVE  ~HeldForAnother(k)' /\ val[htab[k]] <= seen'[k]
  BY <1>1 DEF NeverOvercounts, Linked
<1>2. ~HeldForAnother(k) /\ val[htab[k]] <= seen[k]
  BY CompleteSeen DEF NeverOvercounts, Linked
<1>3. ~HeldForAnother(k)'  BY <1>1, <1>2, CompleteSeen
<1>4. val[htab[k]] \in 0..(CounterMod - 1) /\ seen[k] \in Nat
  BY DEF KernelTypeOK
<1> QED  BY <1>2, <1>3, <1>4, CompleteSeen, ConstantsOK

LEMMA CompleteIInv ==
  ASSUME IInv, NEW c \in Cpu, AuditComplete(c) PROVE IInv'
<1>1. NeverOvercounts'
  BY AddIInv, InsertIInv, InsertFullIInv DEF AuditComplete, Complete
<1> QED  BY <1>1, CompleteSeen DEF IInv, AuditInv

(* A delete gives an element back to the free list, pointers or not. *)
LEMMA DeleteIInv ==
  ASSUME IInv, NEW k \in Flow, DeleteElem(k), UNCHANGED auditVars PROVE IInv'
<1>1. KernelInv'  BY DeleteKernel DEF IInv
<1>2. \A l \in Flow : htab'[l] = IF l = k THEN NoElem ELSE htab[l]
  BY DEF DeleteElem, IInv, KernelInv, KernelTypeOK
<1>3. NeverOvercounts'
  BY <1>2 DEF IInv, AuditInv, NeverOvercounts, Linked, HeldForAnother,
    DeleteElem, cpuVars, auditVars
<1> QED  BY <1>1, <1>3 DEF IInv, AuditInv, auditVars

(* A detach only closes the door to new frames. *)
LEMMA QuietIInv ==
  ASSUME IInv, Detach \/ UNCHANGED kernelVars, UNCHANGED auditVars PROVE IInv'
<1>1. KernelInv'  BY QuietKernel DEF IInv
<1>2. NeverOvercounts'
  BY DEF IInv, AuditInv, NeverOvercounts, Linked, HeldForAnother, Detach,
    kernelVars, tableVars, cpuVars, auditVars
<1> QED  BY <1>1, <1>2 DEF IInv, AuditInv, auditVars

(* Every step preserves the invariant. *)
LEMMA NextIInv == IInv /\ [AuditNext]_auditedVars => IInv'
<1> SUFFICES ASSUME IInv, [AuditNext]_auditedVars PROVE IInv'  OBVIOUS
<1>1. ASSUME NEW c \in Cpu, AuditStep(c) PROVE IInv'
  BY <1>1, LookupIInv, CompleteIInv DEF AuditStep
<1>2. ASSUME NEW k \in Flow, AuditDelete(k) PROVE IInv'
  BY <1>2, DeleteIInv DEF AuditDelete
<1>3. CASE AuditDetach \/ UNCHANGED auditedVars
  BY <1>3, QuietIInv DEF AuditDetach, auditedVars
<1> QED  BY <1>1, <1>2, <1>3 DEF AuditNext

-----------------------------------------------------------------------------
(* The inductive invariant holds throughout. *)
THEOREM Invariance == AuditSpec => []IInv
BY InitIInv, NextIInv, PTL DEF AuditSpec

(* Every variable keeps its type; counts stay in the range of a u64. *)
THEOREM TypeCorrect == AuditSpec => []AuditTypeOK
<1>1. IInv => AuditTypeOK
  BY DEF IInv, AuditInv, KernelInv, AuditTypeOK
<1> QED  BY <1>1, Invariance, PTL

(* Unless an element was recycled under a CPU, no flow's count exceeds the *)
(* packets handled for it.                                                 *)
THEOREM NoOvercount == AuditSpec => []NeverOvercounts
<1>1. IInv => NeverOvercounts  BY DEF IInv, AuditInv
<1> QED  BY <1>1, Invariance, PTL

-----------------------------------------------------------------------------
(* A lookup of any key leaves a settled flow settled. *)
LEMMA LookupSettled ==
  ASSUME IInv, NEW k \in Flow, Settled(k), NEW c \in Cpu, AuditLookup(c)
  PROVE  StaysExact(k)
<1>1. PICK f \in Frame : Lookup(c, KeyOf(f))  BY DEF AuditLookup, Receive
<1>2. Settled(k)'  BY <1>1, KeyOfType, LookupSettles DEF IInv
<1>3. UNCHANGED <<seen, htab, val>>
  BY <1>1 DEF AuditLookup, auditVars, Lookup, tableVars
<1> QED  BY <1>2, <1>3 DEF StaysExact

(* A packet that is completed moves the count of its flow, and no other's. *)
LEMMA CompleteSettled ==
  ASSUME IInv, NEW k \in Flow, Settled(k), NEW c \in Cpu, AuditComplete(c)
  PROVE  StaysExact(k)
<1>1. /\ Settled(k)' /\ htab'[k] = htab[k]
      /\ val'[htab[k]] = IF key[c] = k THEN Bump(val[htab[k]])
                         ELSE val[htab[k]]
  BY CompleteSettles DEF IInv, AuditComplete
<1>2. seen'[k] = IF k = key[c] THEN seen[k] + 1 ELSE seen[k]
  BY CompleteSeen
<1>3. seen[k] + 1 # seen[k]  BY DEF IInv, AuditInv
<1> QED  BY <1>1, <1>2, <1>3 DEF StaysExact

(* A delete of another key leaves a settled flow settled. *)
LEMMA DeleteSettled ==
  ASSUME IInv, NEW k \in Flow, Settled(k), NEW l \in Flow, AuditDelete(l),
         htab'[k] # NoElem
  PROVE  StaysExact(k)
BY DEF IInv, KernelInv, KernelTypeOK, Settled, StaysExact, AuditDelete,
  DeleteElem, auditVars, cpuVars

(* A step that leaves the map and the CPUs alone keeps it, too. *)
LEMMA StutterSettled ==
  ASSUME NEW k \in Flow, Settled(k), AuditDetach \/ UNCHANGED auditedVars
  PROVE  StaysExact(k)
BY DEF Settled, StaysExact, AuditDetach, Detach, auditedVars, kernelVars,
  tableVars, cpuVars, auditVars

LEMMA SettledStep ==
  ASSUME IInv, [AuditNext]_auditedVars, NEW k \in Flow, Settled(k),
         htab'[k] # NoElem
  PROVE  StaysExact(k)
BY LookupSettled, CompleteSettled, DeleteSettled, StutterSettled
DEF AuditNext, AuditStep

(* Once a flow is settled its count is exact until it is deleted, for any  *)
(* number of CPUs: only the first packets of a flow can be lost.           *)
THEOREM SettledExact == AuditSpec => SettledStaysExact
<1>1. IInv /\ [AuditNext]_auditedVars
        => [\A k \in Flow :
              Settled(k) /\ htab'[k] # NoElem => StaysExact(k)]_auditedVars
  BY SettledStep
<1> QED  BY <1>1, Invariance, PTL DEF AuditSpec, SettledStaysExact

-----------------------------------------------------------------------------
(* Where a single CPU receives all frames, every flow in the map is        *)
(* settled, and so (SettledExact) counted exactly: the race needs two.     *)
THEOREM OneCpuSettled ==
  ASSUME \A c, d \in Cpu : c = d
  PROVE  AuditSpec => []AllSettled
<1>1. AuditInit => AllSettled
  BY DEF AuditInit, TableInit, AllSettled, Linked
<1>2. IInv /\ AllSettled /\ [AuditNext]_auditedVars => AllSettled'
  <2> SUFFICES ASSUME IInv, AllSettled, [AuditNext]_auditedVars,
                      NEW k \in Flow, htab'[k] # NoElem
               PROVE  Settled(k)'
    BY DEF AllSettled, Linked
  <2>1. CASE htab[k] # NoElem
    BY <2>1, SettledStep DEF AllSettled, Linked, StaysExact
  <2>2. CASE htab[k] = NoElem
    <3>1. PICK c \in Cpu : AuditComplete(c) /\ htab'[k] # htab[k]
      BY <2>2
      DEF AuditNext, AuditStep, AuditLookup, Receive, Lookup, AuditDelete,
        DeleteElem, AuditDetach, Detach, auditedVars, kernelVars, tableVars,
        IInv, KernelInv, KernelTypeOK
    <3>2. \A d \in Cpu : key'[d] = NoFlow /\ ptr'[d] = NoElem
      BY <3>1, CompleteLocals DEF IInv, AuditComplete
    <3> QED  BY <3>2, ConstantsOK DEF Settled
  <2> QED  BY <2>1, <2>2
<1> QED  BY <1>1, <1>2, Invariance, PTL DEF AuditSpec
-----------------------------------------------------------------------------
(* Every step of a CPU or of the process is one of the audited map, or     *)
(* leaves it alone.                                                        *)
LEMMA StepUsesTable ==
  ASSUME UserDeletes, attached \in BOOLEAN, [Next]_vars
  PROVE  [AuditNext]_auditedVars
<1> USE DEF auditedVars, auditVars, kernelVars, tableVars, cpuVars
<1>1. ASSUME NEW c \in Cpu, AuditedReceive(c) \/ AuditedProcess(c)
      PROVE  AuditNext
  BY <1>1 DEF AuditedReceive, AuditedProcess, AuditNext, AuditStep
<1>2. CASE AppendRow
  BY <1>2 DEF AppendRow, ReadRow
<1>3. CASE Other /\ DeleteRow
  <2>1. CASE ukey \in Linked
    <3>1. ukey \in Flow  BY <2>1 DEF Linked
    <3>2. AuditDelete(ukey)
      BY <1>3, <2>1 DEF Other, DeleteRow, DeleteElem, AuditDelete
    <3> QED  BY <3>1, <3>2 DEF AuditNext
  <2>2. CASE ukey \notin Linked
    BY <1>3, <2>2 DEF Other, DeleteRow
  <2> QED  BY <2>1, <2>2
<1>4. CASE Other /\ Quit
  <2>1. CASE attached = TRUE
    BY <1>4, <2>1 DEF Other, Quit, Detach, AuditNext, AuditDetach
  <2>2. CASE ~attached
    BY <1>4, <2>2 DEF Other, Quit, Detach
  <2> QED  BY <2>1, <2>2
<1>5. CASE Other /\ (OpenFile \/ OpenFails \/ GetNextKey \/ Wake \/ Signal)
  BY <1>5 DEF Other, OpenFile, OpenFails, GetNextKey, Wake, Signal
<1>6. CASE UNCHANGED vars
  BY <1>6 DEF vars, drainVars
<1> QED  BY <1>1, <1>2, <1>3, <1>4, <1>5, <1>6 DEF Next, Other
-----------------------------------------------------------------------------
(* The process holds a key exactly while it works on one. *)
WalkTypeOK ==
  /\ keepRunning \in BOOLEAN
  /\ upc \in {"head", "next", "lookup", "delete", "sleep", "exited"}
  /\ ukey \in Flow \cup {NoFlow}

ReportInv == reported \in [Flow -> Nat] /\ NeverOverreports

(* The invariant of the audited map, the order of its keys, and that of    *)
(* the reports: what a flow's rows say and what the map holds beyond them  *)
(* is at most what was handled.                                            *)
DInv == IInv /\ OrderInv /\ WalkTypeOK /\ ReportInv

LEMMA InitDInv == Init => DInv
<1> SUFFICES ASSUME Init PROVE DInv  OBVIOUS
<1>1. IInv /\ OrderInv  BY InitIInv, InitKernel DEF Init, AuditInit
<1>2. WalkTypeOK  BY DEF Init, DrainInit, WalkTypeOK
<1>3. reported \in [Flow -> Nat]  BY DEF Init
<1>4. NeverOverreports
  BY DEF Init, TableInit, NeverOverreports, Unreported, Linked, AuditInit
<1> QED  BY <1>1, <1>2, <1>3, <1>4 DEF DInv, ReportInv

(* The table and the process's locals, whatever is reported. *)
LEMMA StepKeepsWalk ==
  ASSUME DInv, [Next]_vars PROVE IInv' /\ OrderInv' /\ WalkTypeOK'
<1> USE DEF DInv
<1>1. ASSUME NEW c \in Cpu, AuditedReceive(c)
      PROVE  IInv' /\ OrderInv' /\ WalkTypeOK'
  <2>1. AuditLookup(c) /\ UNCHANGED <<userVars, htab, order>>
    BY <1>1 DEF AuditedReceive, AuditLookup, Receive, Lookup, tableVars
  <2> QED  BY <2>1, LookupIInv, QuietOrder DEF WalkTypeOK, userVars
<1>2. ASSUME NEW c \in Cpu, AuditedProcess(c)
      PROVE  IInv' /\ OrderInv' /\ WalkTypeOK'
  <2>1. AuditComplete(c) /\ UNCHANGED userVars  BY <1>2 DEF AuditedProcess
  <2>2. OrderInv'  BY <2>1, CompleteOrder DEF AuditComplete, IInv
  <2> QED  BY <2>1, <2>2, CompleteIInv DEF WalkTypeOK, userVars
<1>3. CASE Other /\ DeleteRow /\ ukey \in Linked
  <2>1. /\ DeleteElem(ukey) /\ ukey \in Flow /\ UNCHANGED auditVars
        /\ upc' = "next" /\ UNCHANGED <<keepRunning, ukey>>
    BY <1>3 DEF Other, DeleteRow, Linked
  <2>2. OrderInv'  BY <2>1, DeleteOrder DEF IInv
  <2> QED  BY <2>1, <2>2, DeleteIInv DEF WalkTypeOK
<1>4. CASE Other /\ GetNextKey
  <2>1. order \in Seq(Flow) /\ Sorted(order) /\ Keys(order) \subseteq Flow
    BY OrderParts DEF Linked
  <2>2. FirstKey \in Flow \cup {NoFlow}  BY <2>1, FirstKeyIsFirst
  <2>3. ASSUME NEW k PROVE NextKey(k) \in Flow \cup {NoFlow}
    <3>1. CASE k \in Keys(order)
      BY <2>1, <3>1, NextKeyIsNext, BeforeOrder
    <3> QED  BY <2>2, <3>1, NextKeyOfMissing
  <2>4. /\ UNCHANGED kernelVars /\ UNCHANGED auditVars
        /\ upc' \in {"sleep", "lookup"}
        /\ ukey' = FirstKey \/ ukey' = NextKey(ukey)
        /\ UNCHANGED keepRunning
    BY <1>4 DEF Other, GetNextKey
  <2>5. WalkTypeOK'  BY <2>2, <2>3, <2>4 DEF WalkTypeOK
  <2>6. OrderInv'  BY <2>4, QuietOrder DEF kernelVars, tableVars
  <2> QED  BY <2>4, <2>5, <2>6, QuietIInv
<1>5. CASE \/ AppendRow \/ UNCHANGED vars
           \/ Other /\ (DeleteRow => ukey \notin Linked) /\ ~GetNextKey
  <2>1. /\ Detach \/ UNCHANGED kernelVars
        /\ UNCHANGED auditVars /\ ukey' = ukey
        /\ upc' \in {upc, "head", "next", "lookup", "delete", "sleep",
                     "exited"}
        /\ keepRunning' \in {keepRunning, FALSE}
    BY <1>5
    DEF AppendRow, ReadRow, Other, OpenFile, OpenFails, DeleteRow, Wake, Quit,
      Signal, vars, drainVars, userVars
  <2>2. UNCHANGED <<htab, order>>
    BY <2>1 DEF Detach, kernelVars, tableVars
  <2> QED  BY <2>1, <2>2, QuietIInv, QuietOrder DEF WalkTypeOK
<1> QED  BY <1>1, <1>2, <1>3, <1>4, <1>5 DEF Next, Other

-----------------------------------------------------------------------------
(* What is known of a flow k before a step after which nothing has been    *)
(* recycled.                                                               *)
LEMMA BeforeStep ==
  ASSUME DInv, ~recycled, NEW k \in Flow
  PROVE  /\ reported[k] \in Nat /\ seen[k] \in Nat
         /\ Unreported(k) \in Nat
         /\ reported[k] + Unreported(k) <= seen[k]
         /\ k \in Linked => /\ htab[k] \in Elem
                            /\ val[htab[k]] \in 0..(CounterMod - 1)
                            /\ ~HeldForAnother(k)
<1> USE ConstantsOK
    DEF DInv, ReportInv, IInv, AuditInv, KernelInv, KernelTypeOK
<1>1. reported[k] \in Nat /\ seen[k] \in Nat  OBVIOUS
<1>2. ASSUME k \in Linked
      PROVE  /\ htab[k] \in Elem /\ val[htab[k]] \in 0..(CounterMod - 1)
             /\ ~HeldForAnother(k)
  BY <1>2 DEF Linked, NeverOvercounts
<1>3. Unreported(k) \in Nat  BY <1>2 DEF Unreported
<1>4. reported[k] + Unreported(k) <= seen[k]  BY DEF NeverOverreports
<1> QED  BY <1>1, <1>2, <1>3, <1>4

(* A packet that is completed adds at most one to what the map holds of    *)
(* its flow, and nothing to what it holds of another.                      *)
LEMMA ProcessReports ==
  ASSUME DInv, NEW c \in Cpu, AuditedProcess(c) PROVE ReportInv'
<1> USE ConstantsOK
<1>1. /\ Complete(c)
      /\ seen' = [seen EXCEPT ![key[c]] = @ + 1]
      /\ recycled => recycled'
      /\ UNCHANGED <<upc, ukey, reported>>
  BY DEF AuditedProcess, AuditComplete, userVars
<1>2. SUFFICES ASSUME ~recycled', NEW k \in Flow
               PROVE  reported'[k] + Unreported(k)' <= seen'[k]
  BY <1>1 DEF DInv, ReportInv, NeverOverreports
<1>3. /\ reported[k] \in Nat /\ seen[k] \in Nat /\ Unreported(k) \in Nat
      /\ reported[k] + Unreported(k) <= seen[k]
      /\ k \in Linked => /\ htab[k] \in Elem
                         /\ val[htab[k]] \in 0..(CounterMod - 1)
                         /\ ~HeldForAnother(k)
  BY <1>1, <1>2, BeforeStep
<1>4. /\ htab \in [Flow -> Elem \cup {NoElem}]
      /\ val \in [Elem -> 0..(CounterMod - 1)]
      /\ seen \in [Flow -> Nat]
      /\ spare \in [Cpu -> Elem] /\ free \subseteq Elem
      /\ ElementsOwned
  BY DEF DInv, ReportInv, IInv, AuditInv, KernelInv, KernelTypeOK
<1>5. seen'[k] = IF key[c] = k THEN seen[k] + 1 ELSE seen[k]
  BY <1>1, <1>4
<1>6. CASE Add(c)
  <2>1. htab' = htab  BY <1>6 DEF Add
  <2>2. ptr[c] = htab[k] /\ k \in Linked => key[c] = k
    BY <1>3 DEF HeldForAnother, Linked
  <2>3. ASSUME k \in Linked
        PROVE  val'[htab[k]] \in Nat
               /\ val'[htab[k]] <= IF key[c] = k THEN val[htab[k]] + 1
                                   ELSE val[htab[k]]
    BY <1>3, <1>4, <1>6, <2>2, <2>3 DEF Add, Bump
  <2> QED  BY <1>1, <1>3, <1>5, <2>1, <2>3 DEF Unreported, Linked
<1>7. CASE InsertNew(c) \/ InsertOver(c)
  <2>1. CASE key[c] = k
    <3>1. htab'[k] \in Elem /\ val'[htab'[k]] = 1
      BY <1>4, <1>7, <2>1 DEF InsertNew, InsertOver
    <3>2. Unreported(k)' <= 1 /\ Unreported(k)' \in Nat
      BY <3>1 DEF Unreported
    <3> QED  BY <1>1, <1>3, <1>5, <2>1, <3>2
  <2>2. CASE key[c] # k
    <3>1. htab'[k] = htab[k]
      BY <1>4, <1>7, <2>2 DEF InsertNew, InsertOver
    <3>2. k \in Linked => val'[htab[k]] = val[htab[k]]
      BY <1>4, <1>7, <1>3
      DEF InsertNew, InsertOver, ElementsOwned, Linked
    <3>3. Unreported(k)' = Unreported(k)
      BY <1>1, <3>1, <3>2 DEF Unreported, Linked
    <3> QED  BY <1>1, <1>3, <1>5, <2>2, <3>3
  <2> QED  BY <2>1, <2>2
<1>8. CASE InsertFull(c)
  <2>1. Unreported(k)' = Unreported(k)
    BY <1>1, <1>8 DEF InsertFull, tableVars, Unreported, Linked
  <2> QED  BY <1>1, <1>3, <1>5, <2>1
<1> QED  BY <1>1, <1>6, <1>7, <1>8 DEF Complete

(* A row moves what the map holds of a flow to the report. *)
LEMMA RowReports ==
  ASSUME DInv, AppendRow PROVE ReportInv'
<1>1. /\ upc = "lookup" /\ upc' = IF ukey \in Linked THEN "delete" ELSE "next"
      /\ reported' = IF ukey \in Linked
                     THEN [reported EXCEPT ![ukey] = @ + val[htab[ukey]]]
                     ELSE reported
      /\ UNCHANGED <<htab, val, ukey, seen, recycled>>
  BY DEF AppendRow, ReadRow, kernelVars, tableVars, auditVars
<1>2. Linked \subseteq Flow  BY DEF Linked
<1>3. reported \in [Flow -> Nat]  BY DEF DInv, ReportInv
<1>4. \A k \in Linked : val[htab[k]] \in Nat
  BY ConstantsOK
  DEF DInv, ReportInv, IInv, AuditInv, KernelInv, KernelTypeOK, Linked
<1>5. reported' \in [Flow -> Nat]  BY <1>1, <1>2, <1>3, <1>4
<1>6. ASSUME ~recycled', NEW k \in Flow
      PROVE  reported'[k] + Unreported(k)' <= seen'[k]
  <2>1. /\ reported[k] \in Nat /\ seen[k] \in Nat /\ Unreported(k) \in Nat
        /\ reported[k] + Unreported(k) <= seen[k]
    BY <1>1, <1>6, BeforeStep
  <2>2. CASE k = ukey /\ ukey \in Linked
    <3>1. Unreported(k) = val[htab[k]]  BY <1>1, <2>2 DEF Unreported
    <3>2. Unreported(k)' = 0  BY <1>1, <2>2 DEF Unreported, Linked
    <3>3. reported'[k] = reported[k] + val[htab[k]]
      BY <1>1, <1>3, <2>2
    <3> QED  BY <1>1, <2>1, <3>1, <3>2, <3>3
  <2>3. CASE ~(k = ukey /\ ukey \in Linked)
    <3>1. Unreported(k)' = Unreported(k)
      BY <1>1, <2>3 DEF Unreported, Linked
    <3>2. reported'[k] = reported[k]  BY <1>1, <1>3, <2>3
    <3> QED  BY <1>1, <2>1, <3>1, <3>2
  <2> QED  BY <2>2, <2>3
<1> QED  BY <1>5, <1>6 DEF ReportInv, NeverOverreports

(* The other steps can only take from what the map holds: the delete of an *)
(* entry that has been reported.                                           *)
LEMMA OtherReports ==
  ASSUME DInv, Other PROVE ReportInv'
<1>1. UNCHANGED <<seen, recycled, reported>>  BY DEF Other, auditVars
<1>2. ASSUME NEW k \in Flow PROVE Unreported(k)' \in {0, Unreported(k)}
  <2> USE DEF kernelVars, tableVars, Unreported, Linked
  <2>1. CASE DeleteRow /\ ukey \in Linked
    <3>1. /\ htab' = [htab EXCEPT ![ukey] = NoElem] /\ val' = val
          /\ upc = "delete" /\ ukey \in Flow
      BY <2>1 DEF DeleteRow, DeleteElem
    <3>2. htab \in [Flow -> Elem \cup {NoElem}]
      BY DEF DInv, ReportInv, IInv, AuditInv, KernelInv, KernelTypeOK
    <3>3. CASE k = ukey  BY <3>1, <3>2, <3>3
    <3>4. CASE k # ukey
      <4>1. htab'[k] = htab[k]  BY <3>1, <3>2, <3>4
      <4>2. ukey' = ukey /\ upc' # "delete"  BY <2>1 DEF DeleteRow
      <4> QED  BY <3>1, <3>4, <4>1, <4>2
    <3> QED  BY <3>3, <3>4
  <2>2. CASE DeleteRow /\ ukey \notin Linked
    BY <2>2 DEF DeleteRow
  <2>3. CASE OpenFile \/ OpenFails \/ GetNextKey \/ Wake
    BY <2>3 DEF OpenFile, OpenFails, GetNextKey, Wake
  <2>4. CASE Quit \/ Signal
    BY <2>4 DEF Quit, Signal, Detach
  <2> QED  BY <2>1, <2>2, <2>3, <2>4 DEF Other
<1>3. ASSUME ~recycled', NEW k \in Flow
      PROVE  reported'[k] + Unreported(k)' <= seen'[k]
  <2>1. /\ reported[k] \in Nat /\ seen[k] \in Nat /\ Unreported(k) \in Nat
        /\ reported[k] + Unreported(k) <= seen[k]
    BY <1>1, <1>3, BeforeStep
  <2> QED  BY <1>1, <1>2, <2>1
<1> QED  BY <1>1, <1>3 DEF DInv, ReportInv, NeverOverreports

(* A lookup touches neither the report nor any count. *)
LEMMA ReceiveReports ==
  ASSUME DInv, NEW c \in Cpu, AuditedReceive(c) PROVE ReportInv'
BY DEF DInv, ReportInv, NeverOverreports, Unreported, Linked,
  AuditedReceive, userVars, AuditLookup, auditVars, Receive, Lookup, tableVars

(* Every step preserves the invariant. *)
LEMMA NextDInv == DInv /\ [Next]_vars => DInv'
<1> SUFFICES ASSUME DInv, [Next]_vars PROVE DInv'  OBVIOUS
<1>1. ReportInv'
  <2>1. CASE UNCHANGED vars
    BY <2>1 DEF DInv, ReportInv, NeverOverreports, Unreported, Linked, vars,
      drainVars, userVars, kernelVars, tableVars, auditVars
  <2>2. CASE Next
    BY <2>2, ReceiveReports, ProcessReports, RowReports, OtherReports DEF Next
  <2> QED  BY <2>1, <2>2
<1> QED  BY <1>1, StepKeepsWalk DEF DInv

-----------------------------------------------------------------------------
(* The inductive invariant of the read-and-delete writer. *)
THEOREM DrainInvariance == Spec => []DInv
BY InitDInv, NextDInv, PTL DEF Spec

(* The map, the order of its keys, the process and the audit are always in *)
(* a state the code can be in.                                             *)
THEOREM DrainTypeCorrect == Spec => []TypeOK
<1>1. DInv => TypeOK
  BY DEF DInv, IInv, AuditInv, KernelInv, OrderInv, WalkTypeOK, ReportInv,
    TypeOK, DrainTypeOK, AuditTypeOK
<1> QED  BY <1>1, DrainInvariance, PTL

(* The writer does to the map only what FlowAudit allows of a process that *)
(* deletes keys: it implements FlowAudit.                                  *)
THEOREM DrainUsesTable == ASSUME UserDeletes PROVE Spec => UsesTable
<1>1. Init => AuditInit  BY DEF Init
<1>2. DInv => attached \in BOOLEAN
  BY DEF DInv, IInv, KernelInv, KernelTypeOK
<1>3. DInv /\ [Next]_vars => [AuditNext]_auditedVars
  BY <1>2, StepUsesTable
<1> QED  BY <1>1, <1>3, DrainInvariance, PTL DEF Spec, UsesTable, AuditSpec

(* Unless an element was recycled, what flows.txt says of a flow and what  *)
(* the map still holds of it are together at most what was handled.        *)
THEOREM DrainNeverOverreports == Spec => []NeverOverreports
<1>1. DInv => NeverOverreports  BY DEF DInv, ReportInv
<1> QED  BY <1>1, DrainInvariance, PTL
-----------------------------------------------------------------------------
(* The members of Units. *)
LEMMA UnitOf ==
  ASSUME NEW f, NEW u
  PROVE  u \in Units(f) <=> \E k \in Flow : \E i \in 1..f[k] : u = <<k, i>>
BY DEF Units

(* The units that n more packets add to a count of m. *)
LEMMA MoreOfOne ==
  ASSUME NEW m \in Nat, NEW n \in Nat
  PROVE  IsFiniteSet((m + 1)..(m + n)) /\ Cardinality((m + 1)..(m + n)) = n
<1>1. m + 1 \in Int /\ m + n \in Int  OBVIOUS
<1>2. /\ IsFiniteSet((m + 1)..(m + n))
      /\ Cardinality((m + 1)..(m + n))
           = IF m + 1 > m + n THEN 0 ELSE (m + n) - (m + 1) + 1
  BY <1>1, FS_Interval
<1> QED  BY <1>2

(* g is f with n more for k. *)
Raises(f, g, k, n) ==
  \A l \in Flow : g[l] = IF l = k THEN f[l] + n ELSE f[l]

(* The sum is then n higher. *)
LEMMA MoreUnits ==
  ASSUME NEW f \in [Flow -> Nat], NEW g \in [Flow -> Nat],
         IsFiniteSet(Units(f)), NEW k \in Flow, NEW n \in Nat,
         Raises(f, g, k, n)
  PROVE  /\ IsFiniteSet(Units(g))
         /\ Total(f) \in Nat
         /\ Total(g) = Total(f) + n
<1> DEFINE T == (f[k] + 1)..(f[k] + n)
           D == {k} \X T
<1>1. f[k] \in Nat /\ g[k] = f[k] + n  BY DEF Raises
<1>2. IsFiniteSet(D) /\ Cardinality(D) = n
  <2>1. IsFiniteSet(T) /\ Cardinality(T) = n  BY <1>1, MoreOfOne
  <2>2. IsFiniteSet({k}) /\ Cardinality({k}) = 1  BY FS_Singleton
  <2> HIDE DEF T
  <2>3. IsFiniteSet(D) /\ Cardinality(D) = 1 * n
    BY <2>1, <2>2, FS_Product
  <2> QED  BY <2>3
<1>3. \A u : u \in D <=> \E i \in (f[k] + 1)..(f[k] + n) : u = <<k, i>>
  OBVIOUS
<1> HIDE DEF D
<1>4. Units(g) = Units(f) \cup D
  <2>1. ASSUME NEW u \in Units(g) PROVE u \in Units(f) \cup D
    <3>1. PICK l, i : l \in Flow /\ i \in 1..g[l] /\ u = <<l, i>>  BY <2>1, UnitOf
    <3>2. CASE i \in 1..f[l]  BY <3>1, <3>2, UnitOf
    <3>3. CASE i \notin 1..f[l]
      <4>1. l = k  BY <3>1, <3>3 DEF Raises
      <4>2. i \in (f[k] + 1)..(f[k] + n)  BY <1>1, <3>1, <3>3, <4>1
      <4> QED  BY <1>3, <3>1, <4>1, <4>2
    <3> QED  BY <3>2, <3>3
  <2>2. ASSUME NEW u \in Units(f) PROVE u \in Units(g)
    <3>1. PICK l, i : l \in Flow /\ i \in 1..f[l] /\ u = <<l, i>>  BY <2>2, UnitOf
    <3>2. i \in 1..g[l]  BY <3>1 DEF Raises
    <3> QED  BY <3>1, <3>2, UnitOf
  <2>3. ASSUME NEW u \in D PROVE u \in Units(g)
    <3>1. PICK i \in (f[k] + 1)..(f[k] + n) : u = <<k, i>>  BY <1>3, <2>3
    <3>2. i \in 1..g[k]  BY <1>1, <3>1
    <3> QED  BY <3>1, <3>2, UnitOf
  <2> QED  BY <2>1, <2>2, <2>3
<1>5. Units(f) \cap D = {}
  <2>1. ASSUME NEW u \in Units(f), u \in D PROVE FALSE
    <3>1. PICK l, i : l \in Flow /\ i \in 1..f[l] /\ u = <<l, i>>  BY <2>1, UnitOf
    <3>2. PICK j \in (f[k] + 1)..(f[k] + n) : u = <<k, j>>  BY <1>3, <2>1
    <3>3. l = k /\ i = j  BY <3>1, <3>2
    <3> QED  BY <1>1, <3>1, <3>2, <3>3
  <2> QED  BY <2>1
<1>6. Cardinality(Units(f)) \in Nat  BY FS_CardinalityType
<1>7. /\ IsFiniteSet(Units(f) \cup D)
      /\ Cardinality(Units(f) \cup D)
           = Cardinality(Units(f)) + Cardinality(D)
               - Cardinality(Units(f) \cap D)
  BY <1>2, FS_Union
<1> QED  BY <1>2, <1>4, <1>5, <1>6, <1>7, FS_EmptySet DEF Total

(* A sum none of whose terms is higher. *)
LEMMA FewerUnits ==
  ASSUME NEW f \in [Flow -> Nat], NEW g \in [Flow -> Nat],
         IsFiniteSet(Units(f)), \A l \in Flow : g[l] <= f[l]
  PROVE  IsFiniteSet(Units(g)) /\ Total(g) \in 0..Total(f)
<1>1. ASSUME NEW u \in Units(g) PROVE u \in Units(f)
  <2>1. PICK l, i : l \in Flow /\ i \in 1..g[l] /\ u = <<l, i>>  BY <1>1, UnitOf
  <2>2. i \in 1..f[l]  BY <2>1
  <2> QED  BY <2>1, <2>2, UnitOf
<1>2. Units(g) \in SUBSET Units(f)  BY <1>1
<1>3. /\ IsFiniteSet(Units(g))
      /\ Cardinality(Units(g)) <= Cardinality(Units(f))
  BY <1>2, FS_Subset
<1>4. Cardinality(Units(g)) \in Nat /\ Cardinality(Units(f)) \in Nat
  BY <1>3, FS_CardinalityType
<1> QED  BY <1>3, <1>4 DEF Total

(* A sum of zeroes. *)
LEMMA NoUnits ==
  ASSUME NEW f, \A k \in Flow : f[k] = 0
  PROVE  IsFiniteSet(Units(f)) /\ Total(f) = 0
<1>1. Units(f) = {}  BY UnitOf
<1> QED  BY <1>1, FS_EmptySet DEF Total

-----------------------------------------------------------------------------
(* The sums of the ledger are sums of finitely many packets, however many  *)
(* flows there are.                                                        *)
FiniteSums ==
  /\ IsFiniteSet(Units(seen))
  /\ IsFiniteSet(Units(Unwritten))
  /\ IsFiniteSet(Units(reported))

(* What the sums range over. *)
CountsOK ==
  /\ seen \in [Flow -> Nat] /\ reported \in [Flow -> Nat]
  /\ Unwritten \in [Flow -> Nat]
  /\ \A k \in Linked : k \in Flow /\ htab[k] \in Elem
                       /\ val[htab[k]] \in Nat

LEMMA CountTypes == DInv => CountsOK
<1> SUFFICES ASSUME DInv PROVE CountsOK  OBVIOUS
<1> USE ConstantsOK
    DEF DInv, ReportInv, IInv, AuditInv, KernelInv, KernelTypeOK, Linked
<1>1. \A k \in Linked : k \in Flow /\ htab[k] \in Elem
                        /\ val[htab[k]] \in Nat
  OBVIOUS
<1>2. \A k \in Flow : Unreported(k) \in Nat  BY <1>1 DEF Unreported
<1> QED  BY <1>1, <1>2 DEF CountsOK, Unwritten

(* A packet that is completed adds at most one to what the map holds of    *)
(* one flow, perhaps not its own, and nothing to what it holds of another. *)
LEMMA ProcessStores ==
  ASSUME DInv, DInv', NEW c \in Cpu, AuditedProcess(c)
  PROVE  \E j \in Flow : \A k \in Flow :
           Unwritten'[k] <= IF k = j THEN Unwritten[k] + 1 ELSE Unwritten[k]
<1>1. Complete(c) /\ UNCHANGED <<upc, ukey>> /\ key[c] \in Flow
  BY CompleteSeen DEF AuditedProcess, AuditComplete, userVars, DInv
<1>2. /\ htab \in [Flow -> Elem \cup {NoElem}]
      /\ val \in [Elem -> 0..(CounterMod - 1)]
      /\ spare \in [Cpu -> Elem] /\ free \subseteq Elem
      /\ ElementsOwned
  BY DEF DInv, IInv, KernelInv, KernelTypeOK
<1>3. \A k \in Flow : /\ Unwritten[k] \in Nat
                      /\ k \in Linked => /\ htab[k] \in Elem
                                         /\ val[htab[k]] \in Nat
  BY CountTypes DEF CountsOK
<1>4. CountsOK'  BY CountTypes, PTL
<1>5. ASSUME NEW k \in Flow
      PROVE  /\ Unwritten'[k] \in Nat
             /\ Unwritten[k] = Unreported(k) /\ Unwritten'[k] = Unreported(k)'
  BY <1>4 DEF CountsOK, Unwritten
<1>6. CASE Add(c)
  <2>1. PICK j \in Flow : \A k \in Linked : ptr[c] = htab[k] => k = j
    BY <1>1, <1>2 DEF ElementsOwned, Linked
  <2>2. ASSUME NEW k \in Flow
        PROVE  Unwritten'[k] <= IF k = j THEN Unwritten[k] + 1
                                ELSE Unwritten[k]
    <3>1. htab' = htab  BY <1>6 DEF Add
    <3>2. ASSUME k \in Linked
          PROVE  val'[htab[k]] <= IF k = j THEN val[htab[k]] + 1
                                  ELSE val[htab[k]]
      BY <1>2, <1>3, <1>6, <2>1, <3>2 DEF Add, Bump
    <3> QED  BY <1>1, <1>3, <1>5, <3>1, <3>2 DEF Unreported, Linked
  <2> QED  BY <2>2
<1>7. CASE InsertNew(c) \/ InsertOver(c)
  <2>1. ASSUME NEW k \in Flow
        PROVE  Unwritten'[k] <= IF k = key[c] THEN Unwritten[k] + 1
                                ELSE Unwritten[k]
    <3>1. CASE k = key[c]
      <4>1. val'[htab'[k]] = 1
        BY <1>2, <1>7, <3>1 DEF InsertNew, InsertOver
      <4>2. Unwritten'[k] <= 1  BY <1>5, <4>1 DEF Unreported
      <4> QED  BY <1>3, <1>5, <3>1, <4>2
    <3>2. CASE k # key[c]
      <4>1. htab'[k] = htab[k]
        BY <1>2, <1>7, <3>2 DEF InsertNew, InsertOver
      <4>2. k \in Linked => val'[htab[k]] = val[htab[k]]
        BY <1>2, <1>3, <1>7 DEF InsertNew, InsertOver, ElementsOwned, Linked
      <4>3. Unreported(k)' = Unreported(k)
        BY <1>1, <4>1, <4>2 DEF Unreported, Linked
      <4> QED  BY <1>3, <1>5, <3>2, <4>3
    <3> QED  BY <3>1, <3>2
  <2> QED  BY <1>1, <2>1
<1>8. CASE InsertFull(c)
  <2>1. ASSUME NEW k \in Flow PROVE Unreported(k)' = Unreported(k)
    BY <1>1, <1>8 DEF InsertFull, tableVars, Unreported, Linked
  <2>2. Unwritten' = Unwritten  BY <2>1 DEF Unwritten
  <2> QED  BY <1>1, <1>3, <2>2
<1> QED  BY <1>1, <1>6, <1>7, <1>8 DEF Complete

(* Handling a packet is Handle. *)
LEMMA ProcessLedger ==
  ASSUME DInv, DInv', FiniteSums, NEW c \in Cpu, AuditedProcess(c)
  PROVE  FiniteSums' /\ Ledger!Handle
<1>1. reported' = reported  BY DEF AuditedProcess
<1>2. seen \in [Flow -> Nat] /\ Unwritten \in [Flow -> Nat]
  BY CountTypes DEF CountsOK
<1>3. CountsOK'  BY CountTypes, PTL
<1>4. seen' \in [Flow -> Nat] /\ Unwritten' \in [Flow -> Nat]
  BY <1>3 DEF CountsOK
<1>5. key[c] \in Flow /\ Raises(seen, seen', key[c], 1)
  BY CompleteSeen DEF AuditedProcess, DInv, Raises
<1>6. IsFiniteSet(Units(seen')) /\ Total(seen') = Total(seen) + 1
  BY <1>2, <1>4, <1>5, MoreUnits DEF FiniteSums
<1>7. PICK j \in Flow : \A k \in Flow :
        Unwritten'[k] <= IF k = j THEN Unwritten[k] + 1 ELSE Unwritten[k]
  BY ProcessStores
<1> DEFINE h == [Unwritten EXCEPT ![j] = @ + 1]
<1>8. h \in [Flow -> Nat]  BY <1>2
<1>9. Raises(Unwritten, h, j, 1)  BY <1>2 DEF Raises
<1> HIDE DEF h
<1>10. /\ IsFiniteSet(Units(h)) /\ Total(Unwritten) \in Nat
      /\ Total(h) = Total(Unwritten) + 1
  BY <1>2, <1>8, <1>9, MoreUnits DEF FiniteSums
<1>11. IsFiniteSet(Units(Unwritten')) /\ Total(Unwritten') \in 0..Total(h)
  <2>1. \A k \in Flow : Unwritten'[k] <= h[k]
    BY <1>7, <1>9 DEF Raises
  <2> QED  BY <1>4, <1>8, <1>10, <2>1, FewerUnits
<1> QED
  BY <1>1, <1>6, <1>10, <1>11 DEF FiniteSums, Ledger!Handle, Total

(* A row is Report, of all the map holds of its flow. *)
LEMMA RowLedger ==
  ASSUME DInv, DInv', FiniteSums, AppendRow
  PROVE  FiniteSums' /\ Ledger!Report
<1>1. /\ upc = "lookup" /\ upc' = IF ukey \in Linked THEN "delete" ELSE "next"
      /\ reported' = IF ukey \in Linked
                     THEN [reported EXCEPT ![ukey] = @ + val[htab[ukey]]]
                     ELSE reported
      /\ UNCHANGED <<htab, val, ukey, seen>>
  BY DEF AppendRow, ReadRow, kernelVars, tableVars, auditVars
<1>2. /\ Unwritten \in [Flow -> Nat] /\ reported \in [Flow -> Nat]
      /\ \A k \in Linked : k \in Flow /\ val[htab[k]] \in Nat
  BY CountTypes DEF CountsOK
<1>3. CountsOK'  BY CountTypes, PTL
<1>4. /\ Unwritten' \in [Flow -> Nat] /\ reported' \in [Flow -> Nat]
      /\ \A k \in Flow : /\ Unwritten[k] = Unreported(k)
                         /\ Unwritten'[k] = Unreported(k)'
  BY <1>3 DEF CountsOK, Unwritten
<1>5. CASE ukey \in Linked
  <2> DEFINE n == val[htab[ukey]]
  <2>1. ukey \in Flow /\ n \in Nat  BY <1>2, <1>5
  <2>2. ASSUME NEW k \in Flow
        PROVE  /\ Unwritten[k] = IF k = ukey THEN Unwritten'[k] + n
                                 ELSE Unwritten'[k]
               /\ Unwritten[k] \in Nat /\ Unwritten'[k] \in Nat
    <3>1. CASE k = ukey
      <4>1. Unreported(k) = n /\ Unreported(k)' = 0
        BY <1>1, <1>5, <3>1 DEF Unreported, Linked
      <4> QED  BY <1>2, <1>4, <2>1, <3>1, <4>1
    <3>2. CASE k # ukey
      <4>1. Unreported(k)' = Unreported(k)
        BY <1>1, <3>2 DEF Unreported, Linked
      <4> QED  BY <1>2, <1>4, <3>2, <4>1
    <3> QED  BY <3>1, <3>2
  <2>3. Raises(reported, reported', ukey, n)
    BY <1>1, <1>2, <1>5 DEF Raises
  <2>4. Raises(Unwritten', Unwritten, ukey, n)  BY <2>2 DEF Raises
  <2> HIDE DEF n
  <2>5. \A k \in Flow : Unwritten'[k] <= Unwritten[k]
    BY <2>1, <2>2
  <2>6. IsFiniteSet(Units(Unwritten'))
    BY <1>2, <1>4, <2>5, FewerUnits DEF FiniteSums
  <2>7. Total(Unwritten') \in Nat /\ Total(Unwritten) = Total(Unwritten') + n
    BY <1>2, <1>4, <2>1, <2>6, <2>4, MoreUnits
  <2>8. /\ IsFiniteSet(Units(reported'))
        /\ Total(reported') = Total(reported) + n
    BY <1>2, <1>4, <2>1, <2>3, MoreUnits DEF FiniteSums
  <2>9. /\ n \in 0..Total(Unwritten)
        /\ Total(Unwritten') = Total(Unwritten) - n
    BY <2>1, <2>7
  <2> QED
    BY <1>1, <2>6, <2>8, <2>9 DEF FiniteSums, Ledger!Report, Total
<1>6. CASE ukey \notin Linked
  <2>1. ASSUME NEW k \in Flow PROVE Unreported(k)' = Unreported(k)
    BY <1>1, <1>6 DEF Unreported, Linked
  <2>2. Unwritten' = Unwritten  BY <2>1 DEF Unwritten
  <2>3. Total(Unwritten) \in Nat /\ Total(reported) \in Nat
    BY FS_CardinalityType DEF FiniteSums, Total
  <2>4. /\ 0 \in 0..Total(Unwritten)
        /\ Total(Unwritten) = Total(Unwritten) - 0
        /\ Total(reported) = Total(reported) + 0
    BY <2>3
  <2>5. Ledger!Report
    BY <1>1, <1>6, <2>2, <2>4 DEF Ledger!Report, Total
  <2> QED  BY <1>1, <1>6, <2>2, <2>5 DEF FiniteSums
<1> QED  BY <1>5, <1>6

(* The other steps leave the three sums as they are: the entry that is     *)
(* deleted counted no more.                                                *)
LEMMA OtherLedger ==
  ASSUME DInv, FiniteSums,
         Other \/ UNCHANGED vars \/ \E c \in Cpu : AuditedReceive(c)
  PROVE  FiniteSums' /\ UNCHANGED <<seen, Unwritten, reported>>
<1>1. UNCHANGED <<seen, reported>>
  BY DEF Other, vars, AuditedReceive, AuditLookup, auditVars
<1>2. ASSUME NEW k \in Flow PROVE Unreported(k)' = Unreported(k)
  <2> USE DEF kernelVars, tableVars, userVars, Unreported, Linked
  <2>1. CASE Other /\ DeleteRow /\ ukey \in Linked
    <3>1. /\ htab' = [htab EXCEPT ![ukey] = NoElem] /\ val' = val
          /\ upc = "delete" /\ upc' = "next" /\ ukey \in Flow
      BY <2>1 DEF DeleteRow, DeleteElem
    <3>2. htab \in [Flow -> Elem \cup {NoElem}]
      BY DEF DInv, IInv, KernelInv, KernelTypeOK
    <3>3. CASE k = ukey  BY <3>1, <3>2, <3>3
    <3>4. CASE k # ukey
      <4>1. htab'[k] = htab[k]  BY <3>1, <3>2, <3>4
      <4> QED  BY <3>1, <3>4, <4>1
    <3> QED  BY <3>3, <3>4
  <2>2. CASE Other /\ DeleteRow /\ ukey \notin Linked
    BY <2>2 DEF DeleteRow
  <2>3. CASE Other /\ (OpenFile \/ OpenFails \/ GetNextKey \/ Wake)
    BY <2>3 DEF OpenFile, OpenFails, GetNextKey, Wake
  <2>4. CASE Other /\ (Quit \/ Signal)
    BY <2>4 DEF Quit, Signal, Detach
  <2>5. CASE UNCHANGED vars  BY <2>5 DEF vars, drainVars
  <2>6. CASE \E c \in Cpu : AuditedReceive(c)
    BY <2>6 DEF AuditedReceive, AuditLookup, Receive, Lookup
  <2> QED  BY <2>1, <2>2, <2>3, <2>4, <2>5, <2>6 DEF Other
<1>3. Unwritten' = Unwritten  BY <1>2 DEF Unwritten
<1> QED  BY <1>1, <1>3 DEF FiniteSums

(* The initial state and every step are those of the ledger. *)
LEMMA InitLedger == Init => FiniteSums /\ Ledger!LedgerInit
<1> SUFFICES ASSUME Init PROVE FiniteSums /\ Ledger!LedgerInit  OBVIOUS
<1>1. \A k \in Flow : seen[k] = 0 /\ reported[k] = 0 /\ Unwritten[k] = 0
  BY DEF Init, AuditInit, TableInit, Unwritten, Unreported, Linked
<1> QED
  BY <1>1, NoUnits DEF FiniteSums, Ledger!LedgerInit, Total

LEMMA NextLedger ==
  ASSUME DInv, DInv', FiniteSums, [Next]_vars
  PROVE  FiniteSums' /\ [Ledger!LedgerNext]_(Ledger!ledger)
<1>1. ASSUME NEW c \in Cpu, AuditedProcess(c)
      PROVE  FiniteSums' /\ Ledger!LedgerNext
  BY <1>1, ProcessLedger DEF Ledger!LedgerNext
<1>2. CASE AppendRow  BY <1>2, RowLedger DEF Ledger!LedgerNext
<1>3. CASE Other \/ UNCHANGED vars \/ \E c \in Cpu : AuditedReceive(c)
  BY <1>3, OtherLedger DEF Ledger!ledger, Total
<1> QED  BY <1>1, <1>2, <1>3 DEF Next

(* Whatever races there are, recycled elements and wrapped counters        *)
(* included: over all flows, each packet that was handled is held in the   *)
(* map at most once, and goes to flows.txt at most once, out of the map.   *)
(* FlowDrainAudit implements FlowLedger.                                   *)
THEOREM DrainKeepsLedger == Spec => KeepsLedger
<1>1. DInv /\ FiniteSums /\ DInv' /\ [Next]_vars
        => FiniteSums' /\ [Ledger!LedgerNext]_(Ledger!ledger)
  BY NextLedger
<1> QED
  BY <1>1, InitLedger, DrainInvariance, PTL
  DEF Spec, KeepsLedger, Ledger!LedgerSpec
(* So the counts of flows.txt and those of the map are together never more *)
(* than the packets that were handled.                                     *)
THEOREM DrainConserves == Spec => []Ledger!Conserved
<1>1. FiniteSums => /\ Total(seen) \in Nat /\ Total(Unwritten) \in Nat
                    /\ Total(reported) \in Nat
  BY FS_CardinalityType DEF FiniteSums, Total
<1>2. Ledger!LedgerInit => Ledger!Conserved
  BY DEF Ledger!LedgerInit, Ledger!Conserved
<1>3. FiniteSums /\ Ledger!Conserved /\ [Ledger!LedgerNext]_(Ledger!ledger)
        => Ledger!Conserved'
  <2> SUFFICES ASSUME FiniteSums, Ledger!Conserved,
                      [Ledger!LedgerNext]_(Ledger!ledger)
               PROVE  Ledger!Conserved'
    OBVIOUS
  <2> USE DEF Ledger!Conserved, Total
  <2>1. CASE Ledger!Handle  BY <1>1, <2>1 DEF Ledger!Handle
  <2>2. CASE Ledger!Report  BY <1>1, <2>2 DEF Ledger!Report
  <2>3. CASE UNCHANGED Ledger!ledger  BY <2>3 DEF Ledger!ledger
  <2> QED  BY <2>1, <2>2, <2>3 DEF Ledger!LedgerNext
<1>4. DInv /\ FiniteSums /\ DInv' /\ [Next]_vars
        => FiniteSums' /\ [Ledger!LedgerNext]_(Ledger!ledger)
  BY NextLedger
<1> QED
  BY <1>2, <1>3, <1>4, InitLedger, DrainInvariance, PTL DEF Spec
=============================================================================
