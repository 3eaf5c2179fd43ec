------------------------- MODULE FlowSnapshotProofs -------------------------
(***************************************************************************)
(* The snapshot writer, for any number of CPUs, flows and elements: a dump *)
(* misses no flow that was settled when it began.                          *)
(***************************************************************************)
EXTENDS FlowSnapshot, FlowTableProofs

(* No counter is ever kept under the key the walk starts from. *)
ZeroUnused ==
  ZeroKey \notin Linked /\ \A c \in Cpu : key[c] # ZeroKey

(* Where the walk is: at its start, or at a key that is still there, since *)
(* nobody deletes.                                                         *)
WalkPlace ==
  /\ upc \in {"head", "sleep"} => ukey = ZeroKey
  /\ upc = "next" => ukey = ZeroKey \/ ukey \in Linked
  /\ upc = "lookup" => unext \in Linked

(* A flow that was settled when the file was opened has its row, or the    *)
(* walk is still to come to it: settled flows are not moved, and a flow    *)
(* that is moved takes the walk back with it, never past another flow.     *)
WalkAhead ==
  \A k \in settledAtOpen :
    \/ \E r \in file : r.flow = k
    \/ upc = "next" /\ (ukey = ZeroKey \/ Before(order, ukey, k))
    \/ upc = "lookup" /\ (k = unext \/ Before(order, unext, k))

UserTypeOK ==
  /\ keepRunning \in BOOLEAN
  /\ upc \in {"head", "next", "lookup", "sleep", "exited"}
  /\ ukey \in Flow
  /\ unext \in Flow
  /\ file \subseteq Row
  /\ settledAtOpen \subseteq Flow

(* The inductive invariant. *)
SInv ==
  /\ KernelInv /\ OrderInv /\ UserTypeOK
  /\ ZeroUnused
  /\ \A k \in settledAtOpen : Settled(k)
  /\ WalkPlace
  /\ WalkAhead

-----------------------------------------------------------------------------
(* The key a counted frame is filed under is a flow key, and not the zero  *)
(* one.                                                                    *)
LEMMA CountedKey ==
  ASSUME NEW f \in Frame, Counted(f)
  PROVE  KeyOf(f) \in Flow /\ KeyOf(f) # ZeroKey
BY FramesOK, ZeroKeyOK DEF Counted, KeyOf, FrameType

LEMMA InitSInv == Init => SInv
<1> SUFFICES ASSUME Init PROVE SInv  OBVIOUS
<1> USE DEF Init
<1>1. KernelInv /\ OrderInv  BY InitKernel
<1>2. UserTypeOK  BY ZeroKeyOK DEF UserTypeOK
<1>3. ZeroUnused  BY ZeroKeyOK, ConstantsOK DEF ZeroUnused, TableInit, Linked
<1>4. WalkPlace /\ WalkAhead  BY DEF WalkPlace, WalkAhead
<1> QED  BY <1>1, <1>2, <1>3, <1>4 DEF SInv

(* A frame's lookup leaves the map alone.                                  *)
LEMMA ReceiveSInv ==
  ASSUME SInv, NEW c \in Cpu, SnapReceive(c) PROVE SInv'
<1>1. PICK f \in Frame : Counted(f) /\ Lookup(c, KeyOf(f))
  BY DEF SnapReceive, Receive
<1>2. KeyOf(f) \in Flow /\ KeyOf(f) # ZeroKey  BY <1>1, CountedKey
<1>3. UNCHANGED <<userVars, htab, order>>
  BY <1>1 DEF SnapReceive, Lookup, tableVars
<1>4. KernelInv'  BY <1>1, <1>2, LookupKernel DEF SInv
<1>5. OrderInv' /\ Linked' = Linked  BY <1>3, QuietOrder DEF SInv
<1>6. UserTypeOK'  BY <1>3 DEF SInv, UserTypeOK, userVars
<1>7. ZeroUnused'
  BY <1>1, <1>2, <1>5
  DEF SInv, ZeroUnused, Lookup, KernelInv, KernelTypeOK
<1>8. \A k \in settledAtOpen' : Settled(k)'
  BY <1>1, <1>2, <1>3, LookupSettles DEF SInv, UserTypeOK, userVars
<1>9. WalkPlace' /\ WalkAhead'
  BY <1>3, <1>5 DEF SInv, WalkPlace, WalkAhead, userVars
<1> QED  BY <1>4, <1>5, <1>6, <1>7, <1>8, <1>9 DEF SInv

(* An update moves its own key at most, and to the front.                  *)
LEMMA LinkKeepsAhead ==
  ASSUME NEW s \in Seq(Flow), Sorted(s), NEW l \in Flow,
         NEW x, NEW y, Before(s, x, y), y # l
  PROVE  Before(LinkFirst(s, l), x, y)
<1>1. CASE x # l
  BY <1>1, LinkOrder
<1>2. CASE x = l
  <2>1. y \in Keys(s) /\ Bucket[x] <= Bucket[y]  BY BeforeOrder
  <2>2. Keys(s) \subseteq Flow  BY DEF Keys
  <2>3. Bucket[y] >= Bucket[l]  BY <1>2, <2>1, <2>2, ConstantsOK
  <2> QED  BY <1>2, <2>1, <2>3, LinkOrder
<1> QED  BY <1>1, <1>2

LEMMA ProcessSInv ==
  ASSUME SInv, NEW c \in Cpu, SnapProcess(c) PROVE SInv'
<1>1. Complete(c) /\ UNCHANGED userVars  BY DEF SnapProcess
<1>2. KernelInv'  BY <1>1, CompleteKernel DEF SInv
<1>3. OrderInv'  BY <1>1, CompleteOrder DEF SInv
<1>4. UserTypeOK'  BY <1>1 DEF SInv, UserTypeOK, userVars
<1>5. /\ key[c] \in Flow
      /\ \A d \in Cpu : key'[d] = IF d = c THEN NoFlow ELSE key[d]
  BY <1>1, CompleteLocals DEF SInv
<1>6. \/ UNCHANGED order /\ Linked' = Linked
      \/ /\ pc[c] = "insert" /\ order' = LinkFirst(order, key[c])
         /\ Linked' = Linked \cup {key[c]}
  BY <1>1, CompleteLinks DEF SInv
<1>7. ZeroUnused'
  BY <1>5, <1>6, ZeroKeyOK, ConstantsOK DEF SInv, ZeroUnused
<1>8. \A k \in settledAtOpen : pc[c] = "insert" => key[c] # k
  BY <1>1, CompleteSettles DEF SInv, UserTypeOK
<1>9. \A k \in settledAtOpen' : Settled(k)'
  <2> SUFFICES ASSUME NEW k \in settledAtOpen PROVE Settled(k)'
    BY <1>1 DEF userVars
  <2> QED  BY <1>1, CompleteSettles DEF SInv, UserTypeOK
<1>10. WalkPlace'  BY <1>1, <1>6 DEF SInv, WalkPlace, userVars
<1>11. WalkAhead'
  <2>1. order \in Seq(Flow) /\ Sorted(order)  BY OrderParts DEF SInv
  <2>2. ASSUME NEW k \in settledAtOpen, NEW x, Before(order, x, k)
        PROVE  Before(order', x, k)
    <3>1. CASE UNCHANGED order  BY <2>2, <3>1
    <3>2. CASE pc[c] = "insert" /\ order' = LinkFirst(order, key[c])
      <4>1. key[c] # k  BY <1>8, <3>2
      <4> QED  BY <1>5, <2>1, <2>2, <3>2, <4>1, LinkKeepsAhead
    <3> QED  BY <1>6, <3>1, <3>2
  <2> SUFFICES ASSUME NEW k \in settledAtOpen
               PROVE  \/ \E r \in file : r.flow = k
                      \/ /\ upc = "next"
                         /\ ukey = ZeroKey \/ Before(order', ukey, k)
                      \/ /\ upc = "lookup"
                         /\ k = unext \/ Before(order', unext, k)
    BY <1>1 DEF WalkAhead, userVars
  <2> QED  BY <2>2 DEF SInv, WalkAhead
<1> QED  BY <1>2, <1>3, <1>4, <1>7, <1>9, <1>10, <1>11 DEF SInv

(* When the file is opened the walk is at its start: all is ahead.         *)
LEMMA OpenSInv == ASSUME SInv, OpenFile PROVE SInv'
<1> USE DEF OpenFile
<1>1. KernelInv'  BY QuietKernel DEF SInv
<1>2. OrderInv' /\ Linked' = Linked
  BY QuietOrder DEF SInv, kernelVars, tableVars
<1>3. UserTypeOK'  BY DEF SInv, UserTypeOK
<1>4. ZeroUnused'  BY <1>2 DEF SInv, ZeroUnused, kernelVars, cpuVars
<1>5. \A k \in settledAtOpen' : Settled(k)'
  BY DEF Settled, kernelVars, tableVars, cpuVars
<1>6. WalkPlace' /\ WalkAhead'  BY DEF SInv, WalkPlace, WalkAhead
<1> QED  BY <1>1, <1>2, <1>3, <1>4, <1>5, <1>6 DEF SInv

(* Where bpf_map_get_next_key takes the walk: what was ahead of it is what *)
(* it finds or ahead of that.  At the end nothing was ahead.               *)
LEMMA NextSInv == ASSUME SInv, GetNextKey PROVE SInv'
<1> USE DEF GetNextKey
<1>1. KernelInv'  BY QuietKernel DEF SInv
<1>2. OrderInv' /\ Linked' = Linked
  BY QuietOrder DEF SInv, kernelVars, tableVars
<1>3. order \in Seq(Flow) /\ Keys(order) = Linked /\ Sorted(order)
  BY OrderParts DEF SInv
<1>4. Linked \subseteq Flow /\ ukey \in Flow
  BY DEF Linked, SInv, UserTypeOK
<1>5. CASE NextKey(ukey) = NoFlow
  <2>1. \A k \in Linked : ukey # ZeroKey /\ ~Before(order, ukey, k)
    <3>1. CASE ukey \in Linked
      BY <1>3, <1>5, <3>1, NextKeyIsNext DEF SInv, ZeroUnused
    <3>2. CASE ukey \notin Linked
      BY <1>3, <1>5, <3>2, NextKeyOfMissing, FirstKeyIsFirst
    <3> QED  BY <3>1, <3>2
  <2>2. settledAtOpen \subseteq Linked
    BY DEF SInv, Settled, UserTypeOK, Linked
  <2>3. \A k \in settledAtOpen : \E r \in file : r.flow = k
    BY <2>1, <2>2 DEF SInv, WalkAhead
  <2>4. UserTypeOK' /\ WalkPlace'
    BY <1>5, ZeroKeyOK DEF SInv, UserTypeOK, WalkPlace
  <2>5. WalkAhead'  BY <1>5, <2>3 DEF WalkAhead
  <2> QED  BY <1>1, <1>2, <2>4, <2>5
           DEF SInv, ZeroUnused, Settled, kernelVars, tableVars, cpuVars
<1>6. CASE NextKey(ukey) # NoFlow
  <2>1. /\ NextKey(ukey) \in Linked
        /\ \A k \in Linked :
             ukey = ZeroKey \/ Before(order, ukey, k) =>
               k = NextKey(ukey) \/ Before(order, NextKey(ukey), k)
    <3>1. CASE ukey \in Linked
      <4>1. ukey # ZeroKey  BY <3>1 DEF SInv, ZeroUnused
      <4>2. Before(order, ukey, NextKey(ukey))
        BY <1>3, <1>6, <3>1, NextKeyIsNext
      <4>3. NextKey(ukey) \in Linked  BY <1>3, <4>2, BeforeOrder
      <4> QED  BY <1>3, <1>6, <3>1, <4>1, <4>3, NextKeyIsNext
    <3>2. CASE ukey \notin Linked
      BY <1>3, <1>6, <3>2, NextKeyOfMissing, FirstKeyIsFirst
    <3> QED  BY <3>1, <3>2
  <2>2. settledAtOpen \subseteq Linked
    BY DEF SInv, Settled, UserTypeOK, Linked
  <2>3. UserTypeOK'  BY <1>4, <1>6, <2>1 DEF SInv, UserTypeOK
  <2>4. WalkPlace'  BY <1>2, <1>6, <2>1 DEF WalkPlace
  <2>5. WalkAhead'
    BY <1>6, <2>1, <2>2
    DEF SInv, WalkAhead, kernelVars, tableVars
  <2> QED  BY <1>1, <1>2, <2>3, <2>4, <2>5
           DEF SInv, ZeroUnused, Settled, kernelVars, tableVars, cpuVars
<1> QED  BY <1>5, <1>6

(* The row of the key that was found is written: it is there.              *)
LEMMA WriteSInv == ASSUME SInv, WriteRow PROVE SInv'
<1> USE DEF WriteRow
<1>1. KernelInv'  BY QuietKernel DEF SInv
<1>2. OrderInv' /\ Linked' = Linked
  BY QuietOrder DEF SInv, kernelVars, tableVars
<1>3. unext \in Linked /\ unext \in Flow
  BY DEF SInv, WalkPlace, UserTypeOK
<1> DEFINE row == [flow |-> unext, packets |-> val[htab[unext]]]
<1>4. row \in Row
  <2>1. val[htab[unext]] \in 0..(CounterMod - 1)
    BY <1>3 DEF SInv, KernelInv, KernelTypeOK, Linked
  <2> QED  BY <1>3, <2>1 DEF Row
<1>5. row.flow = unext /\ file' = file \cup {row}  BY <1>3
<1> HIDE DEF row
<1>6. UserTypeOK'  BY <1>3, <1>4, <1>5 DEF SInv, UserTypeOK
<1>7. WalkPlace'  BY <1>2, <1>3 DEF WalkPlace
<1>8. WalkAhead'
  BY <1>5 DEF SInv, WalkAhead, kernelVars, tableVars
<1> QED  BY <1>1, <1>2, <1>6, <1>7, <1>8
         DEF SInv, ZeroUnused, Settled, kernelVars, tableVars, cpuVars

(* The other steps of the process touch neither the walk nor the map.      *)
LEMMA OtherSInv ==
  ASSUME SInv, OpenFails \/ Wake \/ Quit \/ Signal \/ UNCHANGED vars
  PROVE  SInv'
<1> USE DEF OpenFails, Wake, Quit, Signal, Detach, vars, userVars
<1>1. KernelInv'  BY QuietKernel DEF SInv
<1>2. UNCHANGED <<htab, order, key, ptr>>
  BY DEF kernelVars, tableVars, cpuVars
<1>3. OrderInv' /\ Linked' = Linked  BY <1>2, QuietOrder DEF SInv
<1>4. UserTypeOK'  BY DEF SInv, UserTypeOK
<1>5. ZeroUnused'  BY <1>2, <1>3 DEF SInv, ZeroUnused
<1>6. \A k \in settledAtOpen' : Settled(k)'  BY <1>2 DEF SInv, Settled
<1>7. WalkPlace' /\ WalkAhead'
  BY <1>2, <1>3 DEF SInv, WalkPlace, WalkAhead
<1> QED  BY <1>1, <1>3, <1>4, <1>5, <1>6, <1>7 DEF SInv

LEMMA NextKeepsSInv == SInv /\ [Next]_vars => SInv'
BY ReceiveSInv, ProcessSInv, OpenSInv, NextSInv, WriteSInv, OtherSInv
DEF Next, User, Dump

-----------------------------------------------------------------------------
(* The inductive invariant holds throughout. *)
THEOREM SnapshotInvariance == Spec => []SInv
BY InitSInv, NextKeepsSInv, PTL DEF Spec

(* Every variable keeps its type, and the order the walk follows lists the *)
(* keys of the map, each once.                                             *)
THEOREM SnapshotTypeCorrect == Spec => []TypeOK
<1>1. SInv => TypeOK
  BY DEF SInv, KernelInv, OrderInv, UserTypeOK, TypeOK
<1> QED  BY <1>1, SnapshotInvariance, PTL

(* flows.txt misses no flow that was settled when the dump began, whatever *)
(* is linked, moved and counted under the walk.                            *)
THEOREM DumpsAreComplete == Spec => []DumpComplete
<1>1. SInv => DumpComplete
  BY DEF SInv, WalkAhead, DumpComplete
<1> QED  BY <1>1, SnapshotInvariance, PTL
=============================================================================
