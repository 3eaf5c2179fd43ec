-------------------------- MODULE FlowBatchProofs --------------------------
(***************************************************************************)
(* The batch writer, for any number of CPUs, flows and elements: the keys  *)
(* its walk holds are in the map, and, unless an update moves a flow       *)
(* during the batch, each flow that was there gets one row and only one.   *)
(***************************************************************************)
EXTENDS FlowBatch, FlowTableProofs

UserTypeOK ==
  /\ keepRunning \in BOOLEAN
  /\ upc \in {"head", "sleep", "loop", "lookup", "delete", "exited"}
  /\ {ukey, unext} \subseteq Flow \cup {NoFlow}
  /\ rows \in Seq(Flow)
  /\ linkedAtOpen \subseteq Flow
  /\ moved \in BOOLEAN

(* Between batches nothing is kept of the last one. *)
BetweenBatches ==
  ~InBatch => rows = <<>> /\ linkedAtOpen = {} /\ ~moved

Logged(k) == \E i \in DOMAIN rows : rows[i] = k

(* The walk has taken k: its row is written, or about to be. *)
Passed(k) == Logged(k) \/ (upc = "lookup" /\ k = ukey)

(* The walk does not come back to a flow it has passed: not to one that is *)
(* still there, which is behind it, nor to one that was deleted and is     *)
(* linked again, which goes to the front of a bucket the walk has reached. *)
WalkOnce ==
  /\ \A i, j \in DOMAIN rows : rows[i] = rows[j] => i = j
  /\ upc = "lookup" => ~Logged(ukey)
  /\ upc = "delete" => Logged(ukey)
  /\ unext # NoFlow =>
       \A k \in Flow : Passed(k) =>
         /\ k # unext /\ ~Before(order, unext, k)
         /\ Bucket[k] <= Bucket[unext]

(* A flow that was in the map when the batch was opened has been passed,   *)
(* or the walk is still to come to it.                                     *)
WalkAhead ==
  \A k \in linkedAtOpen :
    \/ Passed(k)
    \/ unext # NoFlow /\ (k = unext \/ Before(order, unext, k))

(* The inductive invariant. *)
BInv ==
  /\ KernelInv /\ OrderInv /\ UserTypeOK
  /\ BetweenBatches
  /\ HeldKeysLinked
  /\ InBatch /\ ~moved => WalkOnce /\ WalkAhead

-----------------------------------------------------------------------------
LEMMA TrackedKey == ASSUME NEW f \in Frame PROVE f.endpoints \in Flow
BY FramesOK DEF FrameType

LEMMA InitBInv == Init => BInv
<1> SUFFICES ASSUME Init PROVE BInv  OBVIOUS
<1> USE DEF Init
<1>1. KernelInv /\ OrderInv  BY InitKernel
<1>2. UserTypeOK
  <2>1. rows \in Seq(Flow)  OBVIOUS
  <2>2. {ukey, unext} \subseteq Flow \cup {NoFlow}  OBVIOUS
  <2> QED  BY <2>1, <2>2 DEF UserTypeOK
<1>3. ~InBatch  BY DEF InBatch
<1>4. BetweenBatches /\ HeldKeysLinked
  BY <1>3 DEF BetweenBatches, HeldKeysLinked, InBatch
<1> QED  BY <1>1, <1>2, <1>3, <1>4 DEF BInv

(* What a step leaves alone in the order and in the walk it does not put   *)
(* into question.                                                          *)
LEMMA SameWalk ==
  ASSUME WalkOnce, WalkAhead, UNCHANGED <<batchVars, upc, order>>
  PROVE  WalkOnce' /\ WalkAhead'
BY DEF WalkOnce, WalkAhead, Passed, Logged, batchVars

(* A frame's lookup leaves the map alone. *)
LEMMA ReceiveBInv ==
  ASSUME BInv, NEW c \in Cpu, Receive(c) PROVE BInv'
<1>1. PICK f \in Frame : Lookup(c, f.endpoints)  BY DEF Receive
<1>2. UNCHANGED <<userVars, htab, order>>
  BY <1>1 DEF Receive, Lookup, tableVars
<1>3. KernelInv'  BY <1>1, TrackedKey, LookupKernel DEF BInv
<1>4. OrderInv' /\ Linked' = Linked  BY <1>2, QuietOrder DEF BInv
<1>5. UserTypeOK' /\ BetweenBatches' /\ HeldKeysLinked'
  BY <1>2, <1>4 DEF BInv, UserTypeOK, BetweenBatches, HeldKeysLinked, InBatch,
    userVars, batchVars
<1>6. InBatch' /\ ~moved' => WalkOnce' /\ WalkAhead'
  BY <1>2, SameWalk DEF BInv, InBatch, userVars, batchVars
<1> QED  BY <1>3, <1>4, <1>5, <1>6 DEF BInv

(* A flow that is linked anew joins its bucket in front: behind the walk   *)
(* if the walk has passed it before, and the others keep their places.     *)
LEMMA LinkedAnew ==
  ASSUME BInv, WalkOnce, WalkAhead, InBatch,
         NEW l \in Flow, l \notin Linked, order' = LinkFirst(order, l),
         UNCHANGED <<batchVars, upc>>
  PROVE  WalkOnce' /\ WalkAhead'
<1>1. order \in Seq(Flow) /\ Sorted(order) /\ Keys(order) = Linked
  BY OrderParts DEF BInv
<1>2. UNCHANGED <<ukey, unext, rows, linkedAtOpen>>  BY DEF batchVars
<1>3. \A k : Passed(k)' <=> Passed(k)  BY <1>2 DEF Passed, Logged
<1>4. ASSUME unext # NoFlow
      PROVE  /\ unext \in Linked /\ unext # l
             /\ \A k : k # l => (Before(order', unext, k) <=>
                                 Before(order, unext, k))
  <2>1. unext \in Linked /\ unext # l
    BY <1>4 DEF BInv, HeldKeysLinked
  <2> QED  BY <1>1, <2>1, LinkOrder
<1>5. ASSUME NEW k \in Flow, unext # NoFlow, Passed(k)
      PROVE  /\ k # unext /\ ~Before(order', unext, k)
             /\ Bucket[k] <= Bucket[unext]
  <2>1. /\ k # unext /\ ~Before(order, unext, k)
        /\ Bucket[k] <= Bucket[unext]
    BY <1>5 DEF WalkOnce
  <2>2. CASE k # l  BY <1>4, <1>5, <2>1, <2>2
  <2>3. CASE k = l
    <3>1. unext \in Flow  BY <1>4, <1>5 DEF Linked
    <3>2. Bucket[unext] >= Bucket[l]  BY <2>1, <2>3, <3>1, ConstantsOK
    <3>3. unext \in Keys(order) \ {l}  BY <1>1, <1>4, <1>5
    <3>4. Before(order', l, unext)  BY <1>1, <3>2, <3>3, LinkOrder
    <3>5. order' \in Seq(Flow) /\ Sorted(order')  BY <1>1, LinkOrder
    <3>6. ~Before(order', unext, l)  BY <3>4, <3>5, BeforeOrder
    <3> QED  BY <2>1, <2>3, <3>6
  <2> QED  BY <2>2, <2>3
<1>6. WalkOnce'
  BY <1>2, <1>3, <1>5 DEF WalkOnce, Passed, Logged
<1>7. WalkAhead'
  <2> SUFFICES ASSUME NEW k \in linkedAtOpen, ~Passed(k)
               PROVE  /\ unext # NoFlow
                      /\ k = unext \/ Before(order', unext, k)
    BY <1>2, <1>3 DEF WalkAhead
  <2>1. unext # NoFlow /\ (k = unext \/ Before(order, unext, k))
    BY DEF WalkAhead
  <2>2. k # l
    <3>1. CASE k = unext  BY <1>4, <2>1, <3>1
    <3>2. CASE Before(order, unext, k)
      BY <1>1, <3>2, BeforeOrder
    <3> QED  BY <2>1, <3>1, <3>2
  <2> QED  BY <1>4, <2>1, <2>2
<1> QED  BY <1>6, <1>7

LEMMA ProcessBInv ==
  ASSUME BInv, NEW c \in Cpu, Process(c) PROVE BInv'
<1>1. /\ Complete(c)
      /\ moved' = (moved \/ (InBatch /\ pc[c] = "insert" /\ key[c] \in Linked))
      /\ UNCHANGED <<keepRunning, upc, ukey, unext, rows, linkedAtOpen>>
  BY DEF Process
<1>2. KernelInv' /\ OrderInv' /\ key[c] \in Flow
  BY <1>1, CompleteKernel, CompleteOrder, CompleteLocals DEF BInv
<1>3. \/ UNCHANGED order /\ Linked' = Linked
      \/ /\ pc[c] = "insert" /\ order' = LinkFirst(order, key[c])
         /\ Linked' = Linked \cup {key[c]}
  BY <1>1, CompleteLinks DEF BInv
<1>4. UserTypeOK'  BY <1>1 DEF BInv, UserTypeOK
<1>5. BetweenBatches'  BY <1>1 DEF BInv, BetweenBatches, InBatch
<1>6. HeldKeysLinked'  BY <1>1, <1>3 DEF BInv, HeldKeysLinked, InBatch
<1>7. ASSUME InBatch', ~moved' PROVE WalkOnce' /\ WalkAhead'
  <2>1. InBatch /\ ~moved /\ moved' = moved
    BY <1>1, <1>7 DEF InBatch, BInv, UserTypeOK
  <2>2. WalkOnce /\ WalkAhead /\ UNCHANGED <<batchVars, upc>>
    BY <1>1, <2>1 DEF BInv, batchVars
  <2>3. CASE UNCHANGED order  BY <2>2, <2>3, SameWalk
  <2>4. CASE pc[c] = "insert" /\ order' = LinkFirst(order, key[c])
    <3>1. key[c] \notin Linked  BY <1>1, <1>7, <2>1, <2>4
    <3> QED  BY <1>2, <2>1, <2>2, <2>4, <3>1, LinkedAnew
  <2> QED  BY <1>3, <2>3, <2>4
<1> QED  BY <1>2, <1>4, <1>5, <1>6, <1>7 DEF BInv

-----------------------------------------------------------------------------
(* The steps of the process that do not touch the map. *)
LEMMA QuietTable ==
  ASSUME BInv, UNCHANGED kernelVars
  PROVE  KernelInv' /\ OrderInv' /\ Linked' = Linked /\ order' = order
BY QuietKernel, QuietOrder DEF BInv, kernelVars, tableVars

(* The first key: everything in the map is ahead of the walk. *)
LEMMA OpenBInv == ASSUME BInv, OpenBatch PROVE BInv'
<1> USE DEF OpenBatch
<1>1. KernelInv' /\ OrderInv' /\ Linked' = Linked /\ order' = order
  BY QuietTable
<1>2. order \in Seq(Flow) /\ Sorted(order) /\ Keys(order) = Linked
  BY OrderParts DEF BInv
<1>3. IF FirstKey = NoFlow THEN Linked = {}
      ELSE /\ FirstKey \in Linked
           /\ \A y \in Linked : y = FirstKey \/ Before(order, FirstKey, y)
  BY <1>2, FirstKeyIsFirst
<1>4. Linked \subseteq Flow  BY DEF Linked
<1>5. rows = <<>> /\ rows' = rows /\ DOMAIN rows = {}
  BY DEF BInv, BetweenBatches, InBatch
<1>6. UserTypeOK'  BY <1>3, <1>4 DEF BInv, UserTypeOK
<1>7. BetweenBatches' /\ HeldKeysLinked'
  BY <1>1, <1>3 DEF BetweenBatches, HeldKeysLinked, InBatch
<1>8. WalkOnce'  BY <1>5 DEF WalkOnce, Passed, Logged
<1>9. WalkAhead'
  <2> SUFFICES ASSUME NEW k \in Linked
               PROVE  FirstKey # NoFlow
                      /\ (k = FirstKey \/ Before(order, FirstKey, k))
    BY <1>1 DEF WalkAhead
  <2> QED  BY <1>3
<1> QED  BY <1>1, <1>6, <1>7, <1>8, <1>9 DEF BInv

(* The walk takes a flow, and asks for the one after it before it deletes  *)
(* it: what was ahead is taken, next, or ahead of that.                    *)
LEMMA LookAheadBInv == ASSUME BInv, LookAhead PROVE BInv'
<1> USE DEF LookAhead
<1>1. KernelInv' /\ OrderInv' /\ Linked' = Linked /\ order' = order
  BY QuietTable
<1>2. order \in Seq(Flow) /\ Sorted(order) /\ Keys(order) = Linked
  BY OrderParts DEF BInv
<1>3. unext \in Linked /\ InBatch
  BY DEF BInv, HeldKeysLinked, InBatch
<1> DEFINE n == NextKey(unext)
<1>4. IF n = NoFlow THEN \A y : ~Before(order, unext, y)
      ELSE /\ Before(order, unext, n)
           /\ \A y : Before(order, unext, y) => y = n \/ Before(order, n, y)
  BY <1>2, <1>3, NextKeyIsNext
<1>5. unext' = n /\ ukey' = unext /\ upc = "loop" /\ upc' = "lookup"
      /\ UNCHANGED <<rows, linkedAtOpen, moved>>
  OBVIOUS
<1> HIDE DEF n
<1>6. n # NoFlow => n \in Linked /\ n # unext /\ Bucket[unext] <= Bucket[n]
  BY <1>2, <1>4, BeforeOrder
<1>7. Linked \subseteq Flow  BY DEF Linked
<1>8. UserTypeOK'  BY <1>3, <1>5, <1>6, <1>7 DEF BInv, UserTypeOK
<1>9. BetweenBatches' /\ HeldKeysLinked'
  BY <1>1, <1>3, <1>5, <1>6 DEF BetweenBatches, HeldKeysLinked, InBatch
<1>10. ASSUME ~moved PROVE WalkOnce' /\ WalkAhead'
  <2>1. WalkOnce /\ WalkAhead  BY <1>3, <1>10 DEF BInv
  <2>2. unext # NoFlow  OBVIOUS
  <2>3. \A k : /\ Passed(k) <=> Logged(k)
               /\ Passed(k)' <=> Logged(k) \/ k = unext
    BY <1>5 DEF Passed, Logged
  <2>4. ~Logged(unext)
    BY <1>3, <1>7, <2>1, <2>2, <2>3 DEF WalkOnce
  <2>5. ASSUME NEW k \in Flow, n # NoFlow, Logged(k) \/ k = unext
        PROVE  k # n /\ ~Before(order, n, k) /\ Bucket[k] <= Bucket[n]
    <3>1. Before(order, unext, n)  BY <1>4, <2>5
    <3>2. CASE k = unext
      BY <1>2, <1>6, <2>5, <3>1, <3>2, BeforeOrder
    <3>3. CASE Logged(k)
      <4>1. /\ k # unext /\ ~Before(order, unext, k)
            /\ Bucket[k] <= Bucket[unext]
        BY <2>1, <2>2, <2>3, <3>3 DEF WalkOnce
      <4>2. k # n  BY <3>1, <4>1
      <4>3. ~Before(order, n, k)  BY <1>2, <3>1, <4>1, BeforeOrder
      <4>4. Bucket[k] <= Bucket[n]
        BY <1>3, <1>6, <1>7, <2>5, <4>1, ConstantsOK
      <4> QED  BY <4>2, <4>3, <4>4
    <3> QED  BY <2>5, <3>2, <3>3
  <2>6. WalkOnce'
    BY <1>1, <1>5, <2>1, <2>3, <2>4, <2>5 DEF WalkOnce, Logged
  <2>7. WalkAhead'
    <3> SUFFICES ASSUME NEW k \in linkedAtOpen, ~Logged(k), k # unext
                 PROVE  n # NoFlow /\ (k = n \/ Before(order, n, k))
      BY <1>1, <1>5, <2>3 DEF WalkAhead
    <3>1. Before(order, unext, k)  BY <2>1, <2>3 DEF WalkAhead
    <3> QED  BY <1>4, <3>1
  <2> QED  BY <2>6, <2>7
<1> QED  BY <1>1, <1>5, <1>8, <1>9, <1>10 DEF BInv

(* The row of the flow the walk has taken. *)
LEMMA LogRowBInv == ASSUME BInv, LogRow PROVE BInv'
<1> USE DEF LogRow
<1>1. KernelInv' /\ OrderInv' /\ Linked' = Linked /\ order' = order
  BY QuietTable
<1>2. ukey \in Linked /\ ukey # unext /\ Linked \subseteq Flow /\ InBatch
  BY DEF BInv, HeldKeysLinked, Linked, InBatch
<1>3. rows \in Seq(Flow)  BY DEF BInv, UserTypeOK
<1>4. /\ rows' \in Seq(Flow) /\ Len(rows') = Len(rows) + 1
      /\ \A i \in 1..Len(rows) : rows'[i] = rows[i]
      /\ rows'[Len(rows) + 1] = ukey
  BY <1>2, <1>3
<1>5. DOMAIN rows = 1..Len(rows) /\ DOMAIN rows' = 1..(Len(rows) + 1)
      /\ Len(rows) \in Nat
  BY <1>3, <1>4
<1>6. \A k : Logged(k)' <=> Logged(k) \/ k = ukey
  BY <1>4, <1>5 DEF Logged
<1>7. UserTypeOK'  BY <1>4 DEF BInv, UserTypeOK
<1>8. BetweenBatches' /\ HeldKeysLinked'
  BY <1>1, <1>2 DEF BInv, BetweenBatches, HeldKeysLinked, InBatch
<1>9. ASSUME ~moved PROVE WalkOnce' /\ WalkAhead'
  <2>1. WalkOnce /\ WalkAhead  BY <1>2, <1>9 DEF BInv
  <2>2. \A k : Passed(k)' <=> Passed(k)  BY <1>6 DEF Passed
  <2>3. \A i \in 1..Len(rows) : rows[i] # ukey
    BY <1>5, <2>1 DEF WalkOnce, Logged
  <2>4. \A i, j \in DOMAIN rows' : rows'[i] = rows'[j] => i = j
    <3> SUFFICES ASSUME NEW i \in 1..(Len(rows) + 1),
                        NEW j \in 1..(Len(rows) + 1), rows'[i] = rows'[j]
                 PROVE  i = j
      BY <1>5
    <3>1. CASE i \in 1..Len(rows) /\ j \in 1..Len(rows)
      BY <1>4, <1>5, <2>1, <3>1 DEF WalkOnce
    <3>2. CASE i = Len(rows) + 1 /\ j \in 1..Len(rows)
      BY <1>4, <2>3, <3>2
    <3>3. CASE i \in 1..Len(rows) /\ j = Len(rows) + 1
      BY <1>4, <2>3, <3>3
    <3> QED  BY <1>5, <3>1, <3>2, <3>3
  <2>5. upc' = "delete" /\ Logged(ukey)' /\ ukey' = ukey /\ unext' = unext
    BY <1>6
  <2>6. WalkOnce'
    BY <1>1, <2>1, <2>2, <2>4, <2>5 DEF WalkOnce, Logged
  <2>7. WalkAhead'  BY <1>1, <2>1, <2>2 DEF WalkAhead
  <2> QED  BY <2>6, <2>7
<1> QED  BY <1>1, <1>7, <1>8, <1>9 DEF BInv

(* The flow that has its row goes; the walk is past it already. *)
LEMMA DeleteRowBInv == ASSUME BInv, DeleteRow PROVE BInv'
<1> USE DEF DeleteRow
<1>1. /\ ukey \in Linked /\ ukey # unext /\ ukey \in Flow /\ InBatch
      /\ unext # NoFlow => unext \in Linked
  BY DEF BInv, HeldKeysLinked, Linked, InBatch
<1>2. DeleteElem(ukey)  BY <1>1
<1>3. KernelInv' /\ OrderInv'
  BY <1>1, <1>2, DeleteKernel, DeleteOrder DEF BInv
<1>4. order' = Unlink(order, ukey) /\ Linked' = Linked \ {ukey}
  BY <1>1, <1>2, DeleteLinks DEF BInv
<1>5. order \in Seq(Flow) /\ Sorted(order) /\ Keys(order) = Linked
  BY OrderParts DEF BInv
<1>6. \A x, y : Before(order', x, y) <=>
                x # ukey /\ y # ukey /\ Before(order, x, y)
  BY <1>4, <1>5, UnlinkOrder
<1>7. UNCHANGED <<keepRunning, unext, rows, linkedAtOpen, moved>>
      /\ upc = "delete" /\ upc' = "loop" /\ ukey' = NoFlow
  OBVIOUS
<1>8. UserTypeOK'
  BY <1>7 DEF BInv, UserTypeOK
<1>9. BetweenBatches' /\ HeldKeysLinked'
  BY <1>1, <1>4, <1>7 DEF BInv, BetweenBatches, HeldKeysLinked, InBatch
<1>10. ASSUME ~moved PROVE WalkOnce' /\ WalkAhead'
  <2>1. WalkOnce /\ WalkAhead  BY <1>1, <1>10 DEF BInv
  <2>2. \A k : Passed(k)' <=> Passed(k)  BY <1>7 DEF Passed, Logged
  <2>3. Passed(ukey)  BY <1>7, <2>1 DEF WalkOnce, Passed
  <2>4. WalkOnce'
    BY <1>6, <1>7, <2>1, <2>2 DEF WalkOnce
  <2>5. WalkAhead'
    <3> SUFFICES ASSUME NEW k \in linkedAtOpen, ~Passed(k)
                 PROVE  /\ unext # NoFlow
                        /\ k = unext \/ Before(order', unext, k)
      BY <1>7, <2>2 DEF WalkAhead
    <3>1. unext # NoFlow /\ (k = unext \/ Before(order, unext, k))
      BY <2>1 DEF WalkAhead
    <3> QED  BY <1>1, <1>6, <2>3, <3>1
  <2> QED  BY <2>4, <2>5
<1> QED  BY <1>3, <1>8, <1>9, <1>10 DEF BInv

LEMMA CloseBInv == ASSUME BInv, CloseBatch PROVE BInv'
<1> USE DEF CloseBatch
<1>1. KernelInv' /\ OrderInv'  BY QuietTable
<1>2. ~InBatch'  BY DEF InBatch
<1>3. UserTypeOK'
  <2>1. rows' \in Seq(Flow)  OBVIOUS
  <2> QED  BY <2>1 DEF BInv, UserTypeOK
<1>4. BetweenBatches' /\ HeldKeysLinked'
  BY DEF BetweenBatches, HeldKeysLinked, InBatch
<1> QED  BY <1>1, <1>2, <1>3, <1>4 DEF BInv

(* The rest moves the process between its loop head, its sleep and its     *)
(* end, or clears keep_running.                                            *)
LEMMA OtherBInv ==
  ASSUME BInv, Sleep \/ OpenFails \/ Quit \/ Signal \/ UNCHANGED vars
  PROVE  BInv'
<1>1. UNCHANGED <<batchVars, htab, order>>
  BY DEF Sleep, OpenFails, Quit, Signal, vars, userVars, kernelVars,
    tableVars, Detach
<1>2. \/ upc' = upc
      \/ ~InBatch /\ ~InBatch' /\ upc' \in {"head", "sleep", "exited"}
  BY DEF Sleep, OpenFails, Quit, Signal, vars, userVars, InBatch
<1>3. keepRunning' \in BOOLEAN
  BY DEF Sleep, OpenFails, Quit, Signal, vars, userVars, BInv, UserTypeOK
<1>4. KernelInv'
  <2>1. Detach \/ UNCHANGED kernelVars
    BY DEF Sleep, OpenFails, Quit, Signal, vars
  <2> QED  BY <2>1, QuietKernel DEF BInv
<1>5. OrderInv' /\ Linked' = Linked  BY <1>1, QuietOrder DEF BInv
<1>6. UserTypeOK'
  BY <1>1, <1>2, <1>3 DEF BInv, UserTypeOK, batchVars
<1>7. BetweenBatches' /\ HeldKeysLinked'
  BY <1>1, <1>2, <1>5
  DEF BInv, BetweenBatches, HeldKeysLinked, InBatch, batchVars
<1>8. InBatch' /\ ~moved' => WalkOnce' /\ WalkAhead'
  BY <1>1, <1>2, SameWalk DEF BInv, InBatch, batchVars
<1> QED  BY <1>4, <1>5, <1>6, <1>7, <1>8 DEF BInv

LEMMA NextKeepsBInv == ASSUME BInv, [Next]_vars PROVE BInv'
<1>1. CASE \E c \in Cpu : Receive(c) \/ Process(c)
  BY <1>1, ReceiveBInv, ProcessBInv
<1>2. CASE OpenBatch  BY <1>2, OpenBInv
<1>3. CASE LookAhead  BY <1>3, LookAheadBInv
<1>4. CASE LogRow  BY <1>4, LogRowBInv
<1>5. CASE DeleteRow  BY <1>5, DeleteRowBInv
<1>6. CASE CloseBatch  BY <1>6, CloseBInv
<1>7. CASE Sleep \/ OpenFails \/ Quit \/ Signal \/ UNCHANGED vars
  BY <1>7, OtherBInv
<1> QED  BY <1>1, <1>2, <1>3, <1>4, <1>5, <1>6, <1>7 DEF Next

-----------------------------------------------------------------------------
(* The inductive invariant: the elements and the order of the map, what    *)
(* the walk of a batch has passed and what it is still to come to.         *)
THEOREM BatchInvariance == Spec => []BInv
<1>1. Init => BInv  BY InitBInv
<1>2. BInv /\ [Next]_vars => BInv'  BY NextKeepsBInv
<1> QED  BY <1>1, <1>2, PTL DEF Spec

(* Every state of the map and of the process that writes the batches is    *)
(* one the code can hold.                                                  *)
THEOREM BatchTypeCorrect == Spec => []TypeOK
<1>1. BInv => TypeOK
  BY DEF BInv, KernelInv, OrderInv, UserTypeOK, TypeOK
<1> QED  BY <1>1, BatchInvariance, PTL

(* The key the process looks up and deletes, and the key it goes on from,  *)
(* are in the map when it comes to use them (flow_tracker_user.c:80-100):  *)
(* nobody else deletes, and the two are never the same.                    *)
THEOREM HeldKeys == Spec => []HeldKeysLinked
<1>1. BInv => HeldKeysLinked  BY DEF BInv
<1> QED  BY <1>1, BatchInvariance, PTL

(* No flow has two rows in a batch, unless a racing update moved a flow of *)
(* the map during it.                                                      *)
THEOREM RowsAreUnique == Spec => []RowsUnique
<1>1. ASSUME BInv PROVE RowsUnique
  <2>1. CASE InBatch
    BY <1>1, <2>1 DEF BInv, RowsUnique, WalkOnce
  <2>2. CASE ~InBatch
    BY <1>1, <2>2 DEF BInv, BetweenBatches, RowsUnique
  <2> QED  BY <2>1, <2>2
<1> QED  BY <1>1, BatchInvariance, PTL

(* With the same proviso, a batch that is about to be closed has a row for *)
(* every flow that was in the map when it was opened.                      *)
THEOREM BatchesAreComplete == Spec => []BatchComplete
<1>1. ASSUME BInv, ~moved, upc = "loop", unext = NoFlow
      PROVE  linkedAtOpen \subseteq {rows[i] : i \in DOMAIN rows}
  <2>1. WalkAhead  BY <1>1 DEF BInv, InBatch
  <2> QED  BY <1>1, <2>1 DEF WalkAhead, Passed, Logged
<1>2. BInv => BatchComplete  BY <1>1 DEF BatchComplete
<1> QED  BY <1>2, BatchInvariance, PTL
=============================================================================
