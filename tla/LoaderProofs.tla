---------------------------- MODULE LoaderProofs ----------------------------
(***************************************************************************)
(* The loaders, for any number of processes in any mix of kinds: who owns  *)
(* the interface.                                                          *)
(***************************************************************************)
EXTENDS RingEvents, TLAPS

(* Where in its script a process attaches, and how long the script is.     *)
AttachAt(p) ==
  CASE kind[p] = "maps"  -> 3
    [] kind[p] = "ring"  -> 2
    [] kind[p] = "bloom" -> 4

Length(p) ==
  CASE kind[p] = "maps"  -> 8
    [] kind[p] = "ring"  -> 7
    [] kind[p] = "bloom" -> 6

(* p is between its attach and its detach. *)
Inside(p) == AttachAt(p) <= step[p] /\ step[p] < Length(p)

(* The owner of the interface has attached, and is inside if a link holds  *)
(* its program: a process leaves behind, by its death or by a detach that  *)
(* failed, only a program that no link holds; a link holds; and only a     *)
(* loader without one takes the interface from another.                    *)
Owner ==
  /\ hook \in Proc => AttachAt(hook) <= step[hook]
  /\ hook \in Proc /\ ByLink(hook) => Alive(hook) /\ Inside(hook)
  /\ \A p \in Proc : phase[p] = "new" => step[p] = 0
  /\ \A p \in Proc : Alive(p) /\ Inside(p) /\ ByLink(p) => hook = p
  /\ \A p \in Proc : Alive(p) /\ Inside(p) /\ hook # p =>
       \E q \in Proc \ {p} : AttachAt(q) <= step[q] /\ ~ByLink(q)

Types ==
  /\ kind \in [Proc -> Kinds]
  /\ step \in [Proc -> Nat]
  /\ \A p \in Proc : step[p] <= Length(p)
  /\ phase \in [Proc -> {"new", "alive", "done", "failed", "killed"}]
  /\ hook \in Proc \cup {NoProc}

LInv == Types /\ Owner

-----------------------------------------------------------------------------
(* Each script attaches once, and detaches last. *)
LEMMA Scripts ==
  ASSUME Types, NEW p \in Proc
  PROVE  /\ Len(Script(p)) = Length(p)
         /\ AttachAt(p) \in Nat /\ Length(p) \in Nat /\ Length(p) <= 8
         /\ 1 < AttachAt(p) /\ AttachAt(p) < Length(p) - 1
         /\ \A i \in 1..Length(p) :
              /\ Script(p)[i] = "attach" <=> i = AttachAt(p)
              /\ Script(p)[i] = "detach" <=> i = Length(p)
              /\ Script(p)[i] = "loop" <=> i = Length(p) - 1
              /\ Script(p)[i] = "fill" => i < AttachAt(p)
<1>1. CASE kind[p] = "maps"
  BY <1>1 DEF Script, MapsScript, AttachAt, Length
<1>2. CASE kind[p] = "ring"
  BY <1>2 DEF Script, RingScript, AttachAt, Length
<1>3. CASE kind[p] = "bloom"
  BY <1>3 DEF Script, BloomScript, AttachAt, Length
<1> QED  BY <1>1, <1>2, <1>3 DEF Types, Kinds

(* The same, said of where a process is. *)
LEMMA Places ==
  ASSUME Types, NEW p \in Proc
  PROVE  /\ HasAttached(p) <=> AttachAt(p) <= step[p]
         /\ At(p, "attach") => step[p] + 1 = AttachAt(p)
         /\ At(p, "detach") => step[p] + 1 = Length(p) /\ Inside(p)
         /\ At(p, "loop") => Inside(p)
         /\ At(p, "fill") => step[p] < AttachAt(p)
<1>1. /\ Len(Script(p)) = Length(p) /\ step[p] \in 0..Length(p)
      /\ AttachAt(p) \in Nat /\ Length(p) \in Nat
      /\ 1 < AttachAt(p) /\ AttachAt(p) < Length(p) - 1
  BY Scripts DEF Types
<1>2. \A i \in 1..Length(p) :
        /\ Script(p)[i] = "attach" <=> i = AttachAt(p)
        /\ Script(p)[i] = "detach" <=> i = Length(p)
        /\ Script(p)[i] = "loop" <=> i = Length(p) - 1
        /\ Script(p)[i] = "fill" => i < AttachAt(p)
  BY Scripts
<1>3. HasAttached(p) <=> AttachAt(p) <= step[p]
  BY <1>1, <1>2 DEF HasAttached
<1>4. \A what : At(p, what) => step[p] + 1 \in 1..Length(p)
                            /\ Script(p)[step[p] + 1] = what
  BY <1>1 DEF At
<1> QED  BY <1>1, <1>2, <1>3, <1>4 DEF Inside

-----------------------------------------------------------------------------
(* Nothing but the steps of the loaders moves the owner. *)
LEMMA Idle ==
  ASSUME LInv, UNCHANGED <<kind, step, phase, hook>> PROVE LInv'
BY DEF LInv, Types, Owner, Inside, AttachAt, Length, Alive, ByLink

(* A process that is started has done nothing. *)
LEMMA StartKeeps ==
  ASSUME LInv, NEW p \in Proc, Start(p) PROVE LInv'
<1>1. /\ step[p] = 0 /\ 1 < AttachAt(p) /\ AttachAt(p) \in Nat
      /\ \A q \in Proc : /\ AttachAt(q)' = AttachAt(q) /\ Length(q)' = Length(q)
                         /\ ByLink(q)' = ByLink(q) /\ step'[q] = step[q]
                         /\ phase'[q] = IF q = p THEN "alive" ELSE phase[q]
  BY Scripts DEF LInv, Types, Owner, Start, AttachAt, Length, ByLink
<1>2. Types'
  BY <1>1 DEF LInv, Types, Start
<1>3. ~(AttachAt(p) <= step[p])
  BY <1>1
<1>4. Owner'
  BY <1>1, <1>3 DEF LInv, Owner, Start, Inside, Alive
<1> QED  BY <1>2, <1>4 DEF LInv

(* A process ends, and its link with it. *)
LEMMA EndKeeps ==
  ASSUME LInv, NEW p \in Proc, Alive(p),
         NEW how \in {"done", "failed", "killed"}, End(p, how)
  PROVE  LInv'
<1>1. Types'
  BY DEF LInv, Types, End, Length
<1>2. Owner'
  <2>1. \A q \in Proc : /\ AttachAt(q)' = AttachAt(q) /\ Inside(q)' = Inside(q)
                         /\ ByLink(q)' = ByLink(q) /\ step'[q] = step[q]
    BY DEF End, AttachAt, Inside, Length, ByLink
  <2>2. hook' \in Proc => hook' = hook /\ ~(hook = p /\ ByLink(p))
    BY LoadersOK DEF End
  <2>3. \A q \in Proc : phase'[q] = IF q = p THEN how ELSE phase[q]
    BY DEF End, LInv, Types
  <2> QED  BY <2>1, <2>2, <2>3 DEF LInv, Owner, Alive, End
<1> QED  BY <1>1, <1>2 DEF LInv

(* A step that is neither the attach nor the detach. *)
LEMMA AdvanceKeeps ==
  ASSUME LInv, NEW p \in Proc, NEW what, At(p, what),
         what \notin {"attach", "detach"}, Advance(p), UNCHANGED hook
  PROVE  LInv'
<1>1. /\ step[p] \in Nat /\ AttachAt(p) \in Nat /\ Length(p) \in Nat
      /\ step[p] + 1 # AttachAt(p) /\ step[p] + 1 < Length(p)
  BY Scripts DEF LInv, Types, At
<1>2. \A q \in Proc :
        /\ AttachAt(q)' = AttachAt(q) /\ Length(q)' = Length(q)
        /\ ByLink(q)' = ByLink(q)
        /\ step'[q] = IF q = p THEN step[p] + 1 ELSE step[q]
        /\ step[q] \in Nat /\ AttachAt(q) \in Nat /\ Length(q) \in Nat
  BY Scripts DEF Advance, AttachAt, Length, ByLink, LInv, Types
<1>3. Types'
  BY <1>1, <1>2 DEF LInv, Types, Advance
<1>4. \A q \in Proc :
        /\ Inside(q)' = Inside(q)
        /\ (AttachAt(q) <= step[q]) = (AttachAt(q)' <= step'[q])
  BY <1>1, <1>2 DEF Inside
<1>5. phase[p] = "alive" /\ UNCHANGED phase
  BY DEF At, Alive, Advance
<1>6. Owner'
  BY <1>2, <1>4, <1>5 DEF LInv, Owner, Alive
<1> QED  BY <1>3, <1>6 DEF LInv

(* The attach: the interface had no owner that a link holds, or p has one  *)
(* itself and there was no owner.                                          *)
LEMMA AttachKeeps ==
  ASSUME LInv, NEW p \in Proc, Attach(p) PROVE LInv'
<1>1. /\ step[p] + 1 = AttachAt(p) /\ AttachAt(p) < Length(p)
      /\ phase[p] = "alive" /\ UNCHANGED phase /\ hook' = p
      /\ hook \in Proc => ~ByLink(p) /\ ~ByLink(hook)
  BY Places, Scripts, LoadersOK DEF LInv, Attach, Accepts, At, Alive, Advance
<1>2. \A q \in Proc :
        /\ AttachAt(q)' = AttachAt(q) /\ Length(q)' = Length(q)
        /\ ByLink(q)' = ByLink(q)
        /\ step'[q] = IF q = p THEN step[p] + 1 ELSE step[q]
        /\ step[q] \in Nat /\ AttachAt(q) \in Nat /\ Length(q) \in Nat
  BY Scripts DEF Attach, Advance, AttachAt, Length, ByLink, LInv, Types
<1>3. Types'
  BY <1>1, <1>2 DEF LInv, Types, Attach, Advance
<1>4. /\ Inside(p)' /\ AttachAt(p)' <= step'[p]
      /\ \A q \in Proc \ {p} : Inside(q)' = Inside(q)
      /\ \A q \in Proc : AttachAt(q) <= step[q] => AttachAt(q)' <= step'[q]
  BY <1>1, <1>2 DEF Inside
<1>5. ASSUME NEW q \in Proc, Alive(q)', Inside(q)', hook' # q
      PROVE  /\ ~ByLink(q)'
             /\ \E r \in Proc \ {q} : AttachAt(r)' <= step'[r] /\ ~ByLink(r)'
  <2>1. q # p /\ Alive(q) /\ Inside(q)
    BY <1>1, <1>4, <1>5 DEF Alive
  <2>2. CASE hook = q
    BY <1>1, <1>2, <1>4, <2>1, <2>2
  <2>3. CASE hook # q
    <3>1. ~ByLink(q) /\ \E r \in Proc \ {q} : AttachAt(r) <= step[r] /\ ~ByLink(r)
      BY <2>1, <2>3 DEF LInv, Owner
    <3> QED  BY <1>2, <1>4, <3>1
  <2> QED  BY <2>2, <2>3
<1>6. \A q \in Proc : phase'[q] = "new" => step'[q] = 0
  BY <1>1, <1>2 DEF LInv, Owner
<1>7. Owner'
  BY <1>1, <1>4, <1>5, <1>6 DEF Owner, Alive
<1> QED  BY <1>3, <1>7 DEF LInv

(* The detach, of p's own program or of one that no link holds, or of none *)
(* because it fails.                                                       *)
LEMMA DetachKeeps ==
  ASSUME LInv, NEW p \in Proc, Detach(p) \/ DetachFails(p) PROVE LInv'
<1>1. /\ step[p] + 1 = Length(p) /\ Inside(p)
      /\ phase[p] = "alive" /\ UNCHANGED phase
      /\ hook' = hook \/ (hook' = NoProc /\ hook \in Proc)
      /\ hook' = p => ~ByLink(p)
      /\ hook' # hook => hook = p \/ (~ByLink(p) /\ ~ByLink(hook))
  BY Places, LoadersOK DEF LInv, Types, Detach, DetachFails, At, Alive, Advance
<1>2. \A q \in Proc :
        /\ AttachAt(q)' = AttachAt(q) /\ Length(q)' = Length(q)
        /\ ByLink(q)' = ByLink(q)
        /\ step'[q] = IF q = p THEN step[p] + 1 ELSE step[q]
        /\ step[q] \in Nat /\ AttachAt(q) \in Nat /\ Length(q) \in Nat
  BY Scripts DEF Detach, DetachFails, Advance, AttachAt, Length, ByLink, LInv, Types
<1>3. Types'
  BY <1>1, <1>2 DEF LInv, Types, Detach, DetachFails, Advance
<1>4. /\ ~Inside(p)'
      /\ \A q \in Proc \ {p} : Inside(q)' = Inside(q)
      /\ \A q \in Proc : AttachAt(q) <= step[q] => AttachAt(q)' <= step'[q]
  BY <1>1, <1>2 DEF Inside
<1>5. ASSUME NEW q \in Proc, Alive(q)', Inside(q)', hook' # q
      PROVE  /\ ~ByLink(q)'
             /\ \E r \in Proc \ {q} : AttachAt(r)' <= step'[r] /\ ~ByLink(r)'
  <2>1. q # p /\ Alive(q) /\ Inside(q)
    BY <1>1, <1>4, <1>5 DEF Alive
  <2>2. CASE hook = q
    <3>1. ~ByLink(p) /\ ~ByLink(q) /\ AttachAt(p) <= step[p]
      BY <1>1, <1>5, <2>1, <2>2 DEF Inside
    <3> QED  BY <1>2, <1>4, <2>1, <3>1
  <2>3. CASE hook # q
    <3>1. ~ByLink(q) /\ \E r \in Proc \ {q} : AttachAt(r) <= step[r] /\ ~ByLink(r)
      BY <2>1, <2>3 DEF LInv, Owner
    <3> QED  BY <1>2, <1>4, <3>1
  <2> QED  BY <2>2, <2>3
<1>6. \A q \in Proc : phase'[q] = "new" => step'[q] = 0
  BY <1>1, <1>2 DEF LInv, Owner
<1>7. /\ hook' \in Proc => AttachAt(hook)' <= step'[hook']
      /\ hook' \in Proc /\ ByLink(hook)' => Alive(hook)' /\ Inside(hook)'
  BY <1>1, <1>2, <1>4, LoadersOK DEF LInv, Owner, Alive
<1>8. Owner'
  BY <1>5, <1>6, <1>7 DEF Owner
<1> QED  BY <1>3, <1>8 DEF LInv

-----------------------------------------------------------------------------
(* Nobody has attached anything at the start. *)
LEMMA InitLInv == Init => LInv
<1> SUFFICES ASSUME Init PROVE LInv  OBVIOUS
<1>1. /\ kind \in [Proc -> Kinds] /\ step = [p \in Proc |-> 0]
      /\ phase = [p \in Proc |-> "new"] /\ hook = NoProc /\ NoProc \notin Proc
  BY LoadersOK DEF Init, LoaderInit
<1>2. \A p \in Proc : Length(p) \in {6, 7, 8}
  BY <1>1 DEF Kinds, Length
<1>3. Types
  BY <1>1, <1>2 DEF Types
<1>4. Owner
  BY <1>1 DEF Owner, Alive
<1> QED  BY <1>3, <1>4 DEF LInv

(* Every step of every process keeps the invariant of the loaders. *)
LEMMA StepLInv == LInv /\ [Next]_vars => LInv'
<1> SUFFICES ASSUME LInv, [Next]_vars PROVE LInv'  OBVIOUS
<1>1. ASSUME NEW p \in Proc, MainStep(p) PROVE LInv'
  <2>1. CASE Catch(p)
    <3>1. At(p, "catch") /\ Advance(p) /\ UNCHANGED hook  BY <2>1 DEF Catch
    <3> QED  BY <3>1, AdvanceKeeps
  <2>2. CASE Prepare(p)
    <3>1. PICK what \in Fallible \ {"attach"} : At(p, what)
      BY <2>2 DEF Prepare
    <3>2. what \notin {"attach", "detach"}  BY DEF Fallible
    <3>3. Advance(p) /\ UNCHANGED hook  BY <2>2 DEF Prepare
    <3> QED  BY <3>1, <3>2, <3>3, AdvanceKeeps
  <2>3. CASE Attach(p)
    BY <2>3, AttachKeeps
  <2>4. CASE Refused(p)
    BY <2>4, EndKeeps DEF Refused, At
  <2>5. CASE FillFilter(p)
    <3>1. At(p, "fill") /\ Advance(p) /\ UNCHANGED hook  BY <2>5 DEF FillFilter
    <3> QED  BY <3>1, AdvanceKeeps
  <2>6. CASE LeaveLoop(p)
    <3>1. At(p, "loop") /\ Advance(p) /\ UNCHANGED hook  BY <2>6 DEF LeaveLoop
    <3> QED  BY <3>1, AdvanceKeeps
  <2>7. CASE Detach(p) \/ DetachFails(p)
    BY <2>7, DetachKeeps
  <2>8. CASE Finish(p)
    BY <2>8, EndKeeps DEF Finish
  <2> QED
    BY <1>1, <2>1, <2>2, <2>3, <2>4, <2>5, <2>6, <2>7, <2>8 DEF MainStep
<1>2. ASSUME NEW p \in Proc, Fault(p) PROVE LInv'
  <2>1. CASE Fail(p)
    BY <2>1, EndKeeps DEF Fail, At
  <2>2. CASE Interrupt(p)
    BY <2>2, Idle DEF Interrupt
  <2>3. CASE InterruptEarly(p)
    BY <2>3, EndKeeps DEF InterruptEarly
  <2>4. CASE Kill(p)
    BY <2>4, EndKeeps DEF Kill
  <2> QED  BY <1>2, <2>1, <2>2, <2>3, <2>4 DEF Fault
<1>3. ASSUME NEW p \in Proc, ReaderStep(p) PROVE LInv'
  BY <1>3, Idle DEF ReaderStep, EnterPoll, Consume, LeavePoll, SetPolling, loaderVars
<1>4. ASSUME NEW c \in Cpu, Reserve(c) \/ CpuStep(c) PROVE LInv'
  BY <1>4, Idle DEF Reserve, CpuStep, FillPorts, Discard, Submit, Return, loaderVars
<1>5. CASE UNCHANGED vars
  BY <1>5, Idle DEF vars, loaderVars
<1> QED  BY <1>1, <1>2, <1>3, <1>4, <1>5, StartKeeps DEF Next, ProcStep

(* In every reachable state of any set of loaders: what the rest is drawn  *)
(* from.                                                                   *)
LEMMA LoadersKeepOwner == Spec => []LInv
BY InitLInv, StepLInv, PTL DEF Spec

(* Nothing the other loaders do displaces the program of loader.c. *)
THEOREM LinkStays == Spec => []LinkHolds
<1>1. LInv => LinkHolds
  BY Places DEF LInv, Owner, LinkHolds, ByLink, At
<1> QED  BY <1>1, LoadersKeepOwner, PTL

(* Who takes the interface from a loader that runs. *)
THEOREM LosesToAnother == Spec => []LostOnlyToAnother
<1>1. LInv => LostOnlyToAnother
  BY Places DEF LInv, Owner, LostOnlyToAnother, At
<1> QED  BY <1>1, LoadersKeepOwner, PTL

(* The filter is complete before its program is attached. *)
THEOREM FilterIsSettled == Spec => FilterSettled
<1>1. ASSUME LInv, NEW q \in Proc, FillFilter(q), NEW p \in Proc, HasAttached(p)
      PROVE  filter'[p] = filter[p]
  <2>1. At(q, "fill") /\ \E s : filter' = [filter EXCEPT ![q] = s]
    BY <1>1 DEF FillFilter
  <2>2. step[q] \in Nat /\ AttachAt(q) \in Nat /\ step[q] < AttachAt(q)
    BY <1>1, <2>1, Places, Scripts DEF LInv, Types
  <2>3. AttachAt(p) <= step[p]
    BY <1>1, Places DEF LInv
  <2>4. p # q
    BY <2>2, <2>3
  <2> QED  BY <2>1, <2>4
<1>2. [Next]_vars => UNCHANGED filter \/ \E q \in Proc : FillFilter(q)
  <2> SUFFICES ASSUME [Next]_vars
               PROVE  UNCHANGED filter \/ \E q \in Proc : FillFilter(q)
    OBVIOUS
  <2>1. ASSUME NEW p \in Proc, MainStep(p) \/ Start(p) \/ Fault(p)
        PROVE  UNCHANGED filter \/ FillFilter(p)
    BY <2>1 DEF MainStep, Fault, Start, Catch, Prepare, Attach, Refused,
      LeaveLoop, Detach, DetachFails, Finish, Fail, Interrupt, InterruptEarly, Kill, End
  <2>2. ASSUME NEW p \in Proc, ReaderStep(p) PROVE UNCHANGED filter
    BY <2>2 DEF ReaderStep, EnterPoll, Consume, LeavePoll, SetPolling, loaderVars
  <2>3. ASSUME NEW c \in Cpu, Reserve(c) \/ CpuStep(c) PROVE UNCHANGED filter
    BY <2>3 DEF Reserve, CpuStep, FillPorts, Discard, Submit, Return, loaderVars
  <2> QED  BY <2>1, <2>2, <2>3 DEF Next, ProcStep, vars, loaderVars
<1>3. LInv /\ [Next]_vars =>
        [\A p \in Proc : HasAttached(p) => filter'[p] = filter[p]]_loaderVars
  BY <1>1, <1>2
<1> QED  BY <1>3, LoadersKeepOwner, PTL DEF Spec, FilterSettled

-----------------------------------------------------------------------------
(* The ring buffer: a record whose ports are filled in is of a whole       *)
(* frame, and the records and their CPUs are as EventsWhole says.          *)
Record == [state : {"busy", "ready", "discarded"}, frame : FrameKinds, ports : BOOLEAN]

RTypes ==
  /\ log \in [Proc -> Seq(Record)]
  /\ \A p \in Proc : Len(log[p]) <= RingCap
  /\ on \in [Cpu -> Proc \cup {NoProc}]
  /\ rec \in [Cpu -> Nat]

Filled ==
  \A p \in Proc : \A i \in DOMAIN log[p] :
    log[p][i].ports => log[p][i].frame = "whole"

RInv == RTypes /\ Filled /\ EventsWhole

(* What a ring has been given is a sequence of records. *)
LEMMA Logs ==
  ASSUME RTypes
  PROVE  \A p \in Proc : /\ log[p] \in Seq(Record) /\ Len(log[p]) \in Nat
                         /\ DOMAIN log[p] = 1..Len(log[p])
<1> SUFFICES ASSUME NEW p \in Proc
             PROVE  /\ log[p] \in Seq(Record) /\ Len(log[p]) \in Nat
                    /\ DOMAIN log[p] = 1..Len(log[p])
  OBVIOUS
<1>1. log[p] \in Seq(Record)
  BY DEF RTypes
<1> QED  BY <1>1

(* A CPU's record is there, and its own. *)
LEMMA Mine ==
  ASSUME RInv, NEW c \in Cpu, on[c] # NoProc
  PROVE  /\ on[c] \in Proc /\ rec[c] \in 1..Len(log[on[c]])
         /\ MyRecord(c) \in Record /\ MyRecord(c).state = "busy"
         /\ \A d \in Cpu \ {c} : on[d] # on[c] \/ rec[d] # rec[c]
<1>1. on[c] \in Proc /\ log[on[c]] \in Seq(Record)
  BY DEF RInv, RTypes
<1>2. DOMAIN log[on[c]] = 1..Len(log[on[c]])
  BY <1>1
<1> QED  BY <1>1, <1>2 DEF RInv, EventsWhole, MyRecord

(* CPU c rewrites its record, and keeps it or gives it back. *)
LEMMA RewriteKeeps ==
  ASSUME RInv, NEW c \in Cpu, on[c] # NoProc, NEW r \in Record,
         r.ports => r.frame = "whole",
         r.state = "ready" => r.ports,
         log' = [log EXCEPT ![on[c]] = [@ EXCEPT ![rec[c]] = r]],
         \/ r.state = "busy" /\ UNCHANGED <<on, rec>>
         \/ /\ r.state # "busy"
            /\ on' = [on EXCEPT ![c] = NoProc] /\ rec' = [rec EXCEPT ![c] = 0]
  PROVE  RInv'
<1>1. /\ on[c] \in Proc /\ rec[c] \in 1..Len(log[on[c]])
      /\ \A d \in Cpu \ {c} : on[d] # on[c] \/ rec[d] # rec[c]
  BY Mine
<1>2. \A p \in Proc : log[p] \in Seq(Record) /\ DOMAIN log[p] = 1..Len(log[p])
  BY DEF RInv, RTypes
<1>3. \A p \in Proc :
        /\ log'[p] \in Seq(Record) /\ Len(log'[p]) = Len(log[p])
        /\ DOMAIN log'[p] = DOMAIN log[p]
        /\ \A i \in DOMAIN log[p] :
             log'[p][i] = IF p = on[c] /\ i = rec[c] THEN r ELSE log[p][i]
  BY <1>1, <1>2 DEF RInv, RTypes
<1>4. RTypes'
  <2>1. log' \in [Proc -> Seq(Record)]
    BY <1>3 DEF RInv, RTypes
  <2>2. on' \in [Cpu -> Proc \cup {NoProc}] /\ rec' \in [Cpu -> Nat]
    <3>1. CASE UNCHANGED <<on, rec>>
      BY <3>1 DEF RInv, RTypes
    <3>2. CASE on' = [on EXCEPT ![c] = NoProc] /\ rec' = [rec EXCEPT ![c] = 0]
      BY <3>2 DEF RInv, RTypes
    <3> QED  BY <3>1, <3>2
  <2> QED  BY <1>3, <2>1, <2>2 DEF RInv, RTypes
<1>5. Filled'
  BY <1>3 DEF RInv, Filled
<1>6. \A d \in Cpu : /\ d # c => on'[d] = on[d] /\ rec'[d] = rec[d]
                     /\ on'[d] # NoProc => on'[d] = on[d] /\ rec'[d] = rec[d]
                     /\ on'[c] # NoProc => r.state = "busy"
                     /\ r.state = "busy" => on'[c] = on[c] /\ rec'[c] = rec[c]
  BY DEF RInv, RTypes
<1>7. ASSUME NEW p \in Proc, NEW i \in DOMAIN log'[p]
      PROVE  /\ log'[p][i].state = "ready" => log'[p][i].ports /\ log'[p][i].frame = "whole"
             /\ log'[p][i].state = "busy" => \E d \in Cpu : on'[d] = p /\ rec'[d] = i
  <2>1. CASE p = on[c] /\ i = rec[c]
    BY <1>3, <1>6, <1>7, <2>1
  <2>2. CASE ~(p = on[c] /\ i = rec[c])
    <3>1. log'[p][i] = log[p][i] /\ i \in DOMAIN log[p]
      BY <1>3, <1>7, <2>2
    <3>2. log[p][i].state = "busy" => \E d \in Cpu \ {c} : on[d] = p /\ rec[d] = i
      BY <3>1, <2>2 DEF RInv, EventsWhole
    <3> QED  BY <1>6, <3>1, <3>2 DEF RInv, EventsWhole
  <2> QED  BY <2>1, <2>2
<1>8. ASSUME NEW d \in Cpu, on'[d] # NoProc
      PROVE  /\ rec'[d] \in DOMAIN log'[on'[d]]
             /\ log'[on'[d]][rec'[d]].state = "busy"
             /\ \A e \in Cpu \ {d} : on'[e] # on'[d] \/ rec'[e] # rec'[d]
  <2>1. /\ on'[d] = on[d] /\ rec'[d] = rec[d] /\ on[d] \in Proc
        /\ rec[d] \in DOMAIN log[on[d]] /\ log[on[d]][rec[d]].state = "busy"
        /\ \A e \in Cpu \ {d} : on[e] # on[d] \/ rec[e] # rec[d]
    BY <1>6, <1>8, Mine DEF RInv, EventsWhole, MyRecord
  <2>2. log'[on[d]][rec[d]].state = "busy" /\ rec[d] \in DOMAIN log'[on[d]]
    BY <1>3, <1>6, <1>8, <2>1
  <2>3. \A e \in Cpu \ {d} : on'[e] # on'[d] \/ rec'[e] # rec'[d]
    BY <1>6, <1>8, <2>1
  <2> QED  BY <2>1, <2>2, <2>3
<1>9. EventsWhole'
  BY <1>7, <1>8 DEF EventsWhole, MyRecord
<1> QED  BY <1>4, <1>5, <1>9 DEF RInv

(* A frame comes in: the record that is appended is its CPU's. *)
LEMMA ReserveKeeps ==
  ASSUME RInv, hook \in Proc \cup {NoProc}, NEW c \in Cpu, Reserve(c) PROVE RInv'
<1>1. PICK f \in FrameKinds :
        log' = [log EXCEPT ![hook] =
                  Append(@, [state |-> "busy", frame |-> f, ports |-> FALSE])]
  BY DEF Reserve
<1> DEFINE new == [state |-> "busy", frame |-> f, ports |-> FALSE]
           n == Len(log[hook]) + 1
<1>2. new \in Record
  BY DEF Record
<1>3. /\ hook \in Proc /\ hook # NoProc /\ on[c] = NoProc
      /\ Len(log[hook]) < RingCap /\ n \in Nat /\ n <= RingCap
  BY LoadersOK, RingOK DEF RInv, RTypes, Reserve, Room
<1>4. /\ on' = [on EXCEPT ![c] = hook] /\ rec' = [rec EXCEPT ![c] = n]
  BY DEF Reserve
<1>5. \A p \in Proc : log[p] \in Seq(Record) /\ DOMAIN log[p] = 1..Len(log[p])
  BY Logs DEF RInv
<1> HIDE DEF new
<1>6. \A p \in Proc : p # hook => log'[p] = log[p]
  BY <1>1, <1>3
<1>7. log'[hook] = Append(log[hook], new)
  BY <1>1, <1>3 DEF RInv, RTypes, new
<1>8. /\ log'[hook] \in Seq(Record) /\ Len(log'[hook]) = n
      /\ DOMAIN log'[hook] = DOMAIN log[hook] \cup {n}
      /\ n \notin DOMAIN log[hook]
      /\ log'[hook][n] = new
      /\ \A i \in DOMAIN log[hook] : log'[hook][i] = log[hook][i]
  BY <1>2, <1>3, <1>5, <1>7
<1>9. new.state = "busy" /\ new.ports = FALSE
  BY DEF new
<1>10. RTypes'
  <2>1. log' \in [Proc -> Seq(Record)]
    BY <1>1, <1>5, <1>6, <1>8 DEF RInv, RTypes
  <2>2. \A p \in Proc : Len(log'[p]) <= RingCap
    BY <1>3, <1>6, <1>8 DEF RInv, RTypes
  <2> QED  BY <1>3, <1>4, <2>1, <2>2 DEF RInv, RTypes
<1>11. Filled'
  BY <1>6, <1>8, <1>9 DEF RInv, Filled
<1>12. ASSUME NEW p \in Proc, NEW i \in DOMAIN log'[p]
       PROVE  /\ log'[p][i].state = "ready" => log'[p][i].ports /\ log'[p][i].frame = "whole"
              /\ log'[p][i].state = "busy" => \E d \in Cpu : on'[d] = p /\ rec'[d] = i
  <2>1. CASE p = hook /\ i = n
    BY <1>4, <1>8, <1>9, <2>1 DEF RInv, RTypes
  <2>2. CASE ~(p = hook /\ i = n)
    <3>1. i \in DOMAIN log[p] /\ log'[p][i] = log[p][i]
      BY <1>6, <1>8, <1>12, <2>2
    <3>2. log[p][i].state = "busy" => \E d \in Cpu \ {c} : on[d] = p /\ rec[d] = i
      BY <1>3, <3>1, LoadersOK DEF RInv, EventsWhole
    <3> QED  BY <1>4, <3>1, <3>2 DEF RInv, RTypes, EventsWhole
  <2> QED  BY <2>1, <2>2
<1>13. ASSUME NEW d \in Cpu, d # c, on[d] # NoProc
       PROVE  /\ on'[d] = on[d] /\ rec'[d] = rec[d] /\ on[d] \in Proc
              /\ rec[d] \in DOMAIN log[on[d]] /\ log[on[d]][rec[d]].state = "busy"
              /\ rec[d] \in DOMAIN log'[on[d]] /\ log'[on[d]][rec[d]].state = "busy"
              /\ on[d] # hook \/ rec[d] # n
  <2>1. /\ on'[d] = on[d] /\ rec'[d] = rec[d] /\ on[d] \in Proc
        /\ rec[d] \in DOMAIN log[on[d]] /\ log[on[d]][rec[d]].state = "busy"
    BY <1>4, <1>13, Mine DEF RInv, RTypes, EventsWhole, MyRecord
  <2> QED  BY <1>6, <1>8, <2>1
<1>14. on'[c] = hook /\ rec'[c] = n /\ \A d \in Cpu \ {c} : on'[d] = on[d]
  BY <1>4 DEF RInv, RTypes
<1>15. ASSUME NEW d \in Cpu, on'[d] # NoProc
       PROVE  /\ rec'[d] \in DOMAIN log'[on'[d]]
              /\ log'[on'[d]][rec'[d]].state = "busy"
              /\ \A e \in Cpu \ {d} : on'[e] # on'[d] \/ rec'[e] # rec'[d]
  <2>1. CASE d = c
    <3>1. \A e \in Cpu \ {c} : on'[e] # hook \/ rec'[e] # n
      BY <1>3, <1>13, <1>14
    <3> QED  BY <1>8, <1>9, <1>14, <2>1, <3>1
  <2>2. CASE d # c
    <3>1. \A e \in Cpu \ {d} : on'[e] # on'[d] \/ rec'[e] # rec'[d]
      BY <1>13, <1>14, <1>15, <2>2 DEF RInv, EventsWhole
    <3> QED  BY <1>13, <1>14, <1>15, <2>2, <3>1
  <2> QED  BY <2>1, <2>2
<1>16. EventsWhole'
  BY <1>12, <1>15 DEF EventsWhole, MyRecord
<1> QED  BY <1>10, <1>11, <1>16 DEF RInv

(* The reader takes the oldest record, which no CPU holds. *)
LEMMA ConsumeKeeps ==
  ASSUME RInv, NEW p \in Proc, Consume(p) PROVE RInv'
<1>1. /\ log[p] # <<>> /\ log[p][1].state # "busy"
      /\ log' = [log EXCEPT ![p] = Tail(@)] /\ on' = on
      /\ rec' = [c \in Cpu |-> IF on[c] = p THEN rec[c] - 1 ELSE rec[c]]
  BY DEF Consume, NextDone
<1>2. \A q \in Proc : log[q] \in Seq(Record) /\ DOMAIN log[q] = 1..Len(log[q])
  BY Logs DEF RInv
<1>3. \A q \in Proc : q # p => log'[q] = log[q]
  BY <1>1
<1>4. log'[p] = Tail(log[p])
  BY <1>1 DEF RInv, RTypes
<1>5. /\ Len(log[p]) \in Nat \ {0} /\ Len(log[p]) <= RingCap
      /\ log'[p] \in Seq(Record) /\ Len(log'[p]) = Len(log[p]) - 1
      /\ DOMAIN log'[p] = 1..(Len(log[p]) - 1)
      /\ \A i \in DOMAIN log'[p] : log'[p][i] = log[p][i + 1]
  <2>1. log[p] \in Seq(Record) /\ log[p] # <<>> /\ Len(log[p]) <= RingCap
    BY <1>1, <1>2 DEF RInv, RTypes
  <2> QED  BY <1>4, <2>1
<1>6. \A c \in Cpu : on[c] = p =>
        /\ rec[c] \in 2..Len(log[p]) /\ rec'[c] = rec[c] - 1
        /\ rec'[c] \in DOMAIN log'[p] /\ log'[p][rec'[c]] = log[p][rec[c]]
  <2> SUFFICES ASSUME NEW c \in Cpu, on[c] = p
               PROVE  /\ rec[c] \in 2..Len(log[p]) /\ rec'[c] = rec[c] - 1
                      /\ rec'[c] \in DOMAIN log'[p]
                      /\ log'[p][rec'[c]] = log[p][rec[c]]
    OBVIOUS
  <2>1. rec[c] \in 1..Len(log[p]) /\ log[p][rec[c]].state = "busy"
    BY <1>2, LoadersOK DEF RInv, EventsWhole, MyRecord
  <2>2. rec[c] # 1
    BY <1>1, <2>1
  <2>3. rec'[c] = rec[c] - 1
    BY <1>1
  <2>4. Len(log[p]) \in Nat /\ rec[c] \in Nat /\ rec'[c] + 1 = rec[c]
    BY <1>5, <2>1, <2>3
  <2>5. rec[c] \in 2..Len(log[p]) /\ rec'[c] \in 1..(Len(log[p]) - 1)
    BY <2>1, <2>2, <2>3, <2>4
  <2>6. log'[p][rec'[c]] = log[p][rec'[c] + 1]
    BY <1>5, <2>5
  <2> QED  BY <1>5, <2>3, <2>4, <2>5, <2>6
<1>7. \A c \in Cpu : on[c] # p => rec'[c] = rec[c]
  BY <1>1
<1>8. RTypes'
  <2>1. log' \in [Proc -> Seq(Record)]
    BY <1>1, <1>2, <1>3, <1>5 DEF RInv, RTypes
  <2>2. \A q \in Proc : Len(log'[q]) <= RingCap
    BY <1>3, <1>5, RingOK DEF RInv, RTypes
  <2>3. \A c \in Cpu : rec'[c] \in Nat
    BY <1>6, <1>7 DEF RInv, RTypes
  <2> QED  BY <1>1, <2>1, <2>2, <2>3 DEF RInv, RTypes
<1>9. Filled'
  BY <1>2, <1>3, <1>5 DEF RInv, Filled
<1>10. ASSUME NEW q \in Proc, NEW i \in DOMAIN log'[q]
       PROVE  /\ log'[q][i].state = "ready" => log'[q][i].ports /\ log'[q][i].frame = "whole"
              /\ log'[q][i].state = "busy" => \E d \in Cpu : on'[d] = q /\ rec'[d] = i
  <2>1. CASE q = p
    <3>1. i + 1 \in DOMAIN log[p] /\ log'[p][i] = log[p][i + 1] /\ i \in Nat
      BY <1>2, <1>5, <1>10, <2>1
    <3>2. /\ log[p][i + 1].state = "ready" =>
               log[p][i + 1].ports /\ log[p][i + 1].frame = "whole"
          /\ log[p][i + 1].state = "busy" => \E d \in Cpu : on[d] = p /\ rec[d] = i + 1
      BY <3>1 DEF RInv, EventsWhole
    <3> QED  BY <1>1, <1>6, <2>1, <3>1, <3>2
  <2>2. CASE q # p
    <3>1. /\ log[q][i].state = "ready" => log[q][i].ports /\ log[q][i].frame = "whole"
          /\ log[q][i].state = "busy" => \E d \in Cpu : on[d] = q /\ rec[d] = i
      BY <1>3, <1>10, <2>2 DEF RInv, EventsWhole
    <3> QED  BY <1>1, <1>3, <1>7, <2>2, <3>1
  <2> QED  BY <2>1, <2>2
<1>11. ASSUME NEW d \in Cpu, on'[d] # NoProc
       PROVE  /\ rec'[d] \in DOMAIN log'[on'[d]]
              /\ log'[on'[d]][rec'[d]].state = "busy"
              /\ \A e \in Cpu \ {d} : on'[e] # on'[d] \/ rec'[e] # rec'[d]
  <2>1. /\ on[d] \in Proc /\ rec[d] \in DOMAIN log[on[d]]
        /\ log[on[d]][rec[d]].state = "busy"
        /\ \A e \in Cpu \ {d} : on[e] # on[d] \/ rec[e] # rec[d]
        /\ \A e \in Cpu : rec[e] \in Nat
    BY <1>1, <1>11 DEF RInv, RTypes, EventsWhole, MyRecord
  <2>2. CASE on[d] = p
    BY <1>1, <1>6, <2>1, <2>2
  <2>3. CASE on[d] # p
    BY <1>1, <1>3, <1>7, <2>1, <2>3
  <2> QED  BY <2>2, <2>3
<1>12. EventsWhole'
  BY <1>10, <1>11 DEF EventsWhole, MyRecord
<1> QED  BY <1>8, <1>9, <1>12 DEF RInv

-----------------------------------------------------------------------------
(* The ring is empty at the start. *)
LEMMA InitRInv == Init => RInv
<1> SUFFICES ASSUME Init PROVE RInv  OBVIOUS
<1>1. \A p \in Proc : log[p] = <<>>
  BY DEF Init
<1>2. RTypes
  BY <1>1, RingOK DEF Init, RTypes
<1>3. Filled /\ EventsWhole
  BY <1>1 DEF Init, Filled, EventsWhole
<1> QED  BY <1>2, <1>3 DEF RInv

(* Every step of the program and of its reader keeps the invariant of the  *)
(* ring.                                                                   *)
LEMMA StepRInv == RInv /\ LInv /\ [Next]_vars => RInv'
<1> SUFFICES ASSUME RInv, LInv, [Next]_vars PROVE RInv'  OBVIOUS
<1>1. CASE UNCHANGED ringVars
  BY <1>1 DEF ringVars, RInv, RTypes, Filled, EventsWhole, MyRecord
<1>2. ASSUME NEW c \in Cpu, Reserve(c) PROVE RInv'
  BY <1>2, ReserveKeeps DEF LInv, Types
<1>3. ASSUME NEW c \in Cpu, CpuStep(c) PROVE RInv'
  <2>1. /\ on[c] # NoProc /\ MyRecord(c) \in Record /\ on[c] \in Proc
        /\ MyRecord(c).state = "busy" /\ rec[c] \in 1..Len(log[on[c]])
        /\ MyRecord(c).ports => MyRecord(c).frame = "whole"
        /\ MyRecord(c).frame \in FrameKinds
    BY <1>3, Mine, Logs DEF CpuStep, FillPorts, Discard, Submit, RInv, Filled,
      MyRecord, Record
  <2>2. CASE FillPorts(c)
    <3> DEFINE r == [MyRecord(c) EXCEPT !.ports = TRUE]
    <3>1. r \in Record /\ r.ports = TRUE /\ r.frame = "whole" /\ r.state = "busy"
      BY <2>1, <2>2 DEF FillPorts, Record, FrameKinds
    <3>2. log' = [log EXCEPT ![on[c]] = [@ EXCEPT ![rec[c]] = r]]
      BY <2>2 DEF FillPorts, MyRecord
    <3>3. UNCHANGED <<on, rec>>
      BY <2>2 DEF FillPorts
    <3> HIDE DEF r
    <3> QED  BY <2>1, <3>1, <3>2, <3>3, RewriteKeeps
  <2>3. CASE Discard(c)
    <3> DEFINE r == [MyRecord(c) EXCEPT !.state = "discarded"]
    <3>1. /\ r \in Record /\ r.state = "discarded"
          /\ r.ports => r.frame = "whole"
      BY <2>1 DEF Record
    <3>2. log' = [log EXCEPT ![on[c]] = [@ EXCEPT ![rec[c]] = r]]
      BY <2>3 DEF Discard, MyRecord
    <3>3. on' = [on EXCEPT ![c] = NoProc] /\ rec' = [rec EXCEPT ![c] = 0]
      BY <2>3 DEF Discard, Return
    <3> HIDE DEF r
    <3> QED  BY <2>1, <3>1, <3>2, <3>3, RewriteKeeps
  <2>4. CASE Submit(c)
    <3> DEFINE r == [MyRecord(c) EXCEPT !.state = "ready"]
    <3>1. /\ r \in Record /\ r.state = "ready"
          /\ r.ports /\ r.frame = "whole"
      BY <2>1, <2>4 DEF Record, Submit
    <3>2. log' = [log EXCEPT ![on[c]] = [@ EXCEPT ![rec[c]] = r]]
      BY <2>4 DEF Submit, MyRecord
    <3>3. on' = [on EXCEPT ![c] = NoProc] /\ rec' = [rec EXCEPT ![c] = 0]
      BY <2>4 DEF Submit, Return
    <3> HIDE DEF r
    <3> QED  BY <2>1, <3>1, <3>2, <3>3, RewriteKeeps
  <2> QED  BY <1>3, <2>2, <2>3, <2>4 DEF CpuStep
<1>4. ASSUME NEW p \in Proc, ReaderStep(p) PROVE RInv'
  BY <1>1, <1>4, ConsumeKeeps DEF ReaderStep, EnterPoll, LeavePoll, SetPolling
<1> QED  BY <1>1, <1>2, <1>3, <1>4 DEF Next, ProcStep, vars

(* Events are whole, and every busy record has its CPU. *)
THEOREM EventsAreWhole == Spec => []EventsWhole
<1>1. RInv => EventsWhole
  BY DEF RInv
<1> QED  BY <1>1, InitRInv, StepRInv, LoadersKeepOwner, PTL DEF Spec

-----------------------------------------------------------------------------
FlagTypes ==
  /\ caught \in [Proc -> BOOLEAN]
  /\ running \in [Proc -> BOOLEAN]
  /\ filter \in [Proc -> SUBSET Listed]
  /\ polling \in [Proc -> BOOLEAN]

(* The flags of the reader and its handler stay flags. *)
LEMMA StepFlagTypes == FlagTypes /\ [Next]_vars => FlagTypes'
<1> SUFFICES ASSUME FlagTypes, [Next]_vars PROVE FlagTypes'  OBVIOUS
<1>1. ASSUME NEW p \in Proc, MainStep(p) PROVE FlagTypes'
  BY <1>1 DEF FlagTypes, MainStep, Catch, Prepare, Attach, Refused, FillFilter,
    Inserted, LeaveLoop, Detach, DetachFails, Finish, End
<1>2. ASSUME NEW p \in Proc, Start(p) \/ Fault(p) PROVE FlagTypes'
  BY <1>2 DEF FlagTypes, Fault, Start, Fail, Interrupt, InterruptEarly, Kill, End
<1>3. ASSUME NEW p \in Proc, ReaderStep(p) PROVE FlagTypes'
  BY <1>3 DEF FlagTypes, ReaderStep, EnterPoll, Consume, LeavePoll, SetPolling,
    loaderVars
<1>4. ASSUME NEW c \in Cpu, Reserve(c) \/ CpuStep(c) PROVE FlagTypes'
  BY <1>4 DEF FlagTypes, Reserve, CpuStep, FillPorts, Discard, Submit, Return,
    loaderVars
<1> QED
  BY <1>1, <1>2, <1>3, <1>4 DEF Next, ProcStep, vars, loaderVars, FlagTypes

(* Type correctness of the loaders and the ring buffer, with its capacity. *)
THEOREM LoadersTypeCorrect == Spec => []TypeOK
<1>1. Init => FlagTypes
  BY DEF Init, LoaderInit, FlagTypes
<1>2. LInv /\ RInv /\ FlagTypes => TypeOK
  <2> SUFFICES ASSUME LInv, RInv, FlagTypes PROVE TypeOK  OBVIOUS
  <2>1. \A p \in Proc : step[p] \in 0..8 /\ step[p] <= Len(Script(p))
    <3> SUFFICES ASSUME NEW p \in Proc
                 PROVE  step[p] \in 0..8 /\ step[p] <= Len(Script(p))
      OBVIOUS
    <3>1. Len(Script(p)) = Length(p) /\ Length(p) \in Nat /\ Length(p) <= 8
      BY Scripts DEF LInv
    <3>2. step[p] \in Nat /\ step[p] <= Length(p)
      BY DEF LInv, Types
    <3> QED  BY <3>1, <3>2
  <2>2. step \in [Proc -> 0..8]
    BY <2>1 DEF LInv, Types
  <2>3. LoaderTypeOK
    BY <2>1, <2>2 DEF LInv, Types, FlagTypes, LoaderTypeOK
  <2> QED  BY <2>3 DEF TypeOK, RInv, RTypes, Record
<1> QED
  BY <1>1, <1>2, InitRInv, StepRInv, StepFlagTypes, LoadersKeepOwner, PTL DEF Spec
=============================================================================
