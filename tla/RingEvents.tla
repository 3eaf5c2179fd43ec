----------------------------- MODULE RingEvents -----------------------------
(***************************************************************************)
(* The loaders with the ring buffer between the program of ringbuf_kern.c, *)
(* which several CPUs run, and the poll loop of ringbuf_user.c.            *)
(*                                                                         *)
(* The buffer is the kernel's and libbpf's (external): records are         *)
(* reserved in an order, a reserved record stays busy until it is          *)
(* submitted or discarded, and the consumer takes them in order of         *)
(* reservation, waits at a busy one and skips a discarded one.             *)
(***************************************************************************)
EXTENDS XdpLoader

CONSTANTS
  Cpu,         \* the CPUs that run the program on the interface
  RingCap      \* records the ring buffer holds: 256 KB in the code

ASSUME RingOK == RingCap \in Nat \ {0}

VARIABLES
  log,         \* the records in each process's ring buffer, oldest first
  on, rec      \* each CPU: whose program it is in, and its record there

ringVars == <<log, on, rec>>
vars == <<loaderVars, ringVars>>

-----------------------------------------------------------------------------
(* An IPv4 frame is cut before the ports of its TCP or UDP header, or not. *)
FrameKinds == {"whole", "short"}

(* Mutant: one record more than fits. *)
RoomLoose(p) == Len(log[p]) <= RingCap

(* bpf_ringbuf_reserve succeeds.  If it does not, the frame is passed and  *)
(* nothing happens.                                                        *)
Room(p) == Len(log[p]) < RingCap

(* CPU c receives a frame: it reserves a record and fills what every       *)
(* record has.                                                             *)
Reserve(c) ==
  /\ on[c] = NoProc
  /\ hook \in {p \in Proc : kind[p] = "ring" /\ Room(p)}
  /\ \E f \in FrameKinds :
       log' = [log EXCEPT ![hook] = Append(@, [state |-> "busy", frame |-> f, ports |-> FALSE])]
  /\ rec' = [rec EXCEPT ![c] = Len(log[hook]) + 1]
  /\ on' = [on EXCEPT ![c] = hook]
  /\ UNCHANGED loaderVars

MyRecord(c) == log[on[c]][rec[c]]

(* The program is done with its frame. *)
Return(c) ==
  /\ on' = [on EXCEPT ![c] = NoProc]
  /\ rec' = [rec EXCEPT ![c] = 0]
  /\ UNCHANGED loaderVars

(* The ports: zeroes if the protocol has none. *)
FillPorts(c) ==
  /\ on[c] # NoProc
  /\ MyRecord(c).frame # "short"
  /\ ~MyRecord(c).ports
  /\ log' = [log EXCEPT ![on[c]][rec[c]].ports = TRUE]
  /\ UNCHANGED <<loaderVars, on, rec>>

(* Mutant: a cut frame returns without giving its record back. *)
DiscardForgotten(c) ==
  /\ on[c] # NoProc
  /\ MyRecord(c).frame = "short"
  /\ UNCHANGED log
  /\ Return(c)

(* The ports are not in the frame: bpf_ringbuf_discard. *)
Discard(c) ==
  /\ on[c] # NoProc
  /\ MyRecord(c).frame = "short"
  /\ log' = [log EXCEPT ![on[c]][rec[c]].state = "discarded"]
  /\ Return(c)

(* Mutant: the record is submitted before its ports are in it. *)
SubmitEarly(c) ==
  /\ on[c] # NoProc
  /\ log' = [log EXCEPT ![on[c]][rec[c]].state = "ready"]
  /\ Return(c)

(* bpf_ringbuf_submit *)
Submit(c) ==
  /\ on[c] # NoProc
  /\ MyRecord(c).ports
  /\ log' = [log EXCEPT ![on[c]][rec[c]].state = "ready"]
  /\ Return(c)

CpuStep(c) == FillPorts(c) \/ Discard(c) \/ Submit(c)

-----------------------------------------------------------------------------
SetPolling(p, b) ==
  /\ polling' = [polling EXCEPT ![p] = b]
  /\ UNCHANGED <<kind, step, phase, caught, running, hook, filter, ringVars>>

(* Mutant: the loop does not look at running. *)
EnterPollAlways(p) ==
  /\ kind[p] = "ring" /\ At(p, "loop")
  /\ ~polling[p]
  /\ SetPolling(p, TRUE)

(* while (running) ring_buffer__poll(rb, 100) *)
EnterPoll(p) ==
  /\ kind[p] = "ring" /\ At(p, "loop")
  /\ running[p]
  /\ ~polling[p]
  /\ SetPolling(p, TRUE)

(* The oldest record can be taken. *)
NextDone(p) == log[p] # <<>> /\ Head(log[p]).state # "busy"

(* libbpf takes the oldest record, and calls handle_event, which prints    *)
(* it, if it was submitted.                                                *)
Consume(p) ==
  /\ At(p, "loop")
  /\ polling[p]
  /\ NextDone(p)
  /\ log' = [log EXCEPT ![p] = Tail(@)]
  /\ rec' = [c \in Cpu |-> IF on[c] = p THEN rec[c] - 1 ELSE rec[c]]
  /\ UNCHANGED <<loaderVars, on>>

(* Only when nothing is left to take does the poll return. *)
LeavePoll(p) ==
  /\ At(p, "loop")
  /\ polling[p]
  /\ ~NextDone(p)
  /\ SetPolling(p, FALSE)

ReaderStep(p) == EnterPoll(p) \/ Consume(p) \/ LeavePoll(p)

-----------------------------------------------------------------------------
Init ==
  /\ LoaderInit
  /\ log = [p \in Proc |-> <<>>]
  /\ on = [c \in Cpu |-> NoProc]
  /\ rec = [c \in Cpu |-> 0]

(* A process's own steps. *)
ProcStep(p) == (MainStep(p) /\ UNCHANGED ringVars) \/ ReaderStep(p)

Next ==
  \/ \E p \in Proc : ProcStep(p) \/ ((Start(p) \/ Fault(p)) /\ UNCHANGED ringVars)
  \/ \E c \in Cpu : Reserve(c) \/ CpuStep(c)

Spec == Init /\ [][Next]_vars

(* A process that is started runs, and a CPU inside the program goes on;   *)
(* nobody has to start a process, send a signal or a frame.                *)
Fairness ==
  /\ \A p \in Proc : WF_vars(ProcStep(p))
  /\ \A c \in Cpu : WF_vars(CpuStep(c))

FairSpec == Spec /\ Fairness

-----------------------------------------------------------------------------
TypeOK ==
  /\ LoaderTypeOK
  /\ log \in [Proc -> Seq([state : {"busy", "ready", "discarded"},
                           frame : FrameKinds, ports : BOOLEAN])]
  /\ \A p \in Proc : Len(log[p]) <= RingCap
  /\ on \in [Cpu -> Proc \cup {NoProc}]
  /\ rec \in [Cpu -> Nat]

(* What handle_event can be called with is whole, and no CPU writes to it  *)
(* any more; a busy record, which holds the reader up, belongs to exactly  *)
(* one CPU, that will give it back (ringbuf_kern.c:54-99).                 *)
EventsWhole ==
  /\ \A p \in Proc : \A i \in DOMAIN log[p] :
       /\ log[p][i].state = "ready" => log[p][i].ports /\ log[p][i].frame = "whole"
       /\ log[p][i].state = "busy" => \E c \in Cpu : on[c] = p /\ rec[c] = i
  /\ \A c \in Cpu : on[c] # NoProc =>
       /\ rec[c] \in DOMAIN log[on[c]]
       /\ MyRecord(c).state = "busy"
       /\ \A d \in Cpu \ {c} : on[d] # on[c] \/ rec[d] # rec[c]

(* A reader whose buffer does not get empty keeps taking records: frames   *)
(* cut short, and CPUs that reserve first and submit last, hold it up but  *)
(* do not stop it.                                                         *)
EventsHeard ==
  \A p \in Proc :
    <>[](kind[p] = "ring" /\ At(p, "loop") /\ running[p] /\ log[p] # <<>>)
      => []<><<Consume(p)>>_vars

(* Ctrl+C ends every loader that has caught it; one still starting up      *)
(* finishes or fails first.  ring_buffer__poll goes on while there are     *)
(* records: only traffic that never lets the buffer empty can keep         *)
(* ringbuf_user.c from looking at running.                                 *)
StopHonoured ==
  \A p \in Proc : (~running[p] ~> Ended(p)) \/ []<><<Consume(p)>>_vars
=============================================================================
