----------------------------- MODULE XdpLoader -----------------------------
(***************************************************************************)
(* The loaders of bpf-maps, several of which run on one interface:         *)
(*   "maps"   map_in_map_user.c and hash_map_in_map_user.c                 *)
(*   "ring"   ringbuf_user.c                                               *)
(*   "bloom"  maps_FA/maps/loader.c                                        *)
(* A process goes through the steps of its main, each of which may fail;   *)
(* Ctrl+C reaches it at any time, before or after it has asked for it, and *)
(* it can be killed.                                                       *)
(*                                                                         *)
(* The interface has one place for an XDP program, and the kernel          *)
(* (external) two ways of filling it.  bpf_xdp_attach replaces a program   *)
(* that was put there the same way, and what it puts stays when its        *)
(* process ends; bpf_xdp_detach removes whatever was put there that way.   *)
(* A bpf_link is refused if there is any program, is neither replaced nor  *)
(* detached by the other calls, and ends with its process.                 *)
(***************************************************************************)
EXTENDS Naturals, Sequences

CONSTANTS
  Proc,        \* the processes, each of which is started at most once
  NoProc,
  Listed,      \* the addresses of loader.c
  Mixes        \* what the processes may run: functions from Proc to Kinds

Kinds == {"maps", "ring", "bloom"}

ASSUME LoadersOK == NoProc \notin Proc /\ Mixes \subseteq [Proc -> Kinds]

VARIABLES
  kind,        \* what each process runs
  step,        \* the steps of its main it has done
  phase,       \* "new", "alive", "done" (exit 0), "failed" (exit 1), "killed"
  caught,      \* it has called signal(SIGINT, ..)
  running,     \* its flag of that name
  hook,        \* the process whose program is on the interface
  filter,      \* the addresses in its Bloom filter
  polling      \* it is inside ring_buffer__poll

loaderVars == <<kind, step, phase, caught, running, hook, filter, polling>>

-----------------------------------------------------------------------------
(* map_in_map_user.c and hash_map_in_map_user.c.  "load" is everything     *)
(* from the opening of the object to the attach, "insert" that of the      *)
(* inner map, "loop" the printing of the counters.                         *)
MapsScript ==
  <<"catch", "load", "attach", "find", "create", "insert", "loop", "detach">>

(* ringbuf_user.c: "buffer" is ring_buffer__new. *)
RingScript ==
  <<"load", "attach", "find", "buffer", "catch", "loop", "detach">>

(* Mutant: the addresses are inserted once the program runs. *)
BloomScriptEager == <<"catch", "load", "attach", "fill", "loop", "detach">>

(* maps_FA/maps/loader.c *)
BloomScript == <<"catch", "load", "fill", "attach", "loop", "detach">>

Script(p) ==
  CASE kind[p] = "maps"  -> MapsScript
    [] kind[p] = "ring"  -> RingScript
    [] kind[p] = "bloom" -> BloomScript

(* Mutant: loader.c attaches its program as the others do. *)
ByLinkNever(p) == kind[p] = "none"

(* p attaches with a bpf_link. *)
ByLink(p) == kind[p] = "bloom"

Alive(p)    == phase[p] = "alive"
Ended(p)    == phase[p] \in {"done", "failed", "killed"}
At(p, what) == Alive(p) /\ step[p] < Len(Script(p)) /\ Script(p)[step[p] + 1] = what

(* p has put its program on the interface, whatever became of it. *)
HasAttached(p) == \E i \in 1..step[p] : Script(p)[i] = "attach"

LoaderInit ==
  /\ kind \in Mixes
  /\ step = [p \in Proc |-> 0]
  /\ phase = [p \in Proc |-> "new"]
  /\ caught = [p \in Proc |-> FALSE]
  /\ running = [p \in Proc |-> TRUE]
  /\ hook = NoProc
  /\ filter = [p \in Proc |-> {}]
  /\ polling = [p \in Proc |-> FALSE]

-----------------------------------------------------------------------------
Start(p) ==
  /\ phase[p] = "new"
  /\ phase' = [phase EXCEPT ![p] = "alive"]
  /\ UNCHANGED <<kind, step, caught, running, hook, filter, polling>>

(* The process is over, and with it the link it holds. *)
End(p, how) ==
  /\ phase' = [phase EXCEPT ![p] = how]
  /\ hook' = IF hook = p /\ ByLink(p) THEN NoProc ELSE hook
  /\ UNCHANGED <<kind, step, caught, running, filter, polling>>

(* The next step. *)
Advance(p) ==
  /\ step' = [step EXCEPT ![p] = @ + 1]
  /\ UNCHANGED <<kind, phase>>

(* The steps whose failure main checks. *)
Fallible == {"load", "attach", "find", "create", "insert", "buffer"}

(* Mutant: on every error the interface is detached, attached or not. *)
FailDetaching(p) ==
  /\ \E what \in Fallible : At(p, what)
  /\ phase' = [phase EXCEPT ![p] = "failed"]
  /\ hook' = IF hook = NoProc \/ (hook \in Proc /\ ByLink(hook)) THEN hook ELSE NoProc
  /\ UNCHANGED <<kind, step, caught, running, filter, polling>>

(* A call fails, and main returns 1 from where it is. *)
Fail(p) ==
  /\ \E what \in Fallible : At(p, what)
  /\ End(p, "failed")

(* signal(SIGINT, ..) *)
Catch(p) ==
  /\ At(p, "catch")
  /\ caught' = [caught EXCEPT ![p] = TRUE]
  /\ Advance(p)
  /\ UNCHANGED <<running, hook, filter, polling>>

(* A step that changes nothing another could see: the object is loaded,    *)
(* the maps are found, the inner map is created and inserted (MapCounters  *)
(* has what that does to the counting), the ring buffer's reader is made.  *)
Prepare(p) ==
  /\ \E what \in Fallible \ {"attach"} : At(p, what)
  /\ Advance(p)
  /\ UNCHANGED <<caught, running, hook, filter, polling>>

(* The kernel accepts p's program. *)
Accepts(p) == hook # NoProc => ~ByLink(p) /\ ~ByLink(hook)

(* bpf_xdp_attach, or bpf_program__attach_xdp. *)
Attach(p) ==
  /\ At(p, "attach")
  /\ Accepts(p)
  /\ hook' = p
  /\ Advance(p)
  /\ UNCHANGED <<caught, running, filter, polling>>

Refused(p) ==
  /\ At(p, "attach")
  /\ ~Accepts(p)
  /\ End(p, "failed")

(* insert_ip: an address may be refused. *)
Inserted == SUBSET Listed

(* insert_ip for every address, whose result is ignored. *)
FillFilter(p) ==
  /\ At(p, "fill")
  /\ \E s \in Inserted : filter' = [filter EXCEPT ![p] = s]
  /\ Advance(p)
  /\ UNCHANGED <<caught, running, hook, polling>>

(* The end of the loop: while (running).  The sleeps of "maps" and "bloom" *)
(* end when the signal comes; what the loop of "maps" prints it reads.     *)
LeaveLoop(p) ==
  /\ At(p, "loop")
  /\ ~running[p]
  /\ ~polling[p]
  /\ Advance(p)
  /\ UNCHANGED <<caught, running, hook, filter, polling>>

(* bpf_xdp_detach, which does not ask whose program it is, or              *)
(* bpf_link__destroy.                                                      *)
Detach(p) ==
  /\ At(p, "detach")
  /\ hook' = IF hook = p \/ (~ByLink(p) /\ hook # NoProc /\ ~ByLink(hook))
             THEN NoProc ELSE hook
  /\ Advance(p)
  /\ UNCHANGED <<caught, running, filter, polling>>

(* bpf_xdp_detach fails, and main does not look at its result. *)
DetachFails(p) ==
  /\ At(p, "detach")
  /\ ~ByLink(p)
  /\ Advance(p)
  /\ UNCHANGED <<caught, running, hook, filter, polling>>

(* return 0 *)
Finish(p) ==
  /\ Alive(p)
  /\ step[p] = Len(Script(p))
  /\ End(p, "done")

(* Ctrl+C: the handler clears running; without a handler the process dies. *)
Interrupt(p) ==
  /\ Alive(p)
  /\ caught[p]
  /\ running' = [running EXCEPT ![p] = FALSE]
  /\ UNCHANGED <<kind, step, phase, caught, hook, filter, polling>>

InterruptEarly(p) ==
  /\ Alive(p)
  /\ ~caught[p]
  /\ End(p, "killed")

(* SIGKILL, or a crash. *)
Kill(p) ==
  /\ Alive(p)
  /\ End(p, "killed")

(* What p does by itself, and what is done to it. *)
MainStep(p) ==
  \/ Catch(p) \/ Prepare(p) \/ Attach(p) \/ Refused(p) \/ FillFilter(p)
  \/ LeaveLoop(p) \/ Detach(p) \/ DetachFails(p) \/ Finish(p)

Fault(p) == Fail(p) \/ Interrupt(p) \/ InterruptEarly(p) \/ Kill(p)

-----------------------------------------------------------------------------
LoaderTypeOK ==
  /\ kind \in [Proc -> Kinds]
  /\ step \in [Proc -> 0..8]
  /\ \A p \in Proc : step[p] <= Len(Script(p))
  /\ phase \in [Proc -> {"new", "alive", "done", "failed", "killed"}]
  /\ caught \in [Proc -> BOOLEAN]
  /\ running \in [Proc -> BOOLEAN]
  /\ hook \in Proc \cup {NoProc}
  /\ filter \in [Proc -> SUBSET Listed]
  /\ polling \in [Proc -> BOOLEAN]

(* The program of loader.c is on the interface as long as its loop runs,   *)
(* whatever other loaders attach, detach or leave behind (loader.c:102).   *)
LinkHolds ==
  \A p \in Proc : kind[p] = "bloom" /\ At(p, "loop") => hook = p

(* A loader whose loop runs without its program on the interface lost it   *)
(* to another one that had attached, by its attach or by its detach (the   *)
(* netlink calls of map_in_map_user.c:112, 280 and ringbuf_user.c:138,     *)
(* 195 say which interface, not whose program), never to one that failed   *)
(* earlier.                                                                *)
LostOnlyToAnother ==
  \A p \in Proc : At(p, "loop") /\ hook # p =>
    \E q \in Proc \ {p} : HasAttached(q) /\ ~ByLink(q)

(* No frame meets a half-filled Bloom filter: the addresses are inserted   *)
(* before the program is on the interface (loader.c:92-102), unlike the    *)
(* inner maps, which come after.                                           *)
FilterSettled ==
  [][\A p \in Proc : HasAttached(p) => filter'[p] = filter[p]]_loaderVars
=============================================================================
