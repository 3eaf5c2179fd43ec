---------------------------- MODULE FlowSnapshot ----------------------------
(***************************************************************************)
(* flow_accounting/userspace_flow_count_FA/user_program.c: every second    *)
(* the process rewrites flows.txt with the contents of the map, which it   *)
(* walks with bpf_map_get_next_key from an all-zero key, one system call   *)
(* per step, while the CPUs go on counting.  It deletes nothing.           *)
(***************************************************************************)
EXTENDS XdpProgram

CONSTANT ZeroKey  \* the key the walk starts from: all its bytes are zero

(* The protocol is part of the key: no TCP segment can carry the zero key, *)
(* wherever its ports are read.                                            *)
ASSUME ZeroKeyOK ==
  /\ ZeroKey \in Flow
  /\ \A f \in Frame : f.proto = "TCP" => ZeroKey \notin {f.tuple, f.misread}

VARIABLES
  keepRunning,   \* cleared by the handler of SIGINT and SIGTERM
  upc,           \* where the process is
  ukey, unext,   \* key and next_key of dump_flows_to_file
  file,          \* the rows of flows.txt
  settledAtOpen  \* history: the flows settled when flows.txt was truncated

userVars == <<keepRunning, upc, ukey, unext, file, settledAtOpen>>
vars == <<kernelVars, userVars>>

Row == [flow : Flow, packets : 0..(CounterMod - 1)]

-----------------------------------------------------------------------------
Init ==
  /\ TableInit
  /\ keepRunning = TRUE
  /\ upc = "head"
  /\ ukey = ZeroKey
  /\ unext = ZeroKey
  /\ file = {}
  /\ settledAtOpen = {}

(* while (keep_running): fopen(.., "w") empties the file. *)
OpenFile ==
  /\ upc = "head" /\ keepRunning
  /\ upc' = "next"
  /\ file' = {}
  /\ settledAtOpen' = {k \in Flow : Settled(k)}
  /\ UNCHANGED <<kernelVars, keepRunning, ukey, unext>>

(* fopen fails: perror, no dump this second. *)
OpenFails ==
  /\ upc = "head" /\ keepRunning
  /\ upc' = "sleep"
  /\ UNCHANGED <<kernelVars, keepRunning, ukey, unext, file, settledAtOpen>>

(* bpf_map_get_next_key(&key, &next_key): at the end the dump is over, and *)
(* the next one starts with a fresh, zero, key.                            *)
GetNextKey ==
  /\ upc = "next"
  /\ IF NextKey(ukey) = NoFlow
     THEN upc' = "sleep" /\ ukey' = ZeroKey /\ unext' = ZeroKey
     ELSE upc' = "lookup" /\ unext' = NextKey(ukey) /\ UNCHANGED ukey
  /\ UNCHANGED <<kernelVars, keepRunning, file, settledAtOpen>>

(* Mutant: key = next_key is forgotten. *)
WriteRowAgain ==
  /\ upc = "lookup"
  /\ upc' = "next"
  /\ file' = IF unext \in Linked
             THEN file \cup {[flow |-> unext, packets |-> val[htab[unext]]]}
             ELSE file
  /\ UNCHANGED <<kernelVars, keepRunning, ukey, unext, settledAtOpen>>

(* bpf_map_lookup_elem(&next_key, &value): a row if it is there. *)
WriteRow ==
  /\ upc = "lookup"
  /\ upc' = "next"
  /\ file' = IF unext \in Linked
             THEN file \cup {[flow |-> unext, packets |-> val[htab[unext]]]}
             ELSE file
  /\ ukey' = unext
  /\ UNCHANGED <<kernelVars, keepRunning, unext, settledAtOpen>>

(* sleep(1) ends: after a second, or at a signal. *)
Wake ==
  /\ upc = "sleep"
  /\ upc' = "head"
  /\ UNCHANGED <<kernelVars, keepRunning, ukey, unext, file, settledAtOpen>>

(* The loop ends: bpf_xdp_detach, whose result is not looked at, and the   *)
(* process exits.                                                          *)
Quit ==
  /\ upc = "head" /\ ~keepRunning
  /\ upc' = "exited"
  /\ Detach \/ UNCHANGED kernelVars
  /\ UNCHANGED <<keepRunning, ukey, unext, file, settledAtOpen>>

(* sig_handler *)
Signal ==
  /\ upc # "exited"
  /\ keepRunning' = FALSE
  /\ UNCHANGED <<kernelVars, upc, ukey, unext, file, settledAtOpen>>

Dump == OpenFile \/ OpenFails \/ GetNextKey \/ WriteRow
User == Dump \/ Wake \/ Quit

SnapReceive(c) == (\E f \in Frame : Receive(c, f)) /\ UNCHANGED userVars
SnapProcess(c) == Complete(c) /\ UNCHANGED userVars

Next ==
  \/ \E c \in Cpu : SnapReceive(c) \/ SnapProcess(c)
  \/ User
  \/ Signal

(* The process is scheduled and its calls return; an XDP program, which    *)
(* the verifier bounds, finishes its frame.  Frames and signals come, or   *)
(* do not come, as they like.                                              *)
Fairness ==
  /\ WF_vars(User)
  /\ \A c \in Cpu : WF_vars(SnapProcess(c))

Spec == Init /\ [][Next]_vars /\ Fairness

-----------------------------------------------------------------------------
TypeOK ==
  /\ KernelTypeOK /\ LocalsOK /\ OrderOK
  /\ keepRunning \in BOOLEAN
  /\ upc \in {"head", "next", "lookup", "sleep", "exited"}
  /\ ukey \in Flow
  /\ unext \in Flow
  /\ file \subseteq Row
  /\ settledAtOpen \subseteq Flow

(* A dump misses no flow that was settled when it began, although flows    *)
(* are linked, moved to the head of their bucket and counted under the     *)
(* walk (user_program.c:48), and although the walk starts after a zero key *)
(* that must never have been counted.                                      *)
DumpComplete ==
  upc \notin {"next", "lookup"} =>
    settledAtOpen \subseteq {r.flow : r \in file}

(* "Press Ctrl+C to terminate cleanly" (user_program.c:124): after a       *)
(* signal the process leaves its loops, asks for the detach and exits,     *)
(* however much traffic there is.                                          *)
StopHonoured == ~keepRunning ~> upc = "exited"
=============================================================================
