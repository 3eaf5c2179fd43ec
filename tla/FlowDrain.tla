------------------------------ MODULE FlowDrain ------------------------------
(***************************************************************************)
(* flow_accounting/userspace_flow_count_FA/read_and_delete_file.c: every   *)
(* second the process appends each entry of the map to flows.txt and       *)
(* deletes it, one system call per step, while the CPUs go on counting.    *)
(* bpf_map_get_next_key of the key it has just deleted gives the first key *)
(* of the map again, so a dump ends only when it finds the map empty.      *)
(***************************************************************************)
EXTENDS XdpProgram

VARIABLES
  keepRunning,  \* cleared by the handler of SIGINT and SIGTERM
  upc,          \* where the process is
  ukey          \* key of dump_flows_to_file; NoFlow while first is true

userVars == <<keepRunning, upc, ukey>>
drainVars == <<kernelVars, userVars>>

-----------------------------------------------------------------------------
DrainInit ==
  /\ TableInit
  /\ keepRunning = TRUE
  /\ upc = "head"
  /\ ukey = NoFlow

(* while (keep_running): fopen(.., "a") and, if it is empty, a header. *)
OpenFile ==
  /\ upc = "head" /\ keepRunning
  /\ upc' = "next"
  /\ UNCHANGED <<kernelVars, keepRunning, ukey>>

(* fopen fails: perror, no dump this second. *)
OpenFails ==
  /\ upc = "head" /\ keepRunning
  /\ upc' = "sleep"
  /\ UNCHANGED <<kernelVars, keepRunning, ukey>>

(* bpf_map_get_next_key, of NULL or of the key before; at the end of the   *)
(* map the file is closed.  Nothing in this loop reads keep_running.       *)
GetNextKey ==
  /\ upc = "next"
  /\ ukey' = IF ukey = NoFlow THEN FirstKey ELSE NextKey(ukey)
  /\ upc' = IF ukey' = NoFlow THEN "sleep" ELSE "lookup"
  /\ UNCHANGED <<kernelVars, keepRunning>>

(* bpf_map_lookup_elem: a row is appended, or the key is skipped. *)
ReadRow ==
  /\ upc = "lookup"
  /\ upc' = IF ukey \in Linked THEN "delete" ELSE "next"
  /\ UNCHANGED <<kernelVars, keepRunning, ukey>>

(* Mutant: the delete's failure is silent, and the entry stays. *)
DeleteRowFails ==
  /\ upc = "delete"
  /\ upc' = "next"
  /\ UNCHANGED <<kernelVars, keepRunning, ukey>>

(* Mutant: the entry is kept and its counter set to zero. *)
DeleteRowResets ==
  /\ upc = "delete"
  /\ upc' = "next"
  /\ ukey \in Linked
  /\ val' = [val EXCEPT ![htab[ukey]] = 0]
  /\ UNCHANGED <<attached, htab, order, free, spare, cpuVars, keepRunning, ukey>>

(* bpf_map_delete_elem; if it fails, perror. *)
DeleteRow ==
  /\ upc = "delete"
  /\ upc' = "next"
  /\ IF ukey \in Linked THEN DeleteElem(ukey) ELSE UNCHANGED kernelVars
  /\ UNCHANGED <<keepRunning, ukey>>

(* sleep(1) ends: after a second, or at a signal. *)
Wake ==
  /\ upc = "sleep"
  /\ upc' = "head"
  /\ UNCHANGED <<kernelVars, keepRunning, ukey>>

(* The loop ends: bpf_xdp_detach, whose result is not looked at, and the   *)
(* process exits.                                                          *)
Quit ==
  /\ upc = "head" /\ ~keepRunning
  /\ upc' = "exited"
  /\ Detach \/ UNCHANGED kernelVars
  /\ UNCHANGED <<keepRunning, ukey>>

(* sig_handler *)
Signal ==
  /\ upc # "exited"
  /\ keepRunning' = FALSE
  /\ UNCHANGED <<kernelVars, upc, ukey>>

User == OpenFile \/ OpenFails \/ GetNextKey \/ ReadRow \/ DeleteRow \/ Wake \/ Quit

DrainReceive(c) == (\E f \in Frame : Receive(c, f)) /\ UNCHANGED userVars
DrainProcess(c) == Complete(c) /\ UNCHANGED userVars

DrainNext ==
  \/ \E c \in Cpu : DrainReceive(c) \/ DrainProcess(c)
  \/ User
  \/ Signal

(* The process is scheduled and its calls return; an XDP program, which    *)
(* the verifier bounds, finishes its frame.  Frames and signals come, or   *)
(* do not come, as they like.                                              *)
DrainFairness ==
  /\ WF_drainVars(User)
  /\ \A c \in Cpu : WF_drainVars(DrainProcess(c))

DrainSpec == DrainInit /\ [][DrainNext]_drainVars /\ DrainFairness

-----------------------------------------------------------------------------
DrainTypeOK ==
  /\ KernelTypeOK /\ LocalsOK /\ OrderOK
  /\ keepRunning \in BOOLEAN
  /\ upc \in {"head", "next", "lookup", "delete", "sleep", "exited"}
  /\ ukey \in Flow \cup {NoFlow}

(* read_and_delete_file.c:147: "Press Ctrl+C to terminate cleanly": after  *)
(* a signal the process leaves its loops, asks for the detach and exits.   *)
StopHonoured == ~keepRunning ~> upc = "exited"
=============================================================================
