------------------------------ MODULE FlowBatch ------------------------------
(***************************************************************************)
(* flow_accounting/flow_tracker_user.c over xdp_flow_tracker.c: every 30   *)
(* seconds the process appends a batch to its log, one row per flow, with  *)
(* a summary, and deletes what it has logged.  It asks for the next key    *)
(* before it reads and deletes the current one, so that the walk does not  *)
(* start again at the first key.                                           *)
(***************************************************************************)
EXTENDS FlowTable

CONSTANT Frame  \* the frames the network delivers

(***************************************************************************)
(* A frame as xdp_packet_parser tells frames apart: headers counts those   *)
(* that end before data_end, zeroPort says a port is zero, and endpoints   *)
(* is the key, the addresses and ports alone.                              *)
(***************************************************************************)
FrameType ==
  [headers : 0..3, ether : {"IPv4", "other"}, proto : {"TCP", "UDP", "other"},
   zeroPort : BOOLEAN, endpoints : Flow]

ASSUME FramesOK == Frame \subseteq FrameType

VARIABLES
  keepRunning,    \* cleared by the handler of SIGINT
  upc,            \* where the process is
  ukey, unext,    \* key and next_key; unext is NoFlow once err is set
  rows,           \* the flows of the rows of the batch being written
  linkedAtOpen,   \* history: the flows in the map when the batch was opened
  moved           \* history: an update moved a linked flow during the batch

batchVars == <<ukey, unext, rows, linkedAtOpen, moved>>
userVars == <<keepRunning, upc, batchVars>>
vars == <<kernelVars, userVars>>

-----------------------------------------------------------------------------
(* xdp_packet_parser *)
Tracked(f) ==
  /\ f.headers = 3 /\ f.ether = "IPv4" /\ f.proto \in {"TCP", "UDP"}
  /\ ~f.zeroPort

Receive(c) ==
  /\ \E f \in Frame : Tracked(f) /\ Lookup(c, f.endpoints)
  /\ UNCHANGED userVars

InBatch == upc \in {"loop", "lookup", "delete"}

Process(c) ==
  /\ Complete(c)
  /\ moved' = (moved \/ (InBatch /\ pc[c] = "insert" /\ key[c] \in Linked))
  /\ UNCHANGED <<keepRunning, upc, ukey, unext, rows, linkedAtOpen>>

-----------------------------------------------------------------------------
Init ==
  /\ TableInit
  /\ keepRunning = TRUE
  /\ upc = "head"
  /\ ukey = NoFlow /\ unext = NoFlow
  /\ rows = <<>>
  /\ linkedAtOpen = {} /\ moved = FALSE

(* while (keep_running): sleep(30). *)
Sleep ==
  /\ upc = "head" /\ keepRunning
  /\ upc' = "sleep"
  /\ UNCHANGED <<kernelVars, keepRunning, batchVars>>

(* The sleep ends; the log opens, and the first key is asked for. *)
OpenBatch ==
  /\ upc = "sleep" /\ keepRunning
  /\ upc' = "loop"
  /\ unext' = FirstKey
  /\ linkedAtOpen' = Linked
  /\ UNCHANGED <<kernelVars, keepRunning, ukey, rows, moved>>

(* fopen fails: nothing is logged for another 30 seconds. *)
OpenFails ==
  /\ upc = "sleep" /\ keepRunning
  /\ upc' = "head"
  /\ UNCHANGED <<kernelVars, keepRunning, batchVars>>

(* Mutant: the last key, after which there is no next one, is left out. *)
LookAheadDropsLast ==
  /\ upc = "loop" /\ unext # NoFlow
  /\ upc' = IF NextKey(unext) = NoFlow THEN "loop" ELSE "lookup"
  /\ ukey' = unext
  /\ unext' = NextKey(unext)
  /\ UNCHANGED <<kernelVars, keepRunning, rows, linkedAtOpen, moved>>

(* key = next_key, and the key after it. *)
LookAhead ==
  /\ upc = "loop" /\ unext # NoFlow
  /\ upc' = "lookup"
  /\ ukey' = unext
  /\ unext' = NextKey(unext)
  /\ UNCHANGED <<kernelVars, keepRunning, rows, linkedAtOpen, moved>>

(* bpf_map_lookup_elem, whose result is not looked at: there is a row, and *)
(* a flow more in active_flows, whether the key is in the map or not.      *)
LogRow ==
  /\ upc = "lookup"
  /\ upc' = "delete"
  /\ rows' = Append(rows, ukey)
  /\ UNCHANGED <<kernelVars, keepRunning, ukey, unext, linkedAtOpen, moved>>

(* Mutant: the next key is asked for after the delete. *)
DeleteRowFirst ==
  /\ upc = "delete"
  /\ upc' = "loop"
  /\ DeleteElem(ukey)
  /\ unext' = IF order' = <<>> THEN NoFlow ELSE Head(order')
  /\ ukey' = NoFlow
  /\ UNCHANGED <<keepRunning, rows, linkedAtOpen, moved>>

(* Mutant: next_key is deleted in place of key. *)
DeleteNextRow ==
  /\ upc = "delete"
  /\ upc' = "loop"
  /\ IF unext \in Linked THEN DeleteElem(unext) ELSE UNCHANGED kernelVars
  /\ ukey' = NoFlow
  /\ UNCHANGED <<keepRunning, unext, rows, linkedAtOpen, moved>>

(* bpf_map_delete_elem, whose result is not looked at. *)
DeleteRow ==
  /\ upc = "delete"
  /\ upc' = "loop"
  /\ IF ukey \in Linked THEN DeleteElem(ukey) ELSE UNCHANGED kernelVars
  /\ ukey' = NoFlow
  /\ UNCHANGED <<keepRunning, unext, rows, linkedAtOpen, moved>>

(* The summary is written and the log closed: the batch's locals are gone. *)
CloseBatch ==
  /\ upc = "loop" /\ unext = NoFlow
  /\ upc' = "head"
  /\ rows' = <<>> /\ linkedAtOpen' = {} /\ moved' = FALSE
  /\ UNCHANGED <<kernelVars, keepRunning, ukey, unext>>

(* The loop ends, at its head or after a sleep: the link is destroyed and  *)
(* the process exits; what the map holds is not logged.                    *)
Quit ==
  /\ upc \in {"head", "sleep"} /\ ~keepRunning
  /\ upc' = "exited"
  /\ Detach
  /\ UNCHANGED <<keepRunning, batchVars>>

(* sig_handler *)
Signal ==
  /\ upc # "exited"
  /\ keepRunning' = FALSE
  /\ UNCHANGED <<kernelVars, upc, batchVars>>

Next ==
  \/ \E c \in Cpu : Receive(c) \/ Process(c)
  \/ Sleep \/ OpenBatch \/ OpenFails \/ LookAhead \/ LogRow \/ DeleteRow
  \/ CloseBatch \/ Quit \/ Signal

Spec == Init /\ [][Next]_vars

-----------------------------------------------------------------------------
TypeOK ==
  /\ KernelTypeOK /\ LocalsOK /\ OrderOK
  /\ keepRunning \in BOOLEAN
  /\ upc \in {"head", "sleep", "loop", "lookup", "delete", "exited"}
  /\ {ukey, unext} \subseteq Flow \cup {NoFlow}
  /\ rows \in Seq(Flow)
  /\ linkedAtOpen \subseteq Flow
  /\ moved \in BOOLEAN

(* The keys the walk holds are still in the map when it comes to use them: *)
(* the lookup of line 84, whose failure nobody would notice, finds its     *)
(* entry, and the walk of line 82 goes on from where it was.               *)
HeldKeysLinked ==
  /\ InBatch /\ unext # NoFlow => unext \in Linked
  /\ upc \in {"lookup", "delete"} => ukey \in Linked /\ ukey # unext

(* "BATCH SUMMARY: %d Unique Flows" (line 108): no flow has two rows, as   *)
(* long as no flow of the map was moved to the head of its bucket by a     *)
(* racing update during the batch.  So, unlike the walk of FlowDrain, this *)
(* one ends, however much traffic there is.                                *)
RowsUnique ==
  ~moved => \A i, j \in DOMAIN rows : rows[i] = rows[j] => i = j

(* With the same proviso, a batch about to be closed has a row for every   *)
(* flow that was in the map when it was opened, although rows are deleted  *)
(* and flows linked under the walk.                                        *)
BatchComplete ==
  ~moved /\ upc = "loop" /\ unext = NoFlow =>
    linkedAtOpen \subseteq {rows[i] : i \in DOMAIN rows}
=============================================================================
