------------------------------ MODULE L7Loader ------------------------------
(***************************************************************************)
(* load_xdp_l7_router.sh and unload_xdp_l7_router.sh, beside the router    *)
(* they load: the operator runs one script at a time, as often as MaxLoads *)
(* allows.  Under "set -e" a command that fails, like a Ctrl+C, ends the   *)
(* script and leaves what was done.  The commands of the cleanup end in    *)
(* "2>/dev/null || true": one that fails is passed over in silence.        *)
(***************************************************************************)
EXTENDS L7Policy, Sequences

CONSTANT CommandD  \* the shell finds a command named d: see StrayLine

ASSUME LoaderConstantsOK == CommandD \in BOOLEAN

VARIABLES
  script,  \* the script that runs, or "none"
  line,    \* the next of its commands
  loads,   \* how many times the object has been loaded
  pinned,  \* the load of which objects are pinned in PIN_DIR, or 0
  loaded,  \* the last script to run was the loader, and it said SUCCESS
  kept,    \* history: the ports whose last detach failed
  complete, \* history: the loads the loader has said SUCCESS of
  ready    \* history: the frame in the program met one of those

loaderVars == <<script, line, loads, pinned, loaded, kept, complete>>
vars == <<mapVars, progVars, loaderVars, ready>>

-----------------------------------------------------------------------------
Cmd(op, key, link) == [op |-> op, key |-> key, link |-> link]

(* Mutant: the third port is forgotten. *)
CleanupTwo ==
  <<Cmd("detach", "CLIENT", "CLIENT"), Cmd("detach", "F", "F"),
    Cmd("detach", "CLIENT", "CLIENT"), Cmd("detach", "F", "F"),
    Cmd("unpin", "-", "-")>>

(* Every port is detached by bpftool, and again by ip. *)
Cleanup ==
  <<Cmd("detach", "CLIENT", "CLIENT"), Cmd("detach", "F", "F"),
    Cmd("detach", "Z", "Z"),
    Cmd("detach", "CLIENT", "CLIENT"), Cmd("detach", "F", "F"),
    Cmd("detach", "Z", "Z"), Cmd("unpin", "-", "-")>>

(* Mutant: tx_port is filled in the order of the roles, not of its slots. *)
FillByRole ==
  <<Cmd("ifindex_map", "CLIENT", "CLIENT"), Cmd("ifindex_map", "F", "F"),
    Cmd("ifindex_map", "Z", "Z"),
    Cmd("tx_port", "TX_TO_F", "CLIENT"), Cmd("tx_port", "TX_TO_Z", "F"),
    Cmd("tx_port", "TX_TO_CLIENT", "Z"),
    Cmd("mac_map", "TX_TO_F", "F"), Cmd("mac_map", "TX_TO_Z", "Z"),
    Cmd("mac_map", "TX_TO_CLIENT", "CLIENT")>>

(* Mutant: the addresses of the return path are forgotten. *)
FillOneWay ==
  <<Cmd("ifindex_map", "CLIENT", "CLIENT"), Cmd("ifindex_map", "F", "F"),
    Cmd("ifindex_map", "Z", "Z"),
    Cmd("tx_port", "TX_TO_F", "F"), Cmd("tx_port", "TX_TO_Z", "Z"),
    Cmd("tx_port", "TX_TO_CLIENT", "CLIENT"),
    Cmd("mac_map", "TX_TO_F", "F"), Cmd("mac_map", "TX_TO_Z", "Z")>>

(* The maps are filled: roles, slots and addresses, in this order. *)
Fill ==
  <<Cmd("ifindex_map", "CLIENT", "CLIENT"), Cmd("ifindex_map", "F", "F"),
    Cmd("ifindex_map", "Z", "Z"),
    Cmd("tx_port", "TX_TO_F", "F"), Cmd("tx_port", "TX_TO_Z", "Z"),
    Cmd("tx_port", "TX_TO_CLIENT", "CLIENT"),
    Cmd("mac_map", "TX_TO_F", "F"), Cmd("mac_map", "TX_TO_Z", "Z"),
    Cmd("mac_map", "TX_TO_CLIENT", "CLIENT")>>

LoadScript ==
  <<Cmd("d", "-", "-")>> \o Cleanup
  \o <<Cmd("load", "-", "-"), Cmd("attach", "CLIENT", "CLIENT"),
       Cmd("attach", "F", "F"), Cmd("attach", "Z", "Z")>>
  \o Fill

Commands == [load |-> LoadScript, unload |-> Cleanup]

Init ==
  /\ RouterInit
  /\ script = "none" /\ line = 1
  /\ loads = 0 /\ pinned = 0
  /\ loaded = FALSE /\ ready = FALSE
  /\ kept = {} /\ complete = {}

(* The operator starts a script. *)
Start(s) ==
  /\ script = "none"
  /\ s = "load" => loads < MaxLoads
  /\ script' = s /\ line' = 1 /\ loaded' = FALSE
  /\ UNCHANGED <<mapVars, progVars, loads, pinned, kept, complete, ready>>

(* Its next command is op, and the script goes on after it. *)
Runs(op) ==
  /\ script # "none"
  /\ line <= Len(Commands[script])
  /\ Commands[script][line].op = op
  /\ line' = line + 1
  /\ UNCHANGED <<script, loaded, complete, progVars, ready>>

Command == Commands[script][line]

(* Line 51 of the loader is "d": unless there is such a command, the       *)
(* script ends there, with 127.                                            *)
StrayLine ==
  /\ Runs("d")
  /\ CommandD
  /\ UNCHANGED <<mapVars, loads, pinned, kept>>

(* The port runs nothing any more, as when it ran nothing before. *)
Detach ==
  /\ Runs("detach")
  /\ attached' = [attached EXCEPT ![Command.key] = 0]
  /\ kept' = kept \ {Command.key}
  /\ UNCHANGED <<maps, loads, pinned>>

(* The detach fails, and "|| true" passes it over. *)
DetachFails ==
  /\ Runs("detach")
  /\ attached[Command.key] # 0
  /\ kept' = kept \cup {Command.key}
  /\ UNCHANGED <<mapVars, loads, pinned>>

(* rm -rf of PIN_DIR: the maps live on while their program is attached.    *)
(* If it fails some of the pins stay.                                      *)
Unpin ==
  /\ Runs("unpin")
  /\ pinned' \in {0, pinned}
  /\ UNCHANGED <<mapVars, loads, kept>>

(* bpftool prog load .. pinmaps: new maps, zeroed.  Pins that are there    *)
(* already make it fail.                                                   *)
Load ==
  /\ Runs("load")
  /\ loads < MaxLoads /\ pinned = 0
  /\ loads' = loads + 1 /\ pinned' = loads + 1
  /\ UNCHANGED <<mapVars, kept>>

(* bpftool net attach, without "overwrite", of the pinned program. *)
Attach ==
  /\ Runs("attach")
  /\ pinned # 0 /\ attached[Command.key] = 0
  /\ attached' = [attached EXCEPT ![Command.key] = pinned]
  /\ UNCHANGED <<maps, loads, pinned, kept>>

(* bpftool map update of a pinned map. *)
UpdateIfindex ==
  /\ Runs("ifindex_map")
  /\ pinned # 0
  /\ maps' = [maps EXCEPT
       ![pinned].ifindex_map[Command.key] = IfIndex[Command.link]]
  /\ UNCHANGED <<attached, loads, pinned, kept>>

UpdateTxPort ==
  /\ Runs("tx_port")
  /\ pinned # 0
  /\ maps' = [maps EXCEPT
       ![pinned].tx_port[Command.key] = IfIndex[Command.link]]
  /\ UNCHANGED <<attached, loads, pinned, kept>>

UpdateMac ==
  /\ Runs("mac_map")
  /\ pinned # 0
  /\ maps' = [maps EXCEPT ![pinned].mac_map[Command.key] = Command.link]
  /\ UNCHANGED <<attached, loads, pinned, kept>>

(* The last command is done: the loader says SUCCESS. *)
Finish ==
  /\ script # "none"
  /\ line > Len(Commands[script])
  /\ script' = "none" /\ line' = 1
  /\ loaded' = (script = "load")
  /\ complete' = IF script = "load" THEN complete \cup {pinned} ELSE complete
  /\ UNCHANGED <<mapVars, progVars, loads, pinned, kept, ready>>

(* A command fails under "set -e", or the operator interrupts the script. *)
Fail ==
  /\ script # "none"
  /\ script' = "none" /\ line' = 1
  /\ UNCHANGED <<mapVars, progVars, loads, pinned, loaded, kept, complete, ready>>

Script ==
  \/ \E s \in {"load", "unload"} : Start(s)
  \/ StrayLine \/ Detach \/ DetachFails \/ Unpin \/ Load \/ Attach
  \/ UpdateIfindex \/ UpdateTxPort \/ UpdateMac
  \/ Finish \/ Fail

(* A frame is ready if it arrives on a port that runs a load of which the  *)
(* loader has said SUCCESS, however long ago.                              *)
Router ==
  /\ RouterStep
  /\ ready' = CASE at = "idle" -> load' \in complete
                [] at \in Verdict -> FALSE
                [] OTHER -> ready
  /\ UNCHANGED loaderVars

Next == Script \/ Router

Spec == Init /\ [][Next]_vars

-----------------------------------------------------------------------------
TypeOK ==
  /\ RouterTypeOK
  /\ script \in {"none", "load", "unload"}
  /\ line \in 1..(Len(LoadScript) + 1)
  /\ {loads, pinned} \subseteq 0..MaxLoads
  /\ loaded \in BOOLEAN /\ ready \in BOOLEAN
  /\ kept \subseteq Role /\ complete \subseteq 1..MaxLoads

(* However earlier scripts ended, two ports run programs of two loads,     *)
(* whose maps do not agree, only where a detach failed and was passed      *)
(* over: ports that were all detached when they were last asked to be      *)
(* agree.  And once the loader has said SUCCESS all ports run the one      *)
(* load whose maps are pinned: what a failed cleanup leaves behind is      *)
(* refused, not mixed in.                                                  *)
OneProgram ==
  /\ \A r, s \in Role \ kept : attached[r] # 0 /\ attached[s] # 0
                                 => attached[r] = attached[s]
  /\ loaded => \A r \in Role : attached[r] = pinned /\ pinned # 0

(* A load the loader has said SUCCESS of treats every frame as the policy  *)
(* says, to the letter: what it forwards is forwarded, with the addresses  *)
(* of the link it leaves on, and everything else is dropped.  That holds   *)
(* on each port for as long as the port runs the load: whatever scripts    *)
(* are started while the frame is in the program, and after a cleanup that *)
(* did not remove it from all the ports.                                   *)
ReadyObeysPolicy ==
  ready /\ at \in Verdict =>
    \E r \in Role :
      /\ ingress = IfIndex[r]
      /\ IF Egress(r, frame) = {} THEN at = "DROP"
         ELSE /\ at = "REDIRECT"
              /\ \E e \in Egress(r, frame) :
                   port = IfIndex[e] /\ (frame.ether = "ARP" \/ macs = e)
=============================================================================
