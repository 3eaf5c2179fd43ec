------------------------------ MODULE L7Router ------------------------------
(***************************************************************************)
(* xdp_l7_router.c: the program on the server's three ports that steers    *)
(* frames by ingress port and by destination port, and the three maps it   *)
(* reads.  Each load of the object makes maps of its own; a program that   *)
(* is inside a frame goes on with the maps it was loaded with.             *)
(*                                                                         *)
(* The program writes no map, so CPUs do not disturb one another: one is   *)
(* enough, and it may process a frame at any moment of the loader's        *)
(* (L7Loader), with a step for each map it reads.  Steps name the lines.   *)
(***************************************************************************)
EXTENDS Naturals

CONSTANTS
  IfIndex,   \* the interface index of each role's port
  Frame,     \* the frames that arrive
  MaxLoads   \* bound: how many times the object is loaded

Role == {"CLIENT", "F", "Z"}
Slot == {"TX_TO_F", "TX_TO_Z", "TX_TO_CLIENT"}

(***************************************************************************)
(* A frame as the program tells frames apart.  headers counts those that   *)
(* end before data_end: Ethernet, the fixed IPv4 header, all of the IPv4   *)
(* header (with an ihl of at least 5), and the UDP or TCP header.          *)
(***************************************************************************)
FrameType ==
  [headers : 0..4, ether : {"ARP", "IPv4", "other"},
   proto : {"ICMP", "UDP", "TCP", "other"},
   dport : {"53", "80", "443", "other"}]

ASSUME RouterConstantsOK ==
  /\ IfIndex \in [Role -> Nat \ {0}]
  /\ \A r, s \in Role : IfIndex[r] = IfIndex[s] => r = s
  /\ Frame \subseteq FrameType
  /\ MaxLoads \in Nat

VARIABLES
  maps,     \* the maps of each load: ifindex_map, mac_map and tx_port
  attached, \* the load whose program is attached to each port, or 0
  at,       \* where the program is, or the verdict it has returned
  load,     \* the load it belongs to
  ingress,  \* ctx->ingress_ifindex
  frame,    \* the frame
  roles,    \* client_if, f_if and z_if
  slot,     \* the transmit slot it has chosen
  macs,     \* the addresses in the frame: "own", "zero" or those of a link
  port      \* the interface it is redirected to, or 0

mapVars == <<maps, attached>>
frameVars == <<load, ingress, frame>>
progVars == <<at, frameVars, roles, slot, macs, port>>

NoFrame == [headers |-> 0, ether |-> "other", proto |-> "other", dport |-> "other"]

(* Array maps come zeroed, and a devmap's slots empty. *)
EmptyMaps ==
  [ifindex_map |-> [r \in Role |-> 0],
   mac_map     |-> [s \in Slot |-> "zero"],
   tx_port     |-> [s \in Slot |-> 0]]

Verdict == {"DROP", "ABORTED", "REDIRECT"}

-----------------------------------------------------------------------------
RouterInit ==
  /\ maps = [g \in 1..MaxLoads |-> EmptyMaps]
  /\ attached = [r \in Role |-> 0]
  /\ at = "idle"
  /\ load = 0 /\ ingress = 0 /\ frame = NoFrame
  /\ roles = [r \in Role |-> 0]
  /\ slot = "none" /\ macs = "own" /\ port = 0

(* The slot for an IPv4 frame of the client; "none" drops it. *)
ClientSlot(f) ==
  LET to(p, d) == f.headers = 4 /\ f.proto = p /\ f.dport = d
  IN  CASE f.proto = "ICMP"                                     -> "TX_TO_F"
        [] to("UDP", "53") \/ to("TCP", "443") \/ to("TCP", "53") -> "TX_TO_F"
        [] to("TCP", "80")                                        -> "TX_TO_Z"
        [] OTHER                                                  -> "none"

(* The slot for any frame, given the roles' interfaces that were read: a   *)
(* port no role is known for is neither F's, nor Z's, nor the client's.    *)
ChooseSlot ==
  CASE frame.ether = "ARP" /\ ingress = roles["CLIENT"] -> "TX_TO_F"
    [] frame.ether = "ARP" /\ ingress # roles["CLIENT"]
         /\ ingress = roles["F"]                        -> "TX_TO_CLIENT"
    [] frame.ether = "IPv4" /\ frame.headers >= 2
         /\ ingress = roles["F"]                        -> "TX_TO_CLIENT"
    [] frame.ether = "IPv4" /\ frame.headers >= 3
         /\ ingress # roles["F"] /\ ingress # roles["Z"]
         /\ ingress = roles["CLIENT"]                   -> ClientSlot(frame)
    [] OTHER                                            -> "none"

-----------------------------------------------------------------------------
(* A frame arrives on a port the program is attached to. *)
Receive ==
  /\ at = "idle"
  /\ \E r \in Role, f \in Frame :
       /\ attached[r] # 0
       /\ load' = attached[r]
       /\ ingress' = IfIndex[r]
       /\ frame' = f
       /\ at' = IF f.headers = 0 THEN "DROP" ELSE "CLIENT"
  /\ UNCHANGED <<mapVars, roles, slot, macs, port>>

(* get_role_ifindex, for one role after the other: the lookup in an array  *)
(* does not fail.                                                          *)
GetRole(r) ==
  /\ at = r
  /\ roles' = [roles EXCEPT ![r] = maps[load].ifindex_map[r]]
  /\ at' = [CLIENT |-> "F", F |-> "Z", Z |-> "choose"][r]
  /\ UNCHANGED <<mapVars, frameVars, slot, macs, port>>

(* ARP is redirected as it is, IPv4 with its addresses rewritten. *)
Choose ==
  /\ at = "choose"
  /\ slot' = ChooseSlot
  /\ at' = CASE ChooseSlot = "none"                            -> "DROP"
             [] ChooseSlot # "none" /\ frame.ether = "ARP"      -> "redirect"
             [] OTHER                                           -> "rewrite"
  /\ UNCHANGED <<mapVars, frameVars, roles, macs, port>>

(* set_eth_macs: again the lookup does not fail. *)
SetEthMacs ==
  /\ at = "rewrite"
  /\ macs' = maps[load].mac_map[slot]
  /\ at' = "redirect"
  /\ UNCHANGED <<mapVars, frameVars, roles, slot, port>>

(* bpf_redirect_map with flags 0: an empty slot gives XDP_ABORTED. *)
RedirectMap ==
  /\ at = "redirect"
  /\ port' = maps[load].tx_port[slot]
  /\ at' = IF port' = 0 THEN "ABORTED" ELSE "REDIRECT"
  /\ UNCHANGED <<mapVars, frameVars, roles, slot, macs>>

(* Mutant: the locals of one frame are left for the next. *)
LeaveLocals ==
  /\ at \in Verdict
  /\ at' = "idle"
  /\ UNCHANGED <<mapVars, frameVars, roles, slot, macs, port>>

(* The driver acts on the verdict, and the program's locals are gone. *)
Leave ==
  /\ at \in Verdict
  /\ at' = "idle"
  /\ load' = 0 /\ ingress' = 0 /\ frame' = NoFrame
  /\ roles' = [r \in Role |-> 0]
  /\ slot' = "none" /\ macs' = "own" /\ port' = 0
  /\ UNCHANGED mapVars

RouterStep ==
  \/ Receive
  \/ \E r \in Role : GetRole(r)
  \/ Choose
  \/ SetEthMacs
  \/ RedirectMap
  \/ Leave

-----------------------------------------------------------------------------
RouterTypeOK ==
  /\ maps \in [1..MaxLoads ->
       [ifindex_map : [Role -> Nat], mac_map : [Slot -> Role \cup {"zero"}],
        tx_port : [Slot -> Nat]]]
  /\ attached \in [Role -> 0..MaxLoads]
  /\ at \in {"idle", "CLIENT", "F", "Z", "choose", "rewrite", "redirect"}
            \cup Verdict
  /\ load \in 0..MaxLoads
  /\ at = "idle" <=> load = 0
  /\ ingress \in Nat
  /\ frame \in Frame \cup {NoFrame}
  /\ roles \in [Role -> Nat]
  /\ slot \in Slot \cup {"none"}
  /\ macs \in Role \cup {"own", "zero"}
  /\ port \in Nat
=============================================================================
