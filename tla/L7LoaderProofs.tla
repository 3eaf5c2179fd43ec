--------------------------- MODULE L7LoaderProofs ---------------------------
(***************************************************************************)
(* TypeOK, NeverMissteered, OneProgram and ReadyObeysPolicy for any        *)
(* interface indexes, frames and number of loads.                          *)
(*                                                                         *)
(* The policy holds at every step of the loader because of what a map may  *)
(* hold while it is being filled: at each place nothing, or what belongs   *)
(* there (MapsRight), so a role the program has read is unknown or right.  *)
(* The slot then fits the port the frame came in on (SlotChosen), whatever *)
(* has been filled in since.  Which ports agree follows from the places of *)
(* the commands: before the first attach every port has been detached, or  *)
(* a detach of it has failed, and then its attach is refused (Progress).   *)
(* That nothing the policy allows is dropped after SUCCESS needs more: by  *)
(* then every place is filled (Filled), no later script empties one, and   *)
(* so the frame meets complete maps all the way through the program        *)
(* (ReadyInv).                                                             *)
(***************************************************************************)
EXTENDS L7Loader, TLAPS, SequenceTheorems

(* The role at the end of a slot, by the comment at load_xdp_l7_router.sh, *)
(* lines 154 to 159.                                                       *)
EndOf == [s \in Slot |-> CASE s = "TX_TO_F" -> "F" [] s = "TX_TO_Z" -> "Z"
                           [] OTHER -> "CLIENT"]

(* What a command of the scripts may be. *)
Op == {"d", "detach", "unpin", "load", "attach", "ifindex_map", "tx_port",
       "mac_map"}

RightCommand ==
  {c \in [op : Op, key : Role \cup Slot \cup {"-"}, link : Role \cup {"-"}] :
     /\ c.op = "ifindex_map" => c.key \in Role /\ c.link = c.key
     /\ c.op \in {"tx_port", "mac_map"}
          => c.key \in Slot /\ c.link = EndOf[c.key]}

MapsRight ==
  /\ \A g \in 1..MaxLoads : \A r \in Role :
       maps[g].ifindex_map[r] \in {0, IfIndex[r]}
  /\ \A g \in 1..MaxLoads : \A s \in Slot :
       maps[g].tx_port[s] \in {0, IfIndex[EndOf[s]]}

MapType ==
  [ifindex_map : [Role -> Nat], mac_map : [Slot -> Role \cup {"zero"}],
   tx_port : [Slot -> Nat]]

(* The types of what the argument reads. *)
LoaderType ==
  /\ maps \in [1..MaxLoads -> MapType]
  /\ attached \in [Role -> 0..MaxLoads]
  /\ load \in 0..MaxLoads
  /\ script \in {"none", "load", "unload"}
  /\ line \in Nat \ {0}
  /\ loads \in 0..MaxLoads
  /\ pinned \in 0..MaxLoads
  /\ roles \in [Role -> Nat]

RolesRight == \A r \in Role : roles[r] \in {0, IfIndex[r]}

(* A frame is in the program. *)
FrameRight ==
  /\ at # "idle" => load # 0 /\ frame \in Frame
                    /\ \E r \in Role : ingress = IfIndex[r]
  /\ at \notin {"idle", "DROP"} => frame.headers # 0

SlotChosen ==
  /\ at \in {"rewrite", "redirect", "ABORTED", "REDIRECT"}
       => slot \in Slot /\ slot = ChooseSlot
  /\ at = "REDIRECT" => port = IfIndex[EndOf[slot]]

RInv == LoaderType /\ MapsRight /\ RolesRight /\ FrameRight /\ SlotChosen

-----------------------------------------------------------------------------
(* A role that is read as the port of the ingress is the ingress port's.   *)
LEMMA KnownRole ==
  ASSUME NEW r \in Role, NEW s \in Role, ingress = IfIndex[r],
         RolesRight, ingress = roles[s]
  PROVE  r = s
BY RouterConstantsOK DEF RolesRight

(* The class of a frame of the client that is given a slot. *)
LEMMA ClientClass ==
  ASSUME NEW f \in FrameType, f.ether = "IPv4", f.headers >= 3
  PROVE  /\ ClientSlot(f) = "TX_TO_F" =>
              \E c \in {"ICMP", "DNS", "HTTPS"} : c \in Class(f)
         /\ ClientSlot(f) = "TX_TO_Z" => "HTTP" \in Class(f)
         /\ ClientSlot(f) # "TX_TO_CLIENT"
<1>1. f.headers \in 0..4  BY DEF FrameType
<1>2. CASE f.proto = "ICMP"
  BY <1>1, <1>2 DEF ClientSlot, Class, IPv4
<1>3. CASE /\ f.proto # "ICMP" /\ f.headers = 4 /\ f.proto \in {"UDP", "TCP"}
           /\ f.dport = "53"
  BY <1>1, <1>3 DEF ClientSlot, Class, IPv4, L4
<1>4. CASE f.headers = 4 /\ f.proto = "TCP" /\ f.dport = "443"
  BY <1>1, <1>4 DEF ClientSlot, Class, IPv4, L4
<1>5. CASE f.headers = 4 /\ f.proto = "TCP" /\ f.dport = "80"
  BY <1>1, <1>5 DEF ClientSlot, Class, IPv4, L4
<1>6. CASE /\ f.proto # "ICMP"
           /\ ~(f.headers = 4 /\ f.proto \in {"UDP", "TCP"} /\ f.dport = "53")
           /\ ~(f.headers = 4 /\ f.proto = "TCP" /\ f.dport \in {"80", "443"})
  BY <1>6 DEF ClientSlot
<1> QED  BY <1>2, <1>3, <1>4, <1>5, <1>6

(* Roles that are unknown or right, and a slot chosen by them, send a      *)
(* frame that came in on a port where the policy does.                     *)
LEMMA ChosenByPolicy ==
  ASSUME NEW r \in Role, ingress = IfIndex[r], frame \in FrameType,
         frame.headers # 0, RolesRight, ChooseSlot \in Slot
  PROVE  EndOf[ChooseSlot] \in Egress(r, frame)
<1> DEFINE e == EndOf[ChooseSlot]
<1>1. SUFFICES \E c \in Class(frame) : <<r, c, e>> \in Policy
  BY DEF Egress, EndOf, Role, Slot
<1>2. CASE frame.ether = "ARP"
  <2>1. frame.headers >= 1 /\ "ARP" \in Class(frame)
    BY <1>2 DEF Class, FrameType
  <2>2. CASE ingress = roles["CLIENT"]
    <3>1. r = "CLIENT" /\ e = "F"
      BY <1>2, <2>2, KnownRole DEF ChooseSlot, EndOf, Role, Slot
    <3> QED  BY <1>1, <2>1, <3>1 DEF Policy
  <2>3. CASE ingress # roles["CLIENT"] /\ ingress = roles["F"]
    <3>1. r = "F" /\ e = "CLIENT"
      BY <1>2, <2>3, KnownRole DEF ChooseSlot, EndOf, Role, Slot
    <3> QED  BY <1>1, <2>1, <3>1 DEF Policy
  <2> QED  BY <1>2, <2>2, <2>3 DEF ChooseSlot, Slot
<1>3. CASE frame.ether # "ARP"
  <2>1. CASE frame.ether = "IPv4" /\ frame.headers >= 2 /\ ingress = roles["F"]
    <3>1. r = "F" /\ e = "CLIENT"
      BY <2>1, KnownRole DEF ChooseSlot, EndOf, Role, Slot
    <3>2. "IPv4" \in Class(frame)  BY <2>1 DEF Class, IPv4
    <3> QED  BY <1>1, <3>1, <3>2 DEF Policy
  <2>2. CASE /\ frame.ether = "IPv4" /\ frame.headers >= 3
             /\ ingress # roles["F"] /\ ingress = roles["CLIENT"]
             /\ ChooseSlot = ClientSlot(frame)
    <3>1. r = "CLIENT"  BY <2>2, KnownRole DEF Role
    <3>2. CASE ChooseSlot = "TX_TO_F"
      <4>1. e = "F"  BY <3>2 DEF EndOf, Slot
      <4> QED  BY <1>1, <2>2, <3>1, <3>2, <4>1, ClientClass DEF Policy
    <3>3. CASE ChooseSlot = "TX_TO_Z"
      <4>1. e = "Z"  BY <3>3 DEF EndOf, Slot
      <4> QED  BY <1>1, <2>2, <3>1, <3>3, <4>1, ClientClass DEF Policy
    <3> QED  BY <2>2, <3>2, <3>3, ClientClass DEF Slot
  <2> QED  BY <1>3, <2>1, <2>2 DEF ChooseSlot, Slot
<1> QED  BY <1>2, <1>3

-----------------------------------------------------------------------------
(* The parts of the loader between the cleanup and the fill. *)
Stray == <<Cmd("d", "-", "-")>>
LoadAttach ==
  <<Cmd("load", "-", "-"), Cmd("attach", "CLIENT", "CLIENT"),
    Cmd("attach", "F", "F"), Cmd("attach", "Z", "Z")>>

(* Every command of the scripts puts into a map what belongs there.        *)
LEMMA PartsRight ==
  /\ Stray \in Seq(RightCommand) /\ Cleanup \in Seq(RightCommand)
  /\ LoadAttach \in Seq(RightCommand) /\ Fill \in Seq(RightCommand)
<1>1. ASSUME NEW op \in Op, NEW key \in Role \cup Slot \cup {"-"},
             NEW link \in Role \cup {"-"}, op \notin {"ifindex_map", "tx_port", "mac_map"}
      PROVE  Cmd(op, key, link) \in RightCommand
  BY <1>1 DEF Cmd, RightCommand
<1>2. ASSUME NEW r \in Role
      PROVE  /\ Cmd("detach", r, r) \in RightCommand
             /\ Cmd("attach", r, r) \in RightCommand
             /\ Cmd("ifindex_map", r, r) \in RightCommand
  <2>1. Cmd("ifindex_map", r, r) \in RightCommand
    BY <1>2 DEF Cmd, RightCommand, Op, Role
  <2> QED  BY <1>1, <2>1 DEF Op
<1>3. ASSUME NEW t \in Slot, NEW e \in Role, e = EndOf[t]
      PROVE  /\ Cmd("tx_port", t, e) \in RightCommand
             /\ Cmd("mac_map", t, e) \in RightCommand
  BY <1>3 DEF Cmd, RightCommand, Op, Role, Slot
<1>4. /\ Cmd("d", "-", "-") \in RightCommand
      /\ Cmd("unpin", "-", "-") \in RightCommand
      /\ Cmd("load", "-", "-") \in RightCommand
  BY <1>1 DEF Op
<1>5. /\ Cmd("detach", "CLIENT", "CLIENT") \in RightCommand
      /\ Cmd("detach", "F", "F") \in RightCommand
      /\ Cmd("detach", "Z", "Z") \in RightCommand
      /\ Cmd("attach", "CLIENT", "CLIENT") \in RightCommand
      /\ Cmd("attach", "F", "F") \in RightCommand
      /\ Cmd("attach", "Z", "Z") \in RightCommand
      /\ Cmd("ifindex_map", "CLIENT", "CLIENT") \in RightCommand
      /\ Cmd("ifindex_map", "F", "F") \in RightCommand
      /\ Cmd("ifindex_map", "Z", "Z") \in RightCommand
  BY <1>2 DEF Role
<1>6. /\ Cmd("tx_port", "TX_TO_F", "F") \in RightCommand
      /\ Cmd("mac_map", "TX_TO_F", "F") \in RightCommand
      /\ Cmd("tx_port", "TX_TO_Z", "Z") \in RightCommand
      /\ Cmd("mac_map", "TX_TO_Z", "Z") \in RightCommand
      /\ Cmd("tx_port", "TX_TO_CLIENT", "CLIENT") \in RightCommand
      /\ Cmd("mac_map", "TX_TO_CLIENT", "CLIENT") \in RightCommand
  BY <1>3 DEF Role, Slot, EndOf
<1> HIDE DEF RightCommand, Cmd
<1>7. Cleanup \in Seq(RightCommand)  BY <1>4, <1>5 DEF Cleanup
<1>8. Fill \in Seq(RightCommand)     BY <1>5, <1>6 DEF Fill
<1>9. Stray \in Seq(RightCommand) /\ LoadAttach \in Seq(RightCommand)
  BY <1>4, <1>5 DEF Stray, LoadAttach
<1> QED  BY <1>7, <1>8, <1>9

LEMMA ScriptsRight ==
  ASSUME NEW s \in {"load", "unload"}, NEW i \in 1..Len(Commands[s])
  PROVE  Commands[s][i] \in RightCommand
<1>1. LoadScript \in Seq(RightCommand)
  BY PartsRight, ConcatProperties DEF LoadScript, Stray, LoadAttach
<1>2. Commands[s] \in Seq(RightCommand)
  BY <1>1, PartsRight DEF Commands
<1> QED  BY <1>2, ElementOfSeq

(* So does the next command of the script that runs. *)
LEMMA CommandRight ==
  ASSUME LoaderType, NEW op, Runs(op) PROVE Command \in RightCommand
<1>1. script \in {"load", "unload"} /\ line \in 1..Len(Commands[script])
  <2>1. script \in {"load", "unload"}  BY DEF LoaderType, Runs
  <2>2. Commands[script] \in {LoadScript, Cleanup}
    BY <2>1 DEF Commands
  <2>3. Len(LoadScript) \in Nat /\ Len(Cleanup) \in Nat
    BY ConcatProperties DEF LoadScript, Cleanup, Fill, Cmd
  <2> QED  BY <2>1, <2>2, <2>3 DEF LoaderType, Runs
<1> QED  BY <1>1, ScriptsRight DEF Command

-----------------------------------------------------------------------------
LEMMA InitRInv == Init => RInv
BY RouterConstantsOK DEF Init, RouterInit, RInv, LoaderType, MapType, EmptyMaps,
  MapsRight, RolesRight, FrameRight, SlotChosen

(* What the program holds is right as long as it is left alone. *)
LEMMA SameFrame ==
  ASSUME RInv, UNCHANGED progVars
  PROVE  RolesRight' /\ FrameRight' /\ SlotChosen' /\ load' = load /\ roles' = roles
BY DEF RInv, RolesRight, FrameRight, SlotChosen, ChooseSlot, progVars, frameVars

(* So are the types of what a command leaves alone. *)
LEMMA SameControl ==
  ASSUME LoaderType, maps' \in [1..MaxLoads -> MapType], UNCHANGED progVars,
         UNCHANGED <<attached, loads, pinned, script>>,
         line' = line \/ line' = line + 1
  PROVE  LoaderType'
BY DEF LoaderType, progVars, frameVars

(* The commands that fill a map keep it right. *)
LEMMA FillKeeps ==
  ASSUME RInv, UpdateIfindex \/ UpdateTxPort \/ UpdateMac PROVE RInv'
<1>1. LoaderType /\ MapsRight  BY DEF RInv
<1>2. pinned \in 1..MaxLoads
  BY <1>1 DEF LoaderType, UpdateIfindex, UpdateTxPort, UpdateMac
<1>3. CASE UpdateIfindex
  <2>1. Command \in RightCommand /\ Command.op = "ifindex_map"
    BY <1>1, <1>3, CommandRight DEF UpdateIfindex, Runs, Command
  <2>2. Command.key \in Role /\ Command.link = Command.key
    BY <2>1 DEF RightCommand
  <2>3. LoaderType'
    <3>1. maps' \in [1..MaxLoads -> MapType]
      <4> DEFINE m == [maps[pinned] EXCEPT
                          !.ifindex_map = [@ EXCEPT ![Command.key] = IfIndex[Command.link]]]
      <4>1. IfIndex[Command.link] \in Nat
        BY <2>2, RouterConstantsOK
      <4>2. maps[pinned] \in MapType
        BY <1>1, <1>2 DEF LoaderType
      <4>3. [maps[pinned].ifindex_map EXCEPT ![Command.key] = IfIndex[Command.link]]
              \in [Role -> Nat]
        BY <4>1, <4>2 DEF MapType
      <4>4. m \in MapType
        BY <4>2, <4>3 DEF MapType
      <4>5. maps' = [maps EXCEPT ![pinned] = m]
        BY <1>3 DEF UpdateIfindex
      <4> HIDE DEF m
      <4> QED  BY <1>1, <4>4, <4>5 DEF LoaderType
    <3> QED  BY <1>1, <1>3, <3>1, SameControl DEF UpdateIfindex, Runs
  <2>4. MapsRight'
    BY <1>1, <1>2, <1>3, <2>2 DEF UpdateIfindex, LoaderType, MapType, MapsRight
  <2> QED  BY <1>3, <2>3, <2>4, SameFrame DEF RInv, UpdateIfindex, Runs
<1>4. CASE UpdateTxPort
  <2>1. Command \in RightCommand /\ Command.op = "tx_port"
    BY <1>1, <1>4, CommandRight DEF UpdateTxPort, Runs, Command
  <2>2. Command.key \in Slot /\ Command.link = EndOf[Command.key]
        /\ Command.link \in Role
    BY <2>1 DEF RightCommand, EndOf, Role
  <2>3. LoaderType'
    <3>1. maps' \in [1..MaxLoads -> MapType]
      <4> DEFINE m == [maps[pinned] EXCEPT
                          !.tx_port = [@ EXCEPT ![Command.key] = IfIndex[Command.link]]]
      <4>1. IfIndex[Command.link] \in Nat
        BY <2>2, RouterConstantsOK
      <4>2. maps[pinned] \in MapType
        BY <1>1, <1>2 DEF LoaderType
      <4>3. [maps[pinned].tx_port EXCEPT ![Command.key] = IfIndex[Command.link]]
              \in [Slot -> Nat]
        BY <4>1, <4>2 DEF MapType
      <4>4. m \in MapType
        BY <4>2, <4>3 DEF MapType
      <4>5. maps' = [maps EXCEPT ![pinned] = m]
        BY <1>4 DEF UpdateTxPort
      <4> HIDE DEF m
      <4> QED  BY <1>1, <4>4, <4>5 DEF LoaderType
    <3> QED  BY <1>1, <1>4, <3>1, SameControl DEF UpdateTxPort, Runs
  <2>4. MapsRight'
    <3>1. \A g \in 1..MaxLoads : maps'[g].ifindex_map = maps[g].ifindex_map
      BY <1>1, <1>2, <1>4 DEF UpdateTxPort, LoaderType, MapType
    <3>2. ASSUME NEW g \in 1..MaxLoads, NEW s \in Slot
          PROVE  \/ maps'[g].tx_port[s] = maps[g].tx_port[s]
                 \/ s = Command.key /\ maps'[g].tx_port[s] = IfIndex[EndOf[s]]
      BY <1>1, <1>2, <1>4, <2>2 DEF UpdateTxPort, LoaderType, MapType
    <3> QED  BY <1>1, <3>1, <3>2 DEF MapsRight
  <2> QED  BY <1>4, <2>3, <2>4, SameFrame DEF RInv, UpdateTxPort, Runs
<1>5. CASE UpdateMac
  <2>1. Command \in RightCommand /\ Command.op = "mac_map"
    BY <1>1, <1>5, CommandRight DEF UpdateMac, Runs, Command
  <2>2. Command.key \in Slot /\ Command.link \in Role
    BY <2>1 DEF RightCommand, EndOf, Role
  <2>3. LoaderType'
    <3>1. maps' \in [1..MaxLoads -> MapType]
      <4> DEFINE m == [maps[pinned] EXCEPT
                          !.mac_map = [@ EXCEPT ![Command.key] = Command.link]]
      <4>1. Command.link \in Role \cup {"zero"}
        BY <2>2
      <4>2. maps[pinned] \in MapType
        BY <1>1, <1>2 DEF LoaderType
      <4>3. [maps[pinned].mac_map EXCEPT ![Command.key] = Command.link]
              \in [Slot -> Role \cup {"zero"}]
        BY <4>1, <4>2 DEF MapType
      <4>4. m \in MapType
        BY <4>2, <4>3 DEF MapType
      <4>5. maps' = [maps EXCEPT ![pinned] = m]
        BY <1>5 DEF UpdateMac
      <4> HIDE DEF m
      <4> QED  BY <1>1, <4>4, <4>5 DEF LoaderType
    <3> QED  BY <1>1, <1>5, <3>1, SameControl DEF UpdateMac, Runs
  <2>4. MapsRight'
    BY <1>1, <1>2, <1>5, <2>2 DEF UpdateMac, LoaderType, MapType, MapsRight
  <2> QED  BY <1>5, <2>3, <2>4, SameFrame DEF RInv, UpdateMac, Runs
<1> QED  BY <1>3, <1>4, <1>5

(* The other steps of the scripts change no map, and not the frame. *)
LEMMA ScriptKeeps ==
  ASSUME RInv, Script, ~(UpdateIfindex \/ UpdateTxPort \/ UpdateMac)
  PROVE  RInv'
<1>1. UNCHANGED progVars /\ maps' = maps
  BY DEF Script, Start, StrayLine, Detach, DetachFails, Unpin, Load, Attach, Finish, Fail,
    Runs, mapVars
<1>2. LoaderType  BY DEF RInv
<1>3. load' = load /\ roles' = roles  BY <1>1, SameFrame
<1>4. maps' \in [1..MaxLoads -> MapType]  BY <1>1, <1>2 DEF LoaderType
<1>5. ASSUME NEW s \in {"load", "unload"}, Start(s) PROVE LoaderType'
  BY <1>1, <1>2, <1>3, <1>5 DEF LoaderType, Start, mapVars
<1>6. ASSUME StrayLine PROVE LoaderType'
  BY <1>1, <1>2, <1>4, <1>6, SameControl DEF StrayLine, Runs, mapVars
<1>7. ASSUME Detach PROVE LoaderType'
  <2>1. attached' \in [Role -> 0..MaxLoads]
    <3>1. 0 \in 0..MaxLoads  BY RouterConstantsOK
    <3> QED  BY <1>2, <1>7, <3>1 DEF LoaderType, Detach
  <2> QED
    BY <1>2, <1>3, <1>4, <1>7, <2>1 DEF LoaderType, Detach, Runs
<1>8. ASSUME Unpin PROVE LoaderType'
  <2>1. pinned' \in 0..MaxLoads
    BY <1>2, <1>8, RouterConstantsOK DEF LoaderType, Unpin
  <2> QED
    BY <1>2, <1>3, <1>4, <1>8, <2>1 DEF LoaderType, Unpin, Runs, mapVars
<1>9. ASSUME Load PROVE LoaderType'
  BY <1>2, <1>3, <1>4, <1>9, RouterConstantsOK DEF LoaderType, Load, Runs, mapVars
<1>10. ASSUME Attach PROVE LoaderType'
  <2>1. attached' \in [Role -> 0..MaxLoads]
    BY <1>2, <1>10 DEF LoaderType, Attach
  <2> QED
    BY <1>2, <1>3, <1>4, <1>10, <2>1 DEF LoaderType, Attach, Runs
<1>11. ASSUME Finish \/ Fail PROVE LoaderType'
  BY <1>2, <1>3, <1>4, <1>11 DEF LoaderType, Finish, Fail, mapVars
<1>12. ASSUME DetachFails PROVE LoaderType'
  BY <1>2, <1>4, <1>12, SameControl DEF DetachFails, Runs, mapVars
<1>13. LoaderType'
  BY <1>5, <1>6, <1>7, <1>8, <1>9, <1>10, <1>11, <1>12 DEF Script
<1> QED  BY <1>1, <1>13, SameFrame DEF RInv, MapsRight

(* The steps of the program. *)
LEMMA RouterKeeps ==
  ASSUME RInv, Router PROVE RInv'
<1> USE DEF RInv
<1>1. UNCHANGED <<mapVars, script, line, loads, pinned>>
  BY DEF Router, RouterStep, Receive, GetRole, Choose, SetEthMacs, RedirectMap,
    Leave, loaderVars
<1>2. MapsRight'  BY <1>1 DEF MapsRight, mapVars
<1>3. ASSUME load' \in 0..MaxLoads, roles' \in [Role -> Nat] PROVE LoaderType'
  BY <1>1, <1>3 DEF LoaderType, mapVars
<1>4. ASSUME Receive PROVE RInv'
  <2>1. PICK r \in Role, f \in Frame :
          /\ attached[r] # 0 /\ load' = attached[r] /\ ingress' = IfIndex[r]
          /\ frame' = f
          /\ at' = IF f.headers = 0 THEN "DROP" ELSE "CLIENT"
    BY <1>4 DEF Receive
  <2>2. LoaderType'
    BY <1>3, <1>4, <2>1 DEF LoaderType, Receive
  <2>3. RolesRight'  BY <1>4 DEF RolesRight, Receive
  <2>4. FrameRight'  BY <2>1 DEF FrameRight
  <2>5. SlotChosen'  BY <2>1 DEF SlotChosen
  <2> QED  BY <1>2, <2>2, <2>3, <2>4, <2>5
<1>5. ASSUME NEW r \in Role, GetRole(r) PROVE RInv'
  <2>1. load \in 1..MaxLoads
    BY <1>5 DEF GetRole, FrameRight, LoaderType, Role
  <2>2. maps[load].ifindex_map[r] \in Nat \cap {0, IfIndex[r]}
    BY <2>1, RouterConstantsOK DEF MapsRight
  <2>3. LoaderType'
    BY <1>3, <1>5, <2>2 DEF LoaderType, GetRole, frameVars
  <2>4. RolesRight'
    BY <1>5, <2>2 DEF RolesRight, GetRole, LoaderType
  <2>5. at' \in {"F", "Z", "choose"} /\ at \notin {"idle", "DROP"}
    BY <1>5 DEF GetRole, Role
  <2>6. FrameRight'  BY <1>5, <2>5 DEF FrameRight, GetRole, frameVars
  <2>7. SlotChosen'  BY <2>5 DEF SlotChosen
  <2> QED  BY <1>2, <2>3, <2>4, <2>6, <2>7
<1>6. ASSUME Choose PROVE RInv'
  <2>1. LoaderType' /\ RolesRight'
    BY <1>3, <1>6 DEF LoaderType, RolesRight, Choose, frameVars
  <2>2. FrameRight'
    BY <1>6 DEF FrameRight, Choose, frameVars
  <2>3. SlotChosen'
    <3>1. ChooseSlot' = ChooseSlot
      BY <1>6 DEF ChooseSlot, Choose, frameVars
    <3>2. ChooseSlot \in Slot \cup {"none"}
      BY DEF ChooseSlot, ClientSlot, Slot
    <3>3. slot' = ChooseSlot  BY <1>6 DEF Choose
    <3>4. CASE ChooseSlot = "none"
      <4>1. at' = "DROP"  BY <1>6, <3>4 DEF Choose
      <4> QED  BY <4>1 DEF SlotChosen
    <3>5. CASE ChooseSlot # "none"
      <4>1. at' \in {"redirect", "rewrite"}  BY <1>6, <3>5 DEF Choose
      <4> QED  BY <3>1, <3>2, <3>3, <3>5, <4>1 DEF SlotChosen
    <3> QED  BY <3>4, <3>5
  <2> QED  BY <1>2, <2>1, <2>2, <2>3
<1>7. ASSUME SetEthMacs PROVE RInv'
  <2>1. LoaderType' /\ RolesRight'
    BY <1>3, <1>7 DEF LoaderType, RolesRight, SetEthMacs, frameVars
  <2>2. FrameRight'  BY <1>7 DEF FrameRight, SetEthMacs, frameVars
  <2>3. SlotChosen'
    BY <1>7 DEF SlotChosen, ChooseSlot, SetEthMacs, frameVars
  <2> QED  BY <1>2, <2>1, <2>2, <2>3
<1>8. ASSUME RedirectMap PROVE RInv'
  <2>1. LoaderType' /\ RolesRight'
    BY <1>3, <1>8 DEF LoaderType, RolesRight, RedirectMap, frameVars
  <2>2. FrameRight'  BY <1>8 DEF FrameRight, RedirectMap, frameVars
  <2>3. load \in 1..MaxLoads /\ slot \in Slot
    BY <1>8 DEF RedirectMap, FrameRight, LoaderType, SlotChosen
  <2>4. maps[load].tx_port[slot] \in {0, IfIndex[EndOf[slot]]}
    BY <2>3 DEF MapsRight
  <2>5. SlotChosen'
    <3>1. slot' = slot /\ slot = ChooseSlot /\ ChooseSlot' = ChooseSlot
      BY <1>8 DEF SlotChosen, ChooseSlot, RedirectMap, frameVars
    <3>2. at' = "REDIRECT" => port' = IfIndex[EndOf[slot]]
      BY <1>8, <2>4 DEF RedirectMap
    <3> QED  BY <2>3, <3>1, <3>2 DEF SlotChosen
  <2> QED  BY <1>2, <2>1, <2>2, <2>5
<1>9. ASSUME Leave PROVE RInv'
  <2>1. LoaderType'
    <3>1. load' \in 0..MaxLoads /\ roles' \in [Role -> Nat]
      BY <1>9, RouterConstantsOK DEF Leave
    <3> QED  BY <1>3, <3>1
  <2>2. RolesRight' /\ FrameRight' /\ SlotChosen'
    BY <1>9 DEF RolesRight, FrameRight, SlotChosen, Leave
  <2> QED  BY <1>2, <2>1, <2>2
<1> QED
  BY <1>4, <1>5, <1>6, <1>7, <1>8, <1>9 DEF Router, RouterStep

LEMMA NextRInv == RInv /\ [Next]_vars => RInv'
<1> SUFFICES ASSUME RInv, [Next]_vars PROVE RInv'  OBVIOUS
<1>1. CASE UNCHANGED vars
  <2>1. UNCHANGED <<progVars, maps, attached, script, line, loads, pinned>>
    BY <1>1 DEF vars, mapVars, loaderVars
  <2>2. LoaderType' /\ MapsRight'
    BY <2>1, SameFrame DEF RInv, LoaderType, MapsRight
  <2> QED  BY <2>1, <2>2, SameFrame DEF RInv
<1>2. CASE Next
  BY <1>2, FillKeeps, ScriptKeeps, RouterKeeps DEF Next
<1> QED  BY <1>1, <1>2

-----------------------------------------------------------------------------
(* Whatever the loader has or has not done yet, a frame that is redirected *)
(* goes where the policy sends it (xdp_l7_router.c:342-807 over maps that  *)
(* are being filled).                                                      *)
THEOREM Steers == Spec => []NeverMissteered
<1>1. RInv => NeverMissteered
  <2>1. SUFFICES ASSUME RInv, at = "REDIRECT" PROVE NeverMissteered
    BY DEF NeverMissteered
  <2>2. PICK r \in Role : ingress = IfIndex[r]
    BY <2>1 DEF RInv, FrameRight
  <2>3. frame \in FrameType /\ frame.headers # 0
    BY <2>1, RouterConstantsOK DEF RInv, FrameRight
  <2>4. slot \in Slot /\ slot = ChooseSlot /\ port = IfIndex[EndOf[slot]]
    BY <2>1 DEF RInv, SlotChosen
  <2>5. EndOf[slot] \in Egress(r, frame)
    BY <2>1, <2>2, <2>3, <2>4, ChosenByPolicy DEF RInv
  <2>6. EndOf[slot] \in Role  BY <2>5 DEF Egress
  <2> QED  BY <2>2, <2>4, <2>5, <2>6 DEF NeverMissteered
<1> QED  BY <1>1, InitRInv, NextRInv, PTL DEF Spec

-----------------------------------------------------------------------------
Fills == {"ifindex_map", "tx_port", "mac_map"}

(* The commands of the loader, by place. *)
LEMMA LoadTable ==
  /\ Len(LoadScript) = 21
  /\ LoadScript[1] = Cmd("d", "-", "-")
  /\ LoadScript[2] = Cmd("detach", "CLIENT", "CLIENT")
  /\ LoadScript[3] = Cmd("detach", "F", "F")
  /\ LoadScript[4] = Cmd("detach", "Z", "Z")
  /\ LoadScript[5] = Cmd("detach", "CLIENT", "CLIENT")
  /\ LoadScript[6] = Cmd("detach", "F", "F")
  /\ LoadScript[7] = Cmd("detach", "Z", "Z")
  /\ LoadScript[8] = Cmd("unpin", "-", "-")
  /\ LoadScript[9] = Cmd("load", "-", "-")
  /\ LoadScript[10] = Cmd("attach", "CLIENT", "CLIENT")
  /\ LoadScript[11] = Cmd("attach", "F", "F")
  /\ LoadScript[12] = Cmd("attach", "Z", "Z")
  /\ \A i \in 13..21 : LoadScript[i].op \in Fills
<1>1. ASSUME NEW i \in 13..21 PROVE LoadScript[i].op \in Fills
  BY DEF LoadScript, Cleanup, Fill, Fills, Cmd
<1> QED  BY <1>1 DEF LoadScript, Cleanup, Fill

(* The place of each role among the detaches and among the attaches. *)
Place == [r \in Role |-> CASE r = "CLIENT" -> 1 [] r = "F" -> 2 [] OTHER -> 3]

(* Where the loader has got to says what is attached.  A port it has tried *)
(* to detach runs nothing or was left behind; a port it has attached runs  *)
(* what is pinned, and was not left behind; and ports that were not left   *)
(* behind run, if anything, the same load.                                 *)
KeptAttached == \A r \in kept : r \in Role /\ attached[r] # 0

Agree == \A r, s \in Role \ kept : attached[r] # 0 /\ attached[s] # 0
                                     => attached[r] = attached[s]

AllPinned == \A r \in Role : attached[r] = pinned /\ pinned # 0

(* What the place of the loader says of one port. *)
PortProgress(r) ==
  script = "load" =>
    /\ line \in (Place[r] + 5)..(Place[r] + 9) /\ attached[r] # 0 => r \in kept
    /\ line > Place[r] + 9 => attached[r] = pinned /\ pinned # 0

Progress ==
  /\ \A r \in Role : PortProgress(r)
  /\ loaded => script = "none" /\ AllPinned

PInv == RInv /\ KeptAttached /\ Agree /\ Progress

(* What the next command is, by the place the script has got to. *)
LEMMA CommandAt ==
  ASSUME LoaderType, NEW op, Runs(op)
  PROVE  /\ op = Command.op
         /\ script = "unload" => op \in {"detach", "unpin"}
         /\ script = "load" =>
              /\ line \in 1..21
              /\ op = "unpin" => line = 8
              /\ op = "load" => line = 9
              /\ \A r \in Role :
                   /\ line \in {Place[r] + 1, Place[r] + 4}
                        <=> op = "detach" /\ Command.key = r
                   /\ line = Place[r] + 9
                        <=> op = "attach" /\ Command.key = r
         /\ op \in {"detach", "attach"} => Command.key \in Role
<1>1. op = Command.op  BY DEF Runs, Command
<1>2. CASE script = "unload"
  <2>1. line \in 1..7 /\ Command = Cleanup[line]
    <3>1. Len(Cleanup) = 7  BY DEF Cleanup
    <3>2. Commands["unload"] = Cleanup  BY DEF Commands
    <3>3. Commands[script] = Cleanup  BY <1>2, <3>2
    <3>4. Command = Cleanup[line]  BY <3>3 DEF Command
    <3>5. line \in Nat \ {0} /\ line <= Len(Cleanup)
      BY <3>3 DEF Runs, LoaderType
    <3> QED  BY <3>1, <3>4, <3>5
  <2>2. CASE line \in 1..6
    BY <1>1, <1>2, <2>1, <2>2 DEF Cleanup, Cmd, Role
  <2>3. CASE line = 7
    BY <1>1, <1>2, <2>1, <2>3 DEF Cleanup, Cmd, Role
  <2> QED  BY <2>1, <2>2, <2>3
<1>3. CASE script = "load"
  <2>1. line \in 1..21 /\ Command = LoadScript[line]
    <3>1. Commands["load"] = LoadScript  BY DEF Commands
    <3>2. Commands[script] = LoadScript  BY <1>3, <3>1
    <3>3. Command = LoadScript[line]  BY <3>2 DEF Command
    <3>4. line \in Nat \ {0} /\ line <= Len(LoadScript)
      BY <3>2 DEF Runs, LoaderType
    <3>5. Len(LoadScript) = 21  BY LoadTable
    <3> QED  BY <3>3, <3>4, <3>5
  <2>2. CASE line \in 1..4
    BY <1>1, <1>3, <2>1, <2>2, LoadTable DEF Cmd, Place, Role
  <2>3. CASE line \in 5..8
    BY <1>1, <1>3, <2>1, <2>3, LoadTable DEF Cmd, Place, Role
  <2>4. CASE line \in 9..12
    BY <1>1, <1>3, <2>1, <2>4, LoadTable DEF Cmd, Place, Role
  <2>5. CASE line \in 13..21
    BY <1>1, <1>3, <2>1, <2>5, LoadTable DEF Fills, Place, Role
  <2> QED  BY <2>1, <2>2, <2>3, <2>4, <2>5
<1>4. script \in {"load", "unload"}  BY DEF LoaderType, Runs
<1> QED  BY <1>1, <1>2, <1>3, <1>4

LEMMA PlaceType == \A r \in Role : Place[r] \in 1..3
BY DEF Place, Role

LEMMA InitPInv == Init => PInv
<1> SUFFICES ASSUME Init PROVE PInv  OBVIOUS
<1>1. RInv  BY InitRInv
<1>2. KeptAttached /\ Agree /\ Progress
  BY DEF Init, RouterInit, KeptAttached, Agree, Progress, PortProgress
<1> QED  BY <1>1, <1>2 DEF PInv

(* What the argument asks of the ports. *)
Ports == KeptAttached /\ Agree /\ Progress

(* Inside a script a command is carried out. *)
LEMMA InScript ==
  ASSUME PInv, NEW op, Runs(op)
  PROVE  /\ script \in {"load", "unload"} /\ script' = script
         /\ line \in Nat /\ line' = line + 1 /\ ~loaded /\ ~loaded'
BY DEF PInv, RInv, LoaderType, Progress, Runs

(* A detach clears the port whose turn it is. *)
LEMMA DetachPlace ==
  ASSUME PInv, Detach PROVE Ports'
<1>1. LoaderType /\ \A r \in Role : PortProgress(r)
  BY DEF PInv, RInv, Progress
<1>2. Runs("detach") /\ pinned' = pinned  BY DEF Detach
<1>3. /\ script \in {"load", "unload"} /\ script' = script
      /\ line \in Nat /\ line' = line + 1 /\ ~loaded'
  BY <1>2, InScript
<1>4. PICK k \in Role : k = Command.key  BY <1>1, <1>2, CommandAt
<1>5. attached' = [attached EXCEPT ![k] = 0] /\ kept' = kept \ {k}
  BY <1>4 DEF Detach
<1>6. \A r \in Role : attached'[r] = IF r = k THEN 0 ELSE attached[r]
  BY <1>1, <1>5 DEF LoaderType
<1>7. KeptAttached' /\ Agree'
  BY <1>5, <1>6 DEF KeptAttached, Agree, PInv
<1>8. ASSUME NEW r \in Role PROVE PortProgress(r)'
  <2>1. Place[r] \in 1..3 /\ PortProgress(r)  BY <1>1, PlaceType
  <2>2. CASE r = k
    <3>1. attached'[r] = 0  BY <1>6, <2>2
    <3>2. script = "load" => line \in {Place[r] + 1, Place[r] + 4}
      BY <1>1, <1>2, <1>4, <2>2, CommandAt
    <3> QED  BY <1>3, <2>1, <3>1, <3>2 DEF PortProgress
  <2>3. CASE r # k
    <3>1. attached'[r] = attached[r] /\ (r \in kept' <=> r \in kept)
      BY <1>5, <1>6, <2>3
    <3>2. script = "load" =>
            line \notin {Place[r] + 1, Place[r] + 4, Place[r] + 9}
      BY <1>1, <1>2, <1>4, <2>3, CommandAt
    <3> QED  BY <1>2, <1>3, <2>1, <3>1, <3>2 DEF PortProgress
  <2> QED  BY <2>2, <2>3
<1> QED  BY <1>3, <1>7, <1>8 DEF Ports, Progress

(* One that fails leaves the port behind. *)
LEMMA KeepPlace ==
  ASSUME PInv, DetachFails PROVE Ports'
<1>1. LoaderType /\ \A r \in Role : PortProgress(r)
  BY DEF PInv, RInv, Progress
<1>2. /\ Runs("detach") /\ pinned' = pinned /\ attached' = attached
      /\ attached[Command.key] # 0
  BY DEF DetachFails, mapVars
<1>3. /\ script \in {"load", "unload"} /\ script' = script
      /\ line \in Nat /\ line' = line + 1 /\ ~loaded'
  BY <1>2, InScript
<1>4. PICK k \in Role : k = Command.key  BY <1>1, <1>2, CommandAt
<1>5. kept' = kept \cup {k}  BY <1>4 DEF DetachFails
<1>6. KeptAttached' /\ Agree'
  BY <1>2, <1>4, <1>5 DEF KeptAttached, Agree, PInv
<1>7. ASSUME NEW r \in Role PROVE PortProgress(r)'
  <2>1. Place[r] \in 1..3 /\ PortProgress(r)  BY <1>1, PlaceType
  <2>2. CASE r = k
    <3>1. r \in kept'  BY <1>5, <2>2
    <3>2. script = "load" => line \in {Place[r] + 1, Place[r] + 4}
      BY <1>1, <1>2, <1>4, <2>2, CommandAt
    <3> QED  BY <1>3, <2>1, <3>1, <3>2 DEF PortProgress
  <2>3. CASE r # k
    <3>1. attached'[r] = attached[r] /\ (r \in kept' <=> r \in kept)
      BY <1>2, <1>5, <2>3
    <3>2. script = "load" =>
            line \notin {Place[r] + 1, Place[r] + 4, Place[r] + 9}
      BY <1>1, <1>2, <1>4, <2>3, CommandAt
    <3> QED  BY <1>2, <1>3, <2>1, <3>1, <3>2 DEF PortProgress
  <2> QED  BY <2>2, <2>3
<1> QED  BY <1>3, <1>6, <1>7 DEF Ports, Progress

(* An attach is of the port whose turn it is, if it runs nothing, after    *)
(* all were cleared or left behind.                                        *)
LEMMA AttachPlace ==
  ASSUME PInv, Attach PROVE Ports'
<1>1. LoaderType /\ KeptAttached /\ \A r \in Role : PortProgress(r)
  BY DEF PInv, RInv, Progress
<1>2. /\ Runs("attach") /\ pinned' = pinned /\ pinned # 0 /\ kept' = kept
      /\ attached[Command.key] = 0
  BY DEF Attach
<1>3. /\ script \in {"load", "unload"} /\ script' = script
      /\ line \in Nat /\ line' = line + 1 /\ ~loaded'
  BY <1>2, InScript
<1>4. PICK k \in Role : k = Command.key  BY <1>1, <1>2, CommandAt
<1>5. attached' = [attached EXCEPT ![k] = pinned] /\ k \notin kept
  BY <1>1, <1>2, <1>4 DEF Attach, KeptAttached
<1>6. \A r \in Role : attached'[r] = IF r = k THEN pinned ELSE attached[r]
  BY <1>1, <1>5 DEF LoaderType
<1>7. script = "load"  BY <1>1, <1>2, <1>3, CommandAt
<1>8. line = Place[k] + 9  BY <1>1, <1>2, <1>4, <1>7, CommandAt
<1>9. ASSUME NEW r \in Role
      PROVE  (r \notin kept => attached'[r] \in {0, pinned}) /\ PortProgress(r)'
  <2>1. Place[r] \in 1..3 /\ Place[k] \in 1..3 /\ PortProgress(r)
    BY <1>1, PlaceType
  <2>2. CASE r = k
    <3>1. attached'[r] = pinned  BY <1>6, <2>2
    <3> QED  BY <1>2, <1>3, <1>7, <1>8, <2>1, <2>2, <3>1 DEF PortProgress
  <2>3. CASE r # k
    <3>1. attached'[r] = attached[r]  BY <1>6, <2>3
    <3>2. line \notin {Place[r] + 9, Place[r] + 1, Place[r] + 4}
      BY <1>1, <1>2, <1>4, <1>7, <2>3, CommandAt
    <3>3. r \notin kept => attached[r] \in {0, pinned}
      BY <1>7, <1>8, <2>1 DEF PortProgress
    <3> QED  BY <1>2, <1>3, <1>7, <2>1, <3>1, <3>2, <3>3 DEF PortProgress
  <2> QED  BY <2>2, <2>3
<1>10. Agree'  BY <1>2, <1>9 DEF Agree
<1>11. KeptAttached'  BY <1>1, <1>2, <1>5, <1>6 DEF KeptAttached
<1> QED  BY <1>3, <1>9, <1>10, <1>11 DEF Ports, Progress

(* The other commands touch no port; those that change the pins come       *)
(* after the last detach and before the first attach.                      *)
LEMMA OtherPlace ==
  ASSUME PInv,
         StrayLine \/ Unpin \/ Load \/ UpdateIfindex \/ UpdateTxPort \/ UpdateMac
  PROVE  Ports'
<1>1. LoaderType /\ \A r \in Role : PortProgress(r)
  BY DEF PInv, RInv, Progress
<1>2. PICK op \in Fills \cup {"d", "unpin", "load"} :
        Runs(op) /\ (op \notin {"unpin", "load"} => pinned' = pinned)
  BY DEF StrayLine, Unpin, Load, UpdateIfindex, UpdateTxPort, UpdateMac, Fills
<1>3. /\ script \in {"load", "unload"} /\ script' = script
      /\ line \in Nat /\ line' = line + 1 /\ ~loaded'
  BY <1>2, InScript
<1>4. attached' = attached /\ kept' = kept
  BY DEF StrayLine, Unpin, Load, UpdateIfindex, UpdateTxPort, UpdateMac, mapVars
<1>5. KeptAttached' /\ Agree'  BY <1>4 DEF KeptAttached, Agree, PInv
<1>6. ASSUME NEW r \in Role PROVE PortProgress(r)'
  <2>1. Place[r] \in 1..3 /\ PortProgress(r)  BY <1>1, PlaceType
  <2>2. op \notin {"detach", "attach"}  BY <1>2 DEF Fills
  <2>3. script = "load" =>
          /\ line \notin {Place[r] + 1, Place[r] + 4, Place[r] + 9}
          /\ op \in {"unpin", "load"} => line \in 8..9
    BY <1>1, <1>2, <2>2, CommandAt
  <2> QED  BY <1>2, <1>3, <1>4, <2>1, <2>3 DEF PortProgress
<1> QED  BY <1>3, <1>5, <1>6 DEF Ports, Progress

(* A loader that has come to its end has attached all ports. *)
LEMMA AtEnd ==
  ASSUME PInv, Finish, script = "load"
  PROVE  AllPinned /\ line \in Nat /\ line > 21
<1>1. Commands[script] = LoadScript  BY DEF Commands
<1>2. line \in Nat /\ line > 21
  BY <1>1, LoadTable DEF Finish, PInv, RInv, LoaderType
<1>3. ASSUME NEW r \in Role PROVE attached[r] = pinned /\ pinned # 0
  <2>1. Place[r] \in 1..3 /\ PortProgress(r)
    BY PlaceType DEF PInv, Progress
  <2> QED  BY <1>2, <2>1 DEF PortProgress
<1> QED  BY <1>2, <1>3 DEF AllPinned

LEMMA NextPInv == PInv /\ [Next]_vars => PInv'
<1> SUFFICES ASSUME PInv, [Next]_vars PROVE PInv'  OBVIOUS
<1>1. RInv'  BY NextRInv DEF PInv
<1>2. ASSUME UNCHANGED <<attached, pinned, kept, loaded, script, line>>
      PROVE  Ports'
  BY <1>2 DEF PInv, Ports, KeptAttached, Agree, Progress, PortProgress, AllPinned
<1>3. CASE UNCHANGED vars \/ Router
  <2>1. UNCHANGED <<attached, pinned, kept, loaded, script, line>>
    BY <1>3 DEF vars, mapVars, loaderVars, Router, RouterStep, Receive,
      GetRole, Choose, SetEthMacs, RedirectMap, Leave
  <2> QED  BY <1>1, <1>2, <2>1 DEF PInv, Ports
<1>4. ASSUME NEW s \in {"load", "unload"}, Start(s) PROVE Ports'
  <2>1. UNCHANGED <<attached, pinned, kept>> /\ ~loaded' /\ line' = 1
    BY <1>4 DEF Start, mapVars
  <2>2. KeptAttached' /\ Agree'  BY <2>1 DEF KeptAttached, Agree, PInv
  <2>3. \A r \in Role : PortProgress(r)'
    BY <2>1, PlaceType DEF PortProgress
  <2> QED  BY <2>1, <2>2, <2>3 DEF Ports, Progress
<1>5. ASSUME Finish PROVE Ports'
  <2>1. UNCHANGED <<attached, pinned, kept>> /\ script' = "none"
        /\ loaded' = (script = "load")
    BY <1>5 DEF Finish, mapVars
  <2>2. script = "load" => AllPinned  BY <1>5, AtEnd
  <2>3. KeptAttached' /\ Agree'  BY <2>1 DEF KeptAttached, Agree, PInv
  <2> QED  BY <2>1, <2>2, <2>3 DEF Ports, Progress, PortProgress, AllPinned
<1>6. ASSUME Fail PROVE Ports'
  BY <1>6 DEF Fail, mapVars, PInv, Ports, KeptAttached, Agree, Progress,
    PortProgress
<1>7. CASE Script
  BY <1>1, <1>4, <1>5, <1>6, <1>7, DetachPlace, KeepPlace, AttachPlace,
    OtherPlace
  DEF Script, PInv, Ports
<1> QED  BY <1>3, <1>7 DEF Next

(* However earlier scripts ended, two ports run programs of two loads only *)
(* where a detach failed and was passed over, and once the loader has said *)
(* SUCCESS all ports run the one whose maps are pinned                     *)
(* (load_xdp_l7_router.sh:89-138, unload_xdp_l7_router.sh:10-17).          *)
THEOREM RunsOneProgram == Spec => []OneProgram
<1>1. PInv => OneProgram
  BY DEF PInv, Agree, Progress, AllPinned, OneProgram
<1> QED  BY <1>1, InitPInv, NextPInv, PTL DEF Spec

-----------------------------------------------------------------------------
(* What a frame meets in a load the loader has said SUCCESS of: maps that  *)
(* are complete, and that no later script makes incomplete again: those of *)
(* its load are either left alone or filled with what they hold already.   *)

(* What the command c was to write is in the pinned maps. *)
Done(c) ==
  /\ pinned # 0
  /\ c.op = "ifindex_map" => maps[pinned].ifindex_map[c.key] = IfIndex[c.link]
  /\ c.op = "tx_port" => maps[pinned].tx_port[c.key] = IfIndex[c.link]
  /\ c.op = "mac_map" => maps[pinned].mac_map[c.key] = c.link

Full(g) ==
  /\ \A r \in Role : maps[g].ifindex_map[r] = IfIndex[r]
  /\ \A s \in Slot : /\ maps[g].tx_port[s] = IfIndex[EndOf[s]]
                     /\ maps[g].mac_map[s] = EndOf[s]

Filled ==
  /\ script = "load" => \A i \in 13..21 : i < line => Done(LoadScript[i])
  /\ \A g \in complete : g \in 1..MaxLoads /\ Full(g)

(* The steps before a role is read. *)
Unread == [r \in Role |-> CASE r = "CLIENT" -> {"CLIENT"}
                            [] r = "F" -> {"CLIENT", "F"}
                            [] OTHER -> {"CLIENT", "F", "Z"}]

(* A frame in such a load, all the way through the program. *)
ReadyInv ==
  ready =>
    /\ at \notin {"idle", "ABORTED"} /\ Full(load)
    /\ frame.headers # 0 =>
         \A r \in Role : at \notin Unread[r] => roles[r] = IfIndex[r]
    /\ at = "DROP" => frame.headers = 0 \/ ChooseSlot = "none"
    /\ at \in {"redirect", "REDIRECT"} => frame.ether = "ARP" \/ macs = EndOf[slot]

(* The inductive invariant. *)
VInv == PInv /\ TypeOK /\ Filled /\ ReadyInv

LEMMA FillTable ==
  /\ LoadScript[13] = Cmd("ifindex_map", "CLIENT", "CLIENT")
  /\ LoadScript[14] = Cmd("ifindex_map", "F", "F")
  /\ LoadScript[15] = Cmd("ifindex_map", "Z", "Z")
  /\ LoadScript[16] = Cmd("tx_port", "TX_TO_F", "F")
  /\ LoadScript[17] = Cmd("tx_port", "TX_TO_Z", "Z")
  /\ LoadScript[18] = Cmd("tx_port", "TX_TO_CLIENT", "CLIENT")
  /\ LoadScript[19] = Cmd("mac_map", "TX_TO_F", "F")
  /\ LoadScript[20] = Cmd("mac_map", "TX_TO_Z", "Z")
  /\ LoadScript[21] = Cmd("mac_map", "TX_TO_CLIENT", "CLIENT")
BY DEF LoadScript, Cleanup, Fill

(* The nine commands of the fill are all there is to fill. *)
LEMMA FillIsFull ==
  ASSUME \A i \in 13..21 : Done(LoadScript[i])
  PROVE  Full(pinned)
<1>1. /\ Done(LoadScript[13]) /\ Done(LoadScript[14]) /\ Done(LoadScript[15])
      /\ Done(LoadScript[16]) /\ Done(LoadScript[17]) /\ Done(LoadScript[18])
      /\ Done(LoadScript[19]) /\ Done(LoadScript[20]) /\ Done(LoadScript[21])
  OBVIOUS
<1>2. \A r \in Role : maps[pinned].ifindex_map[r] = IfIndex[r]
  <2>1. /\ maps[pinned].ifindex_map["CLIENT"] = IfIndex["CLIENT"]
        /\ maps[pinned].ifindex_map["F"] = IfIndex["F"]
        /\ maps[pinned].ifindex_map["Z"] = IfIndex["Z"]
    BY <1>1, FillTable DEF Done, Cmd
  <2> QED  BY <2>1 DEF Role
<1>3. /\ EndOf["TX_TO_F"] = "F" /\ EndOf["TX_TO_Z"] = "Z"
      /\ EndOf["TX_TO_CLIENT"] = "CLIENT"
  BY DEF EndOf, Slot
<1>4. \A s \in Slot : maps[pinned].tx_port[s] = IfIndex[EndOf[s]]
  <2>1. /\ maps[pinned].tx_port["TX_TO_F"] = IfIndex["F"]
        /\ maps[pinned].tx_port["TX_TO_Z"] = IfIndex["Z"]
        /\ maps[pinned].tx_port["TX_TO_CLIENT"] = IfIndex["CLIENT"]
    BY <1>1, FillTable DEF Done, Cmd
  <2> QED  BY <1>3, <2>1 DEF Slot
<1>5. \A s \in Slot : maps[pinned].mac_map[s] = EndOf[s]
  <2>1. /\ maps[pinned].mac_map["TX_TO_F"] = "F"
        /\ maps[pinned].mac_map["TX_TO_Z"] = "Z"
        /\ maps[pinned].mac_map["TX_TO_CLIENT"] = "CLIENT"
    BY <1>1, FillTable DEF Done, Cmd
  <2> QED  BY <1>3, <2>1 DEF Slot
<1> QED  BY <1>2, <1>4, <1>5 DEF Full

(* What an update writes, and what it leaves as it was. *)
LEMMA UpdateWrites ==
  ASSUME RInv, UpdateIfindex \/ UpdateTxPort \/ UpdateMac
  PROVE  /\ pinned \in 1..MaxLoads /\ pinned' = pinned
         /\ Command \in RightCommand
         /\ \A g \in 1..MaxLoads :
              /\ \A r \in Role : maps'[g].ifindex_map[r] =
                   IF g = pinned /\ Command.op = "ifindex_map"
                        /\ r = Command.key
                   THEN IfIndex[r] ELSE maps[g].ifindex_map[r]
              /\ \A s \in Slot : maps'[g].tx_port[s] =
                   IF g = pinned /\ Command.op = "tx_port" /\ s = Command.key
                   THEN IfIndex[EndOf[s]] ELSE maps[g].tx_port[s]
              /\ \A s \in Slot : maps'[g].mac_map[s] =
                   IF g = pinned /\ Command.op = "mac_map" /\ s = Command.key
                   THEN EndOf[s] ELSE maps[g].mac_map[s]
<1>1. LoaderType /\ maps \in [1..MaxLoads -> MapType]
  BY DEF RInv, LoaderType
<1>2. pinned \in 1..MaxLoads /\ pinned' = pinned
  BY <1>1 DEF LoaderType, UpdateIfindex, UpdateTxPort, UpdateMac
<1>3. CASE UpdateIfindex
  <2>1. Command \in RightCommand /\ Command.op = "ifindex_map"
    BY <1>1, <1>3, CommandRight DEF UpdateIfindex, Runs, Command
  <2>2. Command.key \in Role /\ Command.link = Command.key
    BY <2>1 DEF RightCommand
  <2>3. maps' = [maps EXCEPT
          ![pinned].ifindex_map[Command.key] = IfIndex[Command.link]]
    BY <1>3 DEF UpdateIfindex
  <2> HIDE DEF Command
  <2> QED  BY <1>1, <1>2, <2>1, <2>2, <2>3 DEF MapType
<1>4. CASE UpdateTxPort
  <2>1. Command \in RightCommand /\ Command.op = "tx_port"
    BY <1>1, <1>4, CommandRight DEF UpdateTxPort, Runs, Command
  <2>2. Command.key \in Slot /\ Command.link = EndOf[Command.key]
    BY <2>1 DEF RightCommand
  <2>3. maps' = [maps EXCEPT
          ![pinned].tx_port[Command.key] = IfIndex[Command.link]]
    BY <1>4 DEF UpdateTxPort
  <2> HIDE DEF Command
  <2> QED  BY <1>1, <1>2, <2>1, <2>2, <2>3 DEF MapType
<1>5. CASE UpdateMac
  <2>1. Command \in RightCommand /\ Command.op = "mac_map"
    BY <1>1, <1>5, CommandRight DEF UpdateMac, Runs, Command
  <2>2. Command.key \in Slot /\ Command.link = EndOf[Command.key]
    BY <2>1 DEF RightCommand
  <2>3. maps' = [maps EXCEPT ![pinned].mac_map[Command.key] = Command.link]
    BY <1>5 DEF UpdateMac
  <2> HIDE DEF Command
  <2> QED  BY <1>1, <1>2, <2>1, <2>2, <2>3 DEF MapType
<1> QED  BY <1>3, <1>4, <1>5

(* Maps that are complete stay complete. *)
LEMMA UpdateFull ==
  ASSUME RInv, UpdateIfindex \/ UpdateTxPort \/ UpdateMac,
         NEW g \in 1..MaxLoads, Full(g)
  PROVE  Full(g)'
BY UpdateWrites DEF Full

(* An update does what its command says, and undoes no other's. *)
LEMMA UpdateDone ==
  ASSUME RInv, UpdateIfindex \/ UpdateTxPort \/ UpdateMac,
         NEW c \in RightCommand, Done(c) \/ c = Command
  PROVE  Done(c)'
<1>1. pinned \in 1..MaxLoads /\ pinned' = pinned  BY UpdateWrites
<1>2. c.op = "ifindex_map" => c.key \in Role /\ c.link = c.key
  BY DEF RightCommand
<1>3. c.op \in {"tx_port", "mac_map"}
        => c.key \in Slot /\ c.link = EndOf[c.key]
  BY DEF RightCommand
<1>4. c.op = "ifindex_map"
        => maps'[pinned].ifindex_map[c.key] = IfIndex[c.link]
  BY <1>1, <1>2, UpdateWrites DEF Done
<1>5. c.op = "tx_port" => maps'[pinned].tx_port[c.key] = IfIndex[c.link]
  BY <1>1, <1>3, UpdateWrites DEF Done
<1>6. c.op = "mac_map" => maps'[pinned].mac_map[c.key] = c.link
  BY <1>1, <1>3, UpdateWrites DEF Done
<1> QED  BY <1>1, <1>4, <1>5, <1>6 DEF Done

(* The next command of the loader. *)
LEMMA LoadCommand ==
  ASSUME LoaderType, NEW op, Runs(op), script = "load"
  PROVE  /\ line \in 1..21 /\ Command = LoadScript[line] /\ Command.op = op
         /\ op \notin Fills => line \in 1..12
<1>1. Commands["load"] = LoadScript  BY DEF Commands
<1>2. line \in 1..21 /\ Command = LoadScript[line] /\ Command.op = op
  BY <1>1, LoadTable DEF Runs, Command, LoaderType
<1> QED  BY <1>2, LoadTable

LEMMA UpdateFilled ==
  ASSUME PInv, Filled, UpdateIfindex \/ UpdateTxPort \/ UpdateMac
  PROVE  Filled'
<1>1. PICK op \in Fills : Runs(op)
  BY DEF UpdateIfindex, UpdateTxPort, UpdateMac, Fills
<1>2. script' = script /\ line \in Nat /\ line' = line + 1 /\ ~loaded'
  BY <1>1, InScript
<1>3. ASSUME script = "load", NEW i \in 13..21, i < line'
      PROVE  Done(LoadScript[i])'
  <2>1. Command = LoadScript[line]
    BY <1>1, <1>3, LoadCommand DEF PInv, RInv
  <2>2. LoadScript[i] \in RightCommand
    <3>1. Commands["load"] = LoadScript  BY DEF Commands
    <3>2. i \in 1..Len(Commands["load"])  BY <3>1, LoadTable
    <3>3. Commands["load"][i] \in RightCommand  BY <3>2, ScriptsRight
    <3> QED  BY <3>1, <3>3
  <2>3. Done(LoadScript[i]) \/ LoadScript[i] = Command
    BY <1>2, <1>3, <2>1 DEF Filled
  <2>4. PICK c \in RightCommand : c = LoadScript[i]  BY <2>2
  <2>5. Done(c)'  BY <2>3, <2>4, UpdateDone DEF PInv
  <2> QED  BY <2>4, <2>5 DEF Done
<1>4. ASSUME NEW g \in complete PROVE g \in 1..MaxLoads /\ Full(g)'
  BY <1>4, UpdateFull DEF Filled, PInv
<1>5. complete' = complete  BY <1>1 DEF Runs
<1> QED  BY <1>2, <1>3, <1>4, <1>5 DEF Filled

(* The commands before the fill. *)
LEMMA EarlyFilled ==
  ASSUME PInv, Filled,
         StrayLine \/ Detach \/ DetachFails \/ Unpin \/ Load \/ Attach
  PROVE  Filled'
<1>1. PICK op \in {"d", "detach", "unpin", "load", "attach"} : Runs(op)
  BY DEF StrayLine, Detach, DetachFails, Unpin, Load, Attach
<1>2. script' = script /\ line \in Nat /\ line' = line + 1
  BY <1>1, InScript
<1>3. script = "load" => line \in 1..12
  BY <1>1, LoadCommand DEF PInv, RInv, Fills
<1>4. complete' = complete  BY <1>1 DEF Runs
<1>5. maps' = maps
  BY DEF StrayLine, Detach, DetachFails, Unpin, Load, Attach, mapVars
<1>6. \A g \in complete' : g \in 1..MaxLoads /\ Full(g)'
  BY <1>4, <1>5 DEF Filled, Full
<1> QED  BY <1>2, <1>3, <1>6 DEF Filled

LEMMA NextFilled == ASSUME PInv, Filled, [Next]_vars PROVE Filled'
<1>1. CASE Router \/ Fail \/ UNCHANGED vars
  <2>1. /\ UNCHANGED <<maps, pinned, complete>>
        /\ script' = "none" \/ UNCHANGED <<script, line>>
    BY <1>1 DEF vars, mapVars, loaderVars, Fail, Router, RouterStep, Receive,
      GetRole, Choose, SetEthMacs, RedirectMap, Leave
  <2> QED  BY <2>1 DEF Filled, Done, Full
<1>2. ASSUME NEW s \in {"load", "unload"}, Start(s) PROVE Filled'
  <2>1. UNCHANGED <<maps, complete>> /\ line' = 1
    BY <1>2 DEF Start, mapVars
  <2> QED  BY <2>1 DEF Filled, Full
<1>3. CASE Finish
  <2>1. /\ UNCHANGED <<maps, pinned>> /\ script' = "none"
        /\ complete' = IF script = "load" THEN complete \cup {pinned} ELSE complete
    BY <1>3 DEF Finish, mapVars
  <2>2. ASSUME script = "load" PROVE pinned \in 1..MaxLoads /\ Full(pinned)
    <3>1. AllPinned /\ line \in Nat /\ line > 21  BY <1>3, <2>2, AtEnd
    <3>2. pinned \in 1..MaxLoads
      BY <3>1 DEF AllPinned, Role, PInv, RInv, LoaderType
    <3> QED  BY <2>2, <3>1, <3>2, FillIsFull DEF Filled
  <2>3. \A g \in complete' : g \in 1..MaxLoads /\ Full(g)
    BY <2>1, <2>2 DEF Filled
  <2> QED  BY <2>1, <2>3 DEF Filled, Full
<1> QED
  BY <1>1, <1>2, <1>3, UpdateFilled, EarlyFilled DEF Next, Script

-----------------------------------------------------------------------------
(* The types of what LoaderType leaves out. *)
ProgramType ==
  /\ at \in {"idle", "CLIENT", "F", "Z", "choose", "rewrite", "redirect"}
            \cup Verdict
  /\ at = "idle" <=> load = 0
  /\ ingress \in Nat
  /\ frame \in Frame \cup {NoFrame}
  /\ slot \in Slot \cup {"none"}
  /\ macs \in Role \cup {"own", "zero"}
  /\ port \in Nat

ControlType ==
  /\ line <= 22 /\ loaded \in BOOLEAN /\ ready \in BOOLEAN
  /\ kept \subseteq Role /\ complete \subseteq 1..MaxLoads

LEMMA TypeParts == LoaderType => (TypeOK <=> ProgramType /\ ControlType)
<1> SUFFICES ASSUME LoaderType PROVE TypeOK <=> ProgramType /\ ControlType
  OBVIOUS
<1>1. line \in 1..(Len(LoadScript) + 1) <=> line <= 22
  <2>1. Len(LoadScript) = 21  BY LoadTable
  <2>2. line \in Nat \ {0}  BY DEF LoaderType
  <2> QED  BY <2>1, <2>2
<1>2. {loads, pinned} \subseteq 0..MaxLoads  BY DEF LoaderType
<1>3. RouterTypeOK <=> ProgramType
  BY DEF RouterTypeOK, ProgramType, LoaderType, MapType
<1> QED  BY <1>1, <1>2, <1>3 DEF TypeOK, ControlType, LoaderType

LEMMA ProgramTypeKept ==
  ASSUME RInv, ProgramType, [Next]_vars PROVE ProgramType'
<1>1. CASE UNCHANGED progVars
  BY <1>1 DEF ProgramType, progVars, frameVars
<1>2. ASSUME Receive PROVE ProgramType'
  <2>1. PICK r \in Role, f \in Frame :
          /\ attached[r] # 0 /\ load' = attached[r] /\ ingress' = IfIndex[r]
          /\ frame' = f
          /\ at' = IF f.headers = 0 THEN "DROP" ELSE "CLIENT"
    BY <1>2 DEF Receive
  <2> QED
    BY <1>2, <2>1, RouterConstantsOK DEF ProgramType, Receive, Verdict
<1>3. ASSUME NEW r \in Role, GetRole(r) PROVE ProgramType'
  <2>1. at' \in {"F", "Z", "choose"} /\ at # "idle"
    BY <1>3 DEF GetRole, Role
  <2> QED  BY <1>3, <2>1 DEF ProgramType, GetRole, frameVars
<1>4. ASSUME Choose PROVE ProgramType'
  <2>1. at' \in {"DROP", "redirect", "rewrite"} /\ at # "idle"
    BY <1>4 DEF Choose
  <2>2. slot' \in Slot \cup {"none"}
    BY <1>4 DEF Choose, ChooseSlot, ClientSlot, Slot
  <2> QED  BY <1>4, <2>1, <2>2 DEF ProgramType, Choose, frameVars, Verdict
<1>5. ASSUME SetEthMacs PROVE ProgramType'
  <2>1. load \in 1..MaxLoads /\ slot \in Slot /\ maps[load] \in MapType
    BY <1>5 DEF SetEthMacs, RInv, FrameRight, LoaderType, SlotChosen
  <2>2. macs' \in Role \cup {"zero"}
    BY <1>5, <2>1 DEF SetEthMacs, MapType
  <2> QED  BY <1>5, <2>2 DEF ProgramType, SetEthMacs, frameVars
<1>6. ASSUME RedirectMap PROVE ProgramType'
  <2>1. load \in 1..MaxLoads /\ slot \in Slot /\ maps[load] \in MapType
    BY <1>6 DEF RedirectMap, RInv, FrameRight, LoaderType, SlotChosen
  <2>2. port' \in Nat
    BY <1>6, <2>1 DEF RedirectMap, MapType
  <2> QED  BY <1>6, <2>2 DEF ProgramType, RedirectMap, frameVars, Verdict
<1>7. ASSUME Leave PROVE ProgramType'
  BY <1>7 DEF ProgramType, Leave
<1>8. CASE Script
  BY <1>1, <1>8 DEF Script, Start, StrayLine, Detach, DetachFails, Unpin, Load, Attach,
    UpdateIfindex, UpdateTxPort, UpdateMac, Finish, Fail, Runs
<1>9. CASE Router
  BY <1>2, <1>3, <1>4, <1>5, <1>6, <1>7, <1>9 DEF Router, RouterStep
<1> QED  BY <1>1, <1>8, <1>9 DEF Next, vars

LEMMA ControlTypeKept ==
  ASSUME PInv, ControlType, [Next]_vars PROVE ControlType'
<1> USE DEF ControlType
<1>1. LoaderType  BY DEF PInv, RInv
<1>2. ASSUME NEW op, Runs(op), kept' \subseteq Role PROVE ControlType'
  <2>1. script \in {"load", "unload"} /\ line \in Nat /\ line' = line + 1
        /\ UNCHANGED <<loaded, complete, ready>>
    BY <1>1, <1>2 DEF LoaderType, Runs
  <2>2. line \in 1..21
    <3>1. CASE script = "load"
      BY <1>1, <1>2, <3>1, CommandAt
    <3>2. CASE script = "unload"
      <4>1. Commands[script] = Cleanup  BY <3>2 DEF Commands
      <4>2. Len(Cleanup) = 7  BY DEF Cleanup
      <4> QED  BY <1>1, <1>2, <4>1, <4>2 DEF Runs, LoaderType
    <3> QED  BY <2>1, <3>1, <3>2
  <2> QED  BY <1>2, <2>1, <2>2
<1>3. CASE StrayLine \/ Unpin \/ Load \/ Attach
           \/ UpdateIfindex \/ UpdateTxPort \/ UpdateMac
  BY <1>2, <1>3 DEF StrayLine, Unpin, Load, Attach, UpdateIfindex,
    UpdateTxPort, UpdateMac
<1>4. CASE Detach \/ DetachFails
  <2>1. Runs("detach")  BY <1>4 DEF Detach, DetachFails
  <2>2. Command.key \in Role  BY <1>1, <2>1, CommandAt
  <2>3. kept' \subseteq Role  BY <1>4, <2>2 DEF Detach, DetachFails
  <2> QED  BY <1>2, <2>1, <2>3
<1>5. ASSUME NEW s \in {"load", "unload"}, Start(s) PROVE ControlType'
  <2>1. line' = 1 /\ loaded' = FALSE /\ UNCHANGED <<ready, kept, complete>>
    BY <1>5 DEF Start
  <2>2. loaded' \in BOOLEAN /\ ready' \in BOOLEAN
    BY <2>1, Zenon
  <2>3. line' <= 22  BY <2>1
  <2> QED  BY <2>1, <2>2, <2>3
<1>6. CASE Finish \/ Fail
  <2>1. /\ line' = 1 /\ UNCHANGED <<ready, kept>>
        /\ loaded' = loaded \/ loaded' = (script = "load")
    BY <1>6 DEF Finish, Fail
  <2>2. loaded' \in BOOLEAN
    <3>1. (script = "load") \in BOOLEAN  OBVIOUS
    <3> QED  BY <2>1, <3>1, Zenon
  <2>3. complete' \subseteq 1..MaxLoads
    <3>1. CASE complete' = complete
      BY <3>1
    <3>2. CASE complete' # complete
      <4>1. Finish /\ script = "load" /\ complete' = complete \cup {pinned}
        BY <1>6, <3>2 DEF Finish, Fail
      <4>2. pinned # 0  BY <4>1, AtEnd DEF AllPinned, Role
      <4> QED  BY <1>1, <4>1, <4>2 DEF LoaderType
    <3> QED  BY <3>1, <3>2
  <2>4. line' <= 22  BY <2>1
  <2> QED  BY <2>1, <2>2, <2>3, <2>4
<1>7. CASE UNCHANGED vars
  BY <1>7 DEF vars, loaderVars
<1>8. CASE Router
  <2>1. UNCHANGED <<line, loaded, kept, complete>>
    BY <1>8 DEF Router, loaderVars
  <2>2. ready' = CASE at = "idle" -> load' \in complete
                   [] at \in Verdict -> FALSE
                   [] OTHER -> ready
    BY <1>8 DEF Router
  <2>3. (load' \in complete) \in BOOLEAN  OBVIOUS
  <2>4. ready' \in BOOLEAN  BY <2>2, <2>3, Zenon
  <2> QED  BY <2>1, <2>4
<1> QED  BY <1>3, <1>4, <1>5, <1>6, <1>7, <1>8 DEF Next, Script

-----------------------------------------------------------------------------
LEMMA EndOfRole == ASSUME NEW s \in Slot PROVE EndOf[s] \in Role
BY DEF EndOf, Role, Slot

(* A script does not reach a frame, and leaves its maps complete. *)
LEMMA ScriptReady ==
  ASSUME PInv, ReadyInv, Script PROVE ReadyInv'
<1>1. UNCHANGED <<progVars, ready>>
  BY DEF Script, Start, StrayLine, Detach, DetachFails, Unpin, Load, Attach, UpdateIfindex,
    UpdateTxPort, UpdateMac, Finish, Fail, Runs
<1>2. ready => Full(load)'
  <2>1. SUFFICES ASSUME ready PROVE Full(load)'
    OBVIOUS
  <2>2. load' = load /\ Full(load)
    BY <1>1, <2>1 DEF ReadyInv, progVars, frameVars
  <2>3. CASE UpdateIfindex \/ UpdateTxPort \/ UpdateMac
    <3>1. PICK g \in 1..MaxLoads : g = load
      BY <2>1 DEF PInv, RInv, ReadyInv, FrameRight, LoaderType
    <3>2. Full(g)'  BY <2>2, <2>3, <3>1, UpdateFull DEF PInv
    <3> QED  BY <2>2, <3>1, <3>2 DEF Full
  <2>4. CASE ~(UpdateIfindex \/ UpdateTxPort \/ UpdateMac)
    <3>1. maps' = maps
      BY <2>4 DEF Script, Start, StrayLine, Detach, DetachFails, Unpin, Load, Attach,
        Finish, Fail, Runs, mapVars
    <3> QED  BY <2>2, <3>1 DEF Full
  <2> QED  BY <2>3, <2>4
<1>3. ChooseSlot' = ChooseSlot
  BY <1>1 DEF ChooseSlot, progVars, frameVars
<1> QED  BY <1>1, <1>2, <1>3 DEF ReadyInv, progVars, frameVars

(* A frame that arrives in a load that was completed meets complete maps.  *)
LEMMA ReceiveReady ==
  ASSUME PInv, Filled, Receive, ready' = (load' \in complete) PROVE ReadyInv'
<1>1. SUFFICES ASSUME load' \in complete PROVE ReadyInv'
  BY DEF ReadyInv
<1>2. PICK r \in Role, f \in Frame :
        /\ attached[r] # 0 /\ load' = attached[r] /\ ingress' = IfIndex[r]
        /\ frame' = f
        /\ at' = IF f.headers = 0 THEN "DROP" ELSE "CLIENT"
  BY DEF Receive
<1>3. maps' = maps  BY DEF Receive, mapVars
<1>4. PICK g \in complete : g = load'  BY <1>1
<1>5. Full(load)'  BY <1>3, <1>4 DEF Filled, Full
<1>6. frame'.headers # 0 => at' = "CLIENT"  BY <1>2
<1>7. at' \in {"DROP", "CLIENT"} /\ (at' = "DROP" => frame'.headers = 0)
  BY <1>2
<1>8. \A s \in Role : "CLIENT" \in Unread[s]
  BY DEF Unread, Role
<1> QED  BY <1>5, <1>6, <1>7, <1>8 DEF ReadyInv

(* It reads roles, slots and addresses that belong together. *)
LEMMA RoleReady ==
  ASSUME PInv, ReadyInv, NEW r \in Role, GetRole(r), ready' = ready
  PROVE  ReadyInv'
<1>1. SUFFICES ASSUME ready PROVE ReadyInv'
  BY DEF ReadyInv
<1>2. UNCHANGED <<maps, load, frame, macs, slot>> /\ at = r
  BY DEF GetRole, mapVars, frameVars
<1>3. Full(load) /\ Full(load)'
  BY <1>1, <1>2 DEF ReadyInv, Full
<1>4. roles' = [roles EXCEPT ![r] = IfIndex[r]]
  BY <1>3 DEF GetRole, Full
<1>5. at' = [CLIENT |-> "F", F |-> "Z", Z |-> "choose"][r]
  BY DEF GetRole
<1>6. at' \in {"F", "Z", "choose"}  BY <1>5 DEF Role
<1>7. ASSUME NEW s \in Role, at' \notin Unread[s], frame.headers # 0
      PROVE  roles'[s] = IfIndex[s]
  <2>1. roles \in [Role -> Nat]  BY DEF PInv, RInv, LoaderType
  <2>2. CASE s = r
    BY <1>4, <2>1, <2>2
  <2>3. CASE s # r
    <3>1. r \notin Unread[s]  BY <1>5, <1>7, <2>3 DEF Unread, Role
    <3>2. roles[s] = IfIndex[s]  BY <1>1, <1>2, <1>7, <3>1 DEF ReadyInv
    <3> QED  BY <1>4, <2>1, <2>3, <3>2
  <2> QED  BY <2>2, <2>3
<1> QED  BY <1>2, <1>3, <1>6, <1>7 DEF ReadyInv

LEMMA StepReady ==
  ASSUME PInv, ReadyInv, Choose \/ SetEthMacs \/ RedirectMap, ready' = ready
  PROVE  ReadyInv'
<1>1. SUFFICES ASSUME ready PROVE ReadyInv'
  BY DEF ReadyInv
<1>2. UNCHANGED <<maps, load, frame, ingress, roles>>
  BY DEF Choose, SetEthMacs, RedirectMap, mapVars, frameVars
<1>3. Full(load) /\ Full(load)' /\ ChooseSlot' = ChooseSlot
  BY <1>1, <1>2 DEF ReadyInv, Full, ChooseSlot
<1>4. at \in {"choose", "rewrite", "redirect"}
  BY DEF Choose, SetEthMacs, RedirectMap
<1>5. frame.headers # 0 /\ load \in 1..MaxLoads
  BY <1>4 DEF PInv, RInv, FrameRight, LoaderType
<1>6. \A r \in Role : roles[r] = IfIndex[r]
  BY <1>1, <1>4, <1>5 DEF ReadyInv, Unread, Role
<1>7. CASE Choose
  <2>1. /\ at' \in {"DROP", "redirect", "rewrite"}
        /\ at' = "DROP" => ChooseSlot = "none"
        /\ at' = "redirect" => frame.ether = "ARP"
    BY <1>7 DEF Choose
  <2> QED  BY <1>2, <1>3, <1>6, <2>1 DEF ReadyInv
<1>8. CASE SetEthMacs
  <2>1. slot \in Slot /\ at' = "redirect" /\ slot' = slot
    BY <1>8 DEF SetEthMacs, PInv, RInv, SlotChosen
  <2>2. macs' = EndOf[slot]  BY <1>3, <1>8, <2>1 DEF SetEthMacs, Full
  <2> QED  BY <1>2, <1>3, <1>6, <2>1, <2>2 DEF ReadyInv
<1>9. CASE RedirectMap
  <2>1. slot \in Slot /\ UNCHANGED <<slot, macs>> /\ at = "redirect"
    BY <1>9 DEF RedirectMap, PInv, RInv, SlotChosen
  <2>2. port' # 0
    <3>1. port' = IfIndex[EndOf[slot]]
      BY <1>3, <1>9, <2>1 DEF RedirectMap, Full
    <3> QED  BY <2>1, <3>1, EndOfRole, RouterConstantsOK
  <2>3. at' = "REDIRECT"  BY <1>9, <2>2 DEF RedirectMap
  <2> QED  BY <1>1, <1>2, <1>3, <1>6, <2>1, <2>3 DEF ReadyInv
<1> QED  BY <1>7, <1>8, <1>9

LEMMA NextReady == ASSUME VInv, [Next]_vars PROVE ReadyInv'
<1> USE DEF VInv
<1>1. CASE UNCHANGED vars
  <2>1. UNCHANGED <<progVars, ready, maps>>
    BY <1>1 DEF vars, mapVars
  <2>2. UNCHANGED <<at, load, ingress, frame, roles, slot, macs, ready, maps>>
    BY <2>1 DEF progVars, frameVars
  <2>3. ChooseSlot' = ChooseSlot  BY <2>2 DEF ChooseSlot
  <2> QED  BY <2>2, <2>3 DEF ReadyInv, Full
<1>2. CASE Script
  BY <1>2, ScriptReady
<1>3. CASE Router
  <2>1. ready' = CASE at = "idle" -> load' \in complete
                   [] at \in Verdict -> FALSE
                   [] OTHER -> ready
    BY <1>3 DEF Router
  <2>2. CASE Receive
    <3>1. at = "idle" /\ "idle" \notin Verdict
      BY <2>2 DEF Receive, Verdict
    <3>2. ready' = (load' \in complete)  BY <2>1, <3>1
    <3> QED  BY <2>2, <3>2, ReceiveReady
  <2>3. ASSUME NEW r \in Role, GetRole(r) PROVE ReadyInv'
    <3>1. at \notin Verdict \cup {"idle"}
      BY <2>3 DEF GetRole, Role, Verdict
    <3>2. ready' = ready  BY <2>1, <3>1
    <3> QED  BY <2>3, <3>2, RoleReady
  <2>4. CASE Choose \/ SetEthMacs \/ RedirectMap
    <3>1. at \notin Verdict \cup {"idle"}
      BY <2>4 DEF Choose, SetEthMacs, RedirectMap, Verdict
    <3>2. ready' = ready  BY <2>1, <3>1
    <3> QED  BY <2>4, <3>2, StepReady
  <2>5. CASE Leave
    <3>1. ready' = FALSE  BY <2>1, <2>5 DEF Leave, Verdict
    <3> QED  BY <3>1 DEF ReadyInv
  <2> QED  BY <1>3, <2>2, <2>3, <2>4, <2>5 DEF Router, RouterStep
<1> QED  BY <1>1, <1>2, <1>3 DEF Next

-----------------------------------------------------------------------------
LEMMA InitVInv == Init => VInv
<1> SUFFICES ASSUME Init PROVE VInv  OBVIOUS
<1>1. PInv  BY InitPInv
<1>2. LoaderType  BY <1>1 DEF PInv, RInv
<1>3. ProgramType /\ ControlType
  <2>1. at = "idle" /\ load = 0 /\ ingress = 0 /\ frame = NoFrame
        /\ slot = "none" /\ macs = "own" /\ port = 0 /\ line = 1
    BY DEF Init, RouterInit
  <2>2. loaded \in BOOLEAN /\ ready \in BOOLEAN
    BY Zenon DEF Init
  <2>3. ProgramType  BY <2>1 DEF ProgramType
  <2>4. kept = {} /\ complete = {}  BY DEF Init
  <2> QED  BY <2>1, <2>2, <2>3, <2>4 DEF ControlType
<1>4. TypeOK  BY <1>2, <1>3, TypeParts
<1>5. Filled /\ ReadyInv  BY DEF Init, Filled, ReadyInv
<1> QED  BY <1>1, <1>4, <1>5 DEF VInv

LEMMA NextVInv == VInv /\ [Next]_vars => VInv'
<1> SUFFICES ASSUME VInv, [Next]_vars PROVE VInv'  OBVIOUS
<1>1. PInv /\ PInv'  BY NextPInv DEF VInv
<1>2. LoaderType /\ LoaderType' /\ RInv  BY <1>1 DEF PInv, RInv
<1>3. ProgramType /\ ControlType  BY <1>2, TypeParts DEF VInv
<1>4. ProgramType' /\ ControlType'
  BY <1>1, <1>2, <1>3, ProgramTypeKept, ControlTypeKept
<1>5. TypeOK'
  <2>1. LoaderType' => (TypeOK' <=> ProgramType' /\ ControlType')
    BY TypeParts, PTL
  <2> QED  BY <1>2, <1>4, <2>1
<1>6. Filled' /\ ReadyInv'  BY <1>1, NextFilled, NextReady DEF VInv
<1> QED  BY <1>1, <1>5, <1>6 DEF VInv

(* Whatever the loader and the program do, every port runs nothing or one  *)
(* of the loads there have been, every map holds interfaces and addresses, *)
(* and the program's locals are cleared between frames                     *)
(* (load_xdp_l7_router.sh, xdp_l7_router.c).                               *)
THEOREM RouterTypeCorrect == Spec => []TypeOK
<1>1. VInv => TypeOK  BY DEF VInv
<1> QED  BY <1>1, InitVInv, NextVInv, PTL DEF Spec

-----------------------------------------------------------------------------
(* With all roles read, a frame the policy lets out is given a slot.       *)
LEMMA PolicyIsChosen ==
  ASSUME NEW r \in Role, ingress = IfIndex[r], frame \in FrameType,
         \A s \in Role : roles[s] = IfIndex[s], Egress(r, frame) # {}
  PROVE  frame.headers # 0 /\ ChooseSlot # "none"
<1>1. PICK c \in Class(frame), e \in Role : <<r, c, e>> \in Policy
  BY DEF Egress
<1>2. frame.headers \in 0..4  BY DEF FrameType
<1>3. \A s \in Role : ingress = roles[s] <=> s = r
  BY RouterConstantsOK
<1>4. CASE c = "ARP"
  <2>1. frame.ether = "ARP" /\ frame.headers >= 1
    BY <1>1, <1>4 DEF Class
  <2>2. r \in {"CLIENT", "F"}  BY <1>1, <1>4 DEF Policy
  <2> QED  BY <1>2, <1>3, <2>1, <2>2 DEF ChooseSlot, Role
<1>5. CASE c # "ARP"
  <2>1. frame.ether = "IPv4" /\ frame.headers >= 2
    BY <1>1, <1>5 DEF Class, IPv4, L4
  <2>2. CASE r = "F"
    BY <1>2, <1>3, <2>1, <2>2 DEF ChooseSlot, Role
  <2>3. CASE r # "F"
    <3>1. r = "CLIENT" /\ c \in {"HTTP", "HTTPS", "DNS", "ICMP"}
      BY <1>1, <1>5, <2>3 DEF Policy
    <3>2. frame.headers >= 3 /\ ClientSlot(frame) # "none"
      <4>1. CASE c = "ICMP"
        BY <1>1, <1>2, <4>1 DEF Class, ClientSlot
      <4>2. CASE c = "HTTP"
        BY <1>1, <1>2, <4>2 DEF Class, L4, ClientSlot
      <4>3. CASE c = "HTTPS"
        BY <1>1, <1>2, <4>3 DEF Class, L4, ClientSlot
      <4>4. CASE c = "DNS"
        BY <1>1, <1>2, <4>4 DEF Class, L4, ClientSlot
      <4> QED  BY <3>1, <4>1, <4>2, <4>3, <4>4
    <3> QED  BY <1>2, <1>3, <2>1, <3>1, <3>2 DEF ChooseSlot, Role
  <2> QED  BY <2>2, <2>3
<1> QED  BY <1>4, <1>5

(* A load the loader has said SUCCESS of treats every frame as the policy  *)
(* says, to the letter, on each port for as long as the port runs it: also *)
(* while other scripts are started, and after a cleanup that failed        *)
(* (load_xdp_l7_router.sh:89-98 and 136-189, xdp_l7_router.c:342-807).     *)
THEOREM ReadyFollowsPolicy == Spec => []ReadyObeysPolicy
<1>1. VInv => ReadyObeysPolicy
  <2>1. SUFFICES ASSUME VInv, ready, at \in Verdict PROVE ReadyObeysPolicy
    BY DEF ReadyObeysPolicy
  <2>2. RInv /\ ReadyInv  BY <2>1 DEF VInv, PInv
  <2>3. at \in {"DROP", "REDIRECT"}
    BY <2>1, <2>2 DEF ReadyInv, Verdict
  <2>4. PICK r \in Role : ingress = IfIndex[r]
    BY <2>2, <2>3 DEF RInv, FrameRight
  <2>5. frame \in FrameType
    BY <2>2, <2>3, RouterConstantsOK DEF RInv, FrameRight
  <2>6. frame.headers # 0 => \A s \in Role : roles[s] = IfIndex[s]
    BY <2>1, <2>2, <2>3 DEF ReadyInv, Unread, Role
  <2>7. CASE at = "DROP"
    <3>1. frame.headers = 0 \/ ChooseSlot = "none"
      BY <2>1, <2>2, <2>7 DEF ReadyInv
    <3>2. Egress(r, frame) = {}
      <4>1. CASE frame.headers = 0
        <5>1. ASSUME NEW c \in Class(frame) PROVE FALSE
          <6>1. c \in {"ARP", "ICMP", "DNS", "HTTP", "HTTPS", "IPv4"}
            BY DEF Class
          <6>2. c = "ARP" => frame.headers >= 1
            BY DEF Class
          <6>3. c # "ARP" => frame.headers >= 2
            BY <6>1 DEF Class, IPv4, L4
          <6> QED  BY <4>1, <6>2, <6>3
        <5> QED  BY <5>1 DEF Egress
      <4>2. CASE frame.headers # 0
        BY <2>4, <2>5, <2>6, <3>1, <4>2, PolicyIsChosen
      <4> QED  BY <4>1, <4>2
    <3> QED  BY <2>4, <2>7, <3>2 DEF ReadyObeysPolicy
  <2>8. CASE at = "REDIRECT"
    <3>1. slot \in Slot /\ slot = ChooseSlot /\ port = IfIndex[EndOf[slot]]
      BY <2>2, <2>8 DEF RInv, SlotChosen
    <3>2. frame.headers # 0  BY <2>2, <2>8 DEF RInv, FrameRight
    <3>3. EndOf[slot] \in Egress(r, frame)
      BY <2>2, <2>4, <2>5, <3>1, <3>2, ChosenByPolicy DEF RInv
    <3>4. frame.ether = "ARP" \/ macs = EndOf[slot]
      BY <2>1, <2>2, <2>8 DEF ReadyInv
    <3> QED  BY <2>4, <2>8, <3>1, <3>3, <3>4 DEF ReadyObeysPolicy
  <2> QED  BY <2>3, <2>7, <2>8
<1> QED  BY <1>1, InitVInv, NextVInv, PTL DEF Spec
=============================================================================
