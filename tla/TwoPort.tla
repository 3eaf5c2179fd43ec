------------------------------- MODULE TwoPort -------------------------------
(***************************************************************************)
(* Forwarding between two interfaces, each with one laptop behind it: what *)
(* redirect_bidir.c does with every IPv4 frame, and the part of            *)
(* host_name_ins.c and ttl_ins.c from their label "forward" on, which is   *)
(* the same code.                                                          *)
(***************************************************************************)
EXTENDS XdpFrame

CONSTANTS
  PortA, PortB,  \* ENS7F0_IFINDEX, ENS7F1_IFINDEX
  OwnMac,        \* the address of each of the two
  PeerMac        \* the address of the laptop behind each

ASSUME PortsOK ==
  /\ PortA \in Ports
  /\ PortB \in Ports
  /\ PortA # PortB
  /\ OwnMac \in [{PortA, PortB} -> Nat]
  /\ PeerMac \in [{PortA, PortB} -> Nat]

(* The other of the two ports; of a third interface, none. *)
Across(port) ==
  CASE port = PortA -> PortB
    [] port = PortB -> PortA
    [] OTHER -> NoPort

(* f with the addresses it has on the link it is redirected to. *)
Addressed(f, port) ==
  IF Across(port) = NoPort THEN f
  ELSE [f EXCEPT !.dmac = PeerMac[Across(port)], !.smac = OwnMac[Across(port)]]

(* bpf_redirect to the other port; XDP_PASS on any other interface. *)
Forward ==
  /\ pc = "forward"
  /\ frame' = Addressed(frame, ingress)
  /\ out' = Across(ingress)
  /\ Return(IF Across(ingress) = NoPort THEN "PASS" ELSE "REDIRECT")
  /\ UNCHANGED <<build, input, locals>>

(* The Ethernet checks all three programs begin with. *)
EthernetVerdict(f) ==
  CASE f.len < EthLen   -> "DROP"
    [] f.eth = "arp"    -> "PASS"
    [] f.eth = "other"  -> "DROP"
    [] OTHER            -> "none"

(* One program's entry: its Ethernet checks, then the step it goes on with. *)
Enter(program, next) ==
  LET v == EthernetVerdict(frame)
  IN  Check(program, v # "none", v, next)

(* redirect_bidir.c *)
Bidir == Enter("bidir", "forward")

(* What redirect_bidir.c makes of frame f on a port: the forwarding path   *)
(* the other two say they continue with.                                   *)
BidirOutcome(f, port) ==
  LET v == EthernetVerdict(f)
      across == Across(port)
  IN  [verdict |-> IF v # "none" THEN v
                   ELSE IF across = NoPort THEN "PASS" ELSE "REDIRECT",
       out |-> IF v # "none" THEN NoPort ELSE across,
       smac |-> IF v # "none" \/ across = NoPort THEN f.smac ELSE OwnMac[across],
       dmac |-> IF v # "none" \/ across = NoPort THEN f.dmac ELSE PeerMac[across]]
=============================================================================
