------------------------------ MODULE L7Policy ------------------------------
(***************************************************************************)
(* What xdp_l7_router_lab_documentation.md (lines 13 to 21, 629 and 643 to *)
(* 671) promises: which frames of which port leave on which port.  Nothing *)
(* else is forwarded.                                                      *)
(***************************************************************************)
EXTENDS L7Router

IPv4(f)  == f.ether = "IPv4" /\ f.headers >= 2
L4(f, p) == IPv4(f) /\ f.headers = 4 /\ f.proto = p

Class(f) ==
  {c \in {"ARP", "ICMP", "DNS", "HTTP", "HTTPS", "IPv4"} :
     CASE c = "ARP"   -> f.ether = "ARP" /\ f.headers >= 1
       [] c = "IPv4"  -> IPv4(f)
       [] c = "ICMP"  -> IPv4(f) /\ f.headers >= 3 /\ f.proto = "ICMP"
       [] c = "DNS"   -> (L4(f, "UDP") \/ L4(f, "TCP")) /\ f.dport = "53"
       [] c = "HTTP"  -> L4(f, "TCP") /\ f.dport = "80"
       [] c = "HTTPS" -> L4(f, "TCP") /\ f.dport = "443"}

Policy ==
  {<<"CLIENT", "HTTP", "Z">>, <<"CLIENT", "HTTPS", "F">>,
   <<"CLIENT", "DNS", "F">>, <<"CLIENT", "ICMP", "F">>,
   <<"F", "IPv4", "CLIENT">>,
   <<"CLIENT", "ARP", "F">>, <<"F", "ARP", "CLIENT">>}

(* The ports a frame that came in on r's port may leave on. *)
Egress(r, f) == {e \in Role : \E c \in Class(f) : <<r, c, e>> \in Policy}

(* Whatever the loader has or has not done yet, a frame that is redirected *)
(* goes where the policy sends it: HTTP never reaches F, nothing that came *)
(* from Z goes anywhere (xdp_l7_router.c:342-807 over maps that are being  *)
(* filled, load_xdp_l7_router.sh:136-185).                                 *)
NeverMissteered ==
  at = "REDIRECT" =>
    \E r, e \in Role :
      /\ ingress = IfIndex[r] /\ port = IfIndex[e] /\ e \in Egress(r, frame)

(* "For A -> F: Ethernet destination = Laptop F MAC", and so on (the lab   *)
(* documentation, lines 741 to 760): a redirected IPv4 frame carries the   *)
(* addresses of the link it leaves on.                                     *)
AddressesOfLink ==
  at = "REDIRECT" /\ frame.ether = "IPv4" =>
    \E e \in Role : port = IfIndex[e] /\ macs = e
=============================================================================
