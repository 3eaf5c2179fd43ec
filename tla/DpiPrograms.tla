----------------------------- MODULE DpiPrograms -----------------------------
(***************************************************************************)
(* The programs of server_xdp/dpi and redirect_bidir.c, one of which is    *)
(* attached, over a sequence of frames, and what they owe each other and   *)
(* the frames.                                                             *)
(***************************************************************************)
EXTENDS HttpResponse, HostInspect, TtlRewrite

Programs == {"http", "bidir", "host"} \cup DOMAIN NewTtl

Init == FrameInit(Programs)

Next == Http \/ Bidir \/ Host \/ Ttl \/ Forward \/ Returned

Spec == Init /\ [][Next]_frameVars

-----------------------------------------------------------------------------
(* The steps of the other programs. *)
Looking == {"bidir", "host", "host_ip", "host_tcp", "inspect", "scan", "spaces", "copy", "print"}
Updating == DOMAIN NewTtl \cup {"ttl_ip", "ttl"}

(* Type correctness, and that a verdict exists exactly at the end. *)
TypeOK ==
  /\ prog \in Programs
  /\ pc \in Reading \cup Writing \cup Looking \cup Updating \cup {"forward", "done"}
  /\ FrameTypeOK

(* Whatever a program passes to the network stack, the stack gets as it    *)
(* came in: http_response_craft.c returns XDP_PASS from every check before *)
(* its first write and from one after the resize.  (ttl_ins.c on a third   *)
(* interface is the exception: it rewrites the TTL and then passes.)       *)
PassedUntouched ==
  verdict = "PASS" /\ prog \notin DOMAIN NewTtl => frame = received

(* What http_response_craft.c transmits is a whole, valid segment that     *)
(* answers the request: addresses and ports exchanged, the request's data  *)
(* and nothing else acknowledged, also across the wrap of the sequence     *)
(* numbers, and checksums over the fields as they are in the end.          *)
ReplyFits == verdict = "TX" => Answers(frame, received)

(* http_response_craft.c takes the payload's length from tot_len, not from *)
(* the frame: only its checks of the frame's end after the resize keep it  *)
(* from acknowledging data that never arrived.                             *)
ReplyToWhole ==
  verdict = "TX" => received.len >= EthLen + received.totLen

(* host_name_ins.c prints a name if and only if an HTTP request to port 80 *)
(* that came in on PortA has a "Host:" within reach, and prints the value  *)
(* of the first one.                                                       *)
HostIsNamed ==
  verdict = "REDIRECT" /\ prog = "host" =>
    IF /\ received.proto = TCP
       /\ Inspected(received, ingress)
       /\ received.text[1] = "method"
       /\ HostAt(received.text) # {}
    THEN reported # NoName /\ ValueOfHost(reported, received.text)
    ELSE reported = NoName

(* What a program may drop that redirect_bidir.c forwards. *)
Malformed(f) ==
  \/ f.len < EthLen + IpLen
  \/ prog = "host" /\ f.proto = TCP /\ ~TcpReadable(f)
  \/ prog \in DOMAIN NewTtl /\ (f.ihl < 5 \/ f.len < EthLen + 4 * f.ihl)

(* Inspection and rewriting leave forwarding alone: the frame goes where   *)
(* redirect_bidir.c would send it, with the addresses it would give it,    *)
(* unless its headers are malformed, and then it is dropped.               *)
ForwardingKept ==
  verdict # "none" /\ prog # "http" =>
    \/ LET o == BidirOutcome(received, ingress)
       IN  /\ verdict = o.verdict /\ out = o.out
           /\ frame.smac = o.smac /\ frame.dmac = o.dmac
    \/ verdict = "DROP" /\ Malformed(received)

(* ttl_ins.c updates the checksum from the old one: a header that was      *)
(* valid stays valid, one that was not stays detectably so, and nothing    *)
(* but the TTL, the checksum and the link addresses changes.               *)
TtlKeepsChecksum ==
  verdict = "REDIRECT" /\ prog \in DOMAIN NewTtl =>
    /\ HeaderValid(frame) <=> HeaderValid(received)
    /\ received.proto = TCP => frame.ttl = NewTtl[prog]
    /\ frame = [received EXCEPT !.ttl = frame.ttl, !.check = frame.check,
                                !.smac = frame.smac, !.dmac = frame.dmac]

(* explanation.md, section 36: whatever meets the HTTP conditions is       *)
(* modified and transmitted back; a frame that arrived whole is never      *)
(* dropped.                                                                *)
AnswersRequests ==
  prog = "http" /\ received.len >= EthLen + received.totLen
    => verdict # "DROP"
=============================================================================
