---------------------------- MODULE HttpResponse ----------------------------
(***************************************************************************)
(* dpi/pkt_crafting/http_response_craft.c: a segment that carries data to  *)
(* port 80 is turned, in place, into a segment that carries HTTP_RESP back *)
(* to its sender.  One action per numbered section of the source.          *)
(***************************************************************************)
EXTENDS XdpFrame

(* The steps up to the resize, which only read, and those after it. *)
Reading == {"http", "ip", "length", "tcp", "target", "header", "payload", "resize"}
Writing == {"again", "options", "room", "macs", "ips", "seq", "ports", "flags",
            "size", "text", "check", "sum"}

(* 2 and 3: an IPv4 header without options, carrying TCP. *)
Ethernet ==
  Check("http", frame.len < EthLen \/ frame.eth # "ip", "PASS", "ip")

Ipv4 ==
  Check("ip",
        \/ frame.len < EthLen + IpLen
        \/ frame.ihl # 5
        \/ frame.proto # TCP,
        "PASS", "length")

(* 4 *)
TotalLength == Check("length", frame.totLen < IpLen + TcpLen, "PASS", "tcp")

(* 5 and 6: the base header, and an established connection to port 80. *)
BaseHeader == Check("tcp", frame.len < EthLen + IpLen + TcpLen, "PASS", "target")

Target ==
  Check("target",
        \/ frame.dport # HTTP
        \/ "ack" \notin frame.flags
        \/ {"syn", "rst", "fin"} \cap frame.flags # {},
        "PASS", "header")

(* Mutant: the TCP header may be longer than the packet. *)
HeaderLengthLoose ==
  /\ pc = "header"
  /\ hdrLen' = 4 * frame.doff
  /\ IF \/ hdrLen' < TcpLen
        \/ hdrLen' > 60
        \/ frame.len < EthLen + IpLen + hdrLen'
     THEN Return("PASS")
     ELSE Goto("payload")
  /\ UNCHANGED <<build, input, frame, out, payloadLen, pos, name, reported>>

(* 7: the header with its options lies in the frame and in the packet. *)
HeaderLength ==
  /\ pc = "header"
  /\ hdrLen' = 4 * frame.doff
  /\ IF \/ hdrLen' < TcpLen
        \/ hdrLen' > 60
        \/ frame.len < EthLen + IpLen + hdrLen'
        \/ frame.totLen < IpLen + hdrLen'
     THEN Return("PASS")
     ELSE Goto("payload")
  /\ UNCHANGED <<build, input, frame, out, payloadLen, pos, name, reported>>

(* 8: only segments with data. *)
PayloadLength ==
  /\ pc = "payload"
  /\ payloadLen' = frame.totLen - IpLen - hdrLen
  /\ IF payloadLen' = 0 THEN Return("PASS") ELSE Goto("resize")
  /\ UNCHANGED <<build, input, frame, out, hdrLen, pos, name, reported>>

(* bpf_xdp_adjust_tail, which is the kernel's: it leaves the frame alone   *)
(* if the new end is not in the buffer or cuts the Ethernet header.        *)
TailFits(len) == len >= EthLen /\ len <= MaxLen

(* Mutant: the request's data is kept behind the response. *)
DeltaOfHeader == (TcpLen + respLen) - hdrLen

(* 9 *)
Delta == (TcpLen + respLen) - (hdrLen + payloadLen)

Resize ==
  /\ pc = "resize"
  /\ IF TailFits(frame.len + Delta)
     THEN /\ frame' = [frame EXCEPT !.len = @ + Delta]
          /\ Goto("again")
     ELSE /\ Return("PASS")
          /\ UNCHANGED frame
  /\ UNCHANGED <<build, input, out, locals>>

(* 10: every header is checked again, and the room for the response. *)
ReadAgain == Check("again", frame.len < EthLen + IpLen, "DROP", "options")
NoOptions == Check("options", frame.ihl # 5, "PASS", "room")

(* Mutant: a frame without the room is passed, like those of before. *)
RoomOrPass ==
  Check("room", frame.len < EthLen + IpLen + TcpLen + respLen, "PASS", "macs")

RoomForResponse ==
  Check("room", frame.len < EthLen + IpLen + TcpLen + respLen, "DROP", "macs")

(* 11 *)
SwapMacs ==
  Rewrite("macs", [frame EXCEPT !.smac = frame.dmac, !.dmac = frame.smac], "ips")

(* 12 *)
SwapIps ==
  Rewrite("ips", [frame EXCEPT !.src = frame.dst, !.dst = frame.src], "seq")

(* Mutant: the options of the request are acknowledged as data. *)
AcknowledgeAll ==
  Rewrite("seq", [frame EXCEPT !.seq = frame.ack,
                               !.ack = (frame.seq + hdrLen + payloadLen - TcpLen) % TcpMod],
          "ports")

(* 13: the data of the request is acknowledged. *)
Acknowledge ==
  Rewrite("seq", [frame EXCEPT !.seq = frame.ack,
                               !.ack = (frame.seq + payloadLen) % TcpMod],
          "ports")

(* 14 *)
SwapPorts ==
  Rewrite("ports", [frame EXCEPT !.sport = frame.dport, !.dport = frame.sport],
          "flags")

(* 15 *)
SetFlags ==
  Rewrite("flags",
          [frame EXCEPT !.doff = 5,
                        !.flags = (@ \cup {"ack", "psh"}) \ {"syn", "fin", "rst"}],
          "size")

(* 16 *)
NewLength ==
  Rewrite("size", [frame EXCEPT !.totLen = IpLen + TcpLen + respLen], "text")

(* 17, with its own check of the frame's end. *)
WriteResponse ==
  /\ pc = "text"
  /\ IF frame.len < EthLen + IpLen + TcpLen + respLen
     THEN Return("DROP") /\ UNCHANGED frame
     ELSE Goto("check") /\ frame' = [frame EXCEPT !.text = Response]
  /\ UNCHANGED <<build, input, out, locals>>

(* bpf_csum_diff, which is the kernel's, takes lengths in 32-bit words. *)
CsumDiffFails(size) == size % 4 # 0

(* csum_fold_u32 *)
CsumFold(sum) == Complement(Fold(Fold(sum)))

(* 18: bpf_csum_diff over IP_HDR_LEN bytes, which are five words. *)
IpChecksum ==
  Rewrite("check", [frame EXCEPT !.check = CsumFold(HeaderSum(frame))], "sum")

(* What the TCP checksum is computed over: the pseudo header, the header   *)
(* and, up to size bytes of both, the text.                                *)
Covered(f, size) ==
  [src |-> f.src, dst |-> f.dst, size |-> size, sport |-> f.sport,
   dport |-> f.dport, seq |-> f.seq, ack |-> f.ack, doff |-> f.doff,
   flags |-> f.flags]

(* 19 and 20 *)
TcpChecksum ==
  /\ pc = "sum"
  /\ IF CsumDiffFails(TcpLen + respLen)
     THEN Return("DROP") /\ UNCHANGED frame
     ELSE Return("TX") /\ frame' = [frame EXCEPT !.sum = Covered(frame, TcpLen + respLen)]
  /\ UNCHANGED <<build, input, out, locals>>

Http ==
  \/ Ethernet \/ Ipv4 \/ TotalLength \/ BaseHeader \/ Target
  \/ HeaderLength \/ PayloadLength \/ Resize
  \/ ReadAgain \/ NoOptions \/ RoomForResponse
  \/ SwapMacs \/ SwapIps \/ Acknowledge \/ SwapPorts \/ SetFlags \/ NewLength
  \/ WriteResponse \/ IpChecksum \/ TcpChecksum

-----------------------------------------------------------------------------
(* f is a whole TCP segment: the answer to the data of request r.          *)
Answers(f, r) ==
  /\ f.smac = r.dmac /\ f.dmac = r.smac
  /\ f.src = r.dst /\ f.dst = r.src
  /\ f.sport = r.dport /\ f.dport = r.sport
  /\ f.seq = r.ack
  /\ f.ack = (r.seq + (r.totLen - 4 * r.ihl - 4 * r.doff)) % TcpMod
  /\ f.flags \ {"urg"} = {"ack", "psh"}
  /\ f.text = Response
  /\ f.totLen = 4 * f.ihl + 4 * f.doff + respLen
  /\ f.len >= EthLen + f.totLen
  /\ HeaderValid(f)
  /\ f.sum = Covered(f, f.totLen - 4 * f.ihl)
=============================================================================
