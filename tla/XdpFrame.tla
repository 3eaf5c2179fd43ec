------------------------------ MODULE XdpFrame ------------------------------
(***************************************************************************)
(* One run of an XDP program on one frame, as the stateless programs of    *)
(* server_xdp/dpi and Routing_and_redirect see it: a frame between data    *)
(* and data_end, checked header by header, rewritten in place, and a       *)
(* verdict.  These programs keep nothing from one frame to the next, so    *)
(* one run on every frame is all they can do.                              *)
(*                                                                         *)
(* A frame is the record of the fields the programs read or write.  len    *)
(* counts its bytes, padding included; a field that lies beyond len is     *)
(* there in the record, and a program that reads it without a check would  *)
(* be seen to.  Addresses and the fields no program tells apart are small  *)
(* numbers; text is what lies between the TCP header and data_end.         *)
(***************************************************************************)
EXTENDS Integers, Sequences

CONSTANTS
  Frames,      \* the frames that can arrive
  Ports,       \* the interfaces a program may run on
  NoPort,      \* the frame was not redirected
  MaxLen,      \* the end of the driver's buffer, data_hard_end
  TcpMod,      \* sequence numbers are u32: they wrap at TcpMod, 2^32 in the code
  RespLens,    \* the possible lengths of HTTP_RESP; 131 in the code
  Response,    \* the text of HTTP_RESP
  NoSum,       \* the TCP checksum a frame arrives with
  NoName       \* no host name was printed

FlagNames == {"ack", "psh", "syn", "fin", "rst", "urg"}
WordMax == 65535
Word == 0..WordMax

(* A checksum stands for what it was computed over. *)
Segment ==
  [src : Word, dst : Word, size : Nat, sport : Word, dport : Word,
   seq : 0..(TcpMod - 1), ack : 0..(TcpMod - 1), doff : 0..15,
   flags : SUBSET FlagNames]

FrameType ==
  [len : Nat, eth : {"ip", "arp", "other"}, smac : Nat, dmac : Nat,
   ihl : 0..15, proto : 0..255, ttl : 0..255, totLen : Word, src : Word,
   dst : Word, id : Word, check : Word, sport : Word, dport : Word,
   seq : 0..(TcpMod - 1), ack : 0..(TcpMod - 1), doff : 0..15,
   flags : SUBSET FlagNames, sum : Segment \cup {NoSum}, text : Seq(STRING)]

ASSUME FrameConstantsOK ==
  /\ TcpMod \in Nat \ {0}
  /\ MaxLen \in Nat
  /\ RespLens \subseteq 0..(WordMax - 40)
  /\ Response \in Seq(STRING)
  /\ Frames \subseteq {f \in FrameType : f.len <= MaxLen}
  /\ NoPort \notin Ports
  /\ NoSum \notin Segment
  /\ NoName \notin Seq(STRING)

VARIABLES
  prog,        \* the program that is attached, and
  respLen,     \* the RESP_LEN it was compiled with
  ingress,     \* ctx->ingress_ifindex
  received,    \* the frame as it arrived (only the properties read it)
  frame,       \* the frame as it is now
  pc, verdict, \* where the program is, and what it returned
  out,         \* the interface it redirected to
  hdrLen, payloadLen,  \* incoming_tcp_hdr_len, payload_len
  pos, name,   \* a position in text (host_position, host_start), and host
  reported     \* the host name the program printed, or NoName

build  == <<prog, respLen>>
input  == <<ingress, received>>
locals == <<hdrLen, payloadLen, pos, name, reported>>
frameVars == <<build, input, frame, pc, verdict, out, locals>>

EthLen == 14
IpLen  == 20   \* IP_HDR_LEN, sizeof(struct iphdr)
TcpLen == 20   \* TCP_HDR_LEN, sizeof(struct tcphdr)
TCP == 6
HTTP == 80

-----------------------------------------------------------------------------
(* The one's complement arithmetic of the internet checksum, on the header *)
(* fields as 16-bit words; id stands for the words no program changes.     *)
Fold(sum) == (sum % 65536) + (sum \div 65536)
Complement(sum) == 65535 - (sum % 65536)
TtlWord(ttl, proto) == 256 * ttl + proto

HeaderSum(f) ==
  (4 * 16 + f.ihl) * 256 + f.totLen + f.id + TtlWord(f.ttl, f.proto)
    + f.src + f.dst

(* What a receiver of the header tests. *)
HeaderValid(f) == (HeaderSum(f) + f.check) % 65535 = 0

-----------------------------------------------------------------------------
FrameInit(programs) ==
  /\ prog \in programs
  /\ respLen \in RespLens
  /\ ingress \in Ports
  /\ received \in Frames
  /\ frame = received
  /\ pc = prog
  /\ verdict = "none"
  /\ out = NoPort
  /\ hdrLen = 0
  /\ payloadLen = 0
  /\ pos = 0
  /\ name = <<>>
  /\ reported = NoName

(* The program has returned: its run is over. *)
Returned ==
  /\ pc = "done"
  /\ UNCHANGED frameVars

(* An early return. *)
Return(v) == pc' = "done" /\ verdict' = v

Goto(next) == pc' = next /\ UNCHANGED verdict

(* if (bad) return v; *)
Check(here, bad, v, next) ==
  /\ pc = here
  /\ IF bad THEN Return(v) ELSE Goto(next)
  /\ UNCHANGED <<build, input, frame, out, locals>>

(* An assignment to the frame. *)
Rewrite(here, new, next) ==
  /\ pc = here
  /\ frame' = new
  /\ Goto(next)
  /\ UNCHANGED <<build, input, out, locals>>

-----------------------------------------------------------------------------
(* A state has the shape its comments give. *)
FrameTypeOK ==
  /\ respLen \in RespLens
  /\ ingress \in Ports
  /\ received \in FrameType
  /\ frame \in FrameType
  /\ frame.len <= MaxLen
  /\ verdict \in {"none", "PASS", "DROP", "TX", "REDIRECT"}
  /\ pc = "done" <=> verdict # "none"
  /\ out \in Ports \cup {NoPort}
  /\ hdrLen \in 0..60
  /\ payloadLen \in Word
  /\ pos \in Nat
  /\ name \in Seq(STRING)
  /\ reported \in Seq(STRING) \cup {NoName}
=============================================================================
