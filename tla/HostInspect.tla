----------------------------- MODULE HostInspect -----------------------------
(***************************************************************************)
(* dpi/host_name_ins.c (http_hostna_dpi/ has the same file): HTTP requests *)
(* that come in on PortA have their host name printed, and every frame     *)
(* goes on as redirect_bidir.c would send it.                              *)
(*                                                                         *)
(* text is a sequence of tokens: "method" is a request method with its     *)
(* space, "Host:" those five bytes, "sp" a space, "eol" a CR or an LF,     *)
(* anything else another byte.  The three bounds count tokens.             *)
(***************************************************************************)
EXTENDS TwoPort

CONSTANTS
  MaxScan,     \* positions searched: MAX_HTTP_SCAN - 5
  MaxSpaces,   \* spaces skipped: 8
  MaxHostLen   \* MAX_HOST_LEN: 63

ASSUME BoundsOK == {MaxScan, MaxSpaces, MaxHostLen} \subseteq Nat

-----------------------------------------------------------------------------
HostEthernet == Enter("host", "host_ip")

HostIpv4 ==
  /\ pc = "host_ip"
  /\ IF frame.len < EthLen + IpLen THEN Return("DROP")
     ELSE Goto(IF frame.proto = TCP THEN "host_tcp" ELSE "forward")
  /\ UNCHANGED <<build, input, frame, out, locals>>

IpHdrLen(f)  == 4 * f.ihl
TcpHdrLen(f) == 4 * f.doff

(* Frame f has a TCP header that makes sense, all of it before data_end. *)
TcpReadable(f) ==
  /\ IpHdrLen(f) >= IpLen
  /\ f.len >= EthLen + IpHdrLen(f) + TcpLen
  /\ TcpHdrLen(f) >= TcpLen
  /\ f.len >= EthLen + IpHdrLen(f) + TcpHdrLen(f)

HostTcp ==
  Check("host_tcp", ~TcpReadable(frame), "DROP", "inspect")

(* Only from PortA to port 80, and only with a payload. *)
Inspected(f, port) == port = PortA /\ f.dport = HTTP /\ f.text # <<>>

(* Mutant: a request without a method is passed up instead of forwarded. *)
InspectStrict ==
  /\ pc = "inspect"
  /\ IF Inspected(frame, ingress) /\ frame.text[1] # "method"
     THEN Return("PASS")
     ELSE Goto(IF Inspected(frame, ingress) THEN "scan" ELSE "forward")
  /\ pos' = 1
  /\ UNCHANGED <<build, input, frame, out, hdrLen, payloadLen, name, reported>>

(* is_http *)
Inspect ==
  /\ pc = "inspect"
  /\ Goto(IF Inspected(frame, ingress) /\ frame.text[1] = "method"
          THEN "scan" ELSE "forward")
  /\ pos' = 1
  /\ UNCHANGED <<build, input, frame, out, hdrLen, payloadLen, name, reported>>

(* The search for "Host:", one position after the other. *)
Scan ==
  /\ pc = "scan"
  /\ IF pos > MaxScan \/ pos > Len(frame.text)
     THEN Goto("forward") /\ UNCHANGED pos
     ELSE /\ pos' = pos + 1
          /\ Goto(IF frame.text[pos] = "Host:" THEN "spaces" ELSE "scan")
  /\ UNCHANGED <<build, input, frame, out, hdrLen, payloadLen, name, reported>>

(* Up to MaxSpaces spaces are skipped; pos becomes host_start. *)
SkipSpaces ==
  /\ pc = "spaces"
  /\ Goto("copy")
  /\ \E n \in 0..MaxSpaces :
       /\ pos + n <= Len(frame.text) + 1
       /\ \A i \in 0..(n - 1) : frame.text[pos + i] = "sp"
       /\ n < MaxSpaces /\ pos + n <= Len(frame.text) => frame.text[pos + n] # "sp"
       /\ pos' = pos + n
  /\ UNCHANGED <<build, input, frame, out, hdrLen, payloadLen, name, reported>>

(* Mutant: the copy does not end at the end of the line. *)
CopyLines ==
  /\ pc = "copy"
  /\ LET at == pos + Len(name)
     IN  IF Len(name) = MaxHostLen \/ at > Len(frame.text)
         THEN Goto("print") /\ UNCHANGED name
         ELSE name' = Append(name, frame.text[at]) /\ Goto("copy")
  /\ UNCHANGED <<build, input, frame, out, hdrLen, payloadLen, pos, reported>>

(* One byte after the other up to the end of the line, of the frame or of  *)
(* the buffer.                                                             *)
Copy ==
  /\ pc = "copy"
  /\ LET at == pos + Len(name)
     IN  IF \/ Len(name) = MaxHostLen
            \/ at > Len(frame.text)
            \/ frame.text[at] = "eol"
         THEN Goto("print") /\ UNCHANGED name
         ELSE name' = Append(name, frame.text[at]) /\ Goto("copy")
  /\ UNCHANGED <<build, input, frame, out, hdrLen, payloadLen, pos, reported>>

(* bpf_printk of the name, and on to the label forward. *)
PrintHost ==
  /\ pc = "print"
  /\ reported' = name
  /\ Goto("forward")
  /\ UNCHANGED <<build, input, frame, out, hdrLen, payloadLen, pos, name>>

Host ==
  \/ HostEthernet \/ HostIpv4 \/ HostTcp \/ Inspect
  \/ Scan \/ SkipSpaces \/ Copy \/ PrintHost

-----------------------------------------------------------------------------
(* The places of text the search finds "Host:" at. *)
HostAt(text) ==
  {i \in DOMAIN text : i <= MaxScan /\ text[i] = "Host:"}

(* n is the value of the first "Host:" of text: what follows it, without   *)
(* the spaces in front, up to the end of its line or the bounds.           *)
ValueOfHost(n, text) ==
  \E p \in HostAt(text), s \in 0..MaxSpaces :
    LET from == p + s
        to == from + Len(n)
    IN  /\ \A q \in HostAt(text) : p <= q
        /\ \A i \in (p + 1)..from : i \in DOMAIN text /\ text[i] = "sp"
        /\ s < MaxSpaces => from = Len(text) \/ text[from + 1] # "sp"
        /\ to <= Len(text)
        /\ n = SubSeq(text, from + 1, to)
        /\ \A i \in DOMAIN n : n[i] # "eol"
        /\ Len(n) <= MaxHostLen
        /\ Len(n) < MaxHostLen => to = Len(text) \/ text[to + 1] = "eol"
=============================================================================
