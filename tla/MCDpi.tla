-------------------------------- MODULE MCDpi --------------------------------
(***************************************************************************)
(* DpiPrograms over frames on both sides of every length and field the     *)
(* programs test, all short texts, and headers whose checksum needs both   *)
(* folds.                                                                  *)
(***************************************************************************)
EXTENDS DpiPrograms, FiniteSetsExt, SequencesExt

(* A valid checksum for the header of f. *)
Sealed(f) == [f EXCEPT !.check = CsumFold(HeaderSum(f))]

(* A request of eight bytes, in a frame of its size. *)
Request ==
  Sealed([len |-> 62, eth |-> "ip", smac |-> 1, dmac |-> 2, ihl |-> 5,
          proto |-> TCP, ttl |-> 64, totLen |-> 48, src |-> 100, dst |-> 200,
          id |-> 7, check |-> 0, sport |-> 1000, dport |-> HTTP, seq |-> 14,
          ack |-> 3, doff |-> 5, flags |-> {"ack", "psh"}, sum |-> NoSum,
          text |-> <<"method">>])

(* text is what is left between the headers and data_end. *)
Fit(f) ==
  IF f.len > EthLen + 4 * f.ihl + 4 * f.doff THEN f ELSE [f EXCEPT !.text = <<>>]

(* Headers and payloads cut short, padded, or too large to grow. *)
Sized ==
  {Sealed(Fit([Request EXCEPT !.len = n, !.totLen = t, !.ihl = h, !.doff = d])) :
     n \in {13, 33, 34, 37, 38, 53, 57, 58, 62, 90, 210},
     t \in {39, 40, 43, 44, 48, 180, 500}, h \in {4, 5, 6}, d \in {4, 5, 6}}

(* One field unlike the request's. *)
Altered ==
  {[Request EXCEPT !.eth = e] : e \in {"arp", "other"}}
  \cup {[Request EXCEPT !.flags = s] : s \in SUBSET {"ack", "syn", "rst", "fin"}}
  \cup {[Request EXCEPT !.flags = @ \cup {"urg"}], [Request EXCEPT !.dport = 443]}
  \cup {[Request EXCEPT !.check = @ + 1]}

(* Headers whose words add up to a sum at which the update of a raised TTL *)
(* carries twice, to one beside it, and to the two zeroes.                 *)
Carries ==
  {LET f == [Request EXCEPT !.proto = p, !.ttl = t]
   IN  Sealed([f EXCEPT !.id = (sum - (HeaderSum(f) - f.id)) % 65535]) :
     p \in {TCP, 17}, t \in {1, 3, 64, 255},
     sum \in {63231, 63232, 63744, 65023, 65024, 65025, 65534, 65535}}

(* Every text of up to four tokens behind a method, and short ones without *)
(* one.                                                                    *)
Texts ==
  {<<"method">> \o t : t \in SeqOf({"Host:", "sp", "eol", "c"}, 4)}
  \cup SeqOf({"Host:", "c"}, 2)

Inspecting ==
  {[Request EXCEPT !.text = t, !.len = 54 + 5 * Len(t)] : t \in Texts}

SomeFrames == Sized \cup Altered \cup Carries \cup Inspecting

SomePorts == {"ens7f0", "ens7f1", "eno1"}
SomeOwn   == [p \in {"ens7f0", "ens7f1"} |-> IF p = "ens7f0" THEN 10 ELSE 20]
SomePeer  == [p \in {"ens7f0", "ens7f1"} |-> IF p = "ens7f0" THEN 11 ELSE 21]
SomeResponse == <<"response">>

(* The lengths HTTP_RESP may be given; 131 is the one it has. *)
SomeLens == {131, 132}
ItsLen   == {131}
=============================================================================
