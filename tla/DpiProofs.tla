----------------------------- MODULE DpiProofs -----------------------------
(***************************************************************************)
(* What the stateless programs of server_xdp do to a frame, for every      *)
(* frame, every length of the response and every modulus of the sequence   *)
(* numbers; and which host name host_name_ins.c prints, for every text.    *)
(***************************************************************************)
EXTENDS DpiPrograms, TLAPS, SequenceTheorems

-----------------------------------------------------------------------------
(* The numbers of 16 bits. *)
LEMMA WordBounds ==
  \A n : n \in Word <=> n \in Int /\ 0 <= n /\ n <= 65535
<1>1. WordMax \in Int
  BY DEF WordMax
<1>2. \A n : n \in Word <=> n \in Int /\ 0 <= n /\ n <= WordMax
  BY <1>1 DEF Word
<1> QED  BY <1>2 DEF WordMax

(* A response leaves room for the two headers in the IPv4 length field. *)
LEMMA ResponseFits ==
  ASSUME respLen \in RespLens
  PROVE  respLen \in Nat /\ IpLen + TcpLen + respLen \in Word
<1>1. respLen \in 0..(WordMax - 40)
  BY FrameConstantsOK
<1>2. WordMax = 65535
  BY DEF WordMax
<1>3. respLen \in Int /\ 0 <= respLen /\ respLen <= WordMax - 40
  <2>1. WordMax - 40 \in Int
    BY <1>2
  <2> QED  BY <1>1, <2>1
<1> QED  BY <1>2, <1>3, WordBounds DEF IpLen, TcpLen

(* The checksum csum_fold_u32 gives a header makes it valid... *)
LEMMA FoldedIsValid ==
  \A s \in Nat : s < 65536 * 65536 => (s + CsumFold(s)) % 65535 = 0
BY DEF CsumFold, Fold, Complement

(* ...and an update of one word, RFC 1624's, keeps a valid header valid    *)
(* and an invalid one invalid, whatever carries.                           *)
LEMMA UpdatedIsAsValid ==
  \A s, check, old, new \in Nat :
    check < 65536 /\ old < 65536 /\ new < 65536 /\ s >= old =>
      ((s - old + new) + Updated(check, old, new)) % 65535 = (s + check) % 65535
BY DEF Updated, Fold, Complement

(* A complement is a 16-bit word. *)
LEMMA ComplementIsWord == \A s \in Int : Complement(s) \in Word
<1>1. \A s \in Int : Complement(s) \in Int /\ 0 <= Complement(s) /\ Complement(s) <= 65535
  BY DEF Complement
<1> QED  BY <1>1, WordBounds

-----------------------------------------------------------------------------
(* What http_response_craft.c makes of request r with a response of n      *)
(* bytes, section by section.                                              *)
Resized(r, n) == [r EXCEPT !.len = @ + ((TcpLen + n) - (r.totLen - IpLen))]

Turned(r, n) ==
  LET f == Resized(r, n) IN [f EXCEPT !.smac = f.dmac, !.dmac = f.smac]

Returning(r, n) ==
  LET f == Turned(r, n) IN [f EXCEPT !.src = f.dst, !.dst = f.src]

Acknowledging(r, n) ==
  LET f == Returning(r, n)
  IN  [f EXCEPT !.seq = f.ack,
                !.ack = (f.seq + (r.totLen - IpLen - 4 * r.doff)) % TcpMod]

Answering(r, n) ==
  LET f == Acknowledging(r, n) IN [f EXCEPT !.sport = f.dport, !.dport = f.sport]

Flagged(r, n) ==
  LET f == Answering(r, n)
  IN  [f EXCEPT !.doff = 5, !.flags = (@ \cup {"ack", "psh"}) \ {"syn", "fin", "rst"}]

Measured(r, n) ==
  LET f == Flagged(r, n) IN [f EXCEPT !.totLen = IpLen + TcpLen + n]

Filled(r, n) ==
  LET f == Measured(r, n) IN [f EXCEPT !.text = Response]

Checked(r, n) ==
  LET f == Filled(r, n) IN [f EXCEPT !.check = CsumFold(HeaderSum(f))]

Reply(r, n) ==
  LET f == Checked(r, n) IN [f EXCEPT !.sum = Covered(f, TcpLen + n)]

(* The fields of the reply before its text and its checksums. *)
LEMMA MeasuredFields ==
  ASSUME NEW r \in FrameType, NEW n \in Nat
  PROVE  LET f == Measured(r, n) IN
    /\ f.smac = r.dmac /\ f.dmac = r.smac /\ f.src = r.dst /\ f.dst = r.src
    /\ f.ihl = r.ihl /\ f.ttl = r.ttl /\ f.proto = r.proto /\ f.id = r.id
    /\ f.sport = r.dport /\ f.dport = r.sport
    /\ f.seq = r.ack /\ f.ack = (r.seq + (r.totLen - IpLen - 4 * r.doff)) % TcpMod
    /\ f.doff = 5 /\ f.totLen = IpLen + TcpLen + n
    /\ f.flags = (r.flags \cup {"ack", "psh"}) \ {"syn", "fin", "rst"}
    /\ f.len = r.len + ((TcpLen + n) - (r.totLen - IpLen))
BY DEF FrameType, Resized, Turned, Returning, Acknowledging, Answering, Flagged, Measured

(* The words of a header add up to less than the two folds can take. *)
LEMMA HeaderSumBounds ==
  ASSUME NEW f, f.ihl \in 0..15, f.ttl \in 0..255, f.proto \in 0..255, f.totLen \in Word,
         f.id \in Word, f.src \in Word, f.dst \in Word
  PROVE  HeaderSum(f) \in Nat /\ HeaderSum(f) < 65536 * 65536
<1>1. /\ f.ihl \in Nat /\ f.ihl <= 15 /\ f.ttl \in Nat /\ f.ttl <= 255
      /\ f.proto \in Nat /\ f.proto <= 255
  OBVIOUS
<1>2. /\ f.totLen \in Nat /\ f.totLen <= 65535 /\ f.id \in Nat /\ f.id <= 65535
      /\ f.src \in Nat /\ f.src <= 65535 /\ f.dst \in Nat /\ f.dst <= 65535
  BY WordBounds
<1> QED  BY <1>1, <1>2 DEF HeaderSum, TtlWord

(* The numbers in a frame. *)
LEMMA FrameNumbers ==
  ASSUME NEW f \in FrameType
  PROVE  /\ f.len \in Nat /\ f.ihl \in 0..15 /\ f.doff \in 0..15
         /\ f.ttl \in 0..255 /\ f.proto \in 0..255
         /\ f.totLen \in Word /\ f.totLen \in Nat /\ f.totLen <= 65535
         /\ f.check \in Word /\ f.check \in Nat /\ f.check <= 65535
         /\ f.src \in Word /\ f.dst \in Word /\ f.id \in Word
         /\ f.seq \in 0..(TcpMod - 1) /\ f.ack \in 0..(TcpMod - 1)
         /\ f.flags \subseteq FlagNames
         /\ HeaderSum(f) \in Nat /\ HeaderSum(f) < 65536 * 65536
<1>1. /\ f.len \in Nat /\ f.ihl \in 0..15 /\ f.doff \in 0..15
      /\ f.ttl \in 0..255 /\ f.proto \in 0..255
      /\ f.totLen \in Word /\ f.check \in Word /\ f.src \in Word /\ f.dst \in Word
      /\ f.id \in Word /\ f.seq \in 0..(TcpMod - 1) /\ f.ack \in 0..(TcpMod - 1)
      /\ f.flags \subseteq FlagNames
  BY DEF FrameType
<1> QED  BY <1>1, WordBounds, HeaderSumBounds

(* Assignments that leave a frame a frame. *)
LEMMA FrameEdits ==
  ASSUME NEW f \in FrameType
  PROVE  /\ \A n \in Nat : [f EXCEPT !.len = n] \in FrameType
         /\ \A x, y \in Nat : [f EXCEPT !.smac = x, !.dmac = y] \in FrameType
         /\ \A x, y \in Nat : [f EXCEPT !.dmac = x, !.smac = y] \in FrameType
         /\ \A x, y \in Word : [f EXCEPT !.src = x, !.dst = y] \in FrameType
         /\ \A x, y \in Word : [f EXCEPT !.sport = x, !.dport = y] \in FrameType
         /\ \A x, y \in 0..(TcpMod - 1) : [f EXCEPT !.seq = x, !.ack = y] \in FrameType
         /\ \A d \in 0..15, s \in SUBSET FlagNames : [f EXCEPT !.doff = d, !.flags = s] \in FrameType
         /\ \A x \in Word : [f EXCEPT !.totLen = x] \in FrameType
         /\ \A x \in Word : [f EXCEPT !.check = x] \in FrameType
         /\ \A s \in Seq(STRING) : [f EXCEPT !.text = s] \in FrameType
         /\ \A s \in Segment : [f EXCEPT !.sum = s] \in FrameType
         /\ \A t \in 0..255, x \in Word : [f EXCEPT !.ttl = t, !.check = x] \in FrameType
<1>1. \A n \in Nat : [f EXCEPT !.len = n] \in FrameType
  BY ZenonT(40) DEF FrameType
<1>2. \A x, y \in Nat : [f EXCEPT !.smac = x, !.dmac = y] \in FrameType
  BY ZenonT(40) DEF FrameType
<1>3. \A x, y \in Nat : [f EXCEPT !.dmac = x, !.smac = y] \in FrameType
  BY ZenonT(40) DEF FrameType
<1>4. \A x, y \in Word : [f EXCEPT !.src = x, !.dst = y] \in FrameType
  BY ZenonT(40) DEF FrameType
<1>5. \A x, y \in Word : [f EXCEPT !.sport = x, !.dport = y] \in FrameType
  BY ZenonT(40) DEF FrameType
<1>6. \A x, y \in 0..(TcpMod - 1) : [f EXCEPT !.seq = x, !.ack = y] \in FrameType
  BY ZenonT(40) DEF FrameType
<1>7. \A d \in 0..15, s \in SUBSET FlagNames : [f EXCEPT !.doff = d, !.flags = s] \in FrameType
  BY ZenonT(40) DEF FrameType
<1>8. \A x \in Word : [f EXCEPT !.totLen = x] \in FrameType
  BY ZenonT(40) DEF FrameType
<1>9. \A x \in Word : [f EXCEPT !.check = x] \in FrameType
  BY ZenonT(40) DEF FrameType
<1>10. \A s \in Seq(STRING) : [f EXCEPT !.text = s] \in FrameType
  BY ZenonT(40) DEF FrameType
<1>11. \A s \in Segment : [f EXCEPT !.sum = s] \in FrameType
  BY ZenonT(40) DEF FrameType
<1>12. \A t \in 0..255, x \in Word : [f EXCEPT !.ttl = t, !.check = x] \in FrameType
  BY ZenonT(40) DEF FrameType
<1> QED  BY <1>1, <1>2, <1>3, <1>4, <1>5, <1>6, <1>7, <1>8, <1>9, <1>10, <1>11, <1>12

(* Every section leaves a frame behind it. *)
LEMMA ReplyTypes ==
  ASSUME NEW r \in FrameType, NEW n \in Nat, IpLen + TcpLen + n \in Word,
         Resized(r, n).len \in Nat
  PROVE  /\ Resized(r, n) \in FrameType /\ Turned(r, n) \in FrameType
         /\ Returning(r, n) \in FrameType /\ Acknowledging(r, n) \in FrameType
         /\ Answering(r, n) \in FrameType /\ Flagged(r, n) \in FrameType
         /\ Measured(r, n) \in FrameType /\ Filled(r, n) \in FrameType
         /\ Checked(r, n) \in FrameType /\ Reply(r, n) \in FrameType
<1>1. Resized(r, n) \in FrameType
  BY DEF Resized, FrameType
<1>2. Turned(r, n) \in FrameType
  <2>1. Resized(r, n).smac \in Nat /\ Resized(r, n).dmac \in Nat
    BY <1>1 DEF FrameType
  <2> QED  BY <1>1, <2>1, FrameEdits DEF Turned
<1>3. Returning(r, n) \in FrameType
  <2>1. Turned(r, n).src \in Word /\ Turned(r, n).dst \in Word
    BY <1>2, FrameNumbers
  <2> QED  BY <1>2, <2>1, FrameEdits DEF Returning
<1>4. Acknowledging(r, n) \in FrameType
  <2>1. \A x \in Int : x % TcpMod \in 0..(TcpMod - 1)
    BY FrameConstantsOK
  <2>2. r.totLen \in Int /\ r.doff \in Int
    BY FrameNumbers
  <2>3. Returning(r, n).seq \in 0..(TcpMod - 1) /\ Returning(r, n).ack \in 0..(TcpMod - 1)
    BY <1>3, FrameNumbers
  <2>4. Returning(r, n).seq \in Int
    BY <2>3, FrameConstantsOK
  <2>5. (Returning(r, n).seq + (r.totLen - IpLen - 4 * r.doff)) % TcpMod \in 0..(TcpMod - 1)
    BY <2>1, <2>2, <2>4 DEF IpLen
  <2> QED  BY <1>3, <2>3, <2>5, FrameEdits DEF Acknowledging
<1>5. Answering(r, n) \in FrameType
  <2>1. Acknowledging(r, n).sport \in Word /\ Acknowledging(r, n).dport \in Word
    BY <1>4 DEF FrameType
  <2> QED  BY <1>4, <2>1, FrameEdits DEF Answering
<1>6. Flagged(r, n) \in FrameType
  <2>1. ((Answering(r, n).flags \cup {"ack", "psh"}) \ {"syn", "fin", "rst"}) \in SUBSET FlagNames
    BY <1>5, FrameNumbers DEF FlagNames
  <2>2. 5 \in 0..15
    OBVIOUS
  <2> QED  BY <1>5, <2>1, <2>2, FrameEdits DEF Flagged
<1>7. Measured(r, n) \in FrameType
  BY <1>6, FrameEdits DEF Measured
<1>8. Filled(r, n) \in FrameType
  BY <1>7, FrameConstantsOK, FrameEdits DEF Filled
<1>9. Checked(r, n) \in FrameType
  <2>1. HeaderSum(Filled(r, n)) \in Nat
    BY <1>8, FrameNumbers
  <2>2. Fold(Fold(HeaderSum(Filled(r, n)))) \in Int
    BY <2>1 DEF Fold
  <2>3. CsumFold(HeaderSum(Filled(r, n))) \in Word
    BY <2>2, ComplementIsWord DEF CsumFold
  <2> QED  BY <1>8, <2>3, FrameEdits DEF Checked
<1>10. Reply(r, n) \in FrameType
  <2>1. Covered(Checked(r, n), TcpLen + n) \in Segment
    BY <1>9 DEF Covered, Segment, FrameType, TcpLen
  <2> QED  BY <1>9, <2>1, FrameEdits DEF Reply
<1> QED  BY <1>1, <1>2, <1>3, <1>4, <1>5, <1>6, <1>7, <1>8, <1>9, <1>10

(* The other fields, and that no field is touched after it was summed. *)
LEMMA ReplyFields ==
  ASSUME NEW r \in FrameType, NEW n \in Nat, IpLen + TcpLen + n \in Word,
         Resized(r, n).len \in Nat
  PROVE  LET f == Reply(r, n)  m == Measured(r, n) IN
    /\ f.text = Response
    /\ f.check = CsumFold(HeaderSum(f))
    /\ f.sum = Covered(f, TcpLen + n)
    /\ f.smac = m.smac /\ f.dmac = m.dmac /\ f.src = m.src /\ f.dst = m.dst
    /\ f.ihl = m.ihl /\ f.ttl = m.ttl /\ f.proto = m.proto /\ f.id = m.id
    /\ f.sport = m.sport /\ f.dport = m.dport /\ f.seq = m.seq /\ f.ack = m.ack
    /\ f.doff = m.doff /\ f.totLen = m.totLen /\ f.flags = m.flags /\ f.len = m.len
<1> DEFINE m == Measured(r, n)  t == Filled(r, n)  c == Checked(r, n)  f == Reply(r, n)
<1>1. /\ t.text = Response
      /\ t.smac = m.smac /\ t.dmac = m.dmac /\ t.src = m.src /\ t.dst = m.dst
      /\ t.ihl = m.ihl /\ t.ttl = m.ttl /\ t.proto = m.proto /\ t.id = m.id
      /\ t.sport = m.sport /\ t.dport = m.dport /\ t.seq = m.seq /\ t.ack = m.ack
      /\ t.doff = m.doff /\ t.totLen = m.totLen /\ t.flags = m.flags /\ t.len = m.len
  BY ReplyTypes DEF FrameType, Filled
<1>2. /\ c.text = t.text /\ c.check = CsumFold(HeaderSum(t))
      /\ c.smac = t.smac /\ c.dmac = t.dmac /\ c.src = t.src /\ c.dst = t.dst
      /\ c.ihl = t.ihl /\ c.ttl = t.ttl /\ c.proto = t.proto /\ c.id = t.id
      /\ c.sport = t.sport /\ c.dport = t.dport /\ c.seq = t.seq /\ c.ack = t.ack
      /\ c.doff = t.doff /\ c.totLen = t.totLen /\ c.flags = t.flags /\ c.len = t.len
  BY ReplyTypes DEF FrameType, Checked
<1>3. /\ f.text = c.text /\ f.check = c.check /\ f.sum = Covered(c, TcpLen + n)
      /\ f.smac = c.smac /\ f.dmac = c.dmac /\ f.src = c.src /\ f.dst = c.dst
      /\ f.ihl = c.ihl /\ f.ttl = c.ttl /\ f.proto = c.proto /\ f.id = c.id
      /\ f.sport = c.sport /\ f.dport = c.dport /\ f.seq = c.seq /\ f.ack = c.ack
      /\ f.doff = c.doff /\ f.totLen = c.totLen /\ f.flags = c.flags /\ f.len = c.len
  BY ReplyTypes DEF FrameType, Reply
<1> HIDE DEF m, t, c, f
<1>4. HeaderSum(t) = HeaderSum(f)
  BY <1>2, <1>3 DEF HeaderSum
<1>5. Covered(c, TcpLen + n) = Covered(f, TcpLen + n)
  BY <1>3 DEF Covered
<1>6. /\ f.text = Response /\ f.check = CsumFold(HeaderSum(f))
      /\ f.sum = Covered(f, TcpLen + n)
      /\ f.smac = m.smac /\ f.dmac = m.dmac /\ f.src = m.src /\ f.dst = m.dst
      /\ f.ihl = m.ihl /\ f.ttl = m.ttl /\ f.proto = m.proto /\ f.id = m.id
      /\ f.sport = m.sport /\ f.dport = m.dport /\ f.seq = m.seq /\ f.ack = m.ack
      /\ f.doff = m.doff /\ f.totLen = m.totLen /\ f.flags = m.flags /\ f.len = m.len
  BY <1>1, <1>2, <1>3, <1>4, <1>5
<1> QED  BY <1>6 DEF m, f

(* A reply that has its room in the frame is an answer to its request. *)
LEMMA ReplyAnswers ==
  ASSUME NEW r \in FrameType, respLen \in RespLens, r.ihl = 5,
         Resized(r, respLen).len >= EthLen + IpLen + TcpLen + respLen
  PROVE  Answers(Reply(r, respLen), r)
<1> DEFINE f == Reply(r, respLen)
<1>1. /\ respLen \in Nat /\ IpLen + TcpLen + respLen \in Word
      /\ Resized(r, respLen).len \in Nat
  <2>1. respLen \in Nat /\ IpLen + TcpLen + respLen \in Word
    BY ResponseFits
  <2>2. Resized(r, respLen).len \in Int
    <3>1. Resized(r, respLen).len = r.len + ((TcpLen + respLen) - (r.totLen - IpLen))
      BY DEF Resized, FrameType
    <3> QED  BY <2>1, <3>1, FrameNumbers DEF TcpLen, IpLen
  <2> QED  BY <2>1, <2>2 DEF EthLen, IpLen, TcpLen
<1>2. /\ f.smac = r.dmac /\ f.dmac = r.smac /\ f.src = r.dst /\ f.dst = r.src
      /\ f.ihl = 5 /\ f.ttl = r.ttl /\ f.proto = r.proto /\ f.id = r.id
      /\ f.sport = r.dport /\ f.dport = r.sport
      /\ f.seq = r.ack /\ f.ack = (r.seq + (r.totLen - IpLen - 4 * r.doff)) % TcpMod
      /\ f.doff = 5 /\ f.totLen = IpLen + TcpLen + respLen
      /\ f.flags = (r.flags \cup {"ack", "psh"}) \ {"syn", "fin", "rst"}
      /\ f.len = r.len + ((TcpLen + respLen) - (r.totLen - IpLen))
      /\ f.text = Response /\ f.check = CsumFold(HeaderSum(f))
      /\ f.sum = Covered(f, TcpLen + respLen)
  BY <1>1, MeasuredFields, ReplyFields
<1>3. /\ r.ttl \in 0..255 /\ r.proto \in 0..255 /\ r.id \in Word /\ r.src \in Word
      /\ r.dst \in Word /\ r.flags \subseteq FlagNames /\ r.len \in Nat
  BY DEF FrameType
<1>4. Resized(r, respLen).len = f.len
  BY <1>1, <1>2 DEF Resized, FrameType
<1> HIDE DEF f
<1>5. HeaderValid(f)
  <2>1. HeaderSum(f) \in Nat /\ HeaderSum(f) < 65536 * 65536
    BY <1>1, <1>2, <1>3, HeaderSumBounds
  <2> QED  BY <1>2, <2>1, FoldedIsValid DEF HeaderValid
<1>6. f.flags \ {"urg"} = {"ack", "psh"}
  BY <1>2, <1>3 DEF FlagNames
<1>7. f.ack = (r.seq + (r.totLen - 4 * r.ihl - 4 * r.doff)) % TcpMod
  BY <1>2 DEF IpLen
<1>8. f.totLen = 4 * f.ihl + 4 * f.doff + respLen /\ f.totLen - 4 * f.ihl = TcpLen + respLen
  BY <1>1, <1>2 DEF IpLen, TcpLen
<1>9. f.len >= EthLen + f.totLen
  BY <1>1, <1>2, <1>3, <1>4 DEF EthLen, IpLen, TcpLen
<1>10. Answers(f, r)
  BY <1>2, <1>5, <1>6, <1>7, <1>8, <1>9 DEF Answers
<1> QED  BY <1>10 DEF f

-----------------------------------------------------------------------------
(* The two programs of ttl_ins.c. *)
LEMMA TtlPrograms ==
  /\ DOMAIN NewTtl = {"ttl3", "ttl10"}
  /\ \A p \in DOMAIN NewTtl : NewTtl[p] \in 0..255
BY DEF NewTtl

(* What is forwarded of frame r by program p, before it has its addresses. *)
Sent(p, r) ==
  IF p \in DOMAIN NewTtl /\ r.proto = TCP THEN WithTtl(r, NewTtl[p]) ELSE r

(* What a new TTL changes of a frame, and that its header stays as valid   *)
(* as it was.                                                              *)
LEMMA TtlFields ==
  ASSUME NEW r \in FrameType, NEW t \in 0..255
  PROVE  LET f == WithTtl(r, t) IN
    /\ f \in FrameType
    /\ f = [r EXCEPT !.ttl = t, !.check = f.check]
    /\ f.ttl = t /\ f.len = r.len
    /\ HeaderValid(f) <=> HeaderValid(r)
<1> DEFINE x == Updated(r.check, TtlWord(r.ttl, r.proto), TtlWord(t, r.proto))
           f == [r EXCEPT !.ttl = t, !.check = x]
<1>1. WithTtl(r, t) = f
  BY DEF WithTtl
<1>2. /\ r.check \in Nat /\ r.check < 65536 /\ r.ttl \in 0..255 /\ r.proto \in 0..255
      /\ HeaderSum(r) \in Nat
  BY FrameNumbers
<1>3. /\ TtlWord(r.ttl, r.proto) \in Nat /\ TtlWord(r.ttl, r.proto) < 65536
      /\ TtlWord(t, r.proto) \in Nat /\ TtlWord(t, r.proto) < 65536
  <2>1. /\ r.ttl \in Nat /\ r.ttl <= 255 /\ r.proto \in Nat /\ r.proto <= 255
        /\ t \in Nat /\ t <= 255
    BY <1>2
  <2> QED  BY <2>1 DEF TtlWord
<1>4. x \in Word
  <2>1. Fold(Fold(Complement(r.check) + Complement(TtlWord(r.ttl, r.proto))
               + TtlWord(t, r.proto))) \in Int
    BY <1>2, <1>3 DEF Fold, Complement
  <2> QED  BY <2>1, ComplementIsWord DEF Updated
<1>5. f \in FrameType
  BY <1>4, FrameEdits
<1>6. /\ f.ttl = t /\ f.check = x /\ f.len = r.len /\ f.ihl = r.ihl /\ f.totLen = r.totLen
      /\ f.id = r.id /\ f.proto = r.proto /\ f.src = r.src /\ f.dst = r.dst
  BY DEF FrameType
<1>7. f = [r EXCEPT !.ttl = t, !.check = f.check]
  BY <1>6
<1>8. /\ HeaderSum(f) = HeaderSum(r) - TtlWord(r.ttl, r.proto) + TtlWord(t, r.proto)
      /\ HeaderSum(r) >= TtlWord(r.ttl, r.proto)
  <2>1. /\ r.ihl \in Nat /\ r.totLen \in Nat /\ r.id \in Nat /\ r.src \in Nat /\ r.dst \in Nat
    BY FrameNumbers, WordBounds
  <2> HIDE DEF f, x
  <2> QED  BY <1>3, <1>6, <2>1 DEF HeaderSum
<1>9. HeaderValid(f) <=> HeaderValid(r)
  <2>1. (HeaderSum(f) + x) % 65535 = (HeaderSum(r) + r.check) % 65535
    BY <1>2, <1>3, <1>8, UpdatedIsAsValid
  <2> QED  BY <1>6, <2>1 DEF HeaderValid
<1> QED  BY <1>1, <1>5, <1>6, <1>7, <1>9

-----------------------------------------------------------------------------
(* Whose steps they are. *)
Owner ==
  /\ pc \in Reading \cup Writing => prog = "http"
  /\ pc \in Looking => prog \in {"bidir", "host"}
  /\ pc \in Looking \ {"bidir"} => prog = "host"
  /\ pc \in Updating => prog \in DOMAIN NewTtl
  /\ pc = "forward" => prog # "http"

(* http_response_craft.c has the request before it, then its half-made     *)
(* reply.  That it has no IPv4 options, and where its data ends, is known  *)
(* from the checks before the resize.                                      *)
Parsed ==
  /\ pc \in (Reading \ {"http", "ip"}) \cup Writing => received.ihl = 5
  /\ pc \in {"payload", "resize"} =>
       hdrLen = 4 * received.doff /\ received.totLen >= IpLen + hdrLen
  /\ pc \in {"resize"} \cup Writing =>
       payloadLen = received.totLen - IpLen - 4 * received.doff

Crafted ==
  /\ pc \in Reading => frame = received
  /\ pc \in {"again", "options", "room", "macs"} => frame = Resized(received, respLen)
  /\ pc = "ips" => frame = Turned(received, respLen)
  /\ pc = "seq" => frame = Returning(received, respLen)
  /\ pc = "ports" => frame = Acknowledging(received, respLen)
  /\ pc = "flags" => frame = Answering(received, respLen)
  /\ pc = "size" => frame = Flagged(received, respLen)
  /\ pc = "text" => frame = Measured(received, respLen)
  /\ pc = "check" => frame = Filled(received, respLen)
  /\ pc = "sum" => frame = Checked(received, respLen)
  /\ pc \in Writing => Resized(received, respLen).len \in Nat
  /\ pc \in Writing \ {"again", "options", "room"} =>
       Resized(received, respLen).len >= EthLen + IpLen + TcpLen + respLen

(* How its runs end. *)
Answered ==
  /\ verdict = "PASS" /\ prog = "http" => frame = received
  /\ verdict = "TX" =>
       /\ prog = "http" /\ received.ihl = 5
       /\ frame = Reply(received, respLen)
       /\ Resized(received, respLen).len >= EthLen + IpLen + TcpLen + respLen

(* The other programs have the frame as it arrived, or with a new TTL, and *)
(* end in one of three ways.                                               *)
Entered ==
  {"host_ip", "host_tcp", "inspect", "scan", "spaces", "copy", "print", "ttl_ip", "ttl",
   "forward"}

Forwarding ==
  /\ pc # "done" => out = NoPort
  /\ pc \in Looking \cup Updating => frame = received
  /\ pc \in Entered => EthernetVerdict(received) = "none"
  /\ pc = "host_tcp" => received.proto = TCP
  /\ pc \in {"scan", "spaces", "copy"} => pos >= 1
  /\ pc = "forward" => frame = Sent(prog, received)
  /\ pc = "done" /\ prog # "http" =>
       \/ /\ verdict = EthernetVerdict(received) /\ verdict # "none"
          /\ out = NoPort /\ frame = received
       \/ /\ EthernetVerdict(received) = "none"
          /\ out = Across(ingress) /\ frame = Addressed(Sent(prog, received), ingress)
          /\ verdict = IF out = NoPort THEN "PASS" ELSE "REDIRECT"
       \/ verdict = "DROP" /\ Malformed(received)

Inv == TypeOK /\ Owner /\ Parsed /\ Crafted /\ Answered /\ Forwarding

-----------------------------------------------------------------------------
(* The step of a program that is not at its end, from its verdict. *)
LEMMA Going == ASSUME Inv, pc # "done" PROVE verdict = "none"
BY DEF Inv, TypeOK, FrameTypeOK

(* The checks before the resize. *)
LEMMA StepReading ==
  ASSUME Inv, Ethernet \/ Ipv4 \/ TotalLength \/ BaseHeader \/ Target
  PROVE  Inv'
<1>1. /\ UNCHANGED <<prog, respLen, ingress, received, frame, out, hdrLen, payloadLen,
                     pos, name, reported>>
      /\ pc \in {"http", "ip", "length", "tcp", "target"}
      /\ \/ pc' = "done" /\ verdict' = "PASS"
         \/ verdict' = verdict /\ pc = "http" /\ pc' = "ip"
         \/ verdict' = verdict /\ pc = "ip" /\ pc' = "length" /\ frame.ihl = 5
         \/ verdict' = verdict /\ pc = "length" /\ pc' = "tcp"
         \/ verdict' = verdict /\ pc = "tcp" /\ pc' = "target"
         \/ verdict' = verdict /\ pc = "target" /\ pc' = "header"
  BY DEF Ethernet, Ipv4, TotalLength, BaseHeader, Target, Check, Return, Goto,
     build, input, locals
<1>2. frame = received /\ verdict = "none" /\ prog = "http"
  BY <1>1, Going DEF Inv, Crafted, Owner, Reading
<1>3. TypeOK'
  BY <1>1 DEF Inv, TypeOK, FrameTypeOK, Reading, Writing, Looking, Updating
<1>4. Owner'
  BY <1>1, <1>2 DEF Owner, Reading, Writing, Looking, Updating, NewTtl
<1>5. Parsed'
  BY <1>1, <1>2 DEF Inv, Parsed, Reading, Writing
<1>6. Crafted'
  BY <1>1, <1>2 DEF Crafted, Reading, Writing
<1>7. Answered'
  BY <1>1, <1>2 DEF Answered
<1>8. Forwarding'
  BY <1>1, <1>2 DEF Inv, Forwarding, Reading, Looking, Updating, Entered, NewTtl
<1> QED  BY <1>3, <1>4, <1>5, <1>6, <1>7, <1>8 DEF Inv

(* 7: after it the data of the request has a place and an end. *)
LEMMA StepHeaderLength ==
  ASSUME Inv, HeaderLength PROVE Inv'
<1>1. /\ UNCHANGED <<prog, respLen, ingress, received, frame, out, payloadLen,
                     pos, name, reported>>
      /\ pc = "header" /\ hdrLen' = 4 * frame.doff
      /\ \/ pc' = "done" /\ verdict' = "PASS"
         \/ pc' = "payload" /\ verdict' = verdict /\ ~(frame.totLen < IpLen + hdrLen')
  BY DEF HeaderLength, Return, Goto, build, input
<1>2. frame = received /\ verdict = "none" /\ prog = "http"
  BY <1>1, Going DEF Inv, Crafted, Owner, Reading
<1>3. frame.doff \in 0..15 /\ frame.totLen \in Nat /\ hdrLen' \in 0..60
  <2>1. frame.doff \in 0..15 /\ frame.totLen \in Nat
    BY FrameNumbers DEF Inv, TypeOK, FrameTypeOK
  <2>2. frame.doff \in Nat /\ frame.doff <= 15
    BY <2>1
  <2> QED  BY <1>1, <2>1, <2>2
<1>4. TypeOK'
  BY <1>1, <1>3 DEF Inv, TypeOK, FrameTypeOK, Reading, Writing, Looking, Updating
<1>5. Owner'
  BY <1>1, <1>2 DEF Owner, Reading, Writing, Looking, Updating, NewTtl
<1>6. Parsed'
  BY <1>1, <1>2, <1>3 DEF Inv, Parsed, Reading, Writing, IpLen
<1>7. Crafted'
  BY <1>1, <1>2 DEF Crafted, Reading, Writing
<1>8. Answered'
  BY <1>1, <1>2 DEF Answered
<1>9. Forwarding'
  BY <1>1, <1>2 DEF Inv, Forwarding, Reading, Looking, Updating, Entered, NewTtl
<1> QED  BY <1>4, <1>5, <1>6, <1>7, <1>8, <1>9 DEF Inv

(* 8: the data of the request has a length. *)
LEMMA StepPayloadLength ==
  ASSUME Inv, PayloadLength PROVE Inv'
<1>1. /\ UNCHANGED <<prog, respLen, ingress, received, frame, out, hdrLen,
                     pos, name, reported>>
      /\ pc = "payload" /\ payloadLen' = frame.totLen - IpLen - hdrLen
      /\ \/ pc' = "done" /\ verdict' = "PASS"
         \/ pc' = "resize" /\ verdict' = verdict
  BY DEF PayloadLength, Return, Goto, build, input
<1>2. frame = received /\ verdict = "none" /\ prog = "http"
  BY <1>1, Going DEF Inv, Crafted, Owner, Reading
<1>3. hdrLen = 4 * received.doff /\ received.totLen >= IpLen + hdrLen
  BY <1>1 DEF Inv, Parsed
<1>4. payloadLen' \in Word
  <2>1. frame.totLen \in Nat /\ frame.totLen <= 65535 /\ hdrLen \in Nat
    BY FrameNumbers DEF Inv, TypeOK, FrameTypeOK
  <2>2. payloadLen' \in Int /\ 0 <= payloadLen' /\ payloadLen' <= 65535
    BY <1>1, <1>2, <1>3, <2>1 DEF IpLen
  <2> QED  BY <2>2, WordBounds
<1>5. TypeOK'
  BY <1>1, <1>4 DEF Inv, TypeOK, FrameTypeOK, Reading, Writing, Looking, Updating
<1>6. Owner'
  BY <1>1, <1>2 DEF Owner, Reading, Writing, Looking, Updating, NewTtl
<1>7. Parsed'
  BY <1>1, <1>2, <1>3 DEF Inv, Parsed, Reading, Writing
<1>8. Crafted'
  BY <1>1, <1>2 DEF Crafted, Reading, Writing
<1>9. Answered'
  BY <1>1, <1>2 DEF Answered
<1>10. Forwarding'
  BY <1>1, <1>2 DEF Inv, Forwarding, Reading, Looking, Updating, Entered, NewTtl
<1> QED  BY <1>5, <1>6, <1>7, <1>8, <1>9, <1>10 DEF Inv

(* 9: from here on the frame is the reply in the making. *)
LEMMA StepResize ==
  ASSUME Inv, Resize PROVE Inv'
<1>1. /\ UNCHANGED <<prog, respLen, ingress, received, out, hdrLen, payloadLen,
                     pos, name, reported>>
      /\ pc = "resize"
      /\ \/ pc' = "done" /\ verdict' = "PASS" /\ frame' = frame
         \/ /\ pc' = "again" /\ verdict' = verdict /\ TailFits(frame.len + Delta)
            /\ frame' = [frame EXCEPT !.len = @ + Delta]
  BY DEF Resize, Return, Goto, build, input, locals
<1>2. frame = received /\ verdict = "none" /\ prog = "http"
  BY <1>1, Going DEF Inv, Crafted, Owner, Reading
<1>3. /\ received.ihl = 5 /\ hdrLen = 4 * received.doff
      /\ payloadLen = received.totLen - IpLen - hdrLen
      /\ payloadLen = received.totLen - IpLen - 4 * received.doff
  BY <1>1 DEF Inv, Parsed, Reading
<1>4. /\ frame \in FrameType /\ frame.len \in Nat /\ received.totLen \in Nat
      /\ hdrLen \in Nat /\ respLen \in Nat /\ frame.len <= MaxLen
  BY <1>2, FrameNumbers, ResponseFits DEF Inv, TypeOK, FrameTypeOK
<1>5. Delta = (TcpLen + respLen) - (received.totLen - IpLen) /\ Delta \in Int
  BY <1>3, <1>4 DEF Delta, TcpLen, IpLen
<1>6. CASE pc' = "done" /\ verdict' = "PASS" /\ frame' = frame
  <2>1. TypeOK'
    BY <1>1, <1>6 DEF Inv, TypeOK, FrameTypeOK, Reading, Writing, Looking, Updating
  <2>2. Owner' /\ Parsed' /\ Crafted'
    BY <1>6 DEF Owner, Parsed, Crafted, Reading, Writing, Looking, Updating, NewTtl
  <2>3. Answered' /\ Forwarding'
    BY <1>1, <1>2, <1>6 DEF Answered, Forwarding, Looking, Updating, Entered, NewTtl
  <2> QED  BY <2>1, <2>2, <2>3 DEF Inv
<1>7. CASE /\ pc' = "again" /\ verdict' = verdict /\ TailFits(frame.len + Delta)
           /\ frame' = [frame EXCEPT !.len = @ + Delta]
  <2>1. frame' = Resized(received, respLen)
    BY <1>2, <1>5, <1>7 DEF Resized
  <2>2. frame.len + Delta \in Nat /\ frame.len + Delta <= MaxLen
    BY <1>4, <1>5, <1>7 DEF TailFits, EthLen
  <2>3. frame' \in FrameType
    BY <1>4, <1>7, <2>2, FrameEdits
  <2>4. frame'.len = frame.len + Delta
    BY <1>4, <1>7 DEF FrameType
  <2>5. TypeOK'
    BY <1>1, <1>7, <2>2, <2>3, <2>4 DEF Inv, TypeOK, FrameTypeOK, Reading, Writing, Looking,
       Updating
  <2>6. Owner' /\ Parsed'
    BY <1>1, <1>2, <1>3, <1>7 DEF Owner, Parsed, Reading, Writing, Looking, Updating, NewTtl
  <2>7. Crafted'
    BY <1>1, <1>7, <2>1, <2>2, <2>4 DEF Crafted, Reading, Writing
  <2>8. Answered' /\ Forwarding'
    BY <1>1, <1>2, <1>7 DEF Inv, Answered, Forwarding, Looking, Updating, Entered, NewTtl
  <2> QED  BY <2>5, <2>6, <2>7, <2>8 DEF Inv
<1> QED  BY <1>1, <1>6, <1>7

(* What every later section can use. *)
LEMMA InReply ==
  ASSUME Inv, pc \in Writing
  PROVE  /\ verdict = "none" /\ prog = "http" /\ out = NoPort
         /\ received \in FrameType /\ respLen \in RespLens /\ respLen \in Nat
         /\ IpLen + TcpLen + respLen \in Word /\ Resized(received, respLen).len \in Nat
         /\ frame \in FrameType /\ frame.len <= MaxLen
         /\ received.ihl = 5
         /\ payloadLen = received.totLen - IpLen - 4 * received.doff
<1>1. pc # "done"
  BY DEF Writing
<1> QED  BY <1>1, Going, ResponseFits
         DEF Inv, TypeOK, FrameTypeOK, Owner, Forwarding, Crafted, Parsed

(* 10: the second check of ihl never fails, so that no half-made reply is  *)
(* passed.                                                                 *)
LEMMA StepReadAgain ==
  ASSUME Inv, ReadAgain \/ NoOptions \/ RoomForResponse PROVE Inv'
<1>1. /\ UNCHANGED <<prog, respLen, ingress, received, frame, out, hdrLen, payloadLen,
                     pos, name, reported>>
      /\ pc \in {"again", "options", "room"}
      /\ \/ pc' = "done" /\ verdict' = "DROP"
         \/ pc' = "done" /\ verdict' = "PASS" /\ frame.ihl # 5
         \/ verdict' = verdict /\ pc = "again" /\ pc' = "options"
         \/ verdict' = verdict /\ pc = "options" /\ pc' = "room"
         \/ verdict' = verdict /\ pc = "room" /\ pc' = "macs"
            /\ ~(frame.len < EthLen + IpLen + TcpLen + respLen)
  BY DEF ReadAgain, NoOptions, RoomForResponse, Check, Return, Goto, build, input, locals
<1>2. pc \in Writing /\ frame = Resized(received, respLen)
  BY <1>1 DEF Inv, Crafted, Writing
<1>3. frame.ihl = 5
  BY <1>2, InReply DEF Resized, FrameType
<1>4. frame.len \in Nat /\ EthLen + IpLen + TcpLen + respLen \in Nat
  BY <1>2, InReply, FrameNumbers DEF EthLen, IpLen, TcpLen
<1>5. TypeOK'
  BY <1>1 DEF Inv, TypeOK, FrameTypeOK, Reading, Writing, Looking, Updating
<1>6. Owner' /\ Parsed'
  BY <1>1, <1>2, InReply DEF Owner, Parsed, Reading, Writing, Looking, Updating, NewTtl
<1>7. Crafted'
  BY <1>1, <1>2, <1>4, InReply DEF Crafted, Reading, Writing
<1>8. Answered' /\ Forwarding'
  BY <1>1, <1>2, <1>3, InReply DEF Answered, Forwarding, Looking, Updating, Entered, NewTtl
<1> QED  BY <1>5, <1>6, <1>7, <1>8 DEF Inv

(* 11 to 18: each section makes the next frame of the reply. *)
LEMMA StepWriting ==
  ASSUME Inv,
         \/ SwapMacs \/ SwapIps \/ Acknowledge \/ SwapPorts
         \/ SetFlags \/ NewLength \/ WriteResponse \/ IpChecksum
  PROVE  Inv'
<1>1. /\ UNCHANGED <<prog, respLen, ingress, received, out, hdrLen, payloadLen,
                     pos, name, reported>>
      /\ pc \in Writing \ {"again", "options", "room", "sum"}
      /\ \/ /\ pc' = "done" /\ verdict' = "DROP" /\ frame' = frame
         \/ /\ pc = "macs" /\ pc' = "ips" /\ verdict' = verdict
            /\ frame' = [frame EXCEPT !.smac = frame.dmac, !.dmac = frame.smac]
         \/ /\ pc = "ips" /\ pc' = "seq" /\ verdict' = verdict
            /\ frame' = [frame EXCEPT !.src = frame.dst, !.dst = frame.src]
         \/ /\ pc = "seq" /\ pc' = "ports" /\ verdict' = verdict
            /\ frame' = [frame EXCEPT !.seq = frame.ack,
                                      !.ack = (frame.seq + payloadLen) % TcpMod]
         \/ /\ pc = "ports" /\ pc' = "flags" /\ verdict' = verdict
            /\ frame' = [frame EXCEPT !.sport = frame.dport, !.dport = frame.sport]
         \/ /\ pc = "flags" /\ pc' = "size" /\ verdict' = verdict
            /\ frame' = [frame EXCEPT !.doff = 5,
                           !.flags = (@ \cup {"ack", "psh"}) \ {"syn", "fin", "rst"}]
         \/ /\ pc = "size" /\ pc' = "text" /\ verdict' = verdict
            /\ frame' = [frame EXCEPT !.totLen = IpLen + TcpLen + respLen]
         \/ /\ pc = "text" /\ pc' = "check" /\ verdict' = verdict
            /\ frame' = [frame EXCEPT !.text = Response]
         \/ /\ pc = "check" /\ pc' = "sum" /\ verdict' = verdict
            /\ frame' = [frame EXCEPT !.check = CsumFold(HeaderSum(frame))]
  BY DEF SwapMacs, SwapIps, Acknowledge, SwapPorts, SetFlags, NewLength, WriteResponse,
     IpChecksum, Rewrite, Return, Goto, build, input, locals, Writing
<1>2. pc \in Writing /\ pc \notin {"again", "options", "room"}
  BY <1>1
<1>3. frame \in FrameType /\ frame.len <= MaxLen
  BY <1>2, InReply
<1>4. frame'.len = frame.len
  BY <1>1, <1>3, ZenonT(60) DEF FrameType
<1>5. \/ pc' = "done" /\ verdict' = "DROP" /\ frame' = frame
      \/ verdict' = "none" /\ pc' = "ips" /\ frame' = Turned(received, respLen)
      \/ verdict' = "none" /\ pc' = "seq" /\ frame' = Returning(received, respLen)
      \/ verdict' = "none" /\ pc' = "ports" /\ frame' = Acknowledging(received, respLen)
      \/ verdict' = "none" /\ pc' = "flags" /\ frame' = Answering(received, respLen)
      \/ verdict' = "none" /\ pc' = "size" /\ frame' = Flagged(received, respLen)
      \/ verdict' = "none" /\ pc' = "text" /\ frame' = Measured(received, respLen)
      \/ verdict' = "none" /\ pc' = "check" /\ frame' = Filled(received, respLen)
      \/ verdict' = "none" /\ pc' = "sum" /\ frame' = Checked(received, respLen)
  <2>1. verdict = "none" /\ payloadLen = received.totLen - IpLen - 4 * received.doff
    BY <1>2, InReply
  <2>2. /\ pc = "macs" => frame = Resized(received, respLen)
        /\ pc = "ips" => frame = Turned(received, respLen)
        /\ pc = "seq" => frame = Returning(received, respLen)
        /\ pc = "ports" => frame = Acknowledging(received, respLen)
        /\ pc = "flags" => frame = Answering(received, respLen)
        /\ pc = "size" => frame = Flagged(received, respLen)
        /\ pc = "text" => frame = Measured(received, respLen)
        /\ pc = "check" => frame = Filled(received, respLen)
    BY DEF Inv, Crafted
  <2>3. CASE pc' = "done" /\ verdict' = "DROP" /\ frame' = frame
    BY <2>3
  <2>4. CASE pc = "macs" /\ pc' = "ips"
    BY <1>1, <2>1, <2>2, <2>4 DEF Turned
  <2>5. CASE pc = "ips" /\ pc' = "seq"
    BY <1>1, <2>1, <2>2, <2>5 DEF Returning
  <2>6. CASE pc = "seq" /\ pc' = "ports"
    BY <1>1, <2>1, <2>2, <2>6 DEF Acknowledging
  <2>7. CASE pc = "ports" /\ pc' = "flags"
    BY <1>1, <2>1, <2>2, <2>7 DEF Answering
  <2>8. CASE pc = "flags" /\ pc' = "size"
    BY <1>1, <2>1, <2>2, <2>8 DEF Flagged
  <2>9. CASE pc = "size" /\ pc' = "text"
    BY <1>1, <2>1, <2>2, <2>9 DEF Measured
  <2>10. CASE pc = "text" /\ pc' = "check"
    BY <1>1, <2>1, <2>2, <2>10 DEF Filled
  <2>11. CASE pc = "check" /\ pc' = "sum"
    BY <1>1, <2>1, <2>2, <2>11 DEF Checked
  <2> QED  BY <1>1, <2>3, <2>4, <2>5, <2>6, <2>7, <2>8, <2>9, <2>10, <2>11
<1>6. frame' \in FrameType
  BY <1>2, <1>3, <1>5, InReply, ReplyTypes
<1>7. TypeOK'
  BY <1>1, <1>3, <1>4, <1>5, <1>6 DEF Inv, TypeOK, FrameTypeOK, Reading, Writing, Looking,
     Updating
<1>8. Owner' /\ Parsed'
  BY <1>1, <1>2, <1>5, InReply DEF Owner, Parsed, Reading, Writing, Looking, Updating, NewTtl
<1>9. Crafted'
  BY <1>1, <1>2, <1>5 DEF Inv, Crafted, Reading, Writing
<1>10. Answered' /\ Forwarding'
  BY <1>1, <1>2, <1>5, InReply DEF Answered, Forwarding, Looking, Updating, Entered, NewTtl
<1> QED  BY <1>7, <1>8, <1>9, <1>10 DEF Inv

(* 19 and 20 *)
LEMMA StepTcpChecksum ==
  ASSUME Inv, TcpChecksum PROVE Inv'
<1>1. /\ UNCHANGED <<prog, respLen, ingress, received, out, hdrLen, payloadLen,
                     pos, name, reported>>
      /\ pc = "sum" /\ pc' = "done"
      /\ \/ verdict' = "DROP" /\ frame' = frame
         \/ /\ verdict' = "TX"
            /\ frame' = [frame EXCEPT !.sum = Covered(frame, TcpLen + respLen)]
  BY DEF TcpChecksum, Return, build, input, locals
<1>2. pc \in Writing /\ frame = Checked(received, respLen)
      /\ Resized(received, respLen).len >= EthLen + IpLen + TcpLen + respLen
  BY <1>1 DEF Inv, Crafted, Writing
<1>3. verdict' = "TX" => frame' = Reply(received, respLen)
  BY <1>1, <1>2 DEF Reply
<1>4. frame' \in FrameType /\ frame'.len = frame.len
  <2>1. frame \in FrameType
    BY <1>2, InReply
  <2>2. frame'.len = frame.len
    BY <1>1, <2>1 DEF FrameType
  <2>3. Reply(received, respLen) \in FrameType
    BY <1>2, InReply, ReplyTypes
  <2> QED  BY <1>1, <1>3, <2>1, <2>2, <2>3
<1>5. TypeOK'
  BY <1>1, <1>4 DEF Inv, TypeOK, FrameTypeOK
<1>6. Owner' /\ Parsed' /\ Crafted'
  BY <1>1 DEF Owner, Parsed, Crafted, Reading, Writing, Looking, Updating, NewTtl
<1>7. Answered' /\ Forwarding'
  BY <1>1, <1>2, <1>3, InReply DEF Answered, Forwarding, Looking, Updating, Entered, NewTtl
<1> QED  BY <1>5, <1>6, <1>7 DEF Inv

-----------------------------------------------------------------------------
(* The first checks of the other programs. *)
LEMMA StepEnter ==
  ASSUME Inv, Bidir \/ HostEthernet \/ TtlEthernet PROVE Inv'
<1>1. /\ UNCHANGED <<prog, respLen, ingress, received, frame, out, hdrLen, payloadLen,
                     pos, name, reported>>
      /\ \/ pc = "bidir" \/ pc = "host" \/ pc \in DOMAIN NewTtl
      /\ \/ /\ pc' = "done" /\ verdict' = EthernetVerdict(frame) /\ verdict' # "none"
         \/ /\ verdict' = verdict /\ EthernetVerdict(frame) = "none"
            /\ \/ pc = "bidir" /\ pc' = "forward"
               \/ pc = "host" /\ pc' = "host_ip"
               \/ pc \in DOMAIN NewTtl /\ pc' = "ttl_ip"
  BY DEF Bidir, HostEthernet, TtlEthernet, Enter, Check, Return, Goto, build, input, locals
<1>2. /\ frame = received /\ verdict = "none" /\ prog # "http" /\ out = NoPort
      /\ pc = "bidir" => prog = "bidir" \/ prog = "host"
      /\ pc = "host" => prog = "host"
      /\ pc \in DOMAIN NewTtl => prog \in DOMAIN NewTtl
  BY <1>1, Going DEF Inv, Owner, Forwarding, Looking, Updating, NewTtl
<1>3. EthernetVerdict(frame) \in {"none", "PASS", "DROP"}
  BY DEF EthernetVerdict
<1>4. TypeOK'
  BY <1>1, <1>2, <1>3 DEF Inv, TypeOK, FrameTypeOK, Reading, Writing, Looking, Updating
<1>5. Owner' /\ Parsed' /\ Crafted'
  BY <1>1, <1>2 DEF Owner, Parsed, Crafted, Reading, Writing, Looking, Updating, NewTtl
<1>6. Answered'
  BY <1>1, <1>2, <1>3 DEF Answered
<1>7. Forwarding'
  <2>1. pc' = "forward" => Sent(prog, received) = received
    <3>1. pc' = "forward" => pc = "bidir"
      BY <1>1
    <3>2. pc = "bidir" => prog \notin DOMAIN NewTtl
      BY <1>2 DEF NewTtl
    <3> QED  BY <3>1, <3>2 DEF Sent
  <2> QED  BY <1>1, <1>2, <2>1 DEF Forwarding, Looking, Updating, Entered, NewTtl
<1> QED  BY <1>4, <1>5, <1>6, <1>7 DEF Inv

(* The inspection of host_name_ins.c. *)
LEMMA StepHost ==
  ASSUME Inv, HostIpv4 \/ HostTcp \/ Inspect \/ Scan \/ SkipSpaces \/ Copy \/ PrintHost
  PROVE  Inv'
<1>1. /\ UNCHANGED <<prog, respLen, ingress, received, frame, out, hdrLen, payloadLen>>
      /\ pc \in {"host_ip", "host_tcp", "inspect", "scan", "spaces", "copy", "print"}
      /\ \/ /\ pc' = "done" /\ verdict' = "DROP"
            /\ \/ pc = "host_ip" /\ frame.len < EthLen + IpLen
               \/ pc = "host_tcp" /\ ~TcpReadable(frame)
         \/ verdict' = verdict /\ pc' = "host_tcp" /\ frame.proto = TCP
         \/ verdict' = verdict
            /\ pc' \in {"inspect", "scan", "spaces", "copy", "print", "forward"}
  BY DEF HostIpv4, HostTcp, Inspect, Scan, SkipSpaces, Copy, PrintHost, Check, Return, Goto,
     build, input, locals
<1>2. /\ frame = received /\ verdict = "none" /\ prog = "host" /\ out = NoPort
      /\ EthernetVerdict(received) = "none"
      /\ pc = "host_tcp" => received.proto = TCP
  BY <1>1, Going DEF Inv, Owner, Forwarding, Looking, Entered
<1>3. pos' \in Nat /\ name' \in Seq(STRING) /\ reported' \in Seq(STRING) \cup {NoName}
  <2>1. /\ pos \in Nat /\ name \in Seq(STRING) /\ reported \in Seq(STRING) \cup {NoName}
        /\ frame \in FrameType /\ MaxSpaces \in Nat
    BY BoundsOK DEF Inv, TypeOK, FrameTypeOK
  <2>2. frame.text \in Seq(STRING)
    BY <2>1 DEF FrameType
  <2>3. CASE HostIpv4 \/ HostTcp
    BY <2>1, <2>3 DEF HostIpv4, HostTcp, Check, locals
  <2>4. CASE Inspect \/ Scan \/ PrintHost
    BY <2>1, <2>4 DEF Inspect, Scan, PrintHost
  <2>5. CASE SkipSpaces
    <3>1. PICK n \in 0..MaxSpaces : pos' = pos + n
      BY <2>5 DEF SkipSpaces
    <3>2. name' = name /\ reported' = reported
      BY <2>5 DEF SkipSpaces
    <3> QED  BY <2>1, <3>1, <3>2
  <2>6. CASE Copy
    <3>1. CASE name' = name
      BY <2>1, <2>6, <3>1 DEF Copy
    <3>2. CASE name' # name
      <4> DEFINE at == pos + Len(name)
      <4>1. /\ name' = Append(name, frame.text[at]) /\ at \in 1..Len(frame.text)
            /\ pos' = pos /\ reported' = reported
        <5>1. ~(at > Len(frame.text)) /\ name' = Append(name, frame.text[at])
          BY <2>6, <3>2 DEF Copy
        <5>2. at \in Nat /\ at >= 1 /\ Len(frame.text) \in Nat
          <6>1. pos >= 1
            BY <2>6 DEF Copy, Inv, Forwarding
          <6> QED  BY <2>1, <2>2, <6>1
        <5> QED  BY <2>6, <5>1, <5>2 DEF Copy
      <4>2. frame.text[at] \in STRING
        BY <2>2, <4>1
      <4> QED  BY <2>1, <4>1, <4>2
    <3> QED  BY <3>1, <3>2
  <2> QED  BY <2>3, <2>4, <2>5, <2>6
<1>4. TypeOK'
  BY <1>1, <1>2, <1>3 DEF Inv, TypeOK, FrameTypeOK, Reading, Writing, Looking, Updating
<1>5. Owner' /\ Parsed' /\ Crafted'
  BY <1>1, <1>2 DEF Owner, Parsed, Crafted, Reading, Writing, Looking, Updating, NewTtl
<1>6. Answered'
  BY <1>1, <1>2 DEF Answered
<1>7. Forwarding'
  <2>1. Sent(prog, received) = received
    BY <1>2 DEF Sent, NewTtl
  <2>2. pc' = "done" => Malformed(received)'
    BY <1>1, <1>2 DEF Malformed
  <2>3. pc' \in {"scan", "spaces", "copy"} => pos' >= 1
    <3>1. /\ pc \in {"scan", "spaces", "copy"} => pos >= 1
          /\ pos \in Nat /\ MaxSpaces \in Nat
      BY BoundsOK DEF Inv, Forwarding, TypeOK, FrameTypeOK
    <3>2. pc' \in {"scan", "spaces", "copy"} =>
            \/ pos' = 1
            \/ /\ pc \in {"scan", "spaces", "copy"}
               /\ \/ pos' = pos \/ pos' = pos + 1
                  \/ \E n \in 0..MaxSpaces : pos' = pos + n
      BY DEF HostIpv4, HostTcp, Inspect, Scan, SkipSpaces, Copy, PrintHost, Check, Return,
         Goto
    <3> QED  BY <3>1, <3>2
  <2> QED  BY <1>1, <1>2, <2>1, <2>2, <2>3 DEF Forwarding, Looking, Updating, Entered, NewTtl
<1> QED  BY <1>4, <1>5, <1>6, <1>7 DEF Inv

(* ttl_ins.c *)
LEMMA StepTtlIpv4 ==
  ASSUME Inv, TtlIpv4 PROVE Inv'
<1>1. /\ UNCHANGED <<prog, respLen, ingress, received, frame, out, hdrLen, payloadLen,
                     pos, name, reported>>
      /\ pc = "ttl_ip"
      /\ \/ /\ pc' = "done" /\ verdict' = "DROP"
            /\ \/ frame.len < EthLen + IpLen \/ frame.ihl < 5
               \/ frame.len < EthLen + 4 * frame.ihl
         \/ verdict' = verdict /\ pc' = "ttl"
  BY DEF TtlIpv4, Check, Return, Goto, build, input, locals
<1>2. /\ frame = received /\ verdict = "none" /\ prog \in DOMAIN NewTtl /\ out = NoPort
      /\ EthernetVerdict(received) = "none"
  BY <1>1, Going DEF Inv, Owner, Forwarding, Updating, Entered
<1>3. TypeOK'
  BY <1>1 DEF Inv, TypeOK, FrameTypeOK, Reading, Writing, Looking, Updating
<1>4. Owner' /\ Parsed' /\ Crafted'
  BY <1>1, <1>2 DEF Owner, Parsed, Crafted, Reading, Writing, Looking, Updating, NewTtl
<1>5. Answered'
  BY <1>1, <1>2 DEF Answered
<1>6. Forwarding'
  <2>1. pc' = "done" => Malformed(received)'
    BY <1>1, <1>2 DEF Malformed
  <2> QED  BY <1>1, <1>2, <2>1 DEF Forwarding, Looking, Updating, Entered, NewTtl
<1> QED  BY <1>3, <1>4, <1>5, <1>6 DEF Inv

(* The rewriting of the TTL makes the frame that is sent on. *)
LEMMA StepRewriteTtl ==
  ASSUME Inv, RewriteTtl PROVE Inv'
<1>1. /\ UNCHANGED <<prog, respLen, ingress, received, out, hdrLen, payloadLen,
                     pos, name, reported>>
      /\ pc = "ttl" /\ pc' = "forward" /\ verdict' = verdict
      /\ frame' = IF frame.proto = TCP THEN WithTtl(frame, NewTtl[prog]) ELSE frame
  BY DEF RewriteTtl, Rewrite, Goto, build, input, locals
<1>2. /\ frame = received /\ verdict = "none" /\ prog \in DOMAIN NewTtl /\ out = NoPort
      /\ EthernetVerdict(received) = "none"
  BY <1>1, Going DEF Inv, Owner, Forwarding, Updating, Entered
<1>3. frame' = Sent(prog, received)
  BY <1>1, <1>2 DEF Sent
<1>4. frame' \in FrameType /\ frame'.len = frame.len
  <2>1. frame \in FrameType /\ NewTtl[prog] \in 0..255
    BY <1>2, TtlPrograms DEF Inv, TypeOK, FrameTypeOK
  <2> QED  BY <1>1, <2>1, TtlFields
<1>5. TypeOK'
  BY <1>1, <1>4 DEF Inv, TypeOK, FrameTypeOK, Reading, Writing, Looking, Updating
<1>6. Owner' /\ Parsed' /\ Crafted'
  BY <1>1, <1>2 DEF Owner, Parsed, Crafted, Reading, Writing, Looking, Updating, NewTtl
<1>7. Answered'
  BY <1>1, <1>2 DEF Answered
<1>8. Forwarding'
  BY <1>1, <1>2, <1>3 DEF Forwarding, Looking, Updating, Entered, NewTtl
<1> QED  BY <1>5, <1>6, <1>7, <1>8 DEF Inv

(* A frame with its new addresses differs in nothing else. *)
LEMMA AddressedFields ==
  ASSUME NEW f \in FrameType, NEW p \in Ports
  PROVE  /\ Addressed(f, p) \in FrameType /\ Across(p) \in Ports \cup {NoPort}
         /\ LET g == Addressed(f, p) IN
              /\ g.len = f.len
              /\ g = [f EXCEPT !.dmac = g.dmac, !.smac = g.smac]
              /\ Across(p) = NoPort => g = f
              /\ Across(p) # NoPort =>
                   g.dmac = PeerMac[Across(p)] /\ g.smac = OwnMac[Across(p)]
<1>1. Across(p) \in {PortA, PortB} \cup {NoPort} /\ Across(p) \in Ports \cup {NoPort}
  BY PortsOK DEF Across
<1>2. CASE Across(p) = NoPort
  <2>1. Addressed(f, p) = f
    BY <1>2 DEF Addressed
  <2>2. f = [f EXCEPT !.dmac = f.dmac, !.smac = f.smac]
    BY DEF FrameType
  <2> QED  BY <1>1, <1>2, <2>1, <2>2
<1>3. CASE Across(p) # NoPort
  <2> DEFINE x == PeerMac[Across(p)]  y == OwnMac[Across(p)]
  <2>1. x \in Nat /\ y \in Nat
    BY <1>1, <1>3, PortsOK
  <2>2. Addressed(f, p) = [f EXCEPT !.dmac = x, !.smac = y]
    BY <1>3 DEF Addressed
  <2>3. [f EXCEPT !.dmac = x, !.smac = y] \in FrameType
    BY <2>1, FrameEdits
  <2>4. /\ [f EXCEPT !.dmac = x, !.smac = y].len = f.len
        /\ [f EXCEPT !.dmac = x, !.smac = y].dmac = x
        /\ [f EXCEPT !.dmac = x, !.smac = y].smac = y
    BY DEF FrameType
  <2> HIDE DEF x, y
  <2>5. Addressed(f, p).dmac = x /\ Addressed(f, p).smac = y /\ Addressed(f, p).len = f.len
    BY <2>2, <2>4
  <2>6. Addressed(f, p) = [f EXCEPT !.dmac = Addressed(f, p).dmac,
                                    !.smac = Addressed(f, p).smac]
    BY <2>2, <2>5
  <2> QED  BY <1>1, <1>3, <2>2, <2>3, <2>5, <2>6 DEF x, y
<1> QED  BY <1>2, <1>3

(* The end of every program that forwards. *)
LEMMA StepForward ==
  ASSUME Inv, Forward PROVE Inv'
<1>1. /\ UNCHANGED <<prog, respLen, ingress, received, hdrLen, payloadLen,
                     pos, name, reported>>
      /\ pc = "forward" /\ pc' = "done"
      /\ verdict' = IF Across(ingress) = NoPort THEN "PASS" ELSE "REDIRECT"
      /\ frame' = Addressed(frame, ingress) /\ out' = Across(ingress)
  BY DEF Forward, Return, build, input, locals
<1>2. /\ frame = Sent(prog, received) /\ prog # "http"
      /\ EthernetVerdict(received) = "none"
      /\ frame \in FrameType /\ ingress \in Ports
  BY <1>1 DEF Inv, Owner, Forwarding, Entered, TypeOK, FrameTypeOK
<1>3. frame' \in FrameType /\ frame'.len = frame.len /\ out' \in Ports \cup {NoPort}
  BY <1>1, <1>2, AddressedFields
<1>4. TypeOK'
  BY <1>1, <1>3 DEF Inv, TypeOK, FrameTypeOK, Reading, Writing, Looking, Updating
<1>5. Owner' /\ Parsed' /\ Crafted'
  BY <1>1 DEF Owner, Parsed, Crafted, Reading, Writing, Looking, Updating, NewTtl
<1>6. Answered'
  BY <1>1, <1>2 DEF Answered
<1>7. Forwarding'
  BY <1>1, <1>2 DEF Forwarding, Looking, Updating, Entered, NewTtl
<1> QED  BY <1>4, <1>5, <1>6, <1>7 DEF Inv

(* Every step keeps the invariant. *)
LEMMA StepInv == Inv /\ [Next]_frameVars => Inv'
<1> SUFFICES ASSUME Inv, [Next]_frameVars PROVE Inv'
  OBVIOUS
<1>1. CASE Http
  BY <1>1, StepReading, StepHeaderLength, StepPayloadLength, StepResize, StepReadAgain,
     StepWriting, StepTcpChecksum DEF Http
<1>2. CASE Bidir \/ Host \/ Ttl
  BY <1>2, StepEnter, StepHost, StepTtlIpv4, StepRewriteTtl DEF Host, Ttl
<1>3. CASE Forward
  BY <1>3, StepForward
<1>4. CASE Returned \/ UNCHANGED frameVars
  <2>1. UNCHANGED <<prog, respLen, ingress, received, frame, pc, verdict, out, hdrLen,
                    payloadLen, pos, name, reported>>
    BY <1>4 DEF Returned, frameVars, build, input, locals
  <2>2. TypeOK' /\ Owner' /\ Parsed'
    BY <2>1 DEF Inv, TypeOK, FrameTypeOK, Owner, Parsed
  <2>3. Crafted' /\ Answered'
    BY <2>1 DEF Inv, Crafted, Answered
  <2>4. Forwarding'
    BY <2>1 DEF Inv, Forwarding, Malformed
  <2> QED  BY <2>2, <2>3, <2>4 DEF Inv
<1> QED  BY <1>1, <1>2, <1>3, <1>4 DEF Next

(* A frame that has just arrived satisfies it. *)
LEMMA InitInv == Init => Inv
<1> SUFFICES ASSUME Init PROVE Inv
  OBVIOUS
<1>1. /\ prog \in Programs /\ pc = prog /\ frame = received /\ verdict = "none"
      /\ out = NoPort /\ received \in Frames /\ respLen \in RespLens /\ ingress \in Ports
      /\ hdrLen = 0 /\ payloadLen = 0 /\ pos = 0 /\ name = <<>> /\ reported = NoName
  BY DEF Init, FrameInit
<1>2. prog \in {"http", "bidir", "host", "ttl3", "ttl10"}
  BY <1>1, TtlPrograms DEF Programs
<1>3. received \in FrameType /\ received.len <= MaxLen
  BY <1>1, FrameConstantsOK
<1>4. payloadLen \in Word
  BY <1>1, WordBounds
<1>5. TypeOK
  BY <1>1, <1>2, <1>3, <1>4 DEF TypeOK, FrameTypeOK, Reading, Writing, Looking, Updating, NewTtl
<1>6. Owner /\ Parsed /\ Crafted /\ Answered
  BY <1>1, <1>2 DEF Owner, Parsed, Crafted, Answered, Reading, Writing, Looking, Updating, NewTtl
<1>7. Forwarding
  BY <1>1, <1>2 DEF Forwarding, Looking, Updating, Entered
<1> QED  BY <1>5, <1>6, <1>7 DEF Inv

(* Inv holds of every state. *)
LEMMA AlwaysInv == Spec => []Inv
<1> QED  BY InitInv, StepInv, PTL DEF Spec

(* An ended run of a program other than http_response_craft.c. *)
LEMMA Ended ==
  ASSUME Inv, verdict # "none", prog # "http"
  PROVE  /\ received \in FrameType /\ ingress \in Ports
         /\ \/ /\ verdict = EthernetVerdict(received)
               /\ out = NoPort /\ frame = received
            \/ /\ EthernetVerdict(received) = "none"
               /\ out = Across(ingress) /\ frame = Addressed(Sent(prog, received), ingress)
               /\ verdict = IF out = NoPort THEN "PASS" ELSE "REDIRECT"
            \/ verdict = "DROP" /\ Malformed(received)
BY DEF Inv, TypeOK, FrameTypeOK, Forwarding

(* The frame a program sends on: it differs from the one that arrived in   *)
(* TTL and checksum at most, and only in ttl_ins.c.                        *)
LEMMA SentFields ==
  ASSUME NEW p, NEW r \in FrameType
  PROVE  /\ Sent(p, r) \in FrameType
         /\ Sent(p, r) = [r EXCEPT !.ttl = Sent(p, r).ttl, !.check = Sent(p, r).check]
         /\ HeaderValid(Sent(p, r)) <=> HeaderValid(r)
         /\ p \notin DOMAIN NewTtl => Sent(p, r) = r
         /\ p \in DOMAIN NewTtl /\ r.proto = TCP => Sent(p, r).ttl = NewTtl[p]
<1>1. CASE p \in DOMAIN NewTtl /\ r.proto = TCP
  <2>1. Sent(p, r) = WithTtl(r, NewTtl[p]) /\ NewTtl[p] \in 0..255
    BY <1>1, TtlPrograms DEF Sent
  <2>2. /\ WithTtl(r, NewTtl[p]) \in FrameType
        /\ WithTtl(r, NewTtl[p]) =
             [r EXCEPT !.ttl = NewTtl[p], !.check = WithTtl(r, NewTtl[p]).check]
        /\ WithTtl(r, NewTtl[p]).ttl = NewTtl[p]
        /\ HeaderValid(WithTtl(r, NewTtl[p])) <=> HeaderValid(r)
    BY <2>1, TtlFields
  <2> QED  BY <1>1, <2>1, <2>2
<1>2. CASE ~(p \in DOMAIN NewTtl /\ r.proto = TCP)
  <2>1. Sent(p, r) = r
    BY <1>2 DEF Sent
  <2>2. r = [r EXCEPT !.ttl = r.ttl, !.check = r.check]
    BY DEF FrameType
  <2> QED  BY <1>2, <2>1, <2>2
<1> QED  BY <1>1, <1>2

-----------------------------------------------------------------------------
(* The programs never leave the states the model gives them, and a verdict *)
(* exists exactly at the end of a run.                                     *)
THEOREM DpiTypeCorrect == Spec => []TypeOK
<1>1. Inv => TypeOK
  BY DEF Inv
<1> QED  BY <1>1, AlwaysInv, PTL

(* What goes up the network stack is the frame that arrived, for every     *)
(* frame and every response: the one PASS after the resize is never taken. *)
THEOREM PassesUntouched == Spec => []PassedUntouched
<1>1. Inv => PassedUntouched
  <2> SUFFICES ASSUME Inv, verdict = "PASS", prog \notin DOMAIN NewTtl
               PROVE  frame = received
    BY DEF PassedUntouched
  <2>1. CASE prog = "http"
    BY <2>1 DEF Inv, Answered
  <2>2. CASE prog # "http"
    <3>1. Sent(prog, received) = received /\ received \in FrameType /\ ingress \in Ports
      BY <2>2, Ended, SentFields
    <3>2. Across(ingress) = NoPort => Addressed(received, ingress) = received
      BY DEF Addressed
    <3> QED  BY <2>2, <3>1, <3>2, Ended
  <2> QED  BY <2>1, <2>2
<1> QED  BY <1>1, AlwaysInv, PTL

(* Every reply is a valid segment that answers its request, whatever the   *)
(* request's options, the response's length and the sequence numbers.      *)
THEOREM RepliesFit == Spec => []ReplyFits
<1>1. Inv => ReplyFits
  <2> SUFFICES ASSUME Inv, verdict = "TX" PROVE Answers(frame, received)
    BY DEF ReplyFits
  <2> QED  BY ReplyAnswers DEF Inv, Answered, TypeOK, FrameTypeOK
<1> QED  BY <1>1, AlwaysInv, PTL

(* No reply acknowledges data beyond the end of the frame: the check of    *)
(* the room after the resize does what none does before it.                *)
THEOREM RepliesToWhole == Spec => []ReplyToWhole
<1>1. Inv => ReplyToWhole
  <2> SUFFICES ASSUME Inv, verdict = "TX" PROVE received.len >= EthLen + received.totLen
    BY DEF ReplyToWhole
  <2>1. /\ received \in FrameType /\ respLen \in Nat
        /\ Resized(received, respLen).len >= EthLen + IpLen + TcpLen + respLen
    BY ResponseFits DEF Inv, Answered, TypeOK, FrameTypeOK
  <2>2. Resized(received, respLen).len
          = received.len + ((TcpLen + respLen) - (received.totLen - IpLen))
    BY <2>1 DEF Resized, FrameType
  <2>3. received.len \in Nat /\ received.totLen \in Nat
    BY <2>1, FrameNumbers
  <2> QED  BY <2>1, <2>2, <2>3 DEF EthLen, IpLen, TcpLen
<1> QED  BY <1>1, AlwaysInv, PTL

(* A redirected frame is valid after ttl_ins.c if and only if it was       *)
(* before, for every header and checksum.                                  *)
THEOREM TtlChecksumKept == Spec => []TtlKeepsChecksum
<1>1. Inv => TtlKeepsChecksum
  <2> SUFFICES ASSUME Inv, verdict = "REDIRECT", prog \in DOMAIN NewTtl
               PROVE  /\ HeaderValid(frame) <=> HeaderValid(received)
                      /\ received.proto = TCP => frame.ttl = NewTtl[prog]
                      /\ frame = [received EXCEPT !.ttl = frame.ttl, !.check = frame.check,
                                                  !.smac = frame.smac, !.dmac = frame.dmac]
    BY DEF TtlKeepsChecksum
  <2> DEFINE s == Sent(prog, received)
  <2>1. prog # "http"
    BY DEF NewTtl
  <2>2. EthernetVerdict(received) # "REDIRECT"
    BY DEF EthernetVerdict
  <2>3. /\ received \in FrameType /\ ingress \in Ports
        /\ frame = Addressed(s, ingress)
    BY <2>1, <2>2, Ended
  <2>4. /\ s \in FrameType
        /\ s = [received EXCEPT !.ttl = s.ttl, !.check = s.check]
        /\ HeaderValid(s) <=> HeaderValid(received)
        /\ received.proto = TCP => s.ttl = NewTtl[prog]
    BY <2>3, SentFields
  <2> HIDE DEF s
  <2>5. frame = [s EXCEPT !.dmac = frame.dmac, !.smac = frame.smac]
    BY <2>3, <2>4, AddressedFields
  <2>6. /\ frame.ttl = s.ttl /\ frame.check = s.check /\ frame.ihl = s.ihl
        /\ frame.totLen = s.totLen /\ frame.id = s.id /\ frame.proto = s.proto
        /\ frame.src = s.src /\ frame.dst = s.dst
    BY <2>4, <2>5 DEF FrameType
  <2>7. HeaderValid(frame) <=> HeaderValid(s)
    BY <2>6 DEF HeaderValid, HeaderSum
  <2>8. frame = [received EXCEPT !.ttl = frame.ttl, !.check = frame.check,
                                 !.smac = frame.smac, !.dmac = frame.dmac]
    BY <2>3, <2>4, <2>5, <2>6 DEF FrameType
  <2> QED  BY <2>4, <2>6, <2>7, <2>8
<1> QED  BY <1>1, AlwaysInv, PTL

(* Inspection and rewriting leave the forwarding of well-formed frames     *)
(* alone, for every frame and every pair of interfaces.                    *)
THEOREM ForwardsAlike == Spec => []ForwardingKept
<1>1. Inv => ForwardingKept
  <2> SUFFICES ASSUME Inv, verdict # "none", prog # "http"
               PROVE  \/ LET o == BidirOutcome(received, ingress)
                         IN  /\ verdict = o.verdict /\ out = o.out
                             /\ frame.smac = o.smac /\ frame.dmac = o.dmac
                      \/ verdict = "DROP" /\ Malformed(received)
    BY DEF ForwardingKept
  <2> DEFINE s == Sent(prog, received)
  <2>1. received \in FrameType /\ ingress \in Ports
    BY Ended
  <2>2. s \in FrameType /\ s = [received EXCEPT !.ttl = s.ttl, !.check = s.check]
    BY <2>1, SentFields
  <2> HIDE DEF s
  <2>3. s.smac = received.smac /\ s.dmac = received.dmac
    BY <2>1, <2>2 DEF FrameType
  <2>4. CASE verdict = EthernetVerdict(received) /\ out = NoPort /\ frame = received
    BY <2>4 DEF BidirOutcome
  <2>5. CASE /\ EthernetVerdict(received) = "none"
             /\ out = Across(ingress) /\ frame = Addressed(s, ingress)
             /\ verdict = IF out = NoPort THEN "PASS" ELSE "REDIRECT"
    <3>1. /\ Across(ingress) = NoPort => frame = s
          /\ Across(ingress) # NoPort =>
               /\ frame.dmac = PeerMac[Across(ingress)]
               /\ frame.smac = OwnMac[Across(ingress)]
      BY <2>1, <2>2, <2>5, AddressedFields
    <3> QED  BY <2>3, <2>5, <3>1 DEF BidirOutcome
  <2> QED  BY <2>4, <2>5, Ended DEF s
<1> QED  BY <1>1, AlwaysInv, PTL

-----------------------------------------------------------------------------
(* What host_name_ins.c knows of the request's text, from the method to    *)
(* the end of the name.                                                    *)
Request ==
  /\ received.proto = TCP /\ Inspected(received, ingress)
  /\ received.text[1] = "method"

FirstHost(p) ==
  p \in HostAt(received.text) /\ \A q \in HostAt(received.text) : p <= q

(* The value of the "Host:" at p is s spaces further on. *)
ValueAfter(p, s) ==
  /\ FirstHost(p)
  /\ \A i \in (p + 1)..(p + s) :
       i \in DOMAIN received.text /\ received.text[i] = "sp"
  /\ s < MaxSpaces => p + s = Len(received.text) \/ received.text[p + s + 1] # "sp"

(* name is what has been copied from pos on. *)
Copied ==
  /\ Len(name) <= MaxHostLen
  /\ pos + Len(name) <= Len(received.text) + 1
  /\ \A i \in 1..Len(name) :
       name[i] = received.text[pos + i - 1] /\ name[i] # "eol"

Named ==
  IF Request /\ HostAt(received.text) # {}
  THEN reported # NoName /\ ValueOfHost(reported, received.text)
  ELSE reported = NoName

BeforeScan == {"host", "host_ip", "host_tcp", "inspect"}

Scanned ==
  /\ pc # "bidir"
  /\ pc \in BeforeScan \cup {"scan", "spaces"} => name = <<>>
  /\ pc \in Looking => reported = NoName
  /\ pc = "inspect" => received.proto = TCP
  /\ pc \in {"scan", "spaces", "copy", "print"} => Request
  /\ pc = "scan" => \A q \in HostAt(received.text) : pos <= q
  /\ pc = "spaces" => FirstHost(pos - 1)
  /\ pc \in {"copy", "print"} =>
       /\ \E p \in DOMAIN received.text, s \in 0..MaxSpaces : ValueAfter(p, s) /\ pos = p + s + 1
       /\ Copied
  /\ pc = "print" /\ Len(name) < MaxHostLen =>
       \/ pos + Len(name) = Len(received.text) + 1
       \/ received.text[pos + Len(name)] = "eol"
  /\ pc = "forward" \/ verdict = "REDIRECT" => Named

HostInv == prog = "host" => Scanned

(* A step of the program, the request in front of it as it came in. *)
LEMMA AtHost ==
  ASSUME Inv, HostInv, Host
  PROVE  /\ prog = "host" /\ Scanned /\ frame = received /\ verdict = "none"
         /\ reported = NoName /\ pos \in Nat /\ pc \in Looking
         /\ name \in Seq(STRING) /\ Len(name) \in Nat
         /\ received.text \in Seq(STRING) /\ Len(received.text) \in Nat
         /\ {MaxScan, MaxSpaces, MaxHostLen} \subseteq Nat
         /\ UNCHANGED <<prog, ingress, received>>
<1>1. pc \in {"host", "host_ip", "host_tcp", "inspect", "scan", "spaces",
              "copy", "print"}
  BY DEF Host, HostEthernet, HostIpv4, HostTcp, Inspect, Scan, SkipSpaces,
    Copy, PrintHost, Enter, Check
<1>2. pc \in Looking /\ pc # "done" /\ pc # "bidir"
  BY <1>1 DEF Looking
<1>3. prog = "host" /\ frame = received /\ verdict = "none"
  BY <1>2, Going DEF Inv, Owner, Forwarding
<1>4. UNCHANGED <<prog, ingress, received>>
  BY DEF Host, HostEthernet, HostIpv4, HostTcp, Inspect, Scan, SkipSpaces,
    Copy, PrintHost, Enter, Check, build, input
<1>5. name \in Seq(STRING) /\ pos \in Nat /\ received \in FrameType
  BY DEF Inv, TypeOK, FrameTypeOK
<1>6. received.text \in Seq(STRING)  BY <1>5 DEF FrameType
<1>7. Scanned /\ reported = NoName  BY <1>2, <1>3 DEF HostInv, Scanned
<1> QED  BY <1>2, <1>3, <1>4, <1>5, <1>6, <1>7, BoundsOK, LenProperties

(* What is asked of the request does not change under the program. *)
LEMMA SameRequest ==
  ASSUME UNCHANGED <<ingress, received>>
  PROVE  /\ Request' = Request
         /\ \A p : FirstHost(p)' = FirstHost(p)
         /\ \A p, s : ValueAfter(p, s)' = ValueAfter(p, s)
BY DEF Request, FirstHost, ValueAfter

(* Up to the search nothing is printed, and what is not a request to port  *)
(* 80 of PortA is sent on.                                                 *)
LEMMA StepToScan ==
  ASSUME Inv, HostInv, HostEthernet \/ HostIpv4 \/ HostTcp \/ Inspect
  PROVE  HostInv'
<1>1. /\ Scanned /\ frame = received /\ verdict = "none" /\ reported = NoName
      /\ UNCHANGED <<prog, ingress, received>> /\ prog = "host"
  BY AtHost DEF Host
<1>2. name = <<>> /\ name' = name /\ reported' = reported
  BY <1>1 DEF Scanned, BeforeScan, HostEthernet, HostIpv4, HostTcp, Inspect,
    Enter, Check, locals
<1>3. CASE HostEthernet
  <2>1. \/ pc' = "host_ip" /\ verdict' = "none"
        \/ pc' = "done" /\ verdict' \in {"PASS", "DROP"}
    BY <1>1, <1>3 DEF HostEthernet, Enter, Check, Goto, Return, EthernetVerdict
  <2> QED  BY <1>1, <1>2, <2>1 DEF HostInv, Scanned, BeforeScan, Looking
<1>4. CASE HostIpv4
  <2>1. \/ pc' = "host_tcp" /\ verdict' = "none"
        \/ pc' = "forward" /\ verdict' = "none" /\ received.proto # TCP
        \/ pc' = "done" /\ verdict' = "DROP"
    BY <1>1, <1>4 DEF HostIpv4, Goto, Return
  <2>2. pc' = "forward" => Named'
    BY <1>1, <1>2, <2>1 DEF Named, Request
  <2> QED  BY <1>1, <1>2, <2>1, <2>2 DEF HostInv, Scanned, BeforeScan, Looking
<1>5. CASE HostTcp
  <2>1. received.proto = TCP
    BY <1>5 DEF HostTcp, Check, Inv, Forwarding
  <2>2. \/ pc' = "inspect" /\ verdict' = "none"
        \/ pc' = "done" /\ verdict' = "DROP"
    BY <1>1, <1>5 DEF HostTcp, Check, Goto, Return
  <2> QED  BY <1>1, <1>2, <2>1, <2>2 DEF HostInv, Scanned, BeforeScan, Looking
<1>6. CASE Inspect
  <2>1. pc' = IF Request THEN "scan" ELSE "forward"
    BY <1>1, <1>6 DEF Inspect, Goto, Request, Scanned
  <2>2. pos' = 1 /\ verdict' = "none"  BY <1>1, <1>6 DEF Inspect, Goto
  <2>3. Request' = Request  BY <1>1, SameRequest
  <2>4. \A q \in HostAt(received'.text) : pos' <= q
    <3>1. received.text \in Seq(STRING)  BY AtHost, <1>6 DEF Host
    <3> QED  BY <1>1, <2>2, <3>1 DEF HostAt
  <2>5. ~Request => Named'
    BY <1>1, <1>2, <2>3 DEF Named
  <2> QED
    BY <1>1, <1>2, <2>1, <2>2, <2>3, <2>4, <2>5
    DEF HostInv, Scanned, BeforeScan, Looking
<1> QED  BY <1>3, <1>4, <1>5, <1>6

(* The search passes no "Host:", and stops at the first. *)
LEMMA StepScan == ASSUME Inv, HostInv, Scan PROVE HostInv'
<1>1. /\ Scanned /\ frame = received /\ verdict = "none" /\ reported = NoName
      /\ UNCHANGED <<prog, ingress, received>> /\ prog = "host"
      /\ pos \in Nat /\ MaxScan \in Nat /\ Len(received.text) \in Nat
  BY AtHost DEF Host
<1>2. /\ pc = "scan" /\ verdict' = "none"
      /\ UNCHANGED <<name, reported>>
      /\ IF pos > MaxScan \/ pos > Len(received.text)
         THEN pc' = "forward"
         ELSE /\ pos' = pos + 1
              /\ pc' = IF received.text[pos] = "Host:" THEN "spaces" ELSE "scan"
  BY <1>1 DEF Scan, Goto
<1>3. /\ pos >= 1 /\ name = <<>> /\ Request
      /\ \A q \in HostAt(received.text) : pos <= q
  BY <1>1, <1>2 DEF Scanned, Inv, Forwarding
<1>4. \A q \in HostAt(received.text) :
        q \in Nat /\ q <= MaxScan /\ q <= Len(received.text)
        /\ received.text[q] = "Host:"
  <2>1. received.text \in Seq(STRING)  BY AtHost DEF Host
  <2> QED  BY <2>1 DEF HostAt
<1>5. Request' = Request /\ \A p : FirstHost(p)' = FirstHost(p)
  BY <1>1, SameRequest
<1>6. CASE pos > MaxScan \/ pos > Len(received.text)
  <2>1. HostAt(received.text) = {}  BY <1>1, <1>3, <1>4, <1>6
  <2>2. Named'  BY <1>1, <1>2, <2>1 DEF Named
  <2> QED  BY <1>1, <1>2, <1>6, <2>2 DEF HostInv, Scanned, BeforeScan, Looking
<1>7. CASE pos \in 1..Len(received.text) /\ pos <= MaxScan
  <2>1. CASE received.text[pos] = "Host:"
    <3>1. pos \in HostAt(received.text)
      <4>1. received.text \in Seq(STRING)  BY AtHost DEF Host
      <4> QED  BY <1>7, <2>1, <4>1 DEF HostAt
    <3>2. FirstHost(pos)  BY <1>3, <3>1 DEF FirstHost
    <3>3. pos' - 1 = pos /\ pc' = "spaces"  BY <1>1, <1>2, <1>7, <2>1
    <3>4. FirstHost(pos - 1)'
      BY <1>1, <3>2, <3>3 DEF FirstHost
    <3> QED
      BY <1>1, <1>2, <1>3, <1>5, <3>3, <3>4
      DEF HostInv, Scanned, BeforeScan, Looking
  <2>2. CASE received.text[pos] # "Host:"
    <3>1. pos' = pos + 1 /\ pc' = "scan"  BY <1>1, <1>2, <1>7, <2>2
    <3>2. \A q \in HostAt(received.text) : pos + 1 <= q
      BY <1>1, <1>3, <1>4, <2>2
    <3> QED
      BY <1>1, <1>2, <1>3, <1>5, <3>1, <3>2
      DEF HostInv, Scanned, BeforeScan, Looking
  <2> QED  BY <2>1, <2>2
<1> QED  BY <1>1, <1>3, <1>6, <1>7

(* The spaces in front of the value are skipped. *)
LEMMA StepSpaces == ASSUME Inv, HostInv, SkipSpaces PROVE HostInv'
<1>1. /\ Scanned /\ frame = received /\ verdict = "none" /\ reported = NoName
      /\ UNCHANGED <<prog, ingress, received>> /\ prog = "host"
      /\ pos \in Nat /\ MaxSpaces \in Nat /\ MaxHostLen \in Nat
      /\ received.text \in Seq(STRING) /\ Len(received.text) \in Nat
  BY AtHost DEF Host
<1> DEFINE p == pos - 1
<1>2. PICK n \in 0..MaxSpaces :
        /\ pos + n <= Len(received.text) + 1
        /\ \A i \in 0..(n - 1) : received.text[pos + i] = "sp"
        /\ n < MaxSpaces /\ pos + n <= Len(received.text)
             => received.text[pos + n] # "sp"
        /\ pos' = pos + n
  BY <1>1 DEF SkipSpaces
<1>3. /\ pc = "spaces" /\ pc' = "copy" /\ verdict' = "none"
      /\ UNCHANGED <<name, reported>>
  BY <1>1 DEF SkipSpaces, Goto
<1>4. name = <<>> /\ Request /\ FirstHost(p)
  BY <1>1, <1>3 DEF Scanned
<1>5. p \in DOMAIN received.text /\ p \in 1..Len(received.text)
  BY <1>1, <1>4 DEF FirstHost, HostAt
<1>6. ValueAfter(p, n)
  <2>1. ASSUME NEW i \in (p + 1)..(p + n)
        PROVE  i \in DOMAIN received.text /\ received.text[i] = "sp"
    <3>1. i - pos \in 0..(n - 1) /\ pos + (i - pos) = i
      BY <1>1, <1>2
    <3>2. i \in 1..Len(received.text)
      BY <1>1, <1>2, <1>5
    <3>3. received.text[pos + (i - pos)] = "sp"  BY <1>2, <3>1
    <3>4. received.text[i] = "sp"  BY <3>1, <3>3
    <3> QED  BY <1>1, <3>2, <3>4
  <2>2. n < MaxSpaces => p + n = Len(received.text) \/ received.text[p + n + 1] # "sp"
    <3>1. p + n + 1 = pos + n  BY <1>1, <1>2
    <3> QED  BY <1>1, <1>2, <1>5, <3>1
  <2> QED  BY <1>4, <2>1, <2>2 DEF ValueAfter
<1>7. pos' = p + n + 1  BY <1>1, <1>2
<1>8. Copied'
  <2>1. Len(name') = 0  BY <1>3, <1>4
  <2> QED  BY <1>1, <1>2, <2>1 DEF Copied
<1>9. Request' /\ (\E q \in DOMAIN received'.text, s \in 0..MaxSpaces :
                      ValueAfter(q, s)' /\ pos' = q + s + 1)
  <2>1. PICK q \in DOMAIN received.text : q = p  BY <1>5
  <2>2. ValueAfter(q, n)'  BY <1>1, <1>6, <2>1, SameRequest
  <2>3. Request'  BY <1>1, <1>4, SameRequest
  <2> HIDE DEF p
  <2> QED  BY <1>1, <1>7, <2>1, <2>2, <2>3
<1> QED
  BY <1>1, <1>3, <1>8, <1>9 DEF HostInv, Scanned, BeforeScan, Looking

(* The name grows by one byte at a time, up to the end of its line.        *)
LEMMA StepCopy == ASSUME Inv, HostInv, Copy PROVE HostInv'
<1>1. /\ Scanned /\ frame = received /\ verdict = "none" /\ reported = NoName
      /\ UNCHANGED <<prog, ingress, received>> /\ prog = "host"
      /\ pos \in Nat /\ MaxHostLen \in Nat
      /\ name \in Seq(STRING) /\ Len(name) \in Nat
      /\ received.text \in Seq(STRING) /\ Len(received.text) \in Nat
  BY AtHost DEF Host
<1> DEFINE at == pos + Len(name)
<1>2. /\ pc = "copy" /\ verdict' = "none" /\ UNCHANGED <<pos, reported>>
      /\ IF \/ Len(name) = MaxHostLen
            \/ at > Len(received.text)
            \/ received.text[at] = "eol"
         THEN pc' = "print" /\ name' = name
         ELSE name' = Append(name, received.text[at]) /\ pc' = "copy"
  BY <1>1 DEF Copy, Goto
<1>3. pos >= 1  BY <1>2 DEF Inv, Forwarding
<1>4. /\ Request /\ Copied
      /\ \E p \in DOMAIN received.text, s \in 0..MaxSpaces :
           ValueAfter(p, s) /\ pos = p + s + 1
  BY <1>1, <1>2 DEF Scanned
<1>5. Request' /\ (\E p \in DOMAIN received'.text, s \in 0..MaxSpaces :
                      ValueAfter(p, s)' /\ pos' = p + s + 1)
  BY <1>1, <1>2, <1>4, SameRequest
<1>6. CASE \/ Len(name) = MaxHostLen
           \/ at > Len(received.text)
           \/ received.text[at] = "eol"
  <2>1. pc' = "print" /\ name' = name  BY <1>2, <1>6
  <2>2. Copied'  BY <1>1, <1>2, <1>4, <2>1 DEF Copied
  <2>3. Len(name) < MaxHostLen =>
          at = Len(received.text) + 1 \/ received.text[at] = "eol"
    BY <1>1, <1>4, <1>6 DEF Copied
  <2> QED
    BY <1>1, <1>2, <1>5, <2>1, <2>2, <2>3
    DEF HostInv, Scanned, BeforeScan, Looking
<1>7. CASE ~(\/ Len(name) = MaxHostLen
             \/ at > Len(received.text)
             \/ received.text[at] = "eol")
  <2>1. pc' = "copy" /\ name' = Append(name, received.text[at])
    BY <1>2, <1>7
  <2>2. at \in 1..Len(received.text) /\ received.text[at] \in STRING
        /\ received.text[at] # "eol"
    BY <1>1, <1>3, <1>7
  <2>3. /\ Len(name') = Len(name) + 1
        /\ \A i \in 1..Len(name) : name'[i] = name[i]
        /\ name'[Len(name) + 1] = received.text[at]
    BY <1>1, <2>1, <2>2, AppendProperties
  <2>4. Copied'
    <3>1. Len(name') <= MaxHostLen /\ pos' + Len(name') <= Len(received'.text) + 1
      BY <1>1, <1>2, <1>4, <1>7, <2>2, <2>3 DEF Copied
    <3>2. ASSUME NEW i \in 1..Len(name')
          PROVE  name'[i] = received'.text[pos' + i - 1] /\ name'[i] # "eol"
      <4>1. CASE i \in 1..Len(name)
        BY <1>1, <1>2, <1>4, <2>3, <4>1 DEF Copied
      <4>2. CASE i = Len(name) + 1
        <5>1. pos' + i - 1 = at  BY <1>1, <1>2, <4>2
        <5> QED  BY <1>1, <2>2, <2>3, <4>2, <5>1
      <4> QED  BY <1>1, <2>3, <4>1, <4>2
    <3> QED  BY <3>1, <3>2 DEF Copied
  <2> QED
    BY <1>1, <1>2, <1>5, <2>1, <2>4
    DEF HostInv, Scanned, BeforeScan, Looking
<1> QED  BY <1>6, <1>7

(* What is printed then is the value of the first "Host:". *)
LEMMA StepPrint == ASSUME Inv, HostInv, PrintHost PROVE HostInv'
<1>1. /\ Scanned /\ verdict = "none" /\ prog = "host"
      /\ UNCHANGED <<prog, ingress, received>>
      /\ pos \in Nat /\ MaxHostLen \in Nat
      /\ name \in Seq(STRING) /\ Len(name) \in Nat
      /\ received.text \in Seq(STRING) /\ Len(received.text) \in Nat
  BY AtHost DEF Host
<1>2. pc = "print" /\ pc' = "forward" /\ verdict' = "none" /\ reported' = name
  BY <1>1 DEF PrintHost, Goto
<1>3. /\ Request /\ Copied
      /\ Len(name) < MaxHostLen =>
           \/ pos + Len(name) = Len(received.text) + 1
           \/ received.text[pos + Len(name)] = "eol"
  BY <1>1, <1>2 DEF Scanned
<1>4. PICK p \in DOMAIN received.text, s \in 0..MaxSpaces :
        ValueAfter(p, s) /\ pos = p + s + 1
  BY <1>1, <1>2 DEF Scanned
<1> DEFINE from == p + s
           to == from + Len(name)
<1>5. p \in 1..Len(received.text) /\ s \in Nat /\ from \in Nat /\ to \in Nat
      /\ pos = from + 1 /\ to <= Len(received.text)
  <2>1. p \in 1..Len(received.text) /\ s \in Nat
    BY <1>1, BoundsOK
  <2>2. pos = p + s + 1 /\ pos + Len(name) <= Len(received.text) + 1
    BY <1>3, <1>4 DEF Copied
  <2>3. p \in Nat /\ Len(name) \in Nat /\ Len(received.text) \in Nat
    BY <1>1, <2>1
  <2> QED  BY <2>1, <2>2, <2>3
<1>6. name = SubSeq(received.text, from + 1, to)
  <2>1. \A i \in (from + 1)..to : received.text[i] \in STRING
    BY <1>1, <1>5
  <2> DEFINE sub == SubSeq(received.text, from + 1, to)
  <2>2. /\ sub \in Seq(STRING)
        /\ Len(sub) = IF from + 1 <= to THEN to - (from + 1) + 1 ELSE 0
        /\ \A i \in 1..(to - (from + 1) + 1) :
             sub[i] = received.text[from + 1 + i - 1]
    <3>1. from + 1 \in Int /\ to \in Int  BY <1>5
    <3> HIDE DEF from, to
    <3> QED  BY <2>1, <3>1, SubSeqProperties
  <2>3. Len(sub) = Len(name)  BY <1>1, <1>5, <2>2
  <2>4. \A i \in 1..Len(name) : sub[i] = name[i]
    <3>1. ASSUME NEW i \in 1..Len(name) PROVE sub[i] = name[i]
      <4>1. i \in 1..(to - (from + 1) + 1) /\ from + 1 + i - 1 = pos + i - 1
        <5>1. i \in Nat /\ i >= 1 /\ i <= Len(name) /\ Len(name) \in Nat
          BY <1>1
        <5>2. to = from + Len(name)  OBVIOUS
        <5> HIDE DEF from, to
        <5> QED  BY <1>5, <5>1, <5>2
      <4>2. sub[i] = received.text[from + 1 + i - 1]  BY <2>2, <4>1
      <4>3. name[i] = received.text[pos + i - 1]  BY <1>3 DEF Copied
      <4> HIDE DEF sub, from, to
      <4> QED  BY <4>1, <4>2, <4>3
    <3> HIDE DEF sub
    <3> QED  BY <3>1
  <2> HIDE DEF sub
  <2>5. name = sub
    BY <1>1, <2>2, <2>3, <2>4, SeqEqual
  <2> QED  BY <2>5 DEF sub
<1>7. ValueOfHost(name, received.text)
  <2>1. p \in HostAt(received.text) /\ \A q \in HostAt(received.text) : p <= q
    BY <1>4 DEF ValueAfter, FirstHost
  <2>2. \A i \in (p + 1)..from : i \in DOMAIN received.text /\ received.text[i] = "sp"
    BY <1>4 DEF ValueAfter
  <2>3. s < MaxSpaces => from = Len(received.text) \/ received.text[from + 1] # "sp"
    BY <1>4 DEF ValueAfter
  <2>4. \A i \in DOMAIN name : name[i] # "eol"
    BY <1>1, <1>3 DEF Copied
  <2>5. Len(name) <= MaxHostLen  BY <1>3 DEF Copied
  <2>6. pos + Len(name) = to + 1  BY <1>1, <1>5
  <2>7. Len(name) < MaxHostLen => to = Len(received.text) \/ received.text[to + 1] = "eol"
    <3> HIDE DEF to
    <3>1. CASE pos + Len(name) = Len(received.text) + 1
      BY <1>1, <1>5, <2>6, <3>1
    <3>2. CASE received.text[pos + Len(name)] = "eol"
      BY <2>6, <3>2
    <3> QED  BY <1>3, <3>1, <3>2
  <2> QED
    BY <1>5, <1>6, <2>1, <2>2, <2>3, <2>4, <2>5, <2>7 DEF ValueOfHost
<1>8. Named'
  <2>1. HostAt(received.text) # {}
    BY <1>4 DEF ValueAfter, FirstHost
  <2>2. name # NoName  BY <1>1, FrameConstantsOK
  <2>3. Request'  BY <1>1, <1>3, SameRequest
  <2> QED  BY <1>1, <1>2, <1>7, <2>1, <2>2, <2>3 DEF Named
<1> QED  BY <1>1, <1>2, <1>8 DEF HostInv, Scanned, BeforeScan, Looking

(* The other programs take no step of it. *)
LEMMA StepOfOthers ==
  ASSUME Inv, Http \/ Bidir \/ Ttl
  PROVE  prog' = prog /\ (HostInv => prog # "host")
<1>1. CASE Http
  <2>1. prog' = prog /\ pc \in Reading \cup Writing
    <3>1. CASE Ethernet \/ Ipv4 \/ TotalLength \/ BaseHeader \/ Target
      BY <3>1 DEF Ethernet, Ipv4, TotalLength, BaseHeader, Target, Check,
        build, Reading
    <3>2. CASE HeaderLength \/ PayloadLength \/ Resize
      BY <3>2 DEF HeaderLength, PayloadLength, Resize, build, Reading
    <3>3. CASE ReadAgain \/ NoOptions \/ RoomForResponse
      BY <3>3 DEF ReadAgain, NoOptions, RoomForResponse, Check, build, Writing
    <3>4. CASE SwapMacs \/ SwapIps \/ Acknowledge \/ SwapPorts \/ SetFlags
               \/ NewLength
      BY <3>4 DEF SwapMacs, SwapIps, Acknowledge, SwapPorts, SetFlags,
        NewLength, Rewrite, build, Writing
    <3>5. CASE WriteResponse \/ IpChecksum \/ TcpChecksum
      BY <3>5 DEF WriteResponse, IpChecksum, TcpChecksum, Rewrite, build, Writing
    <3> QED  BY <1>1, <3>1, <3>2, <3>3, <3>4, <3>5 DEF Http
  <2>2. prog = "http"  BY <2>1 DEF Inv, Owner
  <2> QED  BY <2>1, <2>2
<1>2. CASE Bidir
  BY <1>2 DEF Bidir, Enter, Check, build, HostInv, Scanned
<1>3. CASE Ttl
  <2>1. prog' = prog /\ pc \in Updating
    BY <1>3 DEF Ttl, TtlEthernet, TtlIpv4, RewriteTtl, Enter, Check, Rewrite,
      build, Updating
  <2>2. prog \in DOMAIN NewTtl  BY <2>1 DEF Inv, Owner
  <2> QED  BY <2>1, <2>2 DEF NewTtl
<1> QED  BY <1>1, <1>2, <1>3

LEMMA StepHostInv == ASSUME Inv, HostInv, [Next]_frameVars PROVE HostInv'
<1>1. CASE Host
  BY <1>1, StepToScan, StepScan, StepSpaces, StepCopy, StepPrint DEF Host
<1>2. CASE Http \/ Bidir \/ Ttl
  <2>1. prog' = prog /\ (HostInv => prog # "host")
    BY <1>2, StepOfOthers
  <2> QED  BY <2>1 DEF HostInv
<1>3. CASE Forward
  <2>1. /\ pc = "forward" /\ pc' = "done"
        /\ UNCHANGED <<prog, ingress, received, name, reported>>
    BY <1>3 DEF Forward, Return, build, input, locals
  <2>2. Named' = Named  BY <2>1 DEF Named, Request
  <2> QED
    BY <2>1, <2>2 DEF HostInv, Scanned, BeforeScan, Looking
<1>4. CASE Returned \/ UNCHANGED frameVars
  <2>1. UNCHANGED <<prog, ingress, received, pc, verdict, pos, name, reported>>
    BY <1>4 DEF Returned, frameVars, build, input, locals
  <2>2. /\ Request' = Request /\ Named' = Named /\ Copied' = Copied
        /\ FirstHost(pos - 1)' = FirstHost(pos - 1)
    BY <2>1 DEF Named, Request, Copied, FirstHost
  <2>3. \A p, s : ValueAfter(p, s)' = ValueAfter(p, s)
    BY <2>1, SameRequest
  <2> QED  BY <2>1, <2>2, <2>3 DEF HostInv, Scanned
<1> QED  BY <1>1, <1>2, <1>3, <1>4 DEF Next

(* host_name_ins.c prints a name if and only if an HTTP request to port 80 *)
(* that came in on PortA has a "Host:" within reach, and prints the value  *)
(* of the first one, for every text and every bound on the search, the     *)
(* spaces and the name.                                                    *)
THEOREM NamesHost == Spec => []HostIsNamed
<1>1. Init => HostInv
  BY DEF Init, FrameInit, HostInv, Scanned, BeforeScan, Looking
<1>2. HostInv => HostIsNamed
  BY DEF HostInv, Scanned, Named, Request, HostIsNamed
<1>3. Inv /\ HostInv /\ [Next]_frameVars => HostInv'
  BY StepHostInv
<1> QED  BY <1>1, <1>2, <1>3, AlwaysInv, PTL DEF Spec
=============================================================================
