-------------------------- MODULE FlowTableProofs --------------------------
(***************************************************************************)
(* What every user of the flow map may rely on, whatever it does between   *)
(* two calls: how the order of the keys changes under updates and deletes, *)
(* where a walk is taken by bpf_map_get_next_key, and that each access of  *)
(* the program keeps the elements owned and the locals consistent.         *)
(* FlowAuditProofs, FlowSnapshotProofs and FlowBatchProofs build on it.    *)
(***************************************************************************)
EXTENDS FlowTable, SequenceTheorems, WellFoundedInduction, TLAPS

-----------------------------------------------------------------------------
(* Sequences of keys. *)

Keys(s) == {s[i] : i \in DOMAIN s}

(* Each key once, bucket by bucket: the second half of OrderOK. *)
Sorted(s) ==
  \A i, j \in DOMAIN s : i < j => s[i] # s[j] /\ Bucket[s[i]] <= Bucket[s[j]]

(* A walk that has reached x comes to y later. *)
Before(s, x, y) == \E i, j \in DOMAIN s : i < j /\ s[i] = x /\ s[j] = y

(* A set of naturals that is not empty has a least element. *)
LEMMA LeastNatural ==
  ASSUME NEW T \in SUBSET Nat, T # {}
  PROVE  \E x \in T : \A y \in T : x <= y
<1> DEFINE R == {ss \in Nat \X Nat : ss[1] < ss[2]}
<1>1. IsWellFoundedOn(R, Nat)
  BY ONLY NatLessThanWellFounded, Zenon DEF OpToRel
<1> HIDE DEF R
<1>2. PICK x \in T : \A y \in T : <<y, x>> \notin R
  BY <1>1, WFMin, Zenon
<1>3. \A y \in T : ~(y < x)  BY <1>2 DEF R
<1> QED  BY <1>3

(* Min picks it. *)
LEMMA MinIsLeast ==
  ASSUME NEW T \in SUBSET Nat, T # {}
  PROVE  Min(T) \in T /\ \A y \in T : Min(T) <= y
BY LeastNatural DEF Min

(* Inserting at a position pushes what follows one place on. *)
LEMMA InsertAtElements ==
  ASSUME NEW S, NEW s \in Seq(S), NEW i \in 1..(Len(s) + 1), NEW e \in S
  PROVE  /\ InsertAt(s, i, e) \in Seq(S)
         /\ Len(InsertAt(s, i, e)) = Len(s) + 1
         /\ \A j \in 1..(Len(s) + 1) :
              InsertAt(s, i, e)[j] =
                IF j < i THEN s[j] ELSE IF j = i THEN e ELSE s[j - 1]
<1> DEFINE l == SubSeq(s, 1, i - 1)
           r == SubSeq(s, i, Len(s))
           m == l \o <<e>>
<1>1. Len(s) \in Nat /\ i \in Nat  OBVIOUS
<1>2. /\ l \in Seq(S) /\ Len(l) = i - 1
      /\ \A j \in 1..(i - 1) : l[j] = s[j]
  BY <1>1
<1>3. /\ r \in Seq(S) /\ Len(r) = Len(s) + 1 - i
      /\ \A j \in 1..(Len(s) + 1 - i) : r[j] = s[i + j - 1]
  BY <1>1
<1>4. <<e>> \in Seq(S) /\ Len(<<e>>) = 1 /\ <<e>>[1] = e  OBVIOUS
<1> HIDE DEF l, r
<1>5. /\ m \in Seq(S) /\ Len(m) = i
      /\ \A j \in 1..(i - 1) : m[j] = s[j]
      /\ m[i] = e
  BY <1>1, <1>2, <1>4
<1> HIDE DEF m
<1>6. /\ m \o r \in Seq(S) /\ Len(m \o r) = Len(s) + 1
      /\ \A j \in 1..(Len(s) + 1) :
           (m \o r)[j] = IF j <= i THEN m[j] ELSE r[j - i]
  BY <1>1, <1>3, <1>5
<1>7. InsertAt(s, i, e) = m \o r  BY DEF InsertAt, m, l, r
<1> QED  BY <1>1, <1>3, <1>5, <1>6, <1>7

(* Removing at a position draws what follows one place up. *)
LEMMA RemoveAtElements ==
  ASSUME NEW S, NEW s \in Seq(S), NEW i \in 1..Len(s)
  PROVE  /\ RemoveAt(s, i) \in Seq(S)
         /\ Len(RemoveAt(s, i)) = Len(s) - 1
         /\ \A j \in 1..(Len(s) - 1) :
              RemoveAt(s, i)[j] = IF j < i THEN s[j] ELSE s[j + 1]
<1> DEFINE l == SubSeq(s, 1, i - 1)
           r == SubSeq(s, i + 1, Len(s))
<1>1. Len(s) \in Nat /\ i \in Nat  OBVIOUS
<1>2. /\ l \in Seq(S) /\ Len(l) = i - 1
      /\ \A j \in 1..(i - 1) : l[j] = s[j]
  BY <1>1
<1>3. /\ r \in Seq(S) /\ Len(r) = Len(s) - i
      /\ \A j \in 1..(Len(s) - i) : r[j] = s[i + j]
  BY <1>1
<1> HIDE DEF l, r
<1>4. /\ l \o r \in Seq(S) /\ Len(l \o r) = Len(s) - 1
      /\ \A j \in 1..(Len(s) - 1) :
           (l \o r)[j] = IF j <= i - 1 THEN l[j] ELSE r[j - (i - 1)]
  <2>1. /\ l \o r \in Seq(S) /\ Len(l \o r) = Len(l) + Len(r)
        /\ \A j \in 1..(Len(l) + Len(r)) :
             (l \o r)[j] = IF j <= Len(l) THEN l[j] ELSE r[j - Len(l)]
    BY <1>2, <1>3, ConcatProperties
  <2> QED  BY <1>1, <1>2, <1>3, <2>1
<1>5. RemoveAt(s, i) = l \o r  BY DEF RemoveAt, l, r
<1>6. ASSUME NEW j \in 1..(Len(s) - 1)
      PROVE  (l \o r)[j] = IF j < i THEN s[j] ELSE s[j + 1]
  <2>1. CASE j < i  BY <1>1, <1>2, <1>4, <2>1
  <2>2. CASE ~(j < i)
    <3>1. j - (i - 1) \in 1..(Len(s) - i) /\ i + (j - (i - 1)) = j + 1
      BY <1>1, <2>2
    <3> QED  BY <1>1, <1>3, <1>4, <2>2, <3>1
  <2> QED  BY <2>1, <2>2
<1> QED  BY <1>4, <1>5, <1>6

-----------------------------------------------------------------------------
(* Where Unlink takes the key out. *)
LEMMA UnlinkPlace ==
  ASSUME NEW s \in Seq(Flow), NEW k
  PROVE  IF k \in Keys(s)
         THEN \E p \in 1..Len(s) : s[p] = k /\ Unlink(s, k) = RemoveAt(s, p)
         ELSE Unlink(s, k) = s
<1> DEFINE I == {i \in 1..Len(s) : s[i] = k}
<1>1. DOMAIN s = 1..Len(s) /\ Len(s) \in Nat  OBVIOUS
<1>2. CASE k \in Keys(s)
  <2>1. I # {} /\ I \in SUBSET Nat  BY <1>1, <1>2 DEF Keys
  <2>2. Min(I) \in I  BY <2>1, MinIsLeast
  <2>3. Unlink(s, k) = RemoveAt(s, Min(I))
    BY <2>1 DEF Unlink, RemoveFirst, SelectInSeq
  <2> QED  BY <1>2, <2>2, <2>3
<1>3. CASE k \notin Keys(s)
  BY <1>1, <1>3 DEF Keys, Unlink, RemoveFirst
<1> QED  BY <1>2, <1>3

(* A delete takes the key out of the order and leaves the others as they   *)
(* are.                                                                    *)
LEMMA UnlinkOrder ==
  ASSUME NEW s \in Seq(Flow), Sorted(s), NEW k
  PROVE  /\ Unlink(s, k) \in Seq(Flow) /\ Sorted(Unlink(s, k))
         /\ Keys(Unlink(s, k)) = Keys(s) \ {k}
         /\ \A x, y : Before(Unlink(s, k), x, y) <=>
                        x # k /\ y # k /\ Before(s, x, y)
<1>1. CASE k \notin Keys(s)
  <2>1. Unlink(s, k) = s  BY <1>1, UnlinkPlace
  <2>2. \A x, y : Before(s, x, y) => x # k /\ y # k
    BY <1>1 DEF Before, Keys
  <2> QED  BY <1>1, <2>1, <2>2
<1>2. CASE k \in Keys(s)
  <2>1. PICK p \in 1..Len(s) : s[p] = k /\ Unlink(s, k) = RemoveAt(s, p)
    BY <1>2, UnlinkPlace
  <2> DEFINE u == Unlink(s, k)
             at(j) == IF j < p THEN j ELSE j + 1
             back(m) == IF m < p THEN m ELSE m - 1
  <2>2. /\ u \in Seq(Flow) /\ Len(u) = Len(s) - 1
        /\ \A j \in 1..Len(u) : u[j] = s[at(j)]
    BY <2>1, RemoveAtElements
  <2> HIDE DEF u
  <2>3. /\ DOMAIN s = 1..Len(s) /\ DOMAIN u = 1..Len(u)
        /\ Len(s) \in Nat /\ Len(u) \in Nat
    BY <2>2
  <2>4. /\ \A j \in DOMAIN u : at(j) \in DOMAIN s /\ at(j) # p
        /\ \A i, j \in DOMAIN u : i < j <=> at(i) < at(j)
        /\ \A m \in DOMAIN s :
             m # p => back(m) \in DOMAIN u /\ at(back(m)) = m
    BY <2>2, <2>3
  <2>5. \A j \in DOMAIN u : u[j] = s[at(j)]  BY <2>2, <2>3
  <2>6. \A m \in DOMAIN s : m # p <=> s[m] # k
    BY <2>1, <2>3 DEF Sorted
  <2> HIDE DEF at, back
  <2>7. Sorted(u)  BY <2>4, <2>5 DEF Sorted
  <2>8. Keys(u) = Keys(s) \ {k}  BY <2>4, <2>5, <2>6 DEF Keys
  <2>9. ASSUME NEW x, NEW y
        PROVE  Before(u, x, y) <=> x # k /\ y # k /\ Before(s, x, y)
    <3>1. ASSUME Before(u, x, y)
          PROVE  x # k /\ y # k /\ Before(s, x, y)
      BY <2>4, <2>5, <2>6, <3>1 DEF Before
    <3>2. ASSUME x # k, y # k, Before(s, x, y) PROVE Before(u, x, y)
      <4>1. PICK i, j \in DOMAIN s : i < j /\ s[i] = x /\ s[j] = y
        BY <3>2 DEF Before
      <4>2. i # p /\ j # p  BY <2>6, <3>2, <4>1
      <4> QED  BY <2>4, <2>5, <4>1, <4>2 DEF Before
    <3> QED  BY <3>1, <3>2
  <2> QED  BY <2>2, <2>7, <2>8, <2>9 DEF u
<1> QED  BY <1>1, <1>2

(* Where LinkFirst puts the key in: in front of its bucket.                *)
LEMMA LinkPlace ==
  ASSUME NEW s \in Seq(Flow), Sorted(s), NEW k \in Flow
  PROVE  \E p \in 1..(Len(Unlink(s, k)) + 1) :
           /\ LinkFirst(s, k) = InsertAt(Unlink(s, k), p, k)
           /\ \A i \in 1..Len(Unlink(s, k)) :
                Bucket[Unlink(s, k)[i]] >= Bucket[k] <=> p <= i
<1> DEFINE u == Unlink(s, k)
           I == {i \in 1..Len(u) : Bucket[u[i]] >= Bucket[k]}
           q == IF I # {} THEN Min(I) ELSE 0
           p == IF q = 0 THEN Len(u) + 1 ELSE q
<1>1. LinkFirst(s, k) = InsertAt(u, p, k)
  BY DEF LinkFirst, SelectInSeq
<1>2. u \in Seq(Flow) /\ Sorted(u)  BY UnlinkOrder
<1> HIDE DEF u
<1>3. Len(u) \in Nat /\ DOMAIN u = 1..Len(u)  BY <1>2
<1>4. I \in SUBSET Nat  BY <1>3
<1>5. \A i \in 1..Len(u) : u[i] \in Flow  BY <1>2, <1>3
<1>6. \A i \in 1..Len(u) : Bucket[u[i]] \in Nat  BY <1>5, ConstantsOK
<1>7. Bucket[k] \in Nat  BY ConstantsOK
<1>8. CASE I # {}
  <2>1. Min(I) \in I /\ \A y \in I : Min(I) <= y
    BY <1>4, <1>8, MinIsLeast
  <2> DEFINE h == Min(I)
  <2>2. h \in 1..Len(u) /\ Bucket[u[h]] >= Bucket[k]  BY <2>1
  <2>3. p = h  BY <1>3, <1>8, <2>2
  <2> HIDE DEF h, p
  <2>4. ASSUME NEW i \in 1..Len(u)
        PROVE  Bucket[u[i]] >= Bucket[k] <=> h <= i
    <3>1. ASSUME Bucket[u[i]] >= Bucket[k] PROVE h <= i
      BY <2>1, <3>1 DEF h
    <3>2. ASSUME h <= i PROVE Bucket[u[i]] >= Bucket[k]
      <4>1. Bucket[u[h]] <= Bucket[u[i]]
        <5>1. h = i \/ h < i  BY <1>3, <2>2, <3>2
        <5> QED  BY <1>2, <1>3, <1>6, <2>2, <5>1 DEF Sorted
      <4> QED  BY <1>6, <1>7, <2>2, <4>1
    <3> QED  BY <3>1, <3>2
  <2>5. h \in 1..(Len(u) + 1)  BY <1>3, <2>2
  <2> QED  BY <1>1, <2>3, <2>4, <2>5 DEF u
<1>9. CASE I = {}
  <2>1. p = Len(u) + 1  BY <1>9
  <2> HIDE DEF p
  <2>2. \A i \in 1..Len(u) : ~(Bucket[u[i]] >= Bucket[k])  BY <1>9
  <2>3. \A i \in 1..Len(u) : ~(p <= i)  BY <1>3, <2>1
  <2>4. p \in 1..(Len(u) + 1)  BY <1>3, <2>1
  <2> QED  BY <1>1, <2>2, <2>3, <2>4 DEF u
<1> QED  BY <1>8, <1>9

(* An update puts its key in front of its bucket: before the keys of its   *)
(* own bucket and of higher ones, after those of lower ones.  The others   *)
(* keep their order.                                                       *)
LEMMA LinkOrder ==
  ASSUME NEW s \in Seq(Flow), Sorted(s), NEW k \in Flow
  PROVE  /\ LinkFirst(s, k) \in Seq(Flow) /\ Sorted(LinkFirst(s, k))
         /\ Keys(LinkFirst(s, k)) = Keys(s) \cup {k}
         /\ \A x, y : x # k /\ y # k =>
              (Before(LinkFirst(s, k), x, y) <=> Before(s, x, y))
         /\ \A y \in Keys(s) \ {k} :
              IF Bucket[y] >= Bucket[k] THEN Before(LinkFirst(s, k), k, y)
              ELSE Before(LinkFirst(s, k), y, k)
<1> DEFINE u == Unlink(s, k)
           t == LinkFirst(s, k)
<1>1. /\ u \in Seq(Flow) /\ Sorted(u) /\ Keys(u) = Keys(s) \ {k}
      /\ \A x, y : Before(u, x, y) <=> x # k /\ y # k /\ Before(s, x, y)
  BY UnlinkOrder
<1>2. PICK p \in 1..(Len(u) + 1) :
        /\ t = InsertAt(u, p, k)
        /\ \A i \in 1..Len(u) : Bucket[u[i]] >= Bucket[k] <=> p <= i
  BY LinkPlace
<1> HIDE DEF u, t
<1> DEFINE at(j) == IF j < p THEN j ELSE j + 1
           back(m) == IF m < p THEN m ELSE m - 1
<1>3. /\ t \in Seq(Flow) /\ Len(t) = Len(u) + 1
      /\ \A j \in 1..(Len(u) + 1) :
           t[j] = IF j < p THEN u[j] ELSE IF j = p THEN k ELSE u[j - 1]
  <2>1. u \in Seq(Flow) /\ p \in 1..(Len(u) + 1) /\ t = InsertAt(u, p, k)
    BY <1>1, <1>2
  <2>2. /\ InsertAt(u, p, k) \in Seq(Flow)
        /\ Len(InsertAt(u, p, k)) = Len(u) + 1
        /\ \A j \in 1..(Len(u) + 1) : InsertAt(u, p, k)[j] =
             IF j < p THEN u[j] ELSE IF j = p THEN k ELSE u[j - 1]
    BY <2>1, InsertAtElements, SMTT(40)
  <2> QED  BY <2>1, <2>2
<1>4. /\ DOMAIN u = 1..Len(u) /\ DOMAIN t = 1..Len(t)
      /\ Len(u) \in Nat /\ Len(t) \in Nat
  BY <1>1, <1>3
<1>5. p \in DOMAIN t /\ t[p] = k  BY <1>3, <1>4
<1>6. /\ \A j \in DOMAIN u : at(j) \in DOMAIN t /\ at(j) # p
      /\ \A i, j \in DOMAIN u : i < j <=> at(i) < at(j)
      /\ \A m \in DOMAIN t :
           m # p => back(m) \in DOMAIN u /\ at(back(m)) = m
      /\ \A j \in DOMAIN u : at(j) < p <=> ~(p <= j)
  BY <1>3, <1>4
<1>7. \A j \in DOMAIN u : t[at(j)] = u[j]  BY <1>3, <1>4
<1>8. \A j \in DOMAIN u : Bucket[u[j]] >= Bucket[k] <=> ~(at(j) < p)
  BY <1>2, <1>4, <1>6
<1>9. \A j \in DOMAIN u : u[j] \in Flow /\ Bucket[u[j]] \in Nat /\ u[j] # k
  <2>1. \A j \in DOMAIN u : u[j] \in Flow  BY <1>1, <1>4
  <2>2. \A j \in DOMAIN u : u[j] # k  BY <1>1 DEF Keys
  <2> QED  BY <2>1, <2>2, ConstantsOK
<1>10. Bucket[k] \in Nat  BY ConstantsOK
<1>11. \A m \in DOMAIN t : m \in Nat  BY <1>4
<1>12. p \in Nat  BY <1>4
<1> HIDE DEF at, back
<1>13. Keys(t) = Keys(s) \cup {k}
  <2>1. Keys(t) = Keys(u) \cup {k}  BY <1>5, <1>6, <1>7 DEF Keys
  <2> QED  BY <1>1, <2>1
<1>14. Sorted(t)
  <2> SUFFICES ASSUME NEW i \in DOMAIN t, NEW j \in DOMAIN t, i < j
               PROVE  t[i] # t[j] /\ Bucket[t[i]] <= Bucket[t[j]]
    BY DEF Sorted
  <2>1. CASE i # p /\ j # p
    <3>1. /\ back(i) \in DOMAIN u /\ t[i] = u[back(i)]
          /\ back(j) \in DOMAIN u /\ t[j] = u[back(j)]
          /\ back(i) < back(j)
      BY <1>6, <1>7, <2>1
    <3> QED  BY <1>1, <3>1 DEF Sorted
  <2>2. CASE i = p
    <3>1. /\ back(j) \in DOMAIN u /\ t[j] = u[back(j)] /\ at(back(j)) = j
      BY <1>6, <1>7, <1>11, <1>12, <2>2
    <3>2. ~(at(back(j)) < p)  BY <1>11, <1>12, <2>2, <3>1
    <3> QED  BY <1>5, <1>8, <1>9, <1>10, <2>2, <3>1, <3>2
  <2>3. CASE j = p
    <3>1. /\ back(i) \in DOMAIN u /\ t[i] = u[back(i)] /\ at(back(i)) = i
      BY <1>6, <1>7, <1>11, <1>12, <2>3
    <3> QED  BY <1>5, <1>8, <1>9, <1>10, <2>3, <3>1
  <2> QED  BY <2>1, <2>2, <2>3
<1>15. ASSUME NEW x, NEW y, x # k, y # k
       PROVE  Before(t, x, y) <=> Before(s, x, y)
  <2>1. ASSUME Before(t, x, y) PROVE Before(u, x, y)
    <3>1. PICK i, j \in DOMAIN t : i < j /\ t[i] = x /\ t[j] = y
      BY <2>1 DEF Before
    <3>2. i # p /\ j # p  BY <1>5, <1>15, <3>1
    <3> QED  BY <1>6, <1>7, <3>1, <3>2 DEF Before
  <2>2. ASSUME Before(u, x, y) PROVE Before(t, x, y)
    BY <1>6, <1>7, <2>2 DEF Before
  <2> QED  BY <1>1, <1>15, <2>1, <2>2
<1>16. ASSUME NEW y \in Keys(s) \ {k}
       PROVE  IF Bucket[y] >= Bucket[k] THEN Before(t, k, y)
              ELSE Before(t, y, k)
  <2>1. PICK j \in DOMAIN u : u[j] = y  BY <1>1 DEF Keys
  <2>2. at(j) \in DOMAIN t /\ at(j) # p /\ t[at(j)] = y
    BY <1>6, <1>7, <2>1
  <2>3. CASE Bucket[y] >= Bucket[k]
    <3>1. p < at(j)  BY <1>8, <1>11, <1>12, <2>1, <2>2, <2>3
    <3> QED  BY <1>5, <2>2, <2>3, <3>1 DEF Before
  <2>4. CASE ~(Bucket[y] >= Bucket[k])
    <3>1. at(j) < p  BY <1>8, <2>1, <2>4
    <3> QED  BY <1>5, <2>2, <2>4, <3>1 DEF Before
  <2> QED  BY <2>3, <2>4
<1> QED  BY <1>3, <1>13, <1>14, <1>15, <1>16 DEF t

-----------------------------------------------------------------------------
(* A walk has an order: it does not come back, and it passes buckets in    *)
(* turn.                                                                   *)
LEMMA BeforeOrder ==
  ASSUME NEW s \in Seq(Flow), Sorted(s)
  PROVE  /\ \A x, y : Before(s, x, y) =>
              /\ x \in Keys(s) /\ y \in Keys(s) /\ x # y
              /\ Bucket[x] <= Bucket[y] /\ ~Before(s, y, x)
         /\ \A x, y, z :
              Before(s, x, y) /\ Before(s, y, z) => Before(s, x, z)
         /\ \A x, y \in Keys(s) : x = y \/ Before(s, x, y) \/ Before(s, y, x)
<1>1. \A i \in DOMAIN s : i \in Nat  OBVIOUS
<1>2. \A i, j \in DOMAIN s : s[i] = s[j] => i = j  BY <1>1 DEF Sorted
<1>3. ASSUME NEW x, NEW y, Before(s, x, y)
      PROVE  /\ x \in Keys(s) /\ y \in Keys(s) /\ x # y
             /\ Bucket[x] <= Bucket[y] /\ ~Before(s, y, x)
  <2>1. PICK i, j \in DOMAIN s : i < j /\ s[i] = x /\ s[j] = y
    BY <1>3 DEF Before
  <2>2. x \in Keys(s) /\ y \in Keys(s)  BY <2>1 DEF Keys
  <2>3. x # y /\ Bucket[x] <= Bucket[y]  BY <2>1 DEF Sorted
  <2>4. ~Before(s, y, x)
    <3> SUFFICES ASSUME NEW l \in DOMAIN s, NEW m \in DOMAIN s,
                        l < m, s[l] = y, s[m] = x
                 PROVE  FALSE
      BY DEF Before
    <3> QED  BY <1>1, <1>2, <2>1
  <2> QED  BY <2>2, <2>3, <2>4
<1>4. ASSUME NEW x, NEW y, NEW z, Before(s, x, y), Before(s, y, z)
      PROVE  Before(s, x, z)
  <2>1. PICK i, j \in DOMAIN s : i < j /\ s[i] = x /\ s[j] = y
    BY <1>4 DEF Before
  <2>2. PICK l, m \in DOMAIN s : l < m /\ s[l] = y /\ s[m] = z
    BY <1>4 DEF Before
  <2>3. j = l  BY <1>2, <2>1, <2>2
  <2>4. i < m  BY <1>1, <2>1, <2>2, <2>3
  <2> QED  BY <2>1, <2>2, <2>4 DEF Before
<1>5. ASSUME NEW x \in Keys(s), NEW y \in Keys(s)
      PROVE  x = y \/ Before(s, x, y) \/ Before(s, y, x)
  <2>1. PICK i, j \in DOMAIN s : s[i] = x /\ s[j] = y  BY DEF Keys
  <2>2. i = j \/ i < j \/ j < i  BY <1>1
  <2> QED  BY <2>1, <2>2 DEF Before
<1> QED  BY <1>3, <1>4, <1>5

(* bpf_map_get_next_key, of NULL or of a key that is not in the map: a key *)
(* from which the walk reaches every other.                                *)
LEMMA FirstKeyIsFirst ==
  ASSUME order \in Seq(Flow), Sorted(order)
  PROVE  IF FirstKey = NoFlow THEN Keys(order) = {}
         ELSE /\ FirstKey \in Keys(order)
              /\ \A y \in Keys(order) :
                   y = FirstKey \/ Before(order, FirstKey, y)
<1>1. DOMAIN order = 1..Len(order) /\ Len(order) \in Nat  OBVIOUS
<1>2. CASE order = <<>>
  BY <1>2 DEF FirstKey, Keys
<1>3. CASE order # <<>>
  <2>1. Len(order) > 0 /\ 1 \in DOMAIN order  BY <1>3
  <2>2. FirstKey = order[1]  BY <1>3 DEF FirstKey
  <2>3. order[1] \in Flow  BY <2>1
  <2>4. FirstKey # NoFlow  BY <2>2, <2>3, ConstantsOK
  <2>5. ASSUME NEW y \in Keys(order)
        PROVE  y = FirstKey \/ Before(order, FirstKey, y)
    <3>1. PICK j \in DOMAIN order : order[j] = y  BY DEF Keys
    <3>2. j = 1 \/ 1 < j  BY <1>1
    <3> QED  BY <2>1, <2>2, <3>1, <3>2 DEF Before
  <2> QED  BY <2>1, <2>2, <2>4, <2>5 DEF Keys
<1> QED  BY <1>2, <1>3

(* bpf_map_get_next_key of a key in the map: the next one in the order.    *)
LEMMA NextKeyIsNext ==
  ASSUME order \in Seq(Flow), Sorted(order), NEW k \in Keys(order)
  PROVE  IF NextKey(k) = NoFlow THEN \A y : ~Before(order, k, y)
         ELSE /\ Before(order, k, NextKey(k))
              /\ \A y : Before(order, k, y) =>
                         y = NextKey(k) \/ Before(order, NextKey(k), y)
<1>1. DOMAIN order = 1..Len(order) /\ Len(order) \in Nat  OBVIOUS
<1> DEFINE i == CHOOSE j \in DOMAIN order : order[j] = k
<1>2. i \in DOMAIN order /\ order[i] = k  BY DEF Keys
<1>3. NextKey(k) = IF i < Len(order) THEN order[i + 1] ELSE NoFlow
  BY DEF Keys, NextKey
<1> HIDE DEF i
<1>4. \A l, m \in DOMAIN order : order[l] = order[m] => l = m
  BY <1>1 DEF Sorted
<1>5. CASE i < Len(order)
  <2>1. i + 1 \in DOMAIN order /\ order[i + 1] \in Flow  BY <1>1, <1>2, <1>5
  <2>2. NextKey(k) = order[i + 1] /\ NextKey(k) # NoFlow
    BY <1>3, <1>5, <2>1, ConstantsOK
  <2>3. i < i + 1  BY <1>1, <1>2
  <2>4. Before(order, k, NextKey(k))  BY <1>2, <2>1, <2>2, <2>3 DEF Before
  <2>5. ASSUME NEW y, Before(order, k, y)
        PROVE  y = NextKey(k) \/ Before(order, NextKey(k), y)
    <3>1. PICK l, m \in DOMAIN order : l < m /\ order[l] = k /\ order[m] = y
      BY <2>5 DEF Before
    <3>2. l = i  BY <1>2, <1>4, <3>1
    <3>3. m = i + 1 \/ i + 1 < m  BY <1>1, <1>2, <3>1, <3>2
    <3> QED  BY <2>1, <2>2, <3>1, <3>3 DEF Before
  <2> QED  BY <2>2, <2>4, <2>5
<1>6. CASE ~(i < Len(order))
  <2>1. NextKey(k) = NoFlow  BY <1>3, <1>6
  <2>2. ASSUME NEW y, Before(order, k, y) PROVE FALSE
    <3>1. PICK l, m \in DOMAIN order : l < m /\ order[l] = k /\ order[m] = y
      BY <2>2 DEF Before
    <3>2. l = i  BY <1>2, <1>4, <3>1
    <3> QED  BY <1>1, <1>2, <1>6, <3>1, <3>2
  <2> QED  BY <2>1, <2>2
<1> QED  BY <1>5, <1>6

(* Of a key that is not in the map: the first key.                         *)
LEMMA NextKeyOfMissing ==
  ASSUME NEW k, k \notin Keys(order) PROVE NextKey(k) = FirstKey
BY DEF NextKey, Keys

-----------------------------------------------------------------------------
(* What the accesses to the map keep, whoever makes them.  The three parts *)
(* need one another: an add goes through a pointer that LocalsOK says is   *)
(* there, and an update swaps elements that ElementsOwned says differ.     *)
KernelInv == KernelTypeOK /\ LocalsOK /\ ElementsOwned

(* The order is a sequence of flows, and the one OrderOK describes.        *)
OrderInv == order \in Seq(Flow) /\ OrderOK

(* A count stays a u64 and grows by at most one. *)
LEMMA BumpType ==
  ASSUME NEW v \in 0..(CounterMod - 1)
  PROVE  Bump(v) \in 0..(CounterMod - 1) /\ Bump(v) <= v + 1
BY ConstantsOK DEF Bump

LEMMA InitKernel == TableInit => KernelInv /\ OrderInv
<1> SUFFICES ASSUME TableInit PROVE KernelInv /\ OrderInv  OBVIOUS
<1> USE ConstantsOK DEF TableInit
<1>1. KernelTypeOK
  <2>1. 0 \in 0..(CounterMod - 1)  OBVIOUS
  <2>2. val \in [Elem -> 0..(CounterMod - 1)]  BY <2>1
  <2>3. htab \in [Flow -> Elem \cup {NoElem}] /\ free \subseteq Elem
    OBVIOUS
  <2> QED  BY <2>2, <2>3 DEF KernelTypeOK
<1>2. LocalsOK  BY DEF LocalsOK
<1>3. ElementsOwned  BY DEF ElementsOwned
<1>4. OrderInv
  <2>1. order = <<>> /\ order \in Seq(Flow) /\ DOMAIN order = {}  OBVIOUS
  <2>2. Linked = {}  BY DEF Linked
  <2> QED  BY <2>1, <2>2 DEF OrderInv, OrderOK
<1> QED  BY <1>1, <1>2, <1>3, <1>4 DEF KernelInv

(* The lookup changes one CPU's locals: its pointer is that of its key. *)
LEMMA LookupKernel ==
  ASSUME KernelInv, NEW c \in Cpu, NEW k \in Flow, Lookup(c, k)
  PROVE  KernelInv'
<1> USE ConstantsOK DEF KernelInv, Lookup, tableVars
<1>1. KernelTypeOK'  BY DEF KernelTypeOK
<1>2. LocalsOK'  BY DEF LocalsOK, KernelTypeOK
<1>3. ElementsOwned'  BY DEF ElementsOwned
<1> QED  BY <1>1, <1>2, <1>3

(* A CPU that completes its frame has a key, and drops it with the pointer.*)
LEMMA CompleteLocals ==
  ASSUME KernelInv, NEW c \in Cpu, Complete(c)
  PROVE  /\ key[c] \in Flow /\ Finish(c) /\ LocalsOK'
         /\ pc[c] = "add" => ptr[c] \in Elem
         /\ pc[c] = "insert" => ptr[c] = NoElem
         /\ \A d \in Cpu : key'[d] = IF d = c THEN NoFlow ELSE key[d]
         /\ \A d \in Cpu : ptr'[d] = IF d = c THEN NoElem ELSE ptr[d]
<1> USE ConstantsOK DEF KernelInv, Finish, LocalsOK, KernelTypeOK
<1>1. Finish(c) /\ pc[c] \in {"add", "insert"}
  BY DEF Complete, Add, InsertNew, InsertOver, InsertFull
<1> QED  BY <1>1

LEMMA AddKernel ==
  ASSUME KernelInv, NEW c \in Cpu, Add(c) PROVE KernelInv'
<1> USE ConstantsOK DEF KernelInv, Add, Finish
<1>1. ptr[c] \in Elem /\ LocalsOK'  BY CompleteLocals DEF Complete
<1>2. Bump(val[ptr[c]]) \in 0..(CounterMod - 1)
  BY <1>1, BumpType DEF KernelTypeOK
<1>3. KernelTypeOK'  BY <1>1, <1>2 DEF KernelTypeOK
<1>4. ElementsOwned'  BY DEF ElementsOwned
<1> QED  BY <1>1, <1>3, <1>4

(* An insert of a new key links an element nobody owned but the free list. *)
LEMMA InsertNewKernel ==
  ASSUME KernelInv, NEW c \in Cpu, InsertNew(c) PROVE KernelInv'
<1> USE ConstantsOK DEF KernelInv, InsertNew, Finish
<1>1. key[c] \in Flow /\ LocalsOK'  BY CompleteLocals DEF Complete
<1>2. PICK e \in free : /\ htab' = [htab EXCEPT ![key[c]] = e]
                        /\ free' = free \ {e}
                        /\ val' = [val EXCEPT ![e] = 1]
  OBVIOUS
<1>3. e \in Elem /\ e # NoElem  BY DEF KernelTypeOK
<1>4. 1 \in 0..(CounterMod - 1)  OBVIOUS
<1>5. KernelTypeOK'  BY <1>1, <1>2, <1>3, <1>4 DEF KernelTypeOK
<1>6. ElementsOwned'
  BY <1>1, <1>2, <1>3 DEF ElementsOwned, KernelTypeOK
<1> QED  BY <1>1, <1>5, <1>6

(* An update that overwrites links the CPU's spare and keeps the old       *)
(* element as the spare: two owners change places.                         *)
LEMMA InsertOverKernel ==
  ASSUME KernelInv, NEW c \in Cpu, InsertOver(c) PROVE KernelInv'
<1> USE ConstantsOK DEF KernelInv, InsertOver, Finish
<1>1. key[c] \in Flow /\ LocalsOK' /\ htab[key[c]] \in Elem
  <2>1. key[c] \in Flow /\ LocalsOK'  BY CompleteLocals DEF Complete
  <2> QED  BY <2>1 DEF KernelTypeOK
<1>2. spare[c] \in Elem /\ spare[c] # NoElem /\ htab[key[c]] # spare[c]
  BY <1>1 DEF KernelTypeOK, ElementsOwned
<1>3. 1 \in 0..(CounterMod - 1)  OBVIOUS
<1>4. KernelTypeOK'  BY <1>1, <1>2, <1>3 DEF KernelTypeOK
<1>5. ElementsOwned'
  <2>1. \A k \in Flow : htab'[k] = IF k = key[c] THEN spare[c] ELSE htab[k]
    BY DEF KernelTypeOK
  <2>2. \A d \in Cpu : spare'[d] = IF d = c THEN htab[key[c]] ELSE spare[d]
    BY DEF KernelTypeOK
  <2> QED  BY <1>1, <1>2, <2>1, <2>2 DEF ElementsOwned, KernelTypeOK
<1> QED  BY <1>1, <1>4, <1>5

LEMMA InsertFullKernel ==
  ASSUME KernelInv, NEW c \in Cpu, InsertFull(c) PROVE KernelInv'
<1> USE ConstantsOK DEF KernelInv, InsertFull, Finish, tableVars
<1>1. LocalsOK'  BY CompleteLocals DEF Complete
<1>2. KernelTypeOK'  BY DEF KernelTypeOK
<1>3. ElementsOwned'  BY DEF ElementsOwned
<1> QED  BY <1>1, <1>2, <1>3

LEMMA CompleteKernel ==
  ASSUME KernelInv, NEW c \in Cpu, Complete(c) PROVE KernelInv'
BY AddKernel, InsertNewKernel, InsertOverKernel, InsertFullKernel
DEF Complete

(* A delete gives an element back to the free list, pointers or not. *)
LEMMA DeleteKernel ==
  ASSUME KernelInv, NEW k \in Flow, DeleteElem(k) PROVE KernelInv'
<1> USE ConstantsOK DEF KernelInv, DeleteElem, cpuVars
<1>1. htab[k] \in Elem  BY DEF KernelTypeOK
<1>2. \A l \in Flow : htab'[l] = IF l = k THEN NoElem ELSE htab[l]
  BY DEF KernelTypeOK
<1>3. KernelTypeOK'  BY <1>1 DEF KernelTypeOK
<1>4. LocalsOK'  BY DEF LocalsOK, KernelTypeOK
<1>5. ElementsOwned'
  BY <1>1, <1>2 DEF ElementsOwned, KernelTypeOK
<1> QED  BY <1>3, <1>4, <1>5

(* A detach only closes the door to new frames. *)
LEMMA QuietKernel ==
  ASSUME KernelInv, Detach \/ UNCHANGED kernelVars PROVE KernelInv'
<1>1. /\ attached' \in BOOLEAN
      /\ UNCHANGED <<htab, order, val, free, spare, pc, key, ptr>>
  BY DEF Detach, kernelVars, tableVars, cpuVars, KernelInv, KernelTypeOK
<1> QED  BY <1>1, ZenonT(60) DEF KernelInv, KernelTypeOK, LocalsOK, ElementsOwned

-----------------------------------------------------------------------------
(* What completing a frame does to the set of linked keys and to their     *)
(* order: nothing, or an update of its key.                                *)
LEMMA CompleteLinks ==
  ASSUME KernelInv, NEW c \in Cpu, Complete(c)
  PROVE  \/ UNCHANGED order /\ Linked' = Linked
         \/ /\ pc[c] = "insert" /\ order' = LinkFirst(order, key[c])
            /\ Linked' = Linked \cup {key[c]}
<1>1. key[c] \in Flow  BY CompleteLocals
<1> USE ConstantsOK, <1>1 DEF KernelInv, KernelTypeOK, Linked
<1>2. CASE Add(c) \/ InsertFull(c)
  BY <1>2 DEF Add, InsertFull, tableVars
<1>3. CASE InsertNew(c)
  <2>1. PICK e \in free : htab' = [htab EXCEPT ![key[c]] = e]
    BY <1>3 DEF InsertNew
  <2>2. e # NoElem  OBVIOUS
  <2>3. \A k \in Flow : htab'[k] = IF k = key[c] THEN e ELSE htab[k]
    BY <2>1
  <2> QED  BY <1>3, <2>2, <2>3 DEF InsertNew
<1>4. CASE InsertOver(c)
  <2>1. \A k \in Flow : htab'[k] = IF k = key[c] THEN spare[c] ELSE htab[k]
    BY <1>4 DEF InsertOver
  <2>2. spare[c] # NoElem  OBVIOUS
  <2> QED  BY <1>4, <2>1, <2>2 DEF InsertOver
<1> QED  BY <1>2, <1>3, <1>4 DEF Complete

LEMMA DeleteLinks ==
  ASSUME KernelInv, NEW k \in Flow, DeleteElem(k)
  PROVE  order' = Unlink(order, k) /\ Linked' = Linked \ {k}
<1>1. \A l \in Flow : htab'[l] = IF l = k THEN NoElem ELSE htab[l]
  BY DEF DeleteElem, KernelInv, KernelTypeOK
<1> QED  BY <1>1 DEF DeleteElem, Linked

(* The order is that of the linked keys, sorted by bucket.                 *)
LEMMA OrderParts ==
  OrderInv <=> order \in Seq(Flow) /\ Keys(order) = Linked /\ Sorted(order)
BY DEF OrderInv, OrderOK, Keys, Sorted

LEMMA CompleteOrder ==
  ASSUME KernelInv, OrderInv, NEW c \in Cpu, Complete(c) PROVE OrderInv'
<1>1. order \in Seq(Flow) /\ Keys(order) = Linked /\ Sorted(order)
  BY OrderParts
<1>2. CASE UNCHANGED order /\ Linked' = Linked
  BY <1>2 DEF OrderInv, OrderOK
<1>3. CASE order' = LinkFirst(order, key[c]) /\ Linked' = Linked \cup {key[c]}
  <2>1. order' \in Seq(Flow) /\ Sorted(order') /\ Keys(order') = Linked'
    BY <1>1, <1>3, CompleteLocals, LinkOrder
  <2> QED  BY <2>1 DEF OrderInv, OrderOK, Keys, Sorted
<1> QED  BY <1>2, <1>3, CompleteLinks

LEMMA DeleteOrder ==
  ASSUME KernelInv, OrderInv, NEW k \in Flow, DeleteElem(k) PROVE OrderInv'
<1>1. order \in Seq(Flow) /\ Keys(order) = Linked /\ Sorted(order)
  BY OrderParts
<1>2. order' \in Seq(Flow) /\ Sorted(order') /\ Keys(order') = Linked'
  BY <1>1, DeleteLinks, UnlinkOrder, ZenonT(60)
<1> QED  BY <1>2 DEF OrderInv, OrderOK, Keys, Sorted

(* Lookups, detaches and the steps of a process that only reads.           *)
LEMMA QuietOrder ==
  ASSUME OrderInv, UNCHANGED <<htab, order>>
  PROVE  OrderInv' /\ Linked' = Linked
BY DEF OrderInv, OrderOK, Linked

-----------------------------------------------------------------------------
(* A lookup of any key leaves a settled flow settled. *)
LEMMA LookupSettles ==
  ASSUME KernelInv, NEW k \in Flow, Settled(k),
         NEW c \in Cpu, NEW l \in Flow, Lookup(c, l)
  PROVE  Settled(k)'
BY DEF Settled, Lookup, tableVars, KernelInv, ElementsOwned, KernelTypeOK

(* A CPU that completes a packet of a settled flow adds it to the flow's   *)
(* element; one that completes a packet of another flow does not touch it. *)
LEMMA CompleteSettles ==
  ASSUME KernelInv, NEW k \in Flow, Settled(k), NEW c \in Cpu, Complete(c)
  PROVE  /\ Settled(k)' /\ htab'[k] = htab[k]
         /\ pc[c] = "insert" => key[c] # k
         /\ val'[htab[k]] = IF key[c] = k THEN Bump(val[htab[k]])
                            ELSE val[htab[k]]
<1> USE ConstantsOK DEF KernelInv
<1>1. /\ key[c] \in Flow /\ htab[k] \in Elem /\ htab[k] # NoElem
      /\ pc[c] = "insert" => ptr[c] = NoElem
      /\ \A d \in Cpu : key'[d] = IF d = c THEN NoFlow ELSE key[d]
      /\ \A d \in Cpu : ptr'[d] = IF d = c THEN NoElem ELSE ptr[d]
  <2>1. htab[k] \in Elem /\ htab[k] # NoElem  BY DEF KernelTypeOK, Settled
  <2> QED  BY <2>1, CompleteLocals
<1>2. key[c] = k <=> ptr[c] = htab[k]  BY DEF Settled
<1>3. pc[c] = "insert" => key[c] # k  BY <1>1, <1>2
<1>4. ASSUME htab'[k] = htab[k] PROVE Settled(k)'
  BY <1>1, <1>4 DEF Settled
<1>5. CASE Add(c)
  <2>1. htab'[k] = htab[k]  BY <1>5 DEF Add
  <2>2. val'[htab[k]] = IF ptr[c] = htab[k] THEN Bump(val[htab[k]])
                        ELSE val[htab[k]]
    BY <1>1, <1>5 DEF Add, KernelTypeOK
  <2> QED  BY <1>2, <1>3, <1>4, <2>1, <2>2
<1>6. CASE InsertNew(c) \/ InsertOver(c) \/ InsertFull(c)
  <2>1. key[c] # k
    BY <1>3, <1>6 DEF InsertNew, InsertOver, InsertFull
  <2>2. htab'[k] = htab[k]
    BY <1>1, <1>6, <2>1
    DEF InsertNew, InsertOver, InsertFull, tableVars, KernelTypeOK
  <2>3. val'[htab[k]] = val[htab[k]]
    BY <1>1, <1>6, <2>1
    DEF InsertNew, InsertOver, InsertFull, tableVars, ElementsOwned,
      KernelTypeOK
  <2> QED  BY <1>3, <1>4, <2>1, <2>2, <2>3
<1> QED  BY <1>5, <1>6 DEF Complete
=============================================================================
