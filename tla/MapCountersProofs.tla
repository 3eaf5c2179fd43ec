------------------------- MODULE MapCountersProofs -------------------------
(***************************************************************************)
(* What the counters of bpf-maps can and cannot lose, for any number of    *)
(* CPUs, keys and elements: that the plain increments lose nothing of a    *)
(* key whose frames come to one CPU at a time, and of the others only      *)
(* packets that overlapped.                                                *)
(***************************************************************************)
EXTENDS MapCounters, TLAPS

(* What each CPU's program knows at each of its steps. *)
Progress ==
  \A c \in Cpu :
    /\ pc[c] = "idle" => key[c] = NoFlow
    /\ pc[c] # "idle" => key[c] \in Flow
    /\ ptr[c] \in Elem <=> pc[c] \in {"load", "store", "test"}
    /\ pc[c] = "test" => kind = "parity"
    /\ pc[c] = "insert" => kind \notin Arrays
    /\ pc[c] # "idle" /\ c \notin early => inner

(* Every element has one place.  In an array all keys have their own.      *)
Places ==
  /\ \A k, l \in Flow : htab[k] = htab[l] /\ htab[k] # NoElem => k = l
  /\ kind \in Arrays => \A k \in Flow : htab[k] # NoElem
  /\ kind \notin Arrays =>
       /\ \A k \in Flow : htab[k] \notin free
       /\ \A c \in Cpu : spare[c] \notin free
       /\ \A c \in Cpu, k \in Flow : htab[k] # spare[c]
       /\ \A c, d \in Cpu : spare[c] = spare[d] => c = d

Base == TypeOK /\ Progress /\ Places

-----------------------------------------------------------------------------
(* CPU c's slot is one of the slots. *)
LEMMA SlotType ==
  ASSUME NEW c \in Cpu PROVE SlotOf(c) \in Slot
BY DEF SlotOf, Slot

(* A new element's memory holds numbers, and a 1 in the slot of its maker. *)
LEMMA FreshType ==
  ASSUME NEW c \in Cpu
  PROVE  Fresh(c) \in [Slot -> Nat] /\ Fresh(c)[SlotOf(c)] = 1
BY SlotType DEF Fresh

(* The end of a CPU's program. *)
LEMMA LeaveTypes ==
  ASSUME TypeOK, NEW c \in Cpu, Leave(c)
  PROVE  /\ pc' \in [Cpu -> {"idle", "outer", "lookup", "load", "store", "test", "insert"}]
         /\ key' \in [Cpu -> Flow \cup {NoFlow}]
         /\ ptr' \in [Cpu -> Elem \cup {NoElem}]
         /\ reg' \in [Cpu -> Nat]
         /\ early' \subseteq Cpu /\ met' \subseteq Cpu
         /\ pc'[c] = "idle" /\ key'[c] = NoFlow /\ ptr'[c] = NoElem /\ reg'[c] = 0
         /\ \A d \in Cpu \ {c} :
              /\ pc'[d] = pc[d] /\ key'[d] = key[d]
              /\ ptr'[d] = ptr[d] /\ reg'[d] = reg[d]
              /\ d \in early' <=> d \in early
              /\ d \in met' <=> d \in met
BY DEF TypeOK, Leave

(* A program that has ended knows nothing. *)
LEMMA LeaveProgress ==
  ASSUME Base, NEW c \in Cpu, Leave(c), kind' = kind, inner' = inner
  PROVE  Progress'
BY LeaveTypes, CountersOK DEF Base, Progress

(* A packet the program is done with is counted once, for its key and its  *)
(* CPU.                                                                    *)
LEMMA CountedTypes ==
  ASSUME TypeOK, NEW c \in Cpu, key[c] \in Flow, Counted(c)
  PROVE  /\ handled' \in [Flow -> Nat]
         /\ own' \in [Flow -> [Cpu -> Nat]]
         /\ handled'[key[c]] = handled[key[c]] + 1
         /\ \A k \in Flow \ {key[c]} : handled'[k] = handled[k] /\ own'[k] = own[k]
         /\ raced' \in [Flow -> Nat]
         /\ \A k \in Flow \ {key[c]} : raced'[k] = raced[k]
         /\ c \in met => raced'[key[c]] = raced[key[c]] + 1
         /\ c \notin met => raced'[key[c]] = raced[key[c]]
         /\ own'[key[c]][c] = own[key[c]][c] + 1
         /\ \A d \in Cpu \ {c} : own'[key[c]][d] = own[key[c]][d]
<1>1. handled \in [Flow -> Nat] /\ own \in [Flow -> [Cpu -> Nat]]
  BY DEF TypeOK
<1>2. own[key[c]] \in [Cpu -> Nat]
  BY <1>1
<1>3. /\ raced' \in [Flow -> Nat]
      /\ \A k \in Flow \ {key[c]} : raced'[k] = raced[k]
      /\ c \in met => raced'[key[c]] = raced[key[c]] + 1
      /\ c \notin met => raced'[key[c]] = raced[key[c]]
  BY DEF Counted, TypeOK
<1> QED  BY <1>1, <1>2, <1>3 DEF Counted

(* The linking of element e. *)
LEMMA LinkTypes ==
  ASSUME TypeOK, NEW c \in Cpu, key[c] \in Flow, NEW e \in Elem, Link(c, e)
  PROVE  /\ cell' \in [Elem -> [Slot -> Nat]]
         /\ cell'[e] = Fresh(c)
         /\ \A f \in Elem \ {e} : cell'[f] = cell[f]
         /\ polluted' \subseteq Flow /\ polluted \subseteq polluted'
         /\ key[c] \notin polluted' => \A d \in Cpu : ptr[d] # e
         /\ Leave(c) /\ Counted(c) /\ UNCHANGED <<kind, inner, drops, crossed>>
<1>1. cell \in [Elem -> [Slot -> Nat]] /\ cell' = [cell EXCEPT ![e] = Fresh(c)]
  BY DEF TypeOK, Link
<1>2. /\ cell' \in [Elem -> [Slot -> Nat]] /\ cell'[e] = Fresh(c)
      /\ \A f \in Elem \ {e} : cell'[f] = cell[f]
  BY <1>1, FreshType
<1> QED  BY <1>2 DEF TypeOK, Link

-----------------------------------------------------------------------------
(* No CPU runs the program at the start, and every element has its place. *)
LEMMA InitBase == Init => Base
<1> SUFFICES ASSUME Init PROVE Base  OBVIOUS
<1>1. TypeOK
  BY CountersOK DEF Init, TypeOK, Kinds, Slot
<1>2. Progress
  BY CountersOK DEF Init, Progress
<1>3. Places
  <2>1. CASE kind \in Arrays
    <3>1. \A k \in Flow : htab[k] = ArrayElem[k] /\ ArrayElem[k] \in Elem
      BY <2>1, CountersOK DEF Init
    <3> QED  BY <2>1, <3>1, CountersOK DEF Places
  <2>2. CASE kind \notin Arrays
    <3>1. /\ \A k \in Flow : htab[k] = NoElem
          /\ free = Elem \ {FirstSpare[c] : c \in Cpu}
          /\ spare = FirstSpare
      BY <2>2 DEF Init
    <3>2. \A c \in Cpu : spare[c] \in Elem /\ spare[c] \notin free
      BY <3>1, CountersOK
    <3> QED  BY <2>2, <3>1, <3>2, CountersOK DEF Places
  <2> QED  BY <2>1, <2>2
<1> QED  BY <1>1, <1>2, <1>3 DEF Base

(* A CPU's program goes on without touching what is shared. *)
LEMMA BaseReceive ==
  ASSUME Base, NEW c \in Cpu, NEW k \in Flow, Receive(c, k) PROVE Base'
<1> USE DEF Base
<1>1. TypeOK'
  BY DEF TypeOK, Receive, mapVars
<1>2. Progress'
  BY CountersOK DEF TypeOK, Receive, mapVars, Progress, Arrays
<1>3. Places'
  BY DEF Places, Receive, mapVars
<1> QED  BY <1>1, <1>2, <1>3

(* The lookup in the outer map goes on only when there is an inner one. *)
LEMMA BaseLookupOuter ==
  ASSUME Base, NEW c \in Cpu, LookupOuter(c) PROVE Base'
<1> USE DEF Base
<1>1. Places'
  BY DEF Places, LookupOuter, mapVars
<1>2. pc[c] = "outer" /\ key[c] \in Flow
  BY DEF LookupOuter, Progress
<1>3. CASE inner
  <2>1. TypeOK'
    BY <1>3 DEF TypeOK, LookupOuter, mapVars
  <2>2. pc' = [pc EXCEPT ![c] = "lookup"] /\ UNCHANGED <<key, ptr, early, kind, inner>>
    BY <1>3 DEF LookupOuter
  <2>3. Progress'
    BY <1>2, <1>3, <2>2 DEF TypeOK, Progress
  <2> QED  BY <1>1, <2>1, <2>3
<1>4. CASE ~inner
  <2>1. Leave(c) /\ UNCHANGED <<handled, own, raced, kind, inner, mapVars, drops, crossed,
                                 evicted, polluted>>
    BY <1>2, <1>4 DEF LookupOuter, Progress
  <2>2. TypeOK'
    BY <2>1, LeaveTypes DEF TypeOK, mapVars
  <2>3. Progress'
    BY <2>1, LeaveProgress
  <2> QED  BY <1>1, <2>2, <2>3
<1> QED  BY <1>3, <1>4

(* The lookup ends with a pointer or with an insertion to make. *)
LEMMA BaseLookup ==
  ASSUME Base, NEW c \in Cpu, Lookup(c) PROVE Base'
<1> USE DEF Base
<1>1. pc[c] = "lookup" /\ key[c] \in Flow /\ htab[key[c]] \in Elem \cup {NoElem}
  BY DEF Lookup, Progress, TypeOK
<1>2. TypeOK'
  BY <1>1 DEF TypeOK, Lookup, mapVars, audit
<1>3. Places'
  BY DEF Places, Lookup, mapVars
<1>4. Progress'
  BY <1>1, CountersOK DEF TypeOK, Lookup, mapVars, Progress, Places
<1> QED  BY <1>2, <1>3, <1>4

(* The load puts a number in the register. *)
LEMMA BaseLoad ==
  ASSUME Base, NEW c \in Cpu, Load(c) PROVE Base'
<1> USE DEF Base
<1>1. ptr[c] \in Elem /\ pc[c] = "load"
  BY DEF Load, Progress
<1>2. cell[ptr[c]][SlotOf(c)] \in Nat
  BY <1>1, SlotType DEF TypeOK
<1>3. TypeOK'
  BY <1>2 DEF TypeOK, Load, mapVars, audit
<1>4. Places'
  BY DEF Places, Load, mapVars
<1>5. Progress'
  BY <1>1 DEF TypeOK, Load, mapVars, Progress
<1> QED  BY <1>3, <1>4, <1>5

(* What a store leaves behind. *)
LEMMA StoreTypes ==
  ASSUME Base, NEW c \in Cpu, Store(c)
  PROVE  /\ ptr[c] \in Elem /\ key[c] \in Flow /\ pc[c] = "store"
         /\ cell' \in [Elem -> [Slot -> Nat]]
         /\ cell'[ptr[c]][SlotOf(c)] = reg[c] + 1
         /\ \A e \in Elem, s \in Slot :
              e # ptr[c] \/ s # SlotOf(c) => cell'[e][s] = cell[e][s]
         /\ Counted(c)
<1>1. ptr[c] \in Elem /\ key[c] \in Flow /\ pc[c] = "store" /\ Counted(c)
  BY DEF Base, Progress, Store
<1>2. cell \in [Elem -> [Slot -> Nat]] /\ reg[c] + 1 \in Nat
  BY DEF Base, TypeOK
<1>3. cell' = [cell EXCEPT ![ptr[c]] = [cell[ptr[c]] EXCEPT ![SlotOf(c)] = reg[c] + 1]]
  BY DEF Store
<1>4. cell[ptr[c]] \in [Slot -> Nat]
  BY <1>1, <1>2
<1>5. [cell[ptr[c]] EXCEPT ![SlotOf(c)] = reg[c] + 1] \in [Slot -> Nat]
  BY <1>2, <1>4
<1> QED  BY <1>1, <1>2, <1>3, <1>4, <1>5, SlotType

(* The store leaves a number in the element. *)
LEMMA BaseStore ==
  ASSUME Base, NEW c \in Cpu, Store(c) PROVE Base'
<1>1. ptr[c] \in Elem /\ key[c] \in Flow /\ pc[c] = "store" /\ Counted(c)
  BY StoreTypes
<1>2. Places'
  BY DEF Base, Places, Store
<1>3. CASE kind = "parity"
  <2>1. /\ pc' = [pc EXCEPT ![c] = "test"] /\ reg' = [reg EXCEPT ![c] = @ + 1]
        /\ UNCHANGED <<kind, inner, htab, free, spare, drops, crossed, evicted, polluted, key, ptr, early, met>>
    BY <1>3 DEF Store
  <2>2. TypeOK'
    BY <1>1, <2>1, StoreTypes, CountedTypes DEF Base, TypeOK
  <2>3. Progress'
    BY <1>1, <1>3, <2>1 DEF Base, TypeOK, Progress, Arrays
  <2> QED  BY <1>2, <2>2, <2>3 DEF Base
<1>4. CASE kind # "parity"
  <2>1. Leave(c) /\ UNCHANGED <<kind, inner, htab, free, spare, drops, crossed, evicted, polluted>>
    BY <1>4 DEF Store
  <2>2. TypeOK'
    BY <1>1, <2>1, StoreTypes, CountedTypes, LeaveTypes DEF Base, TypeOK
  <2>3. Progress'
    BY <2>1, LeaveProgress
  <2> QED  BY <1>2, <2>2, <2>3 DEF Base
<1> QED  BY <1>3, <1>4

(* The test drops the packet or not. *)
LEMMA BaseTest ==
  ASSUME Base, NEW c \in Cpu, Test(c) PROVE Base'
<1>1. Leave(c) /\ UNCHANGED <<kind, inner, mapVars, handled, own, raced, crossed, evicted,
                                polluted>>
  BY DEF Test
<1>2. PICK v \in {reg[c], cell[ptr[c]][Shared]} :
        drops' = [drops EXCEPT ![key[c]] = @ + Dropped(v)]
  BY DEF Test
<1>3. Dropped(v) \in Nat
  BY DEF Dropped
<1>4. drops' \in [Flow -> Nat]
  <2>1. key[c] \in Flow /\ drops \in [Flow -> Nat]
    BY DEF Base, TypeOK, Progress, Test
  <2>2. drops[key[c]] + Dropped(v) \in Nat
    BY <1>3, <2>1
  <2> QED  BY <1>2, <2>1, <2>2
<1>5. TypeOK'
  BY <1>1, <1>4, LeaveTypes DEF Base, TypeOK, mapVars
<1>6. Progress'
  BY <1>1, LeaveProgress
<1>7. Places'
  BY <1>1 DEF Base, Places, mapVars
<1> QED  BY <1>5, <1>6, <1>7 DEF Base

(* A CPU links element e for its key, wherever the element comes from. *)
LEMMA BaseLink ==
  ASSUME Base, NEW c \in Cpu, pc[c] = "insert", NEW e \in Elem, Link(c, e),
         htab' \in [Flow -> Elem \cup {NoElem}], free' \subseteq Elem,
         spare' \in [Cpu -> Elem], evicted' \subseteq Flow, Places'
  PROVE  Base'
<1>1. key[c] \in Flow
  BY DEF Base, Progress
<1>2. TypeOK'
  BY <1>1, LinkTypes, LeaveTypes, CountedTypes DEF Base, TypeOK
<1>3. Leave(c) /\ kind' = kind /\ inner' = inner
  BY DEF Link
<1>4. Progress'
  BY <1>3, LeaveProgress
<1> QED  BY <1>2, <1>4 DEF Base

(* A free element that is linked is no longer free. *)
LEMMA BaseInsertNew ==
  ASSUME Base, NEW c \in Cpu, InsertNew(c) PROVE Base'
<1>1. PICK e \in free :
        htab' = [htab EXCEPT ![key[c]] = e] /\ free' = free \ {e} /\ Link(c, e)
  BY DEF InsertNew
<1>2. /\ pc[c] = "insert" /\ key[c] \in Flow /\ e \in Elem /\ kind \notin Arrays
      /\ UNCHANGED <<spare, evicted, kind>>
  BY <1>1 DEF InsertNew, Base, Progress, TypeOK, Link
<1>3. Places'
  BY <1>1, <1>2, CountersOK DEF Base, TypeOK, Places, Arrays
<1> QED  BY <1>1, <1>2, <1>3, BaseLink DEF Base, TypeOK

(* The replaced element becomes the spare of the CPU that replaced it. *)
LEMMA BaseInsertOver ==
  ASSUME Base, NEW c \in Cpu, InsertOver(c) PROVE Base'
<1>1. /\ pc[c] = "insert" /\ key[c] \in Flow /\ kind \notin Arrays
      /\ htab[key[c]] \in Elem /\ spare[c] \in Elem
      /\ htab' = [htab EXCEPT ![key[c]] = spare[c]]
      /\ spare' = [spare EXCEPT ![c] = htab[key[c]]]
      /\ Link(c, spare[c])
      /\ UNCHANGED <<free, evicted, kind>>
  BY DEF InsertOver, Base, Progress, TypeOK, Link
<1>2. Places'
  <2>1. \A k \in Flow : htab'[k] = IF k = key[c] THEN spare[c] ELSE htab[k]
    BY <1>1 DEF Base, TypeOK
  <2>2. \A d \in Cpu : spare'[d] = IF d = c THEN htab[key[c]] ELSE spare[d]
    BY <1>1 DEF Base, TypeOK
  <2> QED  BY <1>1, <2>1, <2>2, CountersOK DEF Base, TypeOK, Places, Arrays
<1> QED  BY <1>1, <1>2, BaseLink DEF Base, TypeOK

(* An element taken from another key is that key's no longer. *)
LEMMA BaseInsertLru ==
  ASSUME Base, NEW c \in Cpu, InsertLru(c) PROVE Base'
<1>1. PICK e \in free \cup {htab[k] : k \in Flow} :
        /\ e # NoElem
        /\ htab' = [k \in Flow |-> IF k = key[c] THEN e
                                   ELSE IF htab[k] = e THEN NoElem ELSE htab[k]]
        /\ free' = (free \cup {htab[key[c]]}) \ {e, NoElem}
        /\ evicted' = evicted \cup {k \in Flow : htab[k] = e}
        /\ Link(c, e)
  BY DEF InsertLru
<1>2. /\ pc[c] = "insert" /\ key[c] \in Flow /\ kind \notin Arrays
      /\ UNCHANGED <<spare, kind>>
  BY <1>1 DEF InsertLru, Base, Progress, Link
<1>3. e \in Elem /\ htab[key[c]] \in Elem \cup {NoElem}
  BY <1>1, <1>2 DEF Base, TypeOK
<1>4. /\ htab' \in [Flow -> Elem \cup {NoElem}] /\ free' \subseteq Elem
      /\ evicted' \subseteq Flow
  BY <1>1, <1>3 DEF Base, TypeOK
<1>5. Places'
  <2>1. \A k \in Flow : htab'[k] = IF k = key[c] THEN e
                                   ELSE IF htab[k] = e THEN NoElem ELSE htab[k]
    BY <1>1
  <2>2. \A d \in Cpu : spare'[d] = spare[d] /\ spare[d] \in Elem /\ spare[d] # e
    BY <1>1, <1>2 DEF Base, TypeOK, Places
  <2>3. \A k, l \in Flow : htab'[k] = htab'[l] /\ htab'[k] # NoElem => k = l
    BY <1>3, <2>1 DEF Base, Places
  <2>4. \A k \in Flow : htab'[k] \notin free'
    BY <1>1, <1>2, <1>3, <2>1, CountersOK DEF Base, TypeOK, Places
  <2>5. \A d \in Cpu : spare'[d] \notin free'
    BY <1>1, <1>2, <2>2 DEF Base, Places
  <2>6. \A d \in Cpu, k \in Flow : htab'[k] # spare'[d]
    BY <1>2, <2>1, <2>2, CountersOK DEF Base, Places
  <2> QED  BY <1>2, <2>2, <2>3, <2>4, <2>5, <2>6 DEF Base, Places, Arrays
<1> QED  BY <1>1, <1>2, <1>3, <1>4, <1>5, BaseLink DEF Base, TypeOK

(* The update of a key another CPU has linked in a per-CPU map. *)
LEMMA OwnTypes ==
  ASSUME Base, NEW c \in Cpu, InsertOwn(c)
  PROVE  /\ pc[c] = "insert" /\ key[c] \in Flow /\ kind \in PerCpu
         /\ htab[key[c]] \in Elem
         /\ cell' \in [Elem -> [Slot -> Nat]]
         /\ cell'[htab[key[c]]][c] = 1
         /\ \A e \in Elem, s \in Slot :
              e # htab[key[c]] \/ s # c => cell'[e][s] = cell[e][s]
         /\ Counted(c) /\ Leave(c)
         /\ UNCHANGED <<kind, inner, htab, free, spare, drops, crossed, evicted, polluted>>
<1>1. /\ pc[c] = "insert" /\ key[c] \in Flow /\ kind \in PerCpu
      /\ htab[key[c]] \in Elem
  BY DEF InsertOwn, Base, TypeOK, Progress, PerCpu
<1>2. cell \in [Elem -> [Slot -> Nat]] /\ c \in Slot
  BY DEF Base, TypeOK, Slot
<1>3. cell' = [cell EXCEPT ![htab[key[c]]] = [cell[htab[key[c]]] EXCEPT ![c] = 1]]
  BY DEF InsertOwn
<1>4. cell[htab[key[c]]] \in [Slot -> Nat]
  BY <1>1, <1>2
<1>5. [cell[htab[key[c]]] EXCEPT ![c] = 1] \in [Slot -> Nat]
  BY <1>4
<1>6. /\ cell' \in [Elem -> [Slot -> Nat]]
      /\ cell'[htab[key[c]]][c] = 1
      /\ \A e \in Elem, s \in Slot :
           e # htab[key[c]] \/ s # c => cell'[e][s] = cell[e][s]
  BY <1>1, <1>2, <1>3, <1>4, <1>5
<1> QED  BY <1>1, <1>6 DEF InsertOwn

(* The value of one CPU is set in an element that stays where it is. *)
LEMMA BaseInsertOwn ==
  ASSUME Base, NEW c \in Cpu, InsertOwn(c) PROVE Base'
<1>1. TypeOK'
  BY OwnTypes, LeaveTypes, CountedTypes DEF Base, TypeOK
<1>2. Progress'
  BY OwnTypes, LeaveProgress
<1>3. Places'
  BY OwnTypes DEF Base, Places
<1> QED  BY <1>1, <1>2, <1>3 DEF Base

(* An update that fails moves no element. *)
LEMMA BaseInsertFull ==
  ASSUME Base, NEW c \in Cpu, InsertFull(c) PROVE Base'
<1>1. /\ key[c] \in Flow /\ Leave(c) /\ Counted(c)
      /\ UNCHANGED <<kind, inner, mapVars, drops, crossed, evicted, polluted>>
  BY DEF InsertFull, Base, Progress
<1>2. TypeOK'
  BY <1>1, LeaveTypes, CountedTypes DEF Base, TypeOK, mapVars
<1>3. Progress'
  BY <1>1, LeaveProgress
<1>4. Places'
  BY <1>1 DEF Base, Places, mapVars
<1> QED  BY <1>2, <1>3, <1>4 DEF Base

(* Every step keeps the types, the progress and the places. *)
LEMMA StepBase ==
  ASSUME Base, [Next]_vars PROVE Base'
<1>1. CASE InsertInner
  <2>1. TypeOK'
    BY <1>1 DEF Base, InsertInner, TypeOK, mapVars, runVars, audit
  <2>2. Progress'
    BY <1>1 DEF Base, InsertInner, Progress, runVars
  <2>3. Places'
    BY <1>1 DEF Base, InsertInner, Places, mapVars
  <2> QED  BY <2>1, <2>2, <2>3 DEF Base
<1>2. ASSUME NEW c \in Cpu, CpuStep(c) PROVE Base'
  BY <1>2, BaseReceive, BaseLookupOuter, BaseLookup, BaseLoad, BaseStore, BaseTest,
     BaseInsertNew, BaseInsertOver, BaseInsertOwn, BaseInsertFull, BaseInsertLru
     DEF CpuStep
<1>3. CASE UNCHANGED vars
  BY <1>3 DEF Base, TypeOK, Progress, Places, vars, mapVars, runVars, audit
<1> QED  BY <1>1, <1>2, <1>3 DEF Next

(* Every reachable state has the types TypeOK gives it, whatever the CPUs, *)
(* the keys and the elements are.                                          *)
THEOREM CountersTypeCorrect == Spec => []TypeOK
<1>1. Base => TypeOK
  BY DEF Base
<1> QED  BY InitBase, StepBase, <1>1, PTL DEF Spec

-----------------------------------------------------------------------------
(* What the three ways to link an element have in common. *)
Relinks(c, e) ==
  /\ Link(c, e) /\ pc[c] = "insert" /\ kind \notin Arrays
  /\ htab'[key[c]] = e
  /\ \A k \in Flow \ {key[c]} :
       \/ htab'[k] = htab[k] /\ htab[k] # e
       \/ htab'[k] = NoElem /\ k \in evicted'
  /\ evicted \subseteq evicted'
  /\ kind # "lru" => free' \subseteq free
  /\ htab[key[c]] = NoElem /\ kind # "lru" => free # {}

(* InsertNew, InsertOver and InsertLru link one element, as Relinks says. *)
LEMMA Relink ==
  ASSUME Base, NEW c \in Cpu, InsertNew(c) \/ InsertOver(c) \/ InsertLru(c)
  PROVE  \E e \in Elem : Relinks(c, e)
<1>1. key[c] \in Flow /\ pc[c] = "insert" /\ kind \notin Arrays
  BY DEF Base, Progress, InsertNew, InsertOver, InsertLru
<1>2. CASE InsertNew(c)
  <2>1. PICK e \in free :
          htab' = [htab EXCEPT ![key[c]] = e] /\ free' = free \ {e} /\ Link(c, e)
    BY <1>2 DEF InsertNew
  <2>2. e \in Elem /\ free # {} /\ evicted' = evicted
    BY <1>2, <2>1 DEF InsertNew, Base, TypeOK
  <2>3. \A k \in Flow : htab[k] # e
    BY <1>1, <2>1 DEF Base, Places
  <2>4. Relinks(c, e)
    BY <1>1, <2>1, <2>2, <2>3 DEF Relinks, Base, TypeOK
  <2> QED  BY <2>2, <2>4
<1>3. CASE InsertOver(c)
  <2>1. /\ htab' = [htab EXCEPT ![key[c]] = spare[c]] /\ Link(c, spare[c])
        /\ htab[key[c]] # NoElem /\ free' = free /\ evicted' = evicted
    BY <1>3 DEF InsertOver
  <2>2. spare[c] \in Elem /\ \A k \in Flow : htab[k] # spare[c]
    BY <1>1 DEF Base, TypeOK, Places
  <2>3. Relinks(c, spare[c])
    BY <1>1, <2>1, <2>2 DEF Relinks, Base, TypeOK
  <2> QED  BY <2>2, <2>3
<1>4. CASE InsertLru(c)
  <2>1. PICK e \in free \cup {htab[k] : k \in Flow} :
          /\ e # NoElem
          /\ htab' = [k \in Flow |-> IF k = key[c] THEN e
                                     ELSE IF htab[k] = e THEN NoElem ELSE htab[k]]
          /\ evicted' = evicted \cup {k \in Flow : htab[k] = e}
          /\ Link(c, e)
    BY <1>4 DEF InsertLru
  <2>2. e \in Elem /\ kind = "lru"
    BY <1>4, <2>1 DEF InsertLru, Base, TypeOK
  <2>3. Relinks(c, e)
    BY <1>1, <2>1, <2>2 DEF Relinks
  <2> QED  BY <2>2, <2>3
<1> QED  BY <1>2, <1>3, <1>4

-----------------------------------------------------------------------------
(* A count no packet has been added to twice: also the count a CPU has     *)
(* loaded is one of packets handled, and who points at the element of a    *)
(* key counts that key.                                                    *)
CountAt(k) ==
  k \notin polluted /\ htab[k] # NoElem =>
    /\ cell[htab[k]][Shared] <= handled[k]
    /\ \A d \in Cpu : ptr[d] = htab[k] =>
         key[d] = k /\ (pc[d] = "store" => reg[d] <= handled[k])

Counts == kind \notin PerCpu => \A k \in Flow : CountAt(k)

(* A CPU is done without having touched the map. *)
LEMMA CountsLeave ==
  ASSUME Base, Counts, NEW c \in Cpu, Leave(c),
         UNCHANGED <<kind, htab, cell, polluted>>,
         \A k \in Flow : handled'[k] \in Nat /\ handled'[k] >= handled[k]
  PROVE  Counts'
<1> SUFFICES ASSUME kind \notin PerCpu, NEW k \in Flow, k \notin polluted, htab[k] # NoElem
             PROVE  CountAt(k)'
  BY DEF Counts, CountAt
<1>1. htab[k] \in Elem /\ cell[htab[k]][Shared] \in Nat /\ handled[k] \in Nat
  BY DEF Base, TypeOK, Slot
<1>2. CountAt(k)
  BY DEF Counts
<1>3. \A d \in Cpu : reg[d] \in Nat
  BY DEF Base, TypeOK
<1> QED  BY <1>1, <1>2, <1>3, LeaveTypes DEF CountAt, Base

(* A new element's count is 1, and its key's packets are at least that. *)
LEMMA CountsLink ==
  ASSUME Base, Counts, NEW c \in Cpu, NEW e \in Elem, Relinks(c, e)
  PROVE  Counts'
<1>1. Link(c, e) /\ key[c] \in Flow /\ kind' = kind
  BY DEF Relinks, Base, Progress, Link
<1> SUFFICES ASSUME kind \notin PerCpu, NEW k \in Flow, k \notin polluted',
                    htab'[k] # NoElem
             PROVE  CountAt(k)'
  BY <1>1 DEF Counts, CountAt
<1>2. \A d \in Cpu : d # c => ptr'[d] = ptr[d] /\ key'[d] = key[d] /\ pc'[d] = pc[d]
                              /\ reg'[d] = reg[d]
  BY <1>1, LinkTypes, LeaveTypes DEF Base
<1>3. ptr'[c] = NoElem
  BY <1>1, LinkTypes, LeaveTypes DEF Base
<1>4. CASE k = key[c]
  <2>1. htab'[k] = e /\ \A d \in Cpu : ptr[d] # e
    BY <1>1, <1>4, LinkTypes DEF Base, Relinks
  <2>2. cell'[e][Shared] = 1
    BY <1>1, LinkTypes, FreshType DEF Base, SlotOf
  <2>3. handled'[k] = handled[k] + 1 /\ handled[k] \in Nat
    BY <1>1, <1>4, LinkTypes, CountedTypes DEF Base, TypeOK
  <2>4. \A d \in Cpu : ptr'[d] # e
    BY <1>2, <1>3, <2>1, CountersOK
  <2> QED  BY <2>1, <2>2, <2>3, <2>4 DEF CountAt
<1>5. CASE k # key[c]
  <2>1. htab'[k] = htab[k] /\ htab[k] # e /\ htab[k] \in Elem
    BY <1>5 DEF Relinks, Base, TypeOK
  <2>2. cell'[htab[k]] = cell[htab[k]] /\ polluted \subseteq polluted'
    BY <1>1, <2>1, LinkTypes DEF Base
  <2>3. handled'[k] = handled[k]
    BY <1>1, <1>5, LinkTypes, CountedTypes DEF Base
  <2>4. CountAt(k) /\ k \notin polluted /\ htab[k] # NoElem
    BY <2>1, <2>2 DEF Counts
  <2> QED  BY <1>2, <1>3, <2>1, <2>2, <2>3, <2>4, CountersOK DEF CountAt
<1> QED  BY <1>4, <1>5

(* A store writes at most one more than the packets that were handled when *)
(* it was loaded.                                                          *)
LEMMA CountsStore ==
  ASSUME Base, Counts, NEW c \in Cpu, Store(c)
  PROVE  Counts'
<1>1. kind' = kind /\ htab' = htab /\ polluted' = polluted
  BY DEF Store
<1> SUFFICES ASSUME kind \notin PerCpu, NEW k \in Flow, k \notin polluted, htab[k] # NoElem
             PROVE  CountAt(k)'
  BY <1>1 DEF Counts, CountAt
<1>2. \A d \in Cpu : d # c => ptr'[d] = ptr[d] /\ key'[d] = key[d] /\ pc'[d] = pc[d]
                              /\ reg'[d] = reg[d]
  BY LeaveTypes DEF Base, TypeOK, Store
<1>3. pc'[c] # "store" /\ (ptr'[c] # NoElem => ptr'[c] = ptr[c] /\ key'[c] = key[c])
  <2>1. CASE kind = "parity"
    <3>1. pc' = [pc EXCEPT ![c] = "test"] /\ ptr' = ptr /\ key' = key
      BY <2>1 DEF Store
    <3> QED  BY <3>1 DEF Base, TypeOK
  <2>2. CASE kind # "parity"
    <3>1. Leave(c)
      BY <2>2 DEF Store
    <3> QED  BY <3>1, LeaveTypes DEF Base
  <2> QED  BY <2>1, <2>2
<1>4. CountAt(k) /\ htab[k] \in Elem /\ handled[k] \in Nat /\ Shared \in Slot
  BY DEF Counts, Base, TypeOK, Slot
<1>5. /\ handled'[k] = IF k = key[c] THEN handled[k] + 1 ELSE handled[k]
      /\ key[c] \in Flow /\ pc[c] = "store" /\ ptr[c] \in Elem
  BY StoreTypes, CountedTypes DEF Base
<1>6. reg[c] \in Nat /\ cell[htab[k]][Shared] \in Nat /\ \A d \in Cpu : reg[d] \in Nat
  BY <1>4 DEF Base, TypeOK
<1>7. cell'[htab[k]][Shared] <= handled'[k]
  <2>1. SlotOf(c) = Shared
    BY DEF SlotOf
  <2>2. CASE htab[k] = ptr[c]
    <3>1. cell'[htab[k]][Shared] = reg[c] + 1
      BY <2>1, <2>2, StoreTypes
    <3>2. key[c] = k /\ reg[c] <= handled[k]
      BY <1>4, <1>5, <2>2 DEF CountAt
    <3> QED  BY <1>4, <1>5, <1>6, <3>1, <3>2
  <2>3. CASE htab[k] # ptr[c]
    <3>1. cell'[htab[k]][Shared] = cell[htab[k]][Shared]
      BY <1>4, <2>3, StoreTypes
    <3> QED  BY <1>4, <1>5, <1>6, <3>1 DEF CountAt
  <2> QED  BY <2>2, <2>3
<1> QED  BY <1>1, <1>2, <1>3, <1>4, <1>5, <1>6, <1>7, CountersOK DEF CountAt

(* Every step keeps the bound on the shared counts. *)
LEMMA StepCounts ==
  ASSUME Base, Counts, [Next]_vars PROVE Counts'
<1>1. ASSUME InsertInner \/ UNCHANGED vars PROVE Counts'
  BY <1>1 DEF Counts, CountAt, InsertInner, vars, mapVars, runVars, audit
<1>2. ASSUME NEW c \in Cpu, CpuStep(c) PROVE Counts'
  <2>1. \A k \in Flow : handled[k] \in Nat
    BY DEF Base, TypeOK
  <2>2. CASE \E k \in Flow : Receive(c, k)
    <3>1. PICK k \in Flow : Receive(c, k)
      BY <2>2
    <3>2. ptr[c] = NoElem
      BY <3>1 DEF Receive, Base, Progress, TypeOK
    <3> QED  BY <3>1, <3>2 DEF Counts, CountAt, Receive, mapVars, Base, TypeOK
  <2>3. CASE LookupOuter(c)
    <3>1. CASE inner
      BY <2>3, <3>1 DEF Counts, CountAt, LookupOuter, mapVars, Base, TypeOK
    <3>2. CASE ~inner
      <4>1. /\ Leave(c) /\ UNCHANGED <<kind, htab, cell, polluted>>
            /\ \A k \in Flow : handled'[k] = handled[k]
        BY <2>3, <3>2 DEF LookupOuter, mapVars, Base, Progress
      <4> QED  BY <2>1, <4>1, CountsLeave
    <3> QED  BY <3>1, <3>2
  <2>4. CASE Lookup(c)
    BY <2>4, CountersOK DEF Counts, CountAt, Lookup, mapVars, audit, Base, TypeOK, Progress,
       Places
  <2>5. CASE Load(c)
    <3> SUFFICES ASSUME kind \notin PerCpu, NEW k \in Flow, CountAt(k) PROVE CountAt(k)'
      BY <2>5 DEF Counts, Load, mapVars, audit
    <3>1. SlotOf(c) = Shared
      BY DEF SlotOf
    <3> QED  BY <2>5, <3>1 DEF CountAt, Load, mapVars, audit, Base, TypeOK
  <2>6. CASE Test(c)
    BY <2>1, <2>6, CountsLeave DEF Test, mapVars
  <2>7. CASE InsertFull(c)
    <3>1. \A k \in Flow : handled'[k] \in Nat /\ handled'[k] >= handled[k]
      <4>1. key[c] \in Flow /\ Counted(c)
        BY <2>7 DEF InsertFull, Base, Progress
      <4> QED  BY <2>1, <4>1, CountedTypes DEF Base
    <3> QED  BY <2>7, <3>1, CountsLeave DEF InsertFull, mapVars
  <2>8. CASE InsertOwn(c)
    <3>1. kind = "percpu_hash" /\ kind' = kind
      BY <2>8 DEF InsertOwn
    <3> QED  BY <3>1 DEF Counts, PerCpu
  <2> QED  BY <1>2, <2>2, <2>3, <2>4, <2>5, <2>6, <2>7, <2>8,
              CountsStore, CountsLink, Relink DEF CpuStep
<1> QED  BY <1>1, <1>2 DEF Next

(* All counts start at zero. *)
LEMMA InitCounts == Init => Counts
<1> SUFFICES ASSUME Init, NEW k \in Flow PROVE CountAt(k)
  BY DEF Counts
<1>1. \A d \in Cpu : ptr[d] = NoElem
  BY DEF Init
<1>2. htab[k] # NoElem => cell[htab[k]][Shared] = 0 /\ handled[k] = 0
  BY CountersOK DEF Init, Slot
<1> QED  BY <1>1, <1>2 DEF CountAt

(* A plain increment can lose packets but never makes a count of its own:  *)
(* a shared count is at most the packets of its key, for any number of     *)
(* CPUs, unless a CPU still pointed at the memory the key was given.       *)
THEOREM CountersNeverOvercount == Spec => []NeverOvercounts
<1>1. Base /\ Counts => NeverOvercounts
  BY DEF Base, Counts, CountAt, NeverOvercounts, Linked
<1> QED  BY <1>1, InitBase, InitCounts, StepBase, StepCounts, PTL DEF Spec

-----------------------------------------------------------------------------
(* Each CPU alone writes its slot.  The element of a key is never replaced *)
(* in these maps, and a CPU that finds the key linked by another has not   *)
(* counted it before, or it would have found it at its lookup; but in a    *)
(* full map packets go uncounted, and the key is then never linked.        *)
Slots ==
  kind \in PerCpu =>
    /\ \A d \in Cpu :
         /\ ptr[d] # NoElem => ptr[d] = htab[key[d]]
         /\ pc[d] = "store" => reg[d] = cell[ptr[d]][d]
         /\ pc[d] = "insert" =>
              own[key[d]][d] = 0 \/ (htab[key[d]] = NoElem /\ free = {})
    /\ \A k \in Flow :
         /\ htab[k] # NoElem => \A d \in Cpu : cell[htab[k]][d] = own[k][d]
         /\ htab[k] = NoElem => free = {} \/ \A d \in Cpu : own[k][d] = 0

(* The other CPUs are where they were. *)
LEMMA OthersStay ==
  ASSUME Base, NEW c \in Cpu, Leave(c), NEW d \in Cpu, d # c
  PROVE  pc'[d] = pc[d] /\ key'[d] = key[d] /\ ptr'[d] = ptr[d] /\ reg'[d] = reg[d]
BY LeaveTypes DEF Base

(* A store adds one to the CPU's own slot, which no other CPU has touched  *)
(* since its load.                                                         *)
LEMMA SlotsStore ==
  ASSUME Base, Slots, kind \in PerCpu, NEW c \in Cpu, Store(c)
  PROVE  Slots'
<1>1. /\ Leave(c) /\ Counted(c)
      /\ UNCHANGED <<kind, inner, htab, free, spare>>
  BY DEF Store, PerCpu
<1>2. /\ ptr[c] \in Elem /\ key[c] \in Flow /\ pc[c] = "store"
      /\ ptr[c] = htab[key[c]] /\ reg[c] = cell[ptr[c]][c] /\ c \in Slot /\ SlotOf(c) = c
  BY StoreTypes, CountersOK DEF Slots, Slot, SlotOf
<1>3. cell'[ptr[c]][c] = own[key[c]][c] + 1
  <2>1. cell'[ptr[c]][c] = cell[ptr[c]][c] + 1
    BY <1>2, StoreTypes
  <2>2. htab[key[c]] # NoElem
    BY <1>2, CountersOK
  <2> QED  BY <1>2, <2>1, <2>2 DEF Slots
<1>4. \A e \in Elem, d \in Cpu : e # ptr[c] \/ d # c => cell'[e][d] = cell[e][d]
  BY <1>2, StoreTypes DEF Slot
<1>5. /\ own'[key[c]][c] = own[key[c]][c] + 1
      /\ \A k \in Flow, d \in Cpu : k # key[c] \/ d # c => own'[k][d] = own[k][d]
  BY <1>1, <1>2, CountedTypes DEF Base
<1>6. pc'[c] = "idle" /\ ptr'[c] = NoElem
  BY <1>1, LeaveTypes DEF Base
<1>7. \A d \in Cpu : htab[key[d]] \in Elem => htab[key[d]] # NoElem
  BY CountersOK
<1>8. ASSUME NEW d \in Cpu
      PROVE  /\ ptr'[d] # NoElem => ptr'[d] = htab'[key'[d]]
             /\ pc'[d] = "store" => reg'[d] = cell'[ptr'[d]][d]
             /\ pc'[d] = "insert" =>
                  own'[key'[d]][d] = 0 \/ (htab'[key'[d]] = NoElem /\ free' = {})
  <2>1. CASE d = c
    BY <1>6, <2>1
  <2>2. CASE d # c
    <3>1. pc'[d] = pc[d] /\ key'[d] = key[d] /\ ptr'[d] = ptr[d] /\ reg'[d] = reg[d]
      BY <1>1, <2>2, OthersStay
    <3>2. pc[d] = "store" => ptr[d] \in Elem
      BY DEF Base, Progress
    <3>3. pc[d] = "insert" => key[d] \in Flow
      BY DEF Base, Progress
    <3> QED  BY <1>1, <1>4, <1>5, <2>2, <3>1, <3>2, <3>3 DEF Slots
  <2> QED  BY <2>1, <2>2
<1>9. ASSUME NEW k \in Flow
      PROVE  /\ htab'[k] # NoElem => \A d \in Cpu : cell'[htab'[k]][d] = own'[k][d]
             /\ htab'[k] = NoElem => free' = {} \/ \A d \in Cpu : own'[k][d] = 0
  <2>1. CASE k = key[c]
    BY <1>1, <1>2, <1>3, <1>4, <1>5, <2>1, CountersOK DEF Slots
  <2>2. CASE k # key[c]
    <3>1. htab[k] # NoElem => htab[k] \in Elem /\ htab[k] # ptr[c]
      BY <1>2, <2>2, CountersOK DEF Base, TypeOK, Places
    <3> QED  BY <1>1, <1>4, <1>5, <2>2, <3>1 DEF Slots
  <2> QED  BY <2>1, <2>2
<1> QED  BY <1>1, <1>8, <1>9 DEF Slots

(* The first insertion of a key sets its CPU's slot, and leaves 0 for the  *)
(* others.                                                                 *)
LEMMA SlotsLink ==
  ASSUME Base, Slots, kind \in PerCpu, NEW c \in Cpu, InsertNew(c)
  PROVE  Slots'
<1>1. PICK e \in free :
        htab' = [htab EXCEPT ![key[c]] = e] /\ free' = free \ {e} /\ Link(c, e)
  BY DEF InsertNew
<1>2. /\ Leave(c) /\ Counted(c) /\ kind' = kind /\ key[c] \in Flow /\ e \in Elem
      /\ free # {} /\ kind \notin Arrays /\ htab[key[c]] = NoElem
  BY <1>1 DEF Link, Base, TypeOK, Progress, InsertNew
<1>3. /\ cell'[e][c] = 1 /\ \A d \in Cpu : d # c => cell'[e][d] = 0
      /\ \A f \in Elem : f # e => cell'[f] = cell[f]
  <2>1. cell'[e] = Fresh(c) /\ \A f \in Elem : f # e => cell'[f] = cell[f]
    BY <1>1, <1>2, LinkTypes DEF Base
  <2>2. Fresh(c)[c] = 1 /\ \A d \in Cpu : d # c => Fresh(c)[d] = 0
    BY DEF Fresh, SlotOf, Slot
  <2> QED  BY <2>1, <2>2
<1>4. \A d \in Cpu : own[key[c]][d] = 0
  BY <1>2 DEF Slots
<1>5. /\ own'[key[c]][c] = 1
      /\ \A k \in Flow, d \in Cpu : k # key[c] \/ d # c => own'[k][d] = own[k][d]
  BY <1>2, <1>4, CountedTypes DEF Base
<1>6. /\ htab'[key[c]] = e
      /\ \A k \in Flow : k # key[c] => htab'[k] = htab[k] /\ htab[k] # e
  BY <1>1, <1>2 DEF Base, TypeOK, Places
<1>7. pc'[c] = "idle" /\ ptr'[c] = NoElem
  BY <1>2, LeaveTypes DEF Base
<1>8. ASSUME NEW d \in Cpu
      PROVE  /\ ptr'[d] # NoElem => ptr'[d] = htab'[key'[d]]
             /\ pc'[d] = "store" => reg'[d] = cell'[ptr'[d]][d]
             /\ pc'[d] = "insert" =>
                  own'[key'[d]][d] = 0 \/ (htab'[key'[d]] = NoElem /\ free' = {})
  <2>1. CASE d = c
    BY <1>7, <2>1
  <2>2. CASE d # c
    <3>1. pc'[d] = pc[d] /\ key'[d] = key[d] /\ ptr'[d] = ptr[d] /\ reg'[d] = reg[d]
      BY <1>2, <2>2, OthersStay
    <3>2. ptr[d] # NoElem => /\ ptr[d] \in Elem /\ ptr[d] = htab[key[d]]
                             /\ key[d] \in Flow /\ key[d] # key[c]
      <4>1. ptr[d] # NoElem => ptr[d] \in Elem /\ ptr[d] = htab[key[d]]
        BY DEF Slots, Base, TypeOK
      <4>2. ptr[d] \in Elem => key[d] \in Flow
        BY DEF Base, Progress
      <4> QED  BY <1>2, <4>1, <4>2
    <3>3. pc[d] = "store" => ptr[d] # NoElem
      <4>1. pc[d] = "store" => ptr[d] \in Elem
        BY DEF Base, Progress
      <4> QED  BY <4>1, CountersOK
    <3>4. pc[d] = "insert" => key[d] \in Flow
      BY DEF Base, Progress
    <3>5. pc[d] = "insert" => own[key[d]][d] = 0
      BY <1>2 DEF Slots
    <3> QED  BY <1>3, <1>5, <1>6, <2>2, <3>1, <3>2, <3>3, <3>4, <3>5 DEF Slots
  <2> QED  BY <2>1, <2>2
<1>9. ASSUME NEW k \in Flow
      PROVE  /\ htab'[k] # NoElem => \A d \in Cpu : cell'[htab'[k]][d] = own'[k][d]
             /\ htab'[k] = NoElem => free' = {} \/ \A d \in Cpu : own'[k][d] = 0
  <2>1. CASE k = key[c]
    BY <1>2, <1>3, <1>4, <1>5, <1>6, <2>1, CountersOK
  <2>2. CASE k # key[c]
    <3>1. htab[k] # NoElem => htab[k] \in Elem
      BY DEF Base, TypeOK
    <3> QED  BY <1>2, <1>3, <1>5, <1>6, <2>2, <3>1 DEF Slots
  <2> QED  BY <2>1, <2>2
<1> QED  BY <1>2, <1>8, <1>9 DEF Slots

(* An insertion that comes too late sets the slot of its CPU from 0 to 1. *)
LEMMA SlotsOwn ==
  ASSUME Base, Slots, NEW c \in Cpu, InsertOwn(c)
  PROVE  Slots'
<1> DEFINE e == htab[key[c]]
<1>1. /\ Leave(c) /\ Counted(c) /\ UNCHANGED <<kind, htab, free>>
      /\ kind \in PerCpu /\ key[c] \in Flow /\ e \in Elem /\ pc[c] = "insert"
  BY OwnTypes
<1>2. cell'[e][c] = 1 /\ \A f \in Elem, d \in Cpu : f # e \/ d # c => cell'[f][d] = cell[f][d]
  BY OwnTypes DEF Slot
<1>3. own[key[c]][c] = 0
  BY <1>1, CountersOK DEF Slots
<1>4. /\ own'[key[c]][c] = 1
      /\ \A k \in Flow, d \in Cpu : k # key[c] \/ d # c => own'[k][d] = own[k][d]
  BY <1>1, <1>3, CountedTypes DEF Base
<1>5. pc'[c] = "idle" /\ ptr'[c] = NoElem
  BY <1>1, LeaveTypes DEF Base
<1>6. \A k \in Flow : k # key[c] => htab[k] # e
  BY <1>1, CountersOK DEF Base, Places
<1>7. e # NoElem
  BY <1>1, CountersOK
<1> HIDE DEF e
<1>8. htab[key[c]] = e
  BY DEF e
<1>9. ASSUME NEW d \in Cpu
      PROVE  /\ ptr'[d] # NoElem => ptr'[d] = htab'[key'[d]]
             /\ pc'[d] = "store" => reg'[d] = cell'[ptr'[d]][d]
             /\ pc'[d] = "insert" =>
                  own'[key'[d]][d] = 0 \/ (htab'[key'[d]] = NoElem /\ free' = {})
  <2>1. CASE d = c
    BY <1>5, <2>1
  <2>2. CASE d # c
    <3>1. pc'[d] = pc[d] /\ key'[d] = key[d] /\ ptr'[d] = ptr[d] /\ reg'[d] = reg[d]
      BY <1>1, <2>2, OthersStay
    <3>2. /\ pc[d] = "store" => ptr[d] \in Elem
          /\ pc[d] = "insert" => key[d] \in Flow
      BY DEF Base, Progress
    <3> QED  BY <1>1, <1>2, <1>4, <2>2, <3>1, <3>2 DEF Slots
  <2> QED  BY <2>1, <2>2
<1>10. ASSUME NEW k \in Flow
      PROVE  /\ htab'[k] # NoElem => \A d \in Cpu : cell'[htab'[k]][d] = own'[k][d]
             /\ htab'[k] = NoElem => free' = {} \/ \A d \in Cpu : own'[k][d] = 0
  <2>1. CASE k = key[c]
    BY <1>1, <1>2, <1>4, <1>7, <1>8, <2>1 DEF Slots
  <2>2. CASE k # key[c]
    <3>1. htab[k] # NoElem => htab[k] \in Elem
      BY DEF Base, TypeOK
    <3> QED  BY <1>1, <1>2, <1>4, <1>6, <2>2, <3>1 DEF Slots
  <2> QED  BY <2>1, <2>2
<1> QED  BY <1>1, <1>9, <1>10 DEF Slots

(* An update can fail only for a key that will never be linked. *)
LEMMA SlotsFull ==
  ASSUME Base, Slots, kind \in PerCpu, NEW c \in Cpu, InsertFull(c)
  PROVE  Slots'
<1>1. /\ Leave(c) /\ Counted(c) /\ UNCHANGED <<kind, htab, free, cell>>
      /\ key[c] \in Flow /\ htab[key[c]] = NoElem /\ free = {}
  BY DEF InsertFull, mapVars, Base, Progress
<1>2. \A k \in Flow, d \in Cpu : k # key[c] => own'[k][d] = own[k][d]
  BY <1>1, CountedTypes DEF Base
<1>3. \A d \in Cpu : d # c => own'[key[c]][d] = own[key[c]][d]
  BY <1>1, CountedTypes DEF Base
<1>4. pc'[c] = "idle" /\ ptr'[c] = NoElem
  BY <1>1, LeaveTypes DEF Base
<1>5. ASSUME NEW d \in Cpu
      PROVE  /\ ptr'[d] # NoElem => ptr'[d] = htab'[key'[d]]
             /\ pc'[d] = "store" => reg'[d] = cell'[ptr'[d]][d]
             /\ pc'[d] = "insert" =>
                  own'[key'[d]][d] = 0 \/ (htab'[key'[d]] = NoElem /\ free' = {})
  <2>1. CASE d = c
    BY <1>4, <2>1
  <2>2. CASE d # c
    <3>1. pc'[d] = pc[d] /\ key'[d] = key[d] /\ ptr'[d] = ptr[d] /\ reg'[d] = reg[d]
      BY <1>1, <2>2, OthersStay
    <3>2. pc[d] = "insert" => key[d] \in Flow
      BY DEF Base, Progress
    <3> QED  BY <1>1, <1>2, <1>3, <2>2, <3>1, <3>2 DEF Slots
  <2> QED  BY <2>1, <2>2
<1> QED  BY <1>1, <1>2, <1>5 DEF Slots

(* Every step keeps the slots. *)
LEMMA StepSlots ==
  ASSUME Base, Slots, [Next]_vars PROVE Slots'
<1>1. ASSUME InsertInner \/ UNCHANGED vars PROVE Slots'
  BY <1>1 DEF Slots, InsertInner, vars, mapVars, runVars, audit
<1>2. ASSUME NEW c \in Cpu, CpuStep(c) PROVE Slots'
  <2>1. kind' = kind
    BY <1>2 DEF CpuStep, Receive, LookupOuter, Lookup, Load, Store, Test, InsertNew,
       InsertOver, InsertOwn, InsertFull, InsertLru, Link
  <2> SUFFICES ASSUME kind \in PerCpu PROVE Slots'
    BY <2>1 DEF Slots
  <2>2. CASE \E k \in Flow : Receive(c, k)
    <3>1. PICK k \in Flow : Receive(c, k)
      BY <2>2
    <3>2. ptr[c] = NoElem /\ pc'[c] \in {"outer", "lookup"}
      BY <3>1 DEF Receive, Base, Progress, TypeOK
    <3> QED  BY <3>1, <3>2 DEF Slots, Receive, mapVars, Base, TypeOK
  <2>3. CASE LookupOuter(c)
    <3>1. CASE inner
      <4>1. pc' = [pc EXCEPT ![c] = "lookup"]
            /\ UNCHANGED <<kind, key, ptr, reg, htab, free, cell, own>>
        BY <2>3, <3>1 DEF LookupOuter, mapVars
      <4> QED  BY <4>1 DEF Slots, Base, TypeOK
    <3>2. CASE ~inner
      <4>1. Leave(c) /\ UNCHANGED <<kind, htab, free, cell, own>>
        BY <2>3, <3>2 DEF LookupOuter, mapVars, Base, Progress
      <4> QED  BY <4>1, LeaveTypes DEF Slots, Base
    <3> QED  BY <3>1, <3>2
  <2>4. CASE Lookup(c)
    <3>1. key[c] \in Flow /\ pc[c] = "lookup"
      BY <2>4 DEF Lookup, Base, Progress
    <3>2. htab[key[c]] = NoElem => own[key[c]][c] = 0 \/ free = {}
      BY <3>1 DEF Slots
    <3>3. /\ ptr'[c] = htab[key[c]] /\ key' = key /\ reg' = reg
          /\ pc'[c] = IF htab[key[c]] = NoElem THEN "insert" ELSE "load"
          /\ \A d \in Cpu : d # c => ptr'[d] = ptr[d] /\ pc'[d] = pc[d]
          /\ UNCHANGED <<kind, htab, free, cell, own>>
      BY <2>4 DEF Lookup, mapVars, audit, Base, TypeOK
    <3>4. \A d \in Cpu : pc[d] = "store" => ptr[d] \in Elem
      BY DEF Base, Progress
    <3> QED  BY <3>1, <3>2, <3>3, <3>4 DEF Slots
  <2>5. CASE Load(c)
    <3>1. SlotOf(c) = c
      BY DEF SlotOf
    <3> QED  BY <2>5, <3>1 DEF Slots, Load, mapVars, audit, Base, TypeOK
  <2>6. CASE Test(c)
    <3>1. kind = "parity"
      BY <2>6 DEF Test, Base, Progress
    <3> QED  BY <3>1 DEF PerCpu
  <2>7. CASE InsertOver(c) \/ InsertLru(c)
    BY <2>7 DEF InsertOver, InsertLru, PerCpu
  <2> QED  BY <1>2, <2>2, <2>3, <2>4, <2>5, <2>6, <2>7,
              SlotsStore, SlotsLink, SlotsOwn, SlotsFull DEF CpuStep
<1> QED  BY <1>1, <1>2 DEF Next

(* The per-CPU maps count every packet of a linked key on the CPU that saw *)
(* it, in any interleaving: no two CPUs write one word, and when several   *)
(* insert one key each finds its own value still at zero.                  *)
THEOREM PerCpuCountsExact == Spec => []PerCpuExact
<1>1. Init => Slots
  <2> SUFFICES ASSUME Init PROVE Slots
    OBVIOUS
  <2>1. \A k \in Flow, d \in Cpu : own[k][d] = 0
    BY DEF Init
  <2>2. \A d \in Cpu : ptr[d] = NoElem /\ pc[d] = "idle"
    BY DEF Init
  <2>3. \A k \in Flow, d \in Cpu : htab[k] # NoElem => cell[htab[k]][d] = 0
    BY CountersOK DEF Init, Slot
  <2> QED  BY <2>1, <2>2, <2>3 DEF Slots
<1>2. Slots => PerCpuExact
  BY DEF Slots, PerCpuExact, Linked
<1> QED  BY <1>1, <1>2, InitBase, StepBase, StepSlots, PTL DEF Spec
-----------------------------------------------------------------------------
(* Keys whose frames come to one CPU at a time. *)

(* While no two CPUs have counted k at once, its element says what has     *)
(* been handled, and a CPU that counts k works on that element and has     *)
(* loaded what is in it.                                                   *)
Alone(k) == \A c, d \in Cpu : key[c] = k /\ key[d] = k => c = d

Counter(k) ==
  /\ htab[k] = NoElem => handled[k] = 0 \/ (free = {} /\ kind # "lru")
  /\ htab[k] # NoElem => cell[htab[k]][Shared] = handled[k]

User(k, d) ==
  key[d] = k =>
    /\ pc[d] = "insert" => htab[k] = NoElem
    /\ ptr[d] # NoElem => ptr[d] = htab[k]
    /\ pc[d] \in {"store", "test"} => reg[d] = cell[htab[k]][Shared]

Kept(k) == k \notin evicted /\ k \notin polluted

Serial ==
  /\ \A k \in Flow \ crossed : Alone(k)
  /\ kind \notin PerCpu =>
       \A k \in Flow \ crossed : Kept(k) => Counter(k) /\ \A d \in Cpu : User(k, d)
  /\ kind \in Arrays => evicted = {} /\ polluted = {}

(* A CPU is done without having touched the map. *)
LEMMA SerialLeave ==
  ASSUME Base, Serial, NEW c \in Cpu, Leave(c),
         UNCHANGED <<kind, htab, free, cell, crossed, evicted, polluted>>,
         \A k \in Flow :
           \/ handled'[k] = handled[k]
           \/ htab[k] = NoElem /\ free = {} /\ kind # "lru"
  PROVE  Serial'
<1>1. \A d \in Cpu : d # c => pc'[d] = pc[d] /\ key'[d] = key[d] /\ ptr'[d] = ptr[d]
                              /\ reg'[d] = reg[d]
  BY OthersStay
<1>2. key'[c] = NoFlow
  BY LeaveTypes DEF Base
<1>3. \A k \in Flow : k # NoFlow
  BY CountersOK
<1>4. ASSUME NEW k \in Flow \ crossed PROVE Alone(k)'
  BY <1>1, <1>2, <1>3, <1>4 DEF Serial, Alone
<1>5. ASSUME NEW k \in Flow \ crossed, kind \notin PerCpu, Kept(k)
      PROVE  Counter(k)' /\ \A d \in Cpu : User(k, d)'
  BY <1>1, <1>2, <1>3, <1>5 DEF Serial, Counter, User
<1> QED  BY <1>4, <1>5 DEF Serial, Kept

(* A key whose packets come one at a time is linked with a count of 1. *)
LEMMA SerialLink ==
  ASSUME Base, Serial, NEW c \in Cpu, NEW e \in Elem, Relinks(c, e)
  PROVE  Serial'
<1>1. /\ Link(c, e) /\ Leave(c) /\ Counted(c) /\ key[c] \in Flow /\ pc[c] = "insert"
      /\ kind' = kind /\ crossed' = crossed /\ kind \notin Arrays
  BY DEF Relinks, Base, Progress, Link
<1>2. \A d \in Cpu : d # c => pc'[d] = pc[d] /\ key'[d] = key[d] /\ ptr'[d] = ptr[d]
                              /\ reg'[d] = reg[d]
  BY <1>1, OthersStay
<1>3. key'[c] = NoFlow /\ \A k \in Flow : k # NoFlow
  BY <1>1, LeaveTypes, CountersOK DEF Base
<1>4. ASSUME NEW k \in Flow \ crossed PROVE Alone(k)'
  BY <1>2, <1>3, <1>4 DEF Serial, Alone
<1>5. ASSUME NEW k \in Flow \ crossed, kind \notin PerCpu, Kept(k)'
      PROVE  Counter(k)' /\ \A d \in Cpu : User(k, d)'
  <2>1. Kept(k) /\ Counter(k) /\ Alone(k) /\ \A d \in Cpu : User(k, d)
    BY <1>1, <1>5, LinkTypes DEF Serial, Kept, Relinks, Base
  <2>2. CASE k = key[c]
    <3>1. htab[k] = NoElem
      BY <1>1, <2>1, <2>2 DEF User
    <3>2. handled[k] = 0
      BY <2>1, <2>2, <3>1 DEF Counter, Relinks
    <3>3. handled'[k] = 1
      BY <1>1, <2>2, <3>2, CountedTypes DEF Base
    <3>4. htab'[k] = e /\ cell'[e][Shared] = 1
      BY <1>1, <1>5, <2>2, LinkTypes, FreshType DEF Base, Relinks, SlotOf
    <3>5. e # NoElem
      BY CountersOK
    <3>6. \A d \in Cpu : key'[d] # k
      BY <1>2, <1>3, <2>1, <2>2 DEF Alone
    <3> QED  BY <3>3, <3>4, <3>5, <3>6 DEF Counter, User
  <2>3. CASE k # key[c]
    <3>1. htab'[k] = htab[k] /\ htab[k] # e
      BY <1>5, <2>3 DEF Relinks, Kept
    <3>2. handled'[k] = handled[k]
      BY <1>1, <2>3, CountedTypes DEF Base
    <3>3. htab[k] \in Elem \cup {NoElem}
      BY DEF Base, TypeOK
    <3>4. htab[k] # NoElem => cell'[htab[k]] = cell[htab[k]]
      BY <1>1, <3>1, <3>3, LinkTypes DEF Base
    <3>5. kind # "lru" => free' \subseteq free
      BY DEF Relinks
    <3>6. Counter(k)'
      BY <1>1, <2>1, <3>1, <3>2, <3>4, <3>5 DEF Counter
    <3>7. ASSUME NEW d \in Cpu PROVE User(k, d)'
      <4>1. pc[d] \in {"store", "test"} => ptr[d] \in Elem
        BY DEF Base, Progress
      <4>2. d # c /\ key[d] = k /\ pc[d] \in {"store", "test"} => htab[k] # NoElem
        BY <2>1, <4>1, CountersOK DEF User
      <4> QED  BY <1>2, <1>3, <2>1, <3>1, <3>4, <4>2 DEF User
    <3> QED  BY <3>6, <3>7
  <2> QED  BY <2>2, <2>3
<1> QED  BY <1>1, <1>4, <1>5 DEF Serial

(* The store of a key nobody else counts adds exactly one. *)
LEMMA SerialStore ==
  ASSUME Base, Counts, Serial, NEW c \in Cpu, Store(c)
  PROVE  Serial'
<1>1. /\ UNCHANGED <<kind, htab, free, crossed, evicted, polluted>>
      /\ Counted(c) /\ key[c] \in Flow /\ pc[c] = "store" /\ ptr[c] \in Elem
  BY StoreTypes DEF Store
<1>2. \A d \in Cpu : d # c => pc'[d] = pc[d] /\ key'[d] = key[d] /\ ptr'[d] = ptr[d]
                              /\ reg'[d] = reg[d]
  <2>1. CASE kind = "parity"
    <3>1. /\ pc' = [pc EXCEPT ![c] = "test"] /\ reg' = [reg EXCEPT ![c] = @ + 1]
          /\ key' = key /\ ptr' = ptr
      BY <2>1 DEF Store
    <3> QED  BY <3>1 DEF Base, TypeOK
  <2>2. CASE kind # "parity"
    BY <2>2, OthersStay DEF Store
  <2> QED  BY <2>1, <2>2
<1>3. \/ key'[c] = NoFlow
      \/ /\ key'[c] = key[c] /\ ptr'[c] = ptr[c]
         /\ pc'[c] = "test" /\ reg'[c] = reg[c] + 1
  <2>1. CASE kind = "parity"
    <3>1. /\ pc' = [pc EXCEPT ![c] = "test"] /\ reg' = [reg EXCEPT ![c] = @ + 1]
          /\ key' = key /\ ptr' = ptr
      BY <2>1 DEF Store
    <3> QED  BY <3>1 DEF Base, TypeOK
  <2>2. CASE kind # "parity"
    BY <2>2, LeaveTypes DEF Store, Base
  <2> QED  BY <2>1, <2>2
<1>4. \A k \in Flow : k # NoFlow
  BY CountersOK
<1>5. ASSUME NEW k \in Flow \ crossed PROVE Alone(k)'
  BY <1>2, <1>3, <1>4, <1>5 DEF Serial, Alone
<1>6. ASSUME NEW k \in Flow \ crossed, kind \notin PerCpu, Kept(k)
      PROVE  Counter(k)' /\ \A d \in Cpu : User(k, d)'
  <2>1. Counter(k) /\ Alone(k) /\ \A d \in Cpu : User(k, d)
    BY <1>6 DEF Serial
  <2>2. SlotOf(c) = Shared /\ Shared \in Slot
    BY <1>6 DEF SlotOf, Slot
  <2>3. CASE k = key[c]
    <3>1. ptr[c] = htab[k] /\ htab[k] # NoElem /\ reg[c] = cell[htab[k]][Shared]
      BY <1>1, <2>1, <2>3, CountersOK DEF User
    <3>2. cell'[htab[k]][Shared] = reg[c] + 1
      BY <2>2, <3>1, StoreTypes
    <3>3. handled'[k] = handled[k] + 1
      BY <1>1, <2>3, CountedTypes DEF Base
    <3>4. Counter(k)'
      BY <1>1, <2>1, <3>1, <3>2, <3>3 DEF Counter
    <3>5. \A d \in Cpu : d # c => key'[d] # k
      BY <1>2, <2>1, <2>3 DEF Alone
    <3>6. User(k, c)'
      BY <1>1, <1>3, <1>4, <3>1, <3>2 DEF User
    <3> QED  BY <3>4, <3>5, <3>6 DEF User
  <2>4. CASE k # key[c]
    <3>1. htab[k] # NoElem => htab[k] # ptr[c] /\ htab[k] \in Elem
      BY <1>6, <2>4 DEF Counts, CountAt, Kept, Base, TypeOK
    <3>2. htab[k] # NoElem => cell'[htab[k]][Shared] = cell[htab[k]][Shared]
      BY <2>2, <3>1, StoreTypes
    <3>3. handled'[k] = handled[k]
      BY <1>1, <2>4, CountedTypes DEF Base
    <3>4. Counter(k)'
      BY <1>1, <2>1, <3>2, <3>3 DEF Counter
    <3>5. ASSUME NEW d \in Cpu PROVE User(k, d)'
      <4>1. pc[d] \in {"store", "test"} => ptr[d] \in Elem
        BY DEF Base, Progress
      <4>2. key[d] = k /\ pc[d] \in {"store", "test"} => htab[k] # NoElem
        BY <2>1, <4>1, CountersOK DEF User
      <4>3. key'[c] # k
        BY <1>3, <1>4, <2>4
      <4> QED  BY <1>1, <1>2, <2>1, <3>2, <4>2, <4>3 DEF User
    <3> QED  BY <3>4, <3>5
  <2> QED  BY <2>3, <2>4
<1> QED  BY <1>1, <1>5, <1>6 DEF Serial, Kept

(* Every step keeps the counters of the keys that were never crossed       *)
(* exact.                                                                  *)
LEMMA StepSerial ==
  ASSUME Base, Counts, Serial, [Next]_vars PROVE Serial'
<1>1. ASSUME InsertInner \/ UNCHANGED vars PROVE Serial'
  BY <1>1 DEF Serial, Alone, Kept, Counter, User, InsertInner, vars, mapVars, runVars, audit
<1>2. ASSUME NEW c \in Cpu, CpuStep(c) PROVE Serial'
  <2>2. CASE \E k \in Flow : Receive(c, k)
    <3>1. PICK k \in Flow : Receive(c, k)
      BY <2>2
    <3>2. /\ ptr[c] = NoElem /\ pc'[c] \in {"outer", "lookup"} /\ key'[c] = k
          /\ ptr' = ptr /\ reg' = reg
          /\ \A d \in Cpu : d # c => pc'[d] = pc[d] /\ key'[d] = key[d]
          /\ crossed' = IF \E d \in Cpu : key[d] = k THEN crossed \cup {k} ELSE crossed
          /\ UNCHANGED <<kind, htab, free, cell, handled, evicted, polluted>>
      BY <3>1 DEF Receive, Base, Progress, TypeOK, mapVars
    <3>3. ASSUME NEW l \in Flow \ crossed' PROVE Alone(l)'
      <4>1. Alone(l)
        BY <3>2, <3>3 DEF Serial
      <4> QED  BY <3>2, <3>3, <4>1 DEF Alone
    <3>4. ASSUME NEW l \in Flow \ crossed', kind \notin PerCpu, Kept(l)
          PROVE  Counter(l)' /\ \A d \in Cpu : User(l, d)'
      <4>1. Counter(l) /\ \A d \in Cpu : User(l, d)
        BY <3>2, <3>4 DEF Serial
      <4> QED  BY <3>2, <3>4, <4>1 DEF Counter, User
    <3> QED  BY <3>2, <3>3, <3>4 DEF Serial, Kept
  <2>3. CASE LookupOuter(c)
    <3>1. CASE inner
      <4>1. /\ pc' = [pc EXCEPT ![c] = "lookup"]
            /\ UNCHANGED <<kind, key, ptr, reg, htab, free, cell, handled, crossed,
                           evicted, polluted>>
        BY <2>3, <3>1 DEF LookupOuter, mapVars
      <4>2. pc'[c] = "lookup" /\ \A d \in Cpu : d # c => pc'[d] = pc[d]
        BY <4>1 DEF Base, TypeOK
      <4> QED  BY <4>1, <4>2 DEF Serial, Alone, Kept, Counter, User
    <3>2. CASE ~inner
      <4>1. Leave(c) /\ UNCHANGED <<kind, htab, free, cell, handled, crossed, evicted, polluted>>
        BY <2>3, <3>2 DEF LookupOuter, mapVars, Base, Progress
      <4> QED  BY <4>1, SerialLeave
    <3> QED  BY <3>1, <3>2
  <2>4. CASE Lookup(c)
    <3>1. /\ ptr'[c] = htab[key[c]] /\ key' = key /\ reg' = reg
          /\ pc'[c] = IF htab[key[c]] = NoElem THEN "insert" ELSE "load"
          /\ \A d \in Cpu : d # c => ptr'[d] = ptr[d] /\ pc'[d] = pc[d]
          /\ UNCHANGED <<kind, htab, free, cell, handled, crossed, evicted, polluted>>
      BY <2>4 DEF Lookup, mapVars, audit, Base, TypeOK
    <3> QED  BY <3>1 DEF Serial, Alone, Kept, Counter, User
  <2>5. CASE Load(c)
    <3>1. /\ reg'[c] = cell[ptr[c]][SlotOf(c)] /\ pc'[c] = "store"
          /\ \A d \in Cpu : d # c => reg'[d] = reg[d] /\ pc'[d] = pc[d]
          /\ UNCHANGED <<kind, key, ptr, htab, free, cell, handled, crossed, evicted, polluted>>
          /\ ptr[c] \in Elem
      BY <2>5 DEF Load, mapVars, audit, Base, TypeOK, Progress
    <3>2. kind \notin PerCpu => SlotOf(c) = Shared
      BY DEF SlotOf
    <3>3. ptr[c] # NoElem
      BY <3>1, CountersOK
    <3> QED  BY <3>1, <3>2, <3>3 DEF Serial, Alone, Kept, Counter, User
  <2>6. CASE Test(c)
    BY <2>6, SerialLeave DEF Test, mapVars
  <2>7. CASE InsertFull(c)
    <3>1. /\ Leave(c) /\ UNCHANGED <<kind, htab, free, cell, crossed, evicted, polluted>>
          /\ Counted(c) /\ key[c] \in Flow
          /\ htab[key[c]] = NoElem /\ free = {} /\ kind # "lru"
      BY <2>7 DEF InsertFull, mapVars, Base, Progress
    <3>2. \A k \in Flow : k # key[c] => handled'[k] = handled[k]
      BY <3>1, CountedTypes DEF Base
    <3> QED  BY <3>1, <3>2, SerialLeave
  <2>8. CASE InsertOwn(c)
    <3>1. kind = "percpu_hash" /\ Leave(c) /\ UNCHANGED <<kind, crossed>>
      BY <2>8 DEF InsertOwn
    <3>2. \A d \in Cpu : d # c => key'[d] = key[d]
      BY <3>1, OthersStay
    <3>3. key'[c] = NoFlow /\ \A k \in Flow : k # NoFlow
      BY <3>1, LeaveTypes, CountersOK DEF Base
    <3>4. \A k \in Flow \ crossed : Alone(k)'
      BY <3>2, <3>3 DEF Serial, Alone
    <3> QED  BY <3>1, <3>4 DEF Serial, PerCpu, Arrays
  <2> QED  BY <1>2, <2>2, <2>3, <2>4, <2>5, <2>6, <2>7, <2>8,
              SerialStore, SerialLink, Relink DEF CpuStep
<1> QED  BY <1>1, <1>2 DEF Next

(* All counters start exact. *)
LEMMA InitSerial == Init => Serial
<1> SUFFICES ASSUME Init PROVE Serial
  OBVIOUS
<1>1. \A d \in Cpu : key[d] = NoFlow /\ ptr[d] = NoElem /\ pc[d] = "idle"
  BY DEF Init
<1>2. evicted = {} /\ polluted = {} /\ \A k \in Flow : k # NoFlow /\ handled[k] = 0
  BY CountersOK DEF Init
<1>3. \A k \in Flow : htab[k] # NoElem => cell[htab[k]][Shared] = 0
  BY CountersOK DEF Init, Slot
<1> QED  BY <1>1, <1>2, <1>3 DEF Serial, Alone, Kept, Counter, User

(* The counters that share a plain ++ are exact for every key no two CPUs  *)
(* count at once, that is not evicted and not given memory still in use:   *)
(* what is lost, is lost to one of these and to nothing else.              *)
THEOREM SerialCountsExact == Spec => []SerialExact
<1>1. Serial => SerialExact
  BY DEF Serial, SerialExact, Linked, Counter, Kept
<1> QED  BY <1>1, InitBase, InitCounts, InitSerial, StepBase, StepCounts, StepSerial,
            PTL DEF Spec

-----------------------------------------------------------------------------
(* map_array.c has dropped half of a key's packets, but for the one its    *)
(* CPU has counted and not yet tested.                                     *)
Halved(k) ==
  /\ \A d \in Cpu : key[d] = k /\ pc[d] = "test" =>
       handled[k] >= 1 /\ drops[k] = (handled[k] - 1) \div 2
  /\ (\A d \in Cpu : ~(key[d] = k /\ pc[d] = "test")) => drops[k] = handled[k] \div 2

Parity == kind = "parity" => \A k \in Flow \ crossed : Halved(k)

(* One more packet makes one more drop when the new count is even. *)
LEMMA HalfOfNext ==
  \A h \in Nat : h >= 1 => ((h - 1) \div 2) + Dropped(h) = h \div 2
BY DEF Dropped

(* Every step keeps half of the packets dropped. *)
LEMMA StepParity ==
  ASSUME Base, Serial, Parity, [Next]_vars PROVE Parity'
<1>1. ASSUME InsertInner \/ UNCHANGED vars PROVE Parity'
  BY <1>1 DEF Parity, Halved, InsertInner, vars, mapVars, runVars, audit
<1>2. ASSUME NEW c \in Cpu, CpuStep(c) PROVE Parity'
  <2>1. kind' = kind
    BY <1>2 DEF CpuStep, Receive, LookupOuter, Lookup, Load, Store, Test, InsertNew,
       InsertOver, InsertOwn, InsertFull, InsertLru, Link
  <2> SUFFICES ASSUME kind = "parity" PROVE Parity'
    BY <2>1 DEF Parity
  <2>2. \A k \in Flow : k # NoFlow /\ handled[k] \in Nat
    BY CountersOK DEF Base, TypeOK
  (* Any step but a store or a test of this CPU leaves both counts alone. *)
  <2>3. ASSUME UNCHANGED <<handled, drops>>, crossed \subseteq crossed',
               pc[c] # "test", pc'[c] # "test",
               \A d \in Cpu : d # c => pc'[d] = pc[d] /\ key'[d] = key[d]
        PROVE  Parity'
    BY <2>3 DEF Parity, Halved
  <2>4. CASE \E k \in Flow : Receive(c, k)
    <3>1. PICK k \in Flow : Receive(c, k)
      BY <2>4
    <3>2. /\ UNCHANGED <<handled, drops>> /\ crossed \subseteq crossed'
          /\ pc[c] # "test" /\ pc'[c] # "test"
          /\ \A d \in Cpu : d # c => pc'[d] = pc[d] /\ key'[d] = key[d]
      BY <3>1 DEF Receive, Base, TypeOK
    <3> QED  BY <2>3, <3>2
  <2>5. CASE LookupOuter(c)
    <3>1. CASE inner
      <4>1. pc' = [pc EXCEPT ![c] = "lookup"] /\ pc[c] = "outer"
            /\ UNCHANGED <<key, handled, drops, crossed>>
        BY <2>5, <3>1 DEF LookupOuter
      <4> QED  BY <2>3, <4>1 DEF Base, TypeOK
    <3>2. CASE ~inner
      <4>1. Leave(c) /\ UNCHANGED <<handled, drops, crossed>> /\ pc[c] = "outer"
        BY <2>5, <3>2 DEF LookupOuter, Base, Progress
      <4>2. pc'[c] = "idle"
        BY <4>1, LeaveTypes DEF Base
      <4> QED  BY <2>3, <4>1, <4>2, OthersStay
    <3> QED  BY <3>1, <3>2
  <2>6. CASE Lookup(c) \/ Load(c)
    <3>1. /\ UNCHANGED <<key, handled, drops, crossed>> /\ pc[c] # "test"
          /\ \E s \in {"insert", "load", "store"} : pc' = [pc EXCEPT ![c] = s]
      BY <2>6 DEF Lookup, Load, audit
    <3> QED  BY <2>3, <3>1 DEF Base, TypeOK
  <2>7. CASE Store(c)
    <3>1. /\ pc' = [pc EXCEPT ![c] = "test"] /\ key' = key /\ drops' = drops
          /\ crossed' = crossed /\ pc[c] = "store" /\ key[c] \in Flow /\ Counted(c)
      BY <2>7, StoreTypes DEF Store
    <3>2. pc'[c] = "test" /\ \A d \in Cpu : d # c => pc'[d] = pc[d]
      BY <3>1 DEF Base, TypeOK
    <3>3. ASSUME NEW k \in Flow \ crossed PROVE Halved(k)'
      <4>1. Halved(k) /\ Alone(k)
        BY <3>3 DEF Parity, Serial
      <4>2. CASE k = key[c]
        <5>1. \A d \in Cpu : key[d] = k => d = c
          BY <4>1, <4>2 DEF Alone
        <5>2. drops[k] = handled[k] \div 2
          BY <3>1, <4>1, <5>1 DEF Halved
        <5>3. handled'[k] = handled[k] + 1
          BY <3>1, <4>2, CountedTypes DEF Base
        <5>4. handled'[k] >= 1 /\ handled'[k] - 1 = handled[k]
          BY <2>2, <5>3
        <5>5. drops'[k] = (handled'[k] - 1) \div 2
          BY <3>1, <5>2, <5>4
        <5> QED  BY <3>1, <3>2, <4>2, <5>4, <5>5 DEF Halved
      <4>3. CASE k # key[c]
        <5>1. handled'[k] = handled[k]
          BY <3>1, <4>3, CountedTypes DEF Base
        <5> QED  BY <3>1, <3>2, <4>1, <4>3, <5>1 DEF Halved
      <4> QED  BY <4>2, <4>3
    <3> QED  BY <3>1, <3>3 DEF Parity
  <2>8. CASE Test(c)
    <3>1. PICK v \in {reg[c], cell[ptr[c]][Shared]} :
            drops' = [drops EXCEPT ![key[c]] = @ + Dropped(v)]
      BY <2>8 DEF Test
    <3>2. /\ Leave(c) /\ UNCHANGED <<handled, crossed>> /\ pc[c] = "test"
          /\ key[c] \in Flow /\ ptr[c] \in Elem
      BY <2>8 DEF Test, Base, Progress
    <3>3. key'[c] = NoFlow /\ \A d \in Cpu : d # c => pc'[d] = pc[d] /\ key'[d] = key[d]
      BY <3>2, OthersStay, LeaveTypes DEF Base
    <3>4. ASSUME NEW k \in Flow \ crossed PROVE Halved(k)'
      <4>1. Halved(k) /\ Alone(k)
        BY <3>4 DEF Parity, Serial
      <4>2. CASE k = key[c]
        <5>1. Kept(k) /\ kind \notin PerCpu
          BY DEF Serial, Kept, Arrays, PerCpu
        <5>2. User(k, c) /\ Counter(k)
          BY <3>4, <5>1 DEF Serial
        <5>3. ptr[c] = htab[k] /\ htab[k] # NoElem
          BY <3>2, <4>2, <5>2, CountersOK DEF User
        <5>4. v = handled[k]
          BY <3>1, <3>2, <4>2, <5>2, <5>3 DEF User, Counter
        <5>5. handled[k] >= 1 /\ drops[k] = (handled[k] - 1) \div 2
          BY <3>2, <4>1, <4>2 DEF Halved
        <5>6. drops'[k] = drops[k] + Dropped(v)
          BY <3>1, <4>2 DEF Base, TypeOK
        <5>7. drops'[k] = handled'[k] \div 2
          BY <2>2, <3>2, <5>4, <5>5, <5>6, HalfOfNext
        <5>8. \A d \in Cpu : key'[d] # k
          BY <2>2, <3>3, <4>1, <4>2 DEF Alone
        <5> QED  BY <5>7, <5>8 DEF Halved
      <4>3. CASE k # key[c]
        <5>1. drops'[k] = drops[k]
          BY <3>1, <4>3 DEF Base, TypeOK
        <5> QED  BY <2>2, <3>2, <3>3, <4>1, <4>3, <5>1 DEF Halved
      <4> QED  BY <4>2, <4>3
    <3> QED  BY <3>2, <3>4 DEF Parity
  <2>9. pc[c] # "insert"
    BY DEF Base, Progress, Arrays
  <2> QED  BY <1>2, <2>4, <2>5, <2>6, <2>7, <2>8, <2>9
              DEF CpuStep, InsertNew, InsertOver, InsertOwn, InsertFull, InsertLru
<1> QED  BY <1>1, <1>2 DEF Next

(* map_array.c, which is to drop every second packet, does so exactly as   *)
(* long as no two CPUs count one key at once.                              *)
THEOREM ParityAlternates == Spec => []Alternates
<1>1. Init => Parity
  <2> SUFFICES ASSUME Init, NEW k \in Flow PROVE Halved(k)
    BY DEF Parity
  <2>1. /\ drops[k] = 0 /\ handled[k] = 0
        /\ \A d \in Cpu : pc[d] = "idle"
    BY DEF Init
  <2> QED  BY <2>1 DEF Halved
<1>2. Base /\ Parity => Alternates
  BY DEF Parity, Halved, Alternates
<1> QED  BY <1>1, <1>2, InitBase, InitCounts, InitSerial, StepBase, StepCounts, StepSerial,
            StepParity, PTL DEF Spec
-----------------------------------------------------------------------------
(* Keys whose frames come to several CPUs at once. *)

(* CPUs that count one key at once have met. *)
Meets == \A c, d \in Cpu : key[c] = key[d] /\ key[c] # NoFlow /\ c # d => c \in met

(* What is missing from k's count is no more than its raced packets. *)
Bound(k) ==
  /\ htab[k] = NoElem => handled[k] = 0 \/ (free = {} /\ kind # "lru")
  /\ htab[k] # NoElem => handled[k] <= cell[htab[k]][Shared] + raced[k]

(* A CPU's write can set the count back only by packets it raced with: a   *)
(* 1 by all there are, one more than it loaded by those counted since; and *)
(* what a CPU writes into an element that was replaced was raced itself.   *)
Writer(k, d) ==
  key[d] = k =>
    /\ pc[d] = "insert" =>
         handled[k] <= raced[k] \/ (htab[k] = NoElem /\ free = {} /\ kind # "lru")
    /\ ptr[d] # NoElem => htab[k] # NoElem /\ (ptr[d] = htab[k] \/ d \in met)
    /\ pc[d] = "store" /\ ptr[d] = htab[k] => handled[k] <= reg[d] + raced[k]

Racing ==
  /\ Meets
  /\ kind \notin PerCpu =>
       \A k \in Flow : Kept(k) => Bound(k) /\ \A d \in Cpu : Writer(k, d)

(* A CPU that is done has met nobody any more, and the others whom they    *)
(* had met.                                                                *)
LEMMA MeetsLeave ==
  ASSUME Base, Meets, NEW c \in Cpu, Leave(c) PROVE Meets'
BY LeaveTypes DEF Base, Meets

(* A CPU is done without having touched the map. *)
LEMMA RacingLeave ==
  ASSUME Base, Racing, NEW c \in Cpu, Leave(c),
         UNCHANGED <<kind, htab, free, cell, evicted, polluted>>,
         \A k \in Flow :
           \/ handled'[k] = handled[k] /\ raced'[k] = raced[k]
           \/ htab[k] = NoElem /\ free = {} /\ kind # "lru"
  PROVE  Racing'
<1>1. \A d \in Cpu : d # c => /\ pc'[d] = pc[d] /\ key'[d] = key[d] /\ ptr'[d] = ptr[d]
                              /\ reg'[d] = reg[d] /\ (d \in met' <=> d \in met)
  BY LeaveTypes DEF Base
<1>2. key'[c] = NoFlow /\ \A k \in Flow : k # NoFlow
  BY LeaveTypes, CountersOK DEF Base
<1>3. Meets'
  BY MeetsLeave DEF Racing
<1>4. ASSUME NEW k \in Flow, kind \notin PerCpu, Kept(k)
      PROVE  Bound(k)' /\ \A d \in Cpu : Writer(k, d)'
  <2>1. Bound(k) /\ \A d \in Cpu : Writer(k, d)
    BY <1>4 DEF Racing
  <2>2. Bound(k)'
    BY <2>1 DEF Bound
  <2>3. ASSUME NEW d \in Cpu PROVE Writer(k, d)'
    <3>1. pc[d] = "store" => ptr[d] \in Elem /\ ptr[d] # NoElem
      BY CountersOK DEF Base, Progress
    <3> QED  BY <1>1, <1>2, <2>1, <3>1 DEF Writer
  <2> QED  BY <2>2, <2>3
<1> QED  BY <1>3, <1>4 DEF Racing, Kept

(* A packet more of a key leaves as much missing from it, and the other    *)
(* CPUs that count the key have raced with it.                             *)
LEMMA RacedMore ==
  ASSUME Base, Meets, NEW c \in Cpu, key[c] \in Flow, Counted(c)
  PROVE  LET k == key[c]
         IN  /\ handled[k] \in Nat /\ raced[k] \in Nat
             /\ handled'[k] = handled[k] + 1 /\ raced'[k] \in Nat
             /\ raced'[k] >= raced[k]
             /\ c \in met => raced'[k] = raced[k] + 1
             /\ \A d \in Cpu : key[d] = k /\ d # c => raced'[k] = raced[k] + 1
<1>1. \A d \in Cpu : key[d] = key[c] /\ d # c => c \in met
  BY CountersOK DEF Meets
<1> QED  BY <1>1, CountedTypes DEF Base, TypeOK

(* An element is linked with a count of 1 for all the packets before it. *)
LEMMA RacingLink ==
  ASSUME Base, Racing, NEW c \in Cpu, NEW e \in Elem, Relinks(c, e)
  PROVE  Racing'
<1>1. /\ Link(c, e) /\ Leave(c) /\ Counted(c) /\ key[c] \in Flow /\ pc[c] = "insert"
      /\ kind' = kind /\ kind \notin Arrays
  BY DEF Relinks, Base, Progress, Link
<1>2. \A d \in Cpu : d # c => /\ pc'[d] = pc[d] /\ key'[d] = key[d] /\ ptr'[d] = ptr[d]
                              /\ reg'[d] = reg[d] /\ (d \in met' <=> d \in met)
  BY <1>1, LeaveTypes DEF Base
<1>3. key'[c] = NoFlow /\ \A k \in Flow : k # NoFlow
  BY <1>1, LeaveTypes, CountersOK DEF Base
<1>4. Meets'
  BY <1>1, MeetsLeave DEF Racing
<1>5. e # NoElem
  BY CountersOK
<1>6. ASSUME NEW k \in Flow, kind \notin PerCpu, Kept(k)'
      PROVE  Bound(k)' /\ \A d \in Cpu : Writer(k, d)'
  <2>1. Kept(k) /\ Bound(k) /\ \A d \in Cpu : Writer(k, d)
    BY <1>1, <1>6, LinkTypes DEF Racing, Kept, Relinks, Base
  <2>2. CASE k = key[c]
    <3>1. /\ handled[k] \in Nat /\ raced[k] \in Nat
          /\ handled'[k] = handled[k] + 1 /\ raced'[k] \in Nat
          /\ raced'[k] >= raced[k]
          /\ \A d \in Cpu : key[d] = k /\ d # c => raced'[k] = raced[k] + 1
      BY <1>1, <2>2, RacedMore DEF Racing
    <3>2. handled[k] <= raced[k]
      BY <1>1, <2>1, <2>2 DEF Writer, Relinks
    <3>3. htab'[k] = e /\ cell'[e][Shared] = 1
      BY <1>1, <1>6, <2>2, LinkTypes, FreshType DEF Base, Relinks, SlotOf
    <3>4. \A d \in Cpu : ptr[d] # e
      BY <1>1, <1>6, <2>2, LinkTypes DEF Base, Kept
    <3>5. Bound(k)'
      BY <1>5, <3>1, <3>2, <3>3 DEF Bound
    <3>6. ASSUME NEW d \in Cpu PROVE Writer(k, d)'
      <4>1. d # c /\ key[d] = k => d \in met
        BY <1>1, <1>3, <2>2 DEF Racing, Meets
      <4> QED  BY <1>2, <1>3, <1>5, <3>1, <3>2, <3>3, <3>4, <4>1 DEF Writer
    <3> QED  BY <3>5, <3>6
  <2>3. CASE k # key[c]
    <3>1. htab'[k] = htab[k] /\ htab[k] # e
      BY <1>6, <2>3 DEF Relinks, Kept
    <3>2. handled'[k] = handled[k] /\ raced'[k] = raced[k]
      BY <1>1, <2>3, CountedTypes DEF Base
    <3>3. htab[k] # NoElem => htab[k] \in Elem /\ cell'[htab[k]] = cell[htab[k]]
      BY <1>1, <3>1, LinkTypes DEF Base, TypeOK
    <3>4. kind # "lru" /\ free = {} => free' = {}
      BY DEF Relinks
    <3>5. Bound(k)'
      BY <1>1, <2>1, <3>1, <3>2, <3>3, <3>4 DEF Bound
    <3>6. ASSUME NEW d \in Cpu PROVE Writer(k, d)'
      BY <1>1, <1>2, <1>3, <2>1, <3>1, <3>2, <3>4 DEF Writer
    <3> QED  BY <3>5, <3>6
  <2> QED  BY <2>2, <2>3
<1> QED  BY <1>1, <1>4, <1>6 DEF Racing

(* A store writes one more than was there when it loaded, and the packets  *)
(* that others have counted since are raced.                               *)
LEMMA RacingStore ==
  ASSUME Base, Counts, Racing, NEW c \in Cpu, Store(c)
  PROVE  Racing'
<1>1. /\ UNCHANGED <<kind, htab, free, evicted, polluted>>
      /\ Counted(c) /\ key[c] \in Flow /\ pc[c] = "store" /\ ptr[c] \in Elem
  BY StoreTypes DEF Store
<1>2. \A d \in Cpu : d # c => /\ pc'[d] = pc[d] /\ key'[d] = key[d] /\ ptr'[d] = ptr[d]
                              /\ reg'[d] = reg[d] /\ (d \in met' <=> d \in met)
  <2>1. CASE kind = "parity"
    <3>1. /\ pc' = [pc EXCEPT ![c] = "test"] /\ reg' = [reg EXCEPT ![c] = @ + 1]
          /\ key' = key /\ ptr' = ptr /\ met' = met
      BY <2>1 DEF Store
    <3> QED  BY <3>1 DEF Base, TypeOK
  <2>2. CASE kind # "parity"
    BY <2>2, LeaveTypes DEF Store, Base
  <2> QED  BY <2>1, <2>2
<1>3. \/ key'[c] = NoFlow
      \/ /\ key'[c] = key[c] /\ ptr'[c] = ptr[c] /\ pc'[c] = "test"
         /\ c \in met' <=> c \in met
  <2>1. CASE kind = "parity"
    <3>1. pc' = [pc EXCEPT ![c] = "test"] /\ key' = key /\ ptr' = ptr /\ met' = met
      BY <2>1 DEF Store
    <3> QED  BY <3>1 DEF Base, TypeOK
  <2>2. CASE kind # "parity"
    BY <2>2, LeaveTypes DEF Store, Base
  <2> QED  BY <2>1, <2>2
<1>4. \A k \in Flow : k # NoFlow
  BY CountersOK
<1>5. Meets'
  BY <1>1, <1>2, <1>3 DEF Racing, Meets
<1>6. ASSUME NEW k \in Flow, kind \notin PerCpu, Kept(k)
      PROVE  Bound(k)' /\ \A d \in Cpu : Writer(k, d)'
  <2>1. Bound(k) /\ \A d \in Cpu : Writer(k, d)
    BY <1>6 DEF Racing
  <2>2. SlotOf(c) = Shared /\ Shared \in Slot
    BY <1>6 DEF SlotOf, Slot
  <2>3. htab[k] # NoElem => htab[k] \in Elem /\ cell[htab[k]][Shared] \in Nat
    BY <2>2 DEF Base, TypeOK
  <2>4. CASE k = key[c]
    <3>1. /\ handled[k] \in Nat /\ raced[k] \in Nat
          /\ handled'[k] = handled[k] + 1 /\ raced'[k] \in Nat
          /\ raced'[k] >= raced[k]
          /\ c \in met => raced'[k] = raced[k] + 1
          /\ \A d \in Cpu : key[d] = k /\ d # c => raced'[k] = raced[k] + 1
      BY <1>1, <2>4, RacedMore DEF Racing
    <3>2. htab[k] # NoElem /\ (ptr[c] = htab[k] \/ c \in met)
      BY <1>1, <2>1, <2>4, CountersOK DEF Writer
    <3>3. reg[c] \in Nat
      BY DEF Base, TypeOK
    <3>4. handled'[k] <= cell'[htab[k]][Shared] + raced'[k]
      <4>1. CASE ptr[c] = htab[k]
        <5>1. cell'[htab[k]][Shared] = reg[c] + 1
          BY <2>2, <4>1, StoreTypes
        <5>2. handled[k] <= reg[c] + raced[k]
          BY <1>1, <2>1, <2>4, <4>1 DEF Writer
        <5> QED  BY <3>1, <3>3, <5>1, <5>2
      <4>2. CASE ptr[c] # htab[k]
        <5>1. cell'[htab[k]][Shared] = cell[htab[k]][Shared]
          BY <2>2, <2>3, <3>2, <4>2, StoreTypes
        <5>2. raced'[k] = raced[k] + 1
          BY <3>1, <3>2, <4>2
        <5>3. handled[k] <= cell[htab[k]][Shared] + raced[k]
          BY <2>1, <3>2 DEF Bound
        <5> QED  BY <2>3, <3>1, <3>2, <5>1, <5>2, <5>3
      <4> QED  BY <4>1, <4>2
    <3>5. Bound(k)'
      BY <1>1, <3>2, <3>4 DEF Bound
    <3>6. ASSUME NEW d \in Cpu PROVE Writer(k, d)'
      <4>1. CASE d = c
        BY <1>1, <1>3, <1>4, <3>2, <4>1 DEF Writer
      <4>2. CASE d # c
        <5>1. reg[d] \in Nat
          BY DEF Base, TypeOK
        <5> QED  BY <1>1, <1>2, <2>1, <3>1, <4>2, <5>1 DEF Writer
      <4> QED  BY <4>1, <4>2
    <3> QED  BY <3>5, <3>6
  <2>5. CASE k # key[c]
    <3>1. htab[k] # NoElem => htab[k] # ptr[c]
      BY <1>6, <2>5 DEF Counts, CountAt, Kept
    <3>2. htab[k] # NoElem => cell'[htab[k]][Shared] = cell[htab[k]][Shared]
      BY <2>2, <2>3, <3>1, StoreTypes
    <3>3. handled'[k] = handled[k] /\ raced'[k] = raced[k]
      BY <1>1, <2>5, CountedTypes DEF Base
    <3>4. Bound(k)'
      BY <1>1, <2>1, <3>2, <3>3 DEF Bound
    <3>5. key'[c] # k
      BY <1>3, <1>4, <2>5
    <3>6. ASSUME NEW d \in Cpu PROVE Writer(k, d)'
      BY <1>1, <1>2, <2>1, <3>3, <3>5 DEF Writer
    <3> QED  BY <3>4, <3>6
  <2> QED  BY <2>4, <2>5
<1> QED  BY <1>1, <1>5, <1>6 DEF Racing, Kept

(* A frame that arrives meets the others of its key. *)
LEMMA RacingReceive ==
  ASSUME Base, Racing, NEW c \in Cpu, NEW k \in Flow, Receive(c, k)
  PROVE  Racing'
<1>1. /\ pc[c] = "idle" /\ key[c] = NoFlow /\ ptr[c] = NoElem
      /\ pc'[c] \in {"outer", "lookup"} /\ key'[c] = k /\ ptr' = ptr /\ reg' = reg
      /\ \A d \in Cpu : d # c => pc'[d] = pc[d] /\ key'[d] = key[d]
      /\ UNCHANGED <<kind, htab, free, cell, handled, raced, evicted, polluted>>
  BY DEF Receive, Base, Progress, TypeOK, mapVars
<1>2. met' = IF \E d \in Cpu : key[d] = k THEN met \cup {c} \cup {d \in Cpu : key[d] = k}
             ELSE met
  BY DEF Receive
<1>3. Meets'
  <2> SUFFICES ASSUME NEW a \in Cpu, NEW b \in Cpu, key'[a] = key'[b], key'[a] # NoFlow, a # b
               PROVE  a \in met'
    BY DEF Meets
  <2>1. CASE a = c
    BY <1>1, <1>2, <2>1
  <2>2. CASE b = c
    BY <1>1, <1>2, <2>2
  <2>3. CASE a # c /\ b # c
    BY <1>1, <1>2, <2>3 DEF Racing, Meets
  <2> QED  BY <2>1, <2>2, <2>3
<1>4. ASSUME NEW l \in Flow, kind \notin PerCpu, Kept(l)
      PROVE  Bound(l)' /\ \A d \in Cpu : Writer(l, d)'
  <2>1. Bound(l) /\ \A d \in Cpu : Writer(l, d)
    BY <1>4 DEF Racing
  <2>2. Bound(l)'
    BY <1>1, <2>1 DEF Bound
  <2>3. ASSUME NEW d \in Cpu PROVE Writer(l, d)'
    <3>1. CASE d = c
      BY <1>1, <3>1 DEF Writer
    <3>2. CASE d # c
      BY <1>1, <1>2, <2>1, <3>2 DEF Writer
    <3> QED  BY <3>1, <3>2
  <2> QED  BY <2>2, <2>3
<1> QED  BY <1>1, <1>3, <1>4 DEF Racing, Kept

(* Every step loses only raced packets. *)
LEMMA StepRacing ==
  ASSUME Base, Counts, Racing, [Next]_vars PROVE Racing'
<1>1. ASSUME InsertInner \/ UNCHANGED vars PROVE Racing'
  BY <1>1 DEF Racing, Meets, Kept, Bound, Writer, InsertInner, vars, mapVars, runVars, audit
<1>2. ASSUME NEW c \in Cpu, CpuStep(c) PROVE Racing'
  <2>1. CASE \E k \in Flow : Receive(c, k)
    BY <2>1, RacingReceive
  <2>2. CASE LookupOuter(c)
    <3>1. CASE inner
      <4>1. /\ pc' = [pc EXCEPT ![c] = "lookup"]
            /\ UNCHANGED <<kind, key, ptr, reg, met, htab, free, cell, handled, raced,
                           evicted, polluted>>
        BY <2>2, <3>1 DEF LookupOuter, mapVars
      <4>2. pc'[c] = "lookup" /\ \A d \in Cpu : d # c => pc'[d] = pc[d]
        BY <4>1 DEF Base, TypeOK
      <4> QED  BY <4>1, <4>2 DEF Racing, Meets, Kept, Bound, Writer
    <3>2. CASE ~inner
      <4>1. /\ Leave(c)
            /\ UNCHANGED <<kind, htab, free, cell, handled, raced, evicted, polluted>>
        BY <2>2, <3>2 DEF LookupOuter, mapVars, Base, Progress
      <4> QED  BY <4>1, RacingLeave
    <3> QED  BY <3>1, <3>2
  <2>3. CASE Lookup(c)
    <3>1. /\ ptr'[c] = htab[key[c]] /\ key' = key /\ reg' = reg
          /\ pc'[c] = IF htab[key[c]] = NoElem THEN "insert" ELSE "load"
          /\ \A d \in Cpu : d # c => ptr'[d] = ptr[d] /\ pc'[d] = pc[d]
          /\ UNCHANGED <<kind, met, htab, free, cell, handled, raced, evicted, polluted>>
      BY <2>3 DEF Lookup, mapVars, audit, Base, TypeOK
    <3>2. \A k \in Flow : handled[k] \in Nat /\ raced[k] \in Nat
      BY DEF Base, TypeOK
    <3>3. ASSUME NEW k \in Flow, kind \notin PerCpu, Kept(k)
          PROVE  Bound(k)' /\ \A d \in Cpu : Writer(k, d)'
      <4>1. Bound(k) /\ \A d \in Cpu : Writer(k, d)
        BY <3>3 DEF Racing
      <4>2. Bound(k)'
        BY <3>1, <4>1 DEF Bound
      <4>3. ASSUME NEW d \in Cpu PROVE Writer(k, d)'
        <5>1. CASE d = c
          <6>1. htab[k] = NoElem =>
                  handled[k] <= raced[k] \/ (htab[k] = NoElem /\ free = {} /\ kind # "lru")
            BY <3>2, <4>1 DEF Bound
          <6> QED  BY <3>1, <5>1, <6>1 DEF Writer
        <5>2. CASE d # c
          BY <3>1, <4>1, <5>2 DEF Writer
        <5> QED  BY <5>1, <5>2
      <4> QED  BY <4>2, <4>3
    <3> QED  BY <3>1, <3>3 DEF Racing, Meets, Kept
  <2>4. CASE Load(c)
    <3>1. /\ reg'[c] = cell[ptr[c]][SlotOf(c)] /\ pc'[c] = "store"
          /\ \A d \in Cpu : d # c => reg'[d] = reg[d] /\ pc'[d] = pc[d]
          /\ UNCHANGED <<kind, key, ptr, met, htab, free, cell, handled, raced, evicted, polluted>>
          /\ ptr[c] \in Elem
      BY <2>4 DEF Load, mapVars, audit, Base, TypeOK, Progress
    <3>2. kind \notin PerCpu => SlotOf(c) = Shared
      BY DEF SlotOf
    <3>3. ptr[c] # NoElem
      BY <3>1, CountersOK
    <3> QED  BY <3>1, <3>2, <3>3 DEF Racing, Meets, Kept, Bound, Writer
  <2>5. CASE Test(c)
    BY <2>5, RacingLeave DEF Test, mapVars
  <2>6. CASE InsertFull(c)
    <3>1. /\ Leave(c) /\ UNCHANGED <<kind, htab, free, cell, evicted, polluted>>
          /\ Counted(c) /\ key[c] \in Flow
          /\ htab[key[c]] = NoElem /\ free = {} /\ kind # "lru"
      BY <2>6 DEF InsertFull, mapVars, Base, Progress
    <3>2. \A k \in Flow : k # key[c] => handled'[k] = handled[k] /\ raced'[k] = raced[k]
      BY <3>1, CountedTypes DEF Base
    <3> QED  BY <3>1, <3>2, RacingLeave
  <2>7. CASE InsertOwn(c)
    <3>1. kind = "percpu_hash" /\ Leave(c) /\ kind' = kind
      BY <2>7 DEF InsertOwn
    <3>2. Meets'
      BY <3>1, MeetsLeave DEF Racing
    <3> QED  BY <3>1, <3>2 DEF Racing, PerCpu
  <2> QED  BY <1>2, <2>1, <2>2, <2>3, <2>4, <2>5, <2>6, <2>7,
              RacingStore, RacingLink, Relink DEF CpuStep
<1> QED  BY <1>1, <1>2 DEF Next

(* Before the first packet nothing is missing. *)
LEMMA InitRacing == Init => Racing
<1> SUFFICES ASSUME Init PROVE Racing
  OBVIOUS
<1>1. \A d \in Cpu : key[d] = NoFlow
  BY DEF Init
<1>2. \A k \in Flow : k # NoFlow /\ handled[k] = 0 /\ raced[k] = 0
  BY CountersOK DEF Init
<1>3. \A k \in Flow : htab[k] # NoElem => cell[htab[k]][Shared] = 0
  BY CountersOK DEF Init, Slot
<1> QED  BY <1>1, <1>2, <1>3 DEF Racing, Meets, Bound, Writer

(* The plain increments and the unguarded insertions lose, of a key that   *)
(* keeps its element, only packets whose handling overlapped with that of  *)
(* another packet of the key: never a packet that was counted alone, in    *)
(* any interleaving of any number of CPUs.                                 *)
THEOREM OnlyRacedAreLost == Spec => []LosesOnlyRaced
<1>1. Racing => LosesOnlyRaced
  BY DEF Racing, LosesOnlyRaced, Linked, Bound, Kept
<1> QED  BY <1>1, InitBase, InitCounts, InitRacing, StepBase, StepCounts, StepRacing,
            PTL DEF Spec
=============================================================================
