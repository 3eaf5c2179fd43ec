----------------------------- MODULE MapCounters -----------------------------
(***************************************************************************)
(* The packet counters of bpf-maps and Flow_count.c: a program that looks  *)
(* its key up in a map and, unlike those of FlowTable, adds with a plain   *)
(* ++ on the count, a load and a store that other CPUs can come between.   *)
(* kind is the map the program was written for:                            *)
(*   "array"         array_map.c (two of them), Flow_count.c               *)
(*   "parity"        map_array.c, which drops every second packet          *)
(*   "hash"          hash_map_counter.c, maps_FA/maps/hash_map.c           *)
(*   "inner"         map_in_map_kern.c, hash_map_in_map_kern.c             *)
(*   "lru"           lru_hash_counter.c                                    *)
(*   "percpu_array"  percpu_array.c, array_map_per_cpu.c                   *)
(*   "percpu_hash"   percpu_hash.c                                         *)
(* The maps are the kernel's (external): an element is preallocated        *)
(* memory, and a pointer into it outlives its key.  The u64 counters stay  *)
(* far below their wrap.                                                   *)
(***************************************************************************)
EXTENDS Naturals

CONSTANTS
  Cpu,         \* the CPUs the driver delivers frames on
  Flow,        \* the keys: source addresses, or protocols, or just 0
  NoFlow,      \* no key
  Elem,        \* the preallocated elements
  NoElem,      \* a null pointer
  ArrayElem,   \* the element of each key in an array
  FirstSpare,  \* the element each CPU starts with as its spare
  Shared,      \* the slot of a value that is not per CPU
  MaxHandled   \* bound: no new frame of a key that has this many behind it

Kinds == {"array", "parity", "hash", "inner", "lru", "percpu_array", "percpu_hash"}
Slot == Cpu \cup {Shared}

ASSUME CountersOK ==
  /\ NoFlow \notin Flow
  /\ NoElem \notin Elem
  /\ ArrayElem \in [Flow -> Elem]
  /\ \A k, l \in Flow : ArrayElem[k] = ArrayElem[l] => k = l
  /\ FirstSpare \in [Cpu -> Elem]
  /\ \A c, d \in Cpu : FirstSpare[c] = FirstSpare[d] => c = d
  /\ Shared \notin Cpu
  /\ MaxHandled \in Nat

VARIABLES
  kind,        \* the program that is attached
  inner,       \* the outer map's slot holds an inner map
  htab,        \* the element linked for each key, or NoElem
  free, spare, \* the free elements, and each CPU's extra one
  cell,        \* the memory of each element
  pc, key, ptr,\* each CPU's program: where it is, its key, its pointer
  reg,         \* the value it has loaded
  early,       \* CPUs whose frame came before the inner map
  met,         \* CPUs whose frame met another of its key on another CPU
  handled,     \* packets of each key the program is done with,
  own,         \* and of these those handled by each CPU
  raced,       \* and those counted by a CPU in met
  drops,       \* packets "parity" has dropped, by key
  crossed,     \* keys two CPUs were counting at once
  evicted,     \* keys that lost their element to another
  polluted     \* keys linked on an element some CPU still pointed at

mapVars == <<htab, free, spare, cell>>
runVars == <<pc, key, ptr, reg, early, met>>
audit   == <<handled, own, raced, drops, crossed, evicted, polluted>>
vars    == <<kind, inner, mapVars, runVars, audit>>

-----------------------------------------------------------------------------
Arrays == {"array", "parity", "percpu_array"}
PerCpu == {"percpu_array", "percpu_hash"}

(* The slot of a value that CPU c's pointer leads to. *)
SlotOf(c) == IF kind \in PerCpu THEN c ELSE Shared

(* A new element's memory: CPU c's 1, and zero for the other CPUs. *)
Fresh(c) == [s \in Slot |-> IF s = SlotOf(c) THEN 1 ELSE 0]

Init ==
  /\ kind \in Kinds
  /\ inner = (kind # "inner")
  /\ htab = [k \in Flow |-> IF kind \in Arrays THEN ArrayElem[k] ELSE NoElem]
  /\ free = IF kind \in Arrays THEN {} ELSE Elem \ {FirstSpare[c] : c \in Cpu}
  /\ spare = FirstSpare
  /\ cell = [e \in Elem |-> [s \in Slot |-> 0]]
  /\ pc = [c \in Cpu |-> "idle"]
  /\ key = [c \in Cpu |-> NoFlow]
  /\ ptr = [c \in Cpu |-> NoElem]
  /\ reg = [c \in Cpu |-> 0]
  /\ early = {}
  /\ met = {}
  /\ handled = [k \in Flow |-> 0]
  /\ own = [k \in Flow |-> [c \in Cpu |-> 0]]
  /\ raced = [k \in Flow |-> 0]
  /\ drops = [k \in Flow |-> 0]
  /\ crossed = {}
  /\ evicted = {}
  /\ polluted = {}

(* User space puts the inner map it created into the outer map. *)
InsertInner ==
  /\ ~inner
  /\ inner' = TRUE
  /\ UNCHANGED <<kind, mapVars, runVars, audit>>

(* CPU c has received a frame whose key is k; other frames are passed.     *)
Receive(c, k) ==
  /\ pc[c] = "idle"
  /\ handled[k] < MaxHandled
  /\ pc' = [pc EXCEPT ![c] = IF kind = "inner" THEN "outer" ELSE "lookup"]
  /\ key' = [key EXCEPT ![c] = k]
  /\ early' = IF inner THEN early ELSE early \cup {c}
  /\ IF \E d \in Cpu : key[d] = k
     THEN met' = met \cup {c} \cup {d \in Cpu : key[d] = k} /\ crossed' = crossed \cup {k}
     ELSE UNCHANGED <<met, crossed>>
  /\ UNCHANGED <<kind, inner, mapVars, ptr, reg, handled, own, raced, drops, evicted, polluted>>

Leave(c) ==
  /\ pc' = [pc EXCEPT ![c] = "idle"]
  /\ key' = [key EXCEPT ![c] = NoFlow]
  /\ ptr' = [ptr EXCEPT ![c] = NoElem]
  /\ reg' = [reg EXCEPT ![c] = 0]
  /\ early' = early \ {c}
  /\ met' = met \ {c}

Counted(c) ==
  /\ handled' = [handled EXCEPT ![key[c]] = @ + 1]
  /\ own' = [own EXCEPT ![key[c]][c] = @ + 1]
  /\ raced' = IF c \in met THEN [raced EXCEPT ![key[c]] = @ + 1] ELSE raced

(* The lookup in the outer map: without an inner map the frame is passed   *)
(* and not counted.  The audit forgives that to a frame that came before   *)
(* the inner map.                                                          *)
LookupOuter(c) ==
  /\ pc[c] = "outer"
  /\ IF inner
     THEN pc' = [pc EXCEPT ![c] = "lookup"] /\ UNCHANGED <<key, ptr, reg, early, met, handled, own, raced>>
     ELSE Leave(c) /\ IF c \in early THEN UNCHANGED <<handled, own, raced>> ELSE Counted(c)
  /\ UNCHANGED <<kind, inner, mapVars, drops, crossed, evicted, polluted>>

(* Mutant: the update is made whatever the lookup finds. *)
LookupForgotten(c) ==
  /\ pc[c] = "lookup"
  /\ pc' = [pc EXCEPT ![c] = "insert"]
  /\ UNCHANGED <<kind, inner, mapVars, key, ptr, reg, early, met, audit>>

(* The lookup in the map that counts. *)
Lookup(c) ==
  /\ pc[c] = "lookup"
  /\ ptr' = [ptr EXCEPT ![c] = htab[key[c]]]
  /\ pc' = [pc EXCEPT ![c] = IF htab[key[c]] = NoElem THEN "insert" ELSE "load"]
  /\ UNCHANGED <<kind, inner, mapVars, key, reg, early, met, audit>>

(* The increment is a load...                                              *)
Load(c) ==
  /\ pc[c] = "load"
  /\ reg' = [reg EXCEPT ![c] = cell[ptr[c]][SlotOf(c)]]
  /\ pc' = [pc EXCEPT ![c] = "store"]
  /\ UNCHANGED <<kind, inner, mapVars, key, ptr, early, met, audit>>

(* ...and a store, of the one more than was loaded.                        *)
Store(c) ==
  /\ pc[c] = "store"
  /\ cell' = [cell EXCEPT ![ptr[c]][SlotOf(c)] = reg[c] + 1]
  /\ Counted(c)
  /\ IF kind = "parity"
     THEN /\ pc' = [pc EXCEPT ![c] = "test"]
          /\ reg' = [reg EXCEPT ![c] = @ + 1]
          /\ UNCHANGED <<key, ptr, early, met>>
     ELSE Leave(c)
  /\ UNCHANGED <<kind, inner, htab, free, spare, drops, crossed, evicted, polluted>>

(* XDP_DROP if the count is even. *)
Dropped(count) == IF count % 2 = 0 THEN 1 ELSE 0

(* Mutant: the count is tested as it was before this packet. *)
TestBefore(c) ==
  /\ pc[c] = "test"
  /\ drops' = [drops EXCEPT ![key[c]] = @ + Dropped(reg[c] - 1)]
  /\ Leave(c)
  /\ UNCHANGED <<kind, inner, mapVars, handled, own, raced, crossed, evicted, polluted>>

(* map_array.c tests *value again: the compiler may read the memory again  *)
(* or keep what it stored.                                                 *)
Test(c) ==
  /\ pc[c] = "test"
  /\ \E v \in {reg[c], cell[ptr[c]][Shared]} :
       drops' = [drops EXCEPT ![key[c]] = @ + Dropped(v)]
  /\ Leave(c)
  /\ UNCHANGED <<kind, inner, mapVars, handled, own, raced, crossed, evicted, polluted>>

-----------------------------------------------------------------------------
(* Mutant: the element of a new key keeps what its memory held. *)
LinkUncleared(c, e) ==
  /\ cell' = [cell EXCEPT ![e][SlotOf(c)] = @ + 1]
  /\ polluted' = IF \E d \in Cpu : ptr[d] = e THEN polluted \cup {key[c]} ELSE polluted
  /\ Counted(c)
  /\ Leave(c)
  /\ UNCHANGED <<kind, inner, drops, crossed>>

(* bpf_map_update_elem(.., 1, BPF_ANY) links element e for c's key.        *)
Link(c, e) ==
  /\ cell' = [cell EXCEPT ![e] = Fresh(c)]
  /\ polluted' = IF \E d \in Cpu : ptr[d] = e THEN polluted \cup {key[c]} ELSE polluted
  /\ Counted(c)
  /\ Leave(c)
  /\ UNCHANGED <<kind, inner, drops, crossed>>

(* The key is new, and there is a free element. *)
InsertNew(c) ==
  /\ pc[c] = "insert"
  /\ kind # "lru"
  /\ htab[key[c]] = NoElem
  /\ \E e \in free :
       /\ htab' = [htab EXCEPT ![key[c]] = e]
       /\ free' = free \ {e}
       /\ Link(c, e)
  /\ UNCHANGED <<spare, evicted>>

(* Another CPU linked the key after the lookup: its element is replaced by *)
(* this CPU's spare...                                                     *)
InsertOver(c) ==
  /\ pc[c] = "insert"
  /\ kind \in {"hash", "inner"}
  /\ htab[key[c]] # NoElem
  /\ htab' = [htab EXCEPT ![key[c]] = spare[c]]
  /\ spare' = [spare EXCEPT ![c] = htab[key[c]]]
  /\ Link(c, spare[c])
  /\ UNCHANGED <<free, evicted>>

(* Mutant: the update sets the values of all CPUs. *)
InsertOwnAll(c) ==
  /\ pc[c] = "insert"
  /\ kind = "percpu_hash"
  /\ htab[key[c]] # NoElem
  /\ cell' = [cell EXCEPT ![htab[key[c]]] = Fresh(c)]
  /\ Counted(c)
  /\ Leave(c)
  /\ UNCHANGED <<kind, inner, htab, free, spare, drops, crossed, evicted, polluted>>

(* ...or, in a per-CPU map, written in this CPU's slot.                    *)
InsertOwn(c) ==
  /\ pc[c] = "insert"
  /\ kind = "percpu_hash"
  /\ htab[key[c]] # NoElem
  /\ cell' = [cell EXCEPT ![htab[key[c]]][c] = 1]
  /\ Counted(c)
  /\ Leave(c)
  /\ UNCHANGED <<kind, inner, htab, free, spare, drops, crossed, evicted, polluted>>

(* There is no free element: the update fails, the packet is not counted.  *)
InsertFull(c) ==
  /\ pc[c] = "insert"
  /\ kind # "lru"
  /\ htab[key[c]] = NoElem
  /\ free = {}
  /\ Counted(c)
  /\ Leave(c)
  /\ UNCHANGED <<kind, inner, mapVars, drops, crossed, evicted, polluted>>

(* Mutant: the key's old element is freed whether it had one or not. *)
InsertLruLoose(c) ==
  /\ pc[c] = "insert"
  /\ kind = "lru"
  /\ \E e \in free \cup {htab[k] : k \in Flow} :
       /\ e # NoElem
       /\ htab' = [k \in Flow |-> IF k = key[c] THEN e
                                  ELSE IF htab[k] = e THEN NoElem ELSE htab[k]]
       /\ free' = (free \cup {htab[key[c]]}) \ {e}
       /\ evicted' = evicted \cup {k \in Flow : htab[k] = e}
       /\ Link(c, e)
  /\ UNCHANGED spare

(* An LRU map takes a free element or that of any key it holds, and then   *)
(* frees the one the key had.                                              *)
InsertLru(c) ==
  /\ pc[c] = "insert"
  /\ kind = "lru"
  /\ \E e \in free \cup {htab[k] : k \in Flow} :
       /\ e # NoElem
       /\ htab' = [k \in Flow |-> IF k = key[c] THEN e
                                  ELSE IF htab[k] = e THEN NoElem ELSE htab[k]]
       /\ free' = (free \cup {htab[key[c]]}) \ {e, NoElem}
       /\ evicted' = evicted \cup {k \in Flow : htab[k] = e}
       /\ Link(c, e)
  /\ UNCHANGED spare

CpuStep(c) ==
  \/ \E k \in Flow : Receive(c, k)
  \/ LookupOuter(c) \/ Lookup(c) \/ Load(c) \/ Store(c) \/ Test(c)
  \/ InsertNew(c) \/ InsertOver(c) \/ InsertOwn(c) \/ InsertFull(c) \/ InsertLru(c)

Next == InsertInner \/ \E c \in Cpu : CpuStep(c)

Spec == Init /\ [][Next]_vars

-----------------------------------------------------------------------------
TypeOK ==
  /\ kind \in Kinds
  /\ inner \in BOOLEAN
  /\ htab \in [Flow -> Elem \cup {NoElem}]
  /\ free \subseteq Elem
  /\ spare \in [Cpu -> Elem]
  /\ cell \in [Elem -> [Slot -> Nat]]
  /\ pc \in [Cpu -> {"idle", "outer", "lookup", "load", "store", "test", "insert"}]
  /\ key \in [Cpu -> Flow \cup {NoFlow}]
  /\ ptr \in [Cpu -> Elem \cup {NoElem}]
  /\ reg \in [Cpu -> Nat]
  /\ early \subseteq Cpu
  /\ handled \in [Flow -> Nat]
  /\ own \in [Flow -> [Cpu -> Nat]]
  /\ met \subseteq Cpu
  /\ raced \in [Flow -> Nat]
  /\ drops \in [Flow -> Nat]
  /\ crossed \subseteq Flow /\ evicted \subseteq Flow /\ polluted \subseteq Flow

Linked == {k \in Flow : htab[k] # NoElem}

(* A plain increment can lose packets and make a counter fall, but never   *)
(* counts one that was not there: a shared count is at most the packets    *)
(* handled, unless its element was linked under another CPU's pointer.     *)
NeverOvercounts ==
  kind \notin PerCpu =>
    \A k \in Linked \ polluted : cell[htab[k]][Shared] <= handled[k]

(* Packets are lost only when two CPUs count one key at once, or when an   *)
(* LRU map gives an element away, or before the loader has inserted the    *)
(* inner map (map_in_map_user.c:112, 184): with each key's frames on one   *)
(* CPU every one of these counters is exact, racy as its code is.          *)
SerialExact ==
  kind \notin PerCpu =>
    \A k \in Linked \ (crossed \cup evicted \cup polluted) :
      cell[htab[k]][Shared] = handled[k]

(* What a key whose frames come to several CPUs can lose: only packets     *)
(* whose handling overlapped with that of another packet of the key, never *)
(* one that was counted alone, however long a CPU keeps what it has loaded *)
(* (Flow_count.c:66) or looked up in vain (hash_map_counter.c:38-50), and  *)
(* whatever it then writes over.                                           *)
LosesOnlyRaced ==
  kind \notin PerCpu =>
    \A k \in Linked \ (evicted \cup polluted) :
      handled[k] <= cell[htab[k]][Shared] + raced[k]

(* The per-CPU maps need no such condition: every CPU's value is exact     *)
(* whatever the CPUs do, also when several insert a key at once and each   *)
(* writes its 1 over what it did not find.                                 *)
PerCpuExact ==
  kind \in PerCpu =>
    \A k \in Linked : \A c \in Cpu : cell[htab[k]][c] = own[k][c]

(* map_array.c drops every second packet, as long as its CPUs take turns:  *)
(* the load, the store and the test are three accesses to one counter.     *)
Alternates ==
  kind = "parity" =>
    \A k \in Flow \ crossed :
      (\A c \in Cpu : key[c] # k) => drops[k] = handled[k] \div 2
=============================================================================
