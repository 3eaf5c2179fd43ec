------------------------------ MODULE FlowTable ------------------------------
(***************************************************************************)
(* The kernel side of flow accounting: an XDP program that counts packets  *)
(* by flow, run by every CPU that receives frames over one preallocated    *)
(* BPF hash map.  xdp_program.c, xdp_flow_tracker.c and xdp_counter.c of   *)
(* flow_accounting/ count this way and differ in the frames they count and *)
(* the keys they count under (XdpProgram, FlowBatch); the lines named here *)
(* are those of xdp_program.c.                                             *)
(*                                                                         *)
(* A CPU runs the program to completion on one frame before it takes the   *)
(* next; what interleaves is the three accesses of different CPUs to the   *)
(* map: the lookup, the atomic add through the pointer the lookup gave,    *)
(* and the update.  The map is the kernel's (external): an element is      *)
(* preallocated memory, an update of a present key links the CPU's spare   *)
(* element and keeps the old one as the new spare, and a deleted element   *)
(* can be linked again at once, whoever still points at it.                *)
(***************************************************************************)
EXTENDS Naturals, SequencesExt

CONSTANTS
  Cpu,         \* the CPUs the driver delivers frames on
  Flow,        \* the flow keys: values of struct flow_key
  NoFlow,      \* no key
  Elem,        \* the preallocated elements: max_entries plus one per CPU
  NoElem,      \* a null element pointer
  FirstSpare,  \* the element each CPU starts with as its spare
  Bucket,      \* the hash bucket of each key
  CounterMod   \* packets is a u64: it wraps at CounterMod, 2^64 in the code

ASSUME ConstantsOK ==
  /\ NoFlow \notin Flow
  /\ NoElem \notin Elem
  /\ FirstSpare \in [Cpu -> Elem]
  /\ \A c, d \in Cpu : FirstSpare[c] = FirstSpare[d] => c = d
  /\ Bucket \in [Flow -> Nat]
  /\ CounterMod \in Nat \ {0, 1}

VARIABLES
  attached,    \* the program is attached to the interface
  htab,        \* the element linked for each key, or NoElem
  order,       \* the linked keys in the order bpf_map_get_next_key gives them
  free,        \* the elements on the free list
  spare,       \* the extra element of each CPU
  val,         \* the packets field in each element's memory
  pc, key, ptr \* each CPU's program: where it is, its key, the looked-up pointer

tableVars == <<htab, order, free, spare, val>>
cpuVars   == <<pc, key, ptr>>
kernelVars == <<attached, tableVars, cpuVars>>

-----------------------------------------------------------------------------
(* Mutant: the counter does not wrap. *)
BumpWider(v) == v + 1

(* __sync_fetch_and_add of 1 on a u64. *)
Bump(v) == IF v + 1 = CounterMod THEN 0 ELSE v + 1

(* Mutant: the element the key had stays in the list. *)
LinkAgain(keys, k) == <<k>> \o keys

Unlink(keys, k) == RemoveFirst(keys, k)

(* An update links its element at the head of the bucket's list, in front  *)
(* of one the same key already had there.                                  *)
LinkFirst(keys, k) ==
  LET others  == Unlink(keys, k)
      from(x) == Bucket[x] >= Bucket[k]
      head    == SelectInSeq(others, from)
  IN  InsertAt(others, IF head = 0 THEN Len(others) + 1 ELSE head, k)

(* bpf_map_get_next_key: of NULL, or of a key that is not in the map, the  *)
(* first key.  NoFlow is the error at the end of the map.                  *)
FirstKey == IF order = <<>> THEN NoFlow ELSE Head(order)

NextKey(k) ==
  IF \E i \in DOMAIN order : order[i] = k
  THEN LET i == CHOOSE j \in DOMAIN order : order[j] = k
       IN  IF i < Len(order) THEN order[i + 1] ELSE NoFlow
  ELSE FirstKey

-----------------------------------------------------------------------------
TableInit ==
  /\ attached = TRUE
  /\ htab = [k \in Flow |-> NoElem]
  /\ order = <<>>
  /\ free = Elem \ {FirstSpare[c] : c \in Cpu}
  /\ spare = FirstSpare
  /\ val = [e \in Elem |-> 0]
  /\ pc = [c \in Cpu |-> "idle"]
  /\ key = [c \in Cpu |-> NoFlow]
  /\ ptr = [c \in Cpu |-> NoElem]

(* The program is done with its frame: XDP_PASS, its locals are gone. *)
Finish(c) ==
  /\ pc' = [pc EXCEPT ![c] = "idle"]
  /\ key' = [key EXCEPT ![c] = NoFlow]
  /\ ptr' = [ptr EXCEPT ![c] = NoElem]
  /\ UNCHANGED attached

(* Mutant: the update is made whether or not the lookup found the key. *)
LookupForgotten(c, k) ==
  /\ attached
  /\ pc[c] = "idle"
  /\ key' = [key EXCEPT ![c] = k]
  /\ pc' = [pc EXCEPT ![c] = "insert"]
  /\ UNCHANGED <<attached, ptr, tableVars>>

(* CPU c has received a frame of flow k: it looks the key up. *)
Lookup(c, k) ==
  /\ attached
  /\ pc[c] = "idle"
  /\ key' = [key EXCEPT ![c] = k]
  /\ ptr' = [ptr EXCEPT ![c] = htab[k]]
  /\ pc' = [pc EXCEPT ![c] = IF htab[k] = NoElem THEN "insert" ELSE "add"]
  /\ UNCHANGED <<attached, tableVars>>

(* The lookup found an element: one atomic add through the pointer, into   *)
(* whatever that memory is by now.                                         *)
Add(c) ==
  /\ pc[c] = "add"
  /\ val' = [val EXCEPT ![ptr[c]] = Bump(@)]
  /\ UNCHANGED <<htab, order, free, spare>>
  /\ Finish(c)

(* Mutant: the new entry is not initialised, its element's memory is used  *)
(* as it is.                                                               *)
InsertStale(c) ==
  /\ pc[c] = "insert"
  /\ htab[key[c]] = NoElem
  /\ \E e \in free :
       /\ htab' = [htab EXCEPT ![key[c]] = e]
       /\ free' = free \ {e}
       /\ val' = [val EXCEPT ![e] = Bump(@)]
  /\ order' = LinkFirst(order, key[c])
  /\ UNCHANGED spare
  /\ Finish(c)

(* The lookup found nothing: bpf_map_update_elem(.., 1, BPF_ANY), which    *)
(* holds the bucket's lock.  The key is new...                             *)
InsertNew(c) ==
  /\ pc[c] = "insert"
  /\ htab[key[c]] = NoElem
  /\ \E e \in free :
       /\ htab' = [htab EXCEPT ![key[c]] = e]
       /\ free' = free \ {e}
       /\ val' = [val EXCEPT ![e] = 1]
  /\ order' = LinkFirst(order, key[c])
  /\ UNCHANGED spare
  /\ Finish(c)

(* ...or another CPU linked it after the lookup, and is overwritten...     *)
InsertOver(c) ==
  /\ pc[c] = "insert"
  /\ htab[key[c]] # NoElem
  /\ htab' = [htab EXCEPT ![key[c]] = spare[c]]
  /\ spare' = [spare EXCEPT ![c] = htab[key[c]]]
  /\ val' = [val EXCEPT ![spare[c]] = 1]
  /\ order' = LinkFirst(order, key[c])
  /\ UNCHANGED free
  /\ Finish(c)

(* ...or there is no free element: the update fails and the frame is not   *)
(* counted.                                                                *)
InsertFull(c) ==
  /\ pc[c] = "insert"
  /\ htab[key[c]] = NoElem
  /\ free = {}
  /\ UNCHANGED tableVars
  /\ Finish(c)

(* What is left of a frame once it has been looked up. *)
Complete(c) == Add(c) \/ InsertNew(c) \/ InsertOver(c) \/ InsertFull(c)

(* Mutant: the element is freed while the bucket's list still holds it. *)
DeleteListed(k) ==
  /\ htab[k] # NoElem
  /\ htab' = [htab EXCEPT ![k] = NoElem]
  /\ free' = free \cup {htab[k]}
  /\ UNCHANGED <<attached, order, spare, val, cpuVars>>

(* bpf_map_delete_elem from user space: the element goes to the free list  *)
(* at once; a CPU that looked it up before still holds the pointer.        *)
DeleteElem(k) ==
  /\ htab[k] # NoElem
  /\ htab' = [htab EXCEPT ![k] = NoElem]
  /\ free' = free \cup {htab[k]}
  /\ order' = Unlink(order, k)
  /\ UNCHANGED <<attached, spare, val, cpuVars>>

(* bpf_xdp_detach, or the destruction of the link: no new frames; a CPU    *)
(* inside the program finishes.                                            *)
Detach ==
  /\ attached' = FALSE
  /\ UNCHANGED <<tableVars, cpuVars>>

-----------------------------------------------------------------------------
(* The keys that are in the map. *)
Linked == {k \in Flow : htab[k] # NoElem}

(* Some CPU is about to add to the element now linked for k, on behalf of  *)
(* a different flow.                                                       *)
HeldForAnother(k) ==
  \E d \in Cpu : ptr[d] = htab[k] /\ ptr[d] # NoElem /\ key[d] # k

(* Flow k is settled: it is linked, every CPU working on it is about to    *)
(* add to its element, and nobody adds there for another flow.             *)
Settled(k) ==
  /\ htab[k] # NoElem
  /\ \A c \in Cpu : key[c] = k <=> ptr[c] = htab[k]

KernelTypeOK ==
  /\ attached \in BOOLEAN
  /\ htab \in [Flow -> Elem \cup {NoElem}]
  /\ free \subseteq Elem
  /\ spare \in [Cpu -> Elem]
  /\ val \in [Elem -> 0..(CounterMod - 1)]
  /\ pc \in [Cpu -> {"idle", "add", "insert"}]
  /\ key \in [Cpu -> Flow \cup {NoFlow}]
  /\ ptr \in [Cpu -> Elem \cup {NoElem}]

(* A program holds a key and a pointer exactly while it needs them. *)
LocalsOK ==
  \A c \in Cpu :
    /\ pc[c] = "idle"   <=> key[c] = NoFlow
    /\ pc[c] = "add"    <=> ptr[c] # NoElem

(* The bookkeeping of the kernel's map, which the proofs rest on: every    *)
(* element has one owner, the flow it is linked for, the free list, or the *)
(* CPU whose spare it is.                                                  *)
ElementsOwned ==
  /\ \A k, l \in Flow : htab[k] = htab[l] /\ htab[k] # NoElem => k = l
  /\ \A c, d \in Cpu : spare[c] = spare[d] => c = d
  /\ \A k \in Flow : htab[k] \notin free
  /\ \A c \in Cpu : spare[c] \notin free /\ \A k \in Flow : htab[k] # spare[c]

(* The iteration order lists the linked keys, each once, bucket by bucket. *)
OrderOK ==
  /\ {order[i] : i \in DOMAIN order} = Linked
  /\ \A i, j \in DOMAIN order :
       i < j => order[i] # order[j] /\ Bucket[order[i]] <= Bucket[order[j]]
=============================================================================
