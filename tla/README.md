# A verification project for XDP-Programming

TLA+ models of the programs of this repository that keep state and run beside
one another, the TLC runs that check them on small instances, and proofs,
checked by TLAPS, of what holds for every value of the constants.

The repository is a collection of eBPF/XDP programs with their user-space
companions and the notes written along with them. Three kinds are worth
modelling: those that keep counts in BPF maps that every CPU and user space use
at once, those that a script or a loader configures while they run, and those
that rewrite a frame step by step. Paths below are relative to `src/`.

## 1. Inventory

### Flow accounting (`flow_accounting/`)

| part | state it keeps | operations | what is hard |
|---|---|---|---|
| XDP program `userspace_flow_count_FA/xdp_program.c` (variants `xdp_flow_tracker.c`, `xdp_counter.c`, `multiple_flow_pkt_count.c`) | hash map flow -> packet count; locals of each CPU (key, looked-up pointer) | parse, lookup, atomic add or update | CPUs interleave between lookup and add/update; memory of a deleted entry is reused under a pointer; the map is full |
| snapshot writer `userspace_flow_count_FA/user_program.c` | `flows.txt`, the walk's two keys, `keep_running` | rewrite the file every second; stop on a signal | the walk is many system calls over a changing map; `keep_running` is read only between dumps |
| read-and-delete writer `userspace_flow_count_FA/read_and_delete_file.c` | as above, the file grows | append a row and delete the entry | count and delete are two calls; the walk restarts at the first key after each delete |
| batch logger `flow_tracker_user.c` | log, the walk's two keys, number of flows | every 30 s, log and delete each flow | key of the future held across a delete; results of calls not checked |
| readers `user_reader.c`, `Flow_count.c` | - | print | a plain, non-atomic increment (`Flow_count.c:66`) |

The parts meet in the map alone. Correct means: no packet is counted for
another flow or twice; what is lost is known; a dump misses nothing that was
there throughout; Ctrl+C ends the process.

### The L7 router (`server_xdp/Routing_and_redirect/redirecting/multiports_redirecting/`)

| part | state it keeps | operations | what is hard |
|---|---|---|---|
| data plane `xdp_l7_router.c` | three maps: role -> ifindex, slot -> MAC pair, slot -> port (a devmap) | one frame: read three roles, choose a slot, rewrite addresses, redirect | its maps are filled while it runs; array lookups of entries nobody wrote succeed, with zeroes |
| `load_xdp_l7_router.sh`, `unload_xdp_l7_router.sh` | attached programs, pinned objects, the maps' contents | clean up, load, attach to three ports, fill the maps | a step that fails, or Ctrl+C, leaves the rest undone; a cleanup command that fails is passed over; the next start must recover |

Correct means: HTTP never reaches laptop F and nothing from Z is forwarded,
configured or half configured; two ports run programs with different maps only
where a detach failed; once the loader has reported success all ports run one
load, and the policy is followed exactly.

### Programs that rewrite or inspect frames (`server_xdp/dpi/`, `redirect_bidir.c`)

| part | state it keeps | operations | what is hard |
|---|---|---|---|
| `dpi/pkt_crafting/http_response_craft.c` | the frame, the lengths it took from it | 20 numbered sections: check, resize, check again, rewrite in place, two checksums | lengths come from `tot_len`, not from the frame; nothing known before the resize may be trusted after it; a half-made reply must not be passed; `bpf_csum_diff` wants multiples of 4 |
| `dpi/host_name_ins.c` (twice) | a position in the payload, the name so far | check, search, skip, copy, print, forward | three bounds that cut the search; inspection must not change forwarding |
| `dpi/TTL_INS/ttl_ins.c` | - | check, rewrite TTL, update checksum, forward | carries of the one's complement sum |
| `redirect_bidir.c` | - | forward between two ports | it is what the other two promise to do in the end |

Correct means: a reply is a whole segment that answers its request; a frame
passed up is as it came; forwarding is the same in the three programs that
forward; a valid header stays valid.

### The exercises of `bpf-maps/`

| part | state it keeps | operations | what is hard |
|---|---|---|---|
| counters (arrays, hash, LRU, per-CPU, maps in maps; `Flow_count.c`) | a count per key, no atomic add | lookup, `(*value)++`, update | the increment is a load and a store; insertions race; an LRU map gives elements away; the inner map comes after the attach |
| loaders `map_in_map_user.c`, `hash_map_in_map_user.c`, `ringbuf_user.c`, `maps_FA/maps/loader.c` | the place for a program on the interface | load, attach, find maps, fill, loop, detach | each step may fail, the detach unnoticed; Ctrl+C before it is caught; two loaders on one interface; netlink attach against link |
| ring buffer `ringbuf_kern.c` with `ringbuf_user.c` | records in order of reservation | reserve, fill, discard or submit; poll | a record reserved first and submitted last holds up the reader; one never given back would stop it for good |

Correct means: what a plain increment can lose is known, and a counter is exact
where nothing races; nobody loses the interface but to another loader, and a
link holds; user space sees whole records only, and stops on Ctrl+C.

### Other programs

| part | in a sentence |
|---|---|
| the other redirect programs (`xdp_router.c`, ...) | stateless functions of a frame and a fixed table |
| queue, Bloom filter programs | a queue nobody pops; one membership test |
| `os/` | thread and scheduling exercises; `multithreaded-bk.c` partitions a matrix by rows |
| `packet_parsing/`, `hello_xdp/`, `environment_and_toolchain/` | parsers that print, programs that return a constant, package installation |

`PROJECT.json` lists every one with its status, and under "hazards" each
line where something can go wrong that a test would hardly reach.

## 2. Modules

```
FlowTable            the counting program over the kernel's hash map
 |- XdpProgram       which frames xdp_program.c counts, and under which key
 |   |- FlowAudit    ... beside an audit of what was really handled
 |   |- FlowSnapshot ... with user_program.c
 |   '- FlowDrain    ... with read_and_delete_file.c
 |       '- FlowDrainAudit   (FlowDrain and FlowAudit) implements both
 |                           FlowAudit and FlowLedger
 '- FlowBatch        ... xdp_flow_tracker.c with flow_tracker_user.c
FlowTableProofs      the table and the order of its keys, used by
 |- FlowAuditProofs      of FlowAudit and FlowDrainAudit
 |- FlowSnapshotProofs   of FlowSnapshot
 '- FlowBatchProofs      of FlowBatch
FlowLedger           the abstract account: handled, stored, reported
L7Router             the router's data plane over its three maps
 '- L7Policy         what the lab documentation says leaves where
     '- L7Loader     ... with the two scripts
         '- L7LoaderProofs
XdpFrame             one run of a stateless program on one frame
 |- HttpResponse     http_response_craft.c
 '- TwoPort          redirect_bidir.c and the label "forward" of the others
     |- HostInspect  host_name_ins.c
     '- TtlRewrite   ttl_ins.c
DpiPrograms          the five programs (HttpResponse, HostInspect, TtlRewrite)
 '- DpiProofs
MapCounters          the counters of bpf-maps on several CPUs
 '- MapCountersProofs
XdpLoader            the loaders of bpf-maps on one interface
 '- RingEvents       ... with the ring buffer of ringbuf_kern.c
     '- LoaderProofs
```

`FlowInstance` holds the values the flow modules' runs share; a module `MCx`
instantiates its module for TLC.

### FlowTable, XdpProgram

One CPU runs the program to completion on one frame, so what interleaves are
the accesses of different CPUs to the map, one action each: `Lookup`
(`xdp_program.c:70`), `Add` through the pointer (73), and `bpf_map_update_elem`
(79) split by what it meets, `InsertNew`, `InsertOver` and `InsertFull`. The map is
the kernel's and therefore external: a preallocated hash map with a free list
and one spare element per CPU, where an update of a present key links the spare
and keeps the old element as the new spare, and a deleted element may be linked
again at once even though a CPU still points at it. Which free element an
insert gets is any. `order` is the order `bpf_map_get_next_key` walks in: by
bucket, newest first. `val` is a counter modulo `CounterMod`, the code's 2^64.

An update that meets a linked key replaces the element in one step. In the
kernel a reader without the bucket's lock could for a moment see both; the model
does not have that moment.

`XdpProgram` tells frames apart as the program does: how many of its headers are
inside the frame, EtherType, protocol, and whether `ihl` is below 5, in which
case the ports are read inside the IPv4 header and the packet is filed under
another key.

### FlowAudit

Adds two history variables: `seen`, the packets of each flow handled, and
`recycled`, true once an element was linked for a flow while a CPU held a
pointer to it for another. User space is any process that may delete any key at
any time. This is the specification the read-and-delete writer is shown to
implement.

### FlowSnapshot, FlowDrain, FlowDrainAudit, FlowBatch

The three processes, one system call per action, with `upc` their program
counter: opening the file (which may fail), each `bpf_map_get_next_key`, each
lookup, each delete, the sleep, the signal handler, detach and exit. The first
two writers ignore what `bpf_xdp_detach` returns, so their `Quit` detaches or does
not, and exits.
`FlowDrainAudit` adds the audit and `reported`, the sum of the rows of each flow. Start-up
(open, load, attach) is the initial state.

### FlowLedger

What flow accounting promises of its numbers whatever the races: a packet is
handled once, is stored at most once and reported at most once, out of what is
stored. `FlowDrainAudit` implements it with the sums over all flows, each sum the
number of packets (`Units`) the counts stand for, so that it means something for
any set of flows.

### L7Router, L7Policy, L7Loader

`L7Router` takes a step for each map the program reads: `Receive`, `GetRole` three
times, `Choose` (all the branches of lines 331 to 807), `SetEthMacs`,
`RedirectMap`, `Leave`. The program writes no map, so CPUs do not disturb one
another and one is enough. A frame is how far its headers reach, EtherType,
protocol and destination port. Every load has maps of its own, and a frame
goes on with the maps of the program it entered.

`L7Loader` has the scripts as sequences of commands: `Cleanup`, `Fill`, and
`LoadScript` in the order of the file. One action per kind of command. `Fail`
ends a script before any command, for a command that failed under `set -e` or a
Ctrl+C. The commands of the cleanup end in `2>/dev/null || true`, in the loader
(91-97) and in the unloader (10-17): `DetachFails` leaves the port as it is and
the script goes on, and `Unpin` leaves the pins or not. Each port is detached twice,
by `bpftool` and by `ip`, and `kept` has those whose last detach failed. What is left
is then met by `Load`, which pins that are still there make fail, and by `Attach`,
which a program that is still there does. Scripts can be started again,
`MaxLoads` times with success. `complete` are the loads the loader has said SUCCESS
of. A MAC pair is read and written in one step. Discovery of interface indexes
and addresses, promiscuous mode, the mount of the BPF file system, and output are
left out.
`StrayLine` is line 51 of the loader, a lone `d`: the script goes on only if the
shell finds a command of that name (`CommandD`).

`L7Policy` is the documentation's table, written without looking at the code's
branches, and what is checked of it.

### XdpFrame, HttpResponse, TwoPort, HostInspect, TtlRewrite, DpiPrograms

These programs keep nothing from one frame to the next, so one run of one
program on one frame is all they can do, and the frames are the inputs: `Init`
chooses a program, a port and a frame. `pc` is the section the program is in,
one action per section. A frame is a record of the fields the programs read or
write; `len` is `data_end - data`, padding included, so that `tot_len` and the
frame can disagree as they can on the wire. The helpers `Check` and `Rewrite`
are the two shapes the sections have.

The checksums are computed for real, with their folds, on 16-bit words. A TCP
checksum is represented by what it was computed over, so that a field changed
after it was summed is seen. `bpf_xdp_adjust_tail` and `bpf_csum_diff` are
external: the first fails outside the driver's buffer, the second if a size is
no multiple of 4, as its contract says (kernels differ in how strictly they
test it).

The payload that `host_name_ins.c` searches is a sequence of tokens ("a method",
`Host:`, a space, an end of line, another byte); the code's three bounds count
tokens. What the code reads is compared with the text (`ValueOfHost`), not with
another search.

### MapCounters

`FlowTable` has the atomic add; here the add is a load and a store. `kind` is the
map the program was written for, and decides which actions there are: per-CPU
slots, what an update of a present key does, eviction, the outer lookup. `Test`
is the second read of the counter in `map_array.c`, which the compiler may or may
not make. History: packets handled (by key and by CPU), the keys two CPUs
counted at once (`crossed`), those evicted, and those linked on memory some CPU
still pointed at (`polluted`). A packet is *raced* if its handling overlapped with
that of another packet of its key: `met` are the CPUs that are handling one such,
`raced` counts those that are done.

### XdpLoader, RingEvents

A loader is a sequence of steps (`MapsScript`, `RingScript`, `BloomScript`, in the
order of each `main`); `Fail` returns 1 from where it is, as the code does. The
interface has one place; `Attach`, `Refused` and `Detach` say who gets it by
netlink calls or by a link. `DetachFails` is a `bpf_xdp_detach` whose result `main`
does not look at (`map_in_map_user.c:280`, `hash_map_in_map_user.c:296`,
`ringbuf_user.c:193`): the program stays and the process returns 0. Signals, kills and failures can come at any step.
`RingEvents` adds the CPUs inside the program of the ring-buffer loader, and its
poll loop: records are taken in the order of their reservation, a busy one
holds up all behind it, and `ring_buffer__poll` returns only when nothing is left.
A program replaced on the interface is finished by the CPUs inside it.

## 3. Runs

| run | checks | instance | what it shows |
|---|---|---|---|
| `flow_table` | `AuditTypeOK NeverOvercounts SettledStaysExact` | 3 CPUs, 2 flows in one bucket, 4 elements, counter mod 4, <= 3 packets admitted per flow | Overcounting needs an element recycled under a CPU. Once the race of a flow's first packets is over, its count moves exactly with its packets until it is deleted. |
| `first_packet` | `CountsEveryPacket`, violated | 2 CPUs, no deletes | Two CPUs miss the same lookup; the second update replaces the first one's count. |
| `flow_snapshot` | `TypeOK DumpComplete StopHonoured` | 2 CPUs, 2 flows and the zero key, counter mod 2, unlimited traffic | A dump has every flow that was settled when it began; Ctrl+C is honoured. |
| `flow_drain` | `TypeOK NeverOverreports KeepsLedger UsesTable` | 2 CPUs, 2 flows, counter mod 4, <= 2 packets admitted per flow | No packet is reported twice; the ledger and the audited table are implemented. |
| `drain_stop` | `StopHonoured`, violated | 2 CPUs, 3 elements, unlimited traffic | The walk starts again after each delete and can go on for ever without reading `keep_running`. |
| `flow_batch` | `TypeOK HeldKeysLinked RowsUnique BatchComplete` | 2 CPUs, 2 flows in one bucket, unlimited traffic, symmetry | The look-ahead is safe without checked results; a batch has each flow once, and all of them, unless a racing update moved one. |
| `router` | `TypeOK NeverMissteered OneProgram ReadyObeysPolicy` | 11 frames, 2 loads (HTTP frames only beside the second), any number of starts, failures and interruptions | No frame leaves on a port the policy does not give it; two loads run side by side only where a failed detach was passed over, and never after SUCCESS; a completed load follows the policy exactly, also while it is being removed or replaced, and on a port where a cleanup left it. |
| `router_window` | `AddressesOfLink`, violated | 1 load | Between the fill of `tx_port` and of `mac_map` frames leave with zero addresses. |
| `dpi` | `TypeOK PassedUntouched ReplyFits ReplyToWhole HostIsNamed ForwardingKept TtlKeepsChecksum` | five programs, 3 ports, frames cut, padded and altered at every boundary, responses of 131 and 132 bytes | Replies are whole and valid; nothing half-made is passed up; the first host name is printed, and forwarding is untouched by that; the updated checksum is right at every carry. |
| `http_unanswered` | `AnswersRequests`, violated | the response as it is, 131 bytes | Every request that meets all conditions is dropped at the last step. |
| `counters` | `TypeOK NeverOvercounts SerialExact LosesOnlyRaced PerCpuExact Alternates` | 2 CPUs, 2 keys, 3 elements, 7 kinds of map, <= 3 packets admitted per key | A plain increment never overcounts, and is exact unless two CPUs count a key at once, an LRU map evicts or memory is reused; when they do, only packets that overlapped are lost; per-CPU counters are always exact. |
| `loaders` | `TypeOK LinkHolds LostOnlyToAnother EventsWhole FilterSettled EventsHeard StopHonoured` | 2 loaders in four mixes, 2 CPUs, ring of 2 records, faults anywhere | Who owns the interface and who takes it from whom; records reach the reader whole; Ctrl+C stops every loader that caught it, unless traffic never lets the ring get empty. |

Each property of a passing run has a mutant in `PROJECT.json`: a definition of
the code changed as a bug would change it, under which the property fails. The
mutated operators stand beside the originals, marked "Mutant".

### Why the bounds are enough

* CPUs. A pointer to a deleted element needs one CPU, its reuse for another
  flow a second; a reuse by way of a *spare* needs a third, which links it
  over a key the second linked. `flow_table` therefore has three; the others
  use the table as `flow_table` checks it, and have two.
* Flows. Two in one bucket: the hard cases are one flow's element given to
  another, and one key moving in front of another.
* Elements. One free element beside the spares in `flow_table`, so that the map
  fills with one flow and `InsertFull` happens; two free elsewhere, so that walks
  have something to walk.
* `CounterMod`, `MaxSeen`. The counter wraps in all runs. `MaxSeen` stops new
  frames of a flow, not those CPUs are already working on. Where no history is
  summed there is no bound on traffic.
* `MaxLoads`. A second load is needed for a frame, or a port, with the maps of an
  older one; nothing distinguishes a third from the second. From the start of
  the second load on the frames are HTTP, which the policy treats differently on
  every port (the constraint `FewFrames`); beside the first load, and beside the
  unloader, whose cleanup is the same, they are of all classes.
* Symmetry is used in `flow_batch` only, which has no liveness property: flows in
  one bucket, free elements, and CPUs together with their spares.
* Frames (`MCDpi`). Lengths on both sides of every length the programs compare
  with; header lengths below, at and above the least; `tot_len` below, at and
  beyond the frame; all 16 combinations of the four flags that are tested; words
  whose sum meets every carry of an update, and both zeroes; all texts of up to
  four tokens. `MaxScan`, `MaxSpaces`, `MaxHostLen` are 2, 1, 2 where the code has
  251, 8, 63: each bound is met exactly, exceeded and not reached. Sequence
  numbers wrap at 16 for 2^32; `MaxLen` is just above the longest reply,
  so that a resize fails too. 132 is beside the real 131 so that a reply is sent.
* `MapCounters`. Two CPUs and two keys race; three elements, two of them spares,
  so that a hash map fills with one key and the LRU map must evict. Three
  packets of a key admit two increments that race after one that did not. What
  is raced away and what is not then differ.
* `Mixes`. Every pair of kinds that differ, and a pair that attaches the same
  way; `RingCap = 2` lets one record be held up behind another, and the ring fill.
* `CHECK_DEADLOCK FALSE` wherever a process exits, a script ends, or the network
  may stay silent. The `dpi` runs check deadlock: a program always returns.

The batch logger's proviso `moved` is not an artefact. With it false, two CPUs
that race a flow's first update move it to the head of its bucket; if the walk
has passed there, a row is missed, or written twice after a delete. With three
CPUs or more this could repeat, so that nothing bounds the walk's length but
the traffic; its end is therefore not stated as a liveness property.

### Fairness

`FlowSnapshot` and `FlowDrain` assume weak fairness of the process (it is
scheduled, its system calls return, `sleep` ends) and of each CPU's completion
of a frame it has begun (the verifier bounds the program). `RingEvents` assumes
the same of each loader that was started and of each CPU inside the program.
No fairness is assumed of frames, signals, failures or starts. `StopHonoured` of
`RingEvents` therefore allows for a reader that takes records for ever:
`ring_buffer__poll` does not return while there are any. The other modules state
safety only.

## 4. Proofs

All theorems hold for any sets of CPUs, flows, elements and frames, any
assignment of buckets and any counter width, under the named assumptions of the
modules (`ConstantsOK`, `FramesOK`, `ZeroKeyOK`, `AuditConstantsOK`,
`RouterConstantsOK`, `LoaderConstantsOK`, `FrameConstantsOK`, `PortsOK`, `BoundsOK`,
`CountersOK`, `LoadersOK`, `RingOK`), which TLC evaluates in the runs.

Every invariant the passing runs check is also a theorem, and every action
property and refinement; the liveness properties are not.

**FlowTableProofs.** What each user of the map needs, stated once. `KernelInv`
(types, `LocalsOK`, `ElementsOwned`) survives every access of a CPU and every
delete. `OrderInv` says that `order` lists the linked keys, each once, bucket by
bucket. `Before(order, x, y)` is the relation the walks are about: `LinkOrder` and
`UnlinkOrder` say how an update and a delete change it (a linked key goes in front of
its bucket, the others keep their places), `FirstKeyIsFirst` and `NextKeyIsNext`
that no key lies between a key and the one `bpf_map_get_next_key` gives for it.
Where the library would argue by induction over a sequence, the proofs take the
least index instead (`LeastNatural`).

**FlowAuditProofs.** `TypeCorrect`, `NoOvercount`, `SettledExact`,
`OneCpuSettled`. The inductive invariant is

    IInv == KernelInv /\ AuditInv      (AuditInv has NeverOvercounts)

No conjunct but the types is inductive alone. The add goes through a pointer,
so `NeverOvercounts` depends on who holds pointers to a flow's element
(`HeldForAnother`), on a CPU holding a pointer only while it needs it
(`LocalsOK`), and on each element having one owner (`ElementsOwned`), without
which an insert could reset or share a counter in use. There is one lemma
per action. `SettledExact` follows from `IInv` step by step, and with one CPU every
linked flow is always settled (`OneCpuSettled`): where a single CPU receives
all frames the accounting is exact.

Of the read-and-delete writer: `DrainTypeCorrect`; `DrainUsesTable`, where
`UserDeletes` holds (`FlowAudit` without deletes has no step for it): each step of the writer is a
step of `FlowAudit` or stutters, so all of the above holds of it; and
`DrainNeverOverreports`: `DInv` adds to `IInv` that a flow's reported sum and its count
not yet reported are at most `seen`. Between the row and the delete the entry is
in both places, so the invariant counts it once (`Unreported`); what is added to
it between the two calls is lost, never doubled.

`DrainKeepsLedger`: the writer implements `FlowLedger`, recycled elements and wrapped
counters included. Flow by flow this is false, as an add through a stale pointer
goes to another flow; but each step raises at most one flow's count, by at most
one (`ProcessStores`, from `ElementsOwned`), and a row moves exactly one count
(`RowLedger`). `MoreUnits` and `FewerUnits` turn this into a statement about the
sums. The set of flows need not be finite: `FiniteSums`, an invariant, says that
finitely many packets are summed. `DrainConserves` carries the ledger's own
invariant, stored and reported are at most handled, to the code's model.

**FlowSnapshotProofs.** `SnapshotTypeCorrect`, `DumpsAreComplete`. `SInv` says that the
walk's key is in the map or is the zero key it starts from (`WalkPlace`), that no
counter is ever kept under the zero key (`ZeroUnused`), that a settled flow stays
so, and that each flow settled at the start has its row or lies ahead of the walk
(`WalkAhead`). The last is inductive because a settled flow is never relinked, and a
flow that is moved takes the walk back, never past another one. `ZeroUnused`
rests on the assumption `ZeroKeyOK`: the key has a protocol byte, which is 6 in
every key the program files, so a walk that starts after an all-zero key starts
at the first one.

**FlowBatchProofs.** `BatchTypeCorrect`, `HeldKeys`, `RowsAreUnique`,
`BatchesAreComplete`. `BInv` has the two halves of the walk: what it has passed it
does not meet again (`WalkOnce`), and what was there at the start is passed or ahead
(`WalkAhead`). `WalkOnce` needs a bound by bucket: a flow that was logged and deleted
may be linked again, in front of its bucket, and is not met again because
that bucket is not beyond the walk's. Both halves hold while `moved` is false;
`HeldKeysLinked` holds always, since nobody else deletes.

**L7LoaderProofs.** `Steers`: `NeverMissteered` for any interface indexes, frames and
number of loads. A map holds at each place nothing or what belongs there
(`MapsRight`), because every command of the scripts puts the right thing
(`ScriptsRight`, by the concatenation of the scripts' parts); so a role the
program has read is unknown or right (`RolesRight`), a port that equals it
is that role's, and the slot chosen fits the port of ingress (`SlotChosen`)
whatever is filled in afterwards. `RunsOneProgram`: `OneProgram` under the same
generality, detaches that fail and pins that stay included, by what a script's
place says of each port (`PortProgress`): between its last detach and its attach it
runs nothing or was left behind (`kept`), after it what is pinned; an attach meets
no program, so that ports not left behind agree (`Agree`), and a loader that gets
to its end has attached them all. The commands' places are read off the scripts
once (`LoadTable`, `CommandAt`). `ReadyFollowsPolicy`: `Filled` says which places of
the maps are written at each line of the loader, hence that all are in a load it
said SUCCESS of (`Full`), which no later script undoes; `ReadyInv`
follows a frame that arrives in one through the program: the roles it has read
are known, not just right, and what it drops has no slot.
`RouterTypeCorrect` is part of the same invariant.

**DpiProofs.** `RepliesFit`, `RepliesToWhole`, `PassesUntouched`, `ForwardsAlike`,
`TtlChecksumKept`, `NamesHost`, `DpiTypeCorrect`, for every set of frames, every length of the
response and every modulus of the sequence numbers. The reply is written as a
closed function of the request, section by section (`Resized` to `Reply`), and the
invariant says which of them the frame is at each `pc` (`Crafted`), what the checks
before the resize still mean after it (`Parsed`), and how runs end (`Answered`,
`Forwarding`). Two consequences a reader of the code would argue about: the
second test of `ihl`, which would pass a resized frame up, never fails; and the
test of the room after the resize implies that the request's data was in the
frame, which nothing before it tests. The arithmetic is in two lemmas:
`FoldedIsValid` (two folds suffice for a header) and `UpdatedIsAsValid` (the
update of one word preserves the residue mod 65535 for all values). `NamesHost`, for
texts of any length and any bounds: `Scanned` says of each section of the scan
what it has established, that no earlier `Host:` was passed over, that only spaces
were skipped (`ValueAfter`) and that the name is what was copied so far (`Copied`).

**MapCountersProofs.** All six properties of the run
`counters`, for any CPUs, keys and elements. `Base` has the types, what each CPU
knows at each step (`Progress`) and that every element has one place (`Places`):
without the last, an insertion could reset a count in use. On it rest five
invariants: `Counts`, a shared count and what any CPU is about to store are at
most the packets handled; `Slots`, each CPU's slot is its own count, because a
CPU that finds the key linked by another has not counted it before; `Serial`,
with one CPU at a time on a key, what it loaded is what is in the memory;
`Parity`, half of the packets dropped, but for the one whose test is due; and
`Racing`, of the keys that are counted by several CPUs: what a CPU is about to
write, be it one more than it loaded or a 1 for a key it has not found, falls
short of the packets handled by no more than those it raced with, and what it
writes into an element that was replaced was raced itself.

**LoaderProofs.** `LinkStays`, `LosesToAnother`, `FilterIsSettled`,
`EventsAreWhole` and `LoadersTypeCorrect`, for any number of processes and CPUs, any
mix of kinds and any ring. `LInv` says that the owner of the interface has
attached, and lives between its attach and its detach if a link holds its program
(without a link a program outlives its process, after an error, a signal or a
detach that failed); that a loader with a link in between is the owner; and
that one without, which is not the owner, has lost it to another without. It is inductive
because the scripts attach once, before they detach (`Scripts`). `RInv` adds that a submitted record has its
ports (`Filled`), which `EventsWhole` needs to survive a submit.

Only model-checked: the liveness properties, `StopHonoured` of `FlowSnapshot` and of
`RingEvents` and `EventsHeard`, because fairness is `ENABLED` underneath, which this prover does
not handle. The four properties that are violated are shown by counterexample.

## 5. Findings

1. `xdp_program.c:79` - packets of a flow that arrive together first are lost,
   against "updates a BPF hash map for every TCP packet" (`explanation.md:15`).
   Run `first_packet`. `BPF_NOEXIST` and a second lookup would count them.
2. `read_and_delete_file.c:50` - "Press Ctrl+C to terminate cleanly" (147) is not
   honoured under steady traffic. Run `drain_stop`.
3. `xdp_l7_router.c:153` with the loader's order - frames redirected with zero
   MAC addresses, for a moment or, if the loader fails there, for good. Run
   `router_window`. Filling the maps before attaching would close it.
4. `load_xdp_l7_router.sh:51` - a stray `d` ends the script before it does
   anything.
5. `http_response_craft.c:555` - with `HTTP_RESP` as it is, 131 bytes, the TCP
   segment has 151, `bpf_csum_diff` takes sizes that are multiples of 4 only, and
   every request that meets the conditions is dropped, against "Modify packet ->
   XDP_TX" (`pkt_crafting/explanation.md:1431`). Run `http_unanswered`. One more byte in
   the response, or padding for the checksum, would send it.
6. `host_name_ins.c:81` - a TCP packet with a cut or malformed TCP header is
   dropped on any port and in both directions, later fragments among them,
   against "without altering the forwarding behavior" (`http_hostna_dpi/explanation.md:1195`).
   `ForwardingKept` states the difference as `Malformed`.
7. `ttl_ins.c:115` - packets that are not TCP are redirected; the diagram of
   `ttl_ins.md` lets them pass.
8. `unload_xdp_l7_router.sh:10-17` - "[+] XDP state removed." (19) is printed, and 0
   returned, also when a detach or the removal of the pins has failed: each ends in
   `2>/dev/null || true` (`DetachFails`, `Unpin`). The loader's cleanup has the same commands
   (91-97); there the next command that meets what is left fails, but only after
   the new load was attached to the ports before it.
9. `map_in_map_user.c:280`, `hash_map_in_map_user.c:296` - "Detached" (290, 308) is
   printed whatever `bpf_xdp_detach` returned (`DetachFails`).
10. `maps_FA/maps/hash_map.c:60` - a missing semicolon: the file does not compile.

## 6. Not modelled, and what is left

* The redirect programs other than `redirect_bidir.c`: one lookup in a fixed
  table and one return; the table would be both the model and the property.
* The queue, which is pushed to and never popped; the membership test of the
  Bloom filter programs; `bloom_filter_user.c`, which attaches nothing.
* Races that are modelled but of which the repository promises nothing, so that no
  property speaks of them: `ihl` below 5 (`xdp_program.c:56`), the parity of packets that
  overlap (`map_array.c:24`), frames before the inner map (`map_in_map_user.c:112`), programs
  left by errors, early signals and failed detaches (`map_in_map_user.c:171`, `280`,
  `ringbuf_user.c:179`), and addresses the Bloom filter was not given
  (`loader.c:97`). "hazards" lists them with a note.
* What programs print, such as `xdp_counter.c`'s count of one too many (82).
* `packet_parsing/`, `hello_xdp/` and the environment scripts keep no state. The
  threads of `os/` share nothing they write; that the row partition of
  `multithreaded-bk.c` leaves four rows out is arithmetic on two constants.

Left to prove: of liveness, what it rests on that is not temporal, such as that a
CPU inside the program, or a process at a system call, always has a step.
