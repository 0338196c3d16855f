# A TLA+ verification of xsk-rs

xsk-rs is a Rust interface to Linux AF_XDP sockets. A *UMEM* is one memory
region divided into frames; a *socket* is bound to a network interface and queue
and moves frames between userspace and the kernel over four single-producer,
single-consumer rings. The library is a thin, unsafe layer over libxdp: its
difficulty is not in what it computes but in what is shared with whom, and when.

This directory holds the TLA+ modules that model it, the TLC runs that check them
on small instances, and TLAPS proofs that carry every safety property over to all
sizes: of rings, batches, frames, and numbers of sockets and packets.
`PROJECT.json` lists runs, mutants, findings, hazards and theorems, and maps every
definition to source lines.

## 1. Inventory

| Component | State it keeps | Operations | Interacts with |
|---|---|---|---|
| `FillQueue` (`umem/fill_queue.rs`) | `XskRingProd`: cached indices, pointers into the shared ring; a `Umem` | `produce`, `produce_one`, `.._and_wakeup`, `wakeup`, `needs_wakeup` | kernel through the fill ring; `Fd::poll_read` for wakeups |
| `TxQueue` (`socket/tx_queue.rs`) | `XskRingProd`, a `Socket` | the same, and `poll` | kernel through the tx ring; `sendto` for wakeups |
| `CompQueue` (`umem/comp_queue.rs`) | `XskRingCons`, a `Umem` | `consume`, `consume_one` | kernel through the completion ring |
| `RxQueue` (`socket/rx_queue.rs`) | `XskRingCons`, a `Socket` | `consume`, `consume_one`, `poll_and_..`, `poll` | kernel through the rx ring, `Fd::poll_read` |
| `Fd` (`socket/fd.rs`) | descriptor, two pollfds | `poll_read`, `poll_write`, `xdp_statistics` | kernel |
| `UmemConfig`, builder (`config/umem.rs`, `config/mod.rs`) | sizes, headroom | setters, `build`, `mtu` | `Umem::new` |
| `UmemRegion`, frames, `Cursor` (`umem/mem`, `umem/frame`) | the region; lengths in each `FrameDesc` | segment accessors, `write`, `set_pos`, `zero_out`, `contents_mut` | the kernel writes the same memory |
| `Umem` (`umem/mod.rs`) | Arc of the C umem and the *saved rings*; Arc of the region | `new`, `clone`, `drop` | held by sockets, fill and completion queues |
| `Socket` (`socket/mod.rs`) | Arc of the C socket and a `Umem` | `new`, `clone`, `drop` | held by tx and rx queues |
| `SocketConfig`, `Interface`, error types | flags and names | constructors | passed to libxdp |
| `dev1_to_dev2` (`examples/dev1_to_dev2.rs`) | two vectors of descriptors, three totals, `SENDER_DONE`, a channel | a sending and a receiving loop, in one thread or in two | all four queues of two sockets |
| Veth session (`examples/setup/veth_setup.rs`, every example's `main`) | the link, a runtime, a channel for completion, one for ctrl+c | build the pair, run the example, take it down, wait | netlink; runs the example |
| `hello_xdp`, `shared_umem`, tests, bench | - | - | clients |

What is hard here:

* **Concurrency with the kernel.** Userspace and kernel run at the same time on
  one ring, each with stale copies of the other's index. Queue methods take
  `&mut self`, so per ring there is one userspace call at a time.
* **Free-running u32 indices.** They wrap; only `idx & mask` selects a slot, and
  Rust's `+` panics or wraps depending on the build.
* **Wakeups.** The kernel may go to sleep between any two steps; the flag is
  checked once per call and several errors are swallowed.
* **Results.** A count, or an error that comes after the batch was published.
* **Lifetimes.** Five kinds of owner drop two Arcs each, in any order; the C
  library keeps pointers Rust knows nothing about.
* **Client loops.** The library cannot check that a frame is in one place at a
  time; the loops must, while completions come in any batches, packets are
  dropped, calls are refused and threads die.
* **Raw pointers.** All segments are slices made by address arithmetic.

## 2. Modules

| Module | What it is |
|---|---|
| `RingIndex` | u32 index arithmetic; the assumption `QueueSize::new` establishes |
| `RingFifo` | abstract specification: what a ring promises |
| `ProdQueue` | `FillQueue` and `TxQueue` with their ring and the kernel's end of it |
| `ProdQueueFifo` | refinement mapping `ProdQueue` => `RingFifo` |
| `ConsQueue` | `CompQueue` and `RxQueue` with their ring and the kernel's end of it |
| `ConsQueueFifo` | refinement mapping `ConsQueue` => `RingFifo` |
| `UmemLayout` | configuration, frame addresses, segments and cursors over one flat memory |
| `Lifecycle` | `Umem::new`, `Socket::new`, sharing and every order of drops |
| `ForwardLoops` | the two loops of `dev1_to_dev2`, both variants, as clients of four rings, with the kernel between the devices |
| `VethSession` | the veth pair and `main` around an example |
| `Dev1ToDev2` | composition: `ForwardLoops` runs as the closure of `VethSession` |
| `RingIndexTheorems` | lemmas on index arithmetic and on stretches of a ring |
| `ProdQueueProofs`, `ConsQueueProofs` | proofs: invariants of the queues |
| `ProdQueueFifoProofs`, `ConsQueueFifoProofs` | proofs: the queues implement `RingFifo` |
| `LifecycleProofs`, `UmemLayoutProofs`, `Dev1ToDev2Proofs` | proofs: invariants and action properties of the other components |
| `MCProdQueue`, `MCConsQueue`, `MCUmemLayout`, `MCLifecycle`, `MCDev1ToDev2` | constants for TLC |

### ProdQueue and ConsQueue

The two producing queues run the same code on different entries, and so do the
two consuming ones; `Kind` selects the entry and the few places where the code
differs (the fill queue wakes the kernel only if `cnt > 0`; the errnos tolerated;
only the rx queue polls).

`producer`, `consumer`, `slots` and `need_wakeup` are the shared ring;
`cached_prod` and `cached_cons` libxdp's copies in `XskRingProd` / `XskRingCons`;
`pc`, `call`, `cnt`, `idx`, `written` / `nread` the locals of the call in
progress; `ret` the last result; `kcons` / `kprod` the kernel's private index.
A call is the sequence

    ProdQueue:  Produce.. -> Reserve -> WriteEntry* -> Submit -> CheckWakeup -> Wake..
    ConsQueue:  Consume.. [-> Poll..] -> Peek -> ReadEntry* -> Release

each arrow an interleaving point, with the early returns `ReturnEmpty`, a refused
`Reserve`, an empty `Peek`, and the outcomes of `poll` and `sendto`. Peek and
reserve are one step: they read one shared index, once. A panic (`OverflowChecks`)
leaves `pc = "panicked"`. Mutation by mistake is documented next to each operator
it replaces (comments that begin with "Mutant").

External, and modelled from how the code uses it: libxdp's reserve, submit, peek
and release; the kernel, which takes entries and gives slots back in batches, or
writes and publishes entries in batches, and may raise the need-wakeup flag at
any time. The rings are assumed sequentially consistent: libxdp's acquire and
release accesses are what makes the two-index protocol so.

`RingFifo` says what either ring is: `offer`, `queue` and `out`, together bounded
by the capacity. The mapping reads `queue` and `out` from the *slots*, so an entry
overwritten early would show as an entry that changes.

### UmemLayout

`Build` is `ConfigBuilder::build` with its u32 sum, `NewUmem` the addresses of
`Umem::new`; then any sequence of cursor operations, in-place changes, receptions
and completions. `memory` is the flat region, written through the pointers the
code computes; `expected` holds each segment as a buffer of its own. That the two
agree is the isolation of segments.

### Lifecycle

A clone of the `Umem` is a pair of Arcs released in two steps, `inner` first; the
last owner of `inner` runs the drop glue of `UmemInner` (delete the C umem, then
free the saved rings). `Socket::new` is split at the C call, which runs under the
Umem's lock together with the `take` of the saved rings. Drops interleave freely.
A call that reports success with a null socket pointer is a failed one, whatever it
did to the C umem (`CreateReturnsNull`).
From libxdp: the C umem forgets its ring pointers only when a creation succeeds,
`xsk_umem__delete` refuses while sockets exist, and a pair's rings are unmapped
with its last socket.

### ForwardLoops, VethSession, Dev1ToDev2

`ForwardLoops` has one action per step of a loop at which something else can
happen; `pc["tx"]` and `pc["rx"]` say where each loop is:

    receiver:  start -> [signal] -> ([kick] -> poll -> refill | [check])*
    sender:    start -> [wait] -> (comp -> idle | write -> ready -> submit)* -> [finish]

Steps in brackets belong to one variant. Single-threaded, at most one of the two
is not `off`, and `SingleOuter` and `SingleInner` are the tests of the two nested
`while`s; multithreaded, the loops interleave freely, and `begin_send` and
`sender_done` are the channel and `SENDER_DONE`. `descs` is the pair of descriptor
vectors, of which each call overwrites a prefix; the single thread receives into
the sender's vector, as the code does. A refused batch, a poll that times out or
is interrupted and a wakeup without effect are steps of their own; a system call
that fails is a panic (`CallFails`, `WakeupFails`), which ends a thread or, when
there is only one, both loops.

The rings are what `RingFifo` and the theorems of section 5 promise: entries in
order, a batch accepted whole or not at all, an empty result only from an empty
ring. That `produce` may see fewer free slots than there are, because the kernel
gives slots back late, is a refusal that may come at any time (on the fill ring it
has no effect at all, on the tx ring it wakes the kernel all the same). Of a packet only
its number is kept: `frame_data` is the number written last to each frame of
device 1, `wire` how many packets are under way. Descriptors of device 2 carry
numbers of their own, so that the model can tell a descriptor that strayed.

The tx socket is writable (`TxReady`) as soon as the ring has room; the kernel says so
only when it is at most half full. The model thus lets the sender go on in more
states, and in particular in those in which the kernel would.

`VethSession` takes every netlink request as a step that may fail; `told` says
that the user was told how to delete the link. One panic gives no such advice, that
of `get_link_index` when the kernel knows no link of that name
(`veth_setup.rs:142`); there the model assumes that the pair, which was just created
under that name, is indeed gone, and `LinkCleanedUp` rests on it. `Dev1ToDev2` builds the sockets,
runs the loops and, when both have ended, drops sockets, umems and locals.

## 3. Runs

| Run | Bounds | Shows |
|---|---|---|
| `fill_queue` | indices mod 4, 2 slots, 2 frames, batches <= 3 | safety, FIFO refinement and wakeup liveness of `FillQueue`; a batch of 3 never fits |
| `tx_queue` | the same | the same for `TxQueue`, with a length the u32 cast truncates |
| `checked_build_panics` | mod 8, 4 slots, batches <= 4, overflow checks | **violated**: finding 1 |
| `comp_queue` | mod 8, 4 slots, 2 packets, slices <= 3 | safety and FIFO refinement of `CompQueue`; descriptors are completely reset |
| `rx_queue` | mod 4, 2 slots, 2 packets, slices <= 3 | the same for `RxQueue`, exactness of "empty", every packet is consumed |
| `umem_layout` | 4-bit u32, frames of 3 or 4 bytes, XDP headroom 1, every headroom, 2 frames, overflow checks | isolation, lengths, layout; a sum that does not fit panics |
| `umem_headroom_wraps` | the same, 1 frame, no overflow checks | **violated**: finding 2 |
| `lifecycle` | 2 calls to `Socket::new`, 2 pairs | ownership, drop order, no leak |
| `lifecycle_saved_rings`, `lifecycle_orphan_queues` | the same | **violated**: findings 3 and 4 |
| `dev1_to_dev2` | rings of 2, 4 frames per device, 3 packets, batches of 1, 2 and 3, both variants | the README's rules on frames, order of packets, totals, no loss in one thread, cleanup of the link, termination |
| `dev1_to_dev2_frames` | the same | **violated**: finding 5 |

The bounds are small but leave in what matters: the index space is at least twice
the ring, so the counters wrap and lap the slots; batches exceed the ring, so both
refusal and partial peeks happen; two distinct entries expose reordering and
duplication. Two frames suffice for overlap, which is between neighbours. Two
calls suffice for sharing, since all that a third could add is a third holder of
the same kind. The proofs of section 5 remove these bounds for every safety
property; liveness is known for the instances only.
Three packets through rings of two go round every ring, make the last batch a
short one and overrun a receiver that is too slow; batches of 1, 2 and 3 are
smaller than, equal to and larger than a ring.

The properties of `dev1_to_dev2`: `FrameRuleKept` and `NoForeignDescs` are the two
rules of the crate's README (the first without the receiver of the single-threaded
variant, which breaks it); `WritesOwnFrames` extends the first to memory;
`InOrder` and `TotalsMatchRings` say that the loops neither repeat nor lose track
of a frame, so that neither waits for what is nowhere; `WaitsForReceiver` is what the
channel between the threads is for (the first batch is already in the tx ring when
the sender begins to wait, so it is not about that batch: a kernel that needs no
waking may send it early); `SingleNeverLoses` is what
the single thread's inner loop relies on; `LinkCleanedUp` and `Terminates` are
about the process. `Terminates` has one exception, which is what the code does: a
sending thread that panics leaves its receiver polling for a `SENDER_DONE` that
never comes. `SingleNeverLoses` and `Terminates` are for batches that fit every
ring.

Deadlock checking is off where the system may stop: after a panic, and when every
owner has been dropped.

### Fairness

* `WF(UserStep)`: a call that has begun runs on.
* `SF(RetryWakeup)`, `SF(ClientAsks)`: clients come back. The examples do so in
  every loop (`examples/dev1_to_dev2.rs:216-219`, `232-236`, `275-278`, `423-427`).
* `SF(WakeSucceeds)`, `SF(PollReady)`: a system call retried for ever does not
  fail for ever.
* `SF(KTake)`, `WF(KRelease)`: a kernel that is awake again and again with work to
  do does some. `SF`, because the kernel may go to sleep in between.
* `Dev1ToDev2`: threads and drop glue run on (`WF`); a wakeup repeated for ever
  wakes the kernel in the end (`SF(Wakes)`); and packets that are there are
  received, batches that fit are accepted, an awake kernel sends, completes and
  delivers (`SF(Moves)`, on the disjunction: each of these steps can happen only a
  bounded number of times). Neither a loss nor a ctrl+c is ever forced.
* In the queues' runs nothing is assumed of packet arrival, and nowhere that a
  client ever drops anything; in `Lifecycle` only drop glue that has begun is fair.

The wakeup runs are about kernels that raise the flag when they stop, that is,
about sockets bound with `XDP_USE_NEED_WAKEUP`; that flag is not among the default
bind flags (`config/socket.rs`), and without it the kernel needs no waking for
the fill ring.

## 4. Findings

1. `checked_build_panics`: `idx += 1` (`fill_queue.rs:68`, `tx_queue.rs:68`) is a
   checked addition in dev builds and overflows after the entry with index
   u32::MAX, once every 2^32 entries. The panic comes between reserve and submit;
   in `rx_queue.rs:66` and `comp_queue.rs:65`, between peek and release. What the
   kernel sees stays safe even then: the theorems `SafeWrites` and `SafeReads`
   do not assume a build.
2. `umem_headroom_wraps`: the sum of headrooms in `config/umem.rs:59` wraps in
   release builds and passes the check it should fail.
3. `lifecycle_saved_rings`: a failed `Socket::new` frees the rings the C umem
   still points to (`socket/mod.rs:130-155`).
4. `lifecycle_orphan_queues`: fill and completion queues keep the `Umem` alive but
   not a socket of their pair (`socket/mod.rs:207-208`), against the changelog.
5. `dev1_to_dev2_frames`: the single-threaded example receives into `tx_descs`
   (`dev1_to_dev2.rs:225`) and refills from `rx_descs[..n]` (line 247), the same
   first frames every time. From the second packet on a frame is on the fill ring
   twice, against the first rule of the README. The sender is not affected:
   `NoForeignDescs` and `WritesOwnFrames` hold in both variants.

Beside these, one observation about the same lines: `tx_descs` of device 1 is passed
to device 2's `poll_and_consume` (`dev1_to_dev2.rs:225`), and then, with device 2's
descriptors in it, to device 1's `consume` (line 271). The Safety sections of
`rx_queue.rs:36-37` and `comp_queue.rs:38-39` ask that "the frames passed to this queue
must belong to the same" umem, so literally both calls are outside the contract.
`consume` only overwrites descriptors (`ResultIsHonest` says with what, and that the
others are left alone), and `NoForeignDescs` shows that none that strayed is used.

## 5. Proofs

Every safety property of a passing run, invariant or action property, and both
refinements are theorems, proved with TLAPS for every value of the constants that
meets the assumptions named in the modules: sizes are positive, and a ring's size
divides the range of its indices and is smaller (`RingAssumption`, what a power of
two below 2^32 gives); entries have the fields the code gives them
(`ProdAssumption`, `ConsAssumption`); a chunk is larger than the XDP headroom and
configured values are u32s (`LayoutAssumption`); ring sizes, batches and the number
of packets are positive (`OptionsAssumption`). Hardly any of the properties is
inductive as it stands. Each `IndInv` was first checked by TLC on the instances of section 3,
that of `Lifecycle` also for three calls (not to the end), that of `Dev1ToDev2` also
for rings of four different sizes.

### The queues: ProdQueueProofs, ConsQueueProofs

For every `Size` and `Modulus` with `Size < Modulus` and `Modulus % Size = 0`, every
batch length and every set of frames or packets, both kinds of queue, both kinds
of build unless stated:

* `RingIndexTheorems`: wrapping addition and subtraction as case distinctions;
  distances add up (`DistancesAdd`); a ring lap does not change the slot
  (`SlotIgnoresWrap`, which needs `Modulus % Size = 0`); indices less than `Size`
  apart select different slots (`WindowSlotsDiffer`); how the contents of a stretch
  of the ring change when it grows at one end, shrinks at the other or is cut.
* `ProdQueueProofs`: `TypeCorrect`, `SafeWrites`, `NothingStranded` (builds without
  overflow checks), `ExactRefusal`, `HonestResults`.
* `ConsQueueProofs`: `TypeCorrect`, `SafeReads`, `NothingHeldBack` (likewise),
  `ExactEmptiness`, `HonestResults`.

Nothing in "the slot being written is free" says that the cached indices were
honest when the slots were reserved. The inductive invariant `IndInv` adds to the
type invariant

* `RingInv`: going round the ring, the stretches between the indices are in order
  and add up to at most `Size` (producing side: entries the kernel holds, entries
  reserved, entries the cache still shows as free; consuming side: peeked, shown
  by the cache, published since, written and unpublished);
* `CallInv`: where the call is determines what is reserved or peeked and what
  `idx` is.

Each action's step is a lemma; refreshing a cached index moves a boundary between
two stretches and never changes their sum. `HonestResults` adds `AccountInv`, the
progress of the call relative to where the ring stood when it began; on the consuming
side it includes that what is copied agrees, field by field, with the slots it was
copied from, which the kernel does not touch meanwhile (`PeekedSlotsAreKept`).

### The refinements: ProdQueueFifoProofs, ConsQueueFifoProofs

`RefinesFifo`, `Spec => IsFifo`: initial states map to initial states, and every step
maps to a step of `RingFifo` or to none. `RingInv` says which slots the mapped
sequences read. The producing side needs one more invariant, about contents: the
slots written so far hold the entries of the batch (`WrittenInv`). The consuming side
needs none, since `out` is read from the caller's descriptors. Lemmas on stretches of
a ring (`RingIndexTheorems`) lie between index arithmetic and contents. A batch that
a panic cut short stays offered for ever, so no build has to be assumed.

### LifecycleProofs

For any set of calls to `Socket::new` and of (interface, queue id)
pairs, all drops interleaved at will: `TypeCorrect`, `RegionOutlivesUsersHolds`,
`UmemNeverBusyHolds`, `QueuesKeepUmemAliveHolds`, `SavedRingsSurviveSuccessHolds`. The
properties speak of C objects and memory; what keeps them in step is who holds
which Arc. `IndInv` adds `CallInv` (each clone of the `Umem` belongs to a socket or
queue that exists, as far as its call has come), `ArcInv` (while somebody holds
`inner` the C umem is there, at most one owner runs the drop glue and it is the
last, and the region is mapped while anybody has not let go of it) and `SavedInv`.

### UmemLayoutProofs

For every frame size, headroom, number of frames and width of the configuration
arithmetic: `LengthsAlwaysFit` and `SegmentsStayIsolated`, which are
inductive together with the shape of the state. The proof's core is that different
bytes of segments have different addresses (`f * frame_size` plus an offset below
`frame_size`), for the sizes `FrameLayout` computes, also where the u32 sum wrapped.
That `build` refuses too large a headroom (`ExcessHeadroomRejected`) and that library
and kernel agree on the frame size (`LayoutIsConfigured`) need a proviso,
`NoHiddenWrap`: overflow is checked, or no headroom in use makes the sum overflow.
Finding 2 is what happens without it.

### Dev1ToDev2Proofs

For rings of any four sizes, batches of any size, any number of packets and both
variants, with failing calls, lost packets and netlink errors wherever the model
has them: `TypeCorrect`, `FrameRuleHolds`, `DescsStayHome`, `PacketsInOrder`,
`TotalsAreRight`, `OnlyOwnFramesWritten`, `NothingLost`, `SenderWaits`,
`LinkIsCleanedUp`.

The frames of a device go round: ring, kernel, ring, the first places of a vector,
ring. `IndInv` says that whatever is in the rings, in the kernel's hands and in those
first places is different (`FrameInv`), how many places count depending on where the
loop is; and that

* the packets in the tx ring and then those written are newer and newer, and newer
  than the last one sent (`DataInv`);
* the totals add up to what is in the rings, including what is held (`TotalsInv`);
* in the single thread at most one batch is under way, and none while it sends
  (`SingleInv`): that is why its inner loop ends, and what `NothingLost` rests on;
* loops, vectors and rings are untouched before they start (`StartInv`), and the
  single thread is in one loop (`PcInv`): that is why it may receive into the
  sender's vector, nothing of which counts then;
* the closure ends once, and from the moment the link exists somebody will take
  it down or has told the user (`SessionInv`).

There are general lemmas for what can happen to frames in circulation (`Take`,
`PutBack`, `GoesOut`, `ComesBack`) and to packets in order (`NewerPutBack`,
`NewerGoesOut`, `NewerWrite`), one lemma for all steps that move neither (`Quiet`),
and one lemma per action. `SenderWaits` has a small invariant of its own, `GoAheadInv`:
a go-ahead, sent or received, comes from a receiver that has filled its ring.

### Only model-checked

Liveness, since fairness and ENABLED are outside the prover's reach:
`PublishedComesBack`, `PublishedIsConsumed`, `EverythingIsReclaimed`, `Terminates`; and
the five violations, which are counterexamples and need no proof.

## 6. Not modelled

* Socket flags, interface names, error texts and `xdp_statistics`: no state and no
  control flow of their own; they are handed to libxdp or to the caller unchanged.
* Weak memory; the insides of libxdp and the kernel, with them the race of
  `xsk_socket__delete` with other C calls on one umem (`socket/mod.rs:49`), what
  becomes of a ring pointer after `*fq` has moved the struct (`socket/mod.rs:207`),
  and addresses changed by an XDP program (`umem/mem/mod.rs:156`).
* Huge pages.
* Of `dev1_to_dev2`: packets from elsewhere that reach device 2, a payload larger
  than a frame, a batch size of zero (both loops then wait for ever), different
  sizes for the two devices, and the statistics printed at the end. A packet that
  finds the fill ring asleep waits on the wire; one that finds it empty, or the rx
  ring full, may be lost.
* `hello_xdp` and `shared_umem` send one packet in a straight line: the calls they
  make are in `ProdQueue`, `ConsQueue` and `Lifecycle`, their `main` in
  `VethSession`. The test and benchmark harness is not part of the system.

## 7. Plan

Done: the ring protocol, both queue kinds and their refinement, layout, lifecycle,
the client loops and their session, all model-checked; every safety property and
both refinements proved. What is left:

1. Facts about parts the runs do not ask for yet but the proofs could state, such
   as what the single thread's fill ring holds in spite of finding 5.
2. Shorter proofs where an action's lemma repeats what another's says.
