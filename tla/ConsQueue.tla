------------------------------ MODULE ConsQueue ------------------------------
(***************************************************************************)
(* A queue through which the kernel hands frames to userspace: CompQueue   *)
(* (src/umem/comp_queue.rs) or RxQueue (src/socket/rx_queue.rs), together  *)
(* with the libxdp ring it drives and the kernel at the ring's other end.  *)
(*                                                                         *)
(* A call peeks at what the kernel has published, copies entry after entry *)
(* into the caller's slice of descriptors and then releases the slots; the *)
(* kernel goes on writing and publishing in between.  Only RxQueue has the *)
(* methods that poll the socket first.                                     *)
(***************************************************************************)
EXTENDS RingIndex, Sequences

CONSTANTS
  Kind,            \* "comp" or "rx"
  Packets,         \* the entries the kernel may hand over: addr, len, options
  MaxBatch,        \* bound: longest slice of descriptors passed to a call
  OverflowChecks   \* TRUE in builds where `idx += 1` panics on overflow

ASSUME ConsAssumption ==
  /\ Kind \in {"comp", "rx"}
  /\ \A p \in Packets :
       p.addr \in Nat /\ p.len \in 0 .. (Modulus - 1) /\ p.options \in Nat
  /\ MaxBatch \in Nat
  /\ OverflowChecks \in BOOLEAN

VARIABLES
  \* shared with the kernel through the mmapped ring
  producer, consumer, slots,
  \* userspace: the cached counters of XskRingCons
  cached_prod, cached_cons,
  \* userspace: the call in progress, the caller's slice, the last result
  pc, call, cnt, idx, nread, descs, ret,
  \* kernel: its own count of the entries it has written
  kprod

ringVars == <<producer, consumer, slots>>
cacheVars == <<cached_prod, cached_cons>>
localVars == <<call, cnt, idx, nread>>
callVars == <<pc, localVars, descs, ret>>
vars == <<ringVars, cacheVars, callVars, kprod>>

-----------------------------------------------------------------------------
(* Entries and descriptors *)

\* An rx slot holds an xdp_desc, a completion slot a bare address.
KernelEntry(p) ==
  IF Kind = "rx"
    THEN [addr |-> p.addr, len |-> p.len, options |-> p.options]
    ELSE [addr |-> p.addr]

BlankEntry ==
  IF Kind = "rx" THEN [addr |-> 0, len |-> 0, options |-> 0] ELSE [addr |-> 0]

RingEntries == {KernelEntry(p) : p \in Packets} \cup {BlankEntry}

\* What the caller's slice holds before a call: descriptors of earlier use,
\* headroom and all.
StaleDesc == [addr |-> 0, data |-> 1, headroom |-> 1, options |-> 1]

\* Mutants: a field of the earlier use is not reset.
RxDescKeepsHeadroom(e) ==
  [addr |-> e.addr, data |-> e.len, headroom |-> StaleDesc.headroom, options |-> e.options]
CompDescKeepsOptions(e) ==
  [addr |-> e.addr, data |-> 0, headroom |-> 0, options |-> StaleDesc.options]

\* RxQueue::consume fills a FrameDesc from the xdp_desc ...
RxDesc(e) ==
  [addr |-> e.addr, data |-> e.len, headroom |-> 0, options |-> e.options]

\* ... and CompQueue::consume resets everything but the address.
CompDesc(e) == [addr |-> e.addr, data |-> 0, headroom |-> 0, options |-> 0]

ToDesc(e) == IF Kind = "rx" THEN RxDesc(e) ELSE CompDesc(e)

-----------------------------------------------------------------------------
(* Calls *)

NoCall == [nb |-> 0, one |-> FALSE, start |-> 0]

Ok(n) == [ok |-> TRUE, cnt |-> n]
Err == [ok |-> FALSE, cnt |-> 0]

Init ==
  /\ producer = 0 /\ consumer = 0 /\ kprod = 0
  /\ slots = [s \in SlotId |-> BlankEntry]
  /\ cached_prod = 0 /\ cached_cons = 0
  /\ pc = "idle" /\ call = NoCall /\ cnt = 0 /\ idx = 0 /\ nread = 0
  /\ descs = <<>> /\ ret = Ok(0)

\* Leave the call with result r; its locals are gone, the caller's slice stays.
Return(r) ==
  /\ ret' = r
  /\ pc' = "idle" /\ call' = NoCall /\ cnt' = 0 /\ idx' = 0 /\ nread' = 0

\* A client calls one of the methods with a slice of n descriptors.  `start`
\* only records where the ring stood, for the properties.
Enter(n, isOne, polls) ==
  /\ pc = "idle"
  /\ descs' = [k \in 1 .. n |-> StaleDesc]
  /\ call' = [nb |-> IF isOne THEN 1 ELSE n % Modulus, one |-> isOne, start |-> consumer]
  /\ pc' = IF polls THEN "poll" ELSE "peek"
  /\ UNCHANGED <<ringVars, cacheVars, cnt, idx, nread, ret, kprod>>

Consume == \E n \in 0 .. MaxBatch : Enter(n, FALSE, FALSE)
ConsumeOne == Enter(1, TRUE, FALSE)
PollAndConsume == Kind = "rx" /\ \E n \in 0 .. MaxBatch : Enter(n, FALSE, TRUE)
PollAndConsumeOne == Kind = "rx" /\ Enter(1, TRUE, TRUE)

\* PollFd::poll answers Ok(true): there is an event, not necessarily POLLIN,
\* since the code does not look at revents.
PollReady ==
  /\ pc = "poll"
  /\ pc' = "peek"
  /\ UNCHANGED <<ringVars, cacheVars, localVars, descs, ret, kprod>>

\* Ok(false): the timeout passed with nothing to read ...
PollTimesOut ==
  /\ pc = "poll" /\ producer = consumer
  /\ Return(Ok(0))
  /\ UNCHANGED <<ringVars, cacheVars, descs, kprod>>

\* ... or EINTR cut the wait short.
PollInterrupted ==
  /\ pc = "poll"
  /\ Return(Ok(0))
  /\ UNCHANGED <<ringVars, cacheVars, descs, kprod>>

\* Any other errno is handed to the caller.
PollFails ==
  /\ pc = "poll"
  /\ Return(Err)
  /\ UNCHANGED <<ringVars, cacheVars, descs, kprod>>

\* An empty slice: consume returns before it touches the ring.
ReturnEmpty ==
  /\ pc = "peek" /\ call.nb = 0
  /\ Return(Ok(0))
  /\ UNCHANGED <<ringVars, cacheVars, descs, kprod>>

\* Mutant: the cached producer index is never read again.
NbAvailNeverRefreshed == cached_prod

\* xsk_cons_nb_avail: the cached copy of the kernel's producer index is read
\* again only if it shows nothing left.
NbAvailCache == IF cached_prod = cached_cons THEN producer ELSE cached_prod

\* Mutant: peek grants what is asked for, not what is there.
GrantedAsAsked(cache, nb) == nb

\* The number of entries peek grants: what the cache shows, at most nb.
Granted(cache, nb) ==
  LET avail == WrapSub(cache, cached_cons) IN IF avail < nb THEN avail ELSE nb

\* xsk_ring_cons__peek.
Peek ==
  /\ pc = "peek" /\ call.nb > 0
  /\ cached_prod' = NbAvailCache
  /\ LET n == Granted(cached_prod', call.nb)
     IN IF n > 0
          THEN /\ idx' = cached_cons
               /\ cached_cons' = WrapAdd(cached_cons, n)
               /\ cnt' = n
               /\ pc' = "read"
               /\ UNCHANGED <<call, nread, ret>>
          ELSE /\ Return(Ok(0))
               /\ UNCHANGED cached_cons
  /\ UNCHANGED <<ringVars, descs, kprod>>

\* `idx += 1`, which the `_one` methods do not execute.
Overflows == OverflowChecks /\ ~call.one /\ idx = Modulus - 1

\* Mutant: the loop forgets `idx += 1`.
ReadEntrySameSlot ==
  /\ pc = "read" /\ nread < cnt
  /\ descs' = [descs EXCEPT ![nread + 1] = ToDesc(slots[Slot(idx)])]
  /\ nread' = nread + 1
  /\ UNCHANGED <<ringVars, cacheVars, pc, call, cnt, idx, ret, kprod>>

\* One turn of the loop over descs.iter_mut().take(cnt): copy the entry, then
\* advance idx.  Where the addition is checked, idx = u32::MAX panics here.
ReadEntry ==
  /\ pc = "read" /\ nread < cnt
  /\ descs' = [descs EXCEPT ![nread + 1] = ToDesc(slots[Slot(idx)])]
  /\ nread' = nread + 1
  /\ IF Overflows
       THEN pc' = "panicked" /\ UNCHANGED idx
       ELSE idx' = WrapAdd(idx, 1) /\ UNCHANGED pc
  /\ UNCHANGED <<ringVars, cacheVars, call, cnt, ret, kprod>>

\* Mutant: the entries are copied and counted but never released.
ReleaseForgotten ==
  /\ pc = "read" /\ nread = cnt
  /\ Return(Ok(cnt))
  /\ UNCHANGED <<ringVars, cacheVars, descs, kprod>>

\* Mutant: the consumer index is advanced in a wider type.
ReleaseUnwrapped ==
  /\ pc = "read" /\ nread = cnt
  /\ consumer' = consumer + cnt
  /\ Return(Ok(cnt))
  /\ UNCHANGED <<producer, slots, cacheVars, descs, kprod>>

\* xsk_ring_cons__release: the slots go back to the kernel.
Release ==
  /\ pc = "read" /\ nread = cnt
  /\ consumer' = WrapAdd(consumer, cnt)
  /\ Return(Ok(cnt))
  /\ UNCHANGED <<producer, slots, cacheVars, descs, kprod>>

-----------------------------------------------------------------------------
(* The kernel's end of the ring *)

\* The kernel writes an entry into the next slot userspace has given back.
KWrite ==
  /\ WrapSub(kprod, consumer) < Size
  /\ \E p \in Packets : slots' = [slots EXCEPT ![Slot(kprod)] = KernelEntry(p)]
  /\ kprod' = WrapAdd(kprod, 1)
  /\ UNCHANGED <<producer, consumer, cacheVars, callVars>>

\* It publishes what it has written, in batches.
KSubmit ==
  /\ kprod # producer
  /\ producer' = kprod
  /\ UNCHANGED <<consumer, slots, cacheVars, callVars, kprod>>

-----------------------------------------------------------------------------

UserStep ==
  \/ PollReady \/ PollTimesOut \/ PollInterrupted \/ PollFails
  \/ ReturnEmpty \/ Peek \/ ReadEntry \/ Release

Next ==
  \/ Consume \/ ConsumeOne \/ PollAndConsume \/ PollAndConsumeOne
  \/ UserStep
  \/ KWrite \/ KSubmit

Spec == Init /\ [][Next]_vars

\* The client calls with room for at least one descriptor.
ClientAsks == (Consume \/ PollAndConsume) /\ call'.nb > 0

(***************************************************************************)
(* A call in progress goes on; the client keeps asking, with a non-empty   *)
(* slice; poll on a socket that has data is not interrupted for ever.      *)
(* Nothing is assumed of the kernel.                                       *)
(***************************************************************************)
Fairness ==
  /\ WF_vars(UserStep)
  /\ SF_vars(ClientAsks)
  /\ SF_vars(PollReady /\ call.nb > 0)

FairSpec == Spec /\ Fairness

-----------------------------------------------------------------------------
(* Properties *)

FrameDescs == [addr : Nat, data : Nat, headroom : Nat, options : Nat]

\* Type invariant: counters are u32s, slots hold entries, and the locals of the
\* call stay within the caller's slice.
TypeOK ==
  /\ producer \in Index /\ consumer \in Index /\ kprod \in Index
  /\ cached_prod \in Index /\ cached_cons \in Index
  /\ slots \in [SlotId -> RingEntries]
  /\ pc \in {"idle", "poll", "peek", "read", "panicked"}
  /\ call \in [nb : Index, one : BOOLEAN, start : Index]
  /\ idx \in Index
  /\ cnt \in 0 .. call.nb
  /\ nread \in 0 .. cnt
  /\ descs \in Seq(FrameDescs)
  /\ call.nb <= Len(descs)
  /\ ret \in [ok : BOOLEAN, cnt : Index]

\* The loop of consume reads through the cached counters only, yet never a slot
\* that the kernel has not published or that was already given back.
ReadsOnlyPublished ==
  (pc = "read" /\ nread < cnt) => idx \in Window(consumer, WrapSub(producer, consumer))

\* Outside a call nothing is peeked without being released: consume leaves
\* libxdp's cached_cons and the shared consumer index equal.
PeekedIsReleased ==
  pc # "read" => cached_cons = consumer

\* Peek comes back empty-handed exactly if the kernel has published nothing:
\* the stale producer index can shorten a batch but never hides the first entry.
EmptyMeansEmpty ==
  [][(pc = "peek" /\ pc' # "peek" /\ call.nb > 0)
       => (pc' = "idle" <=> producer = consumer)]_vars

\* Descriptor d is what a client should be told of ring entry e, field by field:
\* a received packet with its length and options, or a free frame.
Describes(d, e) ==
  /\ d.addr = e.addr
  /\ d.data = (IF Kind = "rx" THEN e.len ELSE 0)
  /\ d.headroom = 0
  /\ d.options = (IF Kind = "rx" THEN e.options ELSE 0)

\* What a call did to the caller's slice and to the ring when it returns: Ok(n)
\* means that n slots went back to the kernel and that exactly the first n
\* descriptors were updated, the k-th in every field to the k-th of those slots
\* with nothing left of its earlier use; an error means nothing moved.
ResultIsHonest ==
  [][(pc # "idle" /\ pc' = "idle")
       => /\ WrapSub(consumer', call.start) = ret'.cnt
          /\ \A k \in 1 .. Len(descs') :
               IF k <= ret'.cnt
                 THEN Describes(descs'[k], slots'[Slot(WrapAdd(call.start, k - 1))])
                 ELSE descs'[k] = StaleDesc]_vars

\* Every published entry is eventually handed to the client, although poll may
\* be interrupted or wake up spuriously and each peek may see an old producer.
PublishedIsConsumed ==
  \A x \in Index : (consumer = x /\ producer # x) ~> (consumer # x)

=============================================================================
