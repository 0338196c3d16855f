------------------------------ MODULE ProdQueue ------------------------------
(***************************************************************************)
(* A queue through which userspace hands frames to the kernel: FillQueue   *)
(* (src/umem/fill_queue.rs) or TxQueue (src/socket/tx_queue.rs), together  *)
(* with the libxdp ring it drives and the kernel at the ring's other end.  *)
(*                                                                         *)
(* The two queues run the same code on different entries: a fill entry is  *)
(* a bare address, a tx entry an xdp_desc.  They differ in one guard: the  *)
(* fill queue wakes the kernel only if it handed something over, the tx    *)
(* queue whenever the kernel asks for it.                                  *)
(*                                                                         *)
(* The steps of a call interleave with the kernel's steps: every read or   *)
(* write of memory shared with the kernel is a step of its own.  The queue *)
(* methods take &mut self, so one call runs at a time.                     *)
(***************************************************************************)
EXTENDS RingIndex, Sequences

CONSTANTS
  Kind,            \* "fill" or "tx"
  Descs,           \* the FrameDescs a client may pass
  MaxBatch,        \* bound: longest slice of descriptors passed to a call
  OverflowChecks   \* TRUE in builds where `idx += 1` panics on overflow

ASSUME ProdAssumption ==
  /\ Kind \in {"fill", "tx"}
  /\ \A d \in Descs : d.addr \in Nat /\ d.len \in Nat /\ d.options \in Nat
  /\ MaxBatch \in Nat
  /\ OverflowChecks \in BOOLEAN

VARIABLES
  \* shared with the kernel through the mmapped ring
  producer, consumer, slots, need_wakeup,
  \* userspace: the cached counters of XskRingProd
  cached_prod, cached_cons,
  \* userspace: the call in progress, and the result of the last one
  pc, call, cnt, idx, written, ret,
  \* kernel: its own count of the entries it has taken
  kcons

ringVars == <<producer, consumer, slots, need_wakeup>>
cacheVars == <<cached_prod, cached_cons>>
callVars == <<pc, call, cnt, idx, written, ret>>
vars == <<ringVars, cacheVars, callVars, kcons>>

-----------------------------------------------------------------------------
(* Entries *)

\* `desc.addr as u64`: all a fill entry holds.
FillEntry(d) == [addr |-> d.addr]

\* FrameDesc::write_xdp_desc: the length is cast to u32.
TxEntry(d) == [addr |-> d.addr, len |-> d.len % Modulus, options |-> d.options]

Entry(d) == IF Kind = "fill" THEN FillEntry(d) ELSE TxEntry(d)

\* A slot nothing has been written to yet (the ring is mapped zeroed).
BlankEntry ==
  IF Kind = "fill" THEN [addr |-> 0] ELSE [addr |-> 0, len |-> 0, options |-> 0]

RingEntries == {Entry(d) : d \in Descs} \cup {BlankEntry}

-----------------------------------------------------------------------------
(* Calls *)

NoCall(at) == [descs |-> <<>>, one |-> FALSE, wake |-> FALSE, start |-> at]

Ok(n) == [ok |-> TRUE, cnt |-> n]
Err == [ok |-> FALSE, cnt |-> 0]

\* Slices of at most MaxBatch descriptors.
Batches == UNION {[1 .. n -> Descs] : n \in 0 .. MaxBatch}

\* The nb of a call: `descs.len() as u32`, or 1 for the `_one` methods.
Nb(c) == IF c.one THEN 1 ELSE Len(c.descs) % Modulus

Init ==
  /\ producer = 0 /\ consumer = 0 /\ kcons = 0
  /\ slots = [s \in SlotId |-> BlankEntry]
  /\ need_wakeup \in BOOLEAN
  /\ cached_prod = 0 /\ cached_cons = Size
  /\ pc = "idle" /\ call = NoCall(0) /\ cnt = 0 /\ idx = 0 /\ written = 0
  /\ ret = Ok(0)

\* Leave the call with result r; its locals are gone.
Return(r) ==
  /\ ret' = r
  /\ pc' = "idle" /\ call' = NoCall(0) /\ cnt' = 0 /\ idx' = 0 /\ written' = 0

\* A client calls one of the four methods.  `start` only records where the
\* ring stood, for the properties.
Enter(ds, isOne, wakes) ==
  /\ pc = "idle"
  /\ call' = [descs |-> ds, one |-> isOne, wake |-> wakes, start |-> producer]
  /\ pc' = "reserve"
  /\ UNCHANGED <<ringVars, cacheVars, cnt, idx, written, ret, kcons>>

Produce == \E ds \in Batches : Enter(ds, FALSE, FALSE)
ProduceOne == \E d \in Descs : Enter(<<d>>, TRUE, FALSE)
ProduceAndWakeup == \E ds \in Batches : Enter(ds, FALSE, TRUE)
ProduceOneAndWakeup == \E d \in Descs : Enter(<<d>>, TRUE, TRUE)

\* What follows `let cnt = self.produce(..)`: look at the need-wakeup flag, or
\* return cnt.
AfterProduce(n) ==
  IF call.wake
    THEN /\ pc' = "check" /\ cnt' = n
         /\ idx' = 0 /\ written' = 0 /\ UNCHANGED <<call, ret>>
    ELSE Return(Ok(n))

\* Mutant: the cached consumer index is never read again.
NbFreeNeverRefreshed(nb) == cached_cons

\* Mutant: the refreshed index counts one slot too many.
NbFreeOneTooMany(nb) ==
  IF WrapSub(cached_cons, cached_prod) >= nb
    THEN cached_cons
    ELSE WrapAdd(consumer, Size + 1)

\* xsk_prod_nb_free: the cached copy of the kernel's consumer index is read
\* again only if it does not already show nb free slots.
NbFreeCache(nb) ==
  IF WrapSub(cached_cons, cached_prod) >= nb
    THEN cached_cons
    ELSE WrapAdd(consumer, Size)

\* An empty slice: produce returns before it touches the ring.
ReturnEmpty ==
  /\ pc = "reserve" /\ Nb(call) = 0
  /\ AfterProduce(0)
  /\ UNCHANGED <<ringVars, cacheVars, kcons>>

\* xsk_ring_prod__reserve gives nb slots or none.
Reserve ==
  /\ pc = "reserve" /\ Nb(call) > 0
  /\ cached_cons' = NbFreeCache(Nb(call))
  /\ IF WrapSub(cached_cons', cached_prod) >= Nb(call)
       THEN /\ idx' = cached_prod
            /\ cached_prod' = WrapAdd(cached_prod, Nb(call))
            /\ cnt' = Nb(call)
            /\ pc' = "write"
            /\ UNCHANGED <<call, written, ret>>
       ELSE /\ AfterProduce(0)
            /\ UNCHANGED cached_prod
  /\ UNCHANGED <<ringVars, kcons>>

\* `idx += 1`, which the `_one` methods do not execute.
Overflows == OverflowChecks /\ ~call.one /\ idx = Modulus - 1

\* Mutant: the loop forgets `idx += 1`.
WriteEntrySameSlot ==
  /\ pc = "write" /\ written < cnt
  /\ slots' = [slots EXCEPT ![Slot(idx)] = Entry(call.descs[written + 1])]
  /\ written' = written + 1
  /\ UNCHANGED <<producer, consumer, need_wakeup, cacheVars, pc, call, cnt, idx, ret, kcons>>

\* One turn of the loop over descs.iter().take(cnt): write the entry, then
\* advance idx.  Where the addition is checked, idx = u32::MAX panics here.
WriteEntry ==
  /\ pc = "write" /\ written < cnt
  /\ slots' = [slots EXCEPT ![Slot(idx)] = Entry(call.descs[written + 1])]
  /\ written' = written + 1
  /\ IF Overflows
       THEN pc' = "panicked" /\ UNCHANGED idx
       ELSE idx' = WrapAdd(idx, 1) /\ UNCHANGED pc
  /\ UNCHANGED <<producer, consumer, need_wakeup, cacheVars, call, cnt, ret, kcons>>

\* Mutant: the batch is written and counted but never submitted.
SubmitForgotten ==
  /\ pc = "write" /\ written = cnt
  /\ AfterProduce(cnt)
  /\ UNCHANGED <<ringVars, cacheVars, kcons>>

\* Mutant: the producer index is advanced in a wider type.
SubmitUnwrapped ==
  /\ pc = "write" /\ written = cnt
  /\ producer' = producer + cnt
  /\ AfterProduce(cnt)
  /\ UNCHANGED <<consumer, slots, need_wakeup, cacheVars, kcons>>

\* xsk_ring_prod__submit: the whole batch becomes visible to the kernel.
Submit ==
  /\ pc = "write" /\ written = cnt
  /\ producer' = WrapAdd(producer, cnt)
  /\ AfterProduce(cnt)
  /\ UNCHANGED <<consumer, slots, need_wakeup, cacheVars, kcons>>

-----------------------------------------------------------------------------
(* Waking the kernel *)

\* Mutant: the flag is never seen.
FlagNeverSeen == FALSE

\* needs_wakeup: the flag the kernel keeps in the ring.
NeedsWakeup == need_wakeup

\* Mutant: the fill queue forgets `cnt > 0`.
WakesForNothing == NeedsWakeup

\* `if cnt > 0 && self.needs_wakeup()` (fill), `if self.needs_wakeup()` (tx).
WakesKernel == (Kind = "fill" => cnt > 0) /\ NeedsWakeup

CheckWakeup ==
  /\ pc = "check"
  /\ IF WakesKernel
       THEN pc' = "wake" /\ UNCHANGED <<call, cnt, idx, written, ret>>
       ELSE Return(Ok(cnt))
  /\ UNCHANGED <<ringVars, cacheVars, kcons>>

\* The loop the clients run while they wait: `if q.needs_wakeup() { q.wakeup()? }`.
RetryWakeup ==
  /\ pc = "idle" /\ NeedsWakeup
  /\ pc' = "wake"
  /\ call' = NoCall(producer)
  /\ UNCHANGED <<ringVars, cacheVars, cnt, idx, written, ret, kcons>>

\* The errnos of poll(2) and sendto(2) the code tells apart.
Errno == {"EINTR", "ENOBUFS", "EAGAIN", "EBUSY", "ENETDOWN", "EINVAL"}

\* PollFd::poll swallows EINTR; TxQueue::wakeup swallows four others.
Tolerated ==
  IF Kind = "fill" THEN {"EINTR"} ELSE {"ENOBUFS", "EAGAIN", "EBUSY", "ENETDOWN"}

\* The system call succeeds and the kernel runs.
WakeSucceeds ==
  /\ pc = "wake"
  /\ need_wakeup' = FALSE
  /\ Return(Ok(cnt))
  /\ UNCHANGED <<producer, consumer, slots, cacheVars, kcons>>

\* The system call fails: a tolerated errno is reported as success, any other
\* as an error, and with the error goes the count.
WakeFails ==
  /\ pc = "wake"
  /\ \E errno \in Errno : Return(IF errno \in Tolerated THEN Ok(cnt) ELSE Err)
  /\ UNCHANGED <<ringVars, cacheVars, kcons>>

-----------------------------------------------------------------------------
(* The kernel's end of the ring *)

\* An awake kernel takes the oldest published entry.
KTake ==
  /\ ~need_wakeup /\ kcons # producer
  /\ kcons' = WrapAdd(kcons, 1)
  /\ UNCHANGED <<ringVars, cacheVars, callVars>>

\* It gives the slots of what it took back to userspace, in batches.
KRelease ==
  /\ kcons # consumer
  /\ consumer' = kcons
  /\ UNCHANGED <<producer, slots, need_wakeup, cacheVars, callVars, kcons>>

\* It stops, whatever is left on the ring, and raises the flag.
KSleep ==
  /\ ~need_wakeup
  /\ need_wakeup' = TRUE
  /\ UNCHANGED <<producer, consumer, slots, cacheVars, callVars, kcons>>

\* Something else, such as an interrupt, gets it going again.
KResume ==
  /\ need_wakeup
  /\ need_wakeup' = FALSE
  /\ UNCHANGED <<producer, consumer, slots, cacheVars, callVars, kcons>>

-----------------------------------------------------------------------------

UserStep ==
  \/ ReturnEmpty \/ Reserve \/ WriteEntry \/ Submit
  \/ CheckWakeup \/ WakeSucceeds \/ WakeFails

Next ==
  \/ Produce \/ ProduceOne \/ ProduceAndWakeup \/ ProduceOneAndWakeup
  \/ RetryWakeup
  \/ UserStep
  \/ KTake \/ KRelease \/ KSleep \/ KResume

Spec == Init /\ [][Next]_vars

(***************************************************************************)
(* A call in progress goes on; the client keeps coming back to the flag    *)
(* while it waits (the examples do so in every loop); a wakeup retried for *)
(* ever does not fail for ever; a kernel that is repeatedly awake with     *)
(* work to do does some of it, and gives the slots back.                   *)
(***************************************************************************)
Fairness ==
  /\ WF_vars(UserStep)
  /\ SF_vars(RetryWakeup)
  /\ SF_vars(WakeSucceeds)
  /\ SF_vars(KTake)
  /\ WF_vars(KRelease)

FairSpec == Spec /\ Fairness

-----------------------------------------------------------------------------
(* Properties *)

\* Entries on the ring from the kernel's point of view: published, and not yet
\* given back.
Occupied == WrapSub(producer, consumer)

CallType ==
  [descs : Seq(Descs), one : BOOLEAN, wake : BOOLEAN, start : Index]

\* Type invariant: counters are u32s, slots hold entries, and the locals of the
\* call stay within the batch.
TypeOK ==
  /\ producer \in Index /\ consumer \in Index /\ kcons \in Index
  /\ cached_prod \in Index /\ cached_cons \in Index
  /\ slots \in [SlotId -> RingEntries]
  /\ need_wakeup \in BOOLEAN
  /\ pc \in {"idle", "reserve", "write", "check", "wake", "panicked"}
  /\ call \in CallType
  /\ cnt \in Index /\ idx \in Index
  /\ written \in 0 .. cnt
  /\ ret \in [ok : BOOLEAN, cnt : Index]

\* The loop of produce writes through the cached counters only, yet never into
\* a slot whose entry the kernel has still to read or to give back, however
\* stale the cached consumer index is and wherever the counters wrap.
WritesOnlyFreeSlots ==
  (pc = "write" /\ written < cnt) =>
    \A x \in Window(consumer, Occupied) : Slot(idx) # Slot(x)

\* Outside a call nothing is reserved without being submitted: produce leaves
\* libxdp's cached_prod and the shared producer index equal.
ReservedIsSubmitted ==
  pc \notin {"write"} => cached_prod = producer

\* Reserve refuses a batch exactly if the ring, as the kernel has published it,
\* has fewer than nb free slots: the stale cache costs no false refusal and
\* allows no overcommitment ("if the length of `descs` is greater than the
\* number of available spaces ... then no frames at all").
RefusalIsExact ==
  [][(pc = "reserve" /\ pc' # "reserve" /\ Nb(call) > 0)
       => (cached_prod' = cached_prod <=> Size - Occupied < Nb(call))]_vars

\* What the result of a call tells its caller about the ring: a batch is
\* published entirely or not at all, Ok carries exactly the number published,
\* and an error of the fill queue's wakeup always means that the whole batch
\* was published.
ResultIsHonest ==
  [][(pc # "idle" /\ pc' = "idle")
       => LET published == WrapSub(producer', call.start)
          IN /\ published \in {0, Nb(call)}
             /\ ret'.ok => ret'.cnt = published
             /\ (~ret'.ok /\ Kind = "fill") => published = Nb(call)]_vars

\* Every published entry is taken and its slot given back, although the kernel
\* may go to sleep on a non-empty ring right after the flag was checked, and
\* wakeups may fail silently: the need-wakeup protocol loses no entry.
PublishedComesBack ==
  \A x \in Index : (consumer = x /\ producer # x) ~> (consumer # x)

=============================================================================
