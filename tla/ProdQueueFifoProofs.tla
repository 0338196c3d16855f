------------------------ MODULE ProdQueueFifoProofs --------------------------
(***************************************************************************)
(* ProdQueue implements RingFifo, for every ring size, index width and set *)
(* of descriptors: the refinement mapping of ProdQueueFifo takes initial   *)
(* states to initial states and every step to a step or to none.           *)
(*                                                                         *)
(* The counters are in order by the invariant of ProdQueueProofs; what the *)
(* refinement needs besides is that the slots the call has written so far  *)
(* hold the entries of its batch.                                          *)
(***************************************************************************)
EXTENDS ProdQueueFifo, ProdQueueProofs

WrittenInv ==
  pc = "write" =>
    \A k \in 1 .. written : slots[Slot(WrapAdd(producer, k - 1))] = Entry(call.descs[k])

-----------------------------------------------------------------------------
(* Where the counters stand *)

\* Slots held by the kernel, and still to be taken by it.
Held == WrapSub(kcons, consumer)
Pending == WrapSub(producer, kcons)

\* They and what the call has reserved fit the ring together.
DistancesOK ==
  /\ Held \in Nat /\ Pending \in Nat
  /\ Held + Pending <= Size /\ Held <= Size /\ Pending <= Size
  /\ pc \in {"write", "panicked"} =>
       /\ cnt \in Nat /\ WrapSub(cached_prod, producer) = cnt
       /\ Held + Pending + cnt <= Size /\ Pending + cnt <= Size

\* This follows from the invariant of the counters.
LEMMA Distances == IndInv => DistancesOK
<1> SUFFICES ASSUME IndInv PROVE DistancesOK
  OBVIOUS
<1> DEFINE reserved == WrapSub(cached_prod, producer)
           free == WrapSub(cached_cons, cached_prod)
<1>1. Held \in Nat /\ Pending \in Nat /\ reserved \in Nat /\ free \in Nat
  BY ZeroDistance DEF IndInv, TypeOK, Held, Pending
<1>2. Held + Pending + reserved + free <= Size
  BY DEF IndInv, RingInv, Held, Pending
<1>3. pc \in {"write", "panicked"} => cnt \in Nat /\ reserved = cnt
  BY AdvanceBy DEF IndInv, TypeOK, CallInv, Index
<1> HIDE DEF reserved, free
<1>4. Held + Pending <= Size /\ Held <= Size /\ Pending <= Size
  BY <1>1, <1>2, RingBounds
<1>5. pc \in {"write", "panicked"} => Held + Pending + cnt <= Size /\ Pending + cnt <= Size
  BY <1>1, <1>2, <1>3, RingBounds
<1> QED BY <1>1, <1>3, <1>4, <1>5 DEF reserved, DistancesOK

\* The queue and the entries out, as stretches of the ring.
LEMMA Mapping ==
  /\ Contents(kcons, WrapSub(producer, kcons)) = Stretch(slots, kcons, Pending)
  /\ Contents(consumer, WrapSub(kcons, consumer)) = Stretch(slots, consumer, Held)
  /\ Contents(kcons, WrapSub(producer, kcons))' = Stretch(slots', kcons', Pending')
  /\ Contents(consumer, WrapSub(kcons, consumer))' = Stretch(slots', consumer', Held')
BY DEF Contents, Stretch, Held, Pending

\* A step that leaves the ring and the reservation alone is a stutter.
LEMMA RingStutter ==
  ASSUME UNCHANGED <<producer, consumer, kcons, slots, Reserved>>
  PROVE  UNCHANGED Fifo!fifoVars
<1>1. UNCHANGED Contents(kcons, WrapSub(producer, kcons))
  BY Mapping DEF Held, Pending
<1>2. UNCHANGED Contents(consumer, WrapSub(kcons, consumer))
  BY Mapping DEF Held, Pending
<1> QED BY <1>1, <1>2 DEF Fifo!fifoVars

\* xsk_ring_prod__submit publishes the batch behind what is already queued.
LEMMA SubmitRefines ==
  ASSUME IndInv, WrittenInv, Submit
  PROVE  Fifo!Publish
<1>1. /\ Held \in Nat /\ Pending \in Nat /\ cnt \in Nat
      /\ Pending + cnt <= Size /\ Pending + cnt < Modulus
  BY Distances, RingBounds DEF Submit, DistancesOK
<1>2. /\ producer \in Index /\ kcons \in Index /\ consumer \in Index
      /\ slots \in [SlotId -> RingEntries]
      /\ UNCHANGED <<kcons, consumer, slots>>
      /\ producer' = WrapAdd(producer, cnt) /\ producer' = cached_prod
      /\ cached_prod \in Index /\ written = cnt /\ pc = "write"
  BY DEF Submit, IndInv, TypeOK, CallInv, cacheVars
<1>3. Pending' = Pending + cnt /\ Held' = Held
  <2>1. WrapSub(cached_prod, producer) = cnt
    BY <1>2, Distances DEF DistancesOK
  <2> QED BY <1>1, <1>2, <2>1, DistancesAdd DEF Pending, Held
<1>4. Stretch(slots, kcons, Pending + cnt) =
        Stretch(slots, kcons, Pending) \o Stretch(slots, producer, cnt)
  <2>1. WrapAdd(kcons, Pending) = producer
    BY <1>2, WrapAddSub DEF Pending
  <2>2. Stretch(slots, kcons, Pending + cnt) =
          Stretch(slots, kcons, Pending) \o Stretch(slots, WrapAdd(kcons, Pending), cnt)
    <3>1. PICK m \in Nat, n \in Nat : m = Pending /\ n = cnt
      BY <1>1
    <3>2. m + n <= Size
      BY <1>1, <3>1
    <3>3. Stretch(slots, kcons, m + n) =
            Stretch(slots, kcons, m) \o Stretch(slots, WrapAdd(kcons, m), n)
      BY <1>2, <3>2, StretchConcat
    <3> QED BY <3>1, <3>3
  <2> QED BY <2>1, <2>2
<1>5. Stretch(slots, producer, cnt) = Reserved
  BY <1>2 DEF Stretch, Reserved, WrittenInv
<1>6. Reserved' = <<>>
  BY DEF Submit, AfterProduce, Return, Reserved
<1>7. Contents(kcons, WrapSub(producer, kcons))' =
        Contents(kcons, WrapSub(producer, kcons)) \o Reserved
  BY <1>2, <1>3, <1>4, <1>5, Mapping
<1>8. UNCHANGED Contents(consumer, WrapSub(kcons, consumer))
  BY <1>2, <1>3, Mapping
<1> QED BY <1>6, <1>7, <1>8 DEF Fifo!Publish

\* A granted reservation offers the batch of the call, and there is room for it.
LEMMA ReserveRefines ==
  ASSUME IndInv, Reserve
  PROVE  Fifo!Offer \/ UNCHANGED Fifo!fifoVars
<1>1. /\ UNCHANGED <<producer, consumer, kcons, slots>>
      /\ slots \in [SlotId -> RingEntries] /\ pc = "reserve"
      /\ kcons \in Index /\ consumer \in Index
  BY DEF Reserve, IndInv, TypeOK, ringVars
<1>2. Reserved = <<>>
  BY <1>1 DEF Reserved
<1>3. CASE pc' = "write"
  <2>1. cnt' = Nb(call) /\ call' = call
    BY <1>3 DEF Reserve, AfterProduce, Return
  <2>2. /\ Held \in Nat /\ Pending \in Nat /\ cnt' \in Nat
        /\ Held + Pending + cnt' <= Size /\ Held <= Size /\ Pending <= Size
    <3>1. DistancesOK'
      BY ReserveStep, Distances, PTL
    <3>2. UNCHANGED <<Held, Pending>>
      BY <1>1 DEF Held, Pending
    <3> QED BY <1>3, <3>1, <3>2 DEF DistancesOK
  <2>3. Reserved' = [k \in 1 .. cnt' |-> Entry(call.descs[k])]
    BY <1>3, <2>1 DEF Reserved
  <2>4. Reserved' \in [1 .. cnt' -> RingEntries]
    <3>1. call.descs \in Seq(Descs) /\ cnt' <= Len(call.descs)
      BY <2>1, NbBound DEF IndInv, TypeOK, CallInv, CallType
    <3>2. \A k \in 1 .. cnt' : call.descs[k] \in Descs
      BY <2>2, <3>1
    <3> QED BY <2>3, <3>2, EntryType
  <2>5. /\ Len(Stretch(slots, kcons, Pending)) = Pending
        /\ Len(Stretch(slots, consumer, Held)) = Held
    BY <1>1, <2>2, StretchType
  <2>6. Fifo!InUse = Held + Pending
    BY <1>2, <2>2, <2>5, Mapping DEF Fifo!InUse
  <2>7. cnt' \in 0 .. (Size - Fifo!InUse)
    <3>1. cnt' \in 0 .. (Size - (Held + Pending))
      <4>1. PICK n \in Nat, u \in Nat : n = cnt' /\ u = Held + Pending /\ u + n <= Size
        BY <2>2
      <4> QED BY <4>1, RingBounds
    <3> QED BY <2>6, <3>1
  <2>8. Reserved' = Reserved \o Reserved'
    <3>1. Reserved' \in Seq(RingEntries)
      BY <2>2, <2>4
    <3> QED BY <1>2, <3>1
  <2>9. UNCHANGED <<Contents(kcons, WrapSub(producer, kcons)),
                    Contents(consumer, WrapSub(kcons, consumer))>>
    BY <1>1, Mapping DEF Held, Pending
  <2> QED BY <2>4, <2>7, <2>8, <2>9 DEF Fifo!Offer
<1>4. CASE pc' # "write"
  <2>1. pc' \in {"idle", "check"}
    BY <1>4 DEF Reserve, AfterProduce, Return
  <2>2. Reserved' = <<>>
    BY <2>1 DEF Reserved
  <2> QED BY <1>1, <1>2, <2>2, RingStutter
<1> QED BY <1>3, <1>4

\* Where the call writes, seen from the kernel's two indices: behind everything
\* that is queued and everything that is out.
LEMMA WriteIsBehind ==
  ASSUME IndInv, pc = "write", written < cnt
  PROVE  /\ Pending + written \in SlotId /\ Pending <= Pending + written
         /\ idx = WrapAdd(kcons, Pending + written)
         /\ Held + Pending + written \in SlotId /\ Held <= Held + Pending + written
         /\ idx = WrapAdd(consumer, Held + Pending + written)
         /\ written \in SlotId /\ idx = WrapAdd(producer, written)
<1>1. PICK h \in Nat, p \in Nat, w \in Nat, c \in Nat :
        /\ h = Held /\ p = Pending /\ w = written /\ c = cnt /\ w < c /\ h + p + c <= Size
  <2>1. DistancesOK
    BY Distances
  <2>2. Held \in Nat /\ Pending \in Nat /\ cnt \in Nat /\ Held + Pending + cnt <= Size
    BY <2>1 DEF DistancesOK
  <2>3. written \in Nat
    BY DEF IndInv, TypeOK
  <2> QED BY <2>2, <2>3
<1>2. /\ p + w \in SlotId /\ p + w \in Nat /\ p + w < Modulus /\ p <= p + w
      /\ h + (p + w) \in SlotId /\ h + (p + w) < Modulus /\ h <= h + (p + w) /\ w \in SlotId
      /\ h + p + w = h + (p + w)
  BY <1>1, RingBounds DEF SlotId
<1>3. idx = WrapAdd(producer, w) /\ kcons \in Index /\ consumer \in Index /\ producer \in Index
  BY <1>1 DEF IndInv, TypeOK, CallInv
<1>4. WrapAdd(kcons, p) = producer /\ WrapAdd(consumer, h) = kcons
  BY <1>1, <1>3, WrapAddSub DEF Held, Pending
<1>5. idx = WrapAdd(kcons, p + w)
  BY <1>2, <1>3, <1>4, WrapAddTwice
<1>6. idx = WrapAdd(consumer, h + (p + w))
  BY <1>2, <1>3, <1>4, <1>5, WrapAddTwice
<1> QED BY <1>1, <1>2, <1>3, <1>5, <1>6

\* A turn of the write loop shows in none of the three parts: what is queued or
\* out is not overwritten.
LEMMA WriteEntryRefines ==
  ASSUME IndInv, WriteEntry
  PROVE  UNCHANGED Fifo!fifoVars
<1>1. /\ UNCHANGED <<producer, consumer, kcons, Held, Pending>>
      /\ pc = "write" /\ pc' \in {"write", "panicked"} /\ written < cnt
      /\ UNCHANGED <<call, cnt>>
      /\ kcons \in Index /\ consumer \in Index /\ Held \in Nat /\ Pending \in Nat
      /\ DOMAIN slots = SlotId
  BY Distances DEF WriteEntry, IndInv, TypeOK, DistancesOK, Held, Pending
<1>2. \A x \in SlotId : x # Slot(idx) => slots'[x] = slots[x]
  BY <1>1 DEF WriteEntry
<1>3. Stretch(slots', kcons, Pending) = Stretch(slots, kcons, Pending)
  <2>1. PICK j \in SlotId : j = Pending + written /\ idx = WrapAdd(kcons, j) /\ Pending <= j
    BY <1>1, WriteIsBehind
  <2>2. PICK n \in Nat : n = Pending /\ n <= j
    BY <1>1, <2>1
  <2>3. Stretch(slots', kcons, n) = Stretch(slots, kcons, n)
    BY <1>1, <1>2, <2>1, <2>2, WriteBehindStretch
  <2> QED BY <2>2, <2>3
<1>4. Stretch(slots', consumer, Held) = Stretch(slots, consumer, Held)
  <2>1. PICK j \in SlotId : j = Held + Pending + written /\ idx = WrapAdd(consumer, j) /\ Held <= j
    BY <1>1, WriteIsBehind
  <2>2. PICK n \in Nat : n = Held /\ n <= j
    BY <1>1, <2>1
  <2>3. Stretch(slots', consumer, n) = Stretch(slots, consumer, n)
    BY <1>1, <1>2, <2>1, <2>2, WriteBehindStretch
  <2> QED BY <2>2, <2>3
<1>5. UNCHANGED Reserved
  BY <1>1 DEF Reserved
<1> QED BY <1>1, <1>3, <1>4, <1>5, Mapping DEF Fifo!fifoVars

\* The kernel takes the oldest entry of the queue.
LEMMA KTakeRefines ==
  ASSUME IndInv, KTake
  PROVE  Fifo!Take
<1>1. /\ UNCHANGED <<producer, consumer, slots, Reserved>>
      /\ kcons' = WrapAdd(kcons, 1) /\ kcons # producer
      /\ kcons \in Index /\ consumer \in Index /\ producer \in Index
  BY DEF KTake, IndInv, TypeOK, ringVars, callVars, Reserved
<1>2. PICK h \in Nat, p \in Nat : h = Held /\ p = Pending /\ h + p <= Size /\ p > 0
  <2>1. Pending # 0
    BY <1>1, ZeroDistance DEF Pending
  <2> QED BY <2>1, Distances DEF DistancesOK
<1>3. Pending' = p - 1 /\ Held' = h + 1
  <2>1. 1 \in Index /\ kcons' \in Index
    BY <1>1, RingBounds, WrapType DEF Index
  <2>2. WrapSub(kcons', kcons) = 1 /\ WrapSub(producer, kcons') = p - 1
    BY <1>1, <1>2, <2>1, AdvanceWithin DEF Pending
  <2>3. WrapSub(kcons, consumer) = h /\ h + 1 < Modulus
    BY <1>2, RingBounds DEF Held
  <2>4. WrapSub(kcons', consumer) = h + 1
    BY <1>1, <1>2, <2>1, <2>2, <2>3, DistancesAdd
  <2> QED BY <1>1, <2>2, <2>4 DEF Held, Pending
<1>4. /\ Stretch(slots, kcons, p) # <<>>
      /\ Head(Stretch(slots, kcons, p)) = slots[Slot(kcons)]
      /\ Tail(Stretch(slots, kcons, p)) = Stretch(slots, kcons', p - 1)
  <2>1. p <= Size
    BY <1>2, RingBounds
  <2> QED BY <1>1, <1>2, <2>1, StretchTake
<1>5. Append(Stretch(slots, consumer, h), slots[Slot(kcons)]) = Stretch(slots, consumer, h + 1)
  <2>1. WrapAdd(consumer, h) = kcons
    BY <1>1, <1>2, WrapAddSub DEF Held
  <2>2. h < Size
    BY <1>2, RingBounds
  <2>3. Append(Stretch(slots, consumer, h), slots[Slot(WrapAdd(consumer, h))])
          = Stretch(slots, consumer, h + 1)
    BY <1>1, <2>2, StretchAppend
  <2> QED BY <2>1, <2>3
<1> QED BY <1>1, <1>2, <1>3, <1>4, <1>5, Mapping DEF Fifo!Take

\* The kernel gives back everything it has taken.
LEMMA KReleaseRefines ==
  ASSUME IndInv, KRelease
  PROVE  Fifo!Release
<1>1. /\ UNCHANGED <<producer, kcons, slots, Reserved, Pending>> /\ consumer' = kcons
  BY DEF KRelease, callVars, Reserved, Pending
<1>2. Held' = 0
  BY <1>1, ZeroDistance DEF IndInv, TypeOK, Held
<1>3. Stretch(slots, kcons, 0) = <<>>
  BY StretchEmpty
<1> QED BY <1>1, <1>2, <1>3, Mapping DEF Fifo!Release

-----------------------------------------------------------------------------
(* What the call has written, and the refinement *)

\* The loop fills the reserved slots one by one and the kernel does not touch
\* them.
LEMMA WrittenStep ==
  ASSUME IndInv, WrittenInv, [Next]_vars
  PROVE  WrittenInv'
<1>1. CASE WriteEntry
  <2> SUFFICES ASSUME pc' = "write", NEW k \in 1 .. written'
               PROVE  slots'[Slot(WrapAdd(producer', k - 1))] = Entry(call'.descs[k])
    BY DEF WrittenInv
  <2> DEFINE e == Entry(call.descs[written + 1])
  <2>1. /\ slots' = [slots EXCEPT ![Slot(idx)] = e] /\ slots \in [SlotId -> RingEntries]
        /\ written' = written + 1 /\ UNCHANGED <<call, producer>> /\ pc = "write" /\ written < cnt
        /\ written \in Nat /\ producer \in Index
    BY <1>1 DEF WriteEntry, IndInv, TypeOK
  <2>2. written \in SlotId /\ idx = WrapAdd(producer, written) /\ Slot(idx) \in SlotId
    <3>1. written \in SlotId /\ idx = WrapAdd(producer, written)
      BY <2>1, WriteIsBehind
    <3>2. idx \in Int
      BY RingBounds DEF IndInv, TypeOK, Index
    <3> QED BY <3>1, <3>2, SlotType
  <2>3. CASE k = written + 1
    <3>1. WrapAdd(producer, k - 1) = idx
      BY <2>1, <2>2, <2>3
    <3> QED BY <2>1, <2>2, <2>3, <3>1
  <2>4. CASE k # written + 1
    <3>1. k \in 1 .. written /\ k - 1 \in SlotId /\ k - 1 # written /\ k - 1 \in Index
      BY <2>1, <2>2, <2>4, RingBounds DEF SlotId, Index
    <3>2. Slot(WrapAdd(producer, k - 1)) # Slot(idx)
      BY <2>1, <2>2, <3>1, WindowSlotsDiffer
    <3>3. Slot(WrapAdd(producer, k - 1)) \in SlotId
      BY <2>1, <3>1, WrapType, SlotType DEF Index
    <3>4. slots[Slot(WrapAdd(producer, k - 1))] = Entry(call.descs[k])
      BY <2>1, <3>1 DEF WrittenInv
    <3> QED BY <2>1, <3>2, <3>3, <3>4
  <2> QED BY <2>3, <2>4
<1>2. CASE Reserve
  <2>1. written = 0 /\ (pc' = "write" => written' = written)
    BY <1>2 DEF Reserve, AfterProduce, Return, IndInv, CallInv
  <2> QED BY <2>1 DEF WrittenInv
<1>3. ASSUME UNCHANGED <<pc, call, written, slots, producer>> PROVE WrittenInv'
  BY <1>3 DEF WrittenInv
<1>4. ASSUME pc' # "write" PROVE WrittenInv'
  BY <1>4 DEF WrittenInv
<1>5. KTake \/ KRelease \/ KSleep \/ KResume \/ UNCHANGED vars =>
        UNCHANGED <<pc, call, written, slots, producer>>
  BY DEF KTake, KRelease, KSleep, KResume, vars, ringVars, callVars
<1>6. Produce \/ ProduceOne \/ ProduceAndWakeup \/ ProduceOneAndWakeup \/ RetryWakeup
        => pc' # "write"
  BY DEF Produce, ProduceOne, ProduceAndWakeup, ProduceOneAndWakeup, RetryWakeup, Enter
<1>7. ReturnEmpty \/ Submit \/ CheckWakeup \/ WakeSucceeds \/ WakeFails => pc' # "write"
  BY DEF ReturnEmpty, Submit, CheckWakeup, WakeSucceeds, WakeFails, AfterProduce, Return
<1> QED BY <1>1, <1>2, <1>3, <1>4, <1>5, <1>6, <1>7 DEF Next, UserStep

\* Every step of the ring and its two ends is a step of the channel, or none.
LEMMA NextRefines ==
  ASSUME IndInv, WrittenInv, [Next]_vars
  PROVE  [Fifo!FifoNext]_(Fifo!fifoVars)
<1> USE DEF Fifo!FifoNext
<1>1. CASE Reserve
  BY <1>1, ReserveRefines
<1>2. CASE WriteEntry
  BY <1>2, WriteEntryRefines
<1>3. CASE Submit
  BY <1>3, SubmitRefines
<1>4. CASE KTake
  BY <1>4, KTakeRefines
<1>5. CASE KRelease
  BY <1>5, KReleaseRefines
<1>6. ASSUME UNCHANGED <<producer, consumer, kcons, slots>>,
             pc \notin {"write", "panicked"}, pc' \notin {"write", "panicked"}
      PROVE  UNCHANGED Fifo!fifoVars
  BY <1>6, RingStutter DEF Reserved
<1>7. CASE Produce \/ ProduceOne \/ ProduceAndWakeup \/ ProduceOneAndWakeup \/ RetryWakeup
  BY <1>6, <1>7 DEF Produce, ProduceOne, ProduceAndWakeup, ProduceOneAndWakeup, RetryWakeup,
                    Enter, ringVars
<1>8. CASE ReturnEmpty \/ CheckWakeup \/ WakeSucceeds \/ WakeFails
  BY <1>6, <1>8 DEF ReturnEmpty, CheckWakeup, WakeSucceeds, WakeFails, AfterProduce, Return,
                    ringVars
<1>9. CASE KSleep \/ KResume \/ UNCHANGED vars
  <2>1. UNCHANGED <<producer, consumer, kcons, slots, Reserved>>
    BY <1>9 DEF KSleep, KResume, vars, ringVars, callVars, Reserved
  <2> QED BY <2>1, RingStutter
<1> QED BY <1>1, <1>2, <1>3, <1>4, <1>5, <1>7, <1>8, <1>9 DEF Next, UserStep

\* The fill and tx rings, driven by FillQueue and TxQueue through libxdp's
\* cached counters, are bounded FIFO channels to the kernel: every entry of a
\* submitted batch arrives, in order, once and unchanged.
THEOREM RefinesFifo == Spec => IsFifo
<1>1. Init => Fifo!FifoInit
  <2> SUFFICES ASSUME Init PROVE Fifo!FifoInit
    OBVIOUS
  <2>1. Held = 0 /\ Pending = 0
    BY ZeroDistance, RingBounds DEF Init, Held, Pending, Index
  <2>2. Reserved = <<>>
    BY DEF Init, Reserved
  <2> QED BY <2>1, <2>2, Mapping, StretchEmpty DEF Fifo!FifoInit
<1>2. Init => WrittenInv
  BY DEF Init, WrittenInv
<1>3. IndInv /\ WrittenInv /\ [Next]_vars => WrittenInv'
  BY WrittenStep
<1>4. IndInv /\ WrittenInv /\ [Next]_vars => [Fifo!FifoNext]_(Fifo!fifoVars)
  BY NextRefines
<1> QED BY <1>1, <1>2, <1>3, <1>4, Invariance, PTL DEF Spec, IsFifo, Fifo!FifoSpec

=============================================================================
