--------------------------- MODULE ConsQueueProofs ---------------------------
(***************************************************************************)
(* Proofs about ConsQueue, for every ring size, index width, batch length  *)
(* and set of packets, for both kinds of queue.                            *)
(***************************************************************************)
EXTENDS ConsQueue, RingIndexTheorems

\* Going round the ring from the consumer index one meets the slots the call
\* has peeked, those the cached producer index shows, those published since it
\* was read, and those the kernel has written: together at most Size.
RingInv ==
  WrapSub(cached_cons, consumer) + WrapSub(cached_prod, cached_cons)
    + WrapSub(producer, cached_prod) + WrapSub(kprod, producer) <= Size

\* Where the call is determines what is peeked and where it reads next.
CallInv ==
  /\ pc \in {"idle", "poll", "peek"} => cached_cons = consumer /\ nread = 0 /\ cnt = 0
  /\ pc \in {"read", "panicked"} => cached_cons = WrapAdd(consumer, cnt) /\ cnt > 0
  /\ pc = "read" => idx = WrapAdd(consumer, nread)

IndInv == TypeOK /\ RingInv /\ CallInv

Results == [ok : BOOLEAN, cnt : Index]

-----------------------------------------------------------------------------

\* What the kernel writes is a ring entry, and every entry makes a descriptor.
LEMMA EntryType ==
  /\ BlankEntry \in RingEntries
  /\ \A p \in Packets : KernelEntry(p) \in RingEntries
  /\ \A e \in RingEntries : ToDesc(e) \in FrameDescs
<1>1. \A p \in Packets : p.addr \in Nat /\ p.len \in Nat /\ p.options \in Nat
  BY ConsAssumption
<1>2. ASSUME NEW e \in RingEntries PROVE ToDesc(e) \in FrameDescs
  <2>1. CASE Kind = "rx"
    <3>1. e.addr \in Nat /\ e.len \in Nat /\ e.options \in Nat
      BY <1>1, <2>1 DEF RingEntries, KernelEntry, BlankEntry
    <3> QED BY <2>1, <3>1 DEF ToDesc, RxDesc, FrameDescs
  <2>2. CASE Kind # "rx"
    <3>1. e.addr \in Nat
      BY <1>1, <2>2 DEF RingEntries, KernelEntry, BlankEntry
    <3> QED BY <2>2, <3>1 DEF ToDesc, CompDesc, FrameDescs
  <2> QED BY <2>1, <2>2
<1> QED BY <1>2 DEF RingEntries

\* The initial state satisfies the inductive invariant.
LEMMA InitIndInv == Init => IndInv
<1> SUFFICES ASSUME Init PROVE IndInv
  OBVIOUS
<1>1. 0 \in Index /\ WrapSub(0, 0) = 0
  BY ZeroDistance, RingBounds DEF Index
<1>2. TypeOK
  <2>1. slots \in [SlotId -> RingEntries]
    BY EntryType DEF Init
  <2>2. call \in [nb : Index, one : BOOLEAN, start : Index] /\ call.nb = 0
    BY <1>1 DEF Init, NoCall
  <2>3. ret \in [ok : BOOLEAN, cnt : Index]
    BY <1>1 DEF Init, Ok
  <2>4. descs \in Seq(FrameDescs) /\ Len(descs) = 0
    BY DEF Init
  <2> QED BY <1>1, <2>1, <2>2, <2>3, <2>4 DEF Init, TypeOK
<1>3. RingInv
  BY <1>1, RingBounds DEF Init, RingInv
<1>4. CallInv
  BY DEF Init, CallInv
<1> QED BY <1>2, <1>3, <1>4 DEF IndInv

\* A step that changes no counter preserves RingInv.
LEMMA RingUnchanged ==
  ASSUME RingInv, UNCHANGED <<producer, consumer, kprod, cached_prod, cached_cons>>
  PROVE  RingInv'
BY DEF RingInv

\* Leaving a call before anything was peeked.
LEMMA ReturnStep ==
  ASSUME IndInv, NEW r \in Results, Return(r), pc \in {"poll", "peek"},
         UNCHANGED <<ringVars, cached_cons, descs, kprod>>, cached_prod' \in Index, RingInv'
  PROVE  IndInv'
<1> USE DEF ringVars
<1>1. 0 \in Index
  BY RingBounds DEF Index
<1>2. call' \in [nb : Index, one : BOOLEAN, start : Index] /\ call'.nb = 0
  BY <1>1 DEF Return, NoCall
<1>3. Len(descs') \in Nat
  BY DEF IndInv, TypeOK
<1>4. TypeOK'
  BY <1>1, <1>2, <1>3 DEF Return, Results, IndInv, TypeOK
<1>5. CallInv'
  BY DEF Return, IndInv, CallInv
<1> QED BY <1>4, <1>5 DEF IndInv

\* Results of calls are well typed.
LEMMA ResultType == Ok(0) \in Results /\ Err \in Results /\ \A n \in Index : Ok(n) \in Results
BY RingBounds DEF Ok, Err, Results, Index

\* Entering a call.
LEMMA EnterStep ==
  ASSUME IndInv, NEW n \in Nat, NEW one \in BOOLEAN, NEW polls \in BOOLEAN,
         one => n = 1, Enter(n, one, polls)
  PROVE  IndInv'
<1> USE DEF ringVars, cacheVars
<1>1. descs' \in Seq(FrameDescs) /\ Len(descs') = n
  BY DEF Enter, FrameDescs, StaleDesc
<1>2. n % Modulus \in Index /\ n % Modulus <= n /\ 1 \in Index
  BY RingAssumption DEF Index
<1>3. call' = [nb |-> IF one THEN 1 ELSE n % Modulus, one |-> one, start |-> consumer]
  BY DEF Enter
<1>4. call'.nb \in Index /\ call'.nb <= n
  <2>1. CASE one
    BY <1>2, <1>3, <2>1
  <2>2. CASE ~one
    BY <1>2, <1>3, <2>2
  <2> QED BY <2>1, <2>2
<1>5. call' \in [nb : Index, one : BOOLEAN, start : Index]
  BY <1>3, <1>4 DEF IndInv, TypeOK
<1>6. pc = "idle" /\ pc' \in {"poll", "peek"} /\ cnt = 0 /\ cnt' = 0 /\ nread' = 0
  BY DEF Enter, IndInv, CallInv
<1>7. cnt' \in 0 .. call'.nb /\ nread' \in 0 .. cnt'
  BY <1>4, <1>6 DEF Index
<1>8. TypeOK'
  BY <1>1, <1>4, <1>5, <1>6, <1>7 DEF Enter, IndInv, TypeOK
<1>9. RingInv'
  BY RingUnchanged DEF Enter, IndInv
<1>10. CallInv'
  BY <1>6 DEF Enter, IndInv, CallInv
<1> QED BY <1>8, <1>9, <1>10 DEF IndInv

\* Polling the socket, and calling consume with an empty slice.
LEMMA PollSteps ==
  IndInv /\ (PollReady \/ PollTimesOut \/ PollInterrupted \/ PollFails \/ ReturnEmpty) => IndInv'
<1> SUFFICES ASSUME IndInv,
                    PollReady \/ PollTimesOut \/ PollInterrupted \/ PollFails \/ ReturnEmpty
             PROVE  IndInv'
  OBVIOUS
<1> USE DEF ringVars, cacheVars
<1>1. UNCHANGED <<producer, consumer, slots, cached_prod, cached_cons, descs, kprod>>
  BY DEF PollReady, PollTimesOut, PollInterrupted, PollFails, ReturnEmpty
<1>2. RingInv' /\ cached_prod' \in Index
  BY <1>1, RingUnchanged DEF IndInv, TypeOK
<1>3. CASE PollReady
  <2>1. TypeOK'
    BY <1>3 DEF PollReady, localVars, IndInv, TypeOK
  <2>2. CallInv'
    BY <1>3 DEF PollReady, localVars, IndInv, CallInv
  <2> QED BY <1>2, <2>1, <2>2 DEF IndInv
<1>4. CASE ~PollReady
  <2>1. pc \in {"poll", "peek"} /\ (Return(Ok(0)) \/ Return(Err))
    BY <1>4 DEF PollTimesOut, PollInterrupted, PollFails, ReturnEmpty
  <2> QED BY <1>1, <1>2, <2>1, ReturnStep, ResultType
<1> QED BY <1>3, <1>4

\* The distances RingInv adds up are natural numbers.
LEMMA DistanceTypes ==
  ASSUME TypeOK
  PROVE  /\ WrapSub(cached_cons, consumer) \in Nat /\ WrapSub(cached_prod, cached_cons) \in Nat
         /\ WrapSub(producer, cached_prod) \in Nat /\ WrapSub(kprod, producer) \in Nat
BY ZeroDistance DEF TypeOK

\* The cached producer index, read again or not, still lies between the cached
\* consumer index and the shared producer index.
LEMMA PeekCache ==
  ASSUME IndInv, pc = "peek", cached_prod' = NbAvailCache
  PROVE  /\ cached_prod' \in Index
         /\ WrapSub(cached_prod', cached_cons) \in Nat /\ WrapSub(producer, cached_prod') \in Nat
         /\ WrapSub(cached_prod', cached_cons) + WrapSub(producer, cached_prod')
              + WrapSub(kprod, producer) <= Size
         /\ WrapSub(cached_prod', cached_cons) = 0 <=> producer = consumer
<1> DEFINE avail == WrapSub(cached_prod, cached_cons)
           unseen == WrapSub(producer, cached_prod)
           unpublished == WrapSub(kprod, producer)
<1>1. cached_cons = consumer /\ WrapSub(cached_cons, consumer) = 0
  BY ZeroDistance DEF IndInv, TypeOK, CallInv
<1>2. avail \in Nat /\ unseen \in Nat /\ unpublished \in Nat
  BY DistanceTypes DEF IndInv
<1>3. avail + unseen + unpublished <= Size
  BY <1>1, <1>2, RingBounds DEF IndInv, RingInv
<1> HIDE DEF avail, unseen, unpublished
<1>4. WrapSub(producer, consumer) = avail + unseen
  <2>1. avail + unseen < Modulus
    BY <1>2, <1>3, RingBounds
  <2> QED BY <1>1, <2>1, DistancesAdd DEF IndInv, TypeOK, avail, unseen
<1>5. CASE cached_prod = cached_cons
  <2>1. cached_prod' = producer /\ avail = 0
    BY <1>5, ZeroDistance DEF NbAvailCache, IndInv, TypeOK, avail
  <2>2. WrapSub(producer, producer) = 0 /\ WrapSub(cached_prod', cached_cons) = unseen
    BY <1>1, <1>2, <1>4, <2>1, ZeroDistance DEF IndInv, TypeOK
  <2>3. unseen = 0 <=> producer = consumer
    <3>1. WrapSub(producer, consumer) = unseen
      BY <1>2, <1>4, <2>1
    <3>2. WrapSub(producer, consumer) = 0 <=> producer = consumer
      BY ZeroDistance DEF IndInv, TypeOK
    <3> QED BY <3>1, <3>2
  <2> QED BY <1>2, <1>3, <2>1, <2>2, <2>3, RingBounds DEF IndInv, TypeOK, unpublished
<1>6. CASE cached_prod # cached_cons
  <2>1. cached_prod' = cached_prod /\ avail # 0
    BY <1>6, ZeroDistance DEF NbAvailCache, IndInv, TypeOK, avail
  <2>2. producer # consumer
    BY <1>2, <1>4, <2>1, ZeroDistance DEF IndInv, TypeOK
  <2> QED BY <1>2, <1>3, <2>1, <2>2, RingBounds DEF IndInv, TypeOK, avail, unseen, unpublished
<1> QED BY <1>5, <1>6

\* What peek grants is at most what is asked for and what the cache shows, and
\* nothing only if the cache shows nothing.
LEMMA GrantedBound ==
  ASSUME TypeOK, NEW c \in Index, NEW nb \in Index, nb > 0
  PROVE  /\ Granted(c, nb) \in 0 .. nb
         /\ Granted(c, nb) <= WrapSub(c, cached_cons)
         /\ Granted(c, nb) = 0 <=> WrapSub(c, cached_cons) = 0
<1>1. PICK avail \in Nat : avail = WrapSub(c, cached_cons)
  BY ZeroDistance DEF TypeOK
<1>2. Granted(c, nb) = IF avail < nb THEN avail ELSE nb
  BY <1>1 DEF Granted
<1>3. nb \in Nat
  BY DEF Index
<1>4. CASE avail < nb
  BY <1>1, <1>2, <1>3, <1>4
<1>5. CASE ~(avail < nb)
  BY <1>1, <1>2, <1>3, <1>5
<1> QED BY <1>4, <1>5

\* xsk_ring_cons__peek.
LEMMA PeekStep == IndInv /\ Peek => IndInv'
<1> SUFFICES ASSUME IndInv, Peek PROVE IndInv'
  OBVIOUS
<1> USE DEF ringVars
<1> DEFINE n == Granted(cached_prod', call.nb)
           avail == WrapSub(cached_prod', cached_cons)
           unseen == WrapSub(producer, cached_prod')
           unpublished == WrapSub(kprod, producer)
<1>1. /\ cached_prod' \in Index /\ avail \in Nat /\ unseen \in Nat
      /\ avail + unseen + unpublished <= Size
  BY PeekCache DEF Peek
<1>2. call.nb \in Index /\ call.nb > 0 /\ unpublished \in Nat
  BY DistanceTypes DEF Peek, IndInv, TypeOK
<1>3. n \in 0 .. call.nb /\ n \in Index /\ n <= avail
  <2>1. TypeOK /\ cached_prod' \in Index /\ call.nb \in Index /\ call.nb > 0
    BY <1>1, <1>2 DEF IndInv
  <2>2. n \in 0 .. call.nb /\ n <= avail
    BY <2>1, GrantedBound
  <2>3. call.nb \in Nat /\ call.nb < Modulus
    BY <1>2, RingBounds DEF Index
  <2> HIDE DEF n, avail
  <2> QED BY <2>2, <2>3, RingBounds DEF Index
<1>4. cached_cons = consumer /\ nread = 0 /\ consumer \in Index /\ kprod \in Index
  BY DEF Peek, IndInv, TypeOK, CallInv
<1>5. CASE n > 0
  <2>1. /\ idx' = cached_cons /\ cached_cons' = WrapAdd(cached_cons, n) /\ cnt' = n
        /\ pc' = "read"
        /\ UNCHANGED <<call, nread, ret, producer, consumer, slots, descs, kprod>>
    BY <1>5 DEF Peek
  <2>2. WrapSub(cached_cons', consumer) = n /\ WrapSub(cached_prod', cached_cons') = avail - n
    BY <1>1, <1>3, <1>4, <2>1, AdvanceWithin
  <2>3. cached_cons' \in Index
    BY <1>3, <1>4, <2>1, WrapType
  <2>4. TypeOK'
    <3>1. nread' \in 0 .. cnt' /\ cnt' \in 0 .. call'.nb
      BY <1>3, <1>4, <1>5, <2>1
    <3> QED BY <1>1, <2>1, <2>3, <3>1 DEF IndInv, TypeOK
  <2>5. RingInv'
    <3>1. WrapSub(producer', cached_prod') = unseen /\ WrapSub(kprod', producer') = unpublished
          /\ WrapSub(cached_cons', consumer') = n
      BY <2>1, <2>2
    <3> HIDE DEF n, avail, unseen, unpublished
    <3> QED BY <1>1, <1>2, <1>3, <2>2, <3>1, RingBounds DEF RingInv, Index
  <2>6. CallInv'
    <3>1. WrapAdd(consumer, 0) = consumer
      BY <1>4, WrapAddLinear, RingBounds DEF Index
    <3> QED BY <1>4, <1>5, <2>1, <3>1 DEF CallInv
  <2> QED BY <2>4, <2>5, <2>6 DEF IndInv
<1>6. CASE ~(n > 0)
  <2>1. Return(Ok(0)) /\ UNCHANGED <<cached_cons, producer, consumer, slots, descs, kprod>>
    BY <1>6 DEF Peek
  <2>2. RingInv'
    <3>1. WrapSub(cached_cons', consumer') = 0
      BY <1>4, <2>1, ZeroDistance
    <3>2. /\ WrapSub(cached_prod', cached_cons') = avail
          /\ WrapSub(producer', cached_prod') = unseen
          /\ WrapSub(kprod', producer') = unpublished
      BY <2>1
    <3> HIDE DEF n, avail, unseen, unpublished
    <3> QED BY <1>1, <1>2, <3>1, <3>2, RingBounds DEF RingInv
  <2>3. pc \in {"poll", "peek"}
    BY DEF Peek
  <2> QED BY <1>1, <2>1, <2>2, <2>3, ReturnStep, ResultType
<1> QED BY <1>5, <1>6

\* One turn of the read loop, panicking or not.
LEMMA ReadEntryStep == IndInv /\ ReadEntry => IndInv'
<1> SUFFICES ASSUME IndInv, ReadEntry PROVE IndInv'
  OBVIOUS
<1> USE DEF ringVars, cacheVars
<1>1. /\ call.nb \in Index /\ call.nb \in Nat /\ cnt \in Nat /\ cnt <= call.nb
      /\ nread \in Nat /\ nread < cnt /\ idx \in Index /\ consumer \in Index
      /\ call.nb <= Len(descs) /\ descs \in Seq(FrameDescs)
  BY DEF ReadEntry, IndInv, TypeOK, Index
<1>2. 1 \in Index /\ nread \in Index /\ nread + 1 \in Index
  BY <1>1, RingBounds DEF Index
<1>3. idx = WrapAdd(consumer, nread) /\ pc = "read"
  BY DEF ReadEntry, IndInv, CallInv
<1>4. idx' \in Index
  BY <1>1, <1>2, WrapType DEF ReadEntry
<1>5. descs' \in Seq(FrameDescs) /\ Len(descs') = Len(descs)
  <2>1. Slot(idx) \in SlotId
    BY <1>1, SlotType DEF Index
  <2>2. ToDesc(slots[Slot(idx)]) \in FrameDescs
    BY <2>1, EntryType DEF IndInv, TypeOK
  <2>3. nread + 1 \in 1 .. Len(descs)
    BY <1>1
  <2> QED BY <1>1, <2>2, <2>3 DEF ReadEntry
<1>6. TypeOK'
  <2>1. nread' \in 0 .. cnt'
    BY <1>1 DEF ReadEntry
  <2>2. pc' \in {"read", "panicked"}
    BY DEF ReadEntry
  <2> QED BY <1>4, <1>5, <2>1, <2>2 DEF ReadEntry, IndInv, TypeOK
<1>7. RingInv'
  BY RingUnchanged DEF ReadEntry, IndInv
<1>8. CallInv'
  <2>1. WrapAdd(WrapAdd(consumer, nread), 1) = WrapAdd(consumer, nread + 1)
    <3>1. idx = IF consumer + nread < Modulus THEN consumer + nread
                                              ELSE consumer + nread - Modulus
      BY <1>1, <1>2, <1>3, WrapAddLinear
    <3>2. WrapAdd(idx, 1) = IF idx + 1 < Modulus THEN idx + 1 ELSE idx + 1 - Modulus
      BY <1>1, <1>2, WrapAddLinear
    <3>3. WrapAdd(consumer, nread + 1) =
            IF consumer + (nread + 1) < Modulus
              THEN consumer + (nread + 1) ELSE consumer + (nread + 1) - Modulus
      BY <1>1, <1>2, WrapAddLinear
    <3> QED BY <1>1, <1>2, <1>3, <3>1, <3>2, <3>3, RingBounds DEF Index
  <2>2. pc' = "read" => idx' = WrapAdd(consumer', nread')
    BY <1>3, <2>1 DEF ReadEntry
  <2>3. pc' \in {"read", "panicked"}
    BY DEF ReadEntry
  <2> QED BY <1>3, <2>2, <2>3 DEF ReadEntry, IndInv, CallInv
<1> QED BY <1>6, <1>7, <1>8 DEF IndInv

\* Releasing what was peeked.
LEMMA ReleaseStep == IndInv /\ Release => IndInv'
<1> SUFFICES ASSUME IndInv, Release PROVE IndInv'
  OBVIOUS
<1> USE DEF cacheVars
<1>1. 0 \in Index /\ cnt \in Index
  BY RingBounds DEF IndInv, TypeOK, Index
<1>2. consumer' = cached_cons /\ consumer' \in Index
  BY DEF Release, IndInv, TypeOK, CallInv
<1>3. TypeOK'
  <2>1. call' \in [nb : Index, one : BOOLEAN, start : Index] /\ call'.nb = 0
    BY <1>1 DEF Release, Return, NoCall
  <2>2. Len(descs') \in Nat /\ ret' \in [ok : BOOLEAN, cnt : Index]
    BY <1>1 DEF Release, Return, Ok, IndInv, TypeOK
  <2> QED BY <1>1, <1>2, <2>1, <2>2 DEF Release, Return, IndInv, TypeOK
<1>4. RingInv'
  <2>1. WrapSub(cached_cons', consumer') = 0
    BY <1>2, ZeroDistance DEF Release
  <2>2. /\ WrapSub(cached_prod', cached_cons') = WrapSub(cached_prod, cached_cons)
        /\ WrapSub(producer', cached_prod') = WrapSub(producer, cached_prod)
        /\ WrapSub(kprod', producer') = WrapSub(kprod, producer)
    BY DEF Release
  <2> QED BY <2>1, <2>2, DistanceTypes, RingBounds DEF IndInv, RingInv
<1>5. CallInv'
  BY <1>2 DEF Release, Return, CallInv
<1> QED BY <1>3, <1>4, <1>5 DEF IndInv

\* The kernel writes into a slot nobody needs.
LEMMA KWriteStep == IndInv /\ KWrite => IndInv'
<1> SUFFICES ASSUME IndInv, KWrite PROVE IndInv'
  OBVIOUS
<1> USE DEF cacheVars, callVars, localVars
<1> DEFINE peeked == WrapSub(cached_cons, consumer)
           avail == WrapSub(cached_prod, cached_cons)
           unseen == WrapSub(producer, cached_prod)
           unpublished == WrapSub(kprod, producer)
<1>1. /\ peeked \in Nat /\ avail \in Nat /\ unseen \in Nat /\ unpublished \in Nat
      /\ peeked + avail + unseen + unpublished <= Size
  BY DistanceTypes DEF IndInv, RingInv
<1>2. 1 \in Index /\ kprod \in Index /\ kprod' = WrapAdd(kprod, 1) /\ kprod' \in Index
  BY RingBounds, WrapType DEF KWrite, IndInv, TypeOK, Index
<1>3. WrapSub(kprod, consumer) < Size
  BY DEF KWrite
<1> HIDE DEF peeked, avail, unseen, unpublished
<1>4. WrapSub(kprod, consumer) = peeked + avail + unseen + unpublished
  <2>1. /\ peeked + avail < Modulus
        /\ peeked + avail + unseen < Modulus
        /\ peeked + avail + unseen + unpublished < Modulus
    BY <1>1, RingBounds
  <2>2. WrapSub(cached_prod, consumer) = peeked + avail
    BY <2>1, DistancesAdd DEF IndInv, TypeOK, peeked, avail
  <2>3. WrapSub(producer, consumer) = peeked + avail + unseen
    BY <2>1, <2>2, DistancesAdd DEF IndInv, TypeOK, unseen
  <2> QED BY <2>1, <2>3, DistancesAdd DEF IndInv, TypeOK, unpublished
<1>5. WrapSub(kprod', producer) = unpublished + 1
  <2>1. WrapSub(kprod', kprod) = 1
    BY <1>2, AdvanceBy
  <2>2. unpublished + 1 < Modulus
    BY <1>1, <1>3, <1>4, RingBounds
  <2> QED BY <1>2, <2>1, <2>2, DistancesAdd DEF IndInv, TypeOK, unpublished
<1>6. RingInv'
  <2>1. /\ WrapSub(cached_cons', consumer') = peeked
        /\ WrapSub(cached_prod', cached_cons') = avail
        /\ WrapSub(producer', cached_prod') = unseen
        /\ WrapSub(kprod', producer') = unpublished + 1
    BY <1>5 DEF KWrite, peeked, avail, unseen
  <2> QED BY <1>1, <1>3, <1>4, <2>1, RingBounds DEF RingInv
<1>7. TypeOK'
  <2>1. slots' \in [SlotId -> RingEntries]
    BY EntryType DEF KWrite, IndInv, TypeOK
  <2> QED BY <1>2, <2>1 DEF KWrite, IndInv, TypeOK
<1>8. CallInv'
  BY DEF KWrite, IndInv, CallInv
<1> QED BY <1>6, <1>7, <1>8 DEF IndInv

\* The kernel publishes what it has written.
LEMMA KSubmitStep == IndInv /\ KSubmit => IndInv'
<1> SUFFICES ASSUME IndInv, KSubmit PROVE IndInv'
  OBVIOUS
<1> USE DEF cacheVars, callVars, localVars
<1> DEFINE peeked == WrapSub(cached_cons, consumer)
           avail == WrapSub(cached_prod, cached_cons)
           unseen == WrapSub(producer, cached_prod)
           unpublished == WrapSub(kprod, producer)
<1>1. /\ peeked \in Nat /\ avail \in Nat /\ unseen \in Nat /\ unpublished \in Nat
      /\ peeked + avail + unseen + unpublished <= Size
  BY DistanceTypes DEF IndInv, RingInv
<1> HIDE DEF peeked, avail, unseen, unpublished
<1>2. WrapSub(kprod, cached_prod) = unseen + unpublished
  <2>1. unseen + unpublished < Modulus
    BY <1>1, RingBounds
  <2> QED BY <2>1, DistancesAdd DEF IndInv, TypeOK, unseen, unpublished
<1>3. RingInv'
  <2>1. /\ WrapSub(cached_cons', consumer') = peeked
        /\ WrapSub(cached_prod', cached_cons') = avail
        /\ WrapSub(producer', cached_prod') = unseen + unpublished
        /\ WrapSub(kprod', producer') = 0
    BY <1>2, ZeroDistance DEF KSubmit, IndInv, TypeOK, peeked, avail
  <2> QED BY <1>1, <2>1, RingBounds DEF RingInv
<1>4. TypeOK'
  BY DEF KSubmit, IndInv, TypeOK
<1>5. CallInv'
  BY DEF KSubmit, IndInv, CallInv
<1> QED BY <1>3, <1>4, <1>5 DEF IndInv

\* Every step preserves the inductive invariant.
LEMMA NextIndInv == IndInv /\ [Next]_vars => IndInv'
<1> SUFFICES ASSUME IndInv, [Next]_vars PROVE IndInv'
  OBVIOUS
<1>1. CASE Consume \/ PollAndConsume
  <2>1. PICK n \in 0 .. MaxBatch, polls \in BOOLEAN : Enter(n, FALSE, polls)
    BY <1>1 DEF Consume, PollAndConsume
  <2>2. n \in Nat
    BY ConsAssumption
  <2> QED BY <2>1, <2>2, EnterStep
<1>2. CASE ConsumeOne \/ PollAndConsumeOne
  <2>1. PICK polls \in BOOLEAN : Enter(1, TRUE, polls)
    BY <1>2 DEF ConsumeOne, PollAndConsumeOne
  <2> QED BY <2>1, EnterStep
<1>3. CASE PollReady \/ PollTimesOut \/ PollInterrupted \/ PollFails \/ ReturnEmpty
  BY <1>3, PollSteps
<1>4. CASE Peek
  BY <1>4, PeekStep
<1>5. CASE ReadEntry
  BY <1>5, ReadEntryStep
<1>6. CASE Release
  BY <1>6, ReleaseStep
<1>7. CASE KWrite
  BY <1>7, KWriteStep
<1>8. CASE KSubmit
  BY <1>8, KSubmitStep
<1>9. CASE UNCHANGED vars
  BY <1>9 DEF vars, ringVars, cacheVars, callVars, localVars, IndInv, TypeOK, RingInv, CallInv
<1> QED BY <1>1, <1>2, <1>3, <1>4, <1>5, <1>6, <1>7, <1>8, <1>9 DEF Next, UserStep

-----------------------------------------------------------------------------
(* Invariants *)

\* The inductive invariant of consume and the kernel holds in every state.
THEOREM Invariance == Spec => []IndInv
BY InitIndInv, NextIndInv, PTL DEF Spec

\* Counters remain u32s and the locals of consume stay within the slice.
THEOREM TypeCorrect == Spec => []TypeOK
<1>1. IndInv => TypeOK
  BY DEF IndInv
<1> QED BY <1>1, Invariance, PTL

\* The loop of consume only ever reads slots that the kernel has published and
\* that are still held, however stale libxdp's cached producer index is.
THEOREM SafeReads == Spec => []ReadsOnlyPublished
<1>1. IndInv => ReadsOnlyPublished
  <2> SUFFICES ASSUME IndInv, pc = "read", nread < cnt
               PROVE  idx \in Window(consumer, WrapSub(producer, consumer))
    BY DEF ReadsOnlyPublished
  <2> DEFINE peeked == WrapSub(cached_cons, consumer)
             avail == WrapSub(cached_prod, cached_cons)
             unseen == WrapSub(producer, cached_prod)
             unpublished == WrapSub(kprod, producer)
  <2>1. /\ peeked \in Nat /\ avail \in Nat /\ unseen \in Nat /\ unpublished \in Nat
        /\ peeked + avail + unseen + unpublished <= Size
    BY DistanceTypes DEF IndInv, RingInv
  <2>2. cnt \in Index /\ cnt \in Nat /\ nread \in Nat /\ consumer \in Index
    <3>1. call.nb \in Index /\ cnt \in 0 .. call.nb /\ nread \in 0 .. cnt /\ consumer \in Index
      BY DEF IndInv, TypeOK
    <3> QED BY <3>1, RingBounds DEF Index
  <2>3. peeked = cnt
    BY <2>2, AdvanceBy DEF IndInv, CallInv
  <2> HIDE DEF peeked, avail, unseen, unpublished
  <2>4. WrapSub(producer, consumer) = peeked + avail + unseen
    <3>1. peeked + avail < Modulus /\ peeked + avail + unseen < Modulus
      BY <2>1, RingBounds
    <3>2. WrapSub(cached_prod, consumer) = peeked + avail
      BY <3>1, DistancesAdd DEF IndInv, TypeOK, peeked, avail
    <3> QED BY <3>1, <3>2, DistancesAdd DEF IndInv, TypeOK, unseen
  <2>5. nread \in 0 .. (WrapSub(producer, consumer) - 1)
    BY <2>1, <2>2, <2>3, <2>4
  <2>6. idx = WrapAdd(consumer, nread)
    BY DEF IndInv, CallInv
  <2> QED BY <2>5, <2>6 DEF Window
<1> QED BY <1>1, Invariance, PTL

\* In builds where `idx += 1` wraps, no call of consume ever ends with slots
\* peeked that it did not release.
THEOREM NothingHeldBack == ~OverflowChecks => (Spec => []PeekedIsReleased)
<1> SUFFICES ASSUME ~OverflowChecks PROVE Spec => []PeekedIsReleased
  OBVIOUS
<1> DEFINE Sane == pc # "panicked"
<1>1. Init => Sane
  BY DEF Init
<1>2. Sane /\ [Next]_vars => Sane'
  BY DEF Next, vars, callVars, UserStep, Consume, ConsumeOne, PollAndConsume,
         PollAndConsumeOne, Enter, PollReady, PollTimesOut, PollInterrupted, PollFails,
         ReturnEmpty, Peek, ReadEntry, Overflows, Release, Return, KWrite, KSubmit
<1>3. IndInv /\ Sane => PeekedIsReleased
  BY DEF IndInv, TypeOK, CallInv, PeekedIsReleased
<1> QED BY <1>1, <1>2, <1>3, Invariance, PTL DEF Spec

-----------------------------------------------------------------------------
(* Action properties *)

\* Only Peek and ReturnEmpty leave the peeking state.
LEMMA LeavingPeek ==
  ASSUME [Next]_vars, pc = "peek", pc' # "peek"
  PROVE  Peek \/ ReturnEmpty
BY DEF Next, vars, callVars, UserStep, Consume, ConsumeOne, PollAndConsume,
       PollAndConsumeOne, Enter, PollReady, PollTimesOut, PollInterrupted, PollFails,
       ReadEntry, Release, KWrite, KSubmit

\* consume comes back empty-handed exactly if the kernel had published nothing.
THEOREM ExactEmptiness == Spec => EmptyMeansEmpty
<1>1. IndInv /\ [Next]_vars =>
        ((pc = "peek" /\ pc' # "peek" /\ call.nb > 0)
           => (pc' = "idle" <=> producer = consumer))
  <2> SUFFICES ASSUME IndInv, [Next]_vars, pc = "peek", pc' # "peek", call.nb > 0
               PROVE  pc' = "idle" <=> producer = consumer
    OBVIOUS
  <2> DEFINE n == Granted(cached_prod', call.nb)
  <2>1. call.nb \in Index /\ call.nb \in Nat
    BY DEF IndInv, TypeOK, Index
  <2>2. Peek
    BY <2>1, LeavingPeek DEF ReturnEmpty
  <2>3. /\ cached_prod' \in Index
        /\ WrapSub(cached_prod', cached_cons) = 0 <=> producer = consumer
    BY <2>2, PeekCache DEF Peek
  <2>4. n \in 0 .. call.nb /\ (n = 0 <=> WrapSub(cached_prod', cached_cons) = 0)
    BY <2>1, <2>3, GrantedBound DEF IndInv
  <2>5. pc' = "idle" <=> ~(n > 0)
    BY <2>2 DEF Peek, Return
  <2> HIDE DEF n
  <2>6. n = 0 <=> ~(n > 0)
    BY <2>1, <2>4
  <2> QED BY <2>3, <2>4, <2>5, <2>6
<1> QED BY <1>1, Invariance, PTL DEF Spec, EmptyMeansEmpty

\* The state of the caller's slice, by how far the call has come: what is copied
\* still agrees with the slots it was copied from.
AccountInv ==
  /\ pc \in {"poll", "peek", "read"} => call.start = consumer
  /\ pc \in {"poll", "peek"} => \A k \in 1 .. Len(descs) : descs[k] = StaleDesc
  /\ pc = "read" => \A k \in 1 .. Len(descs) :
                      IF k <= nread
                        THEN Describes(descs[k], slots[Slot(WrapAdd(consumer, k - 1))])
                        ELSE descs[k] = StaleDesc

\* What ResultIsHonest asks of the step that ends a call.
Honest ==
  (pc # "idle" /\ pc' = "idle")
    => /\ WrapSub(consumer', call.start) = ret'.cnt
       /\ \A k \in 1 .. Len(descs') :
            IF k <= ret'.cnt
              THEN Describes(descs'[k], slots'[Slot(WrapAdd(call.start, k - 1))])
              ELSE descs'[k] = StaleDesc

\* The kernel writes to none of the slots the call is reading from.
LEMMA PeekedSlotsAreKept ==
  ASSUME IndInv, KWrite, pc = "read", NEW k \in 1 .. nread
  PROVE  slots'[Slot(WrapAdd(consumer, k - 1))] = slots[Slot(WrapAdd(consumer, k - 1))]
<1>1. PICK a \in Nat, b \in Nat, c \in Nat, d \in Nat :
        /\ a = WrapSub(cached_cons, consumer) /\ b = WrapSub(cached_prod, cached_cons)
        /\ c = WrapSub(producer, cached_prod) /\ d = WrapSub(kprod, producer)
        /\ a + b + c + d <= Size
  BY DistanceTypes DEF IndInv, RingInv
<1>2. /\ consumer \in Index /\ cached_cons \in Index /\ cached_prod \in Index
      /\ producer \in Index /\ kprod \in Index
  BY DEF IndInv, TypeOK
<1>3. k \in Nat /\ 1 <= k /\ k <= a
  <2>1. cnt \in Nat /\ cnt \in Index /\ nread \in Nat /\ nread <= cnt
    BY RingBounds DEF IndInv, TypeOK, Index
  <2>2. a = cnt
    BY <1>1, <1>2, <2>1, AdvanceBy DEF IndInv, CallInv
  <2> QED BY <2>1, <2>2
<1>4. PICK w \in Nat : w = WrapSub(kprod, consumer) /\ w = a + b + c + d
  <2>1. WrapSub(cached_prod, consumer) = a + b
    BY <1>1, <1>2, DistancesAdd, RingBounds
  <2>2. WrapSub(producer, consumer) = a + b + c
    BY <1>1, <1>2, <2>1, DistancesAdd, RingBounds
  <2> QED BY <1>1, <1>2, <2>2, DistancesAdd, RingBounds
<1>5. w < Size
  BY <1>4 DEF KWrite
<1>6. w \in SlotId /\ k - 1 \in SlotId /\ w # k - 1
  BY <1>1, <1>3, <1>4, <1>5, RingBounds DEF SlotId
<1>7. kprod = WrapAdd(consumer, w)
  <2>1. WrapAdd(consumer, WrapSub(kprod, consumer)) = kprod
    BY <1>2, WrapAddSub
  <2> QED BY <1>4, <2>1
<1>8. Slot(kprod) # Slot(WrapAdd(consumer, k - 1))
  BY <1>2, <1>6, <1>7, WindowSlotsDiffer
<1>9. PICK p \in Packets : slots' = [slots EXCEPT ![Slot(kprod)] = KernelEntry(p)]
  BY DEF KWrite
<1>10. Slot(WrapAdd(consumer, k - 1)) \in SlotId
  <2>1. k - 1 \in Index
    BY <1>6, RingBounds DEF SlotId, Index
  <2>2. WrapAdd(consumer, k - 1) \in Int
    BY <1>2, <2>1, WrapType DEF Index
  <2> QED BY <2>2, SlotType
<1>11. slots \in [SlotId -> RingEntries]
  BY DEF IndInv, TypeOK
<1> QED BY <1>8, <1>9, <1>10, <1>11

\* Calls that return before anything was peeked leave slice and ring alone.
LEMMA ReturnsNothing ==
  ASSUME IndInv, AccountInv, pc \in {"poll", "peek"}, Return(Ok(0)) \/ Return(Err),
         UNCHANGED <<consumer, descs>>
  PROVE  AccountInv' /\ Honest
<1>1. pc' = "idle" /\ ret'.cnt = 0
  BY DEF Return, Ok, Err
<1>2. WrapSub(consumer', call.start) = 0
  BY ZeroDistance DEF AccountInv, IndInv, TypeOK
<1>3. \A k \in 1 .. Len(descs') : ~(k <= 0) /\ descs'[k] = StaleDesc
  <2>1. Len(descs') \in Nat
    BY DEF IndInv, TypeOK
  <2> QED BY <2>1 DEF AccountInv
<1> QED BY <1>1, <1>2, <1>3 DEF AccountInv, Honest

\* Each step keeps the account, and a step that ends a call reports it truly.
LEMMA AccountStep ==
  ASSUME IndInv, AccountInv, [Next]_vars
  PROVE  AccountInv' /\ Honest
<1> USE DEF ringVars, cacheVars, callVars, localVars
<1>1. ASSUME Consume \/ ConsumeOne \/ PollAndConsume \/ PollAndConsumeOne
      PROVE  AccountInv' /\ Honest
  <2>1. PICK n \in Nat : \E one, polls \in BOOLEAN : Enter(n, one, polls)
    <3>1. 1 \in Nat /\ 0 .. MaxBatch \subseteq Nat
      BY ConsAssumption
    <3>2. \E n \in (0 .. MaxBatch) \cup {1} : \E one, polls \in BOOLEAN : Enter(n, one, polls)
      BY <1>1 DEF Consume, ConsumeOne, PollAndConsume, PollAndConsumeOne
    <3> QED BY <3>1, <3>2
  <2>2. /\ pc = "idle" /\ pc' \in {"poll", "peek"} /\ call'.start = consumer
        /\ consumer' = consumer
    BY <2>1 DEF Enter
  <2>3. \A k \in 1 .. Len(descs') : descs'[k] = StaleDesc
    BY <2>1 DEF Enter
  <2> QED BY <2>2, <2>3 DEF AccountInv, Honest
<1>2. ASSUME PollReady PROVE AccountInv' /\ Honest
  BY <1>2 DEF PollReady, AccountInv, Honest
<1>3. ASSUME PollTimesOut \/ PollInterrupted \/ PollFails \/ ReturnEmpty
      PROVE  AccountInv' /\ Honest
  BY <1>3, ReturnsNothing DEF PollTimesOut, PollInterrupted, PollFails, ReturnEmpty
<1>4. ASSUME Peek PROVE AccountInv' /\ Honest
  <2>1. pc = "peek" /\ nread = 0 /\ UNCHANGED <<consumer, descs>>
    BY <1>4 DEF Peek, IndInv, CallInv
  <2>2. CASE pc' = "read"
    <3>1. UNCHANGED <<call, nread>>
      BY <1>4, <2>2 DEF Peek, Return
    <3>2. \A k \in 1 .. Len(descs') : ~(k <= 0) /\ descs'[k] = StaleDesc
      <4>1. Len(descs') \in Nat
        BY <2>1 DEF IndInv, TypeOK
      <4> QED BY <2>1, <4>1 DEF AccountInv
    <3> QED BY <2>1, <2>2, <3>1, <3>2 DEF AccountInv, Honest
  <2>3. CASE pc' # "read"
    <3>1. Return(Ok(0))
      BY <1>4, <2>3 DEF Peek
    <3> QED BY <2>1, <3>1, ReturnsNothing
  <2> QED BY <2>2, <2>3
<1>5. ASSUME ReadEntry PROVE AccountInv' /\ Honest
  <2>1. /\ pc = "read" /\ pc' \in {"read", "panicked"} /\ nread' = nread + 1
        /\ UNCHANGED <<call, consumer>>
        /\ descs' = [descs EXCEPT ![nread + 1] = ToDesc(slots[Slot(idx)])]
    BY <1>5 DEF ReadEntry
  <2>2. descs \in Seq(FrameDescs) /\ nread \in Nat /\ Len(descs') = Len(descs)
    BY <2>1 DEF IndInv, TypeOK
  <2>3. /\ UNCHANGED slots /\ idx = WrapAdd(consumer, nread)
        /\ Describes(ToDesc(slots[Slot(idx)]), slots[Slot(idx)])
    BY <1>5 DEF ReadEntry, IndInv, CallInv, Describes, ToDesc, RxDesc, CompDesc
  <2>4. ASSUME NEW k \in 1 .. Len(descs')
        PROVE  IF k <= nread'
                 THEN Describes(descs'[k], slots'[Slot(WrapAdd(consumer', k - 1))])
                 ELSE descs'[k] = StaleDesc
    <3>1. k \in 1 .. Len(descs) /\ k \in Nat
      BY <2>2
    <3>2. CASE k = nread + 1
      <4>1. descs'[k] = ToDesc(slots[Slot(idx)])
        BY <2>1, <2>2, <3>1, <3>2
      <4>2. k - 1 = nread /\ k <= nread'
        BY <2>1, <2>2, <3>2
      <4> QED BY <2>1, <2>3, <4>1, <4>2
    <3>3. CASE k # nread + 1
      <4>1. descs'[k] = descs[k] /\ (k <= nread' <=> k <= nread)
        BY <2>1, <2>2, <3>1, <3>3
      <4>2. IF k <= nread
              THEN Describes(descs[k], slots[Slot(WrapAdd(consumer, k - 1))])
              ELSE descs[k] = StaleDesc
        BY <2>1, <3>1 DEF AccountInv
      <4> QED BY <2>1, <2>3, <4>1, <4>2
    <3> QED BY <3>2, <3>3
  <2> QED BY <2>1, <2>4 DEF AccountInv, Honest
<1>6. ASSUME Release PROVE AccountInv' /\ Honest
  <2>1. /\ pc = "read" /\ pc' = "idle" /\ nread = cnt /\ ret'.cnt = cnt
        /\ consumer' = WrapAdd(consumer, cnt) /\ UNCHANGED <<descs, slots>>
    BY <1>6 DEF Release, Return, Ok
  <2>2. WrapSub(consumer', call.start) = cnt
    <3>1. /\ consumer \in Index /\ call.start = consumer
          /\ call.nb \in Index /\ cnt \in 0 .. call.nb
      BY <2>1 DEF IndInv, TypeOK, AccountInv
    <3>2. cnt \in Index
      BY <3>1, RingBounds DEF Index
    <3> QED BY <2>1, <3>1, <3>2, AdvanceBy
  <2> QED BY <2>1, <2>2 DEF AccountInv, Honest
<1>7. ASSUME KWrite PROVE AccountInv' /\ Honest
  <2>1. UNCHANGED <<pc, call, nread, descs, consumer>>
    BY <1>7 DEF KWrite
  <2>2. ASSUME pc = "read", NEW k \in 1 .. Len(descs)
        PROVE  IF k <= nread
                 THEN Describes(descs[k], slots'[Slot(WrapAdd(consumer, k - 1))])
                 ELSE descs[k] = StaleDesc
    <3>1. IF k <= nread
            THEN Describes(descs[k], slots[Slot(WrapAdd(consumer, k - 1))])
            ELSE descs[k] = StaleDesc
      BY <2>2 DEF AccountInv
    <3>2. nread \in Nat /\ k \in Nat /\ 1 <= k
      BY DEF IndInv, TypeOK
    <3>3. k <= nread => k \in 1 .. nread
      BY <3>2
    <3> QED BY <1>7, <2>2, <3>1, <3>3, PeekedSlotsAreKept
  <2> QED BY <2>1, <2>2 DEF AccountInv, Honest
<1>8. ASSUME KSubmit \/ UNCHANGED vars PROVE AccountInv' /\ Honest
  <2>1. UNCHANGED <<pc, call, nread, descs, consumer, slots>>
    BY <1>8 DEF KSubmit, vars
  <2> QED BY <2>1 DEF AccountInv, Honest
<1> QED BY <1>1, <1>2, <1>3, <1>4, <1>5, <1>6, <1>7, <1>8 DEF Next, UserStep

\* Ok(n) from consume means that n slots went back to the kernel and exactly the
\* first n descriptors were overwritten, each in every field with what its slot
\* says; an error means nothing moved.
THEOREM HonestResults == Spec => ResultIsHonest
<1>1. Init => AccountInv
  BY DEF Init, AccountInv
<1>2. IndInv /\ AccountInv /\ [Next]_vars => AccountInv'
  BY AccountStep
<1>3. IndInv /\ AccountInv /\ [Next]_vars =>
        ((pc # "idle" /\ pc' = "idle")
           => /\ WrapSub(consumer', call.start) = ret'.cnt
              /\ \A k \in 1 .. Len(descs') :
                   IF k <= ret'.cnt
                     THEN Describes(descs'[k], slots'[Slot(WrapAdd(call.start, k - 1))])
                     ELSE descs'[k] = StaleDesc)
  BY AccountStep DEF Honest
<1> QED BY <1>1, <1>2, <1>3, Invariance, PTL DEF Spec, ResultIsHonest

=============================================================================
