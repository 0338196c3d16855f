--------------------------- MODULE ProdQueueProofs ---------------------------
(***************************************************************************)
(* Proofs about ProdQueue, for every ring size, index width and set of     *)
(* descriptors, for both kinds of queue.                                   *)
(*                                                                         *)
(* None of the properties is inductive: each depends on where the six      *)
(* counters stand relative to each other, and on the call in progress      *)
(* being in step with them.  RingInv and CallInv say just that.            *)
(***************************************************************************)
EXTENDS ProdQueue, RingIndexTheorems

\* Going round the ring from the consumer index one meets the slots the kernel
\* holds, those it has still to take, those the call has reserved, and those
\* the cached consumer index knows to be free: together at most Size.
RingInv ==
  /\ WrapSub(kcons, consumer) + WrapSub(producer, kcons)
       + WrapSub(cached_prod, producer) + WrapSub(cached_cons, cached_prod) <= Size
  /\ WrapSub(kcons, consumer) + WrapSub(producer, kcons) = Occupied

\* Where the call is determines what is reserved and where it writes next.
CallInv ==
  /\ call.one => Len(call.descs) = 1
  /\ pc \in {"idle", "reserve", "check", "wake"} => cached_prod = producer /\ written = 0
  /\ pc \in {"write", "panicked"} =>
       /\ cached_prod = WrapAdd(producer, cnt)
       /\ cnt = Nb(call) /\ cnt > 0
  /\ pc = "write" => idx = WrapAdd(producer, written)

IndInv == TypeOK /\ RingInv /\ CallInv

-----------------------------------------------------------------------------

\* The nb of a call is a u32 and never exceeds the slice it was computed from.
LEMMA NbBound ==
  ASSUME NEW c \in CallType, c.one => Len(c.descs) = 1
  PROVE  Nb(c) \in Index /\ Nb(c) <= Len(c.descs)
<1> DEFINE n == Len(c.descs)
<1>1. n \in Nat /\ c.one \in BOOLEAN
  BY DEF CallType
<1>2. 1 \in Index
  BY RingAssumption DEF Index
<1> HIDE DEF n
<1>3. n % Modulus \in Index /\ n % Modulus <= n
  BY <1>1, RingAssumption DEF Index
<1>4. CASE c.one
  <2>1. Nb(c) = 1
    BY <1>4 DEF Nb
  <2>2. Len(c.descs) = 1
    BY <1>4
  <2> QED BY <1>2, <2>1, <2>2
<1>5. CASE ~c.one
  <2>1. Nb(c) = n % Modulus
    BY <1>5 DEF Nb, n
  <2> QED BY <1>3, <2>1 DEF n
<1> QED BY <1>1, <1>4, <1>5

\* Every slice a client may pass is a sequence of descriptors.
LEMMA BatchesAreSequences == Batches \subseteq Seq(Descs)
BY DEF Batches

\* Entries written by a call are ring entries, and so is the blank one.
LEMMA EntryType ==
  /\ BlankEntry \in RingEntries
  /\ \A d \in Descs : Entry(d) \in RingEntries
BY DEF RingEntries

\* The initial state satisfies the inductive invariant.
LEMMA InitIndInv == Init => IndInv
<1> SUFFICES ASSUME Init PROVE IndInv
  OBVIOUS
<1>1. 0 \in Index /\ Size \in Index
  BY RingAssumption DEF Index
<1>2. TypeOK
  <2>1. slots \in [SlotId -> RingEntries]
    BY EntryType DEF Init
  <2>2. call \in CallType
    BY <1>1 DEF Init, NoCall, CallType
  <2>3. ret \in [ok : BOOLEAN, cnt : Index]
    BY <1>1 DEF Init, Ok
  <2> QED BY <1>1, <2>1, <2>2, <2>3 DEF Init, TypeOK
<1>3. RingInv
  <2>1. WrapSub(0, 0) = 0 /\ WrapSub(Size, 0) = Size
    BY <1>1, WrapSubLinear, RingAssumption
  <2> QED BY <2>1, RingAssumption DEF Init, RingInv, Occupied
<1>4. CallInv
  BY DEF Init, CallInv, NoCall
<1> QED BY <1>2, <1>3, <1>4 DEF IndInv

-----------------------------------------------------------------------------
(* Steps.  Leaving a call, and entering one, touch no shared state, so their *)
(* effect on the invariant is proved once.                                   *)

\* Returning an Ok or Err result keeps the locals well typed.
LEMMA ReturnType ==
  ASSUME TypeOK, NEW r \in [ok : BOOLEAN, cnt : Index], Return(r)
  PROVE  /\ ret' \in [ok : BOOLEAN, cnt : Index]
         /\ pc' = "idle" /\ call' \in CallType
         /\ cnt' = 0 /\ idx' \in Index /\ cnt' \in Index /\ written' \in 0 .. cnt' /\ written' = 0
         /\ call'.one => Len(call'.descs) = 1
<1>1. 0 \in Index
  BY RingAssumption DEF Index
<1>2. NoCall(0) \in CallType /\ ~NoCall(0).one
  BY <1>1 DEF NoCall, CallType
<1> QED BY <1>1, <1>2 DEF Return

\* The step from produce to the wakeup check, or out of the call.
LEMMA AfterProduceType ==
  ASSUME IndInv, NEW n \in Index, AfterProduce(n)
  PROVE  /\ ret' \in [ok : BOOLEAN, cnt : Index]
         /\ pc' \in {"idle", "check"} /\ call' \in CallType
         /\ idx' \in Index /\ cnt' \in Index /\ written' \in 0 .. cnt' /\ written' = 0
         /\ call'.one => Len(call'.descs) = 1
<1>1. 0 \in Index /\ \A m \in Index : 0 \in 0 .. m
  BY RingAssumption DEF Index
<1>2. CASE call.wake
  BY <1>1, <1>2 DEF AfterProduce, IndInv, TypeOK, CallInv
<1>3. CASE ~call.wake
  <2>1. Ok(n) \in [ok : BOOLEAN, cnt : Index]
    BY DEF Ok
  <2>2. Return(Ok(n))
    BY <1>3 DEF AfterProduce
  <2> QED BY <2>1, <2>2, ReturnType DEF IndInv
<1> QED BY <1>2, <1>3

\* Entering a call.
LEMMA EnterStep ==
  ASSUME IndInv, NEW ds \in Seq(Descs), NEW one \in BOOLEAN, NEW wake \in BOOLEAN,
         one => Len(ds) = 1, Enter(ds, one, wake)
  PROVE  IndInv'
<1>1. call' \in CallType /\ (call'.one => Len(call'.descs) = 1)
  BY DEF Enter, CallType, IndInv, TypeOK
<1>2. TypeOK'
  BY <1>1 DEF Enter, IndInv, TypeOK, ringVars, cacheVars
<1>3. RingInv'
  BY DEF Enter, IndInv, RingInv, Occupied, ringVars, cacheVars
<1>4. CallInv'
  BY <1>1 DEF Enter, IndInv, CallInv, ringVars, cacheVars
<1> QED BY <1>2, <1>3, <1>4 DEF IndInv

\* A step that changes no counter and only leaves a call preserves RingInv.
LEMMA RingUnchanged ==
  ASSUME RingInv, UNCHANGED <<producer, consumer, kcons, cached_prod, cached_cons>>
  PROVE  RingInv'
BY DEF RingInv, Occupied

\* produce on an empty slice.
LEMMA ReturnEmptyStep == IndInv /\ ReturnEmpty => IndInv'
<1> SUFFICES ASSUME IndInv, ReturnEmpty PROVE IndInv'
  OBVIOUS
<1> USE DEF ringVars, cacheVars
<1>1. 0 \in Index
  BY RingAssumption DEF Index
<1>2. /\ ret' \in [ok : BOOLEAN, cnt : Index]
      /\ pc' \in {"idle", "check"} /\ call' \in CallType
      /\ idx' \in Index /\ cnt' \in Index /\ written' \in 0 .. cnt' /\ written' = 0
      /\ call'.one => Len(call'.descs) = 1
  BY <1>1, AfterProduceType DEF ReturnEmpty
<1>3. TypeOK'
  BY <1>2 DEF ReturnEmpty, IndInv, TypeOK
<1>4. RingInv'
  BY RingUnchanged DEF ReturnEmpty, IndInv
<1>5. CallInv'
  BY <1>2 DEF ReturnEmpty, IndInv, CallInv
<1> QED BY <1>3, <1>4, <1>5 DEF IndInv

\* xsk_ring_prod__reserve, granted or refused, from the cache or after reading
\* the consumer index again.
LEMMA ReserveStep == IndInv /\ Reserve => IndInv'
<1> SUFFICES ASSUME IndInv, Reserve PROVE IndInv'
  OBVIOUS
<1> USE DEF ringVars, cacheVars
<1> DEFINE n == Nb(call)
           free == WrapSub(cached_cons', cached_prod)
<1>1. n \in Index /\ n > 0 /\ 0 \in Index
  BY NbBound, RingAssumption DEF Reserve, IndInv, TypeOK, CallInv, Index
<1>2. cached_prod = producer /\ WrapSub(cached_prod, producer) = 0 /\ Occupied <= Size
  <2>1. cached_prod = producer
    BY DEF Reserve, IndInv, CallInv
  <2>2. WrapSub(cached_prod, producer) = 0 /\ WrapSub(cached_cons, cached_prod) \in Nat
        /\ Occupied \in Nat
    BY <2>1, ZeroDistance DEF IndInv, TypeOK, Occupied
  <2> QED BY <2>1, <2>2, RingBounds DEF IndInv, RingInv
<1>3. cached_cons' \in Index /\ free \in Nat /\ Occupied + free <= Size
  <2>1. CASE WrapSub(cached_cons, cached_prod) >= n
    <3>1. cached_cons' = cached_cons
      BY <2>1 DEF Reserve, NbFreeCache
    <3>2. free \in Nat /\ Occupied \in Nat
      BY <3>1, ZeroDistance DEF IndInv, TypeOK, Occupied
    <3> QED BY <1>2, <3>1, <3>2, RingBounds DEF IndInv, TypeOK, RingInv
  <2>2. CASE ~(WrapSub(cached_cons, cached_prod) >= n)
    <3>1. cached_cons' = WrapAdd(consumer, Size)
      BY <2>2 DEF Reserve, NbFreeCache
    <3>2. Occupied \in Nat
      BY ZeroDistance DEF IndInv, TypeOK, Occupied
    <3>3. cached_cons' \in Index /\ free = Size - Occupied
      BY <1>2, <3>1, RefreshShowsAll DEF IndInv, TypeOK, Occupied
    <3> QED BY <1>2, <3>2, <3>3, RingBounds
  <2> QED BY <2>1, <2>2
<1>4. CASE free >= n
  <2>1. /\ idx' = cached_prod /\ cached_prod' = WrapAdd(cached_prod, n)
        /\ cnt' = n /\ pc' = "write"
        /\ UNCHANGED <<call, written, ret, ringVars, kcons>>
    BY <1>4 DEF Reserve
  <2>2. /\ WrapSub(cached_prod', producer) = n
        /\ WrapSub(cached_cons', cached_prod') = free - n
    BY <1>1, <1>2, <1>3, <1>4, <2>1, AdvanceWithin DEF IndInv, TypeOK
  <2>3. TypeOK'
    <3>1. cached_prod' \in Index
      BY <1>1, <2>1, WrapType DEF IndInv, TypeOK
    <3>2. written' \in 0 .. cnt'
      BY <1>1, <2>1 DEF Reserve, IndInv, CallInv, Index
    <3> QED BY <1>1, <1>3, <2>1, <3>1, <3>2 DEF IndInv, TypeOK
  <2>4. RingInv'
    <3>1. Occupied' = Occupied
      BY <2>1 DEF Occupied
    <3>2. WrapSub(kcons', consumer') + WrapSub(producer', kcons') = Occupied
      BY <2>1 DEF IndInv, RingInv
    <3>3. Occupied \in Nat /\ WrapSub(cached_prod', producer') = n
      BY <2>1, <2>2, ZeroDistance DEF IndInv, TypeOK, Occupied
    <3> QED BY <1>1, <1>3, <2>2, <3>1, <3>2, <3>3, RingBounds DEF RingInv, Index
  <2>5. CallInv'
    <3>1. idx' = WrapAdd(producer', written')
      <4>1. written' = 0 /\ idx' = producer' /\ producer' \in Index
        BY <1>2, <2>1 DEF Reserve, IndInv, TypeOK, CallInv
      <4>2. WrapAdd(producer', 0) = producer'
        BY <1>1, <4>1, WrapAddLinear, RingBounds DEF Index
      <4> QED BY <4>1, <4>2
    <3> QED BY <1>1, <1>2, <2>1, <3>1 DEF IndInv, CallInv, Nb
  <2> QED BY <2>3, <2>4, <2>5 DEF IndInv
<1>5. CASE ~(free >= n)
  <2>1. AfterProduce(0) /\ UNCHANGED <<cached_prod, ringVars, kcons>>
    BY <1>5 DEF Reserve
  <2>2. /\ ret' \in [ok : BOOLEAN, cnt : Index]
        /\ pc' \in {"idle", "check"} /\ call' \in CallType
        /\ idx' \in Index /\ cnt' \in Index /\ written' \in 0 .. cnt' /\ written' = 0
        /\ call'.one => Len(call'.descs) = 1
    BY <1>1, <2>1, AfterProduceType
  <2>3. TypeOK'
    BY <1>3, <2>1, <2>2 DEF IndInv, TypeOK
  <2>4. RingInv'
    <3>1. /\ Occupied' = Occupied
          /\ WrapSub(kcons', consumer') + WrapSub(producer', kcons') = Occupied
          /\ WrapSub(cached_prod', producer') = 0
          /\ WrapSub(cached_cons', cached_prod') = free
      BY <1>2, <2>1 DEF IndInv, RingInv, Occupied
    <3>2. Occupied \in Nat
      BY ZeroDistance DEF IndInv, TypeOK, Occupied
    <3> QED BY <1>3, <3>1, <3>2, RingBounds DEF RingInv
  <2>5. CallInv'
    BY <1>2, <2>1, <2>2 DEF CallInv
  <2> QED BY <2>3, <2>4, <2>5 DEF IndInv
<1> QED BY <1>4, <1>5

\* One turn of the write loop, panicking or not.
LEMMA WriteEntryStep == IndInv /\ WriteEntry => IndInv'
<1> SUFFICES ASSUME IndInv, WriteEntry PROVE IndInv'
  OBVIOUS
<1> USE DEF ringVars, cacheVars
<1>1. /\ cnt \in Index /\ written \in Nat /\ written < cnt /\ idx \in Index
      /\ 1 \in Index /\ written \in Index /\ written + 1 \in Index /\ producer \in Index
  BY RingBounds DEF WriteEntry, IndInv, TypeOK, Index
<1>2. idx = WrapAdd(producer, written) /\ cnt = Nb(call) /\ cnt > 0
  BY DEF WriteEntry, IndInv, CallInv
<1>3. idx' \in Index
  BY <1>1, WrapType DEF WriteEntry
<1>4. slots' \in [SlotId -> RingEntries]
  <2>1. cnt <= Len(call.descs) /\ call.descs \in Seq(Descs)
    BY <1>2, NbBound DEF IndInv, TypeOK, CallInv, CallType
  <2>2. call.descs[written + 1] \in Descs
    BY <1>1, <2>1 DEF Index
  <2> QED BY <2>2, EntryType DEF WriteEntry, IndInv, TypeOK
<1>5. TypeOK'
  <2>1. written' \in 0 .. cnt'
    BY <1>1 DEF WriteEntry, Index
  <2>2. pc' \in {"write", "panicked"}
    BY DEF WriteEntry
  <2> QED BY <1>3, <1>4, <2>1, <2>2 DEF WriteEntry, IndInv, TypeOK
<1>6. RingInv'
  BY RingUnchanged DEF WriteEntry, IndInv
<1>7. CallInv'
  <2>1. WrapAdd(WrapAdd(producer, written), 1) = WrapAdd(producer, written + 1)
    <3>1. idx = IF producer + written < Modulus THEN producer + written
                                                ELSE producer + written - Modulus
      BY <1>1, <1>2, WrapAddLinear
    <3>2. WrapAdd(idx, 1) = IF idx + 1 < Modulus THEN idx + 1 ELSE idx + 1 - Modulus
      BY <1>1, WrapAddLinear
    <3>3. WrapAdd(producer, written + 1) =
            IF producer + (written + 1) < Modulus
              THEN producer + (written + 1) ELSE producer + (written + 1) - Modulus
      BY <1>1, WrapAddLinear
    <3> QED BY <1>1, <1>2, <3>1, <3>2, <3>3, RingBounds DEF Index
  <2>2. pc' = "write" => idx' = WrapAdd(producer', written')
    BY <1>2, <2>1 DEF WriteEntry
  <2>3. pc' \in {"write", "panicked"} /\ pc = "write"
    BY DEF WriteEntry
  <2> QED BY <1>2, <2>2, <2>3 DEF WriteEntry, IndInv, CallInv, Nb
<1> QED BY <1>5, <1>6, <1>7 DEF IndInv

\* Publishing a batch moves it from reserved to pending.
LEMMA SubmitStep == IndInv /\ Submit => IndInv'
<1> SUFFICES ASSUME IndInv, Submit PROVE IndInv'
  OBVIOUS
<1> USE DEF ringVars, cacheVars
<1>1. /\ ret' \in [ok : BOOLEAN, cnt : Index]
      /\ pc' \in {"idle", "check"} /\ call' \in CallType
      /\ idx' \in Index /\ cnt' \in Index /\ written' \in 0 .. cnt' /\ written' = 0
      /\ call'.one => Len(call'.descs) = 1
  BY AfterProduceType DEF Submit, IndInv, TypeOK
<1>2. producer' = cached_prod /\ producer' \in Index
  BY DEF Submit, IndInv, TypeOK, CallInv
<1>3. TypeOK'
  BY <1>1, <1>2 DEF Submit, IndInv, TypeOK
<1>4. RingInv'
  <2> DEFINE held == WrapSub(kcons, consumer)
             pending == WrapSub(producer, kcons)
             reserved == WrapSub(cached_prod, producer)
             free == WrapSub(cached_cons, cached_prod)
  <2>1. held \in Nat /\ pending \in Nat /\ reserved \in Nat /\ free \in Nat
    BY ZeroDistance DEF IndInv, TypeOK
  <2>2. held + pending + reserved + free <= Size
    BY DEF IndInv, RingInv
  <2> HIDE DEF held, pending, reserved, free
  <2>3. pending + reserved < Modulus /\ held + (pending + reserved) < Modulus
    BY <2>1, <2>2, RingBounds
  <2>4. WrapSub(cached_prod, kcons) = pending + reserved
    BY <2>3, DistancesAdd DEF IndInv, TypeOK, pending, reserved
  <2>5. WrapSub(cached_prod, consumer) = held + (pending + reserved)
    BY <2>3, <2>4, DistancesAdd DEF IndInv, TypeOK, held
  <2>6. WrapSub(cached_prod', producer') = 0
    BY <1>2, ZeroDistance DEF Submit, IndInv, TypeOK
  <2>7. /\ WrapSub(kcons', consumer') = held
        /\ WrapSub(producer', kcons') = pending + reserved
        /\ WrapSub(cached_cons', cached_prod') = free
        /\ Occupied' = held + (pending + reserved)
    BY <1>2, <2>4, <2>5 DEF Submit, Occupied, held, free
  <2> QED BY <2>1, <2>2, <2>6, <2>7, RingBounds DEF RingInv
<1>5. CallInv'
  BY <1>1, <1>2 DEF Submit, CallInv
<1> QED BY <1>3, <1>4, <1>5 DEF IndInv

\* Looking at the flag, and the system call that follows, end the call or leave
\* it where it is; they move no counter.
LEMMA WakeupSteps ==
  IndInv /\ (CheckWakeup \/ RetryWakeup \/ WakeSucceeds \/ WakeFails) => IndInv'
<1> SUFFICES ASSUME IndInv, CheckWakeup \/ RetryWakeup \/ WakeSucceeds \/ WakeFails
             PROVE  IndInv'
  OBVIOUS
<1> USE DEF ringVars, cacheVars
<1> DEFINE Results == [ok : BOOLEAN, cnt : Index]
<1>1. 0 \in Index /\ Ok(cnt) \in Results /\ Err \in Results
  BY RingBounds DEF Ok, Err, IndInv, TypeOK, Index
<1>2. /\ pc \in {"idle", "check", "wake"}
      /\ UNCHANGED <<producer, consumer, slots, cached_prod, cached_cons, kcons>>
      /\ need_wakeup' \in BOOLEAN
  BY DEF CheckWakeup, RetryWakeup, WakeSucceeds, WakeFails, IndInv, TypeOK
<1>3. RingInv'
  BY <1>2, RingUnchanged DEF IndInv
<1>4. cached_prod' = producer' /\ written = 0
  BY <1>2 DEF IndInv, CallInv
<1>5. ASSUME NEW r \in Results, Return(r) PROVE IndInv'
  <2>1. /\ ret' \in Results /\ pc' = "idle" /\ call' \in CallType
        /\ idx' \in Index /\ cnt' \in Index /\ written' \in 0 .. cnt' /\ written' = 0
        /\ call'.one => Len(call'.descs) = 1
    BY <1>5, ReturnType DEF IndInv
  <2>2. TypeOK'
    BY <1>2, <2>1 DEF IndInv, TypeOK
  <2>3. CallInv'
    BY <1>4, <2>1 DEF CallInv
  <2> QED BY <1>3, <2>2, <2>3 DEF IndInv
<1>6. ASSUME CheckWakeup, ~Return(Ok(cnt)) PROVE IndInv'
  <2>1. pc' = "wake" /\ UNCHANGED <<call, cnt, idx, written, ret>>
    BY <1>6 DEF CheckWakeup
  <2>2. TypeOK'
    BY <1>2, <2>1 DEF IndInv, TypeOK
  <2>3. CallInv'
    BY <1>4, <2>1 DEF IndInv, CallInv
  <2> QED BY <1>3, <2>2, <2>3 DEF IndInv
<1>7. ASSUME RetryWakeup PROVE IndInv'
  <2>1. call' \in CallType /\ ~call'.one
    BY <1>7 DEF RetryWakeup, NoCall, CallType, IndInv, TypeOK
  <2>2. TypeOK'
    BY <1>2, <1>7, <2>1 DEF RetryWakeup, IndInv, TypeOK
  <2>3. CallInv'
    BY <1>4, <1>7, <2>1 DEF RetryWakeup, CallInv
  <2> QED BY <1>3, <2>2, <2>3 DEF IndInv
<1>8. ASSUME WakeFails PROVE IndInv'
  <2>1. Return(Ok(cnt)) \/ Return(Err)
    BY <1>8 DEF WakeFails
  <2> QED BY <1>1, <1>5, <2>1
<1>9. ASSUME WakeSucceeds PROVE IndInv'
  BY <1>1, <1>5, <1>9 DEF WakeSucceeds
<1> QED BY <1>1, <1>5, <1>6, <1>7, <1>8, <1>9

\* The kernel takes an entry: one slot moves from pending to held.
LEMMA KTakeStep == IndInv /\ KTake => IndInv'
<1> SUFFICES ASSUME IndInv, KTake PROVE IndInv'
  OBVIOUS
<1> USE DEF ringVars, cacheVars, callVars
<1> DEFINE held == WrapSub(kcons, consumer)
           pending == WrapSub(producer, kcons)
           reserved == WrapSub(cached_prod, producer)
           free == WrapSub(cached_cons, cached_prod)
<1>1. held \in Nat /\ pending \in Nat /\ reserved \in Nat /\ free \in Nat /\ pending # 0
  BY ZeroDistance DEF KTake, IndInv, TypeOK
<1>2. 1 \in Index /\ kcons \in Index /\ kcons' = WrapAdd(kcons, 1) /\ kcons' \in Index
  BY RingBounds, WrapType DEF KTake, IndInv, TypeOK, Index
<1>3. WrapSub(kcons', kcons) = 1 /\ WrapSub(producer, kcons') = pending - 1
  BY <1>1, <1>2, AdvanceWithin DEF IndInv, TypeOK
<1>4. held + pending + reserved + free <= Size /\ held + pending = Occupied
  BY DEF IndInv, RingInv
<1>5. WrapSub(kcons', consumer) = held + 1
  <2>1. held + 1 < Modulus
    BY <1>1, <1>4, RingBounds
  <2> QED BY <1>2, <1>3, <2>1, DistancesAdd DEF IndInv, TypeOK
<1> HIDE DEF held, pending, reserved, free
<1>6. RingInv'
  <2>1. /\ WrapSub(kcons', consumer') = held + 1
        /\ WrapSub(producer', kcons') = pending - 1
        /\ WrapSub(cached_prod', producer') = reserved
        /\ WrapSub(cached_cons', cached_prod') = free
        /\ Occupied' = Occupied
    BY <1>3, <1>5 DEF KTake, Occupied, reserved, free
  <2> QED BY <1>1, <1>4, <2>1, RingBounds DEF RingInv
<1>7. TypeOK'
  BY <1>2 DEF KTake, IndInv, TypeOK
<1>8. CallInv'
  BY DEF KTake, IndInv, CallInv, Nb
<1> QED BY <1>6, <1>7, <1>8 DEF IndInv

\* The kernel gives its slots back: what it held leaves the count.
LEMMA KReleaseStep == IndInv /\ KRelease => IndInv'
<1> SUFFICES ASSUME IndInv, KRelease PROVE IndInv'
  OBVIOUS
<1> USE DEF cacheVars, callVars
<1> DEFINE held == WrapSub(kcons, consumer)
           pending == WrapSub(producer, kcons)
           reserved == WrapSub(cached_prod, producer)
           free == WrapSub(cached_cons, cached_prod)
<1>1. held \in Nat /\ pending \in Nat /\ reserved \in Nat /\ free \in Nat
      /\ WrapSub(kcons, kcons) = 0
  BY ZeroDistance DEF IndInv, TypeOK
<1>2. held + pending + reserved + free <= Size
  BY DEF IndInv, RingInv
<1>3. /\ WrapSub(kcons', consumer') = 0
      /\ WrapSub(producer', kcons') = pending
      /\ WrapSub(cached_prod', producer') = reserved
      /\ WrapSub(cached_cons', cached_prod') = free
      /\ Occupied' = pending
  BY <1>1 DEF KRelease, Occupied
<1> HIDE DEF held, pending, reserved, free
<1>4. RingInv'
  BY <1>1, <1>2, <1>3, RingBounds DEF RingInv
<1>5. TypeOK'
  BY DEF KRelease, IndInv, TypeOK
<1>6. CallInv'
  BY DEF KRelease, IndInv, CallInv, Nb
<1> QED BY <1>4, <1>5, <1>6 DEF IndInv

\* The flag is no part of the ring's bookkeeping.
LEMMA KFlagSteps == IndInv /\ (KSleep \/ KResume) => IndInv'
<1> SUFFICES ASSUME IndInv, KSleep \/ KResume PROVE IndInv'
  OBVIOUS
<1> USE DEF cacheVars, callVars
<1>1. /\ UNCHANGED <<producer, consumer, slots, cached_prod, cached_cons, kcons,
                     pc, call, cnt, idx, written, ret>>
      /\ need_wakeup' \in BOOLEAN
  BY DEF KSleep, KResume
<1>2. TypeOK'
  BY <1>1 DEF IndInv, TypeOK
<1>3. RingInv'
  BY <1>1, RingUnchanged DEF IndInv
<1>4. CallInv'
  BY <1>1 DEF IndInv, CallInv, Nb
<1> QED BY <1>2, <1>3, <1>4 DEF IndInv

\* Every step preserves the inductive invariant.
LEMMA NextIndInv == IndInv /\ [Next]_vars => IndInv'
<1> SUFFICES ASSUME IndInv, [Next]_vars PROVE IndInv'
  OBVIOUS
<1>1. CASE Produce
  <2>1. PICK ds \in Batches : Enter(ds, FALSE, FALSE)
    BY <1>1 DEF Produce
  <2> QED BY <2>1, EnterStep, BatchesAreSequences
<1>2. CASE ProduceAndWakeup
  <2>1. PICK ds \in Batches : Enter(ds, FALSE, TRUE)
    BY <1>2 DEF ProduceAndWakeup
  <2> QED BY <2>1, EnterStep, BatchesAreSequences
<1>3. CASE ProduceOne
  <2>1. PICK d \in Descs : Enter(<<d>>, TRUE, FALSE)
    BY <1>3 DEF ProduceOne
  <2>2. <<d>> \in Seq(Descs) /\ Len(<<d>>) = 1
    OBVIOUS
  <2> QED BY <2>1, <2>2, EnterStep
<1>4. CASE ProduceOneAndWakeup
  <2>1. PICK d \in Descs : Enter(<<d>>, TRUE, TRUE)
    BY <1>4 DEF ProduceOneAndWakeup
  <2>2. <<d>> \in Seq(Descs) /\ Len(<<d>>) = 1
    OBVIOUS
  <2> QED BY <2>1, <2>2, EnterStep
<1>5. CASE UserStep
  BY <1>5, ReturnEmptyStep, ReserveStep, WriteEntryStep, SubmitStep, WakeupSteps
  DEF UserStep
<1>6. CASE RetryWakeup
  BY <1>6, WakeupSteps
<1>7. CASE KTake
  BY <1>7, KTakeStep
<1>8. CASE KRelease
  BY <1>8, KReleaseStep
<1>9. CASE KSleep \/ KResume
  BY <1>9, KFlagSteps
<1>10. CASE UNCHANGED vars
  <2>1. UNCHANGED <<producer, consumer, slots, need_wakeup, cached_prod, cached_cons,
                    kcons, pc, call, cnt, idx, written, ret>>
    BY <1>10 DEF vars, ringVars, cacheVars, callVars
  <2>2. TypeOK'
    BY <2>1 DEF IndInv, TypeOK
  <2>3. RingInv'
    BY <2>1, RingUnchanged DEF IndInv
  <2>4. CallInv'
    BY <2>1 DEF IndInv, CallInv, Nb
  <2> QED BY <2>2, <2>3, <2>4 DEF IndInv
<1> QED BY <1>1, <1>2, <1>3, <1>4, <1>5, <1>6, <1>7, <1>8, <1>9, <1>10 DEF Next

\* The counters, and the call in progress, are always in step.
THEOREM Invariance == Spec => []IndInv
<1>1. Init => IndInv
  BY InitIndInv
<1>2. IndInv /\ [Next]_vars => IndInv'
  BY NextIndInv
<1> QED BY <1>1, <1>2, PTL DEF Spec

\* produce and its variants keep every counter a u32, every slot an entry and
\* the loop within the caller's slice.
THEOREM TypeCorrect == Spec => []TypeOK
<1>1. IndInv => TypeOK
  BY DEF IndInv
<1> QED BY <1>1, Invariance, PTL

\* The write loop of produce never touches a slot the kernel still needs, for
\* any ring size and however often the indices have wrapped.
THEOREM SafeWrites == Spec => []WritesOnlyFreeSlots
<1>1. IndInv => WritesOnlyFreeSlots
  <2> SUFFICES ASSUME IndInv, pc = "write", written < cnt,
                      NEW x \in Window(consumer, Occupied)
               PROVE  Slot(idx) # Slot(x)
    BY DEF WritesOnlyFreeSlots
  <2>1. PICK k \in 0 .. (Occupied - 1) : x = WrapAdd(consumer, k)
    BY DEF Window
  <2> DEFINE free == WrapSub(cached_cons, cached_prod)
             reserved == WrapSub(cached_prod, producer)
  <2>2. /\ producer \in Index /\ consumer \in Index /\ cnt \in Index
        /\ written \in Nat /\ written \in Index
        /\ Occupied \in Nat /\ free \in Nat /\ reserved \in Nat
    BY ZeroDistance, RingBounds DEF IndInv, TypeOK, Occupied, Index
  <2>3. reserved = cnt
    <3>1. PICK w \in Index : w = WrapAdd(producer, cnt)
      BY <2>2, WrapType
    <3>2. w = IF producer + cnt < Modulus THEN producer + cnt ELSE producer + cnt - Modulus
      BY <2>2, <3>1, WrapAddLinear
    <3>3. WrapSub(w, producer) = IF w >= producer THEN w - producer ELSE w - producer + Modulus
      BY <2>2, WrapSubLinear
    <3>4. WrapSub(w, producer) = cnt
      BY <2>2, <3>1, <3>2, <3>3, RingBounds DEF Index
    <3> QED BY <3>1, <3>4 DEF IndInv, CallInv
  <2>4. Occupied + reserved + free <= Size
    BY DEF IndInv, RingInv
  <2> HIDE DEF free, reserved
  <2>5. Occupied + written \in SlotId /\ k \in SlotId /\ k # Occupied + written
    BY <2>2, <2>3, <2>4, RingBounds DEF SlotId
  <2>6. idx = WrapAdd(consumer, Occupied + written)
    <3>1. idx = WrapAdd(producer, written)
      BY DEF IndInv, CallInv
    <3>2. idx = IF producer + written < Modulus
                  THEN producer + written ELSE producer + written - Modulus
      BY <2>2, <3>1, WrapAddLinear
    <3>3. Occupied = IF producer >= consumer
                       THEN producer - consumer ELSE producer - consumer + Modulus
      BY <2>2, WrapSubLinear DEF Occupied
    <3>4. Occupied + written \in Index
      BY <2>5, RingBounds DEF SlotId, Index
    <3>5. WrapAdd(consumer, Occupied + written) =
            IF consumer + (Occupied + written) < Modulus
              THEN consumer + (Occupied + written)
              ELSE consumer + (Occupied + written) - Modulus
      BY <2>2, <3>4, WrapAddLinear
    <3> QED BY <2>2, <3>2, <3>3, <3>4, <3>5, RingBounds DEF Index
  <2> QED BY <2>1, <2>2, <2>5, <2>6, WindowSlotsDiffer
<1> QED BY <1>1, Invariance, PTL

\* In builds where `idx += 1` wraps, no call ever ends with slots reserved that
\* it did not submit.
THEOREM NothingStranded == ~OverflowChecks => (Spec => []ReservedIsSubmitted)
<1> SUFFICES ASSUME ~OverflowChecks PROVE Spec => []ReservedIsSubmitted
  OBVIOUS
<1> DEFINE Sane == pc # "panicked"
<1>1. Init => Sane
  BY DEF Init
<1>2. Sane /\ [Next]_vars => Sane'
  BY DEF Next, vars, callVars, ringVars, cacheVars, UserStep, Produce, ProduceOne,
         ProduceAndWakeup, ProduceOneAndWakeup, Enter, RetryWakeup, ReturnEmpty,
         Reserve, WriteEntry, Overflows, Submit, CheckWakeup, WakeSucceeds, WakeFails,
         AfterProduce, Return, KTake, KRelease, KSleep, KResume
<1>3. IndInv /\ Sane => ReservedIsSubmitted
  BY DEF IndInv, TypeOK, CallInv, ReservedIsSubmitted
<1> QED BY <1>1, <1>2, <1>3, Invariance, PTL DEF Spec

-----------------------------------------------------------------------------
(* Action properties *)

\* Only Reserve and ReturnEmpty leave the reserving state.
LEMMA LeavingReserve ==
  ASSUME [Next]_vars, pc = "reserve", pc' # "reserve"
  PROVE  Reserve \/ ReturnEmpty
BY DEF Next, vars, callVars, ringVars, cacheVars, UserStep, Produce, ProduceOne,
       ProduceAndWakeup, ProduceOneAndWakeup, Enter, RetryWakeup, WriteEntry, Submit,
       CheckWakeup, WakeSucceeds, WakeFails, KTake, KRelease, KSleep, KResume

\* Reserve refuses a batch exactly when the ring really lacks the room.
THEOREM ExactRefusal == Spec => RefusalIsExact
<1>1. IndInv /\ [Next]_vars =>
        ((pc = "reserve" /\ pc' # "reserve" /\ Nb(call) > 0)
           => (cached_prod' = cached_prod <=> Size - Occupied < Nb(call)))
  <2> SUFFICES ASSUME IndInv, [Next]_vars, pc = "reserve", pc' # "reserve", Nb(call) > 0
               PROVE  cached_prod' = cached_prod <=> Size - Occupied < Nb(call)
    OBVIOUS
  <2> DEFINE n == Nb(call)
             cache == WrapSub(cached_cons, cached_prod)
             free == WrapSub(cached_cons', cached_prod)
  <2>1. Reserve
    <3>1. Nb(call) \in Index
      BY NbBound DEF IndInv, TypeOK, CallInv
    <3>2. ~ReturnEmpty
      BY <3>1 DEF ReturnEmpty, Index
    <3> QED BY <3>2, LeavingReserve
  <2>2. n \in Index /\ n \in Nat /\ n > 0 /\ Occupied \in Nat /\ cache \in Nat
        /\ cached_prod \in Index /\ cached_prod = producer
    <3>1. n \in Index
      BY NbBound DEF IndInv, TypeOK, CallInv
    <3>2. Occupied \in Nat /\ cache \in Nat
      BY ZeroDistance DEF IndInv, TypeOK, Occupied
    <3>3. cached_prod \in Index /\ cached_prod = producer
      BY DEF IndInv, TypeOK, CallInv
    <3> QED BY <3>1, <3>2, <3>3, RingBounds DEF Index
  <2>3. Occupied + cache <= Size
    <3>1. WrapSub(cached_prod, producer) = 0
      BY <2>2, ZeroDistance
    <3> QED BY <2>2, <3>1, RingBounds DEF IndInv, RingInv
  <2>4. free >= n <=> Size - Occupied >= n
    <3>1. CASE cache >= n
      <4>1. cached_cons' = cached_cons
        BY <2>1, <3>1 DEF Reserve, NbFreeCache
      <4> QED BY <2>2, <2>3, <3>1, <4>1, RingBounds
    <3>2. CASE ~(cache >= n)
      <4>1. cached_cons' = WrapAdd(consumer, Size)
        BY <2>1, <3>2 DEF Reserve, NbFreeCache
      <4>2. WrapSub(producer, consumer) <= Size
        BY <2>2, <2>3, RingBounds DEF Occupied
      <4>3. free = Size - Occupied
        BY <2>2, <4>1, <4>2, RefreshShowsAll DEF IndInv, TypeOK, Occupied
      <4> QED BY <4>3
    <3> QED BY <3>1, <3>2
  <2>5. CASE free >= n
    <3>1. cached_prod' = WrapAdd(cached_prod, n)
      BY <2>1, <2>5 DEF Reserve
    <3>2. WrapSub(cached_prod', cached_prod) = n /\ WrapSub(cached_prod, cached_prod) = 0
      BY <2>2, <3>1, AdvanceBy, ZeroDistance
    <3>3. cached_prod' # cached_prod
      BY <2>2, <3>2
    <3> QED BY <2>2, <2>4, <2>5, <3>3, RingBounds
  <2>6. CASE ~(free >= n)
    <3>1. cached_prod' = cached_prod
      BY <2>1, <2>6 DEF Reserve
    <3> QED BY <2>2, <2>4, <2>6, <3>1, RingBounds
  <2> QED BY <2>5, <2>6
<1> QED BY <1>1, Invariance, PTL DEF Spec, RefusalIsExact

\* How far the ring has moved since the call was entered, by how far the call
\* has come; an error of the fill queue can only follow a published batch.
AccountInv ==
  /\ pc \in {"idle", "reserve"} => cnt = 0
  /\ pc \in {"reserve", "write"} => call.start = producer
  /\ pc \in {"check", "wake"} =>
       WrapSub(producer, call.start) = cnt /\ cnt \in {0, Nb(call)}
  /\ (pc = "wake" /\ Kind = "fill") => cnt = Nb(call)

\* What a call leaves behind once the batch has been published or refused: the
\* account balances whether it returns or goes on to the wakeup check.
LEMMA AfterProduceAccount ==
  ASSUME IndInv, NEW n \in Index, AfterProduce(n), n \in {0, Nb(call)},
         producer' \in Index, WrapSub(producer', call.start) = n
  PROVE  /\ AccountInv'
         /\ pc' = "idle" => ret' = Ok(n)
<1>1. CASE call.wake
  BY <1>1 DEF AfterProduce, AccountInv, Nb
<1>2. CASE ~call.wake
  BY <1>2 DEF AfterProduce, Return, AccountInv
<1> QED BY <1>1, <1>2

\* The empty call that only retries a wakeup has nb = 0.
LEMMA NoCallNb == \A at : Nb(NoCall(at)) = 0
<1>1. 0 % Modulus = 0
  BY RingAssumption
<1> QED BY <1>1 DEF NoCall, Nb

\* Each step keeps the account, and a step that ends a call reports it truly.
LEMMA AccountStep ==
  ASSUME IndInv, AccountInv, [Next]_vars
  PROVE  /\ AccountInv'
         /\ (pc # "idle" /\ pc' = "idle") =>
              LET published == WrapSub(producer', call.start)
              IN /\ published \in {0, Nb(call)}
                 /\ ret'.ok => ret'.cnt = published
                 /\ (~ret'.ok /\ Kind = "fill") => published = Nb(call)
<1> DEFINE published == WrapSub(producer', call.start)
           Honest == (pc # "idle" /\ pc' = "idle") =>
                       /\ published \in {0, Nb(call)}
                       /\ ret'.ok => ret'.cnt = published
                       /\ (~ret'.ok /\ Kind = "fill") => published = Nb(call)
<1> SUFFICES AccountInv' /\ Honest
  OBVIOUS
<1> USE DEF ringVars, cacheVars, callVars
<1>1. /\ producer \in Index /\ cnt \in Index /\ 0 \in Index /\ call.start \in Index
      /\ Nb(call) \in Index
      /\ WrapSub(producer, producer) = 0
  <2>1. producer \in Index /\ cnt \in Index /\ call.start \in Index
    BY DEF IndInv, TypeOK, CallType
  <2>2. Nb(call) \in Index
    BY NbBound DEF IndInv, TypeOK, CallInv
  <2>3. 0 \in Index
    BY RingBounds DEF Index
  <2> QED BY <2>1, <2>2, <2>3, ZeroDistance
<1>2. \A m : Ok(m).ok /\ Ok(m).cnt = m /\ ~Err.ok
  BY DEF Ok, Err
<1>3. ASSUME Produce \/ ProduceOne \/ ProduceAndWakeup \/ ProduceOneAndWakeup
      PROVE  AccountInv' /\ Honest
  BY <1>3 DEF Produce, ProduceOne, ProduceAndWakeup, ProduceOneAndWakeup, Enter, AccountInv
<1>4. ASSUME RetryWakeup PROVE AccountInv' /\ Honest
  <2>1. Nb(call') = 0 /\ call'.start = producer /\ cnt' = 0 /\ producer' = producer
    BY <1>4, NoCallNb DEF RetryWakeup, AccountInv, NoCall
  <2>2. Nb(call)' = 0
    BY <2>1 DEF Nb
  <2> QED BY <1>1, <1>4, <2>1, <2>2 DEF RetryWakeup, AccountInv
<1>5. ASSUME ReturnEmpty PROVE AccountInv' /\ Honest
  <2>1. AfterProduce(0) /\ producer' = producer /\ published = 0
    BY <1>1, <1>5 DEF ReturnEmpty, AccountInv
  <2>2. AccountInv' /\ (pc' = "idle" => ret' = Ok(0))
    BY <1>1, <2>1, AfterProduceAccount
  <2> QED BY <1>2, <2>1, <2>2
<1>6. ASSUME Reserve PROVE AccountInv' /\ Honest
  <2>1. call.start = producer /\ producer' = producer
    BY <1>6 DEF Reserve, AccountInv
  <2>2. CASE pc' = "write"
    <3>1. UNCHANGED call
      BY <1>6, <2>2 DEF Reserve, AfterProduce, Return
    <3> QED BY <2>1, <2>2, <3>1 DEF AccountInv
  <2>3. CASE pc' # "write"
    <3>1. AfterProduce(0)
      BY <1>6, <2>3 DEF Reserve
    <3>2. AccountInv' /\ (pc' = "idle" => ret' = Ok(0))
      BY <1>1, <2>1, <3>1, AfterProduceAccount
    <3> QED BY <1>1, <1>2, <2>1, <3>2
  <2> QED BY <2>2, <2>3
<1>7. ASSUME WriteEntry PROVE AccountInv' /\ Honest
  BY <1>7 DEF WriteEntry, AccountInv
<1>8. ASSUME Submit PROVE AccountInv' /\ Honest
  <2>1. /\ AfterProduce(cnt) /\ cnt = Nb(call) /\ call.start = producer
        /\ producer' = WrapAdd(producer, cnt)
    BY <1>8 DEF Submit, IndInv, CallInv, AccountInv
  <2>2. producer' \in Index /\ published = cnt
    BY <1>1, <2>1, WrapType, AdvanceBy
  <2>3. AccountInv' /\ (pc' = "idle" => ret' = Ok(cnt))
    BY <1>1, <2>1, <2>2, AfterProduceAccount
  <2> QED BY <1>2, <2>1, <2>2, <2>3
<1>9. ASSUME CheckWakeup PROVE AccountInv' /\ Honest
  <2>1. published = cnt /\ cnt \in {0, Nb(call)} /\ producer' = producer
    BY <1>9 DEF CheckWakeup, AccountInv
  <2>2. CASE WakesKernel
    <3>1. pc' = "wake" /\ UNCHANGED <<call, cnt>>
      BY <1>9, <2>2 DEF CheckWakeup
    <3>2. Kind = "fill" => cnt = Nb(call)
      BY <1>1, <2>1, <2>2 DEF WakesKernel
    <3> QED BY <2>1, <3>1, <3>2 DEF AccountInv, Nb
  <2>3. CASE ~WakesKernel
    <3>1. Return(Ok(cnt))
      BY <1>9, <2>3 DEF CheckWakeup
    <3> QED BY <1>2, <2>1, <3>1 DEF Return, AccountInv
  <2> QED BY <2>2, <2>3
<1>10. ASSUME WakeSucceeds \/ WakeFails PROVE AccountInv' /\ Honest
  <2>1. /\ published = cnt /\ cnt \in {0, Nb(call)}
        /\ Kind = "fill" => cnt = Nb(call)
    BY <1>10 DEF WakeSucceeds, WakeFails, AccountInv
  <2>2. Return(Ok(cnt)) \/ Return(Err)
    BY <1>10 DEF WakeSucceeds, WakeFails
  <2> QED BY <1>2, <2>1, <2>2 DEF Return, AccountInv
<1>11. ASSUME KTake \/ KRelease \/ KSleep \/ KResume \/ UNCHANGED vars
       PROVE  AccountInv' /\ Honest
  <2>1. UNCHANGED <<pc, call, cnt, producer>>
    BY <1>11 DEF KTake, KRelease, KSleep, KResume, vars
  <2> QED BY <2>1 DEF AccountInv, Nb
<1> HIDE DEF Honest
<1> QED BY <1>3, <1>4, <1>5, <1>6, <1>7, <1>8, <1>9, <1>10, <1>11 DEF Next, UserStep

\* What produce and its variants return is the truth about the ring.
THEOREM HonestResults == Spec => ResultIsHonest
<1>1. Init => AccountInv
  BY DEF Init, AccountInv
<1>2. IndInv /\ AccountInv /\ [Next]_vars => AccountInv'
  BY AccountStep
<1>3. IndInv /\ AccountInv /\ [Next]_vars =>
        ((pc # "idle" /\ pc' = "idle")
           => LET published == WrapSub(producer', call.start)
              IN /\ published \in {0, Nb(call)}
                 /\ ret'.ok => ret'.cnt = published
                 /\ (~ret'.ok /\ Kind = "fill") => published = Nb(call))
  BY AccountStep
<1> QED BY <1>1, <1>2, <1>3, Invariance, PTL DEF Spec, ResultIsHonest

=============================================================================
