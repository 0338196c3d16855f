------------------------ MODULE ConsQueueFifoProofs --------------------------
(***************************************************************************)
(* ConsQueue implements RingFifo, for every ring size, index width, batch  *)
(* length and set of packets: the refinement mapping of ConsQueueFifo      *)
(* takes initial states to initial states and every step to a step or to   *)
(* none.  The invariant of ConsQueueProofs is all it takes: `out` is read  *)
(* from the caller's descriptors, which nothing else writes.               *)
(***************************************************************************)
EXTENDS ConsQueueFifo, ConsQueueProofs

\* Entries written by the kernel and not published, and published and not read.
Unpublished == WrapSub(kprod, producer)
Unread == WrapSub(producer, NextUnread)

\* The entries the call has copied out.
Copied == [k \in 1 .. nread |-> FromDesc(descs[k])]

\* Everything between the shared consumer index and the kernel's own index fits
\* the ring, and the call reads no further than what is published.
DistancesOK ==
  /\ NextUnread \in Index /\ Unpublished \in Nat /\ Unread \in Nat /\ nread \in Nat
  /\ nread + Unread = WrapSub(producer, consumer)
  /\ nread + Unread + Unpublished = WrapSub(kprod, consumer)
  /\ nread + Unread + Unpublished <= Size
  /\ (pc = "read" /\ nread < cnt) => Unread > 0 /\ idx = NextUnread

-----------------------------------------------------------------------------
(* Where the counters stand *)

\* This follows from the invariant of the counters.
LEMMA Distances == IndInv => DistancesOK
<1> SUFFICES ASSUME IndInv PROVE DistancesOK
  OBVIOUS
<1>1. PICK a \in Nat, b \in Nat, c \in Nat, d \in Nat :
        /\ a = WrapSub(cached_cons, consumer) /\ b = WrapSub(cached_prod, cached_cons)
        /\ c = WrapSub(producer, cached_prod) /\ d = WrapSub(kprod, producer)
        /\ a + b + c + d <= Size
  BY ZeroDistance DEF IndInv, TypeOK, RingInv
<1>2. /\ consumer \in Index /\ cached_cons \in Index /\ cached_prod \in Index
      /\ producer \in Index /\ kprod \in Index
  BY DEF IndInv, TypeOK
<1>3. PICK n \in Nat : n = nread /\ n <= a /\ (pc = "read" /\ nread < cnt => n < a)
  <2>1. CASE pc \in {"read", "panicked"}
    <3>1. cnt \in Nat /\ cnt \in Index /\ nread \in Nat /\ nread <= cnt
      BY RingBounds DEF IndInv, TypeOK, Index
    <3>2. a = cnt
      BY <1>1, <1>2, <2>1, <3>1, AdvanceBy DEF IndInv, CallInv
    <3> QED BY <3>1, <3>2
  <2>2. CASE pc \notin {"read", "panicked"}
    BY <1>1, <2>2 DEF IndInv, TypeOK, CallInv
  <2> QED BY <2>1, <2>2
<1>4. WrapSub(cached_prod, consumer) = a + b
  BY <1>1, <1>2, DistancesAdd, RingBounds
<1>5. WrapSub(producer, consumer) = a + b + c
  BY <1>1, <1>2, <1>4, DistancesAdd, RingBounds
<1>6. WrapSub(kprod, consumer) = a + b + c + d
  BY <1>1, <1>2, <1>5, DistancesAdd, RingBounds
<1>7. n \in Index /\ NextUnread = WrapAdd(consumer, n) /\ NextUnread \in Index
  <2>1. n \in Index
    BY <1>1, <1>3, RingBounds DEF Index
  <2> QED BY <1>2, <1>3, <2>1, WrapType DEF NextUnread
<1>8. Unread = a + b + c - n
  <2>1. WrapSub(producer, consumer) >= n
    BY <1>1, <1>3, <1>5
  <2>2. WrapSub(producer, WrapAdd(consumer, n)) = WrapSub(producer, consumer) - n
    BY <1>2, <1>7, <2>1, AdvanceWithin
  <2> QED BY <1>5, <1>7, <2>2 DEF Unread
<1>9. pc = "read" => idx = NextUnread
  BY DEF IndInv, CallInv, NextUnread
<1>10. Unpublished = d /\ nread = n
  BY <1>1, <1>3 DEF Unpublished
<1>11. PICK u \in Nat : u = Unread /\ n + u = a + b + c /\ (n < a => u > 0)
  BY <1>1, <1>3, <1>8
<1>12. n + u + d = a + b + c + d /\ n + u + d <= Size
  BY <1>1, <1>11, RingBounds
<1>13. (pc = "read" /\ nread < cnt) => u > 0
  BY <1>3, <1>11
<1> QED BY <1>5, <1>6, <1>7, <1>9, <1>10, <1>11, <1>12, <1>13 DEF DistancesOK

\* The offer and the queue, as stretches of the ring.
LEMMA Mapping ==
  /\ Contents(producer, WrapSub(kprod, producer)) = Stretch(slots, producer, Unpublished)
  /\ Contents(NextUnread, WrapSub(producer, NextUnread)) = Stretch(slots, NextUnread, Unread)
  /\ Contents(producer, WrapSub(kprod, producer))' = Stretch(slots', producer', Unpublished')
  /\ Contents(NextUnread, WrapSub(producer, NextUnread))' = Stretch(slots', NextUnread', Unread')
BY DEF Contents, Stretch, Unpublished, Unread

\* A step that leaves the ring and the copied descriptors alone is a stutter.
LEMMA RingStutter ==
  ASSUME UNCHANGED <<producer, consumer, kprod, slots, nread, Copied>>
  PROVE  UNCHANGED Fifo!fifoVars
<1>1. UNCHANGED <<NextUnread, Unread, Unpublished>>
  BY DEF NextUnread, Unread, Unpublished
<1> QED BY <1>1, Mapping DEF Fifo!fifoVars, Copied

\* Before anything is copied there is nothing in `out`.
LEMMA NothingCopied ==
  /\ nread = 0 => Copied = <<>>
  /\ nread' = 0 => Copied' = <<>>
BY DEF Copied

-----------------------------------------------------------------------------
(* Steps of the queue *)

\* A descriptor filled by consume still tells which entry it was filled from.
LEMMA DescIsFaithful ==
  ASSUME NEW e \in RingEntries
  PROVE  FromDesc(ToDesc(e)) = e
<1>1. CASE Kind = "rx"
  <2>1. e = [addr |-> e.addr, len |-> e.len, options |-> e.options]
    BY <1>1 DEF RingEntries, KernelEntry, BlankEntry
  <2> QED BY <1>1, <2>1 DEF FromDesc, ToDesc, RxDesc
<1>2. CASE Kind # "rx"
  <2>1. e = [addr |-> e.addr]
    BY <1>2 DEF RingEntries, KernelEntry, BlankEntry
  <2> QED BY <1>2, <2>1 DEF FromDesc, ToDesc, CompDesc
<1> QED BY <1>1, <1>2

\* A turn of the read loop takes the oldest entry of the queue, unchanged.
LEMMA ReadEntryRefines ==
  ASSUME IndInv, ReadEntry
  PROVE  Fifo!Take
<1>1. /\ UNCHANGED <<producer, consumer, kprod, slots>>
      /\ pc = "read" /\ nread < cnt /\ nread' = nread + 1
      /\ descs' = [descs EXCEPT ![nread + 1] = ToDesc(slots[Slot(idx)])]
      /\ slots \in [SlotId -> RingEntries] /\ descs \in Seq(FrameDescs)
      /\ producer \in Index /\ consumer \in Index
  BY DEF ReadEntry, IndInv, TypeOK, ringVars
<1>2. PICK n \in Nat, u \in Nat :
        /\ n = nread /\ u = Unread /\ u > 0 /\ n + u <= Size /\ idx = NextUnread
        /\ n + 1 <= Len(descs) /\ NextUnread \in Index
  <2>1. /\ nread \in Nat /\ Unread \in Nat /\ Unread > 0 /\ idx = NextUnread
        /\ NextUnread \in Index /\ nread + Unread <= Size
    BY <1>1, Distances, RingBounds DEF DistancesOK
  <2>2. nread + 1 <= Len(descs)
    BY <1>1, RingBounds DEF IndInv, TypeOK, Index
  <2> QED BY <2>1, <2>2
<1> DEFINE e == slots[Slot(NextUnread)]
<1>3. Slot(NextUnread) \in SlotId /\ e \in RingEntries
  <2>1. NextUnread \in Int
    BY <1>2 DEF Index
  <2> QED BY <1>1, <2>1, SlotType
<1>4. NextUnread' = WrapAdd(NextUnread, 1) /\ Unread' = u - 1
  <2>1. n + 1 < Modulus /\ 1 \in Index /\ 1 \in Nat
    BY <1>2, RingBounds DEF Index
  <2>2. WrapAdd(WrapAdd(consumer, n), 1) = WrapAdd(consumer, n + 1)
    BY <1>1, <2>1, WrapAddTwice
  <2>3. NextUnread' = WrapAdd(NextUnread, 1)
    BY <1>1, <1>2, <2>2 DEF NextUnread
  <2>4. WrapSub(producer, NextUnread) >= 1
    BY <1>2 DEF Unread
  <2>5. WrapSub(producer, WrapAdd(NextUnread, 1)) = WrapSub(producer, NextUnread) - 1
    BY <1>1, <1>2, <2>1, <2>4, AdvanceWithin
  <2> QED BY <1>1, <1>2, <2>3, <2>5 DEF Unread
<1>5. /\ Stretch(slots, NextUnread, u) # <<>>
      /\ Head(Stretch(slots, NextUnread, u)) = e
      /\ Tail(Stretch(slots, NextUnread, u)) = Stretch(slots, NextUnread', u - 1)
  <2>1. u <= Size
    BY <1>2, RingBounds
  <2> QED BY <1>2, <1>4, <2>1, StretchTake
<1>6. Copied' = Append(Copied, e)
  <2>1. /\ \A k \in 1 .. n : descs'[k] = descs[k]
        /\ descs'[n + 1] = ToDesc(e)
    BY <1>1, <1>2
  <2>2. FromDesc(descs'[n + 1]) = e
    BY <1>3, <2>1, DescIsFaithful
  <2>3. Copied' = [k \in 1 .. (n + 1) |-> FromDesc(descs'[k])]
    BY <1>1, <1>2 DEF Copied, FromDesc
  <2>4. Copied = [k \in 1 .. n |-> FromDesc(descs[k])]
    BY <1>2 DEF Copied
  <2> DEFINE S == {FromDesc(descs[k]) : k \in 1 .. n} \cup {e}
  <2>5. Copied \in Seq(S) /\ Len(Copied) = n /\ \A k \in 1 .. n : Copied[k] = FromDesc(descs[k])
    BY <2>4
  <2>6. \A k \in 1 .. (n + 1) : FromDesc(descs'[k]) = IF k = n + 1 THEN e ELSE FromDesc(descs[k])
    BY <2>1, <2>2
  <2>7. Copied' \in Seq(S) /\ Len(Copied') = n + 1
        /\ \A k \in 1 .. (n + 1) : Copied'[k] = IF k = n + 1 THEN e ELSE FromDesc(descs[k])
    BY <2>3, <2>6
  <2>8. e \in S
    OBVIOUS
  <2> HIDE DEF S, e
  <2>9. Append(Copied, e) \in Seq(S) /\ Len(Append(Copied, e)) = n + 1
        /\ \A k \in 1 .. (n + 1) : Append(Copied, e)[k] = Copied'[k]
    BY <2>5, <2>7, <2>8
  <2> QED BY <2>7, <2>9, SameSequence
<1>7. UNCHANGED Contents(producer, WrapSub(kprod, producer))
  BY <1>1 DEF Contents
<1> QED BY <1>1, <1>2, <1>4, <1>5, <1>6, <1>7, Mapping DEF Fifo!Take, Copied

\* xsk_ring_cons__release gives back the slots of everything copied.
LEMMA ReleaseRefines ==
  ASSUME IndInv, Release
  PROVE  Fifo!Release
<1>1. /\ UNCHANGED <<producer, kprod, slots>> /\ consumer' = WrapAdd(consumer, cnt)
      /\ nread = cnt /\ nread' = 0 /\ consumer \in Index
  BY DEF Release, Return, IndInv, TypeOK
<1>2. NextUnread' = NextUnread
  <2>1. cnt \in Index /\ 0 \in Index
    BY RingBounds DEF IndInv, TypeOK, Index
  <2>2. consumer' \in Index
    BY <1>1, <2>1, WrapType
  <2>3. ASSUME NEW c \in Index PROVE WrapAdd(c, 0) = c
    <3>1. WrapAdd(c, 0) = IF c + 0 < Modulus THEN c + 0 ELSE c + 0 - Modulus
      BY <2>1, WrapAddLinear
    <3> QED BY <3>1, RingBounds DEF Index
  <2>4. WrapAdd(consumer', 0) = consumer'
    BY <2>2, <2>3
  <2> QED BY <1>1, <2>4 DEF NextUnread
<1>3. UNCHANGED <<Unread, Unpublished>>
  BY <1>1, <1>2 DEF Unread, Unpublished
<1>4. Copied' = <<>>
  BY <1>1, NothingCopied
<1> QED BY <1>1, <1>2, <1>3, <1>4, Mapping DEF Fifo!Release, Copied

\* The kernel writes an entry behind all others: it is offered, and nothing that
\* is queued is overwritten.
LEMMA KWriteRefines ==
  ASSUME IndInv, KWrite
  PROVE  Fifo!Offer
<1>1. /\ UNCHANGED <<producer, consumer, cached_prod, cached_cons, nread, descs>>
      /\ kprod' = WrapAdd(kprod, 1) /\ WrapSub(kprod, consumer) < Size
      /\ slots \in [SlotId -> RingEntries]
      /\ producer \in Index /\ consumer \in Index /\ kprod \in Index
  BY DEF KWrite, IndInv, TypeOK, cacheVars, callVars, localVars
<1>2. PICK e \in RingEntries : slots' = [slots EXCEPT ![Slot(kprod)] = e]
  BY EntryType DEF KWrite
<1>3. PICK n \in Nat, q \in Nat, u \in Nat :
        /\ n = nread /\ q = Unread /\ u = Unpublished /\ n + q + u < Size
        /\ NextUnread \in Index
  BY <1>1, Distances DEF DistancesOK
<1>4. /\ WrapAdd(producer, u) = kprod /\ WrapAdd(NextUnread, q) = producer
      /\ WrapAdd(NextUnread, q + u) = kprod
  <2>1. WrapAdd(producer, u) = kprod /\ WrapAdd(NextUnread, q) = producer
    BY <1>1, <1>3, WrapAddSub DEF Unread, Unpublished
  <2>2. q + u < Modulus
    BY <1>3, RingBounds
  <2> QED BY <1>3, <2>1, <2>2, WrapAddTwice
<1>5. /\ u \in SlotId /\ q + u \in SlotId /\ q <= q + u /\ u <= u
      /\ u < Size /\ q <= Size /\ u + 1 <= Size /\ u + 1 \in Nat
  BY <1>3, RingBounds DEF SlotId
<1>6. \A x \in SlotId : x # Slot(kprod) => slots'[x] = slots[x]
  BY <1>1, <1>2
<1>7. Stretch(slots', NextUnread, q) = Stretch(slots, NextUnread, q)
  <2>1. PICK j \in SlotId : j = q + u /\ q <= j /\ WrapAdd(NextUnread, j) = kprod
    BY <1>4, <1>5
  <2> QED BY <1>3, <1>6, <2>1, WriteBehindStretch
<1>8. Stretch(slots', producer, u) = Stretch(slots, producer, u)
  BY <1>1, <1>4, <1>5, <1>6, WriteBehindStretch
<1>9. slots'[Slot(kprod)] = e
  <2>1. Slot(kprod) \in SlotId
    BY <1>1, SlotType DEF Index
  <2> QED BY <1>1, <1>2, <2>1
<1>10. Append(Stretch(slots', producer, u), e) = Stretch(slots', producer, u + 1)
  <2>1. Append(Stretch(slots', producer, u), slots'[Slot(WrapAdd(producer, u))])
          = Stretch(slots', producer, u + 1)
    BY <1>1, <1>5, StretchAppend
  <2> QED BY <1>4, <1>9, <2>1
<1>11. Unpublished' = u + 1
  <2>1. 1 \in Index /\ kprod' \in Index
    BY <1>1, RingBounds, WrapType DEF Index
  <2>2. WrapSub(kprod', kprod) = 1
    BY <1>1, <2>1, AdvanceBy
  <2>3. WrapSub(kprod, producer) = u /\ u + 1 < Modulus
    BY <1>3, <1>5, RingBounds DEF Unpublished
  <2> QED BY <1>1, <2>1, <2>2, <2>3, DistancesAdd DEF Unpublished
<1>12. UNCHANGED <<NextUnread, Unread, Copied>>
  BY <1>1 DEF NextUnread, Unread, Copied, FromDesc
<1> DEFINE offered == Stretch(slots, producer, u)
           batch == [k \in 1 .. 1 |-> e]
<1>13. offered \in Seq(SlotValues(slots)) /\ Len(offered) = u
       /\ Len(Stretch(slots, NextUnread, q)) = q
  <2>1. u <= Size
    BY <1>5, RingBounds
  <2> QED BY <1>1, <1>3, <1>5, <2>1, StretchType
<1> HIDE DEF offered
<1>14. Append(offered, e) = offered \o batch
  <2>1. batch = <<e>>
    OBVIOUS
  <2>2. Append(offered, e) = offered \o <<e>>
    <3> DEFINE S == SlotValues(slots) \cup {e}
    <3>1. offered \in Seq(S) /\ e \in S
      BY <1>13
    <3> HIDE DEF S
    <3> QED BY <3>1
  <2> QED BY <2>1, <2>2
<1>15. Len(Copied) = n
  <2>1. Copied = [k \in 1 .. n |-> FromDesc(descs[k])]
    BY <1>3 DEF Copied
  <2> QED BY <2>1
<1>16. Fifo!InUse = u + q + n
  BY <1>3, <1>13, <1>15, Mapping DEF Fifo!InUse, offered, Copied
<1>17. 1 \in 0 .. (Size - Fifo!InUse)
  <2>1. 1 \in 0 .. (Size - (u + q + n))
    BY <1>3, RingBounds
  <2> QED BY <1>16, <2>1
<1>18. Contents(producer, WrapSub(kprod, producer))' =
         Contents(producer, WrapSub(kprod, producer)) \o batch
  <2>1. Contents(producer, WrapSub(kprod, producer))' = Stretch(slots', producer, u + 1)
    BY <1>1, <1>11, Mapping
  <2>2. Contents(producer, WrapSub(kprod, producer)) = offered
    BY <1>3, Mapping DEF offered
  <2> QED BY <1>8, <1>10, <1>14, <2>1, <2>2 DEF offered
<1>19. batch \in [1 .. 1 -> RingEntries]
  OBVIOUS
<1>20. UNCHANGED Contents(NextUnread, WrapSub(producer, NextUnread))
  BY <1>3, <1>7, <1>12, Mapping
<1> HIDE DEF batch
<1> QED BY <1>12, <1>17, <1>18, <1>19, <1>20 DEF Fifo!Offer, Copied

\* The kernel publishes what it has written, behind what is already queued.
LEMMA KSubmitRefines ==
  ASSUME IndInv, KSubmit
  PROVE  Fifo!Publish
<1>1. /\ UNCHANGED <<consumer, kprod, slots, nread, descs>> /\ producer' = kprod
      /\ producer \in Index /\ kprod \in Index
  BY DEF KSubmit, IndInv, TypeOK, callVars, localVars
<1>2. PICK q \in Nat, u \in Nat :
        q = Unread /\ u = Unpublished /\ q + u <= Size /\ NextUnread \in Index
  <2>1. /\ Unread \in Nat /\ Unpublished \in Nat /\ Unread + Unpublished <= Size
        /\ NextUnread \in Index
    BY Distances, RingBounds DEF DistancesOK
  <2> QED BY <2>1
<1>3. UNCHANGED <<NextUnread, Copied>>
  BY <1>1 DEF NextUnread, Copied, FromDesc
<1>4. Unpublished' = 0
  BY <1>1, ZeroDistance DEF Unpublished
<1>5. Unread' = q + u
  <2>1. WrapSub(producer, NextUnread) = q /\ WrapSub(kprod, producer) = u /\ q + u < Modulus
    BY <1>2, RingBounds DEF Unread, Unpublished
  <2> QED BY <1>1, <1>2, <1>3, <2>1, DistancesAdd DEF Unread
<1>6. Stretch(slots, NextUnread, q + u) =
        Stretch(slots, NextUnread, q) \o Stretch(slots, producer, u)
  <2>1. WrapAdd(NextUnread, q) = producer
    BY <1>1, <1>2, WrapAddSub DEF Unread
  <2>2. Stretch(slots, NextUnread, q + u) =
          Stretch(slots, NextUnread, q) \o Stretch(slots, WrapAdd(NextUnread, q), u)
    <3>1. q + u <= Size /\ NextUnread \in Index
      BY <1>2
    <3> QED BY <3>1, StretchConcat
  <2> QED BY <2>1, <2>2
<1> QED BY <1>1, <1>2, <1>3, <1>4, <1>5, <1>6, StretchEmpty, Mapping DEF Fifo!Publish, Copied

-----------------------------------------------------------------------------
(* The refinement *)

\* Every step of the ring and its two ends is a step of the channel, or none.
LEMMA NextRefines ==
  ASSUME IndInv, [Next]_vars
  PROVE  [Fifo!FifoNext]_(Fifo!fifoVars)
<1> USE DEF Fifo!FifoNext
<1>1. CASE ReadEntry
  BY <1>1, ReadEntryRefines
<1>2. CASE Release
  BY <1>2, ReleaseRefines
<1>3. CASE KWrite
  BY <1>3, KWriteRefines
<1>4. CASE KSubmit
  BY <1>4, KSubmitRefines
<1>5. ASSUME UNCHANGED <<producer, consumer, kprod, slots>>, nread = 0, nread' = 0
      PROVE  UNCHANGED Fifo!fifoVars
  BY <1>5, NothingCopied, RingStutter
<1>6. pc \in {"idle", "poll", "peek"} => nread = 0
  BY DEF IndInv, CallInv
<1>7. CASE Consume \/ ConsumeOne \/ PollAndConsume \/ PollAndConsumeOne
  BY <1>5, <1>6, <1>7 DEF Consume, ConsumeOne, PollAndConsume, PollAndConsumeOne, Enter, ringVars
<1>8. CASE PollReady \/ PollTimesOut \/ PollInterrupted \/ PollFails \/ ReturnEmpty
  BY <1>5, <1>6, <1>8 DEF PollReady, PollTimesOut, PollInterrupted, PollFails, ReturnEmpty,
                          Return, ringVars, localVars
<1>9. CASE Peek
  <2>1. UNCHANGED <<producer, consumer, kprod, slots>> /\ pc = "peek"
    BY <1>9 DEF Peek, ringVars
  <2>2. nread' = nread \/ nread' = 0
    BY <1>9 DEF Peek, Return
  <2> QED BY <1>5, <1>6, <2>1, <2>2
<1>10. CASE UNCHANGED vars
  <2>1. UNCHANGED <<producer, consumer, kprod, slots, nread, descs>>
    BY <1>10 DEF vars, ringVars, callVars, localVars
  <2> QED BY <2>1, RingStutter DEF Copied, FromDesc
<1> QED BY <1>1, <1>2, <1>3, <1>4, <1>7, <1>8, <1>9, <1>10 DEF Next, UserStep

\* The completion and rx rings, drained by CompQueue and RxQueue through
\* libxdp's cached counters, are bounded FIFO channels from the kernel: the
\* client gets every published entry, in order, once and unchanged.
THEOREM RefinesFifo == Spec => IsFifo
<1>1. Init => Fifo!FifoInit
  <2> SUFFICES ASSUME Init PROVE Fifo!FifoInit
    OBVIOUS
  <2>1. 0 \in Index /\ WrapAdd(0, 0) = 0 /\ WrapSub(0, 0) = 0
    <3>1. 0 \in Index
      BY RingBounds DEF Index
    <3>2. WrapAdd(0, 0) = IF 0 + 0 < Modulus THEN 0 + 0 ELSE 0 + 0 - Modulus
      BY <3>1, WrapAddLinear
    <3> QED BY <3>1, <3>2, ZeroDistance, RingBounds
  <2>2. Unpublished = 0 /\ Unread = 0
    BY <2>1 DEF Init, Unpublished, Unread, NextUnread
  <2>3. Copied = <<>>
    BY NothingCopied DEF Init
  <2> QED BY <2>2, <2>3, Mapping, StretchEmpty DEF Fifo!FifoInit, Copied
<1>2. IndInv /\ [Next]_vars => [Fifo!FifoNext]_(Fifo!fifoVars)
  BY NextRefines
<1> QED BY <1>1, <1>2, Invariance, PTL DEF Spec, IsFifo, Fifo!FifoSpec

=============================================================================
