-------------------------- MODULE UmemLayoutProofs ---------------------------
(***************************************************************************)
(* Proofs about UmemLayout, for every frame size, headroom, number of      *)
(* frames and width of the configuration arithmetic.                       *)
(***************************************************************************)
EXTENDS UmemLayout, TLAPS

U32 == 0 .. (Modulus - 1)

\* The shape of the state; lengths and expected have one entry per segment.
TypeInv ==
  /\ phase \in {"config", "built", "rejected", "panicked", "mapped"}
  /\ config \in [frame_size : U32, frame_headroom : U32]
  /\ phase = "mapped" =>
       /\ DOMAIN memory = 0 .. (RegionLen(config) - 1)
       /\ lengths \in [Frames -> [Segments -> Nat]]
       /\ DOMAIN expected = Frames
       /\ \A f \in Frames : DOMAIN expected[f] = Segments
       /\ \A f \in Frames, seg \in Segments : DOMAIN expected[f][seg] = 0 .. (Cap(config, seg) - 1)

IndInv == TypeInv /\ LengthsFit /\ SegmentsAreIsolated

-----------------------------------------------------------------------------
(* Frames and segments in the region *)

\* The two operands of Cursor's `min`.
LEMMA MinOfTwo ==
  ASSUME NEW a \in Int, NEW b \in Int
  PROVE  Min({a, b}) = IF a <= b THEN a ELSE b
BY DEF Min

\* The dimensions of a frame are natural numbers, and its frame size is the sum
\* of the two headrooms and the mtu, whatever wrapped on the way.
LEMMA Dimensions ==
  ASSUME NEW c \in [frame_size : U32, frame_headroom : U32]
  PROVE  /\ c.frame_headroom \in Nat /\ Mtu(c) \in Nat /\ XDP_PACKET_HEADROOM \in Nat
         /\ LayoutFrameSize(c) \in Nat
         /\ LayoutFrameSize(c) = XDP_PACKET_HEADROOM + c.frame_headroom + Mtu(c)
<1>1. c.frame_headroom \in Nat /\ c.frame_size \in Nat
  BY LayoutAssumption DEF U32
<1>2. TotalHeadroom(c.frame_headroom) \in Nat
  BY <1>1, LayoutAssumption DEF TotalHeadroom
<1>3. Mtu(c) \in Nat
  BY <1>1, <1>2, LayoutAssumption DEF Mtu
<1> QED  BY <1>1, <1>3, LayoutAssumption DEF LayoutFrameSize

\* A byte of a segment lies within its frame.
LEMMA SegmentInFrame ==
  ASSUME NEW c \in [frame_size : U32, frame_headroom : U32],
         NEW f \in Frames, NEW seg \in Segments, NEW k \in 0 .. (Cap(c, seg) - 1)
  PROVE  /\ Cap(c, seg) \in Nat
         /\ f * LayoutFrameSize(c) \in Nat
         /\ f * LayoutFrameSize(c) <= Ptr(c, f, seg) + k
         /\ Ptr(c, f, seg) + k < f * LayoutFrameSize(c) + LayoutFrameSize(c)
<1> DEFINE L == LayoutFrameSize(c)
           h == c.frame_headroom
           m == Mtu(c)
           base == f * L
<1>1. /\ h \in Nat /\ m \in Nat /\ XDP_PACKET_HEADROOM \in Nat /\ L \in Nat
      /\ L = XDP_PACKET_HEADROOM + h + m
  BY Dimensions
<1>2. base \in Nat
  <2>1. f \in Nat
    BY LayoutAssumption DEF Frames
  <2> QED  BY <1>1, <2>1
<1>3. Addr(c, f) = base + XDP_PACKET_HEADROOM + h
  BY DEF Addr
<1> HIDE DEF L, h, m, base
<1>4. CASE seg = "headroom"
  <2>1. Cap(c, seg) = h /\ Ptr(c, f, seg) = Addr(c, f) - h
    BY <1>4 DEF Cap, Ptr, h
  <2>2. k \in 0 .. (h - 1)
    BY <2>1
  <2> QED  BY <1>1, <1>2, <1>3, <2>1, <2>2 DEF L, base
<1>5. CASE seg = "data"
  <2>1. Cap(c, seg) = m /\ Ptr(c, f, seg) = base + XDP_PACKET_HEADROOM + h
    BY <1>3, <1>5 DEF Cap, Ptr, m
  <2>2. k \in 0 .. (m - 1)
    BY <2>1
  <2> QED  BY <1>1, <1>2, <2>1, <2>2 DEF L, base
<1> QED  BY <1>4, <1>5 DEF Segments

\* Frames do not overlap and the last one ends with the region.
LEMMA FramesApart ==
  ASSUME NEW L \in Nat, NEW f \in Nat, NEW g \in Nat, f < g
  PROVE  f * L + L <= g * L
<1>1. PICK d \in Nat : g = f + 1 + d
  <2>1. g - f - 1 \in Nat /\ g = f + 1 + (g - f - 1)
    OBVIOUS
  <2> QED  BY <2>1
<1>2. g * L = f * L + L + d * L
  BY <1>1
<1>3. d * L \in Nat /\ f * L \in Nat
  BY <1>1
<1> QED  BY <1>2, <1>3

\* Bytes of different segments have different addresses: frames do not overlap,
\* and within a frame the headroom ends where the data begins.
LEMMA SegmentsApart ==
  ASSUME NEW c \in [frame_size : U32, frame_headroom : U32],
         NEW f \in Frames, NEW seg \in Segments, NEW k \in 0 .. (Cap(c, seg) - 1),
         NEW g \in Frames, NEW sg \in Segments, NEW j \in 0 .. (Cap(c, sg) - 1),
         f # g \/ seg # sg
  PROVE  Ptr(c, f, seg) + k # Ptr(c, g, sg) + j
<1> DEFINE L == LayoutFrameSize(c)
<1>1. L \in Nat /\ f \in Nat /\ g \in Nat
  BY Dimensions, LayoutAssumption DEF Frames
<1>2. f * L \in Nat /\ f * L <= Ptr(c, f, seg) + k /\ Ptr(c, f, seg) + k < f * L + L
  BY SegmentInFrame
<1>3. g * L \in Nat /\ g * L <= Ptr(c, g, sg) + j /\ Ptr(c, g, sg) + j < g * L + L
  BY SegmentInFrame
<1>4. /\ c.frame_headroom \in Nat /\ Mtu(c) \in Nat
      /\ \A e \in Frames : Addr(c, e) \in Int
  <2>1. c.frame_headroom \in Nat /\ Mtu(c) \in Nat /\ XDP_PACKET_HEADROOM \in Nat
    BY Dimensions
  <2>2. \A e \in Frames : e * L \in Int
    BY <1>1, LayoutAssumption DEF Frames
  <2> QED  BY <2>1, <2>2 DEF Addr
<1>5. Ptr(c, f, seg) \in Int /\ Ptr(c, g, sg) \in Int
  BY <1>4 DEF Ptr
<1> HIDE DEF L
<1>6. CASE f < g
  <2>1. f * L + L <= g * L
    BY <1>1, <1>6, FramesApart
  <2> QED  BY <1>1, <1>2, <1>3, <1>5, <2>1
<1>7. CASE g < f
  <2>1. g * L + L <= f * L
    BY <1>1, <1>7, FramesApart
  <2> QED  BY <1>1, <1>2, <1>3, <1>5, <2>1
<1>8. CASE f = g
  <2>1. CASE seg = "headroom" /\ sg = "data"
    <3>1. Ptr(c, f, seg) = Addr(c, f) - c.frame_headroom /\ Ptr(c, g, sg) = Addr(c, f)
      BY <1>8, <2>1 DEF Ptr
    <3>2. k \in 0 .. (c.frame_headroom - 1) /\ j \in 0 .. (Mtu(c) - 1)
      BY <2>1 DEF Cap
    <3> QED  BY <1>4, <3>1, <3>2
  <2>2. CASE seg = "data" /\ sg = "headroom"
    <3>1. Ptr(c, g, sg) = Addr(c, f) - c.frame_headroom /\ Ptr(c, f, seg) = Addr(c, f)
      BY <1>8, <2>2 DEF Ptr
    <3>2. j \in 0 .. (c.frame_headroom - 1) /\ k \in 0 .. (Mtu(c) - 1)
      BY <2>2 DEF Cap
    <3> QED  BY <1>4, <3>1, <3>2
  <2> QED  BY <1>8, <2>1, <2>2 DEF Segments
<1> QED  BY <1>1, <1>6, <1>7, <1>8

\* No byte of a segment lies outside the mapped region.
LEMMA SegmentInRegion ==
  ASSUME NEW c \in [frame_size : U32, frame_headroom : U32],
         NEW f \in Frames, NEW seg \in Segments, NEW k \in 0 .. (Cap(c, seg) - 1)
  PROVE  Ptr(c, f, seg) + k \in 0 .. (RegionLen(c) - 1)
<1> DEFINE L == LayoutFrameSize(c)
<1>1. L \in Nat /\ f \in Nat /\ FrameCount \in Nat /\ f < FrameCount
  BY Dimensions, LayoutAssumption DEF Frames
<1>2. f * L \in Nat /\ f * L <= Ptr(c, f, seg) + k /\ Ptr(c, f, seg) + k < f * L + L
  BY SegmentInFrame
<1>3. f * L + L <= FrameCount * L
  BY <1>1, FramesApart
<1>4. RegionLen(c) = FrameCount * L /\ FrameCount * L \in Nat
  BY <1>1 DEF RegionLen
<1>5. Ptr(c, f, seg) \in Int
  <2>1. c.frame_headroom \in Nat /\ XDP_PACKET_HEADROOM \in Nat
    BY Dimensions
  <2>2. Addr(c, f) \in Int
    BY <1>2, <2>1 DEF Addr
  <2> QED  BY <2>1, <2>2 DEF Ptr
<1> HIDE DEF L
<1> QED  BY <1>1, <1>2, <1>3, <1>4, <1>5

-----------------------------------------------------------------------------
(* Stores *)

\* What a store through a raw pointer does to the region and to the reference:
\* a store that stays within its segment changes them alike.
LEMMA StoreStep ==
  ASSUME IndInv, phase = "mapped", UNCHANGED config,
         NEW f \in Frames, NEW seg \in Segments, NEW pos \in Nat, NEW buf, Len(buf) \in Nat,
         pos + Len(buf) <= Cap(config, seg), Store(f, seg, pos, buf)
  PROVE  /\ DOMAIN memory' = 0 .. (RegionLen(config) - 1)
         /\ DOMAIN expected' = Frames
         /\ \A g \in Frames : DOMAIN expected'[g] = Segments
         /\ \A g \in Frames, sg \in Segments :
              DOMAIN expected'[g][sg] = 0 .. (Cap(config, sg) - 1)
         /\ SegmentsAreIsolated'
<1> USE DEF IndInv
<1> DEFINE n == Len(buf)
           ptr == Ptr(config, f, seg)
<1>1. config \in [frame_size : U32, frame_headroom : U32]
  BY DEF TypeInv
<1>2. memory' = Overlay(memory, ptr + pos, buf)
      /\ expected' = [expected EXCEPT ![f][seg] = Overlay(expected[f][seg], pos, buf)]
  BY DEF Store
<1>3. DOMAIN memory' = 0 .. (RegionLen(config) - 1)
  BY <1>2 DEF Overlay, TypeInv
<1>4. /\ DOMAIN expected' = Frames
      /\ \A g \in Frames : DOMAIN expected'[g] = Segments
      /\ expected'[f][seg] = Overlay(expected[f][seg], pos, buf)
      /\ \A g \in Frames, sg \in Segments :
           g # f \/ sg # seg => expected'[g][sg] = expected[g][sg]
  BY <1>2 DEF TypeInv
<1>5. \A g \in Frames, sg \in Segments : DOMAIN expected'[g][sg] = 0 .. (Cap(config, sg) - 1)
  <2>1. DOMAIN expected'[f][seg] = 0 .. (Cap(config, seg) - 1)
    BY <1>4 DEF Overlay, TypeInv
  <2> QED  BY <1>4, <2>1 DEF TypeInv
<1>6. Cap(config, seg) \in Int /\ ptr \in Int
  <2>1. config.frame_headroom \in Nat /\ Mtu(config) \in Nat /\ XDP_PACKET_HEADROOM \in Nat
        /\ LayoutFrameSize(config) \in Nat
    BY <1>1, Dimensions
  <2>2. f * LayoutFrameSize(config) \in Int
    BY <2>1, LayoutAssumption DEF Frames
  <2>3. Addr(config, f) \in Int
    BY <2>1, <2>2 DEF Addr
  <2> QED  BY <2>1, <2>3 DEF Cap, Ptr
<1>7. ASSUME NEW g \in Frames, NEW sg \in Segments, NEW j \in 0 .. (Cap(config, sg) - 1)
      PROVE  /\ Ptr(config, g, sg) + j \in DOMAIN memory'
             /\ memory'[Ptr(config, g, sg) + j] = expected'[g][sg][j]
  <2> DEFINE a == Ptr(config, g, sg) + j
  <2>1. a \in 0 .. (RegionLen(config) - 1)
    BY <1>1, SegmentInRegion
  <2>2. memory[a] = expected[g][sg][j]
    BY DEF SegmentsAreIsolated
  <2>3. memory'[a] = IF a \in (ptr + pos) .. (ptr + pos + n - 1)
                       THEN buf[a - (ptr + pos) + 1] ELSE memory[a]
    BY <1>2, <2>1 DEF Overlay, TypeInv
  <2>4. CASE g = f /\ sg = seg
    <3>1. expected'[g][sg][j] = IF j \in pos .. (pos + n - 1)
                                  THEN buf[j - pos + 1] ELSE expected[g][sg][j]
      BY <1>4, <2>4 DEF Overlay, TypeInv
    <3>2. a = ptr + j
      BY <2>4
    <3>3. /\ a \in (ptr + pos) .. (ptr + pos + n - 1) <=> j \in pos .. (pos + n - 1)
          /\ a - (ptr + pos) + 1 = j - pos + 1
      BY <1>6, <3>2
    <3> QED  BY <1>3, <2>1, <2>2, <2>3, <3>1, <3>3
  <2>5. CASE g # f \/ sg # seg
    <3>1. a \notin (ptr + pos) .. (ptr + pos + n - 1)
      <4> SUFFICES ASSUME a \in (ptr + pos) .. (ptr + pos + n - 1) PROVE FALSE
        OBVIOUS
      <4> DEFINE k == a - ptr
      <4>1. k \in 0 .. (Cap(config, seg) - 1) /\ a = ptr + k
        BY <1>6, <2>1
      <4> HIDE DEF k
      <4>2. ptr + k # a
        BY <1>1, <2>5, <4>1, SegmentsApart
      <4> QED  BY <4>1, <4>2
    <3> QED  BY <1>3, <1>4, <2>1, <2>2, <2>3, <2>5, <3>1
  <2> QED  BY <2>4, <2>5
<1>8. SegmentsAreIsolated'
  BY <1>7 DEF SegmentsAreIsolated
<1> QED  BY <1>3, <1>4, <1>5, <1>8

-----------------------------------------------------------------------------
(* Steps *)

\* The capacity of a segment is a natural number.
LEMMA CapType ==
  ASSUME NEW c \in [frame_size : U32, frame_headroom : U32], NEW seg \in Segments
  PROVE  Cap(c, seg) \in Nat
BY Dimensions DEF Cap

\* A step of a mapped UMEM that stores within a segment, or not at all, keeps
\* the invariant if the lengths it leaves fit.
LEMMA MappedStep ==
  ASSUME IndInv, phase = "mapped", UNCHANGED <<phase, config>>,
         \/ UNCHANGED <<memory, expected>>
         \/ \E f \in Frames, seg \in Segments, pos \in Nat, buf \in Seq(Nat) :
              pos + Len(buf) <= Cap(config, seg) /\ Store(f, seg, pos, buf),
         lengths' \in [Frames -> [Segments -> Nat]],
         \A f \in Frames, seg \in Segments : lengths'[f][seg] <= Cap(config, seg)
  PROVE  IndInv'
<1>1. config \in [frame_size : U32, frame_headroom : U32]
  BY DEF IndInv, TypeInv
<1>2. LengthsFit'
  <2> SUFFICES ASSUME NEW f \in Frames, NEW seg \in Segments
               PROVE  lengths'[f][seg] \in 0 .. Cap(config, seg)
    BY DEF LengthsFit, Cap, Mtu, TotalHeadroom
  <2>1. lengths'[f][seg] \in Nat
    OBVIOUS
  <2> QED  BY <1>1, <2>1, CapType
<1>3. CASE UNCHANGED <<memory, expected>>
  BY <1>2, <1>3 DEF IndInv, TypeInv, SegmentsAreIsolated
<1>4. ASSUME NEW f \in Frames, NEW seg \in Segments, NEW pos \in Nat, NEW buf \in Seq(Nat),
             pos + Len(buf) <= Cap(config, seg), Store(f, seg, pos, buf)
      PROVE  IndInv'
  <2>1. Len(buf) \in Nat
    OBVIOUS
  <2>2. /\ DOMAIN memory' = 0 .. (RegionLen(config) - 1)
        /\ DOMAIN expected' = Frames
        /\ \A g \in Frames : DOMAIN expected'[g] = Segments
        /\ \A g \in Frames, sg \in Segments :
             DOMAIN expected'[g][sg] = 0 .. (Cap(config, sg) - 1)
        /\ SegmentsAreIsolated'
    BY <1>4, <2>1, StoreStep
  <2>3. TypeInv'
    BY <2>2 DEF IndInv, TypeInv
  <2> QED  BY <1>2, <2>2, <2>3 DEF IndInv
<1> QED  BY <1>3, <1>4

\* The record of lengths Umem::new, RxQueue::consume and CompQueue::consume
\* assign is a function on the segments.
LEMMA LengthsRecord ==
  ASSUME NEW n \in Nat
  PROVE  /\ [headroom |-> 0, data |-> n] \in [Segments -> Nat]
         /\ [headroom |-> 0, data |-> n]["headroom"] = 0
         /\ [headroom |-> 0, data |-> n]["data"] = n
BY DEF Segments

\* Changing the length of one segment leaves the others alone.
LEMMA SetLength ==
  ASSUME lengths \in [Frames -> [Segments -> Nat]], NEW f \in Frames, NEW seg \in Segments,
         NEW n \in Nat, lengths' = [lengths EXCEPT ![f][seg] = n]
  PROVE  /\ lengths' \in [Frames -> [Segments -> Nat]]
         /\ lengths'[f][seg] = n
         /\ \A g \in Frames, sg \in Segments :
              g # f \/ sg # seg => lengths'[g][sg] = lengths[g][sg]
OBVIOUS

\* Cursor::write: it starts at the segment's length, takes what fits and leaves
\* the length within the segment.
LEMMA WriteStep ==
  ASSUME IndInv, phase = "mapped", UNCHANGED <<phase, config>>,
         NEW f \in Frames, NEW seg \in Segments, NEW buf \in Seq(Nat), Write(f, seg, buf)
  PROVE  IndInv'
<1> DEFINE cap == Cap(config, seg)
           len == lengths[f][seg]
           amt == WriteAmount(f, seg, Len(buf))
<1>1. cap \in Nat /\ len \in Nat /\ len <= cap /\ lengths \in [Frames -> [Segments -> Nat]]
  BY CapType DEF IndInv, TypeInv, LengthsFit
<1>2. WritePos(f, seg) = len
  <2>1. Min({len, cap}) = IF len <= cap THEN len ELSE cap
    BY <1>1, MinOfTwo
  <2> QED  BY <1>1, <2>1 DEF WritePos
<1>3. amt \in Nat /\ amt <= Len(buf) /\ len + amt <= cap
  <2> DEFINE n == Len(buf)
  <2>1. n \in Nat
    OBVIOUS
  <2>2. amt = Min({n, cap - len})
    BY <1>2 DEF WriteAmount
  <2> HIDE DEF amt, n
  <2>3. amt = IF n <= cap - len THEN n ELSE cap - len
    BY <1>1, <2>1, <2>2, MinOfTwo
  <2> QED  BY <1>1, <2>1, <2>3 DEF n
<1>4. Store(f, seg, len, SubSeq(buf, 1, amt)) /\ lengths' = [lengths EXCEPT ![f][seg] = len + amt]
  BY <1>2 DEF Write
<1> HIDE DEF amt, cap, len
<1>5. SubSeq(buf, 1, amt) \in Seq(Nat) /\ Len(SubSeq(buf, 1, amt)) = amt
  BY <1>3
<1>6. /\ lengths' \in [Frames -> [Segments -> Nat]]
      /\ lengths'[f][seg] = len + amt
      /\ \A g \in Frames, sg \in Segments :
           g # f \/ sg # seg => lengths'[g][sg] = lengths[g][sg]
  BY <1>1, <1>3, <1>4, SetLength DEF len
<1>7. \A g \in Frames, sg \in Segments : lengths'[g][sg] <= Cap(config, sg)
  <2> SUFFICES ASSUME NEW g \in Frames, NEW sg \in Segments
               PROVE  lengths'[g][sg] <= Cap(config, sg)
    OBVIOUS
  <2>1. lengths[g][sg] \in 0 .. Cap(config, sg) /\ Cap(config, sg) \in Nat
    BY CapType DEF IndInv, TypeInv, LengthsFit
  <2> QED  BY <1>3, <1>6, <2>1 DEF cap
<1> QED  BY <1>1, <1>3, <1>4, <1>5, <1>6, <1>7, MappedStep DEF cap

\* The buffers a client writes are sequences of bytes, and so is their
\* concatenation.
LEMMA BuffersAreSequences ==
  /\ Buffers \subseteq Seq(Nat)
  /\ \A a, b \in Seq(Nat) : a \o b \in Seq(Nat)
<1>1. ASSUME NEW buf \in Buffers PROVE buf \in Seq(Nat)
  <2>1. PICK n \in 0 .. MaxWrite : buf \in [1 .. n -> Bytes]
    BY DEF Buffers
  <2>2. n \in Nat /\ Bytes \subseteq Nat
    BY LayoutAssumption
  <2>3. buf \in [1 .. n -> Nat]
    BY <2>1, <2>2
  <2> QED  BY <2>2, <2>3
<1> QED  BY <1>1

\* The lengths before a step fit.
LEMMA OldLengths ==
  ASSUME IndInv, phase = "mapped"
  PROVE  /\ config \in [frame_size : U32, frame_headroom : U32]
         /\ lengths \in [Frames -> [Segments -> Nat]]
         /\ \A f \in Frames, seg \in Segments :
              lengths[f][seg] <= Cap(config, seg) /\ Cap(config, seg) \in Nat
<1>1. config \in [frame_size : U32, frame_headroom : U32]
      /\ lengths \in [Frames -> [Segments -> Nat]]
  BY DEF IndInv, TypeInv
<1> QED  BY <1>1, CapType DEF IndInv, LengthsFit

\* A change of one length to one that fits keeps all of them fitting.
LEMMA NewLengths ==
  ASSUME IndInv, phase = "mapped", NEW f \in Frames, NEW seg \in Segments,
         NEW n \in Nat, n <= Cap(config, seg), lengths' = [lengths EXCEPT ![f][seg] = n]
  PROVE  /\ lengths' \in [Frames -> [Segments -> Nat]]
         /\ \A g \in Frames, sg \in Segments : lengths'[g][sg] <= Cap(config, sg)
BY OldLengths, SetLength

\* A descriptor that gets fresh lengths: no headroom, n bytes of data.
LEMMA FreshLengths ==
  ASSUME IndInv, phase = "mapped", NEW f \in Frames, NEW n \in Nat, n <= Mtu(config),
         lengths' = [lengths EXCEPT ![f] = [headroom |-> 0, data |-> n]]
  PROVE  /\ lengths' \in [Frames -> [Segments -> Nat]]
         /\ \A g \in Frames, sg \in Segments : lengths'[g][sg] <= Cap(config, sg)
<1> DEFINE r == [headroom |-> 0, data |-> n]
<1>1. r \in [Segments -> Nat] /\ r["headroom"] = 0 /\ r["data"] = n
  BY LengthsRecord
<1> HIDE DEF r
<1>2. lengths' = [lengths EXCEPT ![f] = r]
  BY DEF r
<1>3. lengths' \in [Frames -> [Segments -> Nat]]
  BY <1>1, <1>2, OldLengths
<1>4. \A sg \in Segments : r[sg] <= Cap(config, sg)
  <2>1. 0 <= Cap(config, "headroom") /\ r["data"] <= Cap(config, "data")
    BY <1>1, OldLengths DEF Segments, Cap
  <2> QED  BY <1>1, <2>1 DEF Segments
<1>5. \A g \in Frames, sg \in Segments : lengths'[g][sg] <= Cap(config, sg)
  BY <1>2, <1>4, OldLengths
<1> QED  BY <1>3, <1>5

\* write_vectored is one write of the buffers that fit, in a row.
LEMMA CursorWriteSteps ==
  ASSUME IndInv, CursorWrite \/ CursorWriteVectored
  PROVE  IndInv'
<1>1. CASE CursorWrite
  BY <1>1, WriteStep, BuffersAreSequences DEF CursorWrite
<1>2. CASE CursorWriteVectored
  <2>1. PICK f \in Frames, seg \in Segments, first \in Buffers, second \in Buffers :
          Write(f, seg, first) \/ Write(f, seg, first \o second)
    BY <1>2 DEF CursorWriteVectored
  <2>2. first \in Seq(Nat) /\ first \o second \in Seq(Nat)
    BY BuffersAreSequences
  <2> QED  BY <1>2, <2>1, <2>2, WriteStep DEF CursorWriteVectored
<1> QED  BY <1>1, <1>2

\* set_pos: the position is cut to the buffer.
LEMMA CursorSetPosStep ==
  ASSUME IndInv, CursorSetPos
  PROVE  IndInv'
<1>1. phase = "mapped" /\ UNCHANGED <<phase, config, memory, expected>>
  BY DEF CursorSetPos
<1>2. PICK f \in Frames, seg \in Segments, pos \in 0 .. (MaxFrameSize + 1) :
        lengths' = [lengths EXCEPT ![f][seg] = Min({pos, Cap(config, seg)})]
  BY DEF CursorSetPos
<1> DEFINE n == Min({pos, Cap(config, seg)})
<1>3. n \in Nat /\ n <= Cap(config, seg)
  <2>1. Cap(config, seg) \in Nat /\ pos \in Nat
    BY <1>1, OldLengths, LayoutAssumption
  <2> QED  BY <2>1, MinOfTwo
<1> HIDE DEF n
<1>4. /\ lengths' \in [Frames -> [Segments -> Nat]]
      /\ \A g \in Frames, sg \in Segments : lengths'[g][sg] <= Cap(config, sg)
  BY <1>1, <1>2, <1>3, NewLengths DEF n
<1> QED  BY <1>1, <1>4, MappedStep

\* n equal bytes are a sequence of length n.
LEMMA RepeatedByte ==
  ASSUME NEW n \in Nat, NEW b \in Nat
  PROVE  [k \in 1 .. n |-> b] \in Seq(Nat) /\ Len([k \in 1 .. n |-> b]) = n
OBVIOUS

\* zero_out stores exactly the capacity of the segment.
LEMMA CursorZeroOutStep ==
  ASSUME IndInv, CursorZeroOut
  PROVE  IndInv'
<1>1. phase = "mapped" /\ UNCHANGED <<phase, config>>
  BY DEF CursorZeroOut
<1>2. PICK f \in Frames, seg \in Segments :
        /\ Store(f, seg, 0, [k \in 1 .. Cap(config, seg) |-> 0])
        /\ lengths' = [lengths EXCEPT ![f][seg] = 0]
  BY DEF CursorZeroOut
<1> DEFINE buf == [k \in 1 .. Cap(config, seg) |-> 0]
<1>3. Cap(config, seg) \in Nat
  BY <1>1, OldLengths
<1>4. buf \in Seq(Nat) /\ Len(buf) = Cap(config, seg)
  BY <1>3, RepeatedByte
<1>5. Store(f, seg, 0, buf)
  BY <1>2
<1> HIDE DEF buf
<1>6. 0 + Len(buf) <= Cap(config, seg)
  BY <1>3, <1>4
<1>7. /\ lengths' \in [Frames -> [Segments -> Nat]]
      /\ \A g \in Frames, sg \in Segments : lengths'[g][sg] <= Cap(config, sg)
  <2>1. 0 \in Nat /\ 0 <= Cap(config, seg)
    BY <1>3
  <2> QED  BY <1>1, <1>2, <2>1, NewLengths
<1> QED  BY <1>1, <1>4, <1>5, <1>6, <1>7, MappedStep

\* contents_mut reaches up to the length, which fits.
LEMMA ContentsMutStep ==
  ASSUME IndInv, ContentsMut
  PROVE  IndInv'
<1>1. phase = "mapped" /\ UNCHANGED <<phase, config, lengths>>
  BY DEF ContentsMut
<1>2. PICK f \in Frames, seg \in Segments, b \in Bytes :
        \E pos \in 0 .. (lengths[f][seg] - 1) : Store(f, seg, pos, <<b>>)
  BY DEF ContentsMut
<1>3. PICK pos \in 0 .. (lengths[f][seg] - 1) : Store(f, seg, pos, <<b>>)
  BY <1>2
<1>4. <<b>> \in Seq(Nat) /\ Len(<<b>>) = 1
  BY LayoutAssumption
<1>5. pos \in Nat /\ pos + Len(<<b>>) <= Cap(config, seg)
  <2>1. lengths[f][seg] \in Nat /\ lengths[f][seg] <= Cap(config, seg) /\ Cap(config, seg) \in Nat
    BY <1>1, OldLengths
  <2> QED  BY <1>4, <2>1
<1> QED  BY <1>1, <1>3, <1>4, <1>5, OldLengths, MappedStep

\* A packet takes at most the mtu, and the lengths are set to it.
LEMMA ReceiveStep ==
  ASSUME IndInv, Receive
  PROVE  IndInv'
<1>1. phase = "mapped" /\ UNCHANGED <<phase, config>>
  BY DEF Receive
<1>2. PICK f \in Frames, b \in Bytes, n \in 0 .. Mtu(config) :
        /\ Store(f, "data", 0, [k \in 1 .. n |-> b])
        /\ lengths' = [lengths EXCEPT ![f] = [headroom |-> 0, data |-> n]]
  BY DEF Receive
<1> DEFINE buf == [k \in 1 .. n |-> b]
<1>3. n \in Nat /\ n <= Mtu(config) /\ b \in Nat /\ Cap(config, "data") = Mtu(config)
      /\ "data" \in Segments
  <2>1. Mtu(config) \in Nat
    BY <1>1, OldLengths, Dimensions
  <2> QED  BY <2>1, LayoutAssumption DEF Cap, Segments
<1>4. buf \in Seq(Nat) /\ Len(buf) = n /\ Store(f, "data", 0, buf)
  BY <1>2, <1>3, RepeatedByte
<1> HIDE DEF buf
<1>5. 0 + Len(buf) <= Cap(config, "data")
  BY <1>3, <1>4
<1>6. /\ lengths' \in [Frames -> [Segments -> Nat]]
      /\ \A g \in Frames, sg \in Segments : lengths'[g][sg] <= Cap(config, sg)
  BY <1>1, <1>2, <1>3, FreshLengths
<1> QED  BY <1>1, <1>3, <1>4, <1>5, <1>6, MappedStep

\* CompQueue::consume resets the lengths.
LEMMA CompleteStep ==
  ASSUME IndInv, Complete
  PROVE  IndInv'
<1>1. phase = "mapped" /\ UNCHANGED <<phase, config, memory, expected>>
  BY DEF Complete
<1>2. PICK f \in Frames : lengths' = [lengths EXCEPT ![f] = [headroom |-> 0, data |-> 0]]
  BY DEF Complete
<1>3. 0 <= Mtu(config)
  BY <1>1, OldLengths, Dimensions
<1>4. /\ lengths' \in [Frames -> [Segments -> Nat]]
      /\ \A g \in Frames, sg \in Segments : lengths'[g][sg] <= Cap(config, sg)
  BY <1>1, <1>2, <1>3, FreshLengths
<1> QED  BY <1>1, <1>4, MappedStep

\* ConfigBuilder::build and a second attempt touch no memory.
LEMMA ConfigSteps ==
  ASSUME IndInv, Build \/ Reconfigure
  PROVE  IndInv'
<1>1. phase' # "mapped" /\ phase' \in {"config", "built", "rejected", "panicked"}
  BY DEF Build, Reconfigure
<1>2. config' \in [frame_size : U32, frame_headroom : U32]
  <2>1. CASE Build
    <3>1. PICK size \in 0 .. MaxFrameSize, headroom \in Headrooms :
            config' = [frame_size |-> size, frame_headroom |-> headroom]
      BY <2>1 DEF Build
    <3>2. size \in U32 /\ headroom \in U32
      BY LayoutAssumption DEF U32
    <3> QED  BY <3>1, <3>2
  <2>2. CASE Reconfigure
    <3>1. 0 \in U32
      BY LayoutAssumption DEF U32
    <3> QED  BY <2>2, <3>1 DEF Reconfigure, NoConfig
  <2> QED  BY <2>1, <2>2
<1> QED  BY <1>1, <1>2 DEF IndInv, TypeInv, LengthsFit, SegmentsAreIsolated

\* Umem::new: a zeroed region, every segment empty and zero.
LEMMA NewUmemStep ==
  ASSUME IndInv, NewUmem
  PROVE  IndInv'
<1>1. /\ phase' = "mapped" /\ config' = config
      /\ config \in [frame_size : U32, frame_headroom : U32]
  BY DEF NewUmem, IndInv, TypeInv
<1>2. memory' = [a \in 0 .. (RegionLen(config) - 1) |-> 0]
  BY DEF NewUmem
<1>3. expected' = [f \in Frames |->
                     [seg \in Segments |-> [k \in 0 .. (Cap(config, seg) - 1) |-> 0]]]
  BY DEF NewUmem
<1>4. lengths' \in [Frames -> [Segments -> Nat]]
      /\ \A f \in Frames, seg \in Segments : lengths'[f][seg] = 0
  <2> DEFINE r == [headroom |-> 0, data |-> 0]
  <2>1. r \in [Segments -> Nat] /\ r["headroom"] = 0 /\ r["data"] = 0
    BY LengthsRecord
  <2>2. lengths' = [f \in Frames |-> r]
    BY DEF NewUmem
  <2> HIDE DEF r
  <2> QED  BY <2>1, <2>2 DEF Segments
<1>5. TypeInv'
  <2>1. DOMAIN memory' = 0 .. (RegionLen(config) - 1)
    BY <1>2
  <2>2. /\ DOMAIN expected' = Frames
        /\ \A f \in Frames : DOMAIN expected'[f] = Segments
        /\ \A f \in Frames, seg \in Segments :
             DOMAIN expected'[f][seg] = 0 .. (Cap(config, seg) - 1)
    BY <1>3
  <2> QED  BY <1>1, <1>4, <2>1, <2>2 DEF TypeInv
<1>6. LengthsFit'
  BY <1>1, <1>4, CapType DEF LengthsFit
<1>7. SegmentsAreIsolated'
  <2> SUFFICES ASSUME NEW f \in Frames, NEW seg \in Segments, NEW k \in 0 .. (Cap(config, seg) - 1)
               PROVE  /\ Ptr(config, f, seg) + k \in DOMAIN memory'
                      /\ memory'[Ptr(config, f, seg) + k] = expected'[f][seg][k]
    BY <1>1 DEF SegmentsAreIsolated
  <2>1. Ptr(config, f, seg) + k \in 0 .. (RegionLen(config) - 1)
    BY <1>1, SegmentInRegion
  <2> QED  BY <1>2, <1>3, <2>1
<1> QED  BY <1>5, <1>6, <1>7 DEF IndInv

\* The invariant holds in every reachable state.
LEMMA IndInvHolds == Spec => []IndInv
<1>1. Init => IndInv
  <2>1. 0 \in U32
    BY LayoutAssumption DEF U32
  <2> QED  BY <2>1 DEF Init, NoConfig, IndInv, TypeInv, LengthsFit, SegmentsAreIsolated
<1>2. IndInv /\ [Next]_vars => IndInv'
  <2> SUFFICES ASSUME IndInv, [Next]_vars PROVE IndInv'
    OBVIOUS
  <2>1. CASE UNCHANGED vars
    BY <2>1 DEF vars, IndInv, TypeInv, LengthsFit, SegmentsAreIsolated
  <2> QED  BY <2>1, ConfigSteps, NewUmemStep, CursorWriteSteps, CursorSetPosStep,
              CursorZeroOutStep, ContentsMutStep, ReceiveStep, CompleteStep DEF Next
<1> QED  BY <1>1, <1>2, PTL DEF Spec

-----------------------------------------------------------------------------
(* The properties *)

\* Whatever the cursors, RxQueue::consume and CompQueue::consume do to a
\* descriptor, its lengths fit their segments, also where the configuration
\* arithmetic wrapped.
THEOREM LengthsAlwaysFit == Spec => []LengthsFit
BY IndInvHolds, PTL DEF IndInv

\* No access through a segment of a frame shows in another segment or leaves
\* the region, for any layout the builder lets through.
THEOREM SegmentsStayIsolated == Spec => []SegmentsAreIsolated
BY IndInvHolds, PTL DEF IndInv

\* The additions of the two headrooms that build performs do not wrap unseen:
\* either no headroom a client asks for is that large, or the build panics.
NoHiddenWrap == OverflowChecks \/ \A headroom \in Headrooms : ~HeadroomOverflows(headroom)

\* A configuration that build has accepted leaves room for both headrooms.
BuiltInv ==
  phase \in {"built", "mapped"} =>
    /\ config \in [frame_size : U32, frame_headroom : U32]
    /\ XDP_PACKET_HEADROOM + config.frame_headroom < Modulus
    /\ XDP_PACKET_HEADROOM + config.frame_headroom <= config.frame_size

\* Without a hidden wrap the check in ConfigBuilder::build is the one it means.
LEMMA BuiltInvHolds ==
  ASSUME NoHiddenWrap
  PROVE  Spec => []BuiltInv
<1>1. Init => BuiltInv
  BY DEF Init, BuiltInv
<1>2. BuiltInv /\ [Next]_vars => BuiltInv'
  <2> SUFFICES ASSUME BuiltInv, [Next]_vars PROVE BuiltInv'
    OBVIOUS
  <2>1. CASE Build
    <3>1. PICK size \in 0 .. MaxFrameSize, headroom \in Headrooms :
            /\ config' = [frame_size |-> size, frame_headroom |-> headroom]
            /\ phase' = IF OverflowChecks /\ HeadroomOverflows(headroom) THEN "panicked"
                        ELSE IF TotalHeadroom(headroom) > size THEN "rejected"
                        ELSE "built"
      BY <2>1 DEF Build
    <3>2. size \in U32 /\ headroom \in U32
      BY LayoutAssumption DEF U32
    <3>3. CASE HeadroomOverflows(headroom)
      BY <3>1, <3>3 DEF NoHiddenWrap, BuiltInv
    <3>4. CASE ~HeadroomOverflows(headroom)
      <4>1. /\ XDP_PACKET_HEADROOM + headroom < Modulus
            /\ XDP_PACKET_HEADROOM + headroom \in Nat
            /\ TotalHeadroom(headroom) = XDP_PACKET_HEADROOM + headroom
        BY <3>2, <3>4, LayoutAssumption DEF HeadroomOverflows, TotalHeadroom, U32
      <4>2. phase' = "built" => XDP_PACKET_HEADROOM + headroom <= size
        BY <3>1, <3>2, <3>4, <4>1, LayoutAssumption DEF U32
      <4>3. phase' # "mapped"
        BY <3>1
      <4> QED  BY <3>1, <3>2, <4>1, <4>2, <4>3 DEF BuiltInv
    <3> QED  BY <3>3, <3>4
  <2>2. CASE Reconfigure
    BY <2>2 DEF Reconfigure, BuiltInv
  <2>3. CASE NewUmem
    BY <2>3 DEF NewUmem, BuiltInv
  <2>4. CASE UNCHANGED <<phase, config>>
    BY <2>4 DEF BuiltInv
  <2> QED  BY <2>1, <2>2, <2>3, <2>4 DEF Next, vars, CursorWrite, CursorWriteVectored,
              CursorSetPos, CursorZeroOut, ContentsMut, Receive, Complete
<1> QED  BY <1>1, <1>2, PTL DEF Spec

\* build refuses every headroom that does not fit the frame, provided its
\* addition does not wrap unseen; the run MCUmemHeadroomWraps shows that the
\* proviso is needed.
THEOREM ExcessHeadroomRejected ==
  ASSUME NoHiddenWrap
  PROVE  Spec => []BuildRejectsExcessHeadroom
<1>1. BuiltInv => BuildRejectsExcessHeadroom
  BY DEF BuiltInv, BuildRejectsExcessHeadroom
<1> QED  BY <1>1, BuiltInvHolds, PTL

\* Under the same proviso the frames that FrameLayout describes have the size
\* the kernel is told.
THEOREM LayoutIsConfigured ==
  ASSUME NoHiddenWrap
  PROVE  Spec => []LayoutMatchesConfig
<1>1. BuiltInv => LayoutMatchesConfig
  <2> SUFFICES ASSUME BuiltInv, phase \in {"built", "mapped"}
               PROVE  LayoutFrameSize(config) = config.frame_size
    BY DEF LayoutMatchesConfig
  <2> DEFINE total == XDP_PACKET_HEADROOM + config.frame_headroom
             size == config.frame_size
  <2>1. total \in Nat /\ size \in U32 /\ total < Modulus /\ total <= size
    BY LayoutAssumption DEF BuiltInv, U32
  <2>2. TotalHeadroom(config.frame_headroom) = total
    BY <2>1, LayoutAssumption DEF TotalHeadroom
  <2>3. Mtu(config) = (size - total) % Modulus
    BY <2>2 DEF Mtu
  <2>4. LayoutFrameSize(config) = total + Mtu(config)
    BY DEF LayoutFrameSize
  <2> HIDE DEF total, size
  <2>5. (size - total) % Modulus = size - total
    BY <2>1, LayoutAssumption DEF U32
  <2> QED  BY <2>1, <2>3, <2>4, <2>5 DEF U32, size
<1> QED  BY <1>1, BuiltInvHolds, PTL

=============================================================================
