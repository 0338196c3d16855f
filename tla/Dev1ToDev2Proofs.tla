-------------------------- MODULE Dev1ToDev2Proofs ---------------------------
(***************************************************************************)
(* Proofs about Dev1ToDev2, for every size of the rings, every batch size, *)
(* any number of packets and both variants of the example: the link is     *)
(* cleaned up, a frame is in one place at a time and belongs to the umem   *)
(* it is used with, packets leave in order, the totals match the rings,    *)
(* and the single thread loses no packet.                                  *)
(*                                                                         *)
(* The frames of a device go round: from the ring that gives them to the   *)
(* kernel into the ring that gives them back, from there into the first    *)
(* places of a vector of descriptors, and from those back into the first   *)
(* ring.  What is in the first places of a vector, and how many of them    *)
(* count, depends on where the loop is; the inductive invariant says so.   *)
(***************************************************************************)
EXTENDS Dev1ToDev2, FiniteSetTheorems, SequenceTheorems, TLAPS

TxLabels == {"off", "start", "wait", "comp", "idle", "write", "ready", "submit", "finish",
             "returned", "panicked"}
RxLabels == {"off", "start", "signal", "kick", "poll", "check", "refill",
             "returned", "panicked"}
Labels == TxLabels \cup RxLabels

\* The thread of f ends once, and the pair has an owner or the user was told.
SessionInv ==
  /\ f \in {"idle", "running", "returned", "panicked"} /\ built \in BOOLEAN
  /\ ex \in {"build", "index", "setup"} => f = "idle"
  /\ ex \in {"build", "send", "returned", "panicked"} => ~link \/ told
  /\ MainEnded => ExEnded
  /\ built => f = "running"

TypeInv ==
  /\ multithreaded \in BOOLEAN /\ max_batch_size \in Batches
  /\ tx \in Seq(Descs1) /\ comp \in Seq(Descs1) /\ flight \in SUBSET Descs1
  /\ fill \in Seq(Descs2) /\ rx \in Seq(Descs2)
  /\ wire \in Nat /\ last_pkt \in Nat /\ next_pkt \in Nat
  /\ frame_data \in [Frames -> Nat]
  /\ descs \in [Sides -> [Frames -> Descs]] /\ descs["rx"] \in [Frames -> Descs2]
  /\ total_frames_sent \in Nat /\ total_frames_consumed \in Nat /\ total_frames_rcvd \in Nat
  /\ frames_rcvd \in [Sides -> 0 .. FrameCount]

SizeInv ==
  /\ Len(tx) <= TxSize /\ Len(fill) <= FqSize
  /\ Len(comp) + Cardinality(flight) <= CqSize /\ Len(rx) <= RxSize

\* Where the loops are.  The single thread is in one of them.
PcInv ==
  /\ pc \in [Sides -> Labels] /\ pc["tx"] \in TxLabels /\ pc["rx"] \in RxLabels
  /\ ~multithreaded => \/ pc["tx"] = "off" \/ pc["rx"] = "off"
                       \/ pc["tx"] = pc["rx"] /\ pc["tx"] \in Ended

\* What has not been touched before a loop starts.
StartInv ==
  /\ pc["tx"] = "start" \/ (~multithreaded /\ pc["rx"] = "start") =>
       /\ tx = <<>> /\ comp = <<>> /\ flight = {} /\ descs["tx"] = [i \in Frames |-> i]
       /\ wire = 0 /\ last_pkt = 0 /\ next_pkt = 1
       /\ total_frames_sent = 0 /\ total_frames_consumed = 0
  /\ pc["rx"] = "start" =>
       fill = <<>> /\ rx = <<>> /\ descs["rx"] = [i \in Frames |-> FrameCount + i]

(***************************************************************************)
(* Frames in circulation: s and t the two rings, u the set in the kernel's *)
(* hands, h the sequence of those held in a vector.  All are different.    *)
(***************************************************************************)
Once(s) == \A i, j \in 1 .. Len(s) : s[i] = s[j] => i = j
Apart(s, t) == \A i \in 1 .. Len(s), j \in 1 .. Len(t) : s[i] # t[j]
Clear(s, u) == \A i \in 1 .. Len(s) : s[i] \notin u

Circulate(s, t, u, h) ==
  /\ Once(s) /\ Once(t) /\ Once(h)
  /\ Apart(s, t) /\ Apart(s, h) /\ Apart(t, h)
  /\ Clear(s, u) /\ Clear(t, u) /\ Clear(h, u)

\* What each loop holds between taking frames and putting them back.
Held1 == IF pc["tx"] \in {"write", "ready", "submit"}
           THEN Slice("tx", frames_rcvd["tx"]) ELSE <<>>
Held2 == IF pc["rx"] = "refill" THEN Slice("rx", frames_rcvd["rx"]) ELSE <<>>

FrameInv ==
  /\ pc["tx"] \in {"write", "ready", "submit"} => Held1 \in Seq(Descs1)
  /\ Circulate(tx, comp, flight, Held1)
  /\ multithreaded => Circulate(fill, rx, {}, Held2)

(***************************************************************************)
(* The packets in the frames of s and then h are newer and newer, newer    *)
(* than last and older than next.                                          *)
(***************************************************************************)
Newer(s, h, data, last, next) ==
  /\ last < next
  /\ \A i \in 1 .. Len(s) : last < data[s[i]] /\ data[s[i]] < next
  /\ \A i \in 1 .. Len(h) : last < data[h[i]] /\ data[h[i]] < next
  /\ \A i, j \in 1 .. Len(s) : i < j => data[s[i]] < data[s[j]]
  /\ \A i, j \in 1 .. Len(h) : i < j => data[h[i]] < data[h[j]]
  /\ \A i \in 1 .. Len(s), j \in 1 .. Len(h) : data[s[i]] < data[h[j]]

\* What has been written and not been put into the ring.
Prepared == IF pc["tx"] \in {"ready", "submit"}
              THEN Slice("tx", frames_rcvd["tx"]) ELSE <<>>

DataInv == Newer(tx, Prepared, frame_data, last_pkt, next_pkt)

\* The frames the receiver has taken and not put back.
Taken == IF pc["rx"] = "refill" THEN frames_rcvd["rx"] ELSE 0

TotalsInv ==
  /\ pc["tx"] # "panicked" =>
       total_frames_sent = total_frames_consumed + Len(tx) + Len(comp) + Cardinality(flight)
  /\ pc["rx"] \notin {"start", "panicked"} /\ f \in {"idle", "running"} =>
       Len(fill) + Len(rx) + Taken = FqSize
  /\ pc["tx"] \in {"write", "ready", "submit"} => total_frames_sent < NumPackets

\* Packets sent and not counted as received.
UnderWay == Len(tx) + wire + Len(rx) + Taken

SingleInv ==
  ~multithreaded /\ BatchFits /\ pc["rx"] \notin Ended =>
    /\ total_frames_sent = total_frames_rcvd + UnderWay
    /\ UnderWay <= max_batch_size
    /\ pc["tx"] \in {"comp", "idle", "write", "ready", "submit"} => UnderWay = 0

LoopInv ==
  /\ TypeInv /\ SizeInv /\ PcInv /\ StartInv /\ FrameInv /\ DataInv /\ TotalsInv /\ SingleInv

IndInv == SessionInv /\ LoopInv

-----------------------------------------------------------------------------
(* The session *)

\* main has not begun: there is no link yet.
LEMMA InitSession == Init => SessionInv
  BY DEF Init, SessionInit, SessionInv, MainEnded, ExEnded

\* build_veth_pair: each netlink request that fails takes the link down, or tells
\* the user.
LEMMA SetupSession == SessionInv /\ Setup /\ UNCHANGED built => SessionInv'
<1> SUFFICES ASSUME SessionInv, Setup, UNCHANGED built PROVE SessionInv'
  OBVIOUS
<1> USE DEF SessionInv, MainEnded, ExEnded
<1>1. CASE AddLink
  BY <1>1 DEF AddLink
<1>2. CASE GetLinkIndex
  BY <1>2 DEF GetLinkIndex
<1>3. CASE SetUp
  BY <1>3 DEF SetUp, Fail
<1> QED
  BY <1>1, <1>2, <1>3 DEF Setup

\* Drop for VethPair, and main waiting for it.
LEMMA TearDownSession == SessionInv /\ TearDown /\ UNCHANGED built => SessionInv'
<1> SUFFICES ASSUME SessionInv, TearDown, UNCHANGED built PROVE SessionInv'
  OBVIOUS
<1> USE DEF SessionInv, MainEnded, ExEnded
<1>1. CASE Join
  BY <1>1 DEF Join
<1>2. CASE SetDown
  BY <1>2 DEF SetDown, Fail
<1>3. CASE DropPair
  BY <1>3 DEF DropPair
<1>4. CASE SendComplete
  BY <1>4 DEF SendComplete
<1> QED
  BY <1>1, <1>2, <1>3, <1>4 DEF TearDown

\* Every step of the process keeps SessionInv, those of the loops included.
LEMMA NextSession == SessionInv /\ [Next]_vars => SessionInv'
<1> SUFFICES ASSUME SessionInv, [Next]_vars PROVE SessionInv'
  OBVIOUS
<1>1. CASE BuildSockets
  <2>1. CASE built' = TRUE /\ UNCHANGED sessionVars
    BY <1>1, <2>1 DEF BuildSockets, SessionInv, MainEnded, ExEnded, sessionVars
  <2>2. CASE FEnds("panicked") /\ UNCHANGED built
    BY <1>1, <2>2 DEF BuildSockets, FEnds, SessionInv, MainEnded, ExEnded
  <2> QED
    BY <1>1, <2>1, <2>2 DEF BuildSockets
<1>2. CASE Loops
  BY <1>2 DEF Loops, SessionInv, MainEnded, ExEnded, sessionVars
<1>3. CASE FinishLoops
  BY <1>3 DEF FinishLoops, FEnds, SessionInv, MainEnded, ExEnded
<1>4. CASE Session
  <2>1. CASE Setup
    BY <1>4, <2>1, SetupSession DEF Session
  <2>2. CASE TearDown
    BY <1>4, <2>2, TearDownSession DEF Session
  <2>3. CASE MainStep \/ CtrlC
    BY <1>4, <2>3
    DEF Session, MainStep, CtrlC, Complete, JoinExample, SessionInv, MainEnded, ExEnded
  <2> QED
    BY <1>4, <2>1, <2>2, <2>3 DEF Session, SessionStep
<1>5. CASE UNCHANGED vars
  BY <1>5 DEF vars, SessionInv, MainEnded, ExEnded, sessionVars
<1> QED
  BY <1>1, <1>2, <1>3, <1>4, <1>5 DEF Next, Done

\* However the process ends, the pair is gone or the user was told about it
\* (Drop for VethPair, build_veth_pair and main of the examples).
THEOREM LinkIsCleanedUp == Spec => []LinkCleanedUp
<1>1. SessionInv => LinkCleanedUp
  BY DEF SessionInv, LinkCleanedUp, ExEnded
<1> QED
  BY <1>1, InitSession, NextSession, PTL DEF Spec

-----------------------------------------------------------------------------
(* Sequences *)

\* What is left of s without its first k elements.
LEMMA Rest ==
  ASSUME NEW D, NEW s \in Seq(D), NEW k \in 0 .. Len(s)
  PROVE  /\ SubSeq(s, k + 1, Len(s)) \in Seq(D) /\ Len(SubSeq(s, k + 1, Len(s))) = Len(s) - k
         /\ \A i \in 1 .. Len(s) - k : SubSeq(s, k + 1, Len(s))[i] = s[k + i]
  OBVIOUS

\* s followed by t, element by element.
LEMMA Joined ==
  ASSUME NEW D, NEW s \in Seq(D), NEW t \in Seq(D)
  PROVE  /\ s \o t \in Seq(D) /\ Len(s \o t) = Len(s) + Len(t)
         /\ \A i \in 1 .. Len(s) : (s \o t)[i] = s[i]
         /\ \A i \in 1 .. Len(t) : (s \o t)[Len(s) + i] = t[i]
         /\ \A i \in 1 .. Len(s) + Len(t) : i > Len(s) =>
              i - Len(s) \in 1 .. Len(t) /\ (s \o t)[i] = t[i - Len(s)]
  OBVIOUS

\* A ring that gives up its oldest entry.
LEMMA Popped ==
  ASSUME NEW D, NEW s \in Seq(D), s # <<>>
  PROVE  /\ Len(s) > 0 /\ Head(s) = s[1] /\ Head(s) \in D
         /\ Tail(s) \in Seq(D) /\ Len(Tail(s)) = Len(s) - 1
         /\ \A i \in 1 .. Len(s) - 1 : Tail(s)[i] = s[i + 1] /\ i + 1 \in 1 .. Len(s)
  OBVIOUS

\* A ring that gains an entry.
LEMMA Pushed ==
  ASSUME NEW D, NEW s \in Seq(D), NEW e \in D
  PROVE  /\ Append(s, e) \in Seq(D) /\ Len(Append(s, e)) = Len(s) + 1
         /\ \A i \in 1 .. Len(s) : Append(s, e)[i] = s[i]
         /\ Append(s, e)[Len(s) + 1] = e
  OBVIOUS

\* p holds the first frames of h, in the same order.
Starts(p, h) == Len(p) <= Len(h) /\ \A i \in 1 .. Len(p) : p[i] = h[i]

-----------------------------------------------------------------------------
(* Frames in circulation *)

\* A loop may forget what it holds.
LEMMA NothingHeld ==
  ASSUME NEW D, NEW s \in Seq(D), NEW t \in Seq(D), NEW u, NEW h,
         Circulate(s, t, u, h)
  PROVE  Circulate(s, t, u, <<>>)
  BY DEF Circulate, Once, Apart, Clear

\* a is the part of s that begins after d elements.
Within(a, s, d) ==
  Len(a) + d <= Len(s) /\ \A i \in 1 .. Len(a) : a[i] = s[i + d] /\ i + d \in 1 .. Len(s)

\* A part of a sequence without repetitions has none.
LEMMA PartOnce ==
  ASSUME NEW D, NEW s \in Seq(D), NEW a \in Seq(D), NEW d \in Nat, Within(a, s, d), Once(s)
  PROVE  Once(a)
<1> SUFFICES ASSUME NEW i \in 1 .. Len(a), NEW j \in 1 .. Len(a), a[i] = a[j]
             PROVE  i = j
  BY DEF Once
<1>1. i + d \in 1 .. Len(s) /\ j + d \in 1 .. Len(s) /\ s[i + d] = s[j + d]
  BY DEF Within
<1>2. i + d = j + d
  BY <1>1 DEF Once
<1> QED
  BY <1>2

\* A part is apart from whatever the whole is apart from.
LEMMA PartApart ==
  ASSUME NEW D, NEW s \in Seq(D), NEW a \in Seq(D), NEW d \in Nat, Within(a, s, d), NEW t
  PROVE  /\ Apart(s, t) => Apart(a, t)
         /\ Apart(t, s) => Apart(t, a)
         /\ Clear(s, t) => Clear(a, t)
<1>1. Apart(s, t) => Apart(a, t)
  BY DEF Within, Apart
<1>2. Apart(t, s) => Apart(t, a)
  BY DEF Within, Apart
<1>3. Clear(s, t) => Clear(a, t)
  BY DEF Within, Clear
<1> QED
  BY <1>1, <1>2, <1>3

\* A loop consumes k entries: they leave the ring t and are what it holds.
LEMMA Take ==
  ASSUME NEW D, NEW s \in Seq(D), NEW t \in Seq(D), NEW u, NEW h, NEW k \in 1 .. Len(t),
         Circulate(s, t, u, h)
  PROVE  Circulate(s, SubSeq(t, k + 1, Len(t)), u, SubSeq(t, 1, k))
<1>0. k \in Nat /\ 0 \in Nat /\ k \in 0 .. Len(t) /\ Len(t) \in Nat
  OBVIOUS
<1>1. PICK a : a = SubSeq(t, k + 1, Len(t))
  OBVIOUS
<1>2. PICK b : b = SubSeq(t, 1, k)
  OBVIOUS
<1>3. a \in Seq(D) /\ Len(a) = Len(t) - k /\ \A i \in 1 .. Len(t) - k : a[i] = t[k + i]
  BY <1>0, <1>1, Rest
<1>4. b \in Seq(D) /\ Len(b) = k /\ \A i \in 1 .. k : b[i] = t[i]
  BY <1>0, <1>2
<1>5. Within(a, t, k) /\ Within(b, t, 0)
  BY <1>0, <1>3, <1>4 DEF Within
<1>6. Once(a) /\ Once(b)
  BY <1>0, <1>3, <1>4, <1>5, PartOnce DEF Circulate
<1>7. Apart(s, a) /\ Apart(s, b) /\ Clear(a, u) /\ Clear(b, u)
  BY <1>0, <1>3, <1>4, <1>5, PartApart DEF Circulate
<1>8. Apart(a, b)
  <2> SUFFICES ASSUME NEW i \in 1 .. Len(a), NEW j \in 1 .. Len(b) PROVE a[i] # b[j]
    BY DEF Apart
  <2>1. a[i] = t[i + k] /\ b[j] = t[j] /\ i + k # j /\ i + k \in 1 .. Len(t) /\ j \in 1 .. Len(t)
    BY <1>0, <1>3, <1>4
  <2> QED
    BY <2>1 DEF Circulate, Once
<1>9. Circulate(s, a, u, b)
  BY <1>6, <1>7, <1>8 DEF Circulate
<1> QED
  BY <1>1, <1>2, <1>9

\* A loop produces the first frames it holds: they follow those in the ring s.
LEMMA PutBack ==
  ASSUME NEW D, NEW s \in Seq(D), NEW t \in Seq(D), NEW u, NEW h \in Seq(D), NEW p \in Seq(D),
         Circulate(s, t, u, h), Starts(p, h)
  PROVE  Circulate(s \o p, t, u, <<>>)
<1> DEFINE a == s \o p
<1>1. /\ a \in Seq(D) /\ Len(a) = Len(s) + Len(p)
      /\ \A i \in 1 .. Len(s) : a[i] = s[i]
      /\ \A i \in 1 .. Len(s) + Len(p) : i > Len(s) =>
           i - Len(s) \in 1 .. Len(p) /\ a[i] = p[i - Len(s)]
  BY Joined
<1> HIDE DEF a
<1>2. \A i \in 1 .. Len(a) :
        \/ i \in 1 .. Len(s) /\ a[i] = s[i]
        \/ i > Len(s) /\ i - Len(s) \in 1 .. Len(h) /\ a[i] = h[i - Len(s)]
  <2> SUFFICES ASSUME NEW i \in 1 .. Len(a), ~(i \in 1 .. Len(s) /\ a[i] = s[i])
               PROVE  i > Len(s) /\ i - Len(s) \in 1 .. Len(h) /\ a[i] = h[i - Len(s)]
    OBVIOUS
  <2>1. Len(s) \in Nat /\ Len(p) \in Nat /\ Len(h) \in Nat
    OBVIOUS
  <2>2. i > Len(s)
    BY <1>1, <2>1
  <2>3. i - Len(s) \in 1 .. Len(p) /\ a[i] = p[i - Len(s)]
    <3>1. i \in 1 .. Len(s) + Len(p)
      BY <1>1
    <3> QED
      BY <1>1, <2>2, <3>1
  <2> QED
    BY <2>1, <2>2, <2>3 DEF Starts
<1>3. Once(a)
  <2> SUFFICES ASSUME NEW i \in 1 .. Len(a), NEW j \in 1 .. Len(a), a[i] = a[j]
               PROVE  i = j
    BY DEF Once
  <2>1. \A x \in 1 .. Len(s), y \in 1 .. Len(h) : s[x] # h[y]
    BY DEF Circulate, Apart
  <2>2. CASE i \in 1 .. Len(s) /\ a[i] = s[i] /\ j \in 1 .. Len(s) /\ a[j] = s[j]
    BY <2>2 DEF Circulate, Once
  <2>3. CASE /\ i > Len(s) /\ i - Len(s) \in 1 .. Len(h) /\ a[i] = h[i - Len(s)]
             /\ j > Len(s) /\ j - Len(s) \in 1 .. Len(h) /\ a[j] = h[j - Len(s)]
    <3>1. i - Len(s) = j - Len(s)
      BY <2>3 DEF Circulate, Once
    <3> QED
      BY <3>1, <1>1
  <2> QED
    BY <1>2, <2>1, <2>2, <2>3
<1>4. Apart(a, t) /\ Clear(a, u)
  BY <1>2 DEF Circulate, Apart, Clear
<1>5. Circulate(a, t, u, <<>>)
  BY <1>3, <1>4 DEF Circulate, Once, Apart, Clear
<1> QED
  BY <1>5 DEF a

\* The kernel takes the oldest frame of the ring s.
LEMMA GoesOut ==
  ASSUME NEW D, NEW s \in Seq(D), NEW t \in Seq(D), NEW u, NEW h \in Seq(D), s # <<>>,
         Circulate(s, t, u, h)
  PROVE  Circulate(Tail(s), t, u \cup {Head(s)}, h) /\ Head(s) \notin u
<1> DEFINE a == Tail(s)
<1>1. /\ a \in Seq(D) /\ Len(a) = Len(s) - 1
      /\ \A i \in 1 .. Len(s) - 1 : a[i] = s[i + 1] /\ i + 1 \in 1 .. Len(s)
  BY Popped
<1> HIDE DEF a
<1>2. Len(s) > 0 /\ Head(s) = s[1]
  BY Popped
<1>7. Within(a, s, 1) /\ 1 \in Nat
  BY <1>1 DEF Within
<1>3. Once(a) /\ Apart(a, t) /\ Apart(a, h) /\ Clear(a, u)
  BY <1>1, <1>7, PartOnce, PartApart DEF Circulate
<1>4. Clear(a, u \cup {s[1]})
  <2> SUFFICES ASSUME NEW i \in 1 .. Len(a) PROVE a[i] # s[1]
    BY <1>3 DEF Clear
  <2>1. a[i] = s[i + 1] /\ i + 1 \in 1 .. Len(s) /\ 1 \in 1 .. Len(s) /\ i + 1 # 1
    BY <1>1, <1>2
  <2> QED
    BY <2>1 DEF Circulate, Once
<1>5. Clear(t, u \cup {s[1]}) /\ Clear(h, u \cup {s[1]}) /\ s[1] \notin u
  BY <1>2 DEF Circulate, Apart, Clear
<1>6. Circulate(a, t, u \cup {s[1]}, h)
  BY <1>3, <1>4, <1>5 DEF Circulate
<1> QED
  BY <1>2, <1>5, <1>6 DEF a

\* The kernel gives a frame of u back on the ring t, in whatever order.
LEMMA ComesBack ==
  ASSUME NEW D, NEW s \in Seq(D), NEW t \in Seq(D), NEW u, NEW h \in Seq(D),
         NEW e \in D, e \in u,
         Circulate(s, t, u, h)
  PROVE  Circulate(s, Append(t, e), u \ {e}, h)
<1> DEFINE a == Append(t, e)
<1>1. /\ a \in Seq(D) /\ Len(a) = Len(t) + 1
      /\ \A i \in 1 .. Len(t) : a[i] = t[i]
      /\ a[Len(t) + 1] = e
  BY Pushed
<1> HIDE DEF a
<1>2. \A i \in 1 .. Len(a) : (i \in 1 .. Len(t) /\ a[i] = t[i]) \/ (i = Len(t) + 1 /\ a[i] = e)
  BY <1>1
<1>3. Once(a)
  <2> SUFFICES ASSUME NEW i \in 1 .. Len(a), NEW j \in 1 .. Len(a), a[i] = a[j]
               PROVE  i = j
    BY DEF Once
  <2>1. \A k \in 1 .. Len(t) : t[k] # e
    BY DEF Circulate, Clear
  <2>2. CASE i \in 1 .. Len(t) /\ a[i] = t[i] /\ j \in 1 .. Len(t) /\ a[j] = t[j]
    BY <2>2 DEF Circulate, Once
  <2>3. CASE i = Len(t) + 1 /\ j = Len(t) + 1
    BY <2>3
  <2> QED
    BY <1>2, <2>1, <2>2, <2>3
<1>4. Apart(s, a) /\ Apart(a, h)
  BY <1>2 DEF Circulate, Apart, Clear
<1>5. Clear(a, u \ {e}) /\ Clear(s, u \ {e}) /\ Clear(h, u \ {e})
  BY <1>2 DEF Circulate, Clear
<1>6. Circulate(s, a, u \ {e}, h)
  BY <1>3, <1>4, <1>5 DEF Circulate
<1> QED
  BY <1>6 DEF a

\* The receiver's rings: nothing stays in the kernel's hands.
LEMMA Delivered ==
  ASSUME NEW D, NEW s \in Seq(D), NEW t \in Seq(D), NEW h \in Seq(D), s # <<>>,
         Circulate(s, t, {}, h)
  PROVE  Circulate(Tail(s), Append(t, Head(s)), {}, h)
<1>1. Circulate(Tail(s), t, {Head(s)}, h)
  BY GoesOut
<1>2. Tail(s) \in Seq(D) /\ Head(s) \in D
  BY Popped
<1>3. Circulate(Tail(s), Append(t, Head(s)), {Head(s)} \ {Head(s)}, h)
  BY <1>1, <1>2, ComesBack
<1> QED
  BY <1>3

-----------------------------------------------------------------------------
(* Packets in order *)

\* Device 1's descriptors are numbered as its frames.
LEMMA OwnFrames == Frames = Descs1
  BY DEF Frames, Descs1

\* Packets that were written may be forgotten; the others are as new as they were.
LEMMA NothingPrepared ==
  ASSUME NEW s, NEW h, NEW data, NEW last, NEW next, Newer(s, h, data, last, next)
  PROVE  Newer(s, <<>>, data, last, next)
  BY DEF Newer

\* Packets that were written go into the ring behind the older ones.
LEMMA NewerPutBack ==
  ASSUME NEW s \in Seq(Descs1), NEW h \in Seq(Descs1), NEW p \in Seq(Descs1), Starts(p, h),
         NEW data, NEW last, NEW next, Newer(s, h, data, last, next)
  PROVE  Newer(s \o p, <<>>, data, last, next)
<1> DEFINE a == s \o p
<1>1. /\ a \in Seq(Descs1) /\ Len(a) = Len(s) + Len(p)
      /\ \A i \in 1 .. Len(s) : a[i] = s[i]
      /\ \A i \in 1 .. Len(s) + Len(p) : i > Len(s) =>
           i - Len(s) \in 1 .. Len(p) /\ a[i] = p[i - Len(s)]
  BY Joined
<1> HIDE DEF a
<1>2. Len(s) \in Nat /\ Len(p) \in Nat /\ Len(h) \in Nat
  OBVIOUS
<1>3. \A i \in 1 .. Len(a) :
        \/ i \in 1 .. Len(s) /\ a[i] = s[i]
        \/ i > Len(s) /\ i - Len(s) \in 1 .. Len(h) /\ a[i] = h[i - Len(s)]
  <2> SUFFICES ASSUME NEW i \in 1 .. Len(a), ~(i \in 1 .. Len(s))
               PROVE  i > Len(s) /\ i - Len(s) \in 1 .. Len(h) /\ a[i] = h[i - Len(s)]
    BY <1>1
  <2>1. i > Len(s) /\ i \in 1 .. Len(s) + Len(p)
    BY <1>1, <1>2
  <2>2. i - Len(s) \in 1 .. Len(p) /\ a[i] = p[i - Len(s)]
    BY <1>1, <2>1
  <2> QED
    BY <1>2, <2>1, <2>2 DEF Starts
<1>4. \A i \in 1 .. Len(a) : last < data[a[i]] /\ data[a[i]] < next
  BY <1>3 DEF Newer
<1>5. ASSUME NEW i \in 1 .. Len(a), NEW j \in 1 .. Len(a), i < j
      PROVE  data[a[i]] < data[a[j]]
  <2>1. CASE i \in 1 .. Len(s) /\ a[i] = s[i] /\ j \in 1 .. Len(s) /\ a[j] = s[j]
    BY <1>5, <2>1 DEF Newer
  <2>2. CASE /\ i \in 1 .. Len(s) /\ a[i] = s[i]
             /\ j - Len(s) \in 1 .. Len(h) /\ a[j] = h[j - Len(s)]
    BY <2>2 DEF Newer
  <2>3. CASE /\ i - Len(s) \in 1 .. Len(h) /\ a[i] = h[i - Len(s)]
             /\ j - Len(s) \in 1 .. Len(h) /\ a[j] = h[j - Len(s)]
    <3>1. i - Len(s) < j - Len(s)
      BY <1>2, <1>5
    <3> QED
      BY <2>3, <3>1 DEF Newer
  <2> QED
    BY <1>2, <1>3, <1>5, <2>1, <2>2, <2>3
<1>6. Newer(a, <<>>, data, last, next)
  BY <1>4, <1>5 DEF Newer
<1> QED
  BY <1>6 DEF a

\* The oldest packet leaves: it is the last one sent.
LEMMA NewerGoesOut ==
  ASSUME NEW s \in Seq(Descs1), NEW h \in Seq(Descs1), s # <<>>, NEW data \in [Frames -> Nat],
         NEW last \in Nat, NEW next \in Nat, Newer(s, h, data, last, next)
  PROVE  Newer(Tail(s), h, data, data[Head(s)], next)
<1> DEFINE a == Tail(s)
<1>1. /\ a \in Seq(Descs1) /\ Len(a) = Len(s) - 1
      /\ \A i \in 1 .. Len(s) - 1 : a[i] = s[i + 1] /\ i + 1 \in 1 .. Len(s)
  BY Popped
<1>2. Len(s) > 0 /\ Head(s) = s[1] /\ 1 \in 1 .. Len(s) /\ Len(s) \in Nat
  BY Popped
<1> HIDE DEF a
<1>3. data[s[1]] < next
  BY <1>2 DEF Newer
<1>4. \A i \in 1 .. Len(a) : data[s[1]] < data[a[i]] /\ data[a[i]] < next
  <2> SUFFICES ASSUME NEW i \in 1 .. Len(a)
               PROVE  data[s[1]] < data[a[i]] /\ data[a[i]] < next
    OBVIOUS
  <2>1. a[i] = s[i + 1] /\ i + 1 \in 1 .. Len(s) /\ 1 < i + 1
    BY <1>1
  <2> QED
    BY <1>2, <2>1 DEF Newer
<1>5. \A i \in 1 .. Len(h) : data[s[1]] < data[h[i]] /\ data[h[i]] < next
  BY <1>2 DEF Newer
<1>6. ASSUME NEW i \in 1 .. Len(a), NEW j \in 1 .. Len(a), i < j
      PROVE  data[a[i]] < data[a[j]]
  <2>1. /\ a[i] = s[i + 1] /\ i + 1 \in 1 .. Len(s) /\ a[j] = s[j + 1] /\ j + 1 \in 1 .. Len(s)
        /\ i + 1 < j + 1
    BY <1>1, <1>6
  <2> QED
    BY <2>1 DEF Newer
<1>7. \A i \in 1 .. Len(a), j \in 1 .. Len(h) : data[a[i]] < data[h[j]]
  BY <1>1 DEF Newer
<1>8. Newer(a, h, data, data[s[1]], next)
  BY <1>3, <1>4, <1>5, <1>6, <1>7 DEF Newer
<1> QED
  BY <1>2, <1>8 DEF a

\* The next packets, written to frames outside the ring, are newer than all in it.
LEMMA NewerWrite ==
  ASSUME NEW s \in Seq(Descs1), NEW h \in Seq(Descs1),
         NEW data \in [Frames -> Nat], NEW new \in [Frames -> Nat],
         NEW last \in Nat, NEW next \in Nat, Newer(s, <<>>, data, last, next),
         \A i \in 1 .. Len(h) : new[h[i]] = next - 1 + i,
         \A i \in 1 .. Len(s) : new[s[i]] = data[s[i]]
  PROVE  Newer(s, h, new, last, next + Len(h))
<1>1. Len(h) \in Nat /\ Len(s) \in Nat
  OBVIOUS
<1>2. last < next + Len(h)
  BY <1>1 DEF Newer
<1>3. \A i \in 1 .. Len(s) : last < new[s[i]] /\ new[s[i]] < next + Len(h)
  <2> TAKE i \in 1 .. Len(s)
  <2>1. s[i] \in Frames
    BY OwnFrames
  <2>2. last < data[s[i]] /\ data[s[i]] < next /\ data[s[i]] \in Nat
    BY <2>1 DEF Newer
  <2> QED
    BY <1>1, <2>2
<1>4. \A i \in 1 .. Len(h) : last < new[h[i]] /\ new[h[i]] < next + Len(h)
  BY <1>1 DEF Newer
<1>5. \A i, j \in 1 .. Len(s) : i < j => new[s[i]] < new[s[j]]
  BY DEF Newer
<1>6. \A i, j \in 1 .. Len(h) : i < j => new[h[i]] < new[h[j]]
  BY <1>1
<1>7. \A i \in 1 .. Len(s), j \in 1 .. Len(h) : new[s[i]] < new[h[j]]
  <2> TAKE i \in 1 .. Len(s), j \in 1 .. Len(h)
  <2>3. s[i] \in Frames
    BY OwnFrames
  <2>1. data[s[i]] < next /\ data[s[i]] \in Nat
    BY <2>3 DEF Newer
  <2>2. new[h[j]] = next - 1 + j
    OBVIOUS
  <2> QED
    BY <1>1, <2>1, <2>2
<1> QED
  BY <1>2, <1>3, <1>4, <1>5, <1>6, <1>7 DEF Newer

-----------------------------------------------------------------------------
(* Vectors of descriptors *)

\* The sizes are numbers, and the vectors are at least as long as the fill ring.
LEMMA Counts == FrameCount \in Nat /\ FqSize \in Nat /\ CqSize \in Nat /\ FqSize <= FrameCount
  BY OptionsAssumption DEF FrameCount

\* The first k descriptors of a vector.
LEMMA Cut ==
  ASSUME NEW D, NEW v \in [Frames -> D], NEW k \in 0 .. FrameCount
  PROVE  /\ SubSeq(v, 1, k) \in Seq(D) /\ Len(SubSeq(v, 1, k)) = k
         /\ \A i \in 1 .. k : SubSeq(v, 1, k)[i] = v[i]
<1>1. v \in Seq(D) /\ Len(v) = FrameCount
  BY Counts DEF Frames
<1> QED
  BY <1>1, Counts

\* A vector whose first descriptors were overwritten by es.
LEMMA Overlay ==
  ASSUME NEW D, NEW v \in [Frames -> D], NEW es \in Seq(D), Len(es) <= FrameCount
  PROVE  /\ es \o SubSeq(v, Len(es) + 1, Len(v)) \in [Frames -> D]
         /\ \A i \in 1 .. Len(es) : (es \o SubSeq(v, Len(es) + 1, Len(v)))[i] = es[i]
<1>1. v \in Seq(D) /\ Len(v) = FrameCount
  BY Counts DEF Frames
<1>2. PICK n \in Nat : n = Len(es)
  OBVIOUS
<1>3. PICK w : w = SubSeq(v, n + 1, Len(v))
  OBVIOUS
<1>4. w \in Seq(D) /\ Len(w) = FrameCount - n
  BY <1>1, <1>2, <1>3, Counts
<1>5. PICK a : a = es \o w
  OBVIOUS
<1>6. a \in Seq(D) /\ Len(a) = FrameCount /\ \A i \in 1 .. Len(es) : a[i] = es[i]
  <2>1. a \in Seq(D) /\ Len(a) = Len(es) + Len(w) /\ \A i \in 1 .. Len(es) : a[i] = es[i]
    BY <1>4, <1>5, Joined
  <2> QED
    BY <1>2, <1>4, <2>1, Counts
<1>7. a \in [Frames -> D]
  BY <1>6 DEF Frames
<1> QED
  BY <1>2, <1>3, <1>5, <1>6, <1>7

\* Sequences over different sets with the same elements are the same.
LEMMA SameElements ==
  ASSUME NEW D, NEW s \in Seq(D), NEW E, NEW t \in Seq(E), Len(s) = Len(t),
         \A i \in 1 .. Len(s) : s[i] = t[i]
  PROVE  s = t
<1>1. s = [i \in 1 .. Len(s) |-> s[i]] /\ t = [i \in 1 .. Len(t) |-> t[i]]
  OBVIOUS
<1> QED
  BY <1>1

\* The slice a loop passes to a queue; of rx_descs it has only descriptors of
\* device 2.
LEMMA SliceFacts ==
  ASSUME TypeInv, NEW v \in Sides, NEW k \in 0 .. FrameCount
  PROVE  /\ Slice(v, k) \in Seq(Descs) /\ Len(Slice(v, k)) = k
         /\ \A i \in 1 .. k : Slice(v, k)[i] = descs[v][i]
         /\ v = "rx" => Slice(v, k) \in Seq(Descs2)
<1>1. descs[v] \in [Frames -> Descs] /\ (v = "rx" => descs[v] \in [Frames -> Descs2])
  BY DEF TypeInv
<1>2. /\ SubSeq(descs[v], 1, k) \in Seq(Descs) /\ Len(SubSeq(descs[v], 1, k)) = k
      /\ \A i \in 1 .. k : SubSeq(descs[v], 1, k)[i] = descs[v][i]
  BY <1>1, Cut
<1>3. v = "rx" => SubSeq(descs[v], 1, k) \in Seq(Descs2)
  BY <1>1, Cut
<1> QED
  BY <1>2, <1>3 DEF Slice

\* A loop has received es: they are what it holds.
LEMMA OverwriteFacts ==
  ASSUME TypeInv, NEW v \in Sides, NEW es \in Seq(Descs), Len(es) <= FrameCount,
         descs' = Overwrite(v, es), v = "rx" => es \in Seq(Descs2)
  PROVE  /\ descs' \in [Sides -> [Frames -> Descs]] /\ descs'["rx"] \in [Frames -> Descs2]
         /\ \A w \in Sides : w # v => descs'[w] = descs[w]
         /\ SubSeq(descs'[v], 1, Len(es)) = es
<1>1. PICK d : d = es \o SubSeq(descs[v], Len(es) + 1, Len(descs[v]))
  OBVIOUS
<1>2. /\ descs \in [Sides -> [Frames -> Descs]] /\ descs[v] \in [Frames -> Descs]
      /\ descs["rx"] \in [Frames -> Descs2]
  BY DEF TypeInv
<1>3. d \in [Frames -> Descs] /\ \A i \in 1 .. Len(es) : d[i] = es[i]
  BY <1>1, <1>2, Overlay
<1>4. v = "rx" => d \in [Frames -> Descs2]
  BY <1>1, <1>2, Overlay
<1>5. descs' = [descs EXCEPT ![v] = d]
  BY <1>1, <1>2 DEF Overwrite
<1>6. descs'[v] = d /\ \A w \in Sides : w # v => descs'[w] = descs[w]
  BY <1>2, <1>5
<1>7. descs' \in [Sides -> [Frames -> Descs]]
  BY <1>2, <1>3, <1>5
<1>8. descs'["rx"] \in [Frames -> Descs2]
  BY <1>2, <1>4, <1>6 DEF Sides
<1>9. SubSeq(descs'[v], 1, Len(es)) = es
  <2>1. Len(es) \in 0 .. FrameCount
    BY Counts
  <2>2. PICK b : b = SubSeq(d, 1, Len(es))
    OBVIOUS
  <2>3. b \in Seq(Descs) /\ Len(b) = Len(es) /\ \A i \in 1 .. Len(es) : b[i] = d[i]
    BY <1>3, <2>1, <2>2, Cut
  <2>4. \A i \in 1 .. Len(b) : b[i] = es[i]
    BY <1>3, <2>3
  <2>5. b = es
    BY <2>3, <2>4, SameElements
  <2> QED
    BY <1>6, <2>2, <2>5
<1> QED
  BY <1>6, <1>7, <1>8, <1>9

\* A descriptor of device 1 leads to its own frame.
LEMMA AddrOfOwn == \A d \in Descs1 : Addr(d) = d
  BY DEF Addr

\* The next k packets are in the first k frames of tx_descs, one in each, and all
\* other frames are as they were.
LEMMA WrittenFacts ==
  ASSUME TypeInv, next_pkt > 0, NEW k \in 0 .. FrameCount,
         Slice("tx", k) \in Seq(Descs1), Once(Slice("tx", k))
  PROVE  /\ Written(k) \in [Frames -> Nat]
         /\ \A i \in 1 .. k : Written(k)[Slice("tx", k)[i]] = next_pkt - 1 + i
         /\ \A x \in Frames : (\A i \in 1 .. k : Slice("tx", k)[i] # x) =>
              Written(k)[x] = frame_data[x]
<1>1. PICK h : h = Slice("tx", k)
  OBVIOUS
<1>2. /\ h \in Seq(Descs1) /\ Len(h) = k /\ Once(h)
      /\ \A i \in 1 .. k : h[i] = descs["tx"][i] /\ h[i] \in Frames /\ Addr(descs["tx"][i]) = h[i]
  <2>1. h \in Seq(Descs1) /\ Once(h)
    BY <1>1
  <2>2. Len(h) = k /\ \A i \in 1 .. k : h[i] = descs["tx"][i]
    BY <1>1, SliceFacts DEF Sides
  <2>3. \A i \in 1 .. k : h[i] \in Descs1
    BY <2>1, <2>2
  <2> QED
    BY <2>1, <2>2, <2>3, AddrOfOwn, OwnFrames
<1> DEFINE at(x) == {i \in 1 .. k : Addr(descs["tx"][i]) = x}
<1>3. ASSUME NEW i \in 1 .. k PROVE at(h[i]) = {i}
  BY <1>2 DEF Once
<1>4. ASSUME NEW i \in 1 .. k PROVE at(h[i]) # {} /\ Max(at(h[i])) = i
  <2>1. Max({i}) = i
    BY DEF Max
  <2> QED
    BY <1>3, <2>1
<1>5. ASSUME NEW x \in Frames, \A i \in 1 .. k : h[i] # x PROVE at(x) = {}
  BY <1>2, <1>5
<1>6. Written(k) = [x \in Frames |-> IF at(x) # {} THEN next_pkt - 1 + Max(at(x))
                                                 ELSE frame_data[x]]
  BY DEF Written
<1> HIDE DEF at
<1>7. \A i \in 1 .. k : Written(k)[h[i]] = next_pkt - 1 + i
  BY <1>2, <1>4, <1>6
<1>8. \A x \in Frames : (\A i \in 1 .. k : h[i] # x) => Written(k)[x] = frame_data[x]
  BY <1>5, <1>6
<1>9. next_pkt \in Nat /\ frame_data \in [Frames -> Nat] /\ k \in Nat
  BY Counts DEF TypeInv
<1>10. \A x \in Frames : Written(k)[x] \in Nat
  <2> TAKE x \in Frames
  <2>1. CASE \E i \in 1 .. k : h[i] = x
    BY <1>7, <1>9, <2>1
  <2>2. CASE \A i \in 1 .. k : h[i] # x
    BY <1>8, <1>9, <2>2
  <2> QED
    BY <2>1, <2>2
<1>11. Written(k) \in [Frames -> Nat]
  BY <1>6, <1>10
<1> QED
  BY <1>1, <1>7, <1>8, <1>11

-----------------------------------------------------------------------------
(* Where a loop goes next *)

\* A thread goes on, the other stays where it is.
LEMMA GotoFacts ==
  ASSUME PcInv, NEW t \in Sides, NEW l \in Labels, Goto(t, l)
  PROVE  /\ pc' \in [Sides -> Labels] /\ pc'[t] = l
         /\ \A u \in Sides : u # t => pc'[u] = pc[u]
  BY DEF PcInv, Goto

\* A thread panics; if it is the only one, both loops have ended.
LEMMA PanicFacts ==
  ASSUME PcInv, NEW t \in Sides, pc' = PanicAt(t)
  PROVE  /\ pc' \in [Sides -> Labels] /\ pc'[t] = "panicked"
         /\ \A u \in Sides : u # t => pc'[u] = IF multithreaded THEN pc[u] ELSE "panicked"
<1>1. CASE multithreaded
  BY <1>1 DEF PcInv, PanicAt, Labels, TxLabels, RxLabels
<1>2. CASE ~multithreaded
  BY <1>2 DEF PcInv, PanicAt, Labels, TxLabels, RxLabels
<1> QED
  BY <1>1, <1>2

\* Where the single thread goes on.
SingleGoes(sent, rcvd) ==
  \/ pc'["tx"] = "off" /\ pc'["rx"] = "kick"
  \/ pc'["tx"] = "comp" /\ pc'["rx"] = "off" /\ ~(rcvd < sent)
  \/ pc'["tx"] = "returned" /\ pc'["rx"] = "returned"

\* The single thread's two loop tests: it sends only once all that was sent is
\* received.
LEMMA SingleFacts ==
  ASSUME NEW sent, NEW consumed, NEW rcvd,
         \/ pc' = SingleInner(sent, consumed, rcvd) \/ pc' = SingleOuter(sent, consumed, rcvd)
  PROVE  pc' \in [Sides -> Labels] /\ SingleGoes(sent, rcvd)
<1>1. \/ pc' = [tx |-> "off", rx |-> "kick"]
      \/ pc' = [tx |-> "comp", rx |-> "off"] /\ ~(rcvd < sent)
      \/ pc' = [t \in Sides |-> "returned"]
  BY DEF SingleInner, SingleOuter
<1>2. CASE pc' = [tx |-> "off", rx |-> "kick"]
  BY <1>2 DEF SingleGoes, Sides, Labels, TxLabels, RxLabels
<1>3. CASE pc' = [tx |-> "comp", rx |-> "off"] /\ ~(rcvd < sent)
  BY <1>3 DEF SingleGoes, Sides, Labels, TxLabels, RxLabels
<1>4. CASE pc' = [t \in Sides |-> "returned"]
  BY <1>4 DEF SingleGoes, Sides, Labels, TxLabels, RxLabels
<1> QED
  BY <1>1, <1>2, <1>3, <1>4

\* After an iteration of the sender.
LEMMA TxAgainFacts ==
  ASSUME PcInv, NEW sent, NEW consumed, TxAgain(sent, consumed)
  PROVE  /\ pc' \in [Sides -> Labels]
         /\ multithreaded => pc'["tx"] \in {"comp", "finish"} /\ pc'["rx"] = pc["rx"]
         /\ ~multithreaded => SingleGoes(sent, total_frames_rcvd)
<1>1. CASE multithreaded
  <2>1. PICK l \in {"comp", "finish"} : Goto("tx", l)
    BY <1>1 DEF TxAgain
  <2> QED
    BY <1>1, <2>1, GotoFacts DEF Sides, Labels, TxLabels, RxLabels
<1>2. CASE ~multithreaded
  BY <1>2, SingleFacts DEF TxAgain
<1> QED
  BY <1>1, <1>2

\* After an iteration of the receiver.
LEMMA RxAgainFacts ==
  ASSUME PcInv, NEW rcvd, RxAgain(rcvd)
  PROVE  /\ pc' \in [Sides -> Labels]
         /\ multithreaded => pc'["rx"] \in {"poll", "returned"} /\ pc'["tx"] = pc["tx"]
         /\ ~multithreaded => SingleGoes(total_frames_sent, rcvd)
<1>1. CASE multithreaded
  <2>1. PICK l \in {"poll", "returned"} : Goto("rx", l)
    BY <1>1 DEF RxAgain
  <2> QED
    BY <1>1, <2>1, GotoFacts DEF Sides, Labels, TxLabels, RxLabels
<1>2. CASE ~multithreaded
  BY <1>2, SingleFacts DEF RxAgain
<1> QED
  BY <1>1, <1>2

-----------------------------------------------------------------------------
(* Steps that move no frame *)

Sending == {"comp", "idle", "write", "ready", "submit"}

\* A step that only goes elsewhere in a loop: no new frames are claimed to be
\* held, and the single thread sends on only if nothing is under way.
PcMoves ==
  /\ pc'["tx"] = "start" => pc["tx"] = "start"
  /\ pc'["rx"] = "start" => pc["rx"] = "start"
  /\ pc'["tx"] \in {"write", "ready", "submit"} => pc["tx"] \in {"write", "ready", "submit"}
  /\ pc'["tx"] \in {"ready", "submit"} => pc["tx"] \in {"ready", "submit"}
  /\ pc'["rx"] = "refill" <=> pc["rx"] = "refill"
  /\ pc["tx"] = "panicked" => pc'["tx"] = "panicked"
  /\ pc["rx"] \in {"start", "panicked"} => pc'["rx"] \in {"start", "panicked"}
  /\ ~multithreaded =>
       /\ pc["rx"] \in Ended => pc'["rx"] \in Ended
       /\ pc'["tx"] \in Sending =>
            pc["tx"] \in Sending \/ ~(total_frames_rcvd < total_frames_sent)

\* The single thread has received as much as it sent: no packet is under way.
LEMMA NothingUnderWay ==
  ASSUME TypeInv, SingleInv, ~multithreaded, BatchFits, pc["rx"] \notin Ended,
         ~(total_frames_rcvd < total_frames_sent)
  PROVE  UnderWay = 0
<1>1. total_frames_sent = total_frames_rcvd + UnderWay
  BY DEF SingleInv
<1>2. Len(tx) \in Nat /\ Len(rx) \in Nat /\ wire \in Nat /\ Taken \in Nat
  BY Counts DEF TypeInv, Taken, Sides
<1>3. UnderWay \in Nat
  BY <1>2 DEF UnderWay
<1> QED
  BY <1>1, <1>3 DEF TypeInv

\* A step that moves neither frames nor packets keeps the invariant.
LEMMA Quiet ==
  ASSUME LoopInv, PcInv', PcMoves,
         UNCHANGED <<options, counters, tx, comp, fill, rx, flight, wire, last_pkt>>,
         UNCHANGED <<frame_data, descs, frames_rcvd, next_pkt, f>>
  PROVE  LoopInv'
<1> USE DEF options, counters
<1>1. TypeInv'
  BY DEF LoopInv, TypeInv
<1>2. SizeInv'
  BY DEF LoopInv, SizeInv
<1>3. StartInv'
  BY DEF LoopInv, StartInv, PcMoves
<1>4. FrameInv'
  <2>1. CASE pc'["tx"] \in {"write", "ready", "submit"}
    <3>1. Held1' = Held1
      BY <2>1 DEF Held1, Slice, PcMoves
    <3> QED
      BY <2>1, <3>1 DEF LoopInv, FrameInv, Held2, Slice, PcMoves
  <2>2. CASE pc'["tx"] \notin {"write", "ready", "submit"}
    <3>1. Held1' = <<>>
      BY <2>2 DEF Held1
    <3>2. Circulate(tx, comp, flight, <<>>)
      BY NothingHeld DEF LoopInv, TypeInv, FrameInv
    <3> QED
      BY <2>2, <3>1, <3>2 DEF LoopInv, FrameInv, Held2, Slice, PcMoves
  <2> QED
    BY <2>1, <2>2
<1>5. DataInv'
  <2>1. CASE pc'["tx"] \in {"ready", "submit"}
    BY <2>1 DEF LoopInv, DataInv, Prepared, Slice, PcMoves
  <2>2. CASE pc'["tx"] \notin {"ready", "submit"}
    <3>1. Newer(tx, <<>>, frame_data, last_pkt, next_pkt)
      BY NothingPrepared DEF LoopInv, DataInv
    <3> QED
      BY <2>2, <3>1 DEF DataInv, Prepared
  <2> QED
    BY <2>1, <2>2
<1>6. Taken' = Taken
  BY DEF Taken, PcMoves
<1>7. TotalsInv'
  BY <1>6 DEF LoopInv, TotalsInv, PcMoves
<1>8. SingleInv'
  <2> SUFFICES ASSUME ~multithreaded, BatchFits, pc'["rx"] \notin Ended
               PROVE  /\ total_frames_sent = total_frames_rcvd + UnderWay
                      /\ UnderWay <= max_batch_size
                      /\ pc'["tx"] \in Sending => UnderWay = 0
    BY <1>6 DEF SingleInv, UnderWay, Sending, BatchFits
  <2>1. pc["rx"] \notin Ended
    BY DEF PcMoves
  <2>2. CASE ~(total_frames_rcvd < total_frames_sent)
    BY <2>1, <2>2, NothingUnderWay DEF LoopInv, SingleInv
  <2>3. CASE pc'["tx"] \in Sending => pc["tx"] \in Sending
    BY <2>1, <2>3 DEF LoopInv, SingleInv, Sending
  <2> QED
    BY <2>2, <2>3 DEF PcMoves
<1> QED
  BY <1>1, <1>2, <1>3, <1>4, <1>5, <1>7, <1>8 DEF LoopInv

\* Waking the tx queue before polling.
LEMMA RxKickQuiet == LoopInv /\ RxKick /\ UNCHANGED f => LoopInv'
<1> SUFFICES ASSUME LoopInv, RxKick, UNCHANGED f PROVE LoopInv'
  OBVIOUS
<1>1. PcInv
  BY DEF LoopInv
<1>2. pc' \in [Sides -> Labels] /\ pc'["rx"] = "poll" /\ pc'["tx"] = pc["tx"]
  BY <1>1, GotoFacts DEF RxKick, Sides, Labels, TxLabels, RxLabels
<1>3. PcInv' /\ PcMoves
  BY <1>1, <1>2
  DEF RxKick, PcInv, PcMoves, Labels, TxLabels, RxLabels, Ended, Sides, Sending, options
<1> QED
  BY <1>3, Quiet DEF RxKick, devices, client

\* Looking at SENDER_DONE.
LEMMA RxCheckQuiet == LoopInv /\ RxCheck /\ UNCHANGED f => LoopInv'
<1> SUFFICES ASSUME LoopInv, RxCheck, UNCHANGED f PROVE LoopInv'
  OBVIOUS
<1>1. PcInv
  BY DEF LoopInv
<1>2. /\ pc' \in [Sides -> Labels] /\ pc'["rx"] \in {"poll", "returned"}
      /\ pc'["tx"] = pc["tx"]
  BY <1>1, GotoFacts DEF RxCheck, Sides, Labels, TxLabels, RxLabels
<1>3. PcInv' /\ PcMoves
  BY <1>1, <1>2
  DEF RxCheck, PcInv, PcMoves, Labels, TxLabels, RxLabels, Ended, Sides, Sending, options
<1> QED
  BY <1>3, Quiet DEF RxCheck, devices, client

\* A poll that finds nothing.
LEMMA RxTimesOutQuiet == LoopInv /\ RxTimesOut /\ UNCHANGED f => LoopInv'
<1> SUFFICES ASSUME LoopInv, RxTimesOut, UNCHANGED f PROVE LoopInv'
  OBVIOUS
<1>1. PcInv
  BY DEF LoopInv
<1>2. ASSUME multithreaded PROVE PcInv' /\ PcMoves
  <2>1. pc' \in [Sides -> Labels] /\ pc'["rx"] = "check" /\ pc'["tx"] = pc["tx"]
    BY <1>1, <1>2, GotoFacts DEF RxTimesOut, Sides, Labels, TxLabels, RxLabels
  <2> QED
    BY <1>1, <1>2, <2>1
    DEF RxTimesOut, PcInv, PcMoves, Labels, TxLabels, RxLabels, Ended, Sides, Sending,
        options
<1>4. ASSUME ~multithreaded PROVE PcInv' /\ PcMoves
  <2>1. pc' \in [Sides -> Labels] /\ SingleGoes(total_frames_sent, total_frames_rcvd)
    BY <1>1, <1>4, RxAgainFacts DEF RxTimesOut
  <2> QED
    BY <1>1, <1>4, <2>1
    DEF RxTimesOut, SingleGoes, PcInv, PcMoves, Labels, TxLabels, RxLabels, Ended,
        Sides, Sending, options
<1>3. PcInv' /\ PcMoves
  BY <1>2, <1>4
<1> QED
  BY <1>3, Quiet DEF RxTimesOut, devices, client

\* Telling the sender to begin.
LEMMA RxSignalQuiet == LoopInv /\ RxSignal /\ UNCHANGED f => LoopInv'
<1> SUFFICES ASSUME LoopInv, RxSignal, UNCHANGED f PROVE LoopInv'
  OBVIOUS
<1>1. PcInv
  BY DEF LoopInv
<1>2. ASSUME pc["tx"] \in Ended PROVE PcInv' /\ PcMoves
  <2>1. pc' \in [Sides -> Labels] /\ pc'["rx"] = "returned" /\ pc'["tx"] = pc["tx"]
    BY <1>1, <1>2, GotoFacts DEF RxSignal, Sides, Labels, TxLabels, RxLabels
  <2> QED
    BY <1>1, <1>2, <2>1
    DEF RxSignal, PcInv, PcMoves, Labels, TxLabels, RxLabels, Ended, Sides, Sending,
        options
<1>4. ASSUME pc["tx"] \notin Ended PROVE PcInv' /\ PcMoves
  <2>1. /\ pc' \in [Sides -> Labels]
        /\ multithreaded => pc'["rx"] \in {"poll", "returned"} /\ pc'["tx"] = pc["tx"]
        /\ ~multithreaded => SingleGoes(total_frames_sent, 0)
    BY <1>1, <1>4, RxAgainFacts DEF RxSignal
  <2>2. ~(0 < total_frames_sent) => ~(total_frames_rcvd < total_frames_sent)
    BY DEF LoopInv, TypeInv
  <2>3. CASE multithreaded
    BY <1>1, <2>1, <2>3
    DEF RxSignal, PcInv, PcMoves, Labels, TxLabels, RxLabels, Ended, Sides, Sending,
        options
  <2>4. CASE ~multithreaded
    BY <1>1, <2>1, <2>2, <2>4
    DEF RxSignal, SingleGoes, PcInv, PcMoves, Labels, TxLabels, RxLabels, Ended, Sides,
        Sending, options
  <2> QED
    BY <2>3, <2>4
<1>3. PcInv' /\ PcMoves
  BY <1>2, <1>4
<1> QED
  BY <1>3, Quiet DEF RxSignal, devices, client

\* An empty completion queue.
LEMMA TxCompEmptyQuiet == LoopInv /\ TxCompEmpty /\ UNCHANGED f => LoopInv'
<1> SUFFICES ASSUME LoopInv, TxCompEmpty, UNCHANGED f PROVE LoopInv'
  OBVIOUS
<1>1. PcInv
  BY DEF LoopInv
<1>2. pc' \in [Sides -> Labels] /\ pc'["tx"] = "idle" /\ pc'["rx"] = pc["rx"]
  BY <1>1, GotoFacts DEF TxCompEmpty, Sides, Labels, TxLabels, RxLabels
<1>3. PcInv' /\ PcMoves
  BY <1>1, <1>2
  DEF TxCompEmpty, PcInv, PcMoves, Labels, TxLabels, RxLabels, Ended, Sides, Sending,
      options
<1> QED
  BY <1>3, Quiet DEF TxCompEmpty, devices, client

\* The socket is writable.
LEMMA TxReadyQuiet == LoopInv /\ TxReady /\ UNCHANGED f => LoopInv'
<1> SUFFICES ASSUME LoopInv, TxReady, UNCHANGED f PROVE LoopInv'
  OBVIOUS
<1>1. PcInv
  BY DEF LoopInv
<1>2. pc' \in [Sides -> Labels] /\ pc'["tx"] = "submit" /\ pc'["rx"] = pc["rx"]
  BY <1>1, GotoFacts DEF TxReady, Sides, Labels, TxLabels, RxLabels
<1>3. PcInv' /\ PcMoves
  BY <1>1, <1>2
  DEF TxReady, PcInv, PcMoves, Labels, TxLabels, RxLabels, Ended, Sides, Sending, options
<1> QED
  BY <1>3, Quiet DEF TxReady, devices, client

\* Setting SENDER_DONE.
LEMMA TxFinishQuiet == LoopInv /\ TxFinish /\ UNCHANGED f => LoopInv'
<1> SUFFICES ASSUME LoopInv, TxFinish, UNCHANGED f PROVE LoopInv'
  OBVIOUS
<1>1. PcInv
  BY DEF LoopInv
<1>2. pc' \in [Sides -> Labels] /\ pc'["tx"] = "returned" /\ pc'["rx"] = pc["rx"]
  BY <1>1, GotoFacts DEF TxFinish, Sides, Labels, TxLabels, RxLabels
<1>3. PcInv' /\ PcMoves
  BY <1>1, <1>2
  DEF TxFinish, PcInv, PcMoves, Labels, TxLabels, RxLabels, Ended, Sides, Sending, options
<1> QED
  BY <1>3, Quiet DEF TxFinish, devices, client

\* The wakeup after an empty completion queue.
LEMMA TxIdleQuiet == LoopInv /\ TxIdle /\ UNCHANGED f => LoopInv'
<1> SUFFICES ASSUME LoopInv, TxIdle, UNCHANGED f PROVE LoopInv'
  OBVIOUS
<1>1. PcInv
  BY DEF LoopInv
<1>2. /\ pc' \in [Sides -> Labels]
      /\ multithreaded => pc'["tx"] \in {"comp", "finish"} /\ pc'["rx"] = pc["rx"]
      /\ ~multithreaded => SingleGoes(total_frames_sent, total_frames_rcvd)
  BY <1>1, TxAgainFacts DEF TxIdle
<1>4. ASSUME multithreaded PROVE PcInv' /\ PcMoves
  BY <1>1, <1>2, <1>4
  DEF TxIdle, PcInv, PcMoves, Labels, TxLabels, RxLabels, Ended, Sides, Sending, options
<1>5. ASSUME ~multithreaded PROVE PcInv' /\ PcMoves
  BY <1>1, <1>2, <1>5
  DEF TxIdle, SingleGoes, PcInv, PcMoves, Labels, TxLabels, RxLabels, Ended, Sides,
      Sending, options
<1>3. PcInv' /\ PcMoves
  BY <1>4, <1>5
<1> QED
  BY <1>3, Quiet DEF TxIdle, devices, client

\* Waiting for the receiver to be ready.
LEMMA TxWaitQuiet == LoopInv /\ TxWait /\ UNCHANGED f => LoopInv'
<1> SUFFICES ASSUME LoopInv, TxWait, UNCHANGED f PROVE LoopInv'
  OBVIOUS
<1>1. PcInv
  BY DEF LoopInv
<1>2. ASSUME begin_send /\ TxAgain(total_frames_sent, 0) PROVE PcInv' /\ PcMoves
  <2>1. /\ pc' \in [Sides -> Labels]
        /\ multithreaded => pc'["tx"] \in {"comp", "finish"} /\ pc'["rx"] = pc["rx"]
        /\ ~multithreaded => SingleGoes(total_frames_sent, total_frames_rcvd)
    BY <1>1, <1>2, TxAgainFacts
  <2>2. CASE multithreaded
    BY <1>1, <2>1, <2>2
    DEF TxWait, PcInv, PcMoves, Labels, TxLabels, RxLabels, Ended, Sides, Sending,
        options
  <2>3. CASE ~multithreaded
    BY <1>1, <2>1, <2>3
    DEF TxWait, SingleGoes, PcInv, PcMoves, Labels, TxLabels, RxLabels, Ended, Sides,
        Sending, options
  <2> QED
    BY <2>2, <2>3
<1>4. ASSUME Goto("tx", "returned") PROVE PcInv' /\ PcMoves
  <2>1. pc' \in [Sides -> Labels] /\ pc'["tx"] = "returned" /\ pc'["rx"] = pc["rx"]
    BY <1>1, <1>4, GotoFacts DEF Sides, Labels, TxLabels, RxLabels
  <2> QED
    BY <1>1, <2>1
    DEF TxWait, PcInv, PcMoves, Labels, TxLabels, RxLabels, Ended, Sides, Sending,
        options
<1>3. PcInv' /\ PcMoves
  BY <1>2, <1>4 DEF TxWait
<1> QED
  BY <1>3, Quiet DEF TxWait, devices, client

\* A poll to be repeated.
LEMMA TxNotReadyQuiet == LoopInv /\ TxNotReady /\ UNCHANGED f => LoopInv'
<1> SUFFICES ASSUME LoopInv, TxNotReady, UNCHANGED f PROVE LoopInv'
  OBVIOUS
<1>1. PcInv
  BY DEF LoopInv
<1>3. PcInv' /\ PcMoves
  BY <1>1 DEF TxNotReady, PcInv, PcMoves, client, options
<1> QED
  BY <1>3, Quiet DEF TxNotReady, devices, client

\* A batch the tx ring has no room for.
LEMMA TxRefusedQuiet == LoopInv /\ TxRefused /\ UNCHANGED f => LoopInv'
<1> SUFFICES ASSUME LoopInv, TxRefused, UNCHANGED f PROVE LoopInv'
  OBVIOUS
<1>1. PcInv
  BY DEF LoopInv
<1>3. PcInv' /\ PcMoves
  BY <1>1 DEF TxRefused, PcInv, PcMoves, client, options
<1> QED
  BY <1>3, Quiet DEF TxRefused, devices, client

\* The kernel goes to sleep.
LEMMA KSleepQuiet == LoopInv /\ KSleep /\ UNCHANGED f => LoopInv'
<1> SUFFICES ASSUME LoopInv, KSleep, UNCHANGED f PROVE LoopInv'
  OBVIOUS
<1>1. PcInv
  BY DEF LoopInv
<1>3. PcInv' /\ PcMoves
  BY <1>1 DEF KSleep, PcInv, PcMoves, client, options
<1> QED
  BY <1>3, Quiet DEF KSleep, devices, client

\* A system call that fails before anything was done.
LEMMA CallFailsQuiet ==
  ASSUME NEW t \in Sides
  PROVE  LoopInv /\ CallFails(t) /\ UNCHANGED f => LoopInv'
<1> SUFFICES ASSUME LoopInv, CallFails(t), UNCHANGED f PROVE LoopInv'
  OBVIOUS
<1>1. PcInv
  BY DEF LoopInv
<1>2. /\ pc' \in [Sides -> Labels] /\ pc'[t] = "panicked"
      /\ \A u \in Sides : u # t => pc'[u] = IF multithreaded THEN pc[u] ELSE "panicked"
  BY <1>1, PanicFacts DEF CallFails
<1>3. PcInv' /\ PcMoves
  <2>1. CASE t = "tx"
    BY <1>1, <1>2, <2>1
    DEF CallFails, PcInv, PcMoves, Labels, TxLabels, RxLabels, Ended, Sides, Sending,
        options
  <2>2. CASE t = "rx"
    BY <1>1, <1>2, <2>2
    DEF CallFails, PcInv, PcMoves, Labels, TxLabels, RxLabels, Ended, Sides, Sending,
        options
  <2> QED
    BY <2>1, <2>2 DEF Sides
<1> QED
  BY <1>3, Quiet DEF CallFails, devices

-----------------------------------------------------------------------------
(* The kernel's steps *)

\* What is held or written belongs to its device.
LEMMA HeldTypes ==
  ASSUME TypeInv, FrameInv
  PROVE  Held1 \in Seq(Descs1) /\ Prepared \in Seq(Descs1) /\ Held2 \in Seq(Descs2)
<1>1. Held1 \in Seq(Descs1)
  BY DEF FrameInv, Held1
<1>2. Prepared \in Seq(Descs1)
  BY <1>1 DEF Prepared, Held1
<1>3. Held2 \in Seq(Descs2)
  BY SliceFacts DEF Held2, TypeInv, Sides
<1> QED
  BY <1>1, <1>2, <1>3

\* The frames in the kernel's hands can be counted.
LEMMA FlightFacts ==
  ASSUME TypeInv
  PROVE  IsFiniteSet(flight) /\ Cardinality(flight) \in Nat
<1>1. IsFiniteSet(Descs1)
  BY Counts, FS_Interval DEF Descs1
<1>2. IsFiniteSet(flight)
  BY <1>1, FS_Subset DEF TypeInv
<1> QED
  BY <1>2, FS_CardinalityType

\* The terms of the totals are numbers.
LEMMA Lengths ==
  ASSUME TypeInv
  PROVE  /\ Len(tx) \in Nat /\ Len(comp) \in Nat /\ Len(fill) \in Nat /\ Len(rx) \in Nat
         /\ Taken \in Nat /\ wire \in Nat
  BY Counts DEF TypeInv, Taken, Sides

\* A frame goes from the tx ring into the hands of the kernel, its packet onto the
\* wire.
LEMMA KTransmitKeeps == LoopInv /\ KTransmit /\ UNCHANGED f => LoopInv'
<1> SUFFICES ASSUME LoopInv, KTransmit, UNCHANGED f PROVE LoopInv'
  OBVIOUS
<1>0. TypeInv /\ SizeInv /\ PcInv /\ StartInv /\ FrameInv /\ DataInv /\ TotalsInv /\ SingleInv
  BY DEF LoopInv
<1>1. /\ tx # <<>> /\ tx' = Tail(tx) /\ flight' = flight \cup {Head(tx)}
      /\ Len(comp) + Cardinality(flight) < CqSize
      /\ wire' = wire + 1 /\ last_pkt' = frame_data[Addr(Head(tx))]
  BY DEF KTransmit
<1>2. /\ UNCHANGED <<multithreaded, max_batch_size, comp, fill, rx, frame_data, descs, pc>>
      /\ UNCHANGED <<frames_rcvd, next_pkt, f>>
      /\ UNCHANGED <<total_frames_sent, total_frames_consumed, total_frames_rcvd>>
  BY DEF KTransmit, client, options, counters
<1>3. /\ Len(tx) > 0 /\ Head(tx) \in Descs1 /\ Tail(tx) \in Seq(Descs1)
      /\ Len(Tail(tx)) = Len(tx) - 1
  BY <1>0, <1>1, Popped DEF TypeInv
<1>4. Held1' = Held1 /\ Held2' = Held2 /\ Prepared' = Prepared /\ Taken' = Taken
  BY <1>2 DEF Held1, Held2, Prepared, Taken, Slice
<1>5. last_pkt' = frame_data[Head(tx)] /\ last_pkt' \in Nat
  BY <1>0, <1>1, <1>3, AddrOfOwn, OwnFrames DEF TypeInv
<1>6. Circulate(tx', comp, flight', Held1) /\ Head(tx) \notin flight
  BY <1>0, <1>1, HeldTypes, GoesOut DEF TypeInv, FrameInv
<1>7. Cardinality(flight') = Cardinality(flight) + 1
  BY <1>0, <1>1, <1>6, FlightFacts, FS_AddElement
<1>8. TypeInv'
  BY <1>0, <1>1, <1>2, <1>3, <1>5 DEF TypeInv
<1>9. SizeInv'
  <2>1. Len(tx') <= TxSize
    BY <1>0, <1>1, <1>3, Lengths, OptionsAssumption DEF SizeInv
  <2>2. Len(comp') + Cardinality(flight') <= CqSize
    BY <1>0, <1>1, <1>2, <1>7, Lengths, FlightFacts, Counts
  <2> QED
    BY <1>0, <1>2, <2>1, <2>2 DEF SizeInv
<1>10. PcInv'
  BY <1>0, <1>2 DEF PcInv
<1>11. StartInv'
  BY <1>0, <1>1, <1>2 DEF StartInv
<1>12. FrameInv'
  BY <1>0, <1>2, <1>4, <1>6 DEF FrameInv
<1>13. DataInv'
  <2>1. Newer(tx', Prepared, frame_data, last_pkt', next_pkt)
    BY <1>0, <1>1, <1>5, HeldTypes, NewerGoesOut DEF TypeInv, DataInv
  <2> QED
    BY <1>2, <1>4, <2>1 DEF DataInv
<1>14. TotalsInv'
  <2>1. Len(tx') + Cardinality(flight') = Len(tx) + Cardinality(flight)
    BY <1>0, <1>1, <1>3, <1>7, Lengths, FlightFacts
  <2>2. Len(tx') \in Nat /\ Cardinality(flight') \in Nat
    BY <1>0, <1>1, <1>3, <1>7, Lengths, FlightFacts
  <2>3. pc["tx"] # "panicked" => total_frames_sent' =
          total_frames_consumed' + Len(tx') + Len(comp') + Cardinality(flight')
    <3> SUFFICES ASSUME pc["tx"] # "panicked"
                 PROVE  total_frames_sent =
                          total_frames_consumed + Len(tx') + Len(comp) + Cardinality(flight')
      BY <1>2
    <3>1. total_frames_sent = total_frames_consumed + Len(tx) + Len(comp) + Cardinality(flight)
      BY <1>0 DEF TotalsInv
    <3>2. total_frames_consumed \in Nat /\ Len(tx) \in Nat /\ Len(comp) \in Nat
      BY <1>0, Lengths DEF TypeInv
    <3> QED
      BY <1>0, <2>1, <2>2, <3>1, <3>2, FlightFacts
  <2> QED
    BY <1>0, <1>2, <1>4, <2>3 DEF TotalsInv
<1>15. SingleInv'
  <2>1. UnderWay' = UnderWay
    BY <1>0, <1>1, <1>2, <1>3, <1>4, Lengths DEF UnderWay
  <2> QED
    BY <1>0, <1>2, <2>1 DEF SingleInv, BatchFits
<1> QED
  BY <1>8, <1>9, <1>10, <1>11, <1>12, <1>13, <1>14, <1>15 DEF LoopInv

\* A frame goes from the hands of the kernel into the completion ring.
LEMMA KCompleteKeeps == LoopInv /\ KComplete /\ UNCHANGED f => LoopInv'
<1> SUFFICES ASSUME LoopInv, KComplete, UNCHANGED f PROVE LoopInv'
  OBVIOUS
<1>0. TypeInv /\ SizeInv /\ PcInv /\ StartInv /\ FrameInv /\ DataInv /\ TotalsInv /\ SingleInv
  BY DEF LoopInv
<1>1. PICK fr \in flight : flight' = flight \ {fr} /\ comp' = Append(comp, fr)
  BY DEF KComplete
<1>2. /\ UNCHANGED <<multithreaded, max_batch_size, tx, fill, rx, wire, last_pkt, frame_data>>
      /\ UNCHANGED <<descs, pc, frames_rcvd, next_pkt, f>>
      /\ UNCHANGED <<total_frames_sent, total_frames_consumed, total_frames_rcvd>>
  BY DEF KComplete, client, options, counters
<1>3. fr \in Descs1 /\ comp' \in Seq(Descs1) /\ Len(comp') = Len(comp) + 1
  BY <1>0, <1>1, Pushed DEF TypeInv
<1>4. Held1' = Held1 /\ Held2' = Held2 /\ Prepared' = Prepared /\ Taken' = Taken
  BY <1>2 DEF Held1, Held2, Prepared, Taken, Slice
<1>5. Circulate(tx, comp', flight', Held1)
  BY <1>0, <1>1, <1>3, HeldTypes, ComesBack DEF TypeInv, FrameInv
<1>6. Cardinality(flight') = Cardinality(flight) - 1
  BY <1>0, <1>1, FlightFacts, FS_RemoveElement
<1>7. TypeInv'
  BY <1>0, <1>1, <1>2, <1>3 DEF TypeInv
<1>8. Len(comp') + Cardinality(flight') = Len(comp) + Cardinality(flight)
  BY <1>0, <1>3, <1>6, Lengths, FlightFacts
<1>9. SizeInv'
  BY <1>0, <1>2, <1>8 DEF SizeInv
<1>10. PcInv'
  BY <1>0, <1>2 DEF PcInv
<1>11. StartInv'
  BY <1>0, <1>1, <1>2 DEF StartInv
<1>12. FrameInv'
  BY <1>0, <1>2, <1>4, <1>5 DEF FrameInv
<1>13. DataInv'
  BY <1>0, <1>2, <1>4 DEF DataInv
<1>14. TotalsInv'
  <2>1. pc["tx"] # "panicked" => total_frames_sent' =
          total_frames_consumed' + Len(tx') + Len(comp') + Cardinality(flight')
    BY <1>0, <1>2, <1>3, <1>6, Lengths, FlightFacts DEF TotalsInv, TypeInv
  <2> QED
    BY <1>0, <1>2, <1>4, <2>1 DEF TotalsInv
<1>15. SingleInv'
  BY <1>0, <1>2, <1>4 DEF SingleInv, UnderWay, BatchFits
<1> QED
  BY <1>7, <1>9, <1>10, <1>11, <1>12, <1>13, <1>14, <1>15 DEF LoopInv

\* A packet goes from the wire into the rx ring, in a frame of the fill ring.
LEMMA KDeliverKeeps == LoopInv /\ KDeliver /\ UNCHANGED f => LoopInv'
<1> SUFFICES ASSUME LoopInv, KDeliver, UNCHANGED f PROVE LoopInv'
  OBVIOUS
<1>0. TypeInv /\ SizeInv /\ PcInv /\ StartInv /\ FrameInv /\ DataInv /\ TotalsInv /\ SingleInv
  BY DEF LoopInv
<1>1. /\ wire > 0 /\ fill # <<>> /\ Len(rx) < RxSize
      /\ rx' = Append(rx, Head(fill)) /\ fill' = Tail(fill) /\ wire' = wire - 1
  BY DEF KDeliver
<1>2. /\ UNCHANGED <<multithreaded, max_batch_size, tx, comp, flight, last_pkt, frame_data>>
      /\ UNCHANGED <<descs, pc, frames_rcvd, next_pkt, f>>
      /\ UNCHANGED <<total_frames_sent, total_frames_consumed, total_frames_rcvd>>
  BY DEF KDeliver, client, options, counters
<1>3. Len(fill) > 0 /\ Head(fill) \in Descs2 /\ fill' \in Seq(Descs2) /\ Len(fill') = Len(fill) - 1
  BY <1>0, <1>1, Popped DEF TypeInv
<1>4. rx' \in Seq(Descs2) /\ Len(rx') = Len(rx) + 1
  BY <1>0, <1>1, <1>3, Pushed DEF TypeInv
<1>5. Held1' = Held1 /\ Held2' = Held2 /\ Prepared' = Prepared /\ Taken' = Taken
  BY <1>2 DEF Held1, Held2, Prepared, Taken, Slice
<1>6. multithreaded => Circulate(fill', rx', {}, Held2)
  BY <1>0, <1>1, HeldTypes, Delivered DEF TypeInv, FrameInv
<1>7. TypeInv'
  BY <1>0, <1>1, <1>2, <1>3, <1>4 DEF TypeInv
<1>8. SizeInv'
  BY <1>0, <1>1, <1>2, <1>3, <1>4, Lengths, OptionsAssumption DEF SizeInv
<1>9. PcInv'
  BY <1>0, <1>2 DEF PcInv
<1>10. StartInv'
  BY <1>0, <1>1, <1>2 DEF StartInv, TypeInv
<1>11. FrameInv'
  BY <1>0, <1>2, <1>5, <1>6 DEF FrameInv
<1>12. DataInv'
  BY <1>0, <1>2, <1>5 DEF DataInv
<1>13. TotalsInv'
  <2>1. Len(fill') + Len(rx') + Taken = Len(fill) + Len(rx) + Taken
    BY <1>0, <1>3, <1>4, Lengths
  <2> QED
    BY <1>0, <1>2, <1>5, <2>1 DEF TotalsInv
<1>14. SingleInv'
  <2>1. UnderWay' = UnderWay
    <3>1. UnderWay' = Len(tx) + wire' + Len(rx') + Taken
      BY <1>2, <1>5 DEF UnderWay
    <3>2. Len(tx) \in Nat /\ wire \in Nat /\ Len(rx) \in Nat /\ Taken \in Nat
      BY <1>0, Lengths
    <3> QED
      BY <1>1, <1>4, <3>1, <3>2 DEF UnderWay
  <2> QED
    BY <1>0, <1>2, <2>1 DEF SingleInv, BatchFits
<1> QED
  BY <1>7, <1>8, <1>9, <1>10, <1>11, <1>12, <1>13, <1>14 DEF LoopInv

\* The single thread has room for everything it has sent.
LEMMA RoomForAll ==
  ASSUME TypeInv, TotalsInv, SingleInv, StartInv, ~multithreaded, BatchFits,
         f = "running", pc["rx"] \notin Ended, wire > 0
  PROVE  fill # <<>> /\ Len(rx) < RxSize
<1>1. pc["rx"] \notin {"start", "panicked"}
  BY DEF StartInv, Ended
<1>2. Len(fill) + Len(rx) + Taken = FqSize
  BY <1>1 DEF TotalsInv
<1>3. UnderWay <= max_batch_size /\ max_batch_size <= FqSize /\ max_batch_size <= RxSize
  BY DEF SingleInv, BatchFits
<1>4. max_batch_size \in Nat /\ FqSize \in Nat /\ RxSize \in Nat
  BY OptionsAssumption DEF TypeInv
<1>5. Len(tx) \in Nat /\ Len(fill) \in Nat /\ Len(rx) \in Nat /\ Taken \in Nat /\ wire \in Nat
  BY Lengths
<1>6. Len(rx) + Taken < max_batch_size /\ Len(rx) < max_batch_size
  BY <1>3, <1>4, <1>5 DEF UnderWay
<1>7. Len(fill) > 0 /\ Len(rx) < RxSize
  BY <1>2, <1>3, <1>4, <1>5, <1>6
<1> QED
  BY <1>7

\* A packet is lost; for the single thread there is none to lose when there is no
\* room.
LEMMA KDropKeeps == LoopInv /\ f = "running" /\ KDrop /\ UNCHANGED f => LoopInv'
<1> SUFFICES ASSUME LoopInv, f = "running", KDrop, UNCHANGED f PROVE LoopInv'
  OBVIOUS
<1>0. TypeInv /\ SizeInv /\ PcInv /\ StartInv /\ FrameInv /\ DataInv /\ TotalsInv /\ SingleInv
  BY DEF LoopInv
<1>1. /\ pc["rx"] \notin Ended /\ wire > 0 /\ (fill = <<>> \/ Len(rx) = RxSize)
      /\ wire' = wire - 1
  BY DEF KDrop
<1>2. /\ UNCHANGED <<multithreaded, max_batch_size, tx, comp, fill, rx, flight, last_pkt>>
      /\ UNCHANGED <<frame_data, descs, pc, frames_rcvd, next_pkt, f>>
      /\ UNCHANGED <<total_frames_sent, total_frames_consumed, total_frames_rcvd>>
  BY DEF KDrop, client, options, counters
<1>3. Held1' = Held1 /\ Held2' = Held2 /\ Prepared' = Prepared /\ Taken' = Taken
  BY <1>2 DEF Held1, Held2, Prepared, Taken, Slice
<1>4. ~(~multithreaded /\ BatchFits)
  BY <1>0, <1>1, RoomForAll, OptionsAssumption
<1>5. TypeInv'
  BY <1>0, <1>1, <1>2 DEF TypeInv
<1>6. SizeInv' /\ PcInv'
  BY <1>0, <1>2 DEF SizeInv, PcInv
<1>7. StartInv'
  BY <1>0, <1>1, <1>2 DEF StartInv
<1>8. FrameInv' /\ DataInv'
  BY <1>0, <1>2, <1>3 DEF FrameInv, DataInv
<1>9. TotalsInv'
  BY <1>0, <1>2, <1>3 DEF TotalsInv
<1>10. SingleInv'
  BY <1>2, <1>4 DEF SingleInv, BatchFits
<1> QED
  BY <1>5, <1>6, <1>7, <1>8, <1>9, <1>10 DEF LoopInv

-----------------------------------------------------------------------------
(* The receiver's steps *)

\* While the single thread receives it holds no frames of the sender.
LEMMA OneAtATime ==
  ASSUME PcInv, ~multithreaded,
         pc["rx"] \in {"start", "signal", "kick", "poll", "check", "refill"}
  PROVE  pc["tx"] = "off"
  BY DEF PcInv, Ended

\* Of the untouched rx_descs the first fq_size frames are all different.
LEMMA FirstFill ==
  ASSUME TypeInv, descs["rx"] = [i \in Frames |-> FrameCount + i]
  PROVE  /\ Slice("rx", FqSize) \in Seq(Descs2) /\ Len(Slice("rx", FqSize)) = FqSize
         /\ Circulate(Slice("rx", FqSize), <<>>, {}, <<>>)
<1>1. PICK a : a = Slice("rx", FqSize)
  OBVIOUS
<1>2. FqSize \in 0 .. FrameCount /\ "rx" \in Sides
  BY Counts DEF Sides
<1>3. a \in Seq(Descs2) /\ Len(a) = FqSize /\ \A i \in 1 .. FqSize : a[i] = descs["rx"][i]
  BY <1>1, <1>2, SliceFacts
<1>4. \A i \in 1 .. FqSize : a[i] = FrameCount + i
  <2> TAKE i \in 1 .. FqSize
  <2>1. i \in Frames
    BY Counts DEF Frames
  <2> QED
    BY <1>3, <2>1
<1>5. Once(a)
  BY <1>3, <1>4, Counts DEF Once
<1> QED
  BY <1>1, <1>3, <1>5 DEF Circulate, Once, Apart, Clear

\* The receiver fills the fill ring.
LEMMA RxFillKeeps == LoopInv /\ RxFill /\ UNCHANGED f => LoopInv'
<1> SUFFICES ASSUME LoopInv, RxFill, UNCHANGED f PROVE LoopInv'
  OBVIOUS
<1>0. TypeInv /\ SizeInv /\ PcInv /\ StartInv /\ FrameInv /\ DataInv /\ TotalsInv /\ SingleInv
  BY DEF LoopInv
<1>1. pc["rx"] = "start" /\ fill' = Slice("rx", FqSize)
  BY DEF RxFill
<1>2. /\ UNCHANGED <<multithreaded, max_batch_size, tx, comp, rx, flight, wire, last_pkt>>
      /\ UNCHANGED <<frame_data, descs, frames_rcvd, next_pkt, f>>
      /\ UNCHANGED <<total_frames_sent, total_frames_consumed, total_frames_rcvd>>
  BY DEF RxFill, options, counters
<1>3. fill = <<>> /\ rx = <<>> /\ descs["rx"] = [i \in Frames |-> FrameCount + i]
  BY <1>0, <1>1 DEF StartInv
<1>4. fill' \in Seq(Descs2) /\ Len(fill') = FqSize /\ Circulate(fill', rx, {}, <<>>)
  BY <1>0, <1>1, <1>3, FirstFill
<1>5. /\ pc' \in [Sides -> Labels]
      /\ multithreaded => pc'["rx"] = "signal" /\ pc'["tx"] = pc["tx"]
      /\ ~multithreaded => pc'["rx"] = "off" /\ pc'["tx"] = "start" /\ pc["tx"] = "off"
  <2>1. CASE multithreaded
    BY <1>0, <2>1 DEF RxFill, PcInv, Sides, Labels, TxLabels, RxLabels
  <2>2. CASE ~multithreaded
    BY <1>0, <1>1, <2>2, OneAtATime DEF RxFill, Sides, Labels, TxLabels, RxLabels
  <2> QED
    BY <2>1, <2>2
<1>6. Held1' = Held1 /\ Held2' = <<>> /\ Prepared' = Prepared /\ Taken' = 0 /\ Taken = 0
  BY <1>1, <1>2, <1>5 DEF Held1, Held2, Prepared, Taken, Slice
<1>7. TypeInv'
  BY <1>0, <1>2, <1>4 DEF TypeInv
<1>8. SizeInv'
  BY <1>0, <1>2, <1>4, Counts DEF SizeInv
<1>9. PcInv'
  BY <1>0, <1>2, <1>5 DEF PcInv, TxLabels, RxLabels
<1>10. StartInv'
  BY <1>0, <1>1, <1>2, <1>5 DEF StartInv
<1>11. FrameInv'
  BY <1>0, <1>2, <1>4, <1>5, <1>6 DEF FrameInv
<1>12. DataInv'
  BY <1>0, <1>2, <1>6 DEF DataInv
<1>13. TotalsInv'
  <2>1. Len(fill') + Len(rx') + Taken' = FqSize
    BY <1>2, <1>3, <1>4, <1>6, Counts
  <2>2. pc'["tx"] # "panicked" => pc["tx"] # "panicked"
    BY <1>5
  <2>3. pc'["tx"] \in {"write", "ready", "submit"} => pc["tx"] \in {"write", "ready", "submit"}
    BY <1>5
  <2> QED
    BY <1>0, <1>2, <2>1, <2>2, <2>3 DEF TotalsInv
<1>14. SingleInv'
  <2>1. UnderWay' = UnderWay
    BY <1>2, <1>6 DEF UnderWay
  <2>2. pc["rx"] \notin Ended
    BY <1>1 DEF Ended
  <2> QED
    BY <1>0, <1>2, <1>5, <2>1, <2>2 DEF SingleInv, BatchFits
<1> QED
  BY <1>7, <1>8, <1>9, <1>10, <1>11, <1>12, <1>13, <1>14 DEF LoopInv

\* The receiver takes frames from the rx ring; the single thread puts them into
\* the sender's vector, of which nothing is held then.
LEMMA RxTakesKeeps == LoopInv /\ RxTakes /\ UNCHANGED f => LoopInv'
<1> SUFFICES ASSUME LoopInv, RxTakes, UNCHANGED f PROVE LoopInv'
  OBVIOUS
<1>0. TypeInv /\ SizeInv /\ PcInv /\ StartInv /\ FrameInv /\ DataInv /\ TotalsInv /\ SingleInv
  BY DEF LoopInv
<1>1. PICK k \in 1 .. Len(rx) :
        /\ k <= FrameCount
        /\ descs' = Overwrite(RxBuffer, SubSeq(rx, 1, k))
        /\ rx' = SubSeq(rx, k + 1, Len(rx))
        /\ frames_rcvd' = [frames_rcvd EXCEPT !["rx"] = k]
  BY DEF RxTakes
<1>2. /\ UNCHANGED <<multithreaded, max_batch_size, tx, comp, fill, flight, wire, last_pkt>>
      /\ UNCHANGED <<frame_data, next_pkt, f>>
      /\ UNCHANGED <<total_frames_sent, total_frames_consumed, total_frames_rcvd>>
  BY DEF RxTakes, options, counters
<1>3. /\ pc["rx"] = "poll"
      /\ pc' \in [Sides -> Labels] /\ pc'["rx"] = "refill" /\ pc'["tx"] = pc["tx"]
      /\ ~multithreaded => pc["tx"] = "off"
  BY <1>0, GotoFacts, OneAtATime DEF RxTakes, Sides, Labels, TxLabels, RxLabels
<1>4. PICK es : es = SubSeq(rx, 1, k)
  OBVIOUS
<1>5. es \in Seq(Descs2) /\ Len(es) = k /\ k \in 0 .. FrameCount /\ k \in Nat
  <2>1. rx \in Seq(Descs2) /\ k \in 0 .. Len(rx) /\ k \in 0 .. FrameCount
    BY <1>0, <1>1, Counts DEF TypeInv
  <2> QED
    BY <1>4, <2>1
<1>6. rx' \in Seq(Descs2) /\ Len(rx') = Len(rx) - k
  <2>1. rx \in Seq(Descs2) /\ k \in 0 .. Len(rx)
    BY <1>0, <1>1 DEF TypeInv
  <2> QED
    BY <1>1, <2>1, Rest
<1>7. RxBuffer \in Sides /\ (multithreaded => RxBuffer = "rx")
      /\ (~multithreaded => RxBuffer = "tx")
  BY DEF RxBuffer, Sides
<1>8. /\ descs' \in [Sides -> [Frames -> Descs]] /\ descs'["rx"] \in [Frames -> Descs2]
      /\ \A w \in Sides : w # RxBuffer => descs'[w] = descs[w]
      /\ SubSeq(descs'[RxBuffer], 1, k) = es
  <2>1. es \in Seq(Descs)
    BY <1>5, SeqMonotonic DEF Descs
  <2>2. Len(es) <= FrameCount /\ descs' = Overwrite(RxBuffer, es)
    BY <1>1, <1>4, <1>5
  <2>3. /\ descs' \in [Sides -> [Frames -> Descs]] /\ descs'["rx"] \in [Frames -> Descs2]
        /\ \A w \in Sides : w # RxBuffer => descs'[w] = descs[w]
        /\ SubSeq(descs'[RxBuffer], 1, Len(es)) = es
    BY <1>0, <1>5, <1>7, <2>1, <2>2, OverwriteFacts
  <2> QED
    BY <1>5, <2>3
<1>9. /\ frames_rcvd' \in [Sides -> 0 .. FrameCount]
      /\ frames_rcvd'["rx"] = k /\ frames_rcvd'["tx"] = frames_rcvd["tx"]
  BY <1>0, <1>1, <1>5 DEF TypeInv, Sides
<1>10. multithreaded => descs'["tx"] = descs["tx"]
  BY <1>7, <1>8 DEF Sides
<1>11. Held1' = Held1 /\ Prepared' = Prepared
  <2>1. CASE multithreaded
    BY <1>3, <1>9, <1>10, <2>1 DEF Held1, Prepared, Slice
  <2>2. CASE ~multithreaded
    BY <1>3, <2>2 DEF Held1, Prepared
  <2> QED
    BY <2>1, <2>2
<1>12. multithreaded => Held2' = es
  BY <1>3, <1>7, <1>8, <1>9 DEF Held2, Slice
<1>13. multithreaded => Circulate(fill, rx', {}, es)
  BY <1>0, <1>1, <1>4, Take DEF TypeInv, FrameInv
<1>14. Taken' = k /\ Taken = 0
  BY <1>3, <1>9 DEF Taken
<1>15. TypeInv'
  BY <1>0, <1>2, <1>6, <1>8, <1>9 DEF TypeInv
<1>16. SizeInv'
  BY <1>0, <1>2, <1>5, <1>6, Lengths, OptionsAssumption DEF SizeInv
<1>17. PcInv'
  BY <1>0, <1>2, <1>3 DEF PcInv, TxLabels, RxLabels
<1>18. StartInv'
  BY <1>0, <1>2, <1>3, <1>10 DEF StartInv
<1>19. FrameInv'
  BY <1>0, <1>2, <1>3, <1>11, <1>12, <1>13 DEF FrameInv
<1>20. DataInv'
  BY <1>0, <1>2, <1>11 DEF DataInv
<1>21. TotalsInv'
  <2>1. Len(fill) + Len(rx') + Taken' = Len(fill) + Len(rx) + Taken
    BY <1>0, <1>5, <1>6, <1>14, Lengths
  <2> QED
    BY <1>0, <1>2, <1>3, <2>1 DEF TotalsInv
<1>22. SingleInv'
  <2>1. UnderWay' = UnderWay
    BY <1>0, <1>2, <1>5, <1>6, <1>14, Lengths DEF UnderWay
  <2>2. pc["rx"] \notin Ended
    BY <1>3 DEF Ended
  <2> QED
    BY <1>0, <1>2, <1>3, <2>1, <2>2 DEF SingleInv, BatchFits
<1> QED
  BY <1>15, <1>16, <1>17, <1>18, <1>19, <1>20, <1>21, <1>22 DEF LoopInv

\* What the receiver puts back goes behind what is in the fill ring.
LEMMA RefillFacts ==
  ASSUME TypeInv, SizeInv, FrameInv, pc["rx"] = "refill", FillRoom >= frames_rcvd["rx"],
         fill' = fill \o Slice("rx", frames_rcvd["rx"])
  PROVE  /\ fill' \in Seq(Descs2) /\ Len(fill') = Len(fill) + frames_rcvd["rx"]
         /\ Len(fill') <= FqSize /\ frames_rcvd["rx"] \in Nat
         /\ multithreaded => Circulate(fill', rx, {}, <<>>)
<1>1. PICK k \in 0 .. FrameCount : k = frames_rcvd["rx"]
  BY DEF TypeInv, Sides
<1>2. PICK h : h = Slice("rx", k)
  OBVIOUS
<1>3. h \in Seq(Descs2) /\ Len(h) = k /\ fill \in Seq(Descs2) /\ Len(fill) \in Nat /\ k \in Nat
  BY <1>1, <1>2, SliceFacts, Counts DEF Sides, TypeInv
<1>4. fill' = fill \o h /\ Held2 = h
  BY <1>1, <1>2 DEF Held2
<1>5. fill' \in Seq(Descs2) /\ Len(fill') = Len(fill) + k
  BY <1>3, <1>4, Joined
<1>6. Len(fill) + k <= FqSize
  BY <1>1, <1>3, Counts DEF FillRoom
<1>7. multithreaded => Circulate(fill', rx, {}, <<>>)
  <2>1. Starts(h, h)
    BY <1>3 DEF Starts
  <2>2. multithreaded => Circulate(fill, rx, {}, h)
    BY <1>4 DEF FrameInv
  <2>3. rx \in Seq(Descs2)
    BY DEF TypeInv
  <2>4. multithreaded => Circulate(fill \o h, rx, {}, <<>>)
    BY <1>3, <2>1, <2>2, <2>3, PutBack
  <2> QED
    BY <1>4, <2>4
<1> QED
  BY <1>1, <1>3, <1>5, <1>6, <1>7

\* The receiver puts frames back: as many as it took, though the single thread
\* takes others.
LEMMA RxRefillKeeps == LoopInv /\ RxRefill /\ UNCHANGED f => LoopInv'
<1> SUFFICES ASSUME LoopInv, RxRefill, UNCHANGED f PROVE LoopInv'
  OBVIOUS
<1>0. TypeInv /\ SizeInv /\ PcInv /\ StartInv /\ FrameInv /\ DataInv /\ TotalsInv /\ SingleInv
  BY DEF LoopInv
<1>1. PICK k : k = frames_rcvd["rx"]
  OBVIOUS
<1>2. /\ pc["rx"] = "refill"
      /\ fill' \in Seq(Descs2) /\ Len(fill') = Len(fill) + k /\ Len(fill') <= FqSize /\ k \in Nat
      /\ multithreaded => Circulate(fill', rx, {}, <<>>)
  BY <1>0, <1>1, RefillFacts DEF RxRefill
<1>3. /\ UNCHANGED <<multithreaded, max_batch_size, tx, comp, rx, flight, wire, last_pkt>>
      /\ UNCHANGED <<frame_data, descs, next_pkt, f, total_frames_sent, total_frames_consumed>>
      /\ total_frames_rcvd' = total_frames_rcvd + k
      /\ RxAgain(total_frames_rcvd')
  BY <1>1 DEF RxRefill, options
<1>4. /\ pc' \in [Sides -> Labels]
      /\ multithreaded => pc'["rx"] \in {"poll", "returned"} /\ pc'["tx"] = pc["tx"]
      /\ ~multithreaded => SingleGoes(total_frames_sent, total_frames_rcvd')
      /\ ~multithreaded => pc["tx"] = "off"
  BY <1>0, <1>2, <1>3, RxAgainFacts, OneAtATime
<1>5. /\ frames_rcvd' \in [Sides -> 0 .. FrameCount] /\ frames_rcvd'["tx"] = frames_rcvd["tx"]
  BY <1>0, Counts DEF RxRefill, TypeInv, Sides
<1>6. pc'["rx"] \notin {"start", "refill", "panicked"}
  BY <1>4 DEF SingleGoes
<1>7. ~multithreaded => pc'["tx"] \in {"off", "comp", "returned"}
  BY <1>4 DEF SingleGoes
<1>8. Held1' = Held1 /\ Prepared' = Prepared /\ Held2' = <<>> /\ Taken' = 0 /\ Taken = k
  <2>1. CASE multithreaded
    BY <1>1, <1>2, <1>3, <1>4, <1>5, <1>6, <2>1 DEF Held1, Held2, Prepared, Slice, Taken
  <2>2. CASE ~multithreaded
    BY <1>1, <1>2, <1>4, <1>6, <1>7, <2>2 DEF Held1, Held2, Prepared, Taken
  <2> QED
    BY <2>1, <2>2
<1>9. TypeInv'
  BY <1>0, <1>2, <1>3, <1>5 DEF TypeInv
<1>10. SizeInv'
  BY <1>0, <1>2, <1>3 DEF SizeInv
<1>11. PcInv'
  BY <1>0, <1>3, <1>4 DEF PcInv, SingleGoes, TxLabels, RxLabels, Ended
<1>12. StartInv'
  BY <1>0, <1>3, <1>4, <1>6, <1>7 DEF StartInv
<1>13. FrameInv'
  <2>1. pc'["tx"] \in {"write", "ready", "submit"} => pc["tx"] \in {"write", "ready", "submit"}
    BY <1>4, <1>7
  <2> QED
    BY <1>0, <1>2, <1>3, <1>8, <2>1 DEF FrameInv
<1>14. DataInv'
  BY <1>0, <1>3, <1>8 DEF DataInv
<1>15. TotalsInv'
  <2>1. pc'["tx"] # "panicked" => pc["tx"] # "panicked"
    BY <1>4
  <2>2. Len(fill') + Len(rx) + Taken' = Len(fill) + Len(rx) + Taken
    BY <1>0, <1>2, <1>8, Lengths
  <2>3. pc'["tx"] \in {"write", "ready", "submit"} => pc["tx"] \in {"write", "ready", "submit"}
    BY <1>4, <1>7
  <2> QED
    BY <1>0, <1>2, <1>3, <2>1, <2>2, <2>3 DEF TotalsInv
<1>16. SingleInv'
  <2> SUFFICES ASSUME ~multithreaded, BatchFits, pc'["rx"] \notin Ended
               PROVE  /\ total_frames_sent = total_frames_rcvd' + UnderWay'
                      /\ UnderWay' <= max_batch_size
                      /\ pc'["tx"] \in Sending => UnderWay' = 0
    BY <1>3 DEF SingleInv, Sending, BatchFits
  <2>1. total_frames_sent = total_frames_rcvd + UnderWay /\ UnderWay <= max_batch_size
    BY <1>0, <1>2 DEF SingleInv, Ended
  <2>2. UnderWay = UnderWay' + k /\ UnderWay' \in Nat
    <3>1. UnderWay' = Len(tx) + wire + Len(rx)
      BY <1>0, <1>3, <1>8, Lengths DEF UnderWay
    <3> QED
      BY <1>0, <1>2, <1>8, <3>1, Lengths DEF UnderWay
  <2>3. total_frames_rcvd \in Nat /\ max_batch_size \in Nat
    BY <1>0, OptionsAssumption DEF TypeInv
  <2>4. pc'["tx"] \in Sending => ~(total_frames_rcvd' < total_frames_sent)
    BY <1>4 DEF SingleGoes, Sending
  <2>5. PICK u \in Nat : u = UnderWay'
    BY <2>2
  <2>6. PICK n \in Nat : n = total_frames_rcvd
    BY <2>3
  <2>7. /\ total_frames_sent = (n + k) + u /\ u <= max_batch_size
        /\ n + k \in Nat /\ total_frames_rcvd' = n + k
    <3>1. UnderWay = u + k /\ k \in Nat
      BY <1>2, <2>2, <2>5
    <3>2. total_frames_sent = n + (u + k) /\ u + k <= max_batch_size
      BY <2>1, <2>6, <3>1
    <3>3. total_frames_rcvd' = n + k
      BY <1>3, <2>6
    <3> QED
      BY <2>3, <3>1, <3>2, <3>3
  <2>8. pc'["tx"] \in Sending => u = 0
    BY <2>4, <2>5, <2>7
  <2> QED
    BY <2>5, <2>7, <2>8
<1> QED
  BY <1>9, <1>10, <1>11, <1>12, <1>13, <1>14, <1>15, <1>16 DEF LoopInv

-----------------------------------------------------------------------------
(* The sender's steps *)

\* While the single thread sends it holds no frames of the receiver.
LEMMA OtherIsOff ==
  ASSUME PcInv, ~multithreaded,
         pc["tx"] \in {"start", "wait", "comp", "idle", "write", "ready", "submit", "finish"}
  PROVE  pc["rx"] = "off"
  BY DEF PcInv, Ended

\* The first packets are in the first frames.
LEMMA FirstBatch ==
  ASSUME TypeInv, StartInv, pc["tx"] = "start", NEW b \in 0 .. FrameCount
  PROVE  /\ Slice("tx", b) \in Seq(Descs1) /\ Len(Slice("tx", b)) = b
         /\ Written(b) \in [Frames -> Nat]
         /\ Circulate(tx \o Slice("tx", b), comp, flight, <<>>)
         /\ Newer(tx \o Slice("tx", b), <<>>, Written(b), last_pkt, next_pkt + b)
<1>1. PICK h : h = Slice("tx", b)
  OBVIOUS
<1>2. /\ tx = <<>> /\ comp = <<>> /\ flight = {} /\ descs["tx"] = [i \in Frames |-> i]
      /\ last_pkt = 0 /\ next_pkt = 1
  BY DEF StartInv
<1>3. h \in Seq(Descs) /\ Len(h) = b /\ \A i \in 1 .. b : h[i] = descs["tx"][i]
  BY <1>1, SliceFacts DEF Sides
<1>4. \A i \in 1 .. b : h[i] = i /\ h[i] \in Descs1
  <2> TAKE i \in 1 .. b
  <2>1. i \in Frames
    BY Counts DEF Frames
  <2> QED
    BY <1>2, <1>3, <2>1, OwnFrames
<1>5. h \in Seq(Descs1)
  <2>1. h = [i \in 1 .. b |-> h[i]] /\ b \in Nat
    BY <1>3, Counts
  <2> QED
    BY <1>4, <2>1
<1>6. Once(h)
  BY <1>3, <1>4 DEF Once
<1>7. Circulate(tx, comp, flight, h)
  BY <1>2, <1>6 DEF Circulate, Once, Apart, Clear
<1>8. tx \in Seq(Descs1) /\ comp \in Seq(Descs1) /\ Starts(h, h)
  BY <1>5 DEF TypeInv, Starts
<1>9. Circulate(tx \o h, comp, flight, <<>>)
  BY <1>5, <1>7, <1>8, PutBack
<1>10. /\ Written(b) \in [Frames -> Nat]
       /\ \A i \in 1 .. b : Written(b)[h[i]] = next_pkt - 1 + i
  BY <1>1, <1>2, <1>5, <1>6, WrittenFacts
<1>11. Newer(tx, <<>>, frame_data, last_pkt, next_pkt)
  BY <1>2 DEF Newer
<1>12. Newer(tx, h, Written(b), last_pkt, next_pkt + b)
  <2>1. \A i \in 1 .. Len(tx) : Written(b)[tx[i]] = frame_data[tx[i]]
    BY <1>2
  <2>2. \A i \in 1 .. Len(h) : Written(b)[h[i]] = next_pkt - 1 + i
    BY <1>3, <1>10
  <2>3. frame_data \in [Frames -> Nat] /\ last_pkt \in Nat /\ next_pkt \in Nat
    BY DEF TypeInv
  <2>4. Newer(tx, h, Written(b), last_pkt, next_pkt + Len(h))
    BY <1>5, <1>8, <1>10, <1>11, <2>1, <2>2, <2>3, NewerWrite
  <2> QED
    BY <1>3, <2>4
<1>13. Newer(tx \o h, <<>>, Written(b), last_pkt, next_pkt + b)
  BY <1>5, <1>8, <1>12, NewerPutBack
<1> QED
  BY <1>1, <1>3, <1>5, <1>9, <1>10, <1>13

\* The sender writes and submits the first batch, or panics over its size.
LEMMA TxStartKeeps == LoopInv /\ TxStart /\ UNCHANGED f => LoopInv'
<1> SUFFICES ASSUME LoopInv, TxStart, UNCHANGED f PROVE LoopInv'
  OBVIOUS
<1>0. TypeInv /\ SizeInv /\ PcInv /\ StartInv /\ FrameInv /\ DataInv /\ TotalsInv /\ SingleInv
  BY DEF LoopInv
<1>1. CASE ~(max_batch_size <= TxSize /\ max_batch_size <= FrameCount)
  <2>1. pc["tx"] = "start" /\ pc' = PanicAt("tx")
    BY <1>1 DEF TxStart
  <2>2. /\ pc' \in [Sides -> Labels] /\ pc'["tx"] = "panicked"
        /\ pc'["rx"] = IF multithreaded THEN pc["rx"] ELSE "panicked"
    BY <1>0, <2>1, PanicFacts DEF Sides
  <2>3. ~multithreaded => pc["rx"] = "off"
    BY <1>0, <2>1, OtherIsOff
  <2>4. multithreaded' = multithreaded
    BY DEF TxStart, options
  <2>5. PcInv' /\ PcMoves
    BY <1>0, <2>1, <2>2, <2>3, <2>4
    DEF PcInv, PcMoves, Labels, TxLabels, RxLabels, Ended, Sending
  <2> QED
    BY <1>1, <2>5, Quiet DEF TxStart, counters
<1>2. CASE max_batch_size <= TxSize /\ max_batch_size <= FrameCount
  <2>1. PICK b \in 1 .. FrameCount : b = max_batch_size /\ b \in 0 .. FrameCount /\ b <= TxSize
    BY <1>0, <1>2, Counts, OptionsAssumption DEF TypeInv
  <2>2. /\ pc["tx"] = "start" /\ frame_data' = Written(b) /\ next_pkt' = next_pkt + b
        /\ tx' = tx \o Slice("tx", b) /\ total_frames_sent' = b
        /\ pc' = IF multithreaded THEN [pc EXCEPT !["tx"] = "wait"] ELSE SingleOuter(b, 0, 0)
    BY <1>2, <2>1 DEF TxStart
  <2>3. /\ UNCHANGED <<multithreaded, max_batch_size, comp, fill, rx, flight, wire, last_pkt>>
        /\ UNCHANGED <<descs, frames_rcvd, f, total_frames_consumed, total_frames_rcvd>>
    BY DEF TxStart, options
  <2>4. /\ tx = <<>> /\ comp = <<>> /\ flight = {} /\ wire = 0
        /\ total_frames_sent = 0 /\ total_frames_consumed = 0
    BY <1>0, <2>2 DEF StartInv
  <2>5. PICK h : h = Slice("tx", b)
    OBVIOUS
  <2>6. /\ h \in Seq(Descs1) /\ Len(h) = b /\ frame_data' \in [Frames -> Nat]
        /\ Circulate(tx', comp, flight, <<>>)
        /\ Newer(tx', <<>>, frame_data', last_pkt, next_pkt')
    BY <1>0, <2>1, <2>2, <2>5, FirstBatch
  <2>7. tx' \in Seq(Descs1) /\ Len(tx') = b
    <3>1. tx' = <<>> \o h
      BY <2>2, <2>4, <2>5
    <3>2. tx' = h
      BY <2>6, <3>1, ConcatEmptySeq
    <3> QED
      BY <2>6, <3>2
  <2>8. /\ pc' \in [Sides -> Labels]
        /\ multithreaded => pc'["tx"] = "wait" /\ pc'["rx"] = pc["rx"]
        /\ ~multithreaded => SingleGoes(b, 0) /\ pc["rx"] = "off"
    <3>1. CASE multithreaded
      BY <1>0, <2>2, <3>1 DEF PcInv, Sides, Labels, TxLabels, RxLabels
    <3>2. CASE ~multithreaded
      BY <1>0, <2>2, <3>2, SingleFacts, OtherIsOff
    <3> QED
      BY <3>1, <3>2
  <2>9. /\ pc'["tx"] \in {"wait", "off", "comp", "returned"}
        /\ ~multithreaded => pc'["rx"] \in {"off", "kick", "returned"}
    BY <2>8 DEF SingleGoes
  <2>10. Held1' = <<>> /\ Prepared' = <<>>
    BY <2>9 DEF Held1, Prepared
  <2>11. (multithreaded => Held2' = Held2) /\ Taken' = Taken
    BY <2>3, <2>8, <2>9 DEF Held2, Taken, Slice
  <2>12. TypeInv'
    <3>1. next_pkt' \in Nat /\ total_frames_sent' \in Nat
      BY <1>0, <2>1, <2>2 DEF TypeInv
    <3> QED
      BY <1>0, <2>3, <2>6, <2>7, <3>1 DEF TypeInv
  <2>13. SizeInv'
    BY <1>0, <2>1, <2>3, <2>7 DEF SizeInv
  <2>14. PcInv'
    BY <1>0, <2>3, <2>8 DEF PcInv, SingleGoes, TxLabels, RxLabels, Ended
  <2>15. StartInv'
    BY <1>0, <2>3, <2>8, <2>9 DEF StartInv
  <2>16. FrameInv'
    BY <1>0, <2>3, <2>6, <2>9, <2>10, <2>11 DEF FrameInv
  <2>17. DataInv'
    BY <2>3, <2>6, <2>10 DEF DataInv
  <2>18. TotalsInv'
    <3>1. Len(comp) = 0 /\ Cardinality(flight) = 0
      BY <2>4, FS_EmptySet
    <3>2. total_frames_sent' = total_frames_consumed' + Len(tx') + Len(comp') + Cardinality(flight')
      BY <2>1, <2>2, <2>3, <2>4, <2>7, <3>1
    <3>3. pc'["rx"] \notin {"start", "panicked"} => pc["rx"] \notin {"start", "panicked"}
      BY <2>8
    <3> QED
      BY <1>0, <2>3, <2>9, <2>11, <3>2, <3>3 DEF TotalsInv
  <2>19. SingleInv'
    <3> SUFFICES ASSUME ~multithreaded, BatchFits
                 PROVE  /\ total_frames_sent' = total_frames_rcvd' + UnderWay'
                        /\ UnderWay' <= max_batch_size
                        /\ pc'["tx"] \notin Sending
      BY <2>3 DEF SingleInv, Sending, BatchFits
    <3>1. total_frames_sent = total_frames_rcvd + UnderWay
      BY <1>0, <2>8 DEF SingleInv, Ended
    <3>2. Len(rx) \in Nat /\ Taken \in Nat /\ total_frames_rcvd \in Nat
      BY <1>0, Lengths DEF TypeInv
    <3>3. UnderWay = Len(rx) + Taken
      BY <2>4, <3>2 DEF UnderWay
    <3>4. total_frames_rcvd = 0 /\ Len(rx) = 0 /\ Taken = 0
      BY <2>4, <3>1, <3>2, <3>3
    <3>5. UnderWay' = b
      BY <2>1, <2>3, <2>4, <2>7, <2>11, <3>4 DEF UnderWay
    <3>6. pc'["tx"] \notin Sending
      BY <2>1, <2>8 DEF SingleGoes, Sending
    <3> QED
      BY <2>1, <2>2, <2>3, <3>4, <3>5, <3>6
  <2> QED
    BY <2>12, <2>13, <2>14, <2>15, <2>16, <2>17, <2>18, <2>19 DEF LoopInv
<1> QED
  BY <1>1, <1>2

\* The sender takes completed frames.
LEMMA TxCompKeeps == LoopInv /\ TxComp /\ UNCHANGED f => LoopInv'
<1> SUFFICES ASSUME LoopInv, TxComp, UNCHANGED f PROVE LoopInv'
  OBVIOUS
<1>0. TypeInv /\ SizeInv /\ PcInv /\ StartInv /\ FrameInv /\ DataInv /\ TotalsInv /\ SingleInv
  BY DEF LoopInv
<1>1. PICK k \in 1 .. Len(comp) :
        /\ k <= FrameCount
        /\ descs' = Overwrite("tx", SubSeq(comp, 1, k))
        /\ comp' = SubSeq(comp, k + 1, Len(comp))
        /\ frames_rcvd' =
             [frames_rcvd EXCEPT !["tx"] = IF total_frames_sent < NumPackets THEN k ELSE 0]
        /\ total_frames_consumed' = total_frames_consumed + k
  BY DEF TxComp
<1>2. /\ UNCHANGED <<multithreaded, max_batch_size, tx, fill, rx, flight, wire, last_pkt>>
      /\ UNCHANGED <<frame_data, next_pkt, f, total_frames_sent, total_frames_rcvd>>
  BY DEF TxComp, options
<1>3. pc["tx"] = "comp" /\ (~multithreaded => pc["rx"] = "off")
  BY <1>0, OtherIsOff DEF TxComp
<1>4. \/ /\ total_frames_sent < NumPackets
         /\ pc' \in [Sides -> Labels] /\ pc'["tx"] = "write" /\ pc'["rx"] = pc["rx"]
      \/ /\ ~(total_frames_sent < NumPackets)
         /\ pc' \in [Sides -> Labels]
         /\ multithreaded => pc'["tx"] \in {"comp", "finish"} /\ pc'["rx"] = pc["rx"]
         /\ ~multithreaded => SingleGoes(total_frames_sent, total_frames_rcvd)
  <2>1. CASE total_frames_sent < NumPackets
    BY <1>0, <2>1, GotoFacts DEF TxComp, Sides, Labels, TxLabels, RxLabels
  <2>2. CASE ~(total_frames_sent < NumPackets)
    BY <1>0, <2>2, TxAgainFacts DEF TxComp
  <2> QED
    BY <2>1, <2>2
<1>5. /\ pc' \in [Sides -> Labels]
      /\ multithreaded => pc'["tx"] \in {"write", "comp", "finish"} /\ pc'["rx"] = pc["rx"]
      /\ ~multithreaded => /\ pc'["tx"] \in {"write", "comp", "off", "returned"}
                           /\ pc'["rx"] \in {"off", "kick", "returned"}
                           /\ (pc'["tx"] = "off" \/ pc'["rx"] = "off" \/ pc'["tx"] = pc'["rx"])
      /\ pc'["tx"] = "write" => total_frames_sent < NumPackets
  BY <1>3, <1>4 DEF SingleGoes
<1>6. PICK es : es = SubSeq(comp, 1, k)
  OBVIOUS
<1>7. comp \in Seq(Descs1) /\ k \in 0 .. Len(comp) /\ k \in 0 .. FrameCount /\ k \in Nat
  BY <1>0, <1>1, Counts DEF TypeInv
<1>8. es \in Seq(Descs1) /\ Len(es) = k
  BY <1>6, <1>7
<1>9. comp' \in Seq(Descs1) /\ Len(comp') = Len(comp) - k
  BY <1>1, <1>7, Rest
<1>10. /\ descs' \in [Sides -> [Frames -> Descs]] /\ descs'["rx"] \in [Frames -> Descs2]
       /\ descs'["rx"] = descs["rx"] /\ SubSeq(descs'["tx"], 1, k) = es
  <2>1. es \in Seq(Descs)
    BY <1>8, SeqMonotonic DEF Descs
  <2>2. Len(es) <= FrameCount /\ descs' = Overwrite("tx", es) /\ "tx" \in Sides /\ "rx" \in Sides
    BY <1>1, <1>6, <1>8 DEF Sides
  <2>3. /\ descs' \in [Sides -> [Frames -> Descs]] /\ descs'["rx"] \in [Frames -> Descs2]
        /\ \A w \in Sides : w # "tx" => descs'[w] = descs[w]
        /\ SubSeq(descs'["tx"], 1, Len(es)) = es
    BY <1>0, <2>1, <2>2, OverwriteFacts
  <2> QED
    BY <1>8, <2>2, <2>3
<1>11. /\ frames_rcvd' \in [Sides -> 0 .. FrameCount]
       /\ frames_rcvd'["rx"] = frames_rcvd["rx"]
       /\ total_frames_sent < NumPackets => frames_rcvd'["tx"] = k
  <2>1. PICK m \in 0 .. FrameCount : /\ frames_rcvd' = [frames_rcvd EXCEPT !["tx"] = m]
                                     /\ total_frames_sent < NumPackets => m = k
    <3>1. CASE total_frames_sent < NumPackets
      BY <1>1, <1>7, <3>1
    <3>2. CASE ~(total_frames_sent < NumPackets)
      <4>1. 0 \in 0 .. FrameCount
        BY Counts
      <4>2. frames_rcvd' = [frames_rcvd EXCEPT !["tx"] = 0]
        BY <1>1, <3>2
      <4> QED
        BY <3>2, <4>1, <4>2
    <3> QED
      BY <3>1, <3>2
  <2> QED
    BY <1>0, <2>1 DEF TypeInv, Sides
<1>12. Circulate(tx, comp', flight, es)
  BY <1>0, <1>1, <1>6, <1>7, Take DEF TypeInv, FrameInv
<1>13. Circulate(tx, comp', flight, <<>>)
  BY <1>0, <1>9, <1>12, NothingHeld DEF TypeInv
<1>14. /\ pc'["tx"] = "write" => Held1' = es
       /\ pc'["tx"] # "write" => Held1' = <<>>
       /\ Prepared' = <<>> /\ Prepared = <<>>
  BY <1>3, <1>5, <1>10, <1>11 DEF Held1, Prepared, Slice
<1>15. (multithreaded => Held2' = Held2) /\ Taken' = Taken
  BY <1>3, <1>5, <1>10, <1>11 DEF Held2, Taken, Slice
<1>16. TypeInv'
  <2>1. total_frames_consumed' \in Nat
    BY <1>0, <1>1, <1>7 DEF TypeInv
  <2> QED
    BY <1>0, <1>2, <1>9, <1>10, <1>11, <2>1 DEF TypeInv
<1>17. SizeInv'
  <2>1. Len(comp') + Cardinality(flight) <= CqSize
    BY <1>0, <1>7, <1>9, Lengths, FlightFacts, Counts DEF SizeInv
  <2> QED
    BY <1>0, <1>2, <2>1 DEF SizeInv
<1>18. PcInv'
  BY <1>0, <1>2, <1>5 DEF PcInv, TxLabels, RxLabels, Ended
<1>19. StartInv'
  BY <1>0, <1>2, <1>5, <1>10 DEF StartInv
<1>20. FrameInv'
  <2>1. Circulate(tx, comp', flight, Held1')
    BY <1>12, <1>13, <1>14
  <2>2. pc'["tx"] \in {"write", "ready", "submit"} => Held1' \in Seq(Descs1)
    BY <1>5, <1>8, <1>14
  <2> QED
    BY <1>0, <1>2, <1>15, <2>1, <2>2 DEF FrameInv, TypeInv
<1>21. DataInv'
  BY <1>0, <1>2, <1>14 DEF DataInv
<1>22. TotalsInv'
  <2>1. total_frames_sent = total_frames_consumed + Len(tx) + Len(comp) + Cardinality(flight)
    BY <1>0, <1>3 DEF TotalsInv
  <2>2. /\ total_frames_consumed \in Nat /\ Len(tx) \in Nat /\ Len(comp) \in Nat
        /\ Cardinality(flight) \in Nat
    BY <1>0, Lengths, FlightFacts DEF TypeInv
  <2>3. total_frames_sent = total_frames_consumed' + Len(tx) + Len(comp') + Cardinality(flight)
    <3>1. PICK c \in Nat, m \in Nat, u \in Nat, v \in Nat :
            /\ c = total_frames_consumed /\ m = Len(tx)
            /\ u = Len(comp) /\ v = Cardinality(flight)
      BY <2>2
    <3>2. total_frames_consumed' = c + k /\ Len(comp') = u - k
      BY <1>1, <1>9, <3>1
    <3>3. total_frames_sent = c + m + u + v
      BY <2>1, <3>1
    <3>4. c + m + u + v = (c + k) + m + (u - k) + v
      BY <1>7
    <3> QED
      BY <3>1, <3>2, <3>3, <3>4
  <2>4. pc'["rx"] \notin {"start", "panicked"} => pc["rx"] \notin {"start", "panicked"}
    BY <1>3, <1>5
  <2>5. pc'["tx"] \in {"write", "ready", "submit"} => total_frames_sent < NumPackets
    BY <1>5
  <2> QED
    BY <1>0, <1>2, <1>15, <2>3, <2>4, <2>5 DEF TotalsInv
<1>23. SingleInv'
  <2>1. UnderWay' = UnderWay
    BY <1>2, <1>15 DEF UnderWay
  <2> QED
    BY <1>0, <1>2, <1>3, <2>1 DEF SingleInv, BatchFits, Ended
<1> QED
  BY <1>16, <1>17, <1>18, <1>19, <1>20, <1>21, <1>22, <1>23 DEF LoopInv

\* The sender writes the next packets to the frames it holds.
LEMMA TxWriteKeeps == LoopInv /\ TxWrite /\ UNCHANGED f => LoopInv'
<1> SUFFICES ASSUME LoopInv, TxWrite, UNCHANGED f PROVE LoopInv'
  OBVIOUS
<1>0. TypeInv /\ SizeInv /\ PcInv /\ StartInv /\ FrameInv /\ DataInv /\ TotalsInv /\ SingleInv
  BY DEF LoopInv
<1>1. PICK k \in 0 .. FrameCount : k = frames_rcvd["tx"]
  BY <1>0 DEF TypeInv, Sides
<1>2. /\ pc["tx"] = "write" /\ frame_data' = Written(k) /\ next_pkt' = next_pkt + k
      /\ UNCHANGED <<multithreaded, max_batch_size, tx, comp, fill, rx, flight, wire, last_pkt>>
      /\ UNCHANGED <<descs, frames_rcvd, f>>
      /\ UNCHANGED <<total_frames_sent, total_frames_consumed, total_frames_rcvd>>
  BY <1>1 DEF TxWrite, options, counters, devices
<1>3. pc' \in [Sides -> Labels] /\ pc'["tx"] = "ready" /\ pc'["rx"] = pc["rx"]
  BY <1>0, GotoFacts DEF TxWrite, Sides, Labels, TxLabels, RxLabels
<1>4. PICK h : h = Slice("tx", k)
  OBVIOUS
<1>5. Held1 = h /\ Held1' = h /\ Prepared = <<>> /\ Prepared' = h /\ Held2' = Held2
      /\ Taken' = Taken
  BY <1>1, <1>2, <1>3, <1>4 DEF Held1, Held2, Prepared, Taken, Slice
<1>6. h \in Seq(Descs1) /\ Len(h) = k /\ Circulate(tx, comp, flight, h)
  BY <1>0, <1>2, <1>4, <1>5, SliceFacts DEF FrameInv, Sides
<1>7. Newer(tx, <<>>, frame_data, last_pkt, next_pkt)
  BY <1>0, <1>5 DEF DataInv
<1>8. /\ tx \in Seq(Descs1) /\ last_pkt \in Nat /\ next_pkt \in Nat /\ next_pkt > 0
      /\ frame_data \in [Frames -> Nat]
  BY <1>0, <1>7 DEF TypeInv, Newer
<1>9. /\ frame_data' \in [Frames -> Nat]
      /\ \A i \in 1 .. k : frame_data'[h[i]] = next_pkt - 1 + i
      /\ \A x \in Frames : (\A i \in 1 .. k : h[i] # x) => frame_data'[x] = frame_data[x]
  BY <1>0, <1>2, <1>4, <1>6, <1>8, WrittenFacts DEF Circulate
<1>10. \A i \in 1 .. Len(tx) : frame_data'[tx[i]] = frame_data[tx[i]]
  <2> TAKE i \in 1 .. Len(tx)
  <2>1. tx[i] \in Frames
    BY <1>8, OwnFrames
  <2>2. \A j \in 1 .. k : h[j] # tx[i]
    BY <1>6 DEF Circulate, Apart
  <2> QED
    BY <1>9, <2>1, <2>2
<1>11. Newer(tx, h, frame_data', last_pkt, next_pkt + k)
  <2>1. \A i \in 1 .. Len(h) : frame_data'[h[i]] = next_pkt - 1 + i
    BY <1>6, <1>9
  <2>2. Newer(tx, h, frame_data', last_pkt, next_pkt + Len(h))
    BY <1>6, <1>7, <1>8, <1>9, <1>10, <2>1, NewerWrite
  <2> QED
    BY <1>6, <2>2
<1>12. TypeInv'
  <2>1. next_pkt' \in Nat
    BY <1>1, <1>2, <1>8, Counts
  <2> QED
    BY <1>0, <1>2, <1>9, <2>1 DEF TypeInv
<1>13. SizeInv'
  BY <1>0, <1>2 DEF SizeInv
<1>14. PcInv'
  BY <1>0, <1>2, <1>3 DEF PcInv, TxLabels, Ended
<1>15. StartInv'
  <2>1. ~multithreaded => pc["rx"] = "off"
    BY <1>0, <1>2, OtherIsOff
  <2> QED
    BY <1>0, <1>2, <1>3, <2>1 DEF StartInv
<1>16. FrameInv'
  BY <1>0, <1>2, <1>5, <1>6 DEF FrameInv
<1>17. DataInv'
  BY <1>2, <1>5, <1>11 DEF DataInv
<1>18. TotalsInv'
  BY <1>0, <1>2, <1>3, <1>5 DEF TotalsInv
<1>19. SingleInv'
  <2>1. UnderWay' = UnderWay
    BY <1>2, <1>5 DEF UnderWay
  <2> QED
    BY <1>0, <1>2, <1>3, <2>1 DEF SingleInv, BatchFits
<1> QED
  BY <1>12, <1>13, <1>14, <1>15, <1>16, <1>17, <1>18, <1>19 DEF LoopInv

\* What the sender puts into the ring is the first part of what it holds.
LEMMA SubmitFacts ==
  ASSUME TypeInv, SizeInv, FrameInv, DataInv, TotalsInv, pc["tx"] = "submit",
         TxRoom >= FramesToSend, tx' = tx \o Slice("tx", FramesToSend)
  PROVE  /\ FramesToSend \in Nat /\ FramesToSend <= max_batch_size
         /\ tx' \in Seq(Descs1) /\ Len(tx') = Len(tx) + FramesToSend /\ Len(tx') <= TxSize
         /\ Circulate(tx', comp, flight, <<>>)
         /\ Newer(tx', <<>>, frame_data, last_pkt, next_pkt)
<1>1. PICK k \in 0 .. FrameCount : k = frames_rcvd["tx"]
  BY DEF TypeInv, Sides
<1>2. /\ total_frames_sent < NumPackets /\ total_frames_sent \in Nat /\ NumPackets \in Nat
      /\ max_batch_size \in Nat /\ TxSize \in Nat /\ k \in Nat
  BY OptionsAssumption, Counts, <1>1 DEF TotalsInv, TypeInv
<1>3. PICK n \in 0 .. k : n = FramesToSend /\ n <= max_batch_size
  BY <1>1, <1>2 DEF FramesToSend
<1>4. n \in 0 .. FrameCount /\ n \in Nat
  BY <1>1, <1>3, Counts
<1>5. PICK h : h = Slice("tx", k)
  OBVIOUS
<1>6. PICK p : p = Slice("tx", n)
  OBVIOUS
<1>7. Held1 = h /\ Prepared = h
  BY <1>1, <1>5 DEF Held1, Prepared
<1>8. h \in Seq(Descs1) /\ Len(h) = k /\ \A i \in 1 .. k : h[i] = descs["tx"][i]
  BY <1>5, <1>7, SliceFacts DEF FrameInv, Sides
<1>9. p \in Seq(Descs) /\ Len(p) = n /\ \A i \in 1 .. n : p[i] = descs["tx"][i]
  BY <1>4, <1>6, SliceFacts DEF Sides
<1>10. \A i \in 1 .. n : i \in 1 .. k /\ p[i] = h[i] /\ h[i] \in Descs1
  BY <1>3, <1>8, <1>9
<1>11. Starts(p, h)
  BY <1>3, <1>8, <1>9, <1>10 DEF Starts
<1>12. p \in Seq(Descs1)
  <2>1. p = [i \in 1 .. n |-> p[i]]
    BY <1>9
  <2>2. \A i \in 1 .. n : p[i] \in Descs1
    BY <1>10
  <2>3. n \in Nat
    BY <1>4
  <2> QED
    BY <2>1, <2>2, <2>3
<1>13. tx \in Seq(Descs1) /\ comp \in Seq(Descs1) /\ Len(tx) \in Nat
  BY DEF TypeInv
<1>14. tx' = tx \o p
  BY <1>3, <1>6
<1>15. tx' \in Seq(Descs1) /\ Len(tx') = Len(tx) + n
  BY <1>9, <1>12, <1>13, <1>14, Joined
<1>16. Len(tx) + n <= TxSize
  BY <1>2, <1>3, <1>4, <1>13 DEF TxRoom
<1>17. Circulate(tx \o p, comp, flight, <<>>)
  BY <1>7, <1>8, <1>11, <1>12, <1>13, PutBack DEF FrameInv
<1>18. Newer(tx \o p, <<>>, frame_data, last_pkt, next_pkt)
  BY <1>7, <1>8, <1>11, <1>12, <1>13, NewerPutBack DEF DataInv
<1> QED
  BY <1>3, <1>4, <1>14, <1>15, <1>16, <1>17, <1>18

\* The sender puts those back on the tx ring that are still to be sent.
LEMMA TxSubmitKeeps == LoopInv /\ TxSubmit /\ UNCHANGED f => LoopInv'
<1> SUFFICES ASSUME LoopInv, TxSubmit, UNCHANGED f PROVE LoopInv'
  OBVIOUS
<1>0. TypeInv /\ SizeInv /\ PcInv /\ StartInv /\ FrameInv /\ DataInv /\ TotalsInv /\ SingleInv
  BY DEF LoopInv
<1>1. PICK n : n = FramesToSend
  OBVIOUS
<1>2. /\ pc["tx"] = "submit" /\ n \in Nat /\ n <= max_batch_size
      /\ tx' \in Seq(Descs1) /\ Len(tx') = Len(tx) + n /\ Len(tx') <= TxSize
      /\ Circulate(tx', comp, flight, <<>>)
      /\ Newer(tx', <<>>, frame_data, last_pkt, next_pkt)
  BY <1>0, <1>1, SubmitFacts DEF TxSubmit
<1>3. /\ UNCHANGED <<multithreaded, max_batch_size, comp, fill, rx, flight, wire, last_pkt>>
      /\ UNCHANGED <<frame_data, descs, next_pkt, f, total_frames_consumed, total_frames_rcvd>>
      /\ total_frames_sent' = total_frames_sent + n
      /\ TxAgain(total_frames_sent', total_frames_consumed)
  BY <1>1 DEF TxSubmit, options
<1>4. /\ pc' \in [Sides -> Labels]
      /\ multithreaded => pc'["tx"] \in {"comp", "finish"} /\ pc'["rx"] = pc["rx"]
      /\ ~multithreaded => SingleGoes(total_frames_sent', total_frames_rcvd)
      /\ ~multithreaded => pc["rx"] = "off"
  BY <1>0, <1>2, <1>3, TxAgainFacts, OtherIsOff
<1>5. frames_rcvd' \in [Sides -> 0 .. FrameCount] /\ frames_rcvd'["rx"] = frames_rcvd["rx"]
  <2>1. 0 \in 0 .. FrameCount
    BY Counts
  <2> QED
    BY <1>0, <2>1 DEF TxSubmit, TypeInv, Sides
<1>6. /\ pc'["tx"] \in {"comp", "finish", "off", "returned"}
      /\ ~multithreaded => pc'["rx"] \in {"off", "kick", "returned"}
  BY <1>4 DEF SingleGoes
<1>7. Held1' = <<>> /\ Prepared' = <<>>
  BY <1>6 DEF Held1, Prepared
<1>8. (multithreaded => Held2' = Held2) /\ Taken' = Taken
  BY <1>3, <1>4, <1>5, <1>6 DEF Held2, Taken, Slice
<1>9. total_frames_sent \in Nat /\ total_frames_sent' \in Nat
  BY <1>0, <1>2, <1>3 DEF TypeInv
<1>10. TypeInv'
  BY <1>0, <1>2, <1>3, <1>5, <1>9 DEF TypeInv
<1>11. SizeInv'
  BY <1>0, <1>2, <1>3 DEF SizeInv
<1>12. PcInv'
  BY <1>0, <1>3, <1>4 DEF PcInv, SingleGoes, TxLabels, RxLabels, Ended
<1>13. StartInv'
  BY <1>0, <1>3, <1>4, <1>6 DEF StartInv
<1>14. FrameInv'
  BY <1>0, <1>2, <1>3, <1>6, <1>7, <1>8 DEF FrameInv
<1>15. DataInv'
  BY <1>2, <1>3, <1>7 DEF DataInv
<1>16. TotalsInv'
  <2>1. total_frames_sent = total_frames_consumed + Len(tx) + Len(comp) + Cardinality(flight)
    BY <1>0, <1>2 DEF TotalsInv
  <2>2. PICK c \in Nat, m \in Nat, u \in Nat, v \in Nat :
          /\ c = total_frames_consumed /\ m = Len(tx)
          /\ u = Len(comp) /\ v = Cardinality(flight)
    BY <1>0, Lengths, FlightFacts DEF TypeInv
  <2>3. total_frames_sent' = (c + m + u + v) + n /\ Len(tx') = m + n
    BY <1>2, <1>3, <2>1, <2>2
  <2>4. (c + m + u + v) + n = c + (m + n) + u + v
    BY <1>2
  <2>5. total_frames_sent' = total_frames_consumed + Len(tx') + Len(comp) + Cardinality(flight)
    BY <2>2, <2>3, <2>4
  <2>6. pc'["rx"] \notin {"start", "panicked"} => pc["rx"] \notin {"start", "panicked"}
    BY <1>4
  <2> QED
    BY <1>0, <1>3, <1>6, <1>8, <2>5, <2>6 DEF TotalsInv
<1>17. SingleInv'
  <2> SUFFICES ASSUME ~multithreaded, BatchFits, pc'["rx"] \notin Ended
               PROVE  /\ total_frames_sent' = total_frames_rcvd + UnderWay'
                      /\ UnderWay' <= max_batch_size
                      /\ pc'["tx"] \in Sending => UnderWay' = 0
    BY <1>3 DEF SingleInv, Sending, BatchFits
  <2>1. total_frames_sent = total_frames_rcvd + UnderWay /\ UnderWay = 0
    BY <1>0, <1>2, <1>4 DEF SingleInv, Ended
  <2>2. total_frames_rcvd \in Nat /\ Len(tx) \in Nat /\ wire \in Nat /\ Len(rx) \in Nat
        /\ Taken \in Nat
    BY <1>0, Lengths DEF TypeInv
  <2>3. UnderWay' = UnderWay + n
    <3>1. UnderWay' = Len(tx') + wire + Len(rx) + Taken
      BY <1>3, <1>8 DEF UnderWay
    <3> QED
      BY <1>2, <2>2, <3>1 DEF UnderWay
  <2>4. UnderWay' = n /\ total_frames_sent' = total_frames_rcvd + n
    BY <1>2, <1>3, <2>1, <2>2, <2>3
  <2>5. pc'["tx"] \in Sending => ~(total_frames_rcvd < total_frames_sent')
    BY <1>4 DEF SingleGoes, Sending
  <2>6. pc'["tx"] \in Sending => n = 0
    BY <1>2, <2>2, <2>4, <2>5
  <2> QED
    BY <1>2, <2>4, <2>6
<1> QED
  BY <1>10, <1>11, <1>12, <1>13, <1>14, <1>15, <1>16, <1>17 DEF LoopInv

\* The sender's wakeup fails after the batch was published.
LEMMA TxWakeupFailsKeeps == LoopInv /\ WakeupFails("tx") /\ UNCHANGED f => LoopInv'
<1> SUFFICES ASSUME LoopInv, WakeupFails("tx"), UNCHANGED f PROVE LoopInv'
  OBVIOUS
<1>0. TypeInv /\ SizeInv /\ PcInv /\ StartInv /\ FrameInv /\ DataInv /\ TotalsInv /\ SingleInv
  BY DEF LoopInv
<1>1. /\ pc["tx"] = "submit" /\ tx' \in Seq(Descs1) /\ Len(tx') <= TxSize
      /\ Circulate(tx', comp, flight, <<>>)
      /\ Newer(tx', <<>>, frame_data, last_pkt, next_pkt)
  BY <1>0, SubmitFacts DEF WakeupFails
<1>2. /\ UNCHANGED <<multithreaded, max_batch_size, comp, fill, rx, flight, wire, last_pkt>>
      /\ UNCHANGED <<frame_data, descs, next_pkt, frames_rcvd, f>>
      /\ UNCHANGED <<total_frames_sent, total_frames_consumed, total_frames_rcvd>>
      /\ pc' = PanicAt("tx")
  BY DEF WakeupFails, options, counters
<1>3. /\ pc' \in [Sides -> Labels] /\ pc'["tx"] = "panicked"
      /\ pc'["rx"] = IF multithreaded THEN pc["rx"] ELSE "panicked"
  BY <1>0, <1>2, PanicFacts DEF Sides
<1>4. Held1' = <<>> /\ Prepared' = <<>> /\ (multithreaded => Held2' = Held2 /\ Taken' = Taken)
  BY <1>2, <1>3 DEF Held1, Held2, Prepared, Taken, Slice
<1>5. TypeInv' /\ SizeInv'
  BY <1>0, <1>1, <1>2 DEF TypeInv, SizeInv
<1>6. PcInv'
  BY <1>0, <1>2, <1>3 DEF PcInv, TxLabels, RxLabels, Ended
<1>7. StartInv'
  BY <1>0, <1>2, <1>3 DEF StartInv
<1>8. FrameInv' /\ DataInv'
  BY <1>0, <1>1, <1>2, <1>3, <1>4 DEF FrameInv, DataInv
<1>9. TotalsInv' /\ SingleInv'
  BY <1>0, <1>2, <1>3, <1>4 DEF TotalsInv, SingleInv, Ended
<1> QED
  BY <1>5, <1>6, <1>7, <1>8, <1>9 DEF LoopInv

\* The receiver's wakeup fails after the frames were published.
LEMMA RxWakeupFailsKeeps == LoopInv /\ WakeupFails("rx") /\ UNCHANGED f => LoopInv'
<1> SUFFICES ASSUME LoopInv, WakeupFails("rx"), UNCHANGED f PROVE LoopInv'
  OBVIOUS
<1>0. TypeInv /\ SizeInv /\ PcInv /\ StartInv /\ FrameInv /\ DataInv /\ TotalsInv /\ SingleInv
  BY DEF LoopInv
<1>1. /\ pc["rx"] = "refill" /\ fill' \in Seq(Descs2) /\ Len(fill') <= FqSize
      /\ multithreaded => Circulate(fill', rx, {}, <<>>)
  BY <1>0, RefillFacts DEF WakeupFails
<1>2. /\ UNCHANGED <<multithreaded, max_batch_size, tx, comp, rx, flight, wire, last_pkt>>
      /\ UNCHANGED <<frame_data, descs, next_pkt, frames_rcvd, f>>
      /\ UNCHANGED <<total_frames_sent, total_frames_consumed, total_frames_rcvd>>
      /\ pc' = PanicAt("rx")
  BY DEF WakeupFails, options, counters
<1>3. /\ pc' \in [Sides -> Labels] /\ pc'["rx"] = "panicked"
      /\ pc'["tx"] = IF multithreaded THEN pc["tx"] ELSE "panicked"
      /\ ~multithreaded => pc["tx"] = "off"
  BY <1>0, <1>1, <1>2, PanicFacts, OneAtATime DEF Sides
<1>4. Held1' = Held1 /\ Prepared' = Prepared /\ Held2' = <<>>
  BY <1>2, <1>3 DEF Held1, Held2, Prepared, Slice
<1>5. TypeInv' /\ SizeInv'
  BY <1>0, <1>1, <1>2 DEF TypeInv, SizeInv
<1>6. PcInv'
  BY <1>0, <1>2, <1>3 DEF PcInv, TxLabels, RxLabels, Ended
<1>7. StartInv'
  BY <1>0, <1>2, <1>3 DEF StartInv
<1>8. FrameInv' /\ DataInv'
  BY <1>0, <1>1, <1>2, <1>3, <1>4 DEF FrameInv, DataInv
<1>9. TotalsInv' /\ SingleInv'
  BY <1>0, <1>2, <1>3 DEF TotalsInv, SingleInv, Ended
<1> QED
  BY <1>5, <1>6, <1>7, <1>8, <1>9 DEF LoopInv

-----------------------------------------------------------------------------
(* All steps *)

\* All steps of the receiver.
LEMMA RxKeeps == LoopInv /\ RxStep /\ UNCHANGED f => LoopInv'
  BY RxFillKeeps, RxSignalQuiet, RxKickQuiet, RxTakesKeeps, RxTimesOutQuiet, RxCheckQuiet,
     RxRefillKeeps
  DEF RxStep

\* All steps of the sender.
LEMMA TxKeeps == LoopInv /\ TxStep /\ UNCHANGED f => LoopInv'
  BY TxStartKeeps, TxWaitQuiet, TxCompKeeps, TxCompEmptyQuiet, TxIdleQuiet, TxWriteKeeps,
     TxReadyQuiet, TxNotReadyQuiet, TxSubmitKeeps, TxRefusedQuiet, TxFinishQuiet
  DEF TxStep

\* All steps of the kernel.
LEMMA KernelKeeps == LoopInv /\ f = "running" /\ Kernel /\ UNCHANGED f => LoopInv'
  BY KTransmitKeeps, KCompleteKeeps, KDeliverKeeps, KDropKeeps, KSleepQuiet DEF Kernel

\* All system calls that fail.
LEMMA FailureKeeps ==
  ASSUME NEW t \in Sides
  PROVE  LoopInv /\ (CallFails(t) \/ WakeupFails(t)) /\ UNCHANGED f => LoopInv'
<1>1. WakeupFails(t) => WakeupFails("tx") \/ WakeupFails("rx")
  BY DEF Sides
<1> QED
  BY <1>1, CallFailsQuiet, TxWakeupFailsKeeps, RxWakeupFailsKeeps

\* All steps of the loops.
LEMMA LoopKeeps == LoopInv /\ f = "running" /\ LoopNext /\ UNCHANGED f => LoopInv'
  BY RxKeeps, TxKeeps, KernelKeeps, FailureKeeps DEF LoopNext

\* Nothing has happened yet, or all has been dropped.
Empty ==
  /\ multithreaded \in BOOLEAN /\ max_batch_size \in Batches
  /\ tx = <<>> /\ comp = <<>> /\ fill = <<>> /\ rx = <<>> /\ flight = {}
  /\ wire = 0 /\ last_pkt = 0 /\ frame_data = [fr \in Frames |-> 0] /\ next_pkt = 1
  /\ descs = AllDescs /\ frames_rcvd = [t \in Sides |-> 0]
  /\ total_frames_sent = 0 /\ total_frames_consumed = 0 /\ total_frames_rcvd = 0

\* What LoopInv says of it.
AllClear ==
  /\ TypeInv /\ SizeInv /\ UnderWay = 0 /\ Taken = 0
  /\ Circulate(tx, comp, flight, <<>>) /\ Circulate(fill, rx, {}, <<>>)
  /\ Newer(tx, <<>>, frame_data, last_pkt, next_pkt)
  /\ Cardinality(flight) = 0 /\ Len(tx) = 0 /\ Len(comp) = 0 /\ max_batch_size \in Nat
  /\ descs["tx"] = [i \in Frames |-> i] /\ descs["rx"] = [i \in Frames |-> FrameCount + i]

\* Where nothing is in a ring there is nothing to be in order.
LEMMA EmptyIsClear == Empty => AllClear
<1> SUFFICES ASSUME Empty PROVE AllClear
  OBVIOUS
<1> USE DEF Empty
<1>1. Cardinality(flight) = 0
  BY FS_EmptySet
<1>2. descs["tx"] = [i \in Frames |-> i] /\ descs["rx"] = [i \in Frames |-> FrameCount + i]
  BY DEF AllDescs
<1>3. descs["tx"] \in [Frames -> Descs] /\ descs["rx"] \in [Frames -> Descs2]
  BY <1>2, Counts DEF Frames, Descs, Descs1, Descs2
<1>4. descs["rx"] \in [Frames -> Descs]
  BY <1>3 DEF Descs
<1>5. descs \in [Sides -> [Frames -> Descs]]
  BY <1>2, <1>3, <1>4 DEF AllDescs, Sides
<1>6. frames_rcvd \in [Sides -> 0 .. FrameCount] /\ Taken = 0
  BY Counts DEF Taken, Sides
<1>7. TypeInv
  BY <1>3, <1>5, <1>6 DEF TypeInv
<1>8. SizeInv
  BY <1>1, OptionsAssumption DEF SizeInv
<1>9. UnderWay = 0
  BY <1>6 DEF UnderWay
<1>10. Circulate(tx, comp, flight, <<>>) /\ Circulate(fill, rx, {}, <<>>)
  BY DEF Circulate, Once, Apart, Clear
<1>11. Newer(tx, <<>>, frame_data, last_pkt, next_pkt)
  BY DEF Newer
<1>12. Len(tx) = 0 /\ Len(comp) = 0 /\ max_batch_size \in Nat
  BY OptionsAssumption
<1> QED
  BY <1>1, <1>2, <1>6, <1>7, <1>8, <1>9, <1>10, <1>11, <1>12 DEF AllClear

\* The loops begin with empty rings and untouched vectors.
LEMMA LoopBegins == Init => LoopInv
<1> SUFFICES ASSUME Init PROVE LoopInv
  OBVIOUS
<1>1. AllClear
  BY EmptyIsClear DEF Empty, Init, LoopInit
<1>2. /\ pc \in [Sides -> Labels] /\ pc["rx"] = "start"
      /\ pc["tx"] = IF multithreaded THEN "start" ELSE "off"
  BY DEF Init, LoopInit, Sides, Labels, TxLabels, RxLabels
<1>3. Held1 = <<>> /\ Held2 = <<>> /\ Prepared = <<>>
  BY <1>2 DEF Held1, Held2, Prepared
<1>4. PcInv
  BY <1>2 DEF PcInv, TxLabels, RxLabels
<1>5. StartInv
  BY <1>1 DEF AllClear, StartInv, Init, LoopInit
<1>6. FrameInv /\ DataInv
  BY <1>1, <1>2, <1>3 DEF AllClear, FrameInv, DataInv
<1>7. TotalsInv
  BY <1>1, <1>2 DEF AllClear, TotalsInv, Init, LoopInit
<1>8. SingleInv
  BY <1>1 DEF AllClear, SingleInv, Init, LoopInit
<1> QED
  BY <1>1, <1>4, <1>5, <1>6, <1>7, <1>8 DEF LoopInv, AllClear

\* Sockets, umems and locals are dropped when both loops have ended.
LEMMA LoopEnds == LoopInv /\ FinishLoops => LoopInv'
<1> SUFFICES ASSUME LoopInv, FinishLoops PROVE LoopInv'
  OBVIOUS
<1>0. f' \in {"returned", "panicked"} /\ UNCHANGED <<multithreaded, max_batch_size>>
  BY DEF FinishLoops, FEnds, options
<1>1. Empty'
  BY <1>0 DEF FinishLoops, Empty, LoopInv, TypeInv
<1>2. AllClear'
  BY <1>1, EmptyIsClear, PTL
<1>3. pc' \in [Sides -> Labels] /\ pc'["tx"] = "off" /\ pc'["rx"] = "off"
  BY DEF FinishLoops, Sides, Labels, TxLabels, RxLabels
<1>4. Held1' = <<>> /\ Held2' = <<>> /\ Prepared' = <<>>
  BY <1>3 DEF Held1, Held2, Prepared
<1>5. PcInv' /\ StartInv'
  BY <1>3 DEF PcInv, TxLabels, RxLabels, StartInv
<1>6. FrameInv' /\ DataInv'
  BY <1>2, <1>3, <1>4 DEF AllClear, FrameInv, DataInv
<1>7. TotalsInv'
  BY <1>0, <1>1, <1>2, <1>3 DEF AllClear, Empty, TotalsInv
<1>8. SingleInv'
  BY <1>1, <1>2 DEF AllClear, Empty, SingleInv
<1> QED
  BY <1>2, <1>5, <1>6, <1>7, <1>8 DEF LoopInv, AllClear

\* A step of the session leaves the loops alone; f begins once.
LEMMA OutsideKeeps ==
  ASSUME LoopInv, UNCHANGED loopVars,
         f' \in {"idle", "running"} => f \in {"idle", "running"}
  PROVE  LoopInv'
<1>1. /\ UNCHANGED <<multithreaded, max_batch_size, tx, comp, fill, rx, flight, wire, last_pkt>>
      /\ UNCHANGED <<frame_data, descs, pc, frames_rcvd, next_pkt>>
      /\ UNCHANGED <<total_frames_sent, total_frames_consumed, total_frames_rcvd>>
  BY DEF loopVars, options, counters, devices, client
<1>2. Held1' = Held1 /\ Held2' = Held2 /\ Prepared' = Prepared /\ Taken' = Taken
  BY <1>1 DEF Held1, Held2, Prepared, Taken, Slice
<1>3. TypeInv' /\ SizeInv' /\ PcInv' /\ StartInv'
  BY <1>1 DEF LoopInv, TypeInv, SizeInv, PcInv, StartInv
<1>4. FrameInv' /\ DataInv'
  BY <1>1, <1>2 DEF LoopInv, FrameInv, DataInv
<1>5. TotalsInv' /\ SingleInv'
  BY <1>1, <1>2 DEF LoopInv, TotalsInv, SingleInv, UnderWay, BatchFits
<1> QED
  BY <1>3, <1>4, <1>5 DEF LoopInv

\* The closure is not run again once it has ended.
LEMMA FBeginsOnce ==
  ASSUME SessionInv, SessionStep
  PROVE  f' \in {"idle", "running"} => f \in {"idle", "running"}
<1>1. CASE Setup
  BY <1>1 DEF Setup, AddLink, GetLinkIndex, SetUp, Fail, SessionInv
<1>2. CASE TearDown
  BY <1>2 DEF TearDown, Join, SetDown, Fail, DropPair, SendComplete
<1>3. CASE MainStep \/ CtrlC
  BY <1>3 DEF MainStep, CtrlC, Complete, JoinExample
<1> QED
  BY <1>1, <1>2, <1>3 DEF SessionStep

\* Every step of the process keeps the inductive invariant.
LEMMA NextIndInv == IndInv /\ [Next]_vars => IndInv'
<1> SUFFICES ASSUME IndInv, [Next]_vars PROVE IndInv'
  OBVIOUS
<1>0. SessionInv /\ LoopInv /\ SessionInv'
  BY NextSession DEF IndInv
<1>1. CASE BuildSockets
  <2>1. f' \in {"idle", "running"} => f \in {"idle", "running"}
    BY <1>1 DEF BuildSockets
  <2> QED
    BY <1>0, <1>1, <2>1, OutsideKeeps DEF BuildSockets, IndInv
<1>2. CASE Loops
  BY <1>0, <1>2, LoopKeeps DEF Loops, sessionVars, IndInv
<1>3. CASE FinishLoops
  BY <1>0, <1>3, LoopEnds DEF IndInv
<1>4. CASE Session
  BY <1>0, <1>4, FBeginsOnce, OutsideKeeps DEF Session, IndInv
<1>5. CASE UNCHANGED vars
  BY <1>0, <1>5, OutsideKeeps DEF vars, sessionVars, IndInv
<1> QED
  BY <1>1, <1>2, <1>3, <1>4, <1>5 DEF Next, Done

\* The inductive invariant holds in every reachable state of both variants,
\* whatever the sizes of rings and batches, the order in which the threads and
\* the kernel move, and wherever a call fails or the process is interrupted.
THEOREM IndInvHolds == Spec => []IndInv
<1>1. Init => IndInv
  BY InitSession, LoopBegins DEF IndInv
<1> QED
  BY <1>1, NextIndInv, PTL DEF Spec

-----------------------------------------------------------------------------
(* From frames in circulation to the sequences the properties are about *)

\* A finite set, listed in some order, has each element once.
LEMMA SetAsSeq ==
  ASSUME NEW S, IsFiniteSet(S)
  PROVE  SetToSeq(S) \in Seq(S) /\ Len(SetToSeq(S)) = Cardinality(S) /\ Once(SetToSeq(S))
<1>1. PICK n \in Nat : n = Cardinality(S)
  BY FS_CardinalityType
<1>2. \E g \in [1 .. n -> S] : IsInjective(g)
  <2>1. ExistsBijection(1 .. n, S)
    BY <1>1, FS_CardinalityType
  <2> QED
    BY <2>1 DEF ExistsBijection, Bijection, Injection
<1>3. PICK g : g = SetToSeq(S)
  OBVIOUS
<1>4. g \in [1 .. n -> S] /\ IsInjective(g)
  BY <1>1, <1>2, <1>3 DEF SetToSeq
<1>5. g \in Seq(S) /\ Len(g) = n
  BY <1>4
<1>6. Once(g)
  BY <1>4, <1>5 DEF Once, IsInjective
<1> QED
  BY <1>1, <1>3, <1>5, <1>6

\* Two sequences without repetitions and apart have none together.
LEMMA OnceJoined ==
  ASSUME NEW D, NEW s \in Seq(D), NEW t \in Seq(D), Once(s), Once(t), Apart(s, t)
  PROVE  Once(s \o t)
<1>1. Circulate(s, <<>>, {}, t)
  BY DEF Circulate, Once, Apart, Clear
<1>2. <<>> \in Seq(D) /\ Starts(t, t)
  BY DEF Starts
<1>3. Circulate(s \o t, <<>>, {}, <<>>)
  BY <1>1, <1>2, PutBack
<1> QED
  BY <1>3 DEF Circulate

\* The community modules say it this way.
LEMMA OnceIsInjective ==
  ASSUME NEW D, NEW s \in Seq(D), Once(s)
  PROVE  IsInjective(s)
  BY DEF Once, IsInjective

\* The elements of a sequence, and where to find them.
LEMMA InRange ==
  ASSUME NEW D, NEW s \in Seq(D)
  PROVE  Range(s) \subseteq D /\ \A x \in Range(s) : \E i \in 1 .. Len(s) : s[i] = x
  BY DEF Range

\* Where an element of a concatenation comes from.
LEMMA FromWhich ==
  ASSUME NEW D, NEW s \in Seq(D), NEW t \in Seq(D), NEW i \in 1 .. Len(s \o t)
  PROVE  \/ \E j \in 1 .. Len(s) : (s \o t)[i] = s[j]
         \/ \E j \in 1 .. Len(t) : (s \o t)[i] = t[j]
<1> DEFINE a == s \o t
<1>1. /\ Len(a) = Len(s) + Len(t)
      /\ \A k \in 1 .. Len(s) : a[k] = s[k]
      /\ \A k \in 1 .. Len(s) + Len(t) : k > Len(s) =>
           k - Len(s) \in 1 .. Len(t) /\ a[k] = t[k - Len(s)]
  BY Joined
<1> HIDE DEF a
<1>2. Len(s) \in Nat /\ Len(t) \in Nat /\ i \in 1 .. Len(s) + Len(t)
  BY <1>1 DEF a
<1>3. CASE i \in 1 .. Len(s)
  BY <1>1, <1>3 DEF a
<1>4. CASE ~(i \in 1 .. Len(s))
  <2>1. i > Len(s)
    BY <1>2, <1>4
  <2> QED
    BY <1>1, <1>2, <2>1 DEF a
<1> QED
  BY <1>3, <1>4

\* What device 1's sender has submitted and not got back: each frame once, none of
\* them held.
LEMMA Submitted1Facts ==
  ASSUME TypeInv, FrameInv
  PROVE  /\ Submitted1 \in Seq(Descs1) /\ Once(Submitted1)
         /\ Len(Submitted1) = Len(tx) + Len(comp) + Cardinality(flight)
         /\ Apart(Submitted1, Held1)
<1>1. PICK w : w = SetToSeq(flight)
  OBVIOUS
<1>2. w \in Seq(flight) /\ Len(w) = Cardinality(flight) /\ Once(w)
  BY <1>1, FlightFacts, SetAsSeq
<1>3. w \in Seq(Descs1) /\ tx \in Seq(Descs1) /\ comp \in Seq(Descs1) /\ Held1 \in Seq(Descs1)
  BY <1>2, SeqMonotonic, HeldTypes DEF TypeInv
<1>4. PICK a : a = tx \o comp
  OBVIOUS
<1>5. PICK b : b = a \o w
  OBVIOUS
<1>6. a \in Seq(Descs1) /\ Len(a) = Len(tx) + Len(comp)
  BY <1>3, <1>4, Joined
<1>7. b \in Seq(Descs1) /\ Len(b) = Len(a) + Len(w)
  BY <1>3, <1>5, <1>6, Joined
<1>8. Submitted1 = b
  BY <1>1, <1>4, <1>5 DEF Submitted1
<1>9. Circulate(tx, comp, flight, Held1)
  BY DEF FrameInv
<1>10. Once(a)
  BY <1>3, <1>4, <1>9, OnceJoined DEF Circulate
<1>11. \A i \in 1 .. Len(w) : w[i] \in flight
  BY <1>2
<1>12. \A i \in 1 .. Len(a) : \/ \E j \in 1 .. Len(tx) : a[i] = tx[j]
                              \/ \E j \in 1 .. Len(comp) : a[i] = comp[j]
  <2> TAKE i \in 1 .. Len(a)
  <2>1. i \in 1 .. Len(tx \o comp)
    BY <1>4
  <2>2. \/ \E j \in 1 .. Len(tx) : (tx \o comp)[i] = tx[j]
        \/ \E j \in 1 .. Len(comp) : (tx \o comp)[i] = comp[j]
    BY <1>3, <2>1, FromWhich
  <2> QED
    BY <1>4, <2>2
<1>13. Apart(a, w)
  BY <1>9, <1>11, <1>12 DEF Apart, Circulate, Clear
<1>14. Once(b)
  BY <1>2, <1>3, <1>5, <1>6, <1>10, <1>13, OnceJoined
<1>15. \A i \in 1 .. Len(b) : \/ \E j \in 1 .. Len(a) : b[i] = a[j]
                              \/ \E j \in 1 .. Len(w) : b[i] = w[j]
  BY <1>3, <1>5, <1>6, FromWhich
<1>16. Apart(a, Held1)
  BY <1>9, <1>12 DEF Apart, Circulate
<1>17. Apart(w, Held1)
  BY <1>9, <1>11 DEF Apart, Circulate, Clear
<1>18. Apart(b, Held1)
  BY <1>15, <1>16, <1>17 DEF Apart
<1>19. Len(b) = Len(tx) + Len(comp) + Cardinality(flight)
  BY <1>2, <1>6, <1>7
<1> QED
  BY <1>7, <1>8, <1>14, <1>18, <1>19

\* What the receiver has submitted and not got back; each frame once if it is a
\* thread of its own.
LEMMA Submitted2Facts ==
  ASSUME TypeInv, FrameInv
  PROVE  /\ Submitted2 \in Seq(Descs2) /\ Len(Submitted2) = Len(fill) + Len(rx)
         /\ multithreaded => Once(Submitted2)
<1>1. fill \in Seq(Descs2) /\ rx \in Seq(Descs2)
  BY DEF TypeInv
<1>2. multithreaded => Once(fill \o rx)
  BY <1>1, OnceJoined DEF FrameInv, Circulate
<1> QED
  BY <1>1, <1>2, Joined DEF Submitted2

-----------------------------------------------------------------------------
(* The theorems *)

\* Every reachable state of the example is well typed; no ring is overfilled, and
\* the kernel never holds more frames than it has places to complete them.
THEOREM TypeCorrect == Spec => []TypeOK
<1>1. IndInv => TypeOK
  <2> SUFFICES ASSUME IndInv PROVE TypeOK
    OBVIOUS
  <2>1. TypeInv /\ SizeInv /\ SessionInv
    BY DEF IndInv, LoopInv
  <2>2. Descs1 \subseteq Descs /\ Descs2 \subseteq Descs
    BY DEF Descs
  <2>3. tx \in Seq(Descs) /\ comp \in Seq(Descs) /\ fill \in Seq(Descs) /\ rx \in Seq(Descs)
    BY <2>1, <2>2, SeqMonotonic DEF TypeInv
  <2>4. TxRoom >= 0 /\ FillRoom >= 0
    BY <2>1, Lengths, OptionsAssumption DEF SizeInv, TxRoom, FillRoom
  <2> QED
    BY <2>1, <2>2, <2>3, <2>4 DEF TypeInv, SizeInv, SessionInv, TypeOK
<1> QED
  BY <1>1, IndInvHolds, PTL

\* A frame is in one place at a time: the sender of both variants and the
\* receiving thread never submit a frame they have not got back.
THEOREM FrameRuleHolds == Spec => []FrameRuleKept
<1>1. IndInv => FrameRuleKept
  BY Submitted1Facts, Submitted2Facts, OnceIsInjective
  DEF IndInv, LoopInv, FrameRuleKept
<1> QED
  BY <1>1, IndInvHolds, PTL

\* No descriptor of one umem reaches the rings of the other, although the single
\* thread receives into the sender's vector.
THEOREM DescsStayHome == Spec => []NoForeignDescs
<1>1. IndInv => NoForeignDescs
  <2> SUFFICES ASSUME IndInv PROVE NoForeignDescs
    OBVIOUS
  <2>1. TypeInv /\ FrameInv
    BY DEF IndInv, LoopInv
  <2>2. Range(Submitted1) \subseteq Descs1
    BY <2>1, Submitted1Facts, InRange
  <2>3. Range(Submitted2) \subseteq Descs2
    BY <2>1, Submitted2Facts, InRange
  <2>4. ASSUME pc["tx"] \in {"write", "ready", "submit"}
        PROVE  Range(Slice("tx", frames_rcvd["tx"])) \subseteq Descs1
    <3>1. Slice("tx", frames_rcvd["tx"]) \in Seq(Descs1)
      BY <2>1, <2>4 DEF FrameInv, Held1
    <3> QED
      BY <3>1, InRange
  <2> QED
    BY <2>2, <2>3, <2>4 DEF NoForeignDescs
<1> QED
  BY <1>1, IndInvHolds, PTL

\* Packets leave in the order they were generated, each once.
THEOREM PacketsInOrder == Spec => []InOrder
<1>1. IndInv => InOrder
  <2> SUFFICES ASSUME IndInv PROVE InOrder
    OBVIOUS
  <2>1. TypeInv /\ DataInv
    BY DEF IndInv, LoopInv
  <2> DEFINE data == [i \in DOMAIN tx |-> frame_data[Addr(tx[i])]]
  <2> DEFINE pkts == <<last_pkt>> \o data
  <2>2. /\ tx \in Seq(Descs1) /\ DOMAIN tx = 1 .. Len(tx) /\ Len(tx) \in Nat /\ last_pkt \in Nat
        /\ frame_data \in [Frames -> Nat]
    BY <2>1 DEF TypeInv
  <2>3. \A i \in 1 .. Len(tx) : data[i] = frame_data[tx[i]] /\ data[i] \in Nat
    BY <2>2, AddrOfOwn, OwnFrames
  <2>4. data \in Seq(Nat) /\ Len(data) = Len(tx)
    <3>1. data = [i \in 1 .. Len(tx) |-> data[i]]
      BY <2>2
    <3> QED
      BY <2>2, <2>3, <3>1
  <2> HIDE DEF data
  <2>5. /\ \A i \in 1 .. Len(tx) : last_pkt < data[i]
        /\ \A i, j \in 1 .. Len(tx) : i < j => data[i] < data[j]
    BY <2>1, <2>3 DEF DataInv, Newer
  <2>6. <<last_pkt>> \in Seq(Nat) /\ Len(<<last_pkt>>) = 1 /\ <<last_pkt>>[1] = last_pkt
    BY <2>2
  <2>7. /\ pkts \in Seq(Nat) /\ Len(pkts) = 1 + Len(tx) /\ pkts[1] = last_pkt
        /\ \A i \in 1 .. 1 + Len(tx) : i > 1 => i - 1 \in 1 .. Len(tx) /\ pkts[i] = data[i - 1]
    <3>1. PICK l \in Seq(Nat) : l = <<last_pkt>> /\ Len(l) = 1 /\ l[1] = last_pkt
      BY <2>6
    <3>2. PICK d \in Seq(Nat) : d = data /\ Len(d) = Len(tx)
      BY <2>4
    <3>3. pkts = l \o d
      BY <3>1, <3>2
    <3>4. /\ l \o d \in Seq(Nat) /\ Len(l \o d) = Len(l) + Len(d)
          /\ \A i \in 1 .. Len(l) : (l \o d)[i] = l[i]
          /\ \A i \in 1 .. Len(l) + Len(d) : i > Len(l) =>
               i - Len(l) \in 1 .. Len(d) /\ (l \o d)[i] = d[i - Len(l)]
      BY Joined
    <3> QED
      BY <2>2, <3>1, <3>2, <3>3, <3>4
  <2> HIDE DEF pkts
  <2>8. ASSUME NEW i \in DOMAIN pkts, NEW j \in DOMAIN pkts, i < j
        PROVE  pkts[i] < pkts[j]
    <3>1. /\ i \in 1 .. 1 + Len(tx) /\ j \in 1 .. 1 + Len(tx) /\ j > 1
          /\ j - 1 \in 1 .. Len(tx) /\ pkts[j] = data[j - 1]
      BY <2>2, <2>7, <2>8
    <3>2. CASE i = 1
      BY <2>5, <2>7, <3>1, <3>2
    <3>3. CASE i > 1
      <4>1. i - 1 \in 1 .. Len(tx) /\ pkts[i] = data[i - 1] /\ i - 1 < j - 1
        BY <2>2, <2>7, <2>8, <3>1, <3>3
      <4> QED
        BY <2>5, <3>1, <4>1
    <3> QED
      BY <3>1, <3>2, <3>3
  <2> QED
    BY <2>8 DEF InOrder, pkts, data
<1> QED
  BY <1>1, IndInvHolds, PTL

\* What was sent and not consumed is where a completion can still come from, and
\* the receiver's frames are all in its rings but for those being put back.
THEOREM TotalsAreRight == Spec => []TotalsMatchRings
<1>1. IndInv => TotalsMatchRings
  <2> SUFFICES ASSUME IndInv, built, \A t \in Sides : pc[t] # "panicked"
               PROVE  /\ total_frames_sent - total_frames_consumed = Len(Submitted1)
                      /\ pc["rx"] # "start" => Len(Submitted2) + Taken = FqSize
    BY DEF TotalsMatchRings, Taken
  <2>1. TypeInv /\ FrameInv /\ TotalsInv /\ f = "running"
    BY DEF IndInv, LoopInv, SessionInv
  <2>2. total_frames_sent = total_frames_consumed + Len(tx) + Len(comp) + Cardinality(flight)
    BY <2>1 DEF TotalsInv, Sides
  <2>3. PICK c \in Nat, m \in Nat, u \in Nat, v \in Nat :
          /\ c = total_frames_consumed /\ m = Len(tx)
          /\ u = Len(comp) /\ v = Cardinality(flight)
    BY <2>1, Lengths, FlightFacts DEF TypeInv
  <2>4. Len(Submitted1) = m + u + v
    BY <2>1, <2>3, Submitted1Facts
  <2>5. total_frames_sent - total_frames_consumed = Len(Submitted1)
    BY <2>2, <2>3, <2>4
  <2>6. Len(Submitted2) = Len(fill) + Len(rx)
    BY <2>1, Submitted2Facts
  <2>7. pc["rx"] # "start" => Len(fill) + Len(rx) + Taken = FqSize
    BY <2>1 DEF TotalsInv, Sides
  <2> QED
    BY <2>5, <2>6, <2>7
<1> QED
  BY <1>1, IndInvHolds, PTL

\* The sender writes only to frames that are neither in a ring nor on their way.
THEOREM OnlyOwnFramesWritten == Spec => WritesOwnFrames
<1> DEFINE Unharmed ==
      \A fr \in Frames : frame_data'[fr] # frame_data[fr] /\ built /\ built'
        => \A d \in Range(Submitted1) : Addr(d) # fr
<1>1. IndInv /\ [Next]_vars => Unharmed
  <2> SUFFICES ASSUME IndInv, [Next]_vars PROVE Unharmed
    OBVIOUS
  <2>0. TypeInv /\ StartInv /\ FrameInv /\ DataInv
    BY DEF IndInv, LoopInv
  <2>1. CASE frame_data' = frame_data \/ ~built'
    BY <2>1
  <2>2. Submitted1 \in Seq(Descs1) /\ Apart(Submitted1, Held1)
    BY <2>0, Submitted1Facts
  <2>3. \A d \in Range(Submitted1) : Addr(d) = d
        /\ \E i \in 1 .. Len(Submitted1) : Submitted1[i] = d
    BY <2>2, InRange, AddrOfOwn
  <2>4. CASE TxStart
    <3>1. Len(Submitted1) = 0
      <4>1. tx = <<>> /\ comp = <<>> /\ flight = {}
        BY <2>0, <2>4 DEF TxStart, StartInv
      <4>2. Len(tx) = 0 /\ Len(comp) = 0 /\ Cardinality(flight) = 0
        BY <4>1, FS_EmptySet
      <4> QED
        BY <2>0, <4>2, Submitted1Facts
    <3> QED
      BY <2>3, <3>1
  <2>5. CASE TxWrite
    <3>1. PICK k \in 0 .. FrameCount : k = frames_rcvd["tx"]
      BY <2>0 DEF TypeInv, Sides
    <3>2. PICK h : h = Slice("tx", k)
      OBVIOUS
    <3>3. Held1 = h /\ frame_data' = Written(k)
      BY <2>5, <3>1, <3>2 DEF TxWrite, Held1
    <3>4. h \in Seq(Descs1) /\ Len(h) = k /\ Once(h)
      BY <2>0, <2>5, <3>2, <3>3, SliceFacts DEF TxWrite, FrameInv, Circulate, Sides
    <3>5. next_pkt > 0
      BY <2>0 DEF TypeInv, DataInv, Newer
    <3>6. \A x \in Frames : (\A i \in 1 .. k : h[i] # x) => frame_data'[x] = frame_data[x]
      BY <2>0, <3>2, <3>3, <3>4, <3>5, WrittenFacts
    <3>7. \A d \in Range(Submitted1), j \in 1 .. k : h[j] # d
      BY <2>2, <2>3, <3>3, <3>4 DEF Apart
    <3> QED
      BY <2>3, <3>6, <3>7
  <2>6. [Next]_vars => frame_data' = frame_data \/ ~built' \/ TxStart \/ TxWrite
    <3>1. CASE Loops
      <4>1. RxStep => frame_data' = frame_data
        BY DEF RxStep, RxFill, RxSignal, RxKick, RxTakes, RxTimesOut, RxCheck, RxRefill
      <4>2. TxStep => frame_data' = frame_data \/ TxStart \/ TxWrite
        BY DEF TxStep, TxWait, TxComp, TxCompEmpty, TxIdle, TxReady, TxNotReady, TxSubmit,
               TxRefused, TxFinish, client
      <4>3. Kernel => frame_data' = frame_data
        BY DEF Kernel, KTransmit, KComplete, KDeliver, KDrop, KSleep, client
      <4>4. ASSUME NEW t \in Sides PROVE CallFails(t) \/ WakeupFails(t) => frame_data' = frame_data
        BY DEF CallFails, WakeupFails
      <4> QED
        BY <3>1, <4>1, <4>2, <4>3, <4>4 DEF Loops, LoopNext
    <3>2. CASE BuildSockets \/ Session \/ UNCHANGED vars
      BY <3>2 DEF BuildSockets, Session, vars, loopVars, client
    <3>3. CASE FinishLoops
      BY <3>3 DEF FinishLoops
    <3> QED
      BY <3>1, <3>2, <3>3 DEF Next, Done
  <2> QED
    BY <2>1, <2>4, <2>5, <2>6
<1> QED
  BY <1>1, IndInvHolds, PTL DEF Spec, WritesOwnFrames

\* The single thread, with batches that fit every ring, loses no packet for want
\* of a frame or of room: a packet leaves the wire only into the rx ring.
THEOREM NothingLost == Spec => SingleNeverLoses
<1> DEFINE Arrives ==
      ~multithreaded /\ BatchFits /\ wire' < wire /\ built' => Len(rx') = Len(rx) + 1
<1>1. IndInv /\ [Next]_vars => Arrives
  <2> SUFFICES ASSUME IndInv, [Next]_vars, ~multithreaded, BatchFits, wire' < wire, built'
               PROVE  Len(rx') = Len(rx) + 1
    OBVIOUS
  <2>0. TypeInv /\ StartInv /\ TotalsInv /\ SingleInv
    BY DEF IndInv, LoopInv
  <2>1. wire \in Nat /\ ~(wire < wire) /\ ~(wire + 1 < wire)
    BY <2>0 DEF TypeInv
  <2>2. Loops /\ (KDeliver \/ KDrop)
    <3>1. CASE Loops
      <4>1. RxStep => wire' = wire
        BY DEF RxStep, RxFill, RxSignal, RxKick, RxTakes, RxTimesOut, RxCheck, RxRefill, devices
      <4>2. TxStep => wire' = wire
        BY DEF TxStep, TxStart, TxWait, TxComp, TxCompEmpty, TxIdle, TxWrite, TxReady, TxNotReady,
               TxSubmit, TxRefused, TxFinish, devices
      <4>3. Kernel => wire' = wire \/ wire' = wire + 1 \/ KDeliver \/ KDrop
        BY DEF Kernel, KTransmit, KComplete, KSleep
      <4>4. ASSUME NEW t \in Sides PROVE CallFails(t) \/ WakeupFails(t) => wire' = wire
        BY DEF CallFails, WakeupFails, devices
      <4> QED
        BY <2>1, <3>1, <4>1, <4>2, <4>3, <4>4 DEF Loops, LoopNext
    <3>2. CASE BuildSockets \/ Session \/ UNCHANGED vars
      BY <2>1, <3>2 DEF BuildSockets, Session, vars, loopVars, devices
    <3>3. CASE FinishLoops
      BY <3>3 DEF FinishLoops
    <3> QED
      BY <3>1, <3>2, <3>3 DEF Next, Done
  <2>3. CASE KDeliver
    <3>1. fill # <<>> /\ rx' = Append(rx, Head(fill)) /\ rx \in Seq(Descs2) /\ fill \in Seq(Descs2)
      BY <2>0, <2>3 DEF KDeliver, TypeInv
    <3>2. Head(fill) \in Descs2
      BY <3>1, Popped
    <3> QED
      BY <3>1, <3>2, Pushed
  <2>4. CASE KDrop
    <3>1. pc["rx"] \notin Ended /\ wire > 0 /\ (fill = <<>> \/ Len(rx) = RxSize) /\ f = "running"
      BY <2>2, <2>4 DEF KDrop, Loops
    <3>2. fill # <<>> /\ Len(rx) < RxSize
      BY <2>0, <3>1, RoomForAll
    <3>3. RxSize \in Nat
      BY OptionsAssumption
    <3> QED
      BY <3>1, <3>2, <3>3
  <2> QED
    BY <2>2, <2>3, <2>4
<1> QED
  BY <1>1, IndInvHolds, PTL DEF Spec, SingleNeverLoses

-----------------------------------------------------------------------------
(* The go-ahead *)

\* Where the sender is once it has had the go-ahead.
Released == {"comp", "idle", "write", "ready", "submit", "finish"}

\* The go-ahead, sent or received, comes from a receiver that has filled its ring.
GoAheadInv == multithreaded /\ (begin_send \/ pc["tx"] \in Released) => pc["rx"] # "start"

\* The receiver gives the go-ahead after it has filled its ring, and only then.
LEMMA RxKeepsGoAhead == PcInv /\ GoAheadInv /\ RxStep => GoAheadInv'
<1> SUFFICES ASSUME PcInv, GoAheadInv, RxStep PROVE GoAheadInv'
  OBVIOUS
<1>1. multithreaded' = multithreaded
  BY DEF RxStep, RxFill, RxSignal, RxKick, RxTakes, RxTimesOut, RxCheck, RxRefill, options
<1>2. CASE ~multithreaded
  BY <1>1, <1>2 DEF GoAheadInv
<1>3. CASE multithreaded
  <2>1. pc'["rx"] # "start"
    BY <1>3 DEF RxStep, RxFill, RxSignal, RxKick, RxTakes, RxTimesOut, RxCheck, RxRefill,
                RxAgain, Goto, PcInv, Sides
  <2> QED
    BY <2>1 DEF GoAheadInv
<1> QED
  BY <1>2, <1>3

\* The sender leaves its wait for the go-ahead only with the go-ahead.
LEMMA TxKeepsGoAhead == PcInv /\ GoAheadInv /\ TxStep => GoAheadInv'
<1> SUFFICES ASSUME PcInv, GoAheadInv, TxStep PROVE GoAheadInv'
  OBVIOUS
<1>1. multithreaded' = multithreaded
  BY DEF TxStep, TxStart, TxWait, TxComp, TxCompEmpty, TxIdle, TxWrite, TxReady, TxNotReady,
         TxSubmit, TxRefused, TxFinish, options
<1>2. CASE ~multithreaded
  BY <1>1, <1>2 DEF GoAheadInv
<1>3. CASE multithreaded
  <2>1. pc'["rx"] = pc["rx"]
    BY <1>3 DEF TxStep, TxStart, TxWait, TxComp, TxCompEmpty, TxIdle, TxWrite, TxReady,
                TxNotReady, TxSubmit, TxRefused, TxFinish, TxAgain, Goto, PanicAt, PcInv, Sides,
                client
  <2>2. begin_send' => begin_send
    BY DEF TxStep, TxStart, TxWait, TxComp, TxCompEmpty, TxIdle, TxWrite, TxReady, TxNotReady,
           TxSubmit, TxRefused, TxFinish, signals
  <2>3. pc'["tx"] \in Released => begin_send \/ pc["tx"] \in Released
    BY <1>3 DEF TxStep, TxStart, TxWait, TxComp, TxCompEmpty, TxIdle, TxWrite, TxReady,
                TxNotReady, TxSubmit, TxRefused, TxFinish, TxAgain, Goto, PanicAt, PcInv, Sides,
                client, Released
  <2> QED
    BY <1>1, <2>1, <2>2, <2>3 DEF GoAheadInv
<1> QED
  BY <1>2, <1>3

\* Nothing else gives a go-ahead or puts the receiver back at its start.
LEMMA GoAheadKept == PcInv /\ GoAheadInv /\ [Next]_vars => GoAheadInv'
<1> SUFFICES ASSUME PcInv, GoAheadInv, [Next]_vars PROVE GoAheadInv'
  OBVIOUS
<1>1. CASE Loops
  <2>1. CASE Kernel
    BY <2>1 DEF Kernel, KTransmit, KComplete, KDeliver, KDrop, KSleep, options, signals, client,
                GoAheadInv
  <2>2. ASSUME NEW t \in Sides, CallFails(t) \/ WakeupFails(t) PROVE GoAheadInv'
    <3>1. pc' = PanicAt(t) /\ UNCHANGED <<multithreaded, begin_send>>
      BY <2>2 DEF CallFails, WakeupFails, options, signals
    <3>2. \A u \in Sides : pc'[u] = pc[u] \/ pc'[u] = "panicked"
      BY <3>1 DEF PanicAt, PcInv
    <3> QED
      BY <3>1, <3>2 DEF GoAheadInv, Released, Sides
  <2> QED
    BY <1>1, <2>1, <2>2, RxKeepsGoAhead, TxKeepsGoAhead DEF Loops, LoopNext
<1>2. CASE FinishLoops
  BY <1>2 DEF FinishLoops, GoAheadInv, Sides
<1>3. CASE BuildSockets \/ Session \/ UNCHANGED vars
  BY <1>3 DEF BuildSockets, Session, vars, loopVars, options, signals, client, GoAheadInv
<1> QED
  BY <1>1, <1>2, <1>3 DEF Next, Done

\* With two threads, after its first batch the sender neither wakes the kernel nor
\* submits more before the receiver has filled its ring.
THEOREM SenderWaits == Spec => WaitsForReceiver
<1> DEFINE Waits ==
      multithreaded /\ built'
        /\ \/ total_frames_sent > 0 /\ Len(tx') > Len(tx)
           \/ asleep["tx"] /\ ~asleep'["tx"]
      => pc["rx"] # "start"
<1>1. Init => GoAheadInv
  BY DEF Init, LoopInit, GoAheadInv, Released
<1>2. IndInv /\ GoAheadInv /\ [Next]_vars => GoAheadInv'
  BY GoAheadKept DEF IndInv, LoopInv
<1>3. IndInv /\ GoAheadInv /\ [Next]_vars => Waits
  <2> SUFFICES ASSUME IndInv, GoAheadInv, [Next]_vars, multithreaded, built',
                      \/ total_frames_sent > 0 /\ Len(tx') > Len(tx)
                      \/ asleep["tx"] /\ ~asleep'["tx"]
               PROVE  pc["rx"] # "start"
    OBVIOUS
  <2>0. TypeInv /\ StartInv /\ Len(tx) \in Nat /\ ~(Len(tx) > Len(tx))
    BY Lengths DEF IndInv, LoopInv, TypeInv
  <2>1. CASE Loops
    <3>1. CASE RxStep
      <4>1. UNCHANGED tx
        BY <3>1 DEF RxStep, RxFill, RxSignal, RxKick, RxTakes, RxTimesOut, RxCheck, RxRefill,
                    devices
      <4>2. asleep'["tx"] = asleep["tx"] \/ pc["rx"] # "start"
        BY <3>1 DEF RxStep, RxFill, RxSignal, RxKick, RxTakes, RxTimesOut, RxCheck, RxRefill
      <4> QED
        BY <2>0, <4>1, <4>2
    <3>2. CASE TxStep
      <4>1. CASE pc["tx"] \in Released
        BY <4>1 DEF GoAheadInv
      <4>2. CASE TxStart
        <5>1. total_frames_sent = 0 /\ UNCHANGED asleep
          BY <2>0, <4>2 DEF TxStart, StartInv
        <5> QED
          BY <5>1
      <4>3. CASE TxWait
        BY <2>0, <4>3 DEF TxWait, devices
      <4> QED
        BY <3>2, <4>1, <4>2, <4>3
        DEF TxStep, TxComp, TxCompEmpty, TxIdle, TxWrite, TxReady, TxNotReady, TxSubmit,
            TxRefused, TxFinish, Released
    <3>3. CASE Kernel
      <4>1. KTransmit => Len(tx') <= Len(tx)
        <5>1. ASSUME KTransmit PROVE Len(tx') = Len(tx) - 1
          BY <2>0, <5>1, Popped DEF KTransmit, TypeInv
        <5> QED
          BY <2>0, <5>1
      <4>2. UNCHANGED asleep \/ KSleep
        BY <3>3 DEF Kernel, KTransmit, KComplete, KDeliver, KDrop
      <4>3. KSleep => ~(asleep["tx"] /\ ~asleep'["tx"])
        BY DEF KSleep
      <4>4. KTransmit \/ UNCHANGED tx
        BY <3>3 DEF Kernel, KComplete, KDeliver, KDrop, KSleep
      <4> QED
        BY <2>0, <4>1, <4>2, <4>3, <4>4
    <3>4. ASSUME NEW t \in Sides, CallFails(t) \/ WakeupFails(t) PROVE pc["rx"] # "start"
      <4>1. UNCHANGED asleep
        BY <3>4 DEF CallFails, WakeupFails, devices
      <4>2. UNCHANGED tx \/ pc["tx"] = "submit"
        BY <3>4 DEF CallFails, WakeupFails, devices
      <4> QED
        BY <2>0, <4>1, <4>2 DEF GoAheadInv, Released
    <3> QED
      BY <2>1, <3>1, <3>2, <3>3, <3>4 DEF Loops, LoopNext
  <2>2. CASE BuildSockets \/ Session \/ UNCHANGED vars
    BY <2>0, <2>2 DEF BuildSockets, Session, vars, loopVars, devices
  <2>3. CASE FinishLoops
    BY <2>3 DEF FinishLoops
  <2> QED
    BY <2>1, <2>2, <2>3 DEF Next, Done
<1> QED
  BY <1>1, <1>2, <1>3, IndInvHolds, PTL DEF Spec, WaitsForReceiver

=============================================================================
