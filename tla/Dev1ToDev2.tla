----------------------------- MODULE Dev1ToDev2 ------------------------------
(***************************************************************************)
(* The whole of examples/dev1_to_dev2.rs: main and the veth pair of        *)
(* VethSession around the two loops of ForwardLoops, which run as its      *)
(* closure f (run_example).                                                *)
(***************************************************************************)
EXTENDS ForwardLoops, VethSession

VARIABLE built    \* the umems and sockets of both devices exist

vars == <<loopVars, sessionVars, built>>

Init == LoopInit /\ SessionInit /\ built = FALSE

-----------------------------------------------------------------------------

\* run_example: umem and socket of either device, both with XDP_USE_NEED_WAKEUP;
\* an error, or a socket that comes without fill and completion queue, panics.
BuildSockets ==
  /\ f = "running" /\ ~built
  /\ \/ built' = TRUE /\ UNCHANGED sessionVars
     \/ FEnds("panicked") /\ UNCHANGED built
  /\ UNCHANGED loopVars

Loops ==
  /\ f = "running" /\ built
  /\ LoopNext
  /\ UNCHANGED <<sessionVars, built>>

\* Single-threaded, a panic goes on into f.  Multithreaded, f joins both threads
\* and prints an error.  Either way umems, sockets and locals are dropped.
FinishLoops ==
  /\ built /\ LoopsEnded
  /\ FEnds(IF ~multithreaded /\ pc["tx"] = "panicked" THEN "panicked" ELSE "returned")
  /\ built' = FALSE
  /\ tx' = <<>> /\ comp' = <<>> /\ fill' = <<>> /\ rx' = <<>>
  /\ flight' = {} /\ wire' = 0 /\ last_pkt' = 0 /\ asleep' = [r \in {"tx", "fill"} |-> FALSE]
  /\ frame_data' = [fr \in Frames |-> 0] /\ next_pkt' = 1
  /\ descs' = AllDescs
  /\ pc' = [t \in Sides |-> "off"] /\ frames_rcvd' = [t \in Sides |-> 0]
  /\ total_frames_sent' = 0 /\ total_frames_consumed' = 0 /\ total_frames_rcvd' = 0
  /\ begin_send' = FALSE /\ sender_done' = FALSE
  /\ UNCHANGED options

Session == SessionStep /\ UNCHANGED <<loopVars, built>>

\* The process is gone.
Done == MainEnded /\ UNCHANGED vars

Next == BuildSockets \/ Loops \/ FinishLoops \/ Session \/ Done

Spec == Init /\ [][Next]_vars

(***************************************************************************)
(* Threads run on.  A system call repeated for ever does not fail for ever *)
(* without an error: it wakes the kernel, and it returns the packets that  *)
(* are there.  The kernel serves the rings it is awake for, completes what *)
(* it has sent and gives slots back, so that a batch that fits is not      *)
(* refused for ever.  Nothing makes a user press ctrl+c.                   *)
(***************************************************************************)
In(A) == f = "running" /\ built /\ A /\ UNCHANGED <<sessionVars, built>>

Wakes(ring) == (RxStep \/ TxStep) /\ asleep[ring] /\ ~asleep'[ring]

\* Each of these is possible only NumPackets times or so: strong fairness of any
\* one says that it is not possible for ever.
Moves ==
  RxTakes \/ RxRefill \/ TxReady \/ TxSubmit \/ KTransmit \/ KComplete \/ KDeliver

Fairness ==
  /\ WF_vars(In(RxStep)) /\ WF_vars(In(TxStep))
  /\ SF_vars(In(Wakes("tx"))) /\ SF_vars(In(Wakes("fill"))) /\ SF_vars(In(Moves))
  /\ WF_vars(\/ BuildSockets \/ FinishLoops
             \/ (Setup \/ TearDown \/ MainStep) /\ UNCHANGED <<loopVars, built>>)

FairSpec == Spec /\ Fairness

-----------------------------------------------------------------------------
(* Properties *)

Descs == Descs1 \cup Descs2

\* Type invariant.
TypeOK ==
  /\ multithreaded \in BOOLEAN /\ max_batch_size \in Batches
  /\ tx \in Seq(Descs) /\ fill \in Seq(Descs)
  /\ TxRoom >= 0 /\ FillRoom >= 0
  /\ comp \in Seq(Descs) /\ rx \in Seq(Descs) /\ flight \subseteq Descs
  /\ Len(comp) + Cardinality(flight) <= CqSize /\ Len(rx) <= RxSize
  /\ wire \in Nat /\ frame_data \in [Frames -> Nat]
  /\ descs \in [Sides -> [Frames -> Descs]]
  /\ f \in {"idle", "running", "returned", "panicked"}
  /\ built => f = "running"

\* The frames of each device that are in the kernel's hands or in a ring.
Submitted1 == tx \o comp \o SetToSeq(flight)
Submitted2 == fill \o rx

\* README.md: "When a frame / address has been submitted to the fill queue or tx
\* ring, do not use it again until you have consumed it from either the
\* completion queue or rx ring."  A frame is in one place at a time.
FrameRule == IsInjective(Submitted1) /\ IsInjective(Submitted2)

\* The same rule for the sender of both variants, and for the receiving thread.
FrameRuleKept == IsInjective(Submitted1) /\ (multithreaded => IsInjective(Submitted2))

\* The same README rule for memory: the sender never writes to a frame that is
\* in the tx ring, on its way or in the completion ring, so the kernel never
\* sends a packet that is half another one.
WritesOwnFrames ==
  [][\A fr \in Frames : frame_data'[fr] # frame_data[fr] /\ built /\ built'
        => \A d \in Range(Submitted1) : Addr(d) # fr]_vars

\* README.md: "Do not use one UMEM's frame descriptors to access frames of
\* another, different UMEM."  Single-threaded, tx_descs holds the descriptors the
\* receiver got; neither they nor anything left of them reaches device 1.
NoForeignDescs ==
  /\ Range(Submitted1) \subseteq Descs1 /\ Range(Submitted2) \subseteq Descs2
  /\ pc["tx"] \in {"write", "ready", "submit"} =>
       Range(Slice("tx", frames_rcvd["tx"])) \subseteq Descs1

\* Packets leave in the order they were generated, each once, whatever the order
\* of completions: the tx ring holds newer and newer ones, all newer than the
\* last one sent.
InOrder ==
  LET pkts == <<last_pkt>> \o [i \in DOMAIN tx |-> frame_data[Addr(tx[i])]]
  IN \A i, j \in DOMAIN pkts : i < j => pkts[i] < pkts[j]

\* The totals the loops decide on agree with the rings: what was sent and not
\* consumed is where a completion can still come from, and the receiver's frames
\* are all in the fill ring or the rx ring but for those being put back.  So
\* neither loop waits for something that is nowhere.
TotalsMatchRings ==
  built /\ (\A t \in Sides : pc[t] # "panicked") =>
    /\ pc["tx"] # "returned" =>
         total_frames_sent - total_frames_consumed = Len(Submitted1)
    /\ pc["rx"] # "start" =>
         Len(Submitted2) + (IF pc["rx"] = "refill" THEN frames_rcvd["rx"] ELSE 0) = FqSize

\* "Let the receiver populate its fill queue first and wait for the go-ahead":
\* with two threads, the sender neither wakes the kernel for its tx ring nor adds
\* to its first batch before the receiver has filled its ring, whichever thread
\* is faster and whatever ends early.
WaitsForReceiver ==
  [][multithreaded /\ built'
       /\ \/ total_frames_sent > 0 /\ Len(tx') > Len(tx)
          \/ asleep["tx"] /\ ~asleep'["tx"]
     => pc["rx"] # "start"]_vars

\* A batch no larger than any ring.
BatchFits == \A size \in {FqSize, CqSize, TxSize, RxSize} : max_batch_size <= size

\* The single-threaded loop receives all it sent before it sends more ("while
\* total_frames_rcvd < total_frames_sent"), which would never end after a loss.
\* It never loses a packet for want of a frame or of room.
SingleNeverLoses ==
  [][~multithreaded /\ BatchFits /\ wire' < wire /\ built' => Len(rx') = Len(rx) + 1]_vars

\* "not let them kill the process immediately as we may need to clean up the
\* veth pair": when the process ends, by whatever error, panic or ctrl+c, the
\* pair is gone or the user was told how to delete it.
LinkCleanedUp == MainEnded => ~link \/ told

\* The example ends, although packets may be lost and wakeups may fail: unless
\* the sending thread dies in a panic, in which case nobody sets SENDER_DONE.
Terminates ==
  BatchFits => <>(MainEnded \/ (multithreaded /\ pc["tx"] = "panicked"))

=============================================================================
