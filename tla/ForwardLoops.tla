---------------------------- MODULE ForwardLoops -----------------------------
(***************************************************************************)
(* Clients of the four queues: the sending and the receiving loop of       *)
(* examples/dev1_to_dev2.rs, in its two variants.  The sender (device 1)   *)
(* owns a tx and a completion queue, the receiver (device 2) a fill and an *)
(* rx queue, each over a umem of its own; the kernel carries packets from  *)
(* one to the other.  With `multithreaded` each loop is a thread, without  *)
(* it one thread alternates between the two.                               *)
(*                                                                         *)
(* A queue is what RingFifo promises: entries come out once and in order.  *)
(* A produce publishes its whole batch or nothing, a consume takes some of *)
(* what is there and nothing only if nothing is there (ProdQueueProofs and *)
(* ConsQueueProofs: HonestResults, ExactEmptiness).                        *)
(*                                                                         *)
(* A FrameDesc is an address, here the number of a frame; those of device  *)
(* 2 are numbered on from those of device 1, so that the model can tell    *)
(* them apart where the code cannot.                                       *)
(***************************************************************************)
EXTENDS Naturals, Sequences, SequencesExt, FiniteSets

CONSTANTS
  FqSize, CqSize, TxSize, RxSize,   \* queue sizes, the same for both devices
  Batches,                          \* values tried for --max-batch-size
  NumPackets                        \* num_packets_to_send

ASSUME OptionsAssumption ==
  /\ {FqSize, CqSize, TxSize, RxSize, NumPackets} \subseteq Nat \ {0}
  /\ Batches \subseteq Nat \ {0}

VARIABLES
  multithreaded, max_batch_size,   \* options of this execution
  tx, comp, fill, rx,  \* the rings: tx and comp of device 1, fill and rx of device 2
  flight,          \* frames of device 1 the kernel has sent and not completed
  wire, last_pkt,  \* number of packets between the devices; the last one sent
  asleep,          \* need-wakeup flags of the tx and the fill ring
  frame_data,      \* the packet in each frame of device 1's umem
  descs,           \* the two vectors of FrameDesc
  pc, frames_rcvd, \* where each loop is, and its local of that name (0 out of scope)
  total_frames_sent, total_frames_consumed, total_frames_rcvd,
  next_pkt,        \* packets generated so far, plus one
  begin_send,      \* the message that tells the sender to begin is in its channel
  sender_done      \* SENDER_DONE

options == <<multithreaded, max_batch_size>>
counters == <<total_frames_sent, total_frames_consumed, total_frames_rcvd>>
signals == <<begin_send, sender_done>>
devices == <<tx, comp, fill, rx, flight, wire, last_pkt, asleep>>
client == <<frame_data, descs, pc, frames_rcvd, next_pkt>>
loopVars == <<options, counters, signals, devices, client>>

\* frame_count: fq_size + cq_size.
FrameCount == FqSize + CqSize
Frames == 1 .. FrameCount
Descs1 == 1 .. FrameCount
Descs2 == FrameCount + 1 .. 2 * FrameCount

\* The frames Umem::new returns for each device.
AllDescs == [tx |-> [i \in Frames |-> i], rx |-> [i \in Frames |-> FrameCount + i]]

\* The frame of device 1 that a descriptor leads to, wherever it comes from.
Addr(d) == IF d \in Descs1 THEN d ELSE d - FrameCount

Ended == {"returned", "panicked"}
Sides == {"tx", "rx"}

\* The first k descriptors of vector v, and v with them overwritten by es.
Slice(v, k) == SubSeq(descs[v], 1, k)
Overwrite(v, es) == [descs EXCEPT ![v] = es \o SubSeq(@, Len(es) + 1, Len(@))]

\* Where a thread with a panic ends up; the only thread takes both loops along.
PanicAt(t) == IF multithreaded THEN [pc EXCEPT ![t] = "panicked"]
                               ELSE [u \in Sides |-> "panicked"]

LoopInit ==
  /\ multithreaded \in BOOLEAN /\ max_batch_size \in Batches
  /\ tx = <<>> /\ comp = <<>> /\ fill = <<>> /\ rx = <<>>
  /\ flight = {} /\ wire = 0 /\ last_pkt = 0 /\ asleep = [r \in {"tx", "fill"} |-> FALSE]
  /\ frame_data = [f \in Frames |-> 0]
  /\ descs = AllDescs
  /\ pc = [tx |-> IF multithreaded THEN "start" ELSE "off", rx |-> "start"]
  /\ frames_rcvd = [t \in Sides |-> 0]
  /\ total_frames_sent = 0 /\ total_frames_consumed = 0 /\ total_frames_rcvd = 0
  /\ next_pkt = 1 /\ begin_send = FALSE /\ sender_done = FALSE

-----------------------------------------------------------------------------
(* Which part runs next *)

Goto(t, l) == pc' = [pc EXCEPT ![t] = l]

\* Mutant: the thread sends all it has before it looks at what arrived.
SingleInnerLast(sent, consumed, rcvd) ==
  IF sent < NumPackets \/ consumed < NumPackets THEN [tx |-> "comp", rx |-> "off"]
  ELSE IF rcvd < sent THEN [tx |-> "off", rx |-> "kick"]
  ELSE [t \in Sides |-> "returned"]

\* The single thread inside its outer loop, after the inner loop's test.
SingleInner(sent, consumed, rcvd) ==
  IF rcvd < sent THEN [tx |-> "off", rx |-> "kick"]
  ELSE IF sent < NumPackets \/ consumed < NumPackets THEN [tx |-> "comp", rx |-> "off"]
  ELSE [t \in Sides |-> "returned"]

\* ... and at the head of the outer loop.
SingleOuter(sent, consumed, rcvd) ==
  IF consumed < NumPackets \/ rcvd < NumPackets
    THEN SingleInner(sent, consumed, rcvd)
    ELSE [t \in Sides |-> "returned"]

\* The sender has finished an iteration.
TxAgain(sent, consumed) ==
  IF multithreaded
    THEN Goto("tx", IF consumed < NumPackets THEN "comp" ELSE "finish")
    ELSE pc' = SingleOuter(sent, consumed, total_frames_rcvd)

\* The receiver has finished one.
RxAgain(rcvd) ==
  IF multithreaded
    THEN Goto("rx", IF rcvd < NumPackets THEN "poll" ELSE "returned")
    ELSE pc' = SingleInner(total_frames_sent, total_frames_consumed, rcvd)

\* A wakeup is made only if the flag asks for it; it may fail to wake the kernel
\* without an error (EAGAIN and the like, EINTR).
MayWake(ring) == asleep' \in {asleep, [asleep EXCEPT ![ring] = FALSE]}

-----------------------------------------------------------------------------
(* The receiver *)

\* Populate the fill queue.
RxFill ==
  /\ pc["rx"] = "start"
  /\ fill' = Slice("rx", FqSize)
  /\ pc' = IF multithreaded THEN [pc EXCEPT !["rx"] = "signal"]
                            ELSE [tx |-> "start", rx |-> "off"]
  /\ UNCHANGED <<options, counters, signals, tx, comp, rx, flight, wire, last_pkt, asleep>>
  /\ UNCHANGED <<frame_data, descs, frames_rcvd, next_pkt>>

\* begin_send_tx.send(()), or return because the sender has gone away.
RxSignal ==
  /\ pc["rx"] = "signal"
  /\ IF pc["tx"] \in Ended
       THEN Goto("rx", "returned") /\ UNCHANGED begin_send
       ELSE RxAgain(0) /\ begin_send' = TRUE
  /\ UNCHANGED <<options, counters, devices, sender_done>>
  /\ UNCHANGED <<frame_data, descs, frames_rcvd, next_pkt>>

\* Single-threaded only: wake the sender's kernel before polling.
RxKick ==
  /\ pc["rx"] = "kick"
  /\ MayWake("tx") /\ Goto("rx", "poll")
  /\ UNCHANGED <<options, counters, signals, tx, comp, fill, rx, flight, wire, last_pkt>>
  /\ UNCHANGED <<frame_data, descs, frames_rcvd, next_pkt>>

\* The vector the receiver receives into.
RxBuffer == IF multithreaded THEN "rx" ELSE "tx"

\* Mutant: the descriptors are counted and not stored.
RxTakesIgnored ==
  /\ pc["rx"] = "poll"
  /\ \E k \in 1 .. Len(rx) :
       /\ rx' = SubSeq(rx, k + 1, Len(rx))
       /\ frames_rcvd' = [frames_rcvd EXCEPT !["rx"] = k]
  /\ Goto("rx", "refill")
  /\ UNCHANGED <<options, counters, signals, tx, comp, fill, flight, wire, last_pkt, asleep>>
  /\ UNCHANGED <<frame_data, descs, next_pkt>>

\* poll_and_consume finds packets: their descriptors overwrite the first ones.
RxTakes ==
  /\ pc["rx"] = "poll"
  /\ \E k \in 1 .. Len(rx) :
       /\ k <= FrameCount
       /\ descs' = Overwrite(RxBuffer, SubSeq(rx, 1, k))
       /\ rx' = SubSeq(rx, k + 1, Len(rx))
       /\ frames_rcvd' = [frames_rcvd EXCEPT !["rx"] = k]
  /\ Goto("rx", "refill")
  /\ UNCHANGED <<options, counters, signals, tx, comp, fill, flight, wire, last_pkt, asleep>>
  /\ UNCHANGED <<frame_data, next_pkt>>

\* It finds none (or is interrupted): wake up the fill queue if required.
RxTimesOut ==
  /\ pc["rx"] = "poll"
  /\ MayWake("fill")
  /\ IF multithreaded THEN Goto("rx", "check") ELSE RxAgain(total_frames_rcvd)
  /\ UNCHANGED <<options, counters, signals, tx, comp, fill, rx, flight, wire, last_pkt>>
  /\ UNCHANGED <<frame_data, descs, frames_rcvd, next_pkt>>

\* Mutant: the receiver does not look at SENDER_DONE.
RxCheckForgotten ==
  /\ pc["rx"] = "check" /\ Goto("rx", "poll")
  /\ UNCHANGED <<options, counters, signals, devices>>
  /\ UNCHANGED <<frame_data, descs, frames_rcvd, next_pkt>>

\* Multithreaded only: leave if the sender is done.
RxCheck ==
  /\ pc["rx"] = "check"
  /\ Goto("rx", IF sender_done THEN "returned" ELSE "poll")
  /\ UNCHANGED <<options, counters, signals, devices>>
  /\ UNCHANGED <<frame_data, descs, frames_rcvd, next_pkt>>

\* Slots that are free.  produce may find fewer: the kernel gives back the slots
\* of the entries it has taken some time later.
FillRoom == FqSize - Len(fill)
TxRoom == TxSize - Len(tx)

\* Mutant: one frame too few goes back.
RxRefillShort ==
  /\ pc["rx"] = "refill"
  /\ FillRoom >= frames_rcvd["rx"]
  /\ fill' = fill \o Slice("rx", frames_rcvd["rx"] - 1)
  /\ MayWake("fill")
  /\ total_frames_rcvd' = total_frames_rcvd + frames_rcvd["rx"]
  /\ RxAgain(total_frames_rcvd')
  /\ frames_rcvd' = [frames_rcvd EXCEPT !["rx"] = 0]
  /\ UNCHANGED <<options, signals, tx, comp, rx, flight, wire, last_pkt, frame_data, descs>>
  /\ UNCHANGED <<total_frames_sent, total_frames_consumed, next_pkt>>

\* Add frames back to the fill queue: those of rx_descs, whatever the buffer was.
\* A refused attempt does not even wake the kernel; it is made again.
RxRefill ==
  /\ pc["rx"] = "refill"
  /\ FillRoom >= frames_rcvd["rx"]
  /\ fill' = fill \o Slice("rx", frames_rcvd["rx"])
  /\ MayWake("fill")
  /\ total_frames_rcvd' = total_frames_rcvd + frames_rcvd["rx"]
  /\ RxAgain(total_frames_rcvd')
  /\ frames_rcvd' = [frames_rcvd EXCEPT !["rx"] = 0]
  /\ UNCHANGED <<options, signals, tx, comp, rx, flight, wire, last_pkt, frame_data, descs>>
  /\ UNCHANGED <<total_frames_sent, total_frames_consumed, next_pkt>>

-----------------------------------------------------------------------------
(* The sender *)

\* The first k frames of tx_descs with the next k packets written to them.
Written(k) ==
  LET at(f) == {i \in 1 .. k : Addr(descs["tx"][i]) = f}
  IN [f \in Frames |-> IF at(f) # {} THEN next_pkt - 1 + Max(at(f)) ELSE frame_data[f]]

\* Mutant: the first batch goes into the ring whatever its size.
TxStartUnchecked ==
  /\ pc["tx"] = "start"
  /\ max_batch_size <= FrameCount
  /\ frame_data' = Written(max_batch_size)
  /\ next_pkt' = next_pkt + max_batch_size
  /\ tx' = tx \o Slice("tx", max_batch_size)
  /\ total_frames_sent' = max_batch_size
  /\ pc' = IF multithreaded THEN [pc EXCEPT !["tx"] = "wait"]
                            ELSE SingleOuter(max_batch_size, 0, 0)
  /\ UNCHANGED <<options, signals, comp, fill, rx, flight, wire, last_pkt, asleep, descs, frames_rcvd>>
  /\ UNCHANGED <<total_frames_consumed, total_frames_rcvd>>

\* Write the first packets and populate the tx queue; a batch that does not fit
\* is refused, and fails the assertion (or the slice is out of range).
TxStart ==
  /\ pc["tx"] = "start"
  /\ IF max_batch_size <= TxSize /\ max_batch_size <= FrameCount
       THEN /\ frame_data' = Written(max_batch_size)
            /\ next_pkt' = next_pkt + max_batch_size
            /\ tx' = tx \o Slice("tx", max_batch_size)
            /\ total_frames_sent' = max_batch_size
            /\ pc' = IF multithreaded THEN [pc EXCEPT !["tx"] = "wait"]
                                      ELSE SingleOuter(max_batch_size, 0, 0)
       ELSE /\ pc' = PanicAt("tx")
            /\ UNCHANGED <<frame_data, next_pkt, tx, total_frames_sent>>
  /\ UNCHANGED <<options, signals, comp, fill, rx, flight, wire, last_pkt, asleep, descs, frames_rcvd>>
  /\ UNCHANGED <<total_frames_consumed, total_frames_rcvd>>

\* Mutant: the sender does not wait for the go-ahead.
TxWaitSkipped ==
  /\ pc["tx"] = "wait"
  /\ TxAgain(total_frames_sent, 0)
  /\ UNCHANGED <<options, counters, devices, signals>>
  /\ UNCHANGED <<frame_data, descs, frames_rcvd, next_pkt>>

\* begin_send_rx.recv(), which fails once the receiver has gone away.
TxWait ==
  /\ pc["tx"] = "wait"
  /\ \/ begin_send /\ begin_send' = FALSE /\ TxAgain(total_frames_sent, 0)
     \/ ~begin_send /\ pc["rx"] \in Ended /\ Goto("tx", "returned") /\ UNCHANGED begin_send
  /\ UNCHANGED <<options, counters, devices, sender_done>>
  /\ UNCHANGED <<frame_data, descs, frames_rcvd, next_pkt>>

\* Mutant: the completed descriptors are counted and not stored.
TxCompIgnored ==
  /\ pc["tx"] = "comp"
  /\ \E k \in 1 .. Len(comp) :
       /\ UNCHANGED descs
       /\ comp' = SubSeq(comp, k + 1, Len(comp))
       /\ frames_rcvd' =
            [frames_rcvd EXCEPT !["tx"] = IF total_frames_sent < NumPackets THEN k ELSE 0]
       /\ total_frames_consumed' = total_frames_consumed + k
  /\ IF total_frames_sent < NumPackets
       THEN Goto("tx", "write") ELSE TxAgain(total_frames_sent, total_frames_consumed')
  /\ UNCHANGED <<options, signals, tx, fill, rx, flight, wire, last_pkt, asleep, frame_data, next_pkt>>
  /\ UNCHANGED <<total_frames_sent, total_frames_rcvd>>

\* The completion queue gives back frames.
TxComp ==
  /\ pc["tx"] = "comp"
  /\ \E k \in 1 .. Len(comp) :
       /\ k <= FrameCount
       /\ descs' = Overwrite("tx", SubSeq(comp, 1, k))
       /\ comp' = SubSeq(comp, k + 1, Len(comp))
       /\ frames_rcvd' =
            [frames_rcvd EXCEPT !["tx"] = IF total_frames_sent < NumPackets THEN k ELSE 0]
       /\ total_frames_consumed' = total_frames_consumed + k
  /\ IF total_frames_sent < NumPackets
       THEN Goto("tx", "write") ELSE TxAgain(total_frames_sent, total_frames_consumed')
  /\ UNCHANGED <<options, signals, tx, fill, rx, flight, wire, last_pkt, asleep, frame_data, next_pkt>>
  /\ UNCHANGED <<total_frames_sent, total_frames_rcvd>>

\* It gives none: the test of the tx flag, and the wakeup, come later.
TxCompEmpty ==
  /\ pc["tx"] = "comp" /\ comp = <<>>
  /\ Goto("tx", "idle")
  /\ UNCHANGED <<options, counters, signals, devices>>
  /\ UNCHANGED <<frame_data, descs, frames_rcvd, next_pkt>>

\* Wake up the tx queue if required.
TxIdle ==
  /\ pc["tx"] = "idle"
  /\ MayWake("tx") /\ TxAgain(total_frames_sent, total_frames_consumed)
  /\ UNCHANGED <<options, counters, signals, tx, comp, fill, rx, flight, wire, last_pkt>>
  /\ UNCHANGED <<frame_data, descs, frames_rcvd, next_pkt>>

\* Mutant: the old packet is sent again.
TxWriteNothing ==
  /\ pc["tx"] = "write"
  /\ next_pkt' = next_pkt + frames_rcvd["tx"]
  /\ Goto("tx", "ready")
  /\ UNCHANGED <<options, counters, signals, devices, frame_data, descs, frames_rcvd>>

\* Mutant: a whole batch is written although fewer frames came back.
TxWriteBatch ==
  /\ pc["tx"] = "write"
  /\ frame_data' = Written(max_batch_size)
  /\ next_pkt' = next_pkt + max_batch_size
  /\ Goto("tx", "ready")
  /\ UNCHANGED <<options, counters, signals, devices, descs, frames_rcvd>>

\* Write new data.
TxWrite ==
  /\ pc["tx"] = "write"
  /\ frame_data' = Written(frames_rcvd["tx"])
  /\ next_pkt' = next_pkt + frames_rcvd["tx"]
  /\ Goto("tx", "ready")
  /\ UNCHANGED <<options, counters, signals, devices, descs, frames_rcvd>>

\* tx_q.poll: the socket is writable once the ring has room ...
TxReady ==
  /\ pc["tx"] = "ready" /\ TxRoom > 0
  /\ Goto("tx", "submit")
  /\ UNCHANGED <<options, counters, signals, devices>>
  /\ UNCHANGED <<frame_data, descs, frames_rcvd, next_pkt>>

\* ... and until then, or when the call is interrupted, poll is repeated; it
\* drives the kernel like a wakeup.
TxNotReady ==
  /\ pc["tx"] = "ready"
  /\ MayWake("tx")
  /\ UNCHANGED <<options, counters, signals, tx, comp, fill, rx, flight, wire, last_pkt, client>>

FramesToSend ==
  LET left == NumPackets - total_frames_sent
      most == IF max_batch_size < left THEN max_batch_size ELSE left
  IN IF frames_rcvd["tx"] < most THEN frames_rcvd["tx"] ELSE most

\* Add consumed frames back to the tx queue ...
TxSubmit ==
  /\ pc["tx"] = "submit" /\ TxRoom >= FramesToSend
  /\ tx' = tx \o Slice("tx", FramesToSend)
  /\ MayWake("tx")
  /\ total_frames_sent' = total_frames_sent + FramesToSend
  /\ TxAgain(total_frames_sent', total_frames_consumed)
  /\ frames_rcvd' = [frames_rcvd EXCEPT !["tx"] = 0]
  /\ UNCHANGED <<options, signals, comp, fill, rx, flight, wire, last_pkt, frame_data, descs>>
  /\ UNCHANGED <<total_frames_consumed, total_frames_rcvd, next_pkt>>

\* ... and again while it is refused: a refused batch wakes the kernel all the same.
TxRefused ==
  /\ pc["tx"] = "submit"
  /\ MayWake("tx")
  /\ UNCHANGED <<options, counters, signals, tx, comp, fill, rx, flight, wire, last_pkt, client>>

\* Mark the sender as done.
TxFinish ==
  /\ pc["tx"] = "finish"
  /\ sender_done' = TRUE /\ Goto("tx", "returned")
  /\ UNCHANGED <<options, counters, devices, begin_send>>
  /\ UNCHANGED <<frame_data, descs, frames_rcvd, next_pkt>>

-----------------------------------------------------------------------------
(* System calls that fail: unwrap panics *)

\* A poll, or a wakeup that the flag asked for, fails before anything was done.
CallFails(t) ==
  /\ \/ t = "rx" /\ pc["rx"] = "poll"
     \/ t = "rx" /\ pc["rx"] = "kick" /\ asleep["tx"]
     \/ t = "tx" /\ pc["tx"] = "idle" /\ asleep["tx"]
     \/ t = "tx" /\ pc["tx"] = "ready"
     \/ t = "tx" /\ pc["tx"] = "submit" /\ asleep["tx"]
  /\ pc' = PanicAt(t)
  /\ UNCHANGED <<options, counters, signals, devices>>
  /\ UNCHANGED <<frame_data, descs, frames_rcvd, next_pkt>>

\* The wakeup of produce_and_wakeup fails after the batch was published.
WakeupFails(t) ==
  /\ \/ /\ t = "tx" /\ pc["tx"] = "submit" /\ asleep["tx"] /\ TxRoom >= FramesToSend
        /\ tx' = tx \o Slice("tx", FramesToSend) /\ UNCHANGED fill
     \/ /\ t = "rx" /\ pc["rx"] = "refill" /\ asleep["fill"]
        /\ FillRoom >= frames_rcvd["rx"]
        /\ fill' = fill \o Slice("rx", frames_rcvd["rx"]) /\ UNCHANGED tx
  /\ pc' = PanicAt(t)
  /\ UNCHANGED <<options, counters, signals, comp, rx, flight, wire, last_pkt, asleep>>
  /\ UNCHANGED <<frame_data, descs, frames_rcvd, next_pkt>>

-----------------------------------------------------------------------------
(* The kernel: it serves a device while its queues have not been dropped *)

\* A frame of the tx ring goes out; its completion has a place reserved.
KTransmit ==
  /\ pc["tx"] \notin Ended /\ ~asleep["tx"] /\ tx # <<>>
  /\ Len(comp) + Cardinality(flight) < CqSize
  /\ tx' = Tail(tx)
  /\ flight' = flight \cup {Head(tx)}
  /\ wire' = wire + 1 /\ last_pkt' = frame_data[Addr(Head(tx))]
  /\ UNCHANGED <<options, counters, signals, client, comp, fill, rx, asleep>>

\* Completions come in any order.
KComplete ==
  /\ pc["tx"] \notin Ended
  /\ \E f \in flight : flight' = flight \ {f} /\ comp' = Append(comp, f)
  /\ UNCHANGED <<options, counters, signals, client, tx, fill, rx, wire, last_pkt, asleep>>

\* A packet arrives in the next frame of the fill ring.
KDeliver ==
  /\ pc["rx"] \notin Ended /\ ~asleep["fill"]
  /\ wire > 0 /\ fill # <<>> /\ Len(rx) < RxSize
  /\ rx' = Append(rx, Head(fill))
  /\ fill' = Tail(fill)
  /\ wire' = wire - 1
  /\ UNCHANGED <<options, counters, signals, client, tx, comp, flight, last_pkt, asleep>>

\* It is lost if there is no such frame, or no room in the rx ring.
KDrop ==
  /\ pc["rx"] \notin Ended
  /\ wire > 0 /\ (fill = <<>> \/ Len(rx) = RxSize)
  /\ wire' = wire - 1
  /\ UNCHANGED <<options, counters, signals, client, tx, comp, fill, rx, flight, last_pkt, asleep>>

\* The kernel stops serving the tx ring at any time, the fill ring when it is empty.
KSleep ==
  /\ \E ring \in {"tx", "fill"} :
       /\ ~asleep[ring] /\ (ring = "fill" => fill = <<>>)
       /\ asleep' = [asleep EXCEPT ![ring] = TRUE]
  /\ UNCHANGED <<options, counters, signals, client, tx, comp, fill, rx, flight, wire, last_pkt>>

-----------------------------------------------------------------------------

RxStep ==
  RxFill \/ RxSignal \/ RxKick \/ RxTakes \/ RxTimesOut \/ RxCheck \/ RxRefill

TxStep ==
  \/ TxStart \/ TxWait \/ TxComp \/ TxCompEmpty \/ TxIdle \/ TxWrite
  \/ TxReady \/ TxNotReady \/ TxSubmit \/ TxRefused \/ TxFinish

Kernel == KTransmit \/ KComplete \/ KDeliver \/ KDrop \/ KSleep

LoopNext ==
  RxStep \/ TxStep \/ Kernel \/ \E t \in Sides : CallFails(t) \/ WakeupFails(t)

LoopSpec == LoopInit /\ [][LoopNext]_loopVars

\* The loops are over: the function returns or panics.
LoopsEnded == \A t \in Sides : pc[t] \in Ended

=============================================================================
