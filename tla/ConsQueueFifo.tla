---------------------------- MODULE ConsQueueFifo ----------------------------
(***************************************************************************)
(* ConsQueue implements RingFifo: the refinement mapping.  What the kernel *)
(* has written without publishing is the offer, what is published and not  *)
(* read yet is the queue, and what the call has copied out, seen through   *)
(* the caller's descriptors, is out until the slots are released.          *)
(***************************************************************************)
EXTENDS ConsQueue

\* The entries in the n slots from index `from` on.
Contents(from, n) == [k \in 1 .. n |-> slots[Slot(WrapAdd(from, k - 1))]]

\* The entry a filled descriptor stands for.
FromDesc(d) ==
  IF Kind = "rx"
    THEN [addr |-> d.addr, len |-> d.data, options |-> d.options]
    ELSE [addr |-> d.addr]

NextUnread == WrapAdd(consumer, nread)

Fifo ==
  INSTANCE RingFifo WITH
    Entries <- RingEntries,
    Capacity <- Size,
    offer <- Contents(producer, WrapSub(kprod, producer)),
    queue <- Contents(NextUnread, WrapSub(producer, NextUnread)),
    out <- [k \in 1 .. nread |-> FromDesc(descs[k])]

\* The completion or rx ring is a bounded FIFO: the descriptors the client gets
\* are exactly the entries the kernel published, in order, each once and
\* unchanged.
IsFifo == Fifo!FifoSpec

=============================================================================
