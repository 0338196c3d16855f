---------------------------- MODULE ProdQueueFifo ----------------------------
(***************************************************************************)
(* ProdQueue implements RingFifo: the refinement mapping.  What userspace  *)
(* has reserved is the offer, what lies between the kernel's own index and *)
(* the shared producer index is the queue, and what the kernel has taken   *)
(* without giving the slot back is out.  All but the offer are read from   *)
(* the slots, so an entry overwritten too early is an entry that changes.  *)
(***************************************************************************)
EXTENDS ProdQueue

\* The entries in the n slots from index `from` on.
Contents(from, n) == [k \in 1 .. n |-> slots[Slot(WrapAdd(from, k - 1))]]

\* The batch a call has reserved slots for.
Reserved ==
  IF pc \in {"write", "panicked"}
    THEN [k \in 1 .. cnt |-> Entry(call.descs[k])]
    ELSE <<>>

Fifo ==
  INSTANCE RingFifo WITH
    Entries <- RingEntries,
    Capacity <- Size,
    offer <- Reserved,
    queue <- Contents(kcons, WrapSub(producer, kcons)),
    out <- Contents(consumer, WrapSub(kcons, consumer))

\* The fill or tx ring is a bounded FIFO: the kernel receives exactly the
\* entries of the submitted batches, in order, each once and unchanged.
IsFifo == Fifo!FifoSpec

=============================================================================
