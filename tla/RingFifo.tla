------------------------------ MODULE RingFifo -------------------------------
(***************************************************************************)
(* What an AF_XDP ring promises, with no counters, caches or slots: a      *)
(* bounded first-in first-out channel between one producer and one         *)
(* consumer, in which every slot is in the custody of exactly one side.    *)
(*                                                                         *)
(*   offer  entries the producer has reserved slots for, not visible yet   *)
(*   queue  entries published to the consumer and not taken yet            *)
(*   out    entries the consumer has taken and whose slots it still holds  *)
(*                                                                         *)
(* Nothing is lost, duplicated, reordered or changed on the way, and the   *)
(* three parts never exceed the ring.  ProdQueue (userspace produces, the  *)
(* kernel consumes) and ConsQueue (the kernel produces, userspace          *)
(* consumes) both implement this specification.                            *)
(***************************************************************************)
EXTENDS Naturals, Sequences

CONSTANTS
  Entries,    \* what a slot of the ring may hold
  Capacity    \* number of slots

VARIABLES offer, queue, out

fifoVars == <<offer, queue, out>>

InUse == Len(offer) + Len(queue) + Len(out)

FifoInit == offer = <<>> /\ queue = <<>> /\ out = <<>>

\* The producer reserves slots for a whole batch, or for nothing at all.
Offer ==
  /\ \E n \in 0 .. (Capacity - InUse) :
       \E batch \in [1 .. n -> Entries] : offer' = offer \o batch
  /\ UNCHANGED <<queue, out>>

\* Everything offered becomes visible at once, in order.
Publish ==
  /\ queue' = queue \o offer
  /\ offer' = <<>>
  /\ UNCHANGED out

\* The consumer takes the oldest entry; its slot stays in use.
Take ==
  /\ queue # <<>>
  /\ out' = Append(out, Head(queue))
  /\ queue' = Tail(queue)
  /\ UNCHANGED offer

\* The consumer hands back the slots of everything it has taken.
Release ==
  /\ out' = <<>>
  /\ UNCHANGED <<offer, queue>>

FifoNext == Offer \/ Publish \/ Take \/ Release

FifoSpec == FifoInit /\ [][FifoNext]_fifoVars

=============================================================================
