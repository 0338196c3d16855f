----------------------------- MODULE MCConsQueue -----------------------------
(***************************************************************************)
(* Instances of ConsQueue for TLC.                                         *)
(***************************************************************************)
EXTENDS ConsQueueFifo

\* Two packets that differ in every field.
TwoPackets == {[addr |-> 1, len |-> 1, options |-> 0],
               [addr |-> 2, len |-> 3, options |-> 1]}

=============================================================================
