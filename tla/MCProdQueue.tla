----------------------------- MODULE MCProdQueue -----------------------------
(***************************************************************************)
(* Instances of ProdQueue for TLC.                                         *)
(***************************************************************************)
EXTENDS ProdQueueFifo

\* Two frames.  The length of the second does not fit the index width, so the
\* cast in write_xdp_desc truncates it.
TwoDescs == {[addr |-> 1, len |-> 1, options |-> 0],
             [addr |-> 2, len |-> Modulus + 2, options |-> 1]}

\* One frame, for the runs that are about counters and wakeups only.
OneDesc == {[addr |-> 1, len |-> 1, options |-> 0]}

=============================================================================
