---------------------------- MODULE MCUmemLayout -----------------------------
(***************************************************************************)
(* Instances of UmemLayout for TLC: 4-bit configuration arithmetic.        *)
(***************************************************************************)
EXTENDS UmemLayout

\* Every value the setter accepts, those whose sum with XDP_PACKET_HEADROOM does
\* not fit the width included.
AllHeadrooms == 0 .. (Modulus - 1)

=============================================================================
