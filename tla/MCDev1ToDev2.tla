---------------------------- MODULE MCDev1ToDev2 -----------------------------
(***************************************************************************)
(* Instances of Dev1ToDev2 for TLC.                                        *)
(***************************************************************************)
EXTENDS Dev1ToDev2

=============================================================================
