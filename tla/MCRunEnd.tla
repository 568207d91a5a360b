------------------------------ MODULE MCRunEnd ------------------------------
(***************************************************************************)
(* A run that is cancelled, run again and then succeeds, and two replicas, *)
(* for TLC to run RunEnd on.                                               *)
(***************************************************************************)
EXTENDS RunEnd

CONSTANTS w1, w2

CancelledFirst == <<"cancelled", "succeeded">>
=============================================================================
