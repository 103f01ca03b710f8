---------------------------- MODULE MCRateLimit ----------------------------
(***************************************************************************)
(* A small instance of RateLimit for TLC.  The requests are alike; the     *)
(* keys are not, for LimitInit picks one of them.                               *)
(***************************************************************************)
EXTENDS RateLimit, TLC

Symmetry == Permutations(Requests)
============================================================================
