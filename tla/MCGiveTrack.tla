---------------------------- MODULE MCGiveTrack ----------------------------
(***************************************************************************)
(* Small instances of GiveTrack for TLC: projects that take donations    *)
(* and, where there are reviews, p2 that waits for approval, as after      *)
(* Seed.  A target of 3 over an opening of 1 is reached by two donations.  *)
(***************************************************************************)
EXTENDS GiveTrack

CONSTANTS p2, u1

MCTarget == [p \in Projects |-> 3]

MCOpeningProject ==
  [p \in Projects |-> IF p = p2 THEN [status |-> "pending", current |-> 0]
                                ELSE [status |-> "approved", current |-> 1]]

MCOpeningTotal == [u \in Users |-> IF u = u1 THEN 1 ELSE 0]
============================================================================
