----------------------------- MODULE MCCheckout -----------------------------
(* Checkout with constants for TLC. *)
EXTENDS Checkout

MCTarget == [p \in Projects |-> 3]
MCOpeningProject ==
  [p \in Projects |-> [status |-> "approved", current |-> 1]]
MCOpeningTotal == [u \in Users |-> 0]
=============================================================================
