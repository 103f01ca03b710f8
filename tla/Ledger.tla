------------------------------- MODULE Ledger ------------------------------
(***************************************************************************)
(* What DonationService.Create promises in its comment: the donation       *)
(* record, the money raised by the project and the donor's total change    *)
(* together, in one step, and the donation that reaches the target closes  *)
(* the project.  A review changes a project's status and leaves the money  *)
(* alone.  An abstract specification: no requests, no locks.               *)
(***************************************************************************)
EXTENDS Integers

CONSTANTS Users, Projects, Amounts, Target, OpeningProject, OpeningTotal

VARIABLES project, total, byProject, byUser

vars == <<project, total, byProject, byUser>>

Init ==
  /\ project = OpeningProject
  /\ total = OpeningTotal
  /\ byProject = [p \in Projects |-> 0]
  /\ byUser = [u \in Users |-> 0]

\* u gives a to p.
Donate(u, p, a) ==
  LET raised == project[p].current + a
  IN /\ project[p].status = "approved"
     /\ project' = [project EXCEPT ![p] =
                      [status |-> IF raised >= Target[p] THEN "completed"
                                                         ELSE "approved",
                       current |-> raised]]
     /\ total' = [total EXCEPT ![u] = @ + a]
     /\ byProject' = [byProject EXCEPT ![p] = @ + a]
     /\ byUser' = [byUser EXCEPT ![u] = @ + a]

\* An administrator's decision, whatever the status was.
Review(p, decision) ==
  /\ project' = [project EXCEPT ![p].status = decision]
  /\ UNCHANGED <<total, byProject, byUser>>

Next ==
  \/ \E u \in Users, p \in Projects, a \in Amounts : Donate(u, p, a)
  \/ \E p \in Projects, decision \in {"approved", "rejected"} :
       Review(p, decision)

Spec == Init /\ [][Next]_vars
============================================================================
