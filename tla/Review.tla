------------------------------ MODULE Review -------------------------------
(***************************************************************************)
(* AdminService.ReviewProject: an administrator approves or rejects a      *)
(* project.  Three statements without a transaction around them: SELECT    *)
(* the row, UPDATE all of it, INSERT the audit record.  Whatever happens   *)
(* to the row between the first two is overwritten by the second.          *)
(***************************************************************************)
EXTENDS Store

CONSTANTS ReviewReqs,  \* the requests (POST /admin/projects/:id/review)
          MaxReviews   \* bound on the reviews that start, per project

ASSUME ReviewAssumption == MaxReviews \in Nat

\* Fault: the status in the request is not checked.
DecisionUnchecked == {"approved", "rejected", "pending"}

Decision == {"approved", "rejected"}

VARIABLES
  rev,      \* the requests
  audit,    \* table admin_reviews: project and decision of its rows
  applied,  \* history: the decisions that reached the project's row
  started   \* bound: how many reviews of each project have started

reviewVars == <<rev, audit, applied, started>>

ReviewPC == {"idle", "read", "saved"}
ReviewRequest ==
  [pc : ReviewPC, project : Projects, decision : Decision, seen : Nat]

NoReview == [pc |-> "idle", project |-> CHOOSE p \in Projects : TRUE,
             decision |-> "approved", seen |-> 0]

----------------------------------------------------------------------------
\* projectRepo.FindByID.  Of the row it keeps the money; the status it read
\* is replaced whatever it was, "pending" or not.
ReadForReview(r, p, decision) ==
  /\ rev[r].pc = "idle"
  /\ started[p] < MaxReviews
  /\ ConnFree
  /\ rev' = [rev EXCEPT ![r] = [pc |-> "read", project |-> p,
                                decision |-> decision,
                                seen |-> project[p].current]]
  /\ started' = [started EXCEPT ![p] = @ + 1]
  /\ UNCHANGED <<storeVars, audit, applied>>

ReviewedRow(r) == [status |-> rev[r].decision, current |-> rev[r].seen]

\* projectRepo.Update: Save writes every column of the row.
SaveReview(r) ==
  LET p == rev[r].project
  IN /\ rev[r].pc = "read"
     /\ ConnFree
     /\ RowFree(<<"projects", p>>)
     /\ project' = [project EXCEPT ![p] = ReviewedRow(r)]
     /\ applied' = applied \union {<<p, rev[r].decision>>}
     /\ rev' = [rev EXCEPT ![r].pc = "saved"]
     /\ UNCHANGED <<total, byProject, byUser, locks, conns, audit, started>>

\* reviewRepo.Create, and the answer.
RecordReview(r) ==
  /\ rev[r].pc = "saved"
  /\ ConnFree
  /\ audit' = audit \union {<<rev[r].project, rev[r].decision>>}
  /\ rev' = [rev EXCEPT ![r] = NoReview]
  /\ UNCHANGED <<storeVars, applied, started>>

\* Fault: the error of the update is not looked at, the record is written.
FailReviewIgnored(r) ==
  /\ rev[r].pc # "idle"
  /\ rev' = [rev EXCEPT ![r].pc = "saved"]
  /\ UNCHANGED <<storeVars, audit, applied, started>>

\* The statement that is due fails: the handler answers with the error and
\* leaves what the statements before it have done.
FailReview(r) ==
  /\ rev[r].pc # "idle"
  /\ rev' = [rev EXCEPT ![r] = NoReview]
  /\ UNCHANGED <<storeVars, audit, applied, started>>

----------------------------------------------------------------------------
ReviewTypeOK ==
  /\ rev \in [ReviewReqs -> ReviewRequest]
  /\ audit \subseteq Projects \X Decision
  /\ applied \subseteq Projects \X Decision
  /\ started \in [Projects -> Nat]

ReviewInit ==
  /\ rev = [r \in ReviewReqs |-> NoReview]
  /\ audit = {}
  /\ applied = {}
  /\ started = [p \in Projects |-> 0]

ReviewStep(r) ==
  \/ \E p \in Projects, decision \in Decision : ReadForReview(r, p, decision)
  \/ SaveReview(r)
  \/ RecordReview(r)
  \/ FailReview(r)

ReviewCrash ==
  /\ rev' = [r \in ReviewReqs |-> NoReview]
  /\ UNCHANGED <<audit, applied, started>>
============================================================================
