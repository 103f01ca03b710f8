----------------------------- MODULE Donation ------------------------------
(***************************************************************************)
(* DonationService.Create: one database transaction per POST /donations.   *)
(* Each request is the goroutine that serves it; don[d] is where it stands *)
(* and what it has read.                                                   *)
(*                                                                         *)
(*   idle      no request                                                  *)
(*   accepted  validated, reference numbers drawn, waiting for BEGIN       *)
(*   begun     holds a connection, nothing read yet                        *)
(*   read      has the project row, status approved, of its snapshot       *)
(*   inserted  INSERT INTO donations done: parent rows locked shared       *)
(*   project   UPDATE projects done: project row locked exclusively        *)
(*   user      UPDATE users done: user row locked exclusively              *)
(*   committed COMMIT done, 201 not yet sent                               *)
(***************************************************************************)
EXTENDS Store

CONSTANTS
  Amounts,   \* the amounts donors send (already checked to be positive)
  MaxRaised  \* bound: no donation is accepted that would take a donor past it

ASSUME DonationAssumption ==
  /\ Amounts \subseteq Nat \ {0}
  /\ Users # {} /\ Projects # {} /\ Amounts # {}
  /\ MaxRaised \in Nat

VARIABLES
  don,   \* the requests
  acked  \* history: what each donor was told (201) to have donated

donationVars == <<don, acked>>

DonationPC == {"idle", "accepted", "begun", "read", "inserted", "project",
               "user", "committed"}

\* The rows FindByID returned, both of the transaction's snapshot.
Snapshot == [project : ProjectRow, total : Nat]

DonationRequest ==
  [pc : DonationPC, user : Users, project : Projects, amount : Amounts,
   seen : Snapshot]

InTx(d) == don[d].pc \in {"begun", "read", "inserted", "project", "user"}
HasRead(d) == don[d].pc \in {"read", "inserted", "project", "user"}

\* A goroutine that serves nothing: its other fields are not looked at.
Blank ==
  LET p == CHOOSE x \in Projects : TRUE
      u == CHOOSE x \in Users : TRUE
  IN [pc |-> "idle", user |-> u, project |-> p,
      amount |-> CHOOSE a \in Amounts : TRUE,
      seen |-> [project |-> OpeningProject[p], total |-> OpeningTotal[u]]]

Goto(d, pc) == don' = [don EXCEPT ![d].pc = pc]
Finish(d) == don' = [don EXCEPT ![d] = Blank]

----------------------------------------------------------------------------
\* The request passes the checks on its input.
Accept(d, u, p, a) ==
  /\ don[d].pc = "idle"
  /\ byUser[u] + a <= MaxRaised
  /\ don' = [don EXCEPT ![d] = [Blank EXCEPT !.pc = "accepted", !.user = u,
                                             !.project = p, !.amount = a]]
  /\ UNCHANGED <<storeVars, acked>>

\* BEGIN waits for a connection of the pool, and keeps it.
Begin(d) ==
  /\ don[d].pc = "accepted"
  /\ ConnFree
  /\ conns' = conns \union {d}
  /\ Goto(d, "begun")
  /\ UNCHANGED <<tableVars, locks, acked>>

\* Fault: the status check is dropped.
ReadProjectAnyStatus(d) ==
  /\ don[d].pc = "begun"
  /\ don' = [don EXCEPT ![d].pc = "read",
               ![d].seen = [project |-> project[don[d].project],
                            total |-> total[don[d].user]]]
  /\ UNCHANGED <<storeVars, acked>>

\* projectRepo.FindByID: the first SELECT, which fixes the snapshot.
ReadProject(d) ==
  /\ don[d].pc = "begun"
  /\ project[don[d].project].status = "approved"
  /\ don' = [don EXCEPT ![d].pc = "read",
               ![d].seen = [project |-> project[don[d].project],
                            total |-> total[don[d].user]]]
  /\ UNCHANGED <<storeVars, acked>>

\* Fault: the handler returns with the transaction left open.
RefuseNoRollback(d) ==
  /\ don[d].pc = "begun"
  /\ project[don[d].project].status # "approved"
  /\ Finish(d)
  /\ UNCHANGED <<storeVars, acked>>

\* The project takes no donations: the closure returns an error, ROLLBACK.
Refuse(d) ==
  /\ don[d].pc = "begun"
  /\ project[don[d].project].status # "approved"
  /\ Finish(d)
  /\ EndTx(d)
  /\ UNCHANGED <<tableVars, acked>>

ProjectLock(d) == <<"projects", don[d].project>>
UserLock(d) == <<"users", don[d].user>>

\* donationRepo.Create: the foreign keys lock both parent rows shared.
InsertDonation(d) ==
  /\ don[d].pc = "read"
  /\ don[d].amount <= MaxDecimal
  /\ \A row \in {ProjectLock(d), UserLock(d)} : CanLock(d, row, "S")
  /\ locks' = locks \union Holding(d, "S", {ProjectLock(d), UserLock(d)})
  /\ Goto(d, "inserted")
  /\ UNCHANGED <<tableVars, conns, acked>>

\* Fault: the target is compared before the amount is added.
NewProjectRowCheckedFirst(d) ==
  LET row == don[d].seen.project
  IN [status |-> IF row.current >= Target[don[d].project] THEN "completed"
                                                          ELSE row.status,
      current |-> row.current + don[d].amount]

\* Fault: the amount is added again for the comparison.
NewProjectRowCountedTwice(d) ==
  LET row == don[d].seen.project
      raised == row.current + don[d].amount
  IN [status |-> IF raised + don[d].amount >= Target[don[d].project]
                   THEN "completed" ELSE row.status,
      current |-> raised]

\* The row projectRepo.Update writes: all of it, from the snapshot.
NewProjectRow(d) ==
  LET row == don[d].seen.project
      raised == row.current + don[d].amount
  IN [status |-> IF raised >= Target[don[d].project] THEN "completed"
                                                     ELSE row.status,
      current |-> raised]

\* Faults: the donor's total is not updated, or goes down.
NewTotalUnchanged(d) == don[d].seen.total
NewTotalRefunded(d) == don[d].seen.total - don[d].amount

NewTotal(d) == don[d].seen.total + don[d].amount

SaveProject(d) ==
  /\ don[d].pc = "inserted"
  /\ NewProjectRow(d).current <= MaxDecimal
  /\ CanLock(d, ProjectLock(d), "X")
  /\ locks' = locks \union Holding(d, "X", {ProjectLock(d)})
  /\ Goto(d, "project")
  /\ UNCHANGED <<tableVars, conns, acked>>

\* Fault: the user is read through the service's own repository, which takes
\* a second connection while the transaction keeps the first.
SaveUserOnPool(d) ==
  /\ don[d].pc = "project"
  /\ ConnFree
  /\ NewTotal(d) <= MaxDecimal
  /\ CanLock(d, UserLock(d), "X")
  /\ locks' = locks \union Holding(d, "X", {UserLock(d)})
  /\ Goto(d, "user")
  /\ UNCHANGED <<tableVars, conns, acked>>

\* userRepo.FindByID (still the snapshot) and userRepo.Update.
SaveUser(d) ==
  /\ don[d].pc = "project"
  /\ NewTotal(d) <= MaxDecimal
  /\ CanLock(d, UserLock(d), "X")
  /\ locks' = locks \union Holding(d, "X", {UserLock(d)})
  /\ Goto(d, "user")
  /\ UNCHANGED <<tableVars, conns, acked>>

\* Fault: the error of donationRepo.Create is not looked at.
ApplyInsertIgnored(d) ==
  LET u == don[d].user
      p == don[d].project
      a == don[d].amount
  IN /\ don[d].pc = "user"
     /\ project' = [project EXCEPT ![p] = NewProjectRow(d)]
     /\ total' = [total EXCEPT ![u] = NewTotal(d)]
     /\ \/ /\ byProject' = [byProject EXCEPT ![p] = @ + a]
           /\ byUser' = [byUser EXCEPT ![u] = @ + a]
        \/ UNCHANGED <<byProject, byUser>>
     /\ EndTx(d)
     /\ UNCHANGED acked

\* COMMIT publishes the insert and the two rows saved.
Apply(d) ==
  LET u == don[d].user
      p == don[d].project
      a == don[d].amount
  IN /\ don[d].pc = "user"
     /\ project' = [project EXCEPT ![p] = NewProjectRow(d)]
     /\ total' = [total EXCEPT ![u] = NewTotal(d)]
     /\ byProject' = [byProject EXCEPT ![p] = @ + a]
     /\ byUser' = [byUser EXCEPT ![u] = @ + a]
     /\ EndTx(d)
     /\ UNCHANGED acked

Commit(d) == Apply(d) /\ Goto(d, "committed")

\* The server commits but the answer is lost: the donor is told of an error.
CommitUnacknowledged(d) == Apply(d) /\ Finish(d)

\* Fault: the error of the transaction is not looked at, 201 follows.
AbortIgnored(d) ==
  /\ InTx(d) \/ don[d].pc = "accepted"
  /\ Goto(d, "committed")
  /\ EndTx(d)
  /\ UNCHANGED <<tableVars, acked>>

\* A statement fails, or a lock wait ends in a deadlock or a timeout: the
\* closure returns the error, ROLLBACK.  Also BEGIN failing.
Abort(d) ==
  /\ InTx(d) \/ don[d].pc = "accepted"
  /\ Finish(d)
  /\ EndTx(d)
  /\ UNCHANGED <<tableVars, acked>>

\* 201 with the certificate.
Reply(d) ==
  /\ don[d].pc = "committed"
  /\ acked' = [acked EXCEPT ![don[d].user] = @ + don[d].amount]
  /\ Finish(d)
  /\ UNCHANGED storeVars

----------------------------------------------------------------------------
DonationTypeOK ==
  /\ don \in [DonationReqs -> DonationRequest]
  /\ acked \in [Users -> Nat]

DonationInit ==
  /\ don = [d \in DonationReqs |-> Blank]
  /\ acked = [u \in Users |-> 0]

DonationStep(d) ==
  \/ \E u \in Users, p \in Projects, a \in Amounts : Accept(d, u, p, a)
  \/ Begin(d)
  \/ ReadProject(d)
  \/ Refuse(d)
  \/ InsertDonation(d)
  \/ SaveProject(d)
  \/ SaveUser(d)
  \/ Commit(d)
  \/ CommitUnacknowledged(d)
  \/ Abort(d)
  \/ Reply(d)

\* The process dies: MySQL rolls every open transaction back, and no request
\* is answered any more.
DonationCrash ==
  /\ don' = [d \in DonationReqs |-> Blank]
  /\ locks' = {}
  /\ conns' = {}
  /\ UNCHANGED <<tableVars, acked>>
============================================================================
