----------------------------- MODULE GiveTrack -----------------------------
(***************************************************************************)
(* The money of the platform: donations, project reviews and profile       *)
(* updates, each served by its own goroutine, over one database.  These    *)
(* are the only handlers that update rows of projects and users.           *)
(***************************************************************************)
EXTENDS Donation, Review, Profile, Functions

vars == <<storeVars, donationVars, reviewVars, prof>>

TypeOK ==
  /\ StoreTypeOK
  /\ DonationTypeOK
  /\ ReviewTypeOK
  /\ ProfileTypeOK

Init ==
  /\ StoreInit
  /\ DonationInit
  /\ ReviewInit
  /\ ProfileInit

Donate(d) == DonationStep(d) /\ UNCHANGED <<reviewVars, prof>>
ReviewProject(r) == ReviewStep(r) /\ UNCHANGED <<donationVars, prof>>
UpdateProfile(q) == ProfileStep(q) /\ UNCHANGED <<donationVars, reviewVars>>

\* The backend process stops and is restarted (restart: unless-stopped).
Crash ==
  /\ DonationCrash
  /\ ReviewCrash
  /\ ProfileCrash

Next ==
  \/ \E d \in DonationReqs : Donate(d)
  \/ \E r \in ReviewReqs : ReviewProject(r)
  \/ \E q \in ProfileReqs : UpdateProfile(q)
  \/ Crash

Spec == Init /\ [][Next]_vars

----------------------------------------------------------------------------
(***************************************************************************)
(* Fairness.  The Go scheduler runs every goroutine that can run (WF).     *)
(* The pool hands connections out first come first served and InnoDB       *)
(* grants locks in the order of arrival, so a wait for either that can     *)
(* end infinitely often does end (SF).  A transaction that waits for a     *)
(* lock for good is rolled back, by deadlock detection or by               *)
(* innodb_lock_wait_timeout.                                               *)
(***************************************************************************)
WaitsForLock(d) ==
  \/ /\ don[d].pc = "read"
     /\ ~ \A row \in {ProjectLock(d), UserLock(d)} : CanLock(d, row, "S")
  \/ don[d].pc = "inserted" /\ ~ CanLock(d, ProjectLock(d), "X")
  \/ don[d].pc = "project" /\ ~ CanLock(d, UserLock(d), "X")

\* A value that does not fit its column is an error in strict SQL mode.
OutOfRange(d) ==
  \/ don[d].pc = "read" /\ don[d].amount > MaxDecimal
  \/ don[d].pc = "inserted" /\ NewProjectRow(d).current > MaxDecimal
  \/ don[d].pc = "project" /\ NewTotal(d) > MaxDecimal

Rest == UNCHANGED <<reviewVars, prof>>

FairDonation(d) ==
  /\ SF_vars(Begin(d) /\ Rest)
  /\ WF_vars((ReadProject(d) \/ Refuse(d)) /\ Rest)
  /\ SF_vars(InsertDonation(d) /\ Rest)
  /\ SF_vars(SaveProject(d) /\ Rest)
  /\ SF_vars(SaveUser(d) /\ Rest)
  /\ WF_vars((Commit(d) \/ CommitUnacknowledged(d)) /\ Rest)
  /\ WF_vars(Reply(d) /\ Rest)
  /\ WF_vars((WaitsForLock(d) \/ OutOfRange(d)) /\ Abort(d) /\ Rest)

FairSpec == Spec /\ \A d \in DonationReqs : FairDonation(d)

----------------------------------------------------------------------------
\* Every connection and every lock belongs to an open transaction, and no
\* exit of Create, the error paths and the crash included, leaks one: a
\* request that is not between BEGIN and COMMIT or ROLLBACK holds nothing,
\* and the pool is never overdrawn.
NoLeak ==
  /\ conns = {d \in DonationReqs : InTx(d)}
  /\ \A l \in locks : l.owner \in conns
  /\ Cardinality(conns) <= MaxOpenConns

\* Two transactions never both have uncommitted updates of one row: from
\* SaveProject (SaveUser) to the end of the transaction no other one holds
\* a lock on that row.
WritersExclude ==
  \A d, e \in DonationReqs :
    d # e =>
      /\ (don[d].pc \in {"project", "user"} /\ don[e].pc \in {"project", "user"})
           => don[d].project # don[e].project
      /\ (don[d].pc = "user" /\ don[e].pc \in {"inserted", "project", "user"})
           => don[d].user # don[e].user

\* What a project or a donor is shown to have raised or given is never more
\* than the donation records show.  Stale rows are written back by all three
\* handlers; they can lose money from a total, never invent it.
ProjectNotOverstated ==
  \A p \in Projects :
    project[p].current <= OpeningProject[p].current + byProject[p]
DonorNotOverstated ==
  \A u \in Users : total[u] <= OpeningTotal[u] + byUser[u]
NeverOverstated == ProjectNotOverstated /\ DonorNotOverstated

\* Every donation that was answered with 201 is in the donations table,
\* whatever crashes or fails later.
AcknowledgedIsRecorded == \A u \in Users : acked[u] <= byUser[u]

\* A project that has not been reviewed has no donations, although Create
\* and ReviewProject both write the whole row from an earlier read.
PendingUntouched ==
  \A p \in Projects :
    project[p].status = "pending" => project[p].current = 0 /\ byProject[p] = 0

\* Only a reviewed project is ever displayed (approved or completed): some
\* administrator approved it, or it was displayed from the start.
DisplayedWasApproved ==
  \A p \in Projects :
    project[p].status \in {"approved", "completed"} =>
      \/ OpeningProject[p].status \in {"approved", "completed"}
      \/ <<p, "approved">> \in applied

\* A project is marked completed only with its target in the same row,
\* under every interleaving of stale donations and reviews.
CompletedIsFunded ==
  \A p \in Projects :
    project[p].status = "completed" => project[p].current >= Target[p]

\* The audit trail never runs ahead: a decision on record was applied to
\* the project's row first.
AuditFollowsDecision == audit \subseteq applied

\* No step, of any handler, takes a reviewed project back to the queue of
\* pending ones.
NeverBackToPending ==
  [][\A p \in Projects :
       project'[p].status = "pending" => project[p].status = "pending"]_vars

\* The donation that reaches the target closes the project, in the same row
\* and under every interleaving: no project is open with its target reached
\* but by the approval of a row that was read so.
FundedIsOpen(p) ==
  project[p].status = "approved" /\ project[p].current >= Target[p]
Reopened(p) ==
  \E r \in ReviewReqs :
    /\ rev[r].pc = "read" /\ rev'[r].pc = "saved"
    /\ rev[r].project = p /\ rev[r].decision = "approved"
    /\ rev[r].seen >= Target[p]
FundedIsCompleted ==
  /\ \A p \in Projects : ~ FundedIsOpen(p)
  /\ [][\A p \in Projects :
         FundedIsOpen(p)' => project'[p] = project[p] \/ Reopened(p)]_vars

\* The three records Create writes agree: the project's current_amount and
\* the donor's total_donation are exactly the sums of the donation records.
BooksBalance ==
  /\ \A p \in Projects :
       project[p].current = OpeningProject[p].current + byProject[p]
  /\ \A u \in Users : total[u] = OpeningTotal[u] + byUser[u]

\* Donations are atomic: the tables change as in Ledger, by whole donations
\* to projects that take them and by reviews that leave the money alone, and
\* not otherwise, however the statements of the handlers overlap.
Atomic == INSTANCE Ledger WITH
  Users <- Users, Projects <- Projects, Amounts <- Amounts, Target <- Target,
  OpeningProject <- OpeningProject, OpeningTotal <- OpeningTotal,
  project <- project, total <- total,
  byProject <- byProject, byUser <- byUser
DonationsAreAtomic == Atomic!Spec

\* No donation hangs: each accepted request is answered, or gone with the
\* process, although transactions wait for the pool and for each other's
\* locks and two of them can deadlock.
EveryDonationAnswered ==
  \A d \in DonationReqs : don[d].pc = "accepted" ~> don[d].pc = "idle"

----------------------------------------------------------------------------
(***************************************************************************)
(* What a handler has read and will write back obeys the same bounds as    *)
(* the tables: the part of the inductive invariants that is about requests *)
(* in flight.                                                              *)
(***************************************************************************)
\* No request carries a stale amount that is more than the records show.
SeenNotOverstated ==
  /\ \A d \in DonationReqs : HasRead(d) =>
       LET p == don[d].project
           u == don[d].user
       IN /\ don[d].seen.project.current
                <= OpeningProject[p].current + byProject[p]
          /\ don[d].seen.total <= OpeningTotal[u] + byUser[u]
  /\ \A r \in ReviewReqs : rev[r].pc = "read" =>
       rev[r].seen <= OpeningProject[rev[r].project].current
                        + byProject[rev[r].project]
  /\ \A q \in ProfileReqs : prof[q].pc = "read" =>
       prof[q].seen <= OpeningTotal[prof[q].user] + byUser[prof[q].user]

\* What a donor was told, and is about to be told, is in the records.
Unanswered(u) ==
  {d \in DonationReqs : don[d].pc = "committed" /\ don[d].user = u}
Owed(u) ==
  SumFunctionOnSet([d \in DonationReqs |-> don[d].amount], Unanswered(u))
OwedIsRecorded == \A u \in Users : acked[u] + Owed(u) <= byUser[u]

\* A donation under way is for a project that had been approved when it was
\* read, and has been reviewed for good.
SeenApproved ==
  \A d \in DonationReqs : HasRead(d) =>
    LET p == don[d].project
    IN /\ don[d].seen.project.status = "approved"
       /\ project[p].status # "pending"
       /\ \/ OpeningProject[p].status \in {"approved", "completed"}
          \/ <<p, "approved">> \in applied

\* The locks the statements of a transaction have taken are still held, and
\* the lock table never holds two locks that exclude each other.
LocksHeld ==
  \A d \in DonationReqs :
    /\ don[d].pc \in {"inserted", "project", "user"} =>
         Holding(d, "S", {ProjectLock(d), UserLock(d)}) \subseteq locks
    /\ don[d].pc \in {"project", "user"} =>
         Holding(d, "X", {ProjectLock(d)}) \subseteq locks
    /\ don[d].pc = "user" => Holding(d, "X", {UserLock(d)}) \subseteq locks

LocksCompatible ==
  \A k, l \in locks :
    (k.row = l.row /\ k.owner # l.owner) => (k.mode = "S" /\ l.mode = "S")

\* What the request would write back is still what the tables hold.
FreshDonation(d) ==
  /\ don[d].seen.project = project[don[d].project]
  /\ don[d].seen.total = total[don[d].user]
FreshReview(r) == rev[r].seen = project[rev[r].project].current
FreshProfile(q) == prof[q].seen = total[prof[q].user]

\* What every request has read is what the tables hold.
SeenCurrent ==
  /\ \A d \in DonationReqs : HasRead(d) => FreshDonation(d)
  /\ \A r \in ReviewReqs : rev[r].pc = "read" => FreshReview(r)
  /\ \A q \in ProfileReqs : prof[q].pc = "read" => FreshProfile(q)

\* Behaviours in which no row changes between its read and its save, by any
\* handler, as if each read its rows FOR UPDATE in a transaction.
FreshWrites ==
  /\ \A d \in DonationReqs : Apply(d) => FreshDonation(d)
  /\ \A r \in ReviewReqs : SaveReview(r) => FreshReview(r)
  /\ \A q \in ProfileReqs : SaveProfile(q) => FreshProfile(q)
NoStaleWrite == [][FreshWrites]_vars

\* The same as a specification: transactions overlap, on one row too, and of
\* two that have read it one commits and the other one fails.
FreshSpec == Init /\ [][Next /\ FreshWrites]_vars

\* No two requests are between the read and the save of one row, of which one
\* would change what the other has read.
Disjoint ==
  \A d \in DonationReqs : HasRead(d) =>
    /\ \A e \in DonationReqs \ {d} : HasRead(e) =>
         don[d].project # don[e].project /\ don[d].user # don[e].user
    /\ \A r \in ReviewReqs :
         rev[r].pc = "read" => rev[r].project # don[d].project
    /\ \A q \in ProfileReqs :
         prof[q].pc = "read" => prof[q].user # don[d].user
============================================================================
