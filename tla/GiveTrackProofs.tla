-------------------------- MODULE GiveTrackProofs --------------------------
(***************************************************************************)
(* Theorems about GiveTrack, for every set of users, projects and requests *)
(* and every opening balance.                                              *)
(***************************************************************************)
EXTENDS GiveTrack, SumTheorems

USE StoreAssumption, DonationAssumption, ReviewAssumption

----------------------------------------------------------------------------
(***************************************************************************)
(* Type correctness.                                                       *)
(***************************************************************************)

\* What an idle goroutine carries is of the right types.
LEMMA BlankType ==
  /\ Blank \in DonationRequest
  /\ NoReview \in ReviewRequest
  /\ NoProfile \in ProfileRequest
  /\ Blank.pc = "idle"
<1>1. /\ (CHOOSE p \in Projects : TRUE) \in Projects
      /\ (CHOOSE u \in Users : TRUE) \in Users
      /\ (CHOOSE a \in Amounts : TRUE) \in Amounts
  OBVIOUS
<1>2. QED
  BY <1>1 DEF Blank, DonationRequest, DonationPC, Snapshot, NoReview,
              ReviewRequest, ReviewPC, Decision, NoProfile, ProfileRequest

\* The row a donation writes is a project row.
LEMMA NewRowType ==
  ASSUME DonationTypeOK, NEW d \in DonationReqs
  PROVE  /\ NewProjectRow(d) \in ProjectRow
         /\ NewProjectRow(d).current = don[d].seen.project.current + don[d].amount
         /\ NewTotal(d) \in Nat
         /\ don[d] \in DonationRequest
         /\ don[d].amount \in Nat \ {0}
<1>1. don[d] \in DonationRequest
  BY DEF DonationTypeOK
<1>2. don[d].amount \in Nat \ {0} /\ don[d].seen.project \in ProjectRow
      /\ don[d].seen.total \in Nat /\ don[d].project \in Projects
  BY <1>1 DEF DonationRequest, Snapshot
<1>3. QED
  BY <1>1, <1>2 DEF NewProjectRow, NewTotal, ProjectRow, ProjectStatus

\* Locks taken by a donation are row locks.
LEMMA LockType ==
  ASSUME StoreTypeOK, DonationTypeOK, NEW d \in DonationReqs,
         NEW mode \in {"S", "X"}
  PROVE  /\ Holding(d, mode, {ProjectLock(d), UserLock(d)}) \subseteq RowLock
         /\ Holding(d, mode, {ProjectLock(d)}) \subseteq RowLock
         /\ Holding(d, mode, {UserLock(d)}) \subseteq RowLock
<1>1. ProjectLock(d) \in LockedRow /\ UserLock(d) \in LockedRow
  BY DEF DonationTypeOK, DonationRequest, ProjectLock, UserLock, LockedRow
<1>2. QED
  BY <1>1 DEF Holding, RowLock

LEMMA DonationStepType ==
  ASSUME StoreTypeOK, DonationTypeOK, NEW d \in DonationReqs, DonationStep(d)
  PROVE  StoreTypeOK' /\ DonationTypeOK'
<1> USE BlankType, NewRowType, LockType DEF DonationTypeOK, StoreTypeOK
<1>0. /\ don[d] \in DonationRequest
      /\ don[d].amount \in Nat
      /\ don[d].user \in Users
      /\ don[d].project \in Projects
  BY DEF DonationRequest
<1>1. CASE \E u \in Users, p \in Projects, a \in Amounts : Accept(d, u, p, a)
  <2>1. PICK u \in Users, p \in Projects, a \in Amounts : Accept(d, u, p, a)
    BY <1>1
  <2>2. [Blank EXCEPT !.pc = "accepted", !.user = u, !.project = p,
                      !.amount = a] \in DonationRequest
    BY DEF DonationRequest, DonationPC
  <2>3. QED
    BY <2>1, <2>2 DEF Accept, storeVars
<1>2. CASE Begin(d)
  BY <1>2 DEF Begin, tableVars, Goto, DonationRequest, DonationPC
<1>3. CASE ReadProject(d)
  <2>1. [project |-> project[don[d].project], total |-> total[don[d].user]]
          \in Snapshot
    BY DEF Snapshot, DonationRequest
  <2>2. QED
    BY <1>3, <2>1 DEF ReadProject, storeVars, DonationRequest, DonationPC
<1>4. CASE Refuse(d)
  BY <1>4 DEF Refuse, Finish, EndTx, tableVars
<1>5. CASE InsertDonation(d)
  BY <1>5 DEF InsertDonation, Goto, tableVars, DonationRequest, DonationPC
<1>6. CASE SaveProject(d)
  BY <1>6 DEF SaveProject, Goto, tableVars, DonationRequest, DonationPC
<1>7. CASE SaveUser(d)
  BY <1>7 DEF SaveUser, Goto, tableVars, DonationRequest, DonationPC
<1>8. CASE Apply(d) /\ (Goto(d, "committed") \/ Finish(d))
  <2>1. /\ project' \in [Projects -> ProjectRow]
        /\ total' \in [Users -> Nat]
        /\ locks' \subseteq RowLock
        /\ conns' \subseteq DonationReqs
    BY <1>8 DEF Apply, EndTx
  <2>2. /\ byProject' \in [Projects -> Nat]
        /\ byUser' \in [Users -> Nat]
    BY <1>0, <1>8 DEF Apply
  <2>3. DonationTypeOK'
    <3>1. acked' = acked
      BY <1>8 DEF Apply
    <3>2. CASE Goto(d, "committed")
      BY <3>1, <3>2 DEF Goto, DonationRequest, DonationPC
    <3>3. CASE Finish(d)
      BY <3>1, <3>3 DEF Finish
    <3>4. QED
      BY <1>8, <3>2, <3>3
  <2>4. QED
    BY <2>1, <2>2, <2>3
<1>9. CASE Abort(d)
  BY <1>9 DEF Abort, Finish, EndTx, tableVars
<1>10. CASE Reply(d)
  <2>1. acked' \in [Users -> Nat]
    BY <1>0, <1>10 DEF Reply
  <2>2. don' \in [DonationReqs -> DonationRequest]
    BY <1>10 DEF Reply, Finish
  <2>3. QED
    BY <1>10, <2>1, <2>2 DEF Reply, storeVars
<1>11. QED
  BY <1>1, <1>2, <1>3, <1>4, <1>5, <1>6, <1>7, <1>8, <1>9, <1>10
     DEF DonationStep, Commit, CommitUnacknowledged

LEMMA ReviewStepType ==
  ASSUME StoreTypeOK, ReviewTypeOK, NEW r \in ReviewReqs, ReviewStep(r)
  PROVE  StoreTypeOK' /\ ReviewTypeOK'
<1> USE BlankType DEF ReviewTypeOK, StoreTypeOK
<1>1. rev[r] \in ReviewRequest
  OBVIOUS
<1>2. CASE \E p \in Projects, decision \in Decision :
             ReadForReview(r, p, decision)
  <2>1. PICK p \in Projects, decision \in Decision :
               ReadForReview(r, p, decision)
    BY <1>2
  <2>2. project[p].current \in Nat
    BY DEF ProjectRow
  <2>3. QED
    BY <2>1, <2>2 DEF ReadForReview, storeVars, ReviewRequest, ReviewPC
<1>3. CASE SaveReview(r)
  <2>1. ReviewedRow(r) \in ProjectRow
    BY <1>1 DEF ReviewedRow, ReviewRequest, Decision, ProjectRow, ProjectStatus
  <2>2. QED
    BY <1>1, <1>3, <2>1 DEF SaveReview, ReviewRequest, ReviewPC
<1>4. CASE RecordReview(r)
  BY <1>1, <1>4 DEF RecordReview, storeVars, ReviewRequest
<1>5. CASE FailReview(r)
  BY <1>5 DEF FailReview, storeVars
<1>6. QED
  BY <1>2, <1>3, <1>4, <1>5 DEF ReviewStep

LEMMA ProfileStepType ==
  ASSUME StoreTypeOK, ProfileTypeOK, NEW q \in ProfileReqs, ProfileStep(q)
  PROVE  StoreTypeOK' /\ ProfileTypeOK'
<1> USE BlankType DEF ProfileTypeOK, StoreTypeOK
<1>1. prof[q] \in ProfileRequest
  OBVIOUS
<1>2. CASE \E u \in Users : ReadUser(q, u)
  BY <1>2 DEF ReadUser, storeVars, ProfileRequest
<1>3. CASE SaveProfile(q)
  BY <1>1, <1>3 DEF SaveProfile, ProfileRequest
<1>4. CASE FailProfile(q)
  BY <1>4 DEF FailProfile, storeVars
<1>5. QED
  BY <1>2, <1>3, <1>4 DEF ProfileStep

LEMMA CrashType ==
  ASSUME TypeOK, Crash
  PROVE  TypeOK'
BY BlankType DEF TypeOK, StoreTypeOK, DonationTypeOK, ReviewTypeOK,
   ProfileTypeOK, Crash, DonationCrash, ReviewCrash, ProfileCrash, tableVars

LEMMA InitType == Init => TypeOK
BY BlankType
   DEF Init, StoreInit, DonationInit, ReviewInit, ProfileInit, TypeOK,
       StoreTypeOK, DonationTypeOK, ReviewTypeOK, ProfileTypeOK

LEMMA NextType == TypeOK /\ [Next]_vars => TypeOK'
<1> SUFFICES ASSUME TypeOK, [Next]_vars PROVE TypeOK'
  OBVIOUS
<1> USE DEF TypeOK
<1>1. CASE \E d \in DonationReqs : Donate(d)
  BY <1>1, DonationStepType
     DEF Donate, reviewVars, ReviewTypeOK, ProfileTypeOK
<1>2. CASE \E r \in ReviewReqs : ReviewProject(r)
  BY <1>2, ReviewStepType
     DEF ReviewProject, donationVars, DonationTypeOK, ProfileTypeOK
<1>3. CASE \E q \in ProfileReqs : UpdateProfile(q)
  BY <1>3, ProfileStepType
     DEF UpdateProfile, donationVars, reviewVars, DonationTypeOK, ReviewTypeOK
<1>4. CASE Crash
  BY <1>4, CrashType
<1>5. CASE UNCHANGED vars
  BY <1>5 DEF vars, storeVars, donationVars, reviewVars, StoreTypeOK,
              DonationTypeOK, ReviewTypeOK, ProfileTypeOK
<1>6. QED
  BY <1>1, <1>2, <1>3, <1>4, <1>5 DEF Next

\* Every variable keeps its type: tables, locks and requests alike.
THEOREM TypeCorrect == Spec => []TypeOK
<1>1. QED
  BY InitType, NextType, PTL DEF Spec

----------------------------------------------------------------------------
(***************************************************************************)
(* NeverOverstated.  By itself it is not inductive: every handler writes   *)
(* back what it read earlier, so the invariant must cover what the         *)
(* requests in flight carry (SeenNotOverstated).  The sums only grow, so   *)
(* what was within them when it was read still is when it is written.      *)
(***************************************************************************)

Bounded == TypeOK /\ NeverOverstated /\ SeenNotOverstated

\* A step of a donation that neither reads nor commits: the tables stay,
\* and every request that has read carries what it carried before.
QuietDonation ==
  /\ UNCHANGED tableVars
  /\ \A e \in DonationReqs : HasRead(e)' =>
       /\ HasRead(e)
       /\ don'[e].project = don[e].project
       /\ don'[e].user = don[e].user
       /\ don'[e].amount = don[e].amount
       /\ don'[e].seen = don[e].seen

LEMMA DonationSteps ==
  ASSUME TypeOK, NEW d \in DonationReqs, DonationStep(d)
  PROVE  \/ QuietDonation
         \/ ReadProject(d)
         \/ Apply(d) /\ (Goto(d, "committed") \/ Finish(d))
<1> USE BlankType DEF TypeOK, DonationTypeOK, QuietDonation, HasRead
<1>0. don[d] \in DonationRequest
  OBVIOUS
<1>1. CASE \E u \in Users, p \in Projects, a \in Amounts : Accept(d, u, p, a)
  <2>1. PICK u \in Users, p \in Projects, a \in Amounts : Accept(d, u, p, a)
    BY <1>1
  <2>2. don'[d].pc = "accepted"
    BY <2>1, <1>0 DEF Accept, DonationRequest
  <2>3. QED
    BY <2>1, <2>2 DEF Accept, storeVars, tableVars
<1>2. CASE Begin(d)
  BY <1>0, <1>2 DEF Begin, Goto, DonationRequest
<1>3. CASE Refuse(d) \/ Abort(d)
  BY <1>3 DEF Refuse, Abort, Finish
<1>4. CASE InsertDonation(d)
  BY <1>0, <1>4 DEF InsertDonation, Goto, DonationRequest
<1>5. CASE SaveProject(d)
  BY <1>0, <1>5 DEF SaveProject, Goto, DonationRequest
<1>6. CASE SaveUser(d)
  BY <1>0, <1>6 DEF SaveUser, Goto, DonationRequest
<1>7. CASE Reply(d)
  BY <1>7 DEF Reply, Finish, storeVars, tableVars
<1>8. QED
  BY <1>1, <1>2, <1>3, <1>4, <1>5, <1>6, <1>7
     DEF DonationStep, Commit, CommitUnacknowledged

\* What COMMIT does to the tables and to the requests still under way.
LEMMA ApplyEffect ==
  ASSUME TypeOK, NEW d \in DonationReqs,
         Apply(d), Goto(d, "committed") \/ Finish(d)
  PROVE  /\ HasRead(d)
         /\ project' = [project EXCEPT ![don[d].project] = NewProjectRow(d)]
         /\ total' = [total EXCEPT ![don[d].user] = NewTotal(d)]
         /\ byProject' = [byProject EXCEPT ![don[d].project] = @ + don[d].amount]
         /\ byUser' = [byUser EXCEPT ![don[d].user] = @ + don[d].amount]
         /\ \A e \in DonationReqs : HasRead(e)' => e # d /\ don'[e] = don[e]
<1>1. don[d] \in DonationRequest
  BY DEF TypeOK, DonationTypeOK
<1>2. /\ don[d].pc = "user"
      /\ project' = [project EXCEPT ![don[d].project] = NewProjectRow(d)]
      /\ total' = [total EXCEPT ![don[d].user] = NewTotal(d)]
      /\ byProject' = [byProject EXCEPT ![don[d].project] = @ + don[d].amount]
      /\ byUser' = [byUser EXCEPT ![don[d].user] = @ + don[d].amount]
  BY DEF Apply
<1>3. ~ HasRead(d)' /\ \A e \in DonationReqs \ {d} : don'[e] = don[e]
  <2>1. CASE Goto(d, "committed")
    BY <1>1, <2>1 DEF Goto, HasRead, TypeOK, DonationTypeOK, DonationRequest
  <2>2. CASE Finish(d)
    BY <2>2, BlankType DEF Finish, HasRead, TypeOK, DonationTypeOK
  <2>3. QED
    BY <2>1, <2>2
<1>4. QED
  BY <1>2, <1>3 DEF HasRead

LEMMA DonateBounded ==
  ASSUME Bounded, NEW d \in DonationReqs, Donate(d)
  PROVE  NeverOverstated' /\ SeenNotOverstated'
<1> USE DEF Bounded
<1>0. DonationStep(d) /\ rev' = rev /\ prof' = prof
  BY DEF Donate, reviewVars
<1>1. CASE QuietDonation
  BY <1>0, <1>1
     DEF QuietDonation, tableVars, NeverOverstated, ProjectNotOverstated,
         DonorNotOverstated, SeenNotOverstated
<1>2. CASE ReadProject(d)
  <2>1. UNCHANGED tableVars
    BY <1>2 DEF ReadProject, storeVars, tableVars
  <2>2. \A e \in DonationReqs \ {d} : don'[e] = don[e]
    BY <1>2 DEF ReadProject, TypeOK, DonationTypeOK
  <2>3. /\ don'[d].seen.project = project[don[d].project]
        /\ don'[d].seen.total = total[don[d].user]
        /\ don'[d].project = don[d].project /\ don'[d].user = don[d].user
        /\ don[d].project \in Projects /\ don[d].user \in Users
    BY <1>2 DEF ReadProject, TypeOK, DonationTypeOK, DonationRequest
  <2>4. NeverOverstated'
    BY <2>1 DEF tableVars, NeverOverstated, ProjectNotOverstated,
                DonorNotOverstated
  <2>5. SeenNotOverstated'
    BY <1>0, <2>1, <2>2, <2>3
       DEF SeenNotOverstated, HasRead, tableVars, NeverOverstated,
           ProjectNotOverstated, DonorNotOverstated
  <2>6. QED
    BY <2>4, <2>5
<1>3. CASE Apply(d) /\ (Goto(d, "committed") \/ Finish(d))
  <2> DEFINE p == don[d].project
             u == don[d].user
             a == don[d].amount
  <2>1. /\ don[d] \in DonationRequest /\ a \in Nat \ {0}
        /\ p \in Projects /\ u \in Users
        /\ don[d].seen.project.current \in Nat /\ don[d].seen.total \in Nat
    BY NewRowType DEF TypeOK, DonationRequest, Snapshot, ProjectRow
  <2>2. /\ project' = [project EXCEPT ![p] = NewProjectRow(d)]
        /\ total' = [total EXCEPT ![u] = NewTotal(d)]
        /\ byProject' = [byProject EXCEPT ![p] = @ + a]
        /\ byUser' = [byUser EXCEPT ![u] = @ + a]
        /\ HasRead(d)
        /\ \A e \in DonationReqs : HasRead(e)' => e # d /\ don'[e] = don[e]
    BY <1>3, ApplyEffect
  <2>3. /\ NewProjectRow(d).current = don[d].seen.project.current + a
        /\ NewTotal(d) = don[d].seen.total + a
    BY NewRowType DEF TypeOK, NewTotal
  <2>4. /\ \A x \in Projects : byProject[x] \in Nat /\ byProject'[x] \in Nat
                                /\ byProject[x] <= byProject'[x]
                                /\ OpeningProject[x].current \in Nat
                                /\ project[x].current \in Nat
        /\ \A x \in Users : byUser[x] \in Nat /\ byUser'[x] \in Nat
                             /\ byUser[x] <= byUser'[x]
                             /\ OpeningTotal[x] \in Nat /\ total[x] \in Nat
    BY <2>1, <2>2 DEF TypeOK, StoreTypeOK, ProjectRow
  <2>5. /\ byProject'[p] = byProject[p] + a /\ byUser'[u] = byUser[u] + a
        /\ project'[p].current = don[d].seen.project.current + a
        /\ total'[u] = don[d].seen.total + a
        /\ \A x \in Projects \ {p} : project'[x] = project[x]
        /\ \A x \in Users \ {u} : total'[x] = total[x]
    BY <2>1, <2>2, <2>3 DEF TypeOK, StoreTypeOK
  <2>6. /\ don[d].seen.project.current <= OpeningProject[p].current + byProject[p]
        /\ don[d].seen.total <= OpeningTotal[u] + byUser[u]
    BY <2>2 DEF SeenNotOverstated
  <2>7. ProjectNotOverstated'
    <3> SUFFICES ASSUME NEW x \in Projects
                 PROVE  project'[x].current
                          <= OpeningProject[x].current + byProject'[x]
      BY DEF ProjectNotOverstated
    <3>1. CASE x = p
      BY <2>1, <2>4, <2>5, <2>6, <3>1
    <3>2. CASE x # p
      BY <2>4, <2>5, <3>2 DEF NeverOverstated, ProjectNotOverstated
    <3>3. QED
      BY <3>1, <3>2
  <2>8. DonorNotOverstated'
    <3> SUFFICES ASSUME NEW x \in Users
                 PROVE  total'[x] <= OpeningTotal[x] + byUser'[x]
      BY DEF DonorNotOverstated
    <3>1. CASE x = u
      BY <2>1, <2>4, <2>5, <2>6, <3>1
    <3>2. CASE x # u
      BY <2>4, <2>5, <3>2 DEF NeverOverstated, DonorNotOverstated
    <3>3. QED
      BY <3>1, <3>2
  <2>9. SeenNotOverstated'
    <3>1. ASSUME NEW e \in DonationReqs, HasRead(e)'
          PROVE  /\ don'[e].seen.project.current
                      <= OpeningProject[don'[e].project].current
                           + byProject'[don'[e].project]
                 /\ don'[e].seen.total
                      <= OpeningTotal[don'[e].user] + byUser'[don'[e].user]
      <4>1. don'[e] = don[e] /\ don[e] \in DonationRequest /\ HasRead(e)
        BY <2>2, <3>1 DEF HasRead, TypeOK, DonationTypeOK
      <4>2. /\ don[e].project \in Projects /\ don[e].user \in Users
            /\ don[e].seen.project.current \in Nat /\ don[e].seen.total \in Nat
        BY <4>1 DEF DonationRequest, Snapshot, ProjectRow
      <4>3. QED
        BY <2>4, <4>1, <4>2 DEF SeenNotOverstated
    <3>2. ASSUME NEW r \in ReviewReqs, rev[r].pc = "read"
          PROVE  rev[r].seen <= OpeningProject[rev[r].project].current
                                  + byProject'[rev[r].project]
      <4>1. rev[r].project \in Projects /\ rev[r].seen \in Nat
        BY DEF TypeOK, ReviewTypeOK, ReviewRequest
      <4>2. QED
        BY <2>4, <3>2, <4>1 DEF SeenNotOverstated
    <3>3. ASSUME NEW q \in ProfileReqs, prof[q].pc = "read"
          PROVE  prof[q].seen <= OpeningTotal[prof[q].user]
                                   + byUser'[prof[q].user]
      <4>1. prof[q].user \in Users /\ prof[q].seen \in Nat
        BY DEF TypeOK, ProfileTypeOK, ProfileRequest
      <4>2. QED
        BY <2>4, <3>3, <4>1 DEF SeenNotOverstated
    <3>4. QED
      BY <1>0, <3>1, <3>2, <3>3 DEF SeenNotOverstated
  <2>10. QED
    BY <2>7, <2>8, <2>9 DEF NeverOverstated
<1>4. QED
  BY <1>0, <1>1, <1>2, <1>3, DonationSteps

LEMMA ReviewBounded ==
  ASSUME Bounded, NEW r \in ReviewReqs, ReviewProject(r)
  PROVE  NeverOverstated' /\ SeenNotOverstated'
<1> USE BlankType DEF Bounded
<1>0. /\ ReviewStep(r) /\ don' = don /\ prof' = prof
      /\ total' = total /\ byProject' = byProject /\ byUser' = byUser
      /\ \A x \in ReviewReqs \ {r} : rev'[x] = rev[x]
      /\ rev[r] \in ReviewRequest
  BY DEF ReviewProject, donationVars, ReviewStep, ReadForReview, SaveReview,
         RecordReview, FailReview, storeVars, TypeOK, ReviewTypeOK
<1>1. DonorNotOverstated'
  BY <1>0 DEF NeverOverstated, DonorNotOverstated
<1>2. CASE \E p \in Projects, decision \in Decision :
             ReadForReview(r, p, decision)
  <2>1. PICK p \in Projects, decision \in Decision :
               ReadForReview(r, p, decision)
    BY <1>2
  <2>2. /\ rev'[r].project = p /\ rev'[r].seen = project[p].current
        /\ project' = project
    BY <2>1 DEF ReadForReview, storeVars, TypeOK, ReviewTypeOK
  <2>3. QED
    BY <1>0, <1>1, <2>2
       DEF NeverOverstated, ProjectNotOverstated, SeenNotOverstated, HasRead
<1>3. CASE SaveReview(r)
  <2>1. /\ rev[r].project \in Projects
        /\ rev[r].seen <= OpeningProject[rev[r].project].current
                            + byProject[rev[r].project]
        /\ project' = [project EXCEPT ![rev[r].project] = ReviewedRow(r)]
        /\ ReviewedRow(r).current = rev[r].seen
        /\ rev'[r].pc = "saved"
    BY <1>0, <1>3 DEF SaveReview, ReviewRequest, ReviewedRow, SeenNotOverstated,
                      TypeOK, ReviewTypeOK
  <2>2. ProjectNotOverstated'
    BY <1>0, <2>1 DEF NeverOverstated, ProjectNotOverstated, TypeOK, StoreTypeOK
  <2>3. SeenNotOverstated'
    BY <1>0, <2>1 DEF SeenNotOverstated, HasRead
  <2>4. QED
    BY <1>1, <2>2, <2>3 DEF NeverOverstated
<1>4. CASE RecordReview(r) \/ FailReview(r)
  <2>1. project' = project /\ rev'[r].pc = "idle"
    BY <1>4 DEF RecordReview, FailReview, storeVars, TypeOK, ReviewTypeOK,
                NoReview
  <2>2. QED
    BY <1>0, <1>1, <2>1
       DEF NeverOverstated, ProjectNotOverstated, SeenNotOverstated, HasRead
<1>5. QED
  BY <1>0, <1>2, <1>3, <1>4 DEF ReviewStep

LEMMA ProfileBounded ==
  ASSUME Bounded, NEW q \in ProfileReqs, UpdateProfile(q)
  PROVE  NeverOverstated' /\ SeenNotOverstated'
<1> USE DEF Bounded
<1>0. /\ ProfileStep(q) /\ don' = don /\ rev' = rev
      /\ project' = project /\ byProject' = byProject /\ byUser' = byUser
      /\ \A x \in ProfileReqs \ {q} : prof'[x] = prof[x]
      /\ prof[q] \in ProfileRequest
  BY DEF UpdateProfile, donationVars, reviewVars, ProfileStep, ReadUser,
         SaveProfile, FailProfile, storeVars, TypeOK, ProfileTypeOK
<1>1. ProjectNotOverstated'
  BY <1>0 DEF NeverOverstated, ProjectNotOverstated
<1>2. CASE \E u \in Users : ReadUser(q, u)
  <2>1. PICK u \in Users : ReadUser(q, u)
    BY <1>2
  <2>2. prof'[q].user = u /\ prof'[q].seen = total[u] /\ total' = total
    BY <2>1 DEF ReadUser, storeVars, TypeOK, ProfileTypeOK
  <2>3. QED
    BY <1>0, <1>1, <2>2
       DEF NeverOverstated, DonorNotOverstated, SeenNotOverstated, HasRead
<1>3. CASE SaveProfile(q)
  <2>1. /\ prof[q].user \in Users
        /\ prof[q].seen <= OpeningTotal[prof[q].user] + byUser[prof[q].user]
        /\ total' = [total EXCEPT ![prof[q].user] = prof[q].seen]
        /\ prof'[q].pc = "idle"
    BY <1>0, <1>3 DEF SaveProfile, ProfileRequest, SeenNotOverstated, TypeOK,
                      ProfileTypeOK, NoProfile
  <2>2. DonorNotOverstated'
    BY <1>0, <2>1 DEF NeverOverstated, DonorNotOverstated, TypeOK, StoreTypeOK
  <2>3. SeenNotOverstated'
    BY <1>0, <2>1 DEF SeenNotOverstated, HasRead
  <2>4. QED
    BY <1>1, <2>2, <2>3 DEF NeverOverstated
<1>4. CASE FailProfile(q)
  <2>1. total' = total /\ prof'[q].pc = "idle"
    BY <1>4 DEF FailProfile, storeVars, TypeOK, ProfileTypeOK, NoProfile
  <2>2. QED
    BY <1>0, <1>1, <2>1
       DEF NeverOverstated, DonorNotOverstated, SeenNotOverstated, HasRead
<1>5. QED
  BY <1>0, <1>2, <1>3, <1>4 DEF ProfileStep

\* A crash leaves the tables, and no request in flight.
LEMMA CrashEffect ==
  ASSUME Crash
  PROVE  /\ UNCHANGED tableVars
         /\ UNCHANGED <<acked, audit, applied, started>>
         /\ \A d \in DonationReqs : don'[d].pc = "idle"
         /\ \A r \in ReviewReqs : rev'[r].pc = "idle"
         /\ \A q \in ProfileReqs : prof'[q].pc = "idle"
BY BlankType DEF Crash, DonationCrash, ReviewCrash, ProfileCrash, NoReview,
                 NoProfile

LEMMA InitBounded == Init => Bounded
<1> SUFFICES ASSUME Init PROVE Bounded
  OBVIOUS
<1>1. NeverOverstated
  BY DEF Init, StoreInit, NeverOverstated, ProjectNotOverstated,
         DonorNotOverstated, ProjectRow
<1>2. SeenNotOverstated
  BY BlankType DEF Init, DonationInit, ReviewInit, ProfileInit,
                   SeenNotOverstated, HasRead, NoReview, NoProfile
<1>3. QED
  BY <1>1, <1>2, InitType DEF Bounded

LEMMA NextBounded == Bounded /\ [Next]_vars => Bounded'
<1> SUFFICES ASSUME Bounded, [Next]_vars PROVE Bounded'
  OBVIOUS
<1>1. TypeOK'
  BY NextType DEF Bounded
<1>2. CASE \E d \in DonationReqs : Donate(d)
  BY <1>1, <1>2, DonateBounded DEF Bounded
<1>3. CASE \E r \in ReviewReqs : ReviewProject(r)
  BY <1>1, <1>3, ReviewBounded DEF Bounded
<1>4. CASE \E q \in ProfileReqs : UpdateProfile(q)
  BY <1>1, <1>4, ProfileBounded DEF Bounded
<1>5. CASE Crash
  <2>1. NeverOverstated'
    BY <1>5, CrashEffect DEF tableVars, Bounded, NeverOverstated,
                             ProjectNotOverstated, DonorNotOverstated
  <2>2. SeenNotOverstated'
    BY <1>5, CrashEffect DEF SeenNotOverstated, HasRead
  <2>3. QED
    BY <1>1, <2>1, <2>2 DEF Bounded
<1>6. CASE UNCHANGED vars
  BY <1>1, <1>6
     DEF vars, storeVars, donationVars, reviewVars, Bounded, NeverOverstated,
         ProjectNotOverstated, DonorNotOverstated, SeenNotOverstated, HasRead
<1>7. QED
  BY <1>2, <1>3, <1>4, <1>5, <1>6 DEF Next

\* No total shown, of a project or of a donor, ever exceeds what the donation
\* records add up to, however the three handlers interleave, fail or crash.
THEOREM TotalsNeverOverstated == Spec => []NeverOverstated
<1>1. Bounded => NeverOverstated
  BY DEF Bounded
<1>2. QED
  BY InitBounded, NextBounded, <1>1, PTL DEF Spec

----------------------------------------------------------------------------
(***************************************************************************)
(* The status of a project.  A donation writes back the status it read, so *)
(* the invariant says of every donation under way what that status was and *)
(* that the project had been reviewed by then (SeenApproved).              *)
(***************************************************************************)

StatusSound == PendingUntouched /\ DisplayedWasApproved /\ CompletedIsFunded
Reviewed == TypeOK /\ StatusSound /\ SeenApproved

\* No step puts the status "pending" where there was another one.
StaysReviewed ==
  \A p \in Projects :
    project'[p].status = "pending" => project[p].status = "pending"

LEMMA DonateReviewed ==
  ASSUME Reviewed, NEW d \in DonationReqs, Donate(d)
  PROVE  StatusSound' /\ SeenApproved' /\ StaysReviewed
<1> USE DEF Reviewed
<1>0. DonationStep(d) /\ applied' = applied
  BY DEF Donate, reviewVars
<1>1. CASE QuietDonation
  BY <1>0, <1>1
     DEF QuietDonation, tableVars, StatusSound, PendingUntouched,
         DisplayedWasApproved, CompletedIsFunded, SeenApproved, StaysReviewed
<1>2. CASE ReadProject(d)
  <2>1. UNCHANGED tableVars
    BY <1>2 DEF ReadProject, storeVars, tableVars
  <2>2. /\ \A e \in DonationReqs \ {d} : don'[e] = don[e]
        /\ don'[d].seen.project = project[don[d].project]
        /\ don'[d].project = don[d].project /\ don[d].project \in Projects
        /\ project[don[d].project].status = "approved"
    BY <1>2 DEF ReadProject, TypeOK, DonationTypeOK, DonationRequest
  <2>3. StatusSound' /\ StaysReviewed
    BY <1>0, <2>1
       DEF tableVars, StatusSound, PendingUntouched, DisplayedWasApproved,
           CompletedIsFunded, StaysReviewed
  <2>4. SeenApproved'
    BY <1>0, <2>1, <2>2
       DEF SeenApproved, HasRead, tableVars, StatusSound, DisplayedWasApproved
  <2>5. QED
    BY <2>3, <2>4
<1>3. CASE Apply(d) /\ (Goto(d, "committed") \/ Finish(d))
  <2> DEFINE p == don[d].project
             row == NewProjectRow(d)
  <2>1. /\ HasRead(d)
        /\ project' = [project EXCEPT ![p] = row]
        /\ byProject' = [byProject EXCEPT ![p] = @ + don[d].amount]
        /\ \A e \in DonationReqs : HasRead(e)' => e # d /\ don'[e] = don[e]
    BY <1>3, ApplyEffect
  <2>2. p \in Projects
    BY DEF TypeOK, DonationTypeOK, DonationRequest
  <2>3. /\ don[d].seen.project.status = "approved"
        /\ \/ OpeningProject[p].status \in {"approved", "completed"}
           \/ <<p, "approved">> \in applied
    BY <2>1 DEF SeenApproved
  <2>4. /\ row.status \in {"approved", "completed"}
        /\ row.status = "completed" => row.current >= Target[p]
    BY <2>3 DEF NewProjectRow
  <2>5. /\ project'[p] = row
        /\ \A x \in Projects \ {p} :
             project'[x] = project[x] /\ byProject'[x] = byProject[x]
    BY <2>1, <2>2 DEF TypeOK, StoreTypeOK
  <2>6. StaysReviewed
    BY <2>4, <2>5 DEF StaysReviewed
  <2>7. PendingUntouched'
    BY <2>4, <2>5 DEF StatusSound, PendingUntouched
  <2>8. DisplayedWasApproved'
    BY <1>0, <2>3, <2>5 DEF StatusSound, DisplayedWasApproved
  <2>9. CompletedIsFunded'
    BY <2>4, <2>5 DEF StatusSound, CompletedIsFunded
  <2>10. SeenApproved'
    <3> SUFFICES ASSUME NEW e \in DonationReqs, HasRead(e)'
                 PROVE  /\ don'[e].seen.project.status = "approved"
                        /\ project'[don'[e].project].status # "pending"
                        /\ \/ OpeningProject[don'[e].project].status
                                \in {"approved", "completed"}
                           \/ <<don'[e].project, "approved">> \in applied
      BY <1>0 DEF SeenApproved
    <3>1. don'[e] = don[e] /\ HasRead(e) /\ don[e].project \in Projects
      BY <2>1 DEF HasRead, TypeOK, DonationTypeOK, DonationRequest
    <3>2. QED
      BY <2>6, <3>1 DEF SeenApproved, StaysReviewed
  <2>11. QED
    BY <2>6, <2>7, <2>8, <2>9, <2>10 DEF StatusSound
<1>4. QED
  BY <1>0, <1>1, <1>2, <1>3, DonationSteps

LEMMA ReviewReviewed ==
  ASSUME Reviewed, NEW r \in ReviewReqs, ReviewProject(r)
  PROVE  StatusSound' /\ SeenApproved' /\ StaysReviewed
<1> USE DEF Reviewed
<1>0. ReviewStep(r) /\ don' = don
  BY DEF ReviewProject, donationVars
<1>1. CASE SaveReview(r)
  <2> DEFINE p == rev[r].project
  <2>1. /\ p \in Projects
        /\ project' = [project EXCEPT ![p] = ReviewedRow(r)]
        /\ byProject' = byProject
        /\ applied' = applied \union {<<p, rev[r].decision>>}
        /\ ReviewedRow(r).status = rev[r].decision
        /\ rev[r].decision \in {"approved", "rejected"}
    BY <1>1 DEF SaveReview, ReviewedRow, TypeOK, ReviewTypeOK, ReviewRequest,
                Decision
  <2>2. /\ project'[p].status = rev[r].decision
        /\ \A x \in Projects \ {p} : project'[x] = project[x]
    BY <2>1 DEF TypeOK, StoreTypeOK
  <2>3. StaysReviewed
    BY <2>1, <2>2 DEF StaysReviewed
  <2>4. PendingUntouched' /\ DisplayedWasApproved' /\ CompletedIsFunded'
    BY <2>1, <2>2 DEF StatusSound, PendingUntouched, DisplayedWasApproved,
                      CompletedIsFunded
  <2>5. SeenApproved'
    <3>1. \A d \in DonationReqs : don[d].project \in Projects
      BY DEF TypeOK, DonationTypeOK, DonationRequest
    <3>2. QED
      BY <1>0, <2>1, <2>3, <3>1 DEF SeenApproved, HasRead, StaysReviewed
  <2>6. QED
    BY <2>3, <2>4, <2>5 DEF StatusSound
<1>2. CASE ~ SaveReview(r)
  <2>1. project' = project /\ byProject' = byProject /\ applied' = applied
    BY <1>0, <1>2 DEF ReviewStep, ReadForReview, RecordReview, FailReview,
                      storeVars
  <2>2. QED
    BY <1>0, <2>1
       DEF StatusSound, PendingUntouched, DisplayedWasApproved,
           CompletedIsFunded, SeenApproved, HasRead, StaysReviewed
<1>3. QED
  BY <1>1, <1>2

LEMMA InitReviewed == Init => Reviewed
<1> SUFFICES ASSUME Init PROVE Reviewed
  OBVIOUS
<1>1. PendingUntouched /\ DisplayedWasApproved /\ CompletedIsFunded
  BY DEF Init, StoreInit, PendingUntouched, DisplayedWasApproved,
         CompletedIsFunded, Consistent
<1>2. SeenApproved
  BY BlankType DEF Init, DonationInit, SeenApproved, HasRead
<1>3. QED
  BY <1>1, <1>2, InitType DEF Reviewed, StatusSound

LEMMA NextReviewed ==
  Reviewed /\ [Next]_vars => Reviewed' /\ StaysReviewed
<1> SUFFICES ASSUME Reviewed, [Next]_vars PROVE Reviewed' /\ StaysReviewed
  OBVIOUS
<1>1. TypeOK'
  BY NextType DEF Reviewed
<1>2. CASE \E d \in DonationReqs : Donate(d)
  BY <1>1, <1>2, DonateReviewed DEF Reviewed
<1>3. CASE \E r \in ReviewReqs : ReviewProject(r)
  BY <1>1, <1>3, ReviewReviewed DEF Reviewed
<1>4. CASE \E q \in ProfileReqs : UpdateProfile(q)
  <2>1. /\ project' = project /\ byProject' = byProject
        /\ don' = don /\ applied' = applied
    BY <1>4 DEF UpdateProfile, donationVars, reviewVars, ProfileStep, ReadUser,
                SaveProfile, FailProfile, storeVars
  <2>2. QED
    BY <1>1, <2>1
       DEF Reviewed, StatusSound, PendingUntouched, DisplayedWasApproved,
           CompletedIsFunded, SeenApproved, HasRead, StaysReviewed
<1>5. CASE Crash
  <2>1. StatusSound' /\ StaysReviewed
    BY <1>5, CrashEffect
       DEF tableVars, Reviewed, StatusSound, PendingUntouched,
           DisplayedWasApproved, CompletedIsFunded, StaysReviewed
  <2>2. SeenApproved'
    BY <1>5, CrashEffect DEF SeenApproved, HasRead
  <2>3. QED
    BY <1>1, <2>1, <2>2 DEF Reviewed
<1>6. CASE UNCHANGED vars
  BY <1>1, <1>6
     DEF vars, storeVars, donationVars, reviewVars, Reviewed, StatusSound,
         PendingUntouched, DisplayedWasApproved, CompletedIsFunded,
         SeenApproved, HasRead, StaysReviewed
<1>7. QED
  BY <1>2, <1>3, <1>4, <1>5, <1>6 DEF Next

\* Donations only ever go to reviewed projects: a pending one shows no money
\* and has no records.
THEOREM PendingProjectsUntouched == Spec => []PendingUntouched
<1>1. Reviewed => PendingUntouched
  BY DEF Reviewed, StatusSound
<1>2. QED
  BY InitReviewed, NextReviewed, <1>1, PTL DEF Spec

\* Nothing is displayed that no administrator ever approved.
THEOREM OnlyApprovedDisplayed == Spec => []DisplayedWasApproved
<1>1. Reviewed => DisplayedWasApproved
  BY DEF Reviewed, StatusSound
<1>2. QED
  BY InitReviewed, NextReviewed, <1>1, PTL DEF Spec

\* "completed" always comes with the target, whatever stale rows are saved.
THEOREM CompletedMeansFunded == Spec => []CompletedIsFunded
<1>1. Reviewed => CompletedIsFunded
  BY DEF Reviewed, StatusSound
<1>2. QED
  BY InitReviewed, NextReviewed, <1>1, PTL DEF Spec

\* A reviewed project never returns to the review queue.
THEOREM ReviewIsFinal == Spec => NeverBackToPending
<1>1. Reviewed /\ [Next]_vars => [StaysReviewed]_vars
  BY NextReviewed
<1>2. QED
  BY InitReviewed, NextReviewed, <1>1, PTL
     DEF Spec, NeverBackToPending, StaysReviewed

----------------------------------------------------------------------------
\* A review that is about to be recorded has been applied.
AuditTrail ==
  /\ AuditFollowsDecision
  /\ \A r \in ReviewReqs :
       rev[r].pc = "saved" => <<rev[r].project, rev[r].decision>> \in applied

LEMMA NextAudit == TypeOK /\ AuditTrail /\ [Next]_vars => AuditTrail'
<1> SUFFICES ASSUME TypeOK, AuditTrail, [Next]_vars PROVE AuditTrail'
  OBVIOUS
<1> USE DEF AuditTrail, AuditFollowsDecision
<1>1. ASSUME NEW r \in ReviewReqs, ReviewProject(r) PROVE AuditTrail'
  <2>0. rev \in [ReviewReqs -> ReviewRequest]
    BY DEF TypeOK, ReviewTypeOK
  <2>1. ASSUME NEW p \in Projects, NEW decision \in Decision,
               ReadForReview(r, p, decision)
        PROVE AuditTrail'
    <3>1. /\ rev'[r].pc = "read" /\ audit' = audit /\ applied' = applied
          /\ \A s \in ReviewReqs \ {r} : rev'[s] = rev[s]
      BY <2>0, <2>1 DEF ReadForReview
    <3> QED BY <3>1
  <2>2. CASE SaveReview(r)
    <3>1. /\ rev[r].pc = "read" /\ audit' = audit
          /\ applied' = applied \union {<<rev[r].project, rev[r].decision>>}
          /\ rev' = [rev EXCEPT ![r].pc = "saved"]
      BY <2>2 DEF SaveReview
    <3>2. /\ rev'[r].project = rev[r].project
          /\ rev'[r].decision = rev[r].decision
          /\ \A s \in ReviewReqs \ {r} : rev'[s] = rev[s]
      BY <2>0, <3>1 DEF ReviewRequest
    <3> QED BY <3>1, <3>2
  <2>3. CASE RecordReview(r)
    <3>1. /\ rev[r].pc = "saved" /\ applied' = applied
          /\ audit' = audit \union {<<rev[r].project, rev[r].decision>>}
          /\ rev'[r].pc = "idle"
          /\ \A s \in ReviewReqs \ {r} : rev'[s] = rev[s]
      BY <2>0, <2>3 DEF RecordReview, NoReview
    <3> QED BY <3>1
  <2>4. CASE FailReview(r)
    <3>1. /\ rev'[r].pc = "idle" /\ audit' = audit /\ applied' = applied
          /\ \A s \in ReviewReqs \ {r} : rev'[s] = rev[s]
      BY <2>0, <2>4 DEF FailReview, NoReview
    <3> QED BY <3>1
  <2> QED BY <1>1, <2>1, <2>2, <2>3, <2>4 DEF ReviewProject, ReviewStep
<1>2. CASE \/ \E d \in DonationReqs : Donate(d)
           \/ \E q \in ProfileReqs : UpdateProfile(q)
  <2>1. rev' = rev /\ audit' = audit /\ applied' = applied
    BY <1>2 DEF Donate, UpdateProfile, reviewVars
  <2> QED BY <2>1
<1>3. CASE Crash
  BY <1>3, CrashEffect
<1>4. CASE UNCHANGED vars
  BY <1>4 DEF vars, reviewVars
<1> QED BY <1>1, <1>2, <1>3, <1>4 DEF Next

\* The audit trail never runs ahead of the tables, whatever fails or dies
\* between the update and its record.
THEOREM AuditIsTrue == Spec => []AuditFollowsDecision
<1>1. Init => AuditTrail
  BY DEF Init, ReviewInit, NoReview, AuditTrail, AuditFollowsDecision
<1>2. AuditTrail => AuditFollowsDecision
  BY DEF AuditTrail
<1> QED BY <1>1, <1>2, TypeCorrect, NextAudit, PTL DEF Spec

----------------------------------------------------------------------------
(***************************************************************************)
(* Connections and locks.                                                  *)
(***************************************************************************)

HoldsInv == TypeOK /\ NoLeak /\ LocksHeld /\ LocksCompatible

LEMMA FiniteConns ==
  ASSUME TypeOK
  PROVE  IsFiniteSet(conns) /\ Cardinality(conns) \in Nat
<1>1. conns \subseteq DonationReqs
  BY DEF TypeOK, StoreTypeOK
<1>2. IsFiniteSet(conns)
  BY <1>1, FS_Subset
<1>3. QED
  BY <1>2, FS_CardinalityType

\* The end of a transaction: it holds nothing any more, the others what they
\* held before.
LEMMA EndTxHolds ==
  ASSUME HoldsInv, NEW d \in DonationReqs, EndTx(d),
         don'[d].pc \in {"idle", "committed"},
         \A e \in DonationReqs \ {d} : don'[e] = don[e]
  PROVE  NoLeak' /\ LocksHeld' /\ LocksCompatible'
<1> USE DEF HoldsInv
<1>1. conns' = {e \in DonationReqs : InTx(e)'}
  BY DEF NoLeak, EndTx, InTx
<1>2. Cardinality(conns') <= MaxOpenConns
  <2>1. /\ IsFiniteSet(conns) /\ Cardinality(conns) \in Nat
        /\ Cardinality(conns) <= MaxOpenConns
    BY FiniteConns DEF NoLeak
  <2>2. /\ IsFiniteSet(conns \ {d})
        /\ Cardinality(conns \ {d}) = IF d \in conns THEN Cardinality(conns) - 1
                                                     ELSE Cardinality(conns)
    BY <2>1, FS_RemoveElement
  <2>3. Cardinality(conns') = Cardinality(conns \ {d})
    BY DEF EndTx
  <2>4. QED
    BY <2>1, <2>2, <2>3
<1>3. NoLeak'
  BY <1>1, <1>2 DEF NoLeak, EndTx
<1>4. LocksCompatible'
  BY DEF LocksCompatible, EndTx
<1>5. LocksHeld'
  <2> SUFFICES ASSUME NEW e \in DonationReqs, e # d
               PROVE  /\ don[e].pc \in {"inserted", "project", "user"} =>
                           Holding(e, "S", {ProjectLock(e), UserLock(e)})
                             \subseteq locks'
                      /\ don[e].pc \in {"project", "user"} =>
                           Holding(e, "X", {ProjectLock(e)}) \subseteq locks'
                      /\ don[e].pc = "user" =>
                           Holding(e, "X", {UserLock(e)}) \subseteq locks'
    BY DEF LocksHeld, ProjectLock, UserLock
  <2>1. QED
    BY DEF LocksHeld, EndTx, Holding
<1>6. QED
  BY <1>3, <1>4, <1>5

\* A statement of an open transaction that takes the locks in new.
LEMMA TakeLocksHolds ==
  ASSUME HoldsInv, NEW d \in DonationReqs, InTx(d), InTx(d)',
         conns' = conns,
         \A e \in DonationReqs \ {d} : don'[e] = don[e],
         NEW new, locks' = locks \union new,
         \A l \in new : l.owner = d,
         \A k, l \in new : k.owner = l.owner,
         \A l \in new : CanLock(d, l.row, l.mode),
         LocksHeld'
  PROVE  NoLeak' /\ LocksHeld' /\ LocksCompatible'
<1> USE DEF HoldsInv
<1>1. NoLeak'
  BY DEF NoLeak, InTx
<1>2. LocksCompatible'
  <2> SUFFICES ASSUME NEW k \in locks', NEW l \in locks',
                      k.row = l.row, k.owner # l.owner
               PROVE  k.mode = "S" /\ l.mode = "S"
    BY DEF LocksCompatible
  <2>1. CASE k \in locks /\ l \in locks
    BY <2>1 DEF LocksCompatible
  <2>2. CASE k \in new /\ l \in locks
    BY <2>2 DEF CanLock
  <2>3. CASE k \in locks /\ l \in new
    BY <2>3 DEF CanLock
  <2>4. QED
    BY <2>1, <2>2, <2>3
<1>3. QED
  BY <1>1, <1>2

LEMMA DonateHolds ==
  ASSUME HoldsInv, NEW d \in DonationReqs, DonationStep(d)
  PROVE  NoLeak' /\ LocksHeld' /\ LocksCompatible'
<1> USE BlankType DEF HoldsInv
<1>0. /\ don[d] \in DonationRequest
      /\ don \in [DonationReqs -> DonationRequest]
  BY DEF TypeOK, DonationTypeOK
<1>1. CASE Refuse(d) \/ Abort(d)
  BY <1>0, <1>1, EndTxHolds DEF Refuse, Abort, Finish
<1>2. CASE Apply(d) /\ (Goto(d, "committed") \/ Finish(d))
  <2>1. don'[d].pc \in {"idle", "committed"}
        /\ \A e \in DonationReqs \ {d} : don'[e] = don[e]
    <3>1. CASE Goto(d, "committed")
      BY <1>0, <3>1 DEF Goto, DonationRequest
    <3>2. CASE Finish(d)
      BY <1>0, <3>2 DEF Finish
    <3>3. QED
      BY <1>2, <3>1, <3>2
  <2>2. EndTx(d)
    BY <1>2 DEF Apply
  <2>3. QED
    BY <2>1, <2>2, EndTxHolds
<1>3. CASE Begin(d)
  <2>1. /\ don[d].pc = "accepted" /\ don'[d].pc = "begun"
        /\ \A e \in DonationReqs \ {d} : don'[e] = don[e]
        /\ conns' = conns \union {d} /\ locks' = locks
        /\ Cardinality(conns) < MaxOpenConns
    BY <1>0, <1>3 DEF Begin, Goto, ConnFree, DonationRequest
  <2>2. conns' = {e \in DonationReqs : InTx(e)'}
    BY <2>1 DEF NoLeak, InTx
  <2>3. Cardinality(conns') <= MaxOpenConns
    <3>1. IsFiniteSet(conns) /\ Cardinality(conns) \in Nat
      BY FiniteConns
    <3>2. Cardinality(conns \union {d}) = IF d \in conns THEN Cardinality(conns)
                                           ELSE Cardinality(conns) + 1
      BY <3>1, FS_AddElement
    <3>3. QED
      BY <2>1, <3>1, <3>2
  <2>4. NoLeak'
    BY <2>1, <2>2, <2>3 DEF NoLeak
  <2>5. LocksHeld' /\ LocksCompatible'
    BY <2>1 DEF LocksHeld, LocksCompatible, ProjectLock, UserLock
  <2>6. QED
    BY <2>4, <2>5
<1>4. CASE \/ \E u \in Users, p \in Projects, a \in Amounts : Accept(d, u, p, a)
           \/ ReadProject(d)
           \/ Reply(d)
  <2>1. /\ don[d].pc \in {"idle", "begun", "committed"}
        /\ InTx(d)' <=> InTx(d)
        /\ don'[d].pc \in {"idle", "accepted", "read"}
        /\ \A e \in DonationReqs \ {d} : don'[e] = don[e]
        /\ conns' = conns /\ locks' = locks
    <3>1. CASE \E u \in Users, p \in Projects, a \in Amounts :
                 Accept(d, u, p, a)
      <4>1. PICK u \in Users, p \in Projects, a \in Amounts :
                   Accept(d, u, p, a)
        BY <3>1
      <4>2. /\ don[d].pc = "idle" /\ don'[d].pc = "accepted"
            /\ \A e \in DonationReqs \ {d} : don'[e] = don[e]
        BY <1>0, <4>1 DEF Accept, DonationRequest
      <4>3. QED
        BY <4>1, <4>2 DEF Accept, storeVars, InTx
    <3>2. CASE ReadProject(d)
      BY <1>0, <3>2 DEF ReadProject, storeVars, InTx, DonationRequest
    <3>3. CASE Reply(d)
      BY <1>0, <3>3 DEF Reply, Finish, storeVars, InTx
    <3>4. QED
      BY <1>4, <3>1, <3>2, <3>3
  <2>2. NoLeak'
    BY <2>1 DEF NoLeak, InTx
  <2>3. LocksHeld' /\ LocksCompatible'
    BY <2>1 DEF LocksHeld, LocksCompatible, ProjectLock, UserLock
  <2>4. QED
    BY <2>2, <2>3
<1>5. CASE InsertDonation(d)
  <2> DEFINE new == Holding(d, "S", {ProjectLock(d), UserLock(d)})
  <2>1. /\ don[d].pc = "read" /\ don'[d].pc = "inserted"
        /\ don'[d].project = don[d].project /\ don'[d].user = don[d].user
        /\ \A e \in DonationReqs \ {d} : don'[e] = don[e]
        /\ conns' = conns /\ locks' = locks \union new
    BY <1>0, <1>5 DEF InsertDonation, Goto, DonationRequest
  <2>2. \A l \in new : l.owner = d /\ CanLock(d, l.row, l.mode)
    BY <1>5 DEF InsertDonation, Holding
  <2>3. LocksHeld'
    BY <2>1 DEF LocksHeld, ProjectLock, UserLock
  <2>4. QED
    BY <2>1, <2>2, <2>3, TakeLocksHolds DEF InTx
<1>6. CASE SaveProject(d)
  <2> DEFINE new == Holding(d, "X", {ProjectLock(d)})
  <2>1. /\ don[d].pc = "inserted" /\ don'[d].pc = "project"
        /\ don'[d].project = don[d].project /\ don'[d].user = don[d].user
        /\ \A e \in DonationReqs \ {d} : don'[e] = don[e]
        /\ conns' = conns /\ locks' = locks \union new
    BY <1>0, <1>6 DEF SaveProject, Goto, DonationRequest
  <2>2. \A l \in new : l.owner = d /\ CanLock(d, l.row, l.mode)
    BY <1>6 DEF SaveProject, Holding
  <2>3. LocksHeld'
    BY <2>1 DEF LocksHeld, ProjectLock, UserLock
  <2>4. QED
    BY <2>1, <2>2, <2>3, TakeLocksHolds DEF InTx
<1>7. CASE SaveUser(d)
  <2> DEFINE new == Holding(d, "X", {UserLock(d)})
  <2>1. /\ don[d].pc = "project" /\ don'[d].pc = "user"
        /\ don'[d].project = don[d].project /\ don'[d].user = don[d].user
        /\ \A e \in DonationReqs \ {d} : don'[e] = don[e]
        /\ conns' = conns /\ locks' = locks \union new
    BY <1>0, <1>7 DEF SaveUser, Goto, DonationRequest
  <2>2. \A l \in new : l.owner = d /\ CanLock(d, l.row, l.mode)
    BY <1>7 DEF SaveUser, Holding
  <2>3. LocksHeld'
    BY <2>1 DEF LocksHeld, ProjectLock, UserLock
  <2>4. QED
    BY <2>1, <2>2, <2>3, TakeLocksHolds DEF InTx
<1>8. QED
  BY <1>1, <1>2, <1>3, <1>4, <1>5, <1>6, <1>7
     DEF DonationStep, Commit, CommitUnacknowledged

LEMMA InitHolds == Init => HoldsInv
<1> SUFFICES ASSUME Init PROVE HoldsInv
  OBVIOUS
<1>1. /\ locks = {} /\ conns = {}
      /\ \A d \in DonationReqs : don[d].pc = "idle"
  BY BlankType DEF Init, StoreInit, DonationInit
<1>2. QED
  BY <1>1, InitType, FS_EmptySet
     DEF HoldsInv, NoLeak, InTx, LocksHeld, LocksCompatible

LEMMA NextHolds == HoldsInv /\ [Next]_vars => HoldsInv'
<1> SUFFICES ASSUME HoldsInv, [Next]_vars PROVE HoldsInv'
  OBVIOUS
<1>1. TypeOK'
  BY NextType DEF HoldsInv
<1>2. CASE \E d \in DonationReqs : Donate(d)
  BY <1>1, <1>2, DonateHolds DEF HoldsInv, Donate
<1>3. CASE don' = don /\ locks' = locks /\ conns' = conns
  BY <1>1, <1>3 DEF HoldsInv, NoLeak, InTx, LocksHeld, ProjectLock, UserLock,
                    LocksCompatible
<1>4. CASE Crash
  <2>1. /\ locks' = {} /\ conns' = {}
        /\ \A d \in DonationReqs : don'[d].pc = "idle"
    BY <1>4, CrashEffect DEF Crash, DonationCrash
  <2>2. QED
    BY <1>1, <2>1, FS_EmptySet
       DEF HoldsInv, NoLeak, InTx, LocksHeld, LocksCompatible
<1>5. QED
  BY <1>2, <1>3, <1>4
     DEF Next, vars, storeVars, donationVars, ReviewProject, ReviewStep,
         ReadForReview, SaveReview, RecordReview, FailReview, UpdateProfile,
         ProfileStep, ReadUser, SaveProfile, FailProfile

\* No path through Create leaks a connection or a lock, and the pool is never
\* overdrawn.
THEOREM NothingLeaks == Spec => []NoLeak
<1>1. HoldsInv => NoLeak
  BY DEF HoldsInv
<1>2. QED
  BY InitHolds, NextHolds, <1>1, PTL DEF Spec

LEMMA HoldsExclude == HoldsInv => WritersExclude
<1> SUFFICES ASSUME HoldsInv,
                    NEW d \in DonationReqs, NEW e \in DonationReqs, d # e
             PROVE  /\ (/\ don[d].pc \in {"project", "user"}
                        /\ don[e].pc \in {"project", "user"})
                         => don[d].project # don[e].project
                    /\ (/\ don[d].pc = "user"
                        /\ don[e].pc \in {"inserted", "project", "user"})
                         => don[d].user # don[e].user
  BY DEF WritersExclude
<1>1. ASSUME don[d].pc \in {"project", "user"}, don[e].pc \in {"project", "user"},
             don[d].project = don[e].project
      PROVE  FALSE
  <2> DEFINE k == [row |-> ProjectLock(d), mode |-> "X", owner |-> d]
             l == [row |-> ProjectLock(e), mode |-> "X", owner |-> e]
  <2>1. k \in locks /\ l \in locks
    BY <1>1 DEF HoldsInv, LocksHeld, Holding
  <2>2. k.row = l.row
    BY <1>1 DEF ProjectLock
  <2>3. QED
    BY <2>1, <2>2 DEF HoldsInv, LocksCompatible
<1>2. ASSUME don[d].pc = "user", don[e].pc \in {"inserted", "project", "user"},
             don[d].user = don[e].user
      PROVE  FALSE
  <2> DEFINE k == [row |-> UserLock(d), mode |-> "X", owner |-> d]
             l == [row |-> UserLock(e), mode |-> "S", owner |-> e]
  <2>1. k \in locks /\ l \in locks
    BY <1>2 DEF HoldsInv, LocksHeld, Holding
  <2>2. k.row = l.row
    BY <1>2 DEF UserLock
  <2>3. QED
    BY <2>1, <2>2 DEF HoldsInv, LocksCompatible
<1>3. QED
  BY <1>1, <1>2

\* Two open transactions never both carry an uncommitted update of one row.
THEOREM UpdatesExclude == Spec => []WritersExclude
<1>1. QED
  BY InitHolds, NextHolds, HoldsExclude, PTL DEF Spec

----------------------------------------------------------------------------
(***************************************************************************)
(* BooksBalance.  A handler that writes back a row it has read keeps the   *)
(* books when the row has not changed since: what each write does is       *)
(* stated for fresh requests.  So stale writes are the only way to lose    *)
(* money, and where they cannot happen nothing is lost.                    *)
(***************************************************************************)

LEMMA ApplyBalanced ==
  ASSUME TypeOK, BooksBalance, NEW d \in DonationReqs, FreshDonation(d),
         Apply(d), Goto(d, "committed") \/ Finish(d)
  PROVE  BooksBalance'
<1> DEFINE p == don[d].project
           u == don[d].user
           a == don[d].amount
<1>0. don[d] \in DonationRequest
  BY DEF TypeOK, DonationTypeOK
<1>1. /\ project' = [project EXCEPT ![p] = NewProjectRow(d)]
      /\ total' = [total EXCEPT ![u] = NewTotal(d)]
      /\ byProject' = [byProject EXCEPT ![p] = @ + a]
      /\ byUser' = [byUser EXCEPT ![u] = @ + a]
  BY ApplyEffect
<1>2. /\ p \in Projects /\ u \in Users /\ a \in Nat
      /\ NewProjectRow(d).current = project[p].current + a
      /\ NewTotal(d) = total[u] + a
  BY <1>0, NewRowType DEF TypeOK, DonationRequest, FreshDonation, NewTotal
<1>3. /\ project'[p].current = project[p].current + a
      /\ byProject'[p] = byProject[p] + a
      /\ total'[u] = total[u] + a
      /\ byUser'[u] = byUser[u] + a
      /\ \A x \in Projects \ {p} :
           project'[x] = project[x] /\ byProject'[x] = byProject[x]
      /\ \A x \in Users \ {u} : total'[x] = total[x] /\ byUser'[x] = byUser[x]
  BY <1>1, <1>2 DEF TypeOK, StoreTypeOK
<1>4. /\ \A x \in Projects : /\ OpeningProject[x].current \in Nat
                             /\ byProject[x] \in Nat
      /\ \A x \in Users : OpeningTotal[x] \in Nat /\ byUser[x] \in Nat
  BY DEF TypeOK, StoreTypeOK, ProjectRow
<1>5. ASSUME NEW x \in Projects
      PROVE  project'[x].current = OpeningProject[x].current + byProject'[x]
  <2>1. project[x].current = OpeningProject[x].current + byProject[x]
    BY DEF BooksBalance
  <2>2. CASE x = p
    BY <1>2, <1>3, <1>4, <2>1, <2>2
  <2>3. CASE x # p
    BY <1>3, <2>1, <2>3
  <2> QED
    BY <2>2, <2>3
<1>6. ASSUME NEW x \in Users
      PROVE  total'[x] = OpeningTotal[x] + byUser'[x]
  <2>1. total[x] = OpeningTotal[x] + byUser[x]
    BY DEF BooksBalance
  <2>2. CASE x = u
    BY <1>2, <1>3, <1>4, <2>1, <2>2
  <2>3. CASE x # u
    BY <1>3, <2>1, <2>3
  <2> QED
    BY <2>2, <2>3
<1> QED
  BY <1>5, <1>6 DEF BooksBalance

\* A fresh review changes the status only; a fresh profile update nothing.
LEMMA ReviewBalanced ==
  ASSUME TypeOK, BooksBalance, NEW r \in ReviewReqs, ReviewProject(r),
         SaveReview(r) => FreshReview(r)
  PROVE  BooksBalance'
<1>1. CASE SaveReview(r)
  <2> DEFINE p == rev[r].project
  <2>1. /\ p \in Projects /\ ReviewedRow(r).current = project[p].current
        /\ project' = [project EXCEPT ![p] = ReviewedRow(r)]
        /\ UNCHANGED <<total, byProject, byUser>>
    BY <1>1 DEF SaveReview, ReviewedRow, FreshReview, TypeOK, ReviewTypeOK,
                ReviewRequest
  <2>2. \A x \in Projects : project'[x].current = project[x].current
    BY <2>1 DEF TypeOK, StoreTypeOK
  <2> QED BY <2>1, <2>2 DEF BooksBalance
<1>2. CASE ~ SaveReview(r)
  BY <1>2 DEF ReviewProject, ReviewStep, ReadForReview, RecordReview,
              FailReview, storeVars, BooksBalance
<1> QED BY <1>1, <1>2

LEMMA ProfileUnseen ==
  ASSUME TypeOK, NEW q \in ProfileReqs, UpdateProfile(q),
         SaveProfile(q) => FreshProfile(q)
  PROVE  UNCHANGED tableVars
<1>1. CASE SaveProfile(q)
  <2>1. prof[q].user \in Users /\ total \in [Users -> Nat]
    BY DEF TypeOK, StoreTypeOK, ProfileTypeOK, ProfileRequest
  <2>2. total' = total
    BY <1>1, <2>1 DEF SaveProfile, FreshProfile
  <2> QED BY <1>1, <2>2 DEF SaveProfile, tableVars
<1>2. CASE ~ SaveProfile(q)
  BY <1>2 DEF UpdateProfile, ProfileStep, ReadUser, FailProfile, storeVars,
              tableVars
<1> QED BY <1>1, <1>2

LEMMA NextFresh ==
  TypeOK /\ BooksBalance /\ [Next]_vars /\ [FreshWrites]_vars => BooksBalance'
<1> SUFFICES ASSUME TypeOK, BooksBalance, [Next]_vars, [FreshWrites]_vars
             PROVE  BooksBalance'
  OBVIOUS
<1>0. CASE UNCHANGED tableVars
  BY <1>0 DEF tableVars, BooksBalance
<1>1. CASE UNCHANGED vars
  BY <1>0, <1>1 DEF vars, storeVars, tableVars
<1>2. ASSUME FreshWrites, NEW d \in DonationReqs, Donate(d)
      PROVE  BooksBalance'
  <2>1. DonationStep(d)
    BY <1>2 DEF Donate
  <2>2. CASE QuietDonation \/ ReadProject(d)
    BY <1>0, <2>2 DEF QuietDonation, ReadProject, storeVars, tableVars
  <2>3. CASE Apply(d) /\ (Goto(d, "committed") \/ Finish(d))
    BY <1>2, <2>3, ApplyBalanced DEF FreshWrites
  <2> QED BY <2>1, <2>2, <2>3, DonationSteps
<1>3. ASSUME FreshWrites, NEW r \in ReviewReqs, ReviewProject(r)
      PROVE  BooksBalance'
  BY <1>3, ReviewBalanced DEF FreshWrites
<1>4. ASSUME FreshWrites, NEW q \in ProfileReqs, UpdateProfile(q)
      PROVE  BooksBalance'
  BY <1>0, <1>4, ProfileUnseen DEF FreshWrites
<1>5. CASE Crash
  BY <1>0, <1>5, CrashEffect
<1> QED
  BY <1>1, <1>2, <1>3, <1>4, <1>5 DEF Next

LEMMA InitBooks == Init => BooksBalance
BY DEF Init, StoreInit, BooksBalance, ProjectRow

\* Stale writes are the only way to lose money: whatever the handlers
\* interleave, fail or crash, the books balance as long as no handler saves
\* a row that has changed since it read it.
THEOREM OnlyStaleWritesLose == Spec /\ NoStaleWrite => []BooksBalance
BY InitType, NextType, InitBooks, NextFresh, PTL DEF Spec, NoStaleWrite

----------------------------------------------------------------------------
(***************************************************************************)
(* Without stale writes GiveTrack implements Ledger: COMMIT is a donation  *)
(* of Ledger, the save of a review is its review, and every other step     *)
(* leaves the tables alone.                                                *)
(***************************************************************************)

LEMMA CommitIsDonate ==
  ASSUME Reviewed, NEW d \in DonationReqs, FreshDonation(d),
         Apply(d), Goto(d, "committed") \/ Finish(d)
  PROVE  Atomic!Next
<1> DEFINE p == don[d].project
           u == don[d].user
           a == don[d].amount
<1>0. TypeOK
  BY DEF Reviewed
<1>1. /\ project' = [project EXCEPT ![p] = NewProjectRow(d)]
      /\ total' = [total EXCEPT ![u] = NewTotal(d)]
      /\ byProject' = [byProject EXCEPT ![p] = @ + a]
      /\ byUser' = [byUser EXCEPT ![u] = @ + a]
      /\ HasRead(d)
  BY <1>0, ApplyEffect
<1>2. p \in Projects /\ u \in Users /\ a \in Amounts
  BY <1>0 DEF TypeOK, DonationTypeOK, DonationRequest
<1>3. /\ don[d].seen.project = project[p]
      /\ don[d].seen.total = total[u]
      /\ project[p].status = "approved"
  BY <1>1 DEF FreshDonation, Reviewed, SeenApproved
<1>4. /\ NewProjectRow(d) =
           [status |-> IF project[p].current + a >= Target[p] THEN "completed"
                                                              ELSE "approved",
            current |-> project[p].current + a]
      /\ NewTotal(d) = total[u] + a
  BY <1>3 DEF NewProjectRow, NewTotal
<1>5. total' = [total EXCEPT ![u] = @ + a]
  BY <1>1, <1>2, <1>4
<1>6. Atomic!Donate(u, p, a)
  BY <1>1, <1>3, <1>4, <1>5 DEF Atomic!Donate
<1>7. QED
  BY <1>2, <1>6 DEF Atomic!Next

LEMMA SaveIsReview ==
  ASSUME TypeOK, NEW r \in ReviewReqs, SaveReview(r), FreshReview(r)
  PROVE  Atomic!Next
<1> DEFINE p == rev[r].project
           decision == rev[r].decision
<1>1. /\ p \in Projects /\ decision \in {"approved", "rejected"}
      /\ project[p] \in ProjectRow /\ project \in [Projects -> ProjectRow]
  BY DEF TypeOK, StoreTypeOK, ReviewTypeOK, ReviewRequest, Decision
<1>2. ReviewedRow(r) = [project[p] EXCEPT !.status = decision]
  BY <1>1 DEF ReviewedRow, FreshReview, ProjectRow
<1>3. /\ project' = [project EXCEPT ![p] = ReviewedRow(r)]
      /\ UNCHANGED <<total, byProject, byUser>>
  BY DEF SaveReview
<1>4. project' = [project EXCEPT ![p].status = decision]
  BY <1>1, <1>2, <1>3
<1> QED BY <1>1, <1>3, <1>4 DEF Atomic!Next, Atomic!Review

LEMMA StepIsAtomic ==
  Reviewed /\ [Next]_vars /\ [FreshWrites]_vars
    => [Atomic!Next]_(Atomic!vars)
<1> SUFFICES ASSUME Reviewed, [Next]_vars, [FreshWrites]_vars
             PROVE  Atomic!Next \/ UNCHANGED tableVars
  BY DEF tableVars, Atomic!vars
<1>1. ASSUME FreshWrites, NEW d \in DonationReqs, Donate(d)
      PROVE  Atomic!Next \/ UNCHANGED tableVars
  <2>1. DonationStep(d) /\ TypeOK
    BY <1>1 DEF Donate, Reviewed
  <2>2. CASE QuietDonation \/ ReadProject(d)
    BY <2>2 DEF QuietDonation, ReadProject, storeVars, tableVars
  <2>3. CASE Apply(d) /\ (Goto(d, "committed") \/ Finish(d))
    BY <1>1, <2>3, CommitIsDonate DEF FreshWrites
  <2>4. QED
    BY <2>1, <2>2, <2>3, DonationSteps
<1>2. ASSUME FreshWrites, NEW r \in ReviewReqs, ReviewProject(r)
      PROVE  Atomic!Next \/ UNCHANGED tableVars
  <2>1. CASE SaveReview(r)
    BY <1>2, <2>1, SaveIsReview DEF FreshWrites, Reviewed
  <2>2. CASE ~ SaveReview(r)
    BY <1>2, <2>2 DEF ReviewProject, ReviewStep, ReadForReview, RecordReview,
                      FailReview, storeVars, tableVars
  <2> QED BY <2>1, <2>2
<1>3. CASE Crash
  BY <1>3, CrashEffect
<1>4. CASE UNCHANGED vars
  BY <1>4 DEF vars, storeVars, tableVars
<1>5. ASSUME FreshWrites, NEW q \in ProfileReqs, UpdateProfile(q)
      PROVE  UNCHANGED tableVars
  BY <1>5, ProfileUnseen DEF FreshWrites, Reviewed
<1>6. QED
  BY <1>1, <1>2, <1>3, <1>4, <1>5 DEF Next

\* With donations, reviews and profile updates that overlap in any way but
\* never save a row that has changed since they read it, Create implements the
\* atomic donations of Ledger, and no review touches the money.
THEOREM CreateIsAtomicFresh == Spec /\ NoStaleWrite => DonationsAreAtomic
<1>1. Init => Atomic!Init
  BY DEF Init, StoreInit, Atomic!Init
<1>2. QED
  BY <1>1, StepIsAtomic, InitReviewed, NextReviewed, PTL
     DEF Spec, NoStaleWrite, DonationsAreAtomic, Atomic!Spec

----------------------------------------------------------------------------
(***************************************************************************)
(* When rows stay fresh.  As long as no two requests are between the read  *)
(* and the save of one row (Disjoint), what each of them has read is what  *)
(* the tables hold: every write is to rows that only its request has read. *)
(***************************************************************************)
LEMMA FreshAfterDonation ==
  ASSUME TypeOK, Disjoint, SeenCurrent, NEW d \in DonationReqs, Donate(d)
  PROVE  SeenCurrent'
<1>0. /\ DonationStep(d) /\ rev' = rev /\ prof' = prof
      /\ don[d] \in DonationRequest
      /\ project \in [Projects -> ProjectRow] /\ total \in [Users -> Nat]
  BY DEF Donate, reviewVars, TypeOK, DonationTypeOK, StoreTypeOK
<1>1. CASE QuietDonation
  BY <1>0, <1>1 DEF QuietDonation, tableVars, SeenCurrent, FreshDonation,
                    FreshReview, FreshProfile
<1>2. CASE ReadProject(d)
  <2>1. UNCHANGED tableVars
    BY <1>2 DEF ReadProject, storeVars, tableVars
  <2>2. /\ \A e \in DonationReqs \ {d} : don'[e] = don[e]
        /\ don'[d].seen.project = project[don[d].project]
        /\ don'[d].seen.total = total[don[d].user]
        /\ don'[d].project = don[d].project /\ don'[d].user = don[d].user
    BY <1>0, <1>2 DEF ReadProject, TypeOK, DonationTypeOK, DonationRequest
  <2> QED
    BY <1>0, <2>1, <2>2 DEF tableVars, SeenCurrent, FreshDonation,
                            FreshReview, FreshProfile, HasRead
<1>3. CASE Apply(d) /\ (Goto(d, "committed") \/ Finish(d))
  <2>1. /\ HasRead(d)
        /\ project' = [project EXCEPT ![don[d].project] = NewProjectRow(d)]
        /\ total' = [total EXCEPT ![don[d].user] = NewTotal(d)]
        /\ \A e \in DonationReqs : HasRead(e)' => e # d /\ don'[e] = don[e]
    BY <1>3, ApplyEffect
  <2>2. /\ \A p \in Projects \ {don[d].project} : project'[p] = project[p]
        /\ \A u \in Users \ {don[d].user} : total'[u] = total[u]
    BY <1>0, <2>1
  <2>3. ASSUME NEW e \in DonationReqs, HasRead(e)'
        PROVE  FreshDonation(e)'
    <3>1. e # d /\ don'[e] = don[e] /\ HasRead(e)
      BY <2>1, <2>3 DEF HasRead
    <3>2. don[d].project # don[e].project /\ don[d].user # don[e].user
      BY <2>1, <3>1 DEF Disjoint
    <3>3. don[e].project \in Projects /\ don[e].user \in Users
      BY DEF TypeOK, DonationTypeOK, DonationRequest
    <3> QED
      BY <2>2, <3>1, <3>2, <3>3 DEF SeenCurrent, FreshDonation
  <2>4. ASSUME NEW r \in ReviewReqs, rev[r].pc = "read"
        PROVE  rev[r].seen = project'[rev[r].project].current
    <3>1. rev[r].project \in Projects /\ rev[r].project # don[d].project
      BY <2>1, <2>4 DEF Disjoint, TypeOK, ReviewTypeOK, ReviewRequest
    <3> QED BY <2>2, <2>4, <3>1 DEF SeenCurrent, FreshReview
  <2>5. ASSUME NEW q \in ProfileReqs, prof[q].pc = "read"
        PROVE  prof[q].seen = total'[prof[q].user]
    <3>1. prof[q].user \in Users /\ prof[q].user # don[d].user
      BY <2>1, <2>5 DEF Disjoint, TypeOK, ProfileTypeOK, ProfileRequest
    <3> QED BY <2>2, <2>5, <3>1 DEF SeenCurrent, FreshProfile
  <2> QED
    BY <1>0, <2>3, <2>4, <2>5 DEF SeenCurrent, FreshReview, FreshProfile
<1> QED
  BY <1>0, <1>1, <1>2, <1>3, DonationSteps

LEMMA FreshAfterReview ==
  ASSUME TypeOK, Disjoint, SeenCurrent, NEW r \in ReviewReqs,
         ReviewProject(r)
  PROVE  SeenCurrent'
<1>0. /\ ReviewStep(r) /\ don' = don /\ prof' = prof /\ total' = total
      /\ project \in [Projects -> ProjectRow]
      /\ rev \in [ReviewReqs -> ReviewRequest]
  BY DEF ReviewProject, donationVars, TypeOK, StoreTypeOK, ReviewTypeOK,
         ReviewStep, ReadForReview, SaveReview, RecordReview, FailReview,
         storeVars
<1>1. ASSUME NEW p \in Projects, NEW decision \in Decision,
             ReadForReview(r, p, decision)
      PROVE  SeenCurrent'
  <2>1. /\ project' = project
        /\ \A x \in ReviewReqs \ {r} : rev'[x] = rev[x]
        /\ rev'[r].project = p /\ rev'[r].seen = project[p].current
    BY <1>0, <1>1 DEF ReadForReview, storeVars
  <2> QED
    BY <1>0, <2>1 DEF SeenCurrent, FreshDonation, FreshReview,
                      FreshProfile, HasRead
<1>2. CASE SaveReview(r)
  <2> DEFINE p == rev[r].project
  <2>1. /\ p \in Projects /\ rev[r].pc = "read"
        /\ project' = [project EXCEPT ![p] = ReviewedRow(r)]
        /\ rev' = [rev EXCEPT ![r].pc = "saved"]
    BY <1>0, <1>2 DEF SaveReview, ReviewRequest
  <2>2. ReviewedRow(r).current = project[p].current
    BY <2>1 DEF SeenCurrent, FreshReview, ReviewedRow
  <2>3. /\ \A x \in Projects : project'[x].current = project[x].current
        /\ \A x \in Projects \ {p} : project'[x] = project[x]
    BY <1>0, <2>1, <2>2
  <2>4. \A x \in ReviewReqs : rev'[x].pc = "read" =>
          /\ rev[x].pc = "read" /\ rev'[x].seen = rev[x].seen
          /\ rev'[x].project = rev[x].project /\ rev[x].project \in Projects
    BY <1>0, <2>1 DEF ReviewRequest
  <2>5. \A d \in DonationReqs : HasRead(d) =>
          don[d].project \in Projects /\ don[d].project # p
    BY <2>1 DEF Disjoint, TypeOK, DonationTypeOK, DonationRequest
  <2> QED
    BY <1>0, <2>3, <2>4, <2>5 DEF SeenCurrent, FreshDonation, FreshReview,
                                  FreshProfile, HasRead
<1>3. CASE RecordReview(r) \/ FailReview(r)
  <2>1. /\ project' = project /\ rev'[r].pc = "idle"
        /\ \A x \in ReviewReqs \ {r} : rev'[x] = rev[x]
    BY <1>0, <1>3 DEF RecordReview, FailReview, NoReview, storeVars
  <2> QED
    BY <1>0, <2>1 DEF SeenCurrent, FreshDonation, FreshReview,
                      FreshProfile, HasRead
<1> QED BY <1>0, <1>1, <1>2, <1>3 DEF ReviewStep

LEMMA FreshAfterProfile ==
  ASSUME TypeOK, SeenCurrent, NEW q \in ProfileReqs, UpdateProfile(q)
  PROVE  SeenCurrent'
<1>0. /\ ProfileStep(q) /\ don' = don /\ rev' = rev
      /\ prof \in [ProfileReqs -> ProfileRequest]
  BY DEF UpdateProfile, donationVars, reviewVars, TypeOK, ProfileTypeOK
<1>1. UNCHANGED tableVars
  <2>1. SaveProfile(q) => FreshProfile(q)
    BY DEF SaveProfile, SeenCurrent
  <2> QED BY <2>1, ProfileUnseen
<1>2. ASSUME NEW x \in ProfileReqs, prof'[x].pc = "read"
      PROVE  prof'[x].seen = total[prof'[x].user]
  <2>1. CASE \E u \in Users : ReadUser(q, u)
    BY <1>0, <1>2, <2>1 DEF ReadUser, SeenCurrent, FreshProfile
  <2>2. CASE SaveProfile(q) \/ FailProfile(q)
    BY <1>0, <1>2, <2>2 DEF SaveProfile, FailProfile, NoProfile, SeenCurrent,
                            FreshProfile
  <2> QED BY <1>0, <2>1, <2>2 DEF ProfileStep
<1> QED
  BY <1>0, <1>1, <1>2 DEF tableVars, SeenCurrent, FreshDonation, FreshReview,
                          FreshProfile, HasRead

LEMMA NextSeen ==
  TypeOK /\ Disjoint /\ SeenCurrent /\ [Next]_vars => SeenCurrent'
<1> SUFFICES ASSUME TypeOK, Disjoint, SeenCurrent, [Next]_vars
             PROVE  SeenCurrent'
  OBVIOUS
<1>1. CASE Crash
  <2>1. /\ UNCHANGED tableVars /\ \A d \in DonationReqs : ~ HasRead(d)'
        /\ \A r \in ReviewReqs : rev'[r].pc = "idle"
        /\ \A q \in ProfileReqs : prof'[q].pc = "idle"
    BY <1>1, CrashEffect, BlankType
       DEF Crash, ReviewCrash, ProfileCrash, NoReview, NoProfile, HasRead
  <2> QED BY <2>1 DEF SeenCurrent
<1>2. CASE UNCHANGED vars
  BY <1>2 DEF vars, storeVars, donationVars, reviewVars, SeenCurrent,
              FreshDonation, FreshReview, FreshProfile, HasRead
<1> QED
  BY <1>1, <1>2, FreshAfterDonation, FreshAfterReview, FreshAfterProfile
     DEF Next

\* Requests that never share a row between its read and its save never save
\* a stale one, for any pool and any number of them: reads that lock the row
\* until the save, in each of the three handlers, would be enough for
\* OnlyStaleWritesLose and CreateIsAtomicFresh.
THEOREM DisjointIsFresh == Spec /\ []Disjoint => NoStaleWrite
<1>1. Init => SeenCurrent
  BY BlankType DEF Init, DonationInit, ReviewInit, ProfileInit, NoReview,
                   NoProfile, SeenCurrent, HasRead
<1>2. SeenCurrent => [FreshWrites]_vars
  <2>1. SeenCurrent => FreshWrites
    BY DEF SeenCurrent, FreshWrites, HasRead, Apply, SaveReview, SaveProfile
  <2> QED BY <2>1
<1> QED
  BY <1>1, <1>2, InitType, NextType, NextSeen, PTL DEF Spec, NoStaleWrite

----------------------------------------------------------------------------
(***************************************************************************)
(* AcknowledgedIsRecorded.  A donor may have several donations committed   *)
(* and not yet answered; each will be acknowledged without another look at *)
(* the tables.  So the invariant adds what is owed (OwedIsRecorded), a sum *)
(* over the requests: a commit adds one of them, its answer takes it away. *)
(***************************************************************************)
DonationAmounts == [d \in DonationReqs |-> don[d].amount]

LEMMA OwedType ==
  ASSUME TypeOK, NEW u \in Users
  PROVE  /\ IsFiniteSet(Unanswered(u))
         /\ Unanswered(u) \subseteq DonationReqs
         /\ \A d \in DonationReqs : DonationAmounts[d] = don[d].amount
         /\ \A d \in DonationReqs : DonationAmounts[d] \in Nat
         /\ Owed(u) = SumFunctionOnSet(DonationAmounts, Unanswered(u))
         /\ Owed(u) \in Nat
<1>1. Unanswered(u) \in SUBSET DonationReqs
  BY DEF Unanswered
<1>2. IsFiniteSet(Unanswered(u))
  BY <1>1, FS_Subset
<1>3. \A d \in DonationReqs : /\ DonationAmounts[d] = don[d].amount
                              /\ DonationAmounts[d] \in Nat
  BY NewRowType DEF TypeOK, DonationAmounts
<1>4. Owed(u) = SumFunctionOnSet(DonationAmounts, Unanswered(u))
  BY DEF Owed, DonationAmounts
<1> QED
  BY <1>1, <1>2, <1>3, <1>4, SumType

\* The answer does not depend on the other requests.
LEMMA OwedSame ==
  ASSUME TypeOK, TypeOK', NEW u \in Users, NEW ds \in SUBSET DonationReqs,
         \A d \in ds : don'[d].amount = don[d].amount
  PROVE  SumFunctionOnSet(DonationAmounts', ds)
           = SumFunctionOnSet(DonationAmounts, ds)
<1>1. IsFiniteSet(ds)
  BY FS_Subset
<1>2. \A d \in ds : DonationAmounts'[d] = DonationAmounts[d]
  BY DEF DonationAmounts
<1> QED
  BY <1>1, <1>2, SumSame

\* What a step of donation d does to the donations that wait for their
\* answer: nothing, or it commits d, or it answers d.
LEMMA DonationAnswers ==
  ASSUME TypeOK, NEW d \in DonationReqs, DonationStep(d)
  PROVE  /\ \A e \in DonationReqs \ {d} : don'[e] = don[e]
         /\ \/ /\ don[d].pc # "committed" /\ don'[d].pc # "committed"
               /\ UNCHANGED <<byUser, acked>>
            \/ /\ don[d].pc # "committed" /\ don'[d].pc # "committed"
               /\ Apply(d)
            \/ /\ don[d].pc # "committed" /\ Apply(d) /\ Goto(d, "committed")
            \/ Reply(d) /\ don'[d].pc = "idle"
<1> USE BlankType DEF TypeOK, DonationTypeOK, InTx, storeVars, tableVars
<1>0. don[d] \in DonationRequest
  OBVIOUS
<1>1. CASE \E u \in Users, p \in Projects, a \in Amounts : Accept(d, u, p, a)
  <2>1. PICK u \in Users, p \in Projects, a \in Amounts : Accept(d, u, p, a)
    BY <1>1
  <2>2. don'[d].pc = "accepted"
    BY <2>1, <1>0 DEF Accept, DonationRequest
  <2> QED BY <2>1, <2>2 DEF Accept
<1>2. CASE Begin(d) \/ InsertDonation(d) \/ SaveProject(d) \/ SaveUser(d)
  BY <1>0, <1>2 DEF Begin, InsertDonation, SaveProject, SaveUser, Goto,
                    DonationRequest
<1>3. CASE ReadProject(d)
  BY <1>0, <1>3 DEF ReadProject, DonationRequest
<1>4. CASE Refuse(d) \/ Abort(d)
  BY <1>4 DEF Refuse, Abort, Finish
<1>5. CASE Commit(d)
  BY <1>5 DEF Commit, Apply, Goto
<1>6. CASE CommitUnacknowledged(d)
  BY <1>6 DEF CommitUnacknowledged, Apply, Finish
<1>7. CASE Reply(d)
  BY <1>7 DEF Reply, Finish
<1> QED
  BY <1>1, <1>2, <1>3, <1>4, <1>5, <1>6, <1>7 DEF DonationStep

LEMMA NextOwed ==
  TypeOK /\ TypeOK' /\ OwedIsRecorded /\ [Next]_vars => OwedIsRecorded'
<1> SUFFICES ASSUME TypeOK, TypeOK', OwedIsRecorded, [Next]_vars,
                    NEW u \in Users
             PROVE  (acked[u] + Owed(u) <= byUser[u])'
  BY DEF OwedIsRecorded
<1> DEFINE Sum(ds) == SumFunctionOnSet(DonationAmounts, ds)
<1>0. /\ acked[u] + Owed(u) <= byUser[u]
      /\ acked[u] \in Nat /\ byUser[u] \in Nat
      /\ acked'[u] \in Nat /\ byUser'[u] \in Nat
      /\ Owed(u) = Sum(Unanswered(u)) /\ Owed(u) \in Nat
      /\ Owed(u)' = SumFunctionOnSet(DonationAmounts', Unanswered(u)')
      /\ IsFiniteSet(Unanswered(u)) /\ Unanswered(u) \subseteq DonationReqs
      /\ \A d \in DonationReqs : /\ DonationAmounts[d] = don[d].amount
                                 /\ DonationAmounts[d] \in Nat
  <2>1. /\ acked[u] \in Nat /\ byUser[u] \in Nat
        /\ acked'[u] \in Nat /\ byUser'[u] \in Nat
    BY DEF TypeOK, DonationTypeOK, StoreTypeOK
  <2>2. acked[u] + Owed(u) <= byUser[u]
    BY DEF OwedIsRecorded
  <2>3. Owed(u)' = SumFunctionOnSet(DonationAmounts', Unanswered(u)')
    BY DEF Owed, DonationAmounts
  <2> QED BY <2>1, <2>2, <2>3, OwedType
<1>1. ASSUME NEW d \in DonationReqs, Donate(d)
      PROVE  (acked[u] + Owed(u) <= byUser[u])'
  <2> DEFINE a == don[d].amount
  <2>0. /\ DonationStep(d) /\ don[d] \in DonationRequest /\ a \in Nat
        /\ don[d].user \in Users
    BY <1>0, <1>1 DEF Donate, TypeOK, DonationTypeOK, DonationRequest
  <2>1. \A e \in DonationReqs \ {d} : don'[e] = don[e]
    BY <2>0, DonationAnswers
  <2>2. CASE don[d].pc # "committed" /\ don'[d].pc # "committed"
    <3>1. Unanswered(u)' = Unanswered(u) /\ d \notin Unanswered(u)
      BY <2>1, <2>2 DEF Unanswered
    <3>2. Owed(u)' = Owed(u)
      BY <1>0, <2>1, <3>1, OwedSame
    <3>3. acked' = acked /\ byUser[u] <= byUser'[u]
      <4>1. CASE UNCHANGED <<byUser, acked>>
        BY <1>0, <4>1
      <4>2. CASE Apply(d)
        BY <1>0, <2>0, <4>2 DEF Apply, TypeOK, StoreTypeOK
      <4> QED BY <2>0, <2>2, <4>1, <4>2, DonationAnswers DEF Reply
    <3> QED BY <1>0, <3>2, <3>3
  <2>3. CASE don[d].pc # "committed" /\ Apply(d) /\ Goto(d, "committed")
    <3>1. /\ acked' = acked
          /\ byUser'[u] = IF don[d].user = u THEN byUser[u] + a ELSE byUser[u]
      BY <1>0, <2>0, <2>3 DEF Apply, TypeOK, StoreTypeOK
    <3>2. /\ don'[d].pc = "committed" /\ don'[d].amount = a
          /\ don'[d].user = don[d].user /\ d \notin Unanswered(u)
      BY <2>0, <2>3 DEF Goto, TypeOK, DonationTypeOK, DonationRequest,
                        Unanswered
    <3>3. \A e \in DonationReqs : don'[e].amount = don[e].amount
      BY <2>1, <3>2
    <3>4. CASE don[d].user = u
      <4>1. Unanswered(u)' = Unanswered(u) \union {d}
        BY <2>1, <3>2, <3>4 DEF Unanswered
      <4>2. Owed(u)' = Sum(Unanswered(u) \union {d})
        BY <1>0, <3>3, <4>1, OwedSame
      <4>3. Sum(Unanswered(u) \union {d}) = Sum(Unanswered(u)) + a
        <5>1. \A e \in Unanswered(u) \union {d} : DonationAmounts[e] \in Nat
          BY <1>0
        <5> QED BY <1>0, <3>2, <5>1, SumAdd
      <4> QED BY <1>0, <2>0, <3>1, <3>4, <4>2, <4>3
    <3>5. CASE don[d].user # u
      <4>1. Unanswered(u)' = Unanswered(u)
        BY <2>1, <3>2, <3>5 DEF Unanswered
      <4>2. Owed(u)' = Owed(u)
        BY <1>0, <3>3, <4>1, OwedSame
      <4> QED BY <1>0, <3>1, <3>5, <4>2
    <3> QED BY <3>4, <3>5
  <2>4. CASE Reply(d) /\ don'[d].pc = "idle"
    <3>1. /\ byUser' = byUser /\ don[d].pc = "committed"
          /\ acked'[u] = IF don[d].user = u THEN acked[u] + a ELSE acked[u]
      BY <1>0, <2>0, <2>4 DEF Reply, storeVars, TypeOK, DonationTypeOK
    <3>2. CASE don[d].user = u
      <4>1. d \in Unanswered(u) /\ Unanswered(u)' = Unanswered(u) \ {d}
        BY <2>1, <2>4, <3>1, <3>2 DEF Unanswered
      <4>2. Owed(u)' = Sum(Unanswered(u) \ {d})
        <5>1. \A e \in Unanswered(u) \ {d} : don'[e].amount = don[e].amount
          BY <1>0, <2>1
        <5> QED BY <1>0, <4>1, <5>1, OwedSame
      <4>3. Sum(Unanswered(u)) = a + Sum(Unanswered(u) \ {d})
        <5>1. \A e \in Unanswered(u) : DonationAmounts[e] \in Nat
          BY <1>0
        <5> QED BY <1>0, <4>1, <5>1, SumRemove
      <4>4. /\ Sum(Unanswered(u)) \in Nat
            /\ Sum(Unanswered(u) \ {d}) \in Nat
        BY <1>0, <2>0, <4>3, SumType, FS_Subset
      <4> HIDE DEF Sum, a
      <4> QED BY <1>0, <2>0, <3>1, <3>2, <4>2, <4>3, <4>4
    <3>3. CASE don[d].user # u
      <4>1. Unanswered(u)' = Unanswered(u) /\ d \notin Unanswered(u)
        BY <2>1, <2>4, <3>3 DEF Unanswered
      <4>2. Owed(u)' = Owed(u)
        BY <1>0, <2>1, <4>1, OwedSame
      <4> QED BY <1>0, <3>1, <3>3, <4>2
    <3> QED BY <3>2, <3>3
  <2> QED BY <2>0, <2>2, <2>3, <2>4, DonationAnswers
<1>2. CASE UNCHANGED <<don, acked, byUser>>
  <2>1. Owed(u)' = Owed(u)
    BY <1>2 DEF Owed, Unanswered
  <2> QED BY <1>0, <1>2, <2>1
<1>3. CASE Crash
  <2>1. acked' = acked /\ byUser' = byUser /\ Unanswered(u)' = {}
    BY <1>3, CrashEffect DEF tableVars, Unanswered
  <2>2. Owed(u)' = 0
    BY <1>0, <2>1, SumOfNone
  <2> QED BY <1>0, <2>1, <2>2
<1>4. ASSUME NEW r \in ReviewReqs, ReviewProject(r)
      PROVE  UNCHANGED <<don, acked, byUser>>
  BY <1>4 DEF ReviewProject, donationVars, ReviewStep, ReadForReview,
              SaveReview, RecordReview, FailReview, storeVars
<1>5. ASSUME NEW q \in ProfileReqs, UpdateProfile(q)
      PROVE  UNCHANGED <<don, acked, byUser>>
  BY <1>5 DEF UpdateProfile, donationVars, ProfileStep, ReadUser, SaveProfile,
              FailProfile, storeVars
<1> QED
  BY <1>1, <1>2, <1>3, <1>4, <1>5 DEF Next, vars, storeVars, donationVars

\* No crash, failure or interleaving loses a donation that was answered with
\* 201: the donor's records hold at least what the donor was told.
THEOREM AcknowledgedSurvive == Spec => []AcknowledgedIsRecorded
<1>1. Init => OwedIsRecorded
  <2> SUFFICES ASSUME Init, NEW u \in Users
               PROVE  acked[u] + Owed(u) <= byUser[u]
    BY DEF OwedIsRecorded
  <2>1. Unanswered(u) = {}
    BY BlankType DEF Init, DonationInit, Unanswered
  <2>2. Owed(u) = 0
    BY <2>1, SumOfNone DEF Owed
  <2> QED BY <2>2 DEF Init, DonationInit, StoreInit
<1>2. TypeOK /\ OwedIsRecorded => AcknowledgedIsRecorded
  <2> SUFFICES ASSUME TypeOK, OwedIsRecorded, NEW u \in Users
               PROVE  acked[u] <= byUser[u]
    BY DEF AcknowledgedIsRecorded
  <2>1. acked[u] + Owed(u) <= byUser[u] /\ Owed(u) \in Nat
    BY OwedType DEF OwedIsRecorded
  <2> QED BY <2>1 DEF TypeOK, StoreTypeOK, DonationTypeOK
<1> QED
  BY <1>1, <1>2, InitType, NextType, NextOwed, PTL DEF Spec

----------------------------------------------------------------------------
(***************************************************************************)
(* FundedIsCompleted.  It holds of the tables as they were opened, and     *)
(* each step that writes a project's row is looked at on its own: COMMIT   *)
(* compares the amount it writes with the target, SaveReview does not.     *)
(***************************************************************************)
ClosesFunded ==
  \A p \in Projects :
    FundedIsOpen(p)' => project'[p] = project[p] \/ Reopened(p)

LEMMA DonateCloses ==
  ASSUME TypeOK, NEW d \in DonationReqs, DonationStep(d)
  PROVE  ClosesFunded
<1>1. CASE Apply(d) /\ (Goto(d, "committed") \/ Finish(d))
  <2> DEFINE row == NewProjectRow(d)
  <2>1. /\ project' = [project EXCEPT ![don[d].project] = row]
        /\ don[d].project \in Projects
    BY <1>1, ApplyEffect DEF TypeOK, DonationTypeOK, DonationRequest
  <2>2. row.status = "completed" \/ ~ (row.current >= Target[don[d].project])
    BY DEF NewProjectRow
  <2>3. /\ project'[don[d].project] = row
        /\ \A x \in Projects \ {don[d].project} : project'[x] = project[x]
    BY <2>1 DEF TypeOK, StoreTypeOK
  <2> QED BY <2>2, <2>3 DEF ClosesFunded, FundedIsOpen
<1>2. CASE project' = project
  BY <1>2 DEF ClosesFunded
<1> QED
  BY <1>1, <1>2, DonationSteps DEF QuietDonation, ReadProject, storeVars,
                                   tableVars

LEMMA ReviewCloses ==
  ASSUME TypeOK, NEW r \in ReviewReqs, SaveReview(r)
  PROVE  ClosesFunded
<1> DEFINE p == rev[r].project
<1>1. /\ p \in Projects /\ rev[r].pc = "read" /\ rev'[r].pc = "saved"
      /\ project' = [project EXCEPT ![p] = ReviewedRow(r)]
  BY DEF SaveReview, TypeOK, ReviewTypeOK, ReviewRequest
<1>2. /\ project'[p].status = rev[r].decision
      /\ project'[p].current = rev[r].seen
      /\ \A x \in Projects \ {p} : project'[x] = project[x]
  BY <1>1 DEF ReviewedRow, TypeOK, StoreTypeOK
<1> QED
  BY <1>1, <1>2 DEF ClosesFunded, FundedIsOpen, Reopened

LEMMA NextCloses == TypeOK /\ [Next]_vars => ClosesFunded
<1> SUFFICES ASSUME TypeOK, [Next]_vars PROVE ClosesFunded
  OBVIOUS
<1>1. ASSUME NEW d \in DonationReqs, Donate(d) PROVE ClosesFunded
  BY <1>1, DonateCloses DEF Donate
<1>2. ASSUME NEW r \in ReviewReqs, SaveReview(r) PROVE ClosesFunded
  BY <1>2, ReviewCloses
<1>3. CASE project' = project
  BY <1>3 DEF ClosesFunded
<1>4. ASSUME NEW r \in ReviewReqs, ReviewProject(r), ~ SaveReview(r)
      PROVE  project' = project
  BY <1>4 DEF ReviewProject, ReviewStep, ReadForReview, RecordReview,
              FailReview, storeVars
<1>5. ASSUME NEW q \in ProfileReqs, UpdateProfile(q)
      PROVE  project' = project
  BY <1>5 DEF UpdateProfile, ProfileStep, ReadUser, SaveProfile, FailProfile,
              storeVars
<1>6. CASE Crash
  BY <1>3, <1>6, CrashEffect DEF tableVars
<1> QED
  BY <1>1, <1>2, <1>3, <1>4, <1>5, <1>6 DEF Next, vars, storeVars

\* The donation that reaches the target closes the project whatever it races
\* with; only an approval of a funded row opens one again.
THEOREM FundedProjectsClose == Spec => FundedIsCompleted
<1>1. Init => \A p \in Projects : ~ FundedIsOpen(p)
  <2> SUFFICES ASSUME Init, NEW p \in Projects, FundedIsOpen(p)
               PROVE  FALSE
    OBVIOUS
  <2>1. project = OpeningProject
    BY DEF Init, StoreInit
  <2>2. OpeningProject[p].current \in Nat /\ Target[p] \in Nat
    BY StoreAssumption DEF ProjectRow
  <2> QED BY <2>1, <2>2, StoreAssumption DEF FundedIsOpen, Consistent
<1>2. TypeOK /\ [Next]_vars => [ClosesFunded]_vars
  BY NextCloses
<1> QED
  BY <1>1, <1>2, InitType, NextType, PTL
     DEF Spec, FundedIsCompleted, ClosesFunded

============================================================================
