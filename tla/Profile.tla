------------------------------ MODULE Profile ------------------------------
(***************************************************************************)
(* AuthService.UpdateProfile: a user changes name, phone or avatar.  Two   *)
(* statements without a transaction: SELECT the row, UPDATE all of it, the *)
(* total_donation it read included.                                        *)
(***************************************************************************)
EXTENDS Store

CONSTANT ProfileReqs  \* the requests (PUT /auth/profile)

VARIABLE prof  \* the requests

ProfileRequest == [pc : {"idle", "read"}, user : Users, seen : Nat]

NoProfile == [pc |-> "idle", user |-> CHOOSE u \in Users : TRUE, seen |-> 0]

----------------------------------------------------------------------------
\* userRepo.FindByID; the fields the request names are then replaced.
ReadUser(q, u) ==
  /\ prof[q].pc = "idle"
  /\ ConnFree
  /\ prof' = [prof EXCEPT ![q] = [pc |-> "read", user |-> u,
                                  seen |-> total[u]]]
  /\ UNCHANGED storeVars

\* userRepo.Update: Save writes every column of the row.
SaveProfile(q) ==
  /\ prof[q].pc = "read"
  /\ ConnFree
  /\ RowFree(<<"users", prof[q].user>>)
  /\ total' = [total EXCEPT ![prof[q].user] = prof[q].seen]
  /\ prof' = [prof EXCEPT ![q] = NoProfile]
  /\ UNCHANGED <<project, byProject, byUser, locks, conns>>

\* The update fails and the handler answers with the error.
FailProfile(q) ==
  /\ prof[q].pc = "read"
  /\ prof' = [prof EXCEPT ![q] = NoProfile]
  /\ UNCHANGED storeVars

----------------------------------------------------------------------------
ProfileTypeOK == prof \in [ProfileReqs -> ProfileRequest]

ProfileInit == prof = [q \in ProfileReqs |-> NoProfile]

ProfileStep(q) ==
  \/ \E u \in Users : ReadUser(q, u)
  \/ SaveProfile(q)
  \/ FailProfile(q)

ProfileCrash == prof' = [q \in ProfileReqs |-> NoProfile]
============================================================================
