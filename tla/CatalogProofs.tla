--------------------------- MODULE CatalogProofs ---------------------------
(***************************************************************************)
(* Proofs about Catalog: accounts stay unique, organizations that were     *)
(* told so exist, projects and audit records follow decisions that were    *)
(* carried out, for all requests, names and addresses.                     *)
(***************************************************************************)
EXTENDS Catalog, TLAPS

LEMMA NoReviewType == NoReview \in ReviewRequest /\ NoReview.pc = "idle"
BY CatalogAssumption DEF NoReview, ReviewRequest, Decision

----------------------------------------------------------------------------
(***************************************************************************)
(* Types.                                                                  *)
(***************************************************************************)
LEMMA InitTypeOK == Init => TypeOK
<1> SUFFICES ASSUME Init PROVE TypeOK
  OBVIOUS
<1>1. reg \in [Accounts -> Registration]
  BY DEF Init, Registration, RegisterPC
<1>2. pub \in [Projects -> Publication]
  BY DEF Init, Publication
<1>3. rev \in [Reviews -> ReviewRequest]
  BY NoReviewType DEF Init
<1> QED BY <1>1, <1>2, <1>3 DEF Init, TypeOK, Decision

LEMMA RegisterType == \A a \in Accounts : TypeOK /\ Register(a) => TypeOK'
<1> SUFFICES ASSUME NEW a \in Accounts, TypeOK, Register(a) PROVE TypeOK'
  OBVIOUS
<1> USE DEF TypeOK, Registration, RegisterPC, OrgStatus, reviewVars,
            publishVars
<1>1. CASE LookUp(a)
  <2>1. \/ reg' = [reg EXCEPT ![a].pc = "refused"]
        \/ reg' = [reg EXCEPT ![a].pc = "checked"]
    BY <1>1 DEF LookUp
  <2> QED BY <1>1, <2>1 DEF LookUp
<1>2. CASE InsertUser(a)
  <2>1. CASE Taken(a) BY <1>2, <2>1 DEF InsertUser
  <2>2. CASE ~ Taken(a) /\ reg[a].role = "org"
    BY <1>2, <2>2 DEF InsertUser, AfterInsert
  <2>3. CASE ~ Taken(a) /\ reg[a].role # "org"
    BY <1>2, <2>3 DEF InsertUser, AfterInsert
  <2> QED BY <2>1, <2>2, <2>3
<1>3. CASE InsertOrganization(a) BY <1>3 DEF InsertOrganization
<1>4. CASE FailRegistration(a) BY <1>4 DEF FailRegistration
<1>5. CASE LoseInsertAnswer(a) BY <1>5 DEF LoseInsertAnswer
<1> QED BY <1>1, <1>2, <1>3, <1>4, <1>5 DEF Register

LEMMA ReviewType ==
  \A v \in Reviews : TypeOK /\ ReviewOrganization(v) => TypeOK'
<1> SUFFICES ASSUME NEW v \in Reviews, TypeOK, ReviewOrganization(v)
             PROVE TypeOK'
  OBVIOUS
<1> USE DEF TypeOK, ReviewRequest, accountVars, publishVars
<1>1. ASSUME NEW a \in Accounts, NEW decision \in Decision,
             ReadForReview(v, a, decision)
      PROVE TypeOK'
  BY <1>1 DEF ReadForReview
<1>2. CASE SaveReview(v) BY <1>2 DEF SaveReview, Decision, OrgStatus
<1>3. CASE RecordReview(v) BY <1>3, NoReviewType DEF RecordReview
<1>4. CASE FailReview(v) BY <1>4, NoReviewType DEF FailReview
<1> QED BY <1>1, <1>2, <1>3, <1>4 DEF ReviewOrganization

LEMMA PublishType == \A p \in Projects : TypeOK /\ Publish(p) => TypeOK'
<1> SUFFICES ASSUME NEW p \in Projects, TypeOK, Publish(p) PROVE TypeOK'
  OBVIOUS
<1> USE DEF TypeOK, Publication, accountVars, reviewVars
<1>1. CASE ReadOrganization(p) BY <1>1 DEF ReadOrganization
<1>2. CASE InsertProject(p) BY <1>2 DEF InsertProject
<1>3. CASE FailPublication(p) BY <1>3 DEF FailPublication
<1> QED BY <1>1, <1>2, <1>3 DEF Publish

LEMMA CrashType == TypeOK /\ Crash => TypeOK'
<1> SUFFICES ASSUME TypeOK, Crash PROVE TypeOK'
  OBVIOUS
<1>1. reg' \in [Accounts -> Registration]
  BY DEF TypeOK, Crash, Registration, RegisterPC, Dead
<1>2. pub' \in [Projects -> Publication]
  BY DEF TypeOK, Crash, Publication, Dead
<1>3. rev' \in [Reviews -> ReviewRequest]
  BY NoReviewType DEF Crash
<1> QED BY <1>1, <1>2, <1>3 DEF TypeOK, Crash

LEMMA NextTypeOK == TypeOK /\ [Next]_vars => TypeOK'
<1> SUFFICES ASSUME TypeOK, [Next]_vars PROVE TypeOK'
  OBVIOUS
<1>1. CASE UNCHANGED vars BY <1>1 DEF vars, TypeOK
<1> QED BY <1>1, RegisterType, ReviewType, PublishType, CrashType DEF Next

\* Every variable keeps its type; a decision is "approved" or "rejected".
THEOREM TypeCorrect == Spec => []TypeOK
BY InitTypeOK, NextTypeOK, PTL DEF Spec

----------------------------------------------------------------------------
(***************************************************************************)
(* Accounts.                                                               *)
(***************************************************************************)
\* Who has a row is past the insert; who waits for the second one is there.
RowsFollowRequests ==
  \A a \in Accounts :
    /\ reg[a].pc \in {"new", "checked"} => a \notin users /\ orgs[a] = "none"
    /\ reg[a].pc = "inserted" => a \in users /\ orgs[a] = "none"

AccountsInv ==
  /\ UniqueAccounts
  /\ RefusedIsTaken
  /\ RowsFollowRequests
  /\ ToldOrganizationExists

LEMMA InitAccounts == Init => AccountsInv
BY DEF Init, AccountsInv, UniqueAccounts, RefusedIsTaken, RowsFollowRequests,
       ToldOrganizationExists

\* A step of a registration changes its own program counter only, not what
\* it asks for, and the tables as that counter says.
LEMMA RegisterEffect ==
  ASSUME TypeOK, NEW a \in Accounts, Register(a)
  PROVE /\ \A b \in Accounts :
             /\ reg'[b].name = reg[b].name
             /\ reg'[b].email = reg[b].email
             /\ reg'[b].role = reg[b].role
             /\ b # a => reg'[b].pc = reg[b].pc /\ orgs'[b] = orgs[b]
        /\ users' = users \/ (users' = users \union {a} /\ ~ Taken(a))
        /\ orgs[a] # "none" => orgs'[a] # "none"
        /\ reg'[a].pc # "new"
        /\ reg'[a].pc = "checked" => users' = users /\ orgs' = orgs
                                     /\ reg[a].pc = "new"
        /\ reg'[a].pc = "refused" => Taken(a)
        /\ reg'[a].pc = "inserted" =>
             a \in users' /\ orgs' = orgs /\ reg[a].pc = "checked"
        /\ reg'[a].pc = "created" =>
             \/ a \in users' /\ reg[a].role # "org"
             \/ reg[a].pc = "inserted" /\ users' = users /\ orgs'[a] = "pending"
<1> USE DEF TypeOK, Registration, RegisterPC
<1>1. CASE LookUp(a)
  <2>1. CASE Taken(a) BY <1>1, <2>1 DEF LookUp
  <2>2. CASE ~ Taken(a) BY <1>1, <2>2 DEF LookUp
  <2> QED BY <2>1, <2>2
<1>2. CASE InsertUser(a)
  <2>1. CASE Taken(a) BY <1>2, <2>1 DEF InsertUser
  <2>2. CASE ~ Taken(a) /\ reg[a].role = "org"
    BY <1>2, <2>2 DEF InsertUser, AfterInsert
  <2>3. CASE ~ Taken(a) /\ reg[a].role # "org"
    BY <1>2, <2>3 DEF InsertUser, AfterInsert
  <2> QED BY <2>1, <2>2, <2>3
<1>3. CASE InsertOrganization(a) BY <1>3 DEF InsertOrganization
<1>4. CASE FailRegistration(a) BY <1>4 DEF FailRegistration
<1>5. CASE LoseInsertAnswer(a) BY <1>5 DEF LoseInsertAnswer
<1> QED BY <1>1, <1>2, <1>3, <1>4, <1>5 DEF Register

\* The steps of the other handlers, and the crash, keep the accounts.
KeepsAccounts ==
  /\ users' = users
  /\ \A b \in Accounts :
       /\ reg'[b].name = reg[b].name
       /\ reg'[b].email = reg[b].email
       /\ reg'[b].role = reg[b].role
       /\ reg'[b].pc \in {reg[b].pc, "failed"}
       /\ orgs[b] # "none" => orgs'[b] # "none"
       /\ orgs[b] = "none" => orgs'[b] = "none"

LEMMA AccountsKept ==
  ASSUME AccountsInv, TypeOK, KeepsAccounts
  PROVE AccountsInv'
<1> USE DEF KeepsAccounts
<1>1. \A a, b \in Accounts : Clash(a, b)' <=> Clash(a, b)
  BY DEF Clash
<1>2. \A a \in Accounts : Taken(a) => Taken(a)'
  BY <1>1 DEF Taken, TypeOK
<1>3. UniqueAccounts'
  BY <1>1 DEF AccountsInv, UniqueAccounts, TypeOK
<1>4. RefusedIsTaken'
  BY <1>2 DEF AccountsInv, RefusedIsTaken
<1>5. RowsFollowRequests'
  BY DEF AccountsInv, RowsFollowRequests
<1>6. ToldOrganizationExists'
  BY DEF AccountsInv, ToldOrganizationExists
<1> QED BY <1>3, <1>4, <1>5, <1>6 DEF AccountsInv

LEMMA RegisterAccounts ==
  ASSUME AccountsInv, TypeOK, NEW a \in Accounts, Register(a)
  PROVE AccountsInv'
<1>1. \A b, c \in Accounts : Clash(b, c)' <=> Clash(b, c)
  BY RegisterEffect DEF Clash
<1>2. users \subseteq users' /\ users' \subseteq Accounts
  BY RegisterEffect DEF TypeOK
<1>3. \A b \in Accounts : Taken(b) => Taken(b)'
  BY <1>1, <1>2 DEF Taken, TypeOK
<1>4. UniqueAccounts'
  <2> SUFFICES ASSUME NEW b \in users', NEW c \in users', b # c
               PROVE ~ Clash(b, c)
    BY <1>1, <1>2 DEF UniqueAccounts
  <2>1. CASE b \in users /\ c \in users
    BY <2>1 DEF AccountsInv, UniqueAccounts
  <2>2. CASE b \notin users
    <3>1. b = a /\ c \in users /\ ~ Taken(a) BY <2>2, RegisterEffect
    <3> QED BY <3>1 DEF Taken
  <2>3. CASE c \notin users
    <3>1. c = a /\ b \in users /\ ~ Taken(a) BY <2>3, RegisterEffect
    <3> QED BY <3>1 DEF Taken, Clash
  <2> QED BY <2>1, <2>2, <2>3
<1>5. RefusedIsTaken'
  <2> SUFFICES ASSUME NEW b \in Accounts, reg'[b].pc = "refused"
               PROVE Taken(b)
    BY <1>3 DEF RefusedIsTaken
  <2>1. CASE b = a BY <2>1, RegisterEffect
  <2>2. CASE b # a
    BY <2>2, RegisterEffect DEF AccountsInv, RefusedIsTaken
  <2> QED BY <2>1, <2>2
<1>6. RowsFollowRequests'
  <2> SUFFICES ASSUME NEW b \in Accounts
               PROVE /\ reg'[b].pc \in {"new", "checked"} =>
                          b \notin users' /\ orgs'[b] = "none"
                     /\ reg'[b].pc = "inserted" =>
                          b \in users' /\ orgs'[b] = "none"
    BY DEF RowsFollowRequests
  <2>1. CASE b = a
    BY <2>1, RegisterEffect DEF AccountsInv, RowsFollowRequests
  <2>2. CASE b # a
    BY <2>2, RegisterEffect DEF AccountsInv, RowsFollowRequests
  <2> QED BY <2>1, <2>2
<1>7. ToldOrganizationExists'
  <2> SUFFICES ASSUME NEW b \in Accounts, reg'[b].pc = "created"
               PROVE b \in users' /\ (reg'[b].role = "org" => orgs'[b] # "none")
    BY DEF ToldOrganizationExists
  <2>1. CASE b = a
    BY <2>1, RegisterEffect DEF AccountsInv, RowsFollowRequests
  <2>2. CASE b # a
    BY <2>2, RegisterEffect DEF AccountsInv, ToldOrganizationExists
  <2> QED BY <2>1, <2>2
<1> QED BY <1>4, <1>5, <1>6, <1>7 DEF AccountsInv

LEMMA ReviewKeeps ==
  ASSUME TypeOK, NEW v \in Reviews, ReviewOrganization(v),
         \A w \in Reviews : rev[w].pc = "read" => orgs[rev[w].org] # "none"
  PROVE KeepsAccounts
<1>1. reg' = reg /\ users' = users
  BY DEF ReviewOrganization, ReadForReview, SaveReview, RecordReview, FailReview,
         accountVars
<1>2. \A b \in Accounts : /\ orgs[b] # "none" => orgs'[b] # "none"
                          /\ orgs[b] = "none" => orgs'[b] = "none"
  <2>1. CASE orgs' = orgs BY <2>1
  <2>2. CASE SaveReview(v)
    BY <2>2 DEF SaveReview, TypeOK, ReviewRequest, Decision
  <2> QED
    BY <2>1, <2>2 DEF ReviewOrganization, ReadForReview, RecordReview, FailReview
<1>3. \A b \in Accounts : /\ reg'[b].name = reg[b].name
                          /\ reg'[b].email = reg[b].email
                          /\ reg'[b].role = reg[b].role
                          /\ reg'[b].pc \in {reg[b].pc, "failed"}
  BY <1>1
<1> QED BY <1>1, <1>2, <1>3 DEF KeepsAccounts

LEMMA PublishKeeps ==
  ASSUME NEW p \in Projects, Publish(p) PROVE KeepsAccounts
BY DEF Publish, ReadOrganization, InsertProject, FailPublication, accountVars,
       KeepsAccounts

LEMMA CrashKeeps == ASSUME TypeOK, Crash PROVE KeepsAccounts
BY DEF Crash, KeepsAccounts, TypeOK, Registration, RegisterPC, Dead

----------------------------------------------------------------------------
(***************************************************************************)
(* Decisions, projects and audit records.                                  *)
(***************************************************************************)
DecisionsApplied ==
  /\ \A a \in Accounts :
       orgs[a] = "approved" => <<a, "approved">> \in applied
  /\ \A v \in Reviews :
       rev[v].pc = "saved" => <<rev[v].org, rev[v].decision>> \in applied
  /\ \A v \in Reviews : rev[v].pc = "read" => orgs[rev[v].org] # "none"
  /\ AuditFollowsDecision

PublishersApproved ==
  /\ \A p \in Projects :
       pub[p].pc = "checked" => <<pub[p].owner, "approved">> \in applied
  /\ PublishedAfterApproval

LEMMA InitDecisions == Init => DecisionsApplied /\ PublishersApproved
BY NoReviewType DEF Init, DecisionsApplied, PublishersApproved,
                    PublishedAfterApproval, AuditFollowsDecision

\* What the other handlers' steps keep of the reviews.
LEMMA DecisionsKept ==
  ASSUME DecisionsApplied, UNCHANGED reviewVars, TypeOK,
         \A a \in Accounts : orgs'[a] \in {orgs[a], "pending"}
  PROVE DecisionsApplied'
BY DEF DecisionsApplied, AuditFollowsDecision, reviewVars, TypeOK, ReviewRequest

LEMMA PublishersKept ==
  ASSUME PublishersApproved, UNCHANGED publishVars, applied \subseteq applied'
  PROVE PublishersApproved'
BY DEF PublishersApproved, PublishedAfterApproval, publishVars

LEMMA ReviewDecisions ==
  ASSUME DecisionsApplied, TypeOK, NEW v \in Reviews, ReviewOrganization(v)
  PROVE DecisionsApplied' /\ applied \subseteq applied' /\ UNCHANGED publishVars
<1> USE DEF DecisionsApplied, AuditFollowsDecision, TypeOK, ReviewRequest
<1>1. ASSUME NEW a \in Accounts, NEW decision \in Decision,
             ReadForReview(v, a, decision)
      PROVE DecisionsApplied' /\ applied \subseteq applied'
            /\ UNCHANGED publishVars
  BY <1>1 DEF ReadForReview
<1>2. CASE SaveReview(v)
  <2>1. \A a \in Accounts :
          orgs'[a] = "approved" => <<a, "approved">> \in applied'
    BY <1>2 DEF SaveReview
  <2>2. \A w \in Reviews :
          rev'[w].pc = "saved" => <<rev'[w].org, rev'[w].decision>> \in applied'
    BY <1>2 DEF SaveReview
  <2>3. \A w \in Reviews : rev'[w].pc = "read" => orgs'[rev'[w].org] # "none"
    BY <1>2 DEF SaveReview, Decision
  <2> QED BY <1>2, <2>1, <2>2, <2>3 DEF SaveReview
<1>3. CASE RecordReview(v) BY <1>3, NoReviewType DEF RecordReview
<1>4. CASE FailReview(v) BY <1>4, NoReviewType DEF FailReview
<1> QED BY <1>1, <1>2, <1>3, <1>4 DEF ReviewOrganization

LEMMA PublishDecisions ==
  ASSUME DecisionsApplied, PublishersApproved, TypeOK,
         NEW p \in Projects, Publish(p)
  PROVE PublishersApproved'
<1> USE DEF PublishersApproved, PublishedAfterApproval, TypeOK, Publication,
            reviewVars
<1>1. CASE ReadOrganization(p)
  <2>1. CASE orgs[pub[p].owner] = "approved"
    BY <1>1, <2>1 DEF ReadOrganization, DecisionsApplied
  <2>2. CASE orgs[pub[p].owner] # "approved"
    BY <1>1, <2>2 DEF ReadOrganization
  <2> QED BY <2>1, <2>2
<1>2. CASE InsertProject(p) BY <1>2 DEF InsertProject
<1>3. CASE FailPublication(p) BY <1>3 DEF FailPublication
<1> QED BY <1>1, <1>2, <1>3 DEF Publish

----------------------------------------------------------------------------
IInv == TypeOK /\ AccountsInv /\ DecisionsApplied /\ PublishersApproved

LEMMA NextIInv == IInv /\ [Next]_vars => IInv'
<1> SUFFICES ASSUME IInv, [Next]_vars PROVE IInv'
  OBVIOUS
<1>t. TypeOK /\ TypeOK' BY NextTypeOK DEF IInv
<1>1. ASSUME NEW a \in Accounts, Register(a) PROVE IInv'
  <2>1. AccountsInv' BY <1>1, <1>t, RegisterAccounts DEF IInv
  <2>2. UNCHANGED <<reviewVars, publishVars>>
    BY <1>1 DEF Register, LookUp, InsertUser, InsertOrganization,
                FailRegistration, LoseInsertAnswer
  <2>3. \A b \in Accounts : orgs'[b] \in {orgs[b], "pending"}
    BY <1>1, <1>t DEF Register, LookUp, InsertUser, InsertOrganization,
                FailRegistration, LoseInsertAnswer, TypeOK
  <2>4. DecisionsApplied' BY <1>t, <2>2, <2>3, DecisionsKept DEF IInv
  <2>5. PublishersApproved'
    BY <2>2, PublishersKept DEF IInv, reviewVars
  <2> QED BY <1>t, <2>1, <2>4, <2>5 DEF IInv
<1>2. ASSUME NEW v \in Reviews, ReviewOrganization(v) PROVE IInv'
  <2>1. DecisionsApplied' /\ applied \subseteq applied' /\ UNCHANGED publishVars
    BY <1>2, <1>t, ReviewDecisions DEF IInv
  <2>2. PublishersApproved' BY <2>1, PublishersKept DEF IInv
  <2>3. KeepsAccounts BY <1>2, <1>t, ReviewKeeps DEF IInv, DecisionsApplied
  <2> QED BY <1>t, <2>1, <2>2, <2>3, AccountsKept DEF IInv
<1>3. ASSUME NEW p \in Projects, Publish(p) PROVE IInv'
  <2>1. UNCHANGED reviewVars /\ UNCHANGED orgs
    BY <1>3 DEF Publish, ReadOrganization, InsertProject, FailPublication
  <2>2. DecisionsApplied' BY <1>t, <2>1, DecisionsKept DEF IInv
  <2>3. PublishersApproved' BY <1>3, <1>t, PublishDecisions DEF IInv
  <2>4. AccountsInv' BY <1>3, <1>t, PublishKeeps, AccountsKept DEF IInv
  <2> QED BY <1>t, <2>2, <2>3, <2>4 DEF IInv
<1>4. CASE Crash
  <2>1. AccountsInv' BY <1>4, <1>t, CrashKeeps, AccountsKept DEF IInv
  <2>2. DecisionsApplied'
    BY <1>4, NoReviewType
       DEF Crash, IInv, DecisionsApplied, AuditFollowsDecision
  <2>3. PublishersApproved'
    <3>1. \A p \in Projects :
            pub'[p].owner = pub[p].owner /\ pub'[p].pc # "checked"
      BY <1>4, <1>t DEF Crash, Dead, TypeOK, Publication
    <3>2. projects' = projects /\ applied' = applied /\ projects \subseteq Projects
      BY <1>4, <1>t DEF Crash, TypeOK
    <3>3. \A p \in projects : <<pub[p].owner, "approved">> \in applied
      BY DEF IInv, PublishersApproved, PublishedAfterApproval
    <3>4. PublishedAfterApproval'
      BY <3>1, <3>2, <3>3 DEF PublishedAfterApproval
    <3> QED BY <3>1, <3>4 DEF PublishersApproved
  <2> QED BY <1>t, <2>1, <2>2, <2>3 DEF IInv
<1>5. CASE UNCHANGED vars
  <2>1. UNCHANGED <<reviewVars, publishVars, orgs, reg, users>>
    BY <1>5 DEF vars, reviewVars, publishVars
  <2>2. DecisionsApplied' BY <1>t, <2>1, DecisionsKept DEF IInv
  <2>3. PublishersApproved' BY <2>1, PublishersKept DEF IInv, reviewVars
  <2>4. KeepsAccounts BY <2>1 DEF KeepsAccounts
  <2> QED BY <1>t, <2>2, <2>3, <2>4, AccountsKept DEF IInv
<1> QED BY <1>1, <1>2, <1>3, <1>4, <1>5 DEF Next

LEMMA Invariant == Spec => []IInv
<1>1. Init => IInv BY InitTypeOK, InitAccounts, InitDecisions DEF IInv
<1> QED BY <1>1, NextIInv, PTL DEF Spec

\* No overlap of registrations makes two accounts with one name or address.
THEOREM AccountsUnique == Spec => []UniqueAccounts
<1>1. IInv => UniqueAccounts BY DEF IInv, AccountsInv
<1> QED BY <1>1, Invariant, PTL

\* Nobody is refused for an account that is not there.
THEOREM RefusalsHaveReason == Spec => []RefusedIsTaken
<1>1. IInv => RefusedIsTaken BY DEF IInv, AccountsInv
<1> QED BY <1>1, Invariant, PTL

\* Who was told of a registration has it, organization included.
THEOREM RegistrationHolds == Spec => []ToldOrganizationExists
<1>1. IInv => ToldOrganizationExists BY DEF IInv, AccountsInv
<1> QED BY <1>1, Invariant, PTL

\* Every project is of an organization that was approved.
THEOREM PublishersWereApproved == Spec => []PublishedAfterApproval
<1>1. IInv => PublishedAfterApproval BY DEF IInv, PublishersApproved
<1> QED BY <1>1, Invariant, PTL

\* The audit table holds nothing that did not happen.
THEOREM AuditIsTrue == Spec => []AuditFollowsDecision
<1>1. IInv => AuditFollowsDecision BY DEF IInv, DecisionsApplied
<1> QED BY <1>1, Invariant, PTL

\* A review, once it has reached an organization, is replaced by reviews only.
THEOREM ReviewIsFinal == Spec => NeverBackToPending
<1> DEFINE Reviewed(a) == orgs[a] \notin {"none", "pending"}
<1>1. ASSUME IInv, [Next]_vars
      PROVE \A a \in Accounts : Reviewed(a) => Reviewed(a)'
  <2> SUFFICES ASSUME NEW a \in Accounts, Reviewed(a), orgs' # orgs
               PROVE Reviewed(a)'
    OBVIOUS
  <2>t. TypeOK /\ RowsFollowRequests BY <1>1 DEF IInv, AccountsInv
  <2>1. CASE UNCHANGED vars BY <2>1 DEF vars
  <2>2. ASSUME NEW b \in Accounts, Register(b) PROVE Reviewed(a)'
    <3>1. reg[b].pc = "inserted" /\ orgs' = [orgs EXCEPT ![b] = "pending"]
      BY <2>2 DEF Register, LookUp, InsertUser, InsertOrganization,
                  FailRegistration, LoseInsertAnswer
    <3>2. a # b BY <3>1, <2>t DEF RowsFollowRequests
    <3> QED BY <3>1, <3>2, <2>t DEF TypeOK
  <2>3. ASSUME NEW v \in Reviews, ReviewOrganization(v) PROVE Reviewed(a)'
    BY <2>3, <2>t DEF ReviewOrganization, ReadForReview, SaveReview,
                      RecordReview, FailReview, TypeOK, ReviewRequest, Decision
  <2>4. ASSUME NEW p \in Projects, Publish(p) PROVE Reviewed(a)'
    BY <2>4 DEF Publish, ReadOrganization, InsertProject, FailPublication
  <2>5. CASE Crash BY <2>5 DEF Crash
  <2> QED BY <1>1, <2>1, <2>2, <2>3, <2>4, <2>5 DEF Next
<1>2. ASSUME IInv, [Next]_vars
      PROVE [\A a \in Accounts : Reviewed(a) => Reviewed(a)']_vars
  BY <1>1, <1>2
<1>3. ASSUME IInv, [Next]_vars
      PROVE [\A a \in Accounts : orgs[a] \notin {"none", "pending"} =>
                                   orgs'[a] \notin {"none", "pending"}]_vars
  BY <1>2, <1>3
<1> QED BY <1>3, Invariant, PTL DEF Spec, NeverBackToPending
============================================================================
