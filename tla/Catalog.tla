------------------------------ MODULE Catalog ------------------------------
(***************************************************************************)
(* How accounts, organizations and projects come into being: AuthService.  *)
(* Register, AdminService.ReviewOrganization and ProjectService.Create.    *)
(* Each is a sequence of autocommitted statements, one action each.  Any   *)
(* statement can fail, also after it has taken effect, and the process can *)
(* die between any two.                                                    *)
(*                                                                         *)
(* A request to register and the users row it may insert have one id, and  *)
(* so have a request to publish and its projects row.  An organization is  *)
(* named by its account (its user_id is unique).  Its other columns never  *)
(* change, so of the row that Save writes back only the status counts.     *)
(***************************************************************************)
EXTENDS Naturals

CONSTANTS
  Accounts,   \* the requests to register
  Names,      \* what they ask for: usernames
  Emails,     \* and addresses
  Projects,   \* the requests to publish a project
  Reviews,    \* review requests in progress at a time
  MaxReviews  \* bound on the reviews that start, per organization

ASSUME CatalogAssumption ==
  /\ Names # {} /\ Emails # {} /\ Accounts # {}
  /\ MaxReviews \in Nat

VARIABLES
  reg,       \* requests to register
  users,     \* table users: the ids of its rows
  orgs,      \* table organizations: the status of an account's row, or none
  rev,       \* reviews of organizations
  audit,     \* table admin_reviews: organization and decision
  applied,   \* history: the decisions that reached the organization's row
  pub,       \* requests to publish
  projects,  \* table projects: the ids of its rows
  started    \* bound: the reviews of each organization so far

vars == <<reg, users, orgs, rev, audit, applied, pub, projects, started>>
accountVars == <<reg, users>>
reviewVars == <<rev, audit, applied, started>>
publishVars == <<pub, projects>>

\* Register stores the role that is sent; any other string, and none, counts
\* as "user".
Roles == {"user", "org", "admin"}
OrgStatus == {"pending", "approved", "rejected"}

\* Fault: the status in the request is not checked.
DecisionUnchecked == {"approved", "rejected", "pending", "suspended"}

Decision == {"approved", "rejected"}
RegisterPC == {"new", "checked", "inserted", "created", "refused", "failed"}
Registration == [pc : RegisterPC, name : Names, email : Emails, role : Roles]
ReviewRequest ==
  [pc : {"idle", "read", "saved"}, org : Accounts, decision : Decision]
Publication ==
  [pc : {"new", "checked", "created", "refused", "failed"}, owner : Accounts]

NoReview ==
  [pc |-> "idle", org |-> CHOOSE a \in Accounts : TRUE, decision |-> "approved"]

TypeOK ==
  /\ reg \in [Accounts -> Registration]
  /\ users \subseteq Accounts
  /\ orgs \in [Accounts -> OrgStatus \union {"none"}]
  /\ rev \in [Reviews -> ReviewRequest]
  /\ audit \subseteq Accounts \X Decision
  /\ applied \subseteq Accounts \X Decision
  /\ pub \in [Projects -> Publication]
  /\ projects \subseteq Projects
  /\ started \in [Accounts -> Nat]

\* Requests to register and to publish carry their data from the start.
Init ==
  /\ reg \in [Accounts -> [pc : {"new"}, name : Names, email : Emails,
                           role : Roles]]
  /\ users = {}
  /\ orgs = [a \in Accounts |-> "none"]
  /\ rev = [v \in Reviews |-> NoReview]
  /\ audit = {} /\ applied = {}
  /\ pub \in [Projects -> [pc : {"new"}, owner : Accounts]]
  /\ projects = {}
  /\ started = [a \in Accounts |-> 0]

----------------------------------------------------------------------------
(***************************************************************************)
(* AuthService.Register.                                                   *)
(***************************************************************************)
\* Two requests that ask for the same username or the same address.
Clash(a, b) == reg[a].name = reg[b].name \/ reg[a].email = reg[b].email
Taken(a) == \E b \in users : b # a /\ Clash(a, b)

\* Fault: the lookup's answer is read the wrong way round.
LookUpInverted(a) ==
  /\ reg[a].pc = "new"
  /\ reg' = [reg EXCEPT ![a].pc = IF Taken(a) THEN "checked" ELSE "refused"]
  /\ UNCHANGED <<users, orgs, reviewVars, publishVars>>

\* FindByUsernameOrEmail finds a row, or none.
LookUp(a) ==
  /\ reg[a].pc = "new"
  /\ reg' = [reg EXCEPT ![a].pc = IF Taken(a) THEN "refused" ELSE "checked"]
  /\ UNCHANGED <<users, orgs, reviewVars, publishVars>>

AfterInsert(a) == IF reg[a].role = "org" THEN "inserted" ELSE "created"

\* Fault: the columns have no unique index.
InsertUserNoIndex(a) ==
  /\ reg[a].pc = "checked"
  /\ users' = users \union {a}
  /\ reg' = [reg EXCEPT ![a].pc = AfterInsert(a)]
  /\ UNCHANGED <<orgs, reviewVars, publishVars>>

\* userRepo.Create: the unique indexes admit no second row with the name or
\* the address.
InsertUser(a) ==
  /\ reg[a].pc = "checked"
  /\ IF Taken(a)
       THEN /\ reg' = [reg EXCEPT ![a].pc = "refused"]
            /\ UNCHANGED users
       ELSE /\ users' = users \union {a}
            /\ reg' = [reg EXCEPT ![a].pc = AfterInsert(a)]
  /\ UNCHANGED <<orgs, reviewVars, publishVars>>

\* orgRepo.Create.
InsertOrganization(a) ==
  /\ reg[a].pc = "inserted"
  /\ orgs' = [orgs EXCEPT ![a] = "pending"]
  /\ reg' = [reg EXCEPT ![a].pc = "created"]
  /\ UNCHANGED <<users, reviewVars, publishVars>>

\* Fault: the error of the last statement is not returned.
FailRegistrationIgnored(a) ==
  /\ reg[a].pc \in {"new", "checked", "inserted"}
  /\ reg' = [reg EXCEPT ![a].pc = IF @ = "inserted" THEN "created" ELSE "failed"]
  /\ UNCHANGED <<users, orgs, reviewVars, publishVars>>

\* The statement that is due fails and has no effect.
FailRegistration(a) ==
  /\ reg[a].pc \in {"new", "checked", "inserted"}
  /\ reg' = [reg EXCEPT ![a].pc = "failed"]
  /\ UNCHANGED <<users, orgs, reviewVars, publishVars>>

\* The insert takes effect and its answer is lost.
LoseInsertAnswer(a) ==
  /\ \/ /\ reg[a].pc = "checked" /\ ~ Taken(a)
        /\ users' = users \union {a}
        /\ UNCHANGED orgs
     \/ /\ reg[a].pc = "inserted"
        /\ orgs' = [orgs EXCEPT ![a] = "pending"]
        /\ UNCHANGED users
  /\ reg' = [reg EXCEPT ![a].pc = "failed"]
  /\ UNCHANGED <<reviewVars, publishVars>>

Register(a) ==
  \/ LookUp(a)
  \/ InsertUser(a)
  \/ InsertOrganization(a)
  \/ FailRegistration(a)
  \/ LoseInsertAnswer(a)

----------------------------------------------------------------------------
(***************************************************************************)
(* AdminService.ReviewOrganization.                                        *)
(***************************************************************************)
ReadForReview(v, a, decision) ==
  /\ rev[v].pc = "idle"
  /\ orgs[a] # "none"
  /\ started[a] < MaxReviews
  /\ rev' = [rev EXCEPT ![v] = [pc |-> "read", org |-> a,
                                decision |-> decision]]
  /\ started' = [started EXCEPT ![a] = @ + 1]
  /\ UNCHANGED <<accountVars, orgs, audit, applied, publishVars>>

SaveReview(v) ==
  /\ rev[v].pc = "read"
  /\ orgs' = [orgs EXCEPT ![rev[v].org] = rev[v].decision]
  /\ applied' = applied \union {<<rev[v].org, rev[v].decision>>}
  /\ rev' = [rev EXCEPT ![v].pc = "saved"]
  /\ UNCHANGED <<accountVars, audit, started, publishVars>>

RecordReview(v) ==
  /\ rev[v].pc = "saved"
  /\ audit' = audit \union {<<rev[v].org, rev[v].decision>>}
  /\ rev' = [rev EXCEPT ![v] = NoReview]
  /\ UNCHANGED <<accountVars, orgs, applied, started, publishVars>>

\* Fault: the error of the update is not looked at.
FailReviewIgnored(v) ==
  /\ rev[v].pc # "idle"
  /\ rev' = [rev EXCEPT ![v].pc = "saved"]
  /\ UNCHANGED <<accountVars, orgs, audit, applied, started, publishVars>>

\* The statement that is due fails; the one before it stays.
FailReview(v) ==
  /\ rev[v].pc # "idle"
  /\ rev' = [rev EXCEPT ![v] = NoReview]
  /\ UNCHANGED <<accountVars, orgs, audit, applied, started, publishVars>>

ReviewOrganization(v) ==
  \/ \E a \in Accounts, decision \in Decision : ReadForReview(v, a, decision)
  \/ SaveReview(v)
  \/ RecordReview(v)
  \/ FailReview(v)

----------------------------------------------------------------------------
(***************************************************************************)
(* ProjectService.Create, for an account that could log in with role org.  *)
(***************************************************************************)
MayPublish(a) == a \in users /\ reg[a].role = "org"

\* Fault: only the existence of the organization is looked at.
ReadOrganizationAnyStatus(p) ==
  /\ pub[p].pc = "new" /\ MayPublish(pub[p].owner)
  /\ pub' = [pub EXCEPT ![p].pc = IF orgs[pub[p].owner] # "none"
                                    THEN "checked" ELSE "refused"]
  /\ UNCHANGED <<accountVars, orgs, reviewVars, projects>>

\* orgRepo.FindByUserID: there is an organization, and it is approved.
ReadOrganization(p) ==
  /\ pub[p].pc = "new" /\ MayPublish(pub[p].owner)
  /\ pub' = [pub EXCEPT ![p].pc = IF orgs[pub[p].owner] = "approved"
                                    THEN "checked" ELSE "refused"]
  /\ UNCHANGED <<accountVars, orgs, reviewVars, projects>>

\* projectRepo.Create, with status pending.
InsertProject(p) ==
  /\ pub[p].pc = "checked"
  /\ projects' = projects \union {p}
  /\ pub' = [pub EXCEPT ![p].pc = "created"]
  /\ UNCHANGED <<accountVars, orgs, reviewVars>>

\* A statement fails, or the insert loses its answer.
FailPublication(p) ==
  /\ \/ pub[p].pc = "new" /\ MayPublish(pub[p].owner) /\ UNCHANGED projects
     \/ pub[p].pc = "checked" /\ projects' \in {projects, projects \union {p}}
  /\ pub' = [pub EXCEPT ![p].pc = "failed"]
  /\ UNCHANGED <<accountVars, orgs, reviewVars>>

Publish(p) ==
  \/ ReadOrganization(p)
  \/ InsertProject(p)
  \/ FailPublication(p)

----------------------------------------------------------------------------
\* The process dies and starts again: requests in flight are gone, and who
\* sent them is told that they failed.
Dead(pc) == IF pc \in {"new", "created", "refused"} THEN pc ELSE "failed"

Crash ==
  /\ reg' = [a \in Accounts |-> [reg[a] EXCEPT !.pc = Dead(@)]]
  /\ pub' = [p \in Projects |-> [pub[p] EXCEPT !.pc = Dead(@)]]
  /\ rev' = [v \in Reviews |-> NoReview]
  /\ UNCHANGED <<users, orgs, audit, applied, projects, started>>

Next ==
  \/ \E a \in Accounts : Register(a)
  \/ \E v \in Reviews : ReviewOrganization(v)
  \/ \E p \in Projects : Publish(p)
  \/ Crash

Spec == Init /\ [][Next]_vars

----------------------------------------------------------------------------
\* However registrations overlap, no two accounts share a username or an
\* address: the lookup comes before the insert and does not lock anything.
UniqueAccounts == \A a, b \in users : a # b => ~ Clash(a, b)

\* A registration is refused only for an account that is there.
RefusedIsTaken == \A a \in Accounts : reg[a].pc = "refused" => Taken(a)

\* An organization that was told it is registered has its row and can be
\* reviewed, whatever failed before or after.
ToldOrganizationExists ==
  \A a \in Accounts :
    reg[a].pc = "created" =>
      a \in users /\ (reg[a].role = "org" => orgs[a] # "none")

\* A project is there only if its organization was approved at some time,
\* by a decision that reached its row.
PublishedAfterApproval ==
  \A p \in projects : <<pub[p].owner, "approved">> \in applied

\* Every audit record tells of a decision that was carried out.
AuditFollowsDecision == audit \subseteq applied

\* An organization that was reviewed, however often and by whom, is never
\* again listed as pending.
NeverBackToPending ==
  [][\A a \in Accounts : orgs[a] \notin {"none", "pending"} =>
                             orgs'[a] \notin {"none", "pending"}]_vars
============================================================================
