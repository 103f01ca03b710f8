------------------------------ MODULE Checkout ------------------------------
(***************************************************************************)
(* A donor on the page of a project: ProjectDetail with its DonationModal, *)
(* in front of a server that keeps the books of Ledger.  The page may show *)
(* another project than its address names, its requests and answers cross  *)
(* or get lost, axios gives up after 10 s while the server goes on, and    *)
(* the donor closes the dialog, leaves, comes back and tries again.        *)
(***************************************************************************)
EXTENDS Integers, FiniteSets, Functions

CONSTANTS
  Projects,
  None,
  Me,          \* the donor of this page
  Other,       \* all others
  Amounts,     \* amounts a donation may have
  Target,      \* column target_amount
  OpeningProject,
  OpeningTotal,
  MaxLoads,    \* bound: loads under way at one time
  MaxSubmits,  \* bound: donations submitted
  MaxOther     \* bound: money of others

ASSUME CheckoutAssumption ==
  /\ None \notin Projects
  /\ Me # Other
  /\ Amounts \subseteq Nat \ {0}
  /\ MaxLoads \in Nat /\ MaxSubmits \in Nat /\ MaxOther \in Nat

VARIABLES
  project, total, byProject, byUser,  \* the server's, as in Ledger
  page,    \* ProjectDetail and DonationModal
  loads,   \* slots for requests of the project
  post     \* donations submitted, in order

server == <<project, total, byProject, byUser>>
vars == <<server, page, loads, post>>

Users == {Me, Other}

Server == INSTANCE Ledger WITH
  Users <- Users, Projects <- Projects, Amounts <- Amounts, Target <- Target,
  OpeningProject <- OpeningProject, OpeningTotal <- OpeningTotal,
  project <- project, total <- total,
  byProject <- byProject, byUser <- byUser

LoadSlots == 1 .. MaxLoads
Submits == 1 .. MaxSubmits

\* A request for a project and, once served, whether it takes no donations.
Load == [id : Projects, served : BOOLEAN, completed : BOOLEAN]
NoLoad == [id |-> None, served |-> FALSE, completed |-> FALSE]

Page == [id : Projects,                  \* of the address
         shown : Projects \cup {None},   \* state project
         completed : BOOLEAN,            \* its status, as it was loaded
         loading : BOOLEAN,
         open : BOOLEAN,                 \* showDonationModal
         busy : BOOLEAN]                 \* loading of DonationModal

Post == [fate : {"waiting", "recorded", "refused"},   \* at the server
         told : {"nothing", "success", "failure"},
         project : Projects, amount : Amounts,  \* in the request
         seen : Projects,   \* history: what the page showed
         \* The address loadProject was made for, while the page waits.
         home : Projects \cup {None}]
Unsent == [fate |-> "unsent", told |-> "nothing", home |-> None]

TypeOK ==
  /\ byProject \in [Projects -> Nat]
  /\ byUser \in [Users -> Nat]
  /\ page \in Page /\ (page.open => page.shown # None)
  /\ loads \in [LoadSlots -> Load \cup {NoLoad}]
  /\ post \in [Submits -> Post \cup {Unsent}]

Fresh(p) ==
  [id |-> p, shown |-> None, completed |-> FALSE, loading |-> TRUE,
   open |-> FALSE, busy |-> FALSE]
Asked(p) == [id |-> p, served |-> FALSE, completed |-> FALSE]

Init ==
  /\ Server!Init
  /\ \E p \in Projects :
       /\ page = Fresh(p)
       /\ loads = [n \in LoadSlots |-> IF n = 1 THEN Asked(p) ELSE NoLoad]
  /\ post = [n \in Submits |-> Unsent]

----------------------------------------------------------------------------
\* The page is opened, or opened again: none of the answers its predecessor
\* waits for changes it.
Open(p) ==
  /\ page' = Fresh(p)
  /\ loads' = [n \in LoadSlots |-> IF n = 1 THEN Asked(p) ELSE NoLoad]
  /\ post' = [n \in Submits |-> [post[n] EXCEPT !.home = None]]
  /\ UNCHANGED server

Ask(p) ==
  \E n \in LoadSlots :
    /\ loads[n] = NoLoad /\ \A m \in 1 .. (n - 1) : loads[m] # NoLoad
    /\ loads' = [loads EXCEPT ![n] = Asked(p)]

\* From project to project, by the history of the browser: the component
\* stays, with what it shows and its dialog, and loads the other project.
Go(p) ==
  /\ p # page.id
  /\ page' = [page EXCEPT !.id = p]
  /\ Ask(p)
  /\ UNCHANGED <<server, post>>

ServeLoad(n) ==
  /\ loads[n] # NoLoad /\ ~loads[n].served
  /\ loads' = [loads EXCEPT ![n].served = TRUE,
       ![n].completed = project[loads[n].id].status = "completed"]
  /\ UNCHANGED <<server, page, post>>

\* The last answer to come is shown, for whichever project it is.
DeliverLoad(n) ==
  /\ loads[n].served
  /\ page' = [page EXCEPT !.shown = loads[n].id, !.loading = FALSE,
                          !.completed = loads[n].completed]
  /\ loads' = [loads EXCEPT ![n] = NoLoad]
  /\ UNCHANGED <<server, post>>

FailLoad(n) ==
  /\ loads[n] # NoLoad
  /\ page' = [page EXCEPT !.loading = FALSE]
  /\ loads' = [loads EXCEPT ![n] = NoLoad]
  /\ UNCHANGED <<server, post>>

----------------------------------------------------------------------------
\* A visitor who is not logged in is sent to /login instead.
DonateClick ==
  /\ ~page.loading /\ page.shown # None /\ ~page.completed
  /\ page' = [page EXCEPT !.open = TRUE]
  /\ UNCHANGED <<server, loads, post>>

\* Fault: the dialog is made anew each time it opens.
CloseResets ==
  /\ page.open
  /\ page' = [page EXCEPT !.open = FALSE, !.busy = FALSE]
  /\ UNCHANGED <<server, loads, post>>
\* Also while a donation is under way.
Close ==
  /\ page.open
  /\ page' = [page EXCEPT !.open = FALSE]
  /\ UNCHANGED <<server, loads, post>>

\* Fault: the request names the project of the address.
NamedByAddress == page.id
\* projectId of the request: the project that is shown.
Named == page.shown

\* handleSubmit, with a as the amount; without one it only alerts.
Submit(n, a) ==
  /\ post[n].fate = "unsent" /\ \A m \in 1 .. (n - 1) : post[m].fate # "unsent"
  /\ page.open /\ ~page.busy
  /\ post' = [post EXCEPT ![n] =
       [fate |-> "waiting", told |-> "nothing", project |-> Named,
        amount |-> a, seen |-> page.shown, home |-> page.id]]
  /\ page' = [page EXCEPT !.busy = TRUE]
  /\ UNCHANGED <<server, loads>>

----------------------------------------------------------------------------
\* The server records the donation or refuses it, perhaps after axios has
\* given up; a request that is lost is never served.
Serve(n) ==
  /\ post[n].fate = "waiting"
  /\ \/ /\ Server!Donate(Me, post[n].project, post[n].amount)
        /\ post' = [post EXCEPT ![n].fate = "recorded"]
     \/ /\ post' = [post EXCEPT ![n].fate = "refused"]
        /\ UNCHANGED server
  /\ UNCHANGED <<page, loads>>

Others(p, a) ==
  /\ byUser[Other] + a <= MaxOther
  /\ Server!Donate(Other, p, a)
  /\ UNCHANGED <<page, loads, post>>

\* 201: thanks, the project is loaded again and the dialog closes.
Success(n) ==
  /\ post[n].fate = "recorded" /\ post[n].told = "nothing"
  /\ post' = [post EXCEPT ![n].told = "success", ![n].home = None]
  /\ IF post[n].home # None
     THEN /\ page' = [page EXCEPT !.open = FALSE, !.busy = FALSE]
          /\ Ask(post[n].home)
     ELSE UNCHANGED <<page, loads>>
  /\ UNCHANGED server

\* Fault: no finally.
FailureKeepsWaiting(n) ==
  /\ post[n].fate # "unsent" /\ post[n].told = "nothing"
  /\ post' = [post EXCEPT ![n].told = "failure", ![n].home = None]
  /\ UNCHANGED <<server, page, loads>>
\* Refused, or no answer within 10 s, whatever the server does: the dialog
\* stays and asks to try again.
Failure(n) ==
  /\ post[n].fate # "unsent" /\ post[n].told = "nothing"
  /\ post' = [post EXCEPT ![n].told = "failure", ![n].home = None]
  /\ page' = [page EXCEPT !.busy = @ /\ post[n].home = None]
  /\ UNCHANGED <<server, loads>>

----------------------------------------------------------------------------
Next ==
  \/ \E p \in Projects : Open(p) \/ Go(p)
  \/ \E n \in LoadSlots : ServeLoad(n) \/ DeliverLoad(n) \/ FailLoad(n)
  \/ DonateClick \/ Close
  \/ \E n \in Submits, a \in Amounts : Submit(n, a)
  \/ \E n \in Submits : Serve(n) \/ Success(n) \/ Failure(n)
  \/ \E p \in Projects, a \in Amounts : Others(p, a)

Spec == Init /\ [][Next]_vars

\* axios answers every request within 10 s, if only with a failure.
FairSpec == Spec /\ \A n \in Submits : WF_vars(Success(n) \/ Failure(n))

----------------------------------------------------------------------------
Waiting == {n \in Submits : post[n].home # None}
Sent == {n \in Submits : post[n].fate # "unsent"}
Recorded == {n \in Submits : post[n].fate = "recorded"}
Thanked == {n \in Submits : post[n].told = "success"}
On(p, ns) == {n \in ns : post[n].seen = p}
Sum(ns) == SumFunctionOnSet([n \in Sent |-> post[n].amount], ns)

\* What the donor was thanked for is in the books, under the project the
\* page showed at the time, and the books hold nothing of the donor's that
\* was not submitted: whichever answers crossed and whatever was retried.
ToldWithinBooks ==
  /\ \A p \in Projects : Sum(On(p, Thanked)) <= byProject[p]
  /\ Sum(Thanked) <= byUser[Me]
  /\ byUser[Me] <= Sum(Sent)

\* A page never waits for two donations at once, so that an answer always
\* belongs to the donation the dialog waits for: closing the dialog, going
\* to another project and coming back do not bring the button back.
OneAtATime == Cardinality(Waiting) <= 1

\* Every donation is answered and the button works again.
SubmitSettles == page.busy ~> ~page.busy

\* The alert of a failure asks the donor to donate again: nothing must have
\* been recorded, then or later.
FailureMeansNotRecorded ==
  \A n \in Submits : post[n].told = "failure" => post[n].fate # "recorded"

----------------------------------------------------------------------------
(***************************************************************************)
(* The inductive strengthenings of OneAtATime and of ToldWithinBooks.      *)
(***************************************************************************)
\* The button is disabled exactly while the dialog waits, for one donation.
BusyIsOne ==
  /\ page.busy <=> Waiting # {}
  /\ \A m, n \in Waiting : m = n

\* The books hold what the server recorded of the donor's, to the project
\* that was shown, and only that is thanked for.
RecordedIsBooked ==
  /\ \A n \in Sent : post[n].project = post[n].seen
  /\ Thanked \subseteq Recorded
  /\ byUser[Me] = Sum(Recorded)
  /\ \A p \in Projects : Sum(On(p, Recorded)) <= byProject[p]
=============================================================================
