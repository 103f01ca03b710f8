-------------------------------- MODULE View --------------------------------
(***************************************************************************)
(* What a tab of the site shows.  A page loads what it shows when it is    *)
(* opened, when its category or page number changes, when the user object  *)
(* changes, and after a review; several requests may be under way, their   *)
(* answers come in any order or not at all, and the last one to come is    *)
(* shown.  ProjectDetail, which donates, is left to Checkout; what becomes *)
(* of user and token is Session.                                           *)
(***************************************************************************)
EXTENDS Integers

CONSTANTS
  Categories,  \* the filters of the projects page
  All,         \* the filter that is set at first
  Limit,       \* projects on a page
  Counts,      \* numbers of approved projects a filter may have
  OpeningCount, \* and those there are at first
  MaxLoads,    \* bound: loads under way at one time
  MaxPosts,    \* bound: submissions under way at one time
  MaxClock,    \* bound: versions of the tables
  Roles        \* roles of visitors that are logged in

ASSUME AllAssumption == All \in Categories
ASSUME LimitAssumption == Limit \in Nat \ {0}
ASSUME CountsAssumption ==
  Counts \subseteq Nat /\ OpeningCount \in [Categories -> Counts]
ASSUME BoundAssumption == MaxLoads \in Nat \ {0} /\ MaxPosts \in Nat
ASSUME RolesAssumption == Roles \subseteq {"user", "org", "admin"}

VARIABLES
  role,     \* of the user in memory, "none" without one
  getMe,    \* the answer of getMe is still to come
  view,     \* the page and its state
  loads,    \* slots for the loads of the page
  posts,    \* slots for reviews and forms that were sent
  count,    \* approved projects per filter, in the tables
  clock     \* version of the tables: grows when what they hold changes

vars == <<role, getMe, view, loads, posts, count, clock>>

\* Requests a load sends, or reads it makes: Promise.all of Home, Ranking and
\* Admin, and the count and the rows of a list of projects.
Parts == [home |-> 3, ranking |-> 2, projects |-> 2, profile |-> 1,
          admin |-> 2, publish |-> 1, create |-> 0, elsewhere |-> 0]
Pages == DOMAIN Parts
\* Pages with an effect on [user].
ByUser == {"profile", "admin", "publish"}

LoadSlots == 1 .. MaxLoads
PostSlots == 1 .. MaxPosts

\* What a load brings: for which category and page, how old the oldest part
\* is, whether all parts are of one version, projects or none, totalPages.
Data == [cat : Categories, no : Nat \ {0}, at : Nat, whole : BOOLEAN,
         some : BOOLEAN, pages : Nat]
Nothing == [cat |-> All, no |-> 1, at |-> 0, whole |-> TRUE, some |-> FALSE,
            pages |-> 0]

Load == [asked : BOOLEAN, left : Nat, data : Data]
NoLoad == [asked |-> FALSE, left |-> 0, data |-> Nothing]

Post == [kind : {"none", "review", "project", "update"}, served : BOOLEAN,
         live : BOOLEAN]  \* the page it was sent from is still there
NoPost == [kind |-> "none", served |-> FALSE, live |-> FALSE]

View == [page : Pages, cat : Categories, no : Nat \ {0}, data : Data,
         loading : BOOLEAN,
         busy : BOOLEAN,      \* a form waits for its answer
         \* history, of this visit to the page:
         crossed : BOOLEAN,   \* the last load overlapped another, or failed
         opened : Nat,        \* version at the visit
         since : Nat,         \* version at the last thing to be shown
         offered : Nat]       \* largest totalPages that came

TypeOK ==
  /\ role \in Roles \cup {"none"}
  /\ getMe \in BOOLEAN
  /\ view \in View
  /\ loads \in [LoadSlots -> Load]
  /\ posts \in [PostSlots -> Post]
  /\ count \in [Categories -> Counts]
  /\ clock \in Nat \ {0}

----------------------------------------------------------------------------
\* Who may see a page; others are redirected to / or, by Profile, to /login.
May(p, r) ==
  /\ p = "profile" => r # "none"
  /\ p = "admin" => r = "admin"
  /\ p \in {"publish", "create"} => r = "org"
Landing(p, r) ==
  IF May(p, r) THEN p ELSE IF p = "profile" THEN "elsewhere" ELSE "home"

\* The state a page is mounted with.
Fresh(p) ==
  [page |-> p, cat |-> All, no |-> 1, data |-> Nothing,
   loading |-> Parts[p] > 0, busy |-> FALSE, crossed |-> FALSE,
   opened |-> clock, since |-> clock, offered |-> 0]

InFlight(n) == loads[n].asked

Asked(v) ==
  [asked |-> TRUE, left |-> Parts[v.page],
   data |-> [Nothing EXCEPT !.cat = v.cat, !.no = v.no]]

\* Of what a page has submitted, only a new project still does something to
\* the site when the page is left.
Abandoned(sent) ==
  [n \in PostSlots |->
     IF sent[n].kind = "project" THEN [sent[n] EXCEPT !.live = FALSE]
                                 ELSE NoPost]

\* Fault: an answer an earlier page asked for is still taken.
ArriveWithLoads(p, r, sent) ==
  LET v == Fresh(Landing(p, r))
  IN /\ role' = r
     /\ view' = v
     /\ loads' = [n \in LoadSlots |->
                    IF n = 1 /\ v.loading THEN Asked(v) ELSE loads[n]]
     /\ posts' = Abandoned(sent)
\* The visitor, with role r, comes to p; the answers to what the earlier
\* page asked for are of no effect.
Arrive(p, r, sent) ==
  LET v == Fresh(Landing(p, r))
  IN /\ role' = r
     /\ view' = v
     /\ loads' = [n \in LoadSlots |->
                    IF n = 1 /\ v.loading THEN Asked(v) ELSE NoLoad]
     /\ posts' = Abandoned(sent)

Init ==
  /\ clock = 1
  /\ count = OpeningCount
  /\ \E r \in Roles \cup {"none"}, p \in Pages :
       /\ role = r
       /\ getMe = (r # "none")
       /\ view = Fresh(Landing(p, r))
  /\ loads = [n \in LoadSlots |->
                IF n = 1 /\ view.loading THEN Asked(view) ELSE NoLoad]
  /\ posts = [n \in PostSlots |-> NoPost]

Visit(p) ==
  /\ p # view.page
  /\ Arrive(p, role, posts)
  /\ UNCHANGED <<getMe, count, clock>>

\* The application is loaded anew.
Reload ==
  /\ Arrive(view.page, role, [n \in PostSlots |-> NoPost])
  /\ getMe' = (role # "none")
  /\ UNCHANGED <<count, clock>>

\* navigate() to the page that is there already mounts nothing.
Navigate(p, r, sent) ==
  IF p = view.page
  THEN role' = r /\ posts' = sent /\ UNCHANGED <<view, loads>>
  ELSE Arrive(p, r, sent)

\* Login or registration: on to the first page.
SignIn(r) ==
  /\ role = "none"
  /\ Navigate("home", r, posts)
  /\ UNCHANGED <<getMe, count, clock>>

\* logout(), or status 401; an answer of getMe that comes after it is left
\* to Session.
SignOut ==
  /\ role # "none"
  /\ Arrive("elsewhere", "none", posts)
  /\ getMe' = FALSE
  /\ UNCHANGED <<count, clock>>

\* The page v asks for its data, in the first free slot.
Ask(v) ==
  \E n \in LoadSlots :
    /\ ~InFlight(n) /\ \A m \in 1 .. (n - 1) : InFlight(m)
    /\ loads' = [loads EXCEPT ![n] = Asked(v)]
    /\ view' = [v EXCEPT !.crossed = \E m \in LoadSlots : InFlight(m)]

\* getMe answers: a user object of its own, so the effects on [user] run; or
\* fails: logout().
Refreshed ==
  /\ getMe /\ getMe' = FALSE
  /\ IF view.page \in ByUser
     THEN Ask(view)
     ELSE UNCHANGED <<view, loads>>
  /\ UNCHANGED <<role, posts, count, clock>>
SessionLost ==
  /\ getMe /\ getMe' = FALSE
  /\ IF May(view.page, "none")
     THEN role' = "none" /\ UNCHANGED <<view, loads, posts>>
     ELSE Arrive(view.page, "none", posts)
  /\ UNCHANGED <<count, clock>>

----------------------------------------------------------------------------
\* Every category button sets the page number to 1.
Choose(c) ==
  /\ view.page = "projects"
  /\ <<c, 1>> # <<view.cat, view.no>>
  /\ Ask([view EXCEPT !.cat = c, !.no = 1, !.loading = TRUE, !.since = clock])
  /\ UNCHANGED <<role, getMe, posts, count, clock>>

\* Fault: the next page without Math.min and without disabled.
TargetsUnclamped(no, pages) == (1 .. pages) \cup {no + 1}
\* Fault: the previous page without Math.max and without disabled.
TargetsFromZero(no, pages) == (1 .. pages) \cup {no - 1}
\* The page numbers, and the buttons for the previous and the next page.
Targets(no, pages) ==
  (1 .. pages)
    \cup (IF no = 1 THEN {} ELSE {no - 1})
    \cup (IF no = pages THEN {} ELSE {IF no < pages THEN no + 1 ELSE pages})

Turn ==
  /\ view.page = "projects" /\ ~view.loading
  /\ view.data.some /\ view.data.pages > 1
  /\ \E no \in Targets(view.no, view.data.pages) \ {view.no} :
       Ask([view EXCEPT !.no = no, !.loading = TRUE, !.since = clock])
  /\ UNCHANGED <<role, getMe, posts, count, clock>>

----------------------------------------------------------------------------
\* Fault: a full last page counts as one more.
TotalPagesFloor(total) == total \div Limit + 1
TotalPages(total) == (total + Limit - 1) \div Limit

\* One request of a load, or one read of a list, at the server.
Serve(n) ==
  LET load == loads[n]
      d == load.data
      total == count[d.cat]
      read ==
        IF view.page # "projects" THEN d
        ELSE IF load.left = 2 THEN [d EXCEPT !.pages = TotalPages(total)]
        ELSE [d EXCEPT !.some = total > (d.no - 1) * Limit]
  IN /\ InFlight(n) /\ load.left > 0
     /\ loads' = [loads EXCEPT ![n] =
          [asked |-> TRUE, left |-> load.left - 1,
           data |-> [read EXCEPT !.at = IF @ = 0 THEN clock ELSE @,
                                 !.whole = @ /\ d.at \in {0, clock}]]]
     /\ UNCHANGED <<role, getMe, view, posts, count, clock>>

\* All parts have come: they are shown, whatever else is under way.
Deliver(n) ==
  /\ InFlight(n) /\ loads[n].left = 0
  /\ view' = [view EXCEPT !.data = loads[n].data, !.loading = FALSE,
        !.offered = IF loads[n].data.pages > @ THEN loads[n].data.pages ELSE @]
  /\ loads' = [loads EXCEPT ![n] = NoLoad]
  /\ UNCHANGED <<role, getMe, posts, count, clock>>

\* Fault: no finally.
FailSilently(n) ==
  /\ InFlight(n)
  /\ view' = [view EXCEPT !.crossed = TRUE]
  /\ loads' = [loads EXCEPT ![n] = NoLoad]
  /\ UNCHANGED <<role, getMe, posts, count, clock>>
\* One part fails, or is lost for the 10 s axios waits: what was shown stays.
Fail(n) ==
  /\ InFlight(n)
  /\ view' = [view EXCEPT !.loading = FALSE, !.crossed = TRUE]
  /\ loads' = [loads EXCEPT ![n] = NoLoad]
  /\ UNCHANGED <<role, getMe, posts, count, clock>>

----------------------------------------------------------------------------
Send(kind) ==
  \E n \in PostSlots :
    /\ posts[n] = NoPost /\ \A m \in 1 .. (n - 1) : posts[m] # NoPost
    /\ posts' = [posts EXCEPT ![n] =
                   [kind |-> kind, served |-> FALSE, live |-> TRUE]]

\* The buttons of a pending project or organization, also for one that is
\* being reviewed already.
Review ==
  /\ view.page = "admin" /\ ~view.loading /\ view.data.at # 0
  /\ Send("review")
  /\ UNCHANGED <<role, getMe, view, loads, count, clock>>

CreateProject ==
  /\ view.page = "create" /\ ~view.busy
  /\ Send("project")
  /\ view' = [view EXCEPT !.busy = TRUE]
  /\ UNCHANGED <<role, getMe, loads, count, clock>>

CreateUpdate ==
  /\ view.page = "publish" /\ ~view.loading /\ ~view.busy
  /\ Send("update")
  /\ view' = [view EXCEPT !.busy = TRUE]
  /\ UNCHANGED <<role, getMe, loads, count, clock>>

\* The review takes effect.  A new project changes none of the lists that are
\* watched here but those of Change.  The server refuses every update of the
\* site: images is a list there, a string in its own request type.
ServeReview(n) ==
  /\ posts[n].kind = "review" /\ ~posts[n].served
  /\ posts' = [posts EXCEPT ![n].served = TRUE]
  /\ clock < MaxClock /\ clock' = clock + 1
  /\ UNCHANGED <<role, getMe, view, loads, count>>

\* Fault: the lists are not loaded again.
ReviewedNoReload(n) ==
  /\ posts[n].kind = "review" /\ posts[n].served
  /\ posts' = [posts EXCEPT ![n] = NoPost]
  /\ view' = [view EXCEPT !.since = clock]
  /\ UNCHANGED <<role, getMe, loads, count, clock>>
\* The pending lists are loaded again, without a sign of it.
Reviewed(n) ==
  /\ posts[n].kind = "review" /\ posts[n].served
  /\ posts' = [posts EXCEPT ![n] = NoPost]
  /\ Ask([view EXCEPT !.since = clock])
  /\ UNCHANGED <<role, getMe, count, clock>>

\* On to the projects, also from another page the visitor has gone to.
Created(n) ==
  /\ posts[n].kind = "project"
  /\ Navigate("projects", role, [posts EXCEPT ![n] = NoPost])
  /\ UNCHANGED <<getMe, count, clock>>

\* Refused, lost or late: an alert, and the form can be sent again.
Refused(n) ==
  /\ posts[n].kind # "none"
  /\ posts' = [posts EXCEPT ![n] = NoPost]
  /\ view' = [view EXCEPT
       !.busy = @ /\ ~(posts[n].live /\ posts[n].kind # "review")]
  /\ UNCHANGED <<role, getMe, loads, count, clock>>

\* Others publish, review and donate.
Change(c, k) ==
  /\ clock < MaxClock /\ clock' = clock + 1
  /\ count' = [count EXCEPT ![c] = k]
  /\ \A d \in Categories : count'[d] <= count'[All]
  /\ UNCHANGED <<role, getMe, view, loads, posts>>

----------------------------------------------------------------------------
Leaves ==
  \/ \E p \in Pages : Visit(p)
  \/ Reload
  \/ \E r \in Roles : SignIn(r)
  \/ SignOut
  \/ \E n \in PostSlots : Created(n)

Next ==
  \/ Leaves \/ Refreshed \/ SessionLost
  \/ \E c \in Categories : Choose(c)
  \/ Turn \/ Review \/ CreateProject \/ CreateUpdate
  \/ \E n \in LoadSlots : Serve(n) \/ Deliver(n) \/ Fail(n)
  \/ \E n \in PostSlots : ServeReview(n) \/ Reviewed(n) \/ Refused(n)
  \/ \E c \in Categories, k \in Counts : Change(c, k)

Spec == Init /\ [][Next]_vars

\* axios gives up after 10 s: every load and every submission is answered or
\* fails.
FairSpec ==
  /\ Spec
  /\ \A n \in LoadSlots : WF_vars(Deliver(n) \/ Fail(n))
  /\ \A n \in PostSlots : WF_vars(Reviewed(n) \/ Created(n) \/ Refused(n))

----------------------------------------------------------------------------
\* Nothing is shown that is older than the visit to the page: no answer to a
\* former page gets into a later one, and loading starts when it opens.
NeverOlderThanOpening ==
  /\ view.data.at # 0 => view.data.at >= view.opened
  /\ \A n \in LoadSlots : loads[n].data.at # 0 => loads[n].data.at >= view.opened

\* When every load has been answered, and the last one neither overlapped
\* another nor failed, the page shows the chosen category and page number,
\* as of that choice or later, and what the administrator's last review made
\* of the pending lists.
PageIsCurrent ==
  (/\ Parts[view.page] > 0
   /\ \A n \in LoadSlots : ~InFlight(n)
   /\ ~view.crossed)
    => /\ view.data.at >= view.since
       /\ view.data.cat = view.cat
       /\ view.data.no = view.no

\* A page number comes from the controls of a list that came during the
\* visit, however lists shrink and answers cross; and the pages a list
\* offers are those with projects, if it was read in one version.
PagesOffered ==
  /\ view.no <= (IF view.offered > 1 THEN view.offered ELSE 1)
  /\ (view.page = "projects" /\ view.data.at # 0 /\ view.data.whole)
       => (view.data.some <=> view.data.no <= view.data.pages)

\* A visitor who stays sees every load and every form end.
LoadingEnds ==
  \/ []<>(~view.loading) /\ []<>(~view.busy)
  \/ []<><<Leaves>>_vars

----------------------------------------------------------------------------
(***************************************************************************)
(* What the loads under way carry obeys the same bounds as what is shown:  *)
(* the part of the inductive invariants that is about answers to come.     *)
(***************************************************************************)
\* Nothing is older than the visit, or from the future.
Ages ==
  /\ view.opened <= view.since /\ view.since <= clock
  /\ view.data.at # 0 => view.data.at \in view.opened .. clock
  /\ \A n \in LoadSlots :
       loads[n].data.at # 0 => loads[n].data.at \in view.opened .. clock

ReviewsHere ==
  \A n \in PostSlots : posts[n].kind = "review" => view.page = "admin"

\* A load that neither overlapped another nor failed is the only one, and for
\* what is chosen.
LoadsFit ==
  /\ \A n \in LoadSlots :
       InFlight(n) /\ loads[n].left = 0 => loads[n].data.at # 0
  /\ ~view.crossed =>
       \A n \in LoadSlots : InFlight(n) =>
         /\ \A m \in LoadSlots : InFlight(m) => m = n
         /\ loads[n].data.cat = view.cat /\ loads[n].data.no = view.no
         /\ loads[n].data.at # 0 => loads[n].data.at >= view.since

\* A list of projects counts first; while its version is the current one,
\* totalPages still fits the tables.
ListFits(load) ==
  LET d == load.data
  IN /\ load.left <= 2
     /\ load.left = 2 => d.at = 0
     /\ load.left = 1 =>
          d.at # 0 /\ (d.at = clock => d.pages = TotalPages(count[d.cat]))
     /\ load.left = 0 /\ d.whole => (d.some <=> d.no <= d.pages)
ListsFit ==
  /\ view.data.pages <= view.offered
  /\ view.page = "projects" =>
       \A n \in LoadSlots : InFlight(n) => ListFits(loads[n])
=============================================================================
