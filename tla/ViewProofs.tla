----------------------------- MODULE ViewProofs -----------------------------
(***************************************************************************)
(* Proofs about View, for any categories and page size, any numbers of     *)
(* projects, and any bounds on loads, submissions and versions.            *)
(***************************************************************************)
EXTENDS View, TLAPS

USE AllAssumption, LimitAssumption, CountsAssumption, RolesAssumption,
    BoundAssumption

LEMMA PartsType ==
  /\ Pages = {"home", "ranking", "projects", "profile", "admin", "publish",
              "create", "elsewhere"}
  /\ \A p \in Pages : Parts[p] \in Nat
BY DEF Pages, Parts

LEMMA NothingType == Nothing \in Data /\ NoLoad \in Load /\ NoPost \in Post
BY DEF Nothing, Data, NoLoad, Load, NoPost, Post

LEMMA AskedType == ASSUME NEW v \in View PROVE Asked(v) \in Load
BY NothingType, PartsType DEF Asked, View, Load, Data, Nothing

LEMMA LandingType ==
  ASSUME NEW p \in Pages, NEW r PROVE Landing(p, r) \in Pages
BY PartsType DEF Landing

LEMMA FreshType ==
  ASSUME TypeOK, NEW p \in Pages PROVE Fresh(p) \in View
BY NothingType, PartsType DEF Fresh, View, TypeOK

\* Whatever brings a visitor to a page leaves its state well typed.
LEMMA ArriveType ==
  ASSUME TypeOK, NEW p \in Pages, NEW r \in Roles \cup {"none"},
         NEW sent \in [PostSlots -> Post], Arrive(p, r, sent)
  PROVE /\ role' \in Roles \cup {"none"} /\ view' \in View
        /\ loads' \in [LoadSlots -> Load] /\ posts' \in [PostSlots -> Post]
<1> DEFINE v == Fresh(Landing(p, r))
<1>1. v \in View
  BY LandingType, FreshType
<1>2. /\ role' = r /\ view' = v
      /\ loads' = [n \in LoadSlots |->
                     IF n = 1 /\ v.loading THEN Asked(v) ELSE NoLoad]
      /\ posts' = Abandoned(sent)
  BY DEF Arrive
<1>3. Asked(v) \in Load
  BY <1>1, AskedType
<1>4. Abandoned(sent) \in [PostSlots -> Post]
  BY NothingType DEF Abandoned, Post
<1> QED BY <1>1, <1>2, <1>3, <1>4, NothingType

LEMMA AskType ==
  ASSUME TypeOK, NEW v \in View, Ask(v)
  PROVE view' \in View /\ loads' \in [LoadSlots -> Load]
<1>1. PICK n \in LoadSlots :
        /\ loads' = [loads EXCEPT ![n] = Asked(v)]
        /\ view' = [v EXCEPT !.crossed = \E m \in LoadSlots : InFlight(m)]
  BY DEF Ask
<1>2. loads' \in [LoadSlots -> Load]
  BY <1>1, AskedType DEF TypeOK
<1>3. (\E m \in LoadSlots : InFlight(m)) \in BOOLEAN
  OBVIOUS
<1>4. view' \in View
  BY <1>1, <1>3 DEF View
<1> QED BY <1>2, <1>4

LEMMA TargetsType ==
  ASSUME NEW no \in Nat \ {0}, NEW pages \in Nat, pages > 1
  PROVE \A t \in Targets(no, pages) :
          t \in Nat \ {0} /\ (t <= pages \/ t < no)
<1> SUFFICES ASSUME NEW t \in Targets(no, pages)
             PROVE t \in Nat \ {0} /\ (t <= pages \/ t < no)
  OBVIOUS
<1>1. CASE t \in 1 .. pages
  BY <1>1
<1>2. CASE t = no - 1 /\ no # 1
  BY <1>2
<1>3. CASE t \in (IF no = pages THEN {}
                   ELSE {IF no < pages THEN no + 1 ELSE pages})
  <2>1. no # pages /\ t = IF no < pages THEN no + 1 ELSE pages
    BY <1>3
  <2> QED BY <2>1
<1> QED BY <1>1, <1>2, <1>3 DEF Targets

\* The arithmetic of ProjectService.List: the pages are those with projects.
LEMMA PagesHaveProjects ==
  ASSUME NEW total \in Nat, NEW no \in Nat \ {0}
  PROVE /\ TotalPages(total) \in Nat
        /\ (total > (no - 1) * Limit) <=> no <= TotalPages(total)
<1> DEFINE q == (total + Limit - 1) \div Limit
<1>1. /\ q \in Int
      /\ q * Limit <= total + Limit - 1
      /\ total + Limit - 1 < (q + 1) * Limit
  OBVIOUS
<1>2. TotalPages(total) = q
  BY DEF TotalPages
<1> HIDE DEF q
<1>3. q >= 0
  <2>1. SUFFICES ASSUME q <= -1 PROVE FALSE
    BY <1>1
  <2>2. (q + 1) * Limit <= 0
    BY <1>1, <2>1
  <2> QED BY <1>1, <2>2
<1>4. ASSUME no <= q PROVE total > (no - 1) * Limit
  <2>1. no * Limit <= q * Limit
    BY <1>1, <1>4
  <2>2. (no - 1) * Limit = no * Limit - Limit
    OBVIOUS
  <2> QED BY <1>1, <2>1, <2>2
<1>5. ASSUME ~(no <= q) PROVE ~(total > (no - 1) * Limit)
  <2>1. q <= no - 1
    BY <1>1, <1>5
  <2>2. q * Limit <= (no - 1) * Limit
    BY <1>1, <2>1
  <2>3. (q + 1) * Limit = q * Limit + Limit
    BY <1>1
  <2> QED BY <1>1, <2>2, <2>3
<1> QED BY <1>1, <1>2, <1>3, <1>4, <1>5

----------------------------------------------------------------------------
LEMMA SettleType ==
  ASSUME TypeOK, NEW n \in LoadSlots, Serve(n) \/ Deliver(n) \/ Fail(n)
  PROVE TypeOK'
<1> USE NothingType DEF TypeOK
<1>1. loads[n] \in Load /\ loads[n].data \in Data
  BY DEF Load
<1>2. CASE Serve(n)
  <2> DEFINE load == loads[n]
             d == load.data
             total == count[d.cat]
             read ==
               IF view.page # "projects" THEN d
               ELSE IF load.left = 2
                    THEN [d EXCEPT !.pages = TotalPages(total)]
                    ELSE [d EXCEPT !.some = total > (d.no - 1) * Limit]
             done == [read EXCEPT !.at = IF @ = 0 THEN clock ELSE @,
                                  !.whole = @ /\ d.at \in {0, clock}]
  <2>1. total \in Nat
    BY <1>1 DEF Data
  <2>2. TotalPages(total) \in Nat
    BY <2>1, PagesHaveProjects
  <2>3. read \in Data
    <3>1. CASE view.page # "projects" BY <1>1, <3>1
    <3>2. CASE view.page = "projects" /\ load.left = 2
      BY <1>1, <2>2, <3>2 DEF Data
    <3>3. CASE view.page = "projects" /\ load.left # 2
      <4>1. (total > (d.no - 1) * Limit) \in BOOLEAN
        OBVIOUS
      <4> QED BY <1>1, <3>3, <4>1 DEF Data
    <3> QED BY <3>1, <3>2, <3>3
  <2>4. done \in Data
    <3> HIDE DEF read
    <3>1. (read.whole /\ d.at \in {0, clock}) \in BOOLEAN
      OBVIOUS
    <3>2. (IF read.at = 0 THEN clock ELSE read.at) \in Nat
      BY <2>3 DEF Data
    <3> QED BY <2>3, <3>1, <3>2 DEF Data
  <2>5. /\ loads' = [loads EXCEPT ![n] =
             [asked |-> TRUE, left |-> load.left - 1, data |-> done]]
        /\ load.left > 0
        /\ UNCHANGED <<role, getMe, view, posts, count, clock>>
    BY <1>2 DEF Serve
  <2> HIDE DEF done
  <2>6. [asked |-> TRUE, left |-> load.left - 1, data |-> done] \in Load
    BY <1>1, <2>4, <2>5 DEF Load
  <2> QED BY <2>5, <2>6
<1>3. CASE Deliver(n)
  <2>1. (IF loads[n].data.pages > view.offered THEN loads[n].data.pages
                                               ELSE view.offered) \in Nat
    BY <1>1 DEF Data, View
  <2>2. view' \in View
    BY <1>1, <1>3, <2>1 DEF Deliver, View
  <2> QED BY <1>3, <2>2 DEF Deliver
<1>4. CASE Fail(n)
  <2>1. view' \in View
    BY <1>4 DEF Fail, View
  <2> QED BY <1>4, <2>1 DEF Fail
<1> QED BY <1>2, <1>3, <1>4

LEMMA SendType ==
  ASSUME TypeOK, NEW kind \in {"review", "project", "update"}, Send(kind)
  PROVE posts' \in [PostSlots -> Post]
<1>1. PICK n \in PostSlots :
        posts' = [posts EXCEPT ![n] =
                    [kind |-> kind, served |-> FALSE, live |-> TRUE]]
  BY DEF Send
<1>2. [kind |-> kind, served |-> FALSE, live |-> TRUE] \in Post
  BY DEF Post
<1> QED BY <1>1, <1>2 DEF TypeOK

LEMMA TypeStep == ASSUME TypeOK, [Next]_vars PROVE TypeOK'
<1> USE NothingType DEF TypeOK
<1>1. CASE UNCHANGED vars
  BY <1>1 DEF vars
<1>2. ASSUME NEW p \in Pages, Visit(p) PROVE TypeOK'
  BY <1>2, ArriveType DEF Visit
<1>3. CASE Reload
  <2>1. view.page \in Pages /\ [n \in PostSlots |-> NoPost] \in [PostSlots -> Post]
    BY DEF View
  <2>2. (role # "none") \in BOOLEAN
    OBVIOUS
  <2> QED BY <1>3, <2>1, <2>2, ArriveType DEF Reload
<1>4. ASSUME NEW r \in Roles, SignIn(r) PROVE TypeOK'
  <2>1. "home" \in Pages
    BY PartsType
  <2> QED BY <1>4, <2>1, ArriveType DEF SignIn, Navigate
<1>5. CASE SignOut
  <2>1. "elsewhere" \in Pages
    BY PartsType
  <2> QED BY <1>5, <2>1, ArriveType DEF SignOut
<1>6. ASSUME NEW n \in PostSlots, Created(n) PROVE TypeOK'
  <2>1. "projects" \in Pages /\ [posts EXCEPT ![n] = NoPost] \in [PostSlots -> Post]
    BY PartsType
  <2> QED BY <1>6, <2>1, ArriveType DEF Created, Navigate
<1>7. CASE Refreshed
  BY <1>7, AskType DEF Refreshed
<1>8. CASE SessionLost
  <2>1. view.page \in Pages
    BY DEF View
  <2> QED BY <1>8, <2>1, ArriveType DEF SessionLost
<1>9. ASSUME NEW c \in Categories, Choose(c) PROVE TypeOK'
  <2>1. [view EXCEPT !.cat = c, !.no = 1, !.loading = TRUE, !.since = clock]
          \in View
    <3>1. c \in Categories /\ 1 \in Nat \ {0} /\ clock \in Nat
      OBVIOUS
    <3>2. [view EXCEPT !.no = 1, !.loading = TRUE, !.since = clock] \in View
      BY <3>1 DEF View
    <3> QED BY <3>1, <3>2 DEF View
  <2> QED BY <1>9, <2>1, AskType DEF Choose
<1>10. CASE Turn
  <2>1. view.no \in Nat \ {0} /\ view.data.pages \in Nat
    BY DEF View, Data
  <2>2. view.data.pages > 1
    BY <1>10 DEF Turn
  <2>3. PICK no \in Targets(view.no, view.data.pages) :
          Ask([view EXCEPT !.no = no, !.loading = TRUE, !.since = clock])
    BY <1>10 DEF Turn
  <2>4. no \in Nat \ {0}
    BY <2>1, <2>2, TargetsType
  <2>5. [view EXCEPT !.no = no, !.loading = TRUE, !.since = clock] \in View
    BY <2>4 DEF View
  <2> QED BY <1>10, <2>3, <2>5, AskType DEF Turn
<1>11. CASE Review \/ CreateProject \/ CreateUpdate
  <2>1. view' \in View
    BY <1>11 DEF Review, CreateProject, CreateUpdate, View
  <2>2. \A kind \in {"review", "project", "update"} :
          Send(kind) => posts' \in [PostSlots -> Post]
    BY SendType
  <2>3. posts' \in [PostSlots -> Post]
    BY <1>11, <2>2 DEF Review, CreateProject, CreateUpdate
  <2> QED BY <1>11, <2>1, <2>3 DEF Review, CreateProject, CreateUpdate
<1>12. ASSUME NEW n \in LoadSlots, Serve(n) \/ Deliver(n) \/ Fail(n)
       PROVE TypeOK'
  BY <1>12, SettleType
<1>13. ASSUME NEW n \in PostSlots, ServeReview(n) PROVE TypeOK'
  <2>1. [posts[n] EXCEPT !.served = TRUE] \in Post
    BY DEF Post
  <2>2. posts' = [posts EXCEPT ![n] = [posts[n] EXCEPT !.served = TRUE]]
    BY <1>13 DEF ServeReview
  <2>3. posts' \in [PostSlots -> Post]
    BY <2>1, <2>2
  <2> QED BY <1>13, <2>3 DEF ServeReview
<1>14. ASSUME NEW n \in PostSlots, Reviewed(n) PROVE TypeOK'
  <2>1. [view EXCEPT !.since = clock] \in View
    BY DEF View
  <2> QED BY <1>14, <2>1, AskType DEF Reviewed
<1>15. ASSUME NEW n \in PostSlots, Refused(n) PROVE TypeOK'
  <2>1. (view.busy /\ ~(posts[n].live /\ posts[n].kind # "review")) \in BOOLEAN
    OBVIOUS
  <2>2. view' \in View
    BY <1>15, <2>1 DEF Refused, View
  <2> QED BY <1>15, <2>2 DEF Refused
<1>16. ASSUME NEW c \in Categories, NEW k \in Counts, Change(c, k)
       PROVE TypeOK'
  BY <1>16 DEF Change
<1> QED BY <1>1, <1>2, <1>3, <1>4, <1>5, <1>6, <1>7, <1>8, <1>9, <1>10, <1>11,
        <1>12, <1>13, <1>14, <1>15, <1>16 DEF Next, Leaves

LEMMA InitType == ASSUME Init PROVE TypeOK
<1>1. PICK r \in Roles \cup {"none"}, p \in Pages :
        role = r /\ getMe = (r # "none") /\ view = Fresh(Landing(p, r))
  BY DEF Init
<1>2. Landing(p, r) \in Pages
  BY LandingType
<1>3. view \in View
  BY <1>1, <1>2, NothingType, PartsType DEF Fresh, View, Init
<1>4. Asked(view) \in Load
  BY <1>3, AskedType
<1>5. loads \in [LoadSlots -> Load] /\ posts \in [PostSlots -> Post]
  BY <1>4, NothingType DEF Init
<1> QED BY <1>1, <1>3, <1>5 DEF Init, TypeOK

\* Page numbers stay above zero, whatever the controls offer.
THEOREM TypeCorrect == Spec => []TypeOK
BY InitType, TypeStep, PTL DEF Spec

----------------------------------------------------------------------------
(***************************************************************************)
(* What a step can do to the page and its loads: nothing that is watched   *)
(* here, mount a page, ask for data, or bring a load further.              *)
(***************************************************************************)
Still ==
  /\ loads' = loads
  /\ view'.page = view.page /\ view'.cat = view.cat /\ view'.no = view.no
  /\ view'.data = view.data /\ view'.crossed = view.crossed
  /\ view'.opened = view.opened /\ view'.since = view.since
  /\ view'.offered = view.offered
  /\ clock' >= clock /\ (clock' = clock => count' = count)

Mounts ==
  \E p \in Pages :
    LET v == Fresh(p)
    IN /\ view' = v
       /\ loads' = [n \in LoadSlots |->
                      IF n = 1 /\ v.loading THEN Asked(v) ELSE NoLoad]
       /\ clock' = clock /\ count' = count

Asks ==
  \E v \in View :
    /\ Ask(v) /\ Parts[v.page] > 0
    /\ v.page = view.page /\ v.data = view.data
    /\ v.opened = view.opened /\ v.offered = view.offered
    /\ v.since \in {view.since, clock}
    /\ v.no \in {1, view.no} \/ v.no <= view.data.pages \/ v.no < view.no
    /\ clock' = clock /\ count' = count

LEMMA ArriveMounts ==
  ASSUME NEW p \in Pages, NEW r, NEW sent, Arrive(p, r, sent),
         clock' = clock, count' = count
  PROVE Mounts
<1>1. Landing(p, r) \in Pages
  BY LandingType
<1> QED BY <1>1 DEF Arrive, Mounts

LEMMA NavigateMounts ==
  ASSUME NEW p \in Pages, NEW r, NEW sent, Navigate(p, r, sent),
         TypeOK, clock' = clock, count' = count
  PROVE Still \/ Mounts
BY ArriveMounts DEF Navigate, Still, TypeOK

LEMMA Steps ==
  ASSUME TypeOK, ReviewsHere, [Next]_vars
  PROVE \/ Still \/ Mounts \/ Asks
        \/ \E n \in LoadSlots : Serve(n) \/ Deliver(n) \/ Fail(n)
<1> USE DEF TypeOK
<1>1. CASE UNCHANGED vars
  BY <1>1 DEF vars, Still
<1>2. CASE Leaves
  <2>1. "home" \in Pages /\ "elsewhere" \in Pages /\ "projects" \in Pages
        /\ view.page \in Pages
    BY PartsType DEF View
  <2> QED BY <1>2, <2>1, ArriveMounts, NavigateMounts
          DEF Leaves, Visit, Reload, SignIn, SignOut, Created
<1>3. CASE Refreshed
  <2>1. view.page \in ByUser => Parts[view.page] > 0
    BY DEF ByUser, Parts
  <2>2. clock' = clock /\ count' = count
    BY <1>3 DEF Refreshed
  <2>3. CASE view.page \in ByUser
    BY <1>3, <2>1, <2>2, <2>3 DEF Refreshed, Asks
  <2>4. CASE view.page \notin ByUser
    BY <1>3, <2>2, <2>4 DEF Refreshed, Still
  <2> QED BY <2>3, <2>4
<1>4. CASE SessionLost
  <2>1. view.page \in Pages
    BY DEF View
  <2> QED BY <1>4, <2>1, ArriveMounts DEF SessionLost, Still
<1>5. ASSUME NEW c \in Categories, Choose(c) PROVE Asks
  <2> DEFINE v == [view EXCEPT !.cat = c, !.no = 1, !.loading = TRUE,
                               !.since = clock]
  <2>1. v \in View
    <3>1. c \in Categories /\ 1 \in Nat \ {0} /\ clock \in Nat
      OBVIOUS
    <3>2. [view EXCEPT !.no = 1, !.loading = TRUE, !.since = clock] \in View
      BY <3>1 DEF View
    <3> QED BY <3>1, <3>2 DEF View
  <2>2. /\ v.page = view.page /\ v.data = view.data
        /\ v.opened = view.opened /\ v.offered = view.offered
        /\ v.since = clock /\ v.no = 1
    BY DEF View
  <2>3. Ask(v) /\ view.page = "projects" /\ clock' = clock /\ count' = count
    BY <1>5 DEF Choose
  <2>4. Parts[v.page] > 0
    BY <2>2, <2>3 DEF Parts
  <2> HIDE DEF v
  <2> QED BY <2>1, <2>2, <2>3, <2>4 DEF Asks
<1>6. CASE Turn
  <2>1. view.no \in Nat \ {0} /\ view.data.pages \in Nat
    BY DEF View, Data
  <2>2. /\ view.data.pages > 1 /\ view.page = "projects"
        /\ clock' = clock /\ count' = count
    BY <1>6 DEF Turn
  <2>3. PICK no \in Targets(view.no, view.data.pages) :
          Ask([view EXCEPT !.no = no, !.loading = TRUE, !.since = clock])
    BY <1>6 DEF Turn
  <2>4. no \in Nat \ {0} /\ (no <= view.data.pages \/ no < view.no)
    BY <2>1, <2>2, TargetsType
  <2> DEFINE v == [view EXCEPT !.no = no, !.loading = TRUE, !.since = clock]
  <2>5. v \in View
    BY <2>4 DEF View
  <2>6. /\ v.page = view.page /\ v.data = view.data
        /\ v.opened = view.opened /\ v.offered = view.offered
        /\ v.since = clock /\ v.no = no
    BY DEF View
  <2>7. Parts[v.page] > 0 /\ Ask(v)
    BY <2>2, <2>3, <2>6 DEF Parts
  <2> HIDE DEF v
  <2> QED BY <2>2, <2>4, <2>5, <2>6, <2>7 DEF Asks
<1>7. CASE Review \/ CreateProject \/ CreateUpdate
  BY <1>7 DEF Review, CreateProject, CreateUpdate, Still, View
<1>8. ASSUME NEW n \in PostSlots, Reviewed(n) PROVE Asks
  <2> DEFINE v == [view EXCEPT !.since = clock]
  <2>1. v \in View
    BY DEF View
  <2>2. /\ v.page = view.page /\ v.data = view.data
        /\ v.opened = view.opened /\ v.offered = view.offered
        /\ v.since = clock /\ v.no = view.no
    BY DEF View
  <2>3. Ask(v) /\ posts[n].kind = "review" /\ clock' = clock /\ count' = count
    BY <1>8 DEF Reviewed
  <2>4. Parts[v.page] > 0
    BY <2>2, <2>3 DEF ReviewsHere, Parts
  <2> HIDE DEF v
  <2> QED BY <2>1, <2>2, <2>3, <2>4 DEF Asks
<1>9. ASSUME NEW n \in PostSlots, ServeReview(n) \/ Refused(n) PROVE Still
  BY <1>9 DEF ServeReview, Refused, Still, View
<1>10. ASSUME NEW c \in Categories, NEW k \in Counts, Change(c, k) PROVE Still
  BY <1>10 DEF Change, Still
<1> QED BY <1>1, <1>2, <1>3, <1>4, <1>5, <1>6, <1>7, <1>8, <1>9, <1>10 DEF Next

LEMMA ReviewsStep ==
  ASSUME TypeOK, ReviewsHere, [Next]_vars PROVE ReviewsHere'
<1> USE DEF ReviewsHere, TypeOK
<1>1. CASE UNCHANGED vars
  BY <1>1 DEF vars
<1>2. ASSUME NEW p, NEW r, NEW sent, Arrive(p, r, sent) PROVE ReviewsHere'
  <2>1. posts' = Abandoned(sent)
    BY <1>2 DEF Arrive
  <2>2. \A n \in PostSlots : posts'[n].kind # "review"
    BY <2>1 DEF Abandoned, NoPost
  <2> QED BY <2>2
<1>3. CASE Leaves
  <2>1. \A n \in PostSlots :
          [posts EXCEPT ![n] = NoPost][n].kind # "review"
    BY DEF NoPost
  <2>2. ASSUME NEW n \in PostSlots, Created(n) PROVE ReviewsHere'
    <3>1. CASE view.page = "projects"
      BY <2>2, <3>1 DEF Created, Navigate, NoPost
    <3>2. CASE view.page # "projects"
      BY <1>2, <2>2, <3>2 DEF Created, Navigate
    <3> QED BY <3>1, <3>2
  <2>3. ASSUME NEW r \in Roles, SignIn(r) PROVE ReviewsHere'
    BY <1>2, <2>3 DEF SignIn, Navigate
  <2> QED BY <1>2, <1>3, <2>2, <2>3 DEF Leaves, Visit, Reload, SignOut
<1>4. CASE Refreshed
  BY <1>4 DEF Refreshed, Ask, View
<1>5. CASE SessionLost
  BY <1>2, <1>5 DEF SessionLost
<1>6. ASSUME NEW c \in Categories, Choose(c) PROVE ReviewsHere'
  BY <1>6 DEF Choose, Ask, View
<1>7. CASE Turn
  BY <1>7 DEF Turn, Ask, View
<1>8. CASE Review \/ CreateProject \/ CreateUpdate
  BY <1>8 DEF Review, CreateProject, CreateUpdate, Send, View
<1>9. ASSUME NEW n \in LoadSlots, Serve(n) \/ Deliver(n) \/ Fail(n)
      PROVE ReviewsHere'
  BY <1>9 DEF Serve, Deliver, Fail, View
<1>10. ASSUME NEW n \in PostSlots, ServeReview(n) PROVE ReviewsHere'
  <2>1. \A m \in PostSlots : posts'[m].kind = posts[m].kind
    BY <1>10 DEF ServeReview, Post
  <2> QED BY <1>10, <2>1 DEF ServeReview
<1>11. ASSUME NEW n \in PostSlots, Reviewed(n) \/ Refused(n)
       PROVE ReviewsHere'
  <2>1. \A m \in PostSlots : posts'[m] = posts[m] \/ posts'[m] = NoPost
    BY <1>11 DEF Reviewed, Refused
  <2>2. view'.page = view.page
    BY <1>11 DEF Reviewed, Refused, Ask, View
  <2> QED BY <2>1, <2>2 DEF NoPost
<1>12. ASSUME NEW c \in Categories, NEW k \in Counts, Change(c, k)
       PROVE ReviewsHere'
  BY <1>12 DEF Change
<1> QED BY <1>1, <1>3, <1>4, <1>5, <1>6, <1>7, <1>8, <1>9, <1>10, <1>11, <1>12
        DEF Next

----------------------------------------------------------------------------
\* A page just mounted has nothing, and at most the load it asks for.
LEMMA Mounted ==
  ASSUME TypeOK, Mounts
  PROVE /\ view'.data = Nothing /\ view'.no = 1 /\ view'.offered = 0
        /\ view'.opened = clock /\ view'.since = clock
        /\ clock' = clock /\ count' = count
        /\ Parts[view'.page] > 0 => \E n \in LoadSlots : loads'[n].asked
        /\ \A n \in LoadSlots :
             /\ loads'[n].data.at = 0
             /\ loads'[n].asked =>
                  /\ n = 1 /\ loads'[n].left = Parts[view'.page]
                  /\ loads'[n].left > 0
                  /\ loads'[n].data.cat = view'.cat
                  /\ loads'[n].data.no = view'.no
<1>1. PICK p \in Pages :
        /\ view' = Fresh(p)
        /\ loads' = [n \in LoadSlots |->
                       IF n = 1 /\ view'.loading THEN Asked(view') ELSE NoLoad]
        /\ clock' = clock /\ count' = count
  BY DEF Mounts
<1>2. /\ view'.data = Nothing /\ view'.no = 1 /\ view'.offered = 0
      /\ view'.opened = clock /\ view'.since = clock /\ view'.page = p
      /\ view'.loading = (Parts[p] > 0)
  BY <1>1 DEF Fresh
<1>3. /\ Asked(view').asked /\ Asked(view').left = Parts[p]
      /\ Asked(view').data.at = 0 /\ Asked(view').data.cat = view'.cat
      /\ Asked(view').data.no = view'.no
  BY <1>2 DEF Asked, Nothing
<1>4. ~NoLoad.asked /\ NoLoad.data.at = 0 /\ 1 \in LoadSlots
  BY DEF NoLoad, Nothing, LoadSlots
<1> QED BY <1>1, <1>2, <1>3, <1>4

\* A page that asks adds one load to those that are under way.
LEMMA Added ==
  ASSUME TypeOK, Asks
  PROVE /\ view'.page = view.page /\ view'.data = view.data
        /\ view'.opened = view.opened /\ view'.offered = view.offered
        /\ view'.since \in {view.since, clock}
        /\ view'.no \in {1, view.no} \/ view'.no <= view.data.pages
             \/ view'.no < view.no
        /\ view'.crossed = \E m \in LoadSlots : InFlight(m)
        /\ clock' = clock /\ count' = count
        /\ \E k \in LoadSlots :
             /\ ~InFlight(k)
             /\ loads'[k].asked /\ loads'[k].left = Parts[view'.page]
             /\ loads'[k].left > 0 /\ loads'[k].data.at = 0
             /\ loads'[k].data.cat = view'.cat
             /\ loads'[k].data.no = view'.no
             /\ \A n \in LoadSlots \ {k} : loads'[n] = loads[n]
<1>1. PICK v \in View :
        /\ Ask(v) /\ Parts[v.page] > 0
        /\ v.page = view.page /\ v.data = view.data
        /\ v.opened = view.opened /\ v.offered = view.offered
        /\ v.since \in {view.since, clock}
        /\ v.no \in {1, view.no} \/ v.no <= view.data.pages \/ v.no < view.no
        /\ clock' = clock /\ count' = count
  BY DEF Asks
<1>2. PICK k \in LoadSlots :
        /\ ~InFlight(k)
        /\ loads' = [loads EXCEPT ![k] = Asked(v)]
        /\ view' = [v EXCEPT !.crossed = \E m \in LoadSlots : InFlight(m)]
  BY <1>1 DEF Ask
<1>3. /\ view'.page = v.page /\ view'.data = v.data /\ view'.cat = v.cat
      /\ view'.opened = v.opened /\ view'.offered = v.offered
      /\ view'.since = v.since /\ view'.no = v.no
      /\ view'.crossed = \E m \in LoadSlots : InFlight(m)
  BY <1>2 DEF View
<1>4. /\ loads'[k] = Asked(v)
      /\ \A n \in LoadSlots \ {k} : loads'[n] = loads[n]
  BY <1>2 DEF TypeOK
<1>5. /\ Asked(v).asked /\ Asked(v).left = Parts[v.page]
      /\ Asked(v).data.at = 0 /\ Asked(v).data.cat = v.cat
      /\ Asked(v).data.no = v.no
  BY DEF Asked, Nothing
<1> QED BY <1>1, <1>2, <1>3, <1>4, <1>5

\* What one request of a load, or one read of a list, adds to it.
LEMMA Served ==
  ASSUME TypeOK, NEW n \in LoadSlots, Serve(n)
  PROVE LET d == loads[n].data
            e == loads'[n].data
            total == count[d.cat]
        IN /\ InFlight(n) /\ loads[n].left > 0
           /\ loads'[n].asked /\ loads'[n].left = loads[n].left - 1
           /\ e.cat = d.cat /\ e.no = d.no
           /\ e.at = IF d.at = 0 THEN clock ELSE d.at
           /\ e.whole <=> (d.whole /\ d.at \in {0, clock})
           /\ (view.page = "projects" /\ loads[n].left = 2) =>
                e.pages = TotalPages(total)
           /\ (view.page = "projects" /\ loads[n].left # 2) =>
                e.pages = d.pages /\ e.some = (total > (d.no - 1) * Limit)
           /\ \A m \in LoadSlots \ {n} : loads'[m] = loads[m]
           /\ UNCHANGED <<view, count, clock>>
<1> DEFINE load == loads[n]
           d == load.data
           total == count[d.cat]
           read ==
             IF view.page # "projects" THEN d
             ELSE IF load.left = 2
                  THEN [d EXCEPT !.pages = TotalPages(total)]
                  ELSE [d EXCEPT !.some = total > (d.no - 1) * Limit]
           done == [read EXCEPT !.at = IF @ = 0 THEN clock ELSE @,
                                !.whole = @ /\ d.at \in {0, clock}]
<1>1. /\ loads' = [loads EXCEPT ![n] =
           [asked |-> TRUE, left |-> load.left - 1, data |-> done]]
      /\ InFlight(n) /\ load.left > 0
      /\ UNCHANGED <<role, getMe, view, posts, count, clock>>
  BY DEF Serve
<1>2. d \in Data
  BY DEF TypeOK, Load
<1>3. /\ read.cat = d.cat /\ read.no = d.no /\ read.at = d.at
      /\ read.whole = d.whole
      /\ (view.page = "projects" /\ load.left = 2) =>
           read.pages = TotalPages(total)
      /\ (view.page = "projects" /\ load.left # 2) =>
           read.pages = d.pages /\ read.some = (total > (d.no - 1) * Limit)
      /\ DOMAIN read = DOMAIN d
  BY <1>2 DEF Data
<1>4. DOMAIN d = {"cat", "no", "at", "whole", "some", "pages"}
  BY <1>2 DEF Data
<1>5. /\ done.cat = read.cat /\ done.no = read.no
      /\ done.pages = read.pages /\ done.some = read.some
      /\ done.at = (IF read.at = 0 THEN clock ELSE read.at)
      /\ done.whole = (read.whole /\ d.at \in {0, clock})
  <2> HIDE DEF read
  <2> QED BY <1>3, <1>4
<1> HIDE DEF done, read
<1>6. loads'[n] = [asked |-> TRUE, left |-> load.left - 1, data |-> done]
  BY <1>1 DEF TypeOK
<1>7. \A m \in LoadSlots \ {n} : loads'[m] = loads[m]
  BY <1>1 DEF TypeOK
<1>8. /\ loads'[n].asked /\ loads'[n].left = loads[n].left - 1
      /\ loads'[n].data = done
  BY <1>6
<1>9. done.whole <=> (d.whole /\ d.at \in {0, clock})
  BY <1>3, <1>5
<1>10. /\ done.cat = d.cat /\ done.no = d.no
       /\ done.at = (IF d.at = 0 THEN clock ELSE d.at)
       /\ (view.page = "projects" /\ loads[n].left = 2) =>
            done.pages = TotalPages(total)
       /\ (view.page = "projects" /\ loads[n].left # 2) =>
            done.pages = d.pages /\ done.some = (total > (d.no - 1) * Limit)
  BY <1>3, <1>5
<1>11. UNCHANGED <<view, count, clock>>
  BY <1>1
<1> QED BY <1>1, <1>7, <1>8, <1>9, <1>10, <1>11

----------------------------------------------------------------------------
LEMMA AgesStep ==
  ASSUME TypeOK, TypeOK', ReviewsHere, Ages, [Next]_vars PROVE Ages'
<1> USE DEF Ages
<1>0. /\ clock \in Nat /\ clock' \in Nat
      /\ view.opened \in Nat /\ view.since \in Nat /\ view.data.at \in Nat
      /\ \A n \in LoadSlots : loads[n].data.at \in Nat
  BY DEF TypeOK, View, Load, Data
<1>1. CASE Still
  BY <1>0, <1>1 DEF Still
<1>2. CASE Mounts
  BY <1>0, <1>2, Mounted DEF Nothing
<1>3. CASE Asks
  <2>1. PICK k \in LoadSlots :
          /\ loads'[k].data.at = 0
          /\ \A n \in LoadSlots \ {k} : loads'[n] = loads[n]
    BY <1>3, Added
  <2>2. /\ view'.opened = view.opened /\ view'.data = view.data
        /\ view'.since \in {view.since, clock} /\ clock' = clock
    BY <1>3, Added
  <2> QED BY <1>0, <2>1, <2>2
<1>4. ASSUME NEW n \in LoadSlots, Serve(n) PROVE Ages'
  <2>1. /\ loads'[n].data.at = IF loads[n].data.at = 0 THEN clock
                                                      ELSE loads[n].data.at
        /\ \A m \in LoadSlots \ {n} : loads'[m] = loads[m]
        /\ view' = view /\ clock' = clock
    BY <1>4, Served
  <2> QED BY <1>0, <2>1
<1>5. ASSUME NEW n \in LoadSlots, Deliver(n) \/ Fail(n) PROVE Ages'
  <2>1. /\ view'.data \in {view.data, loads[n].data}
        /\ view'.opened = view.opened /\ view'.since = view.since
        /\ clock' = clock
    BY <1>5 DEF Deliver, Fail, TypeOK, View
  <2>2. \A m \in LoadSlots : loads'[m] \in {loads[m], NoLoad}
    BY <1>5 DEF Deliver, Fail, TypeOK
  <2>3. NoLoad.data.at = 0
    BY DEF NoLoad, Nothing
  <2> QED BY <1>0, <2>1, <2>2, <2>3
<1> QED BY <1>1, <1>2, <1>3, <1>4, <1>5, Steps

LEMMA InitLoads ==
  ASSUME Init
  PROVE /\ view.data = Nothing /\ view.no = 1 /\ view.offered = 0
        /\ view.opened = clock /\ view.since = clock /\ clock = 1
        /\ \A n \in PostSlots : posts[n].kind = "none"
        /\ Parts[view.page] > 0 => \E n \in LoadSlots : loads[n].asked
        /\ \A n \in LoadSlots :
             /\ loads[n].data.at = 0
             /\ loads[n].asked =>
                  /\ n = 1 /\ loads[n].left = Parts[view.page]
                  /\ loads[n].left > 0
                  /\ loads[n].data.cat = view.cat
                  /\ loads[n].data.no = view.no
<1>1. PICK r \in Roles \cup {"none"}, p \in Pages :
        view = Fresh(Landing(p, r))
  BY DEF Init
<1>2. /\ view.data = Nothing /\ view.no = 1 /\ view.offered = 0
      /\ view.opened = clock /\ view.since = clock
      /\ view.loading = (Parts[view.page] > 0)
  BY <1>1 DEF Fresh
<1>3. /\ Asked(view).asked /\ Asked(view).left = Parts[view.page]
      /\ Asked(view).data.at = 0 /\ Asked(view).data.cat = view.cat
      /\ Asked(view).data.no = view.no
  BY <1>2 DEF Asked, Nothing
<1>4. ~NoLoad.asked /\ NoLoad.data.at = 0 /\ 1 \in LoadSlots
  BY DEF NoLoad, Nothing, LoadSlots
<1> QED BY <1>2, <1>3, <1>4 DEF Init, NoPost

\* No answer to an earlier visit, however late, gets into a page: nothing on
\* it is older than the visit.
THEOREM NothingOlder == Spec => []NeverOlderThanOpening
<1> DEFINE IInv == TypeOK /\ ReviewsHere /\ Ages
<1>1. Init => IInv
  BY InitType, InitLoads DEF ReviewsHere, Ages, Nothing
<1>2. IInv /\ [Next]_vars => IInv'
  BY TypeStep, ReviewsStep, AgesStep
<1>3. IInv => NeverOlderThanOpening
  <2>1. IInv => /\ view.opened \in Nat /\ clock \in Nat
    BY DEF TypeOK, View
  <2> QED BY <2>1 DEF Ages, NeverOlderThanOpening
<1> QED BY <1>1, <1>2, <1>3, PTL DEF Spec

----------------------------------------------------------------------------
LEMMA CurrentStep ==
  ASSUME TypeOK, TypeOK', ReviewsHere, Ages, LoadsFit, PageIsCurrent,
         [Next]_vars
  PROVE LoadsFit' /\ PageIsCurrent'
<1> USE DEF LoadsFit, PageIsCurrent, InFlight
<1>0. /\ clock \in Nat /\ view.since \in Nat /\ view.since <= clock
      /\ \A n \in LoadSlots : loads[n].data.at \in Nat /\ loads[n].left \in Nat
  BY DEF TypeOK, View, Load, Data, Ages
<1>1. CASE Still
  BY <1>1 DEF Still
<1>2. CASE Mounts
  BY <1>2, Mounted
<1>3. CASE Asks
  <2>1. PICK k \in LoadSlots :
          /\ loads'[k].asked /\ loads'[k].left > 0 /\ loads'[k].data.at = 0
          /\ loads'[k].data.cat = view'.cat /\ loads'[k].data.no = view'.no
          /\ \A n \in LoadSlots \ {k} : loads'[n] = loads[n]
    BY <1>3, Added
  <2>2. view'.crossed = \E m \in LoadSlots : InFlight(m)
    BY <1>3, Added
  <2> QED BY <2>1, <2>2
<1>4. ASSUME NEW n \in LoadSlots, Serve(n) PROVE LoadsFit' /\ PageIsCurrent'
  <2>1. /\ loads'[n].data.at = IF loads[n].data.at = 0 THEN clock
                                                      ELSE loads[n].data.at
        /\ loads'[n].data.cat = loads[n].data.cat
        /\ loads'[n].data.no = loads[n].data.no
        /\ loads[n].asked /\ loads'[n].asked
        /\ \A m \in LoadSlots \ {n} : loads'[m] = loads[m]
        /\ view' = view
    BY <1>4, Served
  <2>2. clock # 0
    BY DEF TypeOK
  <2> QED BY <1>0, <2>1, <2>2
<1>5. ASSUME NEW n \in LoadSlots, Deliver(n) PROVE LoadsFit' /\ PageIsCurrent'
  <2>1. /\ loads[n].asked /\ loads[n].left = 0
        /\ view'.data = loads[n].data /\ view'.page = view.page
        /\ view'.cat = view.cat /\ view'.no = view.no
        /\ view'.since = view.since /\ view'.crossed = view.crossed
    BY <1>5 DEF Deliver, TypeOK, View
  <2>2. /\ ~loads'[n].asked
        /\ \A m \in LoadSlots \ {n} : loads'[m] = loads[m]
    BY <1>5 DEF Deliver, TypeOK, NoLoad
  <2> QED BY <1>0, <2>1, <2>2
<1>6. ASSUME NEW n \in LoadSlots, Fail(n) PROVE LoadsFit' /\ PageIsCurrent'
  <2>1. view'.crossed = TRUE
    BY <1>6 DEF Fail, TypeOK, View
  <2>2. /\ ~loads'[n].asked
        /\ \A m \in LoadSlots \ {n} : loads'[m] = loads[m]
    BY <1>6 DEF Fail, TypeOK, NoLoad
  <2> QED BY <2>1, <2>2
<1> QED BY <1>1, <1>2, <1>3, <1>4, <1>5, <1>6, Steps

\* A page whose last load neither overlapped another nor failed shows the
\* category and page number that are set, as of their choice or later, and
\* the outcome of the administrator's last review.
THEOREM SettledPageIsCurrent == Spec => []PageIsCurrent
<1> DEFINE IInv == TypeOK /\ ReviewsHere /\ Ages /\ LoadsFit /\ PageIsCurrent
<1>1. Init => IInv
  <2> SUFFICES ASSUME Init PROVE IInv
    OBVIOUS
  <2>1. LoadsFit /\ PageIsCurrent
    BY InitLoads DEF LoadsFit, PageIsCurrent, InFlight
  <2> QED BY <2>1, InitType, InitLoads DEF ReviewsHere, Ages, Nothing
<1>2. IInv /\ [Next]_vars => IInv'
  BY TypeStep, ReviewsStep, AgesStep, CurrentStep
<1> QED BY <1>1, <1>2, PTL DEF Spec

----------------------------------------------------------------------------
LEMMA OfferedStep ==
  ASSUME TypeOK, TypeOK', ReviewsHere, Ages, LoadsFit, ListsFit, PagesOffered,
         [Next]_vars
  PROVE ListsFit' /\ PagesOffered'
<1> USE DEF ListsFit, PagesOffered, InFlight
<1>0. /\ clock \in Nat /\ view.no \in Nat /\ view'.no \in Nat
      /\ view.offered \in Nat /\ view.data.pages \in Nat
      /\ \A n \in LoadSlots :
           /\ loads[n].data \in Data /\ loads[n].left \in Nat
           /\ loads[n].data.pages \in Nat /\ loads[n].data.no \in Nat \ {0}
           /\ loads[n].data.at \in Nat /\ loads[n].data.at <= clock
           /\ count[loads[n].data.cat] \in Nat
  <2>1. /\ clock \in Nat /\ view.no \in Nat /\ view'.no \in Nat
        /\ view.offered \in Nat /\ view.data.pages \in Nat
        /\ view.opened \in Nat
    BY DEF TypeOK, View, Data
  <2>2. ASSUME NEW n \in LoadSlots
        PROVE /\ loads[n].data \in Data /\ loads[n].left \in Nat
              /\ loads[n].data.pages \in Nat
              /\ loads[n].data.no \in Nat \ {0}
              /\ loads[n].data.at \in Nat
              /\ loads[n].data.cat \in Categories
    BY DEF TypeOK, Load, Data
  <2>3. ASSUME NEW n \in LoadSlots PROVE loads[n].data.at <= clock
    BY <2>1, <2>2 DEF Ages
  <2>4. \A c \in Categories : count[c] \in Nat
    BY DEF TypeOK
  <2> QED BY <2>1, <2>2, <2>3, <2>4
<1>1. CASE Still
  <2>1. ASSUME NEW n \in LoadSlots, loads[n].asked, ListFits(loads[n]),
               loads[n].data.at <= clock
        PROVE ListFits(loads[n])'
    BY <1>0, <1>1, <2>1 DEF Still, ListFits
  <2> QED BY <1>0, <1>1, <2>1 DEF Still
<1>2. CASE Mounts
  <2>1. ASSUME NEW n \in LoadSlots, loads'[n].asked, view'.page = "projects"
        PROVE ListFits(loads[n])'
    <3>1. loads'[n].left = 2 /\ loads'[n].data.at = 0
      BY <1>2, <2>1, Mounted DEF Parts
    <3> QED BY <3>1 DEF ListFits
  <2>2. view'.data = Nothing /\ view'.no = 1 /\ view'.offered = 0
    BY <1>2, Mounted
  <2> QED BY <2>1, <2>2 DEF Nothing
<1>3. CASE Asks
  <2>1. PICK k \in LoadSlots :
          /\ loads'[k].left = Parts[view'.page] /\ loads'[k].data.at = 0
          /\ \A n \in LoadSlots \ {k} : loads'[n] = loads[n]
    BY <1>3, Added
  <2>2. /\ view'.page = view.page /\ view'.data = view.data
        /\ view'.offered = view.offered
        /\ clock' = clock /\ count' = count
        /\ view'.no \in {1, view.no} \/ view'.no <= view.data.pages
             \/ view'.no < view.no
    BY <1>3, Added
  <2>3. ASSUME NEW n \in LoadSlots, loads'[n].asked, view'.page = "projects"
        PROVE ListFits(loads[n])'
    <3>1. CASE n = k
      <4>1. loads'[n].left = 2 /\ loads'[n].data.at = 0
        BY <2>1, <2>3, <3>1 DEF Parts
      <4> QED BY <4>1 DEF ListFits
    <3>2. CASE n # k
      BY <2>1, <2>2, <2>3, <3>2 DEF ListFits
    <3> QED BY <3>1, <3>2
  <2> QED BY <1>0, <2>2, <2>3
<1>4. ASSUME NEW n \in LoadSlots, Serve(n) PROVE ListsFit' /\ PagesOffered'
  <2> DEFINE d == loads[n].data
             e == loads'[n].data
             total == count[d.cat]
  <2>1. /\ loads[n].asked /\ loads[n].left > 0
        /\ loads'[n].left = loads[n].left - 1
        /\ e.cat = d.cat /\ e.no = d.no
        /\ e.at = IF d.at = 0 THEN clock ELSE d.at
        /\ e.whole <=> (d.whole /\ d.at \in {0, clock})
        /\ (view.page = "projects" /\ loads[n].left = 2) =>
             e.pages = TotalPages(total)
        /\ (view.page = "projects" /\ loads[n].left # 2) =>
             e.pages = d.pages /\ e.some = (total > (d.no - 1) * Limit)
        /\ \A m \in LoadSlots \ {n} : loads'[m] = loads[m]
        /\ view' = view /\ count' = count /\ clock' = clock
    BY <1>4, Served DEF InFlight
  <2>2. ASSUME NEW m \in LoadSlots, m # n, loads'[m].asked,
               view.page = "projects"
        PROVE ListFits(loads[m])'
    BY <2>1, <2>2 DEF ListFits
  <2>3. ASSUME view.page = "projects" PROVE ListFits(loads[n])'
    <3>1. ListFits(loads[n])
      BY <2>1, <2>3
    <3>2. total > (d.no - 1) * Limit <=> d.no <= TotalPages(total)
      BY <1>0, PagesHaveProjects
    <3>3. clock # 0
      BY DEF TypeOK
    <3>4. CASE loads[n].left = 2
      <4>1. d.at = 0
        BY <3>1, <3>4 DEF ListFits
      <4>2. loads'[n].left = 1 /\ e.at = clock /\ e.pages = TotalPages(total)
        BY <2>1, <2>3, <3>4, <4>1
      <4> QED BY <2>1, <3>3, <4>2 DEF ListFits
    <3>5. CASE loads[n].left = 1
      <4>1. d.at # 0 /\ (d.at = clock => d.pages = TotalPages(total))
        BY <3>1, <3>5 DEF ListFits
      <4>2. /\ loads'[n].left = 0 /\ e.pages = d.pages
            /\ e.some = (total > (d.no - 1) * Limit)
        BY <2>1, <2>3, <3>5
      <4>3. e.whole => (e.some <=> e.no <= e.pages)
        BY <2>1, <3>2, <4>1, <4>2
      <4> QED BY <4>2, <4>3 DEF ListFits
    <3>6. loads[n].left \in {1, 2}
      BY <1>0, <2>1, <3>1 DEF ListFits
    <3> QED BY <3>4, <3>5, <3>6
  <2> QED BY <2>1, <2>2, <2>3
<1>5. ASSUME NEW n \in LoadSlots, Deliver(n) PROVE ListsFit' /\ PagesOffered'
  <2>1. /\ loads[n].asked /\ loads[n].left = 0
        /\ view'.data = loads[n].data /\ view'.page = view.page
        /\ view'.no = view.no /\ clock' = clock /\ count' = count
        /\ view'.offered = IF loads[n].data.pages > view.offered
                             THEN loads[n].data.pages ELSE view.offered
    BY <1>5 DEF Deliver, TypeOK, View
  <2>2. /\ ~loads'[n].asked
        /\ \A m \in LoadSlots \ {n} : loads'[m] = loads[m]
    BY <1>5 DEF Deliver, TypeOK, NoLoad
  <2>3. ASSUME NEW m \in LoadSlots, loads'[m].asked, view.page = "projects"
        PROVE ListFits(loads[m])'
    BY <2>1, <2>2, <2>3 DEF ListFits
  <2>4. (view.page = "projects" /\ loads[n].data.whole) =>
          (loads[n].data.some <=> loads[n].data.no <= loads[n].data.pages)
    BY <2>1 DEF ListFits
  <2> QED BY <1>0, <2>1, <2>3, <2>4
<1>6. ASSUME NEW n \in LoadSlots, Fail(n) PROVE ListsFit' /\ PagesOffered'
  <2>1. /\ view'.data = view.data /\ view'.page = view.page
        /\ view'.no = view.no /\ clock' = clock /\ count' = count
        /\ view'.offered = view.offered
    BY <1>6 DEF Fail, TypeOK, View
  <2>2. /\ ~loads'[n].asked
        /\ \A m \in LoadSlots \ {n} : loads'[m] = loads[m]
    BY <1>6 DEF Fail, TypeOK, NoLoad
  <2>3. ASSUME NEW m \in LoadSlots, loads'[m].asked, view.page = "projects"
        PROVE ListFits(loads[m])'
    BY <2>1, <2>2, <2>3 DEF ListFits
  <2> QED BY <2>1, <2>3
<1> QED BY <1>1, <1>2, <1>3, <1>4, <1>5, <1>6, Steps

\* No page number is chosen that no list of the visit offered, and the pages
\* a list offers are those with projects, for any page size.
THEOREM PagesAreThere == Spec => []PagesOffered
<1> DEFINE IInv ==
      /\ TypeOK /\ ReviewsHere /\ Ages /\ LoadsFit /\ PageIsCurrent
      /\ ListsFit /\ PagesOffered
<1>1. Init => IInv
  <2> SUFFICES ASSUME Init PROVE IInv
    OBVIOUS
  <2>1. LoadsFit /\ PageIsCurrent
    BY InitLoads DEF LoadsFit, PageIsCurrent, InFlight
  <2>2. ASSUME NEW n \in LoadSlots, loads[n].asked, view.page = "projects"
        PROVE ListFits(loads[n])
    <3>1. loads[n].left = 2 /\ loads[n].data.at = 0
      BY <2>2, InitLoads DEF Parts
    <3> QED BY <3>1 DEF ListFits
  <2>3. ListsFit /\ PagesOffered
    BY <2>2, InitLoads DEF ListsFit, PagesOffered, Nothing, InFlight
  <2> QED BY <2>1, <2>3, InitType, InitLoads DEF ReviewsHere, Ages, Nothing
<1>2. IInv /\ [Next]_vars => IInv'
  BY TypeStep, ReviewsStep, AgesStep, CurrentStep, OfferedStep
<1> QED BY <1>1, <1>2, PTL DEF Spec
=============================================================================
