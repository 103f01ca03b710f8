--------------------------- MODULE CheckoutProofs ---------------------------
(***************************************************************************)
(* Theorems about Checkout, for every set of projects and amounts and any  *)
(* number of loads and donations.                                          *)
(***************************************************************************)
EXTENDS Checkout, SumTheorems

USE CheckoutAssumption

----------------------------------------------------------------------------
(***************************************************************************)
(* Type correctness.                                                       *)
(***************************************************************************)

\* A donation that was sent carries all that a request carries.
LEMMA PostFields ==
  ASSUME TypeOK, NEW n \in Submits
  PROVE  /\ post[n].fate # "unsent" => post[n] \in Post
         /\ post[n].fate = "unsent" => post[n] = Unsent
         /\ post[n].told \in {"nothing", "success", "failure"}
         /\ post[n].home \in Projects \cup {None}
         /\ [post[n] EXCEPT !.home = None] \in Post \cup {Unsent}
<1>1. post[n] \in Post \cup {Unsent}
  BY DEF TypeOK
<1>2. CASE post[n] = Unsent
  BY <1>2 DEF Unsent
<1>3. CASE post[n] \in Post
  BY <1>3 DEF Post
<1> QED
  BY <1>1, <1>2, <1>3

LEMMA InitType == Init => TypeOK
BY DEF Init, TypeOK, Server!Init, Page, Fresh, Load, NoLoad, Asked

LEMMA AskType ==
  ASSUME TypeOK, NEW p \in Projects, Ask(p)
  PROVE  loads' \in [LoadSlots -> Load \cup {NoLoad}]
BY DEF TypeOK, Ask, Asked, Load

LEMMA DonateType ==
  ASSUME TypeOK, NEW u \in Users, NEW p \in Projects, NEW a \in Amounts,
         Server!Donate(u, p, a)
  PROVE  byProject' \in [Projects -> Nat] /\ byUser' \in [Users -> Nat]
BY DEF TypeOK, Server!Donate

LEMMA NextType == TypeOK /\ [Next]_vars => TypeOK'
<1> SUFFICES ASSUME TypeOK, [Next]_vars PROVE TypeOK'
  OBVIOUS
<1> USE DEF TypeOK, server
<1>1. ASSUME NEW p \in Projects, Open(p) PROVE TypeOK'
  <2>1. post' \in [Submits -> Post \cup {Unsent}]
    BY <1>1, PostFields DEF Open
  <2> QED BY <1>1, <2>1 DEF Open, Fresh, Page, Asked, NoLoad, Load
<1>2. ASSUME NEW p \in Projects, Go(p) PROVE TypeOK'
  BY <1>2, AskType DEF Go, Page
<1>3. ASSUME NEW n \in LoadSlots, ServeLoad(n) PROVE TypeOK'
  <2>1. loads[n] \in Load
    BY <1>3 DEF ServeLoad
  <2>2. [loads[n] EXCEPT !.served = TRUE,
           !.completed = project[loads[n].id].status = "completed"] \in Load
    BY <2>1 DEF Load
  <2>3. loads' \in [LoadSlots -> Load \cup {NoLoad}]
    BY <1>3, <2>2 DEF ServeLoad
  <2> QED BY <1>3, <2>3 DEF ServeLoad
<1>4. ASSUME NEW n \in LoadSlots, DeliverLoad(n) \/ FailLoad(n) PROVE TypeOK'
  <2>1. loads' \in [LoadSlots -> Load \cup {NoLoad}]
    BY <1>4 DEF DeliverLoad, FailLoad
  <2>2. page' \in Page /\ (page'.open => page'.shown # None)
    <3>1. CASE DeliverLoad(n)
      <4>1. loads[n] \in Load
        BY <3>1 DEF DeliverLoad, NoLoad
      <4> QED BY <3>1, <4>1 DEF DeliverLoad, Load, Page
    <3>2. CASE FailLoad(n)
      BY <3>2 DEF FailLoad, Page
    <3> QED BY <1>4, <3>1, <3>2
  <2> QED BY <1>4, <2>1, <2>2 DEF DeliverLoad, FailLoad
<1>5. CASE DonateClick \/ Close
  BY <1>5 DEF DonateClick, Close, Page
<1>6. ASSUME NEW n \in Submits, NEW a \in Amounts, Submit(n, a)
      PROVE  TypeOK'
  BY <1>6 DEF Submit, Named, Page, Post
<1>7. ASSUME NEW n \in Submits, Serve(n) PROVE TypeOK'
  <2>1. post[n] \in Post
    BY <1>7, PostFields DEF Serve
  <2>2. /\ [post[n] EXCEPT !.fate = "recorded"] \in Post
        /\ [post[n] EXCEPT !.fate = "refused"] \in Post
        /\ post[n].project \in Projects /\ post[n].amount \in Amounts
    BY <2>1 DEF Post
  <2>3. post' \in [Submits -> Post \cup {Unsent}]
    BY <1>7, <2>2 DEF Serve
  <2> QED BY <1>7, <2>2, <2>3, DonateType DEF Serve, Users
<1>8. ASSUME NEW n \in Submits, Success(n) \/ Failure(n) PROVE TypeOK'
  <2>1. post[n] \in Post
    BY <1>8, PostFields DEF Success, Failure
  <2>2. /\ [post[n] EXCEPT !.told = "success", !.home = None] \in Post
        /\ [post[n] EXCEPT !.told = "failure", !.home = None] \in Post
        /\ post[n].home \in Projects \cup {None}
    BY <2>1 DEF Post
  <2>3. post' \in [Submits -> Post \cup {Unsent}]
    BY <1>8, <2>2 DEF Success, Failure
  <2>4. page' \in Page /\ (page'.open => page'.shown # None)
    BY <1>8 DEF Success, Failure, Page
  <2>5. loads' \in [LoadSlots -> Load \cup {NoLoad}]
    BY <1>8, <2>2, AskType DEF Success, Failure
  <2> QED BY <1>8, <2>3, <2>4, <2>5 DEF Success, Failure
<1>9. ASSUME NEW p \in Projects, NEW a \in Amounts, Others(p, a) PROVE TypeOK'
  BY <1>9, DonateType DEF Others, Users
<1>10. CASE UNCHANGED vars
  BY <1>10 DEF vars
<1> QED
  BY <1>1, <1>2, <1>3, <1>4, <1>5, <1>6, <1>7, <1>8, <1>9, <1>10 DEF Next

\* Every variable of the page and of its requests keeps its type, and the
\* dialog is only open over a project.
THEOREM TypeCorrect == Spec => []TypeOK
<1> QED
  BY InitType, NextType, PTL DEF Spec

----------------------------------------------------------------------------
(***************************************************************************)
(* OneAtATime.  That at most one donation is waited for is not inductive:  *)
(* nothing but the disabled button keeps the next one back.  BusyIsOne     *)
(* ties the button to the donation under way.                              *)
(***************************************************************************)
LEMMA InitBusy == Init => BusyIsOne
BY DEF Init, Fresh, BusyIsOne, Waiting, Unsent

LEMMA NextBusy == TypeOK /\ BusyIsOne /\ [Next]_vars => BusyIsOne'
<1> SUFFICES ASSUME TypeOK, BusyIsOne, [Next]_vars PROVE BusyIsOne'
  OBVIOUS
<1> USE DEF BusyIsOne, Waiting
<1>0. page \in Page /\ post \in [Submits -> Post \cup {Unsent}]
  BY DEF TypeOK
<1>1. ASSUME NEW p \in Projects, Open(p) PROVE BusyIsOne'
  <2>1. \A n \in Submits : post'[n].home = None
    BY <1>0, <1>1, PostFields DEF Open, Post, Unsent
  <2> QED BY <1>1, <2>1 DEF Open, Fresh
<1>2. ASSUME NEW p \in Projects, Go(p) PROVE BusyIsOne'
  BY <1>0, <1>2 DEF Go, Page
<1>3. ASSUME NEW n \in LoadSlots, ServeLoad(n) \/ DeliverLoad(n) \/ FailLoad(n)
      PROVE  BusyIsOne'
  BY <1>0, <1>3 DEF ServeLoad, DeliverLoad, FailLoad, Page
<1>4. CASE DonateClick \/ Close
  BY <1>0, <1>4 DEF DonateClick, Close, Page
<1>5. ASSUME NEW n \in Submits, NEW a \in Amounts, Submit(n, a)
      PROVE  BusyIsOne'
  <2>1. Waiting = {} /\ page'.busy /\ page.id # None
    BY <1>0, <1>5 DEF Submit, Page
  <2>2. Waiting' = {n}
    BY <1>0, <1>5, <2>1 DEF Submit
  <2> QED BY <2>1, <2>2
<1>6. ASSUME NEW n \in Submits, Serve(n) PROVE BusyIsOne'
  <2>1. post[n] \in Post
    BY <1>6, PostFields DEF Serve
  <2>2. post'[n].home = post[n].home /\ \A m \in Submits \ {n} : post'[m] = post[m]
    BY <1>0, <1>6, <2>1 DEF Serve, Post
  <2> QED BY <1>6, <2>2 DEF Serve
<1>7. ASSUME NEW n \in Submits, Success(n) \/ Failure(n) PROVE BusyIsOne'
  <2>1. post[n] \in Post
    BY <1>7, PostFields DEF Success, Failure
  <2>2. Waiting' = Waiting \ {n}
    BY <1>0, <1>7, <2>1 DEF Success, Failure, Post
  <2>3. CASE post[n].home = None
    <3>1. page'.busy = page.busy
      BY <1>0, <1>7, <2>3 DEF Success, Failure, Page
    <3> QED BY <2>2, <2>3, <3>1
  <2>4. CASE post[n].home # None
    <3>1. ~ page'.busy
      BY <1>0, <1>7, <2>4 DEF Success, Failure, Page
    <3>2. Waiting = {n}
      BY <2>4
    <3> QED BY <2>2, <3>1, <3>2
  <2> QED BY <2>3, <2>4
<1>8. CASE UNCHANGED <<page, post>>
  BY <1>8
<1> QED
  BY <1>1, <1>2, <1>3, <1>4, <1>5, <1>6, <1>7, <1>8 DEF Next, Others, vars

\* However the dialog is closed, left and opened again, no page ever waits
\* for two donations.
THEOREM NeverTwoAtATime == Spec => []OneAtATime
<1>1. TypeOK /\ BusyIsOne => OneAtATime
  <2> SUFFICES ASSUME BusyIsOne PROVE OneAtATime
    OBVIOUS
  <2>1. CASE Waiting = {}
    BY <2>1, FS_EmptySet DEF OneAtATime
  <2>2. CASE Waiting # {}
    <3>1. PICK n \in Waiting : TRUE
      BY <2>2
    <3>2. Waiting = {n}
      BY <3>1 DEF BusyIsOne
    <3>3. Cardinality(Waiting) = 1
      BY <3>2, FS_Singleton
    <3> QED BY <3>3 DEF OneAtATime
  <2> QED BY <2>1, <2>2
<1> QED
  BY <1>1, InitType, NextType, InitBusy, NextBusy, PTL DEF Spec

----------------------------------------------------------------------------
(***************************************************************************)
(* ToldWithinBooks.  Thanks are given after the donation was recorded, so  *)
(* what is inductive is that the books agree with the donations the server *)
(* recorded: exactly for the donor, and as a part for each project.  Sums  *)
(* are taken over the donations; SumTheorems says how they change.         *)
(***************************************************************************)
LEMMA SubmitsFinite == \A ns \in SUBSET Submits : IsFiniteSet(ns)
<1>1. IsFiniteSet(Submits)
  BY FS_Interval DEF Submits
<1> QED
  BY <1>1, FS_Subset

\* The amounts of what was sent, as Sum reads them.
SentAmounts == [n \in Sent |-> post[n].amount]

LEMMA AmountsType ==
  ASSUME TypeOK
  PROVE  /\ \A n \in Sent : SentAmounts[n] = post[n].amount
         /\ \A n \in Sent : SentAmounts[n] \in Nat
         /\ Recorded \subseteq Sent
BY PostFields DEF SentAmounts, Sent, Recorded, Post

LEMMA SumIsNat ==
  ASSUME TypeOK
  PROVE  \A ns \in SUBSET Recorded : Sum(ns) \in Nat
<1> SUFFICES ASSUME NEW ns \in SUBSET Recorded PROVE Sum(ns) \in Nat
  OBVIOUS
<1>1. IsFiniteSet(ns) /\ \A n \in ns : SentAmounts[n] \in Nat
  BY SubmitsFinite, AmountsType DEF Recorded
<1> QED
  BY <1>1, SumType DEF Sum, SentAmounts

LEMMA SumInside ==
  ASSUME TypeOK
  PROVE  \A ns \in SUBSET Sent : \A ms \in SUBSET ns : Sum(ms) <= Sum(ns)
<1> SUFFICES ASSUME NEW ns \in SUBSET Sent, NEW ms \in SUBSET ns
             PROVE  Sum(ms) <= Sum(ns)
  OBVIOUS
<1>1. IsFiniteSet(ns) /\ \A n \in ns : SentAmounts[n] \in Nat
  BY SubmitsFinite, AmountsType DEF Sent
<1> QED
  BY <1>1, SumMonotone DEF Sum, SentAmounts

\* No donation is recorded, and none that was is touched: the sums stay.
LEMMA SumsStay ==
  ASSUME TypeOK, TypeOK', Recorded' = Recorded,
         \A n \in Recorded : /\ post'[n].amount = post[n].amount
                             /\ post'[n].seen = post[n].seen
  PROVE  /\ Sum(Recorded)' = Sum(Recorded)
         /\ \A p \in Projects : Sum(On(p, Recorded))' = Sum(On(p, Recorded))
<1> DEFINE f == [n \in Sent |-> post[n].amount]
           g == [n \in Sent' |-> post'[n].amount]
<1>1. \A n \in Recorded : f[n] = g[n]
  <2>1. Recorded \subseteq Sent /\ Recorded' \subseteq Sent'
    BY DEF Recorded, Sent
  <2> QED BY <2>1
<1>2. ASSUME NEW ns \in SUBSET Recorded
      PROVE  SumFunctionOnSet(g, ns) = SumFunctionOnSet(f, ns)
  <2>1. IsFiniteSet(ns)
    BY SubmitsFinite DEF Recorded
  <2>2. \A n \in ns : g[n] = f[n]
    BY <1>1
  <2> HIDE DEF f, g
  <2> QED BY <2>1, <2>2, SumSame
<1>3. Sum(Recorded)' = Sum(Recorded)
  BY <1>2 DEF Sum
<1>4. ASSUME NEW p \in Projects
      PROVE  Sum(On(p, Recorded))' = Sum(On(p, Recorded))
  <2>1. On(p, Recorded)' = On(p, Recorded)
    BY DEF On
  <2>2. On(p, Recorded) \in SUBSET Recorded
    BY DEF On
  <2> QED BY <1>2, <2>1, <2>2 DEF Sum
<1> QED
  BY <1>3, <1>4

\* Donation n is recorded: the sums it belongs to grow by its amount.
LEMMA SumsGrow ==
  ASSUME TypeOK, NEW n \in Sent, n \notin Recorded,
         post' = [post EXCEPT ![n].fate = "recorded"]
  PROVE  /\ Sum(Recorded)' = Sum(Recorded) + post[n].amount
         /\ \A p \in Projects :
              Sum(On(p, Recorded))' =
                Sum(On(p, Recorded))
                  + (IF post[n].seen = p THEN post[n].amount ELSE 0)
<1>1. post[n] \in Post /\ n \in Submits
  BY PostFields DEF Sent
<1>2. /\ post'[n].fate = "recorded" /\ post'[n].amount = post[n].amount
      /\ post'[n].seen = post[n].seen
      /\ \A m \in Submits \ {n} : post'[m] = post[m]
  BY <1>1 DEF TypeOK, Post
<1>3. Sent' = Sent /\ Recorded' = Recorded \cup {n}
  BY <1>1, <1>2 DEF Sent, Recorded
<1>4. SentAmounts' = SentAmounts
  BY <1>2, <1>3 DEF SentAmounts, Sent
<1>5. ASSUME NEW ns \in SUBSET Recorded
      PROVE  SumFunctionOnSet(SentAmounts, ns \cup {n})
               = SumFunctionOnSet(SentAmounts, ns) + post[n].amount
  <2>1. IsFiniteSet(ns) /\ n \notin ns
    BY SubmitsFinite DEF Recorded
  <2>2. \A m \in ns \cup {n} : SentAmounts[m] \in Nat
    BY AmountsType
  <2>3. SentAmounts[n] = post[n].amount
    BY AmountsType
  <2> QED BY <2>1, <2>2, <2>3, SumAdd
<1>6. Sum(Recorded)' = Sum(Recorded) + post[n].amount
  BY <1>3, <1>4, <1>5 DEF Sum, SentAmounts
<1>7. ASSUME NEW p \in Projects
      PROVE  Sum(On(p, Recorded))' =
               Sum(On(p, Recorded))
                 + (IF post[n].seen = p THEN post[n].amount ELSE 0)
  <2>1. On(p, Recorded) \in SUBSET Recorded
    BY DEF On
  <2>2. CASE post[n].seen = p
    <3>1. On(p, Recorded)' = On(p, Recorded) \cup {n}
      BY <1>2, <1>3, <2>2 DEF On, Recorded
    <3> QED BY <1>4, <1>5, <2>1, <2>2, <3>1 DEF Sum, SentAmounts
  <2>3. CASE post[n].seen # p
    <3>1. On(p, Recorded)' = On(p, Recorded)
      BY <1>2, <1>3, <2>3 DEF On, Recorded
    <3>2. Sum(On(p, Recorded)) \in Nat
      <4>1. /\ IsFiniteSet(On(p, Recorded))
            /\ \A m \in On(p, Recorded) : SentAmounts[m] \in Nat
        BY <2>1, SubmitsFinite, AmountsType DEF Recorded
      <4> QED BY <4>1, SumType DEF Sum, SentAmounts
    <3> QED BY <1>4, <2>3, <3>1, <3>2 DEF Sum, SentAmounts
  <2> QED BY <2>2, <2>3
<1> QED
  BY <1>6, <1>7

LEMMA InitBooked == Init => RecordedIsBooked
<1> SUFFICES ASSUME Init PROVE RecordedIsBooked
  OBVIOUS
<1>1. Sent = {} /\ Recorded = {} /\ Thanked = {}
  BY DEF Init, Unsent, Sent, Recorded, Thanked
<1>2. Sum({}) = 0
  BY SumOfNone DEF Sum
<1>3. \A p \in Projects : On(p, Recorded) = {}
  BY <1>1 DEF On
<1> QED
  BY <1>1, <1>2, <1>3 DEF Init, Server!Init, Users, RecordedIsBooked

\* A step that records no donation of the donor's, nor thanks for another
\* one, keeps the books as they are, or adds to them what others give.
LEMMA BooksStay ==
  ASSUME TypeOK, TypeOK', RecordedIsBooked,
         Recorded' = Recorded, Thanked' \subseteq Recorded,
         \A n \in Recorded : /\ post'[n].amount = post[n].amount
                             /\ post'[n].seen = post[n].seen,
         \A n \in Sent' : post'[n].project = post'[n].seen,
         byUser'[Me] = byUser[Me],
         \A p \in Projects : byProject[p] <= byProject'[p]
  PROVE  RecordedIsBooked'
<1>1. /\ Sum(Recorded)' = Sum(Recorded)
      /\ \A p \in Projects : Sum(On(p, Recorded))' = Sum(On(p, Recorded))
  BY SumsStay
<1>2. (byUser[Me] = Sum(Recorded))'
  BY <1>1 DEF RecordedIsBooked
<1>3. ASSUME NEW p \in Projects PROVE (Sum(On(p, Recorded)) <= byProject[p])'
  <2>1. byProject[p] \in Nat /\ byProject'[p] \in Nat
    BY DEF TypeOK
  <2>2. Sum(On(p, Recorded)) \in Nat
    BY SumIsNat DEF On
  <2>3. Sum(On(p, Recorded)) <= byProject[p]
    BY DEF RecordedIsBooked
  <2>4. Sum(On(p, Recorded))' = Sum(On(p, Recorded))
    BY <1>1
  <2> QED BY <2>1, <2>2, <2>3, <2>4
<1> QED
  BY <1>2, <1>3 DEF RecordedIsBooked

LEMMA NextBooked ==
  TypeOK /\ TypeOK' /\ RecordedIsBooked /\ [Next]_vars => RecordedIsBooked'
<1> SUFFICES ASSUME TypeOK, TypeOK', RecordedIsBooked, [Next]_vars
             PROVE  RecordedIsBooked'
  OBVIOUS
<1>0. /\ Thanked \subseteq Recorded /\ Recorded \subseteq Sent
      /\ Sent \subseteq Submits /\ Me \in Users /\ Other \in Users
      /\ \A n \in Sent : post[n].project = post[n].seen
      /\ \A p \in Projects : byProject[p] \in Nat
      /\ post \in [Submits -> Post \cup {Unsent}]
  BY DEF RecordedIsBooked, Recorded, Sent, Users, TypeOK
<1>1. ASSUME NEW p \in Projects, Open(p) PROVE RecordedIsBooked'
  <2>1. \A n \in Submits :
           /\ post'[n].fate = post[n].fate /\ post'[n].told = post[n].told
           /\ n \in Sent => /\ post'[n].amount = post[n].amount
                            /\ post'[n].seen = post[n].seen
                            /\ post'[n].project = post[n].project
    BY <1>0, <1>1, PostFields DEF Open, Post, Unsent, Sent
  <2>2. Recorded' = Recorded /\ Thanked' = Thanked /\ Sent' = Sent
    BY <2>1 DEF Recorded, Thanked, Sent
  <2> QED BY <1>0, <1>1, <2>1, <2>2, BooksStay DEF Open, server
<1>2. ASSUME NEW n \in Submits, NEW a \in Amounts, Submit(n, a)
      PROVE  RecordedIsBooked'
  <2>1. /\ post[n] = Unsent
        /\ post'[n] = [fate |-> "waiting", told |-> "nothing",
                       project |-> page.shown, amount |-> a,
                       seen |-> page.shown, home |-> page.id]
        /\ \A m \in Submits \ {n} : post'[m] = post[m]
    BY <1>0, <1>2, PostFields DEF Submit, Named
  <2>2. Recorded' = Recorded /\ Thanked' = Thanked /\ Sent' = Sent \cup {n}
    BY <2>1 DEF Recorded, Thanked, Sent, Unsent
  <2>3. n \notin Sent
    BY <2>1 DEF Sent, Unsent
  <2> QED BY <1>0, <1>2, <2>1, <2>2, <2>3, BooksStay DEF Submit, server
<1>3. ASSUME NEW n \in Submits, Serve(n) PROVE RecordedIsBooked'
  <2>1. post[n] \in Post /\ n \in Sent /\ n \notin Recorded
    BY <1>3, PostFields DEF Serve, Sent, Recorded
  <2>2. CASE post' = [post EXCEPT ![n].fate = "refused"] /\ UNCHANGED server
    <3>1. /\ post'[n] = [post[n] EXCEPT !.fate = "refused"]
          /\ \A m \in Submits \ {n} : post'[m] = post[m]
      BY <1>0, <2>2
    <3>2. /\ post'[n].fate = "refused" /\ post'[n].told = post[n].told
          /\ post'[n].seen = post[n].seen /\ post'[n].project = post[n].project
      BY <2>1, <3>1 DEF Post
    <3>3. Recorded' = Recorded /\ Thanked' = Thanked /\ Sent' = Sent
      <4>1. \A m \in Submits :
              /\ m \in Recorded' <=> m \in Recorded
              /\ m \in Thanked' <=> m \in Thanked
              /\ m \in Sent' <=> m \in Sent
        BY <2>1, <3>1, <3>2 DEF Recorded, Thanked, Sent
      <4> QED BY <4>1 DEF Recorded, Thanked, Sent
    <3> QED BY <1>0, <2>1, <2>2, <3>1, <3>2, <3>3, BooksStay DEF server
  <2>3. CASE /\ Server!Donate(Me, post[n].project, post[n].amount)
             /\ post' = [post EXCEPT ![n].fate = "recorded"]
    <3> DEFINE a == post[n].amount
               q == post[n].project
    <3>1. a \in Nat /\ q \in Projects /\ q = post[n].seen
      BY <1>0, <2>1 DEF Post
    <3>2. /\ byUser'[Me] = byUser[Me] + a
          /\ byProject'[q] = byProject[q] + a
          /\ \A p \in Projects \ {q} : byProject'[p] = byProject[p]
      BY <1>0, <2>3, <3>1 DEF Server!Donate, TypeOK
    <3>3. /\ Sum(Recorded)' = Sum(Recorded) + a
          /\ \A p \in Projects : Sum(On(p, Recorded))' =
               Sum(On(p, Recorded)) + (IF post[n].seen = p THEN a ELSE 0)
      BY <2>1, <2>3, SumsGrow
    <3>4. /\ post'[n] = [post[n] EXCEPT !.fate = "recorded"]
          /\ \A m \in Submits \ {n} : post'[m] = post[m]
      BY <1>0, <2>3
    <3>5. /\ Recorded' = Recorded \cup {n} /\ Thanked' = Thanked
          /\ Sent' = Sent
          /\ \A m \in Sent' : post'[m].project = post'[m].seen
      BY <1>0, <2>1, <3>4 DEF Post, Recorded, Thanked, Sent
    <3>6. (byUser[Me] = Sum(Recorded))'
      BY <3>2, <3>3 DEF RecordedIsBooked
    <3>7. ASSUME NEW p \in Projects
          PROVE  (Sum(On(p, Recorded)) <= byProject[p])'
      <4>1. Sum(On(p, Recorded)) <= byProject[p]
        BY DEF RecordedIsBooked
      <4>2. Sum(On(p, Recorded)) \in Nat
        BY SumIsNat DEF On
      <4> HIDE DEF a, q
      <4> QED BY <1>0, <3>1, <3>2, <3>3, <4>1, <4>2
    <3> QED BY <1>0, <3>5, <3>6, <3>7 DEF RecordedIsBooked
  <2> QED BY <1>3, <2>2, <2>3 DEF Serve
<1>4. ASSUME NEW n \in Submits, Success(n) \/ Failure(n)
      PROVE  RecordedIsBooked'
  <2>1. post[n] \in Post
    BY <1>4, PostFields DEF Success, Failure
  <2>2. /\ \A m \in Submits \ {n} : post'[m] = post[m]
        /\ post'[n].fate = post[n].fate /\ post'[n].amount = post[n].amount
        /\ post'[n].seen = post[n].seen /\ post'[n].project = post[n].project
        /\ post'[n].told = "success" => n \in Recorded
    BY <1>0, <1>4, <2>1 DEF Success, Failure, Post, Recorded
  <2>3. Recorded' = Recorded /\ Sent' = Sent /\ Thanked' \subseteq Recorded
    BY <1>0, <2>2 DEF Recorded, Sent, Thanked
  <2> QED BY <1>0, <1>4, <2>2, <2>3, BooksStay DEF Success, Failure, server
<1>5. ASSUME NEW p \in Projects, NEW a \in Amounts, Others(p, a)
      PROVE  RecordedIsBooked'
  <2>1. post' = post /\ byUser'[Me] = byUser[Me]
    BY <1>0, <1>5 DEF Others, Server!Donate, TypeOK
  <2>2. \A q \in Projects : byProject[q] <= byProject'[q]
    BY <1>0, <1>5 DEF Others, Server!Donate, TypeOK
  <2>3. Recorded' = Recorded /\ Sent' = Sent /\ Thanked' = Thanked
    BY <2>1 DEF Recorded, Sent, Thanked
  <2> QED BY <1>0, <2>1, <2>2, <2>3, BooksStay
<1>6. CASE UNCHANGED <<server, post>>
  <2>1. Recorded' = Recorded /\ Sent' = Sent /\ Thanked' = Thanked
    BY <1>6 DEF Recorded, Sent, Thanked
  <2> QED BY <1>0, <1>6, <2>1, BooksStay DEF server
<1> QED
  BY <1>1, <1>2, <1>3, <1>4, <1>5, <1>6
     DEF Next, vars, Go, ServeLoad, DeliverLoad, FailLoad, DonateClick, Close

\* The donor is only thanked for what is in the books, under the project the
\* page showed, and is charged for nothing that was not submitted, whichever
\* answers cross, get lost or come late.
THEOREM ThanksAreBooked == Spec => []ToldWithinBooks
<1>1. TypeOK /\ RecordedIsBooked => ToldWithinBooks
  <2> SUFFICES ASSUME TypeOK, RecordedIsBooked PROVE ToldWithinBooks
    OBVIOUS
  <2>1. /\ Thanked \in SUBSET Recorded /\ Recorded \in SUBSET Sent
        /\ byUser[Me] = Sum(Recorded)
    BY DEF RecordedIsBooked, Recorded, Sent
  <2>2. Sum(Thanked) <= Sum(Recorded)
    BY <2>1, SumInside
  <2>3. Sum(Recorded) <= Sum(Sent)
    BY <2>1, SumInside
  <2>4. ASSUME NEW p \in Projects PROVE Sum(On(p, Thanked)) <= byProject[p]
    <3>1. /\ On(p, Thanked) \in SUBSET On(p, Recorded)
          /\ On(p, Recorded) \in SUBSET Recorded
      BY <2>1 DEF On
    <3>2. Sum(On(p, Thanked)) <= Sum(On(p, Recorded))
      BY <2>1, <3>1, SumInside
    <3>3. Sum(On(p, Recorded)) <= byProject[p]
      BY DEF RecordedIsBooked
    <3>4. /\ Sum(On(p, Thanked)) \in Nat /\ Sum(On(p, Recorded)) \in Nat
          /\ byProject[p] \in Nat
      BY <2>1, <3>1, SumIsNat DEF TypeOK
    <3> QED BY <3>2, <3>3, <3>4
  <2> QED BY <2>1, <2>2, <2>3, <2>4 DEF ToldWithinBooks
<1> QED
  BY <1>1, InitType, NextType, InitBooked, NextBooked, PTL DEF Spec
=============================================================================
