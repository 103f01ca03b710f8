--------------------------- MODULE SessionProofs ---------------------------
(***************************************************************************)
(* Proofs about Session, for any accounts, any number of tabs and any      *)
(* number of requests in flight.                                           *)
(***************************************************************************)
EXTENDS Session, TLAPS

\* The effect of AuthProvider and both forms keep the types: in particular
\* getMe is never sent without a token.
LEMMA TypeStep == ASSUME TypeOK, [Next]_vars PROVE TypeOK'
<1> USE NoneAssumption DEF TypeOK, Identity, User, NoUser, UserOf, Routes,
        Forms, Tab, Call, Empty
<1>1. CASE UNCHANGED vars
  BY <1>1 DEF vars
<1>2. ASSUME NEW t \in Tabs, NEW route \in {"login", "register", "site"},
             Load(t, route)
      PROVE TypeOK'
  <2>1. Restored(route) \in Tab
    BY <1>2 DEF Restored
  <2>2. Restorable => GetMe(t) \in Call /\ GetMe(t).token # None
    BY <1>2 DEF Restorable, GetMe
  <2>3. tab' \in [Tabs -> Tab]
    BY <1>2, <2>1 DEF Load
  <2>4. /\ calls' \subseteq Call
        /\ \A c \in calls' : c.kind = "me" => c.token # None
    BY <1>2, <2>2 DEF Load
  <2> QED BY <1>2, <2>3, <2>4 DEF Load
<1>3. ASSUME NEW t \in Tabs, Go(t) \/ Work(t) \/ Logout(t) PROVE TypeOK'
  <2>1. CASE Go(t)
    <3>1. PICK route \in {"login", "register", "site"} :
            tab' = [tab EXCEPT ![t].route = route, ![t].waits = None]
      BY <2>1 DEF Go
    <3>2. \A s \in Tabs \ {t} : tab'[s] = tab[s]
      BY <3>1
    <3>3. tab'[t] = [user |-> tab[t].user, token |-> tab[t].token,
                     route |-> route, waits |-> None]
      BY <3>1
    <3>4. DOMAIN tab' = Tabs /\ tab' = [s \in Tabs |-> tab'[s]]
      BY <3>1
    <3>5. tab' \in [Tabs -> Tab]
      BY <3>2, <3>3, <3>4
    <3> QED BY <2>1, <3>5 DEF Go
  <2>2. CASE Work(t) BY <2>2 DEF Work, Send
  <2>3. CASE Logout(t) BY <2>3 DEF Logout
  <2> QED BY <1>3, <2>1, <2>2, <2>3
<1>4. ASSUME NEW t \in Tabs, NEW a \in Identity, Submit(t, a) PROVE TypeOK'
  <2>1. tab' \in [Tabs -> Tab]
    BY <1>4 DEF Submit
  <2>2. /\ calls' \subseteq Call
        /\ \A c \in calls' : c.kind = "me" => c.token # None
    <3>1. tab[t].route \in Forms
      BY <1>4 DEF Submit
    <3>2. [tab |-> t, kind |-> tab[t].route, token |-> stored.token,
           as |-> a] \in Call
      BY <3>1
    <3> QED BY <1>4, <3>1, <3>2 DEF Submit, Send
  <2> QED BY <1>4, <2>1, <2>2 DEF Submit
<1>5. ASSUME NEW c \in calls, Answer(c) PROVE TypeOK'
  <2>1. /\ calls' \subseteq Call
        /\ \A d \in calls' : d.kind = "me" => d.token # None
        /\ opened' \subseteq Tabs
    BY <1>5 DEF Answer
  <2>2. CASE Welcome(c) BY <2>1, <2>2 DEF Welcome, Enter
  <2>3. CASE Refused(c) BY <2>1, <2>3 DEF Refused
  <2>4. CASE Unauthorized(c)
    <3>1. tab' \in [Tabs -> Tab]
      <4>1. CASE c.kind = "me" BY <2>4, <4>1 DEF Unauthorized
      <4>2. CASE c.kind = "login" BY <2>4, <4>2 DEF Unauthorized
      <4>3. CASE c.kind = "work" BY <2>4, <4>3 DEF Unauthorized
      <4> QED BY <2>4, <4>1, <4>2, <4>3 DEF Unauthorized
    <3> QED BY <2>1, <2>4, <3>1 DEF Unauthorized
  <2>5. CASE Confirmed(c)
    <3>1. [id |-> tab[c.tab].user.id, shows |-> c.token] \in User
      OBVIOUS
    <3> QED BY <2>1, <2>5, <3>1 DEF Confirmed
  <2>6. CASE MeFailed(c) BY <2>1, <2>6 DEF MeFailed
  <2>7. CASE Answered(c) BY <2>1, <2>7 DEF Answered
  <2> QED BY <1>5, <2>2, <2>3, <2>4, <2>5, <2>6, <2>7 DEF Answer
<1> QED BY <1>1, <1>2, <1>3, <1>4, <1>5 DEF Next, Open, Leave, LogIn, Register

LEMMA InitType == Init => TypeOK
<1> SUFFICES ASSUME Init PROVE TypeOK
  OBVIOUS
<1>1. overtaken \in BOOLEAN
  BY DEF Init
<1>2. NoUser \in User /\ stored \in [token : Identity, user : User]
  BY DEF Init, Empty, NoUser, User, Identity
<1>3. tab \in [Tabs -> Tab]
  BY <1>2 DEF Init, Identity, Routes, Tab
<1> QED BY <1>1, <1>2, <1>3 DEF Init, TypeOK

THEOREM TypeCorrect == Spec => []TypeOK
BY InitType, TypeStep, PTL DEF Spec

----------------------------------------------------------------------------
\* A page restores only what is stored, and asks the server with that.
LEMMA EnteredStep ==
  ASSUME TypeOK, OnlyEntered, [Next]_vars PROVE OnlyEntered'
<1> USE DEF OnlyEntered, Mine, Owns, NoUser, UserOf, Empty
<1>1. CASE UNCHANGED vars
  BY <1>1 DEF vars
<1>2. ASSUME NEW t \in Tabs, NEW route \in {"login", "register", "site"},
             Load(t, route)
      PROVE OnlyEntered'
  <2>1. tab' = [tab EXCEPT ![t] = Restored(route)] /\ t \in DOMAIN tab
    BY <1>2 DEF Load, TypeOK
  <2>2. Restored(route).token \in Mine /\ Owns(Restored(route).user)
    BY DEF Restored
  <2>3. \A s \in Tabs : tab'[s] = tab[s] \/ tab'[s] = Restored(route)
    BY <2>1 DEF TypeOK
  <2>4. \A c \in calls' : c \in calls \/ c = GetMe(t)
    BY <1>2 DEF Load
  <2>5. GetMe(t).token \in Mine /\ GetMe(t).as \in Mine
    BY DEF GetMe
  <2> QED BY <1>2, <2>2, <2>3, <2>4, <2>5 DEF Load
<1>3. ASSUME NEW t \in Tabs, Go(t) \/ Work(t) \/ Logout(t)
      PROVE OnlyEntered'
  <2>1. CASE Go(t)
    <3>1. \A s \in Tabs : /\ tab'[s].user = tab[s].user
                          /\ tab'[s].token = tab[s].token
      BY <2>1 DEF Go, TypeOK, Tab
    <3> QED BY <2>1, <3>1 DEF Go
  <2>2. CASE Work(t)
    BY <2>2 DEF Work, Send
  <2>3. CASE Logout(t)
    <3>1. \A s \in Tabs :
            \/ tab'[s].user = tab[s].user /\ tab'[s].token = tab[s].token
            \/ tab'[s].user = NoUser /\ tab'[s].token = None
      BY <2>3 DEF Logout, TypeOK, Tab
    <3>2. stored' = Empty /\ calls' = calls /\ entered' = entered
      BY <2>3 DEF Logout
    <3>3. \A s \in Tabs : (tab[s].token \in Mine /\ Owns(tab[s].user))'
      BY <3>1, <3>2
    <3>4. (stored.token \in Mine /\ Owns(stored.user))'
      BY <3>2
    <3> QED BY <3>2, <3>3, <3>4
  <2> QED BY <1>3, <2>1, <2>2, <2>3
<1>4. ASSUME NEW t \in Tabs, NEW a \in Identity, Submit(t, a)
      PROVE OnlyEntered'
  <2>1. \A s \in Tabs : /\ tab'[s].user = tab[s].user
                        /\ tab'[s].token = tab[s].token
    BY <1>4 DEF Submit, TypeOK, Tab
  <2>2. \A c \in calls' : c \in calls \/ c.kind \in Forms
    BY <1>4 DEF Submit, Send
  <2> QED BY <1>4, <2>1, <2>2 DEF Submit, Forms
<1>5. ASSUME NEW c \in calls, Answer(c) PROVE OnlyEntered'
  <2>1. calls' \subseteq calls /\ c.tab \in Tabs
    BY <1>5 DEF Answer, TypeOK, Call
  <2>2. CASE Welcome(c)
    <3>1. \A s \in Tabs :
            \/ tab'[s].user = tab[s].user /\ tab'[s].token = tab[s].token
            \/ tab'[s].user = UserOf(c.as) /\ tab'[s].token = c.as
      BY <2>2 DEF Welcome, Enter, TypeOK, Tab
    <3>2. /\ stored' = [token |-> c.as, user |-> UserOf(c.as)]
          /\ entered' = entered \cup {c.as}
      BY <2>2 DEF Welcome, Enter
    <3>3. \A s \in Tabs : (tab[s].token \in Mine /\ Owns(tab[s].user))'
      BY <3>1, <3>2
    <3>4. (stored.token \in Mine /\ Owns(stored.user))'
      BY <3>2
    <3>5. \A d \in calls' : d.kind \in {"me", "work"} =>
            (d.token \in Mine)' /\ (d.as \in Mine)'
      BY <2>1, <3>2
    <3> QED BY <3>3, <3>4, <3>5
  <2>3. CASE Refused(c)
    <3>1. \A s \in Tabs : /\ tab'[s].user = tab[s].user
                          /\ tab'[s].token = tab[s].token
      BY <2>3 DEF Refused, TypeOK, Tab
    <3> QED BY <2>1, <2>3, <3>1 DEF Refused
  <2>4. CASE Unauthorized(c) \/ MeFailed(c)
    <3>1. \A s \in Tabs :
            /\ tab'[s].user \in {tab[s].user, NoUser}
            /\ tab'[s].token \in {tab[s].token, None}
      <4>1. CASE MeFailed(c) BY <2>1, <4>1 DEF MeFailed, TypeOK, Tab
      <4>2. CASE Unauthorized(c) /\ c.kind = "me"
        BY <2>1, <4>2 DEF Unauthorized, TypeOK, Tab
      <4>3. CASE Unauthorized(c) /\ c.kind # "me"
        BY <2>1, <4>3 DEF Unauthorized, TypeOK, Tab
      <4> QED BY <2>4, <4>1, <4>2, <4>3
    <3>2. stored' = Empty /\ entered' = entered
      BY <2>4 DEF Unauthorized, MeFailed
    <3> QED BY <2>1, <3>1, <3>2
  <2>5. CASE Confirmed(c)
    <3>1. CASE tab[c.tab].user.id = None
      BY <2>1, <2>5, <3>1 DEF Confirmed
    <3>2. CASE tab[c.tab].user.id # None
      <4> DEFINE next == [id |-> tab[c.tab].user.id, shows |-> c.token]
      <4>1. /\ tab' = [tab EXCEPT ![c.tab].user = next]
            /\ stored' = [stored EXCEPT !.user = next]
            /\ entered' = entered
        BY <2>5, <3>2 DEF Confirmed
      <4>2. Owns(next)
        BY <2>1, <2>5 DEF Confirmed
      <4> HIDE DEF next
      <4>3. \A s \in Tabs : /\ tab'[s].user \in {tab[s].user, next}
                            /\ tab'[s].token = tab[s].token
        BY <2>1, <4>1 DEF TypeOK, Tab
      <4>4. stored'.user = next /\ stored'.token = stored.token
        BY <4>1 DEF TypeOK
      <4> QED BY <2>1, <4>1, <4>2, <4>3, <4>4
    <3> QED BY <3>1, <3>2
  <2>6. CASE Answered(c)
    BY <2>1, <2>6 DEF Answered
  <2> QED BY <1>5, <2>2, <2>3, <2>4, <2>5, <2>6 DEF Answer
<1> QED BY <1>1, <1>2, <1>3, <1>4, <1>5 DEF Next, Open, Leave, LogIn, Register

\* Whatever tabs, late answers and failures do, the site takes its visitor
\* only for accounts whose credentials were entered in this browser.
THEOREM OnlyEnteredShown == Spec => []OnlyEntered
<1>1. Init => OnlyEntered
  BY DEF Init, OnlyEntered, Mine, Owns, Empty, NoUser
<1>2. Spec => []TypeOK
  BY TypeCorrect
<1> QED BY <1>1, <1>2, EnteredStep, PTL DEF Spec

----------------------------------------------------------------------------
\* No request that was on its way when the visitor was logged out everywhere
\* brings the session back, except the login or registration itself.
THEOREM LogoutIsFinal == Spec => GoneStaysGone
<1>1. ASSUME TypeOK, [Next]_vars, Gone,
             ~ \E c \in calls : c.kind \in Forms /\ Welcome(c)
      PROVE Gone'
  <2> USE DEF Gone, NoUser, Empty
  <2>1. CASE UNCHANGED vars
    BY <1>1, <2>1 DEF vars
  <2>2. ASSUME NEW t \in Tabs, NEW route \in {"login", "register", "site"},
               Load(t, route)
        PROVE Gone'
    <3>1. /\ tab' = [tab EXCEPT ![t] = Restored(route)]
          /\ stored' = stored
      BY <2>2 DEF Load
    <3>2. Restored(route).user.id = None
      BY <1>1 DEF Restored, Restorable
    <3>3. \A s \in Tabs : tab'[s] = tab[s] \/ tab'[s] = Restored(route)
      BY <1>1, <3>1 DEF TypeOK
    <3> QED BY <1>1, <3>1, <3>2, <3>3
  <2>3. ASSUME NEW t \in Tabs, Go(t) \/ Work(t) \/ Logout(t) PROVE Gone'
    <3>1. CASE Go(t)
      <4>1. \A s \in Tabs : tab'[s].user = tab[s].user
        BY <1>1, <3>1 DEF Go, TypeOK, Tab
      <4> QED BY <1>1, <3>1, <4>1 DEF Go
    <3>2. CASE Work(t) BY <1>1, <3>2 DEF Work
    <3>3. CASE Logout(t)
      BY <1>1, <3>3 DEF Logout, TypeOK, Tab
    <3> QED BY <2>3, <3>1, <3>2, <3>3
  <2>4. ASSUME NEW t \in Tabs, NEW a \in Identity, Submit(t, a) PROVE Gone'
    <3>1. \A s \in Tabs : tab'[s].user = tab[s].user
      BY <1>1, <2>4 DEF Submit, TypeOK, Tab
    <3> QED BY <1>1, <2>4, <3>1 DEF Submit
  <2>5. ASSUME NEW c \in calls, Answer(c) PROVE Gone'
    <3>1. c.tab \in Tabs
      BY <1>1 DEF TypeOK, Call
    <3>2. ~ Welcome(c)
      BY <1>1 DEF Welcome
    <3>3. CASE Refused(c)
      <4>1. \A s \in Tabs : tab'[s].user = tab[s].user
        BY <1>1, <3>1, <3>3 DEF Refused, TypeOK, Tab
      <4> QED BY <1>1, <3>3, <4>1 DEF Refused
    <3>4. CASE Unauthorized(c)
      <4>1. \A s \in Tabs : tab'[s].user \in {tab[s].user, NoUser}
        BY <1>1, <3>1, <3>4 DEF Unauthorized, TypeOK, Tab
      <4>2. stored' = Empty
        BY <3>4 DEF Unauthorized
      <4>3. \A s \in Tabs : tab'[s].user.id = None
        BY <1>1, <4>1
      <4> QED BY <4>2, <4>3
    <3>5. CASE Confirmed(c)
      BY <1>1, <3>1, <3>5 DEF Confirmed
    <3>6. CASE MeFailed(c)
      <4>1. \A s \in Tabs : tab'[s].user \in {tab[s].user, NoUser}
        BY <1>1, <3>1, <3>6 DEF MeFailed, TypeOK, Tab
      <4>2. stored' = Empty
        BY <3>6 DEF MeFailed
      <4>3. \A s \in Tabs : tab'[s].user.id = None
        BY <1>1, <4>1
      <4> QED BY <4>2, <4>3
    <3>7. CASE Answered(c)
      BY <1>1, <3>7 DEF Answered
    <3> QED BY <2>5, <3>2, <3>3, <3>4, <3>5, <3>6, <3>7 DEF Answer
  <2> QED BY <1>1, <2>1, <2>2, <2>3, <2>4, <2>5
          DEF Next, Open, Leave, LogIn, Register
<1>2. Spec => []TypeOK
  BY TypeCorrect
<1>3. TypeOK /\ [Next]_vars =>
        [Gone /\ ~Gone' =>
           \E c \in calls : c.kind \in Forms /\ Welcome(c)]_vars
  BY <1>1
<1> QED BY <1>2, <1>3, PTL DEF Spec, GoneStaysGone

----------------------------------------------------------------------------
LEMMA ClosedStep ==
  ASSUME TypeOK, ClosedTabsEmpty, [Next]_vars
  PROVE ClosedTabsEmpty' /\ opened \subseteq opened'
<1> USE DEF ClosedTabsEmpty
<1>1. CASE UNCHANGED vars
  BY <1>1 DEF vars
<1>2. ASSUME NEW t \in Tabs, NEW route \in {"login", "register", "site"},
             Load(t, route)
      PROVE ClosedTabsEmpty' /\ opened \subseteq opened'
  <2>1. \A c \in calls' : c \in calls \/ c.tab = t
    BY <1>2 DEF Load, GetMe
  <2> QED BY <1>2, <2>1 DEF Load, TypeOK
<1>3. ASSUME NEW t \in Tabs, Go(t) \/ Work(t) \/ Logout(t)
      PROVE ClosedTabsEmpty' /\ opened \subseteq opened'
  <2>1. tab[t].route # "closed"
    BY <1>3 DEF Go, Work, Logout
  <2>2. t \in opened
    BY <2>1
  <2>3. opened' = opened /\ \A s \in Tabs \ {t} : tab'[s] = tab[s]
    BY <1>3 DEF Go, Work, Logout, TypeOK
  <2>4. \A c \in calls' : c \in calls \/ c.tab = t
    BY <1>3 DEF Go, Work, Logout, Send
  <2> QED BY <2>2, <2>3, <2>4
<1>4. ASSUME NEW t \in Tabs, NEW a \in Identity, Submit(t, a)
      PROVE ClosedTabsEmpty' /\ opened \subseteq opened'
  <2>1. t \in opened
    BY <1>4 DEF Submit, Forms
  <2>2. opened' = opened /\ \A s \in Tabs \ {t} : tab'[s] = tab[s]
    BY <1>4 DEF Submit, TypeOK
  <2>3. \A c \in calls' : c \in calls \/ c.tab = t
    BY <1>4 DEF Submit, Send
  <2> QED BY <2>1, <2>2, <2>3
<1>5. ASSUME NEW c \in calls, Answer(c)
      PROVE ClosedTabsEmpty' /\ opened \subseteq opened'
  <2>1. opened' = opened /\ calls' \subseteq calls /\ c.tab \in opened
    BY <1>5 DEF Answer
  <2>2. \A s \in Tabs \ {c.tab} : tab'[s] = tab[s]
    <3>1. CASE Welcome(c) BY <3>1 DEF Welcome, Enter, TypeOK
    <3>2. CASE Refused(c) BY <3>2 DEF Refused, TypeOK
    <3>3. CASE Unauthorized(c) BY <3>3 DEF Unauthorized, TypeOK
    <3>4. CASE Confirmed(c) BY <3>4 DEF Confirmed, TypeOK
    <3>5. CASE MeFailed(c) BY <3>5 DEF MeFailed, TypeOK
    <3>6. CASE Answered(c) BY <3>6 DEF Answered
    <3> QED BY <1>5, <3>1, <3>2, <3>3, <3>4, <3>5, <3>6 DEF Answer
  <2> QED BY <2>1, <2>2
<1> QED BY <1>1, <1>2, <1>3, <1>4, <1>5 DEF Next, Open, Leave, LogIn, Register

\* OneTabConsistent for the one tab, and what makes it inductive: a session
\* in memory is the stored one, unless the storage has been cleared.
Paired ==
  /\ stored.token # None => stored.user.id = stored.token
  /\ \A t \in Tabs : tab[t].user.id = tab[t].token
  /\ \A c \in calls : c.kind = "work" => c.token \in {None, c.as}
  /\ \A t \in Tabs : (stored.token # None /\ tab[t].user.id # None)
                       => tab[t].user.id = stored.token

LEMMA PairedStep ==
  ASSUME TypeOK, ClosedTabsEmpty, Paired, OneTab', [Next]_vars
  PROVE Paired'
<1> USE DEF Paired, NoUser, UserOf, Empty
<1>1. CASE UNCHANGED vars
  BY <1>1 DEF vars
<1>2. ASSUME NEW t \in Tabs, NEW route \in {"login", "register", "site"},
             Load(t, route)
      PROVE Paired'
  <2>1. /\ tab' = [tab EXCEPT ![t] = Restored(route)]
        /\ stored' = stored /\ opened' = opened \cup {t}
        /\ \A c \in calls' : (c \in calls /\ c.tab # t) \/ c = GetMe(t)
    BY <1>2 DEF Load
  <2>2. \A s \in opened : s = t
    BY <2>1 DEF OneTab
  <2>3. \A c \in calls' : c.kind = "me"
    BY <2>1, <2>2 DEF ClosedTabsEmpty, GetMe
  <2>4. /\ tab'[t] = Restored(route)
        /\ \A s \in Tabs \ {t} : tab'[s] = tab[s]
    BY <2>1 DEF TypeOK
  <2>5. \A s \in Tabs \ {t} : tab'[s].user.id = None /\ tab'[s].token = None
    BY <2>2, <2>4 DEF ClosedTabsEmpty
  <2>6. /\ tab'[t].user.id = tab'[t].token
        /\ tab'[t].user.id # None => tab'[t].user.id = stored.token
    BY <2>4 DEF Restored, Restorable
  <2> QED BY <2>1, <2>3, <2>5, <2>6
<1>3. ASSUME NEW t \in Tabs, Go(t) \/ Work(t) \/ Logout(t) PROVE Paired'
  <2>1. CASE Go(t)
    <3>1. \A s \in Tabs : /\ tab'[s].user = tab[s].user
                          /\ tab'[s].token = tab[s].token
      BY <2>1 DEF Go, TypeOK, Tab
    <3> QED BY <2>1, <3>1 DEF Go
  <2>2. CASE Work(t)
    <3>1. calls' = calls \cup {[tab |-> t, kind |-> "work",
                               token |-> stored.token, as |-> tab[t].user.id]}
      BY <2>2 DEF Work, Send
    <3>2. tab[t].user.id # None /\ stored' = stored /\ tab' = tab
      BY <2>2 DEF Work
    <3>3. stored.token \in {None, tab[t].user.id}
      BY <3>2
    <3> QED BY <3>1, <3>2, <3>3
  <2>3. CASE Logout(t)
    <3>1. \A s \in Tabs :
            \/ tab'[s].user = tab[s].user /\ tab'[s].token = tab[s].token
            \/ tab'[s].user = NoUser /\ tab'[s].token = None
      BY <2>3 DEF Logout, TypeOK, Tab
    <3>2. stored' = Empty /\ calls' = calls
      BY <2>3 DEF Logout
    <3> QED BY <3>1, <3>2
  <2> QED BY <1>3, <2>1, <2>2, <2>3
<1>4. ASSUME NEW t \in Tabs, NEW a \in Identity, Submit(t, a) PROVE Paired'
  <2>1. \A s \in Tabs : /\ tab'[s].user = tab[s].user
                        /\ tab'[s].token = tab[s].token
    BY <1>4 DEF Submit, TypeOK, Tab
  <2>2. \A c \in calls' : c \in calls \/ c.kind # "work"
    BY <1>4 DEF Submit, Send, Forms
  <2> QED BY <1>4, <2>1, <2>2 DEF Submit
<1>5. ASSUME NEW c \in calls, Answer(c) PROVE Paired'
  <2>1. calls' \subseteq calls /\ c.tab \in Tabs /\ c.tab \in opened
    BY <1>5 DEF Answer, TypeOK, Call, ClosedTabsEmpty
  <2>2. \A s \in opened : s = c.tab
    BY <1>5, <2>1 DEF Answer, OneTab
  <2>3. CASE Welcome(c)
    <3>1. /\ tab'[c.tab].user = UserOf(c.as) /\ tab'[c.tab].token = c.as
          /\ \A s \in Tabs \ {c.tab} : tab'[s] = tab[s]
      BY <2>1, <2>3 DEF Welcome, Enter, TypeOK, Tab
    <3>2. stored' = [token |-> c.as, user |-> UserOf(c.as)]
      BY <2>3 DEF Welcome, Enter
    <3>3. \A s \in Tabs \ {c.tab} :
            tab'[s].user.id = None /\ tab'[s].token = None
      BY <2>2, <3>1 DEF ClosedTabsEmpty
    <3> QED BY <2>1, <3>1, <3>2, <3>3
  <2>4. CASE Refused(c)
    <3>1. \A s \in Tabs : /\ tab'[s].user = tab[s].user
                          /\ tab'[s].token = tab[s].token
      BY <2>4 DEF Refused, TypeOK, Tab
    <3> QED BY <2>1, <2>4, <3>1 DEF Refused
  <2>5. CASE Unauthorized(c) \/ MeFailed(c)
    <3>1. \A s \in Tabs :
            \/ tab'[s].user = tab[s].user /\ tab'[s].token = tab[s].token
            \/ tab'[s].user = NoUser /\ tab'[s].token = None
      <4>1. CASE MeFailed(c) BY <2>1, <4>1 DEF MeFailed, TypeOK, Tab
      <4>2. CASE Unauthorized(c) /\ c.kind = "me"
        BY <2>1, <4>2 DEF Unauthorized, TypeOK, Tab
      <4>3. CASE Unauthorized(c) /\ c.kind # "me"
        BY <2>1, <4>3 DEF Unauthorized, TypeOK, Tab
      <4> QED BY <2>5, <4>1, <4>2, <4>3
    <3>2. stored' = Empty
      BY <2>5 DEF Unauthorized, MeFailed
    <3> QED BY <2>1, <3>1, <3>2
  <2>6. CASE Confirmed(c)
    <3>1. CASE tab[c.tab].user.id = None
      BY <2>1, <2>6, <3>1 DEF Confirmed
    <3>2. CASE tab[c.tab].user.id # None
      <4>1. \A s \in Tabs : /\ tab'[s].user.id = tab[s].user.id
                            /\ tab'[s].token = tab[s].token
        BY <2>1, <2>6, <3>2 DEF Confirmed, TypeOK, Tab, User
      <4>2. /\ stored'.token = stored.token
            /\ stored'.user.id = tab[c.tab].user.id
        BY <2>6, <3>2 DEF Confirmed, TypeOK
      <4>3. stored.token # None => tab[c.tab].user.id = stored.token
        BY <2>1, <3>2
      <4> QED BY <2>1, <4>1, <4>2, <4>3
    <3> QED BY <3>1, <3>2
  <2>7. CASE Answered(c)
    BY <2>1, <2>7 DEF Answered
  <2> QED BY <1>5, <2>3, <2>4, <2>5, <2>6, <2>7 DEF Answer
<1> QED BY <1>1, <1>2, <1>3, <1>4, <1>5 DEF Next, Open, Leave, LogIn, Register

\* The user object is of one account until a login overtakes a getMe: a getMe
\* under way is of the account in memory, if there is one.
Unmerged ==
  ~ overtaken =>
    /\ Unmixed(stored.user)
    /\ \A t \in Tabs : Unmixed(tab[t].user)
    /\ \A c \in calls : (c.kind = "me" /\ tab[c.tab].user.id # None)
                           => c.token = tab[c.tab].user.id

LEMMA UnmergedStep ==
  ASSUME TypeOK, ClosedTabsEmpty, Paired, Unmerged, OneTab', [Next]_vars
  PROVE Unmerged'
<1> USE DEF Unmerged, Unmixed, NoUser, UserOf, Empty
<1>0. \A c \in calls : c.tab \in Tabs
  BY DEF TypeOK, Call
<1>1. CASE UNCHANGED vars
  BY <1>1 DEF vars
<1>2. ASSUME NEW t \in Tabs, NEW route \in {"login", "register", "site"},
             Load(t, route)
      PROVE Unmerged'
  <2>1. /\ tab' = [tab EXCEPT ![t] = Restored(route)]
        /\ stored' = stored /\ opened' = opened \cup {t}
        /\ overtaken' = overtaken
        /\ \A c \in calls' : \/ c \in calls /\ c.tab # t
                             \/ c = GetMe(t) /\ Restorable
    BY <1>2 DEF Load
  <2>2. \A s \in opened : s = t
    BY <2>1 DEF OneTab
  <2>3. \A c \in calls' : c = GetMe(t) /\ Restorable
    BY <2>1, <2>2 DEF ClosedTabsEmpty
  <2>4. /\ tab'[t] = Restored(route)
        /\ \A s \in Tabs \ {t} : tab'[s] = tab[s]
    BY <2>1 DEF TypeOK
  <2>5. Restorable => /\ Restored(route).user = stored.user
                      /\ GetMe(t).token = stored.user.id /\ GetMe(t).tab = t
    BY DEF Restored, Restorable, GetMe, Paired
  <2>6. ~ Restorable => Restored(route).user = NoUser
    BY DEF Restored
  <2>7. ~ overtaken => \A s \in Tabs : tab'[s].user.shows = tab'[s].user.id
    BY <2>4, <2>5, <2>6
  <2>8. \A c \in calls' : c.token = tab'[c.tab].user.id
    BY <2>3, <2>4, <2>5
  <2> QED BY <2>1, <2>7, <2>8
<1>3. ASSUME NEW t \in Tabs, Go(t) \/ Work(t) \/ Logout(t) PROVE Unmerged'
  <2>1. CASE Go(t)
    <3>1. \A s \in Tabs : tab'[s].user = tab[s].user
      BY <2>1 DEF Go, TypeOK, Tab
    <3> QED BY <1>0, <2>1, <3>1 DEF Go
  <2>2. CASE Work(t)
    BY <2>2 DEF Work, Send
  <2>3. CASE Logout(t)
    <3>1. \A s \in Tabs : tab'[s].user \in {tab[s].user, NoUser}
      BY <2>3 DEF Logout, TypeOK, Tab
    <3>2. stored' = Empty /\ calls' = calls /\ overtaken' = overtaken
      BY <2>3 DEF Logout
    <3> QED BY <1>0, <3>1, <3>2
  <2> QED BY <1>3, <2>1, <2>2, <2>3
<1>4. ASSUME NEW t \in Tabs, NEW a \in Identity, Submit(t, a) PROVE Unmerged'
  <2>1. \A s \in Tabs : tab'[s].user = tab[s].user
    BY <1>4 DEF Submit, TypeOK, Tab
  <2>2. \A c \in calls' : c \in calls \/ c.kind # "me"
    BY <1>4 DEF Submit, Send, Forms
  <2> QED BY <1>0, <1>4, <2>1, <2>2 DEF Submit
<1>5. ASSUME NEW c \in calls, Answer(c) PROVE Unmerged'
  <2>1. calls' \subseteq calls /\ c.tab \in Tabs /\ c.tab \in opened
    BY <1>0, <1>5 DEF Answer, ClosedTabsEmpty
  <2>2. \A s \in opened : s = c.tab
    BY <1>5, <2>1 DEF Answer, OneTab
  <2>3. \A d \in calls : d.tab = c.tab
    BY <2>2 DEF ClosedTabsEmpty
  <2>4. CASE Welcome(c)
    <3>1. /\ tab'[c.tab].user = UserOf(c.as)
          /\ \A s \in Tabs \ {c.tab} : tab'[s] = tab[s]
      BY <2>1, <2>4 DEF Welcome, Enter, TypeOK, Tab
    <3>2. /\ stored' = [token |-> c.as, user |-> UserOf(c.as)]
          /\ ~ overtaken' => \A d \in calls : d.kind = "me" => d.token = c.as
      BY <2>4 DEF Welcome, Enter
    <3>3. \A s \in Tabs \ {c.tab} : tab'[s].user = tab[s].user
      BY <3>1
    <3>4. ASSUME ~ overtaken' PROVE \A s \in Tabs : (Unmixed(tab[s].user))'
      <4>1. \A s \in Tabs \ {c.tab} : tab[s].user = NoUser
        BY <2>2 DEF ClosedTabsEmpty
      <4> QED BY <3>1, <3>3, <4>1
    <3> QED BY <2>1, <2>3, <3>1, <3>2, <3>4
  <2>5. CASE Refused(c)
    <3>1. \A s \in Tabs : tab'[s].user = tab[s].user
      BY <2>5 DEF Refused, TypeOK, Tab
    <3> QED BY <1>0, <2>1, <2>5, <3>1 DEF Refused
  <2>6. CASE Unauthorized(c) \/ MeFailed(c)
    <3>1. \A s \in Tabs : tab'[s].user \in {tab[s].user, NoUser}
      BY <2>1, <2>6 DEF Unauthorized, MeFailed, TypeOK, Tab
    <3>2. stored' = Empty /\ overtaken' = overtaken
      BY <2>6 DEF Unauthorized, MeFailed
    <3> QED BY <1>0, <2>1, <3>1, <3>2
  <2>7. CASE Confirmed(c)
    <3>1. CASE tab[c.tab].user.id = None
      BY <1>0, <2>1, <2>7, <3>1 DEF Confirmed
    <3>2. CASE tab[c.tab].user.id # None
      <4> DEFINE next == [id |-> tab[c.tab].user.id, shows |-> c.token]
      <4>1. /\ tab' = [tab EXCEPT ![c.tab].user = next]
            /\ stored' = [stored EXCEPT !.user = next]
            /\ overtaken' = overtaken /\ c.kind = "me"
        BY <2>7, <3>2 DEF Confirmed
      <4>2. ~ overtaken => next.shows = next.id
        BY <3>2, <4>1
      <4>3. next.id = tab[c.tab].user.id
        OBVIOUS
      <4> HIDE DEF next
      <4>4. /\ \A s \in Tabs : tab'[s].user = IF s = c.tab THEN next
                                                        ELSE tab[s].user
            /\ stored'.user = next
        BY <2>1, <4>1 DEF TypeOK, Tab
      <4> QED BY <1>0, <2>1, <4>1, <4>2, <4>3, <4>4
    <3> QED BY <3>1, <3>2
  <2>8. CASE Answered(c)
    BY <2>1, <2>8 DEF Answered
  <2> QED BY <1>5, <2>4, <2>5, <2>6, <2>7, <2>8 DEF Answer
<1> QED BY <1>1, <1>2, <1>3, <1>4, <1>5 DEF Next, Open, Leave, LogIn, Register

\* In a browser with one tab, user and token are never of two accounts, no
\* request acts for another account than the one the page shows, and its name
\* and role are shown until a login overtakes a getMe of another account.  As
\* a tab that was opened stays in opened, one tab after a step means one tab,
\* or none, before it.
THEOREM OneTabIsConsistent == Spec => []OneTabConsistent
<1> DEFINE IInv == /\ TypeOK /\ ClosedTabsEmpty
                   /\ OneTab => Paired /\ Unmerged
<1>1. Init => IInv
  BY InitType DEF Init, ClosedTabsEmpty, Paired, Unmerged, Unmixed, Empty,
     NoUser
<1>2. IInv /\ [Next]_vars => IInv'
  <2> SUFFICES ASSUME IInv, [Next]_vars PROVE IInv'
    OBVIOUS
  <2>1. TypeOK' /\ ClosedTabsEmpty' /\ opened \subseteq opened'
    BY TypeStep, ClosedStep
  <2>2. OneTab' => OneTab
    BY <2>1 DEF OneTab
  <2> QED BY <2>1, <2>2, PairedStep, UnmergedStep
<1>3. IInv => OneTabConsistent
  BY DEF Paired, Unmerged, OneTabConsistent
<1> QED BY <1>1, <1>2, <1>3, PTL DEF Spec
=============================================================================
