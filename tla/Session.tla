------------------------------ MODULE Session ------------------------------
(***************************************************************************)
(* Who the site takes its visitor for.  Every tab keeps a user and a token *)
(* in memory (AuthContext); all tabs of a browser share the token and the  *)
(* user in localStorage, which outlive them.  Requests carry the stored    *)
(* token of the moment they are sent (api/index.ts), and their answers     *)
(* come back in any order, or as failures, while the visitor logs in and   *)
(* out, reloads, and uses other tabs.                                      *)
(*                                                                         *)
(* A task of a page runs to its end before another one touches its state   *)
(* or the storage.  The effects StrictMode repeats in development are run  *)
(* once, as in a build.                                                    *)
(***************************************************************************)
EXTENDS Naturals, FiniteSets

CONSTANTS
  Accounts,  \* accounts, each with its id, username and role
  Tabs,      \* tabs of one browser
  None,      \* no account: JavaScript's null
  MaxCalls   \* bound: requests in flight at one time, no two of them equal

ASSUME NoneAssumption == None \notin Accounts

VARIABLES
  stored,   \* localStorage: the items token and user
  tab,      \* per tab, the user and token in memory, the route, the form
  calls,    \* requests whose answers the tabs wait for
  opened,   \* history: tabs that have been open
  entered,  \* history: accounts the visitor has proved to own
  overtaken \* history: the last login came while a getMe of another account
            \* was under way

vars == <<stored, tab, calls, opened, entered, overtaken>>

Identity == Accounts \cup {None}

\* A user object: the id it was created with, and the account whose username
\* and role it shows.  updateUser, which no page calls, is left out.
User == [id : Identity, shows : Identity]
NoUser == [id |-> None, shows |-> None]
UserOf(a) == [id |-> a, shows |-> a]

Routes == {"closed", "login", "register", "site", "leaving"}
Forms == {"login", "register"}

Call == [tab : Tabs, kind : Forms \cup {"me", "work"},
         token : Identity,   \* the Authorization header
         as : Identity]      \* who the tab shows, or the credentials typed

Tab == [user : User, token : Identity, route : Routes,
        waits : Call \cup {None}]  \* the request its form waits for

TypeOK ==
  /\ stored \in [token : Identity, user : User]
  /\ tab \in [Tabs -> Tab]
  /\ calls \subseteq Call
  /\ \A c \in calls : c.kind = "me" => c.token # None
  /\ opened \subseteq Tabs
  /\ entered \subseteq Accounts
  /\ overtaken \in BOOLEAN

Empty == [token |-> None, user |-> NoUser]

Init ==
  /\ stored = Empty
  /\ tab = [t \in Tabs |-> [user |-> NoUser, token |-> None,
                            route |-> "closed", waits |-> None]]
  /\ calls = {}
  /\ opened = {}
  /\ entered = {}
  /\ overtaken = FALSE

----------------------------------------------------------------------------
\* Fault: the user item alone is enough.
RestorableByUser == stored.user.id # None
\* The effect of AuthProvider restores a session only from both items.
Restorable == stored.token # None /\ stored.user.id # None

Restored(route) ==
  IF Restorable
  THEN [user |-> stored.user, token |-> stored.token, route |-> route,
        waits |-> None]
  ELSE [user |-> NoUser, token |-> None, route |-> route, waits |-> None]

GetMe(t) == [tab |-> t, kind |-> "me", token |-> stored.token,
             as |-> stored.user.id]

\* A tab loads the application: its old page is gone, with every request it
\* waited for; a restored session asks the server who it is (getMe).
Load(t, route) ==
  /\ tab' = [tab EXCEPT ![t] = Restored(route)]
  /\ calls' = {c \in calls : c.tab # t} \cup
                (IF Restorable THEN {GetMe(t)} ELSE {})
  /\ Cardinality(calls') <= MaxCalls
  /\ opened' = opened \cup {t}
  /\ UNCHANGED <<stored, entered, overtaken>>

\* The visitor opens a tab or reloads it, on any route.
Open(t) == \E route \in {"login", "register", "site"} : Load(t, route)

\* The navigation the interceptor started with window.location.href.
Leave(t) == tab[t].route = "leaving" /\ Load(t, "login")

\* A link, the back button, or a redirect of a guarded page.
Go(t) ==
  /\ tab[t].route \in {"login", "register", "site"}
  /\ \E route \in {"login", "register", "site"} \ {tab[t].route} :
       tab' = [tab EXCEPT ![t].route = route, ![t].waits = None]
  /\ UNCHANGED <<stored, calls, opened, entered, overtaken>>

Send(c) ==
  /\ Cardinality(calls) < MaxCalls /\ c \notin calls
  /\ calls' = calls \cup {c}

\* Fault: the visitor is shown as logged in before the answer.
SubmitOptimistic(t, a) ==
  LET c == [tab |-> t, kind |-> tab[t].route, token |-> stored.token, as |-> a]
  IN /\ tab[t].route \in Forms
     /\ tab[t].waits = None
     /\ tab' = [tab EXCEPT ![t].waits = c, ![t].user = UserOf(a)]
     /\ Send(c)
     /\ UNCHANGED <<stored, opened, entered, overtaken>>
\* A form sends the credentials of a (of nobody: a wrong password, or a name
\* that is taken) and waits.
Submit(t, a) ==
  LET c == [tab |-> t, kind |-> tab[t].route, token |-> stored.token, as |-> a]
  IN /\ tab[t].route \in Forms
     /\ tab[t].waits = None
     /\ tab' = [tab EXCEPT ![t].waits = c]
     /\ Send(c)
     /\ UNCHANGED <<stored, opened, entered, overtaken>>

LogIn(t, a) == tab[t].route = "login" /\ Submit(t, a)

\* Passwords that differ only alert.
Register(t, a) == tab[t].route = "register" /\ Submit(t, a)

\* Any other request on behalf of the visitor: a donation, a review, a list.
Work(t) ==
  /\ tab[t].route \in {"site", "leaving"}
  /\ tab[t].user.id # None
  /\ Send([tab |-> t, kind |-> "work", token |-> stored.token,
           as |-> tab[t].user.id])
  /\ UNCHANGED <<stored, tab, opened, entered, overtaken>>

\* logout() in memory and in the storage, then to /login: by Layout itself,
\* by the guard of Profile.
Logout(t) ==
  /\ tab[t].route = "site"
  /\ tab[t].user.id # None
  /\ stored' = Empty
  /\ tab' = [tab EXCEPT ![t].user = NoUser, ![t].token = None,
                        ![t].route = "login", ![t].waits = None]
  /\ UNCHANGED <<calls, opened, entered, overtaken>>

----------------------------------------------------------------------------
\* Fault: the new user is merged into the one who is there, as getMe does.
EnterMerged(t, a, route) ==
  LET old == tab[t].user.shows
      next == [id |-> a, shows |-> IF old = None THEN a ELSE old]
  IN /\ stored' = [token |-> a, user |-> next]
     /\ tab' = [tab EXCEPT ![t].user = next, ![t].token = a,
                           ![t].route = route, ![t].waits = None]
\* login() of AuthContext.
Enter(t, a, route) ==
  /\ stored' = [token |-> a, user |-> UserOf(a)]
  /\ tab' = [tab EXCEPT ![t].user = UserOf(a), ![t].token = a,
                        ![t].route = route, ![t].waits = None]

\* The credentials are right: login(), and on to the site, even when the
\* visitor has left the form; a navigation under way is not called off.
Welcome(c) ==
  /\ c.kind \in Forms /\ c.as # None
  /\ Enter(c.tab, c.as,
           IF tab[c.tab].route = "leaving" THEN "leaving" ELSE "site")
  /\ entered' = entered \cup {c.as}
  /\ overtaken' = \E d \in calls : d.kind = "me" /\ d.token # c.as

\* The form is refused or times out; the alert shows, and if the form is still
\* there its button works again.
Refused(c) ==
  /\ c.kind \in Forms
  /\ tab' = [tab EXCEPT ![c.tab].waits = IF @ = c THEN None ELSE @]
  /\ UNCHANGED <<stored, entered, overtaken>>

\* Status 401, for any login that fails, also with the right password when
\* the database does, or a token the server does not accept: the interceptor
\* clears the storage and leaves the page, and the caller's catch runs before
\* the page is gone (getMe's calls logout()).
Unauthorized(c) ==
  /\ c.kind \in {"login", "me", "work"}
  /\ stored' = Empty
  /\ tab' = [tab EXCEPT
       ![c.tab].route = "leaving",
       ![c.tab].user = IF c.kind = "me" THEN NoUser ELSE @,
       ![c.tab].token = IF c.kind = "me" THEN None ELSE @,
       ![c.tab].waits = IF @ = c THEN None ELSE @]
  /\ UNCHANGED <<entered, overtaken>>

\* Fault: the answer is taken for the user whoever is, or is not, there.
ConfirmedAnyway(c) ==
  /\ c.kind = "me"
  /\ LET next == UserOf(c.token)
     IN /\ tab' = [tab EXCEPT ![c.tab].user = next]
        /\ stored' = [stored EXCEPT !.user = next]
  /\ UNCHANGED <<entered, overtaken>>
\* getMe answers with the username and role of the token it was sent with:
\* they replace those of the user of now, if there is one, also in storage.
Confirmed(c) ==
  /\ c.kind = "me"
  /\ IF tab[c.tab].user.id = None
     THEN UNCHANGED <<stored, tab>>
     ELSE LET next == [id |-> tab[c.tab].user.id, shows |-> c.token]
          IN /\ tab' = [tab EXCEPT ![c.tab].user = next]
             /\ stored' = [stored EXCEPT !.user = next]
  /\ UNCHANGED <<entered, overtaken>>

\* getMe fails or times out: logout().
MeFailed(c) ==
  /\ c.kind = "me"
  /\ stored' = Empty
  /\ tab' = [tab EXCEPT ![c.tab].user = NoUser, ![c.tab].token = None]
  /\ UNCHANGED <<entered, overtaken>>

\* What other requests bring is for the pages.
Answered(c) ==
  c.kind = "work" /\ UNCHANGED <<stored, tab, entered, overtaken>>

Answer(c) ==
  /\ \/ Welcome(c) \/ Refused(c) \/ Unauthorized(c)
     \/ Confirmed(c) \/ MeFailed(c) \/ Answered(c)
  /\ calls' = calls \ {c}
  /\ UNCHANGED opened

Next ==
  \/ \E t \in Tabs : Open(t) \/ Leave(t) \/ Go(t) \/ Work(t) \/ Logout(t)
  \/ \E t \in Tabs, a \in Identity : LogIn(t, a) \/ Register(t, a)
  \/ \E c \in calls : Answer(c)

Spec == Init /\ [][Next]_vars

----------------------------------------------------------------------------
\* No one is shown, stored or acted for whom the visitor has not proved to
\* be: names and roles that a late answer of getMe mixes into another user
\* are still the visitor's own, whatever tabs and failures do.
Mine == entered \cup {None}
Owns(user) == user.id \in Mine /\ user.shows \in Mine
OnlyEntered ==
  /\ stored.token \in Mine /\ Owns(stored.user)
  /\ \A t \in Tabs : tab[t].token \in Mine /\ Owns(tab[t].user)
  /\ \A c \in calls :
       c.kind \in {"me", "work"} => c.token \in Mine /\ c.as \in Mine

OneTab == \A s, t \in opened : s = t
Unmixed(user) == user.shows = user.id
\* While the site is open in one tab, the user object and the token are of
\* one account, in memory and in storage, and what the visitor does is done
\* with the token of that account, or with none.  The name and role shown are
\* that account's too, unless its login overtook a getMe of another account,
\* whose answer is merged into whoever is there.
OneTabConsistent ==
  OneTab =>
    /\ stored.token # None => stored.user.id = stored.token
    /\ \A t \in Tabs : tab[t].user.id = tab[t].token
    /\ \A c \in calls : c.kind = "work" => c.token \in {None, c.as}
    /\ ~ overtaken => /\ Unmixed(stored.user)
                      /\ \A t \in Tabs : Unmixed(tab[t].user)

\* Once the visitor is logged out everywhere, no answer that was still on
\* its way brings the session back: only a login or a registration does.
Gone ==
  /\ stored.token = None /\ stored.user.id = None
  /\ \A t \in Tabs : tab[t].user.id = None
GoneStaysGone ==
  [][Gone /\ ~Gone' => \E c \in calls : c.kind \in Forms /\ Welcome(c)]_vars

\* What the proofs need beside the properties: a tab that was never open
\* holds nothing and waits for nothing.
ClosedTabsEmpty ==
  /\ \A t \in Tabs \ opened :
       tab[t].user = NoUser /\ tab[t].token = None /\ tab[t].route = "closed"
  /\ \A c \in calls : c.tab \in opened
=============================================================================
