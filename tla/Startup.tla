------------------------------ MODULE Startup ------------------------------
(***************************************************************************)
(* The life of the backend process: Connect with its retries, Seed, the    *)
(* server, and the shutdown on SIGTERM.  MySQL comes and goes; any         *)
(* statement can fail, which ends the process (os.Exit), and the process   *)
(* can be killed at any moment.  Docker starts it again.  Only the tables  *)
(* outlive it.  Of what requests do, the model keeps the registration of   *)
(* administrators, which Seed's first count sees; the rest is GiveTrack    *)
(* and Catalog.                                                            *)
(*                                                                         *)
(* Seed inserts the administrator if there is none, and then, if there is  *)
(* no user with role "org", the demo rows 1 .. Demo one after the other,   *)
(* the account of the first organization being row 1.  No transaction      *)
(* holds them together.                                                    *)
(***************************************************************************)
EXTENDS Integers

CONSTANTS
  RetryCount,   \* DB_CONNECT_RETRY_COUNT
  Demo,         \* the number of demo rows
  Handlers,     \* the goroutines that serve requests
  Grace,        \* the time Shutdown waits for them
  MaxAdmins,    \* bound on the administrators who register
  MaxFaults     \* bound on kills, outages and failing statements

ASSUME StartupAssumption ==
  /\ RetryCount \in Nat
  /\ Demo \in Nat \ {0}
  /\ Grace \in Nat
  /\ MaxAdmins \in Nat
  /\ MaxFaults \in Nat

VARIABLES
  mysql,     \* does it answer
  admins,    \* the number of users with role "admin"
  demo,      \* the demo rows in the tables
  pc,        \* where the process is
  attempt,   \* Connect's i
  next,      \* the demo row Seed inserts next
  handler,   \* "stored": it has inserted an administrator
  waited,    \* the time Shutdown has been waiting
  seeded,    \* history: the number of administrators Seed has inserted
  faults     \* bound

\* What outlives the process, and its history.
tables == <<admins, demo, seeded>>
vars == <<mysql, admins, demo, pc, attempt, next, handler, waited, seeded,
          faults>>

\* The requests being served, from the acceptance of the connection on.
InFlight == {h \in Handlers : handler[h] # "idle"}
Idle == [h \in Handlers |-> "idle"]

Seeding == {"count_admin", "insert_admin", "count_org", "insert_demo"}
PC == {"connect", "migrate", "serve", "drain", "close", "stopped", "exited"}
        \union Seeding

TypeOK ==
  /\ mysql \in {"up", "down"}
  /\ admins \in Nat
  /\ demo \subseteq 1 .. Demo
  /\ pc \in PC
  /\ attempt \in 0 .. RetryCount
  /\ next \in 1 .. Demo
  /\ handler \in [Handlers -> {"idle", "running", "stored"}]
  /\ waited \in 0 .. Grace
  /\ seeded \in Nat
  /\ faults \in Nat

Init ==
  /\ mysql \in {"up", "down"}
  /\ admins = 0 /\ demo = {} /\ seeded = 0
  /\ pc = "connect" /\ attempt = 0 /\ next = 1
  /\ handler = Idle /\ waited = 0
  /\ faults = 0

Fault == faults < MaxFaults /\ faults' = faults + 1

----------------------------------------------------------------------------
(***************************************************************************)
(* Connect.                                                                *)
(***************************************************************************)
\* Fault: the loop is not left when the connection is up.
ConnectedNoBreak ==
  /\ pc = "connect" /\ mysql = "up"
  /\ IF attempt = RetryCount THEN pc' = "exited" /\ UNCHANGED attempt
                             ELSE attempt' = attempt + 1 /\ UNCHANGED pc
  /\ UNCHANGED <<mysql, tables, next, handler, waited, faults>>

\* Open and Ping succeed: the loop ends.
Connected ==
  /\ pc = "connect" /\ mysql = "up"
  /\ pc' = "migrate"
  /\ UNCHANGED <<mysql, tables, attempt, next, handler, waited, faults>>

\* An attempt fails: sleep and try again, or give up after the last.
Retry ==
  /\ pc = "connect" /\ mysql = "down"
  /\ IF attempt = RetryCount THEN pc' = "exited" /\ UNCHANGED attempt
                             ELSE attempt' = attempt + 1 /\ UNCHANGED pc
  /\ UNCHANGED <<mysql, tables, next, handler, waited, faults>>

\* AutoMigrate, which changes nothing when the tables are there.
Migrate ==
  /\ pc = "migrate" /\ mysql = "up"
  /\ pc' = "count_admin"
  /\ UNCHANGED <<mysql, tables, attempt, next, handler, waited, faults>>

----------------------------------------------------------------------------
(***************************************************************************)
(* Seed.                                                                   *)
(***************************************************************************)
CountAdmin ==
  /\ pc = "count_admin" /\ mysql = "up"
  /\ pc' = IF admins = 0 THEN "insert_admin" ELSE "count_org"
  /\ UNCHANGED <<mysql, tables, attempt, next, handler, waited, faults>>

InsertAdmin ==
  /\ pc = "insert_admin" /\ mysql = "up"
  /\ admins' = admins + 1 /\ seeded' = seeded + 1
  /\ pc' = "count_org"
  /\ UNCHANGED <<mysql, demo, attempt, next, handler, waited, faults>>

\* The rest of the demo rows is not looked at.
CountOrg ==
  /\ pc = "count_org" /\ mysql = "up"
  /\ pc' = IF 1 \in demo THEN "serve" ELSE "insert_demo"
  /\ next' = 1
  /\ UNCHANGED <<mysql, tables, attempt, handler, waited, faults>>

InsertDemo ==
  /\ pc = "insert_demo" /\ mysql = "up"
  /\ demo' = demo \union {next}
  /\ IF next = Demo THEN pc' = "serve" /\ UNCHANGED next
                    ELSE next' = next + 1 /\ UNCHANGED pc
  /\ UNCHANGED <<mysql, admins, seeded, attempt, handler, waited, faults>>

\* Fault: a failing insert is logged and the next row is tried.
StatementFailsIgnored ==
  /\ pc \in {"insert_admin", "insert_demo"}
  /\ Fault
  /\ IF pc = "insert_demo" /\ next < Demo
       THEN next' = next + 1 /\ UNCHANGED pc
       ELSE UNCHANGED next /\ pc' = IF pc = "insert_admin" THEN "count_org"
                                                           ELSE "serve"
  /\ UNCHANGED <<mysql, tables, attempt, handler, waited>>

\* A statement fails, because MySQL is down or for another reason: log and
\* os.Exit(1).
StatementFails ==
  /\ pc \in {"migrate"} \union Seeding
  /\ \/ mysql = "down" /\ UNCHANGED faults
     \/ Fault
  /\ pc' = "exited"
  /\ UNCHANGED <<mysql, tables, attempt, next, handler, waited>>

----------------------------------------------------------------------------
(***************************************************************************)
(* The server and its shutdown.                                            *)
(***************************************************************************)
Arrive(h) ==
  /\ pc = "serve" /\ handler[h] = "idle"
  /\ handler' = [handler EXCEPT ![h] = "running"]
  /\ UNCHANGED <<mysql, tables, pc, attempt, next, waited, faults>>

\* Register stores the role the request names, "admin" too.
RegisterAdmin(h) ==
  /\ pc \in {"serve", "drain", "close"} /\ mysql = "up"
  /\ handler[h] = "running" /\ admins < MaxAdmins
  /\ admins' = admins + 1
  /\ handler' = [handler EXCEPT ![h] = "stored"]
  /\ UNCHANGED <<mysql, demo, seeded, pc, attempt, next, waited, faults>>

\* A request ends, whatever it did.
Answer(h) ==
  /\ pc \in {"serve", "drain", "close"} /\ h \in InFlight
  /\ handler' = [handler EXCEPT ![h] = "idle"]
  /\ UNCHANGED <<mysql, tables, pc, attempt, next, waited, faults>>

\* SIGTERM: Shutdown stops listening and waits for the requests.
Signal ==
  /\ pc = "serve"
  /\ pc' = "drain" /\ waited' = 0
  /\ UNCHANGED <<mysql, tables, attempt, next, handler, faults>>

TimePasses ==
  /\ pc = "drain" /\ waited < Grace
  /\ waited' = waited + 1
  /\ UNCHANGED <<mysql, tables, pc, attempt, next, handler, faults>>

\* Fault: Close in place of Shutdown.
DrainedAtOnce ==
  /\ pc = "drain"
  /\ pc' = "close"
  /\ UNCHANGED <<mysql, tables, attempt, next, handler, waited, faults>>

\* Shutdown returns because every request has been answered.
Drained ==
  /\ pc = "drain" /\ InFlight = {}
  /\ pc' = "close"
  /\ UNCHANGED <<mysql, tables, attempt, next, handler, waited, faults>>

\* Fault: Shutdown has a context without a deadline.
GiveUpNever ==
  /\ pc = "drain" /\ waited = Grace /\ InFlight = {}
  /\ pc' = "close"
  /\ UNCHANGED <<mysql, tables, attempt, next, handler, waited, faults>>

\* Shutdown returns because its context is over.
GiveUp ==
  /\ pc = "drain" /\ waited = Grace
  /\ pc' = "close"
  /\ UNCHANGED <<mysql, tables, attempt, next, handler, waited, faults>>

\* The pool is closed and main returns, which ends every goroutine.
ClosePool ==
  /\ pc = "close"
  /\ pc' = "stopped" /\ handler' = Idle
  /\ UNCHANGED <<mysql, tables, attempt, next, waited, faults>>

----------------------------------------------------------------------------
Kill ==
  /\ pc \notin {"exited", "stopped"}
  /\ Fault
  /\ pc' = "exited" /\ handler' = Idle
  /\ UNCHANGED <<mysql, tables, attempt, next, waited>>

Start ==
  /\ pc' = "connect" /\ attempt' = 0
  /\ UNCHANGED <<mysql, tables, next, handler, waited, faults>>

\* restart: unless-stopped; a stopped one is started by the operator.
Restart == pc = "exited" /\ Start
StartAgain == pc = "stopped" /\ Start

MySQLStops ==
  /\ mysql = "up" /\ Fault
  /\ mysql' = "down"
  /\ UNCHANGED <<tables, pc, attempt, next, handler, waited>>

MySQLStarts ==
  /\ mysql = "down"
  /\ mysql' = "up"
  /\ UNCHANGED <<tables, pc, attempt, next, handler, waited, faults>>

Boot ==
  \/ Connected
  \/ Retry
  \/ Migrate
  \/ CountAdmin
  \/ InsertAdmin
  \/ CountOrg
  \/ InsertDemo
  \/ StatementFails

Stop ==
  \/ TimePasses
  \/ Drained
  \/ GiveUp
  \/ ClosePool

Next ==
  \/ Boot
  \/ \E h \in Handlers : Arrive(h) \/ RegisterAdmin(h) \/ Answer(h)
  \/ Signal
  \/ Stop
  \/ Kill
  \/ Restart
  \/ StartAgain
  \/ MySQLStops
  \/ MySQLStarts

Spec == Init /\ [][Next]_vars

\* The process runs, time passes, Docker restarts it, and so does MySQL's
\* container.  No request need ever end.
FairSpec ==
  /\ Spec
  /\ WF_vars(Boot)
  /\ WF_vars(Stop)
  /\ WF_vars(Restart)
  /\ WF_vars(MySQLStarts)

----------------------------------------------------------------------------
\* A server that takes requests has an administrator, however many starts
\* before this one failed or were killed half way; and Seed never adds one
\* of its own to those who are there, registered ones included.
ServingHasAdmin ==
  /\ pc \in {"serve", "drain", "close"} => admins >= 1
  /\ seeded <= 1

\* A demo row is there only with all rows inserted before it, which it
\* refers to by id, whatever failed and however often Seed ran.
ReferencesExist == \A i \in demo : \A j \in 1 .. i : j \in demo

\* main returns over a request that is not answered only when Shutdown has
\* waited its whole time: neither Shutdown nor main returns early.
GracefulStop ==
  [][(pc # "stopped" /\ pc' = "stopped" /\ InFlight # {}) => waited = Grace]_vars

\* A stop that has begun ends, although a request may never be answered.
StopEnds == (pc = "drain") ~> (pc \in {"stopped", "exited"})

\* Every start ends in a server, once the faults are over: the retries and
\* restarts outlast an outage, and a half-seeded database does not stand in
\* the way of the next start.
EventuallyServes ==
  (pc \in {"connect", "migrate", "exited"} \union Seeding) ~> (pc = "serve")

\* The inductive parts: Seed inserts the rows in order, after the
\* administrator, and Shutdown leaves no request behind before its time.
InsertedInOrder == pc = "insert_demo" => 1 .. (next - 1) \subseteq demo
AdminFirst ==
  /\ pc \in {"count_org", "insert_demo"} => admins >= 1
  /\ pc = "insert_admin" => admins = 0
  /\ seeded <= admins
DrainedOrLate == pc = "close" => (waited = Grace \/ InFlight = {})
============================================================================
