--------------------------- MODULE ProcessProofs ---------------------------
(***************************************************************************)
(* Proofs about the backend process itself: its life, for every number of  *)
(* retries, of demo rows and of faults (Startup), and the limiter it keeps *)
(* in memory, for every limit, window, size of the map, number of clients  *)
(* and order in which stamped requests get the mutex (RateLimit).          *)
(***************************************************************************)
EXTENDS Startup, RateLimit, TLAPS

----------------------------------------------------------------------------
(***************************************************************************)
(* Startup.  The inductive invariant joins what each phase of the process  *)
(* knows to what the tables keep across a restart.                         *)
(***************************************************************************)
IInv ==
  /\ TypeOK
  /\ ServingHasAdmin
  /\ ReferencesExist
  /\ InsertedInOrder
  /\ AdminFirst
  /\ DrainedOrLate

LEMMA InitIInv == Init => IInv
BY StartupAssumption
   DEF Init, Idle, IInv, TypeOK, PC, Seeding, ServingHasAdmin,
       ReferencesExist, InsertedInOrder, AdminFirst, DrainedOrLate

\* One lemma per group of conjuncts that speak of the same variables.
LEMMA NextType == IInv /\ [Next]_vars => TypeOK'
<1> SUFFICES ASSUME IInv, [Next]_vars PROVE TypeOK'
  OBVIOUS
<1> USE StartupAssumption
    DEF IInv, TypeOK, PC, Seeding, tables
<1>1. CASE Connected BY <1>1 DEF Connected
<1>2. CASE Retry BY <1>2 DEF Retry
<1>3. CASE Migrate BY <1>3 DEF Migrate
<1>4. CASE CountAdmin BY <1>4 DEF CountAdmin
<1>5. CASE InsertAdmin BY <1>5 DEF InsertAdmin
<1>6. CASE CountOrg BY <1>6 DEF CountOrg
<1>7. CASE InsertDemo BY <1>7 DEF InsertDemo
<1>8. CASE StatementFails BY <1>8 DEF StatementFails, Fault
<1>9. ASSUME NEW h \in Handlers, Arrive(h) PROVE TypeOK'
  BY <1>9 DEF Arrive
<1>10. ASSUME NEW h \in Handlers, RegisterAdmin(h) PROVE TypeOK'
  BY <1>10 DEF RegisterAdmin
<1>11. ASSUME NEW h \in Handlers, Answer(h) PROVE TypeOK'
  BY <1>11 DEF Answer
<1>12. CASE Signal BY <1>12 DEF Signal
<1>13. CASE TimePasses BY <1>13 DEF TimePasses
<1>14. CASE Drained BY <1>14 DEF Drained
<1>15. CASE GiveUp BY <1>15 DEF GiveUp
<1>16. CASE ClosePool BY <1>16 DEF ClosePool, Idle
<1>17. CASE Kill BY <1>17 DEF Kill, Fault, Idle
<1>18. CASE Restart BY <1>18 DEF Restart, Start
<1>19. CASE StartAgain BY <1>19 DEF StartAgain, Start
<1>20. CASE MySQLStops BY <1>20 DEF MySQLStops, Fault
<1>21. CASE MySQLStarts BY <1>21 DEF MySQLStarts
<1>22. CASE UNCHANGED vars BY <1>22 DEF vars
<1> QED
  BY <1>1, <1>2, <1>3, <1>4, <1>5, <1>6, <1>7, <1>8, <1>9, <1>10, <1>11,
     <1>12, <1>13, <1>14, <1>15, <1>16, <1>17, <1>18, <1>19, <1>20, <1>21,
     <1>22 DEF Next, Boot, Stop

LEMMA NextAdmin == IInv /\ [Next]_vars => ServingHasAdmin' /\ AdminFirst'
<1> SUFFICES ASSUME IInv, [Next]_vars PROVE ServingHasAdmin' /\ AdminFirst'
  OBVIOUS
<1> USE StartupAssumption
    DEF IInv, TypeOK, ServingHasAdmin, AdminFirst, tables
<1>1. CASE Connected BY <1>1 DEF Connected
<1>2. CASE Retry BY <1>2 DEF Retry
<1>3. CASE Migrate BY <1>3 DEF Migrate
<1>4. CASE CountAdmin BY <1>4 DEF CountAdmin
<1>5. CASE InsertAdmin BY <1>5 DEF InsertAdmin
<1>6. CASE CountOrg BY <1>6 DEF CountOrg
<1>7. CASE InsertDemo BY <1>7 DEF InsertDemo
<1>8. CASE StatementFails BY <1>8 DEF StatementFails, Fault
<1>9. ASSUME NEW h \in Handlers, Arrive(h)
       PROVE ServingHasAdmin' /\ AdminFirst'
  BY <1>9 DEF Arrive
<1>10. ASSUME NEW h \in Handlers, RegisterAdmin(h)
       PROVE ServingHasAdmin' /\ AdminFirst'
  BY <1>10 DEF RegisterAdmin
<1>11. ASSUME NEW h \in Handlers, Answer(h)
       PROVE ServingHasAdmin' /\ AdminFirst'
  BY <1>11 DEF Answer
<1>12. CASE Signal BY <1>12 DEF Signal
<1>13. CASE TimePasses BY <1>13 DEF TimePasses
<1>14. CASE Drained BY <1>14 DEF Drained
<1>15. CASE GiveUp BY <1>15 DEF GiveUp
<1>16. CASE ClosePool BY <1>16 DEF ClosePool, Idle
<1>17. CASE Kill BY <1>17 DEF Kill, Fault, Idle
<1>18. CASE Restart BY <1>18 DEF Restart, Start
<1>19. CASE StartAgain BY <1>19 DEF StartAgain, Start
<1>20. CASE MySQLStops BY <1>20 DEF MySQLStops, Fault
<1>21. CASE MySQLStarts BY <1>21 DEF MySQLStarts
<1>22. CASE UNCHANGED vars BY <1>22 DEF vars
<1> QED
  BY <1>1, <1>2, <1>3, <1>4, <1>5, <1>6, <1>7, <1>8, <1>9, <1>10, <1>11,
     <1>12, <1>13, <1>14, <1>15, <1>16, <1>17, <1>18, <1>19, <1>20, <1>21,
     <1>22 DEF Next, Boot, Stop

LEMMA NextDrained == IInv /\ [Next]_vars => DrainedOrLate'
<1> SUFFICES ASSUME IInv, [Next]_vars PROVE DrainedOrLate'
  OBVIOUS
<1> USE StartupAssumption
    DEF IInv, TypeOK, DrainedOrLate, InFlight, tables
<1>1. CASE Connected BY <1>1 DEF Connected
<1>2. CASE Retry BY <1>2 DEF Retry
<1>3. CASE Migrate BY <1>3 DEF Migrate
<1>4. CASE CountAdmin BY <1>4 DEF CountAdmin
<1>5. CASE InsertAdmin BY <1>5 DEF InsertAdmin
<1>6. CASE CountOrg BY <1>6 DEF CountOrg
<1>7. CASE InsertDemo BY <1>7 DEF InsertDemo
<1>8. CASE StatementFails BY <1>8 DEF StatementFails, Fault
<1>9. ASSUME NEW h \in Handlers, Arrive(h) PROVE DrainedOrLate'
  BY <1>9 DEF Arrive
<1>10. ASSUME NEW h \in Handlers, RegisterAdmin(h) PROVE DrainedOrLate'
  BY <1>10 DEF RegisterAdmin
<1>11. ASSUME NEW h \in Handlers, Answer(h) PROVE DrainedOrLate'
  BY <1>11 DEF Answer
<1>12. CASE Signal BY <1>12 DEF Signal
<1>13. CASE TimePasses BY <1>13 DEF TimePasses
<1>14. CASE Drained BY <1>14 DEF Drained
<1>15. CASE GiveUp BY <1>15 DEF GiveUp
<1>16. CASE ClosePool BY <1>16 DEF ClosePool, Idle
<1>17. CASE Kill BY <1>17 DEF Kill, Fault, Idle
<1>18. CASE Restart BY <1>18 DEF Restart, Start
<1>19. CASE StartAgain BY <1>19 DEF StartAgain, Start
<1>20. CASE MySQLStops BY <1>20 DEF MySQLStops, Fault
<1>21. CASE MySQLStarts BY <1>21 DEF MySQLStarts
<1>22. CASE UNCHANGED vars BY <1>22 DEF vars
<1> QED
  BY <1>1, <1>2, <1>3, <1>4, <1>5, <1>6, <1>7, <1>8, <1>9, <1>10, <1>11,
     <1>12, <1>13, <1>14, <1>15, <1>16, <1>17, <1>18, <1>19, <1>20, <1>21,
     <1>22 DEF Next, Boot, Stop

\* Only two actions touch the demo rows or the position among them.
LEMMA DemoFrame ==
  ASSUME [Next]_vars, ~ InsertDemo
  PROVE /\ demo' = demo
        /\ pc' = "insert_demo" => (pc = "insert_demo" /\ next' = next) \/ next' = 1
BY DEF vars, tables, Next, Boot, Connected, Retry, Migrate, CountAdmin,
       InsertAdmin, CountOrg, StatementFails, Arrive, RegisterAdmin, Answer,
       Signal, Stop, TimePasses, Drained, GiveUp, ClosePool, Kill, Restart,
       StartAgain, Start, MySQLStops, MySQLStarts

LEMMA NextDemo == IInv /\ [Next]_vars => ReferencesExist' /\ InsertedInOrder'
<1> SUFFICES ASSUME IInv, [Next]_vars
             PROVE ReferencesExist' /\ InsertedInOrder'
  OBVIOUS
<1>1. CASE InsertDemo
  <2>1. /\ demo' = demo \union {next}
        /\ next \in Nat /\ demo \subseteq Nat
        /\ 1 .. (next - 1) \subseteq demo
        /\ pc' = "insert_demo" => next' = next + 1
    BY <1>1, StartupAssumption DEF InsertDemo, IInv, TypeOK, InsertedInOrder
  <2>2. \A j \in 1 .. next : j \in demo'
    <3> TAKE j \in 1 .. next
    <3>1. j \in 1 .. (next - 1) \/ j = next BY <2>1
    <3> QED BY <2>1, <3>1
  <2>3. ReferencesExist'
    <3> SUFFICES ASSUME NEW i \in demo', NEW j \in 1 .. i PROVE j \in demo'
      BY DEF ReferencesExist
    <3>1. CASE i \in demo BY <2>1, <3>1 DEF IInv, ReferencesExist
    <3>2. CASE i = next BY <2>2, <3>2
    <3> QED BY <2>1, <3>1, <3>2
  <2>4. InsertedInOrder' BY <2>1, <2>2 DEF InsertedInOrder
  <2> QED BY <2>3, <2>4
<1>2. CASE ~ InsertDemo
  <2>1. /\ demo' = demo
        /\ pc' = "insert_demo" => (pc = "insert_demo" /\ next' = next) \/ next' = 1
    BY <1>2, DemoFrame
  <2>2. ReferencesExist' BY <2>1 DEF IInv, ReferencesExist
  <2>3. InsertedInOrder' BY <2>1 DEF IInv, InsertedInOrder
  <2> QED BY <2>2, <2>3
<1> QED BY <1>1, <1>2

LEMMA NextIInv == IInv /\ [Next]_vars => IInv'
BY NextType, NextAdmin, NextDrained, NextDemo DEF IInv

LEMMA Invariant == Spec => []IInv
BY InitIInv, NextIInv, PTL DEF Spec

\* No start, failure or kill takes a variable out of its range: the attempts
\* to connect and the rows Seed goes through stay within their bounds.
THEOREM TypeCorrect == Spec => []TypeOK
<1>1. IInv => TypeOK BY DEF IInv
<1> QED BY <1>1, Invariant, PTL

\* A server always has an administrator, since Seed finds one or inserts one
\* on every way to it, and Seed inserts one only once, whoever registers as
\* administrator in between.
THEOREM AdminAtService == Spec => []ServingHasAdmin
<1>1. IInv => ServingHasAdmin BY DEF IInv
<1> QED BY <1>1, Invariant, PTL

\* No seeded row refers to a missing one, after any sequence of failures,
\* kills and restarts of Seed.
THEOREM SeedKeepsReferences == Spec => []ReferencesExist
<1>1. IInv => ReferencesExist BY DEF IInv
<1> QED BY <1>1, Invariant, PTL

\* main returns over a request only after Shutdown's whole time, whatever
\* that is: the pool is closed after an empty server or a full wait, and no
\* request arrives after that.
THEOREM StopIsGraceful == Spec => GracefulStop
<1>1. ASSUME IInv, [Next]_vars
      PROVE [(pc # "stopped" /\ pc' = "stopped" /\ InFlight # {}) => waited = Grace]_vars
  <2> SUFFICES ASSUME Next, pc # "stopped", pc' = "stopped", InFlight # {}
               PROVE waited = Grace
    BY <1>1
  <2>1. pc = "close"
    BY DEF Next, Boot, Connected, Retry, Migrate, CountAdmin, InsertAdmin,
           CountOrg, InsertDemo, StatementFails, Arrive, RegisterAdmin,
           Answer, Signal, Stop, TimePasses, Drained, GiveUp, ClosePool, Kill,
           Restart, StartAgain, Start, MySQLStops, MySQLStarts
  <2> QED BY <1>1, <2>1 DEF IInv, TypeOK, DrainedOrLate
<1>2. [][(pc # "stopped" /\ pc' = "stopped" /\ InFlight # {}) => waited = Grace]_vars
        <=> GracefulStop
  BY DEF GracefulStop
<1> QED BY <1>1, <1>2, Invariant, PTL DEF Spec

----------------------------------------------------------------------------
(***************************************************************************)
(* RateLimit.  A key that is barred keeps a full bucket (BarredIsFull).    *)
(***************************************************************************)
USE RateLimitAssumption

LimitInv == LimitTypeOK /\ BarredIsFull

LEMMA InitLimitInv == LimitInit => LimitInv
<1> SUFFICES ASSUME LimitInit PROVE LimitInv
  OBVIOUS
<1>1. (CHOOSE k \in Keys : TRUE) \in Keys
  OBVIOUS
<1>2. QED
  BY <1>1 DEF LimitInit, LimitInv, LimitTypeOK, BarredIsFull, Request, RequestPC

\* What Enter does, with the bucket it counts in named.
LEMMA EnterEffect ==
  ASSUME LimitInv, NEW r \in Requests, Enter(r)
  PROVE  LET k == req[r].key
             b == Current(k, req[r].now)
         IN /\ k \in Keys /\ b \in Bucket
            /\ DOMAIN buckets' = Kept(req[r].now) \union {k}
            /\ buckets'[k] = [start |-> b.start, count |-> b.count + 1]
            /\ \A x \in Kept(req[r].now) \ {k} : buckets'[x] = buckets[x]
            /\ clock' = clock
<1>1. req[r] \in Request
  BY DEF LimitInv, LimitTypeOK
<1>2. req[r].key \in Keys /\ req[r].now \in Nat
  BY <1>1 DEF Request
<1>3. Kept(req[r].now) \subseteq DOMAIN buckets
  BY DEF Kept
<1>4. Current(req[r].key, req[r].now) \in Bucket
  BY <1>2, <1>3 DEF Current, LimitInv, LimitTypeOK, Bucket
<1>5. QED
  BY <1>2, <1>4 DEF Enter

\* A barred key keeps its bucket through the purge, and gets no new one.
LEMMA BarredKept ==
  ASSUME LimitInv, NEW k \in Keys, barred[k] > clock, NEW now \in Nat, now <= clock
  PROVE  k \in Kept(now) /\ Current(k, now) = buckets[k]
<1>1. /\ k \in DOMAIN buckets /\ buckets[k].start + Window = barred[k]
      /\ buckets[k].start \in Nat /\ clock \in Nat /\ barred[k] \in Nat
  BY DEF LimitInv, BarredIsFull, LimitTypeOK, Bucket
<1>2. Live(k, now)
  BY <1>1 DEF Live
<1>3. QED
  BY <1>1, <1>2 DEF Kept, Current

LEMMA EnterInv ==
  ASSUME LimitInv, NEW r \in Requests, Enter(r)
  PROVE  LimitInv'
<1> DEFINE k == req[r].key
           now == req[r].now
           b == Current(k, now)
<1>0. /\ req[r] \in Request /\ k \in Keys /\ now \in Nat /\ now <= clock
  BY DEF LimitInv, LimitTypeOK, BarredIsFull, Request
<1>1. /\ b \in Bucket
      /\ DOMAIN buckets' = Kept(now) \union {k}
      /\ buckets'[k] = [start |-> b.start, count |-> b.count + 1]
      /\ \A x \in Kept(now) \ {k} : buckets'[x] = buckets[x]
      /\ clock' = clock
  BY EnterEffect
<1>2. Kept(now) \subseteq DOMAIN buckets
  BY DEF Kept
<1>3. /\ barred' = IF b.count + 1 > Limit
                     THEN [barred EXCEPT ![k] = b.start + Window]
                     ELSE barred
      /\ req' = [req EXCEPT ![r].pc = IF b.count + 1 > Limit THEN "refused"
                                                           ELSE "admitted"]
  BY DEF Enter
<1>4. b.start \in Nat /\ b.count \in Nat
  BY <1>1 DEF Bucket
<1>5. LimitTypeOK'
  <2>1. \A x \in DOMAIN buckets' : x \in Keys /\ buckets'[x] \in Bucket
    BY <1>0, <1>1, <1>2, <1>4 DEF LimitInv, LimitTypeOK, Bucket
  <2>2. req' \in [Requests -> Request]
    BY <1>0, <1>3 DEF LimitInv, LimitTypeOK, Request, RequestPC
  <2>3. barred' \in [Keys -> Nat]
    BY <1>0, <1>3, <1>4 DEF LimitInv, LimitTypeOK
  <2>4. QED
    BY <1>1, <2>1, <2>2, <2>3 DEF LimitInv, LimitTypeOK
<1>6. \A x \in Requests : req'[x].now <= clock'
  BY <1>0, <1>1, <1>3 DEF LimitInv, BarredIsFull, LimitTypeOK, Request
<1>7. ASSUME NEW x \in Keys, barred'[x] > clock'
      PROVE  /\ x \in DOMAIN buckets'
             /\ buckets'[x].start + Window = barred'[x]
             /\ buckets'[x].count > Limit
  <2>1. CASE x # k
    <3>1. barred'[x] = barred[x]
      BY <1>3, <2>1 DEF LimitInv, LimitTypeOK
    <3>2. x \in Kept(now)
      BY <1>0, <1>1, <1>7, <3>1, BarredKept
    <3>3. QED
      BY <1>1, <1>7, <2>1, <3>1, <3>2 DEF LimitInv, BarredIsFull
  <2>2. CASE x = k /\ b.count + 1 > Limit
    BY <1>0, <1>1, <1>3, <1>4, <2>2 DEF LimitInv, LimitTypeOK
  <2>3. CASE x = k /\ ~ (b.count + 1 > Limit)
    <3>1. barred[k] > clock
      BY <1>1, <1>3, <1>7, <2>3
    <3>2. b = buckets[k] /\ buckets[k].count > Limit
      BY <1>0, <3>1, BarredKept DEF LimitInv, BarredIsFull
    <3>3. QED
      BY <1>4, <2>3, <3>2
  <2>4. QED
    BY <2>1, <2>2, <2>3
<1>8. QED
  BY <1>5, <1>6, <1>7 DEF LimitInv, BarredIsFull

LEMMA NextLimitInv == LimitInv /\ [LimitNext]_limitVars => LimitInv'
<1> SUFFICES ASSUME LimitInv, [LimitNext]_limitVars PROVE LimitInv'
  OBVIOUS
<1>1. CASE Tick
  BY <1>1 DEF Tick, LimitInv, LimitTypeOK, BarredIsFull, Request
<1>2. ASSUME NEW r \in Requests, NEW k \in Keys, Stamp(r, k) PROVE LimitInv'
  BY <1>2 DEF Stamp, LimitInv, LimitTypeOK, BarredIsFull, Request, RequestPC
<1>3. ASSUME NEW r \in Requests, Enter(r) PROVE LimitInv'
  BY <1>3, EnterInv
<1>4. CASE UNCHANGED limitVars
  BY <1>4 DEF limitVars, LimitInv, LimitTypeOK, BarredIsFull
<1>5. QED
  BY <1>1, <1>2, <1>3, <1>4 DEF LimitNext

\* Every variable keeps its type, whatever order requests
\* get the mutex in.
THEOREM LimitTypeCorrect == LimitSpec => []LimitTypeOK
<1>1. LimitInv => LimitTypeOK
  BY DEF LimitInv
<1>2. QED
  BY InitLimitInv, NextLimitInv, <1>1, PTL DEF LimitSpec

\* A request let in is counted in a bucket that is not full.
NotBarred ==
  \A r \in Requests : (req[r].pc # "admitted" /\ req'[r].pc = "admitted")
                        => clock >= barred[req[r].key]

LEMMA NextNotBarred == LimitInv /\ [LimitNext]_limitVars => NotBarred
<1> SUFFICES ASSUME LimitInv, [LimitNext]_limitVars, NEW r \in Requests,
                    req[r].pc # "admitted", req'[r].pc = "admitted"
             PROVE  clock >= barred[req[r].key]
  BY DEF NotBarred
<1>0. /\ req[r] \in Request /\ req[r].key \in Keys
      /\ req[r].now \in Nat /\ req[r].now <= clock
      /\ clock \in Nat /\ barred[req[r].key] \in Nat
  BY DEF LimitInv, LimitTypeOK, BarredIsFull, Request
<1>1. Enter(r)
  <2>1. ~ Tick /\ ~ UNCHANGED limitVars
    BY DEF Tick, limitVars
  <2>2. \A x \in Requests, k \in Keys : ~ Stamp(x, k)
    BY DEF Stamp, LimitInv, LimitTypeOK
  <2>3. \A x \in Requests : x # r => ~ Enter(x)
    BY DEF Enter, LimitInv, LimitTypeOK
  <2>4. QED
    BY <2>1, <2>2, <2>3 DEF LimitNext
<1>2. ~ (Current(req[r].key, req[r].now).count + 1 > Limit)
  BY <1>0, <1>1 DEF Enter, LimitInv, LimitTypeOK
<1>3. SUFFICES ASSUME barred[req[r].key] > clock PROVE FALSE
  BY <1>0
<1>4. /\ Current(req[r].key, req[r].now) = buckets[req[r].key]
      /\ buckets[req[r].key].count > Limit
      /\ buckets[req[r].key].count \in Nat
  BY <1>0, <1>3, BarredKept DEF LimitInv, BarredIsFull, LimitTypeOK, Bucket
<1>5. QED
  BY <1>2, <1>4

\* A refused client stays out until its window is over, by the clock at which
\* the later request is let in, although stamps arrive out of order and the
\* map is purged.
THEOREM NoEarlyRefill == LimitSpec => RefusedUntilWindowEnds
<1>1. LimitInv /\ [LimitNext]_limitVars => [NotBarred]_limitVars
  BY NextNotBarred
<1>2. QED
  BY InitLimitInv, NextLimitInv, <1>1, PTL DEF LimitSpec, RefusedUntilWindowEnds, NotBarred
============================================================================
