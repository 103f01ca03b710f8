----------------------------- MODULE RateLimit -----------------------------
(***************************************************************************)
(* middleware.RateLimit: the fixed-window limiter in front of /login and   *)
(* /register.  One value of this state per route.  A request reads the     *)
(* clock first and takes the mutex afterwards, so requests enter the       *)
(* critical section with stamps that are out of order and may be old.      *)
(***************************************************************************)
EXTENDS Integers, FiniteSets

CONSTANTS
  Keys,        \* client IP and path
  Requests,    \* the requests that arrive (each once)
  Limit,       \* AUTH_RATE_LIMIT
  Window,      \* AUTH_RATE_WINDOW_SECONDS
  MaxBuckets,  \* the size of the map that triggers the purge (4096)
  MaxTime      \* bound on the clock

ASSUME RateLimitAssumption ==
  /\ Limit \in Nat \ {0} /\ Window \in Nat \ {0}
  /\ MaxBuckets \in Nat /\ MaxTime \in Nat
  /\ Keys # {}

VARIABLES
  clock,    \* time.Now()
  buckets,  \* the map: for the keys it holds, windowStart and count
  req,      \* the requests: pc, key and stamp (now)
  barred    \* history: end of the window in which a key was last refused

limitVars == <<clock, buckets, req, barred>>

Bucket == [start : Nat, count : Nat]
RequestPC == {"new", "stamped", "admitted", "refused"}
Request == [pc : RequestPC, key : Keys, now : Nat]

LimitTypeOK ==
  /\ clock \in Nat
  /\ DOMAIN buckets \subseteq Keys
  /\ \A k \in DOMAIN buckets : buckets[k] \in Bucket
  /\ req \in [Requests -> Request]
  /\ barred \in [Keys -> Nat]

LimitInit ==
  /\ clock = 0
  /\ buckets = [k \in {} |-> [start |-> 0, count |-> 0]]
  /\ req = [r \in Requests |->
              [pc |-> "new", key |-> CHOOSE k \in Keys : TRUE, now |-> 0]]
  /\ barred = [k \in Keys |-> 0]

Tick ==
  /\ clock < MaxTime
  /\ clock' = clock + 1
  /\ UNCHANGED <<buckets, req, barred>>

\* now := time.Now(), before the mutex.
Stamp(r, k) ==
  /\ req[r].pc = "new"
  /\ req' = [req EXCEPT ![r] = [pc |-> "stamped", key |-> k, now |-> clock]]
  /\ UNCHANGED <<clock, buckets, barred>>

Live(k, now) == now - buckets[k].start < Window

\* Fault: the purge drops the buckets that are still open.
KeptSwapped(now) ==
  IF Cardinality(DOMAIN buckets) >= MaxBuckets
    THEN {k \in DOMAIN buckets : ~ Live(k, now)}
    ELSE DOMAIN buckets

\* The keys left after the purge of a full map.
Kept(now) ==
  IF Cardinality(DOMAIN buckets) >= MaxBuckets
    THEN {k \in DOMAIN buckets : Live(k, now)}
    ELSE DOMAIN buckets

\* The bucket of k for a request stamped now, before it is counted.
Current(k, now) ==
  IF k \in Kept(now) /\ Live(k, now) THEN buckets[k]
                                     ELSE [start |-> now, count |-> 0]

\* The critical section.
Enter(r) ==
  LET k == req[r].key
      now == req[r].now
      b == Current(k, now)
      exceeded == b.count + 1 > Limit
  IN /\ req[r].pc = "stamped"
     /\ buckets' = [x \in Kept(now) \union {k} |->
                      IF x = k THEN [start |-> b.start, count |-> b.count + 1]
                               ELSE buckets[x]]
     /\ req' = [req EXCEPT ![r].pc = IF exceeded THEN "refused"
                                                 ELSE "admitted"]
     /\ barred' = IF exceeded THEN [barred EXCEPT ![k] = b.start + Window]
                              ELSE barred
     /\ UNCHANGED clock

LimitNext ==
  \/ Tick
  \/ \E r \in Requests : Enter(r) \/ \E k \in Keys : Stamp(r, k)

LimitSpec == LimitInit /\ [][LimitNext]_limitVars

----------------------------------------------------------------------------
\* A client that was refused is not let in again before its window is over,
\* neither by a request whose stamp is old nor by the purge of the map.
RefusedUntilWindowEnds ==
  [][\A r \in Requests :
       (req[r].pc # "admitted" /\ req'[r].pc = "admitted")
         => clock >= barred[req[r].key]]_limitVars

\* While a key is barred its bucket stays in the map, full: the inductive
\* strengthening of RefusedUntilWindowEnds.
BarredIsFull ==
  /\ \A r \in Requests : req[r].now <= clock
  /\ \A k \in Keys : barred[k] > clock =>
       /\ k \in DOMAIN buckets
       /\ buckets[k].start + Window = barred[k]
       /\ buckets[k].count > Limit
============================================================================
