------------------------------- MODULE Store -------------------------------
(***************************************************************************)
(* The MySQL database behind the GiveTrack backend, as its services use it *)
(* through GORM: the columns of the projects, users and donations tables   *)
(* that carry money and status, the InnoDB row locks of open transactions, *)
(* and the connection pool of database/sql.                                *)
(*                                                                         *)
(* The isolation level is the default (the DSN sets none): REPEATABLE      *)
(* READ.  A transaction reads from the snapshot of its first SELECT, its   *)
(* own writes become visible to others only at COMMIT, and until then it   *)
(* holds an exclusive lock on every row it updated and, because of the     *)
(* foreign keys AutoMigrate creates, a shared lock on the parent rows of   *)
(* every row it inserted.  A statement outside a transaction takes its     *)
(* connection and its lock for the statement only, so it needs both to be  *)
(* free and leaves nothing behind.                                         *)
(*                                                                         *)
(* Amounts are whole yuan, what the site's dialog offers: sums of them are *)
(* exact in float64 and in decimal(14,2).  Fractions are in module Cents.  *)
(* The donated sums are those of the rows inserted since the opening       *)
(* balance, as the donations of Seed do not add up to its totals.          *)
(***************************************************************************)
EXTENDS Integers, FiniteSets

CONSTANTS
  Users,           \* ids in table users
  Projects,        \* ids in table projects
  DonationReqs,    \* the requests that open a transaction (POST /donations)
  Target,          \* column target_amount, never updated
  OpeningProject,  \* the project rows the database starts with
  OpeningTotal,    \* users.total_donation the database starts with
  MaxDecimal,      \* the largest value decimal(14,2) holds
  MaxOpenConns     \* DB_MAX_OPEN_CONNS

ProjectStatus == {"pending", "approved", "rejected", "completed"}
ProjectRow == [status : ProjectStatus, current : Nat]

\* A project row whose status agrees with the money raised for it.
Consistent(p, row) ==
  /\ row.status = "pending" => row.current = 0
  /\ row.status = "approved" => row.current < Target[p]
  /\ row.status = "completed" => row.current >= Target[p]

ASSUME StoreAssumption ==
  /\ Target \in [Projects -> Nat \ {0}]
  /\ OpeningProject \in [Projects -> ProjectRow]
  /\ OpeningTotal \in [Users -> Nat]
  /\ \A p \in Projects : Consistent(p, OpeningProject[p])
  /\ MaxDecimal \in Nat
  /\ MaxOpenConns \in Nat \ {0}
  /\ IsFiniteSet(DonationReqs)

VARIABLES
  project,    \* table projects: status and current_amount of each row
  total,      \* table users: total_donation of each row
  byProject,  \* SELECT project_id, SUM(amount) FROM donations (new rows)
  byUser,     \* SELECT user_id, SUM(amount) FROM donations (new rows)
  locks,      \* row locks held by open transactions
  conns       \* requests that hold a connection of the pool

tableVars == <<project, total, byProject, byUser>>
storeVars == <<project, total, byProject, byUser, locks, conns>>

----------------------------------------------------------------------------
LockedRow == ({"projects"} \X Projects) \union ({"users"} \X Users)
RowLock == [row : LockedRow, mode : {"S", "X"}, owner : DonationReqs]

\* Compatibility of InnoDB row locks: shared with shared, nothing else.
CanLock(req, row, mode) ==
  \A l \in locks :
    (l.row = row /\ l.owner # req) => (mode = "S" /\ l.mode = "S")

Holding(req, mode, rows) ==
  {[row |-> r, mode |-> mode, owner |-> req] : r \in rows}

\* An update outside a transaction waits until no transaction has the row.
RowFree(row) == \A l \in locks : l.row # row

ConnFree == Cardinality(conns) < MaxOpenConns

\* COMMIT and ROLLBACK both end the transaction of req.
EndTx(req) ==
  /\ locks' = {l \in locks : l.owner # req}
  /\ conns' = conns \ {req}

----------------------------------------------------------------------------
StoreTypeOK ==
  /\ project \in [Projects -> ProjectRow]
  /\ total \in [Users -> Nat]
  /\ byProject \in [Projects -> Nat]
  /\ byUser \in [Users -> Nat]
  /\ locks \subseteq RowLock
  /\ conns \subseteq DonationReqs

StoreInit ==
  /\ project = OpeningProject
  /\ total = OpeningTotal
  /\ byProject = [p \in Projects |-> 0]
  /\ byUser = [u \in Users |-> 0]
  /\ locks = {}
  /\ conns = {}
============================================================================
