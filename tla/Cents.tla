------------------------------- MODULE Cents -------------------------------
(***************************************************************************)
(* The arithmetic of DonationService.Create below one yuan.  The service   *)
(* adds and compares float64, the columns are decimal(14,2): MySQL rounds  *)
(* the amount of the record and the new total each for itself, half up     *)
(* (it converts the shortest decimal that denotes the float).              *)
(*                                                                         *)
(* Amounts are in mills, thousandths of a yuan: the site's dialog offers   *)
(* whole yuan, the API takes any positive number.  Columns are in cents.   *)
(* A float holds a number of mills exactly when it is a multiple of an     *)
(* eighth of a yuan.  Otherwise the last bit of a sum                      *)
(* is off one way or the other, which shows in two places only: a sum that *)
(* should end in half a cent may be rounded down, and a sum that should    *)
(* equal the target may fail the comparison.                               *)
(*                                                                         *)
(* One project (or, without the target, one donor) and donations one at a  *)
(* time.                                                                   *)
(***************************************************************************)
EXTENDS Integers

CONSTANTS
  Target,       \* target_amount, cents
  Amounts,      \* what requests carry, mills
  MaxDonations  \* bound

ASSUME CentsAssumption ==
  /\ Target \in Nat \ {0}
  /\ Amounts \subseteq Nat \ {0}
  /\ MaxDonations \in Nat

VARIABLES
  status,    \* "approved" or "completed"
  current,   \* current_amount, cents
  recorded,  \* the sum of the amounts of the records, cents
  halves,    \* history: the donations that ended in half a cent
  donations  \* bound

vars == <<status, current, recorded, halves, donations>>

----------------------------------------------------------------------------
\* Mills whose float is exact: multiples of an eighth of a yuan.
Exact(mills) == mills % 125 = 0

\* The column's value for a float that denotes mills, half up.
Rounded(mills) == (mills + 5) \div 10

\* Fault: the total is cut to whole cents.
SumsTruncated(old, amount) == {(10 * old + amount) \div 10}

\* The column's values for a computed sum of old (cents) and amount (mills).
Sums(old, amount) ==
  LET sum == 10 * old + amount
  IN IF sum % 10 = 5 /\ ~ (Exact(10 * old) /\ Exact(amount))
       THEN {Rounded(sum), Rounded(sum) - 1}
       ELSE {Rounded(sum)}

StatusOf(reached) == IF reached THEN {"completed"} ELSE {"approved"}

\* Fault: the amount is counted twice.
StatusesTwice(old, amount) == StatusOf(10 * old + 2 * amount >= 10 * Target)

\* The status after the addition: completed if CurrentAmount >= TargetAmount.
Statuses(old, amount) ==
  LET sum == 10 * old + amount
  IN IF sum = 10 * Target /\ ~ (Exact(10 * old) /\ Exact(amount))
       THEN {"approved", "completed"}
       ELSE StatusOf(sum >= 10 * Target)

----------------------------------------------------------------------------
TypeOK ==
  /\ status \in {"approved", "completed"}
  /\ current \in Nat
  /\ recorded \in Nat
  /\ halves \in Nat
  /\ donations \in Nat

Init ==
  /\ status = "approved"
  /\ current = 0
  /\ recorded = 0
  /\ halves = 0
  /\ donations = 0

Donate(amount) ==
  /\ status = "approved"
  /\ donations < MaxDonations
  /\ donations' = donations + 1
  /\ recorded' = recorded + Rounded(amount)
  /\ current' \in Sums(current, amount)
  /\ status' \in Statuses(current, amount)
  /\ halves' = IF amount % 10 = 5 THEN halves + 1 ELSE halves

Next == \E amount \in Amounts : Donate(amount)

Spec == Init /\ [][Next]_vars

----------------------------------------------------------------------------
\* The total never exceeds the records, and falls short of them by at most
\* one cent for every donation that ended in half a cent.
DriftIsBounded == current \in (recorded - halves) .. recorded

\* A project that still takes donations shows at most its target, a completed
\* one at least: neither the comparison of unrounded floats nor the rounding
\* of the column takes status and amount a cent apart.
AmountFitsStatus ==
  /\ status = "approved" => current <= Target
  /\ status = "completed" => current >= Target
============================================================================
