---------------------------- MODULE CentsProofs ----------------------------
(***************************************************************************)
(* Proofs about Cents: rounding the record and the total apart costs at    *)
(* most the half cents, for every target and all amounts.                  *)
(***************************************************************************)
EXTENDS Cents, TLAPS

\* Rounding a sum of whole cents and mills is rounding the mills.
LEMMA RoundedSum ==
  ASSUME NEW old \in Nat, NEW amount \in Nat
  PROVE /\ Rounded(10 * old + amount) = old + Rounded(amount)
        /\ Rounded(amount) \in Nat
        /\ (10 * old + amount) % 10 = amount % 10
BY DEF Rounded

\* What the column may hold after an addition.
LEMMA SumsRange ==
  ASSUME NEW old \in Nat, NEW amount \in Nat, NEW new \in Sums(old, amount)
  PROVE /\ new \in Nat
        /\ 10 * new <= 10 * old + amount + 5
        /\ 10 * new >= 10 * old + amount - 5
        /\ new <= old + Rounded(amount)
        /\ new >= old + Rounded(amount) - 1
        /\ amount % 10 # 5 => new = old + Rounded(amount)
<1>1. /\ Rounded(10 * old + amount) = old + Rounded(amount)
      /\ Rounded(amount) \in Nat
      /\ (10 * old + amount) % 10 = amount % 10
  BY RoundedSum
<1>2. \/ new = old + Rounded(amount)
      \/ amount % 10 = 5 /\ new = old + Rounded(amount) - 1
  <2>1. CASE amount % 10 = 5 /\ ~ (Exact(10 * old) /\ Exact(amount))
    BY <1>1, <2>1 DEF Sums
  <2>2. CASE ~ (amount % 10 = 5 /\ ~ (Exact(10 * old) /\ Exact(amount)))
    BY <1>1, <2>2 DEF Sums
  <2> QED BY <2>1, <2>2
<1>3. /\ 10 * Rounded(amount) <= amount + 5
      /\ 10 * Rounded(amount) >= amount - 4
  BY DEF Rounded
<1>4. amount % 10 = 5 => /\ 10 * Rounded(amount) = amount + 5
                         /\ Rounded(amount) >= 1
  BY DEF Rounded
<1>5. CASE new = old + Rounded(amount)
  <2> QED BY <1>1, <1>3, <1>5
<1>6. CASE amount % 10 = 5 /\ new = old + Rounded(amount) - 1
  <2> DEFINE r == Rounded(amount)
  <2>1. r \in Nat /\ r >= 1 /\ 10 * r = amount + 5 /\ new = old + r - 1
    BY <1>1, <1>4, <1>6
  <2> HIDE DEF r
  <2>2. /\ new \in Nat
        /\ 10 * new <= 10 * old + amount + 5
        /\ 10 * new >= 10 * old + amount - 5
        /\ new <= old + r
        /\ new >= old + r - 1
    BY <2>1
  <2> QED BY <1>6, <2>2 DEF r
<1> QED BY <1>2, <1>5, <1>6

\* What the status may be after an addition.
LEMMA StatusesRange ==
  ASSUME NEW old \in Nat, NEW amount \in Nat, NEW new \in Statuses(old, amount)
  PROVE /\ new \in {"approved", "completed"}
        /\ new = "completed" => 10 * old + amount >= 10 * Target
        /\ new = "approved" => 10 * old + amount <= 10 * Target
<1> DEFINE sum == 10 * old + amount
<1>1. sum \in Nat /\ Target \in Nat BY CentsAssumption
<1>2. \/ sum = 10 * Target /\ new \in {"approved", "completed"}
      \/ new \in StatusOf(sum >= 10 * Target)
  BY DEF Statuses
<1>3. CASE sum = 10 * Target /\ new \in {"approved", "completed"}
  BY <1>1, <1>3
<1>4. CASE new \in StatusOf(sum >= 10 * Target)
  <2>1. CASE sum >= 10 * Target BY <1>1, <1>4, <2>1 DEF StatusOf
  <2>2. CASE ~ (sum >= 10 * Target) BY <1>1, <1>4, <2>2 DEF StatusOf
  <2> QED BY <2>1, <2>2
<1> QED BY <1>2, <1>3, <1>4

IInv == TypeOK /\ DriftIsBounded

LEMMA InitIInv == Init => IInv
BY DEF Init, IInv, TypeOK, DriftIsBounded

LEMMA NextIInv == IInv /\ [Next]_vars => IInv'
<1> SUFFICES ASSUME IInv, [Next]_vars PROVE IInv'
  OBVIOUS
<1>1. ASSUME NEW amount \in Amounts, Donate(amount) PROVE IInv'
  <2>1. amount \in Nat BY CentsAssumption
  <2>2. current \in Nat /\ recorded \in Nat /\ halves \in Nat
        /\ donations \in Nat /\ recorded - halves <= current
        /\ current <= recorded
    BY DEF IInv, TypeOK, DriftIsBounded
  <2>3. /\ recorded' = recorded + Rounded(amount)
        /\ current' \in Sums(current, amount)
        /\ halves' = IF amount % 10 = 5 THEN halves + 1 ELSE halves
    BY <1>1 DEF Donate
  <2>4. /\ current' \in Nat
        /\ current' <= current + Rounded(amount)
        /\ current' >= current + Rounded(amount) - 1
        /\ amount % 10 # 5 => current' = current + Rounded(amount)
    BY <2>1, <2>2, <2>3, SumsRange
  <2>5. Rounded(amount) \in Nat BY <2>1, RoundedSum
  <2>6. DriftIsBounded'
    <3>1. CASE amount % 10 = 5
      BY <2>2, <2>3, <2>4, <2>5, <3>1 DEF DriftIsBounded
    <3>2. CASE amount % 10 # 5
      BY <2>2, <2>3, <2>4, <2>5, <3>2 DEF DriftIsBounded
    <3> QED BY <3>1, <3>2
  <2>7. status' \in {"approved", "completed"} /\ donations' \in Nat
    BY <1>1, <2>1, <2>2, StatusesRange DEF Donate
  <2> QED BY <2>2, <2>3, <2>4, <2>5, <2>6, <2>7 DEF IInv, TypeOK
<1>2. CASE UNCHANGED vars
  BY <1>2 DEF vars, IInv, TypeOK, DriftIsBounded
<1> QED BY <1>1, <1>2 DEF Next

LEMMA Invariant == Spec => []IInv
BY InitIInv, NextIInv, PTL DEF Spec

\* A total and the records it sums differ by the lost half cents only.
THEOREM DriftOnlyFromHalves == Spec => []DriftIsBounded
<1>1. IInv => DriftIsBounded BY DEF IInv
<1> QED BY <1>1, Invariant, PTL

\* Rounding to cents does not cross a target in whole cents.
LEMMA RoundingKeepsOrder ==
  ASSUME NEW new \in Nat, NEW old \in Nat, NEW amount \in Nat,
         NEW target \in Nat,
         10 * new <= 10 * old + amount + 5,
         10 * new >= 10 * old + amount - 5
  PROVE /\ 10 * old + amount >= 10 * target => new >= target
        /\ 10 * old + amount <= 10 * target => new <= target
OBVIOUS

LEMMA NextFits == IInv /\ AmountFitsStatus /\ [Next]_vars => AmountFitsStatus'
<1> SUFFICES ASSUME IInv, AmountFitsStatus, [Next]_vars PROVE AmountFitsStatus'
  OBVIOUS
<1>1. ASSUME NEW amount \in Amounts, Donate(amount) PROVE AmountFitsStatus'
  <2>1. amount \in Nat /\ current \in Nat /\ Target \in Nat
    BY CentsAssumption DEF IInv, TypeOK
  <2>2. status' \in Statuses(current, amount) /\ current' \in Sums(current, amount)
    BY <1>1 DEF Donate
  <2>3. /\ current' \in Nat
        /\ 10 * current' <= 10 * current + amount + 5
        /\ 10 * current' >= 10 * current + amount - 5
    BY <2>1, <2>2, SumsRange
  <2>4. /\ status' = "completed" => 10 * current + amount >= 10 * Target
        /\ status' = "approved" => 10 * current + amount <= 10 * Target
    BY <2>1, <2>2, StatusesRange
  <2>5. /\ 10 * current + amount >= 10 * Target => current' >= Target
        /\ 10 * current + amount <= 10 * Target => current' <= Target
    BY <2>1, <2>3, RoundingKeepsOrder
  <2> QED
    BY <2>4, <2>5 DEF AmountFitsStatus
<1>2. CASE UNCHANGED vars
  BY <1>2 DEF vars, AmountFitsStatus
<1> QED BY <1>1, <1>2 DEF Next

\* An open project never shows more than its target, a completed one never
\* less.
THEOREM StatusFitsAmount == Spec => []AmountFitsStatus
<1>1. Init => AmountFitsStatus
  BY CentsAssumption DEF Init, AmountFitsStatus
<1> QED BY <1>1, NextFits, Invariant, PTL DEF Spec
============================================================================
