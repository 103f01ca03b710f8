\* Half a yuan, given in pieces that round up, down, to a half and not at all.
CONSTANTS
  Target = 50
  Amounts = {4, 5, 9, 120, 125, 250}
  MaxDonations = 5
SPECIFICATION Spec
INVARIANTS
  DriftIsBounded
  AmountFitsStatus
\* A completed project takes no more donations.
CHECK_DEADLOCK FALSE
