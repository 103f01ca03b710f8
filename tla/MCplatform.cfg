\* Donations, reviews and profile updates race over one donor and two projects.
CONSTANTS
  p2 = p2
  u1 = u1
  Users = {u1}
  Projects = {p1, p2}
  DonationReqs = {d1, d2}
  ReviewReqs = {r1}
  ProfileReqs = {q1}
  Target <- MCTarget
  OpeningProject <- MCOpeningProject
  OpeningTotal <- MCOpeningTotal
  Amounts = {2}
  MaxDecimal = 5
  MaxOpenConns = 2
  MaxRaised = 4
  MaxReviews = 1
SPECIFICATION Spec
INVARIANTS
  TypeOK
  NoLeak
  NeverOverstated
  AcknowledgedIsRecorded
  PendingUntouched
  DisplayedWasApproved
  CompletedIsFunded
  AuditFollowsDecision
PROPERTIES
  NeverBackToPending
  FundedIsCompleted
