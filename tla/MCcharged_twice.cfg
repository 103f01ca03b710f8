\* As MCCheckout.cfg; what the alert of a failed donation says.
CONSTANTS
  Projects = {p1, p2}
  None = None
  Me = me
  Other = other
  Amounts = {1}
  Target <- MCTarget
  OpeningProject <- MCOpeningProject
  OpeningTotal <- MCOpeningTotal
  MaxLoads = 2
  MaxSubmits = 2
  MaxOther = 1
SPECIFICATION Spec
INVARIANTS
  FailureMeansNotRecorded
