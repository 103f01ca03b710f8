\* Two projects that lack 2, two donations, and one of others.
CONSTANTS
  Projects = {p1, p2}
  None = None
  Me = me
  Other = other
  Amounts = {1}
  Target <- MCTarget
  OpeningProject <- MCOpeningProject
  OpeningTotal <- MCOpeningTotal
  MaxLoads = 2
  MaxSubmits = 2
  MaxOther = 1
SPECIFICATION FairSpec
INVARIANTS
  ToldWithinBooks
  OneAtATime
PROPERTIES
  SubmitSettles
