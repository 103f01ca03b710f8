\* Two donations of one donor to one project race.
CONSTANTS
  p2 = p2
  u1 = u1
  Users = {u1}
  Projects = {p1}
  DonationReqs = {d1, d2}
  ReviewReqs = {}
  ProfileReqs = {}
  Target <- MCTarget
  OpeningProject <- MCOpeningProject
  OpeningTotal <- MCOpeningTotal
  Amounts = {2}
  MaxDecimal = 5
  MaxOpenConns = 2
  MaxRaised = 4
  MaxReviews = 0
SPECIFICATION Spec
INVARIANTS
  BooksBalance
