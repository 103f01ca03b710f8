\* Two donations over two open projects and two donors, fair scheduling.
CONSTANTS
  p2 = p2
  u1 = u1
  Users = {u1, u2}
  Projects = {p1, p3}
  DonationReqs = {d1, d2}
  ReviewReqs = {}
  ProfileReqs = {}
  Target <- MCTarget
  OpeningProject <- MCOpeningProject
  OpeningTotal <- MCOpeningTotal
  Amounts = {2}
  MaxDecimal = 3
  MaxOpenConns = 2
  MaxRaised = 2
  MaxReviews = 0
SPECIFICATION FairSpec
PROPERTIES
  EveryDonationAnswered
