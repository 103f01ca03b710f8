\* Donations, a review per project and profile updates overlap, and no row is
\* saved that has changed since it was read.
CONSTANTS
  p2 = p2
  u1 = u1
  Users = {u1}
  Projects = {p1, p2}
  DonationReqs = {d1, d2}
  ReviewReqs = {r1}
  ProfileReqs = {q1}
  Target <- MCTarget
  OpeningProject <- MCOpeningProject
  OpeningTotal <- MCOpeningTotal
  Amounts = {1}
  MaxDecimal = 5
  MaxOpenConns = 2
  MaxRaised = 3
  MaxReviews = 1
SPECIFICATION FreshSpec
INVARIANTS
  BooksBalance
PROPERTIES
  DonationsAreAtomic
