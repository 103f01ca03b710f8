\* Two filters with up to two pages of two projects; two loads that cross,
\* one submission at a time, one change of the tables.
CONSTANTS
  All = all
  education = education
  Categories <- MCCategories
  OpeningCount <- MCOpeningCount
  Limit = 2
  Counts = {2, 3}
  MaxLoads = 2
  MaxPosts = 1
  MaxClock = 2
  Roles = {"org", "admin"}
SPECIFICATION FairSpec
INVARIANTS
  TypeOK
  NeverOlderThanOpening
  PageIsCurrent
  PagesOffered
PROPERTIES
  LoadingEnds
