\* Two requests to register, two overlapping reviews of each organization, a publication.
CONSTANTS
  Accounts = {a1, a2}
  Names = {n1, n2}
  Emails = {e1, e2}
  Projects = {p1}
  Reviews = {r1, r2}
  MaxReviews = 2
SPECIFICATION Spec
INVARIANTS
  TypeOK
  UniqueAccounts
  RefusedIsTaken
  ToldOrganizationExists
  PublishedAfterApproval
  AuditFollowsDecision
PROPERTIES
  NeverBackToPending
