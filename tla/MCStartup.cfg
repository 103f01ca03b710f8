\* Two retries, three demo rows, two requests in flight, two ticks of waiting,
\* up to two administrators, three faults.
CONSTANTS
  RetryCount = 2
  Demo = 3
  Handlers = {h1, h2}
  Grace = 2
  MaxAdmins = 2
  MaxFaults = 3
SPECIFICATION FairSpec
INVARIANTS
  ServingHasAdmin
  ReferencesExist
PROPERTIES
  GracefulStop
  StopEnds
  EventuallyServes
