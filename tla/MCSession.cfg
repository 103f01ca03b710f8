\* Two accounts, two tabs, two requests whose answers overtake each other.
CONSTANTS
  Accounts = {a1, a2}
  Tabs = {t1, t2}
  None = None
  MaxCalls = 2
SPECIFICATION Spec
INVARIANTS
  TypeOK
  OnlyEntered
  OneTabConsistent
PROPERTIES
  GoneStaysGone
