\* Two registration reports, two status values; any number of sessions.
SPECIFICATION AppSpec
CONSTANTS
  Statuses = {"not registered", "home"}
  MaxReports = 2
INVARIANTS
  AppTypeOK
  BroughtUpInOrder
  IdentityBeforeDial
  IdentityIsTheModems
PROPERTIES
  ChangesAreShown
CHECK_DEADLOCK FALSE
