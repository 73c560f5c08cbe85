\* Every order of registering ranges of a five-value word in three slots.
SPECIFICATION MapSpec
CONSTANTS
  Word = 5
  MaxHandlers = 3
  Offered <- AllRanges
INVARIANTS
  MapTypeOK
  OneOwner
  ServesItsClaim
  RefusedForCause
CHECK_DEADLOCK FALSE
