\* Does register 0 report the relay when the LED refuses?
SPECIFICATION BreakerSpec
CONSTANTS
  Word = 65536
  MaxHandlers = 8
  Offered <- AppHandlers
  Requested = {0, 1, 2, 3}
  Values = {0, 1, 2, 247, 248}
  GpioMayFail = TRUE
INVARIANTS
  ReportFollowsRelay
CHECK_DEADLOCK FALSE
