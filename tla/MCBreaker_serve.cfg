\* Requests against boot, alarm and pin failures.
SPECIFICATION BreakerSpec
CONSTANTS
  Word = 65536
  MaxHandlers = 8
  Offered <- AppHandlers
  Requested = {0, 1, 2, 3}
  Values = {0, 1, 2, 247, 248}
  GpioMayFail = TRUE
INVARIANTS
  BreakerTypeOK
  ReportFollowsLed
  ReadBack
  AllRegistersServed
CHECK_DEADLOCK FALSE
