\* A board with every optional part: reset line held on suspend and pulsed
\* on recovery, ring line, baudrate script; PPP may refuse to attach and the
\* interface may be taken down.
SPECIFICATION Spec
CONSTANTS
  Autostarts = FALSE
  HasPowerGpio = TRUE
  HasResetGpio = TRUE
  ResetOnResume = TRUE
  ResetOnRecovery = TRUE
  HoldResetOnSuspend = TRUE
  HasBaudScript = TRUE
  HasShutdownScript = TRUE
  UseDefaultPdp = FALSE
  UseDefaultApn = FALSE
  HasRing = TRUE
  UartConfigurable = TRUE
  PppAttachResults = {TRUE, FALSE}
  PppAdminStates = {TRUE, FALSE}
  EventPipeSize = 4
  Domains = {"lte"}
  Apns = {"onomondo"}
  InitialApn = "onomondo"
  MaxBacklog = 0
  PreemptsDispatch = FALSE
  MaxSuspends = 1
  MaxNoise = 1
INVARIANTS
  PinsFollowState
  TokenMeansIdle
  TimerStopsWithState
PROPERTIES
  ApnBeforeDial
CHECK_DEADLOCK FALSE
