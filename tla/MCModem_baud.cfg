\* Does a reset pulse revert the baudrate?
SPECIFICATION Spec
CONSTANTS
  Autostarts = FALSE
  HasPowerGpio = TRUE
  HasResetGpio = TRUE
  ResetOnResume = FALSE
  ResetOnRecovery = TRUE
  HoldResetOnSuspend = FALSE
  HasBaudScript = TRUE
  HasShutdownScript = TRUE
  UseDefaultPdp = FALSE
  UseDefaultApn = FALSE
  HasRing = FALSE
  UartConfigurable = TRUE
  PppAttachResults = {TRUE}
  PppAdminStates = {TRUE}
  EventPipeSize = 4
  Domains = {"lte"}
  Apns = {"onomondo"}
  InitialApn = "onomondo"
  MaxBacklog = 0
  PreemptsDispatch = FALSE
  MaxSuspends = 1
  MaxNoise = 0
INVARIANTS
  ResetRevertsBaudrate
CHECK_DEADLOCK FALSE
