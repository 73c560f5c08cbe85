\* Does a registration report restart the dial script?
SPECIFICATION Spec
CONSTANTS
  Autostarts = FALSE
  HasPowerGpio = TRUE
  HasResetGpio = FALSE
  ResetOnResume = FALSE
  ResetOnRecovery = FALSE
  HoldResetOnSuspend = FALSE
  HasBaudScript = FALSE
  HasShutdownScript = TRUE
  UseDefaultPdp = FALSE
  UseDefaultApn = FALSE
  HasRing = FALSE
  UartConfigurable = TRUE
  PppAttachResults = {TRUE}
  PppAdminStates = {TRUE}
  EventPipeSize = 4
  Domains = {"lte"}
  Apns = {"onomondo"}
  InitialApn = "onomondo"
  MaxBacklog = 0
  PreemptsDispatch = FALSE
  MaxSuspends = 1
  MaxNoise = 2
INVARIANTS
  DialRestarts
CHECK_DEADLOCK FALSE
