\* Application threads preempt the dispatch loop, bus requests finish late and
\* the event pipe is short; no shutdown script, no power GPIO, no APN compiled in.
SPECIFICATION Spec
CONSTANTS
  Autostarts = FALSE
  HasPowerGpio = FALSE
  HasResetGpio = FALSE
  ResetOnResume = FALSE
  ResetOnRecovery = FALSE
  HoldResetOnSuspend = FALSE
  HasBaudScript = FALSE
  HasShutdownScript = FALSE
  UseDefaultPdp = FALSE
  UseDefaultApn = FALSE
  HasRing = FALSE
  UartConfigurable = TRUE
  PppAttachResults = {TRUE}
  PppAdminStates = {TRUE}
  EventPipeSize = 2
  Domains = {"lte"}
  Apns = {"a", "b"}
  InitialApn = "none"
  MaxBacklog = 1
  PreemptsDispatch = TRUE
  MaxSuspends = 2
  MaxNoise = 2
INVARIANTS
  SuspendSticks
  ParkedApnIsWoken
  ApnScriptIsCurrent
PROPERTIES
  ImplementsPower
  SuspendIsTruthful
CHECK_DEADLOCK FALSE
