\* The board of the overlay: power GPIO only, interrupt-driven UART,
\* cooperative work queue.
SPECIFICATION FairSpec
CONSTANTS
  Autostarts = FALSE
  HasPowerGpio = TRUE
  HasResetGpio = FALSE
  ResetOnResume = FALSE
  ResetOnRecovery = FALSE
  HoldResetOnSuspend = FALSE
  HasBaudScript = FALSE
  HasShutdownScript = TRUE
  UseDefaultPdp = FALSE
  UseDefaultApn = FALSE
  HasRing = FALSE
  UartConfigurable = TRUE
  PppAttachResults = {TRUE}
  PppAdminStates = {TRUE}
  EventPipeSize = 4
  Domains = {"lte"}
  Apns = {"onomondo"}
  InitialApn = "onomondo"
  MaxBacklog = 0
  PreemptsDispatch = FALSE
  MaxSuspends = 1
  MaxNoise = 2
INVARIANTS
  TypeOK
  IdleQuiescent
  InterfaceFollowsState
  PppOwnsDlci1
  NeverStalls
  DormantIsRedialled
  MuxOwnsBus
PROPERTIES
  InitBeforeMux
  PowerOffIsFinal
  RecoveryRestarts
  PowerOffCompletes
  InitEnds
  SuspendHonoured
CHECK_DEADLOCK FALSE
