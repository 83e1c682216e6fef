CONSTANTS
  show = show
  hobby = hobby
  BROADCAST = BROADCAST
  None = None
  Sources = {show, hobby}
  PerformanceRange = {show}
  Channels = {1, 11}
  PERFORMANCE_CHANNEL = 11
  TIMEOUT = 1
  OnAir <- MCOnAir
  SCAN_ORDER <- MCScanOrder
  Pins = {1, 11}
  DIRECTOR_CHANNEL = 1
  MaxPending = 2
SPECIFICATION Spec
INVARIANTS TypeOK DirectorOnItsChannel TaskSurvives
PROPERTIES RadioGivenBack ModeServed
