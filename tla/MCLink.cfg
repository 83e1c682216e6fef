CONSTANTS
  D = D
  BROADCAST = BROADCAST
  None = None
  Keys <- MCKeys
  Unsequenced = {0}
  CAPACITY = 2
  MaxFresh = 6
  SEQ_MAX = 5
  REDUNDANCY = 3
  INTERVAL = 2
  Director = D
  Sources = {D}
  PerformanceRange = {}
  Channels = {1, 11}
  PERFORMANCE_CHANNEL = 11
  CHANNEL = 1
  TIMEOUT = 5
  BURST = 2
  LOSSES = 1
  MaxFrames = 6
  MaxRestarts = 1
SPECIFICATION Spec
INVARIANTS TypeOK RingIsWindow RepeatsAreFarApart RestartLosesFew HeardOften
PROPERTIES EffectsAtMostOnce
