CONSTANTS
  k1 = k1
  x1 = x1
  us = us
  them = them
  BROADCAST = BROADCAST
  None = None
  Keys = {k1, x1}
  Unsequenced = {}
  OnAir <- TwoDirectors
  SourceOf <- MCSourceOf
  Pulses = {k1, x1}
  RECEIVE_CHANNEL = 1
  REPEAT = "AUTO"
  DRAIN_LIMIT = 2
  MaxInFlight = 2
  MAX_HOP_COUNT = 1
  PEER_WATCH = 1
  CANDIDATE_FRAMES <- MCCandidateFrames
  COOLDOWN_FRAMES <- MCCooldownFrames
  COOLDOWN_PEER_STOPPED_FRAMES = 3
  TX_RING_SIZE = 2
  WATCH_RING_SIZE = 2
  RECENT_HOP_MEMORY_SIZE = 2
  ACTIVE_IDLE_TIMEOUT = 2
  CAPACITY = 3
  Sources = {us, them}
  PerformanceRange = {us}
  Channels = {1, 11}
  PERFORMANCE_CHANNEL = 11
  TIMEOUT = 1
SPECIFICATION Spec
INVARIANTS TypeOK WatchesFollowLock EveryFreshPulseIsPainted LoopRendersOnce
