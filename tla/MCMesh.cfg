CONSTANTS
  a = a
  b = b
  d = d
  Badges = {a, b}
  Director = d
  Keys <- MCKeys
  Unsequenced = {}
  MAX_HOP_COUNT = 2
  PEER_WATCH = 1
  CANDIDATE_FRAMES <- MCCandidateFrames
  COOLDOWN_FRAMES <- MCCooldownFrames
  COOLDOWN_PEER_STOPPED_FRAMES = 3
  TX_RING_SIZE = 1
  WATCH_RING_SIZE = 2
  RECENT_HOP_MEMORY_SIZE = 1
  ACTIVE_IDLE_TIMEOUT = 3
  CAPACITY = 1
  REDUNDANCY = 2
  Topologies <- MCTopologies
  MaxMoves = 1
SPECIFICATION Spec
INVARIANTS
  VacancyIsShort
  DoubleDutyIsShort
