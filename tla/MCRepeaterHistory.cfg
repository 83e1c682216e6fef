CONSTANTS
  k1 = k1
  k2 = k2
  Keys = {k1, k2}
  Unsequenced = {}
  MAX_HOP_COUNT = 3
  PEER_WATCH = 1
  CANDIDATE_FRAMES <- MCCandidateFrames
  COOLDOWN_FRAMES <- MCCooldownFrames
  COOLDOWN_PEER_STOPPED_FRAMES = 3
  TX_RING_SIZE = 1
  WATCH_RING_SIZE = 2
  RECENT_HOP_MEMORY_SIZE = 2
  ACTIVE_IDLE_TIMEOUT = 1
SPECIFICATION HSpec
SYMMETRY KeySymmetry
INVARIANTS RepeaterTypeOK WatchAtLowestHop GateFollowsRole WindowStillOpen
PROPERTIES EdgeRuleInOrder
