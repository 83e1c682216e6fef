CONSTANTS
  k1 = k1
  k0 = k0
  Keys = {k1, k0}
  Unsequenced = {k0}
  MAX_HOP_COUNT = 2
  PEER_WATCH = 1
  CANDIDATE_FRAMES <- MCCandidateFrames
  COOLDOWN_FRAMES <- MCCooldownFrames
  COOLDOWN_PEER_STOPPED_FRAMES = 3
  TX_RING_SIZE = 1
  WATCH_RING_SIZE = 2
  RECENT_HOP_MEMORY_SIZE = 1
  ACTIVE_IDLE_TIMEOUT = 2
SPECIFICATION RepeaterSpec
PROPERTIES IdleRoleStepsDown WindowsClose
