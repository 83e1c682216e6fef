CONSTANTS
  perf1 = perf1
  perf2 = perf2
  community = community
  BROADCAST = BROADCAST
  None = None
  Sources = {perf1, perf2, community, BROADCAST}
  PerformanceRange = {perf1, perf2}
  Channels = {1, 11}
  PERFORMANCE_CHANNEL = 11
  TIMEOUT = 3
SPECIFICATION LockSpec
INVARIANT SilenceIsTheDirectors
PROPERTIES NoHijack SilentDirectorIsReleased
