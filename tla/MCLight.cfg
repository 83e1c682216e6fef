CONSTANTS
  p1 = p1
  p2 = p2
  None = None
  Keys = {p1, p2}
  OnAir <- MCOnAir
  WashTimes = {0, 1}
  HoldTimes = {0, 1}
  WASH_MAX_HOLD = 3
  PULSE = 1
  FALLBACK_ENTER = 1
  FALLBACK_FADE_START = 2
  FALLBACK_ATTACK = 1
  FALLBACK_RELEASE = 1
  FALLBACK_FADE = 1
  FALLBACK_RECOVERY = 0
  DRAIN_LIMIT = 2
  MaxPending = 1
SPECIFICATION Spec
INVARIANTS TypeOK SyntheticOnlyInSilence
PROPERTIES DirectorsWashIsKept SilenceGoesDark LostEndIsSurvived
