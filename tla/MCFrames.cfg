CONSTANTS
  MAX_HEADER_LEN = 2
  MAX_BODY_LEN = 2
  Utf8 <- MCUtf8
  Origins <- MCOrigins
  Bags <- MCBags
  Values <- MCValues
  Wrong = {0, 1, 8, 255}
SPECIFICATION Spec
INVARIANTS ArrivesAsSent DamageIsSeen
CHECK_DEADLOCK FALSE
