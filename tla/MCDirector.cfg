CONSTANTS
  conductor = conductor
  simple_tap = simple_tap
  NoShow = NoShow
  Shows = {conductor, simple_tap}
  Conductor = conductor
  FirstShow = conductor
  MAX_GROUP = 2
  GROUP_STEP = 1
  NavButtons = {"up", "down", "right"}
  LONG_PRESS = 1
  MaxHeld = 2
SPECIFICATION Spec
INVARIANTS TypeOK WashFollowsShow
PROPERTIES PressActsOnce
