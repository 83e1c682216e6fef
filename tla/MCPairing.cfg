CONSTANTS
  GROUP_CYCLE <- MCGroupCycle
  FirstGroups = {1}
  PhoneGroups = {1, 200}
  PhoneWindows = {0, 2}
  MIN_WINDOW = 1
  DEFAULT_WINDOW = 2
  Unreadable = Unreadable
  FLASH = 1
  MAX_AGE = 2
  None = None
SPECIFICATION Spec
INVARIANTS TypeOK CommitIsKept
PROPERTIES ScreenCloses
