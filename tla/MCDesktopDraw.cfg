SPECIFICATION DrawSpec
CONSTANTS
  MAX_WINDOWS = 2
  Notepad = "notepad"
  Calculator = "calculator"
  Sysinfo = "calculator"
  Look = {new}
  NewLook = new
  Position = {here}
  INPUT_QUEUE_SIZE = 2
  TaskbarSlots = 1
  MaxIds = 2
INVARIANTS
  QuietScreenIsCurrent
PROPERTIES
  ScreenCatchesUp
CHECK_DEADLOCK FALSE
