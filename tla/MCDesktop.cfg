SPECIFICATION Spec
CONSTANTS
  MAX_WINDOWS = 3
  Notepad = notepad
  Calculator = notepad
  Sysinfo = notepad
  Look = {new}
  NewLook = new
  Position = {here, there}
  INPUT_QUEUE_SIZE = 3
  MaxIds = 4
INVARIANTS
  TypeOK
  FocusOnTop
  InteractionIsReal
  OwnState
  ListenersSeeButtons
PROPERTIES
  ZOrderStable
CHECK_DEADLOCK FALSE
