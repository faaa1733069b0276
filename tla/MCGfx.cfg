SPECIFICATION Spec
CONSTANTS
  MESSAGE_QUEUE_SIZE = 2
  Message <- GfxMessage
  NoMessage = NoMessage
  Process <- MCProcess
  GFX_MAX_WINDOWS = 2
  MaxWindowId = 2
INVARIANT ReturnedIdIsAWindow
