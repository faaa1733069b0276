SPECIFICATION Spec
CONSTANTS
  MESSAGE_QUEUE_SIZE = 2
  Message = {m1}
  NoMessage = NoMessage
  Producer = {client}
  Consumer = server
  MaxCalls = 2
INVARIANT
  CountIsNumberOfMessages
CHECK_DEADLOCK FALSE
