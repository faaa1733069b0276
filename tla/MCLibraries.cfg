SPECIFICATION LibrariesSpec
CONSTANTS
  MESSAGE_QUEUE_SIZE = 3
  Message = {m1, m2}
  NoMessage = NoMessage
  MaxFrames = 6
  HEADER_SIZE = 5
  KHEAP_BLOCK_SIZE = 4
  KHEAP_MIN_BLOCK = 8
  KHEAP_MAGIC = 77
  Data = 99
  Modulus = 1024
  HeapStart = 8
  MaxWords = 44
  Sizes <- MCSizes
  Requests <- MCRequests
  Arrays <- MCArrays
INVARIANTS
  QueueTypeOK
  RingAgrees
  TypeOK
  CountersAgree
  BitmapIsOwnership
  NoFalseExhaustion
  ScanIsFirstFit
  HeapTypeOK
PROPERTIES
  ImplementsFifo
  GrantsAreFresh
  ImplementsAllocator
  OnlyShrinkingBreaksIntegrity
CHECK_DEADLOCK FALSE
