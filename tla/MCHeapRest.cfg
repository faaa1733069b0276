SPECIFICATION HeapSpec
CONSTANTS
  HEADER_SIZE = 5
  KHEAP_BLOCK_SIZE = 4
  KHEAP_MIN_BLOCK = 8
  KHEAP_MAGIC = 77
  Data = 99
  Modulus = 1024
  HeapStart = 8
  MaxWords = 44
  Sizes <- MCSizes
  Requests <- MCRequests
  Arrays <- MCArrays
PROPERTY RestsAreFree
CHECK_DEADLOCK FALSE
