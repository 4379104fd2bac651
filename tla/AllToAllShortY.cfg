\* pidcomm_alltoall along the y axis, x axis of length 4.
SPECIFICATION Spec
CONSTANTS
  Chunks = 1
  MramSize = 32
  NumThreads = 2
  Calls <- ShortYCalls
INVARIANTS
  Delivered
