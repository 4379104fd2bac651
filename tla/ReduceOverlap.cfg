\* Reduce along an x axis of two entangled groups, blocks of two packets.
SPECIFICATION Spec
CONSTANTS
  Chunks = 2
  MramSize = 64
  NumThreads = 2
  Calls <- WideReduceCalls
INVARIANT
  NothingLost
