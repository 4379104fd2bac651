\* Every operation and thread function; two threads of the host.
SPECIFICATION Spec
CONSTANTS
  Chunks = 2
  MramSize = 64
  NumThreads = 2
  Calls <- MCCalls
INVARIANTS
  TypeOK
  NoStepRace
  ElementsAligned
  NothingElseWritten
PROPERTIES
  KeepsPromise
