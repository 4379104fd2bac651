\* Calls the shapes of which the library serves; two threads of the host.
SPECIFICATION Spec
CONSTANTS
  Chunks = 1
  MramSize = 32
  NumThreads = 2
  Calls <- MCCalls
INVARIANTS
  TypeOK
  NoBurstRace
  MeantForHolder
PROPERTIES
  KeepsPromise
