\* Every launch of MCLaunches, blocks of two chunks.
SPECIFICATION Spec
CONSTANTS
  Chunks = 2
  MramSize = 48
  Launches <- MCLaunches
INVARIANTS
  TypeOK
  SourceIntact
  RelocationDone
  CacheAllocated
  PhasesApart
PROPERTIES
  Termination
