\* Four tasklets; programs with every call of the library.
SPECIFICATION Spec
CONSTANTS
  NumTasklets = 4
  all = all
  left = left
  right = right
  pool = pool
  items = items
  guard = guard
  Barriers = {all, left, right}
  Sems = {pool, items}
  Mutexes = {guard}
  Size <- MCSize
  Initial <- MCInitial
  Programs <- MCPrograms
INVARIANTS
  TypeOK
  InsideAlone
  QueuesIntact
  CountsAgree
PROPERTIES
  KeepsPromise
