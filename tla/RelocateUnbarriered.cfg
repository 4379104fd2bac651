\* pidcomm_all_reduce, y axis, x axis of length 4.
SPECIFICATION Spec
CONSTANTS
  Chunks = 2
  MramSize = 48
  Launches <- InPlaceUnbarriered
INVARIANTS
  RelocationDone
