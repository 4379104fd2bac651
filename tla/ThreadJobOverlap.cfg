SPECIFICATION Spec
CONSTANTS
  r1 = r1
  r2 = r2
  w1 = w1
  w2 = w2
  c1 = c1
  q1 = q1
  Ranks = {r1, r2}
  Queues = {q1}
  Workers = {w1, w2}
  Clients = {c1}
  NrJobs = 3
  None = None
  QueueOf <- MCQueueOf
  ServesOf <- MCServesOf
  Programs <- OverlappingPrograms
PROPERTY AsyncReturns
CHECK_DEADLOCK FALSE
