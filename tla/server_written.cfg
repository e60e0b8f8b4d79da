\* What Shutdown says of the records it waited for.
CONSTANTS
  r1 = r1
  Requests = {r1}
  Impatient = {}
  QueueSize = 1
  WorkerCount = 1
  NoJob = NoJob
SPECIFICATION Spec
INVARIANT ShutdownMeansWritten
