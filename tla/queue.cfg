\* Two workers and room for two jobs: jobs overtake, wait, are refused or handed
\* over; the second caller of Shutdown finds the queue already closed.
CONSTANTS
  j1 = j1
  j2 = j2
  j3 = j3
  c1 = c1
  c2 = c2
  Jobs = {j1, j2, j3}
  Callers = {c1, c2}
  QueueSize = 2
  WorkerCount = 2
  NoJob = NoJob
SPECIFICATION Spec
INVARIANTS
  TypeOK
  ReceivedInOrder
  ExactlyOnePlace
  NoWorkerSleepsOnWork
  CloseIsOrderly
  DrainedMeansHandled
PROPERTIES
  KeepsPromise
  AcceptedIsHandled
  ShutdownReturns
  RefusedOnlyAtCapacity
