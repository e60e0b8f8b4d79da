\* Three requests, two workers and room for one record: every way to stop,
\* also when handlers, INSERTs and workers are stuck for ever.
CONSTANTS
  r1 = r1
  r2 = r2
  r3 = r3
  Requests = {r1, r2, r3}
  Impatient = {r3}
  QueueSize = 1
  WorkerCount = 2
  NoJob = NoJob
SPECIFICATION Spec
INVARIANTS
  TypeOK
  CleanStopRefusesNoRecord
  TimelyStopLosesNothing
  CountedAsAnswered
PROPERTY StopsAfterSignal
