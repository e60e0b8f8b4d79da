\* Three requests for two sources race for every cache.
CONSTANTS
  r1 = r1
  r2 = r2
  r3 = r3
  s = s
  t = t
  Requests = {r1, r2, r3}
  Sources = {s, t}
  SourceOf <- TwoSources
  Nothing = Nothing
  Everything = Everything
SPECIFICATION Spec
INVARIANTS
  TypeOK
  IndexesMatchCaches
  FailedLoadIsFinal
PROPERTY EveryRequestEnds
