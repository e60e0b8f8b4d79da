\* Two first requests, each with its own source.
CONSTANTS
  r1 = r1
  r2 = r2
  r3 = r3
  s = s
  t = t
  Requests = {r1, r2}
  Sources = {s, t}
  SourceOf <- TwoRequests
  Nothing = Nothing
  Everything = Everything
SPECIFICATION Spec
INVARIANT OneSnapshot
