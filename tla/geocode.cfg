\* Two requests for the same body and one for another, restarts in both modes.
CONSTANTS
  r1 = r1
  r2 = r2
  r3 = r3
  a = a
  b = b
  Requests = {r1, r2, r3}
  Bodies = {a, b}
  BodyOf <- TwoAndOne
  Nobody = Nobody
  None = None
SPECIFICATION Spec
INVARIANTS
  TypeOK
  SectionIsSerialized
PROPERTIES
  NoCallForStoredBody
  IsAnswerBook
  EveryRequestEnds
