\* Two contents of the files, two revisions of the program, any mode after any other and a
\* failure between any two statements.
CONSTANTS
  Dumps <- TwoDumps
  Versions = {"2025"}
  Names <- AllNames
  KotaNames <- Kota
  Postals = {"46301", "46302"}
  NoPostal = ""
  Normal <- TwoRevisions
  BatchSize = 2
  MaxId = 2
SPECIFICATION Spec
INVARIANTS
  TypeOK
  NoTableLeftBehind
  SeededMeansSchema
  NoDanglingRows
  SeededMeansComplete
  SuccessMeansSynchronized
