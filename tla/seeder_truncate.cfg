\* Two versions of the source, then a retry.
CONSTANTS
  Dumps <- TwoDumps
  Versions = {"2025", "2026"}
  Names <- AllNames
  KotaNames <- Kota
  Postals = {"46301", "46302"}
  NoPostal = ""
  Normal <- LastRevision
  BatchSize = 5
  MaxId = 2
SPECIFICATION Spec
INVARIANT RetryCanBeCopied
