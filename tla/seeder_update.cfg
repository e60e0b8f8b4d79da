\* The files change and the seeder runs once more.
CONSTANTS
  Dumps <- TwoDumps
  Versions = {"2025"}
  Names <- AllNames
  KotaNames <- Kota
  Postals = {"46301", "46302"}
  NoPostal = ""
  Normal <- LastRevision
  BatchSize = 2
  MaxId = 2
SPECIFICATION Spec
INVARIANT UpdateTakesEffect
