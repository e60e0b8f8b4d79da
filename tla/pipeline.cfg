\* Every address of up to three words and those of four that matter to recovery.
CONSTANTS
  Rows <- Places
  NoCode = "none"
  Texts <- ShortAddresses
  PostalCodes <- Codes
  Numbers <- Nrs
  MaxItems = 20
  Precedes <- Earlier
  InsertionMax = 6
  NoWinner = NoWinner
SPECIFICATION Spec
INVARIANTS
  TypeOK
  NoCandidateContradictsItself
  SoleCityWins
  ArbitraryChoiceIsNeverValid
  FallbackIsMajority
  CodeNeverOverridesNames
  CompleteAddressResolves
PROPERTIES
  RecoveryNeverHurts
  RecoveryTakesTheNearest
