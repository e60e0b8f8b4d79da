\* An address of a street, its parts and a province.
CONSTANTS
  Rows <- Places
  NoCode = "none"
  Texts <- LongAddresses
  PostalCodes <- Codes
  Numbers <- Nrs
  MaxItems = 20
  Precedes <- Earlier
  InsertionMax = 6
  NoWinner = NoWinner
SPECIFICATION Spec
INVARIANTS
  ConfidenceInUnitInterval
