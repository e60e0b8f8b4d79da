\* A road that bears the name of a district, and a city.
CONSTANTS
  Rows <- Places
  NoCode = "none"
  Texts <- RoadAddresses
  PostalCodes <- Codes
  Numbers <- Nrs
  MaxItems = 20
  Precedes <- Earlier
  InsertionMax = 12
  NoWinner = NoWinner
SPECIFICATION Spec
INVARIANTS
  RoadNamesDoNotLocate
