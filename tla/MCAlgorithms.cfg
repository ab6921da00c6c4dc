SPECIFICATION MCSpec
CONSTANTS
  Clients = {c1, c2, c3}
  NoOne = NoOne
  HttpRequests <- MCHttpRequests
  MaxLimit = 2
  MaxPages = 7
  Cases <- MCCases
  Length <- MCLength
  IsInt <- MCIsInt
  Atoi <- MCAtoi
  Unescape <- MCUnescape
  UpToEq <- MCUpToEq
  Lower <- MCLower
INVARIANTS CreatedIsFound HandlersAsGenerated PagesComplete SearchesAgree ConversionExact TreeDrawn
PROPERTIES KeepsUserStore EveryRequestAnswered
CHECK_DEADLOCK FALSE
