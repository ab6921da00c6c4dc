SPECIFICATION Spec
CONSTANTS
  Clients = {c1, c2}
  Requests <- MCRequests
  Schema <- MCSchema
  FirstRows <- MCFirstRows
  Reads <- MCReads
  Outcomes <- MCOutcomes
  MaxId = 2
  MaxHeld = 2
  Null = Null
  Absent = Absent
  Malformed = Malformed
  Garbage = Garbage
  Base64 <- MCBase64
  StartsWith <- MCStartsWith
  StartsWithDigit <- MCStartsWithDigit
  IsNumber <- MCIsNumber
  NumberOf <- MCNumberOf
SYMMETRY MCSymmetry
INVARIANTS ListShown RowsClosed
PROPERTIES WritesNamed AnswersTrue
CHECK_DEADLOCK FALSE
