\* A letter that is a hexadecimal digit, a digit, and the bytes that somebody
\* or other treats in a way of their own.
SPECIFICATION Spec
CONSTANTS
  Keys = {1, 10, 32, 34, 37, 38, 39, 43, 45, 52, 59, 61, 92, 97, 200}
  MaxBytes = 3
  MaxFields = 2
INVARIANTS
  EscapesAreRead
  FormIsReadBack
  SessionIsReadBack
  LiteralIsItsBytes
  QuotedIsOneWord
  NameIsReadBack
CHECK_DEADLOCK FALSE
