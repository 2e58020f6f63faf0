CONSTANTS
  a = a
  b = b
  c = c
  Pages = {a, b, c}
  Requests = {"one", "other"}
  Owner <- MCOwner
  Size <- MCSize
  Start <- MCFirst
  End <- MCLast
  MaxBytes = 3
SPECIFICATION Spec
INVARIANT PagesKept
PROPERTY EvictsAsAsked
