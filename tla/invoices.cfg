\* Two requests for two reservations across a change of year.
SPECIFICATION Spec
CONSTANTS
  s1 = s1
  s2 = s2
  a = a
  b = b
  Stay = {s1, s2}
  Session = {a, b}
  MaxYear = 2
  MaxLegacy = 2
INVARIANTS
  TypeOK
  NumbersUnique
PROPERTIES
  ImplementsInvoiceBook
  RequestsAnswered
CHECK_DEADLOCK FALSE
