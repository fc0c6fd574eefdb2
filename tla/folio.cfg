\* One request at a time over two reservations and three payment rows; the
\* receipt number is typed in two ways.
SPECIFICATION Spec
CONSTANTS
  s1 = s1
  s2 = s2
  m1 = m1
  Stay = {s1, s2}
  Session = {m1}
  Manager = {m1}
  MaxPayments = 3
  MaxDay = 1
  TaxPercent = 18
  Totals = {25, 50}
  Amounts = {29}
  Recordable = {"paid", "pending"}
  Receipt <- MCReceipt
  Typed = {"R", "R "}
  Stripped <- MCStripped
  Reversal <- MCReversal
CONSTRAINTS
  FewPending
  FirstDay
  FewBlanks
SYMMETRY SymStays
INVARIANTS
  TypeOK
  RefundedAtMostOnce
  KnownReceiptRefused
  CashBooksAgree
  DashboardAgreesWithFolios
PROPERTIES
  NeverOverpaid
  DepartsSettledOrWaived
CHECK_DEADLOCK FALSE
