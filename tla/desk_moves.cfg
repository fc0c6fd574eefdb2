\* Any interleaving of bookings, edits, moves and cancellations, with the constraint.
SPECIFICATION Spec
CONSTANTS
  b1 = b1
  b2 = b2
  m1 = m1
  m2 = m2
  r1 = r1
  r2 = r2
  Res = {b1, b2}
  Room = {r1, r2}
  Session = {m1, m2}
  Manager = {m1, m2}
  MaxDay = 2
  Standard = 1
  Suites = {}
  Rates = {1}
  BasePrice <- MCBasePrice
  TypeOf <- MCTypeOf
  HasExclusion = TRUE
  Requests = {"create", "update", "cancel"}
  MAX_STAY_NIGHTS = 2
  MAX_TOTAL_PRICE = 3
SYMMETRY SymDesk
CONSTRAINT BeforeLastDay
INVARIANTS
  StaysHaveNights
PROPERTIES
  ImplementsRoomNights
CHECK_DEADLOCK FALSE
