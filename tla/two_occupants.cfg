\* Two check-ins racing on the day one stay ends and the next begins.
SPECIFICATION Spec
CONSTANTS
  b1 = b1
  b2 = b2
  c1 = c1
  m1 = m1
  r1 = r1
  Res = {b1, b2}
  Room = {r1}
  Session = {m1, c1}
  Manager = {m1}
  MaxDay = 2
  Standard = 1
  Suites = {}
  Rates = {1}
  BasePrice <- MCBasePrice
  TypeOf <- MCTypeOf
  HasExclusion = TRUE
  Requests = {"create", "check_in"}
  MAX_STAY_NIGHTS = 2
  MAX_TOTAL_PRICE = 3
SYMMETRY SymBookings
INVARIANTS
  OneOccupantPerRoom
CHECK_DEADLOCK FALSE
