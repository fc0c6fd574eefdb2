\* A room sold for tonight while a stay that is over by its dates still has it.
SPECIFICATION Spec
CONSTANTS
  b1 = b1
  b2 = b2
  m1 = m1
  r1 = r1
  Res = {b1, b2}
  Room = {r1}
  Session = {m1}
  Manager = {m1}
  MaxDay = 3
  Standard = 1
  Suites = {}
  Rates = {1}
  BasePrice <- MCBasePrice
  TypeOf <- MCTypeOf
  HasExclusion = TRUE
  Requests = {"create", "check_in"}
  MAX_STAY_NIGHTS = 2
  MAX_TOTAL_PRICE = 3
SYMMETRY SymBookings
PROPERTIES
  OverdueKeepsRoom
CHECK_DEADLOCK FALSE
