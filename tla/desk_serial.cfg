\* One request at a time, no help from the database, two room types; days enough
\* to sell a room after a stay that is over by its dates.
SPECIFICATION Spec
CONSTANTS
  b1 = b1
  b2 = b2
  m1 = m1
  r1 = r1
  r2 = r2
  Res = {b1, b2}
  Room = {r1, r2}
  Session = {m1}
  Manager = {m1}
  MaxDay = 3
  Standard = 1
  Suites = {r2}
  Rates = {1, 2}
  BasePrice <- MCBasePrice
  TypeOf <- MCTypeOf
  HasExclusion = FALSE
  Requests = {"create", "update", "check_in", "check_out", "cancel", "set_status"}
  MAX_STAY_NIGHTS = 2
  MAX_TOTAL_PRICE = 3
SYMMETRY SymBookings
INVARIANTS
  TypeOK
  NoDoubleBooking
  PriceMatchesStay
  NightsReconcile
  ReportAddsUp
  NobodyDisappears
  SearchMatchesBooking
PROPERTIES
  HistoryIsFixed
