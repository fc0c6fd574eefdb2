\* A manager and a receptionist at work on different rooms.
SPECIFICATION Spec
CONSTANTS
  b1 = b1
  b2 = b2
  c1 = c1
  m1 = m1
  r1 = r1
  r2 = r2
  Res = {b1, b2}
  Room = {r1, r2}
  Session = {m1, c1}
  Manager = {m1}
  MaxDay = 2
  Standard = 1
  Suites = {}
  Rates = {1}
  BasePrice <- MCBasePrice
  TypeOf <- MCTypeOf
  HasExclusion = FALSE
  Requests = {"create", "update", "check_in", "check_out", "cancel", "no_show", "set_status"}
  MAX_STAY_NIGHTS = 1
  MAX_TOTAL_PRICE = 3
SYMMETRY SymAll
CONSTRAINT RoomsApart
INVARIANTS
  OneOccupantPerRoom
  GuestRoomInUse
  NoBookingInMaintenance
PROPERTIES
  LifecycleRespected
  RoomFollowsGuest
  WriteOffsByManager
