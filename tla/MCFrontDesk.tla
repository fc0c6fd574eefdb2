---------------------------- MODULE MCFrontDesk ----------------------------
(***************************************************************************)
(* Small front desks for TLC.                                              *)
(***************************************************************************)
EXTENDS FrontDeskProperties, ReportProperties, TLC

CONSTANTS
  Standard,  \* base price of the rooms that are not a suite
  Suites     \* rooms sold at twice that price

\* Two room types, told apart by what a move to the other costs.
MCBasePrice ==
  [rm \in Room |-> IF rm \in Suites THEN 2 * Standard ELSE Standard]

MCTypeOf == [rm \in Room |-> IF rm \in Suites THEN "suite" ELSE "standard"]

\* Bookings are interchangeable, and so are rooms of one price.
SymBookings == Permutations(Res)
SymAll == Permutations(Res) \cup Permutations(Room)
SymDesk == SymAll \cup Permutations(Session)

\* A bound: no stay can begin on the last day of the calendar.
BeforeLastDay == today < MaxDay

=============================================================================
