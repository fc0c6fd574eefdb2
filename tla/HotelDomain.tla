---------------------------- MODULE HotelDomain ----------------------------
(***************************************************************************)
(* The vocabulary the services share: reservation and room statuses, the   *)
(* half-open range of nights a stay sells, the two rules about date ranges *)
(* and the room charge.  Days are natural numbers; an absent reservation   *)
(* row is a record with nothing but a status, so that asking for the       *)
(* status of any id is meaningful.                                         *)
(***************************************************************************)
EXTENDS Integers

CONSTANTS
  MAX_STAY_NIGHTS,   \* longest stay the schemas accept
  MAX_TOTAL_PRICE    \* ceiling of the stored price column

ASSUME HotelDomainAssumption ==
  /\ MAX_STAY_NIGHTS \in Nat \ {0}
  /\ MAX_TOTAL_PRICE \in Nat

ReservationStatus ==
  {"pending", "confirmed", "checked_in", "checked_out", "cancelled", "no_show"}

\* Statuses that occupy a room on the calendar.
BLOCKING_STATUSES == {"pending", "confirmed", "checked_in"}

\* Statuses from which a booking may still be edited.
EDITABLE_STATUSES == {"pending", "confirmed"}

RoomStatus == {"available", "occupied", "cleaning", "maintenance"}

\* Room.is_bookable, of a room with this status.
IsBookable(status) == status # "maintenance"

-----------------------------------------------------------------------------
\* The nights a stay sells: every day from arrival up to, not including,
\* departure.  This is the daterange(check_in, check_out, '[)') of the schema.
Nights(check_in, check_out) == check_in .. (check_out - 1)

\* The WHERE clause of overlapping_reservations: strict on both sides, so that
\* a departure and an arrival on one day do not collide.
Overlaps(in1, out1, in2, out2) == in1 < out2 /\ out1 > in2

\* stay_range_error returned None.
StayRangeOK(check_in, check_out) ==
  /\ check_out > check_in
  /\ check_out - check_in <= MAX_STAY_NIGHTS

accommodation_charge(nightly_rate, nights) == nightly_rate * nights

=============================================================================
