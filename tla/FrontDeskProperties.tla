------------------------ MODULE FrontDeskProperties ------------------------
(***************************************************************************)
(* What the front desk must and must not do.  Each property names the      *)
(* behaviour of the code it is about; the README says under which          *)
(* assumptions on concurrency each of them holds.                          *)
(***************************************************************************)
EXTENDS FrontDesk

\* Every variable keeps its type; a request's fields are those of its handler
\* at the stage it is in, and no stored price exceeds its column.
TypeOK ==
  /\ booking \in [Res -> Row \cup {NoRow}]
  /\ room \in [Room -> RoomStatus]
  /\ today \in Day
  /\ req \in [Session -> Request]

IsBlocking(r) == booking[r].status \in BLOCKING_STATUSES
InHouse(r) == booking[r].status = "checked_in"
NightsOf(r) == Nights(booking[r].check_in, booking[r].check_out)

\* A room is never sold twice for the same night: no two bookings that block
\* the calendar share a room and a night, however the requests that made or
\* moved them interleave (reservation_service.py:3, README "The rule that
\* matters").
NoDoubleBooking ==
  \A a, b \in Res :
    (a # b /\ IsBlocking(a) /\ IsBlocking(b) /\ booking[a].room = booking[b].room)
      => NightsOf(a) \cap NightsOf(b) = {}

\* Whatever two partial edits add up to, a stored stay has at least one night
\* (ck_reservation_dates).
StaysHaveNights ==
  \A r \in Res : booking[r] # NoRow => NightsOf(r) # {}

\* Two simultaneous checked-in stays in one room is an impossible state, even
\* on the day one leaves and the other arrives (active_for_room).
OneOccupantPerRoom ==
  \A a, b \in Res :
    (InHouse(a) /\ InHouse(b) /\ booking[a].room = booking[b].room) => a = b

\* A room with a guest checked into it is never on the sale floor as available
\* (update_room) and never out of service (_assert_may_take_out_of_service).
GuestRoomInUse ==
  \A r \in Res :
    InHouse(r) => room[booking[r].room] \notin {"available", "maintenance"}

\* A room under maintenance is never sold: no booking that blocks the calendar
\* is in a room that is out of service (Room.is_bookable, checked when a
\* booking enters the room and again when the room leaves service).
NoBookingInMaintenance ==
  \A r \in Res : IsBlocking(r) => room[booking[r].room] # "maintenance"

\* The stored charge is the stored rate times the nights of the stored dates,
\* after any sequence of edits and moves (update re-prices; folio reads both).
PriceMatchesStay ==
  \A r \in Res :
    booking[r] # NoRow =>
      booking[r].total = accommodation_charge(booking[r].rate,
                           booking[r].check_out - booking[r].check_in)

-----------------------------------------------------------------------------
\* The lifecycle of a stay, as pairs of statuses.  A no-show may be cancelled
\* later; nothing else leaves a final status.
LifecycleEdge ==
     {<<"absent", "confirmed">>, <<"checked_in", "checked_out">>,
      <<"checked_in", "cancelled">>, <<"no_show", "cancelled">>}
  \cup ({"pending", "confirmed"} \X {"checked_in", "cancelled", "no_show"})

\* A booking moves only along the lifecycle: a completed or a cancelled stay
\* is final, and nobody is checked in, out or marked absent from a status the
\* handler was to refuse.
LifecycleRespected ==
  [][\A r \in Res :
       booking'[r].status # booking[r].status =>
         <<booking[r].status, booking'[r].status>> \in LifecycleEdge]_vars

\* Once a stay is no longer editable its room, dates and price are history.
HistoryIsFixed ==
  [][\A r \in Res :
       booking[r].status \in {"checked_in", "checked_out", "cancelled", "no_show"} =>
         /\ booking'[r].room = booking[r].room
         /\ booking'[r].check_in = booking[r].check_in
         /\ booking'[r].check_out = booking[r].check_out
         /\ booking'[r].total = booking[r].total]_vars

\* The room follows the guest: it is occupied once the guest is checked in and
\* dirty, not sellable as clean, once the guest has left or the stay has been
\* cancelled from inside the house.
RoomFollowsGuest ==
  [][\A r \in Res :
       /\ ~InHouse(r) /\ InHouse(r)' => room'[booking'[r].room] = "occupied"
       /\ InHouse(r) /\ ~InHouse(r)' => room'[booking[r].room] = "cleaning"]_vars

\* The session whose commit this step is belongs to a manager.
ManagerCommits == \E s \in Manager : req[s] # Idle /\ req'[s] = Idle

\* Cancelling a stay that is checked in, and letting a debt go, are manager
\* decisions at the moment they take effect (cancel, check_out).
WriteOffsByManager ==
  [][\A r \in Res :
       \/ InHouse(r) /\ booking'[r].status = "cancelled"
       \/ booking[r] # NoRow /\ booking'[r].waived /\ ~booking[r].waived
       => ManagerCommits]_vars

\* A booking that loses the race for its nights is refused, not answered with
\* an unhandled database error (_commit_booking, README "409 on any clash").
LostRaceIsConflict ==
  \A s \in Session : req[s].op = "create" => req[s].pc # "failed"

\* A guest whose check-out date has passed and a booking nobody arrived for
\* still hold their room: while there is one, nobody is sold the room for
\* tonight (README "both still hold their room", upcoming_for_room "a room that
\* could not be sold"; _assert_room_free is what would have to refuse).
OverdueKeepsRoom ==
  [][\A r, new \in Res :
       /\ IsBlocking(r) /\ booking[r].check_out < today
       /\ booking[new] = NoRow /\ booking'[new] # NoRow
       /\ today \in Nights(booking'[new].check_in, booking'[new].check_out)
       => booking'[new].room # booking[r].room]_vars

-----------------------------------------------------------------------------
\* The nights each booking holds, read off the reservations table.
HeldNights ==
  [r \in Res |-> IF IsBlocking(r) THEN {booking[r].room} \X NightsOf(r) ELSE {}]

Calendar == INSTANCE RoomNights
  WITH Booking <- Res, held <- HeldNights

\* Every step of the desk is a hold of one free stay, a release, or none of
\* the calendar's business.
ImplementsRoomNights == Calendar!Spec

=============================================================================
