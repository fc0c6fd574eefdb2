------------------------------ MODULE Reports ------------------------------
(***************************************************************************)
(* What the dashboard, the front-desk board, the management report and the *)
(* availability search read off the tables of the front desk.  Nothing     *)
(* here writes; each operator is a query with the arithmetic its caller    *)
(* does on the rows.                                                       *)
(***************************************************************************)
EXTENDS FrontDesk, FiniteSets, Functions

CONSTANT TypeOf  \* the room type of each room

ASSUME ReportsAssumption ==
  DOMAIN TypeOf = Room /\ IsFiniteSet(Room) /\ IsFiniteSet(Res)

Later(a, b) == IF a > b THEN a ELSE b
Earlier(a, b) == IF a < b THEN a ELSE b

-----------------------------------------------------------------------------
(***************************************************************************)
(* The board.                                                              *)
(***************************************************************************)

\* Whoever is still expected as of the day, overdue arrivals included.
arrivals_on_SameDay(day) ==
  {r \in Res : booking[r].status \in EDITABLE_STATUSES /\ booking[r].check_in = day}
arrivals_on(day) ==
  {r \in Res : booking[r].status \in EDITABLE_STATUSES /\ booking[r].check_in <= day}

departures_on(day) ==
  {r \in Res : booking[r].status = "checked_in" /\ booking[r].check_out <= day}

in_house == {r \in Res : booking[r].status = "checked_in"}

front_desk == [arrivals |-> arrivals_on(today), departures |-> departures_on(today),
               in_house |-> in_house]

-----------------------------------------------------------------------------
(***************************************************************************)
(* Occupancy.                                                              *)
(***************************************************************************)

status_counts == [status \in RoomStatus |-> Cardinality({rm \in Room : room[rm] = status})]

sellable == Cardinality(Room) - status_counts["maintenance"]

\* Rooms sold for the night that begins on the day.
occupied_on(day) ==
  Cardinality({rm \in Room :
    \E r \in Res : /\ booking[r].status \in BLOCKING_STATUSES
                   /\ booking[r].room = rm
                   /\ booking[r].check_in <= day /\ booking[r].check_out > day})

\* The same for each day of a window: the stays that touch it are fetched once
\* and their nights, cut to the window, collected per day.
LastNight_Short(r, end) == Earlier(booking[r].check_out, end)
LastNight(r, end) == Earlier(booking[r].check_out, end + 1)

occupied_per_day(start, end) ==
  LET rows == {r \in Res : /\ booking[r].status \in BLOCKING_STATUSES
                           /\ booking[r].check_in <= end /\ booking[r].check_out > start}
      On(d) == {r \in rows : d \in Later(booking[r].check_in, start) .. (LastNight(r, end) - 1)}
  IN  [d \in start .. end |-> Cardinality({booking[r].room : r \in On(d)})]

\* The last days of the occupancy chart, today included.
occupancy_trend(days) ==
  LET occupied == occupied_per_day(today - days + 1, today)
  IN  [d \in DOMAIN occupied |-> [occupied |-> occupied[d], total |-> sellable]]

\* The figures of the dashboard that are about rooms.
dashboard ==
  [rooms_total          |-> SumFunction(status_counts),
   rooms_occupied       |-> occupied_on(today),
   rooms_available      |-> Later(sellable - occupied_on(today), 0),
   rooms_out_of_service |-> status_counts["maintenance"]]

-----------------------------------------------------------------------------
(***************************************************************************)
(* The management report.                                                  *)
(***************************************************************************)

\* Stays that touch the period and were not written off.
Reported(start, end) ==
  {r \in Res : /\ booking[r] # NoRow
               /\ booking[r].status \notin {"cancelled", "no_show"}
               /\ booking[r].check_in <= end /\ booking[r].check_out >= start}

nights_in_window_Whole(r, start, end) == booking[r].check_out - booking[r].check_in
nights_in_window(r, start, end) ==
  Later(0, Earlier(booking[r].check_out, end + 1) - Later(booking[r].check_in, start))

Earned(r, start, end) ==
  accommodation_charge(booking[r].rate, nights_in_window(r, start, end))

total_nights(start, end) ==
  SumFunction([r \in Reported(start, end) |-> nights_in_window(r, start, end)])

total_revenue(start, end) ==
  SumFunction([r \in Reported(start, end) |-> Earned(r, start, end)])

\* One line for each room type that has a stay in the period.
_room_type_performance(start, end) ==
  LET rows  == Reported(start, end)
      Of(t) == {r \in rows : TypeOf[booking[r].room] = t}
  IN  [t \in {TypeOf[booking[r].room] : r \in rows} |->
         [bookings    |-> Cardinality(Of(t)),
          nights_sold |-> SumFunction([r \in Of(t) |-> nights_in_window(r, start, end)]),
          revenue     |-> SumFunction([r \in Of(t) |-> Earned(r, start, end)])]]

-----------------------------------------------------------------------------
\* The availability search: rooms in service that no overlapping stay keeps.
\* Its filters by type and capacity only narrow it.
busy_room_ids(check_in, check_out) ==
  {booking[r].room : r \in {x \in Res :
     /\ booking[x].status \in BLOCKING_STATUSES
     /\ Overlaps(booking[x].check_in, booking[x].check_out, check_in, check_out)}}

free_rooms_AnyStatus(check_in, check_out) == Room \ busy_room_ids(check_in, check_out)
free_rooms(check_in, check_out) ==
  {rm \in Room : IsBookable(room[rm])} \ busy_room_ids(check_in, check_out)

\* What the service makes of it: each room with the price of the stay.  One
\* room whose price is beyond the ceiling and the search answers nothing.
Quoted(rm, check_in, check_out) == accommodation_charge(BasePrice[rm], check_out - check_in)

find_available(check_in, check_out) ==
  LET rooms == free_rooms(check_in, check_out)
      offer == {[room |-> rm, total_price |-> Quoted(rm, check_in, check_out)] : rm \in rooms}
  IN  IF check_in < today \/ \E o \in offer : o.total_price > MAX_TOTAL_PRICE
      THEN {} ELSE offer

=============================================================================
