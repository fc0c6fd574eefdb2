-------------------------- MODULE ReportProperties --------------------------
(***************************************************************************)
(* How the figures on different screens must agree with each other and     *)
(* with the bookings, in every state the front desk can reach.             *)
(***************************************************************************)
EXTENDS Reports

\* The tables change when a request ends, so with one request at a time it is
\* enough to look while none is in flight.
Quiet == \A s \in Session : req[s] = Idle

Kept(r) == booking[r].status \notin {"absent", "cancelled", "no_show"}
IsOnCalendar(r) == booking[r].status \in BLOCKING_STATUSES
Windows == {w \in Day \X Day : w[1] <= w[2]}

\* Each of the four accounts below is an account of the tables as they stand,
\* and the property after it is that it holds whenever no request is in flight.

\* A room in service that is not offered for tonight is expected or in use: the
\* board names somebody for it.
RoomKeptForSomebody ==
  \A rm \in Room :
    IsBookable(room[rm]) /\ rm \notin free_rooms(today, today + 1) =>
      \E r \in front_desk.arrivals \cup front_desk.in_house : booking[r].room = rm

\* Who else still has the room of a booking: a guest who is living in it, or a
\* booking whose arrival day has come.
InTheWay(r) ==
  {other \in Res \ {r} :
     /\ IsOnCalendar(other) /\ booking[other].room = booking[r].room
     /\ booking[other].status = "checked_in" \/ booking[other].check_in <= today}

\* If a room is sold for tonight and somebody else still has it, the board says
\* so: that one is expected, or has to leave today at the latest.
NewcomersAreWarned ==
  \A r \in Res :
    IsOnCalendar(r) /\ today \in Nights(booking[r].check_in, booking[r].check_out) =>
      InTheWay(r) \subseteq front_desk.arrivals \cup front_desk.departures

BoardComplete ==
  /\ RoomKeptForSomebody /\ NewcomersAreWarned
  /\ front_desk.departures \subseteq front_desk.in_house

\* Nobody disappears: however long overdue a guest is to arrive or to leave,
\* whoever keeps a room from being sold for tonight, or still has a room that
\* was sold for tonight, is on the board (front_desk, arrivals_on,
\* departures_on, find_available, README "Neither is hidden").  Whether such a
\* room may be sold at all is OverdueKeepsRoom.
NobodyDisappears == Quiet => BoardComplete

RoomsAddUp ==
  dashboard.rooms_occupied + dashboard.rooms_available + dashboard.rooms_out_of_service
    = dashboard.rooms_total

TrendEndsToday ==
  \A days \in 1 .. (MaxDay + 1) :
    occupancy_trend(days)[today] = [occupied |-> dashboard.rooms_occupied, total |-> sellable]

Departed(start, end) == {r \in Reported(start, end) : booking[r].status = "checked_out"}

ChartIsReport(start, end) ==
  LET chart == occupied_per_day(start, end)
  IN  /\ \A d \in start .. end : chart[d] = occupied_on(d) /\ chart[d] <= sellable
      /\ SumFunction(chart)
           + SumFunction([r \in Departed(start, end) |-> nights_in_window(r, start, end)])
           = total_nights(start, end)

NightsOneAccount ==
  RoomsAddUp /\ TrendEndsToday /\ \A w \in Windows : ChartIsReport(w[1], w[2])

\* The occupancy chart and the night count of the report are one account of
\* the same nights: each day of the chart is what the dashboard says of that
\* day, and over any window the chart adds up to the report's nights once
\* those of departed guests are taken off.  No day is sold beyond the rooms in
\* service, of which the chart gives the rate, and the rooms of the dashboard
\* add up (occupied_on, occupied_per_day, report, dashboard, occupancy_trend).
NightsReconcile == Quiet => NightsOneAccount

EarnedOnce(start, day, end) ==
  total_revenue(start, day) + total_revenue(day + 1, end) = total_revenue(start, end)

TableIsHeadline(start, end) ==
  LET table == _room_type_performance(start, end)
  IN  /\ SumFunction([t \in DOMAIN table |-> table[t].revenue]) = total_revenue(start, end)
      /\ SumFunction([t \in DOMAIN table |-> table[t].nights_sold]) = total_nights(start, end)

RevenueOneAccount ==
  /\ \A w \in Windows :
       /\ \A d \in w[1] .. (w[2] - 1) : EarnedOnce(w[1], d, w[2])
       /\ TableIsHeadline(w[1], w[2])
  /\ total_revenue(0, MaxDay) = SumFunction([r \in {x \in Res : Kept(x)} |-> booking[r].total])

\* Revenue is earned once: two periods that follow each other earn together
\* what the period of both earns, all days together earn the stored charges,
\* and the table of room types adds up to the headline (report,
\* _room_type_performance).
ReportAddsUp == Quiet => RevenueOneAccount

\* Rooms in service with none of the nights booked.
Unsold(start, end) ==
  {rm \in Room :
     /\ room[rm] # "maintenance"
     /\ \A r \in Res :
          IsOnCalendar(r) /\ booking[r].room = rm =>
            Nights(booking[r].check_in, booking[r].check_out) \cap Nights(start, end) = {}}

\* Rooms that a stay has beyond its dates: a guest who has not left, or a
\* booking nobody arrived for and nobody closed.
HeldBeyond ==
  {booking[r].room : r \in {x \in Res : IsOnCalendar(x) /\ booking[x].check_out < today}}

\* What a booking of each of the rooms would be charged.
PricedAsBooked(rooms, start, end) ==
  {[room |-> rm, total_price |-> NewRow(rm, start, end, NoRate).total] : rm \in rooms}

OffersUnsoldRooms(start, end) ==
  LET unsold == Unsold(start, end)
  IN  (/\ start < end /\ start >= today
       /\ \A rm \in unsold : PriceFits(NewRow(rm, start, end, NoRate)))
      => /\ find_available(start, end) \subseteq PricedAsBooked(unsold, start, end)
         /\ PricedAsBooked(unsold \ HeldBeyond, start, end) \subseteq find_available(start, end)

SearchOneAccount == \A w \in Windows : OffersUnsoldRooms(w[1], w[2])

\* Search and booking agree: unless the search gives up, it offers no room that
\* is out of service or has a night booked, misses no other that nobody holds,
\* and asks what a booking would store (find_available, create).  It says
\* nothing of offering a room somebody has beyond the dates of a stay: that one
\* is booked is the subject of OverdueKeepsRoom.
SearchMatchesBooking == Quiet => SearchOneAccount

=============================================================================
