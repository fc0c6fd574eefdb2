---------------------------- MODULE ReportProofs ----------------------------
(***************************************************************************)
(* The screens' figures agree with the bookings, for any hotel and any     *)
(* calendar.  What is known of the desk's tables is FrontDeskProofs'; what *)
(* is new is the day a guest arrived, and the sums.                        *)
(***************************************************************************)
EXTENDS FrontDeskProofs, ReportProperties, SumFacts

\* The tables are finite, so that sums over them are defined.
LEMMA TablesFinite == IsFiniteSet(Room) /\ IsFiniteSet(Res) /\ DOMAIN TypeOf = Room
  BY ReportsAssumption

\* The columns of a reservation, which are numbers where it counts.
LEMMA RowColumns ==
  ASSUME StayInv, NEW r \in Res, booking[r] # NoRow
  PROVE  /\ booking[r].check_in \in Int /\ booking[r].check_out \in Int
         /\ booking[r].check_in \in Day /\ booking[r].check_out \in Day
         /\ booking[r].check_in < booking[r].check_out
         /\ booking[r].rate \in Int /\ booking[r].total \in Int
         /\ booking[r].room \in Room
         /\ booking[r].status \in ReservationStatus
  <1>1. booking[r] \in Row /\ DatesOK(booking[r])
    BY DEF StayInv, TypeInv, TypeOK
  <1>2. Rates \subseteq Int /\ MAX_TOTAL_PRICE \in Int /\ MaxDay \in Int
    BY FrontDeskAssumption, HotelDomainAssumption
  <1>3. Day \subseteq Int /\ 0 .. MAX_TOTAL_PRICE \subseteq Int
    BY <1>2 DEF Day
  <1>4. /\ booking[r].check_in \in Day /\ booking[r].check_out \in Day
        /\ booking[r].rate \in Rates /\ booking[r].total \in 0 .. MAX_TOTAL_PRICE
        /\ booking[r].room \in Room /\ booking[r].status \in ReservationStatus
    BY <1>1 DEF Row
  <1>5. booking[r].check_in \in Int /\ booking[r].check_out \in Int
    BY <1>3, <1>4
  <1>6. booking[r].check_in < booking[r].check_out
    BY <1>1, <1>5 DEF DatesOK
  <1>. QED
    BY <1>2, <1>3, <1>4, <1>5, <1>6

\* A row that is not there has the status of none.
LEMMA StatusOfNoRow ==
  ASSUME NEW r, booking[r] = NoRow
  PROVE  booking[r].status = "absent"
  BY DEF NoRow

\* Ranges that overlap are ranges with a night in common.
LEMMA OverlapIsCommonNight ==
  ASSUME NEW a \in Int, NEW b \in Int, NEW c \in Int, NEW d \in Int, a < b, c < d
  PROVE  Overlaps(a, b, c, d) <=> Nights(a, b) \cap Nights(c, d) # {}
  <1>1. ASSUME Overlaps(a, b, c, d) PROVE Nights(a, b) \cap Nights(c, d) # {}
    <2> DEFINE n == IF a < c THEN c ELSE a
    <2>1. n \in Nights(a, b) \cap Nights(c, d)
      BY <1>1 DEF Overlaps, Nights
    <2>. QED
      BY <2>1
  <1>2. ASSUME NEW n \in Nights(a, b) \cap Nights(c, d) PROVE Overlaps(a, b, c, d)
    BY DEF Overlaps, Nights
  <1>. QED
    BY <1>1, <1>2

\* The query for overlapping stays finds the rooms with a night taken.
LEMMA FreeRoomsAreFree ==
  ASSUME StayInv, NEW start \in Int, NEW end \in Int, start < end
  PROVE  free_rooms(start, end) = Unsold(start, end)
  <1>1. ASSUME NEW r \in Res, IsOnCalendar(r)
        PROVE  Overlaps(booking[r].check_in, booking[r].check_out, start, end)
                 <=> Nights(booking[r].check_in, booking[r].check_out) \cap Nights(start, end) # {}
    <2>1. booking[r] # NoRow
      BY <1>1, StatusOfNoRow DEF IsOnCalendar, BLOCKING_STATUSES
    <2>. QED
      BY <2>1, RowColumns, OverlapIsCommonNight
  <1>. QED
    BY <1>1 DEF free_rooms, busy_room_ids, Unsold, IsBookable, IsOnCalendar

\* The search prices a room as a booking of it would.
LEMMA SearchIsBooking ==
  ASSUME StayInv, NEW start \in Int, NEW end \in Int
  PROVE  OffersUnsoldRooms(start, end)
  <1> DEFINE Booked(rm) == NewRow(rm, start, end, NoRate)
             free == Unsold(start, end)
             offer == {[room |-> rm, total_price |-> Quoted(rm, start, end)] : rm \in free}
  <1> SUFFICES ASSUME start < end, start >= today, \A rm \in free : PriceFits(Booked(rm))
               PROVE  /\ find_available(start, end) \subseteq PricedAsBooked(free, start, end)
                      /\ PricedAsBooked(free \ HeldBeyond, start, end) \subseteq find_available(start, end)
    BY DEF OffersUnsoldRooms
  <1>1. free_rooms(start, end) = free
    BY FreeRoomsAreFree
  <1>2. \A rm : Quoted(rm, start, end) = Booked(rm).total
    BY DEF Quoted, NewRow
  <1>3. \A rm \in free : Quoted(rm, start, end) <= MAX_TOTAL_PRICE
    BY <1>2 DEF PriceFits
  <1>4. today \in Int /\ MAX_TOTAL_PRICE \in Int
    BY HotelDomainAssumption DEF StayInv, TypeInv, TypeOK, Day
  <1>5. free \subseteq Room /\ \A rm \in Room : Quoted(rm, start, end) \in Int
    <2>1. BasePrice \in [Room -> Rates] /\ Rates \subseteq Int
      BY FrontDeskAssumption
    <2>2. \A rate \in Int : rate * (end - start) \in Int
      OBVIOUS
    <2>3. \A rm \in Room : BasePrice[rm] \in Int
      BY <2>1
    <2>4. \A rm \in Room : Quoted(rm, start, end) \in Int
      BY <2>2, <2>3 DEF Quoted, accommodation_charge
    <2>. QED
      BY <2>4 DEF Unsold
  <1>6. ~ (start < today \/ \E o \in offer : o.total_price > MAX_TOTAL_PRICE)
    <2> HIDE DEF free
    <2>. QED
      BY <1>3, <1>4, <1>5
  <1>7. find_available(start, end) = offer
    <2> HIDE DEF free
    <2>1. find_available(start, end) =
            (IF start < today \/ \E o \in offer : o.total_price > MAX_TOTAL_PRICE
             THEN {} ELSE offer)
      BY <1>1 DEF find_available
    <2>. QED
      BY <1>6, <2>1
  <1>8. PricedAsBooked(free, start, end) = offer
    BY <1>2 DEF PricedAsBooked
  <1>9. PricedAsBooked(free \ HeldBeyond, start, end) \subseteq PricedAsBooked(free, start, end)
    BY DEF PricedAsBooked
  <1> HIDE DEF free, offer
  <1>. QED
    BY <1>7, <1>8, <1>9

-----------------------------------------------------------------------------
(***************************************************************************)
(* The board.                                                              *)
(***************************************************************************)

\* A guest is checked in on the day of arrival or later, and a request that
\* is about to do so has read that the day has come.
Due(q) == q \in LifecycleReq /\ q.op = "check_in" => q.old.check_in <= today

GuestsArrived == \A r \in Res : InHouse(r) => booking[r].check_in <= today

ArrivalInv == GuestsArrived /\ \A s \in Session : Due(req[s])

\* Every step but a commit only goes on with its request.
Commits(s) == Insert(s) \/ CommitUpdate(s) \/ CommitLifecycle(s) \/ CommitRoom(s)

LEMMA StepReadsOrCommits ==
  ASSUME NEW s \in Session, Step(s)
  PROVE  Commits(s) \/ UNCHANGED <<booking, today>>
  <1> DEFINE Reads == UNCHANGED <<booking, today>>
  <1>1. \A q : Continue(s, q) => Reads
    BY DEF Continue
  <1>2. /\ \A pc : GoTo(s, pc) => Reads
        /\ Refuse(s) \/ ServerError(s) => Reads
    BY DEF GoTo, Refuse, ServerError, Continue
  <1> HIDE DEF Reads
  <1>3. (Create(s) => Reads) /\ (Update(s) => Reads)
    <2>1. Create(s) => Reads
      BY <1>1 DEF Create
    <2>2. Update(s) => Reads
      BY <1>1 DEF Update
    <2>. QED
      BY <2>1, <2>2
  <1>4. CheckAvailable(s) \/ UpdateRoom(s) => Reads
    BY <1>2 DEF CheckAvailable, UpdateRoom
  <1>5. CheckInOccupants(s) \/ RoomBlocking(s) \/ Rollback(s) => Reads
    BY <1>2 DEF CheckInOccupants, RoomBlocking, Rollback
  <1>6. CheckIn(s) \/ CheckOut(s) \/ Cancel(s) => Reads
    BY <1>1 DEF CheckIn, CheckOut, Cancel
  <1>7. MarkNoShow(s) \/ SetStatus(s) => Reads
    BY <1>1 DEF MarkNoShow, SetStatus
  <1>8. ASSUME Balance(s) \/ RoomOccupants(s) PROVE Reads
    <2>1. Balance(s) => GoTo(s, "commit") \/ Refuse(s) \/ \E q : Continue(s, q)
      BY DEF Balance
    <2>2. RoomOccupants(s) => GoTo(s, "blocking") \/ Refuse(s) \/ \E q : Continue(s, q)
      BY DEF RoomOccupants
    <2>. QED
      BY <1>1, <1>2, <1>8, <2>1, <2>2
  <1>9. Commits(s) \/ Reads
    BY <1>3, <1>4, <1>5, <1>6, <1>7, <1>8, Zenon DEF Step, Commits
  <1>. QED
    BY <1>9 DEF Reads

\* The day of a step is the day before it or the next.
LEMMA DayGoesOn ==
  ASSUME StayInv, [Next]_vars
  PROVE  today \in Int /\ today' \in Int /\ today <= today'
  <1>1. today \in Int
    BY DEF StayInv, TypeInv, TypeOK, Day
  <1>2. today' = today \/ today' = today + 1
    <2>1. ASSUME NEW s \in Session, Step(s) PROVE today' = today
      <3>1. Commits(s) => today' = today
        BY DEF Commits, Insert, CommitUpdate, CommitLifecycle, CommitRoom, Refuse,
               ServerError, Continue
      <3>. QED
        BY <2>1, <3>1, StepReadsOrCommits
    <2>. QED
      BY <2>1 DEF Next, Tick, vars
  <1>. QED
    BY <1>1, <1>2

\* Whatever a step leaves of the request of its session, it does not check in
\* a guest before the day.
LEMMA StaysDue ==
  ASSUME DeskInv, ArrivalInv, NEW s \in Session, Step(s)
  PROVE  \E q : req' = [req EXCEPT ![s] = q] /\ Due(q)
  <1>0. TypeInv
    BY DEF DeskInv, StayInv
  <1>1. Due(Idle) /\ \A q : q.op # "check_in" \/ q.pc = "failed" => Due(q)
    BY DEF Due, LifecycleReq, Idle
  <1>2. Refuse(s) \/ ServerError(s) => \E q : req' = [req EXCEPT ![s] = q] /\ Due(q)
    BY <1>1 DEF Refuse, ServerError, Continue
  <1>3. CASE req' = [req EXCEPT ![s] = Idle] \/ Rollback(s)
    BY <1>1, <1>2, <1>3 DEF Rollback
  <1>4. CASE Create(s) \/ Update(s) \/ SetStatus(s)
    <2>1. \E q : Continue(s, q) /\ q.op # "check_in"
      <3>1. CASE Create(s)
        BY <3>1 DEF Create
      <3>2. CASE Update(s)
        BY <3>2 DEF Update
      <3>3. CASE SetStatus(s)
        BY <3>3 DEF SetStatus
      <3>. QED
        BY <1>4, <3>1, <3>2, <3>3
    <2>. QED
      BY <1>1, <2>1 DEF Continue
  <1>5. CASE CheckOut(s) \/ Cancel(s) \/ MarkNoShow(s)
    <2>1. \A op, pc, r, new, rm_new : Lifecycle(op, pc, r, new, rm_new).op = op
      BY DEF Lifecycle
    <2>2. CheckOut(s) => \E q : Continue(s, q) /\ q.op = "check_out"
      BY <2>1 DEF CheckOut
    <2>3. Cancel(s) => \E q : Continue(s, q) /\ q.op = "cancel"
      BY <2>1 DEF Cancel
    <2>4. MarkNoShow(s) => \E q : Continue(s, q) /\ q.op = "no_show"
      BY <2>1 DEF MarkNoShow
    <2>5. \E q : Continue(s, q) /\ q.op # "check_in"
      BY <1>5, <2>2, <2>3, <2>4
    <2>. QED
      BY <1>1, <2>5 DEF Continue
  <1>6. CASE CheckIn(s)
    <2>1. PICK r \in Res :
            /\ MayCheckIn(booking[r])
            /\ Continue(s, Lifecycle("check_in", "occupants", r,
                             [booking[r] EXCEPT !.status = "checked_in"], "occupied"))
      BY <1>6 DEF CheckIn
    <2> DEFINE q == Lifecycle("check_in", "occupants", r,
                              [booking[r] EXCEPT !.status = "checked_in"], "occupied")
    <2>2. q.old = booking[r]
      BY DEF Lifecycle
    <2>3. Continue(s, q)
      BY <2>1
    <2> HIDE DEF q
    <2>4. Due(q)
      BY <2>1, <2>2 DEF Due, MayCheckIn
    <2>. QED
      BY <2>3, <2>4 DEF Continue
  <1>7. ASSUME NEW pc, GoTo(s, pc),
               req[s] \in CreateReq \cup UpdateReq \cup LifecycleReq \cup RoomReq
        PROVE  \E q : req' = [req EXCEPT ![s] = q] /\ Due(q)
    <2> DEFINE q == [req[s] EXCEPT !.pc = pc]
    <2>1. q.op = req[s].op
      BY <1>7 DEF CreateReq, UpdateReq, LifecycleReq, RoomReq
    <2>2. req[s] \in LifecycleReq => q.old = req[s].old
      BY DEF LifecycleReq
    <2>3. req[s] \notin LifecycleReq => req[s].op # "check_in"
      BY <1>7 DEF CreateReq, UpdateReq, RoomReq
    <2>4. req' = [req EXCEPT ![s] = q]
      BY <1>7 DEF GoTo, Continue
    <2> HIDE DEF q
    <2>5. Due(q)
      BY <2>1, <2>2, <2>3 DEF Due, ArrivalInv
    <2>. QED
      BY <2>4, <2>5
  <1>8. CASE CheckAvailable(s)
    <2>1. At(s, {"create"}, "available") \/ At(s, {"update"}, "available")
      BY <1>8 DEF CheckAvailable, At
    <2>2. req[s] \in CreateReq \cup UpdateReq
      BY <1>0, <2>1, RequestAt
    <2>. QED
      BY <1>2, <1>7, <1>8, <2>2 DEF CheckAvailable
  <1>9. CASE UpdateRoom(s)
    BY <1>0, <1>2, <1>7, <1>9, RequestAt DEF UpdateRoom
  <1>10. CASE CheckInOccupants(s)
    BY <1>0, <1>2, <1>7, <1>10, RequestAt DEF CheckInOccupants
  <1>11. CASE RoomBlocking(s)
    BY <1>0, <1>2, <1>7, <1>11, RequestAt DEF RoomBlocking
  <1>12. CASE Balance(s)
    <2>1. req[s] \in LifecycleReq /\ req[s].op # "check_in"
      BY <1>0, <1>12, RequestAt DEF Balance, At
    <2>2. Refuse(s) \/ GoTo(s, "commit")
            \/ Continue(s, [req[s] EXCEPT !.pc = "commit", !.new.waived = TRUE])
      BY <1>12 DEF Balance
    <2>3. [req[s] EXCEPT !.pc = "commit", !.new.waived = TRUE].op = req[s].op
      BY <2>1 DEF LifecycleReq
    <2>. QED
      BY <1>1, <1>2, <1>7, <2>1, <2>2, <2>3 DEF Continue
  <1>13. CASE RoomOccupants(s)
    <2> DEFINE occupied == ActiveForRoom(req[s].room) # {}
               kept == [req[s] EXCEPT !.pc = "commit", !.room_new = Housekept(@, occupied)]
    <2>1. req[s] \in RoomReq
      BY <1>0, <1>13, RequestAt DEF RoomOccupants
    <2>2. Refuse(s) \/ GoTo(s, "blocking") \/ Continue(s, kept)
      BY <1>13 DEF RoomOccupants
    <2>3. kept.op = "set_status"
      BY <2>1 DEF RoomReq
    <2>. QED
      BY <1>1, <1>2, <1>7, <2>1, <2>2, <2>3 DEF Continue
  <1>14. CASE Insert(s) \/ CommitUpdate(s)
    BY <1>2, <1>3, <1>14 DEF Insert, CommitUpdate
  <1>15. CASE CommitLifecycle(s) \/ CommitRoom(s)
    BY <1>2, <1>3, <1>15 DEF CommitLifecycle, CommitRoom
  <1>. QED
    BY <1>3, <1>4, <1>5, <1>6, <1>8, <1>9, <1>10, <1>11, <1>12, <1>13, <1>14, <1>15
    DEF Step

\* Only the commit of a check-in brings anybody into the house.
LEMMA ArrivesDue ==
  ASSUME DeskInv, ArrivalInv, NEW s \in Session, Step(s),
         NEW r \in Res, ~InHouse(r), booking'[r].status = "checked_in"
  PROVE  booking'[r].check_in <= today
  <1> DEFINE q == req[s]
  <1>0. TypeInv /\ booking \in [Res -> Row \cup {NoRow}]
    BY DEF DeskInv, StayInv, TypeInv, TypeOK
  <1>1. booking'[r] # booking[r]
    BY DEF InHouse
  <1>2. CASE Insert(s)
    <2>1. q \in CreateReq /\ CreateRelies(q)
      BY <1>0, <1>2, RequestAt, RequestRelies DEF Insert
    <2>2. \E id \in Res : booking' = [booking EXCEPT ![id] = q.new]
      BY <1>1, <1>2 DEF Insert, ServerError, Continue
    <2>3. booking'[r] = q.new
      BY <1>0, <1>1, <2>2
    <2>. QED
      BY <2>1, <2>3 DEF CreateRelies
  <1>3. CASE CommitUpdate(s)
    <2>1. q \in UpdateReq /\ UpdateRelies(q)
      BY <1>0, <1>3, RequestAt, RequestRelies DEF CommitUpdate
    <2>2. WrittenRow(q.old, q.new, booking[q.id]) = q.new
      BY <2>1, WrittenAsWanted DEF UpdateReq, UpdateRelies
    <2>3. booking' = [booking EXCEPT ![q.id] = q.new]
      BY <1>1, <1>3, <2>2 DEF CommitUpdate, Refuse, ServerError, Continue
    <2>4. booking'[r] = q.new
      BY <1>0, <1>1, <2>3
    <2>. QED
      BY <2>1, <2>4 DEF UpdateRelies, EDITABLE_STATUSES
  <1>4. CASE CommitLifecycle(s)
    <2>1. q \in LifecycleReq /\ LifecycleRelies(s, q)
      BY <1>0, <1>4, RequestAt, RequestRelies DEF CommitLifecycle
    <2>2. WrittenRow(q.old, q.new, booking[q.id]) = q.new
      BY <2>1, WrittenAsWanted DEF LifecycleReq, LifecycleRelies
    <2>3. booking' = [booking EXCEPT ![q.id] = q.new]
      BY <1>1, <1>4, <2>2 DEF CommitLifecycle, ServerError, Continue
    <2>4. booking'[r] = q.new
      BY <1>0, <1>1, <2>3
    <2>5. q.new.status = "checked_in" /\ q.new.check_in = q.old.check_in
      BY <2>1, <2>4 DEF LifecycleRelies, SameStay
    <2>6. q.op = "check_in"
      BY <2>1, <2>5 DEF LifecycleRelies, LeavingRelies, BLOCKING_STATUSES
    <2>7. Due(q)
      BY DEF ArrivalInv
    <2>. QED
      BY <2>1, <2>4, <2>5, <2>6, <2>7 DEF Due
  <1>5. CASE CommitRoom(s)
    BY <1>1, <1>5 DEF CommitRoom
  <1>. QED
    BY <1>1, <1>2, <1>3, <1>4, <1>5, StepReadsOrCommits DEF Commits

LEMMA NextArrival ==
  ASSUME DeskInv, ArrivalInv, RoomsApart, [Next]_vars
  PROVE  ArrivalInv'
  <1>1. today \in Int /\ today' \in Int /\ today <= today'
    BY DayGoesOn DEF DeskInv
  <1>2. Day \subseteq Int /\ \A q \in LifecycleReq : q.old.check_in \in Int
    BY DEF Day, LifecycleReq, Row
  <1>3. ASSUME NEW s \in Session
        PROVE  Due(req[s])'
    <2>1. Due(req'[s])
      <3>1. CASE req' = req
        BY <3>1 DEF ArrivalInv
      <3>2. ASSUME NEW t \in Session, Step(t)
            PROVE  Due(req'[s])
        <4>1. PICK q : req' = [req EXCEPT ![t] = q] /\ Due(q)
          BY <3>2, StaysDue
        <4>2. req'[s] = q \/ req'[s] = req[s]
          BY <4>1 DEF DeskInv, StayInv, TypeInv, TypeOK
        <4>. QED
          BY <4>1, <4>2 DEF ArrivalInv
      <3>. QED
        BY <3>1, <3>2 DEF Next, Tick, vars
    <2>. QED
      BY <1>1, <1>2, <2>1 DEF Due
  <1>4. ASSUME NEW r \in Res, InHouse(r)'
        PROVE  booking'[r].check_in <= today'
    <2>1. CASE InHouse(r)
      <3>1. HistoryStep
        BY NextDesk DEF StepsAgree, DeskInv
      <3>2. booking'[r].check_in = booking[r].check_in /\ booking[r].check_in <= today
        BY <2>1, <3>1 DEF HistoryStep, InHouse, ArrivalInv, GuestsArrived
      <3>3. booking[r].check_in \in Int
        BY <2>1, RowColumns DEF InHouse, NoRow, DeskInv
      <3>. QED
        BY <1>1, <3>2, <3>3
    <2>2. CASE ~InHouse(r)
      <3>1. booking' # booking
        BY <1>4, <2>2 DEF InHouse
      <3>2. PICK s \in Session : Step(s)
        BY <3>1 DEF Next, Tick, vars
      <3>3. booking'[r].check_in <= today
        BY <1>4, <2>2, <3>2, ArrivesDue DEF InHouse
      <3>4. booking'[r].check_in \in Int
        <4>1. StayInv'
          BY NextStayInv DEF DeskInv
        <4>2. booking'[r] \in Row
          BY <1>4, <4>1 DEF InHouse, NoRow, StayInv, TypeInv, TypeOK
        <4>. QED
          BY <1>2, <4>2 DEF Row
      <3>. QED
        BY <1>1, <3>3, <3>4
    <2>. QED
      BY <2>1, <2>2
  <1>. QED
    BY <1>3, <1>4 DEF ArrivalInv, GuestsArrived

\* Guests have arrived from the start on, and through every step.
LEMMA InitArrival == Init => ArrivalInv
  BY DEF Init, ArrivalInv, GuestsArrived, Due, InHouse, NoRow, Idle, LifecycleReq

\* While no two requests in flight share a room.
LEMMA ArrivalHolds == ApartSpec => []ArrivalInv
  <1>1. StayInv /\ RequestsRely /\ TablesAgree /\ ArrivalInv /\ RoomsApart /\ [Next]_vars
          => ArrivalInv'
    BY NextArrival DEF DeskInv
  <1>. QED
    BY <1>1, InitArrival, DeskAgrees, PTL DEF ApartSpec, Spec

\* A night that is taken has begun by tonight or is not over, so the board
\* shows the stay; and who has a room whose night is another's has no night
\* there any more, so is to leave or never came.
LEMMA BoardIsComplete ==
  ASSUME StayInv, GuestsArrived, NoDoubleBooking
  PROVE  BoardComplete
  <1>1. today \in Int
    BY DEF StayInv, TypeInv, TypeOK, Day
  <1>2. \A r \in Res : IsOnCalendar(r) =>
          booking[r].check_in \in Int /\ booking[r].check_out \in Int
    BY RowColumns, StatusOfNoRow DEF IsOnCalendar, BLOCKING_STATUSES
  <1>3. ASSUME NEW rm \in Room, IsBookable(room[rm]), rm \notin free_rooms(today, today + 1)
        PROVE  \E r \in front_desk.arrivals \cup front_desk.in_house : booking[r].room = rm
    <2>1. rm \in busy_room_ids(today, today + 1)
      BY <1>3 DEF free_rooms
    <2>2. PICK r \in Res :
            /\ IsOnCalendar(r) /\ booking[r].room = rm
            /\ Overlaps(booking[r].check_in, booking[r].check_out, today, today + 1)
      BY <2>1 DEF busy_room_ids, IsOnCalendar
    <2>3. booking[r].check_in <= today
      BY <1>1, <1>2, <2>2 DEF Overlaps
    <2>4. r \in front_desk.arrivals \cup front_desk.in_house
      BY <2>2, <2>3 DEF front_desk, arrivals_on, in_house, IsOnCalendar,
                        BLOCKING_STATUSES, EDITABLE_STATUSES
    <2>. QED
      BY <2>2, <2>4
  <1>4. ASSUME NEW r \in Res, IsOnCalendar(r),
               today \in Nights(booking[r].check_in, booking[r].check_out),
               NEW other \in InTheWay(r)
        PROVE  other \in front_desk.arrivals \cup front_desk.departures
    <2>1. /\ other \in Res /\ other # r /\ IsOnCalendar(other)
          /\ booking[other].room = booking[r].room
          /\ booking[other].status = "checked_in" \/ booking[other].check_in <= today
      BY DEF InTheWay
    <2>2. booking[other].check_in <= today
      BY <2>1 DEF GuestsArrived, InHouse
    <2>3. today \notin Nights(booking[other].check_in, booking[other].check_out)
      BY <1>4, <2>1 DEF NoDoubleBooking, IsBlocking, IsOnCalendar, NightsOf
    <2>4. booking[other].check_out <= today
      BY <1>1, <1>2, <2>1, <2>2, <2>3 DEF Nights
    <2>. QED
      BY <2>1, <2>2, <2>4 DEF front_desk, arrivals_on, departures_on, IsOnCalendar,
                              BLOCKING_STATUSES, EDITABLE_STATUSES
  <1>5. front_desk.departures \subseteq front_desk.in_house
    BY DEF front_desk, departures_on, in_house
  <1>. QED
    BY <1>3, <1>4, <1>5 DEF BoardComplete, RoomKeptForSomebody, NewcomersAreWarned

-----------------------------------------------------------------------------
(***************************************************************************)
(* Nights of a window.                                                     *)
(***************************************************************************)

Live == {r \in Res : Kept(r)}

NightsBy(start, end) == [r \in Res |-> nights_in_window(r, start, end)]
EarnedBy(start, end) == [r \in Res |-> Earned(r, start, end)]

\* A stay that was kept is a row, and the report lists no other stay.
LEMMA KeptIsRow ==
  ASSUME NEW r \in Res, Kept(r)
  PROVE  booking[r] # NoRow
  BY StatusOfNoRow DEF Kept

LEMMA ReportedIsLive ==
  ASSUME StayInv, NEW start \in Int, NEW end \in Int
  PROVE  /\ Reported(start, end) \in SUBSET Live
         /\ \A r \in Reported(start, end) : booking[r] # NoRow
  <1>1. ASSUME NEW r \in Reported(start, end) PROVE r \in Live /\ booking[r] # NoRow
    <2>1. r \in Res /\ booking[r] # NoRow /\ booking[r].status \notin {"cancelled", "no_show"}
      BY DEF Reported
    <2>2. booking[r].status # "absent"
      BY <2>1, RowColumns DEF ReservationStatus
    <2>. QED
      BY <2>1, <2>2 DEF Live, Kept
  <1>. QED
    BY <1>1

\* A window's nights of a stay, none outside the report, and those of a longer
\* window are those of its two parts.
LEMMA WindowNights ==
  ASSUME StayInv, NEW r \in Res, Kept(r), NEW start \in Int, NEW end \in Int
  PROVE  /\ nights_in_window(r, start, end) \in Int
         /\ r \notin Reported(start, end) => nights_in_window(r, start, end) = 0
         /\ \A day \in Int : start <= day + 1 /\ day <= end =>
              nights_in_window(r, start, end)
                = nights_in_window(r, start, day) + nights_in_window(r, day + 1, end)
  <1> DEFINE a == booking[r].check_in  b == booking[r].check_out
  <1>1. a \in Int /\ b \in Int /\ a < b /\ booking[r] # NoRow
    BY KeptIsRow, RowColumns
  <1>2. r \notin Reported(start, end) => a > end \/ b < start
    BY <1>1 DEF Reported, Kept
  <1> HIDE DEF a, b
  <1>3. \A from, to : nights_in_window(r, from, to) = Later(0, Earlier(b, to + 1) - Later(a, from))
    BY DEF nights_in_window, a, b
  <1>4. \A from, to \in Int :
          /\ nights_in_window(r, from, to) \in Int
          /\ a > to \/ b < from => nights_in_window(r, from, to) = 0
    BY <1>1, <1>3 DEF Later, Earlier
  <1>5. ASSUME NEW day \in Int, start <= day + 1, day <= end
        PROVE  nights_in_window(r, start, end)
                 = nights_in_window(r, start, day) + nights_in_window(r, day + 1, end)
    <2>1. /\ nights_in_window(r, start, end) = Later(0, Earlier(b, end + 1) - Later(a, start))
          /\ nights_in_window(r, start, day) = Later(0, Earlier(b, day + 1) - Later(a, start))
          /\ nights_in_window(r, day + 1, end) = Later(0, Earlier(b, end + 1) - Later(a, day + 1))
      BY <1>3
    <2>. QED
      BY <1>1, <1>5, <2>1 DEF Later, Earlier
  <1>. QED
    BY <1>2, <1>4, <1>5

\* What a stay earns in a window is its charge by the night.
LEMMA EarnedIs ==
  ASSUME StayInv, NEW r \in Res, Kept(r), NEW start \in Int, NEW end \in Int
  PROVE  /\ Earned(r, start, end) \in Int
         /\ r \notin Reported(start, end) => Earned(r, start, end) = 0
         /\ \A day \in Int : start <= day + 1 /\ day <= end =>
              Earned(r, start, end) = Earned(r, start, day) + Earned(r, day + 1, end)
  <1> DEFINE rate == booking[r].rate  N(from, to) == nights_in_window(r, from, to)
  <1>1. rate \in Int
    BY KeptIsRow, RowColumns
  <1>2. \A from, to : Earned(r, from, to) = rate * N(from, to)
    BY DEF Earned, accommodation_charge
  <1>3. \A from, to \in Int : N(from, to) \in Int
    BY WindowNights
  <1>4. N(start, end) \in Int /\ (r \notin Reported(start, end) => N(start, end) = 0)
    BY WindowNights
  <1>5. \A n, m \in Int : rate * n \in Int /\ rate * (n + m) = rate * n + rate * m /\ rate * 0 = 0
    <2> HIDE DEF rate
    <2>. QED
      BY <1>1
  <1>6. ASSUME NEW day \in Int, start <= day + 1, day <= end
        PROVE  Earned(r, start, end) = Earned(r, start, day) + Earned(r, day + 1, end)
    <2>1. N(start, end) = N(start, day) + N(day + 1, end)
      BY <1>6, WindowNights
    <2>2. N(start, day) \in Int /\ N(day + 1, end) \in Int
      BY <1>3
    <2> HIDE DEF rate, N
    <2>. QED
      BY <1>2, <1>5, <2>1, <2>2
  <1>7. Earned(r, start, end) \in Int /\ (r \notin Reported(start, end) => Earned(r, start, end) = 0)
    <2> HIDE DEF rate, N
    <2>. QED
      BY <1>2, <1>4, <1>5
  <1>. QED
    BY <1>6, <1>7

\* The sums of the report, over all stays that were kept.
LEMMA ReportSums ==
  ASSUME StayInv, NEW start \in Int, NEW end \in Int
  PROVE  /\ total_nights(start, end) = SumFunctionOnSet(NightsBy(start, end), Reported(start, end))
         /\ total_nights(start, end) = SumFunctionOnSet(NightsBy(start, end), Live)
         /\ total_revenue(start, end) = SumFunctionOnSet(EarnedBy(start, end), Reported(start, end))
         /\ total_revenue(start, end) = SumFunctionOnSet(EarnedBy(start, end), Live)
  <1> DEFINE T == Reported(start, end)
             n == [r \in T |-> nights_in_window(r, start, end)]  N == NightsBy(start, end)
             e == [r \in T |-> Earned(r, start, end)]            E == EarnedBy(start, end)
  <1>1. IsFiniteSet(Live) /\ T \in SUBSET Live /\ Live \in SUBSET Res
    BY TablesFinite, ReportedIsLive, FS_Subset DEF Live
  <1>2. IsFiniteSet(T)
    BY <1>1, FS_Subset
  <1>3. /\ \A r \in T : N[r] = n[r] /\ E[r] = e[r]
        /\ \A r \in Live : N[r] \in Int /\ E[r] \in Int
        /\ \A r \in Live \ T : N[r] = 0 /\ E[r] = 0
    <2>1. \A r \in Live : N[r] = nights_in_window(r, start, end) /\ E[r] = Earned(r, start, end)
      BY <1>1 DEF NightsBy, EarnedBy
    <2>. QED
      BY <1>1, <2>1, WindowNights, EarnedIs DEF Live
  <1>4. total_nights(start, end) = SumFunctionOnSet(n, T)
    BY DEF total_nights, SumFunction
  <1>5. total_revenue(start, end) = SumFunctionOnSet(e, T)
    BY DEF total_revenue, SumFunction
  <1> HIDE DEF T, n, N, e, E
  <1>6. SumFunctionOnSet(n, T) = SumFunctionOnSet(N, T) /\ SumFunctionOnSet(e, T) = SumFunctionOnSet(E, T)
    BY <1>2, <1>3, SumSame
  <1>7. SumFunctionOnSet(N, Live) = SumFunctionOnSet(N, T)
    BY <1>1, <1>3, SumSupport
  <1>8. SumFunctionOnSet(E, Live) = SumFunctionOnSet(E, T)
    BY <1>1, <1>3, SumSupport
  <1>. QED
    BY <1>4, <1>5, <1>6, <1>7, <1>8 DEF N, E, T

\* Two periods that follow each other.
LEMMA RevenueEarnedOnce ==
  ASSUME StayInv, NEW start \in Int, NEW day \in Int, NEW end \in Int,
         start <= day + 1, day <= end
  PROVE  EarnedOnce(start, day, end)
  <1> DEFINE f == EarnedBy(start, day)  g == EarnedBy(day + 1, end)  h == EarnedBy(start, end)
  <1>1. IsFiniteSet(Live) /\ Live \in SUBSET Res
    BY TablesFinite, FS_Subset DEF Live
  <1>2. \A r \in Live : f[r] \in Int /\ g[r] \in Int /\ h[r] = f[r] + g[r]
    <2> TAKE r \in Live
    <2>1. r \in Res /\ Kept(r)
      BY DEF Live
    <2>2. /\ f[r] = Earned(r, start, day) /\ g[r] = Earned(r, day + 1, end)
          /\ h[r] = Earned(r, start, end)
      BY <2>1 DEF EarnedBy
    <2>. QED
      BY <2>1, <2>2, EarnedIs
  <1>3. /\ total_revenue(start, day) = SumFunctionOnSet(f, Live)
        /\ total_revenue(day + 1, end) = SumFunctionOnSet(g, Live)
        /\ total_revenue(start, end) = SumFunctionOnSet(h, Live)
    BY ReportSums
  <1> HIDE DEF f, g, h
  <1>4. SumFunctionOnSet(h, Live) = SumFunctionOnSet(f, Live) + SumFunctionOnSet(g, Live)
    BY <1>1, <1>2, SumPlus
  <1>. QED
    BY <1>3, <1>4 DEF EarnedOnce

\* All days together.
LEMMA ChargesEarned ==
  ASSUME StayInv, PriceMatchesStay
  PROVE  total_revenue(0, MaxDay) = SumFunction([r \in {x \in Res : Kept(x)} |-> booking[r].total])
  <1> DEFINE E == EarnedBy(0, MaxDay)  t == [r \in Live |-> booking[r].total]
  <1>1. MaxDay \in Int
    BY FrontDeskAssumption
  <1>2. IsFiniteSet(Live) /\ Live \in SUBSET Res
    BY TablesFinite, FS_Subset DEF Live
  <1>3. \A r \in Live : E[r] = t[r]
    <2> TAKE r \in Live
    <2>1. r \in Res /\ Kept(r) /\ booking[r] # NoRow
      BY KeptIsRow DEF Live
    <2> DEFINE a == booking[r].check_in  b == booking[r].check_out
    <2>2. /\ a \in Int /\ b \in Int /\ a < b /\ a >= 0 /\ b <= MaxDay
      BY <1>1, <2>1, RowColumns DEF Day
    <2>3. nights_in_window(r, 0, MaxDay) = b - a
      <3>1. nights_in_window(r, 0, MaxDay) = Later(0, Earlier(b, MaxDay + 1) - Later(a, 0))
        BY DEF nights_in_window
      <3> HIDE DEF a, b
      <3>. QED
        BY <1>1, <2>2, <3>1 DEF Later, Earlier
    <2>4. Earned(r, 0, MaxDay) = booking[r].total
      BY <2>1, <2>3 DEF Earned, PriceMatchesStay
    <2>. QED
      BY <2>1, <2>4 DEF EarnedBy
  <1>4. total_revenue(0, MaxDay) = SumFunctionOnSet(E, Live)
    BY <1>1, ReportSums
  <1>5. SumFunction(t) = SumFunctionOnSet(t, Live)
    BY DEF SumFunction
  <1>6. SumFunctionOnSet(E, Live) = SumFunctionOnSet(t, Live)
    <2> HIDE DEF E, t
    <2>. QED
      BY <1>2, <1>3, SumSame
  <1>7. total_revenue(0, MaxDay) = SumFunction(t)
    BY <1>4, <1>5, <1>6
  <1>. QED
    BY <1>7 DEF Live

TypesOf(rows) == {TypeOf[booking[r].room] : r \in rows}
OfType(rows, t) == {r \in rows : TypeOf[booking[r].room] = t}

\* The table of room types groups the same stays.
LEMMA GroupsAddUp ==
  ASSUME StayInv, NEW start \in Int, NEW end \in Int, NEW f,
         \A r \in Reported(start, end) : f[r] \in Int, NEW group,
         \A t \in TypesOf(Reported(start, end)) :
           group[t] = SumFunctionOnSet(f, OfType(Reported(start, end), t))
  PROVE  SumFunctionOnSet(group, TypesOf(Reported(start, end)))
           = SumFunctionOnSet(f, Reported(start, end))
  <1> DEFINE T == Reported(start, end)  key == [r \in T |-> TypeOf[booking[r].room]]
             D == TypesOf(T)
  <1>1. IsFiniteSet(T)
    <2>1. IsFiniteSet(Live)
      BY TablesFinite, FS_Subset DEF Live
    <2>. QED
      BY <2>1, ReportedIsLive, FS_Subset
  <1>2. IsFiniteSet(D)
    <2>1. key \in Surjection(T, D)
      BY DEF Surjection, TypesOf
    <2>. QED
      BY <1>1, <2>1, FS_Surjection
  <1>3. Keyed(T, key, D) = T
    BY DEF Keyed, TypesOf
  <1>4. \A t \in D : OfType(T, t) = KeyedAs(T, key, t)
    BY DEF KeyedAs, OfType
  <1>5. \A t \in D : group[t] = SumFunctionOnSet(f, KeyedAs(T, key, t))
    <2> TAKE t \in D
    <2>1. group[t] = SumFunctionOnSet(f, OfType(T, t))
      OBVIOUS
    <2>2. OfType(T, t) = KeyedAs(T, key, t)
      BY <1>4
    <2> HIDE DEF T, key
    <2>. QED
      BY <2>1, <2>2, Zenon
  <1>6. \A r \in T : f[r] \in Int
    OBVIOUS
  <1>7. SumFunctionOnSet(group, D) = SumFunctionOnSet(f, Keyed(T, key, D))
    <2> HIDE DEF T, key, D
    <2>. QED
      BY <1>1, <1>2, <1>5, <1>6, SumByKey
  <1>8. SumFunctionOnSet(f, Keyed(T, key, D)) = SumFunctionOnSet(f, T)
    <2> HIDE DEF T, key, D
    <2>. QED
      BY <1>3, Zenon
  <1>. QED
    BY <1>7, <1>8

\* The rows of the table add up to the headline.
LEMMA TableAddsUp ==
  ASSUME StayInv, NEW start \in Int, NEW end \in Int
  PROVE  TableIsHeadline(start, end)
  <1> DEFINE T == Reported(start, end)
             D == TypesOf(T)
             Of(t) == OfType(T, t)
             table == _room_type_performance(start, end)
             N == NightsBy(start, end)  E == EarnedBy(start, end)
             earned == [t \in D |-> SumFunction([r \in Of(t) |-> Earned(r, start, end)])]
             sold == [t \in D |-> SumFunction([r \in Of(t) |-> nights_in_window(r, start, end)])]
  <1>1. IsFiniteSet(T)
    <2>1. IsFiniteSet(Live)
      BY TablesFinite, FS_Subset DEF Live
    <2>. QED
      BY <2>1, ReportedIsLive, FS_Subset
  <1>2. \A r \in T : r \in Res /\ N[r] \in Int /\ E[r] \in Int
    <2> TAKE r \in T
    <2>1. r \in Res /\ Kept(r)
      BY ReportedIsLive DEF Live
    <2>2. N[r] = nights_in_window(r, start, end) /\ E[r] = Earned(r, start, end)
      BY <2>1 DEF NightsBy, EarnedBy
    <2>. QED
      BY <2>1, <2>2, WindowNights, EarnedIs
  <1>3. ASSUME NEW t \in D
        PROVE  earned[t] = SumFunctionOnSet(E, Of(t)) /\ sold[t] = SumFunctionOnSet(N, Of(t))
    <2> DEFINE S == Of(t)
               e == [r \in S |-> Earned(r, start, end)]
               n == [r \in S |-> nights_in_window(r, start, end)]
    <2>1. IsFiniteSet(S) /\ S \subseteq T
      BY <1>1, FS_Subset DEF OfType
    <2>2. \A r \in S : E[r] = e[r] /\ N[r] = n[r]
      BY <1>2, <2>1 DEF EarnedBy, NightsBy
    <2>3. earned[t] = SumFunctionOnSet(e, S) /\ sold[t] = SumFunctionOnSet(n, S)
      BY DEF SumFunction
    <2> HIDE DEF S, e, n, E, N
    <2>4. SumFunctionOnSet(E, S) = SumFunctionOnSet(e, S) /\ SumFunctionOnSet(N, S) = SumFunctionOnSet(n, S)
      BY <2>1, <2>2, SumSame
    <2>. QED
      BY <2>3, <2>4 DEF S
  <1>4. SumFunctionOnSet(earned, D) = SumFunctionOnSet(E, T)
    <2> HIDE DEF earned, E
    <2>. QED
      BY <1>2, <1>3, GroupsAddUp
  <1>5. SumFunctionOnSet(sold, D) = SumFunctionOnSet(N, T)
    <2> HIDE DEF sold, N
    <2>. QED
      BY <1>2, <1>3, GroupsAddUp
  <1>6. /\ table = [t \in D |-> [bookings |-> Cardinality(Of(t)),
                                 nights_sold |-> sold[t], revenue |-> earned[t]]]
    BY DEF _room_type_performance, TypesOf, OfType
  <1>7. /\ [t \in DOMAIN table |-> table[t].revenue] = earned
        /\ [t \in DOMAIN table |-> table[t].nights_sold] = sold
    <2>1. DOMAIN earned = D /\ DOMAIN sold = D
      OBVIOUS
    <2>2. earned = [t \in D |-> earned[t]] /\ sold = [t \in D |-> sold[t]]
      OBVIOUS
    <2> HIDE DEF D, Of, table, earned, sold
    <2>. QED
      BY <1>6, <2>2
  <1>8. SumFunction(earned) = SumFunctionOnSet(earned, D) /\ SumFunction(sold) = SumFunctionOnSet(sold, D)
    BY DEF SumFunction
  <1>9. /\ total_revenue(start, end) = SumFunctionOnSet(E, T)
        /\ total_nights(start, end) = SumFunctionOnSet(N, T)
    BY ReportSums
  <1>10. /\ SumFunction([t \in DOMAIN table |-> table[t].revenue]) = SumFunction(earned)
         /\ SumFunction([t \in DOMAIN table |-> table[t].nights_sold]) = SumFunction(sold)
    <2> HIDE DEF table, earned, sold
    <2>. QED
      BY <1>7, Zenon
  <1>11. /\ SumFunction([t \in DOMAIN table |-> table[t].revenue]) = total_revenue(start, end)
         /\ SumFunction([t \in DOMAIN table |-> table[t].nights_sold]) = total_nights(start, end)
    <2> HIDE DEF table, earned, sold, D, T, E, N
    <2>. QED
      BY <1>4, <1>5, <1>8, <1>9, <1>10
  <1>. QED
    BY <1>11 DEF TableIsHeadline

-----------------------------------------------------------------------------
(***************************************************************************)
(* Rooms and nights.                                                       *)
(***************************************************************************)

OccupiedRooms(day) ==
  {rm \in Room :
    \E r \in Res : /\ booking[r].status \in BLOCKING_STATUSES
                   /\ booking[r].room = rm
                   /\ booking[r].check_in <= day /\ booking[r].check_out > day}

RoomsOfStatus(status) == {rm \in Room : room[rm] = status}

\* The dashboard counts every room once.
LEMMA RoomCounts ==
  ASSUME StayInv
  PROVE  /\ SumFunction(status_counts) = Cardinality(Room)
         /\ \A status \in RoomStatus :
              status_counts[status] = Cardinality(RoomsOfStatus(status))
  <1> DEFINE one == [rm \in Room |-> 1]  D == RoomStatus
  <1>1. \A status \in D : status_counts[status] = Cardinality(RoomsOfStatus(status))
    BY DEF status_counts, RoomsOfStatus
  <1>2. IsFiniteSet(Room)
    BY TablesFinite
  <1>3. IsFiniteSet(D)
    <2>1. D = ((({} \cup {"available"}) \cup {"occupied"}) \cup {"cleaning"}) \cup {"maintenance"}
      BY DEF RoomStatus
    <2>2. IsFiniteSet(((({} \cup {"available"}) \cup {"occupied"}) \cup {"cleaning"}) \cup {"maintenance"})
      BY FS_EmptySet, FS_AddElement
    <2> HIDE DEF D
    <2>. QED
      BY <2>1, <2>2, Zenon
  <1>4. \A status : RoomsOfStatus(status) = KeyedAs(Room, room, status)
    BY DEF RoomsOfStatus, KeyedAs
  <1>5. \A x \in Room : one[x] \in Int /\ one[x] = 1
    OBVIOUS
  <1>6. ASSUME NEW T \in SUBSET Room
        PROVE  SumFunctionOnSet(one, T) = Cardinality(T)
    <2>1. IsFiniteSet(T)
      BY <1>2, FS_Subset
    <2>2. \A x \in T : one[x] = IF x \in T THEN 1 ELSE 0
      BY <1>5
    <2>3. T \cap T = T
      OBVIOUS
    <2>4. SumFunctionOnSet(one, T) = Cardinality(T \cap T)
      <3> HIDE DEF one
      <3>. QED
        BY <2>1, <2>2, CardinalityIsSum
    <2>. QED
      BY <2>3, <2>4, Zenon
  <1>7. \A status \in D : status_counts[status] = SumFunctionOnSet(one, KeyedAs(Room, room, status))
    <2> TAKE status \in D
    <2>1. RoomsOfStatus(status) \in SUBSET Room
      BY DEF RoomsOfStatus
    <2>2. SumFunctionOnSet(one, RoomsOfStatus(status)) = Cardinality(RoomsOfStatus(status))
      BY <1>6, <2>1
    <2>3. RoomsOfStatus(status) = KeyedAs(Room, room, status)
      BY <1>4
    <2>4. SumFunctionOnSet(one, KeyedAs(Room, room, status)) = Cardinality(RoomsOfStatus(status))
      BY <2>2, <2>3, Zenon
    <2>. QED
      BY <1>1, <2>4
  <1>8. Keyed(Room, room, D) = Room
    BY DEF Keyed, StayInv, TypeInv, TypeOK
  <1>9. SumFunctionOnSet(status_counts, D) = SumFunctionOnSet(one, Keyed(Room, room, D))
    <2> HIDE DEF one, D
    <2>. QED
      BY <1>2, <1>3, <1>5, <1>7, SumByKey
  <1>10. SumFunctionOnSet(one, Keyed(Room, room, D)) = Cardinality(Room)
    <2>1. SumFunctionOnSet(one, Room) = Cardinality(Room)
      BY <1>6
    <2> HIDE DEF one, D
    <2>. QED
      BY <1>8, <2>1, Zenon
  <1>11. SumFunction(status_counts) = SumFunctionOnSet(status_counts, D)
    BY DEF SumFunction, status_counts
  <1>. QED
    BY <1>1, <1>9, <1>10, <1>11

\* The rooms sold for a night are in service.
LEMMA OccupiedIsSellable ==
  ASSUME StayInv, NoBookingInMaintenance, NEW day
  PROVE  /\ occupied_on(day) \in Int /\ sellable \in Int
         /\ status_counts["maintenance"] \in Int
         /\ sellable = Cardinality(Room) - status_counts["maintenance"]
         /\ Cardinality(Room) \in Int
         /\ occupied_on(day) <= sellable
  <1> DEFINE out == RoomsOfStatus("maintenance")
  <1>1. IsFiniteSet(Room) /\ out \in SUBSET Room /\ IsFiniteSet(out)
    BY TablesFinite, FS_Subset DEF RoomsOfStatus
  <1>2. /\ IsFiniteSet(Room \ out)
        /\ Cardinality(Room \ out) = Cardinality(Room) - Cardinality(Room \cap out)
    BY <1>1, FS_Difference
  <1>3. Room \cap out = out
    BY <1>1
  <1>4. status_counts["maintenance"] = Cardinality(out)
    BY RoomCounts DEF RoomStatus
  <1>5. Cardinality(Room) \in Nat /\ Cardinality(out) \in Nat
    BY <1>1, FS_CardinalityType
  <1>6. OccupiedRooms(day) \in SUBSET (Room \ out)
    BY DEF OccupiedRooms, NoBookingInMaintenance, IsBlocking, RoomsOfStatus
  <1>7. /\ Cardinality(OccupiedRooms(day)) \in Nat
        /\ Cardinality(OccupiedRooms(day)) <= Cardinality(Room \ out)
    BY <1>2, <1>6, FS_Subset, FS_CardinalityType
  <1>8. occupied_on(day) = Cardinality(OccupiedRooms(day))
    BY DEF occupied_on, OccupiedRooms
  <1>9. Cardinality(Room \cap out) = Cardinality(out)
    BY <1>3, Zenon
  <1>. QED
    <2> HIDE DEF out
    <2>. QED
      BY <1>2, <1>4, <1>5, <1>7, <1>8, <1>9 DEF sellable

\* Its three figures make up the rooms of the hotel.
LEMMA RoomsDoAddUp ==
  ASSUME StayInv, NoBookingInMaintenance
  PROVE  RoomsAddUp
  <1> DEFINE sold == occupied_on(today)  out == status_counts["maintenance"]
  <1>1. /\ sold \in Int /\ sellable \in Int /\ out \in Int /\ Cardinality(Room) \in Int
        /\ sellable = Cardinality(Room) - out /\ sold <= sellable
    BY OccupiedIsSellable
  <1>2. /\ dashboard.rooms_total = Cardinality(Room)
        /\ dashboard.rooms_occupied = sold /\ dashboard.rooms_out_of_service = out
        /\ dashboard.rooms_available = Later(sellable - sold, 0)
    BY RoomCounts DEF dashboard
  <1> HIDE DEF sold, out
  <1>. QED
    BY <1>1, <1>2 DEF RoomsAddUp, Later

\* A day of the chart.
LEMMA ChartDay ==
  ASSUME StayInv, NEW start \in Int, NEW end \in Int, NEW d \in start .. end
  PROVE  /\ occupied_per_day(start, end)[d] = Cardinality(OccupiedRooms(d))
         /\ occupied_per_day(start, end)[d] = occupied_on(d)
  <1> DEFINE rows == {r \in Res : /\ booking[r].status \in BLOCKING_STATUSES
                                  /\ booking[r].check_in <= end /\ booking[r].check_out > start}
             On == {r \in rows : d \in Later(booking[r].check_in, start) .. (LastNight(r, end) - 1)}
             Rooms == {booking[r].room : r \in On}
  <1>1. occupied_per_day(start, end)[d] = Cardinality(Rooms)
    BY DEF occupied_per_day
  <1>2. ASSUME NEW r \in Res, booking[r].status \in BLOCKING_STATUSES
        PROVE  /\ r \in On <=> booking[r].check_in <= d /\ booking[r].check_out > d
               /\ booking[r].room \in Room
    <2>1. booking[r] # NoRow
      BY <1>2, StatusOfNoRow DEF BLOCKING_STATUSES
    <2> DEFINE a == booking[r].check_in  b == booking[r].check_out
    <2>2. a \in Int /\ b \in Int /\ booking[r].room \in Room
      BY <2>1, RowColumns
    <2>3. r \in On <=> a <= end /\ b > start /\ d \in Later(a, start) .. (Earlier(b, end + 1) - 1)
      BY <1>2 DEF LastNight
    <2> HIDE DEF a, b, On
    <2>4. a <= end /\ b > start /\ d \in Later(a, start) .. (Earlier(b, end + 1) - 1)
            <=> a <= d /\ b > d
      BY <2>2 DEF Later, Earlier
    <2>. QED
      BY <2>2, <2>3, <2>4 DEF a, b
  <1>3. Rooms = OccupiedRooms(d)
    BY <1>2 DEF OccupiedRooms
  <1>4. occupied_on(d) = Cardinality(OccupiedRooms(d))
    BY DEF occupied_on, OccupiedRooms
  <1> HIDE DEF Rooms
  <1>5. Cardinality(Rooms) = Cardinality(OccupiedRooms(d))
    BY <1>3, Zenon
  <1>. QED
    BY <1>1, <1>4, <1>5

\* The last day of the trend is the dashboard's.
LEMMA TrendDoesEndToday ==
  ASSUME StayInv
  PROVE  TrendEndsToday
  <1> SUFFICES ASSUME NEW days \in 1 .. (MaxDay + 1)
               PROVE  occupancy_trend(days)[today]
                        = [occupied |-> dashboard.rooms_occupied, total |-> sellable]
    BY DEF TrendEndsToday
  <1> DEFINE start == today - days + 1
  <1>1. today \in Int /\ start \in Int /\ today \in start .. today
    BY DEF StayInv, TypeInv, TypeOK, Day
  <1>2. occupied_per_day(start, today)[today] = occupied_on(today)
    BY <1>1, ChartDay
  <1>3. DOMAIN occupied_per_day(start, today) = start .. today
    BY DEF occupied_per_day
  <1>. QED
    BY <1>1, <1>2, <1>3 DEF occupancy_trend, dashboard

\* The stays of the report that still keep their room, and their nights.
Keeping(start, end) == {r \in Reported(start, end) : booking[r].status \in BLOCKING_STATUSES}
StaysTheNight ==
  {x \in Res \X Int : booking[x[1]].check_in <= x[2] /\ x[2] < booking[x[1]].check_out}

\* A night of the chart counts the stays of that night, for no two are in one
\* room.
LEMMA ChartCountsStays ==
  ASSUME StayInv, NoDoubleBooking, NEW start \in Int, NEW end \in Int, NEW d \in start .. end
  PROVE  Cardinality(OccupiedRooms(d)) = Cardinality(ColumnOf(StaysTheNight, d, Keeping(start, end)))
  <1> DEFINE C == ColumnOf(StaysTheNight, d, Keeping(start, end))  O == OccupiedRooms(d)
             f == [r \in C |-> booking[r].room]
  <1>1. ASSUME NEW r \in Res, booking[r].status \in BLOCKING_STATUSES
        PROVE  /\ booking[r].check_in \in Int /\ booking[r].check_out \in Int
               /\ booking[r].room \in Room
               /\ r \in C <=> booking[r].check_in <= d /\ d < booking[r].check_out
    <2>1. booking[r] # NoRow /\ booking[r].status \notin {"cancelled", "no_show"}
      BY <1>1, StatusOfNoRow DEF BLOCKING_STATUSES
    <2>2. /\ booking[r].check_in \in Int /\ booking[r].check_out \in Int
          /\ booking[r].room \in Room
      BY <2>1, RowColumns
    <2>3. <<r, d>> \in StaysTheNight <=> booking[r].check_in <= d /\ d < booking[r].check_out
      BY DEF StaysTheNight
    <2>4. booking[r].check_in <= d /\ d < booking[r].check_out => r \in Reported(start, end)
      BY <2>1, <2>2 DEF Reported
    <2>. QED
      BY <1>1, <2>2, <2>3, <2>4 DEF ColumnOf, Keeping
  <1>2. \A r \in C : r \in Res /\ booking[r].status \in BLOCKING_STATUSES
    BY DEF ColumnOf, Keeping, Reported
  <1>3. IsFiniteSet(C)
    BY <1>2, TablesFinite, FS_Subset
  <1>4. f \in [C -> O]
    BY <1>1, <1>2 DEF OccupiedRooms
  <1>5. \A rm \in O : \E r \in C : f[r] = rm
    BY <1>1 DEF OccupiedRooms
  <1>6. ASSUME NEW a \in C, NEW b \in C, f[a] = f[b] PROVE a = b
    <2>1. d \in NightsOf(a) /\ d \in NightsOf(b)
      BY <1>1, <1>2 DEF NightsOf, Nights
    <2>2. IsBlocking(a) /\ IsBlocking(b) /\ booking[a].room = booking[b].room
      BY <1>2, <1>6 DEF IsBlocking
    <2>. QED
      BY <1>2, <2>1, <2>2 DEF NoDoubleBooking
  <1> HIDE DEF C, O, f
  <1>7. f \in Surjection(C, O) /\ f \in Injection(C, O)
    BY <1>4, <1>5, <1>6 DEF Surjection, Injection, IsInjective
  <1>8. Cardinality(O) = Cardinality(C)
    BY <1>3, <1>7, FS_Surjection
  <1>. QED
    BY <1>8 DEF C, O

\* The nights of a stay in a window are days of it.
LEMMA NightsAreDays ==
  ASSUME StayInv, NEW start \in Int, NEW end \in Int, NEW r \in Keeping(start, end)
  PROVE  nights_in_window(r, start, end) = Cardinality(RowOf(StaysTheNight, r, start .. end))
  <1> DEFINE a == booking[r].check_in  b == booking[r].check_out
             from == Later(a, start)  to == Earlier(b, end + 1) - 1
  <1>1. r \in Res /\ a \in Int /\ b \in Int
    BY RowColumns DEF Keeping, Reported
  <1>2. nights_in_window(r, start, end) = Later(0, Earlier(b, end + 1) - Later(a, start))
    BY DEF nights_in_window
  <1>3. RowOf(StaysTheNight, r, start .. end) = {d \in start .. end : a <= d /\ d < b}
    BY <1>1 DEF RowOf, StaysTheNight
  <1> HIDE DEF a, b
  <1>4. {d \in start .. end : a <= d /\ d < b} = from .. to
    BY <1>1 DEF Later, Earlier
  <1>5. from \in Int /\ to \in Int
    BY <1>1 DEF Later, Earlier
  <1>6. Cardinality(from .. to) = IF from > to THEN 0 ELSE to - from + 1
    <2> HIDE DEF from, to
    <2>. QED
      BY <1>5, FS_Interval
  <1>7. nights_in_window(r, start, end) = Cardinality(from .. to)
    BY <1>1, <1>2, <1>6 DEF Later, Earlier
  <1>8. RowOf(StaysTheNight, r, start .. end) = from .. to
    BY <1>3, <1>4
  <1>. QED
    <2> HIDE DEF from, to
    <2>. QED
      BY <1>7, <1>8, Zenon

\* The chart counts nights by the day, the report by the stay: one relation
\* counted along both its sides.
LEMMA ChartIsTheReport ==
  ASSUME StayInv, NoDoubleBooking, NoBookingInMaintenance,
         NEW start \in Int, NEW end \in Int
  PROVE  ChartIsReport(start, end)
  <1> DEFINE chart == occupied_per_day(start, end)  D == start .. end
             K == Keeping(start, end)  L == Departed(start, end)  T == Reported(start, end)
             N == NightsBy(start, end)
             n == [r \in L |-> nights_in_window(r, start, end)]
  <1>1. ASSUME NEW d \in D PROVE chart[d] = occupied_on(d) /\ chart[d] <= sellable
    BY ChartDay, OccupiedIsSellable
  <1>2. /\ IsFiniteSet(T) /\ IsFiniteSet(K) /\ IsFiniteSet(L) /\ IsFiniteSet(D)
        /\ K \cap L = {} /\ K \cup L = T
    <2>1. IsFiniteSet(Live)
      BY TablesFinite, FS_Subset DEF Live
    <2>2. IsFiniteSet(T)
      BY <2>1, ReportedIsLive, FS_Subset
    <2>3. K \in SUBSET T /\ L \in SUBSET T
      BY DEF Keeping, Departed
    <2>4. K \cap L = {}
      BY DEF Keeping, Departed, BLOCKING_STATUSES
    <2>5. \A r \in T : r \in K \/ r \in L
      <3> TAKE r \in T
      <3>1. r \in Res /\ booking[r] # NoRow /\ booking[r].status \notin {"cancelled", "no_show"}
        BY DEF Reported
      <3>2. booking[r].status \in ReservationStatus
        BY <3>1, RowColumns
      <3>. QED
        BY <3>1, <3>2 DEF Keeping, Departed, ReservationStatus, BLOCKING_STATUSES
    <2>. QED
      BY <2>2, <2>3, <2>4, <2>5, FS_Subset, FS_Interval
  <1>3. \A r \in T : N[r] = nights_in_window(r, start, end) /\ N[r] \in Int
    <2> TAKE r \in T
    <2>1. r \in Res /\ Kept(r)
      BY ReportedIsLive DEF Live
    <2>2. N[r] = nights_in_window(r, start, end)
      BY <2>1 DEF NightsBy
    <2>. QED
      BY <2>1, <2>2, WindowNights
  <1>4. \A r \in K : N[r] = Cardinality(RowOf(StaysTheNight, r, D))
    <2> TAKE r \in K
    <2>1. r \in T
      BY <1>2
    <2>. QED
      BY <1>3, <2>1, NightsAreDays
  <1>5. \A d \in D : chart[d] = Cardinality(ColumnOf(StaysTheNight, d, K))
    <2> TAKE d \in D
    <2>1. chart[d] = Cardinality(OccupiedRooms(d))
      BY ChartDay
    <2>2. Cardinality(OccupiedRooms(d)) = Cardinality(ColumnOf(StaysTheNight, d, K))
      BY ChartCountsStays
    <2>. QED
      BY <2>1, <2>2
  <1>6. SumFunction(chart) = SumFunctionOnSet(chart, D)
    BY DEF SumFunction, occupied_per_day
  <1>7. SumFunction(n) = SumFunctionOnSet(n, L)
    BY DEF SumFunction
  <1>8. \A r \in L : N[r] = n[r]
    BY <1>2, <1>3
  <1>9. total_nights(start, end) = SumFunctionOnSet(N, T)
    BY ReportSums
  <1> HIDE DEF chart, D, K, L, T, N, n
  <1>10. SumFunctionOnSet(N, K) = SumFunctionOnSet(chart, D)
    BY <1>2, <1>4, <1>5, CountTwice
  <1>11. SumFunctionOnSet(N, L) = SumFunctionOnSet(n, L)
    BY <1>2, <1>8, SumSame
  <1>12. SumFunctionOnSet(N, K \cup L) = SumFunctionOnSet(N, K) + SumFunctionOnSet(N, L)
    BY <1>2, <1>3, SumUnion
  <1>13. SumFunctionOnSet(N, K \cup L) = SumFunctionOnSet(N, T)
    BY <1>2, Zenon
  <1>14. SumFunction(chart) + SumFunction(n) = total_nights(start, end)
    BY <1>6, <1>7, <1>9, <1>10, <1>11, <1>12, <1>13
  <1>. QED
    BY <1>1, <1>14 DEF ChartIsReport, chart, D, n, L

-----------------------------------------------------------------------------
(***************************************************************************)
(* The four accounts.                                                      *)
(***************************************************************************)

\* Whoever keeps a room from being sold for tonight, or still has a room that
\* was, is on the board (front_desk, find_available).
THEOREM BoardShowsEverybody == ApartSpec => [](BoardComplete /\ NobodyDisappears)
  <1>1. StayInv /\ ArrivalInv /\ TablesAgree => BoardComplete /\ NobodyDisappears
    BY BoardIsComplete DEF NobodyDisappears, ArrivalInv, TablesAgree
  <1>. QED
    BY <1>1, ArrivalHolds, DeskAgrees, PTL

\* The search offers rooms in service with no night booked, misses none that
\* nobody holds, and asks the price a booking stores, whatever requests are in
\* flight, constraint or not (find_available, create).
THEOREM SearchAgrees == Spec => [](SearchOneAccount /\ SearchMatchesBooking)
  <1>1. StayInv => SearchOneAccount /\ SearchMatchesBooking
    <2> SUFFICES ASSUME StayInv, NEW w \in Windows PROVE OffersUnsoldRooms(w[1], w[2])
      BY DEF SearchOneAccount, SearchMatchesBooking
    <2>1. w[1] \in Int /\ w[2] \in Int
      BY DEF Windows, Day
    <2>. QED
      BY <2>1, SearchIsBooking
  <1>. QED
    BY <1>1, StayInvAlways, PTL

\* Chart, dashboard and report count the same nights, and none beyond the
\* rooms in service (occupied_per_day, report, dashboard).
THEOREM NightsAgree == ApartSpec => [](NightsOneAccount /\ NightsReconcile)
  <1>1. StayInv /\ TablesAgree => NightsOneAccount /\ NightsReconcile
    <2> SUFFICES ASSUME StayInv, TablesAgree PROVE NightsOneAccount
      BY DEF NightsReconcile
    <2>1. NoDoubleBooking /\ NoBookingInMaintenance
      BY DEF TablesAgree
    <2>2. \A w \in Windows : ChartIsReport(w[1], w[2])
      <3> TAKE w \in Windows
      <3>1. w[1] \in Int /\ w[2] \in Int
        BY DEF Windows, Day
      <3>. QED
        BY <2>1, <3>1, ChartIsTheReport
    <2>. QED
      BY <2>1, <2>2, RoomsDoAddUp, TrendDoesEndToday DEF NightsOneAccount
  <1>. QED
    BY <1>1, DeskAgrees, PTL

\* Revenue is earned once, and all of it is what was charged (report,
\* _room_type_performance).
THEOREM RevenueAgrees == ApartSpec => [](RevenueOneAccount /\ ReportAddsUp)
  <1>1. StayInv /\ TablesAgree => RevenueOneAccount /\ ReportAddsUp
    <2> SUFFICES ASSUME StayInv, TablesAgree PROVE RevenueOneAccount
      BY DEF ReportAddsUp
    <2>1. ASSUME NEW w \in Windows
          PROVE  /\ \A d \in w[1] .. (w[2] - 1) : EarnedOnce(w[1], d, w[2])
                 /\ TableIsHeadline(w[1], w[2])
      <3>1. w[1] \in Int /\ w[2] \in Int
        BY DEF Windows, Day
      <3>2. ASSUME NEW d \in w[1] .. (w[2] - 1) PROVE EarnedOnce(w[1], d, w[2])
        BY <3>1, RevenueEarnedOnce
      <3>. QED
        BY <3>1, <3>2, TableAddsUp
    <2>2. total_revenue(0, MaxDay)
            = SumFunction([r \in {x \in Res : Kept(x)} |-> booking[r].total])
      BY ChargesEarned DEF TablesAgree
    <2>. QED
      BY <2>1, <2>2 DEF RevenueOneAccount
  <1>. QED
    BY <1>1, DeskAgrees, PTL

=============================================================================
