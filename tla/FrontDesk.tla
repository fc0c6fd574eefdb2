----------------------------- MODULE FrontDesk -----------------------------
(***************************************************************************)
(* The reservation service and the room service over one database.         *)
(*                                                                         *)
(* Every staff request runs in a database session of its own and may be    *)
(* interleaved with the others at each await.  A handler loads the rows it *)
(* needs, decides on those copies, asks the database further questions,    *)
(* and commits.  The ORM writes only the columns whose value differs from  *)
(* the loaded copy, matched by primary key alone, so a request carries the *)
(* loaded row (old) beside the row it wants (new) until its commit.        *)
(* The isolation level is READ COMMITTED: a query sees what is committed   *)
(* when it runs; a commit is one step.                                     *)
(***************************************************************************)
EXTENDS HotelDomain

CONSTANTS
  Res,            \* ids the reservations table may come to use
  Room,           \* rooms of the hotel
  Session,        \* requests that may be in flight at once
  Manager,        \* the sessions whose acting_user is a manager or an admin
  MaxDay,         \* last day of the calendar (a bound)
  Rates,          \* nightly rates
  BasePrice,      \* base_price of each room's type
  HasExclusion,   \* the no_double_booking constraint exists (PostgreSQL)
  Requests        \* the kinds of request the staff make (a bound)

Day == 0 .. MaxDay

RequestKind ==
  {"create", "update", "check_in", "check_out", "cancel", "no_show", "set_status"}

ASSUME FrontDeskAssumption ==
  /\ Manager \subseteq Session
  /\ MaxDay \in Nat
  /\ Rates \subseteq Nat \ {0}
  /\ BasePrice \in [Room -> Rates]
  /\ HasExclusion \in BOOLEAN
  /\ Requests \subseteq RequestKind

VARIABLES
  booking,   \* the reservations table
  room,      \* the status column of the rooms table
  today,     \* date.today()
  req        \* what each session is in the middle of

vars == <<booking, room, today, req>>

-----------------------------------------------------------------------------
(***************************************************************************)
(* Rows and requests.                                                      *)
(***************************************************************************)

\* A reservation row; waived says whether waived_amount has been recorded.
Row ==
  [status: ReservationStatus, room: Room, check_in: Day, check_out: Day,
   rate: Rates, total: 0 .. MAX_TOTAL_PRICE, waived: BOOLEAN]

NoRow == [status |-> "absent"]

\* No request in flight, and a request that met an IntegrityError nobody
\* caught: it is about to be answered 500.
Idle == [op |-> "idle"]
Failed == [op: RequestKind, pc: {"failed"}]

CreateReq == [op: {"create"}, pc: {"available", "commit"}, new: Row]

UpdateReq ==
  [op: {"update"}, pc: {"room", "available", "commit"},
   id: Res, old: Row, new: Row]

\* check_in, check_out, cancel and mark_no_show hold the room row as well.
LifecycleReq ==
  [op: {"check_in", "check_out", "cancel", "no_show"},
   pc: {"occupants", "balance", "commit"}, id: Res, old: Row, new: Row,
   room: Room, room_old: RoomStatus, room_new: RoomStatus]

RoomReq ==
  [op: {"set_status"}, pc: {"occupants", "blocking", "commit"},
   room: Room, room_old: RoomStatus, room_new: RoomStatus]

Request ==
  {Idle} \cup Failed \cup CreateReq \cup UpdateReq \cup LifecycleReq \cup RoomReq

-----------------------------------------------------------------------------
(***************************************************************************)
(* Queries, on the committed state.                                        *)
(***************************************************************************)

\* is_available: no other blocking stay of the room overlaps the range,
\* those with an id in exclude apart.
IsAvailable_OnlyExpected(exclude, rm, check_in, check_out) ==
  \A r \in Res \ exclude :
    ~ /\ booking[r].status \in EDITABLE_STATUSES
      /\ booking[r].room = rm
      /\ Overlaps(booking[r].check_in, booking[r].check_out, check_in, check_out)
IsAvailable(exclude, rm, check_in, check_out) ==
  \A r \in Res \ exclude :
    ~ /\ booking[r].status \in BLOCKING_STATUSES
      /\ booking[r].room = rm
      /\ Overlaps(booking[r].check_in, booking[r].check_out, check_in, check_out)

\* active_for_room: the stays checked into the room.
ActiveForRoom_DueToday(rm) ==
  {r \in Res : /\ booking[r].status = "checked_in"
               /\ booking[r].room = rm
               /\ booking[r].check_out > today}
ActiveForRoom(rm) ==
  {r \in Res : booking[r].status = "checked_in" /\ booking[r].room = rm}

\* blocking_for_room: every stay holding the room.
BlockingForRoom_Upcoming(rm) ==
  {r \in Res : /\ booking[r].status \in BLOCKING_STATUSES
               /\ booking[r].room = rm
               /\ booking[r].check_in >= today}
BlockingForRoom(rm) ==
  {r \in Res : booking[r].status \in BLOCKING_STATUSES /\ booking[r].room = rm}

-----------------------------------------------------------------------------
(***************************************************************************)
(* Database constraints, judged on the row as the commit leaves it.        *)
(***************************************************************************)

\* ck_reservation_dates
DatesOK_Unchecked(row) == TRUE
DatesOK(row) == row.check_out > row.check_in

\* no_double_booking: among the rows with a blocking status, no two have the
\* same room and a common night.  Absent on SQLite.
ExclusionOK_Lowercase(id, row) == TRUE
ExclusionOK(id, row) ==
  HasExclusion /\ row.status \in BLOCKING_STATUSES =>
    \A r \in Res \ {id} :
      ~ /\ booking[r].status \in BLOCKING_STATUSES
        /\ booking[r].room = row.room
        /\ Nights(booking[r].check_in, booking[r].check_out)
             \cap Nights(row.check_in, row.check_out) # {}

-----------------------------------------------------------------------------
(***************************************************************************)
(* The ORM's unit of work.                                                 *)
(***************************************************************************)

\* What an UPDATE leaves in a column: the wanted value if it differs from the
\* loaded one, else whatever is in the table by now.
Written(old, new, current) == IF new = old THEN current ELSE new

WrittenRow(old, new, current) ==
  [status    |-> Written(old.status, new.status, current.status),
   room      |-> Written(old.room, new.room, current.room),
   check_in  |-> Written(old.check_in, new.check_in, current.check_in),
   check_out |-> Written(old.check_out, new.check_out, current.check_out),
   rate      |-> Written(old.rate, new.rate, current.rate),
   total     |-> Written(old.total, new.total, current.total),
   waived    |-> Written(old.waived, new.waived, current.waived)]

\* Session s may start handling a request of this kind; it does so with its
\* first load.
Ready(s, op) == req[s] = Idle /\ op \in Requests

At(s, ops, pc) == req[s].op \in ops /\ req[s].pc = pc

\* The handler of s goes on with q as its state.
Continue(s, q) ==
  /\ req' = [req EXCEPT ![s] = q]
  /\ UNCHANGED <<booking, room, today>>

GoTo(s, pc) == Continue(s, [req[s] EXCEPT !.pc = pc])

\* An AppError: the session is rolled back and the request is answered.
Refuse(s) == Continue(s, Idle)

\* An IntegrityError that is not translated.
ServerError(s) == Continue(s, [op |-> req[s].op, pc |-> "failed"])

-----------------------------------------------------------------------------
(***************************************************************************)
(* Rules the handlers apply to the rows they have loaded.                  *)
(***************************************************************************)

\* A request without nightly_rate; schemas admit only positive rates.
NoRate == 0

\* _assert_may_set_rate
MaySetRate(s, override) == override # NoRate => s \in Manager

\* accommodation_charge refuses a total the column cannot store.
PriceFits_Unchecked(row) == row.total \in Nat
PriceFits(row) == row.total <= MAX_TOTAL_PRICE

\* The row create inserts.
NewRow(rm, check_in, check_out, override) ==
  LET rate == IF override = NoRate THEN BasePrice[rm] ELSE override
  IN  [status |-> "confirmed", room |-> rm,
       check_in |-> check_in, check_out |-> check_out, rate |-> rate,
       total |-> accommodation_charge(rate, check_out - check_in),
       waived |-> FALSE]

\* The loaded row after update's assignments: moving to another room re-prices
\* at its type unless a rate is given, and the total is always recomputed.
EditedRow_KeepsTotal(old, rm, check_in, check_out, override) ==
  LET rate == IF override # NoRate THEN override
              ELSE IF rm # old.room THEN BasePrice[rm] ELSE old.rate
  IN  [old EXCEPT !.room = rm, !.check_in = check_in, !.check_out = check_out,
                  !.rate = rate,
                  !.total = IF rate = old.rate THEN @
                            ELSE accommodation_charge(rate, check_out - check_in)]
EditedRow(old, rm, check_in, check_out, override) ==
  LET rate == IF override # NoRate THEN override
              ELSE IF rm # old.room THEN BasePrice[rm] ELSE old.rate
  IN  [old EXCEPT !.room = rm, !.check_in = check_in, !.check_out = check_out,
                  !.rate = rate,
                  !.total = accommodation_charge(rate, check_out - check_in)]

\* Only a booking that has not been checked in may be edited.
MayEdit_InHouse(row) == row.status \in BLOCKING_STATUSES
MayEdit(row) == row.status \in EDITABLE_STATUSES

MayCheckIn(row) == row.status \in EDITABLE_STATUSES /\ row.check_in <= today

MayCancel_Again(row) == row.status \in ReservationStatus \ {"cancelled"}
MayCancel(row) == row.status \in ReservationStatus \ {"cancelled", "checked_out"}

\* An in-house stay is cancelled, and a debt written off, by a manager only.
IsManager_Anyone(s) == s \in Session
IsManager(s) == s \in Manager

\* The status cancel leaves the loaded room in.
RoomAfterCancel_Unchanged(row) == room[row.room]
RoomAfterCancel(row) ==
  IF row.status = "checked_in" THEN "cleaning" ELSE room[row.room]

\* The occupancy rule of update_room: cleaning a room with a guest in it
\* returns it to OCCUPIED.
Housekept_AsAsked(status, occupied) == status
Housekept(status, occupied) ==
  IF status = "available" /\ occupied THEN "occupied" ELSE status

-----------------------------------------------------------------------------
(***************************************************************************)
(* POST /reservations                                                      *)
(***************************************************************************)

\* create up to the room it loads.  The id bound Res stops new bookings.
Create(s) ==
  /\ Ready(s, "create")
  /\ \E r \in Res : booking[r] = NoRow
  /\ \E rm \in Room, check_in, check_out \in Day, override \in Rates \cup {NoRate} :
       LET new == NewRow(rm, check_in, check_out, override)
       IN  /\ MaySetRate(s, override)
           /\ StayRangeOK(check_in, check_out)
           /\ check_in >= today
           /\ IsBookable(room[rm])
           /\ PriceFits(new)
           /\ Continue(s, [op |-> "create", pc |-> "available", new |-> new])

\* _assert_room_free asks is_available, for create and for update.
CheckAvailable(s) ==
  LET q == req[s]
      exclude == IF q.op = "update" THEN {q.id} ELSE {}
  IN  /\ At(s, {"create", "update"}, "available")
      /\ IF IsAvailable(exclude, q.new.room, q.new.check_in, q.new.check_out)
         THEN GoTo(s, "commit")
         ELSE Refuse(s)

\* The INSERT is flushed inside BaseRepository.create, before the try block of
\* _commit_booking: an exclusion violation there is nobody's to translate.
Insert(s) ==
  /\ At(s, {"create"}, "commit")
  /\ \E r \in Res :
       /\ booking[r] = NoRow
       /\ IF ExclusionOK(r, req[s].new)
          THEN /\ booking' = [booking EXCEPT ![r] = req[s].new]
               /\ req' = [req EXCEPT ![s] = Idle]
               /\ UNCHANGED <<room, today>>
          ELSE ServerError(s)

-----------------------------------------------------------------------------
(***************************************************************************)
(* PATCH /reservations/{id}                                                *)
(***************************************************************************)

\* update up to its first query after loading the reservation.  A move loads
\* the other room next; new dates alone are judged on the room loaded with the
\* reservation; anything else goes straight to the commit.
Update(s) ==
  /\ Ready(s, "update")
  /\ \E r \in Res :
       /\ MayEdit(booking[r])
       /\ \E rm \in Room, check_in, check_out \in Day, override \in Rates \cup {NoRate} :
            LET old   == booking[r]
                new   == EditedRow(old, rm, check_in, check_out, override)
                moved == rm # old.room
                dated == check_in # old.check_in \/ check_out # old.check_out
            IN  /\ MaySetRate(s, override)
                /\ StayRangeOK(check_in, check_out)
                /\ check_in # old.check_in => check_in >= today
                /\ dated /\ ~moved => IsBookable(room[rm])
                /\ PriceFits(new)
                /\ Continue(s, [op |-> "update", id |-> r, old |-> old, new |-> new,
                                pc |-> IF moved THEN "room"
                                       ELSE IF dated THEN "available" ELSE "commit"])

\* _assert_room_free loads the room the stay moves to.
UpdateRoom(s) ==
  /\ At(s, {"update"}, "room")
  /\ IF IsBookable(room[req[s].new.room])
     THEN GoTo(s, "available")
     ELSE Refuse(s)

\* _commit_booking: here the UPDATE is sent by the commit, so a violation of
\* no_double_booking becomes a conflict; one of ck_reservation_dates does not.
CommitUpdate(s) ==
  LET q   == req[s]
      row == WrittenRow(q.old, q.new, booking[q.id])
  IN  /\ At(s, {"update"}, "commit")
      /\ \/ /\ DatesOK(row) /\ ExclusionOK(q.id, row)
            /\ booking' = [booking EXCEPT ![q.id] = row]
            /\ req' = [req EXCEPT ![s] = Idle]
            /\ UNCHANGED <<room, today>>
         \/ DatesOK(row) /\ ~ExclusionOK(q.id, row) /\ Refuse(s)
         \/ ~DatesOK(row) /\ ServerError(s)

-----------------------------------------------------------------------------
(***************************************************************************)
(* POST /reservations/{id}/check-in, /check-out, /cancel and /no-show      *)
(***************************************************************************)

\* The state of a lifecycle handler that wants the loaded reservation r to
\* become new and the loaded room to take room status rm_new.
Lifecycle(op, pc, r, new, rm_new) ==
  [op |-> op, pc |-> pc, id |-> r, old |-> booking[r], new |-> new,
   room |-> new.room, room_old |-> room[new.room], room_new |-> rm_new]

CheckIn(s) ==
  /\ Ready(s, "check_in")
  /\ \E r \in Res :
       /\ MayCheckIn(booking[r])
       /\ room[booking[r].room] # "maintenance"
       /\ Continue(s, Lifecycle("check_in", "occupants", r,
                               [booking[r] EXCEPT !.status = "checked_in"],
                               "occupied"))

\* The room has to be physically empty first.
CheckInOccupants(s) ==
  /\ At(s, {"check_in"}, "occupants")
  /\ IF ActiveForRoom(req[s].room) = {} THEN GoTo(s, "commit") ELSE Refuse(s)

CheckOut(s) ==
  /\ Ready(s, "check_out")
  /\ \E r \in Res :
       /\ booking[r].status = "checked_in"
       /\ Continue(s, Lifecycle("check_out", "balance", r,
                               [booking[r] EXCEPT !.status = "checked_out"],
                               "cleaning"))

Cancel(s) ==
  /\ Ready(s, "cancel")
  /\ \E r \in Res :
       LET in_house == booking[r].status = "checked_in"
       IN  /\ MayCancel(booking[r])
           /\ in_house => IsManager(s)
           /\ Continue(s, Lifecycle("cancel",
                                   IF in_house THEN "balance" ELSE "commit", r,
                                   [booking[r] EXCEPT !.status = "cancelled"],
                                   RoomAfterCancel(booking[r])))

\* balance() for a guest about to leave: a debt stops the request unless a
\* manager asked for it to be written off, which is recorded on the row.
\* Payments are not part of this module, so a debt may or may not be left.
Balance(s) ==
  /\ At(s, {"check_out", "cancel"}, "balance")
  /\ \E owes, waive \in BOOLEAN :
       \/ ~owes /\ GoTo(s, "commit")
       \/ /\ owes /\ waive /\ IsManager(s)
          /\ Continue(s, [req[s] EXCEPT !.pc = "commit", !.new.waived = TRUE])
       \/ owes /\ ~(waive /\ IsManager(s)) /\ Refuse(s)

\* The route admits managers only.
MarkNoShow(s) ==
  /\ Ready(s, "no_show")
  /\ s \in Manager
  /\ \E r \in Res :
       /\ booking[r].status \in EDITABLE_STATUSES
       /\ booking[r].check_in <= today
       /\ Continue(s, Lifecycle("no_show", "commit", r,
                               [booking[r] EXCEPT !.status = "no_show"],
                               room[booking[r].room]))

\* One transaction writes the reservation and its room.  These handlers commit
\* without _commit_booking.
CommitLifecycle(s) ==
  LET q   == req[s]
      row == WrittenRow(q.old, q.new, booking[q.id])
  IN  /\ At(s, {"check_in", "check_out", "cancel", "no_show"}, "commit")
      /\ IF ExclusionOK(q.id, row)
         THEN /\ booking' = [booking EXCEPT ![q.id] = row]
              /\ room' = [room EXCEPT ![q.room] = Written(q.room_old, q.room_new, @)]
              /\ req' = [req EXCEPT ![s] = Idle]
              /\ UNCHANGED today
         ELSE ServerError(s)

-----------------------------------------------------------------------------
(***************************************************************************)
(* POST /rooms/{id}/status and the status field of PATCH /rooms/{id}       *)
(***************************************************************************)

SetStatus(s) ==
  /\ Ready(s, "set_status")
  /\ \E rm \in Room, status \in RoomStatus :
       /\ status = "maintenance" => s \in Manager
       /\ Continue(s, [op |-> "set_status",
                      pc |-> IF status \in {"maintenance", "available"}
                             THEN "occupants" ELSE "commit",
                      room |-> rm, room_old |-> room[rm], room_new |-> status])

\* Occupants keep a room in service and keep it from being called available.
RoomOccupants(s) ==
  LET q        == req[s]
      occupied == ActiveForRoom(q.room) # {}
  IN  /\ At(s, {"set_status"}, "occupants")
      /\ \/ q.room_new = "maintenance" /\ occupied /\ Refuse(s)
         \/ q.room_new = "maintenance" /\ ~occupied /\ GoTo(s, "blocking")
         \/ /\ q.room_new # "maintenance"
            /\ Continue(s, [q EXCEPT !.pc = "commit",
                                     !.room_new = Housekept(@, occupied)])

\* A booking holding the room keeps it in service as well.
RoomBlocking(s) ==
  /\ At(s, {"set_status"}, "blocking")
  /\ IF BlockingForRoom(req[s].room) = {} THEN GoTo(s, "commit") ELSE Refuse(s)

CommitRoom(s) ==
  LET q == req[s]
  IN  /\ At(s, {"set_status"}, "commit")
      /\ room' = [room EXCEPT ![q.room] = Written(q.room_old, q.room_new, @)]
      /\ req' = [req EXCEPT ![s] = Idle]
      /\ UNCHANGED <<booking, today>>

-----------------------------------------------------------------------------
(***************************************************************************)
(* The environment and the specification.                                  *)
(***************************************************************************)

\* get_db's except branch: the client is gone, the worker is stopped, or the
\* 500 is sent.  Nothing uncommitted survives.
Rollback(s) == req[s] # Idle /\ Refuse(s)

Tick ==
  /\ today < MaxDay
  /\ today' = today + 1
  /\ UNCHANGED <<booking, room, req>>

Init ==
  /\ booking = [r \in Res |-> NoRow]
  /\ room = [rm \in Room |-> "available"]
  /\ today = 0
  /\ req = [s \in Session |-> Idle]

Step(s) ==
  \/ Create(s) \/ CheckAvailable(s) \/ Insert(s)
  \/ Update(s) \/ UpdateRoom(s) \/ CommitUpdate(s)
  \/ CheckIn(s) \/ CheckInOccupants(s)
  \/ CheckOut(s) \/ Cancel(s) \/ Balance(s) \/ MarkNoShow(s)
  \/ CommitLifecycle(s)
  \/ SetStatus(s) \/ RoomOccupants(s) \/ RoomBlocking(s) \/ CommitRoom(s)
  \/ Rollback(s)

Next == Tick \/ \E s \in Session : Step(s)

Spec == Init /\ [][Next]_vars

(***************************************************************************)
(* The desk when no two requests in flight are about the same room: one    *)
(* request at a time is the special case with a single session.            *)
(***************************************************************************)
RoomsOf(q) ==
  IF q = Idle \/ q.pc = "failed" THEN {}
  ELSE CASE q.op = "create" -> {q.new.room}
         [] q.op = "update" -> {q.old.room, q.new.room}
         [] OTHER           -> {q.room}

RoomsApart ==
  \A s, t \in Session : s # t => RoomsOf(req[s]) \cap RoomsOf(req[t]) = {}

ApartSpec == Spec /\ []RoomsApart

=============================================================================
