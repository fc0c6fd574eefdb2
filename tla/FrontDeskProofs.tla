--------------------------- MODULE FrontDeskProofs ---------------------------
(***************************************************************************)
(* What holds of the front desk for any hotel and any calendar: first for  *)
(* any number of concurrent requests, then while no two requests in flight *)
(* are about the same room.                                                *)
(***************************************************************************)
EXTENDS FrontDeskProperties, TLAPS

-----------------------------------------------------------------------------
(***************************************************************************)
(* Typing.  TypeOK is not inductive by itself: a commit merges into the    *)
(* row its request loaded earlier, which must still be there.              *)
(***************************************************************************)

\* The requests that will write to a reservation they have loaded.
Targeting == UpdateReq \cup LifecycleReq

LoadedExists ==
  \A s \in Session : req[s] \in Targeting => booking[req[s].id] \in Row

TypeInv == TypeOK /\ LoadedExists

\* A request past its first stage has the fields of its handler.
LEMMA StageFields ==
  ASSUME NEW q \in Request, q # Idle, q.pc # "failed"
  PROVE  /\ q.op = "create" => q \in CreateReq
         /\ q.op = "update" => q \in UpdateReq
         /\ q.op \in {"check_in", "check_out", "cancel", "no_show"} => q \in LifecycleReq
         /\ q.op = "set_status" => q \in RoomReq
  BY DEF Request, Idle, Failed, CreateReq, UpdateReq, LifecycleReq, RoomReq

\* Going on with a well-formed request disturbs nothing.
LEMMA ContinueTypeInv ==
  ASSUME TypeInv, NEW s \in Session, NEW q \in Request, Continue(s, q),
         q \in Targeting => booking[q.id] \in Row
  PROVE  TypeInv'
  <1>1. TypeOK'
    BY DEF TypeInv, TypeOK, Continue
  <1>2. LoadedExists'
    BY DEF TypeInv, TypeOK, LoadedExists, Continue
  <1>. QED
    BY <1>1, <1>2 DEF TypeInv

LEMMA RefuseTypeInv ==
  ASSUME TypeInv, NEW s \in Session, Refuse(s)
  PROVE  TypeInv'
  <1>1. Idle \in Request /\ Idle \notin Targeting
    BY DEF Request, Idle, Targeting, UpdateReq, LifecycleReq
  <1>. QED
    BY <1>1, ContinueTypeInv DEF Refuse

LEMMA ServerErrorTypeInv ==
  ASSUME TypeInv, NEW s \in Session, req[s].op \in RequestKind, ServerError(s)
  PROVE  TypeInv'
  <1> DEFINE q == [op |-> req[s].op, pc |-> "failed"]
  <1>1. q \in Failed
    BY DEF Failed
  <1>2. q \in Request /\ q \notin Targeting
    BY <1>1 DEF Request, Failed, Targeting, UpdateReq, LifecycleReq
  <1>3. Continue(s, q)
    BY DEF ServerError
  <1>. QED
    BY <1>2, <1>3, ContinueTypeInv

\* The price of a stay with at least one night is a natural number.
LEMMA ChargeIsNat ==
  ASSUME NEW rate \in Rates, NEW check_in \in Day, NEW check_out \in Day,
         check_out > check_in
  PROVE  accommodation_charge(rate, check_out - check_in) \in Nat
  <1>1. rate \in Nat /\ check_out - check_in \in Nat
    BY FrontDeskAssumption DEF Day
  <1>2. \A i, j \in Nat : i * j \in Nat
    OBVIOUS
  <1>. QED
    BY <1>1, <1>2 DEF accommodation_charge

\* A row as the ORM writes it is a row.
LEMMA WrittenRowType ==
  ASSUME NEW old \in Row, NEW new \in Row, NEW current \in Row
  PROVE  WrittenRow(old, new, current) \in Row
  BY DEF WrittenRow, Written, Row

LEMMA NewRowType ==
  ASSUME NEW rm \in Room, NEW check_in \in Day, NEW check_out \in Day,
         NEW override \in Rates \cup {NoRate},
         StayRangeOK(check_in, check_out),
         PriceFits(NewRow(rm, check_in, check_out, override))
  PROVE  NewRow(rm, check_in, check_out, override) \in Row
  <1> DEFINE rate == IF override = NoRate THEN BasePrice[rm] ELSE override
             total == accommodation_charge(rate, check_out - check_in)
  <1>1. rate \in Rates
    BY FrontDeskAssumption DEF NoRate
  <1>2. total \in Nat
    BY <1>1, ChargeIsNat DEF StayRangeOK
  <1>3. total \in 0 .. MAX_TOTAL_PRICE
    BY <1>2, HotelDomainAssumption DEF PriceFits, NewRow
  <1>. QED
    BY <1>1, <1>3 DEF NewRow, Row, ReservationStatus

LEMMA EditedRowType ==
  ASSUME NEW old \in Row, NEW rm \in Room, NEW check_in \in Day, NEW check_out \in Day,
         NEW override \in Rates \cup {NoRate},
         StayRangeOK(check_in, check_out),
         PriceFits(EditedRow(old, rm, check_in, check_out, override))
  PROVE  EditedRow(old, rm, check_in, check_out, override) \in Row
  <1> DEFINE rate == IF override # NoRate THEN override
                     ELSE IF rm # old.room THEN BasePrice[rm] ELSE old.rate
             total == accommodation_charge(rate, check_out - check_in)
  <1>1. rate \in Rates
    BY FrontDeskAssumption DEF Row
  <1>2. total \in Nat
    BY <1>1, ChargeIsNat DEF StayRangeOK
  <1>3. EditedRow(old, rm, check_in, check_out, override)
          = [old EXCEPT !.room = rm, !.check_in = check_in, !.check_out = check_out,
                        !.rate = rate, !.total = total]
    BY DEF EditedRow
  <1>4. total \in 0 .. MAX_TOTAL_PRICE
    BY <1>2, <1>3, HotelDomainAssumption DEF PriceFits, Row
  <1>. QED
    BY <1>1, <1>3, <1>4 DEF Row

-----------------------------------------------------------------------------
(***************************************************************************)
(* Each handler preserves the typing invariant.                            *)
(***************************************************************************)

LEMMA CreateTypeInv ==
  ASSUME TypeInv, NEW s \in Session, Create(s)
  PROVE  TypeInv'
  <1>1. PICK rm \in Room, check_in \in Day, check_out \in Day,
             override \in Rates \cup {NoRate} :
          /\ StayRangeOK(check_in, check_out)
          /\ PriceFits(NewRow(rm, check_in, check_out, override))
          /\ Continue(s, [op |-> "create", pc |-> "available",
                          new |-> NewRow(rm, check_in, check_out, override)])
    BY DEF Create
  <1> DEFINE q == [op |-> "create", pc |-> "available",
                   new |-> NewRow(rm, check_in, check_out, override)]
  <1>2. q \in CreateReq
    BY <1>1, NewRowType DEF CreateReq
  <1>3. q \in Request /\ q \notin Targeting
    BY <1>2 DEF Request, CreateReq, Targeting, UpdateReq, LifecycleReq
  <1>. QED
    BY <1>1, <1>3, ContinueTypeInv

\* What update has loaded and intends when it goes on to its first query.
UpdateLoaded(r, rm, check_in, check_out, override, pc) ==
  [op |-> "update", id |-> r, old |-> booking[r],
   new |-> EditedRow(booking[r], rm, check_in, check_out, override), pc |-> pc]

LEMMA UpdateLoads ==
  ASSUME NEW s \in Session, Update(s)
  PROVE  \E r \in Res, rm \in Room, check_in \in Day, check_out \in Day,
            override \in Rates \cup {NoRate}, pc \in {"room", "available", "commit"} :
           /\ MayEdit(booking[r])
           /\ StayRangeOK(check_in, check_out)
           /\ PriceFits(EditedRow(booking[r], rm, check_in, check_out, override))
           /\ Continue(s, UpdateLoaded(r, rm, check_in, check_out, override, pc))
  <1>1. PICK r \in Res, rm \in Room, check_in \in Day, check_out \in Day,
             override \in Rates \cup {NoRate} :
          /\ MayEdit(booking[r])
          /\ StayRangeOK(check_in, check_out)
          /\ PriceFits(EditedRow(booking[r], rm, check_in, check_out, override))
          /\ Continue(s, [op |-> "update", id |-> r, old |-> booking[r],
                          new |-> EditedRow(booking[r], rm, check_in, check_out, override),
                          pc |-> IF rm # booking[r].room THEN "room"
                                 ELSE IF \/ check_in # booking[r].check_in
                                         \/ check_out # booking[r].check_out
                                      THEN "available" ELSE "commit"])
    BY DEF Update
  <1> DEFINE pc == IF rm # booking[r].room THEN "room"
                   ELSE IF \/ check_in # booking[r].check_in
                           \/ check_out # booking[r].check_out
                        THEN "available" ELSE "commit"
  <1>2. pc \in {"room", "available", "commit"}
    OBVIOUS
  <1>3. Continue(s, UpdateLoaded(r, rm, check_in, check_out, override, pc))
    BY <1>1 DEF UpdateLoaded
  <1>. QED
    BY <1>1, <1>2, <1>3

LEMMA UpdateTypeInv ==
  ASSUME TypeInv, NEW s \in Session, Update(s)
  PROVE  TypeInv'
  <1>1. PICK r \in Res, rm \in Room, check_in \in Day, check_out \in Day,
             override \in Rates \cup {NoRate}, pc \in {"room", "available", "commit"} :
          /\ MayEdit(booking[r])
          /\ StayRangeOK(check_in, check_out)
          /\ PriceFits(EditedRow(booking[r], rm, check_in, check_out, override))
          /\ Continue(s, UpdateLoaded(r, rm, check_in, check_out, override, pc))
    BY UpdateLoads
  <1> DEFINE q == UpdateLoaded(r, rm, check_in, check_out, override, pc)
  <1>2. booking[r] \in Row
    BY <1>1 DEF TypeInv, TypeOK, MayEdit, NoRow, EDITABLE_STATUSES
  <1>3. EditedRow(booking[r], rm, check_in, check_out, override) \in Row
    BY <1>1, <1>2, EditedRowType
  <1>4. q \in UpdateReq /\ q.id = r
    BY <1>2, <1>3 DEF UpdateReq, UpdateLoaded
  <1>5. q \in Request
    BY <1>4 DEF Request
  <1>. QED
    BY <1>1, <1>2, <1>4, <1>5, ContinueTypeInv

\* Moving on to a later stage keeps the request's fields.
LEMMA GoToTypeInv ==
  ASSUME TypeInv, NEW s \in Session, NEW pc, GoTo(s, pc),
         \/ req[s] \in CreateReq /\ pc = "commit"
         \/ req[s] \in UpdateReq /\ pc \in {"available", "commit"}
         \/ req[s] \in LifecycleReq /\ pc = "commit"
         \/ req[s] \in RoomReq /\ pc \in {"blocking", "commit"}
  PROVE  TypeInv'
  <1> DEFINE q == [req[s] EXCEPT !.pc = pc]
  <1>1. CASE req[s] \in CreateReq /\ pc = "commit"
    <2>1. q \in CreateReq
      BY <1>1 DEF CreateReq
    <2>2. q \in Request /\ q \notin Targeting
      BY <2>1 DEF Request, CreateReq, Targeting, UpdateReq, LifecycleReq
    <2>. QED
      BY <2>2, ContinueTypeInv DEF GoTo
  <1>2. CASE req[s] \in UpdateReq /\ pc \in {"available", "commit"}
    <2>1. q \in UpdateReq /\ q.id = req[s].id
      BY <1>2 DEF UpdateReq
    <2>2. q \in Request
      BY <2>1 DEF Request
    <2>3. booking[q.id] \in Row
      BY <1>2, <2>1 DEF TypeInv, LoadedExists, Targeting
    <2>. QED
      BY <2>2, <2>3, ContinueTypeInv DEF GoTo
  <1>3. CASE req[s] \in LifecycleReq /\ pc = "commit"
    <2>1. q \in LifecycleReq /\ q.id = req[s].id
      BY <1>3 DEF LifecycleReq
    <2>2. q \in Request
      BY <2>1 DEF Request
    <2>3. booking[q.id] \in Row
      BY <1>3, <2>1 DEF TypeInv, LoadedExists, Targeting
    <2>. QED
      BY <2>2, <2>3, ContinueTypeInv DEF GoTo
  <1>4. CASE req[s] \in RoomReq /\ pc \in {"blocking", "commit"}
    <2>1. q \in RoomReq
      BY <1>4 DEF RoomReq
    <2>2. q \in Request /\ q \notin Targeting
      BY <2>1 DEF Request, RoomReq, Targeting, UpdateReq, LifecycleReq
    <2>. QED
      BY <2>2, ContinueTypeInv DEF GoTo
  <1>. QED
    BY <1>1, <1>2, <1>3, <1>4

\* The request s is handling, from the stage it is at.
LEMMA RequestAt ==
  ASSUME TypeInv, NEW s \in Session
  PROVE  /\ \A pc : At(s, {"create"}, pc) /\ pc # "failed" => req[s] \in CreateReq
         /\ \A pc : At(s, {"update"}, pc) /\ pc # "failed" => req[s] \in UpdateReq
         /\ \A ops \in SUBSET {"check_in", "check_out", "cancel", "no_show"} : \A pc :
              At(s, ops, pc) /\ pc # "failed" => req[s] \in LifecycleReq
         /\ \A pc : At(s, {"set_status"}, pc) /\ pc # "failed" => req[s] \in RoomReq
  <1>1. req[s] \in Request
    BY DEF TypeInv, TypeOK
  <1>2. ASSUME NEW ops \in SUBSET RequestKind, NEW pc, At(s, ops, pc), pc # "failed"
        PROVE  req[s] # Idle /\ req[s].pc # "failed" /\ req[s].op \in ops
    BY <1>2 DEF At, RequestKind, Idle
  <1>3. \A ops \in SUBSET RequestKind : \A pc :
          At(s, ops, pc) /\ pc # "failed" =>
            req[s] # Idle /\ req[s].pc # "failed" /\ req[s].op \in ops
    BY <1>2
  <1>4. \A kind \in RequestKind : \A pc :
          At(s, {kind}, pc) /\ pc # "failed" =>
            req[s] # Idle /\ req[s].pc # "failed" /\ req[s].op = kind
    BY <1>3
  <1>5. {"check_in", "check_out", "cancel", "no_show"} \subseteq RequestKind
    BY DEF RequestKind
  <1>. QED
    BY <1>1, <1>3, <1>4, <1>5, StageFields DEF RequestKind

LEMMA CheckAvailableTypeInv ==
  ASSUME TypeInv, NEW s \in Session, CheckAvailable(s)
  PROVE  TypeInv'
  <1>1. req[s] \in CreateReq \cup UpdateReq
    <2>1. At(s, {"create"}, "available") \/ At(s, {"update"}, "available")
      BY DEF CheckAvailable, At
    <2>. QED
      BY <2>1, RequestAt
  <1>2. GoTo(s, "commit") \/ Refuse(s)
    BY DEF CheckAvailable
  <1>. QED
    BY <1>1, <1>2, GoToTypeInv, RefuseTypeInv

LEMMA UpdateRoomTypeInv ==
  ASSUME TypeInv, NEW s \in Session, UpdateRoom(s)
  PROVE  TypeInv'
  <1>1. req[s] \in UpdateReq
    BY RequestAt DEF UpdateRoom
  <1>2. GoTo(s, "available") \/ Refuse(s)
    BY DEF UpdateRoom
  <1>. QED
    BY <1>1, <1>2, GoToTypeInv, RefuseTypeInv

\* A commit that leaves a row at id r, and perhaps a room status, behind.
LEMMA CommitTypeInv ==
  ASSUME TypeInv, NEW s \in Session, NEW r \in Res, NEW row \in Row,
         NEW rooms \in [Room -> RoomStatus],
         booking' = [booking EXCEPT ![r] = row], room' = rooms,
         req' = [req EXCEPT ![s] = Idle], UNCHANGED today
  PROVE  TypeInv'
  <1>1. Idle \in Request /\ Idle \notin Targeting
    BY DEF Request, Idle, Targeting, UpdateReq, LifecycleReq
  <1>2. TypeOK'
    BY <1>1 DEF TypeInv, TypeOK
  <1>3. \A t \in Session : req[t] \in Targeting => req[t].id \in Res
    BY DEF Targeting, UpdateReq, LifecycleReq
  <1>4. LoadedExists'
    <2> SUFFICES ASSUME NEW t \in Session, req'[t] \in Targeting
                 PROVE  booking'[req'[t].id] \in Row
      BY DEF LoadedExists
    <2>1. t # s /\ req'[t] = req[t]
      BY <1>1 DEF TypeInv, TypeOK
    <2>2. booking[req[t].id] \in Row /\ req[t].id \in Res
      BY <1>3, <2>1 DEF TypeInv, LoadedExists
    <2>. QED
      BY <2>1, <2>2 DEF TypeInv, TypeOK
  <1>. QED
    BY <1>2, <1>4 DEF TypeInv

LEMMA InsertTypeInv ==
  ASSUME TypeInv, NEW s \in Session, Insert(s)
  PROVE  TypeInv'
  <1>1. req[s] \in CreateReq
    BY RequestAt DEF Insert
  <1>2. PICK r \in Res :
          \/ /\ booking' = [booking EXCEPT ![r] = req[s].new]
             /\ req' = [req EXCEPT ![s] = Idle]
             /\ UNCHANGED <<room, today>>
          \/ ServerError(s)
    BY DEF Insert
  <1>3. CASE ServerError(s)
    BY <1>1, <1>3, ServerErrorTypeInv DEF CreateReq, RequestKind
  <1>4. CASE ~ServerError(s)
    BY <1>1, <1>2, <1>4, CommitTypeInv DEF CreateReq, TypeInv, TypeOK
  <1>. QED
    BY <1>3, <1>4

LEMMA CommitUpdateTypeInv ==
  ASSUME TypeInv, NEW s \in Session, CommitUpdate(s)
  PROVE  TypeInv'
  <1> DEFINE q == req[s]
             row == WrittenRow(q.old, q.new, booking[q.id])
  <1>1. q \in UpdateReq
    BY RequestAt DEF CommitUpdate
  <1>2. q.id \in Res /\ booking[q.id] \in Row /\ q.old \in Row /\ q.new \in Row
    BY <1>1 DEF UpdateReq, TypeInv, LoadedExists, Targeting
  <1>3. row \in Row
    BY <1>2, WrittenRowType
  <1>4. \/ /\ booking' = [booking EXCEPT ![q.id] = row]
           /\ req' = [req EXCEPT ![s] = Idle]
           /\ UNCHANGED <<room, today>>
        \/ Refuse(s)
        \/ ServerError(s)
    BY DEF CommitUpdate
  <1> HIDE DEF row
  <1>5. CASE Refuse(s)
    BY <1>5, RefuseTypeInv
  <1>6. CASE ServerError(s)
    BY <1>1, <1>6, ServerErrorTypeInv DEF UpdateReq, RequestKind
  <1>7. CASE ~Refuse(s) /\ ~ServerError(s)
    BY <1>2, <1>3, <1>4, <1>7, CommitTypeInv DEF TypeInv, TypeOK
  <1>. QED
    BY <1>5, <1>6, <1>7

\* What a lifecycle handler loads and intends is well formed.
LEMMA LifecycleTypeInv ==
  ASSUME TypeInv, NEW s \in Session, NEW r \in Res, booking[r] \in Row,
         NEW op \in {"check_in", "check_out", "cancel", "no_show"},
         NEW pc \in {"occupants", "balance", "commit"},
         NEW status \in ReservationStatus, NEW rm_new \in RoomStatus,
         Continue(s, Lifecycle(op, pc, r, [booking[r] EXCEPT !.status = status], rm_new))
  PROVE  TypeInv'
  <1> DEFINE new == [booking[r] EXCEPT !.status = status]
             q == Lifecycle(op, pc, r, new, rm_new)
  <1>1. new \in Row
    BY DEF Row
  <1>2. new.room \in Room /\ room[new.room] \in RoomStatus
    BY <1>1 DEF Row, TypeInv, TypeOK
  <1>3. Continue(s, q)
    OBVIOUS
  <1> HIDE DEF new
  <1>4. q \in LifecycleReq /\ q.id = r
    BY <1>1, <1>2 DEF Lifecycle, LifecycleReq
  <1>5. q \in Request
    BY <1>4 DEF Request
  <1>. QED
    BY <1>3, <1>4, <1>5, ContinueTypeInv

\* A row that has a status is there.
LEMMA StatusMeansRow ==
  ASSUME TypeInv, NEW r \in Res, booking[r].status \in ReservationStatus
  PROVE  booking[r] \in Row
  BY DEF TypeInv, TypeOK, NoRow, ReservationStatus

LEMMA CheckInTypeInv ==
  ASSUME TypeInv, NEW s \in Session, CheckIn(s)
  PROVE  TypeInv'
  <1>1. PICK r \in Res :
          /\ MayCheckIn(booking[r])
          /\ Continue(s, Lifecycle("check_in", "occupants", r,
                                   [booking[r] EXCEPT !.status = "checked_in"],
                                   "occupied"))
    BY DEF CheckIn
  <1>2. booking[r] \in Row
    BY <1>1, StatusMeansRow DEF MayCheckIn, EDITABLE_STATUSES, ReservationStatus
  <1>3. "checked_in" \in ReservationStatus /\ "occupied" \in RoomStatus
    BY DEF ReservationStatus, RoomStatus
  <1>. QED
    BY <1>1, <1>2, <1>3, LifecycleTypeInv

LEMMA CheckOutTypeInv ==
  ASSUME TypeInv, NEW s \in Session, CheckOut(s)
  PROVE  TypeInv'
  <1>1. PICK r \in Res :
          /\ booking[r].status = "checked_in"
          /\ Continue(s, Lifecycle("check_out", "balance", r,
                                   [booking[r] EXCEPT !.status = "checked_out"],
                                   "cleaning"))
    BY DEF CheckOut
  <1>2. booking[r] \in Row
    BY <1>1, StatusMeansRow DEF ReservationStatus
  <1>3. "checked_out" \in ReservationStatus /\ "cleaning" \in RoomStatus
    BY DEF ReservationStatus, RoomStatus
  <1>. QED
    BY <1>1, <1>2, <1>3, LifecycleTypeInv

LEMMA CancelTypeInv ==
  ASSUME TypeInv, NEW s \in Session, Cancel(s)
  PROVE  TypeInv'
  <1>1. PICK r \in Res :
          /\ MayCancel(booking[r])
          /\ Continue(s, Lifecycle("cancel",
                           IF booking[r].status = "checked_in" THEN "balance" ELSE "commit",
                           r, [booking[r] EXCEPT !.status = "cancelled"],
                           RoomAfterCancel(booking[r])))
    BY DEF Cancel
  <1> DEFINE pc == IF booking[r].status = "checked_in" THEN "balance" ELSE "commit"
  <1>2. booking[r] \in Row
    BY <1>1, StatusMeansRow DEF MayCancel
  <1>3. RoomAfterCancel(booking[r]) \in RoomStatus
    BY <1>2 DEF RoomAfterCancel, Row, TypeInv, TypeOK, RoomStatus
  <1>4. "cancelled" \in ReservationStatus /\ pc \in {"occupants", "balance", "commit"}
    BY DEF ReservationStatus
  <1>. QED
    BY <1>1, <1>2, <1>3, <1>4, LifecycleTypeInv

LEMMA MarkNoShowTypeInv ==
  ASSUME TypeInv, NEW s \in Session, MarkNoShow(s)
  PROVE  TypeInv'
  <1>1. PICK r \in Res :
          /\ booking[r].status \in EDITABLE_STATUSES
          /\ Continue(s, Lifecycle("no_show", "commit", r,
                                   [booking[r] EXCEPT !.status = "no_show"],
                                   room[booking[r].room]))
    BY DEF MarkNoShow
  <1>2. booking[r] \in Row
    BY <1>1, StatusMeansRow DEF EDITABLE_STATUSES, ReservationStatus
  <1>3. "no_show" \in ReservationStatus /\ room[booking[r].room] \in RoomStatus
    BY <1>2 DEF ReservationStatus, Row, TypeInv, TypeOK
  <1>. QED
    BY <1>1, <1>2, <1>3, LifecycleTypeInv

LEMMA CheckInOccupantsTypeInv ==
  ASSUME TypeInv, NEW s \in Session, CheckInOccupants(s)
  PROVE  TypeInv'
  <1>1. req[s] \in LifecycleReq
    BY RequestAt DEF CheckInOccupants
  <1>2. GoTo(s, "commit") \/ Refuse(s)
    BY DEF CheckInOccupants
  <1>. QED
    BY <1>1, <1>2, GoToTypeInv, RefuseTypeInv

LEMMA BalanceTypeInv ==
  ASSUME TypeInv, NEW s \in Session, Balance(s)
  PROVE  TypeInv'
  <1> DEFINE q == [req[s] EXCEPT !.pc = "commit", !.new.waived = TRUE]
  <1>1. req[s] \in LifecycleReq
    BY RequestAt DEF Balance
  <1>2. GoTo(s, "commit") \/ Continue(s, q) \/ Refuse(s)
    BY DEF Balance
  <1>3. [req[s].new EXCEPT !.waived = TRUE] \in Row
    BY <1>1 DEF LifecycleReq, Row
  <1>4. q \in LifecycleReq /\ q.id = req[s].id
    BY <1>1, <1>3 DEF LifecycleReq
  <1>5. q \in Request /\ booking[q.id] \in Row
    BY <1>1, <1>4 DEF Request, TypeInv, LoadedExists, Targeting
  <1>. QED
    BY <1>1, <1>2, <1>5, GoToTypeInv, RefuseTypeInv, ContinueTypeInv

LEMMA CommitLifecycleTypeInv ==
  ASSUME TypeInv, NEW s \in Session, CommitLifecycle(s)
  PROVE  TypeInv'
  <1> DEFINE q == req[s]
             row == WrittenRow(q.old, q.new, booking[q.id])
             rooms == [room EXCEPT ![q.room] = Written(q.room_old, q.room_new, @)]
  <1>1. q \in LifecycleReq
    BY RequestAt DEF CommitLifecycle
  <1>2. q.id \in Res /\ booking[q.id] \in Row /\ q.old \in Row /\ q.new \in Row
    BY <1>1 DEF LifecycleReq, TypeInv, LoadedExists, Targeting
  <1>3. row \in Row
    BY <1>2, WrittenRowType
  <1>4. rooms \in [Room -> RoomStatus]
    BY <1>1 DEF LifecycleReq, Written, TypeInv, TypeOK
  <1>5. \/ /\ booking' = [booking EXCEPT ![q.id] = row]
           /\ room' = rooms
           /\ req' = [req EXCEPT ![s] = Idle]
           /\ UNCHANGED today
        \/ ServerError(s)
    BY DEF CommitLifecycle
  <1> HIDE DEF row, rooms
  <1>6. CASE ServerError(s)
    BY <1>1, <1>6, ServerErrorTypeInv DEF LifecycleReq, RequestKind
  <1>7. CASE ~ServerError(s)
    BY <1>2, <1>3, <1>4, <1>5, <1>7, CommitTypeInv
  <1>. QED
    BY <1>6, <1>7

LEMMA SetStatusTypeInv ==
  ASSUME TypeInv, NEW s \in Session, SetStatus(s)
  PROVE  TypeInv'
  <1>1. PICK rm \in Room, status \in RoomStatus :
          Continue(s, [op |-> "set_status",
                       pc |-> IF status \in {"maintenance", "available"}
                              THEN "occupants" ELSE "commit",
                       room |-> rm, room_old |-> room[rm], room_new |-> status])
    BY DEF SetStatus
  <1> DEFINE q == [op |-> "set_status",
                   pc |-> IF status \in {"maintenance", "available"}
                          THEN "occupants" ELSE "commit",
                   room |-> rm, room_old |-> room[rm], room_new |-> status]
  <1>2. q \in RoomReq
    BY DEF RoomReq, TypeInv, TypeOK
  <1>3. q \in Request /\ q \notin Targeting
    BY <1>2 DEF Request, RoomReq, Targeting, UpdateReq, LifecycleReq
  <1>. QED
    BY <1>1, <1>3, ContinueTypeInv

LEMMA RoomOccupantsTypeInv ==
  ASSUME TypeInv, NEW s \in Session, RoomOccupants(s)
  PROVE  TypeInv'
  <1> DEFINE occupied == ActiveForRoom(req[s].room) # {}
             q == [req[s] EXCEPT !.pc = "commit", !.room_new = Housekept(@, occupied)]
  <1>1. req[s] \in RoomReq
    BY RequestAt DEF RoomOccupants
  <1>2. Refuse(s) \/ GoTo(s, "blocking") \/ Continue(s, q)
    BY DEF RoomOccupants
  <1> HIDE DEF occupied
  <1>3. q \in RoomReq
    BY <1>1 DEF RoomReq, Housekept, RoomStatus
  <1>4. q \in Request /\ q \notin Targeting
    BY <1>3 DEF Request, RoomReq, Targeting, UpdateReq, LifecycleReq
  <1>. QED
    BY <1>1, <1>2, <1>4, GoToTypeInv, RefuseTypeInv, ContinueTypeInv

LEMMA RoomBlockingTypeInv ==
  ASSUME TypeInv, NEW s \in Session, RoomBlocking(s)
  PROVE  TypeInv'
  <1>1. req[s] \in RoomReq
    BY RequestAt DEF RoomBlocking
  <1>2. GoTo(s, "commit") \/ Refuse(s)
    BY DEF RoomBlocking
  <1>. QED
    BY <1>1, <1>2, GoToTypeInv, RefuseTypeInv

LEMMA CommitRoomTypeInv ==
  ASSUME TypeInv, NEW s \in Session, CommitRoom(s)
  PROVE  TypeInv'
  <1>1. req[s] \in RoomReq
    BY RequestAt DEF CommitRoom
  <1>2. Idle \in Request /\ Idle \notin Targeting
    BY DEF Request, Idle, Targeting, UpdateReq, LifecycleReq
  <1>3. TypeOK'
    BY <1>1, <1>2 DEF CommitRoom, TypeInv, TypeOK, RoomReq, Written
  <1>4. LoadedExists'
    BY <1>2 DEF CommitRoom, TypeInv, TypeOK, LoadedExists
  <1>. QED
    BY <1>3, <1>4 DEF TypeInv

-----------------------------------------------------------------------------
LEMMA InitTypeInv == Init => TypeInv
  <1> SUFFICES ASSUME Init PROVE TypeInv
    OBVIOUS
  <1>1. TypeOK
    BY FrontDeskAssumption DEF Init, TypeOK, RoomStatus, Day, Request
  <1>2. LoadedExists
    BY DEF Init, LoadedExists, Targeting, UpdateReq, LifecycleReq, Idle
  <1>. QED
    BY <1>1, <1>2 DEF TypeInv

LEMMA NextTypeInv == TypeInv /\ [Next]_vars => TypeInv'
  <1> SUFFICES ASSUME TypeInv, [Next]_vars PROVE TypeInv'
    OBVIOUS
  <1>1. CASE UNCHANGED vars
    BY <1>1 DEF vars, TypeInv, TypeOK, LoadedExists
  <1>2. CASE Tick
    BY <1>2, FrontDeskAssumption DEF Tick, TypeInv, TypeOK, LoadedExists, Day
  <1>3. ASSUME NEW s \in Session, Step(s)
        PROVE  TypeInv'
    BY <1>3, CreateTypeInv, CheckAvailableTypeInv, InsertTypeInv, UpdateTypeInv,
       UpdateRoomTypeInv, CommitUpdateTypeInv, CheckInTypeInv, CheckInOccupantsTypeInv,
       CheckOutTypeInv, CancelTypeInv, BalanceTypeInv, MarkNoShowTypeInv,
       CommitLifecycleTypeInv, SetStatusTypeInv, RoomOccupantsTypeInv,
       RoomBlockingTypeInv, CommitRoomTypeInv, RefuseTypeInv
       DEF Step, Rollback
  <1>. QED
    BY <1>1, <1>2, <1>3 DEF Next

LEMMA TypeInvAlways == Spec => []TypeInv
  BY InitTypeInv, NextTypeInv, PTL DEF Spec

\* Type correctness of the tables and of every request in flight, for any
\* hotel and any number of concurrent requests, constraint or not.
THEOREM TypeCorrect == Spec => []TypeOK
  <1>1. TypeInv => TypeOK
    BY DEF TypeInv
  <1>. QED
    BY <1>1, TypeInvAlways, PTL

-----------------------------------------------------------------------------
(***************************************************************************)
(* Stays keep at least one night.  A create request was range-checked when *)
(* it arrived; a lifecycle request leaves the stay alone; an update is     *)
(* judged by the database on the row it results in.                        *)
(***************************************************************************)

SameStay(old, new) ==
  /\ new.room = old.room
  /\ new.check_in = old.check_in
  /\ new.check_out = old.check_out

Planned(q) ==
  /\ q \in CreateReq => DatesOK(q.new)
  /\ q \in LifecycleReq => SameStay(q.old, q.new)

StayInv ==
  /\ TypeInv
  /\ \A r \in Res : booking[r] \in Row => DatesOK(booking[r])
  /\ \A s \in Session : Planned(req[s])

\* Requests of other kinds plan no stay.
LEMMA OtherKindsPlanned ==
  /\ Planned(Idle)
  /\ \A q \in Failed \cup UpdateReq \cup RoomReq : Planned(q)
  BY DEF Planned, Idle, Failed, UpdateReq, RoomReq, CreateReq, LifecycleReq

\* One commit's effect on the reservations table.
RowWritten(r, row) ==
  /\ booking' = [booking EXCEPT ![r] = row]
  /\ DatesOK(row)
  /\ ExclusionOK(r, row)

TableStep == booking' = booking \/ \E r \in Res, row \in Row : RowWritten(r, row)

LEMMA ContinuePlanned ==
  ASSUME StayInv, NEW s \in Session, NEW q, Continue(s, q), Planned(q)
  PROVE  booking' = booking /\ \A t \in Session : Planned(req'[t])
  BY DEF StayInv, TypeInv, TypeOK, Continue

LEMMA RefusePlanned ==
  ASSUME StayInv, NEW s \in Session, Refuse(s)
  PROVE  booking' = booking /\ \A t \in Session : Planned(req'[t])
  BY OtherKindsPlanned, ContinuePlanned DEF Refuse

LEMMA ServerErrorPlanned ==
  ASSUME StayInv, NEW s \in Session, ServerError(s)
  PROVE  booking' = booking /\ \A t \in Session : Planned(req'[t])
  <1>1. Planned([op |-> req[s].op, pc |-> "failed"])
    BY DEF Planned, CreateReq, LifecycleReq
  <1>. QED
    BY <1>1, ContinuePlanned DEF ServerError

\* A later stage of the same handler plans the same stay.
LEMMA GoToPlanned ==
  ASSUME StayInv, NEW s \in Session, NEW pc, GoTo(s, pc),
         req[s] \in CreateReq \cup UpdateReq \cup LifecycleReq \cup RoomReq
  PROVE  booking' = booking /\ \A t \in Session : Planned(req'[t])
  <1> DEFINE q == [req[s] EXCEPT !.pc = pc]
  <1>1. Planned(req[s])
    BY DEF StayInv
  <1>2. Planned(q)
    <2>1. CASE req[s] \in CreateReq
      BY <1>1, <2>1 DEF Planned, CreateReq, LifecycleReq
    <2>2. CASE req[s] \in UpdateReq
      BY <2>2 DEF Planned, CreateReq, UpdateReq, LifecycleReq
    <2>3. CASE req[s] \in LifecycleReq
      BY <1>1, <2>3 DEF Planned, CreateReq, LifecycleReq
    <2>4. CASE req[s] \in RoomReq
      BY <2>4 DEF Planned, CreateReq, RoomReq, LifecycleReq
    <2>. QED
      BY <2>1, <2>2, <2>3, <2>4
  <1>3. Continue(s, q)
    BY DEF GoTo
  <1>. QED
    BY <1>2, <1>3, ContinuePlanned

LEMMA LifecyclePlanned ==
  ASSUME StayInv, NEW s \in Session, NEW r, NEW op, NEW pc, NEW status, NEW rm_new,
         booking[r] \in Row, op \in {"check_in", "check_out", "cancel", "no_show"},
         Continue(s, Lifecycle(op, pc, r, [booking[r] EXCEPT !.status = status], rm_new))
  PROVE  booking' = booking /\ \A t \in Session : Planned(req'[t])
  <1> DEFINE new == [booking[r] EXCEPT !.status = status]
  <1>1. SameStay(booking[r], new)
    BY DEF SameStay, Row
  <1> HIDE DEF new
  <1>2. Planned(Lifecycle(op, pc, r, new, rm_new))
    BY <1>1 DEF Planned, Lifecycle, CreateReq
  <1>. QED
    BY <1>2, ContinuePlanned DEF new

\* The steps that only read, load or refuse.
LEMMA ReadingStepPlanned ==
  ASSUME StayInv, NEW s \in Session,
         \/ Create(s) \/ CheckAvailable(s) \/ Update(s) \/ UpdateRoom(s)
         \/ CheckIn(s) \/ CheckInOccupants(s) \/ CheckOut(s) \/ Cancel(s)
         \/ Balance(s) \/ MarkNoShow(s)
         \/ SetStatus(s) \/ RoomOccupants(s) \/ RoomBlocking(s) \/ Rollback(s)
  PROVE  booking' = booking /\ \A t \in Session : Planned(req'[t])
  <1>0. TypeInv
    BY DEF StayInv
  <1>1. CASE Create(s)
    <2>1. PICK rm \in Room, check_in \in Day, check_out \in Day,
               override \in Rates \cup {NoRate} :
            /\ StayRangeOK(check_in, check_out)
            /\ Continue(s, [op |-> "create", pc |-> "available",
                            new |-> NewRow(rm, check_in, check_out, override)])
      BY <1>1 DEF Create
    <2>2. DatesOK(NewRow(rm, check_in, check_out, override))
      BY <2>1 DEF DatesOK, NewRow, StayRangeOK
    <2>3. Planned([op |-> "create", pc |-> "available",
                   new |-> NewRow(rm, check_in, check_out, override)])
      BY <2>2 DEF Planned, LifecycleReq
    <2>. QED
      BY <2>1, <2>3, ContinuePlanned
  <1>2. CASE CheckAvailable(s)
    <2>1. At(s, {"create"}, "available") \/ At(s, {"update"}, "available")
      BY <1>2 DEF CheckAvailable, At
    <2>2. req[s] \in CreateReq \cup UpdateReq
      BY <1>0, <2>1, RequestAt
    <2>3. GoTo(s, "commit") \/ Refuse(s)
      BY <1>2 DEF CheckAvailable
    <2>. QED
      BY <2>2, <2>3, GoToPlanned, RefusePlanned
  <1>3. CASE Update(s)
    <2>1. PICK r \in Res, rm \in Room, check_in \in Day, check_out \in Day,
               override \in Rates \cup {NoRate}, pc \in {"room", "available", "commit"} :
            Continue(s, UpdateLoaded(r, rm, check_in, check_out, override, pc))
      BY <1>3, UpdateLoads
    <2>2. Planned(UpdateLoaded(r, rm, check_in, check_out, override, pc))
      BY DEF Planned, UpdateLoaded, CreateReq, LifecycleReq
    <2>. QED
      BY <2>1, <2>2, ContinuePlanned
  <1>4. CASE UpdateRoom(s)
    <2>1. req[s] \in UpdateReq
      BY <1>0, <1>4, RequestAt DEF UpdateRoom
    <2>2. GoTo(s, "available") \/ Refuse(s)
      BY <1>4 DEF UpdateRoom
    <2>. QED
      BY <2>1, <2>2, GoToPlanned, RefusePlanned
  <1>5. CASE CheckIn(s)
    <2>1. PICK r \in Res :
            /\ MayCheckIn(booking[r])
            /\ Continue(s, Lifecycle("check_in", "occupants", r,
                             [booking[r] EXCEPT !.status = "checked_in"], "occupied"))
      BY <1>5 DEF CheckIn
    <2>2. booking[r] \in Row
      BY <1>0, <2>1, StatusMeansRow DEF MayCheckIn, EDITABLE_STATUSES, ReservationStatus
    <2>. QED
      BY <2>1, <2>2, LifecyclePlanned
  <1>6. CASE CheckOut(s)
    <2>1. PICK r \in Res :
            /\ booking[r].status = "checked_in"
            /\ Continue(s, Lifecycle("check_out", "balance", r,
                             [booking[r] EXCEPT !.status = "checked_out"], "cleaning"))
      BY <1>6 DEF CheckOut
    <2>2. booking[r] \in Row
      BY <1>0, <2>1, StatusMeansRow DEF ReservationStatus
    <2>. QED
      BY <2>1, <2>2, LifecyclePlanned
  <1>7. CASE Cancel(s)
    <2>1. PICK r \in Res, pc \in {"balance", "commit"} :
            /\ MayCancel(booking[r])
            /\ Continue(s, Lifecycle("cancel", pc, r,
                             [booking[r] EXCEPT !.status = "cancelled"],
                             RoomAfterCancel(booking[r])))
      BY <1>7 DEF Cancel
    <2>2. booking[r] \in Row
      BY <1>0, <2>1, StatusMeansRow DEF MayCancel
    <2>. QED
      BY <2>1, <2>2, LifecyclePlanned
  <1>8. CASE MarkNoShow(s)
    <2>1. PICK r \in Res :
            /\ booking[r].status \in EDITABLE_STATUSES
            /\ Continue(s, Lifecycle("no_show", "commit", r,
                             [booking[r] EXCEPT !.status = "no_show"],
                             room[booking[r].room]))
      BY <1>8 DEF MarkNoShow
    <2>2. booking[r] \in Row
      BY <1>0, <2>1, StatusMeansRow DEF EDITABLE_STATUSES, ReservationStatus
    <2>. QED
      BY <2>1, <2>2, LifecyclePlanned
  <1>9. CASE CheckInOccupants(s)
    <2>1. req[s] \in LifecycleReq
      BY <1>0, <1>9, RequestAt DEF CheckInOccupants
    <2>2. GoTo(s, "commit") \/ Refuse(s)
      BY <1>9 DEF CheckInOccupants
    <2>. QED
      BY <2>1, <2>2, GoToPlanned, RefusePlanned
  <1>10. CASE Balance(s)
    <2> DEFINE q == [req[s] EXCEPT !.pc = "commit", !.new.waived = TRUE]
    <2>1. req[s] \in LifecycleReq
      BY <1>0, <1>10, RequestAt DEF Balance
    <2>2. GoTo(s, "commit") \/ Continue(s, q) \/ Refuse(s)
      BY <1>10 DEF Balance
    <2>3. SameStay(req[s].old, req[s].new)
      BY <2>1 DEF StayInv, Planned
    <2>4. /\ q.op = req[s].op /\ q.old = req[s].old
          /\ q.new = [req[s].new EXCEPT !.waived = TRUE]
      BY <2>1 DEF LifecycleReq
    <2>5. SameStay(q.old, q.new)
      BY <2>1, <2>3, <2>4 DEF SameStay, LifecycleReq, Row
    <2> HIDE DEF q
    <2>6. Planned(q)
      BY <2>1, <2>4, <2>5 DEF Planned, LifecycleReq, CreateReq
    <2>. QED
      BY <2>1, <2>2, <2>6, GoToPlanned, RefusePlanned, ContinuePlanned DEF q
  <1>11. CASE SetStatus(s)
    <2>1. PICK q : Continue(s, q) /\ q \in [op: {"set_status"}, pc: {"occupants", "commit"},
                                            room: Room, room_old: RoomStatus,
                                            room_new: RoomStatus]
      BY <1>0, <1>11 DEF SetStatus, TypeInv, TypeOK
    <2>2. Planned(q)
      BY <2>1 DEF Planned, CreateReq, LifecycleReq
    <2>. QED
      BY <2>1, <2>2, ContinuePlanned
  <1>12. CASE RoomOccupants(s)
    <2> DEFINE q == [req[s] EXCEPT !.pc = "commit",
                       !.room_new = Housekept(@, ActiveForRoom(req[s].room) # {})]
    <2>1. req[s] \in RoomReq
      BY <1>0, <1>12, RequestAt DEF RoomOccupants
    <2>2. GoTo(s, "blocking") \/ Continue(s, q) \/ Refuse(s)
      BY <1>12 DEF RoomOccupants
    <2>3. q.op = "set_status"
      BY <2>1 DEF RoomReq
    <2> HIDE DEF q
    <2>4. Planned(q)
      BY <2>3 DEF Planned, CreateReq, LifecycleReq
    <2>. QED
      BY <2>1, <2>2, <2>4, GoToPlanned, RefusePlanned, ContinuePlanned DEF q
  <1>13. CASE RoomBlocking(s)
    <2>1. req[s] \in RoomReq
      BY <1>0, <1>13, RequestAt DEF RoomBlocking
    <2>2. GoTo(s, "commit") \/ Refuse(s)
      BY <1>13 DEF RoomBlocking
    <2>. QED
      BY <2>1, <2>2, GoToPlanned, RefusePlanned
  <1>14. CASE Rollback(s)
    BY <1>14, RefusePlanned DEF Rollback
  <1>. QED
    BY <1>1, <1>2, <1>3, <1>4, <1>5, <1>6, <1>7, <1>8, <1>9, <1>10, <1>11, <1>12,
       <1>13, <1>14

\* A commit that writes one row and ends its request.
LEMMA CommitPlanned ==
  ASSUME StayInv, NEW s \in Session, req' = [req EXCEPT ![s] = Idle]
  PROVE  \A t \in Session : Planned(req'[t])
  BY OtherKindsPlanned DEF StayInv, TypeInv, TypeOK

\* The steps that end a request at its commit.
LEMMA WritingStepPlanned ==
  ASSUME StayInv, NEW s \in Session,
         Insert(s) \/ CommitUpdate(s) \/ CommitLifecycle(s) \/ CommitRoom(s)
  PROVE  TableStep /\ \A t \in Session : Planned(req'[t])
  <1>0. TypeInv
    BY DEF StayInv
  <1> DEFINE q == req[s]
             row == WrittenRow(q.old, q.new, booking[q.id])
  <1>1. CASE Insert(s)
    <2>1. q \in CreateReq
      BY <1>0, <1>1, RequestAt DEF Insert
    <2>2. q.new \in Row /\ DatesOK(q.new)
      BY <2>1 DEF StayInv, Planned, CreateReq
    <2>3. CASE ServerError(s)
      BY <2>3, ServerErrorPlanned DEF TableStep
    <2>4. CASE ~ServerError(s)
      <3>1. PICK r \in Res : /\ ExclusionOK(r, q.new)
                             /\ booking' = [booking EXCEPT ![r] = q.new]
                             /\ req' = [req EXCEPT ![s] = Idle]
        BY <1>1, <2>4 DEF Insert
      <3>2. RowWritten(r, q.new)
        BY <2>2, <3>1 DEF RowWritten
      <3>. QED
        BY <2>2, <3>1, <3>2, CommitPlanned DEF TableStep
    <2>. QED
      BY <2>3, <2>4
  <1>2. CASE CommitUpdate(s)
    <2>1. q \in UpdateReq
      BY <1>0, <1>2, RequestAt DEF CommitUpdate
    <2>2. q.id \in Res /\ booking[q.id] \in Row /\ q.old \in Row /\ q.new \in Row
      BY <1>0, <2>1 DEF UpdateReq, TypeInv, LoadedExists, Targeting
    <2>3. row \in Row
      BY <2>2, WrittenRowType
    <2>4. \/ /\ DatesOK(row) /\ ExclusionOK(q.id, row)
             /\ booking' = [booking EXCEPT ![q.id] = row]
             /\ req' = [req EXCEPT ![s] = Idle]
          \/ Refuse(s) \/ ServerError(s)
      BY <1>2 DEF CommitUpdate
    <2> HIDE DEF row
    <2>5. CASE Refuse(s) \/ ServerError(s)
      BY <2>5, RefusePlanned, ServerErrorPlanned DEF TableStep
    <2>6. CASE ~(Refuse(s) \/ ServerError(s))
      <3>1. RowWritten(q.id, row)
        BY <2>4, <2>6 DEF RowWritten
      <3>. QED
        BY <2>2, <2>3, <2>4, <2>6, <3>1, CommitPlanned DEF TableStep
    <2>. QED
      BY <2>5, <2>6
  <1>3. CASE CommitLifecycle(s)
    <2>1. q \in LifecycleReq
      BY <1>0, <1>3, RequestAt DEF CommitLifecycle
    <2>2. q.id \in Res /\ booking[q.id] \in Row /\ q.old \in Row /\ q.new \in Row
      BY <1>0, <2>1 DEF LifecycleReq, TypeInv, LoadedExists, Targeting
    <2>3. row \in Row
      BY <2>2, WrittenRowType
    <2>4. DatesOK(row)
      <3>1. SameStay(q.old, q.new)
        BY <2>1 DEF StayInv, Planned
      <3>2. row.check_in = booking[q.id].check_in /\ row.check_out = booking[q.id].check_out
        BY <3>1 DEF SameStay, WrittenRow, Written
      <3>. QED
        BY <2>2, <3>2 DEF DatesOK, StayInv
    <2>5. \/ /\ ExclusionOK(q.id, row)
             /\ booking' = [booking EXCEPT ![q.id] = row]
             /\ req' = [req EXCEPT ![s] = Idle]
          \/ ServerError(s)
      BY <1>3 DEF CommitLifecycle
    <2> HIDE DEF row
    <2>6. CASE ServerError(s)
      BY <2>6, ServerErrorPlanned DEF TableStep
    <2>7. CASE ~ServerError(s)
      <3>1. RowWritten(q.id, row)
        BY <2>4, <2>5, <2>7 DEF RowWritten
      <3>. QED
        BY <2>2, <2>3, <2>5, <2>7, <3>1, CommitPlanned DEF TableStep
    <2>. QED
      BY <2>6, <2>7
  <1>4. CASE CommitRoom(s)
    BY <1>4, CommitPlanned DEF CommitRoom, TableStep
  <1>. QED
    BY <1>1, <1>2, <1>3, <1>4

\* Every step keeps the reservations table or writes one row that satisfies
\* both database constraints.
LEMMA NextTableStep ==
  ASSUME StayInv, [Next]_vars
  PROVE  TableStep /\ \A t \in Session : Planned(req'[t])
  <1>1. CASE UNCHANGED vars
    BY <1>1 DEF vars, TableStep, StayInv
  <1>2. CASE Tick
    BY <1>2 DEF Tick, TableStep, StayInv
  <1>3. ASSUME NEW s \in Session, Step(s)
        PROVE  TableStep /\ \A t \in Session : Planned(req'[t])
    <2>1. CASE Insert(s) \/ CommitUpdate(s) \/ CommitLifecycle(s) \/ CommitRoom(s)
      BY <2>1, WritingStepPlanned
    <2>2. CASE ~(Insert(s) \/ CommitUpdate(s) \/ CommitLifecycle(s) \/ CommitRoom(s))
      BY <1>3, <2>2, ReadingStepPlanned DEF Step, TableStep
    <2>. QED
      BY <2>1, <2>2
  <1>. QED
    BY <1>1, <1>2, <1>3 DEF Next

LEMMA InitStayInv == Init => StayInv
  <1> SUFFICES ASSUME Init PROVE StayInv
    OBVIOUS
  <1>1. \A r \in Res : booking[r] \notin Row
    BY DEF Init, NoRow, Row, ReservationStatus
  <1>2. \A s \in Session : Planned(req[s])
    BY OtherKindsPlanned DEF Init
  <1>. QED
    BY <1>1, <1>2, InitTypeInv DEF StayInv

LEMMA NextStayInv == StayInv /\ [Next]_vars => StayInv'
  <1> SUFFICES ASSUME StayInv, [Next]_vars PROVE StayInv'
    OBVIOUS
  <1>1. TypeInv'
    BY NextTypeInv DEF StayInv
  <1>2. TableStep /\ \A s \in Session : Planned(req'[s])
    BY NextTableStep
  <1>3. \A r \in Res : booking'[r] \in Row => DatesOK(booking'[r])
    <2>1. CASE booking' = booking
      BY <2>1 DEF StayInv
    <2>2. ASSUME NEW id \in Res, NEW row \in Row, RowWritten(id, row)
          PROVE  \A r \in Res : booking'[r] \in Row => DatesOK(booking'[r])
      BY <2>2 DEF RowWritten, StayInv, TypeInv, TypeOK
    <2>. QED
      BY <1>2, <2>1, <2>2 DEF TableStep
  <1>4. (\A s \in Session : Planned(req[s]))'
    BY <1>2 DEF Planned
  <1>. QED
    BY <1>1, <1>3, <1>4 DEF StayInv, DatesOK

LEMMA StayInvAlways == Spec => []StayInv
  BY InitStayInv, NextStayInv, PTL DEF Spec

\* A stored stay always has at least one night, whatever partial edits of
\* concurrent requests add up to.
THEOREM StaysAlwaysHaveNights == Spec => []StaysHaveNights
  <1>1. StayInv => StaysHaveNights
    <2> SUFFICES ASSUME StayInv, NEW r \in Res, booking[r] # NoRow
                 PROVE  NightsOf(r) # {}
      BY DEF StaysHaveNights
    <2>1. booking[r] \in Row /\ DatesOK(booking[r])
      BY DEF StayInv, TypeInv, TypeOK
    <2>2. /\ booking[r].check_in \in Int /\ booking[r].check_out \in Int
          /\ booking[r].check_in < booking[r].check_out
      BY <2>1, FrontDeskAssumption DEF Row, Day, DatesOK
    <2>3. booking[r].check_in \in NightsOf(r)
      BY <2>2 DEF NightsOf, Nights
    <2>. QED
      BY <2>3
  <1>. QED
    BY <1>1, StayInvAlways, PTL

-----------------------------------------------------------------------------
(***************************************************************************)
(* The calendar.  Whatever the requests read, the constraint judges every  *)
(* row a commit leaves, so no_double_booking alone carries the result: no  *)
(* fact about is_available is used.                                        *)
(***************************************************************************)

\* With the constraint, a row a commit leaves is clear of every other booking.
LEMMA WrittenRowIsClear ==
  ASSUME HasExclusion = TRUE,
         NEW id \in Res, NEW row \in Row, ExclusionOK(id, row),
         row.status \in BLOCKING_STATUSES,
         NEW other \in Res \ {id}, IsBlocking(other), booking[other].room = row.room
  PROVE  NightsOf(other) \cap Nights(row.check_in, row.check_out) = {}
  BY DEF ExclusionOK, IsBlocking, NightsOf

LEMMA NextNoDoubleBooking ==
  ASSUME HasExclusion = TRUE
  PROVE  StayInv /\ NoDoubleBooking /\ [Next]_vars => NoDoubleBooking'
  <1> SUFFICES ASSUME StayInv, NoDoubleBooking, [Next]_vars
               PROVE  NoDoubleBooking'
    OBVIOUS
  <1>1. TableStep
    BY NextTableStep
  <1>2. CASE booking' = booking
    BY <1>2 DEF NoDoubleBooking, IsBlocking, NightsOf
  <1>3. ASSUME NEW id \in Res, NEW row \in Row, RowWritten(id, row)
        PROVE  NoDoubleBooking'
    <2>1. booking'[id] = row
      BY <1>3 DEF RowWritten, StayInv, TypeInv, TypeOK
    <2>2. \A r \in Res \ {id} : booking'[r] = booking[r]
      BY <1>3 DEF RowWritten, StayInv, TypeInv, TypeOK
    <2>3. ASSUME NEW r \in Res \ {id}, IsBlocking(id)', IsBlocking(r)',
                 booking'[r].room = booking'[id].room
          PROVE  NightsOf(r)' \cap NightsOf(id)' = {}
      <3>1. IsBlocking(r) /\ booking[r].room = row.room /\ row.status \in BLOCKING_STATUSES
        BY <2>1, <2>2, <2>3 DEF IsBlocking
      <3>2. NightsOf(r) \cap Nights(row.check_in, row.check_out) = {}
        BY <1>3, <3>1, WrittenRowIsClear DEF RowWritten
      <3>. QED
        BY <2>1, <2>2, <3>2 DEF NightsOf
    <2>4. ASSUME NEW a \in Res \ {id}, NEW b \in Res \ {id}, a # b,
                 IsBlocking(a)', IsBlocking(b)', booking'[a].room = booking'[b].room
          PROVE  NightsOf(a)' \cap NightsOf(b)' = {}
      <3>1. IsBlocking(a) /\ IsBlocking(b) /\ booking[a].room = booking[b].room
        BY <2>2, <2>4 DEF IsBlocking
      <3>2. NightsOf(a) \cap NightsOf(b) = {}
        BY <2>4, <3>1 DEF NoDoubleBooking
      <3>. QED
        BY <2>2, <3>2 DEF NightsOf
    <2>. QED
      BY <2>3, <2>4 DEF NoDoubleBooking
  <1>. QED
    BY <1>1, <1>2, <1>3 DEF TableStep

\* On PostgreSQL no room is ever sold twice for a night, for any hotel and any
\* interleaving of any number of requests: the exclusion constraint suffices.
THEOREM NeverDoubleBooked ==
  ASSUME HasExclusion = TRUE
  PROVE  Spec => []NoDoubleBooking
  <1>1. Init => NoDoubleBooking
    BY DEF Init, NoDoubleBooking, IsBlocking, NoRow, BLOCKING_STATUSES
  <1>2. StayInv /\ NoDoubleBooking /\ [Next]_vars => NoDoubleBooking'
    BY NextNoDoubleBooking
  <1>. QED
    BY <1>1, <1>2, StayInvAlways, PTL DEF Spec

-----------------------------------------------------------------------------
(***************************************************************************)
(* The desk implements the abstract calendar.                              *)
(***************************************************************************)

LEMMA InitCalendar == Init => Calendar!Init
  BY DEF Init, Calendar!Init, HeldNights, IsBlocking, NoRow, BLOCKING_STATUSES

\* The nights held after a commit: those of its row, and everyone else's.
LEMMA HeldAfterCommit ==
  ASSUME StayInv, NEW id \in Res, NEW row \in Row, RowWritten(id, row)
  PROVE  HeldNights' =
           [HeldNights EXCEPT ![id] =
              IF row.status \in BLOCKING_STATUSES
              THEN {row.room} \X Nights(row.check_in, row.check_out) ELSE {}]
  <1>1. booking'[id] = row
    BY DEF RowWritten, StayInv, TypeInv, TypeOK
  <1>2. \A r \in Res \ {id} : booking'[r] = booking[r]
    BY DEF RowWritten, StayInv, TypeInv, TypeOK
  <1> DEFINE nights == IF row.status \in BLOCKING_STATUSES
                       THEN {row.room} \X Nights(row.check_in, row.check_out) ELSE {}
  <1>3. HeldNights' = [r \in Res |-> HeldNights'[r]] /\ HeldNights'[id] = nights
    BY <1>1 DEF HeldNights, IsBlocking, NightsOf
  <1>4. \A r \in Res \ {id} : HeldNights'[r] = HeldNights[r]
    BY <1>2 DEF HeldNights, IsBlocking, NightsOf
  <1>5. HeldNights = [r \in Res |-> HeldNights[r]]
    BY DEF HeldNights
  <1> HIDE DEF nights
  <1>6. HeldNights' = [HeldNights EXCEPT ![id] = nights]
    BY <1>3, <1>4, <1>5
  <1>. QED
    BY <1>6 DEF nights

LEMMA NextCalendar ==
  ASSUME HasExclusion = TRUE
  PROVE  StayInv /\ [Next]_vars => [Calendar!Next]_HeldNights
  <1> SUFFICES ASSUME StayInv, [Next]_vars
               PROVE  Calendar!Next \/ HeldNights' = HeldNights
    OBVIOUS
  <1>1. TableStep
    BY NextTableStep
  <1>2. CASE booking' = booking
    BY <1>2 DEF HeldNights, IsBlocking, NightsOf
  <1>3. ASSUME NEW id \in Res, NEW row \in Row, RowWritten(id, row),
               row.status \in BLOCKING_STATUSES
        PROVE  Calendar!Hold(id, row.room, row.check_in, row.check_out)
    <2>1. row.check_in < row.check_out
      BY <1>3, FrontDeskAssumption DEF RowWritten, DatesOK, Row, Day
    <2>2. ASSUME NEW other \in Res \ {id}
          PROVE  HeldNights[other]
                   \cap ({row.room} \X Nights(row.check_in, row.check_out)) = {}
      <3>1. CASE ~IsBlocking(other)
        BY <3>1 DEF HeldNights
      <3>2. CASE IsBlocking(other) /\ booking[other].room # row.room
        BY <3>2 DEF HeldNights
      <3>3. CASE IsBlocking(other) /\ booking[other].room = row.room
        <4>1. NightsOf(other) \cap Nights(row.check_in, row.check_out) = {}
          BY <1>3, <3>3, WrittenRowIsClear DEF RowWritten
        <4>. QED
          BY <3>3, <4>1 DEF HeldNights
      <3>. QED
        BY <3>1, <3>2, <3>3
    <2>3. HeldNights' = [HeldNights EXCEPT ![id] =
                           {row.room} \X Nights(row.check_in, row.check_out)]
      BY <1>3, HeldAfterCommit
    <2>. QED
      BY <2>1, <2>2, <2>3
      DEF Calendar!Hold, Calendar!Free, Calendar!StayNights, Nights
  <1>4. ASSUME NEW id \in Res, NEW row \in Row, RowWritten(id, row),
               row.status \notin BLOCKING_STATUSES
        PROVE  Calendar!Release(id)
    BY <1>4, HeldAfterCommit DEF Calendar!Release
  <1>5. \A row \in Row : row.room \in Room /\ row.check_in \in Day /\ row.check_out \in Day
    BY DEF Row
  <1>. QED
    BY <1>1, <1>2, <1>3, <1>4, <1>5 DEF TableStep, Calendar!Next

\* Every behaviour of the desk on PostgreSQL is a behaviour of the calendar:
\* each commit takes one free stay, gives one up, or leaves the nights alone.
THEOREM DeskImplementsRoomNights ==
  ASSUME HasExclusion = TRUE
  PROVE  Spec => ImplementsRoomNights
  <1>1. Init => Calendar!Init
    BY InitCalendar
  <1>2. StayInv /\ [Next]_vars => [Calendar!Next]_HeldNights
    BY NextCalendar
  <1>. QED
    BY <1>1, <1>2, StayInvAlways, PTL DEF Spec, ImplementsRoomNights, Calendar!Spec

\* What the calendar holds are nights of rooms, and no step of it gives a night
\* that another booking holds.
HeldType == HeldNights \in [Res -> SUBSET (Room \X Int)]

LEMMA StepKeepsNightsApart ==
  ASSUME HeldType, Calendar!NoNightHeldTwice, NEW b \in Res, NEW nights,
         Calendar!Free(b, nights), HeldNights' = [HeldNights EXCEPT ![b] = nights]
  PROVE  Calendar!NoNightHeldTwice'
  <1>1. /\ HeldNights'[b] = nights
        /\ \A other \in Res \ {b} : HeldNights'[other] = HeldNights[other]
    BY DEF HeldType
  <1>2. \A other \in Res \ {b} : HeldNights'[other] \cap HeldNights'[b] = {}
    BY <1>1 DEF Calendar!Free
  <1>. QED
    BY <1>1, <1>2 DEF Calendar!NoNightHeldTwice

LEMMA NextNightsApart ==
  HeldType /\ Calendar!NoNightHeldTwice /\ [Calendar!Next]_HeldNights
    => HeldType' /\ Calendar!NoNightHeldTwice'
  <1> SUFFICES ASSUME HeldType, Calendar!NoNightHeldTwice, [Calendar!Next]_HeldNights
               PROVE  HeldType' /\ Calendar!NoNightHeldTwice'
    OBVIOUS
  <1>1. CASE UNCHANGED HeldNights
    BY <1>1 DEF HeldType, Calendar!NoNightHeldTwice
  <1>2. ASSUME NEW b \in Res, NEW rm \in Room, NEW from \in Day, NEW to \in Day,
               Calendar!Hold(b, rm, from, to)
        PROVE  HeldType' /\ Calendar!NoNightHeldTwice'
    <2>1. Calendar!StayNights(rm, from, to) \in SUBSET (Room \X Int)
      BY FrontDeskAssumption DEF Calendar!StayNights, Day
    <2>. QED
      BY <1>2, <2>1, StepKeepsNightsApart DEF Calendar!Hold, HeldType
  <1>3. ASSUME NEW b \in Res, Calendar!Release(b)
        PROVE  HeldType' /\ Calendar!NoNightHeldTwice'
    BY <1>3, StepKeepsNightsApart DEF Calendar!Release, Calendar!Free, HeldType
  <1>. QED
    BY <1>1, <1>2, <1>3 DEF Calendar!Next

\* The abstract calendar never gives one night of a room to two bookings: the
\* guarantee whatever implements it inherits.
THEOREM CalendarSound == ImplementsRoomNights => []Calendar!NoNightHeldTwice
  <1>1. Calendar!Init => HeldType /\ Calendar!NoNightHeldTwice
    BY DEF Calendar!Init, HeldType, Calendar!NoNightHeldTwice
  <1>. QED
    BY <1>1, NextNightsApart, PTL DEF ImplementsRoomNights, Calendar!Spec

-----------------------------------------------------------------------------
(***************************************************************************)
(* From here on: while no two requests in flight are about the same room.  *)
(* What a request has read of a room and of its bookings is then still so  *)
(* when it commits.                                                        *)
(***************************************************************************)

Priced(row) ==
  row.total = accommodation_charge(row.rate, row.check_out - row.check_in)

InService(rm) == room[rm] # "maintenance"

\* What a request in flight relies on, by its kind and stage.
CreateRelies(q) ==
  /\ q.new.status = "confirmed" /\ Priced(q.new)
  /\ InService(q.new.room)
  /\ q.pc = "commit" => IsAvailable({}, q.new.room, q.new.check_in, q.new.check_out)

UpdateRelies(q) ==
  /\ booking[q.id] = q.old
  /\ q.old.status \in EDITABLE_STATUSES /\ q.new.status = q.old.status
  /\ q.new.waived = q.old.waived
  /\ Priced(q.new)
  /\ q.pc = "room" \/ q.new.room = q.old.room \/ InService(q.new.room)
  /\ q.pc = "commit" =>
       \/ SameStay(q.old, q.new)
       \/ IsAvailable({q.id}, q.new.room, q.new.check_in, q.new.check_out)

\* Whoever leaves the house leaves the room to be cleaned, and cancelling from
\* inside it is a manager's.
LeavingRelies(s, q) ==
  /\ q.new.status \notin BLOCKING_STATUSES
  /\ IF q.old.status = "checked_in"
     THEN q.room_new = "cleaning" /\ (q.new.status = "cancelled" => s \in Manager)
     ELSE q.room_new = q.room_old

CheckInRelies(q) ==
  /\ q.old.status \in EDITABLE_STATUSES /\ q.new.status = "checked_in"
  /\ q.room_new = "occupied"
  /\ q.pc = "commit" => ActiveForRoom(q.room) = {}

LifecycleRelies(s, q) ==
  /\ booking[q.id] = q.old /\ room[q.room] = q.room_old
  /\ q.room = q.old.room /\ SameStay(q.old, q.new)
  /\ q.new.rate = q.old.rate /\ q.new.total = q.old.total
  /\ <<q.old.status, q.new.status>> \in LifecycleEdge
  /\ q.new.waived # q.old.waived => s \in Manager
  /\ IF q.op = "check_in" THEN CheckInRelies(q) ELSE LeavingRelies(s, q)

RoomRelies(q) ==
  /\ room[q.room] = q.room_old
  /\ q.pc = "blocking" => q.room_new = "maintenance"
  /\ q.pc = "commit" =>
       /\ q.room_new = "maintenance" => BlockingForRoom(q.room) = {}
       /\ q.room_new = "available" => ActiveForRoom(q.room) = {}

Relies(s, q) ==
  /\ q \in CreateReq => CreateRelies(q)
  /\ q \in UpdateReq => UpdateRelies(q)
  /\ q \in LifecycleReq => LifecycleRelies(s, q)
  /\ q \in RoomReq => RoomRelies(q)

RequestsRely == \A s \in Session : Relies(s, req[s])

\* What holds of the tables.
TablesAgree ==
  /\ OneOccupantPerRoom /\ GuestRoomInUse /\ NoBookingInMaintenance
  /\ PriceMatchesStay /\ NoDoubleBooking

DeskInv == StayInv /\ RequestsRely /\ TablesAgree

\* What a step does to a booking and its room, the step properties by name.
LifecycleStep ==
  \A r \in Res : booking'[r].status # booking[r].status =>
    <<booking[r].status, booking'[r].status>> \in LifecycleEdge

HistoryStep ==
  \A r \in Res :
    booking[r].status \in {"checked_in", "checked_out", "cancelled", "no_show"} =>
      /\ booking'[r].room = booking[r].room
      /\ booking'[r].check_in = booking[r].check_in
      /\ booking'[r].check_out = booking[r].check_out
      /\ booking'[r].total = booking[r].total

RoomStep ==
  \A r \in Res :
    /\ ~InHouse(r) /\ InHouse(r)' => room'[booking'[r].room] = "occupied"
    /\ InHouse(r) /\ ~InHouse(r)' => room'[booking[r].room] = "cleaning"

WriteOffStep ==
  \A r \in Res :
    \/ InHouse(r) /\ booking'[r].status = "cancelled"
    \/ booking[r] # NoRow /\ booking'[r].waived /\ ~booking[r].waived
    => ManagerCommits

StepsAgree == LifecycleStep /\ HistoryStep /\ RoomStep /\ WriteOffStep

\* Session s has changed nothing of rooms its request is not about.
OnlyItsRooms(s) ==
  /\ \A r \in Res : booking'[r] # booking[r] =>
       /\ booking[r] # NoRow => booking[r].room \in RoomsOf(req[s])
       /\ booking'[r] # NoRow /\ booking'[r].room \in RoomsOf(req[s])
  /\ \A rm \in Room : room'[rm] # room[rm] => rm \in RoomsOf(req[s])

-----------------------------------------------------------------------------
LEMMA RoomsOfRequests ==
  /\ \A q \in CreateReq : RoomsOf(q) = {q.new.room}
  /\ \A q \in UpdateReq : RoomsOf(q) = {q.old.room, q.new.room}
  /\ \A q \in LifecycleReq \cup RoomReq : RoomsOf(q) = {q.room}
  <1>1. \A q \in CreateReq \cup UpdateReq \cup LifecycleReq \cup RoomReq :
          q # Idle /\ q.pc # "failed"
    BY DEF CreateReq, UpdateReq, LifecycleReq, RoomReq, Idle
  <1>2. /\ \A q \in CreateReq : q.op = "create"
        /\ \A q \in UpdateReq : q.op = "update"
        /\ \A q \in LifecycleReq \cup RoomReq : q.op # "create" /\ q.op # "update"
    BY DEF CreateReq, UpdateReq, LifecycleReq, RoomReq
  <1>. QED
    BY <1>1, <1>2 DEF RoomsOf

\* What is asked of a room nobody else is about is answered the same later.
LEMMA QueriesKept ==
  ASSUME NEW s \in Session, OnlyItsRooms(s), NEW rm \in Room, rm \notin RoomsOf(req[s])
  PROVE  /\ room'[rm] = room[rm]
         /\ ActiveForRoom(rm) = {} => ActiveForRoom(rm)' = {}
         /\ BlockingForRoom(rm) = {} => BlockingForRoom(rm)' = {}
         /\ \A exclude, in, out :
              IsAvailable(exclude, rm, in, out) => IsAvailable(exclude, rm, in, out)'
  <1>1. room'[rm] = room[rm]
    BY DEF OnlyItsRooms
  <1>2. \A r \in Res : booking'[r].room = rm => booking'[r] = booking[r]
    BY DEF OnlyItsRooms
  <1>3. ActiveForRoom(rm) = {} => ActiveForRoom(rm)' = {}
    BY <1>2 DEF ActiveForRoom
  <1>4. BlockingForRoom(rm) = {} => BlockingForRoom(rm)' = {}
    BY <1>2 DEF BlockingForRoom
  <1>5. \A exclude, in, out :
          IsAvailable(exclude, rm, in, out) => IsAvailable(exclude, rm, in, out)'
    BY <1>2 DEF IsAvailable
  <1>. QED
    BY <1>1, <1>3, <1>4, <1>5

\* A request is not disturbed by a step that is about other rooms.
LEMMA OthersRely ==
  ASSUME DeskInv, RoomsApart, NEW s \in Session, OnlyItsRooms(s),
         NEW t \in Session \ {s}, req'[t] = req[t]
  PROVE  Relies(t, req[t])'
  <1> DEFINE q == req[t]
  <1>1. /\ q \in Request /\ Relies(t, q) /\ RoomsOf(q) \cap RoomsOf(req[s]) = {}
        /\ q \in Targeting => booking[q.id] \in Row
    BY DEF DeskInv, StayInv, TypeInv, TypeOK, LoadedExists, RequestsRely, RoomsApart
  <1>2. CASE q \in CreateReq
    <2>1. q.new.room \in Room /\ q.new.room \notin RoomsOf(req[s]) /\ CreateRelies(q)
      BY <1>1, <1>2, RoomsOfRequests DEF CreateReq, Row, Relies
    <2>2. q \notin UpdateReq /\ q \notin LifecycleReq /\ q \notin RoomReq
      BY <1>2 DEF CreateReq, UpdateReq, LifecycleReq, RoomReq
    <2>3. CreateRelies(q)'
      BY <2>1, QueriesKept DEF CreateRelies, InService, Priced
    <2>. QED
      BY <2>2, <2>3 DEF Relies
  <1>3. CASE q \in UpdateReq
    <2>1. /\ q.new.room \in Room /\ q.old.room \in Room /\ q.id \in Res /\ UpdateRelies(q)
          /\ q.new.room \notin RoomsOf(req[s]) /\ q.old.room \notin RoomsOf(req[s])
          /\ booking[q.id] # NoRow
      BY <1>1, <1>3, RoomsOfRequests
      DEF UpdateReq, Row, NoRow, ReservationStatus, Relies, Targeting
    <2>2. q \notin CreateReq /\ q \notin LifecycleReq /\ q \notin RoomReq
      BY <1>3 DEF CreateReq, UpdateReq, LifecycleReq, RoomReq
    <2>3. booking'[q.id] = booking[q.id]
      BY <2>1 DEF OnlyItsRooms, UpdateRelies
    <2>4. UpdateRelies(q)'
      BY <2>1, <2>3, QueriesKept DEF UpdateRelies, InService, Priced, SameStay
    <2>. QED
      BY <2>2, <2>4 DEF Relies
  <1>4. CASE q \in LifecycleReq
    <2>1. /\ q.room \in Room /\ q.id \in Res /\ q.room \notin RoomsOf(req[s])
          /\ LifecycleRelies(t, q) /\ booking[q.id] # NoRow
      BY <1>1, <1>4, RoomsOfRequests
      DEF LifecycleReq, Row, NoRow, ReservationStatus, Relies, Targeting
    <2>2. q \notin CreateReq /\ q \notin UpdateReq /\ q \notin RoomReq
      BY <1>4 DEF CreateReq, UpdateReq, LifecycleReq, RoomReq
    <2>3. booking'[q.id] = booking[q.id]
      BY <2>1 DEF OnlyItsRooms, LifecycleRelies
    <2>4. room'[q.room] = room[q.room] /\ (ActiveForRoom(q.room) = {} => ActiveForRoom(q.room)' = {})
      BY <2>1, QueriesKept
    <2>5. LifecycleRelies(t, q)'
      BY <2>1, <2>3, <2>4 DEF LifecycleRelies, CheckInRelies, LeavingRelies, SameStay
    <2>. QED
      BY <2>2, <2>5 DEF Relies
  <1>5. CASE q \in RoomReq
    <2>1. q.room \in Room /\ q.room \notin RoomsOf(req[s]) /\ RoomRelies(q)
      BY <1>1, <1>5, RoomsOfRequests DEF RoomReq, Relies
    <2>2. q \notin CreateReq /\ q \notin UpdateReq /\ q \notin LifecycleReq
      BY <1>5 DEF CreateReq, UpdateReq, LifecycleReq, RoomReq
    <2>3. RoomRelies(q)'
      BY <2>1, QueriesKept DEF RoomRelies
    <2>. QED
      BY <2>2, <2>3 DEF Relies
  <1>6. CASE q \notin CreateReq \cup UpdateReq \cup LifecycleReq \cup RoomReq
    BY <1>6 DEF Relies
  <1>. QED
    BY <1>2, <1>3, <1>4, <1>5, <1>6

-----------------------------------------------------------------------------
(***************************************************************************)
(* Steps that only read.                                                   *)
(***************************************************************************)

\* What a request must show, by the kind of request it is.
LEMMA ReliesByKind ==
  ASSUME NEW s \in Session, NEW q
  PROVE  /\ q.op = "create" /\ CreateRelies(q) => Relies(s, q)
         /\ q.op = "update" /\ UpdateRelies(q) => Relies(s, q)
         /\ q.op \in {"check_in", "check_out", "cancel", "no_show"}
              /\ LifecycleRelies(s, q) => Relies(s, q)
         /\ q.op = "set_status" /\ RoomRelies(q) => Relies(s, q)
         /\ q = Idle \/ q.pc = "failed" => Relies(s, q)
  <1>1. /\ Idle.op = "idle"
        /\ \A x \in CreateReq : x.op = "create" /\ x.pc # "failed"
        /\ \A x \in UpdateReq : x.op = "update" /\ x.pc # "failed"
        /\ \A x \in LifecycleReq :
             x.op \in {"check_in", "check_out", "cancel", "no_show"} /\ x.pc # "failed"
        /\ \A x \in RoomReq : x.op = "set_status" /\ x.pc # "failed"
    BY DEF Idle, CreateReq, UpdateReq, LifecycleReq, RoomReq
  <1>. QED
    BY <1>1 DEF Relies

\* A request that may go on with q relies on the same tables after a step that
\* leaves them alone, whatever the day.
LEMMA ReliesKept ==
  ASSUME booking' = booking, room' = room,
         NEW s \in Session, NEW q, req'[s] = q, Relies(s, q)
  PROVE  Relies(s, req[s])'
  <1>1. CreateRelies(q) => CreateRelies(req[s])'
    BY DEF CreateRelies, Priced, InService, IsAvailable
  <1>2. UpdateRelies(q) => UpdateRelies(req[s])'
    BY DEF UpdateRelies, Priced, InService, IsAvailable, SameStay
  <1>3. LifecycleRelies(s, q) => LifecycleRelies(s, req[s])'
    BY DEF LifecycleRelies, CheckInRelies, LeavingRelies, ActiveForRoom, SameStay
  <1>4. RoomRelies(q) => RoomRelies(req[s])'
    BY DEF RoomRelies, ActiveForRoom, BlockingForRoom
  <1>. QED
    BY <1>1, <1>2, <1>3, <1>4 DEF Relies

\* A step that leaves the tables alone keeps all that is said of them.
LEMMA TablesKept ==
  ASSUME DeskInv, booking' = booking, room' = room
  PROVE  TablesAgree' /\ StepsAgree
  <1>1. TablesAgree'
    BY DEF DeskInv, TablesAgree, OneOccupantPerRoom, GuestRoomInUse, InHouse, IsBlocking,
           NightsOf, NoBookingInMaintenance, PriceMatchesStay, NoDoubleBooking
  <1>2. LifecycleStep /\ HistoryStep
    BY DEF LifecycleStep, HistoryStep
  <1>3. RoomStep
    BY DEF RoomStep, InHouse
  <1>4. WriteOffStep
    <2>1. \A r \in Res : InHouse(r) => booking'[r].status # "cancelled"
      BY DEF InHouse
    <2>2. \A r \in Res : booking'[r].waived <=> booking[r].waived
      OBVIOUS
    <2>. QED
      BY <2>1, <2>2 DEF WriteOffStep
  <1>. QED
    BY <1>1, <1>2, <1>3, <1>4 DEF StepsAgree

LEMMA ReadingKeeps ==
  ASSUME DeskInv, NEW s \in Session, NEW q, Continue(s, q), Relies(s, q)
  PROVE  RequestsRely' /\ TablesAgree' /\ StepsAgree
  <1>1. booking' = booking /\ room' = room
    BY DEF Continue
  <1>2. \A t \in Session : Relies(t, req'[t])
    BY DEF Continue, DeskInv, StayInv, TypeInv, TypeOK, RequestsRely
  <1>3. ASSUME NEW t \in Session
        PROVE  Relies(t, req[t])'
    BY <1>1, <1>2, ReliesKept
  <1>. QED
    BY <1>1, <1>3, TablesKept DEF RequestsRely

LEMMA EndingKeeps ==
  ASSUME DeskInv, NEW s \in Session, Refuse(s) \/ ServerError(s)
  PROVE  RequestsRely' /\ TablesAgree' /\ StepsAgree
  <1>1. PICK q : Continue(s, q) /\ (q = Idle \/ q.pc = "failed")
    BY DEF Refuse, ServerError
  <1>. QED
    BY <1>1, ReliesByKind, ReadingKeeps

\* What the request of a session relies on.
LEMMA RequestRelies ==
  ASSUME DeskInv, NEW s \in Session
  PROVE  /\ req[s] \in CreateReq => CreateRelies(req[s])
         /\ req[s] \in UpdateReq => UpdateRelies(req[s])
         /\ req[s] \in LifecycleReq => LifecycleRelies(s, req[s])
         /\ req[s] \in RoomReq => RoomRelies(req[s])
  BY DEF DeskInv, RequestsRely, Relies

LEMMA CreateKeeps ==
  ASSUME DeskInv, NEW s \in Session, Create(s)
  PROVE  RequestsRely' /\ TablesAgree' /\ StepsAgree
  <1>1. PICK rm \in Room, check_in \in Day, check_out \in Day,
             override \in Rates \cup {NoRate} :
          /\ IsBookable(room[rm])
          /\ Continue(s, [op |-> "create", pc |-> "available",
                          new |-> NewRow(rm, check_in, check_out, override)])
    BY DEF Create
  <1> DEFINE new == NewRow(rm, check_in, check_out, override)
             q == [op |-> "create", pc |-> "available", new |-> new]
  <1>2. new.status = "confirmed" /\ new.room = rm /\ Priced(new)
    BY DEF NewRow, Priced
  <1>3. CreateRelies(q)
    BY <1>1, <1>2 DEF CreateRelies, InService, IsBookable
  <1>. QED
    BY <1>1, <1>3, ReliesByKind, ReadingKeeps

LEMMA CheckAvailableKeeps ==
  ASSUME DeskInv, NEW s \in Session, CheckAvailable(s)
  PROVE  RequestsRely' /\ TablesAgree' /\ StepsAgree
  <1> DEFINE q == req[s]
             next == [q EXCEPT !.pc = "commit"]
  <1>1. At(s, {"create"}, "available") \/ At(s, {"update"}, "available")
    BY DEF CheckAvailable, At
  <1>2. q \in CreateReq \cup UpdateReq
    BY <1>1, RequestAt DEF DeskInv, StayInv
  <1>3. CASE Refuse(s)
    BY <1>3, EndingKeeps
  <1>4. CASE q \in CreateReq /\ ~Refuse(s)
    <2>1. CreateRelies(q) /\ q.op = "create"
      BY <1>4, RequestRelies DEF CreateReq
    <2>2. Continue(s, next) /\ IsAvailable({}, q.new.room, q.new.check_in, q.new.check_out)
      BY <1>4, <2>1 DEF CheckAvailable, GoTo
    <2>3. next.op = "create" /\ next.new = q.new
      BY <1>4 DEF CreateReq
    <2> HIDE DEF next
    <2>4. CreateRelies(next)
      BY <2>1, <2>2, <2>3 DEF CreateRelies
    <2>. QED
      BY <2>2, <2>3, <2>4, ReliesByKind, ReadingKeeps
  <1>5. CASE q \in UpdateReq /\ ~Refuse(s)
    <2>1. UpdateRelies(q) /\ q.op = "update" /\ q.pc = "available"
      BY <1>1, <1>5, RequestRelies DEF UpdateReq, At
    <2>2. /\ Continue(s, next)
          /\ IsAvailable({q.id}, q.new.room, q.new.check_in, q.new.check_out)
      BY <1>5, <2>1 DEF CheckAvailable, GoTo
    <2>3. next.op = "update" /\ next.new = q.new /\ next.old = q.old /\ next.id = q.id
      BY <1>5 DEF UpdateReq
    <2> HIDE DEF next
    <2>4. UpdateRelies(next)
      BY <2>1, <2>2, <2>3 DEF UpdateRelies
    <2>. QED
      BY <2>2, <2>3, <2>4, ReliesByKind, ReadingKeeps
  <1>. QED
    BY <1>2, <1>3, <1>4, <1>5

\* What update does with a booking it may edit.
UpdateOf(s, r) ==
  \E rm \in Room, check_in, check_out \in Day, override \in Rates \cup {NoRate} :
    LET old   == booking[r]
        moved == rm # old.room
        dated == check_in # old.check_in \/ check_out # old.check_out
    IN  /\ dated /\ ~moved => IsBookable(room[rm])
        /\ Continue(s, [op |-> "update", id |-> r, old |-> old,
                        new |-> EditedRow(old, rm, check_in, check_out, override),
                        pc |-> IF moved THEN "room"
                               ELSE IF dated THEN "available" ELSE "commit"])

LEMMA UpdateKeeps ==
  ASSUME DeskInv, NEW s \in Session, Update(s)
  PROVE  RequestsRely' /\ TablesAgree' /\ StepsAgree
  <1>1. PICK r \in Res, rm \in Room, check_in \in Day, check_out \in Day,
             override \in Rates \cup {NoRate} :
          LET old   == booking[r]
              moved == rm # old.room
              dated == check_in # old.check_in \/ check_out # old.check_out
          IN  /\ MayEdit(old)
              /\ dated /\ ~moved => IsBookable(room[rm])
              /\ Continue(s, [op |-> "update", id |-> r, old |-> old,
                              new |-> EditedRow(old, rm, check_in, check_out, override),
                              pc |-> IF moved THEN "room"
                                     ELSE IF dated THEN "available" ELSE "commit"])
    <2>1. PICK r \in Res : MayEdit(booking[r]) /\ UpdateOf(s, r)
      BY DEF Update, UpdateOf
    <2>. QED
      BY <2>1 DEF UpdateOf
  <1> DEFINE old == booking[r]
             new == EditedRow(old, rm, check_in, check_out, override)
             pc == IF rm # old.room THEN "room"
                   ELSE IF check_in # old.check_in \/ check_out # old.check_out
                        THEN "available" ELSE "commit"
             q == [op |-> "update", id |-> r, old |-> old, new |-> new, pc |-> pc]
  <1>2. old \in Row /\ old.status \in EDITABLE_STATUSES
    BY <1>1, StatusMeansRow
    DEF MayEdit, EDITABLE_STATUSES, ReservationStatus, DeskInv, StayInv
  <1>3. /\ new.status = old.status /\ new.waived = old.waived
        /\ new.room = rm /\ new.check_in = check_in /\ new.check_out = check_out
        /\ Priced(new)
    BY <1>2 DEF EditedRow, Row, Priced
  <1> HIDE DEF new
  <1>4. UpdateRelies(q)
    <2>1. pc = "room" \/ rm = old.room
      OBVIOUS
    <2>2. pc = "commit" => SameStay(old, new)
      BY <1>3 DEF SameStay
    <2>. QED
      BY <1>2, <1>3, <2>1, <2>2 DEF UpdateRelies
  <1>5. Continue(s, q)
    BY <1>1 DEF new
  <1>. QED
    BY <1>4, <1>5, ReliesByKind, ReadingKeeps

LEMMA UpdateRoomKeeps ==
  ASSUME DeskInv, NEW s \in Session, UpdateRoom(s)
  PROVE  RequestsRely' /\ TablesAgree' /\ StepsAgree
  <1> DEFINE q == req[s]
             next == [q EXCEPT !.pc = "available"]
  <1>1. q \in UpdateReq
    BY RequestAt DEF UpdateRoom, DeskInv, StayInv
  <1>2. CASE Refuse(s)
    BY <1>2, EndingKeeps
  <1>3. CASE ~Refuse(s)
    <2>1. Continue(s, next) /\ InService(q.new.room) /\ UpdateRelies(q)
      BY <1>1, <1>3, RequestRelies DEF UpdateRoom, GoTo, IsBookable, InService
    <2>2. /\ next.op = "update" /\ next.new = q.new /\ next.old = q.old /\ next.id = q.id
          /\ next.pc = "available"
      BY <1>1 DEF UpdateReq
    <2> HIDE DEF next
    <2>3. UpdateRelies(next)
      BY <2>1, <2>2 DEF UpdateRelies
    <2>. QED
      BY <2>1, <2>2, <2>3, ReliesByKind, ReadingKeeps
  <1>. QED
    BY <1>2, <1>3

\* A handler that has loaded a booking and its room and has decided.
LEMMA LifecycleKeeps ==
  ASSUME DeskInv, NEW s \in Session, NEW r \in Res, booking[r] \in Row,
         NEW op \in {"check_in", "check_out", "cancel", "no_show"},
         NEW pc, NEW status, NEW rm_new,
         <<booking[r].status, status>> \in LifecycleEdge,
         IF op = "check_in"
         THEN /\ booking[r].status \in EDITABLE_STATUSES /\ status = "checked_in"
              /\ rm_new = "occupied" /\ pc # "commit"
         ELSE /\ status \notin BLOCKING_STATUSES
              /\ IF booking[r].status = "checked_in"
                 THEN rm_new = "cleaning" /\ (status = "cancelled" => s \in Manager)
                 ELSE rm_new = room[booking[r].room],
         Continue(s, Lifecycle(op, pc, r, [booking[r] EXCEPT !.status = status], rm_new))
  PROVE  RequestsRely' /\ TablesAgree' /\ StepsAgree
  <1> DEFINE old == booking[r]
             new == [old EXCEPT !.status = status]
             q == Lifecycle(op, pc, r, new, rm_new)
  <1>1. /\ new.status = status /\ SameStay(old, new)
        /\ new.rate = old.rate /\ new.total = old.total /\ new.waived = old.waived
        /\ new.room = old.room
    BY DEF Row, SameStay
  <1> HIDE DEF new
  <1>2. /\ q.op = op /\ q.pc = pc /\ q.id = r /\ q.old = old /\ q.new = new
        /\ q.room = old.room /\ q.room_old = room[old.room] /\ q.room_new = rm_new
    BY <1>1 DEF Lifecycle
  <1>3. Continue(s, q)
    BY DEF new
  <1> HIDE DEF q
  <1>4. IF op = "check_in" THEN CheckInRelies(q) ELSE LeavingRelies(s, q)
    BY <1>1, <1>2 DEF CheckInRelies, LeavingRelies
  <1>5. LifecycleRelies(s, q)
    BY <1>1, <1>2, <1>4 DEF LifecycleRelies
  <1>. QED
    BY <1>2, <1>3, <1>5, ReliesByKind, ReadingKeeps

LEMMA CheckInKeeps ==
  ASSUME DeskInv, NEW s \in Session, CheckIn(s)
  PROVE  RequestsRely' /\ TablesAgree' /\ StepsAgree
  <1>1. PICK r \in Res :
          /\ MayCheckIn(booking[r])
          /\ Continue(s, Lifecycle("check_in", "occupants", r,
                           [booking[r] EXCEPT !.status = "checked_in"], "occupied"))
    BY DEF CheckIn
  <1>2. booking[r] \in Row /\ booking[r].status \in EDITABLE_STATUSES
    BY <1>1, StatusMeansRow
    DEF MayCheckIn, EDITABLE_STATUSES, ReservationStatus, DeskInv, StayInv
  <1>3. <<booking[r].status, "checked_in">> \in LifecycleEdge
    BY <1>2 DEF LifecycleEdge, EDITABLE_STATUSES
  <1>. QED
    BY <1>1, <1>2, <1>3, LifecycleKeeps

LEMMA CheckOutKeeps ==
  ASSUME DeskInv, NEW s \in Session, CheckOut(s)
  PROVE  RequestsRely' /\ TablesAgree' /\ StepsAgree
  <1>1. PICK r \in Res :
          /\ booking[r].status = "checked_in"
          /\ Continue(s, Lifecycle("check_out", "balance", r,
                           [booking[r] EXCEPT !.status = "checked_out"], "cleaning"))
    BY DEF CheckOut
  <1>2. booking[r] \in Row
    BY <1>1, StatusMeansRow DEF ReservationStatus, DeskInv, StayInv
  <1>3. <<booking[r].status, "checked_out">> \in LifecycleEdge
    BY <1>1 DEF LifecycleEdge
  <1>4. "checked_out" \notin BLOCKING_STATUSES
    BY DEF BLOCKING_STATUSES
  <1>. QED
    BY <1>1, <1>2, <1>3, <1>4, LifecycleKeeps

LEMMA CancelKeeps ==
  ASSUME DeskInv, NEW s \in Session, Cancel(s)
  PROVE  RequestsRely' /\ TablesAgree' /\ StepsAgree
  <1>1. PICK r \in Res :
          /\ MayCancel(booking[r])
          /\ booking[r].status = "checked_in" => IsManager(s)
          /\ Continue(s, Lifecycle("cancel",
                           IF booking[r].status = "checked_in" THEN "balance" ELSE "commit",
                           r, [booking[r] EXCEPT !.status = "cancelled"],
                           RoomAfterCancel(booking[r])))
    BY DEF Cancel
  <1>2. booking[r] \in Row
    BY <1>1, StatusMeansRow DEF MayCancel, DeskInv, StayInv
  <1>3. <<booking[r].status, "cancelled">> \in LifecycleEdge
    BY <1>1 DEF MayCancel, LifecycleEdge, ReservationStatus
  <1>4. "cancelled" \notin BLOCKING_STATUSES
    BY DEF BLOCKING_STATUSES
  <1>5. IF booking[r].status = "checked_in"
        THEN RoomAfterCancel(booking[r]) = "cleaning" /\ s \in Manager
        ELSE RoomAfterCancel(booking[r]) = room[booking[r].room]
    BY <1>1 DEF RoomAfterCancel, IsManager
  <1>. QED
    BY <1>1, <1>2, <1>3, <1>4, <1>5, LifecycleKeeps

LEMMA MarkNoShowKeeps ==
  ASSUME DeskInv, NEW s \in Session, MarkNoShow(s)
  PROVE  RequestsRely' /\ TablesAgree' /\ StepsAgree
  <1>1. PICK r \in Res :
          /\ booking[r].status \in EDITABLE_STATUSES
          /\ Continue(s, Lifecycle("no_show", "commit", r,
                           [booking[r] EXCEPT !.status = "no_show"],
                           room[booking[r].room]))
    BY DEF MarkNoShow
  <1>2. booking[r] \in Row /\ booking[r].status # "checked_in"
    BY <1>1, StatusMeansRow DEF EDITABLE_STATUSES, ReservationStatus, DeskInv, StayInv
  <1>3. <<booking[r].status, "no_show">> \in LifecycleEdge
    BY <1>1 DEF EDITABLE_STATUSES, LifecycleEdge
  <1>4. "no_show" \notin BLOCKING_STATUSES
    BY DEF BLOCKING_STATUSES
  <1>. QED
    BY <1>1, <1>2, <1>3, <1>4, LifecycleKeeps

LEMMA CheckInOccupantsKeeps ==
  ASSUME DeskInv, NEW s \in Session, CheckInOccupants(s)
  PROVE  RequestsRely' /\ TablesAgree' /\ StepsAgree
  <1> DEFINE q == req[s]
             next == [q EXCEPT !.pc = "commit"]
  <1>1. q \in LifecycleReq
    BY RequestAt DEF CheckInOccupants, DeskInv, StayInv
  <1>2. CASE Refuse(s)
    BY <1>2, EndingKeeps
  <1>3. CASE ~Refuse(s)
    <2>1. /\ Continue(s, next) /\ ActiveForRoom(q.room) = {} /\ q.op = "check_in"
          /\ LifecycleRelies(s, q)
      BY <1>1, <1>3, RequestRelies DEF CheckInOccupants, GoTo, At
    <2>2. /\ next.op = q.op /\ next.id = q.id /\ next.old = q.old /\ next.new = q.new
          /\ next.room = q.room /\ next.room_old = q.room_old /\ next.room_new = q.room_new
      BY <1>1 DEF LifecycleReq
    <2> HIDE DEF next
    <2>3. LifecycleRelies(s, next)
      BY <2>1, <2>2 DEF LifecycleRelies, CheckInRelies
    <2>. QED
      BY <2>1, <2>2, <2>3, ReliesByKind, ReadingKeeps
  <1>. QED
    BY <1>2, <1>3

LEMMA BalanceKeeps ==
  ASSUME DeskInv, NEW s \in Session, Balance(s)
  PROVE  RequestsRely' /\ TablesAgree' /\ StepsAgree
  <1> DEFINE q == req[s]
             paid == [q EXCEPT !.pc = "commit"]
             waived == [q EXCEPT !.pc = "commit", !.new.waived = TRUE]
  <1>1. q \in LifecycleReq /\ q.op \in {"check_out", "cancel"}
    BY RequestAt DEF Balance, DeskInv, StayInv, At
  <1>2. LifecycleRelies(s, q)
    BY <1>1, RequestRelies
  <1>3. Refuse(s) \/ Continue(s, paid) \/ (Continue(s, waived) /\ s \in Manager)
    BY DEF Balance, IsManager, GoTo
  <1>4. CASE Refuse(s)
    BY <1>4, EndingKeeps
  <1>5. CASE Continue(s, paid)
    <2>1. /\ paid.op = q.op /\ paid.id = q.id /\ paid.old = q.old /\ paid.new = q.new
          /\ paid.room = q.room /\ paid.room_old = q.room_old /\ paid.room_new = q.room_new
      BY <1>1 DEF LifecycleReq
    <2>2. Continue(s, paid)
      BY <1>5
    <2> HIDE DEF paid
    <2>3. LifecycleRelies(s, paid)
      BY <1>1, <1>2, <2>1 DEF LifecycleRelies, LeavingRelies
    <2>. QED
      BY <1>1, <2>1, <2>2, <2>3, ReliesByKind, ReadingKeeps
  <1>6. CASE Continue(s, waived) /\ s \in Manager
    <2> DEFINE new == [q.new EXCEPT !.waived = TRUE]
    <2>1. /\ waived.op = q.op /\ waived.id = q.id /\ waived.old = q.old
          /\ waived.new = new
          /\ waived.room = q.room /\ waived.room_old = q.room_old
          /\ waived.room_new = q.room_new
      BY <1>1 DEF LifecycleReq
    <2>2. /\ new.status = q.new.status /\ new.room = q.new.room
          /\ new.check_in = q.new.check_in /\ new.check_out = q.new.check_out
          /\ new.rate = q.new.rate /\ new.total = q.new.total
      BY <1>1 DEF LifecycleReq, Row
    <2>3. Continue(s, waived)
      BY <1>6
    <2> HIDE DEF waived, new
    <2>4. LifecycleRelies(s, waived)
      BY <1>1, <1>2, <1>6, <2>1, <2>2 DEF LifecycleRelies, LeavingRelies, SameStay
    <2>. QED
      BY <1>1, <2>1, <2>3, <2>4, ReliesByKind, ReadingKeeps
  <1>. QED
    BY <1>3, <1>4, <1>5, <1>6

LEMMA SetStatusKeeps ==
  ASSUME DeskInv, NEW s \in Session, SetStatus(s)
  PROVE  RequestsRely' /\ TablesAgree' /\ StepsAgree
  <1>1. PICK rm \in Room, status \in RoomStatus :
          Continue(s, [op |-> "set_status",
                       pc |-> IF status \in {"maintenance", "available"}
                              THEN "occupants" ELSE "commit",
                       room |-> rm, room_old |-> room[rm], room_new |-> status])
    BY DEF SetStatus
  <1> DEFINE pc == IF status \in {"maintenance", "available"}
                   THEN "occupants" ELSE "commit"
             q == [op |-> "set_status", pc |-> pc,
                   room |-> rm, room_old |-> room[rm], room_new |-> status]
  <1>2. RoomRelies(q)
    BY DEF RoomRelies
  <1>. QED
    BY <1>1, <1>2, ReliesByKind, ReadingKeeps

LEMMA RoomOccupantsKeeps ==
  ASSUME DeskInv, NEW s \in Session, RoomOccupants(s)
  PROVE  RequestsRely' /\ TablesAgree' /\ StepsAgree
  <1> DEFINE q == req[s]
             occupied == ActiveForRoom(q.room) # {}
             leaving == [q EXCEPT !.pc = "blocking"]
             kept == [q EXCEPT !.pc = "commit", !.room_new = Housekept(@, occupied)]
  <1>1. q \in RoomReq
    BY RequestAt DEF RoomOccupants, DeskInv, StayInv
  <1>2. RoomRelies(q)
    BY <1>1, RequestRelies
  <1>3. \/ Refuse(s)
        \/ Continue(s, leaving) /\ q.room_new = "maintenance"
        \/ Continue(s, kept) /\ q.room_new # "maintenance"
    BY DEF RoomOccupants, GoTo
  <1>4. CASE Refuse(s)
    BY <1>4, EndingKeeps
  <1>5. CASE Continue(s, leaving) /\ q.room_new = "maintenance"
    <2>1. /\ leaving.op = "set_status" /\ leaving.pc = "blocking" /\ leaving.room = q.room
          /\ leaving.room_old = q.room_old /\ leaving.room_new = q.room_new
      BY <1>1 DEF RoomReq
    <2>2. Continue(s, leaving)
      BY <1>5
    <2> HIDE DEF leaving
    <2>3. RoomRelies(leaving)
      BY <1>2, <1>5, <2>1 DEF RoomRelies
    <2>. QED
      BY <2>1, <2>2, <2>3, ReliesByKind, ReadingKeeps
  <1>6. CASE Continue(s, kept) /\ q.room_new # "maintenance"
    <2>1. /\ kept.op = "set_status" /\ kept.room = q.room /\ kept.room_old = q.room_old
          /\ kept.room_new = Housekept(q.room_new, occupied)
      BY <1>1 DEF RoomReq
    <2>2. Continue(s, kept)
      BY <1>6
    <2>3. /\ Housekept(q.room_new, occupied) # "maintenance"
          /\ Housekept(q.room_new, occupied) = "available" => ActiveForRoom(q.room) = {}
      BY <1>6 DEF Housekept
    <2>4. kept.pc = "commit"
      BY <1>1 DEF RoomReq
    <2> HIDE DEF kept, occupied
    <2>5. RoomRelies(kept)
      BY <1>2, <2>1, <2>3, <2>4 DEF RoomRelies
    <2>. QED
      BY <2>1, <2>2, <2>5, ReliesByKind, ReadingKeeps
  <1>. QED
    BY <1>3, <1>4, <1>5, <1>6

LEMMA RoomBlockingKeeps ==
  ASSUME DeskInv, NEW s \in Session, RoomBlocking(s)
  PROVE  RequestsRely' /\ TablesAgree' /\ StepsAgree
  <1> DEFINE q == req[s]
             next == [q EXCEPT !.pc = "commit"]
  <1>1. q \in RoomReq
    BY RequestAt DEF RoomBlocking, DeskInv, StayInv
  <1>2. CASE Refuse(s)
    BY <1>2, EndingKeeps
  <1>3. CASE ~Refuse(s)
    <2>1. /\ Continue(s, next) /\ BlockingForRoom(q.room) = {} /\ q.pc = "blocking"
          /\ RoomRelies(q)
      BY <1>1, <1>3, RequestRelies DEF RoomBlocking, GoTo, At
    <2>2. /\ next.op = "set_status" /\ next.pc = "commit" /\ next.room = q.room
          /\ next.room_old = q.room_old /\ next.room_new = q.room_new
      BY <1>1 DEF RoomReq
    <2> HIDE DEF next
    <2>3. RoomRelies(next)
      BY <2>1, <2>2 DEF RoomRelies
    <2>. QED
      BY <2>1, <2>2, <2>3, ReliesByKind, ReadingKeeps
  <1>. QED
    BY <1>2, <1>3

-----------------------------------------------------------------------------
(***************************************************************************)
(* Steps that commit.                                                      *)
(***************************************************************************)

\* A stay with these nights would clash with no other booking of its room.
RowIsClear(id, row) ==
  row.status \in BLOCKING_STATUSES =>
    \A r \in Res \ {id} :
      IsBlocking(r) /\ booking[r].room = row.room =>
        NightsOf(r) \cap Nights(row.check_in, row.check_out) = {}

\* Strict comparison of the ends of two stays is disjointness of their nights.
LEMMA AvailableIsClear ==
  ASSUME TypeInv, NEW id \in Res, NEW row \in Row, NEW exclude \in SUBSET {id},
         IsAvailable(exclude, row.room, row.check_in, row.check_out)
  PROVE  RowIsClear(id, row)
  <1> SUFFICES ASSUME NEW r \in Res \ {id}, IsBlocking(r), booking[r].room = row.room
               PROVE  NightsOf(r) \cap Nights(row.check_in, row.check_out) = {}
    BY DEF RowIsClear
  <1>1. ~Overlaps(booking[r].check_in, booking[r].check_out, row.check_in, row.check_out)
    BY DEF IsAvailable, IsBlocking
  <1>2. booking[r] \in Row
    BY StatusMeansRow DEF IsBlocking, BLOCKING_STATUSES, ReservationStatus
  <1>3. /\ booking[r].check_in \in Int /\ booking[r].check_out \in Int
        /\ row.check_in \in Int /\ row.check_out \in Int
    BY <1>2, FrontDeskAssumption DEF Row, Day
  <1>. QED
    BY <1>1, <1>3 DEF Overlaps, NightsOf, Nights

\* A stay that is stored already is as clear as the table is.
LEMMA StoredIsClear ==
  ASSUME NoDoubleBooking, NEW id \in Res, NEW row, SameStay(booking[id], row),
         row.status \in BLOCKING_STATUSES => IsBlocking(id)
  PROVE  RowIsClear(id, row)
  BY DEF RowIsClear, NoDoubleBooking, SameStay, IsBlocking, NightsOf

\* With nothing changed since the load, the UPDATE leaves the row as wanted.
LEMMA WrittenAsWanted ==
  ASSUME NEW old \in Row, NEW new \in Row
  PROVE  WrittenRow(old, new, old) = new
  BY DEF WrittenRow, Written, Row

\* The tables still agree when one row is written that fits them, and rooms
\* are at most taken into use or left to be cleaned.
LEMMA RowKeepsTables ==
  ASSUME DeskInv, NEW id \in Res, NEW row \in Row,
         booking' = [booking EXCEPT ![id] = row],
         Priced(row), RowIsClear(id, row),
         row.status = "checked_in" =>
           /\ \A r \in Res \ {id} : InHouse(r) => booking[r].room # row.room
           /\ room'[row.room] \notin {"available", "maintenance"},
         row.status \in BLOCKING_STATUSES => room'[row.room] # "maintenance",
         \A rm \in Room : room'[rm] = room[rm] \/ room'[rm] \in {"occupied", "cleaning"}
  PROVE  TablesAgree'
  <1>1. booking'[id] = row /\ \A r \in Res \ {id} : booking'[r] = booking[r]
    BY DEF DeskInv, StayInv, TypeInv, TypeOK
  <1>2. \A r \in Res : IsBlocking(r) => booking[r].room \in Room
    BY StatusMeansRow
    DEF IsBlocking, BLOCKING_STATUSES, ReservationStatus, Row, DeskInv, StayInv
  <1>3. OneOccupantPerRoom'
    <2> SUFFICES ASSUME NEW a \in Res, NEW b \in Res, InHouse(a)', InHouse(b)',
                        booking'[a].room = booking'[b].room, a # b
                 PROVE  FALSE
      BY DEF OneOccupantPerRoom
    <2>1. a # id => booking'[a] = booking[a]
      BY <1>1
    <2>2. b # id => booking'[b] = booking[b]
      BY <1>1
    <2>. QED
      BY <1>1, <2>1, <2>2 DEF DeskInv, TablesAgree, OneOccupantPerRoom, InHouse
  <1>4. GuestRoomInUse'
    <2> SUFFICES ASSUME NEW r \in Res, InHouse(r)'
                 PROVE  room'[booking'[r].room] \notin {"available", "maintenance"}
      BY DEF GuestRoomInUse
    <2>1. CASE r = id
      BY <1>1, <2>1 DEF InHouse
    <2>2. CASE r # id
      <3>1. InHouse(r) /\ booking'[r].room = booking[r].room
        BY <1>1, <2>2 DEF InHouse
      <3>2. /\ room[booking[r].room] \notin {"available", "maintenance"}
            /\ booking[r].room \in Room
        BY <1>2, <3>1
        DEF DeskInv, TablesAgree, GuestRoomInUse, InHouse, IsBlocking, BLOCKING_STATUSES
      <3>. QED
        BY <3>1, <3>2
    <2>. QED
      BY <2>1, <2>2
  <1>5. NoBookingInMaintenance'
    <2> SUFFICES ASSUME NEW r \in Res, IsBlocking(r)'
                 PROVE  room'[booking'[r].room] # "maintenance"
      BY DEF NoBookingInMaintenance
    <2>1. CASE r = id
      BY <1>1, <2>1 DEF IsBlocking
    <2>2. CASE r # id
      <3>1. IsBlocking(r) /\ booking'[r].room = booking[r].room
        BY <1>1, <2>2 DEF IsBlocking
      <3>2. room[booking[r].room] # "maintenance" /\ booking[r].room \in Room
        BY <1>2, <3>1 DEF DeskInv, TablesAgree, NoBookingInMaintenance
      <3>. QED
        BY <3>1, <3>2
    <2>. QED
      BY <2>1, <2>2
  <1>6. PriceMatchesStay'
    <2>1. \A r \in Res \ {id} : booking[r] # NoRow => Priced(booking[r])
      BY DEF DeskInv, TablesAgree, PriceMatchesStay, Priced
    <2>. QED
      BY <1>1, <2>1 DEF PriceMatchesStay, Priced
  <1>7. NoDoubleBooking'
    <2> SUFFICES ASSUME NEW a \in Res, NEW b \in Res, a # b, IsBlocking(a)',
                        IsBlocking(b)', booking'[a].room = booking'[b].room
                 PROVE  NightsOf(a)' \cap NightsOf(b)' = {}
      BY DEF NoDoubleBooking
    <2>1. CASE a # id /\ b # id
      BY <1>1, <2>1 DEF DeskInv, TablesAgree, NoDoubleBooking, IsBlocking, NightsOf
    <2>2. CASE a = id
      BY <1>1, <2>2 DEF RowIsClear, IsBlocking, NightsOf
    <2>3. CASE b = id
      BY <1>1, <2>3 DEF RowIsClear, IsBlocking, NightsOf
    <2>. QED
      BY <2>1, <2>2, <2>3
  <1>. QED
    BY <1>3, <1>4, <1>5, <1>6, <1>7 DEF TablesAgree

\* A commit about the rooms of its own request leaves what the others rely on.
LEMMA CommitKeepsRequests ==
  ASSUME DeskInv, RoomsApart, NEW s \in Session, OnlyItsRooms(s),
         req' = [req EXCEPT ![s] = Idle]
  PROVE  RequestsRely'
  <1>1. req'[s] = Idle /\ \A t \in Session \ {s} : req'[t] = req[t]
    BY DEF DeskInv, StayInv, TypeInv, TypeOK
  <1>2. \A t \in Session \ {s} : Relies(t, req[t])'
    BY <1>1, OthersRely
  <1>3. Relies(s, req[s])'
    BY <1>1 DEF Relies, Idle, CreateReq, UpdateReq, LifecycleReq, RoomReq
  <1>. QED
    BY <1>2, <1>3 DEF RequestsRely

\* A commit that writes one row, before it and after it in the request's rooms.
LEMMA RowInItsRooms ==
  ASSUME DeskInv, NEW s \in Session, NEW id \in Res, NEW row \in Row,
         booking' = [booking EXCEPT ![id] = row],
         booking[id] # NoRow => booking[id].room \in RoomsOf(req[s]),
         row.room \in RoomsOf(req[s]),
         \A rm \in Room : room'[rm] # room[rm] => rm \in RoomsOf(req[s])
  PROVE  OnlyItsRooms(s)
  <1>1. booking'[id] = row /\ \A r \in Res \ {id} : booking'[r] = booking[r]
    BY DEF DeskInv, StayInv, TypeInv, TypeOK
  <1>2. row # NoRow
    BY DEF Row, NoRow, ReservationStatus
  <1>. QED
    BY <1>1, <1>2 DEF OnlyItsRooms

\* The same on the side of the steps: what changes is the one row.
LEMMA RowKeepsSteps ==
  ASSUME DeskInv, NEW id \in Res, NEW row \in Row,
         booking' = [booking EXCEPT ![id] = row],
         row.status # booking[id].status => <<booking[id].status, row.status>> \in LifecycleEdge,
         booking[id].status \notin {"absent", "pending", "confirmed"} =>
           SameStay(booking[id], row) /\ row.total = booking[id].total,
         ~InHouse(id) /\ row.status = "checked_in" => room'[row.room] = "occupied",
         InHouse(id) /\ row.status # "checked_in" => room'[booking[id].room] = "cleaning",
         \/ InHouse(id) /\ row.status = "cancelled"
         \/ booking[id] # NoRow /\ row.waived # booking[id].waived
         => ManagerCommits
  PROVE  StepsAgree
  <1>1. booking'[id] = row /\ \A r \in Res \ {id} : booking'[r] = booking[r]
    BY DEF DeskInv, StayInv, TypeInv, TypeOK
  <1>2. LifecycleStep
    BY <1>1 DEF LifecycleStep
  <1>3. HistoryStep
    BY <1>1 DEF HistoryStep, SameStay
  <1>4. RoomStep
    <2>1. \A r \in Res \ {id} : InHouse(r)' <=> InHouse(r)
      BY <1>1 DEF InHouse
    <2>2. InHouse(id)' <=> row.status = "checked_in"
      BY <1>1 DEF InHouse
    <2>. QED
      BY <1>1, <2>1, <2>2 DEF RoomStep
  <1>5. WriteOffStep
    <2> SUFFICES ASSUME NEW r \in Res,
                        \/ InHouse(r) /\ booking'[r].status = "cancelled"
                        \/ booking[r] # NoRow /\ booking'[r].waived /\ ~booking[r].waived
                 PROVE  ManagerCommits
      BY DEF WriteOffStep
    <2>1. r = id
      <3>1. ASSUME r # id PROVE FALSE
        <4>1. booking'[r] = booking[r]
          BY <1>1, <3>1
        <4>2. InHouse(r) => booking'[r].status # "cancelled"
          BY <4>1 DEF InHouse
        <4>. QED
          BY <4>1, <4>2
      <3>. QED
        BY <3>1
    <2>2. CASE InHouse(r) /\ booking'[r].status = "cancelled"
      BY <1>1, <2>1, <2>2
    <2>3. CASE booking[r] # NoRow /\ booking'[r].waived /\ ~booking[r].waived
      <3>1. row.waived # booking[id].waived
        BY <1>1, <2>1, <2>3
      <3>. QED
        BY <2>1, <2>3, <3>1
    <2>. QED
      BY <2>2, <2>3
  <1>. QED
    BY <1>2, <1>3, <1>4, <1>5 DEF StepsAgree

LEMMA InsertKeeps ==
  ASSUME DeskInv, RoomsApart, NEW s \in Session, Insert(s)
  PROVE  RequestsRely' /\ TablesAgree' /\ StepsAgree
  <1> DEFINE row == req[s].new
  <1>1. req[s] \in CreateReq /\ req[s].pc = "commit"
    BY RequestAt DEF Insert, DeskInv, StayInv, At
  <1>2. CASE ServerError(s)
    BY <1>2, EndingKeeps
  <1>3. CASE ~ServerError(s)
    <2>1. PICK id \in Res :
            /\ booking[id] = NoRow
            /\ booking' = [booking EXCEPT ![id] = row]
            /\ req' = [req EXCEPT ![s] = Idle]
            /\ room' = room
      BY <1>3 DEF Insert
    <2>2. /\ row \in Row /\ row.status = "confirmed" /\ Priced(row) /\ InService(row.room)
          /\ IsAvailable({}, row.room, row.check_in, row.check_out)
      BY <1>1, RequestRelies DEF CreateReq, CreateRelies
    <2>3. RowIsClear(id, row)
      BY <2>2, AvailableIsClear DEF DeskInv, StayInv
    <2>4. room'[row.room] # "maintenance"
      BY <2>1, <2>2 DEF InService
    <2>5. TablesAgree'
      BY <2>1, <2>2, <2>3, <2>4, RowKeepsTables
    <2>6. OnlyItsRooms(s)
      BY <1>1, <2>1, <2>2, RowInItsRooms, RoomsOfRequests
    <2>7. booking[id].status = "absent"
      BY <2>1 DEF NoRow
    <2>8. <<"absent", "confirmed">> \in LifecycleEdge
      BY DEF LifecycleEdge
    <2>9. StepsAgree
      BY <2>1, <2>2, <2>7, <2>8, RowKeepsSteps DEF InHouse
    <2>. QED
      BY <2>1, <2>5, <2>6, <2>9, CommitKeepsRequests
  <1>. QED
    BY <1>2, <1>3

LEMMA CommitUpdateKeeps ==
  ASSUME DeskInv, RoomsApart, NEW s \in Session, CommitUpdate(s)
  PROVE  RequestsRely' /\ TablesAgree' /\ StepsAgree
  <1> DEFINE q == req[s]
  <1>1. q \in UpdateReq /\ q.pc = "commit"
    BY RequestAt DEF CommitUpdate, DeskInv, StayInv, At
  <1>2. CASE Refuse(s) \/ ServerError(s)
    BY <1>2, EndingKeeps
  <1>3. CASE ~(Refuse(s) \/ ServerError(s))
    <2>1. /\ q.id \in Res /\ q.old \in Row /\ q.new \in Row /\ UpdateRelies(q)
          /\ booking[q.id] = q.old
      BY <1>1, RequestRelies DEF UpdateReq, UpdateRelies
    <2>2. WrittenRow(q.old, q.new, booking[q.id]) = q.new
      BY <2>1, WrittenAsWanted
    <2>3. /\ booking' = [booking EXCEPT ![q.id] = q.new]
          /\ req' = [req EXCEPT ![s] = Idle]
          /\ room' = room
      BY <1>3, <2>2 DEF CommitUpdate
    <2>4. /\ q.old.status \in EDITABLE_STATUSES /\ q.new.status = q.old.status
          /\ q.new.waived = q.old.waived /\ Priced(q.new)
      BY <2>1 DEF UpdateRelies
    <2>5. q.old.status \in BLOCKING_STATUSES /\ q.old.status # "checked_in"
      BY <2>4 DEF EDITABLE_STATUSES, BLOCKING_STATUSES
    <2>6. RowIsClear(q.id, q.new)
      <3>1. CASE SameStay(q.old, q.new)
        BY <2>1, <2>5, <3>1, StoredIsClear DEF DeskInv, TablesAgree, IsBlocking
      <3>2. CASE IsAvailable({q.id}, q.new.room, q.new.check_in, q.new.check_out)
        BY <2>1, <3>2, AvailableIsClear DEF DeskInv, StayInv
      <3>. QED
        BY <1>1, <2>1, <3>1, <3>2 DEF UpdateRelies
    <2>7. room'[q.new.room] # "maintenance"
      <3>1. CASE q.new.room = q.old.room
        BY <2>1, <2>3, <2>5, <3>1
        DEF DeskInv, TablesAgree, NoBookingInMaintenance, IsBlocking
      <3>2. CASE q.new.room # q.old.room
        BY <1>1, <2>1, <2>3, <3>2 DEF UpdateRelies, InService
      <3>. QED
        BY <3>1, <3>2
    <2>8. TablesAgree'
      BY <2>1, <2>3, <2>4, <2>5, <2>6, <2>7, RowKeepsTables
    <2>9. OnlyItsRooms(s)
      BY <1>1, <2>1, <2>3, RowInItsRooms, RoomsOfRequests
    <2>10. booking[q.id].status \in {"pending", "confirmed"}
      BY <2>1, <2>4 DEF EDITABLE_STATUSES
    <2>11. StepsAgree
      BY <2>1, <2>3, <2>4, <2>10, RowKeepsSteps DEF InHouse
    <2>. QED
      BY <2>3, <2>8, <2>9, <2>11, CommitKeepsRequests
  <1>. QED
    BY <1>2, <1>3

LEMMA CommitLifecycleKeeps ==
  ASSUME DeskInv, RoomsApart, NEW s \in Session, CommitLifecycle(s)
  PROVE  RequestsRely' /\ TablesAgree' /\ StepsAgree
  <1> DEFINE q == req[s]
  <1>1. q \in LifecycleReq /\ q.pc = "commit"
    BY RequestAt DEF CommitLifecycle, DeskInv, StayInv, At
  <1>2. CASE ServerError(s)
    BY <1>2, EndingKeeps
  <1>3. CASE ~ServerError(s)
    <2>1. /\ q.id \in Res /\ q.old \in Row /\ q.new \in Row /\ q.room \in Room
          /\ q.room_old \in RoomStatus /\ q.room_new \in RoomStatus
          /\ LifecycleRelies(s, q)
      BY <1>1, RequestRelies DEF LifecycleReq
    <2>2. /\ booking[q.id] = q.old /\ room[q.room] = q.room_old
          /\ q.room = q.old.room /\ SameStay(q.old, q.new)
          /\ q.new.rate = q.old.rate /\ q.new.total = q.old.total
          /\ <<q.old.status, q.new.status>> \in LifecycleEdge
      BY <2>1 DEF LifecycleRelies
    <2>3. q.new.room = q.old.room
      BY <2>2 DEF SameStay
    <2>4. WrittenRow(q.old, q.new, booking[q.id]) = q.new
      BY <2>1, <2>2, WrittenAsWanted
    <2>5. /\ booking' = [booking EXCEPT ![q.id] = q.new]
          /\ req' = [req EXCEPT ![s] = Idle]
          /\ room' = [room EXCEPT ![q.room] = Written(q.room_old, q.room_new, @)]
      BY <1>3, <2>4 DEF CommitLifecycle
    <2>6. /\ room'[q.room] = q.room_new
          /\ \A rm \in Room \ {q.room} : room'[rm] = room[rm]
      BY <2>1, <2>2, <2>5 DEF Written, DeskInv, StayInv, TypeInv, TypeOK
    <2>7. Priced(q.old) /\ q.old # NoRow
      BY <2>1, <2>2
      DEF DeskInv, TablesAgree, PriceMatchesStay, Priced, Row, NoRow, ReservationStatus
    <2>8. Priced(q.new)
      BY <2>2, <2>7 DEF Priced, SameStay
    <2>9. OnlyItsRooms(s)
      <3>1. RoomsOf(q) = {q.room}
        BY <1>1, RoomsOfRequests
      <3>2. \A rm \in Room : room'[rm] # room[rm] => rm \in RoomsOf(q)
        BY <2>6, <3>1
      <3>. QED
        BY <2>1, <2>2, <2>3, <2>5, <3>1, <3>2, RowInItsRooms
    <2>10. ManagerCommits \/ s \notin Manager
      <3>1. req[s] # Idle /\ req'[s] = Idle
        BY <1>1, <2>5 DEF LifecycleReq, Idle, DeskInv, StayInv, TypeInv, TypeOK
      <3>. QED
        BY <3>1 DEF ManagerCommits
    <2>11. q.new.waived # q.old.waived => s \in Manager
      BY <2>1 DEF LifecycleRelies
    <2>12. CASE q.op = "check_in"
      <3>1. /\ q.old.status \in EDITABLE_STATUSES /\ q.new.status = "checked_in"
            /\ q.room_new = "occupied" /\ ActiveForRoom(q.room) = {}
        BY <1>1, <2>1, <2>12 DEF LifecycleRelies, CheckInRelies
      <3>2. /\ q.old.status \in BLOCKING_STATUSES /\ q.old.status # "checked_in"
            /\ q.old.status \in {"pending", "confirmed"}
        BY <3>1 DEF EDITABLE_STATUSES, BLOCKING_STATUSES
      <3>3. RowIsClear(q.id, q.new)
        BY <2>1, <2>2, <3>2, StoredIsClear DEF DeskInv, TablesAgree, IsBlocking
      <3>4. \A r \in Res \ {q.id} : InHouse(r) => booking[r].room # q.new.room
        BY <2>2, <2>3, <3>1 DEF ActiveForRoom, InHouse
      <3>5. TablesAgree'
        BY <2>1, <2>2, <2>3, <2>5, <2>6, <2>8, <3>1, <3>3, <3>4, RowKeepsTables
      <3>6. StepsAgree
        BY <2>1, <2>2, <2>3, <2>5, <2>6, <2>10, <2>11, <3>1, <3>2, RowKeepsSteps
        DEF InHouse
      <3>. QED
        BY <2>5, <2>9, <3>5, <3>6, CommitKeepsRequests
    <2>13. CASE q.op # "check_in"
      <3>1. /\ q.new.status \notin BLOCKING_STATUSES
            /\ IF q.old.status = "checked_in"
               THEN q.room_new = "cleaning" /\ (q.new.status = "cancelled" => s \in Manager)
               ELSE q.room_new = q.room_old
        BY <2>1, <2>13 DEF LifecycleRelies, LeavingRelies
      <3>2. q.new.status # "checked_in"
        BY <3>1 DEF BLOCKING_STATUSES
      <3>3. RowIsClear(q.id, q.new)
        BY <3>1 DEF RowIsClear
      <3>4. \A rm \in Room : room'[rm] = room[rm] \/ room'[rm] \in {"occupied", "cleaning"}
        BY <2>2, <2>6, <3>1
      <3>5. TablesAgree'
        BY <2>1, <2>5, <2>8, <3>1, <3>2, <3>3, <3>4, RowKeepsTables
      <3>6. InHouse(q.id) => room'[booking[q.id].room] = "cleaning"
        BY <2>2, <2>6, <3>1 DEF InHouse
      <3>7. \/ InHouse(q.id) /\ q.new.status = "cancelled"
            \/ q.new.waived # booking[q.id].waived
            => ManagerCommits
        BY <2>2, <2>10, <2>11, <3>1 DEF InHouse
      <3>8. StepsAgree
        BY <2>1, <2>2, <2>5, <3>2, <3>6, <3>7, RowKeepsSteps
      <3>. QED
        BY <2>5, <2>9, <3>5, <3>8, CommitKeepsRequests
    <2>. QED
      BY <2>12, <2>13
  <1>. QED
    BY <1>2, <1>3

LEMMA CommitRoomKeeps ==
  ASSUME DeskInv, RoomsApart, NEW s \in Session, CommitRoom(s)
  PROVE  RequestsRely' /\ TablesAgree' /\ StepsAgree
  <1> DEFINE q == req[s]
  <1>1. q \in RoomReq /\ q.pc = "commit"
    BY RequestAt DEF CommitRoom, DeskInv, StayInv, At
  <1>2. /\ q.room \in Room /\ room[q.room] = q.room_old
        /\ q.room_new = "maintenance" => BlockingForRoom(q.room) = {}
        /\ q.room_new = "available" => ActiveForRoom(q.room) = {}
    BY <1>1, RequestRelies DEF RoomReq, RoomRelies
  <1>3. /\ booking' = booking /\ req' = [req EXCEPT ![s] = Idle]
        /\ room' = [room EXCEPT ![q.room] = Written(q.room_old, q.room_new, @)]
    BY DEF CommitRoom
  <1>4. /\ room'[q.room] = q.room_new
        /\ \A rm \in Room \ {q.room} : room'[rm] = room[rm]
    BY <1>2, <1>3 DEF Written, DeskInv, StayInv, TypeInv, TypeOK
  <1>5. OnlyItsRooms(s)
    BY <1>1, <1>3, <1>4, RoomsOfRequests DEF OnlyItsRooms
  <1>6. \A r \in Res : IsBlocking(r) => booking[r].room \in Room
    BY StatusMeansRow
    DEF IsBlocking, BLOCKING_STATUSES, ReservationStatus, Row, DeskInv, StayInv
  <1>7. OneOccupantPerRoom' /\ PriceMatchesStay' /\ NoDoubleBooking'
    BY <1>3 DEF DeskInv, TablesAgree, OneOccupantPerRoom, PriceMatchesStay,
                NoDoubleBooking, InHouse, IsBlocking, NightsOf
  <1>8. NoBookingInMaintenance'
    <2> SUFFICES ASSUME NEW r \in Res, IsBlocking(r)
                 PROVE  room'[booking[r].room] # "maintenance"
      BY <1>3 DEF NoBookingInMaintenance, IsBlocking
    <2>1. booking[r].room = q.room => BlockingForRoom(q.room) # {}
      BY DEF BlockingForRoom, IsBlocking
    <2>2. room[booking[r].room] # "maintenance"
      BY DEF DeskInv, TablesAgree, NoBookingInMaintenance
    <2>. QED
      BY <1>2, <1>4, <1>6, <2>1, <2>2
  <1>9. GuestRoomInUse'
    <2> SUFFICES ASSUME NEW r \in Res, InHouse(r)
                 PROVE  room'[booking[r].room] \notin {"available", "maintenance"}
      BY <1>3 DEF GuestRoomInUse, InHouse
    <2>1. IsBlocking(r)
      BY DEF InHouse, IsBlocking, BLOCKING_STATUSES
    <2>2. booking[r].room = q.room =>
            BlockingForRoom(q.room) # {} /\ ActiveForRoom(q.room) # {}
      BY <2>1 DEF BlockingForRoom, ActiveForRoom, IsBlocking, InHouse
    <2>3. room[booking[r].room] \notin {"available", "maintenance"}
      BY DEF DeskInv, TablesAgree, GuestRoomInUse
    <2>. QED
      BY <1>2, <1>4, <1>6, <2>1, <2>2, <2>3
  <1>10. StepsAgree
    <2>1. LifecycleStep /\ HistoryStep
      BY <1>3 DEF LifecycleStep, HistoryStep
    <2>2. RoomStep
      BY <1>3 DEF RoomStep, InHouse
    <2>3. \A r \in Res : InHouse(r) => booking'[r].status # "cancelled"
      BY <1>3 DEF InHouse
    <2>4. \A r \in Res : booking'[r].waived <=> booking[r].waived
      BY <1>3
    <2>5. WriteOffStep
      BY <2>3, <2>4 DEF WriteOffStep
    <2>. QED
      BY <2>1, <2>2, <2>5 DEF StepsAgree
  <1>. QED
    BY <1>3, <1>5, <1>7, <1>8, <1>9, <1>10, CommitKeepsRequests DEF TablesAgree

-----------------------------------------------------------------------------
(***************************************************************************)
(* The invariant, and what follows from it.                                *)
(***************************************************************************)

LEMMA InitDesk == Init => RequestsRely /\ TablesAgree
  <1> SUFFICES ASSUME Init PROVE RequestsRely /\ TablesAgree
    OBVIOUS
  <1>1. RequestsRely
    BY ReliesByKind DEF Init, RequestsRely
  <1>2. \A r \in Res : booking[r] = NoRow /\ ~IsBlocking(r) /\ ~InHouse(r)
    BY DEF Init, NoRow, IsBlocking, InHouse, BLOCKING_STATUSES
  <1>3. TablesAgree
    BY <1>2 DEF TablesAgree, OneOccupantPerRoom, GuestRoomInUse, NoBookingInMaintenance,
                PriceMatchesStay, NoDoubleBooking
  <1>. QED
    BY <1>1, <1>3

LEMMA NextDesk ==
  StayInv /\ RequestsRely /\ TablesAgree /\ RoomsApart /\ [Next]_vars
    => RequestsRely' /\ TablesAgree' /\ StepsAgree
  <1> SUFFICES ASSUME DeskInv, RoomsApart, [Next]_vars
               PROVE  RequestsRely' /\ TablesAgree' /\ StepsAgree
    BY DEF DeskInv
  <1>1. ASSUME UNCHANGED <<booking, room, req>>
        PROVE  RequestsRely' /\ TablesAgree' /\ StepsAgree
    <2>1. \A s \in Session : Relies(s, req'[s])
      BY <1>1 DEF DeskInv, RequestsRely
    <2>2. ASSUME NEW s \in Session PROVE Relies(s, req[s])'
      BY <1>1, <2>1, ReliesKept
    <2>. QED
      BY <1>1, <2>2, TablesKept DEF RequestsRely
  <1>2. ASSUME NEW s \in Session, Step(s)
        PROVE  RequestsRely' /\ TablesAgree' /\ StepsAgree
    <2>1. CASE Create(s) \/ CheckAvailable(s) \/ Insert(s) \/ Update(s) \/ UpdateRoom(s)
               \/ CommitUpdate(s)
      BY <2>1, CreateKeeps, CheckAvailableKeeps, InsertKeeps, UpdateKeeps,
         UpdateRoomKeeps, CommitUpdateKeeps
    <2>2. CASE CheckIn(s) \/ CheckInOccupants(s) \/ CheckOut(s) \/ Cancel(s)
               \/ Balance(s) \/ MarkNoShow(s) \/ CommitLifecycle(s)
      BY <2>2, CheckInKeeps, CheckInOccupantsKeeps, CheckOutKeeps, CancelKeeps,
         BalanceKeeps, MarkNoShowKeeps, CommitLifecycleKeeps
    <2>3. CASE SetStatus(s) \/ RoomOccupants(s) \/ RoomBlocking(s) \/ CommitRoom(s)
               \/ Rollback(s)
      BY <2>3, SetStatusKeeps, RoomOccupantsKeeps, RoomBlockingKeeps, CommitRoomKeeps,
         EndingKeeps DEF Rollback
    <2>. QED
      BY <1>2, <2>1, <2>2, <2>3 DEF Step
  <1>. QED
    BY <1>1, <1>2 DEF Next, Tick, vars

LEMMA DeskAgrees == ApartSpec => [](StayInv /\ RequestsRely /\ TablesAgree)
  <1>1. Init => RequestsRely /\ TablesAgree
    BY InitDesk
  <1>2. StayInv /\ RequestsRely /\ TablesAgree /\ RoomsApart /\ [Next]_vars
          => RequestsRely' /\ TablesAgree'
    BY NextDesk
  <1>. QED
    BY <1>1, <1>2, StayInvAlways, PTL DEF ApartSpec, Spec

LEMMA DeskSteps == ApartSpec => [][StepsAgree]_vars
  <1>1. StayInv /\ RequestsRely /\ TablesAgree /\ RoomsApart /\ [Next]_vars
          => [StepsAgree]_vars
    BY NextDesk
  <1>. QED
    BY <1>1, DeskAgrees, PTL DEF ApartSpec, Spec

\* A room never has two checked-in stays: nobody else can have checked in
\* between the question who is in the room and the commit.
THEOREM OneOccupant == ApartSpec => []OneOccupantPerRoom
  <1>1. TablesAgree => OneOccupantPerRoom
    BY DEF TablesAgree
  <1>. QED
    BY <1>1, DeskAgrees, PTL

\* A guest's room is neither called available nor taken out of service, by
\* housekeeping, by an edit or by another stay's departure.
THEOREM GuestKeepsRoom == ApartSpec => []GuestRoomInUse
  <1>1. TablesAgree => GuestRoomInUse
    BY DEF TablesAgree
  <1>. QED
    BY <1>1, DeskAgrees, PTL

\* No booking is in a room under maintenance, whether the booking entered the
\* room or the room left service last.
THEOREM NothingSoldInMaintenance == ApartSpec => []NoBookingInMaintenance
  <1>1. TablesAgree => NoBookingInMaintenance
    BY DEF TablesAgree
  <1>. QED
    BY <1>1, DeskAgrees, PTL

\* The stored charge is rate times nights after any sequence of edits.
THEOREM PriceFollowsStay == ApartSpec => []PriceMatchesStay
  <1>1. TablesAgree => PriceMatchesStay
    BY DEF TablesAgree
  <1>. QED
    BY <1>1, DeskAgrees, PTL

\* Without help from the database, is_available alone keeps a room from being
\* sold twice for a night: HasExclusion is not assumed.
THEOREM CheckSuffices == ApartSpec => []NoDoubleBooking
  <1>1. TablesAgree => NoDoubleBooking
    BY DEF TablesAgree
  <1>. QED
    BY <1>1, DeskAgrees, PTL

\* A booking moves only along the lifecycle.
THEOREM LifecycleHolds == ApartSpec => LifecycleRespected
  <1>1. StepsAgree =>
          \A r \in Res : booking'[r].status # booking[r].status =>
            <<booking[r].status, booking'[r].status>> \in LifecycleEdge
    BY DEF StepsAgree, LifecycleStep
  <1>. QED
    BY <1>1, DeskSteps, PTL DEF LifecycleRespected

\* A stay that is no longer editable keeps its room, dates and price.
THEOREM HistoryHolds == ApartSpec => HistoryIsFixed
  <1>1. StepsAgree =>
          \A r \in Res :
            booking[r].status \in {"checked_in", "checked_out", "cancelled", "no_show"} =>
              /\ booking'[r].room = booking[r].room
              /\ booking'[r].check_in = booking[r].check_in
              /\ booking'[r].check_out = booking[r].check_out
              /\ booking'[r].total = booking[r].total
    BY DEF StepsAgree, HistoryStep
  <1>. QED
    BY <1>1, DeskSteps, PTL DEF HistoryIsFixed

\* The room is occupied once its guest is checked in and to be cleaned once
\* the guest is gone.
THEOREM RoomFollows == ApartSpec => RoomFollowsGuest
  <1>1. StepsAgree =>
          \A r \in Res :
            /\ ~InHouse(r) /\ InHouse(r)' => room'[booking'[r].room] = "occupied"
            /\ InHouse(r) /\ ~InHouse(r)' => room'[booking[r].room] = "cleaning"
    BY DEF StepsAgree, RoomStep
  <1>. QED
    BY <1>1, DeskSteps, PTL DEF RoomFollowsGuest

\* A stay is cancelled from inside the house, and a debt written off, only by
\* the commit of a manager.
THEOREM ManagersWriteOff == ApartSpec => WriteOffsByManager
  <1>1. StepsAgree =>
          \A r \in Res :
            \/ InHouse(r) /\ booking'[r].status = "cancelled"
            \/ booking[r] # NoRow /\ booking'[r].waived /\ ~booking[r].waived
            => ManagerCommits
    BY DEF StepsAgree, WriteOffStep
  <1>. QED
    BY <1>1, DeskSteps, PTL DEF WriteOffsByManager

=============================================================================
