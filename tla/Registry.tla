------------------------------ MODULE Registry ------------------------------
(***************************************************************************)
(* Guests, rooms and the bookings between them: the guest registry and the *)
(* room catalogue composed with what the reservation service reads and     *)
(* writes of both.  Dates are left out (FrontDesk has them).               *)
(***************************************************************************)
EXTENDS GuestRegistry, RoomCatalog

\* create's questions; the party must fit the room's type.
Accommodates(r, party) == party <= type[room[r]]

Bookable(g, r, party) ==
  /\ guest[g] # NoGuest
  /\ room[r] # NoRoom
  /\ Accommodates(r, party)

Booking(g, r, party) ==
  [op |-> "book", guest |-> g, room |-> r, party |-> party, touches |-> {g, r, room[r]}]

Book(s) ==
  \E g \in Guest, r \in Room, party \in Capacity :
    Bookable(g, r, party) /\ Begin(s, Booking(g, r, party))

\* The INSERT fails on a foreign key if guest or room are gone by now.
BookCommit(s) ==
  LET q == req[s]
  IN  /\ At(s, "book")
      /\ IF guest[q.guest] # NoGuest /\ room[q.room] # NoRoom
         THEN \E x \in Stay :
                /\ stay[x] = NoStay
                /\ stay' = [stay EXCEPT ![x] = [guest |-> q.guest, room |-> q.room,
                                                party |-> q.party, status |-> "confirmed"]]
                /\ Done(s)
                /\ UNCHANGED <<guest, type, room>>
         ELSE Refuse(s)

\* The walk-in reuses a registered document's guest or registers one, which
\* it commits, and then books.
WalkIn(s) ==
  \E kind \in DocumentType, typed \in Typed, r \in Room, party \in Capacity :
    \/ /\ \A g \in Guest : DocumentFree(g, kind, Normal[typed])
       /\ Begin(s, [op |-> "walk_in", kind |-> kind, typed |-> typed, room |-> r,
                    party |-> party, touches |-> {}])
    \/ \E g \in Guest :
         /\ guest[g] # NoGuest
         /\ guest[g].kind = kind /\ guest[g].number = Normal[typed]
         /\ Begin(s, [op |-> "walked_in", guest |-> g, room |-> r, party |-> party,
                      touches |-> {g}])

WalkInRegister(s) ==
  LET q == req[s]
  IN  /\ At(s, "walk_in")
      /\ RegisterGuest(s, LAMBDA g : [op |-> "walked_in", guest |-> g, room |-> q.room,
                                      party |-> q.party, touches |-> {g}])

WalkInBook(s) ==
  LET q == req[s]
  IN  /\ At(s, "walked_in")
      /\ IF Bookable(q.guest, q.room, q.party)
         THEN Continue(s, Booking(q.guest, q.room, q.party))
         ELSE Refuse(s)

\* update of a reservation: another room, another party, or both.
Amend(s) ==
  \E x \in Stay, r \in Room, party \in Capacity :
    /\ stay[x].status = "confirmed"
    /\ room[r] # NoRoom
    /\ Accommodates(r, party)
    /\ Begin(s, [op |-> "amend", stay |-> x, old |-> stay[x], room |-> r, party |-> party,
                 touches |-> {stay[x].guest, stay[x].room, r, room[r]}])

\* The ORM writes what differs from the booking as loaded.
Amended(q) ==
  [stay[q.stay] EXCEPT !.room  = IF q.room = q.old.room THEN @ ELSE q.room,
                       !.party = IF q.party = q.old.party THEN @ ELSE q.party]

AmendCommit(s) ==
  LET q == req[s]
  IN  /\ At(s, "amend")
      /\ IF stay[q.stay] # NoStay /\ room[Amended(q).room] # NoRoom
         THEN /\ stay' = [stay EXCEPT ![q.stay] = Amended(q)]
              /\ Done(s)
              /\ UNCHANGED <<guest, type, room>>
         ELSE Refuse(s)

\* check_in; check_out, cancel or mark_no_show.
Lifecycle(s) ==
  \E x \in Stay, status \in {"checked_in", "past"} :
    /\ stay[x] # NoStay
    /\ Blocking(x) /\ status # stay[x].status
    /\ Begin(s, [op |-> "lifecycle", stay |-> x, status |-> status,
                 touches |-> {stay[x].guest, stay[x].room}])

LifecycleCommit(s) ==
  LET q == req[s]
  IN  /\ At(s, "lifecycle")
      /\ IF stay[q.stay] = NoStay THEN Refuse(s)
         ELSE /\ stay' = [stay EXCEPT ![q.stay].status = q.status]
              /\ Done(s)
              /\ UNCHANGED <<guest, type, room>>

Rollback(s) == req[s] # Idle /\ Refuse(s)

-----------------------------------------------------------------------------
Init ==
  /\ guest = [g \in Guest |-> NoGuest]
  /\ type = [t \in RoomType |-> NoType]
  /\ room = [r \in Room |-> NoRoom]
  /\ stay = [x \in Stay |-> NoStay]
  /\ req = [s \in Session |-> Idle]

Next ==
  \E s \in Session :
    \/ GuestStep(s) \/ CatalogStep(s)
    \/ Book(s) \/ BookCommit(s)
    \/ WalkIn(s) \/ WalkInRegister(s) \/ WalkInBook(s)
    \/ Amend(s) \/ AmendCommit(s) \/ Lifecycle(s) \/ LifecycleCommit(s)
    \/ Rollback(s)

Spec == Init /\ [][Next]_vars

\* No two requests in flight rely on the same row.
Apart ==
  \A s, t \in Session :
    (s # t /\ req[s] # Idle /\ req[t] # Idle) => req[s].touches \cap req[t].touches = {}

ApartSpec == Init /\ [][Next /\ Apart']_vars

=============================================================================
