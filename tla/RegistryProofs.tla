--------------------------- MODULE RegistryProofs ---------------------------
(***************************************************************************)
(* Proofs about the registry for any number of requests at once.  Related  *)
(* or not, nothing refers to a row that is not there and no document is    *)
(* registered twice; while they rely on different rows, every party fits   *)
(* its room and no history is lost.                                        *)
(***************************************************************************)
EXTENDS RegistryProperties, TLAPS

USE RegistryAssumption

(***************************************************************************)
(* What a request that will write carries.  Types are never deleted, so    *)
(* the type a room is to have is still there at the commit.                *)
(***************************************************************************)
Carries(q) ==
  /\ q.op \in {"create_guest", "walk_in"} => q.kind \in DocumentType /\ q.typed \in Typed
  /\ q.op = "update_guest" =>
       /\ q.guest \in Guest /\ q.kind \in DocumentType \cup {NotSent}
       /\ q.number \in Number \cup {NotSent} /\ q.named \in BOOLEAN
  /\ q.op \in {"delete_guest", "anonymise", "walked_in", "book"} => q.guest \in Guest
  /\ q.op \in {"create_type", "update_type"} => q.capacity \in Capacity
  /\ q.op \in {"update_type", "create_room", "move_room"} => q.type \in RoomType
  /\ q.op \in {"create_room", "move_room"} => type[q.type] # NoType
  /\ q.op \in {"move_room", "delete_room", "walk_in", "walked_in", "book", "amend"} =>
       q.room \in Room
  /\ q.op \in {"walk_in", "walked_in", "book", "amend"} => q.party \in Capacity
  /\ q.op = "anonymise" => q.renumber \in BOOLEAN
  /\ q.op \in {"amend", "lifecycle"} => q.stay \in Stay
  /\ q.op = "lifecycle" => q.status \in {"checked_in", "past"}

RequestsCarry == \A s \in Session : Carries(req[s])

RegistryInv == TypeOK /\ DocumentsUnique /\ RequestsCarry

-----------------------------------------------------------------------------
LEMMA NewGuestTyped ==
  ASSUME NEW q, q.kind \in DocumentType, q.typed \in Typed
  PROVE  NewGuest(q) \in GuestRow /\ NewGuest(q) # NoGuest
  BY DEF NewGuest, GuestRow, Number, NoGuest

\* A step that writes no table.
LEMMA MovesKeep ==
  ASSUME RegistryInv, NEW s \in Session, NEW q, Continue(s, q), Carries(q)
  PROVE  RegistryInv'
<1>1. /\ req' = [req EXCEPT ![s] = q] /\ DOMAIN req = Session
      /\ guest' = guest /\ type' = type /\ room' = room /\ stay' = stay
  BY DEF Continue, tables, RegistryInv, TypeOK
<1>2. TypeOK' /\ DocumentsUnique'
  BY <1>1 DEF RegistryInv, TypeOK, DocumentsUnique, Blocking
<1>3. RequestsCarry'
  BY <1>1 DEF RegistryInv, RequestsCarry, Carries
<1> QED
  BY <1>2, <1>3 DEF RegistryInv

LEMMA RefusalKeeps ==
  ASSUME RegistryInv, NEW s \in Session, Refuse(s)
  PROVE  RegistryInv'
<1>1. Carries(Idle)
  BY DEF Carries, Idle
<1> QED
  BY <1>1, MovesKeep DEF Refuse

\* A write that takes no type away leaves the requests what they carry.
LEMMA RequestsKeep ==
  ASSUME RegistryInv, NEW s \in Session, NEW q,
         req' = [req EXCEPT ![s] = q], Carries(q),
         \A t \in RoomType : type[t] # NoType => type'[t] # NoType
  PROVE  RequestsCarry'
  BY DEF RegistryInv, TypeOK, RequestsCarry, Carries

\* A guest's row is written, with a document no other guest has.
LEMMA GuestWritten ==
  ASSUME RegistryInv, NEW s \in Session, NEW g \in Guest, NEW row \in GuestRow, NEW q,
         row # NoGuest,
         guest' = [guest EXCEPT ![g] = row], DocumentFree(g, row.kind, row.number),
         UNCHANGED <<type, room, stay>>, req' = [req EXCEPT ![s] = q], Carries(q)
  PROVE  RegistryInv'
<1>1. TypeOK'
  BY DEF RegistryInv, TypeOK, Blocking
<1>2. DocumentsUnique'
  BY DEF RegistryInv, TypeOK, DocumentsUnique, DocumentFree
<1>3. RequestsCarry'
  BY RequestsKeep
<1> QED
  BY <1>1, <1>2, <1>3 DEF RegistryInv

\* Rooms, types or bookings are written, guests are not.
LEMMA OthersWritten ==
  ASSUME RegistryInv, NEW s \in Session, TypeOK', guest' = guest,
         req' = [req EXCEPT ![s] = Idle],
         \A t \in RoomType : type[t] # NoType => type'[t] # NoType
  PROVE  RegistryInv'
<1>1. Carries(Idle)
  BY DEF Carries, Idle
<1>2. RequestsCarry'
  BY <1>1, RequestsKeep
<1>3. DocumentsUnique'
  BY DEF RegistryInv, DocumentsUnique
<1> QED
  BY <1>2, <1>3 DEF RegistryInv

-----------------------------------------------------------------------------
LEMMA GuestStepKeeps ==
  ASSUME RegistryInv, NEW s \in Session, GuestStep(s)
  PROVE  RegistryInv'
<1>0. /\ TypeOK /\ Carries(req[s]) /\ DOMAIN guest = Guest /\ DOMAIN stay = Stay
      /\ \A g \in Guest : guest[g] # NoGuest => guest[g] \in GuestRow
  BY DEF RegistryInv, RequestsCarry, TypeOK
<1>i. Carries(Idle)
  BY DEF Carries, Idle
<1>1. CASE CreateGuest(s)
  <2> PICK kind \in DocumentType, typed \in Typed :
         Continue(s, [op |-> "create_guest", kind |-> kind, typed |-> typed, touches |-> {}])
    BY <1>1 DEF CreateGuest, Begin
  <2>1. Carries([op |-> "create_guest", kind |-> kind, typed |-> typed, touches |-> {}])
    BY DEF Carries
  <2> QED
    BY <2>1, MovesKeep
<1>2. CASE CreateGuestCommit(s)
  <2>1. req[s].kind \in DocumentType /\ req[s].typed \in Typed
    BY <1>0, <1>2 DEF CreateGuestCommit, At, Carries
  <2>2. CASE Refuse(s)
    BY <2>2, RefusalKeeps
  <2>3. CASE ~Refuse(s)
    <3>1. \A g \in Guest : DocumentFree(g, req[s].kind, Normal[req[s].typed])
      BY <1>2, <2>3 DEF CreateGuestCommit, RegisterGuest, StoredFree
    <3> PICK g \in Guest :
           /\ guest' = [guest EXCEPT ![g] = NewGuest(req[s])]
           /\ req' = [req EXCEPT ![s] = Idle]
           /\ UNCHANGED <<type, room, stay>>
      BY <1>2, <2>3 DEF CreateGuestCommit, RegisterGuest
    <3>2. /\ NewGuest(req[s]).kind = req[s].kind
          /\ NewGuest(req[s]).number = Normal[req[s].typed]
      BY DEF NewGuest
    <3> QED
      BY <1>i, <2>1, <3>1, <3>2, NewGuestTyped, GuestWritten
  <2> QED
    BY <2>2, <2>3
<1>3. CASE UpdateGuest(s)
  <2> PICK g \in Guest, kind \in DocumentType \cup {NotSent}, number \in Number \cup {NotSent},
           named \in BOOLEAN :
         Continue(s, [op |-> "update_guest", guest |-> g, kind |-> kind, named |-> named,
                      number |-> number, touches |-> {g}])
    BY <1>3 DEF UpdateGuest, Begin, Number
  <2>1. Carries([op |-> "update_guest", guest |-> g, kind |-> kind, named |-> named,
                 number |-> number, touches |-> {g}])
    BY DEF Carries
  <2> QED
    BY <2>1, MovesKeep
<1>4. CASE UpdateGuestCommit(s)
  <2> DEFINE g   == req[s].guest
             row == UpdatedGuest(req[s])
  <2>1. /\ g \in Guest /\ req[s].kind \in DocumentType \cup {NotSent}
        /\ req[s].number \in Number \cup {NotSent} /\ req[s].named \in BOOLEAN
    BY <1>0, <1>4 DEF UpdateGuestCommit, At, Carries
  <2>2. CASE guest[g] # NoGuest /\ StoredFree(g, row.kind, row.number)
    <3>1. guest[g] \in GuestRow
      BY <1>0, <2>1, <2>2
    <3>2. row \in GuestRow /\ row # NoGuest
      BY <2>1, <3>1 DEF UpdatedGuest, GuestRow, NoGuest
    <3>3. /\ guest' = [guest EXCEPT ![g] = row] /\ UNCHANGED <<type, room, stay>>
          /\ req' = [req EXCEPT ![s] = Idle] /\ DocumentFree(g, row.kind, row.number)
      BY <1>4, <2>2 DEF UpdateGuestCommit, Done, StoredFree
    <3> HIDE DEF row
    <3> QED
      BY <1>i, <2>1, <3>2, <3>3, GuestWritten
  <2> QED
    BY <1>4, <2>2, RefusalKeeps DEF UpdateGuestCommit
<1>5. CASE DeleteGuest(s)
  <2> PICK g \in Guest : Continue(s, [op |-> "delete_guest", guest |-> g, touches |-> {g}])
    BY <1>5 DEF DeleteGuest, Begin
  <2>1. Carries([op |-> "delete_guest", guest |-> g, touches |-> {g}])
    BY DEF Carries
  <2> QED
    BY <2>1, MovesKeep
<1>6. CASE DeleteGuestCommit(s)
  <2> DEFINE g == req[s].guest
  <2>1. g \in Guest
    BY <1>0, <1>6 DEF DeleteGuestCommit, At, Carries
  <2>2. /\ guest' = [guest EXCEPT ![g] = NoGuest]
        /\ stay' = [x \in Stay |-> IF stay[x] # NoStay /\ stay[x].guest = g
                                   THEN NoStay ELSE stay[x]]
        /\ UNCHANGED <<type, room>> /\ req' = [req EXCEPT ![s] = Idle]
    BY <1>6 DEF DeleteGuestCommit, Done
  <2>3. TypeOK'
    BY <1>0, <2>1, <2>2 DEF TypeOK, StayRow
  <2>4. DocumentsUnique'
    BY <1>0, <2>1, <2>2 DEF RegistryInv, DocumentsUnique
  <2>5. RequestsCarry'
    BY <1>i, <2>2, RequestsKeep
  <2> QED
    BY <2>3, <2>4, <2>5 DEF RegistryInv
<1>7. CASE Anonymise(s)
  <2> PICK g \in Guest, renumber \in BOOLEAN :
         Continue(s, [op |-> "anonymise", guest |-> g, touches |-> {g}, renumber |-> renumber])
    BY <1>7 DEF Anonymise, Begin
  <2>1. Carries([op |-> "anonymise", guest |-> g, touches |-> {g}, renumber |-> renumber])
    BY DEF Carries
  <2> QED
    BY <2>1, MovesKeep
<1>8. CASE AnonymiseCommit(s)
  <2> DEFINE g   == req[s].guest
             row == AnonymisedGuest(req[s])
  <2>1. g \in Guest /\ req[s].renumber \in BOOLEAN
    BY <1>0, <1>8 DEF AnonymiseCommit, At, Carries
  <2>2. CASE guest[g] # NoGuest /\ StoredFree(g, row.kind, row.number)
    <3>1. guest[g] \in GuestRow
      BY <1>0, <2>1, <2>2
    <3>2. row \in GuestRow /\ row # NoGuest
      BY <2>1, <3>1 DEF AnonymisedGuest, GuestRow, NoGuest
    <3>3. /\ guest' = [guest EXCEPT ![g] = row] /\ UNCHANGED <<type, room, stay>>
          /\ req' = [req EXCEPT ![s] = Idle] /\ DocumentFree(g, row.kind, row.number)
      BY <1>8, <2>2 DEF AnonymiseCommit, Done, StoredFree
    <3> HIDE DEF row
    <3> QED
      BY <1>i, <2>1, <3>2, <3>3, GuestWritten
  <2> QED
    BY <1>8, <2>2, RefusalKeeps DEF AnonymiseCommit
<1> QED
  BY <1>1, <1>2, <1>3, <1>4, <1>5, <1>6, <1>7, <1>8 DEF GuestStep

-----------------------------------------------------------------------------
LEMMA CatalogStepKeeps ==
  ASSUME RegistryInv, NEW s \in Session, CatalogStep(s)
  PROVE  RegistryInv'
<1>0. TypeOK /\ Carries(req[s])
  BY DEF RegistryInv, RequestsCarry
<1>1. CASE CreateType(s) \/ CreateRoom(s)
  <2>1. \A capacity \in Capacity :
          Carries([op |-> "create_type", capacity |-> capacity, touches |-> {}])
    BY DEF Carries
  <2>2. \A t \in RoomType : type[t] # NoType =>
          Carries([op |-> "create_room", type |-> t, touches |-> {}])
    BY DEF Carries
  <2> QED
    BY <1>1, <2>1, <2>2, MovesKeep DEF CreateType, CreateRoom, Begin
<1>2. CASE UpdateType(s)
  <2> PICK t \in RoomType, capacity \in Capacity :
         Continue(s, [op |-> "update_type", type |-> t, capacity |-> capacity, touches |-> {t}])
    BY <1>2 DEF UpdateType, Begin
  <2>1. Carries([op |-> "update_type", type |-> t, capacity |-> capacity, touches |-> {t}])
    BY DEF Carries
  <2> QED
    BY <2>1, MovesKeep
<1>3. CASE MoveRoom(s)
  <2> PICK r \in Room, t \in RoomType :
         /\ type[t] # NoType
         /\ Continue(s, [op |-> "move_room", room |-> r, type |-> t, touches |-> {r, t}])
    BY <1>3 DEF MoveRoom, Begin
  <2>1. Carries([op |-> "move_room", room |-> r, type |-> t, touches |-> {r, t}])
    BY DEF Carries
  <2> QED
    BY <2>1, MovesKeep
<1>4. CASE DeleteRoom(s)
  <2> PICK r \in Room : Continue(s, [op |-> "delete_room", room |-> r, touches |-> {r}])
    BY <1>4 DEF DeleteRoom, Begin
  <2>1. Carries([op |-> "delete_room", room |-> r, touches |-> {r}])
    BY DEF Carries
  <2> QED
    BY <2>1, MovesKeep
<1>5. CASE CreateTypeCommit(s) \/ UpdateTypeCommit(s)
  <2>1. req[s].capacity \in Capacity /\ (UpdateTypeCommit(s) => req[s].type \in RoomType)
    BY <1>0, <1>5 DEF CreateTypeCommit, UpdateTypeCommit, At, Carries
  <2> PICK t \in RoomType : type' = [type EXCEPT ![t] = req[s].capacity]
    BY <1>5, <2>1 DEF CreateTypeCommit, UpdateTypeCommit
  <2>2. UNCHANGED <<guest, room, stay>> /\ req' = [req EXCEPT ![s] = Idle]
    BY <1>5 DEF CreateTypeCommit, UpdateTypeCommit, Done
  <2>3. \A u \in RoomType : type[u] # NoType => type'[u] # NoType
    BY <1>0, <2>1 DEF TypeOK, NoType
  <2>4. TypeOK'
    BY <1>0, <2>1, <2>2, <2>3 DEF TypeOK
  <2> QED
    BY <2>2, <2>3, <2>4, OthersWritten
<1>6. CASE CreateRoomCommit(s) \/ MoveRoomCommit(s)
  <2>1. CASE Refuse(s)
    BY <2>1, RefusalKeeps
  <2>2. CASE ~Refuse(s)
    <3>1. /\ req[s].type \in RoomType /\ type[req[s].type] # NoType
          /\ MoveRoomCommit(s) => req[s].room \in Room
      BY <1>0, <1>6 DEF CreateRoomCommit, MoveRoomCommit, At, Carries
    <3> PICK r \in Room : room' = [room EXCEPT ![r] = req[s].type]
      BY <1>6, <2>2, <3>1 DEF CreateRoomCommit, MoveRoomCommit
    <3>2. UNCHANGED <<guest, type, stay>> /\ req' = [req EXCEPT ![s] = Idle]
      BY <1>6, <2>2 DEF CreateRoomCommit, MoveRoomCommit, Done
    <3>3. req[s].type # NoRoom
      BY <3>1
    <3>4. TypeOK'
      BY <1>0, <3>1, <3>2, <3>3 DEF TypeOK
    <3> QED
      BY <3>2, <3>4, OthersWritten
  <2> QED
    BY <2>1, <2>2
<1>7. CASE DeleteRoomCommit(s)
  <2>1. req[s].room \in Room
    BY <1>0, <1>7 DEF DeleteRoomCommit, At, Carries
  <2>2. CASE ~Restricts(req[s].room)
    <3>1. /\ room' = [room EXCEPT ![req[s].room] = NoRoom]
          /\ UNCHANGED <<guest, type, stay>> /\ req' = [req EXCEPT ![s] = Idle]
      BY <1>7, <2>2 DEF DeleteRoomCommit, Done
    <3>2. TypeOK'
      BY <1>0, <2>1, <2>2, <3>1 DEF TypeOK, Restricts, StayRow, NoStay
    <3> QED
      BY <3>1, <3>2, OthersWritten
  <2> QED
    BY <1>7, <2>2, RefusalKeeps DEF DeleteRoomCommit
<1> QED
  BY <1>1, <1>2, <1>3, <1>4, <1>5, <1>6, <1>7 DEF CatalogStep

-----------------------------------------------------------------------------
\* A booking's row is written: its guest and its room are there.
LEMMA StayWritten ==
  ASSUME RegistryInv, NEW s \in Session, NEW x \in Stay, NEW row \in StayRow,
         stay' = [stay EXCEPT ![x] = row], guest[row.guest] # NoGuest, room[row.room] # NoRoom,
         UNCHANGED <<guest, type, room>>, Done(s)
  PROVE  RegistryInv'
<1>1. TypeOK'
  BY DEF RegistryInv, TypeOK, Done, StayRow, NoStay
<1> QED
  BY <1>1, OthersWritten DEF Done

LEMMA BookingStepKeeps ==
  ASSUME RegistryInv, NEW s \in Session,
         \/ Book(s) \/ BookCommit(s) \/ WalkIn(s) \/ WalkInRegister(s) \/ WalkInBook(s)
         \/ Amend(s) \/ AmendCommit(s) \/ Lifecycle(s) \/ LifecycleCommit(s)
  PROVE  RegistryInv'
<1>0. /\ TypeOK /\ Carries(req[s])
      /\ \A x \in Stay : stay[x] # NoStay => stay[x] \in StayRow
  BY DEF RegistryInv, RequestsCarry, TypeOK
<1>b. \A g \in Guest, r \in Room, party \in Capacity : Carries(Booking(g, r, party))
  BY DEF Carries, Booking
<1>1. CASE Book(s)
  BY <1>1, <1>b, MovesKeep DEF Book, Begin
<1>2. CASE BookCommit(s)
  <2>1. req[s].guest \in Guest /\ req[s].room \in Room /\ req[s].party \in Capacity
    BY <1>0, <1>2 DEF BookCommit, At, Carries
  <2> DEFINE row == [guest |-> req[s].guest, room |-> req[s].room,
                     party |-> req[s].party, status |-> "confirmed"]
  <2>2. row \in StayRow /\ row.guest = req[s].guest /\ row.room = req[s].room
    BY <2>1 DEF StayRow
  <2>3. CASE guest[req[s].guest] # NoGuest /\ room[req[s].room] # NoRoom
    <3> PICK x \in Stay : stay' = [stay EXCEPT ![x] = row] /\ Done(s) /\ UNCHANGED <<guest, type, room>>
      BY <1>2, <2>3 DEF BookCommit
    <3> HIDE DEF row
    <3> QED
      BY <2>2, <2>3, StayWritten
  <2> QED
    BY <1>2, <2>3, RefusalKeeps DEF BookCommit
<1>3. CASE WalkIn(s)
  <2> PICK kind \in DocumentType, typed \in Typed, r \in Room, party \in Capacity :
         \/ Continue(s, [op |-> "walk_in", kind |-> kind, typed |-> typed, room |-> r,
                         party |-> party, touches |-> {}])
         \/ \E g \in Guest : Continue(s, [op |-> "walked_in", guest |-> g, room |-> r,
                                          party |-> party, touches |-> {g}])
    BY <1>3 DEF WalkIn, Begin
  <2>1. Carries([op |-> "walk_in", kind |-> kind, typed |-> typed, room |-> r,
                 party |-> party, touches |-> {}])
    BY DEF Carries
  <2>2. \A g \in Guest : Carries([op |-> "walked_in", guest |-> g, room |-> r,
                                  party |-> party, touches |-> {g}])
    BY DEF Carries
  <2> QED
    BY <2>1, <2>2, MovesKeep
<1>4. CASE WalkInRegister(s)
  <2>1. /\ req[s].kind \in DocumentType /\ req[s].typed \in Typed
        /\ req[s].room \in Room /\ req[s].party \in Capacity
    BY <1>0, <1>4 DEF WalkInRegister, At, Carries
  <2>2. CASE Refuse(s)
    BY <2>2, RefusalKeeps
  <2>3. CASE ~Refuse(s)
    <3>1. \A g \in Guest : DocumentFree(g, req[s].kind, Normal[req[s].typed])
      BY <1>4, <2>3 DEF WalkInRegister, RegisterGuest, StoredFree
    <3> PICK g \in Guest :
           /\ guest' = [guest EXCEPT ![g] = NewGuest(req[s])]
           /\ req' = [req EXCEPT ![s] = [op |-> "walked_in", guest |-> g, room |-> req[s].room,
                                         party |-> req[s].party, touches |-> {g}]]
           /\ UNCHANGED <<type, room, stay>>
      BY <1>4, <2>3 DEF WalkInRegister, RegisterGuest
    <3>2. /\ NewGuest(req[s]).kind = req[s].kind
          /\ NewGuest(req[s]).number = Normal[req[s].typed]
      BY DEF NewGuest
    <3>3. Carries([op |-> "walked_in", guest |-> g, room |-> req[s].room,
                   party |-> req[s].party, touches |-> {g}])
      BY <2>1 DEF Carries
    <3> QED
      BY <2>1, <3>1, <3>2, <3>3, NewGuestTyped, GuestWritten
  <2> QED
    BY <2>2, <2>3
<1>5. CASE WalkInBook(s)
  <2>1. req[s].guest \in Guest /\ req[s].room \in Room /\ req[s].party \in Capacity
    BY <1>0, <1>5 DEF WalkInBook, At, Carries
  <2> QED
    BY <1>5, <1>b, <2>1, MovesKeep, RefusalKeeps DEF WalkInBook
<1>6. CASE Amend(s)
  <2> PICK x \in Stay, r \in Room, party \in Capacity :
         Continue(s, [op |-> "amend", stay |-> x, old |-> stay[x], room |-> r, party |-> party,
                      touches |-> {stay[x].guest, stay[x].room, r, room[r]}])
    BY <1>6 DEF Amend, Begin
  <2>1. Carries([op |-> "amend", stay |-> x, old |-> stay[x], room |-> r, party |-> party,
                 touches |-> {stay[x].guest, stay[x].room, r, room[r]}])
    BY DEF Carries
  <2> QED
    BY <2>1, MovesKeep
<1>7. CASE AmendCommit(s)
  <2> DEFINE x   == req[s].stay
             row == Amended(req[s])
  <2>1. x \in Stay /\ req[s].room \in Room /\ req[s].party \in Capacity
    BY <1>0, <1>7 DEF AmendCommit, At, Carries
  <2>2. CASE stay[x] # NoStay /\ room[row.room] # NoRoom
    <3>1. stay[x] \in StayRow /\ guest[stay[x].guest] # NoGuest
      BY <1>0, <2>1, <2>2 DEF TypeOK
    <3>2. row \in StayRow /\ row.guest = stay[x].guest
      BY <2>1, <3>1 DEF Amended, StayRow
    <3>3. stay' = [stay EXCEPT ![x] = row] /\ Done(s) /\ UNCHANGED <<guest, type, room>>
      BY <1>7, <2>2 DEF AmendCommit
    <3> HIDE DEF row
    <3> QED
      BY <2>1, <2>2, <3>1, <3>2, <3>3, StayWritten
  <2> QED
    BY <1>7, <2>2, RefusalKeeps DEF AmendCommit
<1>8. CASE Lifecycle(s)
  <2> PICK x \in Stay, status \in {"checked_in", "past"} :
         Continue(s, [op |-> "lifecycle", stay |-> x, status |-> status,
                      touches |-> {stay[x].guest, stay[x].room}])
    BY <1>8 DEF Lifecycle, Begin
  <2>1. Carries([op |-> "lifecycle", stay |-> x, status |-> status,
                 touches |-> {stay[x].guest, stay[x].room}])
    BY DEF Carries
  <2> QED
    BY <2>1, MovesKeep
<1>9. CASE LifecycleCommit(s)
  <2> DEFINE x   == req[s].stay
             row == [stay[x] EXCEPT !.status = req[s].status]
  <2>1. x \in Stay /\ req[s].status \in {"checked_in", "past"}
    BY <1>0, <1>9 DEF LifecycleCommit, At, Carries
  <2>2. CASE stay[x] # NoStay
    <3>1. /\ stay[x] \in StayRow
          /\ guest[stay[x].guest] # NoGuest /\ room[stay[x].room] # NoRoom
      BY <1>0, <2>1, <2>2 DEF TypeOK
    <3>2. row \in StayRow /\ row.guest = stay[x].guest /\ row.room = stay[x].room
      BY <2>1, <3>1 DEF StayRow
    <3>3. stay' = [stay EXCEPT ![x] = row] /\ Done(s) /\ UNCHANGED <<guest, type, room>>
      BY <1>9, <2>2 DEF LifecycleCommit
    <3> HIDE DEF row
    <3> QED
      BY <2>1, <3>1, <3>2, <3>3, StayWritten
  <2> QED
    BY <1>9, <2>2, RefusalKeeps DEF LifecycleCommit
<1> QED
  BY <1>1, <1>2, <1>3, <1>4, <1>5, <1>6, <1>7, <1>8, <1>9

-----------------------------------------------------------------------------
LEMMA RegistryInvariant == Spec => []RegistryInv
<1>1. Init => RegistryInv
  BY DEF Init, RegistryInv, TypeOK, DocumentsUnique, RequestsCarry, Carries, Idle
<1>2. RegistryInv /\ [Next]_vars => RegistryInv'
  <2> SUFFICES ASSUME RegistryInv, [Next]_vars PROVE RegistryInv'
    OBVIOUS
  <2>1. CASE UNCHANGED vars
    BY <2>1 DEF vars, RegistryInv, TypeOK, DocumentsUnique, RequestsCarry, Carries, Blocking
  <2>2. CASE Next
    BY <2>2, GuestStepKeeps, CatalogStepKeeps, BookingStepKeeps, RefusalKeeps DEF Next, Rollback
  <2> QED
    BY <2>1, <2>2
<1> QED
  BY <1>1, <1>2, PTL DEF Spec

\* Nothing dangles: whatever is deleted while something that refers to it is
\* being written, every booking has its guest and its room, every room its type.
THEOREM NothingDangles == Spec => []TypeOK
<1>1. RegistryInv => TypeOK
  BY DEF RegistryInv
<1> QED
  BY <1>1, RegistryInvariant, PTL

\* One document, one guest, however many register it at the same moment.
THEOREM DocumentsStayUnique == Spec => []DocumentsUnique
<1>1. RegistryInv => DocumentsUnique
  BY DEF RegistryInv
<1> QED
  BY <1>1, RegistryInvariant, PTL

-----------------------------------------------------------------------------
(***************************************************************************)
(* From here on: requests at once rely on different rows.  Every party     *)
(* then fits its room, and no stay disappears.  What a request found when  *)
(* it asked its questions is still so when it commits, as whoever could    *)
(* change it would have had to touch a row the request relies on.          *)
(***************************************************************************)

\* What a request that has asked its questions relies on until it commits.
BookRelies(q) ==
  /\ {q.guest, q.room, room[q.room]} \subseteq q.touches
  /\ room[q.room] # NoRoom /\ Accommodates(q.room, q.party)

AmendRelies(q) ==
  /\ {q.old.guest, q.room, room[q.room]} \subseteq q.touches
  /\ room[q.room] # NoRoom /\ Accommodates(q.room, q.party)
  /\ q.old # NoStay /\ stay[q.stay] = q.old

LifecycleRelies(q) ==
  /\ {stay[q.stay].guest, stay[q.stay].room} \subseteq q.touches
  /\ stay[q.stay] # NoStay /\ Blocking(q.stay)

TypeRelies(q) == q.type \in q.touches /\ PartiesFitIn(RoomsOf(q.type), q.capacity)

MoveRelies(q) ==
  {q.room, q.type} \subseteq q.touches /\ PartiesFitIn({q.room}, type[q.type])

DeletionRelies(q) == q.guest \in q.touches /\ Deletable(q.guest)

Relies(q) ==
  /\ q.op = "book" => BookRelies(q)
  /\ q.op = "amend" => AmendRelies(q)
  /\ q.op = "lifecycle" => LifecycleRelies(q)
  /\ q.op = "update_type" => TypeRelies(q)
  /\ q.op = "move_room" => MoveRelies(q)
  /\ q.op = "delete_room" => q.room \in q.touches
  /\ q.op = "delete_guest" => DeletionRelies(q)

RequestsRely == \A s \in Session : Relies(req[s])

ApartInv == RegistryInv /\ Apart /\ RequestsRely /\ PartiesFit

\* What every step keeps, and the step property.
FitKept ==
  /\ RequestsRely' /\ PartiesFit'
  /\ \A x \in Stay : stay[x] # NoStay => stay'[x] # NoStay /\ stay'[x].guest = stay[x].guest

-----------------------------------------------------------------------------
LEMMA IdleRelies == Relies(Idle)
  BY DEF Relies, Idle

\* A step that writes at most guests, and moves its request along.
LEMMA MovesKeepFit ==
  ASSUME ApartInv, NEW s \in Session, NEW q,
         UNCHANGED <<type, room, stay>>, req' = [req EXCEPT ![s] = q], Relies(q)
  PROVE  FitKept
<1>1. DOMAIN req = Session
  BY DEF ApartInv, RegistryInv, TypeOK
<1>2. PartiesFit'
  BY DEF ApartInv, PartiesFit, Blocking
<1>3. RequestsRely'
  BY <1>1 DEF ApartInv, RequestsRely, Relies, BookRelies, AmendRelies, LifecycleRelies, TypeRelies,
    MoveRelies, DeletionRelies, Accommodates, Blocking, PartiesFitIn, RoomsOf, Deletable
<1> QED
  BY <1>2, <1>3 DEF FitKept

LEMMA RefusalKeepsFit ==
  ASSUME ApartInv, NEW s \in Session, Refuse(s)
  PROVE  FitKept
  BY IdleRelies, MovesKeepFit DEF Refuse, Continue, tables

\* Two requests in flight touch different rows.
LEMMA TouchesApart ==
  ASSUME ApartInv, NEW s \in Session, NEW t \in Session \ {s}, req[s].op # "idle",
         req[t].op # "idle", NEW e, e \in req[s].touches
  PROVE  e \notin req[t].touches
  BY DEF ApartInv, Apart, Idle

-----------------------------------------------------------------------------
\* A booking is written: a new one, or one whose guest the request touches and
\* keeps, and it fits where the request puts it.
LEMMA StayWriteKeepsFit ==
  ASSUME ApartInv, NEW s \in Session, req[s].op # "idle", NEW x \in Stay, NEW row \in StayRow,
         stay' = [stay EXCEPT ![x] = row], UNCHANGED <<type, room>>, Done(s),
         row.guest \in req[s].touches, row.room \in req[s].touches,
         stay[x] # NoStay => stay[x].guest = row.guest,
         row.party <= type[room[row.room]],
         \/ room[row.room] \in req[s].touches
         \/ stay[x] # NoStay /\ Blocking(x) /\ stay[x].room = row.room /\ stay[x].party = row.party
  PROVE  FitKept
<1>1. /\ stay \in [Stay -> StayRow \cup {NoStay}] /\ DOMAIN req = Session
      /\ req' = [req EXCEPT ![s] = Idle] /\ RequestsRely /\ PartiesFit
      /\ row # NoStay /\ RequestsCarry
  BY DEF ApartInv, RegistryInv, TypeOK, Done, StayRow, NoStay
<1>2. PartiesFit'
  BY <1>1 DEF PartiesFit, Blocking
<1>3. \A y \in Stay : stay[y] # NoStay => stay'[y] # NoStay /\ stay'[y].guest = stay[y].guest
  BY <1>1
<1>4. ASSUME NEW t \in Session \ {s} PROVE Relies(req[t])'
  <2>1. /\ req'[t] = req[t] /\ Relies(req[t]) /\ Carries(req[t])
    BY <1>1 DEF RequestsRely, RequestsCarry
  <2>2. req[t].op # "idle" =>
          /\ row.guest \notin req[t].touches /\ row.room \notin req[t].touches
          /\ room[row.room] \in req[s].touches => room[row.room] \notin req[t].touches
    BY TouchesApart
  <2>3. ASSUME req[t].op = "book" PROVE BookRelies(req[t])'
    BY <2>1, <2>3 DEF Relies, BookRelies, Accommodates
  <2>4. ASSUME req[t].op = "amend" PROVE AmendRelies(req[t])'
    BY <1>1, <2>1, <2>2, <2>4 DEF Relies, AmendRelies, Accommodates, Carries
  <2>5. ASSUME req[t].op = "lifecycle" PROVE LifecycleRelies(req[t])'
    BY <1>1, <2>1, <2>2, <2>5 DEF Relies, LifecycleRelies, Blocking, Carries
  <2>6. ASSUME req[t].op = "update_type" PROVE TypeRelies(req[t])'
    BY <1>1, <2>1, <2>2, <2>6 DEF Relies, TypeRelies, PartiesFitIn, RoomsOf, Blocking
  <2>7. ASSUME req[t].op = "move_room" PROVE MoveRelies(req[t])'
    BY <1>1, <2>1, <2>2, <2>7 DEF Relies, MoveRelies, PartiesFitIn, Blocking
  <2>8. ASSUME req[t].op = "delete_guest" PROVE DeletionRelies(req[t])'
    BY <1>1, <2>1, <2>2, <2>8 DEF Relies, DeletionRelies, Deletable
  <2> QED
    BY <2>1, <2>3, <2>4, <2>5, <2>6, <2>7, <2>8 DEF Relies
<1>5. RequestsRely'
  BY <1>1, <1>4, IdleRelies DEF RequestsRely, Relies, Idle
<1> QED
  BY <1>2, <1>3, <1>5 DEF FitKept

\* A type's capacity is written: a new type's, or one that every party in its
\* rooms fits and that the request touches.
LEMMA TypeWriteKeepsFit ==
  ASSUME ApartInv, NEW s \in Session, req[s].op # "idle", NEW t0 \in RoomType,
         NEW capacity \in Capacity,
         type' = [type EXCEPT ![t0] = capacity], UNCHANGED <<room, stay>>, Done(s),
         \/ type[t0] = NoType
         \/ t0 \in req[s].touches /\ PartiesFitIn(RoomsOf(t0), capacity)
  PROVE  FitKept
<1>1. /\ TypeOK /\ DOMAIN req = Session /\ req' = [req EXCEPT ![s] = Idle]
      /\ RequestsRely /\ PartiesFit /\ RequestsCarry
  BY DEF ApartInv, RegistryInv, TypeOK, Done
<1>2. PartiesFit'
  <2> SUFFICES ASSUME NEW x \in Stay, stay[x] # NoStay, Blocking(x)
               PROVE  stay[x].party <= type'[room[stay[x].room]]
    BY DEF PartiesFit, Blocking
  <2>1. /\ stay[x].room \in Room /\ room[stay[x].room] \in RoomType
        /\ type[room[stay[x].room]] # NoType /\ stay[x].party <= type[room[stay[x].room]]
    BY <1>1 DEF TypeOK, StayRow, PartiesFit
  <2> QED
    BY <1>1, <2>1 DEF TypeOK, PartiesFitIn, RoomsOf
<1>3. ASSUME NEW t \in Session \ {s} PROVE Relies(req[t])'
  <2>1. /\ req'[t] = req[t] /\ Relies(req[t]) /\ Carries(req[t])
    BY <1>1 DEF RequestsRely, RequestsCarry
  <2>2. req[t].op # "idle" => type[t0] = NoType \/ t0 \notin req[t].touches
    BY TouchesApart
  <2>3. ASSUME req[t].op \in {"book", "amend"}
        PROVE  Accommodates(req[t].room, req[t].party)'
    <3>1. /\ room[req[t].room] \in req[t].touches /\ room[req[t].room] # NoRoom
          /\ Accommodates(req[t].room, req[t].party) /\ req[t].room \in Room
      BY <2>1, <2>3 DEF Relies, BookRelies, AmendRelies, Carries
    <3>2. room[req[t].room] # t0
      BY <1>1, <2>2, <2>3, <3>1 DEF TypeOK
    <3> QED
      BY <1>1, <2>1, <3>1, <3>2 DEF Accommodates, TypeOK
  <2>4. ASSUME req[t].op = "move_room" PROVE MoveRelies(req[t])'
    <3>1. /\ req[t].type \in req[t].touches /\ type[req[t].type] # NoType
          /\ req[t].type \in RoomType
      BY <2>1, <2>4 DEF Relies, MoveRelies, Carries
    <3>2. type'[req[t].type] = type[req[t].type]
      BY <1>1, <2>2, <2>4, <3>1 DEF TypeOK
    <3> QED
      BY <2>1, <2>4, <3>2 DEF Relies, MoveRelies, PartiesFitIn, Blocking
  <2> QED
    BY <2>1, <2>3, <2>4 DEF Relies, BookRelies, AmendRelies, LifecycleRelies, TypeRelies,
      DeletionRelies, PartiesFitIn, RoomsOf, Blocking, Deletable
<1>4. RequestsRely'
  BY <1>1, <1>3, IdleRelies DEF RequestsRely, Relies, Idle
<1> QED
  BY <1>2, <1>4 DEF FitKept

\* A room is added, moved to another type, or removed.
LEMMA RoomWriteKeepsFit ==
  ASSUME ApartInv, NEW s \in Session, req[s].op # "idle", NEW r \in Room,
         NEW t0 \in RoomType \cup {NoRoom},
         room' = [room EXCEPT ![r] = t0], UNCHANGED <<type, stay>>, Done(s),
         \/ room[r] = NoRoom
         \/ r \in req[s].touches /\ ~Restricts(r)
         \/ {r, t0} \subseteq req[s].touches /\ PartiesFitIn({r}, type[t0])
  PROVE  FitKept
<1>1. /\ TypeOK /\ DOMAIN req = Session /\ req' = [req EXCEPT ![s] = Idle]
      /\ RequestsRely /\ PartiesFit /\ RequestsCarry
  BY DEF ApartInv, RegistryInv, TypeOK, Done
<1>2. room[r] = NoRoom => ~Restricts(r)
  BY <1>1 DEF TypeOK, Restricts
<1>3. PartiesFit'
  <2> SUFFICES ASSUME NEW x \in Stay, stay[x] # NoStay, Blocking(x)
               PROVE  stay[x].party <= type[room'[stay[x].room]]
    BY DEF PartiesFit, Blocking
  <2> QED
    BY <1>1, <1>2 DEF TypeOK, StayRow, PartiesFit, PartiesFitIn, Restricts
<1>4. ASSUME NEW t \in Session \ {s} PROVE Relies(req[t])'
  <2>1. /\ req'[t] = req[t] /\ Relies(req[t]) /\ Carries(req[t])
    BY <1>1 DEF RequestsRely, RequestsCarry
  <2>2. req[t].op # "idle" =>
          \/ room[r] = NoRoom
          \/ r \notin req[t].touches /\ ~Restricts(r)
          \/ r \notin req[t].touches /\ t0 \notin req[t].touches
    BY TouchesApart
  <2>3. ASSUME req[t].op \in {"book", "amend"}
        PROVE  room'[req[t].room] = room[req[t].room]
    BY <1>1, <2>1, <2>2, <2>3 DEF TypeOK, Relies, BookRelies, AmendRelies
  <2>4. ASSUME req[t].op = "update_type" PROVE TypeRelies(req[t])'
    <3>1. /\ req[t].type \in req[t].touches /\ PartiesFitIn(RoomsOf(req[t].type), req[t].capacity)
      BY <2>1, <2>4 DEF Relies, TypeRelies
    <3>2. ASSUME NEW x \in Stay, stay[x] # NoStay, room'[stay[x].room] = req[t].type
          PROVE  room[stay[x].room] = req[t].type
      BY <1>1, <1>2, <2>2, <2>4, <3>1, <3>2 DEF TypeOK, StayRow, Restricts
    <3>3. PartiesFitIn(RoomsOf(req[t].type), req[t].capacity)'
      BY <1>1, <2>1, <3>1, <3>2 DEF PartiesFitIn, RoomsOf, Blocking, TypeOK, StayRow
    <3> QED
      BY <2>1, <3>1, <3>3 DEF TypeRelies
  <2> QED
    BY <2>1, <2>3, <2>4 DEF Relies, BookRelies, AmendRelies, LifecycleRelies, MoveRelies,
      DeletionRelies, PartiesFitIn, Accommodates, Blocking, Deletable
<1>5. RequestsRely'
  BY <1>1, <1>4, IdleRelies DEF RequestsRely, Relies, Idle
<1> QED
  BY <1>3, <1>5 DEF FitKept

-----------------------------------------------------------------------------
\* A request that relies on nothing begins.
LEMMA FreeBeginKeepsFit ==
  ASSUME ApartInv, NEW s \in Session, NEW q, Begin(s, q),
         q.op \in {"create_guest", "update_guest", "anonymise", "create_type", "create_room",
                  "walk_in", "walked_in"}
  PROVE  FitKept
<1>1. Relies(q)
  BY DEF Relies
<1> QED
  BY <1>1, MovesKeepFit DEF Begin, Continue, tables

LEMMA GuestStepKeepsFit ==
  ASSUME ApartInv, NEW s \in Session, GuestStep(s)
  PROVE  FitKept
<1>0. Relies(req[s]) /\ TypeOK
  BY DEF ApartInv, RequestsRely, RegistryInv
<1>1. CASE CreateGuest(s) \/ UpdateGuest(s) \/ Anonymise(s)
  <2>1. CASE CreateGuest(s)
    BY <2>1, FreeBeginKeepsFit DEF CreateGuest
  <2>2. CASE UpdateGuest(s)
    BY <2>2, FreeBeginKeepsFit DEF UpdateGuest
  <2>3. CASE Anonymise(s)
    BY <2>3, FreeBeginKeepsFit DEF Anonymise
  <2> QED
    BY <1>1, <2>1, <2>2, <2>3
<1>2. CASE DeleteGuest(s)
  <2> PICK g \in Guest :
         Deletable(g) /\ Continue(s, [op |-> "delete_guest", guest |-> g, touches |-> {g}])
    BY <1>2 DEF DeleteGuest, Begin
  <2>1. Relies([op |-> "delete_guest", guest |-> g, touches |-> {g}])
    BY DEF Relies, DeletionRelies
  <2> QED
    BY <2>1, MovesKeepFit DEF Continue, tables
<1>3. CASE CreateGuestCommit(s) \/ UpdateGuestCommit(s) \/ AnonymiseCommit(s)
  <2>1. UNCHANGED <<type, room, stay>> /\ req' = [req EXCEPT ![s] = Idle]
    BY <1>3 DEF CreateGuestCommit, RegisterGuest, UpdateGuestCommit, AnonymiseCommit,
      Refuse, Continue, tables, Done
  <2> QED
    BY <2>1, IdleRelies, MovesKeepFit
<1>4. CASE DeleteGuestCommit(s)
  <2>1. Deletable(req[s].guest)
    BY <1>0, <1>4 DEF DeleteGuestCommit, At, Relies, DeletionRelies
  <2>2. stay' = stay /\ UNCHANGED <<type, room>> /\ req' = [req EXCEPT ![s] = Idle]
    BY <1>0, <1>4, <2>1 DEF DeleteGuestCommit, Deletable, TypeOK, Done
  <2> QED
    BY <2>2, IdleRelies, MovesKeepFit
<1> QED
  BY <1>1, <1>2, <1>3, <1>4 DEF GuestStep

LEMMA CatalogStepKeepsFit ==
  ASSUME ApartInv, NEW s \in Session, CatalogStep(s)
  PROVE  FitKept
<1>0. Relies(req[s]) /\ Carries(req[s]) /\ TypeOK
  BY DEF ApartInv, RequestsRely, RegistryInv, RequestsCarry
<1>1. CASE CreateType(s) \/ CreateRoom(s)
  BY <1>1, FreeBeginKeepsFit DEF CreateType, CreateRoom
<1>2. CASE UpdateType(s)
  <2> PICK t \in RoomType, capacity \in Capacity :
         /\ PartiesFitIn(RoomsOf(t), capacity)
         /\ Continue(s, [op |-> "update_type", type |-> t, capacity |-> capacity, touches |-> {t}])
    BY <1>2 DEF UpdateType, Begin
  <2>1. Relies([op |-> "update_type", type |-> t, capacity |-> capacity, touches |-> {t}])
    BY DEF Relies, TypeRelies
  <2> QED
    BY <2>1, MovesKeepFit DEF Continue, tables
<1>3. CASE MoveRoom(s)
  <2> PICK r \in Room, t \in RoomType :
         /\ PartiesFitIn({r}, type[t])
         /\ Continue(s, [op |-> "move_room", room |-> r, type |-> t, touches |-> {r, t}])
    BY <1>3 DEF MoveRoom, Begin
  <2>1. Relies([op |-> "move_room", room |-> r, type |-> t, touches |-> {r, t}])
    BY DEF Relies, MoveRelies
  <2> QED
    BY <2>1, MovesKeepFit DEF Continue, tables
<1>4. CASE DeleteRoom(s)
  <2> PICK r \in Room : Continue(s, [op |-> "delete_room", room |-> r, touches |-> {r}])
    BY <1>4 DEF DeleteRoom, Begin
  <2>1. Relies([op |-> "delete_room", room |-> r, touches |-> {r}])
    BY DEF Relies
  <2> QED
    BY <2>1, MovesKeepFit DEF Continue, tables
<1>5. CASE CreateTypeCommit(s)
  <2>1. req[s].op = "create_type" /\ req[s].capacity \in Capacity
    BY <1>0, <1>5 DEF CreateTypeCommit, At, Carries
  <2> QED
    BY <1>5, <2>1, TypeWriteKeepsFit DEF CreateTypeCommit
<1>6. CASE UpdateTypeCommit(s)
  <2>1. /\ req[s].op = "update_type" /\ req[s].capacity \in Capacity /\ req[s].type \in RoomType
        /\ TypeRelies(req[s])
    BY <1>0, <1>6 DEF UpdateTypeCommit, At, Carries, Relies
  <2> QED
    BY <1>6, <2>1, TypeWriteKeepsFit DEF UpdateTypeCommit, TypeRelies
<1>7. CASE CreateRoomCommit(s)
  <2>1. req[s].op = "create_room" /\ req[s].type \in RoomType
    BY <1>0, <1>7 DEF CreateRoomCommit, At, Carries
  <2> QED
    BY <1>7, <2>1, RoomWriteKeepsFit DEF CreateRoomCommit
<1>8. CASE MoveRoomCommit(s)
  <2>1. /\ req[s].op = "move_room" /\ req[s].type \in RoomType /\ req[s].room \in Room
        /\ MoveRelies(req[s])
    BY <1>0, <1>8 DEF MoveRoomCommit, At, Carries, Relies
  <2>2. CASE Refuse(s)
    BY <2>2, RefusalKeepsFit
  <2>3. CASE ~Refuse(s)
    BY <1>8, <2>1, <2>3, RoomWriteKeepsFit DEF MoveRoomCommit, MoveRelies
  <2> QED
    BY <2>2, <2>3
<1>9. CASE DeleteRoomCommit(s)
  <2>1. /\ req[s].op = "delete_room" /\ req[s].room \in Room /\ req[s].room \in req[s].touches
    BY <1>0, <1>9 DEF DeleteRoomCommit, At, Carries, Relies
  <2>2. CASE Refuse(s)
    BY <2>2, RefusalKeepsFit
  <2>3. CASE ~Refuse(s)
    BY <1>9, <2>1, <2>3, RoomWriteKeepsFit DEF DeleteRoomCommit
  <2> QED
    BY <2>2, <2>3
<1> QED
  BY <1>1, <1>2, <1>3, <1>4, <1>5, <1>6, <1>7, <1>8, <1>9 DEF CatalogStep

-----------------------------------------------------------------------------
LEMMA BookingStepKeepsFit ==
  ASSUME ApartInv, NEW s \in Session,
         \/ Book(s) \/ BookCommit(s) \/ WalkIn(s) \/ WalkInRegister(s) \/ WalkInBook(s)
         \/ Amend(s) \/ AmendCommit(s) \/ Lifecycle(s) \/ LifecycleCommit(s)
  PROVE  FitKept
<1>0. /\ Relies(req[s]) /\ Carries(req[s]) /\ TypeOK /\ PartiesFit
      /\ \A x \in Stay : stay[x] # NoStay => stay[x] \in StayRow
  BY DEF ApartInv, RequestsRely, RegistryInv, RequestsCarry, TypeOK
<1>b. \A g \in Guest, r \in Room, party \in Capacity :
        Bookable(g, r, party) => Relies(Booking(g, r, party))
  BY DEF Relies, BookRelies, Bookable, Booking
<1>1. CASE Book(s)
  BY <1>1, <1>b, MovesKeepFit DEF Book, Begin, Continue, tables
<1>2. CASE BookCommit(s)
  <2>1. /\ req[s].op = "book" /\ req[s].guest \in Guest /\ req[s].room \in Room
        /\ req[s].party \in Capacity /\ BookRelies(req[s])
    BY <1>0, <1>2 DEF BookCommit, At, Carries, Relies
  <2> DEFINE row == [guest |-> req[s].guest, room |-> req[s].room,
                     party |-> req[s].party, status |-> "confirmed"]
  <2>2. /\ row \in StayRow /\ row.guest = req[s].guest /\ row.room = req[s].room
        /\ row.party = req[s].party
    BY <2>1 DEF StayRow
  <2>3. CASE Refuse(s)
    BY <2>3, RefusalKeepsFit
  <2>4. CASE ~Refuse(s)
    <3> PICK x \in Stay : /\ stay[x] = NoStay /\ stay' = [stay EXCEPT ![x] = row]
                          /\ Done(s) /\ UNCHANGED <<guest, type, room>>
      BY <1>2, <2>4 DEF BookCommit
    <3> HIDE DEF row
    <3> QED
      BY <2>1, <2>2, StayWriteKeepsFit DEF BookRelies, Accommodates
  <2> QED
    BY <2>3, <2>4
<1>3. CASE WalkIn(s)
  BY <1>3, FreeBeginKeepsFit DEF WalkIn
<1>4. CASE WalkInRegister(s)
  <2>1. CASE Refuse(s)
    BY <2>1, RefusalKeepsFit
  <2>2. CASE ~Refuse(s)
    <3> PICK g \in Guest :
           /\ req' = [req EXCEPT ![s] = [op |-> "walked_in", guest |-> g, room |-> req[s].room,
                                         party |-> req[s].party, touches |-> {g}]]
           /\ UNCHANGED <<type, room, stay>>
      BY <1>4, <2>2 DEF WalkInRegister, RegisterGuest
    <3>1. Relies([op |-> "walked_in", guest |-> g, room |-> req[s].room,
                  party |-> req[s].party, touches |-> {g}])
      BY DEF Relies
    <3> QED
      BY <3>1, MovesKeepFit
  <2> QED
    BY <2>1, <2>2
<1>5. CASE WalkInBook(s)
  <2>1. req[s].guest \in Guest /\ req[s].room \in Room /\ req[s].party \in Capacity
    BY <1>0, <1>5 DEF WalkInBook, At, Carries
  <2> QED
    BY <1>5, <1>b, <2>1, MovesKeepFit, RefusalKeepsFit DEF WalkInBook, Continue, tables
<1>6. CASE Amend(s)
  <2> PICK x \in Stay, r \in Room, party \in Capacity :
         /\ stay[x].status = "confirmed" /\ room[r] # NoRoom /\ Accommodates(r, party)
         /\ Continue(s, [op |-> "amend", stay |-> x, old |-> stay[x], room |-> r, party |-> party,
                         touches |-> {stay[x].guest, stay[x].room, r, room[r]}])
    BY <1>6 DEF Amend, Begin
  <2>1. stay[x] # NoStay
    BY DEF NoStay
  <2>2. Relies([op |-> "amend", stay |-> x, old |-> stay[x], room |-> r, party |-> party,
                touches |-> {stay[x].guest, stay[x].room, r, room[r]}])
    BY <2>1 DEF Relies, AmendRelies
  <2> QED
    BY <2>2, MovesKeepFit DEF Continue, tables
<1>7. CASE AmendCommit(s)
  <2> DEFINE x   == req[s].stay
             row == Amended(req[s])
  <2>1. /\ req[s].op = "amend" /\ x \in Stay /\ req[s].room \in Room /\ req[s].party \in Capacity
        /\ AmendRelies(req[s])
    BY <1>0, <1>7 DEF AmendCommit, At, Carries, Relies
  <2>2. stay[x] = req[s].old /\ stay[x] # NoStay /\ stay[x] \in StayRow
    BY <1>0, <2>1 DEF AmendRelies
  <2>3. /\ row \in StayRow /\ row.guest = stay[x].guest
        /\ row.room = req[s].room /\ row.party = req[s].party
    BY <2>1, <2>2 DEF Amended, StayRow
  <2>4. CASE Refuse(s)
    BY <2>4, RefusalKeepsFit
  <2>5. CASE ~Refuse(s)
    <3>1. stay' = [stay EXCEPT ![x] = row] /\ Done(s) /\ UNCHANGED <<guest, type, room>>
      BY <1>7, <2>5 DEF AmendCommit
    <3> HIDE DEF row
    <3> QED
      BY <2>1, <2>2, <2>3, <3>1, StayWriteKeepsFit DEF AmendRelies, Accommodates
  <2> QED
    BY <2>4, <2>5
<1>8. CASE Lifecycle(s)
  <2> PICK x \in Stay, status \in {"checked_in", "past"} :
         /\ stay[x] # NoStay /\ Blocking(x)
         /\ Continue(s, [op |-> "lifecycle", stay |-> x, status |-> status,
                         touches |-> {stay[x].guest, stay[x].room}])
    BY <1>8 DEF Lifecycle, Begin
  <2>1. Relies([op |-> "lifecycle", stay |-> x, status |-> status,
                touches |-> {stay[x].guest, stay[x].room}])
    BY DEF Relies, LifecycleRelies
  <2> QED
    BY <2>1, MovesKeepFit DEF Continue, tables
<1>9. CASE LifecycleCommit(s)
  <2> DEFINE x   == req[s].stay
             row == [stay[x] EXCEPT !.status = req[s].status]
  <2>1. /\ req[s].op = "lifecycle" /\ x \in Stay /\ req[s].status \in {"checked_in", "past"}
        /\ LifecycleRelies(req[s])
    BY <1>0, <1>9 DEF LifecycleCommit, At, Carries, Relies
  <2>2. stay[x] # NoStay /\ stay[x] \in StayRow /\ Blocking(x)
    BY <1>0, <2>1 DEF LifecycleRelies
  <2>3. /\ row \in StayRow /\ row.guest = stay[x].guest /\ row.room = stay[x].room
        /\ row.party = stay[x].party
    BY <2>1, <2>2 DEF StayRow
  <2>4. stay' = [stay EXCEPT ![x] = row] /\ Done(s) /\ UNCHANGED <<guest, type, room>>
    BY <1>9, <2>2 DEF LifecycleCommit
  <2> HIDE DEF row
  <2> QED
    BY <1>0, <2>1, <2>2, <2>3, <2>4, StayWriteKeepsFit DEF LifecycleRelies, PartiesFit
<1> QED
  BY <1>1, <1>2, <1>3, <1>4, <1>5, <1>6, <1>7, <1>8, <1>9

-----------------------------------------------------------------------------
LEMMA InitApart == Init => ApartInv
<1> SUFFICES ASSUME Init PROVE ApartInv
  OBVIOUS
<1>1. RegistryInv
  BY DEF Init, RegistryInv, TypeOK, DocumentsUnique, RequestsCarry, Carries, Idle
<1>2. PartiesFit
  BY DEF Init, PartiesFit
<1>3. RequestsRely /\ Apart
  BY IdleRelies DEF Init, RequestsRely, Apart
<1> QED
  BY <1>1, <1>2, <1>3 DEF ApartInv

LEMMA StepKeepsFit ==
  ASSUME ApartInv, Next
  PROVE  RegistryInv' /\ FitKept
  BY GuestStepKeeps, CatalogStepKeeps, BookingStepKeeps, RefusalKeeps,
     GuestStepKeepsFit, CatalogStepKeepsFit, BookingStepKeepsFit, RefusalKeepsFit
  DEF ApartInv, Next, Rollback

LEMMA ApartInvariant == ApartSpec => []ApartInv
<1>1. ApartInv /\ [Next /\ Apart']_vars => ApartInv'
  <2> SUFFICES ASSUME ApartInv, [Next /\ Apart']_vars PROVE ApartInv'
    OBVIOUS
  <2>1. CASE UNCHANGED vars
    BY <2>1 DEF vars, ApartInv, RegistryInv, TypeOK, DocumentsUnique, RequestsCarry, Carries,
      Apart, RequestsRely, PartiesFit, Relies, BookRelies, AmendRelies, LifecycleRelies,
      TypeRelies, MoveRelies, DeletionRelies, Accommodates, Blocking, PartiesFitIn, RoomsOf,
      Deletable
  <2>2. CASE Next /\ Apart'
    BY <2>2, StepKeepsFit DEF ApartInv, FitKept
  <2> QED
    BY <2>1, <2>2
<1> QED
  BY <1>1, InitApart, PTL DEF ApartSpec

\* Whoever is expected or in the house fits the room, whatever is done to
\* types, rooms and bookings, as long as requests in flight rely on different
\* rows.
THEOREM EveryPartyFits == ApartSpec => []PartiesFit
<1>1. ApartInv => PartiesFit
  BY DEF ApartInv
<1> QED
  BY <1>1, ApartInvariant, PTL

\* No stay disappears or changes its guest: the cascade of a deleted guest
\* never finds a row, as the count that allowed the deletion still holds when
\* it commits.
THEOREM HistoryStays == ApartSpec => HistoryNeverVanishes
<1>1. ASSUME ApartInv, [Next /\ Apart']_vars
      PROVE  [\A x \in Stay : stay[x] # NoStay =>
                stay'[x] # NoStay /\ stay'[x].guest = stay[x].guest]_vars
  <2>1. CASE UNCHANGED vars
    BY <2>1
  <2>2. CASE Next
    BY <1>1, <2>2, StepKeepsFit DEF FitKept
  <2> QED
    BY <1>1, <2>1, <2>2
<1> QED
  BY <1>1, ApartInvariant, PTL DEF ApartSpec, HistoryNeverVanishes

=============================================================================
