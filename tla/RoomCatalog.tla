---------------------------- MODULE RoomCatalog ----------------------------
(***************************************************************************)
(* The room catalogue: types with their capacity, and the rooms of each.   *)
(* Names, numbers, prices and housekeeping are left out; a refusal over    *)
(* one of them is a request that rolls back.                               *)
(***************************************************************************)
EXTENDS RegistryTables

RoomsOf(t) == {r \in Room : room[r] = t}

\* largest_party_for_type and largest_party_for_room, as the comparison each
\* is used for.
PartiesFitIn_Confirmed(rooms, capacity) ==
  \A x \in Stay :
    stay[x] # NoStay /\ stay[x].room \in rooms /\ stay[x].status = "confirmed" =>
      stay[x].party <= capacity
PartiesFitIn(rooms, capacity) ==
  \A x \in Stay :
    stay[x] # NoStay /\ stay[x].room \in rooms /\ Blocking(x) => stay[x].party <= capacity

CreateType(s) ==
  \E capacity \in Capacity :
    Begin(s, [op |-> "create_type", capacity |-> capacity, touches |-> {}])

CreateTypeCommit(s) ==
  /\ At(s, "create_type")
  /\ \E t \in RoomType : type[t] = NoType /\ type' = [type EXCEPT ![t] = req[s].capacity]
  /\ Done(s)
  /\ UNCHANGED <<guest, room, stay>>

UpdateType(s) ==
  \E t \in RoomType, capacity \in Capacity :
    /\ type[t] \notin {NoType, capacity}
    /\ PartiesFitIn(RoomsOf(t), capacity)
    /\ Begin(s, [op |-> "update_type", type |-> t, capacity |-> capacity, touches |-> {t}])

UpdateTypeCommit(s) ==
  /\ At(s, "update_type")
  /\ type' = [type EXCEPT ![req[s].type] = req[s].capacity]
  /\ Done(s)
  /\ UNCHANGED <<guest, room, stay>>

CreateRoom(s) ==
  \E t \in RoomType :
    /\ type[t] # NoType
    /\ Begin(s, [op |-> "create_room", type |-> t, touches |-> {}])

CreateRoomCommit(s) ==
  /\ At(s, "create_room")
  /\ \E r \in Room : room[r] = NoRoom /\ room' = [room EXCEPT ![r] = req[s].type]
  /\ Done(s)
  /\ UNCHANGED <<guest, type, stay>>

\* update_room with another type.
MoveRoom(s) ==
  \E r \in Room, t \in RoomType :
    /\ room[r] \notin {NoRoom, t} /\ type[t] # NoType
    /\ PartiesFitIn({r}, type[t])
    /\ Begin(s, [op |-> "move_room", room |-> r, type |-> t, touches |-> {r, t}])

\* The UPDATE of a room deleted meanwhile finds no row.
MoveRoomCommit(s) ==
  LET q == req[s]
  IN  /\ At(s, "move_room")
      /\ IF room[q.room] = NoRoom THEN Refuse(s)
         ELSE /\ room' = [room EXCEPT ![q.room] = q.type]
              /\ Done(s)
              /\ UNCHANGED <<guest, type, stay>>

DeleteRoom(s) ==
  \E r \in Room :
    /\ room[r] # NoRoom
    /\ ~ \E x \in Stay : stay[x] # NoStay /\ stay[x].room = r /\ Blocking(x)
    /\ Begin(s, [op |-> "delete_room", room |-> r, touches |-> {r}])

\* The foreign key of a reservation, finished or not, forbids the delete: an
\* error nobody translates.
Restricts_Cascade(r) == FALSE
Restricts(r) == \E x \in Stay : stay[x] # NoStay /\ stay[x].room = r

DeleteRoomCommit(s) ==
  LET r == req[s].room
  IN  /\ At(s, "delete_room")
      /\ IF Restricts(r) THEN Refuse(s)
         ELSE /\ room' = [room EXCEPT ![r] = NoRoom]
              /\ Done(s)
              /\ UNCHANGED <<guest, type, stay>>

CatalogStep(s) ==
  \/ CreateType(s) \/ CreateTypeCommit(s) \/ UpdateType(s) \/ UpdateTypeCommit(s)
  \/ CreateRoom(s) \/ CreateRoomCommit(s) \/ MoveRoom(s) \/ MoveRoomCommit(s)
  \/ DeleteRoom(s) \/ DeleteRoomCommit(s)

=============================================================================
