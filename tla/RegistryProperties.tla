------------------------- MODULE RegistryProperties -------------------------
(***************************************************************************)
(* What must hold between guests, rooms and bookings.                      *)
(***************************************************************************)
EXTENDS Registry

\* Rows keep their types, and no row refers to one that is not there: not a
\* room to its type, not a booking to its guest and room (the foreign keys).
TypeOK ==
  /\ guest \in [Guest -> GuestRow \cup {NoGuest}]
  /\ type \in [RoomType -> Capacity \cup {NoType}]
  /\ room \in [Room -> RoomType \cup {NoRoom}]
  /\ stay \in [Stay -> StayRow \cup {NoStay}]
  /\ DOMAIN req = Session
  /\ \A r \in Room : room[r] # NoRoom => type[room[r]] # NoType
  /\ \A x \in Stay : stay[x] # NoStay => guest[stay[x].guest] # NoGuest /\ room[stay[x].room] # NoRoom

\* One person, one record: no two guests hold the same document, however the
\* number was typed and whoever registers them at the same moment, and an
\* erased guest's placeholder clashes with nobody (create, get_or_create,
\* update, anonymise, uq_guest_document).
DocumentsUnique ==
  \A g, other \in Guest :
    (/\ g # other /\ guest[g] # NoGuest /\ guest[other] # NoGuest
     /\ guest[g].kind = guest[other].kind) =>
      guest[g].number # guest[other].number

\* A stay, and with it its payments and its invoice, never disappears, and
\* its guest stays the same row, deletion and erasure notwithstanding (delete,
\* anonymise, delete_room).
HistoryNeverVanishes ==
  [][\A x \in Stay : stay[x] # NoStay => stay'[x] # NoStay /\ stay'[x].guest = stay[x].guest]_vars

\* Whoever is expected or in the house fits the room: shrinking a type, moving
\* a room to another type and amending a booking keep every live party within
\* the capacity (_assert_capacity_fits_bookings, update_room, create, update).
PartiesFit ==
  \A x \in Stay : stay[x] # NoStay /\ Blocking(x) => stay[x].party <= type[room[stay[x].room]]

=============================================================================
