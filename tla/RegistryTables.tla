--------------------------- MODULE RegistryTables ---------------------------
(***************************************************************************)
(* The tables the guest registry and the room catalogue share with the     *)
(* bookings, and the shape of a request.  A request answers its questions  *)
(* from the tables as they are, and commits later; the database enforces   *)
(* unique documents and foreign keys when it does.                         *)
(***************************************************************************)
EXTENDS Naturals, FiniteSets

CONSTANTS
  Guest, RoomType, Room, Stay,  \* rows each table may come to hold
  Session,       \* requests that may be in flight at once
  DocumentType,
  Typed,         \* document numbers as staff type them
  Normal,        \* each without spaces and in capitals
  Capacity       \* numbers of people, of parties and of beds

NotSent == "not sent"  \* a field that a PATCH leaves out

VARIABLES
  guest,  \* document and whether the personal data is erased
  type,   \* the capacity of each room type
  room,   \* the type of each room
  stay,   \* the bookings
  req     \* what each session is in the middle of

tables == <<guest, type, room, stay>>
vars == <<guest, type, room, stay, req>>

NoGuest == [number |-> "no guest"]
NoType == 0
NoRoom == "no room"
NoStay == [status |-> "absent"]

ASSUME RegistryAssumption ==
  /\ Capacity \subseteq Nat \ {0}
  /\ DOMAIN Normal = Typed
  /\ NoRoom \notin RoomType

Number == {Normal[n] : n \in Typed}

\* anonymise puts a number of its own in the place of the document's.
Erased(g) == <<"ERASED", g>>

GuestRow ==
  [kind : DocumentType, number : Number \cup {Erased(g) : g \in Guest}, erased : BOOLEAN]
StayRow ==
  [guest : Guest, room : Room, party : Capacity, status : {"confirmed", "checked_in", "past"}]

\* BLOCKING_STATUSES; "past" is any other.
Blocking(x) == stay[x].status \in {"confirmed", "checked_in"}

Idle == [op |-> "idle"]

\* touches names the existing rows a request has read and relies on.
Continue(s, q) ==
  /\ req' = [req EXCEPT ![s] = q]
  /\ UNCHANGED tables

Begin(s, q) == req[s] = Idle /\ Continue(s, q)

At(s, op) == req[s].op = op

\* An AppError, or an error of the database nobody translates.
Refuse(s) == Continue(s, Idle)

Done(s) == req' = [req EXCEPT ![s] = Idle]

=============================================================================
