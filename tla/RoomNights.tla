----------------------------- MODULE RoomNights -----------------------------
(***************************************************************************)
(* What the booking calendar promises, with every detail of requests,      *)
(* statuses and prices gone: each booking holds a set of (room, night)     *)
(* pairs, no pair is held twice, and a booking changes what it holds only  *)
(* by taking one contiguous stay in one room, all of it free of others, or *)
(* by letting everything go.                                               *)
(***************************************************************************)
EXTENDS Integers

CONSTANTS Booking, Room, Day

VARIABLE held    \* held[b]: the (room, night) pairs booking b holds

StayNights(room, from, to) == {room} \X (from .. (to - 1))

Free(b, nights) == \A other \in Booking \ {b} : held[other] \cap nights = {}

Init == held = [b \in Booking |-> {}]

\* b takes, or moves to, the stay [from, to) in a room where it is free.
Hold(b, room, from, to) ==
  /\ from < to
  /\ Free(b, StayNights(room, from, to))
  /\ held' = [held EXCEPT ![b] = StayNights(room, from, to)]

\* b gives all its nights back: departure, cancellation or no-show.
Release(b) == held' = [held EXCEPT ![b] = {}]

Next ==
  \E b \in Booking :
    \/ \E room \in Room, from, to \in Day : Hold(b, room, from, to)
    \/ Release(b)

Spec == Init /\ [][Next]_held

\* A (room, night) pair belongs to at most one booking.
NoNightHeldTwice ==
  \A a, b \in Booking : a # b => held[a] \cap held[b] = {}

=============================================================================
