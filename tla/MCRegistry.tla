----------------------------- MODULE MCRegistry -----------------------------
(***************************************************************************)
(* A small hotel for TLC.                                                  *)
(***************************************************************************)
EXTENDS RegistryProperties, TLC

CONSTANTS n, nSpaced

\* One document number, typed with a space.
MCTyped == {nSpaced}
MCNormal == [x \in MCTyped |-> n]

Symmetries ==
  Permutations(Guest) \cup Permutations(RoomType) \cup Permutations(Room)
    \cup Permutations(Stay) \cup Permutations(Session)
=============================================================================
