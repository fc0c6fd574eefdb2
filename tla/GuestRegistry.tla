--------------------------- MODULE GuestRegistry ---------------------------
(***************************************************************************)
(* The guest service: registering, editing, deleting and erasing guests.   *)
(***************************************************************************)
EXTENDS RegistryTables

\* get_by_document
DocumentFree(g, kind, number) ==
  \A other \in Guest \ {g} :
    guest[other] # NoGuest =>
      ~(guest[other].kind = kind /\ guest[other].number = number)

\* uq_guest_document
StoredFree_Unchecked(g, kind, number) == TRUE
StoredFree(g, kind, number) == DocumentFree(g, kind, number)

NewGuest(q) == [kind |-> q.kind, number |-> Normal[q.typed], erased |-> FALSE]

CreateGuest(s) ==
  \E kind \in DocumentType, typed \in Typed :
    /\ \A g \in Guest : DocumentFree(g, kind, Normal[typed])
    /\ Begin(s, [op |-> "create_guest", kind |-> kind, typed |-> typed, touches |-> {}])

\* The INSERT and its commit; what the request does next is rest.
RegisterGuest(s, rest(_)) ==
  LET q == req[s]
  IN  IF \A g \in Guest : StoredFree(g, q.kind, Normal[q.typed])
      THEN \E g \in Guest :
             /\ guest[g] = NoGuest
             /\ guest' = [guest EXCEPT ![g] = NewGuest(q)]
             /\ req' = [req EXCEPT ![s] = rest(g)]
             /\ UNCHANGED <<type, room, stay>>
      ELSE Refuse(s)

CreateGuestCommit(s) ==
  At(s, "create_guest") /\ RegisterGuest(s, LAMBDA g : Idle)

\* PATCH: a clash is looked for only when a number is sent, under the type
\* sent or the guest's own.  Sending a name makes an erased guest a person
\* again, and matters to no other; a type that is sent is a new one.  The ORM
\* writes no number that is the one it loaded.
UpdateGuest(s) ==
  \E g \in Guest, kind \in DocumentType \cup {NotSent}, typed \in Typed \cup {NotSent},
     named \in BOOLEAN :
    /\ guest[g] # NoGuest
    /\ kind # guest[g].kind
    /\ named => guest[g].erased
    /\ typed # NotSent =>
         DocumentFree(g, IF kind = NotSent THEN guest[g].kind ELSE kind, Normal[typed])
    /\ Begin(s, [op |-> "update_guest", guest |-> g, kind |-> kind, named |-> named,
                 number |-> IF typed = NotSent \/ Normal[typed] = guest[g].number
                            THEN NotSent ELSE Normal[typed],
                 touches |-> {g}])

UpdatedGuest(q) ==
  [guest[q.guest] EXCEPT !.kind   = IF q.kind = NotSent THEN @ ELSE q.kind,
                         !.number = IF q.number = NotSent THEN @ ELSE q.number,
                         !.erased = @ /\ ~q.named]

UpdateGuestCommit(s) ==
  LET q   == req[s]
      row == UpdatedGuest(q)
  IN  /\ At(s, "update_guest")
      /\ IF guest[q.guest] # NoGuest /\ StoredFree(q.guest, row.kind, row.number)
         THEN /\ guest' = [guest EXCEPT ![q.guest] = row]
              /\ Done(s)
              /\ UNCHANGED <<type, room, stay>>
         ELSE Refuse(s)

\* Any reservation at all blocks the deletion, finished ones too.
Deletable_NoneLive(g) == ~ \E x \in Stay : stay[x] # NoStay /\ stay[x].guest = g /\ Blocking(x)
Deletable(g) == ~ \E x \in Stay : stay[x] # NoStay /\ stay[x].guest = g

DeleteGuest(s) ==
  \E g \in Guest :
    /\ guest[g] # NoGuest
    /\ Deletable(g)
    /\ Begin(s, [op |-> "delete_guest", guest |-> g, touches |-> {g}])

\* The delete cascades to the guest's reservations.
DeleteGuestCommit(s) ==
  LET g == req[s].guest
  IN  /\ At(s, "delete_guest")
      /\ guest' = [guest EXCEPT ![g] = NoGuest]
      /\ stay' = [x \in Stay |-> IF stay[x] # NoStay /\ stay[x].guest = g
                                 THEN NoStay ELSE stay[x]]
      /\ Done(s)
      /\ UNCHANGED <<type, room>>

\* A guest in the house or still expected is not erased.
Erasable(g) == ~ \E x \in Stay : stay[x] # NoStay /\ stay[x].guest = g /\ Blocking(x)

Anonymise(s) ==
  \E g \in Guest :
    /\ guest[g] # NoGuest /\ ~guest[g].erased
    /\ Erasable(g)
    /\ Begin(s, [op |-> "anonymise", guest |-> g, touches |-> {g},
                 renumber |-> guest[g].number # Erased(g)])

AnonymisedGuest(q) ==
  [guest[q.guest] EXCEPT !.number = IF q.renumber THEN Erased(q.guest) ELSE @,
                         !.erased = TRUE]

AnonymiseCommit(s) ==
  LET q   == req[s]
      row == AnonymisedGuest(q)
  IN  /\ At(s, "anonymise")
      /\ IF guest[q.guest] # NoGuest /\ StoredFree(q.guest, row.kind, row.number)
         THEN /\ guest' = [guest EXCEPT ![q.guest] = row]
              /\ Done(s)
              /\ UNCHANGED <<type, room, stay>>
         ELSE Refuse(s)

GuestStep(s) ==
  \/ CreateGuest(s) \/ CreateGuestCommit(s)
  \/ UpdateGuest(s) \/ UpdateGuestCommit(s)
  \/ DeleteGuest(s) \/ DeleteGuestCommit(s)
  \/ Anonymise(s) \/ AnonymiseCommit(s)

=============================================================================
