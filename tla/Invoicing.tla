----------------------------- MODULE Invoicing -----------------------------
(***************************************************************************)
(* Issuing invoices.  A number comes from a counter row per year, taken    *)
(* with UPDATE ... RETURNING, so whoever has taken one keeps the row       *)
(* locked until it commits or rolls back; the first invoice of a year has  *)
(* to insert the row, and of two that try the later falls back on the      *)
(* UPDATE from a savepoint.                                                *)
(*                                                                         *)
(* The tables below hold what is committed.  What a request has written    *)
(* and not committed is in req, and its locks are read off from there.     *)
(***************************************************************************)
EXTENDS Naturals, FiniteSets

CONSTANTS
  Stay,      \* reservations
  Session,   \* requests that may be in flight at once
  MaxYear,   \* last year of the model (a bound)
  MaxLegacy  \* largest number given out before the counter existed (a bound)

Year == 1 .. MaxYear

ASSUME InvoicingAssumption == MaxYear \in Nat \ {0} /\ MaxLegacy \in Nat

VARIABLES
  counter,  \* last_number of each year's row, 0 when there is no row
  invoice,  \* the invoice of each reservation
  status,   \* what issuing and deleting ask about each reservation
  year,     \* of date.today()
  req       \* what each session is in the middle of

vars == <<counter, invoice, status, year, req>>

NoInvoice == [year |-> "none"]
Invoice == [year : Year, number : Nat \ {0}]

\* "gone" once the guest is deleted and the reservation with them; every other
\* status that may be invoiced is "live".
Status == {"live", "cancelled", "gone"}

Idle == [pc |-> "idle"]
Request ==
  [pc : {"existing", "allocate"}, stay : Stay]
    \cup [pc : {"first", "retry"}, stay : Stay, year : Year]
    \cup [pc : {"insert", "commit"}, stay : Stay, year : Year, number : Nat \ {0}]

At(s, pc) == req[s].pc = pc

\* The session that has written the year's counter row and not committed.
HoldsCounter(s, y) == req[s].pc \in {"insert", "commit"} /\ req[s].year = y
CounterFree(y) == \A s \in Session : ~HoldsCounter(s, y)

\* No session has an uncommitted invoice of the reservation.
StayFree(st) == \A s \in Session : ~(At(s, "commit") /\ req[s].stay = st)

Continue(s, q) ==
  /\ req' = [req EXCEPT ![s] = q]
  /\ UNCHANGED <<counter, invoice, status, year>>

GoTo(s, pc) == Continue(s, [req[s] EXCEPT !.pc = pc])

\* An answer without a write, an error or a rollback: what was taken from the
\* counter is put back.
Answer(s) == Continue(s, Idle)

-----------------------------------------------------------------------------
(***************************************************************************)
(* POST /invoices/reservation/{id}                                         *)
(***************************************************************************)

MayInvoice(st) == status[st] \notin {"cancelled", "gone"}

Issue(s) ==
  /\ req[s] = Idle
  /\ \E st \in Stay : /\ MayInvoice(st)
                      /\ Continue(s, [pc |-> "existing", stay |-> st])

\* get_by_reservation: an invoice issued before is the answer.
AlreadyIssued(st) == invoice[st] # NoInvoice

CheckExisting(s) ==
  /\ At(s, "existing")
  /\ IF AlreadyIssued(req[s].stay) THEN Answer(s) ELSE GoTo(s, "allocate")

Take(s, st, y, n) ==
  Continue(s, [pc |-> "insert", stay |-> st, year |-> y, number |-> n])

FirstNumber_Default == 0
FirstNumber == 1

NextNumber_Counted(y) ==
  Cardinality({st \in Stay : invoice[st] # NoInvoice /\ invoice[st].year = y}) + 1
NextNumber(y) == counter[y] + 1

\* next_sequence: the UPDATE finds no committed row, or waits for its lock
\* and takes the next number.  The year is today's.
Allocate(s) ==
  LET st == req[s].stay
  IN  /\ At(s, "allocate")
      /\ \/ /\ counter[year] = 0
            /\ Continue(s, [pc |-> "first", stay |-> st, year |-> year])
         \/ /\ counter[year] # 0 /\ CounterFree(year)
            /\ Take(s, st, year, NextNumber(year))

\* The loser's savepoint is undone and it goes back to the UPDATE.
LostInsert_Again(s) == GoTo(s, "first")
LostInsert(s) == GoTo(s, "retry")

\* The INSERT of the row waits for another uncommitted one, and fails in its
\* savepoint if that one has been committed.
InsertCounter(s) ==
  LET y == req[s].year
  IN  /\ At(s, "first")
      /\ CounterFree(y)
      /\ IF counter[y] = 0 THEN Take(s, req[s].stay, y, FirstNumber) ELSE LostInsert(s)

Retry(s) ==
  LET y == req[s].year
  IN  /\ At(s, "retry")
      /\ CounterFree(y)
      /\ Take(s, req[s].stay, y, NextNumber(y))

\* The INSERT of the invoice: its number and its reservation must be new and
\* the reservation must still be there.  It waits for an uncommitted invoice
\* of the same reservation; a violation is a 500.
Insertable(q) ==
  /\ status[q.stay] # "gone"
  /\ invoice[q.stay] = NoInvoice
  /\ \A st \in Stay : invoice[st] # [year |-> q.year, number |-> q.number]

InsertInvoice(s) ==
  /\ At(s, "insert")
  /\ StayFree(req[s].stay)
  /\ IF Insertable(req[s]) THEN GoTo(s, "commit") ELSE Answer(s)

Commit(s) ==
  LET q == req[s]
  IN  /\ At(s, "commit")
      /\ counter' = [counter EXCEPT ![q.year] = q.number]
      /\ invoice' = [invoice EXCEPT ![q.stay] = [year |-> q.year, number |-> q.number]]
      /\ req' = [req EXCEPT ![s] = Idle]
      /\ UNCHANGED <<status, year>>

\* The client goes away, or the server fails, before the commit.
Rollback(s) == req[s] # Idle /\ Answer(s)

-----------------------------------------------------------------------------
(***************************************************************************)
(* What else happens to a reservation, and the calendar.                   *)
(***************************************************************************)

Cancel(st) ==
  /\ status[st] = "live"
  /\ status' = [status EXCEPT ![st] = "cancelled"]
  /\ UNCHANGED <<counter, invoice, year, req>>

\* Deleting a guest is refused once they have reservations, but a deletion
\* that counted before one was booked takes it and its invoice along.  It waits
\* for an invoice being inserted, which locks the reservation's key.
DeleteStay(st) ==
  /\ status[st] # "gone"
  /\ StayFree(st)
  /\ status' = [status EXCEPT ![st] = "gone"]
  /\ invoice' = [invoice EXCEPT ![st] = NoInvoice]
  /\ UNCHANGED <<counter, year, req>>

NewYear ==
  /\ year < MaxYear
  /\ year' = year + 1
  /\ UNCHANGED <<counter, invoice, status, req>>

-----------------------------------------------------------------------------
(***************************************************************************)
(* The migration that created the counter starts each year's row at the    *)
(* largest number in use; older deletions have left gaps below it.         *)
(***************************************************************************)

Numbers(book, y) ==
  {book[st].number : st \in {x \in Stay : book[x] # NoInvoice /\ book[x].year = y}}

\* COALESCE(MAX(number), 0)
Carried_Counted(n, numbers) == n = Cardinality(numbers)
Carried(n, numbers) == n \in numbers \cup {0} /\ \A m \in numbers : m <= n

LegacyBook ==
  {book \in [Stay -> {NoInvoice} \cup [year : {1}, number : 1 .. MaxLegacy]] :
     \A st, other \in Stay :
       book[st] = book[other] /\ book[st] # NoInvoice => st = other}

Init ==
  /\ invoice \in LegacyBook
  /\ counter \in [Year -> 0 .. MaxLegacy]
  /\ \A y \in Year : Carried(counter[y], Numbers(invoice, y))
  /\ status = [st \in Stay |-> "live"]
  /\ year = 1
  /\ req = [s \in Session |-> Idle]

\* A handler's steps other than its first.
Advance(s) ==
  \/ CheckExisting(s) \/ Allocate(s) \/ InsertCounter(s) \/ Retry(s)
  \/ InsertInvoice(s) \/ Commit(s)

Next ==
  \/ NewYear
  \/ \E st \in Stay : Cancel(st) \/ DeleteStay(st)
  \/ \E s \in Session : Issue(s) \/ Advance(s) \/ Rollback(s)

\* A handler goes on unless it waits for a lock; PostgreSQL queues those who
\* wait, so none is overtaken for ever.
Fairness == \A s \in Session : SF_vars(Advance(s))

Spec == Init /\ [][Next]_vars /\ Fairness

=============================================================================
