------------------------------- MODULE Folio -------------------------------
(***************************************************************************)
(* The payment service and its ledger.  A reservation owes its charge with *)
(* VAT; payments and refund counter-entries are rows of one table, never   *)
(* edited, and everything paid, owed or reported is a sum over that table. *)
(* The two desk operations that read the balance, check-out and            *)
(* cancellation, are here with their write-off; arrivals and re-pricing    *)
(* are here for what they change of a reservation.                         *)
(*                                                                         *)
(* As at the front desk a request loads rows, asks further questions, and  *)
(* commits; it may be interleaved with others at each await.               *)
(***************************************************************************)
EXTENDS Pricing, FiniteSets, Functions

CONSTANTS
  Stay,        \* reservations
  MaxPayments, \* rows the payments table may come to hold (a bound)
  Session,     \* requests that may be in flight at once
  Manager,     \* the sessions whose user is a manager or an admin
  MaxDay,      \* last day money moves on (a bound)
  Totals,      \* net charges a reservation may have, in cents
  Amounts,     \* amounts staff may enter, in cents
  Recordable,  \* payment statuses the clients send
  Receipt,     \* texts a payment's reference may be; "" is one of them
  Typed,       \* the ones staff type (the rest only arise as reversals)
  Stripped,    \* str.strip of what staff typed
  Reversal     \* "REFUND-" in front of what staff typed

Pay == 1 .. MaxPayments
Day == 0 .. MaxDay
PaymentStatus == {"pending", "paid", "refunded", "failed"}

\* Columns that are null.
NoReceipt == "none"
NoDay == -1
NoPay == 0

ASSUME FolioAssumption ==
  /\ IsFiniteSet(Stay)
  /\ Manager \subseteq Session
  /\ MaxPayments \in Nat /\ MaxDay \in Nat
  /\ Totals \subseteq Nat /\ Amounts \subseteq Nat \ {0}
  /\ Recordable \subseteq PaymentStatus
  /\ "" \in Receipt /\ NoReceipt \notin Receipt
  /\ Typed \subseteq Receipt
  /\ Stripped \in [Typed -> Receipt] /\ Reversal \in [Typed -> Receipt]

VARIABLES
  stay,      \* what the ledger needs of each reservation
  payment,   \* the payments table
  today,     \* the day of utcnow()
  req        \* what each session is in the middle of

vars == <<stay, payment, today, req>>

StayRow ==
  [status: {"confirmed", "checked_in", "checked_out", "cancelled", "no_show"},
   total: Totals, waived: Nat]

Payment ==
  [stay: Stay, amount: Nat \ {0}, status: PaymentStatus,
   receipt: Receipt \cup {NoReceipt}, day: Day \cup {NoDay}, reverses: Pay \cup {NoPay}]

NoPayment == [status |-> "absent"]
Idle == [op |-> "idle"]

-----------------------------------------------------------------------------
(***************************************************************************)
(* Sums over the payments table.                                           *)
(***************************************************************************)

\* Rows that moved money: a settled payment or a linked counter-entry.
is_cash_movement(p) ==
  \/ payment[p].status = "paid"
  \/ payment[p].status = "refunded" /\ payment[p].reverses # NoPay

signed_amount(p) ==
  IF payment[p].reverses # NoPay THEN -payment[p].amount ELSE payment[p].amount

Total(rows) == SumFunction([p \in rows |-> signed_amount(p)])

amount_paid(st) == Total({p \in Pay : is_cash_movement(p) /\ payment[p].stay = st})

\* Settled rows dated within [start, end].
CashWithin(start, end) ==
  {p \in Pay : is_cash_movement(p) /\ payment[p].day \in start .. end}

revenue_between_HalfOpen(start, end) == Total(CashWithin(start, end - 1))
revenue_between(start, end) == Total(CashWithin(start, end))

revenue_by_day(start, end) ==
  [d \in start .. end |-> Total({p \in CashWithin(start, end) : payment[p].day = d})]

\* The chart of the last so many days, a day without cash being a zero.
revenue_trend(days) == revenue_by_day(today - days + 1, today)

\* get_refund_for and get_by_reference found nothing.
NotRefunded_ThisReceipt(p) ==
  \A r \in Pay : payment[r] # NoPayment /\ payment[r].reverses = p =>
    payment[r].receipt = NoReceipt
NotRefunded(p) ==
  ~ \E r \in Pay : payment[r] # NoPayment /\ payment[r].reverses = p

NotRecorded_AsTyped(st, receipt) ==
  ~ \E p \in Pay : /\ payment[p] # NoPayment
                   /\ payment[p].stay = st
                   /\ payment[p].receipt = receipt
NotRecorded(st, receipt) ==
  ~ \E p \in Pay : /\ payment[p] # NoPayment
                   /\ payment[p].stay = st
                   /\ payment[p].receipt = Stripped[receipt]

\* uq_payment_reservation_reference.
ReceiptFree(st, receipt) ==
  receipt # NoReceipt =>
    ~ \E p \in Pay : /\ payment[p] # NoPayment
                     /\ payment[p].stay = st
                     /\ payment[p].receipt = receipt

-----------------------------------------------------------------------------
(***************************************************************************)
(* What a reservation owes.                                                *)
(***************************************************************************)

Due(st) == total_due(stay[st].total)

\* folio.balance_due, and the balance check-out asks for.
Balance(st) == Due(st) - amount_paid(st)

\* What a request takes it to be: what was due when it loaded the reservation,
\* less what is paid now.
Outstanding_Net(q) == stay[q.stay].total - amount_paid(q.stay)
Outstanding(q) == q.due - amount_paid(q.stay)

\* The dashboard's outstanding_balance: one SQL sum over the unrounded charge
\* with VAT, in hundredths of a cent, clamped per reservation, rounded once.
Owed(st) ==
  stay[st].total * (100 + TaxPercent) - 100 * (amount_paid(st) + stay[st].waived)

Clamped(n) == IF n > 0 THEN n ELSE 0

outstanding_balance_ClampedOnce ==
  LET live == {st \in Stay : stay[st].status \notin {"cancelled", "no_show"}}
  IN  Quantize(Clamped(SumFunction([st \in live |-> Owed(st)])), 100)
outstanding_balance ==
  LET live == {st \in Stay : stay[st].status \notin {"cancelled", "no_show"}}
  IN  Quantize(SumFunction([st \in live |-> Clamped(Owed(st))]), 100)

-----------------------------------------------------------------------------
(***************************************************************************)
(* Requests.                                                               *)
(***************************************************************************)

Continue(s, q) ==
  /\ req' = [req EXCEPT ![s] = q]
  /\ UNCHANGED <<stay, payment, today>>

At(s, op, pc) == req[s] # Idle /\ req[s].op = op /\ req[s].pc = pc

GoTo(s, pc) == Continue(s, [req[s] EXCEPT !.pc = pc])

\* An AppError, or a rollback for any other reason.
Refuse(s) == Continue(s, Idle)

\* The flush inside payments.create, and the commit after it.  A receipt that
\* is taken by now is an IntegrityError nobody translates: the answer is 500
\* and nothing is kept.
Append(s, row) ==
  IF ReceiptFree(row.stay, row.receipt)
  THEN \E p \in Pay :
         /\ payment[p] = NoPayment /\ \A r \in 1 .. (p - 1) : payment[r] # NoPayment
         /\ payment' = [payment EXCEPT ![p] = row]
         /\ req' = [req EXCEPT ![s] = Idle]
         /\ UNCHANGED <<stay, today>>
  ELSE Refuse(s)

-----------------------------------------------------------------------------
(***************************************************************************)
(* POST /payments                                                          *)
(***************************************************************************)

\* record up to its first query: the reservation and with it the charge are
\* loaded.  An empty reference is not looked up.
Record(s) ==
  /\ req[s] = Idle
  /\ \E st \in Stay, amount \in Amounts, status \in Recordable,
        receipt \in Typed \cup {NoReceipt} :
       /\ stay[st].status # "cancelled"
       /\ Continue(s, [op |-> "record",
                      pc |-> IF receipt \in {NoReceipt, ""} THEN "balance"
                             ELSE "reference",
                      stay |-> st, due |-> Due(st), amount |-> amount,
                      status |-> status, receipt |-> receipt])

RecordReference(s) ==
  /\ At(s, "record", "reference")
  /\ IF NotRecorded(req[s].stay, req[s].receipt)
     THEN GoTo(s, "balance")
     ELSE Refuse(s)

\* The ceiling, whatever the payment's status.
WithinCeiling_Gross(q) == q.amount <= q.due
WithinCeiling(q) == q.amount <= Outstanding(q)

RecordBalance(s) ==
  /\ At(s, "record", "balance")
  /\ IF WithinCeiling(req[s]) THEN GoTo(s, "commit") ELSE Refuse(s)

RecordCommit(s) ==
  LET q == req[s]
  IN  /\ At(s, "record", "commit")
      /\ Append(s, [stay |-> q.stay, amount |-> q.amount, status |-> q.status,
                    receipt |-> q.receipt,
                    day |-> IF q.status = "paid" THEN today ELSE NoDay,
                    reverses |-> NoPay])

-----------------------------------------------------------------------------
(***************************************************************************)
(* POST /payments/{id}/refund                                              *)
(***************************************************************************)

Refund(s) ==
  /\ req[s] = Idle
  /\ s \in Manager
  /\ \E p \in Pay :
       /\ payment[p].status = "paid"
       /\ Continue(s, [op |-> "refund", pc |-> "reversed", pay |-> p,
                       stay |-> payment[p].stay])

RefundReversed(s) ==
  /\ At(s, "refund", "reversed")
  /\ IF NotRefunded(req[s].pay) THEN GoTo(s, "commit") ELSE Refuse(s)

\* The reference of a counter-entry, if the payment has one.
ReversalOf_Always(receipt) ==
  IF receipt \in Typed THEN Reversal[receipt] ELSE "REFUND-None"
ReversalOf(receipt) ==
  IF receipt \in {NoReceipt, ""} THEN NoReceipt ELSE Reversal[receipt]

\* The counter-entry repeats the payment's stay and amount.
CounterEntry(p) ==
  [payment[p] EXCEPT !.status = "refunded", !.day = today, !.reverses = p,
                     !.receipt = ReversalOf(@)]

RefundCommit(s) ==
  /\ At(s, "refund", "commit")
  /\ Append(s, CounterEntry(req[s].pay))

-----------------------------------------------------------------------------
(***************************************************************************)
(* Check-out and cancellation, which ask for the balance.                  *)
(***************************************************************************)

\* Both leave status behind; cancel asks only about a guest in the house, and
\* that is a manager's to cancel.
CheckOut(s) ==
  /\ req[s] = Idle
  /\ \E st \in Stay :
       /\ stay[st].status = "checked_in"
       /\ Continue(s, [op |-> "leave", pc |-> "balance", stay |-> st, due |-> Due(st),
                       status |-> "checked_out", waived |-> 0])

Cancel(s) ==
  /\ req[s] = Idle
  /\ \E st \in Stay :
       LET in_house == stay[st].status = "checked_in"
       IN  /\ stay[st].status \notin {"cancelled", "checked_out"}
           /\ in_house => s \in Manager
           /\ Continue(s, [op |-> "leave", pc |-> IF in_house THEN "balance" ELSE "commit",
                           stay |-> st, due |-> Due(st),
                           status |-> "cancelled", waived |-> 0])

\* balance(): a debt stops the request unless a manager asks for it to be
\* written off, and the amount written off is the debt as read.
LeaveBalance(s) ==
  LET q    == req[s]
      owed == Outstanding(q)
  IN  /\ At(s, "leave", "balance")
      /\ \E waive \in BOOLEAN :
           \/ owed <= 0 /\ GoTo(s, "commit")
           \/ /\ owed > 0 /\ waive /\ s \in Manager
              /\ Continue(s, [q EXCEPT !.pc = "commit", !.waived = owed])
           \/ owed > 0 /\ ~(waive /\ s \in Manager) /\ Refuse(s)

\* waived_amount is written only when a debt was waived.
Waived(q, before) == IF q.waived > 0 THEN q.waived ELSE before

LeaveCommit(s) ==
  LET q == req[s]
  IN  /\ At(s, "leave", "commit")
      /\ stay' = [stay EXCEPT ![q.stay].status = q.status,
                              ![q.stay].waived = Waived(q, @)]
      /\ req' = [req EXCEPT ![s] = Idle]
      /\ UNCHANGED <<payment, today>>

-----------------------------------------------------------------------------
(***************************************************************************)
(* The rest of a reservation's life, reduced to what the ledger sees.      *)
(***************************************************************************)

\* check_in, mark_no_show, and update, which re-prices a stay not yet begun.
Edit(s) ==
  /\ req[s] = Idle
  /\ \E st \in Stay, total \in Totals, status \in {"confirmed", "checked_in", "no_show"} :
       /\ stay[st].status = "confirmed"
       /\ (status = "confirmed") = (total # stay[st].total)
       /\ Continue(s, [op |-> "edit", pc |-> "commit", stay |-> st,
                       status |-> status, total |-> total])

EditCommit(s) ==
  LET q == req[s]
  IN  /\ At(s, "edit", "commit")
      /\ stay' = [stay EXCEPT ![q.stay] =
                    IF q.status = "confirmed" THEN [@ EXCEPT !.total = q.total]
                    ELSE [@ EXCEPT !.status = q.status]]
      /\ req' = [req EXCEPT ![s] = Idle]
      /\ UNCHANGED <<payment, today>>

Rollback(s) == req[s] # Idle /\ Refuse(s)

Tick ==
  /\ today < MaxDay
  /\ today' = today + 1
  /\ UNCHANGED <<stay, payment, req>>

-----------------------------------------------------------------------------
Init ==
  /\ \E total \in [Stay -> Totals] :
       stay = [st \in Stay |-> [status |-> "confirmed", total |-> total[st], waived |-> 0]]
  /\ payment = [p \in Pay |-> NoPayment]
  /\ today = 0
  /\ req = [s \in Session |-> Idle]

Step(s) ==
  \/ Record(s) \/ RecordReference(s) \/ RecordBalance(s) \/ RecordCommit(s)
  \/ Refund(s) \/ RefundReversed(s) \/ RefundCommit(s)
  \/ CheckOut(s) \/ Cancel(s) \/ LeaveBalance(s) \/ LeaveCommit(s)
  \/ Edit(s) \/ EditCommit(s)
  \/ Rollback(s)

Next == Tick \/ \E s \in Session : Step(s)

Spec == Init /\ [][Next]_vars

\* No two requests in flight are about one reservation.  A single session is
\* a special case.
StaysApart ==
  \A s, t \in Session :
    (s # t /\ req[s] # Idle /\ req[t] # Idle) => req[s].stay # req[t].stay

ApartSpec == Init /\ [][Next /\ StaysApart']_vars

=============================================================================
