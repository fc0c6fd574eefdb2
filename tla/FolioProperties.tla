-------------------------- MODULE FolioProperties --------------------------
(***************************************************************************)
(* What the ledger must and must not do.                                   *)
(***************************************************************************)
EXTENDS Folio

\* What a request in flight has in its local variables.
RecordReq ==
  [op: {"record"}, pc: {"reference", "balance", "commit"}, stay: Stay, due: Int,
   amount: Amounts, status: Recordable, receipt: Typed \cup {NoReceipt}]
RefundReq == [op: {"refund"}, pc: {"reversed", "commit"}, pay: Pay, stay: Stay]
LeaveReq ==
  [op: {"leave"}, pc: {"balance", "commit"}, stay: Stay, due: Int,
   status: {"checked_out", "cancelled"}, waived: Nat]
EditReq ==
  [op: {"edit"}, pc: {"commit"}, stay: Stay,
   status: {"confirmed", "checked_in", "no_show"}, total: Totals]

Request == {Idle} \cup RecordReq \cup RefundReq \cup LeaveReq \cup EditReq

\* Every variable keeps its type, and a refund in flight is about a settled
\* payment of its reservation that is in the table.
TypeOK ==
  /\ stay \in [Stay -> StayRow]
  /\ payment \in [Pay -> Payment \cup {NoPayment}]
  /\ today \in Day
  /\ req \in [Session -> Request]
  /\ \A s \in Session :
       req[s] \in RefundReq =>
         payment[req[s].pay].status = "paid" /\ payment[req[s].pay].stay = req[s].stay

\* A payment somebody recorded with a receipt number.
IsNumber(receipt) == receipt \notin {NoReceipt, ""}
Recorded(p) ==
  payment[p] # NoPayment /\ payment[p].reverses = NoPay /\ IsNumber(payment[p].receipt)

\* A receipt number that is on the ledger of a stay without blanks is not
\* recorded there again, in whatever way it is typed: no payment's reference,
\* stripped, is that of an earlier row (record, get_by_reference).  A number
\* stored with a blank has no such protection: the lookup never finds it, so "R "
\* and after it "R" are two payments, although one number is to identify one
\* movement of money (payment_service.py:39-40).
KnownReceiptRefused ==
  \A p, r \in Pay :
    (/\ p < r /\ Recorded(r) /\ payment[p] # NoPayment
     /\ payment[p].stay = payment[r].stay)
      => payment[p].receipt # Stripped[payment[r].receipt]

\* A settled payment is returned to the guest at most once (refund), whatever
\* is paid, refunded, re-priced or cancelled in between.
RefundedAtMostOnce ==
  \A p, r \in Pay :
    (/\ payment[p] # NoPayment /\ payment[r] # NoPayment
     /\ payment[p].reverses = payment[r].reverses
     /\ payment[p].reverses # NoPay) => p = r

\* Money is never taken beyond what the stay costs with VAT at that moment,
\* however the payment was split, refunded and re-priced before (record).
NeverOverpaid ==
  [][\A st \in Stay : amount_paid(st)' > amount_paid(st) => amount_paid(st)' <= Due(st)']_vars

\* A guest leaves the house, or an in-house stay is cancelled, with the bill
\* settled or with all that is missing written off (check_out, cancel).
DepartsSettledOrWaived ==
  [][\A st \in Stay :
       stay[st].status = "checked_in" /\ stay[st].status' # "checked_in" =>
         Balance(st)' <= stay'[st].waived]_vars

\* The cash figures agree with each other and with the folios: for any period
\* the daily series adds up to the headline, and over all days the headline is
\* what the guests have paid (revenue_between,
\* revenue_by_day, revenue_trend, amount_paid).
CashBooksAgree ==
  /\ \A start, end \in Day :
       SumFunction(revenue_by_day(start, end)) = revenue_between(start, end)
  /\ revenue_between(0, MaxDay) = SumFunction([st \in Stay |-> amount_paid(st)])
  /\ \A days \in 1 .. (MaxDay + 1) :
       SumFunction(revenue_trend(days)) = revenue_between(today - days + 1, today)

\* The dashboard's outstanding balance is the sum of what the folios ask for,
\* write-offs deducted, up to half a cent of rounding for each stay and half
\* for the total (_outstanding_balance against folio).
DashboardAgreesWithFolios ==
  LET live   == {st \in Stay : stay[st].status \notin {"cancelled", "no_show"}}
      folios == SumFunction([st \in live |-> Clamped(Balance(st) - stay[st].waived)])
      gap    == outstanding_balance - folios
  IN  2 * gap \in -(Cardinality(live) + 1) .. (Cardinality(live) + 1)

=============================================================================
