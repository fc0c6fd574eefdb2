---------------------------- MODULE FolioProofs ----------------------------
(***************************************************************************)
(* Proofs about the payments, for any number of reservations and requests: *)
(* what one append leaves of the table, what the cash figures, the folios  *)
(* and the dashboard then say of the same rows, and what a departure may   *)
(* leave owing.                                                            *)
(***************************************************************************)
EXTENDS FolioProperties, SumFacts, TLAPS

-----------------------------------------------------------------------------
(***************************************************************************)
(* Typing.  TypeOK is not inductive by itself: the counter-entry of a      *)
(* refund takes its receipt from the payment it reverses, and only what    *)
(* staff typed has a reversal.                                             *)
(***************************************************************************)

\* A settled payment has a receipt somebody typed, or none, and money that
\* moved has the day it moved on.
RowSound(row) ==
  /\ row.status = "paid" => row.receipt \in Typed \cup {NoReceipt}
  /\ row.status = "paid" \/ (row.status = "refunded" /\ row.reverses # NoPay) => row.day \in Day

RowsSound == \A p \in Pay : payment[p] # NoPayment => RowSound(payment[p])

LedgerInv == TypeOK /\ RowsSound

\* A refund in flight is about a settled payment of its reservation.
Backed(q) ==
  q \in RefundReq => payment[q.pay].status = "paid" /\ payment[q.pay].stay = q.stay

\* The rounding of a number of cents is a number of cents, and half a cent off
\* at most.
LEMMA QuantizeNear ==
  ASSUME NEW n \in Int
  PROVE  Quantize(n, 100) \in Int /\ 100 * Quantize(n, 100) - n \in -50 .. 50
<1> DEFINE q == n \div 100  r == n % 100
<1>1. q \in Int /\ r \in 0 .. 99 /\ n = 100 * q + r
  OBVIOUS
<1>2. Quantize(n, 100) = IF 2 * r > 100 \/ (2 * r = 100 /\ q % 2 = 1) THEN q + 1 ELSE q
  BY DEF Quantize
<1> HIDE DEF q, r
<1> QED
  BY <1>1, <1>2

LEMMA DueIsInt ==
  ASSUME TypeOK, NEW st \in Stay
  PROVE  Due(st) \in Int
<1>1. stay[st].total \in Nat
  BY FolioAssumption DEF TypeOK, StayRow
<1>2. stay[st].total * TaxPercent \in Int
  BY <1>1, PricingAssumption
<1> QED
  BY <1>1, <1>2, QuantizeNear DEF Due, total_due, tax_on

\* A sum over rows is a sum of one function of the rows.
LEMMA SumFunctionIs ==
  ASSUME NEW f, IsFiniteSet(DOMAIN f), NEW F, \A x \in DOMAIN f : F[x] = f[x]
  PROVE  SumFunction(f) = SumFunctionOnSet(F, DOMAIN f)
  BY SumSame DEF SumFunction

LEMMA Bounds == MaxPayments \in Nat /\ MaxDay \in Nat /\ IsFiniteSet(Stay)
  BY FolioAssumption, Zenon

LEMMA RowsFinite == ASSUME NEW rows \in SUBSET Pay PROVE IsFiniteSet(rows)
<1>1. MaxPayments \in Int
  BY Bounds
<1>2. IsFiniteSet(1 .. MaxPayments)
  BY <1>1, FS_Interval
<1> QED
  BY <1>2, FS_Subset DEF Pay

LEMMA CashIsInt ==
  ASSUME TypeOK, NEW p \in Pay, is_cash_movement(p)
  PROVE  payment[p] \in Payment /\ signed_amount(p) \in Int
<1>1. payment[p] \in Payment
  BY DEF TypeOK, is_cash_movement, NoPayment
<1> QED
  BY <1>1 DEF signed_amount, Payment

LEMMA TotalIsInt ==
  ASSUME TypeOK, NEW rows \in SUBSET Pay, \A p \in rows : is_cash_movement(p)
  PROVE  Total(rows) \in Int
<1> DEFINE f == [p \in rows |-> signed_amount(p)]
<1>1. IsFiniteSet(rows)
  BY RowsFinite
<1>2. \A p \in rows : f[p] \in Int
  BY CashIsInt
<1>3. SumFunctionOnSet(f, rows) \in Int
  <2> HIDE DEF f
  <2> QED BY <1>1, <1>2, SumInt
<1> QED
  BY <1>3 DEF Total, SumFunction

LEMMA PaidIsInt == ASSUME TypeOK, NEW st PROVE amount_paid(st) \in Int
  BY TotalIsInt DEF amount_paid

LEMMA ContinueTypes ==
  ASSUME LedgerInv, NEW s \in Session, NEW q \in Request, Continue(s, q), Backed(q)
  PROVE  LedgerInv'
<1>1. TypeOK'
  BY DEF LedgerInv, TypeOK, Continue, Backed
<1>2. RowsSound'
  BY DEF LedgerInv, RowsSound, Continue
<1> QED
  BY <1>1, <1>2 DEF LedgerInv

LEMMA RefuseTypes ==
  ASSUME LedgerInv, NEW s \in Session, Refuse(s)
  PROVE  LedgerInv'
<1>1. Idle \in Request /\ Backed(Idle)
  BY DEF Request, Backed, RefundReq, Idle
<1> QED
  BY <1>1, ContinueTypes DEF Refuse

LEMMA AppendTypes ==
  ASSUME LedgerInv, NEW s \in Session, NEW row \in Payment, RowSound(row), Append(s, row)
  PROVE  LedgerInv'
<1>1. CASE Refuse(s)
  BY <1>1, RefuseTypes
<1>2. CASE ~Refuse(s)
  <2> PICK p \in Pay : /\ payment[p] = NoPayment
                       /\ \A r \in 1 .. (p - 1) : payment[r] # NoPayment
                       /\ payment' = [payment EXCEPT ![p] = row]
                       /\ req' = [req EXCEPT ![s] = Idle]
                       /\ UNCHANGED <<stay, today>>
    BY <1>2 DEF Append
  <2>1. /\ payment'[p] = row /\ \A r \in Pay \ {p} : payment'[r] = payment[r]
        /\ payment' \in [Pay -> Payment \cup {NoPayment}]
    BY DEF LedgerInv, TypeOK
  <2>2. Idle \in Request /\ Idle \notin RefundReq
    BY DEF Request, RefundReq, Idle
  <2>3. req' \in [Session -> Request]
    BY <2>2 DEF LedgerInv, TypeOK
  <2>4. ASSUME NEW t \in Session, req'[t] \in RefundReq
        PROVE  payment'[req'[t].pay].status = "paid" /\ payment'[req'[t].pay].stay = req'[t].stay
    <3>1. req'[t] = req[t]
      BY <2>2, <2>4 DEF LedgerInv, TypeOK
    <3>2. req[t].pay \in Pay /\ payment[req[t].pay].status = "paid"
      BY <2>4, <3>1 DEF LedgerInv, TypeOK, RefundReq
    <3>3. req[t].pay # p
      BY <3>2 DEF NoPayment
    <3> QED
      BY <2>1, <2>4, <3>1, <3>2, <3>3 DEF LedgerInv, TypeOK
  <2>5. TypeOK'
    BY <2>1, <2>3, <2>4 DEF LedgerInv, TypeOK
  <2>6. RowsSound'
    BY <2>1 DEF LedgerInv, RowsSound, RowSound
  <2> QED
    BY <2>5, <2>6 DEF LedgerInv
<1> QED
  BY <1>1, <1>2

-----------------------------------------------------------------------------
(***************************************************************************)
(* What a request does next.  Whatever the step, it goes on with another   *)
(* request, appends a row to the payments, or writes a reservation; and    *)
(* what it has been told so far, if it is still true, makes the step good. *)
(***************************************************************************)

\* What a request was told, as long as it is true: what is due, that the
\* amount is within the balance and the receipt is not on the ledger, that the
\* payment was not returned, that the debt of a leaving guest is written off, that a stay has not begun.
Rely(q) ==
  /\ q \in RecordReq =>
       /\ q.due = Due(q.stay)
       /\ q.pc = "commit" => WithinCeiling(q)
       /\ q.pc # "reference" /\ IsNumber(q.receipt) =>
            NotRecorded(q.stay, q.receipt)
  /\ q \in RefundReq => (q.pc = "commit" => NotRefunded(q.pay))
  /\ q \in LeaveReq =>
       /\ q.due = Due(q.stay)
       /\ q.pc = "commit" /\ stay[q.stay].status = "checked_in" => Outstanding(q) <= q.waived
  /\ q \in EditReq => stay[q.stay].status = "confirmed"

GoesOn(s, q) ==
  Continue(s, q) /\ Backed(q) /\ (Rely(req[s]) => Rely(q))

\* A payment within the balance whose receipt is not on the ledger, or the first
\* counter-entry of a payment.
Fits(row) ==
  \/ /\ row.reverses = NoPay /\ row.amount <= Balance(row.stay)
     /\ IsNumber(row.receipt) => NotRecorded(row.stay, row.receipt)
  \/ /\ row.reverses \in Pay /\ NotRefunded(row.reverses)
     /\ payment[row.reverses].stay = row.stay

Books(s, row) ==
  /\ Append(s, row) /\ RowSound(row)
  /\ row.stay = req[s].stay
  /\ Rely(req[s]) => Fits(row)

\* A guest who leaves has a bill that is settled or written off.
Writes(s, row) ==
  LET st == req[s].stay
  IN  /\ req' = [req EXCEPT ![s] = Idle]
      /\ stay' = [stay EXCEPT ![st] = row]
      /\ UNCHANGED <<payment, today>>
      /\ Rely(req[s]) /\ stay[st].status = "checked_in" /\ row.status # "checked_in" =>
           row.total = stay[st].total /\ Balance(st) <= row.waived

StepDone(s) ==
  \/ \E q \in Request : GoesOn(s, q)
  \/ req[s] # Idle /\ req[s].stay \in Stay /\ \E row \in Payment : Books(s, row)
  \/ req[s] # Idle /\ req[s].stay \in Stay /\ \E row \in StayRow : Writes(s, row)

LEMMA Kinds ==
  ASSUME NEW q \in Request
  PROVE  /\ q \in RecordReq <=> q # Idle /\ q.op = "record"
         /\ q \in RefundReq <=> q # Idle /\ q.op = "refund"
         /\ q \in LeaveReq <=> q # Idle /\ q.op = "leave"
         /\ q \in EditReq <=> q # Idle /\ q.op = "edit"
         /\ q # Idle => q.stay \in Stay
  BY DEF Request, RecordReq, RefundReq, LeaveReq, EditReq, Idle

LEMMA IdleGoesOn ==
  ASSUME NEW s, Refuse(s)
  PROVE  Idle \in Request /\ GoesOn(s, Idle)
  BY Kinds DEF GoesOn, Refuse, Backed, Rely, Request

LEMMA RecordStarts ==
  ASSUME LedgerInv, NEW s \in Session, Record(s)
  PROVE  StepDone(s)
<1> PICK st \in Stay, amount \in Amounts, status \in Recordable,
         receipt \in Typed \cup {NoReceipt} :
       Continue(s, [op |-> "record",
                      pc |-> IF receipt \in {NoReceipt, ""} THEN "balance"
                             ELSE "reference",
                      stay |-> st, due |-> Due(st), amount |-> amount,
                      status |-> status, receipt |-> receipt])
  BY DEF Record
<1> DEFINE q == [op |-> "record",
                 pc |-> IF receipt \in {NoReceipt, ""} THEN "balance" ELSE "reference",
                 stay |-> st, due |-> Due(st), amount |-> amount,
                 status |-> status, receipt |-> receipt]
<1>1. Due(st) \in Int
  BY DueIsInt DEF LedgerInv
<1>2. /\ q \in RecordReq /\ q.due = Due(q.stay) /\ q.pc # "commit"
      /\ q.pc # "reference" => ~IsNumber(q.receipt)
  BY <1>1 DEF RecordReq, IsNumber
<1>3. Continue(s, q)
  OBVIOUS
<1> HIDE DEF q
<1>4. q \in Request
  BY <1>2 DEF Request
<1>5. q \notin RefundReq /\ q \notin LeaveReq /\ q \notin EditReq
  BY <1>2, <1>4, Kinds
<1>6. GoesOn(s, q)
  BY <1>2, <1>3, <1>5 DEF GoesOn, Backed, Rely
<1> QED
  BY <1>4, <1>6 DEF StepDone

LEMMA RecordMoves ==
  ASSUME LedgerInv, NEW s \in Session, RecordReference(s) \/ RecordBalance(s)
  PROVE  StepDone(s)
<1> DEFINE q == req[s]  next(pc) == [q EXCEPT !.pc = pc]
<1>1. q \in Request /\ q \in RecordReq /\ q.pc \in {"reference", "balance"}
  BY Kinds DEF LedgerInv, TypeOK, RecordReference, RecordBalance, At
<1>2. ASSUME NEW pc \in {"balance", "commit"}
      PROVE  /\ next(pc) \in RecordReq /\ next(pc).pc = pc
             /\ next(pc).stay = q.stay /\ next(pc).due = q.due /\ next(pc).amount = q.amount
             /\ next(pc).receipt = q.receipt
  BY <1>1, <1>2 DEF RecordReq
<1>3. \/ Refuse(s)
      \/ Continue(s, next("balance")) /\ NotRecorded(q.stay, q.receipt)
      \/ Continue(s, next("commit")) /\ WithinCeiling(q) /\ q.pc = "balance"
  BY DEF RecordReference, RecordBalance, GoTo, At
<1> HIDE DEF next
<1>4. \A pc \in {"balance", "commit"} :
        /\ next(pc) \in Request /\ next(pc) \notin RefundReq
        /\ next(pc) \notin LeaveReq /\ next(pc) \notin EditReq
  BY <1>2, Kinds DEF Request
<1>5. Continue(s, next("balance")) /\ NotRecorded(q.stay, q.receipt)
        => GoesOn(s, next("balance"))
  BY <1>1, <1>2, <1>4 DEF GoesOn, Backed, Rely
<1>6. WithinCeiling(q) => WithinCeiling(next("commit"))
  BY <1>2 DEF WithinCeiling, Outstanding
<1>7. Continue(s, next("commit")) /\ WithinCeiling(q) /\ q.pc = "balance"
        => GoesOn(s, next("commit"))
  BY <1>1, <1>2, <1>4, <1>6 DEF GoesOn, Backed, Rely
<1> QED
  BY <1>3, <1>4, <1>5, <1>7, IdleGoesOn DEF StepDone

LEMMA RecordBooks ==
  ASSUME LedgerInv, NEW s \in Session, RecordCommit(s)
  PROVE  StepDone(s)
<1> DEFINE q == req[s]
           row == [stay |-> q.stay, amount |-> q.amount, status |-> q.status,
                   receipt |-> q.receipt,
                   day |-> IF q.status = "paid" THEN today ELSE NoDay,
                   reverses |-> NoPay]
<1>1. q # Idle /\ q \in RecordReq /\ q.pc = "commit" /\ Append(s, row)
  BY Kinds DEF LedgerInv, TypeOK, RecordCommit, At
<1>2. q.amount \in Nat \ {0} /\ q.status \in PaymentStatus /\ q.stay \in Stay
      /\ q.receipt \in Typed \cup {NoReceipt} /\ today \in Day
  BY <1>1, FolioAssumption DEF RecordReq, LedgerInv, TypeOK
<1>3. row \in Payment
  BY <1>2, FolioAssumption DEF Payment, Pay
<1>4. RowSound(row)
  BY <1>2 DEF RowSound
<1>5. /\ row.stay = q.stay /\ row.amount = q.amount /\ row.reverses = NoPay
      /\ row.receipt = q.receipt
  OBVIOUS
<1> HIDE DEF row
<1>6. Rely(q) => Fits(row)
  BY <1>1, <1>5 DEF Rely, Fits, WithinCeiling, Outstanding, Balance
<1> QED
  BY <1>1, <1>2, <1>3, <1>4, <1>5, <1>6 DEF StepDone, Books

LEMMA RefundStarts ==
  ASSUME LedgerInv, NEW s \in Session, Refund(s)
  PROVE  StepDone(s)
<1> PICK p \in Pay : /\ payment[p].status = "paid"
                     /\ Continue(s, [op |-> "refund", pc |-> "reversed", pay |-> p,
                                     stay |-> payment[p].stay])
  BY DEF Refund
<1> DEFINE q == [op |-> "refund", pc |-> "reversed", pay |-> p, stay |-> payment[p].stay]
<1>1. payment[p].stay \in Stay
  BY DEF LedgerInv, TypeOK, Payment, NoPayment
<1>2. q \in RefundReq /\ q.pc # "commit" /\ q.pay = p /\ q.stay = payment[p].stay
  BY <1>1 DEF RefundReq
<1>3. Continue(s, q)
  OBVIOUS
<1> HIDE DEF q
<1>4. q \in Request /\ q \notin RecordReq /\ q \notin LeaveReq /\ q \notin EditReq
  BY <1>2, Kinds DEF Request
<1>5. GoesOn(s, q)
  BY <1>2, <1>3, <1>4 DEF GoesOn, Backed, Rely
<1> QED
  BY <1>4, <1>5 DEF StepDone

LEMMA RefundMoves ==
  ASSUME LedgerInv, NEW s \in Session, RefundReversed(s)
  PROVE  StepDone(s)
<1> DEFINE q == req[s]  next == [q EXCEPT !.pc = "commit"]
<1>1. q \in RefundReq /\ Backed(q)
  BY Kinds DEF LedgerInv, TypeOK, RefundReversed, At, Backed
<1>2. next \in RefundReq /\ next.pay = q.pay /\ next.stay = q.stay
  BY <1>1 DEF RefundReq
<1>3. Refuse(s) \/ (Continue(s, next) /\ NotRefunded(q.pay))
  BY DEF RefundReversed, GoTo
<1> HIDE DEF next
<1>4. next \in Request /\ next \notin RecordReq /\ next \notin LeaveReq /\ next \notin EditReq
  BY <1>2, Kinds DEF Request
<1>5. Continue(s, next) /\ NotRefunded(q.pay) => GoesOn(s, next)
  <2>1. NotRefunded(q.pay) => NotRefunded(next.pay)
    BY <1>2
  <2> QED
    BY <1>1, <1>2, <1>4, <2>1 DEF GoesOn, Backed, Rely
<1> QED
  BY <1>3, <1>4, <1>5, IdleGoesOn DEF StepDone

\* The counter-entry of a settled payment.
LEMMA CounterEntryIs ==
  ASSUME LedgerInv, NEW p \in Pay, payment[p].status = "paid"
  PROVE  /\ CounterEntry(p) \in Payment /\ RowSound(CounterEntry(p))
         /\ CounterEntry(p).stay = payment[p].stay
         /\ CounterEntry(p).reverses = p
<1> DEFINE paid == payment[p]
<1>1. paid \in Payment /\ paid.receipt \in Typed \cup {NoReceipt}
  BY DEF LedgerInv, TypeOK, RowsSound, RowSound, NoPayment
<1>2. ReversalOf(paid.receipt) \in Receipt \cup {NoReceipt}
  BY <1>1, FolioAssumption DEF ReversalOf
<1>3. today \in Day
  BY DEF LedgerInv, TypeOK
<1>4. CounterEntry(p)
        \in [stay : {paid.stay}, amount : {paid.amount}, status : {"refunded"},
             receipt : {ReversalOf(paid.receipt)}, day : {today}, reverses : {p}]
  BY <1>1 DEF CounterEntry, Payment
<1>5. CounterEntry(p) \in Payment
  BY <1>1, <1>2, <1>3, <1>4 DEF Payment, PaymentStatus
<1> QED
  BY <1>3, <1>4, <1>5 DEF RowSound

LEMMA RefundBooks ==
  ASSUME LedgerInv, NEW s \in Session, RefundCommit(s)
  PROVE  StepDone(s)
<1> DEFINE q == req[s]  row == CounterEntry(q.pay)
<1>1. q # Idle /\ q \in RefundReq /\ q.pc = "commit" /\ Backed(q) /\ Append(s, row)
  BY Kinds DEF LedgerInv, TypeOK, RefundCommit, At, Backed
<1>2. q.pay \in Pay /\ q.stay \in Stay
  BY <1>1 DEF RefundReq
<1>3. row \in Payment /\ RowSound(row) /\ row.stay = q.stay /\ row.reverses = q.pay
  BY <1>1, <1>2, CounterEntryIs DEF Backed
<1> HIDE DEF row
<1>4. Rely(q) => Fits(row)
  BY <1>1, <1>2, <1>3 DEF Rely, Fits, Backed
<1> QED
  BY <1>1, <1>2, <1>3, <1>4 DEF StepDone, Books

LEMMA LeaveStarts ==
  ASSUME LedgerInv, NEW s \in Session, CheckOut(s) \/ Cancel(s)
  PROVE  StepDone(s)
<1> PICK st \in Stay, status \in {"checked_out", "cancelled"}, pc \in {"balance", "commit"} :
       /\ Continue(s, [op |-> "leave", pc |-> pc, stay |-> st, due |-> Due(st),
                       status |-> status, waived |-> 0])
       /\ stay[st].status = "checked_in" => pc = "balance"
  BY DEF CheckOut, Cancel
<1> DEFINE q == [op |-> "leave", pc |-> pc, stay |-> st, due |-> Due(st),
                 status |-> status, waived |-> 0]
<1>1. Due(st) \in Int
  BY DueIsInt DEF LedgerInv
<1>2. q \in LeaveReq /\ q.due = Due(q.stay) /\ q.stay = st /\ q.pc = pc
  BY <1>1 DEF LeaveReq
<1>3. Continue(s, q)
  OBVIOUS
<1> HIDE DEF q
<1>4. q \in Request /\ q \notin RecordReq /\ q \notin RefundReq /\ q \notin EditReq
  BY <1>2, Kinds DEF Request
<1>5. GoesOn(s, q)
  BY <1>2, <1>3, <1>4 DEF GoesOn, Backed, Rely
<1> QED
  BY <1>4, <1>5 DEF StepDone

LEMMA LeaveMoves ==
  ASSUME LedgerInv, NEW s \in Session, LeaveBalance(s)
  PROVE  StepDone(s)
<1> DEFINE q == req[s]  owed == Outstanding(q)
           settled == [q EXCEPT !.pc = "commit"]
           waived == [q EXCEPT !.pc = "commit", !.waived = owed]
<1>1. q \in LeaveReq
  BY Kinds DEF LedgerInv, TypeOK, LeaveBalance, At
<1>2. owed \in Int
  BY <1>1, PaidIsInt DEF LedgerInv, Outstanding, LeaveReq
<1>3. /\ settled \in LeaveReq /\ settled.stay = q.stay /\ settled.due = q.due
      /\ settled.waived \in Nat
  BY <1>1 DEF LeaveReq
<1>4. owed > 0 =>
        waived \in LeaveReq /\ waived.stay = q.stay /\ waived.due = q.due /\ waived.waived = owed
  <2> HIDE DEF owed
  <2>1. owed > 0 => owed \in Nat
    BY <1>2
  <2> QED
    BY <1>1, <2>1 DEF LeaveReq
<1>5. \/ Refuse(s)
      \/ owed <= 0 /\ Continue(s, settled)
      \/ owed > 0 /\ Continue(s, waived)
  BY DEF LeaveBalance, GoTo
<1> HIDE DEF settled, waived
<1>6. CASE owed <= 0 /\ Continue(s, settled)
  <2>1. settled \in Request /\ settled \notin RecordReq /\ settled \notin RefundReq
        /\ settled \notin EditReq
    BY <1>3, Kinds DEF Request
  <2>2. Outstanding(settled) = owed
    BY <1>3 DEF Outstanding
  <2>3. Outstanding(settled) <= settled.waived
    <3> HIDE DEF owed
    <3> QED BY <1>2, <1>3, <1>6, <2>2
  <2>4. GoesOn(s, settled)
    BY <1>1, <1>3, <1>6, <2>1, <2>3 DEF GoesOn, Backed, Rely
  <2> QED
    BY <2>1, <2>4 DEF StepDone
<1>7. CASE owed > 0 /\ Continue(s, waived)
  <2>1. waived \in Request /\ waived \notin RecordReq /\ waived \notin RefundReq
        /\ waived \notin EditReq
    BY <1>4, <1>7, Kinds DEF Request
  <2>2. Outstanding(waived) = owed
    BY <1>4, <1>7 DEF Outstanding
  <2>3. Outstanding(waived) <= waived.waived
    <3> HIDE DEF owed
    <3> QED BY <1>2, <1>4, <1>7, <2>2
  <2>4. GoesOn(s, waived)
    BY <1>1, <1>4, <1>7, <2>1, <2>3 DEF GoesOn, Backed, Rely
  <2> QED
    BY <2>1, <2>4 DEF StepDone
<1> QED
  BY <1>5, <1>6, <1>7, IdleGoesOn DEF StepDone

LEMMA LeaveWrites ==
  ASSUME LedgerInv, NEW s \in Session, LeaveCommit(s)
  PROVE  StepDone(s)
<1> DEFINE q == req[s]  before == stay[q.stay]
           row == [before EXCEPT !.status = q.status, !.waived = Waived(q, @)]
<1>1. q # Idle /\ q \in LeaveReq /\ q.pc = "commit"
  BY Kinds DEF LedgerInv, TypeOK, LeaveCommit, At
<1>2. q.stay \in Stay /\ q.waived \in Nat /\ q.status \in {"checked_out", "cancelled"}
      /\ before \in StayRow
  BY <1>1 DEF LeaveReq, LedgerInv, TypeOK
<1>3. /\ row \in StayRow /\ row.total = before.total
      /\ row.waived = Waived(q, before.waived)
  BY <1>2 DEF StayRow, Waived
<1>4. stay' = [stay EXCEPT ![q.stay] = row]
  BY <1>1, <1>2 DEF LeaveCommit, LedgerInv, TypeOK, StayRow
<1>5. /\ req' = [req EXCEPT ![s] = Idle]
      /\ UNCHANGED <<payment, today>>
  BY DEF LeaveCommit
<1>6. Rely(q) /\ before.status = "checked_in" => Balance(q.stay) <= row.waived
  <2> SUFFICES ASSUME Rely(q), before.status = "checked_in"
               PROVE  Balance(q.stay) <= row.waived
    OBVIOUS
  <2>1. Outstanding(q) <= q.waived /\ q.due = Due(q.stay)
    BY <1>1 DEF Rely
  <2>2. Balance(q.stay) <= q.waived /\ Balance(q.stay) \in Int
    BY <1>2, <2>1, PaidIsInt, DueIsInt DEF Outstanding, Balance, LedgerInv
  <2>3. q.waived > 0 => row.waived = q.waived
    BY <1>3 DEF Waived
  <2>4. row.waived \in Nat
    BY <1>3 DEF StayRow
  <2> HIDE DEF row
  <2> QED
    BY <1>2, <2>2, <2>3, <2>4
<1> HIDE DEF row
<1> QED
  BY <1>1, <1>2, <1>3, <1>4, <1>5, <1>6 DEF StepDone, Writes

LEMMA EditStarts ==
  ASSUME LedgerInv, NEW s \in Session, Edit(s)
  PROVE  StepDone(s)
<1> PICK st \in Stay, total \in Totals, status \in {"confirmed", "checked_in", "no_show"} :
       /\ stay[st].status = "confirmed"
       /\ Continue(s, [op |-> "edit", pc |-> "commit", stay |-> st,
                       status |-> status, total |-> total])
  BY DEF Edit
<1> DEFINE q == [op |-> "edit", pc |-> "commit", stay |-> st, status |-> status, total |-> total]
<1>1. q \in EditReq /\ q.stay = st /\ Continue(s, q)
  BY DEF EditReq
<1> HIDE DEF q
<1>2. q \in Request /\ q \notin RecordReq /\ q \notin RefundReq /\ q \notin LeaveReq
  BY <1>1, Kinds DEF Request
<1>3. GoesOn(s, q)
  BY <1>1, <1>2 DEF GoesOn, Backed, Rely
<1> QED
  BY <1>2, <1>3 DEF StepDone

LEMMA EditWrites ==
  ASSUME LedgerInv, NEW s \in Session, EditCommit(s)
  PROVE  StepDone(s)
<1> DEFINE q == req[s]  before == stay[q.stay]
           row == IF q.status = "confirmed" THEN [before EXCEPT !.total = q.total]
                  ELSE [before EXCEPT !.status = q.status]
<1>1. q # Idle /\ q \in EditReq
  BY Kinds DEF LedgerInv, TypeOK, EditCommit, At
<1>2. q.stay \in Stay /\ before \in StayRow /\ q.total \in Totals
      /\ q.status \in {"confirmed", "checked_in", "no_show"}
  BY <1>1 DEF EditReq, LedgerInv, TypeOK
<1>3. row \in StayRow
  BY <1>2 DEF StayRow
<1>4. /\ stay' = [stay EXCEPT ![q.stay] = row]
      /\ req' = [req EXCEPT ![s] = Idle]
      /\ UNCHANGED <<payment, today>>
  BY DEF EditCommit
<1>5. Rely(q) => before.status = "confirmed"
  BY <1>1 DEF Rely
<1> HIDE DEF row
<1> QED
  BY <1>1, <1>2, <1>3, <1>4, <1>5 DEF StepDone, Writes

LEMMA StepIsDone ==
  ASSUME LedgerInv, NEW s \in Session, Step(s)
  PROVE  StepDone(s)
<1>1. Rollback(s) => StepDone(s)
  BY IdleGoesOn DEF Rollback, StepDone
<1> QED
  BY <1>1, RecordStarts, RecordMoves, RecordBooks, RefundStarts, RefundMoves, RefundBooks,
     LeaveStarts, LeaveMoves, LeaveWrites, EditStarts, EditWrites DEF Step

-----------------------------------------------------------------------------
(***************************************************************************)
(* Types, for any interleaving.                                            *)
(***************************************************************************)

LEMMA StepKeepsTypes ==
  ASSUME LedgerInv, NEW s \in Session, Step(s)
  PROVE  LedgerInv'
<1>1. ASSUME NEW row \in StayRow, Writes(s, row), req[s].stay \in Stay
      PROVE  LedgerInv'
  <2>1. Idle \in Request /\ Idle \notin RefundReq
    BY DEF Request, RefundReq, Idle
  <2>2. TypeOK'
    BY <1>1, <2>1 DEF Writes, LedgerInv, TypeOK
  <2>3. RowsSound'
    BY <1>1 DEF Writes, LedgerInv, RowsSound
  <2> QED
    BY <2>2, <2>3 DEF LedgerInv
<1> QED
  BY <1>1, StepIsDone, ContinueTypes, AppendTypes DEF StepDone, GoesOn, Books

LEMMA NextKeepsTypes == LedgerInv /\ [Next]_vars => LedgerInv'
<1> SUFFICES ASSUME LedgerInv, [Next]_vars PROVE LedgerInv'
  OBVIOUS
<1>1. CASE UNCHANGED vars
  BY <1>1 DEF vars, LedgerInv, TypeOK, RowsSound
<1>2. CASE Tick
  BY <1>2, Bounds DEF Tick, LedgerInv, TypeOK, RowsSound, Day
<1> QED
  BY <1>1, <1>2, StepKeepsTypes DEF Next

LEMMA InitTypes == Init => LedgerInv
<1> SUFFICES ASSUME Init PROVE LedgerInv
  OBVIOUS
<1>1. stay \in [Stay -> StayRow]
  BY DEF Init, StayRow
<1>2. Idle \in Request /\ Idle \notin RefundReq
  BY DEF Request, RefundReq, Idle
<1> QED
  BY <1>1, <1>2, Bounds DEF Init, LedgerInv, TypeOK, RowsSound, Day

\* The ledger keeps its types, and a refund in flight is about a settled payment
\* of its reservation, however requests interleave.
THEOREM LedgerTyped == Spec => []TypeOK
<1>1. LedgerInv => TypeOK
  BY DEF LedgerInv
<1> QED
  BY <1>1, InitTypes, NextKeepsTypes, PTL DEF Spec

-----------------------------------------------------------------------------
(***************************************************************************)
(* The figures.  Each is a sum over the same rows, grouped in its own way. *)
(***************************************************************************)

\* Rows counted once for each value of a key add up to the rows that have one
\* of the values.
LEMMA GroupedTotal ==
  ASSUME TypeOK, NEW rows \in SUBSET Pay, \A p \in rows : is_cash_movement(p),
         NEW D, IsFiniteSet(D), NEW key
  PROVE  SumFunction([d \in D |-> Total(KeyedAs(rows, key, d))]) = Total(Keyed(rows, key, D))
<1> DEFINE F == [p \in rows |-> signed_amount(p)]
           group == [d \in D |-> Total(KeyedAs(rows, key, d))]
<1>1. IsFiniteSet(rows)
  BY RowsFinite
<1>2. \A p \in rows : F[p] \in Int
  BY CashIsInt
<1>3. ASSUME NEW part \in SUBSET rows
      PROVE  Total(part) = SumFunctionOnSet(F, part)
  <2> DEFINE f == [p \in part |-> signed_amount(p)]
  <2>1. DOMAIN f = part /\ \A p \in DOMAIN f : F[p] = f[p]
    OBVIOUS
  <2>2. IsFiniteSet(part)
    BY <1>1, FS_Subset
  <2>3. Total(part) = SumFunction(f)
    BY DEF Total
  <2> HIDE DEF f, F
  <2> QED
    BY <2>1, <2>2, <2>3, SumFunctionIs
<1>4. /\ Keyed(rows, key, D) \in SUBSET rows
      /\ \A d : KeyedAs(rows, key, d) \in SUBSET rows
  BY DEF Keyed, KeyedAs
<1>5. /\ Total(Keyed(rows, key, D)) = SumFunctionOnSet(F, Keyed(rows, key, D))
      /\ \A d : Total(KeyedAs(rows, key, d)) = SumFunctionOnSet(F, KeyedAs(rows, key, d))
  BY <1>3, <1>4
<1>6. SumFunction(group) = SumFunctionOnSet(group, D)
  BY DEF SumFunction
<1>7. SumFunctionOnSet(group, D) = SumFunctionOnSet(F, Keyed(rows, key, D))
  <2>1. \A d \in D : group[d] = SumFunctionOnSet(F, KeyedAs(rows, key, d))
    BY <1>5
  <2> HIDE DEF F, group
  <2> QED
    BY <1>1, <1>2, <2>1, SumByKey
<1> QED
  BY <1>5, <1>6, <1>7

LEMMA DailySeriesAddsUp ==
  ASSUME TypeOK, NEW start \in Int, NEW end \in Int
  PROVE  SumFunction(revenue_by_day(start, end)) = revenue_between(start, end)
<1> DEFINE rows == CashWithin(start, end)  D == start .. end
           key == [p \in Pay |-> payment[p].day]
<1>1. rows \in SUBSET Pay /\ \A p \in rows : is_cash_movement(p)
  BY DEF CashWithin
<1>2. IsFiniteSet(D)
  BY FS_Interval
<1>3. \A d \in D : {p \in rows : payment[p].day = d} = KeyedAs(rows, key, d)
  BY <1>1 DEF KeyedAs
<1>4. Keyed(rows, key, D) = rows
  BY DEF CashWithin, Keyed
<1>5. revenue_by_day(start, end) = [d \in D |-> Total(KeyedAs(rows, key, d))]
  <2>1. revenue_by_day(start, end) = [d \in D |-> Total({p \in rows : payment[p].day = d})]
    BY DEF revenue_by_day
  <2>2. \A d \in D : Total({p \in rows : payment[p].day = d}) = Total(KeyedAs(rows, key, d))
    <3> HIDE DEF rows, D, key
    <3> QED BY <1>3, Zenon
  <2> HIDE DEF rows, D, key
  <2> QED
    BY <2>1, <2>2
<1> HIDE DEF rows, D, key
<1> QED
  BY <1>1, <1>2, <1>4, <1>5, GroupedTotal DEF revenue_between, rows

LEMMA FoliosAddUp ==
  ASSUME LedgerInv
  PROVE  revenue_between(0, MaxDay) = SumFunction([st \in Stay |-> amount_paid(st)])
<1> DEFINE rows == {p \in Pay : is_cash_movement(p)}
           key == [p \in Pay |-> payment[p].stay]
<1>1. rows \in SUBSET Pay /\ \A p \in rows : is_cash_movement(p)
  OBVIOUS
<1>2. \A p \in rows : payment[p].day \in 0 .. MaxDay /\ payment[p].stay \in Stay
  <2> TAKE p \in rows
  <2>1. payment[p] \in Payment /\ payment[p] # NoPayment
    BY CashIsInt DEF LedgerInv, is_cash_movement, NoPayment
  <2> QED
    BY <2>1 DEF LedgerInv, RowsSound, RowSound, is_cash_movement, Payment, Day
<1>3. CashWithin(0, MaxDay) = rows
  BY <1>2 DEF CashWithin
<1>4. Keyed(rows, key, Stay) = rows
  BY <1>2 DEF Keyed
<1>5. \A st \in Stay : {p \in Pay : is_cash_movement(p) /\ payment[p].stay = st}
                         = KeyedAs(rows, key, st)
  BY DEF KeyedAs
<1>6. \A st \in Stay : amount_paid(st) = Total(KeyedAs(rows, key, st))
  <2> TAKE st \in Stay
  <2>1. amount_paid(st) = Total({p \in Pay : is_cash_movement(p) /\ payment[p].stay = st})
    BY DEF amount_paid
  <2> HIDE DEF rows, key
  <2> QED
    BY <1>5, <2>1, Zenon
<1>7. SumFunction([st \in Stay |-> Total(KeyedAs(rows, key, st))])
        = Total(Keyed(rows, key, Stay))
  <2> HIDE DEF rows, key
  <2> QED
    BY <1>1, Bounds, GroupedTotal DEF LedgerInv
<1>8. [st \in Stay |-> amount_paid(st)] = [st \in Stay |-> Total(KeyedAs(rows, key, st))]
  <2> HIDE DEF rows, key
  <2> QED
    BY <1>6
<1>9. Total(Keyed(rows, key, Stay)) = Total(rows)
  BY <1>4, Zenon
<1>10. revenue_between(0, MaxDay) = Total(rows)
  BY <1>3, Zenon DEF revenue_between
<1> HIDE DEF rows, key
<1> QED
  BY <1>7, <1>8, <1>9, <1>10

\* The cash figures of report and dashboard are one account, in every state any
\* requests can lead to (revenue_between).
THEOREM BooksAgree == Spec => []CashBooksAgree
<1>1. LedgerInv => CashBooksAgree
  <2> SUFFICES ASSUME LedgerInv PROVE CashBooksAgree
    OBVIOUS
  <2>1. \A start, end \in Day :
          SumFunction(revenue_by_day(start, end)) = revenue_between(start, end)
    BY DailySeriesAddsUp DEF LedgerInv, Day
  <2>2. \A days \in 1 .. (MaxDay + 1) :
          SumFunction(revenue_trend(days)) = revenue_between(today - days + 1, today)
    <3> TAKE days \in 1 .. (MaxDay + 1)
    <3>1. today \in Int /\ today - days + 1 \in Int
      BY DEF LedgerInv, TypeOK, Day
    <3> QED
      BY <3>1, DailySeriesAddsUp DEF revenue_trend, LedgerInv
  <2> QED
    BY <2>1, <2>2, FoliosAddUp DEF CashBooksAgree
<1> QED
  BY <1>1, InitTypes, NextKeepsTypes, PTL DEF Spec

\* A reservation's share of the dashboard, in hundredths of a cent, is within
\* half a cent of what its folio asks for.
LEMMA OwedNear ==
  ASSUME LedgerInv, NEW st \in Stay
  PROVE  /\ Clamped(Balance(st) - stay[st].waived) \in Int /\ Clamped(Owed(st)) \in Int
         /\ 100 * Clamped(Balance(st) - stay[st].waived) - Clamped(Owed(st)) \in (-50) .. 50
<1> DEFINE net == stay[st].total  waived == stay[st].waived  paid == amount_paid(st)
           tax == net * TaxPercent  rounded == Quantize(tax, 100)
<1>1. net \in Nat /\ waived \in Nat /\ paid \in Int /\ TaxPercent \in Int
  <2>1. Totals \subseteq Nat
    BY FolioAssumption, Zenon
  <2>2. stay[st] \in StayRow
    BY DEF LedgerInv, TypeOK
  <2>3. net \in Nat /\ waived \in Nat
    BY <2>1, <2>2 DEF StayRow
  <2> QED
    BY <2>3, PaidIsInt, PricingAssumption DEF LedgerInv
<1>2. tax \in Int
  BY <1>1
<1>3. rounded \in Int /\ 100 * rounded - tax \in -50 .. 50
  BY <1>2, QuantizeNear
<1>4. Balance(st) - waived = net + rounded - paid - waived
  <2>1. Due(st) = net + rounded
    BY DEF Due, total_due, tax_on
  <2> HIDE DEF net, waived, paid, rounded
  <2>2. Balance(st) = Due(st) - paid
    BY DEF Balance, paid
  <2> QED
    BY <1>1, <1>3, <2>1, <2>2
<1>5. Owed(st) = 100 * net + tax - 100 * (paid + waived)
  <2>1. net * (100 + TaxPercent) = 100 * net + tax
    <3> HIDE DEF net
    <3> QED BY <1>1
  <2> QED
    BY <1>1, <1>2, <2>1 DEF Owed
<1> HIDE DEF net, waived, paid, tax, rounded
<1> DEFINE B == Balance(st) - waived  W == Owed(st)
<1>6. B \in Int /\ W \in Int /\ 100 * B - W \in -50 .. 50
  BY <1>1, <1>2, <1>3, <1>4, <1>5
<1> HIDE DEF B, W
<1>7. /\ Clamped(B) \in Int /\ Clamped(W) \in Int
      /\ 100 * Clamped(B) - Clamped(W) \in (-50) .. 50
  BY <1>6 DEF Clamped
<1> QED
  BY <1>7 DEF B, W, waived

LEMMA DashboardIsNear == LedgerInv => DashboardAgreesWithFolios
<1> SUFFICES ASSUME LedgerInv PROVE DashboardAgreesWithFolios
  OBVIOUS
<1> DEFINE live == {st \in Stay : stay[st].status \notin {"cancelled", "no_show"}}
           f == [st \in live |-> Clamped(Balance(st) - stay[st].waived)]
           g == [st \in live |-> Clamped(Owed(st))]
           folios == SumFunction(f)  owed == SumFunction(g)  n == Cardinality(live)
<1>1. IsFiniteSet(live) /\ n \in Nat
  BY Bounds, FS_Subset, FS_CardinalityType
<1>2. \A st \in live : f[st] \in Int /\ g[st] \in Int /\ 100 * f[st] - g[st] \in (-50) .. 50
  BY OwedNear
<1>3. folios = SumFunctionOnSet(f, live) /\ owed = SumFunctionOnSet(g, live)
  BY DEF SumFunction
<1>4. /\ folios \in Int /\ owed \in Int
      /\ 100 * folios - owed \in (-(50 * n)) .. (50 * n)
  <2> HIDE DEF live, f, g, folios, owed
  <2>1. folios \in Int /\ owed \in Int
    BY <1>1, <1>2, <1>3, SumInt
  <2>2. 100 \in Int /\ 50 \in Nat
    OBVIOUS
  <2>3. 100 * SumFunctionOnSet(f, live) - SumFunctionOnSet(g, live)
          \in (-(50 * Cardinality(live))) .. (50 * Cardinality(live))
    BY <1>1, <1>2, <2>2, SumNear
  <2> QED
    BY <1>3, <2>1, <2>3
<1>5. outstanding_balance = Quantize(owed, 100)
  BY DEF outstanding_balance
<1> HIDE DEF live, f, g, folios, owed, n
<1>6. /\ outstanding_balance \in Int
      /\ 100 * outstanding_balance - owed \in -50 .. 50
  BY <1>4, <1>5, QuantizeNear
<1>7. 2 * (outstanding_balance - folios) \in -(n + 1) .. (n + 1)
  BY <1>1, <1>4, <1>6
<1> QED
  BY <1>7 DEF DashboardAgreesWithFolios, live, f, folios, n

\* The dashboard never drifts from the folios by more than the rounding of
\* each, however many reservations there are (outstanding_balance, folio).
THEOREM DashboardNear == Spec => []DashboardAgreesWithFolios
  BY DashboardIsNear, InitTypes, NextKeepsTypes, PTL DEF Spec

-----------------------------------------------------------------------------
(***************************************************************************)
(* Requests about one reservation that follow each other.  What a request  *)
(* was told then stays true until it commits: nobody else pays, refunds,   *)
(* re-prices or ends its stay.  ApartInv says so, and is inductive; none   *)
(* of the four results below it is so alone.                               *)
(***************************************************************************)

\* Rows are entered one after the other.
InOrder ==
  \A p, r \in Pay : p < r /\ payment[p] = NoPayment => payment[r] = NoPayment

ApartInv ==
  /\ LedgerInv /\ StaysApart /\ InOrder
  /\ RefundedAtMostOnce /\ KnownReceiptRefused
  /\ \A s \in Session : Rely(req[s])

\* Appending a row adds it to what its reservation has paid, if it is money.
LEMMA PaidAfterAppend ==
  ASSUME LedgerInv, NEW p \in Pay, NEW row \in Payment, payment[p] = NoPayment,
         payment' = [payment EXCEPT ![p] = row], NEW st
  PROVE  amount_paid(st)' = amount_paid(st) +
           (IF is_cash_movement(p)' /\ row.stay = st THEN signed_amount(p)' ELSE 0)
<1> DEFINE T == {r \in Pay : is_cash_movement(r) /\ payment[r].stay = st}
           U == {r \in Pay : is_cash_movement(r)' /\ payment'[r].stay = st}
           F == [r \in Pay |-> signed_amount(r)']
           f == [r \in T |-> signed_amount(r)]
           g == [r \in U |-> signed_amount(r)']
<1>1. payment'[p] = row /\ \A r \in Pay \ {p} : payment'[r] = payment[r]
  BY DEF LedgerInv, TypeOK
<1>2. \A r \in Pay \ {p} :
        /\ is_cash_movement(r)' = is_cash_movement(r)
        /\ signed_amount(r)' = signed_amount(r)
  BY <1>1 DEF is_cash_movement, signed_amount
<1>3. p \notin T
  BY DEF is_cash_movement, NoPayment
<1>4. U = IF is_cash_movement(p)' /\ row.stay = st THEN T \cup {p} ELSE T
  BY <1>1, <1>2, <1>3
<1>5. IsFiniteSet(T) /\ IsFiniteSet(U)
  BY RowsFinite
<1>6. \A r \in T : F[r] = f[r] /\ F[r] \in Int
  BY <1>2, <1>3, CashIsInt DEF LedgerInv
<1>7. F[p] = signed_amount(p)' /\ F[p] \in Int
  BY <1>1 DEF signed_amount, Payment
<1>8. amount_paid(st) = SumFunctionOnSet(F, T)
  <2>1. amount_paid(st) = SumFunctionOnSet(f, T)
    BY DEF amount_paid, Total, SumFunction
  <2> HIDE DEF f, F, T
  <2> QED
    BY <1>5, <1>6, <2>1, SumSame
<1>9. amount_paid(st)' = SumFunctionOnSet(F, U)
  <2>1. amount_paid(st)' = SumFunctionOnSet(g, U)
    BY DEF amount_paid, Total, SumFunction
  <2>2. \A r \in U : F[r] = g[r]
    OBVIOUS
  <2> HIDE DEF g, F, U
  <2> QED
    BY <1>5, <2>1, <2>2, SumSame
<1> HIDE DEF T, U, F
<1>10. CASE is_cash_movement(p)' /\ row.stay = st
  <2>1. SumFunctionOnSet(F, T \cup {p}) = F[p] + SumFunctionOnSet(F, T)
    BY <1>3, <1>5, <1>6, <1>7, SumAdd
  <2>2. U = T \cup {p}
    BY <1>4, <1>10
  <2>3. SumFunctionOnSet(F, U) = F[p] + SumFunctionOnSet(F, T)
    BY <2>1, <2>2, Zenon
  <2>4. SumFunctionOnSet(F, T) \in Int
    BY <1>5, <1>6, SumInt
  <2> QED
    BY <1>7, <1>8, <1>9, <1>10, <2>3, <2>4
<1>11. CASE ~ (is_cash_movement(p)' /\ row.stay = st)
  <2>1. U = T
    BY <1>4, <1>11
  <2>2. SumFunctionOnSet(F, U) = SumFunctionOnSet(F, T)
    BY <2>1, Zenon
  <2>3. SumFunctionOnSet(F, T) \in Int
    BY <1>5, <1>6, SumInt
  <2> QED
    BY <1>8, <1>9, <1>11, <2>2, <2>3
<1> QED
  BY <1>10, <1>11

\* Without a new row nothing is paid.
LEMMA PaidSame ==
  ASSUME UNCHANGED payment, NEW st
  PROVE  amount_paid(st)' = amount_paid(st)
<1> DEFINE T == {r \in Pay : is_cash_movement(r) /\ payment[r].stay = st}
           f == [r \in T |-> signed_amount(r)]
           U == {r \in Pay : is_cash_movement(r)' /\ payment'[r].stay = st}
           g == [r \in U |-> signed_amount(r)']
<1>1. U = T
  BY DEF is_cash_movement
<1>2. \A r \in T : signed_amount(r)' = signed_amount(r)
  BY DEF signed_amount
<1>3. g = f
  BY <1>1, <1>2
<1>4. amount_paid(st) = SumFunction(f) /\ amount_paid(st)' = SumFunction(g)
  BY DEF amount_paid, Total
<1> QED
  BY <1>3, <1>4, Zenon

\* What a request was told stays true as long as its reservation, what was
\* paid on it and its payment's reversal do.
LEMMA RelyLasts ==
  ASSUME NEW q \in Request, Rely(q),
         q # Idle => /\ stay'[q.stay] = stay[q.stay]
                     /\ amount_paid(q.stay)' = amount_paid(q.stay),
         q \in RefundReq /\ NotRefunded(q.pay) => NotRefunded(q.pay)',
         q \in RecordReq /\ NotRecorded(q.stay, q.receipt) => NotRecorded(q.stay, q.receipt)'
  PROVE  Rely(q)'
<1>1. CASE q = Idle
  BY <1>1, Kinds DEF Rely
<1>2. CASE q # Idle
  <2>1. Due(q.stay)' = Due(q.stay)
    BY <1>2 DEF Due
  <2>2. Outstanding(q)' = Outstanding(q) /\ WithinCeiling(q)' = WithinCeiling(q)
    BY <1>2 DEF Outstanding, WithinCeiling
  <2> QED
    BY <1>2, <2>1, <2>2 DEF Rely
<1> QED
  BY <1>1, <1>2

\* A request that goes on disturbs nobody.
LEMMA GoingOnKeepsApart ==
  ASSUME ApartInv, StaysApart', NEW s \in Session, NEW q \in Request, GoesOn(s, q)
  PROVE  ApartInv'
<1>1. LedgerInv'
  BY ContinueTypes DEF ApartInv, GoesOn
<1>2. UNCHANGED <<stay, payment>> /\ req' = [req EXCEPT ![s] = q]
  BY DEF GoesOn, Continue
<1>3. RefundedAtMostOnce' /\ KnownReceiptRefused' /\ InOrder'
  BY <1>2 DEF ApartInv, RefundedAtMostOnce, KnownReceiptRefused, Recorded, InOrder
<1>4. ASSUME NEW t \in Session PROVE Rely(req[t])'
  <2>1. req'[t] \in Request /\ Rely(req'[t])
    BY <1>2 DEF ApartInv, GoesOn, LedgerInv, TypeOK
  <2>2. \A r \in Request : Rely(r) => Rely(r)'
    <3> TAKE r \in Request
    <3>1. /\ NotRefunded(r.pay) => NotRefunded(r.pay)'
          /\ NotRecorded(r.stay, r.receipt) => NotRecorded(r.stay, r.receipt)'
      BY <1>2 DEF NotRefunded, NotRecorded
    <3> QED
      BY <1>2, <3>1, PaidSame, RelyLasts
  <2> QED
    BY <2>1, <2>2 DEF Rely
<1> QED
  BY <1>1, <1>3, <1>4 DEF ApartInv

\* A new row belongs to the reservation of the request that commits it, so the
\* requests about others find theirs as they left it.
LEMMA BooksKeepsApart ==
  ASSUME ApartInv, StaysApart', NEW s \in Session, NEW row \in Payment, Books(s, row),
         req[s] # Idle
  PROVE  ApartInv'
<1> USE DEF ApartInv
<1>1. LedgerInv'
  BY AppendTypes DEF Books
<1>2. CASE Refuse(s)
  BY <1>2, IdleGoesOn, GoingOnKeepsApart
<1>3. CASE ~Refuse(s)
  <2> PICK p \in Pay : /\ payment[p] = NoPayment
                       /\ \A r \in 1 .. (p - 1) : payment[r] # NoPayment
                       /\ payment' = [payment EXCEPT ![p] = row]
                       /\ req' = [req EXCEPT ![s] = Idle]
                       /\ UNCHANGED <<stay, today>>
    BY <1>3 DEF Books, Append
  <2>1. /\ payment'[p] = row /\ \A r \in Pay \ {p} : payment'[r] = payment[r]
        /\ req'[s] = Idle /\ \A t \in Session \ {s} : req'[t] = req[t]
    BY DEF LedgerInv, TypeOK
  <2>2. Fits(row) /\ row.stay = req[s].stay
    BY DEF Books
  <2>3. RefundedAtMostOnce'
    <3> SUFFICES ASSUME NEW a \in Pay, NEW b \in Pay, a # b,
                        payment'[a] # NoPayment, payment'[b] # NoPayment,
                        payment'[a].reverses = payment'[b].reverses,
                        payment'[a].reverses # NoPay
                 PROVE  FALSE
      BY DEF RefundedAtMostOnce
    <3>1. CASE a # p /\ b # p
      BY <2>1, <3>1 DEF RefundedAtMostOnce
    <3>2. CASE a = p \/ b = p
      BY <2>1, <2>2, <3>2 DEF Fits, NotRefunded
    <3> QED
      BY <3>1, <3>2
  <2>4. ASSUME NEW st \in Stay, st # row.stay PROVE amount_paid(st)' = amount_paid(st)
    <3>1. amount_paid(st) \in Int
      BY PaidIsInt DEF LedgerInv
    <3>2. amount_paid(st)' = amount_paid(st) +
            (IF is_cash_movement(p)' /\ row.stay = st THEN signed_amount(p)' ELSE 0)
      BY PaidAfterAppend
    <3> QED
      BY <2>4, <3>1, <3>2
  <2>5. ASSUME NEW t \in Session, t # s
        PROVE  Rely(req[t])'
    <3> PICK q \in Request : q = req[t]
      BY DEF LedgerInv, TypeOK
    <3>1. Rely(q) /\ Backed(q) /\ req'[t] = q
      BY <2>1, <2>5 DEF LedgerInv, TypeOK, Backed
    <3>2. q # Idle => q.stay \in Stay /\ q.stay # row.stay
      BY <2>2, <2>5, Kinds DEF StaysApart
    <3>3. q \in RefundReq /\ NotRefunded(q.pay) => NotRefunded(q.pay)'
      <4> SUFFICES ASSUME q \in RefundReq, NotRefunded(q.pay) PROVE NotRefunded(q.pay)'
        OBVIOUS
      <4>1. q # Idle /\ q.pay \in Pay /\ payment[q.pay].stay = q.stay
        BY <3>1, Kinds DEF RefundReq, Backed
      <4>2. row.reverses # q.pay
        BY <2>2, <3>2, <4>1 DEF Fits, Pay, NoPay
      <4>3. \A r \in Pay : payment'[r] # NoPayment /\ payment'[r].reverses = q.pay => FALSE
        BY <2>1, <4>2 DEF NotRefunded
      <4> QED
        BY <2>1, <2>5, <4>3 DEF NotRefunded
    <3>4. ASSUME q \in RecordReq, NotRecorded(q.stay, q.receipt)
          PROVE  NotRecorded(q.stay, q.receipt)'
      BY <2>1, <3>2, <3>4, Kinds DEF NotRecorded
    <3>5. Rely(q)'
      BY <2>4, <3>1, <3>2, <3>3, <3>4, RelyLasts
    <3> QED
      BY <3>1, <3>5 DEF Rely
  <2>6. Rely(req[s])'
    BY <2>1, Kinds DEF Rely, Request
  <2>7. \A r \in Pay : r > p => payment[r] = NoPayment
    BY DEF InOrder
  <2>8. row # NoPayment
    BY DEF Payment, NoPayment
  <2>9. InOrder'
    <3> SUFFICES ASSUME NEW a \in Pay, NEW b \in Pay, a < b, payment'[a] = NoPayment,
                        payment'[b] # NoPayment
                 PROVE  FALSE
      BY DEF InOrder
    <3>1. a # p
      BY <2>1, <2>8
    <3>2. b = p
      BY <2>1, <3>1 DEF InOrder
    <3> QED
      BY <2>1, <3>1, <3>2, Bounds DEF Pay
  <2>10. KnownReceiptRefused'
    <3> SUFFICES ASSUME NEW a \in Pay, NEW b \in Pay, a < b, Recorded(b)',
                        payment'[a] # NoPayment, payment'[a].stay = payment'[b].stay,
                        payment'[a].receipt = Stripped[payment'[b].receipt]
                 PROVE  FALSE
      BY DEF KnownReceiptRefused
    <3>1. CASE b = p
      <4>1. /\ a # p /\ row.reverses = NoPay /\ IsNumber(row.receipt)
            /\ payment[a] # NoPayment /\ payment[a].stay = row.stay
            /\ payment[a].receipt = Stripped[row.receipt]
        BY <2>1, <3>1, Bounds DEF Recorded, Pay
      <4>2. NotRecorded(row.stay, row.receipt)
        BY <2>2, <4>1 DEF Fits, Pay, NoPay
      <4> QED
        BY <4>1, <4>2 DEF NotRecorded
    <3>2. CASE b # p
      <4>1. Recorded(b) /\ payment'[b] = payment[b]
        BY <2>1, <3>2 DEF Recorded
      <4>2. a # p
        BY <2>7, <4>1 DEF Recorded
      <4> QED
        BY <2>1, <4>1, <4>2 DEF KnownReceiptRefused
    <3> QED
      BY <3>1, <3>2
  <2> QED
    BY <1>1, <2>3, <2>5, <2>6, <2>9, <2>10
<1> QED
  BY <1>2, <1>3

\* Nor does a request about another reservation notice a reservation written.
LEMMA WritesKeepsApart ==
  ASSUME ApartInv, StaysApart', NEW s \in Session, NEW row \in StayRow, Writes(s, row),
         req[s] # Idle, LedgerInv'
  PROVE  ApartInv'
<1> USE DEF ApartInv
<1>1. /\ req'[s] = Idle /\ \A t \in Session \ {s} : req'[t] = req[t]
      /\ \A st \in Stay : st # req[s].stay => stay'[st] = stay[st]
      /\ UNCHANGED payment
  BY DEF Writes, LedgerInv, TypeOK
<1>2. RefundedAtMostOnce' /\ KnownReceiptRefused' /\ InOrder'
  BY <1>1 DEF RefundedAtMostOnce, KnownReceiptRefused, Recorded, InOrder
<1>3. ASSUME NEW t \in Session, t # s
      PROVE  Rely(req[t])'
  <2> DEFINE q == req[t]
  <2>1. q \in Request /\ Rely(q) /\ req'[t] = q
    BY <1>1, <1>3 DEF LedgerInv, TypeOK
  <2>2. q # Idle => q.stay \in Stay /\ q.stay # req[s].stay
    BY <1>3, <2>1, Kinds DEF StaysApart
  <2>3. \A r \in Request : Rely(r) /\ (r # Idle => stay'[r.stay] = stay[r.stay]) => Rely(r)'
    <3> TAKE r \in Request
    <3>1. /\ NotRefunded(r.pay) => NotRefunded(r.pay)'
          /\ NotRecorded(r.stay, r.receipt) => NotRecorded(r.stay, r.receipt)'
      BY <1>1 DEF NotRefunded, NotRecorded
    <3> QED
      BY <1>1, <3>1, PaidSame, RelyLasts
  <2> QED
    BY <1>1, <1>3, <2>1, <2>2, <2>3 DEF Rely
<1>4. Rely(req[s])'
  BY <1>1, Kinds DEF Rely, Request
<1> QED
  BY <1>2, <1>3, <1>4

LEMMA NextKeepsApart == ApartInv /\ [Next /\ StaysApart']_vars => ApartInv'
<1> SUFFICES ASSUME ApartInv, [Next /\ StaysApart']_vars PROVE ApartInv'
  OBVIOUS
<1>1. LedgerInv'
  BY NextKeepsTypes DEF ApartInv
<1>2. CASE UNCHANGED <<stay, payment, req>>
  <2>1. StaysApart' /\ RefundedAtMostOnce' /\ KnownReceiptRefused' /\ InOrder'
    BY <1>2 DEF ApartInv, StaysApart, RefundedAtMostOnce, KnownReceiptRefused, Recorded,
                InOrder
  <2>2. ASSUME NEW t \in Session PROVE Rely(req[t])'
    <3>1. req[t] \in Request /\ Rely(req[t])
      BY DEF ApartInv, LedgerInv, TypeOK
    <3>2. \A r \in Request : Rely(r) => Rely(r)'
      <4> TAKE r \in Request
      <4>1. /\ NotRefunded(r.pay) => NotRefunded(r.pay)'
            /\ NotRecorded(r.stay, r.receipt) => NotRecorded(r.stay, r.receipt)'
        BY <1>2 DEF NotRefunded, NotRecorded
      <4> QED
        BY <1>2, <4>1, PaidSame, RelyLasts
    <3>3. req'[t] = req[t]
      BY <1>2
    <3> QED
      BY <3>1, <3>2, <3>3 DEF Rely
  <2> QED
    BY <1>1, <2>1, <2>2 DEF ApartInv
<1>3. ASSUME NEW s \in Session, Step(s), StaysApart' PROVE ApartInv'
  <2>1. StepDone(s)
    BY <1>3, StepIsDone DEF ApartInv
  <2> QED
    BY <1>1, <1>3, <2>1, GoingOnKeepsApart, BooksKeepsApart, WritesKeepsApart DEF StepDone
<1> QED
  BY <1>2, <1>3 DEF Next, Tick, vars

LEMMA InitApart == Init => ApartInv
<1> SUFFICES ASSUME Init PROVE ApartInv
  OBVIOUS
<1>1. RefundedAtMostOnce /\ KnownReceiptRefused /\ InOrder /\ StaysApart
  BY DEF Init, RefundedAtMostOnce, KnownReceiptRefused, Recorded, InOrder, StaysApart
<1>2. \A s \in Session : Rely(req[s])
  BY Kinds DEF Init, Rely, Request
<1> QED
  BY <1>1, <1>2, InitTypes DEF ApartInv

\* A payment is returned at most once, for any number of requests, stays and
\* payments: between the question refund asks and its commit nobody else
\* reverses the payment (refund).
THEOREM RefundsOnce == ApartSpec => []RefundedAtMostOnce
<1>1. ApartInv => RefundedAtMostOnce
  BY DEF ApartInv
<1> QED
  BY <1>1, InitApart, NextKeepsApart, PTL DEF ApartSpec

\* A receipt number that is on the ledger of a stay is not recorded there again,
\* whichever way it is typed: between the lookup and the commit nobody else adds
\* a row to that stay, and the rows before are those the lookup has seen (record).
THEOREM KnownReceipts == ApartSpec => []KnownReceiptRefused
<1>1. ApartInv => KnownReceiptRefused
  BY DEF ApartInv
<1> QED
  BY <1>1, InitApart, NextKeepsApart, PTL DEF ApartSpec

\* The ceiling record asks about still holds when its payment is committed.
LEMMA PaysWithinCeiling ==
  ApartInv /\ [Next /\ StaysApart']_vars =>
    \A st \in Stay : amount_paid(st)' > amount_paid(st) => amount_paid(st)' <= Due(st)'
<1> SUFFICES ASSUME ApartInv, [Next]_vars,
                    NEW st \in Stay, amount_paid(st)' > amount_paid(st)
             PROVE  amount_paid(st)' <= Due(st)'
  OBVIOUS
<1>1. ~ UNCHANGED payment
  <2>1. amount_paid(st) \in Int
    BY PaidIsInt DEF ApartInv, LedgerInv
  <2> QED
    BY <2>1, PaidSame
<1> PICK s \in Session : Step(s)
  BY <1>1 DEF Next, Tick, vars
<1> PICK row \in Payment : Books(s, row)
  BY <1>1, StepIsDone DEF ApartInv, StepDone, GoesOn, Continue, Writes
<1> PICK p \in Pay : /\ payment[p] = NoPayment
                     /\ payment' = [payment EXCEPT ![p] = row]
                     /\ UNCHANGED <<stay, today>>
  BY <1>1 DEF Books, Append, Refuse, Continue
<1>2. payment'[p] = row
  BY DEF ApartInv, LedgerInv, TypeOK
<1>3. amount_paid(st)' = amount_paid(st) +
        (IF is_cash_movement(p)' /\ row.stay = st THEN signed_amount(p)' ELSE 0)
  BY PaidAfterAppend DEF ApartInv
<1>4. amount_paid(st) \in Int /\ Due(st) \in Int /\ row.amount \in Nat \ {0}
  BY PaidIsInt, DueIsInt DEF ApartInv, LedgerInv, Payment
<1>5. signed_amount(p)' = IF row.reverses # NoPay THEN -row.amount ELSE row.amount
  BY <1>2 DEF signed_amount
<1>6. row.stay = st /\ row.reverses = NoPay /\ amount_paid(st)' = amount_paid(st) + row.amount
  BY <1>3, <1>4, <1>5
<1>7. row.amount <= Due(st) - amount_paid(st)
  BY <1>6 DEF ApartInv, Books, Fits, Balance, Pay, NoPay
<1>8. Due(st)' = Due(st)
  BY DEF Due
<1> QED
  BY <1>4, <1>6, <1>7, <1>8

\* Money is never taken beyond what the stay costs at that moment (record).
THEOREM PaidWithinBill == ApartSpec => NeverOverpaid
  BY PaysWithinCeiling, InitApart, NextKeepsApart, PTL DEF ApartSpec, NeverOverpaid

\* The debt a departure asks about is the debt it leaves.
LEMMA LeavesSettled ==
  ApartInv /\ [Next /\ StaysApart']_vars =>
    \A st \in Stay :
       stay[st].status = "checked_in" /\ stay[st].status' # "checked_in" =>
         Balance(st)' <= stay'[st].waived
<1> SUFFICES ASSUME ApartInv, [Next]_vars, NEW st \in Stay,
                    stay[st].status = "checked_in", stay[st].status' # "checked_in"
             PROVE  Balance(st)' <= stay'[st].waived
  OBVIOUS
<1>1. ~ UNCHANGED stay
  OBVIOUS
<1> PICK s \in Session : Step(s)
  BY <1>1 DEF Next, Tick, vars
<1> PICK row \in StayRow : Writes(s, row)
  BY <1>1, StepIsDone
     DEF ApartInv, StepDone, GoesOn, Continue, Books, Append, Refuse
<1>2. st = req[s].stay /\ stay'[st] = row /\ UNCHANGED payment
  BY DEF Writes, ApartInv, LedgerInv, TypeOK
<1>3. row.total = stay[st].total /\ Balance(st) <= row.waived
  BY <1>2 DEF Writes, ApartInv
<1>4. amount_paid(st)' = amount_paid(st)
  BY <1>2, PaidSame
<1>5. Due(st)' = Due(st)
  BY <1>2, <1>3 DEF Due
<1> QED
  BY <1>2, <1>3, <1>4, <1>5 DEF Balance

\* A guest leaves with the bill settled or written off (check_out, cancel).
THEOREM DepartsSettled == ApartSpec => DepartsSettledOrWaived
  BY LeavesSettled, InitApart, NextKeepsApart, PTL DEF ApartSpec, DepartsSettledOrWaived

=============================================================================
