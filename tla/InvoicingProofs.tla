-------------------------- MODULE InvoicingProofs --------------------------
(***************************************************************************)
(* Proofs about invoice numbering, for any number of reservations,         *)
(* requests and years: the tables and requests are typed, no number is     *)
(* given out twice, and issuing implements the invoice book.               *)
(***************************************************************************)
EXTENDS InvoicingProperties, TLAPS

USE InvoicingAssumption

(***************************************************************************)
(* What an uncommitted invoice keeps out: while a request has one, its     *)
(* reservation has no other, committed or not.  The refinement needs it,   *)
(* as the question was asked a step before the commit.                     *)
(***************************************************************************)
CommitsAlone ==
  \A s \in Session :
    At(s, "commit") =>
      /\ invoice[req[s].stay] = NoInvoice
      /\ \A t \in Session : At(t, "commit") /\ req[t].stay = req[s].stay => t = s

BookInv == TypeOK /\ NumbersUnique /\ CommitsAlone

-----------------------------------------------------------------------------
\* The stages of a request are told apart by their pc, and each has its fields.
LEMMA RequestFields ==
  ASSUME NEW q \in Request \cup {Idle}
  PROVE  /\ q.pc = "idle" => q = Idle
         /\ q.pc # "idle" => q.stay \in Stay
         /\ q.pc \in {"first", "retry", "insert", "commit"} => q.year \in Year
         /\ q.pc \in {"insert", "commit"} => q.number \in Nat \ {0}
  BY DEF Request, Idle

LEMMA InitTyped == Init => TypeOK
<1> SUFFICES ASSUME Init PROVE TypeOK
  OBVIOUS
<1>1. invoice \in [Stay -> Invoice \cup {NoInvoice}]
  BY DEF Init, LegacyBook, Invoice, Year
<1> QED
  BY <1>1 DEF Init, TypeOK, Year, Status

LEMMA TypingKept == TypeOK /\ [Next]_vars => TypeOK'
<1> SUFFICES ASSUME TypeOK, [Next]_vars PROVE TypeOK'
  OBVIOUS
<1> USE DEF TypeOK
<1>1. CASE NewYear
  BY <1>1 DEF NewYear, Year
<1>2. CASE \E st \in Stay : Cancel(st) \/ DeleteStay(st)
  BY <1>2 DEF Cancel, DeleteStay, Status
<1>3. ASSUME NEW s \in Session, Issue(s) \/ Rollback(s) PROVE TypeOK'
  BY <1>3 DEF Issue, Rollback, Answer, Continue, Request
<1>4. ASSUME NEW s \in Session, Advance(s) PROVE TypeOK'
  <2>0. /\ req[s].pc # "idle" => req[s].stay \in Stay
        /\ req[s].pc \in {"first", "retry", "insert", "commit"} => req[s].year \in Year
        /\ req[s].pc \in {"insert", "commit"} => req[s].number \in Nat \ {0}
    BY RequestFields
  <2>1. ASSUME NEW q \in Request \cup {Idle}, Continue(s, q) PROVE TypeOK'
    BY <2>1 DEF Continue
  <2>2. CASE CheckExisting(s)
    <3>1. At(s, "existing") => [req[s] EXCEPT !.pc = "allocate"] \in Request
      BY DEF At, Request, Idle
    <3> QED
      BY <2>1, <2>2, <3>1 DEF CheckExisting, Answer, GoTo
  <2>3. ASSUME NEW st \in Stay, NEW y \in Year, NEW n \in Nat \ {0}, Take(s, st, y, n)
        PROVE  TypeOK'
    <3>1. [pc |-> "insert", stay |-> st, year |-> y, number |-> n] \in Request
      BY DEF Request
    <3> QED
      BY <2>1, <2>3, <3>1 DEF Take
  <2>4. CASE Allocate(s)
    <3>1. req[s].stay \in Stay
      BY <2>0, <2>4 DEF Allocate, At
    <3>2. CASE counter[year] = 0 /\ Continue(s, [pc |-> "first", stay |-> req[s].stay, year |-> year])
      <4>1. [pc |-> "first", stay |-> req[s].stay, year |-> year] \in Request
        BY <3>1 DEF Request
      <4> QED
        BY <2>1, <3>2, <4>1
    <3>3. CASE Take(s, req[s].stay, year, NextNumber(year))
      BY <2>3, <3>1, <3>3 DEF NextNumber
    <3> QED
      BY <2>4, <3>2, <3>3 DEF Allocate
  <2>5. CASE InsertCounter(s)
    <3>1. At(s, "first") => [req[s] EXCEPT !.pc = "retry"] \in Request
      BY DEF At, Request, Idle
    <3> QED
      BY <2>0, <2>1, <2>3, <2>5, <3>1
         DEF InsertCounter, LostInsert, GoTo, FirstNumber, At
  <2>6. CASE Retry(s)
    BY <2>0, <2>3, <2>6 DEF Retry, NextNumber, At
  <2>7. CASE InsertInvoice(s)
    <3>1. At(s, "insert") => [req[s] EXCEPT !.pc = "commit"] \in Request
      BY DEF At, Request, Idle
    <3> QED
      BY <2>1, <2>7, <3>1 DEF InsertInvoice, Answer, GoTo
  <2>8. CASE Commit(s)
    BY <2>0, <2>8 DEF Commit, At, Invoice
  <2> QED
    BY <1>4, <2>2, <2>4, <2>5, <2>6, <2>7, <2>8 DEF Advance
<1>5. CASE UNCHANGED vars
  BY <1>5 DEF vars
<1> QED
  BY <1>1, <1>2, <1>3, <1>4, <1>5 DEF Next

\* Tables and requests keep their types in every behaviour of the service.
THEOREM InvoicingTyped == Spec => []TypeOK
<1> QED
  BY InitTyped, TypingKept, PTL DEF Spec

-----------------------------------------------------------------------------
(***************************************************************************)
(* A step either moves one request along, or writes the tables.  The first *)
(* kind keeps the numbers apart if a request that takes the counter takes  *)
(* the next number of a free row.                                          *)
(***************************************************************************)

LEMMA InitNumbered == Init => NumbersUnique /\ CommitsAlone
<1> SUFFICES ASSUME Init PROVE NumbersUnique /\ CommitsAlone
  OBVIOUS
<1>1. TypeOK
  BY InitTyped
<1>2. WithinCounter
  <2> SUFFICES ASSUME NEW st \in Stay, invoice[st] # NoInvoice
               PROVE  invoice[st].number <= counter[invoice[st].year]
    BY DEF WithinCounter
  <2>1. invoice[st].year \in Year
    BY <1>1 DEF TypeOK, Invoice
  <2>2. invoice[st].number \in Numbers(invoice, invoice[st].year)
    BY DEF Numbers
  <2> QED
    BY <2>1, <2>2 DEF Init, Carried
<1>3. NumbersApart
  BY DEF Init, LegacyBook, NumbersApart
<1>4. TakenIsNext /\ CommitsAlone
  BY DEF Init, TakenIsNext, CommitsAlone, HoldsCounter, At, Idle
<1> QED
  BY <1>2, <1>3, <1>4 DEF NumbersUnique

LEMMA RequestMoves ==
  ASSUME BookInv, NEW s \in Session, NEW q \in Request \cup {Idle}, Continue(s, q),
         q.pc \in {"insert", "commit"} =>
           \/ HoldsCounter(s, q.year) /\ q.number = req[s].number
           \/ CounterFree(q.year) /\ q.number = counter[q.year] + 1,
         q.pc = "commit" => StayFree(q.stay) /\ invoice[q.stay] = NoInvoice
  PROVE  NumbersUnique' /\ CommitsAlone'
<1>1. /\ req' = [req EXCEPT ![s] = q] /\ req \in [Session -> Request \cup {Idle}]
      /\ counter' = counter /\ invoice' = invoice
  BY DEF Continue, BookInv, TypeOK
<1>2. WithinCounter' /\ NumbersApart'
  BY <1>1 DEF BookInv, NumbersUnique, WithinCounter, NumbersApart
<1>3. TakenIsNext'
  BY <1>1 DEF BookInv, NumbersUnique, TakenIsNext, HoldsCounter, CounterFree
<1>4. CommitsAlone'
  BY <1>1 DEF BookInv, CommitsAlone, StayFree, At
<1> QED
  BY <1>2, <1>3, <1>4 DEF NumbersUnique

\* The commit of an invoice: its number is above every other of its year.
LEMMA CommitNumbers ==
  ASSUME BookInv, NEW s \in Session, Commit(s)
  PROVE  NumbersUnique' /\ CommitsAlone'
<1> DEFINE st == req[s].stay
           y  == req[s].year
           n  == req[s].number
<1>0. req[s].pc = "commit"
  BY DEF Commit, At
<1>1. st \in Stay /\ y \in Year /\ n \in Nat \ {0}
  BY <1>0, RequestFields DEF BookInv, TypeOK
<1>2. n = counter[y] + 1 /\ \A t \in Session : HoldsCounter(t, y) => t = s
  BY <1>0, <1>1 DEF BookInv, NumbersUnique, TakenIsNext, HoldsCounter
<1>3. /\ invoice[st] = NoInvoice
      /\ \A t \in Session : At(t, "commit") /\ req[t].stay = st => t = s
  BY <1>0 DEF BookInv, CommitsAlone, At
<1>4. /\ counter' = [counter EXCEPT ![y] = n]
      /\ invoice' = [invoice EXCEPT ![st] = [year |-> y, number |-> n]]
      /\ req' = [req EXCEPT ![s] = Idle]
  BY DEF Commit
<1>5. /\ counter \in [Year -> Nat] /\ invoice \in [Stay -> Invoice \cup {NoInvoice}]
      /\ req \in [Session -> Request \cup {Idle}]
  BY DEF BookInv, TypeOK
<1>6. \A x \in Stay : invoice[x] # NoInvoice =>
        /\ invoice[x].year \in Year /\ invoice[x].number \in Nat
        /\ invoice[x].number <= counter[invoice[x].year]
  BY <1>5 DEF BookInv, NumbersUnique, WithinCounter, Invoice
<1>7. WithinCounter'
  BY <1>1, <1>2, <1>4, <1>5, <1>6 DEF WithinCounter
<1>8. NumbersApart'
  <2> SUFFICES ASSUME NEW a \in Stay, NEW b \in Stay,
                      invoice'[a] # NoInvoice, invoice'[a] = invoice'[b], a # b
               PROVE  FALSE
    BY DEF NumbersApart
  <2>1. CASE a # st /\ b # st
    BY <2>1, <1>4, <1>5 DEF BookInv, NumbersUnique, NumbersApart
  <2>2. CASE a = st \/ b = st
    BY <2>2, <1>1, <1>2, <1>4, <1>5, <1>6
  <2> QED
    BY <2>1, <2>2
<1>9. TakenIsNext'
  BY <1>1, <1>2, <1>4, <1>5 DEF BookInv, NumbersUnique, TakenIsNext, HoldsCounter, Idle
<1>10. CommitsAlone'
  BY <1>1, <1>3, <1>4, <1>5 DEF BookInv, CommitsAlone, At, Idle
<1> QED
  BY <1>7, <1>8, <1>9, <1>10 DEF NumbersUnique

LEMMA NumbersKept == BookInv /\ [Next]_vars => NumbersUnique' /\ CommitsAlone'
<1> SUFFICES ASSUME BookInv, [Next]_vars PROVE NumbersUnique' /\ CommitsAlone'
  OBVIOUS
<1>0. req \in [Session -> Request \cup {Idle}] /\ TypeOK
  BY DEF BookInv, TypeOK
<1>1. CASE NewYear \/ UNCHANGED vars \/ \E st \in Stay : Cancel(st)
  BY <1>1 DEF NewYear, vars, Cancel, BookInv, NumbersUnique, WithinCounter, NumbersApart,
              TakenIsNext, HoldsCounter, CommitsAlone, At
<1>2. ASSUME NEW st \in Stay, DeleteStay(st) PROVE NumbersUnique' /\ CommitsAlone'
  <2>1. /\ invoice' = [invoice EXCEPT ![st] = NoInvoice] /\ counter' = counter /\ req' = req
        /\ invoice \in [Stay -> Invoice \cup {NoInvoice}]
    BY <1>0, <1>2 DEF DeleteStay, TypeOK
  <2>2. WithinCounter' /\ NumbersApart'
    BY <2>1 DEF BookInv, NumbersUnique, WithinCounter, NumbersApart
  <2>3. TakenIsNext' /\ CommitsAlone'
    BY <2>1 DEF BookInv, NumbersUnique, TakenIsNext, HoldsCounter, CommitsAlone, At
  <2> QED
    BY <2>2, <2>3 DEF NumbersUnique
<1>3. ASSUME NEW s \in Session, Answer(s) PROVE NumbersUnique' /\ CommitsAlone'
  BY <1>3, RequestMoves DEF Answer, Idle
<1>4. ASSUME NEW s \in Session, Issue(s) PROVE NumbersUnique' /\ CommitsAlone'
  <2> PICK st \in Stay : Continue(s, [pc |-> "existing", stay |-> st])
    BY <1>4 DEF Issue
  <2>1. [pc |-> "existing", stay |-> st] \in Request
    BY DEF Request
  <2> QED
    BY <2>1, RequestMoves
<1>5. ASSUME NEW s \in Session, Advance(s) PROVE NumbersUnique' /\ CommitsAlone'
  <2>0. /\ req[s].pc # "idle" => req[s].stay \in Stay
        /\ req[s].pc \in {"first", "retry", "insert", "commit"} => req[s].year \in Year
        /\ req[s].pc \in {"insert", "commit"} => req[s].number \in Nat \ {0}
    BY <1>0, RequestFields
  <2>1. ASSUME NEW st \in Stay, NEW y \in Year, CounterFree(y),
               Take(s, st, y, counter[y] + 1)
        PROVE  NumbersUnique' /\ CommitsAlone'
    <3>1. [pc |-> "insert", stay |-> st, year |-> y, number |-> counter[y] + 1] \in Request
      BY <1>0 DEF Request, TypeOK
    <3> QED
      BY <2>1, <3>1, RequestMoves DEF Take
  <2>2. CASE CheckExisting(s)
    <3>1. At(s, "existing") => [req[s] EXCEPT !.pc = "allocate"] \in Request
      BY <1>0 DEF At, Request, Idle
    <3>2. At(s, "existing") => [req[s] EXCEPT !.pc = "allocate"].pc = "allocate"
      BY <1>0 DEF At, Request, Idle
    <3> QED
      BY <1>3, <2>2, <3>1, <3>2, RequestMoves DEF CheckExisting, GoTo
  <2>3. CASE Allocate(s)
    <3>1. req[s].stay \in Stay /\ year \in Year
      BY <1>0, <2>0, <2>3 DEF Allocate, At, TypeOK
    <3>2. CASE Continue(s, [pc |-> "first", stay |-> req[s].stay, year |-> year])
      <4>1. [pc |-> "first", stay |-> req[s].stay, year |-> year] \in Request
        BY <3>1 DEF Request
      <4> QED
        BY <3>2, <4>1, RequestMoves
    <3> QED
      BY <2>1, <2>3, <3>1, <3>2 DEF Allocate, NextNumber
  <2>4. CASE InsertCounter(s)
    <3>1. At(s, "first") => [req[s] EXCEPT !.pc = "retry"] \in Request
      BY <1>0 DEF At, Request, Idle
    <3>2. At(s, "first") => [req[s] EXCEPT !.pc = "retry"].pc = "retry"
      BY <1>0 DEF At, Request, Idle
    <3>3. CASE LostInsert(s)
      BY <2>4, <3>1, <3>2, <3>3, RequestMoves DEF InsertCounter, LostInsert, GoTo
    <3>4. CASE counter[req[s].year] = 0 /\ Take(s, req[s].stay, req[s].year, FirstNumber)
      BY <2>0, <2>1, <2>4, <3>4 DEF InsertCounter, FirstNumber, At
    <3> QED
      BY <2>4, <3>3, <3>4 DEF InsertCounter
  <2>5. CASE Retry(s)
    BY <2>0, <2>1, <2>5 DEF Retry, NextNumber, At
  <2>6. CASE InsertInvoice(s)
    <3> DEFINE q == [req[s] EXCEPT !.pc = "commit"]
    <3>1. At(s, "insert") =>
            /\ q \in Request /\ q.pc = "commit" /\ q.stay = req[s].stay
            /\ q.year = req[s].year /\ q.number = req[s].number
      BY <1>0 DEF At, Request, Idle
    <3>2. CASE Insertable(req[s]) /\ GoTo(s, "commit")
      <4>1. HoldsCounter(s, q.year) /\ StayFree(q.stay) /\ invoice[q.stay] = NoInvoice
        BY <2>6, <3>1, <3>2 DEF InsertInvoice, Insertable, HoldsCounter, At
      <4>2. q \in Request /\ q.number = req[s].number /\ Continue(s, q)
        BY <2>6, <3>1, <3>2 DEF InsertInvoice, GoTo
      <4> HIDE DEF q
      <4> QED
        BY <4>1, <4>2, RequestMoves
    <3> QED
      BY <1>3, <2>6, <3>2 DEF InsertInvoice
  <2>7. CASE Commit(s)
    BY <2>7, CommitNumbers
  <2> QED
    BY <1>5, <2>2, <2>3, <2>4, <2>5, <2>6, <2>7 DEF Advance
<1> QED
  BY <1>1, <1>2, <1>3, <1>4, <1>5 DEF Next, Rollback

LEMMA BookInvariant == Spec => []BookInv
<1>1. Init => BookInv
  BY InitTyped, InitNumbered DEF BookInv
<1>2. BookInv /\ [Next]_vars => BookInv'
  BY TypingKept, NumbersKept DEF BookInv
<1> QED
  BY <1>1, <1>2, PTL DEF Spec

\* No two invoices share a number and none has one the counter will give out,
\* for any number of requests at once.
THEOREM NumbersNeverRepeat == Spec => []NumbersUnique
<1>1. BookInv => NumbersUnique
  BY DEF BookInv
<1> QED
  BY <1>1, BookInvariant, PTL

-----------------------------------------------------------------------------
(***************************************************************************)
(* The refinement: a commit enters one invoice, the deletion of a stay     *)
(* strikes one out, and every other step leaves the book alone.            *)
(***************************************************************************)

USE DEF Book!NoInvoice, Book!Invoice

LEMMA BookInitially == Init => Book!BookInit
  BY InitTyped, InitNumbered
     DEF TypeOK, NumbersUnique, WithinCounter, NumbersApart, Book!BookInit, Invoice, NoInvoice

LEMMA CommitEnters ==
  ASSUME BookInv, NEW s \in Session, Commit(s)
  PROVE  Book!BookNext
<1>1. At(s, "commit")
  BY DEF Commit
<1>2. req[s].stay \in Stay /\ req[s].year \in Year
  BY <1>1, RequestFields DEF BookInv, TypeOK, At
<1>3. req[s].number = counter[req[s].year] + 1
  BY <1>1, <1>2 DEF BookInv, NumbersUnique, TakenIsNext, HoldsCounter, At
<1>4. invoice[req[s].stay] = NoInvoice
  BY <1>1 DEF BookInv, CommitsAlone
<1>5. Book!Enter(req[s].stay, req[s].year)
  BY <1>2, <1>3, <1>4 DEF Commit, Book!Enter, NoInvoice, BookInv, TypeOK
<1> QED
  BY <1>2, <1>5 DEF Book!BookNext

LEMMA DeletionStrikes ==
  ASSUME BookInv, NEW st \in Stay, DeleteStay(st)
  PROVE  [Book!BookNext]_Book!BookVars
<1>1. CASE invoice[st] = NoInvoice
  BY <1>1 DEF DeleteStay, BookInv, TypeOK, Book!BookVars
<1>2. CASE invoice[st] # NoInvoice
  <2>1. Book!Strike(st)
    BY <1>2 DEF DeleteStay, Book!Strike, NoInvoice
  <2> QED
    BY <2>1 DEF Book!BookNext
<1> QED
  BY <1>1, <1>2

LEMMA StepsRefine == BookInv /\ [Next]_vars => [Book!BookNext]_Book!BookVars
<1> SUFFICES ASSUME BookInv, [Next]_vars PROVE [Book!BookNext]_Book!BookVars
  OBVIOUS
<1>1. CASE NewYear \/ UNCHANGED vars \/ \E st \in Stay : Cancel(st)
  BY <1>1 DEF NewYear, vars, Cancel, Book!BookVars
<1>2. CASE \E st \in Stay : DeleteStay(st)
  BY <1>2, DeletionStrikes
<1>3. ASSUME NEW s \in Session, Issue(s) \/ Rollback(s) PROVE UNCHANGED Book!BookVars
  BY <1>3 DEF Issue, Rollback, Answer, Continue, Book!BookVars
<1>4. ASSUME NEW s \in Session, Advance(s), ~Commit(s) PROVE UNCHANGED Book!BookVars
  BY <1>4 DEF Advance, CheckExisting, Allocate, InsertCounter, Retry, InsertInvoice,
              LostInsert, Answer, GoTo, Take, Continue, Book!BookVars
<1>5. ASSUME NEW s \in Session, Commit(s) PROVE Book!BookNext
  BY <1>5, CommitEnters
<1> QED
  BY <1>1, <1>2, <1>3, <1>4, <1>5 DEF Next

\* Issuing implements the invoice book: numbers run without a repeat, one
\* invoice a reservation, whatever requests, deletions and new years do.
THEOREM IssuingImplementsBook == Spec => ImplementsInvoiceBook
<1> QED
  BY BookInitially, BookInvariant, StepsRefine, PTL DEF Spec, ImplementsInvoiceBook, Book!BookSpec

=============================================================================
