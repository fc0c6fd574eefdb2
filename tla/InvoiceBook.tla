---------------------------- MODULE InvoiceBook ----------------------------
(***************************************************************************)
(* What a tax office asks of an invoice book: within a year the invoices   *)
(* are numbered one after the other, a reservation has at most one, and a  *)
(* number once used is never given out again, even if its invoice is gone. *)
(***************************************************************************)
EXTENDS Naturals

CONSTANTS Stay, Year

VARIABLES
  last,  \* the last number used in each year, 0 for none
  book   \* the invoice of each reservation

NoInvoice == [year |-> "none"]
Invoice == [year : Year, number : Nat \ {0}]

BookVars == <<last, book>>

BookInit ==
  /\ last \in [Year -> Nat]
  /\ book \in [Stay -> Invoice \cup {NoInvoice}]
  /\ \A st \in Stay : book[st] # NoInvoice => book[st].number <= last[book[st].year]
  /\ \A st, other \in Stay :
       book[st] # NoInvoice /\ book[st] = book[other] => st = other

\* The next number of the year goes to a reservation that has none.
Enter(st, y) ==
  /\ book[st] = NoInvoice
  /\ last' = [last EXCEPT ![y] = @ + 1]
  /\ book' = [book EXCEPT ![st] = [year |-> y, number |-> last[y] + 1]]

\* An invoice may go with its reservation; its number stays used.
Strike(st) ==
  /\ book[st] # NoInvoice
  /\ book' = [book EXCEPT ![st] = NoInvoice]
  /\ last' = last

BookNext == \E st \in Stay : Strike(st) \/ \E y \in Year : Enter(st, y)

BookSpec == BookInit /\ [][BookNext]_BookVars

=============================================================================
