------------------------ MODULE InvoicingProperties ------------------------
(***************************************************************************)
(* What numbering must guarantee, whoever issues at once.                  *)
(***************************************************************************)
EXTENDS Invoicing

\* Rows and requests in flight keep their types.
TypeOK ==
  /\ counter \in [Year -> Nat]
  /\ invoice \in [Stay -> Invoice \cup {NoInvoice}]
  /\ status \in [Stay -> Status]
  /\ year \in Year
  /\ req \in [Session -> Request \cup {Idle}]

\* No two invoices carry the same number, none a number the year's counter
\* has still to give out, and a request that has taken a number has the next
\* one and holds the year's row alone (next_sequence, the migration's MAX).
WithinCounter ==
  \A st \in Stay : invoice[st] # NoInvoice => invoice[st].number <= counter[invoice[st].year]
NumbersApart ==
  \A st, other \in Stay :
    invoice[st] # NoInvoice /\ invoice[st] = invoice[other] => st = other
TakenIsNext ==
  \A s \in Session, y \in Year :
    HoldsCounter(s, y) =>
      /\ req[s].number = counter[y] + 1
      /\ \A t \in Session : HoldsCounter(t, y) => t = s
NumbersUnique == WithinCounter /\ NumbersApart /\ TakenIsNext

\* issue implements the invoice book: every commit enters exactly one invoice
\* under the number after the last, deletions only strike invoices out, and no
\* number is used again (InvoiceService.issue, InvoiceRepository.next_sequence).
Book == INSTANCE InvoiceBook WITH last <- counter, book <- invoice
ImplementsInvoiceBook == Book!BookSpec

\* Every request to issue is answered, the ones that wait for the counter or
\* lose the race for its first row included.
RequestsAnswered == \A s \in Session : req[s] # Idle ~> req[s] = Idle

=============================================================================
