------------------------------ MODULE MCFolio ------------------------------
(***************************************************************************)
(* Small ledgers for TLC.                                                  *)
(***************************************************************************)
EXTENDS FolioProperties, TLC

\* One receipt number, typed with or without a trailing blank, and reversals.
MCReceipt == {"", "R", "R ", "REFUND-R", "REFUND-R "}
MCStripped == [receipt \in Typed |-> "R"]
MCReversal == [receipt \in Typed |-> IF receipt = "R" THEN "REFUND-R" ELSE "REFUND-R "]

\* Bounds: only the first row may be one that is not money yet, and then one
\* more row is looked at; the first row is written on the first day; only the
\* second has a receipt with a blank.
FewPending ==
  \A p \in Pay : payment[p].status = "pending" => p = 1 /\ payment[MaxPayments] = NoPayment
FirstDay == today > 0 => payment[1] # NoPayment
FewBlanks ==
  \A p \in Pay : payment[p] # NoPayment /\ payment[p].receipt = "R " => p = 2

SymStays == Permutations(Stay)
=============================================================================
