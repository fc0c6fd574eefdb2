---------------------------- MODULE MCInvoicing ----------------------------
(***************************************************************************)
(* A small invoice book for TLC.                                           *)
(***************************************************************************)
EXTENDS InvoicingProperties
=============================================================================
