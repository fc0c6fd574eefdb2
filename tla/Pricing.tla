------------------------------ MODULE Pricing ------------------------------
(***************************************************************************)
(* What a stay costs with VAT.  Amounts are whole cents; the stored charge *)
(* is net, and the tax is rounded to a cent the way Decimal.quantize does, *)
(* a half going to the even neighbour.                                     *)
(***************************************************************************)
EXTENDS Integers

CONSTANT TaxPercent   \* settings.TAX_RATE, in percent

ASSUME PricingAssumption == TaxPercent \in 0 .. 100

\* n / d to the nearest whole number, halves to the even one.
Quantize(n, d) ==
  LET q == n \div d
      r == n % d
  IN  IF 2 * r > d \/ (2 * r = d /\ q % 2 = 1) THEN q + 1 ELSE q

tax_on(subtotal) == Quantize(subtotal * TaxPercent, 100)
total_due(total) == total + tax_on(total)

=============================================================================
