-------------------------------- MODULE Gst --------------------------------
(***************************************************************************)
(* Tax and document totals: backend/app/modules/tax/gst.py.                *)
(*                                                                         *)
(* Money is counted in the storage unit, 0.0001 of the currency: a paisa   *)
(* is 100 and a rupee 10000.  Quantities are whole, rates and discounts    *)
(* whole percentages.                                                      *)
(***************************************************************************)
EXTENDS Integers, SequencesExt

Paisa == 100
Rupee == 10000

\* The quotient n / d of non-negative numbers, ROUND_HALF_UP.
HalfUp(n, d) == (2 * n + d) \div (2 * d)
round_money(n, d) == Paisa * HalfUp(n, d * Paisa)

TaxTreatment == {"intra_state", "inter_state", "export", "exempt"}

\* 0 stands for an absent state code.
resolve_treatment(seller, buyer) ==
    IF buyer.exempt THEN "exempt"
    ELSE IF buyer.country # "IN" THEN "export"
    ELSE IF seller = 0 \/ buyer.state = 0 \/ seller = buyer.state THEN "intra_state"
    ELSE "inter_state"

LineTax(c, s, i) == [cgst |-> c, sgst |-> s, igst |-> i]

split_tax(taxable, rate, treatment) ==
    LET total == round_money(taxable * rate, 100)
        half == round_money(total, 2)
    IN  CASE treatment \in {"export", "exempt"} \/ rate = 0 -> LineTax(0, 0, 0)
          [] treatment = "inter_state" -> LineTax(0, 0, total)
          [] OTHER -> LineTax(half, total - half, 0)

\* A line's discount is an amount, or a percentage when the amount is None.
None == -1
discount(line, gross) ==
    IF line.discount_amount # None
    THEN IF line.discount_amount < gross THEN line.discount_amount ELSE gross
    ELSE HalfUp(gross * line.discount_percent, 100)

compute_line(line, treatment) ==
    LET gross == line.quantity * line.unit_price
        taxable == gross - discount(line, gross)
        tax == split_tax(taxable, line.tax_rate, treatment)
    IN  [account |-> line.account, taxable |-> taxable, cgst |-> tax.cgst,
         sgst |-> tax.sgst, igst |-> tax.igst]

SumOf(f(_), s) == SumFunctionOnSet([x \in s |-> f(x)], s)
Total(lines, field) == SumOf(LAMBDA k : lines[k][field], DOMAIN lines)

compute_document(lines, round_to_whole) ==
    LET exact == Total(lines, "taxable") + Total(lines, "cgst")
                    + Total(lines, "sgst") + Total(lines, "igst")
        whole == Rupee * HalfUp(exact, Rupee)
    IN  [taxable |-> Total(lines, "taxable"), cgst |-> Total(lines, "cgst"),
         sgst |-> Total(lines, "sgst"), igst |-> Total(lines, "igst"),
         round_off |-> IF round_to_whole THEN whole - exact ELSE 0,
         grand |-> IF round_to_whole THEN whole ELSE exact]
=============================================================================
