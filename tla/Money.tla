-------------------------------- MODULE Money --------------------------------
(***************************************************************************)
(* The arithmetic between a cart and Stripe (payments/services.py,         *)
(* promotions/services.py).  The columns hold decimals of two places: here *)
(* an amount is a whole number of hundredths.  Stripe takes integers in    *)
(* the minor unit of the currency: a hundredth, a thousandth or, for the   *)
(* yen and its like, the unit itself.                                      *)
(***************************************************************************)
EXTENDS Integers

CONSTANTS Unit,      \* the prices of a ticket
          Quantity,  \* how many are bought
          Present,   \* the gifts added to a cart
          Percent,   \* the percentages codes take off, in hundredths of one
          Fixed      \* the amounts codes take off

ASSUME MoneyAmounts == /\ Unit \subseteq Nat
                       /\ Quantity \subseteq Nat
                       /\ Present \subseteq Nat
                       /\ Percent \subseteq 0 .. 10000
                       /\ Fixed \subseteq Nat

Currency == {"cents", "thousandths", "whole"}

(* Decimal.to_integral_value: to the nearest, and from half way to the even. *)
ToIntegral(n) == LET q == n \div 100
                     r == n % 100
                 IN  IF r > 50 \/ (r = 50 /\ q % 2 = 1) THEN q + 1 ELSE q

(* Mutant: the amount loses its second place before it is scaled. *)
ToMinorUnitsScaledLate(n, currency) == IF currency = "whole" THEN ToIntegral(n) ELSE
                                       IF currency = "thousandths" THEN (n \div 10) * 100 ELSE n

ToMinorUnits(n, currency) == IF currency = "whole" THEN ToIntegral(n) ELSE
                             IF currency = "thousandths" THEN ((10 * n) \div 10) * 10 ELSE n

(* compute_discount: a percentage, in hundredths of one and rounded half up, *)
(* or a fixed amount.                                                        *)
PercentOff(subtotal, percent) == (2 * subtotal * percent + 10000) \div 20000
FixedOff(subtotal, value)     == IF value < subtotal THEN value ELSE subtotal

Discounts(subtotal) == {PercentOff(subtotal, percent) : percent \in Percent}
                         \cup {FixedOff(subtotal, value) : value \in Fixed}

(* validate_code lets a code through only when something is left to pay.    *)
Leaves(subtotal, discount) == discount < subtotal

(* What a session collects: gross line items, less the coupon, and the gift. *)
Charged(unit, quantity, discount, gift, currency) ==
    quantity * ToMinorUnits(unit, currency)
      - ToMinorUnits(discount, currency) + ToMinorUnits(gift, currency)

(* hold_grand_total, the discount being below the subtotal. *)
NetTotal(unit, quantity, discount, gift) == quantity * unit - discount + gift

-----------------------------------------------------------------------------
(* Correctness *)

(* "Reconciliation is exact": where the minor unit is a hundredth or less the *)
(* session collects the order's total to the last one.  It is not where the   *)
(* unit is whole: each ticket, the coupon and the gift is rounded on its own, *)
(* to within half a unit.                                                     *)
Reconciles(unit, quantity, discount, gift, currency) ==
    LET charged == Charged(unit, quantity, discount, gift, currency)
        total   == NetTotal(unit, quantity, discount, gift)
    IN  IF currency = "whole"
        THEN 100 * charged - total \in -50 * (quantity + 2) .. 50 * (quantity + 2)
        ELSE charged = ToMinorUnits(total, currency)

(* A code that validate_code accepts never opens a session of nothing, which  *)
(* Stripe refuses, where the minor unit is a hundredth or less.               *)
SomethingLeft(unit, quantity, discount, currency) ==
    currency # "whole" /\ Leaves(quantity * unit, discount)
        => Charged(unit, quantity, discount, 0, currency) > 0
=============================================================================
