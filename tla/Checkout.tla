------------------------------ MODULE Checkout ------------------------------
(***************************************************************************)
(* Money: the cart a buyer pays for, the Stripe Checkout Session that      *)
(* freezes an amount, and the checkout.session.completed webhook that      *)
(* turns the payment into an order (payments/services.py,                  *)
(* payments/views.py, the promo and donation controls of                   *)
(* orders/services.py, promotions/services.py, and the dashboard edits of  *)
(* promo codes and pass products).                                         *)
(*                                                                         *)
(* Stripe is external: it charges the amount the session was created with, *)
(* at any time while the session is open, and delivers the event again and *)
(* again until the webhook answers 200, and sometimes after that.          *)
(*                                                                         *)
(* Inventory is the subject of the module Inventory.  Here a cart is the   *)
(* price of its tickets, and AvailabilityChangedError may always happen.   *)
(***************************************************************************)
EXTENDS Money, Sequences, FiniteSets

CONSTANTS Session,     \* Stripe Checkout Session ids
          Editor,      \* staff requests that may be editing the promo code at once
          MaxCart,     \* bound: how many holds are ever created
          Price,       \* the ticket subtotals and pass prices there are
          Off,         \* the amounts the promo code may take off
          Gift,        \* the donations there are
          MaxUses      \* PromoCode.max_redemptions of the one promo code

Cart == 1 .. MaxCart

ASSUME CheckoutBounds == MaxCart \in Nat /\ MaxUses \in Nat
ASSUME Amounts == Price \subseteq Nat /\ (Off \cup Gift) \subseteq Nat \ {0}

(* The money columns of a Hold row. *)
Row == [subtotal : Price, coded : BOOLEAN, discount : Nat, gift : Gift \cup {0}]

PromoRow == [value : Off, active : BOOLEAN, uses : Nat]

(* A session carries its kind, the hold named in its metadata (0 for none), *)
(* and the amount Stripe collects.                                          *)
SessionRow == [kind : {"cart", "donation", "pass"}, cart : 0 .. MaxCart,
               amount : Nat, state : {"open", "paid", "expired"}]

OrderRow == [session : Session, cart : 0 .. MaxCart, total : Nat,
             coded : BOOLEAN, receipts : Nat]

VARIABLES hold,       \* the Hold table: a function on the rows that exist
          lastCart,   \* the last Hold primary key handed out
          horizon,    \* the holds with a key up to this one are past expires_at
          code,       \* the PromoCode row
          editing,    \* staff forms between loading the PromoCode row and saving it
          product,    \* the PassProduct row
          session,    \* Stripe's sessions: a function on those created
          answered,   \* the sessions whose event was answered with 200
          gaveUp,     \* the sessions a HoldGoneError was logged for
          orders,     \* the Order table, in the order of creation
          mailing     \* webhook calls between the commit and the receipt: order numbers

vars == <<hold, lastCart, horizon, code, editing, product,
          session, answered, gaveUp, orders, mailing>>

shop   == <<hold, lastCart, horizon, code, editing, product>>
stripe == <<session>>
desk   == <<answered, gaveUp, orders, mailing>>

Init == /\ hold = [c \in {} |-> {}]
        /\ lastCart = 0
        /\ horizon = 0
        /\ code \in [value : Off, active : {TRUE}, uses : {0}]
        /\ editing = {}
        /\ product \in [price : Price, active : {TRUE}]
        /\ session = [s \in {} |-> {}]
        /\ answered = {}
        /\ gaveUp = {}
        /\ orders = <<>>
        /\ mailing = {}

Without(f, x) == [y \in DOMAIN f \ {x} |-> f[y]]
With(f, x, v) == [y \in DOMAIN f \cup {x} |-> IF y = x THEN v ELSE f[y]]

Least(a, b)    == IF a <= b THEN a ELSE b
Greatest(a, b) == IF a >= b THEN a ELSE b

-----------------------------------------------------------------------------
(* The cart *)

Active(c) == c \in DOMAIN hold /\ c > horizon

(* hold_grand_total: the gift is outside the discount. *)
GrandTotal(row) == Greatest(row.subtotal - row.discount, 0) + row.gift

(* set_ga_hold or set_reserved_hold: a new row, with no promo and no gift,  *)
(* that takes the place of the session's old one.                           *)
SetHold(old, amount) ==
    /\ lastCart < MaxCart
    /\ lastCart' = lastCart + 1
    /\ old \in DOMAIN hold \cup {0}
    /\ hold' = With(Without(hold, old), lastCart + 1,
                    [subtotal |-> amount, coded |-> FALSE, discount |-> 0, gift |-> 0])
    /\ UNCHANGED <<horizon, code, editing, product, stripe, desk>>

(* release_hold_by_id, and the sweeper once the hold has expired. *)
DropHold(c) ==
    /\ c \in DOMAIN hold
    /\ hold' = Without(hold, c)
    /\ UNCHANGED <<lastCart, horizon, code, editing, product, stripe, desk>>

TimePasses ==
    /\ horizon < lastCart
    /\ horizon' = horizon + 1
    /\ UNCHANGED <<hold, lastCart, code, editing, product, stripe, desk>>

(* compute_discount for a fixed amount. *)
Discount(subtotal) == Least(code.value, subtotal)

ValidateCode(subtotal) ==
    /\ code.active
    /\ code.uses < MaxUses
    /\ Discount(subtotal) < subtotal

(* Mutant: a use is counted when the code is applied. *)
ApplyPromoCodeCounts(c) ==
    /\ Active(c)
    /\ ValidateCode(hold[c].subtotal)
    /\ hold' = [hold EXCEPT ![c].coded = TRUE, ![c].discount = Discount(hold[c].subtotal)]
    /\ code' = [code EXCEPT !.uses = @ + 1]
    /\ UNCHANGED <<lastCart, horizon, editing, product, stripe, desk>>

ApplyPromoCode(c) ==
    /\ Active(c)
    /\ ValidateCode(hold[c].subtotal)
    /\ hold' = [hold EXCEPT ![c].coded = TRUE, ![c].discount = Discount(hold[c].subtotal)]
    /\ UNCHANGED <<lastCart, horizon, code, editing, product, stripe, desk>>

(* Removing asks only that the row exists. *)
RemovePromoCode(c) ==
    /\ c \in DOMAIN hold
    /\ hold' = [hold EXCEPT ![c].coded = FALSE, ![c].discount = 0]
    /\ UNCHANGED <<lastCart, horizon, code, editing, product, stripe, desk>>

SetHoldDonation(c, amount) ==
    /\ Active(c)
    /\ hold' = [hold EXCEPT ![c].gift = amount]
    /\ UNCHANGED <<lastCart, horizon, code, editing, product, stripe, desk>>

ClearHoldDonation(c) ==
    /\ c \in DOMAIN hold
    /\ hold' = [hold EXCEPT ![c].gift = 0]
    /\ UNCHANGED <<lastCart, horizon, code, editing, product, stripe, desk>>

-----------------------------------------------------------------------------
(* Staff *)

PromoDeactivate ==
    /\ code' = [code EXCEPT !.active = ~@]
    /\ UNCHANGED <<hold, lastCart, horizon, editing, product, stripe, desk>>

(* The form view loads the row...                                          *)
LoadPromo(e) ==
    /\ \A d \in editing : d.editor # e
    /\ editing' = editing \cup {[editor |-> e, row |-> code]}
    /\ UNCHANGED <<hold, lastCart, horizon, code, product, stripe, desk>>

(* ...and saves all of it, redemption_count included.                      *)
SavePromo(d, value, active) ==
    /\ code' = [d.row EXCEPT !.value = value, !.active = active]
    /\ editing' = editing \ {d}
    /\ UNCHANGED <<hold, lastCart, horizon, product, stripe, desk>>

EditPassProduct(price) ==
    /\ price # product.price
    /\ product' = [product EXCEPT !.price = price]
    /\ UNCHANGED <<hold, lastCart, horizon, code, editing, stripe, desk>>

PassToggle ==
    /\ product' = [product EXCEPT !.active = ~@]
    /\ UNCHANGED <<hold, lastCart, horizon, code, editing, stripe, desk>>

-----------------------------------------------------------------------------
(* Checkout sessions *)

Open(s, kind, c, amount) ==
    /\ s \notin DOMAIN session
    /\ session' = With(session, s, [kind |-> kind, cart |-> c, amount |-> amount,
                                    state |-> "open"])
    /\ UNCHANGED <<shop, desk>>

(* Gross line items, less the coupon, plus the donation line.              *)
CreateCheckoutSession(s, c) ==
    /\ Active(c)
    /\ Open(s, "cart", c, hold[c].subtotal - hold[c].discount + hold[c].gift)

CreateDonationCheckoutSession(s, amount) == Open(s, "donation", 0, amount)

CreatePassCheckoutSession(s) ==
    /\ product.active
    /\ Open(s, "pass", 0, product.price)

(* The buyer pays, or lets the page expire a day later: Stripe's doing.    *)
Pay(s) ==
    /\ session[s].state = "open"
    /\ session' = [session EXCEPT ![s].state = "paid"]
    /\ UNCHANGED <<shop, desk>>

Abandon(s) ==
    /\ session[s].state = "open"
    /\ session' = [session EXCEPT ![s].state = "expired"]
    /\ UNCHANGED <<shop, desk>>

-----------------------------------------------------------------------------
(* The webhook *)

Paid == {s \in DOMAIN session : session[s].state = "paid"}

Order == DOMAIN orders

Existing(s) == \E o \in Order : orders[o].session = s

(* The order is committed; the receipt goes out after that.                *)
Commit(s, total, coded) ==
    /\ orders' = Append(orders, [session |-> s, cart |-> session[s].cart, total |-> total,
                                 coded |-> coded, receipts |-> 0])
    /\ mailing' = mailing \cup {Len(orders) + 1}
    /\ UNCHANGED <<answered, gaveUp, stripe>>

(* Mutant: the hold outlives the order made from it. *)
FulfillHoldKeepsHold(s) ==
    LET c == session[s].cart IN
    /\ session[s].kind = "cart"
    /\ ~Existing(s)
    /\ Active(c)
    /\ Commit(s, GrandTotal(hold[c]), hold[c].coded)
    /\ code' = IF hold[c].coded THEN [code EXCEPT !.uses = @ + 1] ELSE code
    /\ UNCHANGED <<hold, lastCart, horizon, editing, product>>

FulfillHold(s) ==
    LET c == session[s].cart IN
    /\ session[s].kind = "cart"
    /\ ~Existing(s)
    /\ Active(c)
    /\ Commit(s, GrandTotal(hold[c]), hold[c].coded)
    /\ code' = IF hold[c].coded THEN [code EXCEPT !.uses = @ + 1] ELSE code
    /\ hold' = Without(hold, c)
    /\ UNCHANGED <<lastCart, horizon, editing, product>>

FulfillDonation(s) ==
    /\ session[s].kind = "donation"
    /\ ~Existing(s)
    /\ Commit(s, session[s].amount, FALSE)
    /\ UNCHANGED shop

FulfillPassPurchase(s) ==
    /\ session[s].kind = "pass"
    /\ ~Existing(s)
    /\ product.active
    /\ Commit(s, product.price, FALSE)
    /\ UNCHANGED shop

(* Mutant: the refusal is not answered with 200. *)
HoldGoneRetried(s) ==
    /\ session[s].kind = "cart"
    /\ ~Existing(s)
    /\ ~Active(session[s].cart)
    /\ gaveUp' = gaveUp \cup {s}
    /\ UNCHANGED <<answered, orders, mailing, shop, stripe>>

(* A FulfillmentError is logged and answered with 200. *)
HoldGone(s) ==
    /\ session[s].kind = "cart"
    /\ ~Existing(s)
    /\ ~Active(session[s].cart)
    /\ gaveUp' = gaveUp \cup {s}
    /\ answered' = answered \cup {s}
    /\ UNCHANGED <<orders, mailing, shop, stripe>>

AvailabilityChanged(s) ==
    /\ session[s].kind = "cart"
    /\ ~Existing(s)
    /\ Active(session[s].cart)
    /\ answered' = answered \cup {s}
    /\ UNCHANGED <<gaveUp, orders, mailing, shop, stripe>>

PassRetired(s) ==
    /\ session[s].kind = "pass"
    /\ ~Existing(s)
    /\ ~product.active
    /\ answered' = answered \cup {s}
    /\ UNCHANGED <<gaveUp, orders, mailing, shop, stripe>>

(* A retry, or a duplicate: the order is returned with created = False. *)
AlreadyFulfilled(s) ==
    /\ Existing(s)
    /\ answered' = answered \cup {s}
    /\ UNCHANGED <<gaveUp, orders, mailing, shop, stripe>>

StripeWebhook(s) ==
    /\ s \in Paid
    /\ \/ FulfillHold(s) \/ FulfillDonation(s) \/ FulfillPassPurchase(s)
       \/ HoldGone(s) \/ AvailabilityChanged(s) \/ PassRetired(s) \/ AlreadyFulfilled(s)

(* The receipt goes out and the event is answered... *)
SendReceipt(o) ==
    /\ o \in mailing
    /\ mailing' = mailing \ {o}
    /\ orders' = [orders EXCEPT ![o].receipts = @ + 1]
    /\ answered' = answered \cup {orders[o].session}
    /\ UNCHANGED <<gaveUp, shop, stripe>>

(* ...or the mail host or the process fails, and Stripe will try again. *)
ReceiptFails(o) ==
    /\ o \in mailing
    /\ mailing' = mailing \ {o}
    /\ UNCHANGED <<answered, gaveUp, orders, shop, stripe>>

-----------------------------------------------------------------------------
BuyerNext ==
    \/ \E old \in 0 .. MaxCart, amount \in Price : SetHold(old, amount)
    \/ \E c \in Cart : DropHold(c)
    \/ \E c \in Cart : ApplyPromoCode(c)
    \/ \E c \in Cart : RemovePromoCode(c)
    \/ \E c \in Cart, amount \in Gift : SetHoldDonation(c, amount)
    \/ \E c \in Cart : ClearHoldDonation(c)
    \/ \E s \in Session, c \in Cart : CreateCheckoutSession(s, c)
    \/ \E s \in Session, amount \in Gift : CreateDonationCheckoutSession(s, amount)
    \/ \E s \in Session : CreatePassCheckoutSession(s)

StaffNext ==
    \/ PromoDeactivate
    \/ \E e \in Editor : LoadPromo(e)
    \/ \E d \in editing, value \in Off, active \in BOOLEAN : SavePromo(d, value, active)
    \/ \E price \in Price : EditPassProduct(price)
    \/ PassToggle

StripeNext ==
    \/ \E s \in DOMAIN session : Pay(s)
    \/ \E s \in DOMAIN session : Abandon(s)
    \/ \E s \in DOMAIN session : StripeWebhook(s)

Next == \/ BuyerNext
        \/ StaffNext
        \/ StripeNext
        \/ TimePasses
        \/ \E o \in Order : SendReceipt(o)
        \/ \E o \in Order : ReceiptFails(o)

Spec == Init /\ [][Next]_vars

(* Stripe delivers an event until it is answered, and a webhook call that  *)
(* has committed its order ends, one way or the other.                     *)
FairSpec == /\ Spec
            /\ \A s \in Session : WF_vars(s \in DOMAIN session /\ StripeWebhook(s))
            /\ WF_vars(\E o \in Order : SendReceipt(o) \/ ReceiptFails(o))

-----------------------------------------------------------------------------
(* Correctness *)

(* Amounts stay natural numbers through every edit of a cart, a code or a    *)
(* product, and a session names a cart that was handed out.                  *)
TypeOK ==
    /\ hold \in [DOMAIN hold -> Row] /\ DOMAIN hold \subseteq 1 .. lastCart
    /\ lastCart \in 0 .. MaxCart
    /\ horizon \in 0 .. lastCart
    /\ code \in PromoRow
    /\ editing \subseteq [editor : Editor, row : PromoRow]
    /\ product \in [price : Price, active : BOOLEAN]
    /\ session \in [DOMAIN session -> SessionRow] /\ DOMAIN session \subseteq Session
    /\ answered \subseteq Session
    /\ gaveUp \subseteq Session
    /\ orders \in Seq(OrderRow)
    /\ mailing \subseteq DOMAIN orders

(* However often Stripe delivers the event of a payment, it makes one order. *)
(* A donation and a pass have no hold whose deletion would stop a second one. *)
OnePaymentOneOrder ==
    \A o1, o2 \in Order : orders[o1].session = orders[o2].session => o1 = o2

(* Two tabs may create two sessions for one cart, and the buyer may pay both: *)
(* the tickets are still handed out once.                                     *)
OneOrderPerCart ==
    \A o1, o2 \in Order : orders[o1].cart # 0 /\ orders[o1].cart = orders[o2].cart => o1 = o2

(* "payment succeeded but nothing was fulfilled" is logged for staff to act   *)
(* on; it is never logged for a payment that has an order, before or after.   *)
GivenUpHasNoOrder == \A o \in Order : orders[o].session \notin gaveUp

(* Duplicated events, and events whose first answer was lost, send no second  *)
(* receipt.                                                                   *)
OneReceipt == \A o \in Order : orders[o].receipts + (IF o \in mailing THEN 1 ELSE 0) <= 1

(* Whatever staff do to the code around its use, a cart it was applied to     *)
(* still has something to pay (Stripe refuses a session of nothing), a cart   *)
(* without it pays in full, and the floor in hold_grand_total never bites.    *)
PromoLeavesSomethingToPay ==
    \A c \in DOMAIN hold : IF hold[c].coded THEN hold[c].discount < hold[c].subtotal
                                            ELSE hold[c].discount = 0

(* redemption_count counts the orders that were paid with the code.           *)
UsesCountPaidCodes == code.uses = Cardinality({o \in Order : orders[o].coded})

(* Every payment is answered: fulfilled, or refused for good, in either case  *)
(* Stripe stops.                                                              *)
EveryPaymentAnswered == \A s \in Session : s \in Paid ~> s \in answered

(* What may be in a cart of a given gift and code. *)
Gifts(cart)             == IF cart.gift = 0 THEN {0} ELSE Present
Coupons(cart, subtotal) == IF cart.coded THEN {d \in Discounts(subtotal) : Leaves(subtotal, d)} ELSE {0}

(* Whenever a session is opened for a cart, at whatever prices, it collects *)
(* the total of the order it would pay for, in minor units                  *)
(* (create_checkout_session against hold_grand_total).                      *)
ChargesReconcile ==
    [][\A s \in DOMAIN session' \ DOMAIN session : session'[s].kind = "cart" =>
         LET cart == hold[session'[s].cart]
         IN  \A unit \in Unit, quantity \in Quantity, currency \in Currency, gift \in Gifts(cart) :
                 \A discount \in Coupons(cart, quantity * unit) :
                     Reconciles(unit, quantity, discount, gift, currency)]_vars

(* What the proofs add: a session names a hold exactly if it is a cart's; a   *)
(* hold that became an order has left the table for good; and so has, or has  *)
(* expired, one whose payment was given up.                                   *)
SessionsNameCarts ==
    \A s \in DOMAIN session : /\ session[s].cart <= lastCart
                              /\ session[s].kind = "cart" <=> session[s].cart # 0

SoldCartsGone == \A o \in Order : /\ orders[o].cart \notin DOMAIN hold
                                  /\ orders[o].cart <= lastCart

GivenUpCartsGone == \A s \in gaveUp : /\ s \in DOMAIN session /\ session[s].kind = "cart"
                                      /\ ~Active(session[s].cart)

MoneyInv  == TypeOK /\ PromoLeavesSomethingToPay
RecordInv == /\ SessionsNameCarts /\ SoldCartsGone /\ GivenUpCartsGone
             /\ OnePaymentOneOrder /\ OneOrderPerCart /\ GivenUpHasNoOrder /\ OneReceipt

(* The inductive invariant of CheckoutProofs: what any delivery of any event *)
(* finds, the money and the records of what was sold.                        *)
IInv == MoneyInv /\ RecordInv

(* What the records say of each payment, for the abstract ledger. *)
Sales     == {[payment |-> orders[o].session, cart |-> orders[o].cart] : o \in Order}
Receipted == {orders[o].session : o \in {x \in Order : orders[x].receipts # 0}}

Ledger == INSTANCE PaymentLedger WITH Payment <- Session, collected <- Paid, sold <- Sales,
                                      refused <- gaveUp, receipted <- Receipted

(* The holds, the look-up by session id and the receipt after the commit     *)
(* implement the ledger of payments: every delivery of every event is one of *)
(* its steps, or none (fulfill_checkout_session, stripe_webhook).            *)
ImplementsPayments == Ledger!BookSpec

(* orders/models.py: Order.total "is what Stripe collected".                  *)
TotalIsCollected == \A o \in Order : orders[o].total = session[orders[o].session].amount
=============================================================================
