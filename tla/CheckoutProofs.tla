--------------------------- MODULE CheckoutProofs ---------------------------
(***************************************************************************)
(* Proofs about Checkout, for any number of carts, sessions and staff, and *)
(* about Money: that what Stripe collects is the order's total, for every  *)
(* price, quantity, discount and gift.                                     *)
(***************************************************************************)
EXTENDS Checkout, FiniteSetTheorems, TLAPS

-----------------------------------------------------------------------------
(* The hold table *)

(* What a row must satisfy for PromoLeavesSomethingToPay. *)
Payable(row) == IF row.coded THEN row.discount < row.subtotal ELSE row.discount = 0

HoldOK == /\ hold \in [DOMAIN hold -> Row]
          /\ \A c \in DOMAIN hold : Payable(hold[c])

(* The amounts there are, one by one. *)
LEMMA AmountsAreNat == /\ \A x \in Price : x \in Nat
                       /\ \A x \in Gift \cup {0} : x \in Nat
                       /\ \A x \in Off : x \in Nat /\ x # 0
<1>1. \A x \in Price : x \in Nat
  BY Amounts, Zenon
<1>2. \A x \in Off \cup Gift : x \in Nat \ {0}
  BY Amounts, Zenon
<1> QED
  BY <1>1, <1>2

LEMMA MoneyHold == MoneyInv => HoldOK
BY DEF MoneyInv, TypeOK, PromoLeavesSomethingToPay, HoldOK, Payable

LEMMA BlankRow ==
  ASSUME NEW amount \in Price
  PROVE  LET r == [subtotal |-> amount, coded |-> FALSE, discount |-> 0, gift |-> 0]
         IN  r \in Row /\ Payable(r)
BY DEF Row, Payable

LEMMA SetHoldRows ==
  ASSUME MoneyInv, NEW old \in 0 .. MaxCart, NEW amount \in Price, SetHold(old, amount)
  PROVE  HoldOK' /\ DOMAIN hold' = (DOMAIN hold \ {old}) \cup {lastCart + 1}
<1> DEFINE r == [subtotal |-> amount, coded |-> FALSE, discount |-> 0, gift |-> 0]
           g == Without(hold, old)
<1>1. HoldOK /\ hold' = With(g, lastCart + 1, r)
  BY MoneyHold DEF SetHold
<1>2. r \in Row /\ Payable(r)
  BY BlankRow
<1>3. /\ DOMAIN g = DOMAIN hold \ {old}
      /\ g \in [DOMAIN g -> Row]
      /\ \A y \in DOMAIN g : g[y] = hold[y]
  BY <1>1 DEF Without, HoldOK
<1> HIDE DEF r, g
<1>4. /\ DOMAIN hold' = DOMAIN g \cup {lastCart + 1}
      /\ hold' \in [DOMAIN hold' -> Row]
      /\ hold'[lastCart + 1] = r
      /\ \A y \in DOMAIN g : y # lastCart + 1 => hold'[y] = g[y]
  BY <1>1, <1>2, <1>3 DEF With
<1>5. \A c \in DOMAIN hold' : Payable(hold'[c])
  BY <1>1, <1>2, <1>3, <1>4 DEF HoldOK
<1> QED
  BY <1>3, <1>4, <1>5 DEF HoldOK

LEMMA WithoutHoldRows ==
  ASSUME MoneyInv, NEW c, hold' = Without(hold, c)
  PROVE  HoldOK' /\ DOMAIN hold' = DOMAIN hold \ {c}
<1>1. HoldOK
  BY MoneyHold
<1>2. /\ DOMAIN hold' = DOMAIN hold \ {c}
      /\ hold' \in [DOMAIN hold' -> Row]
      /\ \A y \in DOMAIN hold' : hold'[y] = hold[y]
  BY <1>1 DEF Without, HoldOK
<1> QED
  BY <1>1, <1>2 DEF HoldOK

(* A change of the promo or gift columns of one row. *)
LEMMA EditHoldRow ==
  ASSUME MoneyInv, NEW c \in DOMAIN hold, NEW r \in Row, Payable(r),
         hold' = [hold EXCEPT ![c] = r]
  PROVE  HoldOK' /\ DOMAIN hold' = DOMAIN hold
<1>1. HoldOK
  BY MoneyHold
<1>2. /\ DOMAIN hold' = DOMAIN hold
      /\ hold' \in [DOMAIN hold' -> Row]
      /\ hold'[c] = r
      /\ \A y \in DOMAIN hold : y # c => hold'[y] = hold[y]
  BY <1>1 DEF HoldOK
<1> QED
  BY <1>1, <1>2 DEF HoldOK

LEMMA EditHoldStep ==
  ASSUME MoneyInv, NEW c \in Cart,
         \/ ApplyPromoCode(c)
         \/ RemovePromoCode(c)
         \/ \E amount \in Gift : SetHoldDonation(c, amount)
         \/ ClearHoldDonation(c)
  PROVE  HoldOK' /\ DOMAIN hold' = DOMAIN hold
<1>1. c \in DOMAIN hold
  BY DEF ApplyPromoCode, RemovePromoCode, SetHoldDonation, ClearHoldDonation, Active
<1>2. hold[c] \in Row /\ Payable(hold[c]) /\ code.value \in Nat
  BY <1>1, MoneyHold, Amounts DEF HoldOK, MoneyInv, TypeOK, PromoRow
<1>3. CASE ApplyPromoCode(c)
  <2> DEFINE d == Discount(hold[c].subtotal)
             r == [hold[c] EXCEPT !.coded = TRUE, !.discount = d]
  <2>1. d \in Nat /\ d < hold[c].subtotal
    BY <1>2, <1>3, Amounts DEF ApplyPromoCode, ValidateCode, Discount, Least, Row
  <2>2. hold' = [hold EXCEPT ![c] = r]
    BY <1>3 DEF ApplyPromoCode
  <2>3. r \in Row /\ Payable(r)
    BY <1>2, <2>1 DEF Row, Payable
  <2> HIDE DEF r
  <2> QED
    BY <1>1, <2>2, <2>3, EditHoldRow
<1>4. CASE RemovePromoCode(c)
  <2> DEFINE r == [hold[c] EXCEPT !.coded = FALSE, !.discount = 0]
  <2>1. hold' = [hold EXCEPT ![c] = r]
    BY <1>4 DEF RemovePromoCode
  <2>2. r \in Row /\ Payable(r)
    BY <1>2 DEF Row, Payable
  <2> HIDE DEF r
  <2> QED
    BY <1>1, <2>1, <2>2, EditHoldRow
<1>5. ASSUME NEW amount \in Gift, SetHoldDonation(c, amount)
      PROVE  HoldOK' /\ DOMAIN hold' = DOMAIN hold
  <2> DEFINE r == [hold[c] EXCEPT !.gift = amount]
  <2>1. hold' = [hold EXCEPT ![c] = r]
    BY <1>5 DEF SetHoldDonation
  <2>2. r \in Row /\ Payable(r)
    BY <1>2 DEF Row, Payable
  <2> HIDE DEF r
  <2> QED
    BY <1>1, <2>1, <2>2, EditHoldRow
<1>6. CASE ClearHoldDonation(c)
  <2> DEFINE r == [hold[c] EXCEPT !.gift = 0]
  <2>1. hold' = [hold EXCEPT ![c] = r]
    BY <1>6 DEF ClearHoldDonation
  <2>2. r \in Row /\ Payable(r)
    BY <1>2 DEF Row, Payable
  <2> HIDE DEF r
  <2> QED
    BY <1>1, <2>1, <2>2, EditHoldRow
<1> QED
  BY <1>3, <1>4, <1>5, <1>6

(* Every way the hold table changes: rows go, or a row with a new key comes. *)
CartNext == \/ \E old \in 0 .. MaxCart, amount \in Price : SetHold(old, amount)
            \/ \E c \in Cart : DropHold(c)
            \/ \E c \in Cart : ApplyPromoCode(c)
            \/ \E c \in Cart : RemovePromoCode(c)
            \/ \E c \in Cart, amount \in Gift : SetHoldDonation(c, amount)
            \/ \E c \in Cart : ClearHoldDonation(c)
            \/ TimePasses

CartMove == /\ HoldOK'
            /\ lastCart' \in lastCart .. MaxCart /\ horizon' \in horizon .. lastCart'
            /\ DOMAIN hold' \subseteq 1 .. lastCart'
            /\ \A c \in DOMAIN hold' : c \in DOMAIN hold \/ c > lastCart
            /\ UNCHANGED <<code, editing, product, stripe, desk>>

LEMMA CartRows == ASSUME MoneyInv, CartNext PROVE CartMove
<1>1. /\ DOMAIN hold \subseteq 1 .. lastCart
      /\ lastCart \in 0 .. MaxCart /\ horizon \in 0 .. lastCart
      /\ HoldOK
  BY MoneyHold DEF MoneyInv, TypeOK
<1>2. ASSUME HoldOK', DOMAIN hold' \subseteq DOMAIN hold, lastCart' = lastCart, horizon' = horizon,
             UNCHANGED <<code, editing, product, stripe, desk>>
      PROVE  CartMove
  BY <1>1, <1>2, CheckoutBounds DEF CartMove
<1>3. ASSUME NEW old \in 0 .. MaxCart, NEW amount \in Price, SetHold(old, amount)
      PROVE  CartMove
  <2>1. HoldOK' /\ DOMAIN hold' = (DOMAIN hold \ {old}) \cup {lastCart + 1}
    BY <1>3, SetHoldRows
  <2>2. /\ lastCart < MaxCart /\ lastCart' = lastCart + 1 /\ horizon' = horizon
        /\ UNCHANGED <<code, editing, product, stripe, desk>>
    BY <1>3 DEF SetHold
  <2>3. \A c \in DOMAIN hold' : c \in 1 .. lastCart' /\ (c \in DOMAIN hold \/ c > lastCart)
    BY <1>1, <2>1, <2>2, CheckoutBounds
  <2>4. lastCart' \in lastCart .. MaxCart /\ horizon' \in horizon .. lastCart'
    BY <1>1, <2>2, CheckoutBounds
  <2> QED
    BY <2>1, <2>2, <2>3, <2>4 DEF CartMove
<1>4. ASSUME NEW c \in Cart, DropHold(c)
      PROVE  CartMove
  <2>1. HoldOK' /\ DOMAIN hold' \subseteq DOMAIN hold
    BY <1>4, WithoutHoldRows DEF DropHold
  <2> QED
    BY <1>2, <1>4, <2>1 DEF DropHold
<1>5. ASSUME NEW c \in Cart,
             \/ ApplyPromoCode(c)
             \/ RemovePromoCode(c)
             \/ \E amount \in Gift : SetHoldDonation(c, amount)
             \/ ClearHoldDonation(c)
      PROVE  CartMove
  <2>1. HoldOK' /\ DOMAIN hold' \subseteq DOMAIN hold
    BY <1>5, EditHoldStep
  <2>2. /\ lastCart' = lastCart /\ horizon' = horizon
        /\ UNCHANGED <<code, editing, product, stripe, desk>>
    BY <1>5 DEF ApplyPromoCode, RemovePromoCode, SetHoldDonation, ClearHoldDonation
  <2> QED
    BY <1>2, <2>1, <2>2
<1>6. CASE TimePasses
  <2>1. hold' = hold /\ lastCart' = lastCart /\ horizon' = horizon + 1 /\ horizon < lastCart
        /\ UNCHANGED <<code, editing, product, stripe, desk>>
    BY <1>6 DEF TimePasses
  <2>2. HoldOK'
    BY <1>1, <2>1 DEF HoldOK
  <2> QED
    BY <1>1, <2>1, <2>2, CheckoutBounds DEF CartMove
<1> QED
  BY <1>3, <1>4, <1>5, <1>6, Zenon DEF CartNext

-----------------------------------------------------------------------------
(* Money: the types, and something left to pay *)

LEMMA MoneyCart == ASSUME MoneyInv, CartNext PROVE MoneyInv'
<1>1. /\ HoldOK' /\ DOMAIN hold' \subseteq 1 .. lastCart'
      /\ lastCart' \in 0 .. MaxCart /\ horizon' \in 0 .. lastCart'
      /\ UNCHANGED <<code, editing, product, session, answered, gaveUp, orders, mailing>>
  BY CartRows, CheckoutBounds DEF CartMove, MoneyInv, TypeOK, stripe, desk
<1> QED
  BY <1>1 DEF MoneyInv, TypeOK, PromoLeavesSomethingToPay, HoldOK, Payable

LEMMA MoneyStaff == ASSUME MoneyInv, StaffNext PROVE MoneyInv'
<1>1. /\ code \in PromoRow /\ product \in [price : Price, active : BOOLEAN]
      /\ editing \subseteq [editor : Editor, row : PromoRow]
  BY DEF MoneyInv, TypeOK
<1>2. UNCHANGED <<hold, lastCart, horizon, session, answered, gaveUp, orders, mailing>>
  BY DEF StaffNext, PromoDeactivate, LoadPromo, SavePromo, EditPassProduct, PassToggle, stripe, desk
<1>3. /\ code' \in PromoRow /\ product' \in [price : Price, active : BOOLEAN]
      /\ editing' \subseteq [editor : Editor, row : PromoRow]
  <2>1. CASE PromoDeactivate
    BY <1>1, <2>1 DEF PromoDeactivate, PromoRow
  <2>2. CASE \E e \in Editor : LoadPromo(e)
    BY <1>1, <2>2 DEF LoadPromo
  <2>3. ASSUME NEW d \in editing, NEW value \in Off, NEW active \in BOOLEAN,
               SavePromo(d, value, active)
        PROVE  /\ code' \in PromoRow /\ product' \in [price : Price, active : BOOLEAN]
               /\ editing' \subseteq [editor : Editor, row : PromoRow]
    BY <1>1, <2>3 DEF SavePromo, PromoRow
  <2>4. CASE \E price \in Price : EditPassProduct(price)
    BY <1>1, <2>4 DEF EditPassProduct
  <2>5. CASE PassToggle
    BY <1>1, <2>5 DEF PassToggle
  <2> QED
    BY <2>1, <2>2, <2>3, <2>4, <2>5 DEF StaffNext
<1> QED
  BY <1>2, <1>3 DEF MoneyInv, TypeOK, PromoLeavesSomethingToPay

-----------------------------------------------------------------------------
(* Stripe's sessions *)

SessionNext == \/ \E s \in Session, c \in Cart : CreateCheckoutSession(s, c)
               \/ \E s \in Session, amount \in Gift : CreateDonationCheckoutSession(s, amount)
               \/ \E s \in Session : CreatePassCheckoutSession(s)
               \/ \E s \in DOMAIN session : Pay(s)
               \/ \E s \in DOMAIN session : Abandon(s)

(* A session may be new, or change its state; it keeps its kind and cart. *)
SessionMove == /\ session' \in [DOMAIN session' -> SessionRow]
               /\ DOMAIN session \subseteq DOMAIN session' /\ DOMAIN session' \subseteq Session
               /\ \A s \in DOMAIN session : /\ session'[s].kind = session[s].kind
                                            /\ session'[s].cart = session[s].cart
               /\ \A s \in DOMAIN session' \ DOMAIN session :
                     /\ session'[s].cart <= lastCart
                     /\ session'[s].kind = "cart" <=> session'[s].cart # 0
               /\ UNCHANGED <<shop, desk>>

LEMMA OpenMoves ==
  ASSUME MoneyInv, NEW s \in Session, NEW kind \in {"cart", "donation", "pass"},
         NEW c \in 0 .. MaxCart, c <= lastCart, kind = "cart" <=> c # 0,
         NEW amount \in Nat, Open(s, kind, c, amount)
  PROVE  SessionMove
<1> DEFINE r == [kind |-> kind, cart |-> c, amount |-> amount, state |-> "open"]
<1>1. session \in [DOMAIN session -> SessionRow] /\ DOMAIN session \subseteq Session
  BY DEF MoneyInv, TypeOK
<1>2. s \notin DOMAIN session /\ session' = With(session, s, r) /\ UNCHANGED <<shop, desk>>
  BY DEF Open
<1>3. r \in SessionRow /\ r.cart <= lastCart /\ (r.kind = "cart" <=> r.cart # 0)
  BY DEF SessionRow
<1> HIDE DEF r
<1>4. /\ DOMAIN session' = DOMAIN session \cup {s}
      /\ session' \in [DOMAIN session' -> SessionRow]
      /\ session'[s] = r
      /\ \A t \in DOMAIN session : session'[t] = session[t]
  BY <1>1, <1>2, <1>3 DEF With
<1> QED
  BY <1>1, <1>2, <1>3, <1>4 DEF SessionMove

LEMMA StateMoves ==
  ASSUME MoneyInv, NEW s \in DOMAIN session, Pay(s) \/ Abandon(s)
  PROVE  SessionMove
<1>1. session \in [DOMAIN session -> SessionRow] /\ DOMAIN session \subseteq Session
  BY DEF MoneyInv, TypeOK
<1>2. PICK new \in {"paid", "expired"} : session' = [session EXCEPT ![s].state = new]
  BY DEF Pay, Abandon
<1> DEFINE r == [session[s] EXCEPT !.state = new]
<1>3. session' = [session EXCEPT ![s] = r]
  BY <1>2
<1>4. r \in SessionRow /\ r.kind = session[s].kind /\ r.cart = session[s].cart
  BY <1>1 DEF SessionRow
<1> HIDE DEF r
<1>5. /\ DOMAIN session' = DOMAIN session
      /\ session' \in [DOMAIN session' -> SessionRow]
      /\ session'[s] = r
      /\ \A t \in DOMAIN session : t # s => session'[t] = session[t]
  BY <1>1, <1>3, <1>4
<1>6. UNCHANGED <<shop, desk>>
  BY DEF Pay, Abandon
<1> QED
  BY <1>1, <1>4, <1>5, <1>6 DEF SessionMove

LEMMA SessionRows == ASSUME MoneyInv, SessionNext PROVE SessionMove
<1>1. /\ DOMAIN hold \subseteq 1 .. lastCart /\ lastCart \in 0 .. MaxCart
      /\ product.price \in Price /\ HoldOK
  BY MoneyHold DEF MoneyInv, TypeOK
<1>2. ASSUME NEW s \in Session, NEW c \in Cart, CreateCheckoutSession(s, c)
      PROVE  SessionMove
  <2> DEFINE amount == hold[c].subtotal - hold[c].discount + hold[c].gift
  <2>1. c \in DOMAIN hold /\ Open(s, "cart", c, amount)
    BY <1>2 DEF CreateCheckoutSession, Active
  <2>2. hold[c] \in Row /\ Payable(hold[c])
    BY <1>1, <2>1 DEF HoldOK
  <2>3. amount \in Nat
    <3>1. hold[c].subtotal \in Nat /\ hold[c].discount \in Nat /\ hold[c].gift \in Nat
      BY <2>2, AmountsAreNat DEF Row
    <3>2. hold[c].discount = 0 \/ hold[c].discount < hold[c].subtotal
      BY <2>2 DEF Payable
    <3> QED
      BY <3>1, <3>2
  <2>4. c \in 0 .. MaxCart /\ c <= lastCart /\ c # 0
    BY <1>1, <2>1, CheckoutBounds DEF Cart
  <2> HIDE DEF amount
  <2> QED
    BY <2>1, <2>3, <2>4, OpenMoves
<1>3. ASSUME NEW s \in Session, NEW amount \in Gift, CreateDonationCheckoutSession(s, amount)
      PROVE  SessionMove
  BY <1>1, <1>3, OpenMoves, Amounts, CheckoutBounds DEF CreateDonationCheckoutSession
<1>4. ASSUME NEW s \in Session, CreatePassCheckoutSession(s)
      PROVE  SessionMove
  <2>1. product.price \in Nat /\ 0 \in 0 .. MaxCart /\ 0 <= lastCart
    BY <1>1, AmountsAreNat, CheckoutBounds
  <2>2. Open(s, "pass", 0, product.price)
    BY <1>4 DEF CreatePassCheckoutSession
  <2> QED
    BY <2>1, <2>2, OpenMoves
<1> QED
  BY <1>2, <1>3, <1>4, StateMoves DEF SessionNext

LEMMA MoneySession == ASSUME MoneyInv, SessionNext PROVE MoneyInv'
<1>1. SessionMove
  BY SessionRows
<1> QED
  BY <1>1 DEF SessionMove, MoneyInv, TypeOK, PromoLeavesSomethingToPay, shop, desk

-----------------------------------------------------------------------------
(* Orders *)

(* What committing an order does: one more row, its receipt still to send. *)
LEMMA CommitRows ==
  ASSUME MoneyInv, NEW s \in DOMAIN session, NEW total \in Nat, NEW coded \in BOOLEAN,
         Commit(s, total, coded)
  PROVE  LET n == Len(orders) + 1 IN
         /\ orders' \in Seq(OrderRow)
         /\ Order = 1 .. Len(orders) /\ Order' = Order \cup {n} /\ n \notin Order
         /\ \A o \in Order : orders'[o] = orders[o]
         /\ orders'[n].session = s /\ orders'[n].cart = session[s].cart
         /\ orders'[n].coded = coded /\ orders'[n].receipts = 0
         /\ mailing' = mailing \cup {n}
         /\ UNCHANGED <<answered, gaveUp, session>>
<1> DEFINE r == [session |-> s, cart |-> session[s].cart, total |-> total,
                 coded |-> coded, receipts |-> 0]
<1>1. orders \in Seq(OrderRow) /\ session[s] \in SessionRow /\ s \in Session
  BY DEF MoneyInv, TypeOK
<1>2. r \in OrderRow
  BY <1>1 DEF OrderRow, SessionRow
<1>3. orders' = Append(orders, r) /\ mailing' = mailing \cup {Len(orders) + 1}
      /\ UNCHANGED <<answered, gaveUp, session>>
  BY DEF Commit, stripe
<1>4. r.session = s /\ r.cart = session[s].cart /\ r.coded = coded /\ r.receipts = 0
  OBVIOUS
<1> HIDE DEF r
<1>5. /\ orders' \in Seq(OrderRow) /\ Len(orders') = Len(orders) + 1
      /\ \A o \in 1 .. Len(orders) : orders'[o] = orders[o]
      /\ orders'[Len(orders) + 1] = r
      /\ Len(orders) \in Nat
  BY <1>1, <1>2, <1>3
<1>6. Order = 1 .. Len(orders) /\ Order' = 1 .. (Len(orders) + 1)
  BY <1>1, <1>5 DEF Order
<1> QED
  BY <1>3, <1>4, <1>5, <1>6

Fulfil(s) == FulfillHold(s) \/ FulfillDonation(s) \/ FulfillPassPurchase(s)

(* An order takes its cart's hold out of the table; a gift and a pass have none. *)
FulfilMove(s) ==
    /\ ~Existing(s)
    /\ \E total \in Nat, coded \in BOOLEAN : Commit(s, total, coded)
    /\ HoldOK' /\ code' \in PromoRow
    /\ \/ /\ session[s].kind = "cart" /\ Active(session[s].cart)
          /\ DOMAIN hold' = DOMAIN hold \ {session[s].cart}
       \/ session[s].kind # "cart" /\ DOMAIN hold' = DOMAIN hold
    /\ UNCHANGED <<lastCart, horizon, editing, product>>

LEMMA FulfilMoves ==
  ASSUME MoneyInv, NEW s \in DOMAIN session, Fulfil(s)
  PROVE  FulfilMove(s)
<1>1. /\ HoldOK /\ code \in PromoRow /\ product.price \in Price
      /\ session[s].amount \in Nat
  BY MoneyHold DEF MoneyInv, TypeOK, SessionRow
<1>2. CASE FulfillHold(s)
  <2> DEFINE c == session[s].cart
  <2>1. c \in DOMAIN hold /\ Active(c) /\ session[s].kind = "cart" /\ ~Existing(s)
        /\ Commit(s, GrandTotal(hold[c]), hold[c].coded)
        /\ hold' = Without(hold, c)
        /\ UNCHANGED <<lastCart, horizon, editing, product>>
    BY <1>2 DEF FulfillHold, Active
  <2>2. hold[c] \in Row
    BY <1>1, <2>1 DEF HoldOK
  <2>3. hold[c].coded \in BOOLEAN /\ GrandTotal(hold[c]) \in Nat
    <3>1. hold[c].subtotal \in Nat /\ hold[c].discount \in Nat /\ hold[c].gift \in Nat
      BY <2>2, AmountsAreNat DEF Row
    <3> QED
      BY <2>2, <3>1 DEF Row, GrandTotal, Greatest
  <2>4. code' \in PromoRow
    BY <1>1, <1>2 DEF FulfillHold, PromoRow
  <2>5. HoldOK' /\ DOMAIN hold' = DOMAIN hold \ {c}
    BY <2>1, WithoutHoldRows
  <2> HIDE DEF c
  <2>6. \E total \in Nat, coded \in BOOLEAN : Commit(s, total, coded)
    BY <2>1, <2>3
  <2> QED
    BY <2>1, <2>4, <2>5, <2>6 DEF FulfilMove, c
<1>3. CASE FulfillDonation(s)
  <2>1. /\ ~Existing(s) /\ session[s].kind # "cart" /\ Commit(s, session[s].amount, FALSE)
        /\ UNCHANGED <<hold, lastCart, horizon, code, editing, product>>
    BY <1>3 DEF FulfillDonation, shop
  <2>2. HoldOK'
    BY <1>1, <2>1 DEF HoldOK
  <2> QED
    BY <1>1, <2>1, <2>2 DEF FulfilMove
<1>4. CASE FulfillPassPurchase(s)
  <2>1. /\ ~Existing(s) /\ session[s].kind # "cart" /\ Commit(s, product.price, FALSE)
        /\ UNCHANGED <<hold, lastCart, horizon, code, editing, product>>
    BY <1>4 DEF FulfillPassPurchase, shop
  <2>2. HoldOK' /\ product.price \in Nat
    BY <1>1, <2>1, AmountsAreNat DEF HoldOK
  <2> QED
    BY <1>1, <2>1, <2>2 DEF FulfilMove
<1> QED
  BY <1>2, <1>3, <1>4 DEF Fulfil

LEMMA MoneyFulfil ==
  ASSUME MoneyInv, NEW s \in DOMAIN session, Fulfil(s)
  PROVE  MoneyInv'
<1>1. FulfilMove(s)
  BY FulfilMoves
<1>2. PICK total \in Nat, coded \in BOOLEAN : Commit(s, total, coded)
  BY <1>1 DEF FulfilMove
<1>3. /\ orders' \in Seq(OrderRow) /\ UNCHANGED <<answered, gaveUp, session>>
      /\ mailing' = mailing \cup {Len(orders) + 1}
      /\ DOMAIN orders' = DOMAIN orders \cup {Len(orders) + 1}
  BY <1>2, CommitRows DEF Order
<1>4. mailing' \subseteq DOMAIN orders'
  BY <1>3 DEF MoneyInv, TypeOK
<1>5. hold' \in [DOMAIN hold' -> Row] /\ DOMAIN hold' \subseteq 1 .. lastCart'
  BY <1>1 DEF FulfilMove, HoldOK, MoneyInv, TypeOK
<1>6. PromoLeavesSomethingToPay'
  BY <1>1 DEF FulfilMove, HoldOK, Payable, PromoLeavesSomethingToPay
<1> QED
  BY <1>1, <1>3, <1>4, <1>5, <1>6 DEF FulfilMove, MoneyInv, TypeOK

(* The answers that make no order. *)
Refuse(s) == HoldGone(s) \/ AvailabilityChanged(s) \/ PassRetired(s) \/ AlreadyFulfilled(s)

LEMMA MoneyRefuse ==
  ASSUME MoneyInv, NEW s \in DOMAIN session, Refuse(s)
  PROVE  MoneyInv'
<1>1. s \in Session
  BY DEF MoneyInv, TypeOK
<1>2. /\ UNCHANGED <<hold, lastCart, horizon, code, editing, product, session, orders, mailing>>
      /\ answered' \subseteq answered \cup {s} /\ gaveUp' \subseteq gaveUp \cup {s}
  BY DEF Refuse, HoldGone, AvailabilityChanged, PassRetired, AlreadyFulfilled, shop, stripe
<1> QED
  BY <1>1, <1>2 DEF MoneyInv, TypeOK, PromoLeavesSomethingToPay

LEMMA OrderRows == MoneyInv => \A o \in Order : orders[o] \in OrderRow
BY DEF MoneyInv, TypeOK, Order

LEMMA SendReceiptRows ==
  ASSUME MoneyInv, NEW o \in Order, SendReceipt(o)
  PROVE  /\ orders' \in Seq(OrderRow) /\ Order' = Order
         /\ \A k \in Order : /\ orders'[k].session = orders[k].session
                             /\ orders'[k].cart = orders[k].cart
                             /\ orders'[k].coded = orders[k].coded
                             /\ orders'[k].receipts = orders[k].receipts + (IF k = o THEN 1 ELSE 0)
<1> DEFINE n == orders[o].receipts + 1
           r == [orders[o] EXCEPT !.receipts = n]
<1>1. orders \in Seq(OrderRow) /\ orders[o] \in OrderRow /\ \A k \in Order : orders[k] \in OrderRow
  BY OrderRows DEF MoneyInv, TypeOK
<1>2. orders' = [orders EXCEPT ![o] = r]
  BY DEF SendReceipt
<1>3. n \in Nat
  BY <1>1 DEF OrderRow
<1> HIDE DEF n
<1>4. /\ r \in OrderRow /\ r.session = orders[o].session /\ r.cart = orders[o].cart
      /\ r.coded = orders[o].coded /\ r.receipts = n
  BY <1>1, <1>3 DEF OrderRow
<1> HIDE DEF r
<1>5. /\ orders' \in Seq(OrderRow) /\ Order' = Order /\ orders'[o] = r
      /\ \A k \in Order : k # o => orders'[k] = orders[k]
  BY <1>1, <1>2, <1>4 DEF Order
<1>6. \A k \in Order : orders[k].receipts + 0 = orders[k].receipts
  BY <1>1 DEF OrderRow
<1> QED
  BY <1>4, <1>5, <1>6 DEF n

LEMMA MoneyReceipt ==
  ASSUME MoneyInv, NEW o \in Order, SendReceipt(o) \/ ReceiptFails(o)
  PROVE  MoneyInv'
<1>1. orders[o].session \in Session
  BY OrderRows DEF OrderRow
<1>2. UNCHANGED <<hold, lastCart, horizon, code, editing, product, session, gaveUp>>
      /\ mailing' = mailing \ {o} /\ answered' \subseteq answered \cup {orders[o].session}
  BY DEF SendReceipt, ReceiptFails, shop, stripe
<1>3. orders' \in Seq(OrderRow) /\ DOMAIN orders' = DOMAIN orders
  BY SendReceiptRows DEF ReceiptFails, MoneyInv, TypeOK, Order
<1> QED
  BY <1>1, <1>2, <1>3 DEF MoneyInv, TypeOK, PromoLeavesSomethingToPay

-----------------------------------------------------------------------------
(* Records: one order per payment and per cart, given up or fulfilled *)

LEMMA RecordCart == ASSUME IInv, CartNext PROVE RecordInv'
<1>1. CartMove /\ MoneyInv /\ RecordInv
  BY CartRows DEF IInv
<1>2. /\ UNCHANGED <<session, answered, gaveUp, orders, mailing>>
      /\ lastCart' >= lastCart /\ horizon' >= horizon
      /\ lastCart \in Nat /\ horizon \in Nat /\ lastCart' \in Nat /\ horizon' \in Nat
      /\ \A c \in DOMAIN hold' : c \in DOMAIN hold \/ c > lastCart
      /\ \A c \in DOMAIN hold' : c \in Nat
      /\ \A c \in DOMAIN hold : c \in Nat
  BY <1>1, CheckoutBounds DEF CartMove, MoneyInv, TypeOK, stripe, desk
<1>3. /\ \A s \in DOMAIN session : session[s].cart \in Nat
      /\ \A o \in Order : orders[o].cart \in Nat
  BY <1>1, OrderRows, CheckoutBounds DEF MoneyInv, TypeOK, SessionRow, OrderRow
<1>4. SessionsNameCarts'
  BY <1>1, <1>2, <1>3 DEF RecordInv, SessionsNameCarts
<1>5. SoldCartsGone'
  BY <1>1, <1>2, <1>3 DEF RecordInv, SoldCartsGone, Order
<1>6. GivenUpCartsGone'
  <2>1. ASSUME NEW s \in gaveUp
        PROVE  s \in DOMAIN session /\ session[s].kind = "cart" /\ ~Active(session[s].cart)'
    <3>1. /\ s \in DOMAIN session /\ session[s].kind = "cart" /\ ~Active(session[s].cart)
          /\ session[s].cart <= lastCart
      BY <1>1, <2>1 DEF RecordInv, GivenUpCartsGone, SessionsNameCarts
    <3> QED
      BY <1>2, <1>3, <3>1 DEF Active
  <2> QED
    BY <1>2, <2>1 DEF GivenUpCartsGone, Active
<1>7. OnePaymentOneOrder' /\ OneOrderPerCart' /\ GivenUpHasNoOrder' /\ OneReceipt'
  BY <1>1, <1>2 DEF RecordInv, OnePaymentOneOrder, OneOrderPerCart, GivenUpHasNoOrder, OneReceipt, Order
<1> QED
  BY <1>4, <1>5, <1>6, <1>7 DEF RecordInv

LEMMA RecordSame ==
  ASSUME IInv, UNCHANGED <<hold, lastCart, horizon, session, gaveUp, orders, mailing>>
  PROVE  RecordInv'
BY DEF IInv, RecordInv, SessionsNameCarts, SoldCartsGone, GivenUpCartsGone, OnePaymentOneOrder,
       OneOrderPerCart, GivenUpHasNoOrder, OneReceipt, Order, Active

LEMMA RecordSession == ASSUME IInv, SessionNext PROVE RecordInv'
<1>1. SessionMove /\ MoneyInv /\ RecordInv
  BY SessionRows DEF IInv
<1>2. UNCHANGED <<hold, lastCart, horizon, gaveUp, orders, mailing>>
  BY <1>1 DEF SessionMove, shop, desk
<1>3. SessionsNameCarts'
  <2>1. ASSUME NEW s \in DOMAIN session'
        PROVE  session'[s].cart <= lastCart /\ (session'[s].kind = "cart" <=> session'[s].cart # 0)
    <3>1. CASE s \in DOMAIN session
      BY <1>1, <3>1 DEF SessionMove, RecordInv, SessionsNameCarts
    <3>2. CASE s \notin DOMAIN session
      BY <1>1, <2>1, <3>2 DEF SessionMove
    <3> QED
      BY <3>1, <3>2
  <2> QED
    BY <1>2, <2>1 DEF SessionsNameCarts
<1>4. GivenUpCartsGone'
  BY <1>1, <1>2 DEF SessionMove, RecordInv, GivenUpCartsGone, Active
<1>5. SoldCartsGone' /\ OnePaymentOneOrder' /\ OneOrderPerCart' /\ GivenUpHasNoOrder' /\ OneReceipt'
  BY <1>1, <1>2 DEF RecordInv, SoldCartsGone, OnePaymentOneOrder, OneOrderPerCart,
                    GivenUpHasNoOrder, OneReceipt, Order
<1> QED
  BY <1>3, <1>4, <1>5 DEF RecordInv

LEMMA RecordFulfil ==
  ASSUME IInv, NEW s \in DOMAIN session, Fulfil(s)
  PROVE  RecordInv'
<1> DEFINE n == Len(orders) + 1
<1>1. FulfilMove(s) /\ MoneyInv /\ RecordInv
  BY FulfilMoves DEF IInv
<1>2. PICK total \in Nat, coded \in BOOLEAN : Commit(s, total, coded)
  BY <1>1 DEF FulfilMove
<1>3. /\ Order' = Order \cup {n} /\ n \notin Order
      /\ \A o \in Order : orders'[o] = orders[o]
      /\ orders'[n].session = s /\ orders'[n].cart = session[s].cart /\ orders'[n].receipts = 0
      /\ mailing' = mailing \cup {n} /\ mailing \subseteq Order
      /\ UNCHANGED <<gaveUp, session>>
  BY <1>1, <1>2, CommitRows DEF MoneyInv, TypeOK, Order
<1> HIDE DEF n
<1>4. /\ DOMAIN hold' \subseteq DOMAIN hold /\ UNCHANGED <<lastCart, horizon>>
      /\ session[s].cart \notin DOMAIN hold' /\ session[s].cart <= lastCart
      /\ session[s].cart # 0 => Active(session[s].cart)
  <2>1. 0 \notin DOMAIN hold /\ (session[s].kind = "cart" <=> session[s].cart # 0)
        /\ session[s].cart <= lastCart
    BY <1>1 DEF MoneyInv, TypeOK, RecordInv, SessionsNameCarts
  <2> QED
    BY <1>1, <2>1 DEF FulfilMove
<1>5. SessionsNameCarts'
  BY <1>1, <1>3, <1>4 DEF RecordInv, SessionsNameCarts
<1>6. SoldCartsGone'
  BY <1>1, <1>3, <1>4 DEF RecordInv, SoldCartsGone
<1>7. GivenUpCartsGone' /\ s \notin gaveUp
  <2>1. s \notin gaveUp
    BY <1>1 DEF FulfilMove, RecordInv, GivenUpCartsGone, Fulfil
  <2> QED
    BY <1>1, <1>3, <1>4, <2>1 DEF RecordInv, GivenUpCartsGone, Active
<1>8. OnePaymentOneOrder'
  <2>1. \A o \in Order : orders[o].session # s
    BY <1>1 DEF FulfilMove, Existing
  <2> QED
    BY <1>1, <1>3, <2>1 DEF RecordInv, OnePaymentOneOrder
<1>9. OneOrderPerCart'
  <2>1. \A o \in Order : session[s].cart # 0 => orders[o].cart # session[s].cart
    BY <1>1, <1>4 DEF RecordInv, SoldCartsGone, Active
  <2> QED
    BY <1>1, <1>3, <2>1 DEF RecordInv, OneOrderPerCart
<1>10. GivenUpHasNoOrder'
  BY <1>1, <1>3, <1>7 DEF RecordInv, GivenUpHasNoOrder
<1>11. OneReceipt'
  BY <1>1, <1>3 DEF RecordInv, OneReceipt
<1> QED
  BY <1>5, <1>6, <1>7, <1>8, <1>9, <1>10, <1>11 DEF RecordInv

LEMMA RecordRefuse ==
  ASSUME IInv, NEW s \in DOMAIN session, Refuse(s)
  PROVE  RecordInv'
<1>1. RecordInv
  BY DEF IInv
<1>2. CASE HoldGone(s)
  <2>1. /\ UNCHANGED <<hold, lastCart, horizon, session, orders, mailing>>
        /\ gaveUp' = gaveUp \cup {s}
        /\ ~Existing(s) /\ session[s].kind = "cart" /\ ~Active(session[s].cart)
    BY <1>2 DEF HoldGone, shop, stripe
  <2>2. GivenUpCartsGone'
    BY <1>1, <2>1 DEF RecordInv, GivenUpCartsGone, Active
  <2>3. GivenUpHasNoOrder'
    BY <1>1, <2>1 DEF RecordInv, GivenUpHasNoOrder, Existing, Order
  <2>4. /\ SessionsNameCarts' /\ SoldCartsGone' /\ OnePaymentOneOrder'
        /\ OneOrderPerCart' /\ OneReceipt'
    BY <1>1, <2>1 DEF RecordInv, SessionsNameCarts, SoldCartsGone, OnePaymentOneOrder,
                      OneOrderPerCart, OneReceipt, Order
  <2> QED
    BY <2>2, <2>3, <2>4 DEF RecordInv
<1>3. CASE AvailabilityChanged(s) \/ PassRetired(s) \/ AlreadyFulfilled(s)
  <2>1. UNCHANGED <<hold, lastCart, horizon, session, gaveUp, orders, mailing>>
    BY <1>3 DEF AvailabilityChanged, PassRetired, AlreadyFulfilled, shop, stripe
  <2> QED
    BY <2>1, RecordSame
<1> QED
  BY <1>2, <1>3 DEF Refuse

LEMMA RecordReceipt ==
  ASSUME IInv, NEW o \in Order, SendReceipt(o) \/ ReceiptFails(o)
  PROVE  RecordInv'
<1>1. RecordInv /\ MoneyInv
  BY DEF IInv
<1>2. /\ UNCHANGED <<hold, lastCart, horizon, session, gaveUp>>
      /\ mailing' = mailing \ {o} /\ o \in mailing
  BY DEF SendReceipt, ReceiptFails, shop, stripe
<1>3. /\ Order' = Order
      /\ \A k \in Order : /\ orders'[k].session = orders[k].session
                          /\ orders'[k].cart = orders[k].cart
                          /\ orders[k].receipts \in Nat /\ orders'[k].receipts \in Nat
                          /\ k # o => orders'[k].receipts = orders[k].receipts
                          /\ k = o => orders'[k].receipts <= orders[k].receipts + 1
  <2>1. \A k \in Order : orders[k].receipts \in Nat
    BY <1>1, OrderRows DEF OrderRow
  <2>2. CASE SendReceipt(o)
    BY <1>1, <2>1, <2>2, SendReceiptRows
  <2>3. CASE ReceiptFails(o)
    BY <2>1, <2>3 DEF ReceiptFails, Order
  <2> QED
    BY <2>2, <2>3
<1>4. OneReceipt'
  BY <1>1, <1>2, <1>3 DEF RecordInv, OneReceipt
<1>5. /\ SessionsNameCarts' /\ SoldCartsGone' /\ GivenUpCartsGone' /\ OnePaymentOneOrder'
      /\ OneOrderPerCart' /\ GivenUpHasNoOrder'
  BY <1>1, <1>2, <1>3 DEF RecordInv, SessionsNameCarts, SoldCartsGone, GivenUpCartsGone,
                          OnePaymentOneOrder, OneOrderPerCart, GivenUpHasNoOrder, Active
<1> QED
  BY <1>4, <1>5 DEF RecordInv

-----------------------------------------------------------------------------
(* The inductive invariant *)

LEMMA InitIsInvariant == Init => IInv
<1> SUFFICES ASSUME Init
             PROVE  IInv
  OBVIOUS
<1>1. /\ DOMAIN hold = {} /\ DOMAIN session = {} /\ Order = {} /\ orders = <<>>
      /\ lastCart = 0 /\ horizon = 0 /\ gaveUp = {} /\ answered = {} /\ mailing = {} /\ editing = {}
  BY DEF Init, Order
<1>2. hold \in [DOMAIN hold -> Row] /\ session \in [DOMAIN session -> SessionRow]
  BY DEF Init
<1>3. code \in PromoRow /\ product \in [price : Price, active : BOOLEAN]
  <2>1. {TRUE} \subseteq BOOLEAN /\ {0} \subseteq Nat
    OBVIOUS
  <2>2. [value : Off, active : {TRUE}, uses : {0}] \subseteq PromoRow
    BY <2>1, Zenon DEF PromoRow
  <2>3. [price : Price, active : {TRUE}] \subseteq [price : Price, active : BOOLEAN]
    BY <2>1, Zenon
  <2> QED
    BY <2>2, <2>3, Zenon DEF Init
<1>4. orders \in Seq(OrderRow)
  BY <1>1
<1>5. TypeOK
  BY <1>1, <1>2, <1>3, <1>4, CheckoutBounds DEF TypeOK
<1>6. PromoLeavesSomethingToPay
  BY <1>1 DEF PromoLeavesSomethingToPay
<1>7. RecordInv
  BY <1>1 DEF RecordInv, SessionsNameCarts, SoldCartsGone, GivenUpCartsGone, OnePaymentOneOrder,
              OneOrderPerCart, GivenUpHasNoOrder, OneReceipt
<1> QED
  BY <1>5, <1>6, <1>7 DEF IInv, MoneyInv

LEMMA StepKeepsInvariant == IInv /\ [Next]_vars => IInv'
<1> SUFFICES ASSUME IInv, [Next]_vars
             PROVE  MoneyInv' /\ RecordInv'
  BY DEF IInv
<1>1. MoneyInv
  BY DEF IInv
<1>2. CASE CartNext
  BY <1>1, <1>2, MoneyCart, RecordCart
<1>3. CASE SessionNext
  BY <1>1, <1>3, MoneySession, RecordSession
<1>4. CASE StaffNext
  <2>1. UNCHANGED <<hold, lastCart, horizon, session, gaveUp, orders, mailing>>
    BY <1>4 DEF StaffNext, PromoDeactivate, LoadPromo, SavePromo, EditPassProduct, PassToggle, stripe, desk
  <2> QED
    BY <1>1, <1>4, <2>1, MoneyStaff, RecordSame
<1>5. ASSUME NEW s \in DOMAIN session, StripeWebhook(s)
      PROVE  MoneyInv' /\ RecordInv'
  <2>1. Fulfil(s) \/ Refuse(s)
    BY <1>5 DEF StripeWebhook, Fulfil, Refuse
  <2> QED
    BY <1>1, <2>1, MoneyFulfil, RecordFulfil, MoneyRefuse, RecordRefuse
<1>6. ASSUME NEW o \in Order, SendReceipt(o) \/ ReceiptFails(o)
      PROVE  MoneyInv' /\ RecordInv'
  BY <1>1, <1>6, MoneyReceipt, RecordReceipt
<1>7. CASE UNCHANGED vars
  BY <1>1, <1>7, RecordSame DEF vars, MoneyInv, TypeOK, PromoLeavesSomethingToPay
<1>8. Next => \/ CartNext \/ SessionNext \/ StaffNext
              \/ \E s \in DOMAIN session : StripeWebhook(s)
              \/ \E o \in Order : SendReceipt(o) \/ ReceiptFails(o)
  BY Zenon DEF Next, BuyerNext, StripeNext, CartNext, SessionNext
<1> QED
  BY <1>2, <1>3, <1>4, <1>5, <1>6, <1>7, <1>8

LEMMA Invariance == Spec => []IInv
BY InitIsInvariant, StepKeepsInvariant, PTL DEF Spec

-----------------------------------------------------------------------------
(* The theorems *)

(* Totals and amounts are natural numbers, whatever staff do to the code and  *)
(* the pass while buyers pay: a session's amount is never negative.           *)
THEOREM MoneyTypeCorrect == Spec => []TypeOK
<1>1. IInv => TypeOK
  BY DEF IInv, MoneyInv
<1> QED
  BY <1>1, Invariance, PTL

(* No cart is discounted to nothing, or below.                                *)
THEOREM AlwaysSomethingToPay == Spec => []PromoLeavesSomethingToPay
<1>1. IInv => PromoLeavesSomethingToPay
  BY DEF IInv, MoneyInv
<1> QED
  BY <1>1, Invariance, PTL

(* One payment makes one order, however often its event is delivered and      *)
(* without recourse to the unique column stripe_checkout_session_id.          *)
THEOREM PaymentsFulfilledOnce == Spec => []OnePaymentOneOrder
<1>1. IInv => OnePaymentOneOrder
  BY DEF IInv, RecordInv
<1> QED
  BY <1>1, Invariance, PTL

(* One cart makes one order, however many sessions are opened for it.         *)
THEOREM CartsSoldOnce == Spec => []OneOrderPerCart
<1>1. IInv => OneOrderPerCart
  BY DEF IInv, RecordInv
<1> QED
  BY <1>1, Invariance, PTL

(* "Payment succeeded but nothing was fulfilled" is true when it is logged    *)
(* and remains true: the cart never becomes active again.                     *)
THEOREM GivenUpForGood == Spec => []GivenUpHasNoOrder
<1>1. IInv => GivenUpHasNoOrder
  BY DEF IInv, RecordInv
<1> QED
  BY <1>1, Invariance, PTL

(* No second receipt, whichever answers are lost.                             *)
THEOREM NoSecondReceipt == Spec => []OneReceipt
<1>1. IInv => OneReceipt
  BY DEF IInv, RecordInv
<1> QED
  BY <1>1, Invariance, PTL

-----------------------------------------------------------------------------
(* Refinement: the desk keeps the ledger of payments *)

(* Nothing is handed over where the orders and the log stay as they are. *)
LEMMA RecordsKept ==
  ASSUME UNCHANGED <<orders, gaveUp>>
  PROVE  Sales' = Sales /\ gaveUp' = gaveUp /\ Receipted' = Receipted
BY DEF Sales, Receipted, Order

LEMMA LedgerSession ==
  ASSUME MoneyInv, SessionNext
  PROVE  [Ledger!BookNext]_(Ledger!book)
<1>1. SessionMove /\ session \in [DOMAIN session -> SessionRow] /\ DOMAIN session \subseteq Session
  BY SessionRows DEF MoneyInv, TypeOK
<1>2. Sales' = Sales /\ gaveUp' = gaveUp /\ Receipted' = Receipted
  BY <1>1, RecordsKept DEF SessionMove, desk
<1>3. ASSUME NEW s \in Session, NEW kind, NEW c, NEW amount, Open(s, kind, c, amount)
      PROVE  Paid' = Paid
  <2>1. s \notin DOMAIN session /\ DOMAIN session' = DOMAIN session \cup {s}
        /\ session'[s].state = "open"
        /\ \A t \in DOMAIN session : session'[t] = session[t]
    BY <1>3 DEF Open, With
  <2> QED
    BY <2>1 DEF Paid
<1>4. ASSUME NEW s \in DOMAIN session, Pay(s) \/ Abandon(s)
      PROVE  Paid' = Paid \/ Paid' = Paid \cup {s}
  <2>1. PICK new \in {"paid", "expired"} :
           session[s].state = "open" /\ session' = [session EXCEPT ![s].state = new]
    BY <1>4 DEF Pay, Abandon
  <2>2. DOMAIN session' = DOMAIN session /\ session'[s].state = new
        /\ \A t \in DOMAIN session : t # s => session'[t] = session[t]
    BY <1>1, <2>1 DEF SessionRow
  <2>3. CASE new = "paid"
    BY <2>1, <2>2, <2>3 DEF Paid
  <2>4. CASE new = "expired"
    BY <2>1, <2>2, <2>4 DEF Paid
  <2> QED
    BY <2>3, <2>4
<1>5. Paid' = Paid \/ \E s \in Session : Paid' = Paid \cup {s}
  BY <1>1, <1>3, <1>4 DEF SessionNext, CreateCheckoutSession, CreateDonationCheckoutSession,
                          CreatePassCheckoutSession
<1> QED
  BY <1>2, <1>5 DEF Ledger!BookNext, Ledger!book, Ledger!Collect

LEMMA LedgerFulfil ==
  ASSUME IInv, NEW s \in Paid, Fulfil(s)
  PROVE  Ledger!BookNext
<1> DEFINE n == Len(orders) + 1
<1>1. FulfilMove(s) /\ MoneyInv /\ RecordInv /\ s \in DOMAIN session /\ s \in Session
  BY FulfilMoves DEF IInv, Paid, MoneyInv, TypeOK
<1>2. PICK total \in Nat, coded \in BOOLEAN : Commit(s, total, coded)
  BY <1>1 DEF FulfilMove
<1>3. /\ Order' = Order \cup {n} /\ n \notin Order
      /\ \A o \in Order : orders'[o] = orders[o]
      /\ orders'[n].session = s /\ orders'[n].cart = session[s].cart /\ orders'[n].receipts = 0
      /\ UNCHANGED <<gaveUp, session>>
  BY <1>1, <1>2, CommitRows
<1> HIDE DEF n
<1>4. Paid' = Paid /\ Receipted' = Receipted
  <2>1. {o \in Order' : orders'[o].receipts # 0} = {o \in Order : orders[o].receipts # 0}
    BY <1>3
  <2> QED
    BY <1>3, <2>1 DEF Paid, Receipted
<1>5. Sales' = Sales \cup {[payment |-> s, cart |-> session[s].cart]}
  BY <1>3 DEF Sales
<1>6. s \notin gaveUp /\ ~Ledger!HandedOver(s)
  <2>1. \A o \in Order : orders[o].session # s
    BY <1>1 DEF FulfilMove, Existing
  <2>2. s \notin gaveUp
    BY <1>1 DEF FulfilMove, RecordInv, GivenUpCartsGone, Fulfil
  <2> QED
    BY <2>1, <2>2 DEF Ledger!HandedOver, Sales
<1>7. session[s].cart # 0 => \A x \in Sales : x.cart # session[s].cart
  <2>1. session[s].kind = "cart" <=> session[s].cart # 0
    BY <1>1 DEF RecordInv, SessionsNameCarts
  <2>2. \A o \in Order : session[s].cart # 0 => orders[o].cart # session[s].cart
    BY <1>1, <2>1 DEF FulfilMove, RecordInv, SoldCartsGone, Active
  <2> QED
    BY <2>2 DEF Sales
<1>8. session[s].cart \in Cart \cup {0}
  BY <1>1, CheckoutBounds DEF MoneyInv, TypeOK, SessionRow, Cart
<1>9. Ledger!HandOver(s, session[s].cart)
  BY <1>3, <1>4, <1>5, <1>6, <1>7 DEF Ledger!HandOver
<1> QED
  BY <1>1, <1>8, <1>9 DEF Ledger!BookNext

LEMMA LedgerRefuse ==
  ASSUME IInv, NEW s \in Paid, Refuse(s)
  PROVE  [Ledger!BookNext]_(Ledger!book)
<1>1. s \in Session
  BY DEF IInv, Paid, MoneyInv, TypeOK
<1>2. UNCHANGED <<orders, session>> /\ Paid' = Paid
  BY DEF Refuse, HoldGone, AvailabilityChanged, PassRetired, AlreadyFulfilled, stripe, Paid
<1>3. Sales' = Sales /\ Receipted' = Receipted
  BY <1>2 DEF Sales, Receipted, Order
<1>4. CASE HoldGone(s)
  <2>1. gaveUp' = gaveUp \cup {s} /\ ~Ledger!HandedOver(s)
    BY <1>4 DEF HoldGone, Existing, Ledger!HandedOver, Sales
  <2> QED
    BY <1>1, <1>2, <1>3, <2>1 DEF Ledger!BookNext, Ledger!TurnDown
<1>5. CASE UNCHANGED gaveUp
  BY <1>2, <1>3, <1>5 DEF Ledger!book
<1> QED
  BY <1>4, <1>5 DEF Refuse, AvailabilityChanged, PassRetired, AlreadyFulfilled

LEMMA LedgerReceipt ==
  ASSUME IInv, NEW o \in Order, SendReceipt(o)
  PROVE  Ledger!BookNext
<1> DEFINE p == orders[o].session
<1>1. /\ MoneyInv /\ RecordInv /\ o \in mailing /\ p \in Session
      /\ UNCHANGED <<gaveUp, session>> /\ Paid' = Paid
      /\ \A k \in Order : orders[k].receipts \in Nat
  BY OrderRows DEF IInv, SendReceipt, stripe, OrderRow, Paid
<1>2. /\ Order' = Order
      /\ \A k \in Order : /\ orders'[k].session = orders[k].session
                          /\ orders'[k].cart = orders[k].cart
                          /\ orders'[k].receipts = orders[k].receipts + (IF k = o THEN 1 ELSE 0)
  BY <1>1, SendReceiptRows
<1>3. Sales' = Sales /\ Ledger!HandedOver(p)
  <2>1. [payment |-> p, cart |-> orders[o].cart] \in Sales
    BY DEF Sales
  <2>2. Sales' = {[payment |-> orders[k].session, cart |-> orders[k].cart] : k \in Order}
    BY <1>2 DEF Sales
  <2> QED
    BY <2>1, <2>2 DEF Sales, Ledger!HandedOver
<1>4. orders[o].receipts = 0
  <2>1. orders[o].receipts + 1 <= 1
    BY <1>1 DEF RecordInv, OneReceipt
  <2> QED
    BY <1>1, <2>1
<1>5. p \notin Receipted
  BY <1>1, <1>4 DEF RecordInv, OnePaymentOneOrder, Receipted
<1>6. Receipted' = Receipted \cup {p}
  <2>1. {k \in Order' : orders'[k].receipts # 0} = {k \in Order : orders[k].receipts # 0} \cup {o}
    BY <1>1, <1>2
  <2> QED
    BY <1>2, <2>1 DEF Receipted
<1>7. Ledger!Confirm(p)
  BY <1>1, <1>3, <1>5, <1>6 DEF Ledger!Confirm
<1> QED
  BY <1>1, <1>7 DEF Ledger!BookNext

LEMMA LedgerStep == IInv /\ [Next]_vars => [Ledger!BookNext]_(Ledger!book)
<1> SUFFICES ASSUME IInv, [Next]_vars
             PROVE  [Ledger!BookNext]_(Ledger!book)
  OBVIOUS
<1>1. MoneyInv
  BY DEF IInv
<1>2. CASE UNCHANGED <<session, orders, gaveUp>>
  BY <1>2, RecordsKept DEF Ledger!book, Paid
<1>3. CASE CartNext
  BY <1>1, <1>2, <1>3, CartRows DEF CartMove, stripe, desk
<1>4. CASE SessionNext
  BY <1>1, <1>4, LedgerSession
<1>5. CASE StaffNext
  BY <1>2, <1>5 DEF StaffNext, PromoDeactivate, LoadPromo, SavePromo, EditPassProduct, PassToggle, stripe, desk
<1>6. ASSUME NEW s \in DOMAIN session, StripeWebhook(s)
      PROVE  [Ledger!BookNext]_(Ledger!book)
  <2>1. s \in Paid /\ (Fulfil(s) \/ Refuse(s))
    BY <1>6 DEF StripeWebhook, Fulfil, Refuse
  <2> QED
    BY <2>1, LedgerFulfil, LedgerRefuse
<1>7. ASSUME NEW o \in Order, SendReceipt(o) \/ ReceiptFails(o)
      PROVE  [Ledger!BookNext]_(Ledger!book)
  BY <1>2, <1>7, LedgerReceipt DEF ReceiptFails, stripe
<1>8. CASE UNCHANGED vars
  BY <1>2, <1>8 DEF vars
<1>9. Next => \/ CartNext \/ SessionNext \/ StaffNext
              \/ \E s \in DOMAIN session : StripeWebhook(s)
              \/ \E o \in Order : SendReceipt(o) \/ ReceiptFails(o)
  BY Zenon DEF Next, BuyerNext, StripeNext, CartNext, SessionNext
<1> QED
  BY <1>3, <1>4, <1>5, <1>6, <1>7, <1>8, <1>9

(* The webhook keeps the ledger of payments: whatever is delivered, late,    *)
(* twice or after a lost answer, a payment is handed over once or refused    *)
(* for good, and a receipt is of something handed over.                      *)
THEOREM DeskKeepsLedger == Spec => ImplementsPayments
<1>1. Init => Ledger!BookInit
  BY DEF Init, Ledger!BookInit, Paid, Sales, Receipted, Order
<1>2. IInv /\ [Next]_vars => [Ledger!BookNext]_(Ledger!book)
  BY LedgerStep
<1> QED
  BY <1>1, <1>2, Invariance, PTL DEF Spec, ImplementsPayments, Ledger!BookSpec

-----------------------------------------------------------------------------
(* Counting the uses of the promo code, where no form writes old rows back *)

Coded == {o \in Order : orders[o].coded}

CountInv == IInv /\ editing = {} /\ UsesCountPaidCodes

LEMMA CountFulfil ==
  ASSUME CountInv, NEW s \in DOMAIN session, Fulfil(s)
  PROVE  UsesCountPaidCodes'
<1> DEFINE n == Len(orders) + 1
<1>1. MoneyInv /\ code.uses \in Nat /\ code.uses = Cardinality(Coded)
  BY DEF CountInv, IInv, MoneyInv, TypeOK, PromoRow, UsesCountPaidCodes, Coded
<1>2. IsFiniteSet(Coded)
  <2>1. Order = 1 .. Len(orders) /\ Len(orders) \in Nat
    BY <1>1 DEF MoneyInv, TypeOK, Order
  <2>2. IsFiniteSet(Order)
    BY <2>1, FS_Interval
  <2> QED
    BY <2>2, FS_Subset DEF Coded
<1>3. ASSUME NEW total \in Nat, NEW coded \in BOOLEAN, Commit(s, total, coded),
             code'.uses = IF coded THEN code.uses + 1 ELSE code.uses
      PROVE  UsesCountPaidCodes'
  <2>1. /\ Order' = Order \cup {n} /\ n \notin Order /\ orders'[n].coded = coded
        /\ \A o \in Order : orders'[o] = orders[o]
    BY <1>1, <1>3, CommitRows
  <2> HIDE DEF n
  <2>2. Coded' = IF coded THEN Coded \cup {n} ELSE Coded
    BY <2>1 DEF Coded
  <2>3. Cardinality(Coded \cup {n}) = Cardinality(Coded) + 1
    BY <1>2, <2>1, FS_AddElement DEF Coded
  <2>4. code'.uses = Cardinality(Coded')
    BY <1>1, <1>3, <2>2, <2>3
  <2> QED
    BY <2>4 DEF UsesCountPaidCodes, Coded
<1>4. CASE FulfillHold(s)
  <2> DEFINE c == session[s].cart
  <2>1. /\ c \in DOMAIN hold /\ Commit(s, GrandTotal(hold[c]), hold[c].coded)
        /\ code' = IF hold[c].coded THEN [code EXCEPT !.uses = @ + 1] ELSE code
    BY <1>4 DEF FulfillHold, Active
  <2>2. hold[c] \in Row /\ code \in PromoRow
    BY <1>1, <2>1 DEF MoneyInv, TypeOK
  <2>3. hold[c].coded \in BOOLEAN /\ GrandTotal(hold[c]) \in Nat
    <3>1. hold[c].subtotal \in Nat /\ hold[c].discount \in Nat /\ hold[c].gift \in Nat
      BY <2>2, AmountsAreNat DEF Row
    <3> QED
      BY <2>2, <3>1 DEF Row, GrandTotal, Greatest
  <2>4. code'.uses = IF hold[c].coded THEN code.uses + 1 ELSE code.uses
    BY <2>1, <2>2 DEF PromoRow
  <2> QED
    BY <1>3, <2>1, <2>3, <2>4
<1>5. CASE FulfillDonation(s)
  <2>1. session[s].amount \in Nat
    BY <1>1 DEF MoneyInv, TypeOK, SessionRow
  <2> QED
    BY <1>3, <1>5, <2>1 DEF FulfillDonation, shop
<1>6. CASE FulfillPassPurchase(s)
  <2>1. product.price \in Nat
    BY <1>1, AmountsAreNat DEF MoneyInv, TypeOK
  <2> QED
    BY <1>3, <1>6, <2>1 DEF FulfillPassPurchase, shop
<1> QED
  BY <1>4, <1>5, <1>6 DEF Fulfil

LEMMA CountStep == Editor = {} /\ CountInv /\ [Next]_vars => CountInv'
<1> SUFFICES ASSUME Editor = {}, CountInv, [Next]_vars
             PROVE  editing' = {} /\ UsesCountPaidCodes'
  BY StepKeepsInvariant DEF CountInv
<1>1. MoneyInv /\ editing = {} /\ UsesCountPaidCodes
  BY DEF CountInv, IInv
<1>2. ASSUME code'.uses = code.uses, editing' = editing, Order' = Order,
             \A o \in Order : orders'[o].coded = orders[o].coded
      PROVE  editing' = {} /\ UsesCountPaidCodes'
  BY <1>1, <1>2 DEF UsesCountPaidCodes
<1>3. CASE CartNext
  BY <1>1, <1>2, <1>3, CartRows DEF CartMove, desk, Order
<1>4. CASE SessionNext
  BY <1>1, <1>2, <1>4, SessionRows DEF SessionMove, shop, desk, Order
<1>5. CASE StaffNext
  <2>1. code'.uses = code.uses /\ editing' = editing /\ orders' = orders
    BY <1>1, <1>5 DEF StaffNext, PromoDeactivate, LoadPromo, SavePromo, EditPassProduct, PassToggle,
                      desk, MoneyInv, TypeOK, PromoRow
  <2> QED
    BY <1>2, <2>1 DEF Order
<1>6. ASSUME NEW s \in DOMAIN session, Fulfil(s)
      PROVE  editing' = {} /\ UsesCountPaidCodes'
  BY <1>1, <1>6, CountFulfil, FulfilMoves DEF FulfilMove
<1>7. ASSUME NEW s \in DOMAIN session, Refuse(s)
      PROVE  editing' = {} /\ UsesCountPaidCodes'
  BY <1>2, <1>7 DEF Refuse, HoldGone, AvailabilityChanged, PassRetired, AlreadyFulfilled, shop, Order
<1>8. ASSUME NEW o \in Order, SendReceipt(o) \/ ReceiptFails(o)
      PROVE  editing' = {} /\ UsesCountPaidCodes'
  <2>1. Order' = Order /\ \A k \in Order : orders'[k].coded = orders[k].coded
    BY <1>1, <1>8, SendReceiptRows DEF ReceiptFails, Order
  <2> QED
    BY <1>2, <1>8, <2>1 DEF SendReceipt, ReceiptFails, shop
<1>9. CASE UNCHANGED vars
  BY <1>2, <1>9 DEF vars, Order
<1>10. Next => \/ CartNext \/ SessionNext \/ StaffNext
               \/ \E s \in DOMAIN session : Fulfil(s) \/ Refuse(s)
               \/ \E o \in Order : SendReceipt(o) \/ ReceiptFails(o)
  BY Zenon DEF Next, BuyerNext, StripeNext, CartNext, SessionNext, StripeWebhook, Fulfil, Refuse
<1> QED
  BY <1>3, <1>4, <1>5, <1>6, <1>7, <1>8, <1>9, <1>10

LEMMA InitCounts == Init => CountInv
<1> SUFFICES ASSUME Init
             PROVE  editing = {} /\ UsesCountPaidCodes
  BY InitIsInvariant DEF CountInv
<1>1. editing = {} /\ Coded = {} /\ code.uses = 0
  BY DEF Init, Coded, Order
<1> QED
  BY <1>1, FS_EmptySet DEF UsesCountPaidCodes, Coded

(* redemption_count is exact for ever, unless somebody saves the promo form.  *)
THEOREM UsesCountedExactly == Editor = {} => (Spec => []UsesCountPaidCodes)
<1> SUFFICES ASSUME Editor = {}
             PROVE  Spec => []UsesCountPaidCodes
  OBVIOUS
<1>1. CountInv /\ [Next]_vars => CountInv'
  BY CountStep
<1>2. CountInv => UsesCountPaidCodes
  BY DEF CountInv
<1> QED
  BY InitCounts, <1>1, <1>2, PTL DEF Spec

-----------------------------------------------------------------------------
(* Money *)

(* Rounding moves an amount by at most half a unit. *)
LEMMA HalfAUnit ==
  ASSUME NEW n \in Nat
  PROVE  ToIntegral(n) \in Nat /\ 100 * ToIntegral(n) - n \in -50 .. 50
  BY DEF ToIntegral

LEMMA Minor ==
  ASSUME NEW n \in Nat
  PROVE  /\ ToMinorUnits(n, "cents") = n
         /\ ToMinorUnits(n, "thousandths") = 10 * n
         /\ ToMinorUnits(n, "whole") = ToIntegral(n)
  BY DEF ToMinorUnits

LEMMA Scaled ==
  ASSUME NEW a \in Int, NEW b \in Int, NEW k \in Nat, a \in -b .. b
  PROVE  k * a \in -(k * b) .. k * b
  OBVIOUS

(* With an accepted discount or none, the session collects the total where   *)
(* amounts have minor units, and in a currency of whole units comes within   *)
(* half a unit for each ticket, the coupon and the gift                      *)
(* (create_checkout_session, hold_grand_total).                              *)
THEOREM SessionsCollectTotals ==
  ASSUME NEW unit \in Nat, NEW quantity \in Nat, NEW discount \in Nat, NEW gift \in Nat,
         NEW currency \in Currency, discount = 0 \/ Leaves(quantity * unit, discount)
  PROVE  Reconciles(unit, quantity, discount, gift, currency)
<1> DEFINE total == NetTotal(unit, quantity, discount, gift)
<1> DEFINE gross == quantity * unit
<1>1. gross \in Nat /\ total = gross - discount + gift /\ total \in Nat /\ discount <= gross
  BY DEF NetTotal, Leaves
<1>2. CASE currency = "cents"
  BY <1>1, <1>2, Minor DEF Reconciles, Charged
<1>3. CASE currency = "thousandths"
  <2>1. Charged(unit, quantity, discount, gift, currency)
          = quantity * (10 * unit) - 10 * discount + 10 * gift
    BY <1>3, Minor DEF Charged
  <2>2. quantity * (10 * unit) = 10 * gross
    OBVIOUS
  <2> HIDE DEF gross
  <2>3. ToMinorUnits(total, currency) = 10 * total
    BY <1>1, <1>3, Minor
  <2> QED
    BY <1>1, <1>3, <2>1, <2>2, <2>3 DEF Reconciles
<1>4. CASE currency = "whole"
  <2> DEFINE u == ToIntegral(unit)
             d == ToIntegral(discount)
             g == ToIntegral(gift)
             off == 100 * u - unit
  <2>1. u \in Nat /\ d \in Nat /\ g \in Nat /\ off \in -50 .. 50
    BY HalfAUnit
  <2>2. 100 * d - discount \in -50 .. 50 /\ 100 * g - gift \in -50 .. 50
    BY HalfAUnit
  <2>3. Charged(unit, quantity, discount, gift, currency) = quantity * u - d + g
    BY <1>4, Minor DEF Charged
  <2>4. quantity * off = 100 * (quantity * u) - gross
    BY <2>1
  <2>5. quantity * off \in -(quantity * 50) .. quantity * 50
    BY <2>1, Scaled
  <2>6. quantity * u \in Nat
    BY <2>1
  <2> DEFINE x == quantity * u
             y == quantity * off
  <2>7. x \in Nat /\ y = 100 * x - gross /\ y \in -(quantity * 50) .. quantity * 50
    BY <2>4, <2>5, <2>6
  <2>8. Charged(unit, quantity, discount, gift, currency) = x - d + g
    BY <2>3
  <2> HIDE DEF gross, total, x, y, u, d, g
  <2>9. 100 * (x - d + g) - total \in -50 * (quantity + 2) .. 50 * (quantity + 2)
    BY <1>1, <2>1, <2>2, <2>7
  <2> QED
    BY <1>4, <2>8, <2>9 DEF Reconciles, total
<1> QED
  BY <1>2, <1>3, <1>4 DEF Currency

(* No accepted discount brings a session down to nothing where amounts have  *)
(* minor units (validate_code, create_checkout_session).                     *)
THEOREM SessionsAreNeverFree ==
  ASSUME NEW unit \in Nat, NEW quantity \in Nat, NEW discount \in Nat, NEW currency \in Currency
  PROVE  SomethingLeft(unit, quantity, discount, currency)
<1> DEFINE gross == quantity * unit
<1>1. gross \in Nat /\ quantity * (10 * unit) = 10 * gross
  OBVIOUS
<1>2. CASE currency = "cents"
  BY <1>1, <1>2, Minor DEF SomethingLeft, Charged, Leaves
<1>3. CASE currency = "thousandths"
  <2>1. Charged(unit, quantity, discount, 0, currency) = quantity * (10 * unit) - 10 * discount
    BY <1>3, Minor DEF Charged
  <2>2. SomethingLeft(unit, quantity, discount, currency) <=>
          (discount < gross => Charged(unit, quantity, discount, 0, currency) > 0)
    BY <1>3 DEF SomethingLeft, Leaves
  <2> HIDE DEF gross
  <2> QED
    BY <1>1, <2>1, <2>2
<1> QED
  BY <1>2, <1>3 DEF Currency, SomethingLeft

(* A percentage of at most a hundred never exceeds what it is taken off: the *)
(* floor in compute_discount and the one in hold_grand_total never bite.     *)
THEOREM PercentWithinSubtotal ==
  ASSUME NEW subtotal \in Nat, NEW percent \in 0 .. 10000
  PROVE  PercentOff(subtotal, percent) \in 0 .. subtotal
<1>1. subtotal * percent \in Nat /\ subtotal * percent <= 10000 * subtotal
  OBVIOUS
<1> DEFINE part == subtotal * percent
<1>2. PercentOff(subtotal, percent) = (2 * part + 10000) \div 20000
  BY DEF PercentOff
<1>3. part \in Nat /\ part <= 10000 * subtotal
  BY <1>1
<1> HIDE DEF part
<1> QED
  BY <1>2, <1>3

(* The amounts of a cart, one by one. *)
LEMMA CartAmounts ==
  /\ \A unit \in Unit : unit \in Nat
  /\ \A quantity \in Quantity : quantity \in Nat
  /\ \A gift \in Present : gift \in Nat
  /\ \A percent \in Percent : percent \in 0 .. 10000
  /\ \A value \in Fixed : value \in Nat
<1>1. \A unit \in Unit : unit \in Nat
  BY MoneyAmounts
<1>2. \A quantity \in Quantity : quantity \in Nat
  BY MoneyAmounts
<1>3. \A gift \in Present : gift \in Nat
  BY MoneyAmounts
<1>4. \A percent \in Percent : percent \in 0 .. 10000
  BY MoneyAmounts
<1>5. \A value \in Fixed : value \in Nat
  BY MoneyAmounts
<1> QED
  BY <1>1, <1>2, <1>3, <1>4, <1>5

(* Whatever a code takes off a cart, by percentage or amount, is accepted.   *)
LEMMA CouponsFit ==
  ASSUME NEW cart, NEW subtotal \in Nat, NEW discount \in Coupons(cart, subtotal)
  PROVE  discount \in Nat /\ (discount = 0 \/ Leaves(subtotal, discount))
<1>1. ASSUME NEW percent \in Percent
      PROVE  PercentOff(subtotal, percent) \in Nat
  <2>1. percent \in 0 .. 10000
    BY CartAmounts
  <2>2. subtotal * percent \in Nat
    BY <2>1
  <2> DEFINE part == subtotal * percent
  <2>3. PercentOff(subtotal, percent) = (2 * part + 10000) \div 20000
    BY <2>1 DEF PercentOff
  <2>4. part \in Nat
    BY <2>2
  <2> HIDE DEF part
  <2> QED
    BY <2>3, <2>4
<1>2. \A value \in Fixed : FixedOff(subtotal, value) \in Nat
  BY CartAmounts DEF FixedOff
<1>3. \A d \in Discounts(subtotal) : d \in Nat
  BY <1>1, <1>2 DEF Discounts
<1> QED
  BY <1>3 DEF Coupons

(* Whatever is in a cart when its session is opened, at any prices and in    *)
(* any currency, Stripe collects the total of the order                      *)
(* (create_checkout_session against hold_grand_total).                       *)
THEOREM ChargesAddUp == Spec => ChargesReconcile
<1>1. ASSUME NEW cart, NEW unit \in Unit, NEW quantity \in Quantity, NEW currency \in Currency,
             NEW gift \in Gifts(cart), NEW discount \in Coupons(cart, quantity * unit)
      PROVE  Reconciles(unit, quantity, discount, gift, currency)
  <2>1. unit \in Nat /\ quantity \in Nat
    BY CartAmounts
  <2>2. quantity * unit \in Nat
    BY <2>1
  <2>3. gift \in Nat
    <3>1. gift \in {0} \cup Present
      BY DEF Gifts
    <3> QED
      BY <3>1, CartAmounts
  <2>4. discount \in Nat /\ (discount = 0 \/ Leaves(quantity * unit, discount))
    BY <2>2, CouponsFit
  <2> QED
    BY <2>1, <2>3, <2>4, SessionsCollectTotals
<1>2. \A s \in DOMAIN session' \ DOMAIN session : session'[s].kind = "cart" =>
         LET cart == hold[session'[s].cart]
         IN  \A unit \in Unit, quantity \in Quantity, currency \in Currency, gift \in Gifts(cart) :
                 \A discount \in Coupons(cart, quantity * unit) :
                     Reconciles(unit, quantity, discount, gift, currency)
  BY <1>1
<1> QED
  BY <1>2, PTL DEF ChargesReconcile
=============================================================================
