---------------------------- MODULE PaymentLedger ----------------------------
(***************************************************************************)
(* What the shop promises whoever pays, with no holds, no Stripe sessions  *)
(* under way, no events and no promo codes: a payment that was collected   *)
(* is handed over once, or refused for good, never both; what one cart     *)
(* held is handed over for one payment; nothing is handed over unpaid or   *)
(* taken back; and a receipt is of something handed over.                  *)
(***************************************************************************)
EXTENDS Naturals

CONSTANTS Payment,  \* the payments there may be
          Cart      \* the carts there may be; 0 is a payment without one

VARIABLES collected,  \* the payments whose money came in
          sold,       \* what was handed over: a payment and its cart
          refused,    \* the payments logged as having nothing to fulfil
          receipted   \* the payments whose receipt went out

book == <<collected, sold, refused, receipted>>

BookInit == collected = {} /\ sold = {} /\ refused = {} /\ receipted = {}

HandedOver(p) == \E x \in sold : x.payment = p

Collect(p) == /\ collected' = collected \cup {p}
              /\ UNCHANGED <<sold, refused, receipted>>

HandOver(p, c) ==
    /\ p \in collected \ refused
    /\ ~HandedOver(p)
    /\ c # 0 => \A x \in sold : x.cart # c
    /\ sold' = sold \cup {[payment |-> p, cart |-> c]}
    /\ UNCHANGED <<collected, refused, receipted>>

TurnDown(p) ==
    /\ p \in collected
    /\ ~HandedOver(p)
    /\ refused' = refused \cup {p}
    /\ UNCHANGED <<collected, sold, receipted>>

Confirm(p) ==
    /\ HandedOver(p)
    /\ p \notin receipted
    /\ receipted' = receipted \cup {p}
    /\ UNCHANGED <<collected, sold, refused>>

BookNext == \E p \in Payment : \/ Collect(p) \/ TurnDown(p) \/ Confirm(p)
                               \/ \E c \in Cart \cup {0} : HandOver(p, c)

BookSpec == BookInit /\ [][BookNext]_book
=============================================================================
