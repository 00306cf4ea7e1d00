------------------------------- MODULE Passes -------------------------------
(***************************************************************************)
(* Passes after their sale: redeeming one for tickets, and giving back     *)
(* what was redeemed when staff refund or cancel an order                  *)
(* (fulfill_hold_with_pass and refund_order in payments/services.py,       *)
(* passes/services.py, order_cancel in dashboard/views.py).                *)
(*                                                                         *)
(* refund_order is one transaction and so one action.  order_cancel is not *)
(* a transaction: it and the restore_redemptions_for_order it calls are    *)
(* the steps of a Clerk, with everybody else's in between, and the request *)
(* may die after any of them.                                              *)
(*                                                                         *)
(* An order is a redemption (a number) or the sale of a pass (the pass).   *)
(* Inventory is the subject of Inventory, a call that raises is no step,   *)
(* and the dates a pass is valid between are such a refusal.               *)
(***************************************************************************)
EXTENDS Naturals, FiniteSets

CONSTANTS FlexPass,     \* PassPurchase rows of kind FLEX
          SeasonPass,   \* PassPurchase rows of kind SEASON
          Event,        \* events with performances
          Covers,       \* the <<pass, event>> pairs of covered_events
          Clerk,        \* slots for order_cancel requests
          Credits,      \* credit_count of a flex pass
          MaxQty,       \* bound: the most tickets in one redemption
          MaxOrder      \* bound: how many redemption orders are ever created

Pass       == FlexPass \cup SeasonPass
Redemption == 1 .. MaxOrder
Order      == Pass \cup Redemption

ASSUME KindsDisjoint == FlexPass \cap SeasonPass = {} /\ Pass \cap Redemption = {}
ASSUME FinitePasses  == IsFiniteSet(Pass) /\ IsFiniteSet(Event)
ASSUME PassBounds    == Credits \in Nat /\ MaxQty \in Nat /\ MaxOrder \in Nat

PassStatus == {"active", "exhausted", "refunded"}
PassRow    == [status : PassStatus, credits : Nat]

(* A ticket that was paid with a pass. *)
Ticket == [order : Redemption, pass : Pass, event : Event, number : 1 .. MaxQty]

(* Where an order_cancel request is, and the rows it has in memory. *)
Work == [clerk : Clerk, order : Order, step : {"void", "read", "load", "delete", "save", "close"},
         rows : SUBSET Ticket, row : PassRow]

VARIABLES pass,       \* the PassPurchase table
          status,     \* Order.status, "none" for a row that does not exist
          live,       \* the tickets that are not void
          redeemed,   \* the PassRedemption table, a row for each of these tickets
          charge,     \* what Stripe did with the price of each pass
          work        \* the order_cancel requests being served

vars == <<pass, status, live, redeemed, charge, work>>

NoRow == [status |-> "active", credits |-> 0]

Init == /\ pass = [p \in Pass |-> [status  |-> "active",
                                   credits |-> IF p \in FlexPass THEN Credits ELSE 0]]
        /\ status = [o \in Order |-> IF o \in Pass THEN "paid" ELSE "none"]
        /\ live = {}
        /\ redeemed = {}
        /\ charge = [p \in Pass |-> "kept"]
        /\ work = {}

RowsOf(o) == {t \in redeemed : t.order = o}
Used(p)   == {t \in redeemed : t.pass = p}

-----------------------------------------------------------------------------
(* Redemption *)

(* Mutant: the earlier redemptions of the event are not looked at. *)
WithinBudgetOncePerCall(p, e, n) ==
    IF p \in FlexPass THEN n <= pass[p].credits ELSE n = 1

WithinBudget(p, e, n) ==
    IF p \in FlexPass THEN n <= pass[p].credits
                      ELSE n = 1 /\ ~\E t \in Used(p) : t.event = e

Burn(p, n) ==
    LET left == pass[p].credits - n
    IN  IF p \in FlexPass
        THEN [pass EXCEPT ![p] = [status  |-> IF left = 0 THEN "exhausted" ELSE @.status,
                                  credits |-> left]]
        ELSE pass

(* redeemable_now and pass_covers_performance, by the terms the pass was sold on. *)
Redeemable(p, e) == pass[p].status = "active" /\ <<p, e>> \in Covers

FulfillHoldWithPass(p, e, n) ==
    /\ Redeemable(p, e)
    /\ WithinBudget(p, e, n)
    /\ \E o \in Redemption :
         LET minted == [order : {o}, pass : {p}, event : {e}, number : 1 .. n] IN
         /\ status[o] = "none"
         /\ \A k \in 1 .. (o - 1) : status[k] # "none"
         /\ status' = [status EXCEPT ![o] = "paid"]
         /\ live' = live \cup minted
         /\ redeemed' = redeemed \cup minted
    /\ pass' = Burn(p, n)
    /\ UNCHANGED <<charge, work>>

-----------------------------------------------------------------------------
(* Giving back *)

(* Mutant: a pass that has credits again is active. *)
RestoredActive(row, now, n) == [status |-> "active", credits |-> row.credits + n]

(* Mutant: credits come back only to a pass that had run dry. *)
RestoredIfDry(row, now, n) ==
    IF row.status = "exhausted" /\ n > 0
    THEN [status |-> "active", credits |-> row.credits + n]
    ELSE now

(* What restore_redemptions_for_order saves of a flex pass: the credits it   *)
(* read plus n; the status only when that takes it out of "exhausted", else  *)
(* the status column keeps what it has now.                                  *)
Restored(row, now, n) ==
    [status  |-> IF row.status = "exhausted" /\ row.credits + n > 0 THEN "active" ELSE now.status,
     credits |-> row.credits + n]

Void(o) == live' = {t \in live : t.order # o}

(* refund_order for an order that used a pass: nothing to ask of Stripe. *)
RefundRedemption(o) ==
    /\ status[o] = "paid"
    /\ Void(o)
    /\ redeemed' = redeemed \ RowsOf(o)
    /\ pass' = [p \in Pass |->
                  IF p \in FlexPass /\ \E t \in RowsOf(o) : t.pass = p
                  THEN Restored(pass[p], pass[p], Cardinality(RowsOf(o)))
                  ELSE pass[p]]
    /\ status' = [status EXCEPT ![o] = "refunded"]
    /\ UNCHANGED <<charge, work>>

(* refund_order for the sale of a pass.  Stripe refuses to return a charge   *)
(* twice.                                                                    *)
RefundSale(p) ==
    /\ status[p] = "paid"
    /\ Used(p) = {}
    /\ charge[p] = "kept"
    /\ charge' = [charge EXCEPT ![p] = "returned"]
    /\ pass' = [pass EXCEPT ![p] = [status |-> "refunded", credits |-> pass[p].credits]]
    /\ status' = [status EXCEPT ![p] = "refunded"]
    /\ UNCHANGED <<live, redeemed, work>>

(* The same, but Stripe's answer is lost and the transaction rolls back. *)
RefundSaleUnheard(p) ==
    /\ status[p] = "paid"
    /\ Used(p) = {}
    /\ charge[p] = "kept"
    /\ charge' = [charge EXCEPT ![p] = "returned"]
    /\ UNCHANGED <<pass, status, live, redeemed, work>>

-----------------------------------------------------------------------------
(* order_cancel, statement by statement *)

(* The request goes on to another step, with these rows in memory. *)
Goes(w, step, rows, row) ==
    work' = (work \ {w}) \cup {[clerk |-> w.clerk, order |-> w.order, step |-> step,
                                rows |-> rows, row |-> row]}

(* Mutant: the entitlement is given back before the tickets are void. *)
CancelLoadRestoresFirst(k, o) ==
    /\ \A w \in work : w.clerk # k
    /\ status[o] = "paid"
    /\ work' = work \cup {[clerk |-> k, order |-> o, step |-> "read", rows |-> {}, row |-> NoRow]}
    /\ UNCHANGED <<pass, status, live, redeemed, charge>>

CancelLoad(k, o) ==
    /\ \A w \in work : w.clerk # k
    /\ status[o] = "paid"
    /\ work' = work \cup {[clerk |-> k, order |-> o, step |-> "void", rows |-> {}, row |-> NoRow]}
    /\ UNCHANGED <<pass, status, live, redeemed, charge>>

CancelVoid(w) ==
    /\ w.step = "void"
    /\ Void(w.order)
    /\ Goes(w, "read", {}, NoRow)
    /\ UNCHANGED <<pass, status, redeemed, charge>>

RestoreRead(w) ==
    /\ w.step = "read"
    /\ Goes(w, IF RowsOf(w.order) = {} THEN "close" ELSE "load", RowsOf(w.order), NoRow)
    /\ UNCHANGED <<pass, status, live, redeemed, charge>>

RestoreLoad(w) ==
    /\ w.step = "load"
    /\ \E t \in w.rows : Goes(w, "delete", w.rows, pass[t.pass])
    /\ UNCHANGED <<pass, status, live, redeemed, charge>>

RestoreDelete(w) ==
    /\ w.step = "delete"
    /\ redeemed' = redeemed \ RowsOf(w.order)
    /\ Goes(w, "save", w.rows, w.row)
    /\ UNCHANGED <<pass, status, live, charge>>

RestoreSave(w) ==
    /\ w.step = "save"
    /\ pass' = [p \in Pass |->
                  IF p \in FlexPass /\ \E t \in w.rows : t.pass = p
                  THEN Restored(w.row, pass[p], Cardinality(w.rows))
                  ELSE pass[p]]
    /\ Goes(w, "close", {}, NoRow)
    /\ UNCHANGED <<status, live, redeemed, charge>>

CancelClose(w) ==
    /\ w.step = "close"
    /\ status' = [status EXCEPT ![w.order] = "cancelled"]
    /\ work' = work \ {w}
    /\ UNCHANGED <<pass, live, redeemed, charge>>

(* The worker is killed, or the database refuses a statement. *)
CancelDies(w) ==
    /\ work' = work \ {w}
    /\ UNCHANGED <<pass, status, live, redeemed, charge>>

-----------------------------------------------------------------------------
CancelNext == \/ \E k \in Clerk, o \in Order : CancelLoad(k, o)
              \/ \E w \in work : CancelVoid(w)
              \/ \E w \in work : RestoreRead(w)
              \/ \E w \in work : RestoreLoad(w)
              \/ \E w \in work : RestoreDelete(w)
              \/ \E w \in work : RestoreSave(w)
              \/ \E w \in work : CancelClose(w)
              \/ \E w \in work : CancelDies(w)

Next == \/ \E p \in Pass, e \in Event, n \in 1 .. MaxQty : FulfillHoldWithPass(p, e, n)
        \/ \E o \in Redemption : RefundRedemption(o)
        \/ \E p \in Pass : RefundSale(p)
        \/ \E p \in Pass : RefundSaleUnheard(p)
        \/ CancelNext

Spec == Init /\ [][Next]_vars

-----------------------------------------------------------------------------
(* Correctness *)

(* A season pass has no balance and never runs out (passes/models.py). *)
TypeOK ==
    /\ pass \in [Pass -> PassRow]
    /\ \A p \in SeasonPass : pass[p].credits = 0 /\ pass[p].status # "exhausted"
    /\ status \in [Order -> {"none", "paid", "cancelled", "refunded"}]
    /\ live \subseteq Ticket
    /\ redeemed \subseteq Ticket
    /\ charge \in [Pass -> {"kept", "returned"}]
    /\ work \subseteq Work

(* Whoever is admitted with a pass has used it up: whatever cancellations    *)
(* and refunds are half way, a live ticket still has its redemption row.     *)
AdmissionsAreUsed == live \subseteq redeemed

(* A season pass never has two live tickets for one event, although a        *)
(* cancellation frees the event before it is finished.  The model has no     *)
(* unique_season_event_redemption constraint to fall back on.                *)
SeasonOncePerEvent ==
    \A t1, t2 \in live :
        t1.pass \in SeasonPass /\ t1.pass = t2.pass /\ t1.event = t2.event => t1 = t2

(* What the proofs add: an order_cancel request serves an order that exists, *)
(* and past its first statement that order has no live ticket; and a season  *)
(* pass has one redemption row per event, live or not.                       *)
WorkOK == \A w \in work : /\ status[w.order] # "none"
                          /\ w.step # "void" => \A t \in live : t.order # w.order

SeasonUsedOnce ==
    \A t1, t2 \in redeemed :
        t1.pass \in SeasonPass /\ t1.pass = t2.pass /\ t1.event = t2.event => t1 = t2

(* The inductive invariant of PassesProofs: whatever has been committed or is  *)
(* half done, the passes' tables agree.                                      *)
IInv == TypeOK /\ AdmissionsAreUsed /\ WorkOK /\ SeasonUsedOnce

(* The price of a pass is not given back while anybody can still be admitted *)
(* with it (the guard at the top of refund_order).                           *)
NoRefundWhileAdmitting ==
    [][\A p \in Pass : status'[p] = "refunded" /\ status[p] # "refunded"
                          => \A t \in live : t.pass # p]_vars

(* The credits of a pass: those it has, those in use, and those a            *)
(* cancellation has taken from the redemptions and not yet saved.            *)
Owed(p) == UNION {{w.clerk} \X {t \in w.rows : t.pass = p} : w \in {x \in work : x.step = "save"}}

Balance(p) == pass[p].credits + Cardinality(Used(p)) + Cardinality(Owed(p))

(* What the request w has in memory is no longer what the tables say. *)
Overlapped(w) ==
    \/ w.step = "delete" /\ w.rows # RowsOf(w.order)
    \/ w.step = "save" /\ \E t \in w.rows : w.row # pass[t.pass]

(* Credits appear or disappear in two ways only: a cancellation that another *)
(* request overlapped, and one that dies between its delete and its save.    *)
OnlyOverlapsLoseCredits ==
    [][\A p \in FlexPass :
         Balance(p)' # Balance(p) =>
            \E w \in work : /\ w \notin work'
                            /\ \/ Overlapped(w)
                               \/ w.step = "save" /\ \A v \in work' : v.clerk # w.clerk]_vars

(* A pass whose price was returned is usable again only if a cancellation     *)
(* had read it as exhausted before the refund: no other order of statements  *)
(* brings it back (restore_redemptions_for_order looks at the status).       *)
RevivedByOldReads ==
    [][\A p \in Pass :
         pass[p].status = "refunded" /\ pass'[p].status # "refunded" =>
            \E w \in work \ work' : w.step = "save" /\ w.row.status = "exhausted"
                                   /\ \E t \in w.rows : t.pass = p]_vars

(* passes/services.py: "so a concurrent redemption of the same pass can't    *)
(* lose or duplicate a credit restore".                                      *)
NoFreeCredits == \A p \in FlexPass : pass[p].credits + Cardinality(Used(p)) <= Credits

(* passes/services.py: "A REFUNDED pass stays refunded".                     *)
RefundedStaysRefunded == \A p \in Pass : status[p] = "refunded" => pass[p].status = "refunded"
=============================================================================
