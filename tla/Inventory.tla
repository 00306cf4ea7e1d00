----------------------------- MODULE Inventory -----------------------------
(***************************************************************************)
(* Holds, tickets and availability: orders/services.py, the fulfilment     *)
(* core of payments/services.py, the hold sweeper, the door scanner and    *)
(* the staff edits that move inventory.                                    *)
(*                                                                         *)
(* Every function decorated with @transaction.atomic is one action: the    *)
(* deployed database is SQLite in IMMEDIATE mode, which runs write         *)
(* transactions one after the other.  What a view reads BEFORE it calls    *)
(* such a function is a step of its own: the checkout requests that carry  *)
(* a Hold read outside the transaction are the set inflight.  Request = {} *)
(* is the deployment that sells through Stripe only (the stub page answers *)
(* 404 once charges are enabled, the test page is switched off).           *)
(*                                                                         *)
(* A call that raises leaves the database as it was and is no step.        *)
(***************************************************************************)
EXTENDS Naturals, FiniteSets

CONSTANTS GAPerf,         \* performances with seating_mode GA
          ReservedPerf,   \* performances with seating_mode RESERVED
          Seat,           \* the seats of the chart the reserved performances share
          Session,        \* buyers' session keys
          Request,        \* slots for checkout requests that carry a Hold
          MaxQty,         \* bound: the largest GA quantity asked for
          MaxHold,        \* bound: how many holds are ever created
          MaxOrder,       \* bound: how many orders are ever created
          MaxCapacity     \* bound: the largest GA capacity staff type

Perf    == GAPerf \cup ReservedPerf
Unit    == (1 .. MaxQty) \cup Seat
HoldId  == 1 .. MaxHold
Order   == 1 .. MaxOrder

(* A Hold row: `units` is 1..quantity for GA, the HoldSeat set for reserved. *)
Hold    == [id : HoldId, session : Session, perf : Perf, units : SUBSET Unit]

(* A Ticket row is keyed by its order and by its seat or, for GA, its number. *)
Ticket       == [order : Order, perf : Perf, unit : Unit]
TicketStatus == {"none", "valid", "used", "void"}

ASSUME ModesDisjoint == GAPerf \cap ReservedPerf = {}
ASSUME FiniteHouse   == IsFiniteSet(Perf) /\ IsFiniteSet(Seat)
ASSUME BoundsAreNat  == /\ MaxQty \in Nat /\ MaxHold \in Nat
                        /\ MaxOrder \in Nat /\ MaxCapacity \in Nat

VARIABLES holds,      \* the Hold table
          lastHold,   \* the last Hold primary key handed out
          horizon,    \* the holds with a key up to this one are past expires_at
          inflight,   \* checkout requests between loading a Hold and fulfilling it
          status,     \* the Ticket table: the status of each possible ticket
          origin,     \* the Order table: the hold each order was made from, 0 for no order
          sold,       \* GAAllocation.sold
          capacity,   \* GAAllocation.capacity
          blocked     \* PerformanceSeatBlock rows: the seats pulled from sale

vars == <<holds, lastHold, horizon, inflight, status, origin, sold, capacity, blocked>>

Init == /\ holds = {}
        /\ lastHold = 0
        /\ horizon = 0
        /\ inflight = {}
        /\ status = [t \in Ticket |-> "none"]
        /\ origin = [o \in Order |-> 0]
        /\ sold = [p \in GAPerf |-> 0]
        /\ capacity \in [GAPerf -> 0 .. MaxCapacity]
        /\ blocked = [p \in ReservedPerf |-> {}]

-----------------------------------------------------------------------------
(* Reading availability *)

(* Every hold lasts the same ten minutes, so holds expire in key order. *)
Active(h) == h.id > horizon

Live            == {t \in Ticket : status[t] \in {"valid", "used"}}
LiveAt(p)       == {t \in Live : t.perf = p}

TicketedSeats(p) == {t.unit : t \in LiveAt(p)}

(* One element for each admission that an active hold of a session other   *)
(* than s has on p, so that the cardinality is Sum("quantity").            *)
HeldExcept(p, s) ==
    UNION {{h.id} \X h.units : h \in {x \in holds : x.perf = p /\ Active(x) /\ x.session # s}}

Held(p) == UNION {{h.id} \X h.units : h \in {x \in holds : x.perf = p /\ Active(x)}}

(* The seats other sessions hold.  The query filters HoldSeat by seat and  *)
(* expiry and not by performance.                                          *)
SeatsHeldByOthers(s) ==
    UNION {h.units : h \in {x \in holds : x.perf \in ReservedPerf /\ Active(x) /\ x.session # s}}

(* reserved_seat_states: what the seat map shows session s as selectable. *)
SelectableSeats(s, p) ==
    Seat \ (blocked[p] \cup TicketedSeats(p)
              \cup UNION {h.units : h \in {x \in holds : x.perf = p /\ Active(x) /\ x.session # s}})

-----------------------------------------------------------------------------
(* The cart *)

WithoutHoldOf(s, p) == {h \in holds : ~(h.session = s /\ h.perf = p)}

ReplaceHold(s, p, U) ==
    /\ lastHold < MaxHold
    /\ lastHold' = lastHold + 1
    /\ holds' = WithoutHoldOf(s, p)
                  \cup {[id |-> lastHold + 1, session |-> s, perf |-> p, units |-> U]}
    /\ UNCHANGED <<horizon, inflight, status, origin, sold, capacity, blocked>>

(* Mutant: the holds of other sessions are not counted. *)
GaFitsForgetHeld(s, p, q) == sold[p] + q <= capacity[p]

GaFits(s, p, q) == sold[p] + Cardinality(HeldExcept(p, s)) + q <= capacity[p]

SetGaHold(s, p, q) ==
    /\ q > 0
    /\ GaFits(s, p, q)
    /\ ReplaceHold(s, p, 1 .. q)

(* Mutant: one of the three reasons to refuse a seat is missing. *)
SeatsFreeForgetTickets(s, p, S) == S \cap (SeatsHeldByOthers(s) \cup blocked[p]) = {}

SeatsFree(s, p, S) == S \cap (TicketedSeats(p) \cup SeatsHeldByOthers(s) \cup blocked[p]) = {}

SetReservedHold(s, p, S) ==
    /\ S # {}
    /\ SeatsFree(s, p, S)
    /\ ReplaceHold(s, p, S)

(* release_hold, release_hold_by_id, and the empty selection of either setter. *)
ReleaseHold(s, p) ==
    /\ \E h \in holds : h.session = s /\ h.perf = p
    /\ holds' = WithoutHoldOf(s, p)
    /\ UNCHANGED <<lastHold, horizon, inflight, status, origin, sold, capacity, blocked>>

(* Ten minutes go by for the oldest hold that still had time left. *)
TimePasses ==
    /\ horizon < lastHold
    /\ horizon' = horizon + 1
    /\ UNCHANGED <<holds, lastHold, inflight, status, origin, sold, capacity, blocked>>

(* Mutant: the sweep goes through the HoldSeat rows and misses GA holds. *)
ReleaseExpiredSeatHolds ==
    /\ \E h \in holds : ~Active(h) /\ h.perf \in ReservedPerf
    /\ holds' = {h \in holds : Active(h) \/ h.perf \in GAPerf}
    /\ UNCHANGED <<lastHold, horizon, inflight, status, origin, sold, capacity, blocked>>

(* The cron command deletes what has expired. *)
ReleaseExpiredHolds ==
    /\ \E h \in holds : ~Active(h)
    /\ holds' = {h \in holds : Active(h)}
    /\ UNCHANGED <<lastHold, horizon, inflight, status, origin, sold, capacity, blocked>>

-----------------------------------------------------------------------------
(* Fulfilment *)

Mint(o, p, U) ==
    status' = [t \in Ticket |-> IF t.order = o /\ t.perf = p /\ t.unit \in U
                                THEN "valid" ELSE status[t]]

FreshOrder(o) == origin[o] = 0 /\ \A k \in 1 .. (o - 1) : origin[k] # 0

(* Mutant: no second look at the capacity. *)
FulfillGaUnchecked(h, o) ==
    /\ h.perf \in GAPerf
    /\ Mint(o, h.perf, h.units)
    /\ sold' = [sold EXCEPT ![h.perf] = @ + Cardinality(h.units)]

FulfillGa(h, o) ==
    /\ h.perf \in GAPerf
    /\ sold[h.perf] + Cardinality(h.units) <= capacity[h.perf]
    /\ Mint(o, h.perf, h.units)
    /\ sold' = [sold EXCEPT ![h.perf] = @ + Cardinality(h.units)]

(* The seats are read from the HoldSeat table: none if the row has gone. *)
HoldSeats(h) == IF h \in holds THEN h.units ELSE {}

FulfillReserved(h, o) ==
    /\ h.perf \in ReservedPerf
    /\ HoldSeats(h) \cap TicketedSeats(h.perf) = {}
    /\ Mint(o, h.perf, HoldSeats(h))
    /\ UNCHANGED sold

(* Mutant: the hold outlives the order made from it. *)
FulfillHoldKeepsHold(h) ==
    /\ Active(h)
    /\ \E o \in Order : /\ FreshOrder(o)
                        /\ origin' = [origin EXCEPT ![o] = h.id]
                        /\ FulfillGa(h, o) \/ FulfillReserved(h, o)
    /\ UNCHANGED <<holds, lastHold, horizon, capacity, blocked>>

(* h is the Hold object the caller has in memory, not necessarily a row. *)
FulfillHold(h) ==
    /\ Active(h)
    /\ \E o \in Order : /\ FreshOrder(o)
                        /\ origin' = [origin EXCEPT ![o] = h.id]
                        /\ FulfillGa(h, o) \/ FulfillReserved(h, o)
    /\ holds' = holds \ {h}
    /\ UNCHANGED <<lastHold, horizon, capacity, blocked>>

(* The webhook reads the hold in the transaction that fulfils it. *)
FulfillCheckoutSession(h) ==
    /\ FulfillHold(h)
    /\ UNCHANGED inflight

(* The stub, test and pass pages read the hold first... *)
LoadHold(r, h) ==
    /\ \A i \in inflight : i.req # r
    /\ Active(h)
    /\ inflight' = inflight \cup {[req |-> r, hold |-> h]}
    /\ UNCHANGED <<holds, lastHold, horizon, status, origin, sold, capacity, blocked>>

(* ...and fulfil what they read later... *)
CheckoutLoaded(i) ==
    /\ FulfillHold(i.hold)
    /\ inflight' = inflight \ {i}

(* ...or answer with a message and change nothing. *)
RejectLoaded(i) ==
    /\ inflight' = inflight \ {i}
    /\ UNCHANGED <<holds, lastHold, horizon, status, origin, sold, capacity, blocked>>

-----------------------------------------------------------------------------
(* After the sale *)

LiveOf(o) == {t \in Live : t.order = o}

Minus(a, b) == IF a >= b THEN a - b ELSE 0

(* Mutant: the tickets already scanned stay counted in sold. *)
VoidOrderForgetsUsed(o) ==
    /\ LiveOf(o) # {}
    /\ status' = [t \in Ticket |-> IF t \in LiveOf(o) THEN "void" ELSE status[t]]
    /\ sold' = [p \in GAPerf |-> Minus(sold[p], Cardinality({t \in LiveOf(o) :
                                                  t.perf = p /\ status[t] = "valid"}))]
    /\ UNCHANGED <<holds, lastHold, horizon, inflight, origin, capacity, blocked>>

(* order_cancel and refund_order both go through here. *)
VoidOrder(o) ==
    /\ LiveOf(o) # {}
    /\ status' = [t \in Ticket |-> IF t \in LiveOf(o) THEN "void" ELSE status[t]]
    /\ sold' = [p \in GAPerf |-> Minus(sold[p], Cardinality({t \in LiveOf(o) : t.perf = p}))]
    /\ UNCHANGED <<holds, lastHold, horizon, inflight, origin, capacity, blocked>>

(* A genuine ticket is scanned within the scan window. *)
RedeemTicket(t) ==
    /\ status[t] = "valid"
    /\ status' = [status EXCEPT ![t] = "used"]
    /\ UNCHANGED <<holds, lastHold, horizon, inflight, origin, sold, capacity, blocked>>

-----------------------------------------------------------------------------
(* Staff edits *)

(* PerformanceForm.  What it checks is checked again when the row is        *)
(* written, by the ga_sold_lte_capacity constraint, so the guard is the one  *)
(* of the write: a sale in between makes the write fail.                     *)
SetCapacity(p, c) ==
    /\ c >= sold[p]
    /\ c # capacity[p]
    /\ capacity' = [capacity EXCEPT ![p] = c]
    /\ UNCHANGED <<holds, lastHold, horizon, inflight, status, origin, sold, blocked>>

BlockSeat(p, s) ==
    /\ s \notin blocked[p]
    /\ blocked' = [blocked EXCEPT ![p] = @ \cup {s}]
    /\ UNCHANGED <<holds, lastHold, horizon, inflight, status, origin, sold, capacity>>

UnblockSeat(p, s) ==
    /\ s \in blocked[p]
    /\ blocked' = [blocked EXCEPT ![p] = @ \ {s}]
    /\ UNCHANGED <<holds, lastHold, horizon, inflight, status, origin, sold, capacity>>

-----------------------------------------------------------------------------
Next ==
    \/ \E s \in Session, p \in GAPerf, q \in 1 .. MaxQty : SetGaHold(s, p, q)
    \/ \E s \in Session, p \in ReservedPerf, S \in SUBSET Seat : SetReservedHold(s, p, S)
    \/ \E s \in Session, p \in Perf : ReleaseHold(s, p)
    \/ TimePasses
    \/ ReleaseExpiredHolds
    \/ \E h \in holds : FulfillCheckoutSession(h)
    \/ \E r \in Request, h \in holds : LoadHold(r, h)
    \/ \E i \in inflight : CheckoutLoaded(i)
    \/ \E i \in inflight : RejectLoaded(i)
    \/ \E o \in Order : VoidOrder(o)
    \/ \E t \in Ticket : RedeemTicket(t)
    \/ \E p \in GAPerf, c \in 0 .. MaxCapacity : SetCapacity(p, c)
    \/ \E p \in ReservedPerf, s \in Seat : BlockSeat(p, s)
    \/ \E p \in ReservedPerf, s \in Seat : UnblockSeat(p, s)

Spec == Init /\ [][Next]_vars

(* The clock never stops and cron runs the sweeper every minute.  Nothing  *)
(* is assumed of buyers, staff or Stripe.                                  *)
FairSpec == Spec /\ WF_vars(TimePasses) /\ WF_vars(ReleaseExpiredHolds)

-----------------------------------------------------------------------------
(* Correctness *)

(* Every step writes rows the tables can hold: the counters do not go below  *)
(* zero and a ticket's status is one of the three (orders/models.py).        *)
TypeOK ==
    /\ holds \subseteq Hold
    /\ lastHold \in 0 .. MaxHold
    /\ horizon \in 0 .. lastHold
    /\ inflight \subseteq [req : Request, hold : Hold]
    /\ status \in [Ticket -> TicketStatus]
    /\ origin \in [Order -> 0 .. MaxHold]
    /\ sold \in [GAPerf -> Nat]
    /\ capacity \in [GAPerf -> 0 .. MaxCapacity]
    /\ blocked \in [ReservedPerf -> SUBSET Seat]

(* No seat ever backs two live tickets of one performance: set_reserved_hold *)
(* and _fulfill_reserved see to it by themselves, the model has no           *)
(* unique_live_ticket_per_performance_seat constraint to fall back on.       *)
NoDoubleSeat ==
    \A p \in ReservedPerf : \A t1, t2 \in LiveAt(p) : t1.unit = t2.unit => t1 = t2

(* The denormalised counter GAAllocation.sold, bumped by _fulfill_ga and     *)
(* dropped by void_order, is the number of live tickets at every instant.    *)
SoldMatchesTickets ==
    \A p \in GAPerf : sold[p] = Cardinality(LiveAt(p))

(* ga_sold_lte_capacity never has to fire. *)
SoldWithinCapacity == \A p \in GAPerf : sold[p] <= capacity[p]

(* A session has one hold per performance, and two active holds of one       *)
(* performance never share a seat (the rules at the top of orders/services). *)
HoldsExclusive ==
    \A h1, h2 \in holds :
        /\ h1.session = h2.session /\ h1.perf = h2.perf => h1 = h2
        /\ (/\ h1 # h2 /\ h1.perf = h2.perf /\ h1.perf \in ReservedPerf
            /\ Active(h1) /\ Active(h2)) => h1.units \cap h2.units = {}

(* What a buyer pays for is there: as long as a hold is active, nothing      *)
(* fulfilled for somebody else makes its own fulfilment fail with            *)
(* AvailabilityChangedError.                                                 *)
HeldSeatsUnsold ==
    \A h \in holds : h.perf \in ReservedPerf /\ Active(h)
                        => h.units \cap TicketedSeats(h.perf) = {}

(* The GA half of that promise: sold plus actively held exceeds the capacity *)
(* only after staff lowered the capacity, never through any sale, hold,      *)
(* cancellation or lapse of time.                                            *)
Overcommitted(p) == sold[p] + Cardinality(Held(p)) > capacity[p]

(* No step but an edit of the capacity overcommits a performance            *)
(* (set_ga_hold counts what others hold, _fulfill_ga what is sold).          *)
OnlyStaffOvercommit ==
    [][\A p \in GAPerf : Overcommitted(p)' /\ ~Overcommitted(p) => capacity'[p] < capacity[p]]_vars

(* "So both agree on what 'taken' means" (orders/services.py:270): a seat    *)
(* that reserved_seat_states shows as available to a session is one that     *)
(* set_reserved_hold would give it.  It is not so for two shows on a chart.  *)
SelectableIsHoldable ==
    \A s \in Session, p \in ReservedPerf : SeatsFree(s, p, SelectableSeats(s, p))

(* One hold becomes at most one order, however often its checkout is sent. *)
OneOrderPerHold ==
    \A o1, o2 \in Order : origin[o1] # 0 /\ origin[o1] = origin[o2] => o1 = o2

(* What the proofs need to be inductive: primary keys are handed out once,   *)
(* and a ticket belongs to an order that exists.                             *)
Keys == /\ \A h \in holds : h.id <= lastHold
        /\ \A i \in inflight : i.hold.id <= lastHold
        /\ \A h1, h2 \in holds : h1.id = h2.id => h1 = h2

TicketsHaveOrders == \A t \in Ticket : origin[t.order] = 0 => status[t] = "none"

CartInv   == Keys /\ HoldsExclusive /\ HeldSeatsUnsold
TicketInv == TicketsHaveOrders /\ NoDoubleSeat /\ SoldMatchesTickets /\ SoldWithinCapacity

(* The inductive invariant of InventoryProofs: whatever object a checkout    *)
(* request still carries, the cart and the tickets stay consistent.          *)
IInv == TypeOK /\ CartInv /\ TicketInv

(* An abandoned cart gives its inventory back: no hold stays in the table    *)
(* for ever, whatever the buyer does or does not do.                         *)
HoldsGoAway ==
    \A i \in HoldId : (\E h \in holds : h.id = i) ~> ~(\E h \in holds : h.id = i)

Ledger == INSTANCE SeatLedger WITH live <- Live, cap <- capacity,
                                   spent <- {o \in Order : origin[o] # 0}

(* Holds, the counter and the re-checks implement the abstract ledger. *)
ImplementsLedger == Ledger!LedgerSpec
=============================================================================
