---------------------------- MODULE Performances ----------------------------
(***************************************************************************)
(* One performance while staff edit it and buyers select and pay:          *)
(* dashboard/forms.py PerformanceForm and its views, the price pages of    *)
(* dashboard/views.py, the selection page and hold_create of               *)
(* orders/views.py, and the figures the dashboard and the storefront show. *)
(*                                                                         *)
(* The seating mode and the chart of a performance are columns anybody may *)
(* change at any time, whatever is held or sold, and every request works   *)
(* with the copy of the row it loaded:                                     *)
(*   - hold_create loads the performance, then calls a setter, which is    *)
(*     one transaction but looks at the loaded mode and chart;             *)
(*   - PerformanceForm saves the row and then, in a second statement, the  *)
(*     GAAllocation row;                                                   *)
(*   - a price page sends the cells of the chart it showed when it opened.  *)
(* What a fulfilled order looks like depends on its hold alone.            *)
(*                                                                         *)
(* A chart here has one section, so that a price belongs to a chart.       *)
(* Seat blocks and pricing zones are in Inventory and Charts.  The status  *)
(* column is left out: only the selection page looks at it, hold_create    *)
(* and the checkout do not.                                                *)
(***************************************************************************)
EXTENDS Naturals, FiniteSets

CONSTANTS Session,      \* buyers' session keys
          Staff,        \* managers' browser tabs
          Chart,        \* the seating charts of the venue
          Seat,         \* their seats
          SeatsOf,      \* the seats of each chart
          Amount,       \* the prices staff type
          None,         \* what a nullable column or a missing row reads as
          MaxQty,       \* bound: the largest GA quantity asked for
          MaxCapacity,  \* bound: the largest GA capacity typed
          MaxOrder      \* bound: how many orders are ever made

ASSUME ChartsApart == /\ SeatsOf \in [Chart -> SUBSET Seat]
                      /\ \A c, d \in Chart : c # d => SeatsOf[c] \cap SeatsOf[d] = {}
ASSUME NoneIsNothing == None \notin Amount /\ None \notin Nat
ASSUME SmallHouse  == IsFiniteSet(Seat) /\ {MaxQty, MaxCapacity, MaxOrder} \subseteq Nat

Mode  == {"GA", "RESERVED"}
Row   == [mode : Mode, chart : Chart]
Price == Amount \cup {None}
Units == (SUBSET (1 .. MaxQty)) \cup (SUBSET Seat)
Order == 1 .. MaxOrder

(* A section's two PriceTier rows: performance null, and this performance. *)
Cell  == {"default", "override"}

(* What was selected: GA places 1..quantity or seats, the price of each as *)
(* snapshotted when the hold was made, and the PriceTier row it came from. *)
Selection == [mode : Mode, units : Units, amount : Amount,
              tier : (Cell \X Chart) \cup {<<"flat">>}]

VARIABLES perf,       \* the Performance row
          capacity,   \* GAAllocation.capacity, None when there is no row
          sold,       \* GAAllocation.sold
          flat,       \* the GA price tiers, an append-only list
          price,      \* PriceTier of each chart's section: its default and override
          carts,      \* the Hold of each session
          request,    \* the row hold_create loaded for a session
          orders,     \* the orders and what they sold
          void,       \* the orders whose tickets are void
          page        \* the price page a tab of the staff shows, or the form it is saving

vars == <<perf, capacity, sold, flat, price, carts, request, orders, void, page>>

buyers  == <<carts, request, orders, void>>
pricing == <<flat, price>>

Init == /\ perf \in Row
        /\ capacity = IF perf.mode = "GA" THEN MaxCapacity ELSE None
        /\ sold = 0
        /\ flat = {}
        /\ price = [k \in Cell \X Chart |-> None]
        /\ carts = [s \in Session |-> None]
        /\ request = [s \in Session |-> None]
        /\ orders = [o \in Order |-> None]
        /\ void = {}
        /\ page = [t \in Staff |-> None]

-----------------------------------------------------------------------------
(* What is sold and what is left *)

Live == {o \in Order : orders[o] # None /\ o \notin void}

(* Ticket.objects.exclude(status=VOID): one element for each ticket. *)
Tickets == UNION {{o} \X orders[o].units : o \in Live}

TicketedSeats == UNION {orders[o].units : o \in {x \in Live : orders[x].mode = "RESERVED"}}

Active == {s \in Session : carts[s] # None}

HeldByOthers(s, mode) ==
    UNION {{x} \X carts[x].units : x \in {y \in Active \ {s} : carts[y].mode = mode}}

SeatsHeldByOthers(s) == {h[2] : h \in HeldByOthers(s, "RESERVED")}

(* What ga_sold_lte_capacity allows n more tickets to do. *)
RoomFor(n) == capacity # None /\ sold + n <= capacity

(* resolve_seat_tier: the override of this performance, else the default.  *)
TierFor(c) == IF price[<<"override", c>>] # None THEN <<"override", c>> ELSE <<"default", c>>

-----------------------------------------------------------------------------
(* Buyers *)

(* hold_create loads the performance... *)
LoadPerformance(s) ==
    /\ request[s] = None
    /\ request' = [request EXCEPT ![s] = perf]
    /\ UNCHANGED <<perf, capacity, sold, pricing, carts, orders, void, page>>

Hold(s, selection) ==
    /\ carts' = [carts EXCEPT ![s] = selection]
    /\ request' = [request EXCEPT ![s] = None]
    /\ UNCHANGED <<perf, capacity, sold, pricing, orders, void, page>>

(* Mutant: a place somebody else holds is offered once more. *)
SetGaHoldOverHolds(s, q, amount) ==
    /\ request[s] # None /\ request[s].mode = "GA"
    /\ amount \in flat
    /\ RoomFor(q)
    /\ Hold(s, [mode |-> "GA", units |-> 1 .. q, amount |-> amount, tier |-> <<"flat">>])

(* ...and calls set_ga_hold with one of its flat tiers... *)
SetGaHold(s, q, amount) ==
    /\ request[s] # None /\ request[s].mode = "GA"
    /\ amount \in flat
    /\ RoomFor(Cardinality(HeldByOthers(s, "GA")) + q)
    /\ Hold(s, [mode |-> "GA", units |-> 1 .. q, amount |-> amount, tier |-> <<"flat">>])

(* Mutant: any seat of the venue will do. *)
SetReservedHoldAnySeat(s, S) ==
    /\ request[s] # None /\ request[s].mode = "RESERVED"
    /\ S # {}
    /\ S \cap (TicketedSeats \cup SeatsHeldByOthers(s)) = {}
    /\ LET tier == TierFor(request[s].chart)
       IN  /\ price[tier] # None
           /\ Hold(s, [mode |-> "RESERVED", units |-> S, amount |-> price[tier], tier |-> tier])

(* ...or set_reserved_hold with seats of the chart of the loaded row. *)
SetReservedHold(s, S) ==
    /\ request[s] # None /\ request[s].mode = "RESERVED"
    /\ S # {} /\ S \subseteq SeatsOf[request[s].chart]
    /\ S \cap (TicketedSeats \cup SeatsHeldByOthers(s)) = {}
    /\ LET tier == TierFor(request[s].chart)
       IN  /\ price[tier] # None
           /\ Hold(s, [mode |-> "RESERVED", units |-> S, amount |-> price[tier], tier |-> tier])

(* A HoldError, a 404 or a missing allocation changes nothing. *)
TurnAway(s) ==
    /\ request[s] # None
    /\ request' = [request EXCEPT ![s] = None]
    /\ UNCHANGED <<perf, capacity, sold, pricing, carts, orders, void, page>>

(* cart_release, or the hold lapses: Inventory has the time it then waits  *)
(* for the sweeper.                                                       *)
Release(s) ==
    /\ carts[s] # None
    /\ carts' = [carts EXCEPT ![s] = None]
    /\ UNCHANGED <<perf, capacity, sold, pricing, request, orders, void, page>>

FreshOrder(o) == orders[o] = None /\ \A k \in 1 .. (o - 1) : orders[k] # None

(* fulfill_hold: a hold with a quantity is GA, any other is reserved. *)
FulfillHold(s) ==
    /\ s \in Active
    /\ IF carts[s].mode = "GA"
       THEN /\ RoomFor(Cardinality(carts[s].units))
            /\ sold' = sold + Cardinality(carts[s].units)
       ELSE carts[s].units \cap TicketedSeats = {} /\ UNCHANGED sold
    /\ \E o \in Order : FreshOrder(o) /\ orders' = [orders EXCEPT ![o] = carts[s]]
    /\ carts' = [carts EXCEPT ![s] = None]
    /\ UNCHANGED <<perf, capacity, pricing, request, void, page>>

(* void_order, from order_cancel or refund_order. *)
VoidOrder(o) ==
    /\ o \in Live
    /\ void' = void \cup {o}
    /\ sold' = IF orders[o].mode # "GA" THEN sold
               ELSE IF Cardinality(orders[o].units) > sold THEN 0
               ELSE sold - Cardinality(orders[o].units)
    /\ UNCHANGED <<perf, capacity, pricing, carts, request, orders, page>>

-----------------------------------------------------------------------------
(* The performance form *)

Shows(t, kind) == page[t] # None /\ page[t].kind = kind

(* clean: a GA performance needs a capacity, and one that covers the       *)
(* tickets its allocation has sold.                                        *)
CleanForm(row, cap) == row.mode = "GA" => capacity = None \/ cap >= sold

(* The view saves every column of the row as it was sent, which is any row *)
(* at all: the tab may have shown the form for a long time...              *)
SubmitForm(t, row, cap) ==
    /\ ~Shows(t, "saving")
    /\ CleanForm(row, cap)
    /\ perf' = row
    /\ page' = [page EXCEPT ![t] = IF row.mode = "GA" THEN [kind |-> "saving", cap |-> cap]
                                                      ELSE None]
    /\ UNCHANGED <<capacity, sold, pricing, buyers>>

(* Mutant: nothing looks at sold once the form was clean. *)
SaveAllocationUnchecked(t) ==
    /\ Shows(t, "saving")
    /\ capacity' = page[t].cap
    /\ page' = [page EXCEPT ![t] = None]
    /\ UNCHANGED <<perf, sold, pricing, buyers>>

(* ...then GAAllocation.update_or_create, where ga_sold_lte_capacity says  *)
(* no if tickets were sold since the form was found clean: the request     *)
(* fails and the row stays saved.                                          *)
SaveAllocation(t) ==
    /\ Shows(t, "saving")
    /\ capacity' = IF sold <= page[t].cap THEN page[t].cap ELSE capacity
    /\ page' = [page EXCEPT ![t] = None]
    /\ UNCHANGED <<perf, sold, pricing, buyers>>

(* The worker dies between the two statements. *)
FormDies(t) ==
    /\ Shows(t, "saving")
    /\ page' = [page EXCEPT ![t] = None]
    /\ UNCHANGED <<perf, capacity, sold, pricing, buyers>>

-----------------------------------------------------------------------------
(* The price page *)

(* The grid of the reserved editor or the GA form, for the row as it is.   *)
OpenPrices(t) ==
    /\ ~Shows(t, "saving")
    /\ page' = [page EXCEPT ![t] = [kind |-> "prices", row |-> perf]]
    /\ UNCHANGED <<perf, capacity, sold, pricing, buyers>>

(* The cells of chart c in what the tab sends: a chart the tab did not     *)
(* show has none, and request.POST.get of a missing field reads as blank.  *)
Posted(t, cells, c) ==
    IF page[t].row = [mode |-> "RESERVED", chart |-> c] THEN cells ELSE [k \in Cell |-> None]

(* OrderItem.price_tier and HoldSeat.price_tier are PROTECT. *)
Referenced(tier) ==
    \/ \E s \in Session : carts[s] # None /\ carts[s].tier = tier
    \/ \E o \in Order : orders[o] # None /\ orders[o].tier = tier

(* _save_reserved_prices: all cells of the chart of the current row, or    *)
(* none if a tier to be deleted is still referenced.                       *)
SaveReservedPrices(t, typed) ==
    LET c     == perf.chart
        cells == Posted(t, typed, c)
    IN  /\ Shows(t, "prices")
        /\ perf.mode = "RESERVED"
        /\ \A x \in Cell : cells[x] = None /\ price[<<x, c>>] # None => ~Referenced(<<x, c>>)
        /\ price' = [y \in Cell \X Chart |-> IF y[2] = c THEN cells[y[1]] ELSE price[y]]
        /\ page' = [page EXCEPT ![t] = None]
        /\ UNCHANGED <<perf, capacity, sold, flat, buyers>>

(* PriceTierForm: a GA performance gets one more flat tier. *)
AddFlatTier(t, a) ==
    /\ Shows(t, "prices")
    /\ page[t].row.mode = "GA" /\ perf.mode = "GA"
    /\ flat' = flat \cup {a}
    /\ page' = [page EXCEPT ![t] = None]
    /\ UNCHANGED <<perf, capacity, sold, price, buyers>>

-----------------------------------------------------------------------------
Next ==
    \/ \E s \in Session : LoadPerformance(s)
    \/ \E s \in Session, q \in 1 .. MaxQty, a \in Amount : SetGaHold(s, q, a)
    \/ \E s \in Session, S \in SUBSET Seat : SetReservedHold(s, S)
    \/ \E s \in Session : TurnAway(s)
    \/ \E s \in Session : Release(s)
    \/ \E s \in Session : FulfillHold(s)
    \/ \E o \in Order : VoidOrder(o)
    \/ \E t \in Staff, row \in Row, cap \in 0 .. MaxCapacity : SubmitForm(t, row, cap)
    \/ \E t \in Staff : SaveAllocation(t)
    \/ \E t \in Staff : FormDies(t)
    \/ \E t \in Staff : OpenPrices(t)
    \/ \E t \in Staff, cells \in [Cell -> Price] : SaveReservedPrices(t, cells)
    \/ \E t \in Staff, a \in Amount : AddFlatTier(t, a)

Spec == Init /\ [][Next]_vars

-----------------------------------------------------------------------------
(* What the pages show *)

(* Mutant: the picture of the house colours the seats of void tickets too. *)
ColouredWithVoid ==
    IF perf.mode = "GA" THEN {}
    ELSE UNION {orders[o].units : o \in {x \in Order : orders[x] # None
                                                  /\ orders[x].mode = "RESERVED"}} \cap SeatsOf[perf.chart]

(* performance_detail of the dashboard: the seats of the current chart     *)
(* that it draws as sold, and the two counts above the picture.            *)
Coloured == IF perf.mode = "GA" THEN {} ELSE TicketedSeats \cap SeatsOf[perf.chart]

SoldShown == Cardinality(Tickets)

CapacityShown == IF perf.mode = "GA" THEN capacity ELSE Cardinality(SeatsOf[perf.chart])

(* ga_available and the selectable seats on the selection page of s.       *)
AvailableShown(s) ==
    IF perf.mode = "GA"
    THEN LET taken == sold + Cardinality(HeldByOthers(s, "GA"))
         IN  IF RoomFor(Cardinality(HeldByOthers(s, "GA"))) THEN capacity - taken ELSE 0
    ELSE Cardinality(SeatsOf[perf.chart] \ (TicketedSeats \cup SeatsHeldByOthers(s)))

(* A selection the current mode and chart have no place for. *)
Astray(sel) ==
    \/ sel.mode # perf.mode
    \/ sel.mode = "RESERVED" /\ ~(sel.units \subseteq SeatsOf[perf.chart])

CartsAstray  == {s \in Session : carts[s] # None /\ Astray(carts[s])}
OrdersAstray == {o \in Live : Astray(orders[o])}

(* Of an order of two seats one may be on the chart and one not. *)
TicketsAstray ==
    {k \in Tickets : \/ orders[k[1]].mode # perf.mode
                     \/ orders[k[1]].mode = "RESERVED" /\ k[2] \notin SeatsOf[perf.chart]}

(* The GA places sold and held are more than the allocation has. *)
HeldGa == UNION {{s} \X carts[s].units : s \in {x \in Active : carts[x].mode = "GA"}}

Overcommitted == capacity # None /\ sold + Cardinality(HeldGa) > capacity

-----------------------------------------------------------------------------
(* Correctness *)

(* What the forms and the setters write is a show, a hold or an order of a   *)
(* kind the pages can draw: a held seat or quantity has its price.           *)
TypeOK ==
    /\ perf \in Row
    /\ capacity \in (0 .. MaxCapacity) \cup {None}
    /\ sold \in Nat
    /\ flat \subseteq Amount
    /\ price \in [Cell \X Chart -> Price]
    /\ carts \in [Session -> Selection \cup {None}]
    /\ request \in [Session -> Row \cup {None}]
    /\ orders \in [Order -> Selection \cup {None}]
    /\ void \subseteq {o \in Order : orders[o] # None}
    /\ page \in [Staff -> {None} \cup [kind : {"saving"}, cap : 0 .. MaxCapacity]
                               \cup [kind : {"prices"}, row : Row]]

(* The allocation row tells the truth across every edit: sold counts the    *)
(* live GA tickets, those from before the performance was last switched     *)
(* included, and a capacity saved after its form was checked never falls    *)
(* below the tickets sold since.                                            *)
AllocationIsTrue ==
    /\ sold = Cardinality(UNION {{o} \X orders[o].units : o \in {x \in Live : orders[x].mode = "GA"}})
    /\ capacity # None => sold <= capacity
    /\ capacity = None => sold = 0

(* Sales and holds fill the allocation and never go over it, whatever mode  *)
(* the performance is in when they are made: places sold and held exceed    *)
(* the capacity only by a form that lowers it.  clean() and the constraint  *)
(* look at sold alone (forms.py:84-111, models.py:153-175), a setter counts *)
(* what others hold, and fulfill_hold turns places held into places sold.   *)
OnlySavesOvercommit ==
    [][Overcommitted' /\ ~Overcommitted =>
          /\ capacity' < capacity
          /\ \E t \in Staff : Shows(t, "saving") /\ page'[t] = None]_vars

(* A reserved ticket has its seat to itself until it is void: void_order    *)
(* frees the seat, and fulfill_hold looks before it sells it again.         *)
SeatsSoldOnce ==
    \A o, q \in Live : orders[o].mode = "RESERVED" /\ orders[q].mode = "RESERVED" /\ o # q =>
        orders[o].units \cap orders[q].units = {}

(* The pages are wrong by the tickets an edit left astray and by no other:  *)
(* beside the seats it draws as sold the dashboard counts exactly those,    *)
(* and the selection page offers nobody more than the rest of the capacity. *)
HouseAddsUp ==
    CapacityShown # None =>
        /\ perf.mode = "RESERVED" =>
              SoldShown = Cardinality(Coloured) + Cardinality(TicketsAstray)
        /\ \A s \in Session :
              SoldShown + AvailableShown(s) <= CapacityShown + Cardinality(TicketsAstray)

(* A ticket or a hold goes astray through an edit of the performance only,  *)
(* at the edit or in a request that loaded the row before it.               *)
AstrayThroughEditsOnly ==
    [][perf' = perf =>
         /\ \A s \in Session : s \in CartsAstray' /\ s \notin CartsAstray =>
                request[s] \notin {None, perf}
         /\ \A o \in Order : o \in OrdersAstray' /\ o \notin OrdersAstray =>
                \E s \in CartsAstray : s \notin CartsAstray']_vars

(* _save_reserved_prices says that a blank cell clears the price of its     *)
(* section (and a rejected page is echoed unchanged): a price disappears    *)
(* only where the tab showed that price's section with its cells.           *)
OnlyBlankCellsClear ==
    [][\A k \in Cell, c \in Chart : price[<<k, c>>] # None /\ price'[<<k, c>>] = None =>
          \E t \in Staff : /\ page'[t] # page[t]
                            /\ page[t].row = [mode |-> "RESERVED", chart |-> c]]_vars
=============================================================================
