------------------------- MODULE PerformancesProofs -------------------------
(***************************************************************************)
(* Proofs about Performances, for any buyers, tabs, charts, prices and     *)
(* capacities.                                                             *)
(***************************************************************************)
EXTENDS Performances, FiniteSetTheorems, TLAPS

-----------------------------------------------------------------------------
(* Types *)

(* An action that leaves buyers, prices and the allocation alone. *)
LEMMA TierIsCell ==
  ASSUME NEW c \in Chart
  PROVE  TierFor(c) \in Cell \X Chart
BY DEF TierFor, Cell

(* What Hold writes is a hold of the session, and it spends the request. *)
LEMMA HoldTyped ==
  ASSUME TypeOK, NEW s \in Session, NEW sel \in Selection, Hold(s, sel)
  PROVE  TypeOK'
BY DEF TypeOK, Hold, pricing

LEMMA GaSelection ==
  ASSUME NEW q \in 1 .. MaxQty, NEW a \in Amount
  PROVE  [mode |-> "GA", units |-> 1 .. q, amount |-> a, tier |-> <<"flat">>] \in Selection
<1>1. 1 .. q \in SUBSET (1 .. MaxQty)
  BY SmallHouse
<1> QED
  BY <1>1 DEF Selection, Mode, Units

LEMMA ReservedSelection ==
  ASSUME TypeOK, NEW S \in SUBSET Seat, NEW c \in Chart, price[TierFor(c)] # None
  PROVE  [mode |-> "RESERVED", units |-> S, amount |-> price[TierFor(c)], tier |-> TierFor(c)]
            \in Selection
<1>1. price[TierFor(c)] \in Amount
  BY TierIsCell DEF TypeOK, Price
<1> QED
  BY <1>1, TierIsCell DEF Selection, Mode, Units

LEMMA BuyersKeepTypes ==
  ASSUME TypeOK, NEW s \in Session,
         \/ LoadPerformance(s) \/ TurnAway(s) \/ Release(s) \/ FulfillHold(s)
         \/ \E q \in 1 .. MaxQty, a \in Amount : SetGaHold(s, q, a)
         \/ \E S \in SUBSET Seat : SetReservedHold(s, S)
  PROVE  TypeOK'
<1>1. CASE LoadPerformance(s)
  BY <1>1 DEF TypeOK, LoadPerformance, pricing
<1>2. CASE TurnAway(s)
  BY <1>2 DEF TypeOK, TurnAway, pricing
<1>3. CASE Release(s)
  BY <1>3 DEF TypeOK, Release, pricing
<1>4. CASE FulfillHold(s)
  <2>1. carts[s] \in Selection /\ carts[s] # None
    BY <1>4 DEF TypeOK, FulfillHold, Active
  <2>2. PICK o \in Order : FreshOrder(o) /\ orders' = [orders EXCEPT ![o] = carts[s]]
    BY <1>4 DEF FulfillHold
  <2>3. /\ orders' \in [Order -> Selection \cup {None}]
        /\ void \subseteq {x \in Order : orders'[x] # None}
    BY <2>1, <2>2 DEF TypeOK, FreshOrder
  <2>4. Cardinality(carts[s].units) \in Nat
    <3>1. carts[s].units \in SUBSET (1 .. MaxQty) \/ carts[s].units \in SUBSET Seat
      BY <2>1 DEF Selection, Units
    <3>2. IsFiniteSet(1 .. MaxQty)
      BY FS_Interval, SmallHouse
    <3>3. IsFiniteSet(carts[s].units)
      BY <3>1, <3>2, FS_Subset, SmallHouse
    <3> QED
      BY <3>3, FS_CardinalityType
  <2>5. sold' \in Nat
    BY <1>4, <2>4 DEF TypeOK, FulfillHold
  <2>6. carts' \in [Session -> Selection \cup {None}]
    BY <1>4 DEF TypeOK, FulfillHold
  <2> QED
    BY <1>4, <2>3, <2>5, <2>6 DEF TypeOK, FulfillHold, pricing
<1>5. ASSUME NEW q \in 1 .. MaxQty, NEW a \in Amount, SetGaHold(s, q, a)
      PROVE  TypeOK'
  BY <1>5, GaSelection, HoldTyped DEF SetGaHold
<1>6. ASSUME NEW S \in SUBSET Seat, SetReservedHold(s, S)
      PROVE  TypeOK'
  <2>1. request[s].chart \in Chart
    BY <1>6 DEF TypeOK, SetReservedHold, Row
  <2> QED
    BY <1>6, <2>1, ReservedSelection, HoldTyped DEF SetReservedHold
<1> QED
  BY <1>1, <1>2, <1>3, <1>4, <1>5, <1>6

LEMMA StaffKeepTypes ==
  ASSUME TypeOK, NEW t \in Staff,
         \/ \E row \in Row, cap \in 0 .. MaxCapacity : SubmitForm(t, row, cap)
         \/ SaveAllocation(t) \/ FormDies(t) \/ OpenPrices(t)
         \/ \E cells \in [Cell -> Price] : SaveReservedPrices(t, cells)
         \/ \E a \in Amount : AddFlatTier(t, a)
  PROVE  TypeOK'
<1>1. ASSUME NEW row \in Row, NEW cap \in 0 .. MaxCapacity, SubmitForm(t, row, cap)
      PROVE  TypeOK'
  BY <1>1 DEF TypeOK, SubmitForm, pricing, buyers
<1>2. CASE SaveAllocation(t)
  <2>1. page[t].cap \in 0 .. MaxCapacity
    BY <1>2 DEF TypeOK, SaveAllocation, Shows
  <2> QED
    BY <1>2, <2>1 DEF TypeOK, SaveAllocation, pricing, buyers
<1>3. CASE FormDies(t)
  BY <1>3 DEF TypeOK, FormDies, pricing, buyers
<1>4. CASE OpenPrices(t)
  BY <1>4 DEF TypeOK, OpenPrices, pricing, buyers
<1>5. ASSUME NEW cells \in [Cell -> Price], SaveReservedPrices(t, cells)
      PROVE  TypeOK'
  <2>1. Posted(t, cells, perf.chart) \in [Cell -> Price]
    BY DEF Posted, Price
  <2>2. price' \in [Cell \X Chart -> Price]
    BY <1>5, <2>1 DEF TypeOK, SaveReservedPrices
  <2> QED
    BY <1>5, <2>2 DEF TypeOK, SaveReservedPrices, buyers
<1>6. ASSUME NEW a \in Amount, AddFlatTier(t, a)
      PROVE  TypeOK'
  BY <1>6 DEF TypeOK, AddFlatTier, buyers
<1> QED
  BY <1>1, <1>2, <1>3, <1>4, <1>5, <1>6

LEMMA TypesKept == TypeOK /\ [Next]_vars => TypeOK'
<1> SUFFICES ASSUME TypeOK, [Next]_vars
             PROVE  TypeOK'
  OBVIOUS
<1>1. CASE UNCHANGED vars
  BY <1>1 DEF TypeOK, vars
<1>2. ASSUME NEW o \in Order, VoidOrder(o)
      PROVE  TypeOK'
  <2>1. orders[o] # None /\ orders[o] \in Selection
    BY <1>2 DEF TypeOK, VoidOrder, Live
  <2>2. IsFiniteSet(1 .. MaxQty)
    BY FS_Interval, SmallHouse
  <2>3. Cardinality(orders[o].units) \in Nat
    BY <2>1, <2>2, FS_Subset, FS_CardinalityType, SmallHouse DEF Selection, Units
  <2>4. sold' \in Nat
    BY <1>2, <2>3 DEF TypeOK, VoidOrder
  <2> QED
    BY <1>2, <2>1, <2>4 DEF TypeOK, VoidOrder, pricing
<1> QED
  BY <1>1, <1>2, BuyersKeepTypes, StaffKeepTypes DEF Next

LEMMA TypesBegin == Init => TypeOK
BY NoneIsNothing, SmallHouse DEF Init, TypeOK, Row, Mode, Price

(* Whatever buyers and staff do to one performance, its rows, holds, orders *)
(* and forms stay of the kinds the models and forms declare.                *)
THEOREM TypeCorrect == Spec => []TypeOK
BY TypesBegin, TypesKept, PTL DEF Spec

-----------------------------------------------------------------------------
(* What edits leave without a place *)

StrayByEdit ==
    perf' = perf =>
       /\ \A s \in Session : s \in CartsAstray' /\ s \notin CartsAstray =>
              request[s] \notin {None, perf}
       /\ \A o \in Order : o \in OrdersAstray' /\ o \notin OrdersAstray =>
              \E s \in CartsAstray : s \notin CartsAstray'

LEMMA StepsStrayByEdit == TypeOK /\ [Next]_vars => StrayByEdit
<1> SUFFICES ASSUME TypeOK, [Next]_vars, perf' = perf
             PROVE  /\ \A s \in Session : s \in CartsAstray' /\ s \notin CartsAstray =>
                           request[s] \notin {None, perf}
                    /\ \A o \in Order : o \in OrdersAstray' /\ o \notin OrdersAstray =>
                           \E s \in CartsAstray : s \notin CartsAstray'
  BY DEF StrayByEdit
<1> DEFINE Goal == /\ \A s \in Session : s \in CartsAstray' /\ s \notin CartsAstray =>
                          request[s] \notin {None, perf}
                   /\ \A o \in Order : o \in OrdersAstray' /\ o \notin OrdersAstray =>
                          \E s \in CartsAstray : s \notin CartsAstray'
<1>1. CASE UNCHANGED <<carts, orders>> /\ void \subseteq void'
  BY <1>1 DEF CartsAstray, OrdersAstray, Live, Astray
<1>2. ASSUME NEW s \in Session, NEW sel \in Selection, Hold(s, sel), request[s] # None,
             sel.mode = request[s].mode,
             sel.mode = "RESERVED" => sel.units \subseteq SeatsOf[request[s].chart]
      PROVE  Goal
  <2>1. /\ carts' = [carts EXCEPT ![s] = sel]
        /\ UNCHANGED <<orders, void>>
    BY <1>2 DEF Hold
  <2>2. OrdersAstray' = OrdersAstray
    BY <2>1 DEF OrdersAstray, Live, Astray
  <2>3. ASSUME NEW x \in Session, x \in CartsAstray', x \notin CartsAstray
        PROVE  request[x] \notin {None, perf}
    <3>1. x = s
      BY <2>1, <2>3 DEF CartsAstray, Astray, TypeOK
    <3>2. carts'[s] = sel
      BY <2>1 DEF TypeOK
    <3>3. sel.mode # perf.mode \/ (sel.mode = "RESERVED" /\ ~(sel.units \subseteq SeatsOf[perf.chart]))
      BY <2>3, <3>1, <3>2 DEF CartsAstray, Astray
    <3> QED
      BY <1>2, <3>1, <3>3
  <2> QED
    BY <2>2, <2>3
<1>3. ASSUME NEW s \in Session, FulfillHold(s)
      PROVE  Goal
  <2>1. PICK o \in Order : FreshOrder(o) /\ orders' = [orders EXCEPT ![o] = carts[s]]
    BY <1>3 DEF FulfillHold
  <2>2. carts' = [carts EXCEPT ![s] = None] /\ s \in Active /\ void' = void
    BY <1>3 DEF FulfillHold
  <2>3. CartsAstray' = CartsAstray \ {s}
    BY <2>2 DEF CartsAstray, Astray, TypeOK
  <2>4. ASSUME NEW x \in Order, x \in OrdersAstray', x \notin OrdersAstray
        PROVE  s \in CartsAstray
    <3>1. x = o
      BY <2>1, <2>2, <2>4 DEF OrdersAstray, Live, Astray, TypeOK
    <3>2. orders'[o] = carts[s]
      BY <2>1 DEF TypeOK
    <3> QED
      BY <2>2, <2>4, <3>1, <3>2 DEF OrdersAstray, CartsAstray, Astray, Active
  <2> QED
    BY <2>3, <2>4
<1>4. ASSUME NEW s \in Session, Release(s)
      PROVE  Goal
  BY <1>4 DEF Release, CartsAstray, OrdersAstray, Live, Astray, TypeOK
<1>5. ASSUME NEW s \in Session, NEW q \in 1 .. MaxQty, NEW a \in Amount, SetGaHold(s, q, a)
      PROVE  Goal
  BY <1>2, <1>5, GaSelection DEF SetGaHold
<1>6. ASSUME NEW s \in Session, NEW S \in SUBSET Seat, SetReservedHold(s, S)
      PROVE  Goal
  <2>1. request[s].chart \in Chart
    BY <1>6 DEF TypeOK, SetReservedHold, Row
  <2> QED
    BY <1>2, <1>6, <2>1, ReservedSelection DEF SetReservedHold
<1>7. CASE UNCHANGED vars
  BY <1>1, <1>7 DEF vars
<1>8. ASSUME NEW s \in Session, LoadPerformance(s) \/ TurnAway(s)
      PROVE  Goal
  BY <1>1, <1>8 DEF LoadPerformance, TurnAway
<1>9. ASSUME NEW o \in Order, VoidOrder(o)
      PROVE  Goal
  BY <1>1, <1>9 DEF VoidOrder
<1>10. ASSUME NEW t \in Staff,
              \/ \E row \in Row, cap \in 0 .. MaxCapacity : SubmitForm(t, row, cap)
              \/ SaveAllocation(t) \/ FormDies(t) \/ OpenPrices(t)
              \/ \E cells \in [Cell -> Price] : SaveReservedPrices(t, cells)
              \/ \E a \in Amount : AddFlatTier(t, a)
       PROVE  Goal
  BY <1>1, <1>10 DEF SubmitForm, SaveAllocation, FormDies, OpenPrices, SaveReservedPrices,
                     AddFlatTier, buyers
<1> QED
  BY <1>3, <1>4, <1>5, <1>6, <1>7, <1>8, <1>9, <1>10 DEF Next

(* Nothing comes to be held or sold outside the house but by an edit of the *)
(* performance, or in a request that loaded the performance before it       *)
(* (hold_create and PerformanceForm).                                       *)
THEOREM OnlyEditsLeadAstray == Spec => AstrayThroughEditsOnly
<1>1. TypeOK /\ [Next]_vars => [StrayByEdit]_vars
  BY StepsStrayByEdit
<1>2. Spec => [][StrayByEdit]_vars
  BY <1>1, TypesBegin, TypesKept, PTL DEF Spec
<1> QED
  BY <1>2 DEF AstrayThroughEditsOnly, StrayByEdit

-----------------------------------------------------------------------------
(* The allocation counts the tickets *)

GaOrders  == {x \in Live : orders[x].mode = "GA"}
GaTickets == UNION {{o} \X orders[o].units : o \in GaOrders}

LEMMA UnitsFinite ==
  ASSUME NEW U \in Units
  PROVE  IsFiniteSet(U) /\ Cardinality(U) \in Nat
<1>1. IsFiniteSet(1 .. MaxQty)
  BY FS_Interval, SmallHouse
<1>2. IsFiniteSet(U)
  BY <1>1, FS_Subset, SmallHouse DEF Units
<1> QED
  BY <1>2, FS_CardinalityType

LEMMA GaTicketsFinite ==
  ASSUME TypeOK
  PROVE  IsFiniteSet(GaTickets) /\ Cardinality(GaTickets) \in Nat
<1> DEFINE U == (1 .. MaxQty) \cup Seat
<1>1. IsFiniteSet(1 .. MaxQty) /\ IsFiniteSet(Order)
  BY FS_Interval, SmallHouse DEF Order
<1>2. IsFiniteSet(Order \X U)
  BY <1>1, FS_Union, FS_Product, SmallHouse
<1>3. \A o \in GaOrders : orders[o].units \in Units /\ o \in Order
  BY DEF GaOrders, Live, TypeOK, Selection
<1>4. GaTickets \in SUBSET (Order \X U)
  BY <1>3 DEF GaTickets, Units
<1> QED
  BY <1>2, <1>4, FS_Subset, FS_CardinalityType

LEMMA TicketsOf ==
  ASSUME NEW o, NEW U \in Units
  PROVE  /\ IsFiniteSet({o} \X U)
         /\ Cardinality({o} \X U) = Cardinality(U)
<1>1. IsFiniteSet({o}) /\ Cardinality({o}) = 1
  BY FS_Singleton
<1> QED
  BY <1>1, UnitsFinite, FS_Product

AllocInv == TypeOK /\ AllocationIsTrue

LEMMA AllocAlone ==
  ASSUME AllocInv, TypeOK', UNCHANGED <<orders, void, sold, capacity>>
  PROVE  AllocationIsTrue'
BY DEF AllocInv, AllocationIsTrue, Live

(* A sale adds its tickets to those of an order that had none. *)
LEMMA FulfilKeepsAlloc ==
  ASSUME AllocInv, NEW s \in Session, FulfillHold(s)
  PROVE  AllocationIsTrue'
<1> DEFINE U == carts[s].units
<1>1. carts[s] \in Selection /\ U \in Units
  BY DEF AllocInv, TypeOK, FulfillHold, Active, Selection
<1>2. PICK o \in Order : FreshOrder(o) /\ orders' = [orders EXCEPT ![o] = carts[s]]
  BY DEF FulfillHold
<1>3. /\ orders[o] = None /\ o \notin void /\ void' = void
      /\ orders'[o] = carts[s] /\ carts[s] # None
      /\ \A x \in Order : x # o => orders'[x] = orders[x]
      /\ capacity' = capacity
  BY <1>2 DEF AllocInv, TypeOK, FreshOrder, FulfillHold, Active
<1>4. CASE carts[s].mode = "GA"
  <2>1. GaOrders' = GaOrders \cup {o} /\ o \notin GaOrders
    BY <1>3, <1>4 DEF GaOrders, Live
  <2>2. GaTickets' = GaTickets \cup ({o} \X U)
    BY <1>3, <2>1 DEF GaTickets, GaOrders, Live
  <2>3. GaTickets \cap ({o} \X U) = {}
    BY <2>1 DEF GaTickets
  <2>4. Cardinality(GaTickets') = Cardinality(GaTickets) + Cardinality(U)
    <3>1. IsFiniteSet({o} \X U) /\ Cardinality({o} \X U) = Cardinality(U)
      BY <1>1, TicketsOf
    <3>2. IsFiniteSet(GaTickets) /\ Cardinality(GaTickets) \in Nat
      BY GaTicketsFinite DEF AllocInv
    <3>3. Cardinality(GaTickets \cup ({o} \X U))
            = Cardinality(GaTickets) + Cardinality({o} \X U) - Cardinality(GaTickets \cap ({o} \X U))
      BY <3>1, <3>2, FS_Union
    <3>4. Cardinality(GaTickets \cap ({o} \X U)) = 0
      BY <2>3, FS_EmptySet
    <3>5. Cardinality(U) \in Nat
      BY <1>1, UnitsFinite
    <3> HIDE DEF U
    <3> QED
      BY <2>2, <3>1, <3>2, <3>3, <3>4, <3>5
  <2>5. /\ sold' = sold + Cardinality(U)
        /\ capacity # None /\ sold + Cardinality(U) <= capacity
    BY <1>4 DEF FulfillHold, RoomFor
  <2> QED
    BY <1>3, <2>4, <2>5 DEF AllocInv, AllocationIsTrue, GaTickets, GaOrders
<1>5. CASE carts[s].mode # "GA"
  <2>1. GaOrders' = GaOrders /\ o \notin GaOrders
    BY <1>3, <1>5 DEF GaOrders, Live
  <2>2. GaTickets' = GaTickets
    BY <1>3, <2>1 DEF GaTickets, GaOrders, Live
  <2>3. sold' = sold
    BY <1>5 DEF FulfillHold
  <2> QED
    BY <1>3, <2>2, <2>3 DEF AllocInv, AllocationIsTrue, GaTickets, GaOrders
<1> QED
  BY <1>4, <1>5

(* A cancellation takes its tickets away: the floor at nothing in void_order *)
(* is never reached.                                                         *)
LEMMA VoidKeepsAlloc ==
  ASSUME AllocInv, NEW o \in Order, VoidOrder(o)
  PROVE  AllocationIsTrue'
<1> DEFINE U == orders[o].units
<1>1. /\ o \in Live /\ void' = void \cup {o} /\ orders' = orders /\ capacity' = capacity
      /\ U \in Units
  BY DEF VoidOrder, Live, AllocInv, TypeOK, Selection
<1>2. CASE orders[o].mode = "GA"
  <2>1. GaOrders' = GaOrders \ {o} /\ o \in GaOrders
    BY <1>1, <1>2 DEF GaOrders, Live
  <2>2. GaTickets = GaTickets' \cup ({o} \X U) /\ GaTickets' \cap ({o} \X U) = {}
    BY <1>1, <2>1 DEF GaTickets
  <2>3. GaTickets' \in SUBSET GaTickets
    BY <2>2
  <2>4. IsFiniteSet(GaTickets') /\ Cardinality(GaTickets') \in Nat
    BY <2>3, GaTicketsFinite, FS_Subset, FS_CardinalityType DEF AllocInv
  <2>5. Cardinality(GaTickets) = Cardinality(GaTickets') + Cardinality(U)
    <3>1. IsFiniteSet({o} \X U) /\ Cardinality({o} \X U) = Cardinality(U)
      BY <1>1, TicketsOf
    <3>2. Cardinality(GaTickets' \cup ({o} \X U))
            = Cardinality(GaTickets') + Cardinality({o} \X U) - Cardinality(GaTickets' \cap ({o} \X U))
      BY <2>4, <3>1, FS_Union
    <3>3. Cardinality(GaTickets' \cap ({o} \X U)) = 0
      BY <2>2, FS_EmptySet
    <3>4. Cardinality(U) \in Nat
      BY <1>1, UnitsFinite
    <3> HIDE DEF U
    <3> QED
      BY <2>2, <2>4, <3>1, <3>2, <3>3, <3>4
  <2>6. sold = Cardinality(GaTickets)
    BY DEF AllocInv, AllocationIsTrue, GaTickets, GaOrders
  <2>7. sold' = sold - Cardinality(U)
    BY <1>1, <1>2, <2>4, <2>5, <2>6, UnitsFinite DEF VoidOrder
  <2>8. sold' = Cardinality(GaTickets') /\ sold' <= sold
    BY <1>1, <2>4, <2>5, <2>6, <2>7, UnitsFinite
  <2>9. /\ capacity # None => capacity \in Nat
        /\ capacity # None => sold <= capacity
        /\ capacity = None => sold = 0
    BY SmallHouse DEF AllocInv, AllocationIsTrue, TypeOK
  <2> QED
    BY <1>1, <2>4, <2>6, <2>8, <2>9, GaTicketsFinite
    DEF AllocInv, AllocationIsTrue, GaTickets, GaOrders
<1>3. CASE orders[o].mode # "GA"
  <2>1. GaOrders' = GaOrders
    BY <1>1, <1>3 DEF GaOrders, Live
  <2>2. GaTickets' = GaTickets
    BY <1>1, <2>1 DEF GaTickets
  <2>3. sold' = sold
    BY <1>3 DEF VoidOrder
  <2> QED
    BY <1>1, <2>2, <2>3 DEF AllocInv, AllocationIsTrue, GaTickets, GaOrders
<1> QED
  BY <1>2, <1>3

(* The database refuses a capacity below the count. *)
LEMMA SaveKeepsAlloc ==
  ASSUME AllocInv, NEW t \in Staff, SaveAllocation(t)
  PROVE  AllocationIsTrue'
<1>1. UNCHANGED <<orders, void, sold>>
  BY DEF SaveAllocation, buyers
<1>2. page[t].cap \in 0 .. MaxCapacity
  BY DEF AllocInv, TypeOK, SaveAllocation, Shows
<1>3. page[t].cap # None
  BY <1>2, NoneIsNothing
<1> QED
  BY <1>1, <1>3 DEF AllocInv, SaveAllocation, AllocationIsTrue, Live

LEMMA AllocKept == AllocInv /\ [Next]_vars => AllocInv'
<1> SUFFICES ASSUME AllocInv, [Next]_vars
             PROVE  AllocationIsTrue'
  BY TypesKept DEF AllocInv
<1>1. TypeOK'
  BY TypesKept DEF AllocInv
<1>2. CASE UNCHANGED <<orders, void, sold, capacity>>
  BY <1>1, <1>2, AllocAlone
<1>3. CASE UNCHANGED vars
  BY <1>2, <1>3 DEF vars
<1>4. ASSUME NEW s \in Session,
             \/ LoadPerformance(s) \/ TurnAway(s) \/ Release(s)
             \/ \E q \in 1 .. MaxQty, a \in Amount : SetGaHold(s, q, a)
             \/ \E S \in SUBSET Seat : SetReservedHold(s, S)
      PROVE  AllocationIsTrue'
  BY <1>2, <1>4 DEF LoadPerformance, TurnAway, Release, SetGaHold, SetReservedHold, Hold
<1>5. ASSUME NEW t \in Staff,
             \/ \E row \in Row, cap \in 0 .. MaxCapacity : SubmitForm(t, row, cap)
             \/ FormDies(t) \/ OpenPrices(t)
             \/ \E cells \in [Cell -> Price] : SaveReservedPrices(t, cells)
             \/ \E a \in Amount : AddFlatTier(t, a)
      PROVE  AllocationIsTrue'
  BY <1>2, <1>5 DEF SubmitForm, FormDies, OpenPrices, SaveReservedPrices, AddFlatTier, buyers
<1> QED
  BY <1>3, <1>4, <1>5, FulfilKeepsAlloc, VoidKeepsAlloc, SaveKeepsAlloc DEF Next

LEMMA AllocBegins == Init => AllocInv
<1> SUFFICES ASSUME Init
             PROVE  AllocationIsTrue
  BY TypesBegin DEF AllocInv
<1>1. GaTickets = {}
  BY DEF Init, GaTickets, GaOrders, Live
<1>2. sold = 0 /\ (capacity # None => capacity \in Nat)
  BY SmallHouse DEF Init
<1> QED
  BY <1>1, <1>2, FS_EmptySet DEF AllocationIsTrue, GaTickets, GaOrders

(* GAAllocation.sold is the number of live general admission tickets and   *)
(* never above the capacity, whatever the performance was switched to and  *)
(* whichever of PerformanceForm's two statements was lost.                 *)
THEOREM AllocationStaysTrue == Spec => []AllocationIsTrue
<1>1. AllocInv => AllocationIsTrue
  BY DEF AllocInv
<1> QED
  BY <1>1, AllocBegins, AllocKept, PTL DEF Spec

-----------------------------------------------------------------------------
(* The pages agree *)

(* What the figures rest on: the allocation is true, no seat is sold twice,  *)
(* and only so many sessions hold something that they can be counted.        *)
HouseInv == AllocInv /\ SeatsSoldOnce /\ IsFiniteSet(Active)

LEMMA HouseAlone ==
  ASSUME HouseInv, UNCHANGED <<carts, orders, void>>
  PROVE  SeatsSoldOnce' /\ IsFiniteSet(Active)'
BY DEF HouseInv, SeatsSoldOnce, Live, Active

LEMMA HoldKeepsHouse ==
  ASSUME HouseInv, NEW s \in Session, NEW sel, Hold(s, sel)
  PROVE  SeatsSoldOnce' /\ IsFiniteSet(Active)'
<1>1. UNCHANGED <<orders, void>> /\ carts' = [carts EXCEPT ![s] = sel]
  BY DEF Hold
<1>2. SeatsSoldOnce'
  BY <1>1 DEF HouseInv, SeatsSoldOnce, Live
<1>3. Active' \in SUBSET (Active \cup {s})
  BY <1>1 DEF Active, HouseInv, AllocInv, TypeOK
<1>4. IsFiniteSet(Active \cup {s})
  BY FS_AddElement DEF HouseInv
<1> QED
  BY <1>2, <1>3, <1>4, FS_Subset

LEMMA ReleaseKeepsHouse ==
  ASSUME HouseInv, NEW s \in Session, Release(s)
  PROVE  SeatsSoldOnce' /\ IsFiniteSet(Active)'
<1>1. UNCHANGED <<orders, void>> /\ carts' = [carts EXCEPT ![s] = None]
  BY DEF Release
<1>2. SeatsSoldOnce'
  BY <1>1 DEF HouseInv, SeatsSoldOnce, Live
<1>3. Active' \in SUBSET Active
  BY <1>1 DEF Active, HouseInv, AllocInv, TypeOK
<1> QED
  BY <1>2, <1>3, FS_Subset DEF HouseInv

(* fulfill_hold finds the seats free of live tickets before it issues them. *)
LEMMA FulfilKeepsHouse ==
  ASSUME HouseInv, NEW s \in Session, FulfillHold(s)
  PROVE  SeatsSoldOnce' /\ IsFiniteSet(Active)'
<1>1. PICK o \in Order : FreshOrder(o) /\ orders' = [orders EXCEPT ![o] = carts[s]]
  BY DEF FulfillHold
<1>2. /\ void' = void /\ carts' = [carts EXCEPT ![s] = None]
      /\ carts[s].mode # "GA" => carts[s].units \cap TicketedSeats = {}
  BY DEF FulfillHold
<1>3. /\ orders'[o] = carts[s]
      /\ \A q \in Order : q # o => orders'[q] = orders[q]
      /\ Live' \in SUBSET (Live \cup {o})
  BY <1>1, <1>2 DEF HouseInv, AllocInv, TypeOK, Live
<1>4. ASSUME NEW q \in Live, orders[q].mode = "RESERVED", carts[s].mode = "RESERVED"
      PROVE  orders[q].units \cap carts[s].units = {}
  BY <1>2, <1>4 DEF TicketedSeats
<1>5. SeatsSoldOnce'
  <2> SUFFICES ASSUME NEW p \in Live', NEW q \in Live', p # q,
                      orders'[p].mode = "RESERVED", orders'[q].mode = "RESERVED"
               PROVE  orders'[p].units \cap orders'[q].units = {}
    BY DEF SeatsSoldOnce
  <2>1. p \in Order /\ q \in Order
    BY DEF Live
  <2>2. CASE p # o /\ q # o
    BY <1>3, <2>1, <2>2 DEF HouseInv, SeatsSoldOnce
  <2>3. CASE p = o
    <3>1. q \in Live /\ orders'[q] = orders[q] /\ orders'[p] = carts[s]
      BY <1>3, <2>1, <2>3
    <3> QED
      BY <1>4, <3>1
  <2>4. CASE q = o
    <3>1. p \in Live /\ orders'[p] = orders[p] /\ orders'[q] = carts[s]
      BY <1>3, <2>1, <2>4
    <3> QED
      BY <1>4, <3>1
  <2> QED
    BY <2>2, <2>3, <2>4
<1>6. Active' \in SUBSET Active
  BY <1>2 DEF Active, HouseInv, AllocInv, TypeOK
<1> QED
  BY <1>5, <1>6, FS_Subset DEF HouseInv

LEMMA VoidKeepsHouse ==
  ASSUME HouseInv, NEW o \in Order, VoidOrder(o)
  PROVE  SeatsSoldOnce' /\ IsFiniteSet(Active)'
<1>1. /\ UNCHANGED <<orders, carts>>
      /\ Live' \in SUBSET Live
  BY DEF VoidOrder, Live
<1> QED
  BY <1>1 DEF HouseInv, SeatsSoldOnce, Active

LEMMA HouseKept == HouseInv /\ [Next]_vars => HouseInv'
<1> SUFFICES ASSUME HouseInv, [Next]_vars
             PROVE  SeatsSoldOnce' /\ IsFiniteSet(Active)'
  BY AllocKept DEF HouseInv
<1>1. CASE UNCHANGED vars
  BY <1>1, HouseAlone DEF vars
<1>2. ASSUME NEW s \in Session, LoadPerformance(s) \/ TurnAway(s)
      PROVE  SeatsSoldOnce' /\ IsFiniteSet(Active)'
  BY <1>2, HouseAlone DEF LoadPerformance, TurnAway
<1>3. ASSUME NEW s \in Session, NEW q \in 1 .. MaxQty, NEW a \in Amount, SetGaHold(s, q, a)
      PROVE  SeatsSoldOnce' /\ IsFiniteSet(Active)'
  BY <1>3, HoldKeepsHouse DEF SetGaHold
<1>4. ASSUME NEW s \in Session, NEW S \in SUBSET Seat, SetReservedHold(s, S)
      PROVE  SeatsSoldOnce' /\ IsFiniteSet(Active)'
  BY <1>4, HoldKeepsHouse DEF SetReservedHold
<1>5. ASSUME NEW t \in Staff,
             \/ \E row \in Row, cap \in 0 .. MaxCapacity : SubmitForm(t, row, cap)
             \/ SaveAllocation(t) \/ FormDies(t) \/ OpenPrices(t)
             \/ \E cells \in [Cell -> Price] : SaveReservedPrices(t, cells)
             \/ \E a \in Amount : AddFlatTier(t, a)
      PROVE  SeatsSoldOnce' /\ IsFiniteSet(Active)'
  BY <1>5, HouseAlone DEF SubmitForm, SaveAllocation, FormDies, OpenPrices, SaveReservedPrices,
                          AddFlatTier, buyers
<1> QED
  BY <1>1, <1>2, <1>3, <1>4, <1>5, ReleaseKeepsHouse, FulfilKeepsHouse, VoidKeepsHouse DEF Next

(* The quantities held by others can be counted. *)
LEMMA HeldFinite ==
  ASSUME HouseInv, NEW s \in Session, NEW mode
  PROVE  IsFiniteSet(HeldByOthers(s, mode)) /\ Cardinality(HeldByOthers(s, mode)) \in Nat
<1> DEFINE U == (1 .. MaxQty) \cup Seat
<1>1. IsFiniteSet(1 .. MaxQty)
  BY FS_Interval, SmallHouse
<1>2. IsFiniteSet(Active \X U)
  BY <1>1, FS_Union, FS_Product, SmallHouse DEF HouseInv
<1>3. \A x \in Active : carts[x].units \in Units
  BY DEF HouseInv, AllocInv, TypeOK, Active, Selection
<1>4. HeldByOthers(s, mode) \in SUBSET (Active \X U)
  BY <1>3 DEF HeldByOthers, Units
<1> QED
  BY <1>2, <1>4, FS_Subset, FS_CardinalityType

LEMMA TicketsFinite ==
  ASSUME TypeOK
  PROVE  IsFiniteSet(Tickets)
<1> DEFINE U == (1 .. MaxQty) \cup Seat
<1>1. IsFiniteSet(1 .. MaxQty) /\ IsFiniteSet(Order)
  BY FS_Interval, SmallHouse DEF Order
<1>2. IsFiniteSet(Order \X U)
  BY <1>1, FS_Union, FS_Product, SmallHouse
<1>3. \A o \in Live : orders[o].units \in Units /\ o \in Order
  BY DEF Live, TypeOK, Selection
<1>4. Tickets \in SUBSET (Order \X U)
  BY <1>3 DEF Tickets, Units
<1> QED
  BY <1>2, <1>4, FS_Subset

Fitting == Tickets \ TicketsAstray

(* A ticket is astray or it is not. *)
LEMMA TicketsSplit ==
  ASSUME TypeOK
  PROVE  /\ IsFiniteSet(Fitting) /\ Cardinality(Fitting) \in Nat
         /\ Cardinality(TicketsAstray) \in Nat
         /\ SoldShown = Cardinality(Fitting) + Cardinality(TicketsAstray)
<1>1. IsFiniteSet(Tickets) /\ Cardinality(Tickets) \in Nat
  BY TicketsFinite, FS_CardinalityType
<1>2. TicketsAstray \in SUBSET Tickets /\ Tickets \cap TicketsAstray = TicketsAstray
  BY DEF TicketsAstray
<1>3. IsFiniteSet(TicketsAstray) /\ Cardinality(TicketsAstray) \in Nat
  BY <1>1, <1>2, FS_Subset, FS_CardinalityType
<1>4. /\ IsFiniteSet(Fitting)
      /\ Cardinality(Fitting) = Cardinality(Tickets) - Cardinality(Tickets \cap TicketsAstray)
  BY <1>1, FS_Difference DEF Fitting
<1>5. Cardinality(Fitting) \in Nat
  BY <1>4, FS_CardinalityType
<1>6. Cardinality(Fitting) = Cardinality(Tickets) - Cardinality(TicketsAstray)
  BY <1>2, <1>4
<1>7. SoldShown = Cardinality(Fitting) + Cardinality(TicketsAstray)
  BY <1>1, <1>3, <1>5, <1>6 DEF SoldShown
<1> QED
  BY <1>3, <1>4, <1>5, <1>7

(* The tickets that fit the chart and the seats drawn as sold are as many:  *)
(* no two tickets share a seat.                                             *)
LEMMA FittingAreSeats ==
  ASSUME HouseInv, perf.mode = "RESERVED", IsFiniteSet(Coloured)
  PROVE  Cardinality(Fitting) = Cardinality(Coloured)
<1> DEFINE f == [k \in Fitting |-> k[2]]
<1>1. \A k \in Fitting : /\ k = <<k[1], k[2]>> /\ k[1] \in Live /\ k[2] \in orders[k[1]].units
                         /\ orders[k[1]].mode = "RESERVED" /\ k[2] \in SeatsOf[perf.chart]
  BY DEF Fitting, Tickets, TicketsAstray
<1>2. Coloured = TicketedSeats \cap SeatsOf[perf.chart]
  BY DEF Coloured
<1>3. f \in [Fitting -> Coloured]
  BY <1>1, <1>2 DEF TicketedSeats
<1>4. ASSUME NEW k \in Fitting, NEW r \in Fitting, f[k] = f[r]
      PROVE  k = r
  <2>1. k[2] = r[2] /\ k[1] \in Live /\ r[1] \in Live
    BY <1>1, <1>4
  <2>2. k[1] = r[1]
    BY <1>1, <2>1 DEF HouseInv, SeatsSoldOnce
  <2> QED
    BY <1>1, <2>1, <2>2
<1>5. ASSUME NEW u \in Coloured
      PROVE  \E k \in Fitting : f[k] = u
  <2>1. PICK o \in Live : u \in orders[o].units /\ orders[o].mode = "RESERVED"
    BY <1>2 DEF TicketedSeats
  <2>2. <<o, u>> \in Fitting
    BY <1>2, <2>1 DEF Tickets, TicketsAstray, Fitting
  <2> QED
    BY <2>2
<1>6. f \in Injection(Fitting, Coloured) /\ f \in Surjection(Fitting, Coloured)
  BY <1>3, <1>4, <1>5, Zenon DEF Injection, IsInjective, Surjection
<1> QED
  BY <1>6, FS_Injection

LEMMA GaHouseAddsUp ==
  ASSUME HouseInv, capacity # None, perf.mode = "GA", NEW s \in Session
  PROVE  SoldShown + AvailableShown(s) <= CapacityShown + Cardinality(TicketsAstray)
<1> DEFINE held == Cardinality(HeldByOthers(s, "GA"))
<1>1. Fitting = GaTickets
  BY DEF Fitting, Tickets, TicketsAstray, GaTickets, GaOrders
<1>2. sold = Cardinality(Fitting) /\ sold \in Nat /\ capacity \in Nat /\ sold <= capacity
  BY <1>1, SmallHouse DEF HouseInv, AllocInv, TypeOK, AllocationIsTrue, GaTickets, GaOrders
<1>3. held \in Nat
  BY HeldFinite
<1>4. AvailableShown(s) = IF sold + held <= capacity THEN capacity - (sold + held) ELSE 0
  BY DEF AvailableShown, RoomFor
<1>5. CapacityShown = capacity
  BY DEF CapacityShown
<1>6. SoldShown = sold + Cardinality(TicketsAstray) /\ Cardinality(TicketsAstray) \in Nat
  BY <1>2, TicketsSplit DEF HouseInv, AllocInv
<1> HIDE DEF held
<1> QED
  BY <1>2, <1>3, <1>4, <1>5, <1>6

LEMMA ReservedHouseAddsUp ==
  ASSUME HouseInv, perf.mode = "RESERVED"
  PROVE  /\ SoldShown = Cardinality(Coloured) + Cardinality(TicketsAstray)
         /\ \A s \in Session :
               SoldShown + AvailableShown(s) <= CapacityShown + Cardinality(TicketsAstray)
<1> DEFINE all == SeatsOf[perf.chart]
<1>1. Coloured = TicketedSeats \cap all /\ Coloured = all \cap TicketedSeats
  BY DEF Coloured
<1>2. IsFiniteSet(all) /\ Cardinality(all) \in Nat
  <2>1. perf.chart \in Chart
    BY DEF HouseInv, AllocInv, TypeOK, Row
  <2> QED
    BY <2>1, ChartsApart, SmallHouse, FS_Subset, FS_CardinalityType
<1>3. IsFiniteSet(Coloured) /\ Cardinality(Coloured) \in Nat
  BY <1>1, <1>2, FS_Subset, FS_CardinalityType
<1>4. SoldShown = Cardinality(Coloured) + Cardinality(TicketsAstray)
      /\ Cardinality(TicketsAstray) \in Nat
  BY <1>3, FittingAreSeats, TicketsSplit DEF HouseInv, AllocInv
<1>5. CapacityShown = Cardinality(all)
  BY DEF CapacityShown
<1>6. ASSUME NEW s \in Session
      PROVE  SoldShown + AvailableShown(s) <= CapacityShown + Cardinality(TicketsAstray)
  <2> DEFINE free == all \ (TicketedSeats \cup SeatsHeldByOthers(s))
  <2>1. free \in SUBSET (all \ TicketedSeats)
    OBVIOUS
  <2>2. /\ IsFiniteSet(all \ TicketedSeats)
        /\ Cardinality(all \ TicketedSeats) = Cardinality(all) - Cardinality(all \cap TicketedSeats)
    BY <1>2, FS_Difference
  <2>3. Cardinality(free) <= Cardinality(all \ TicketedSeats) /\ Cardinality(free) \in Nat
    BY <2>1, <2>2, FS_Subset, FS_CardinalityType
  <2>4. AvailableShown(s) = Cardinality(free)
    BY DEF AvailableShown
  <2>5. Cardinality(all \ TicketedSeats) = Cardinality(all) - Cardinality(Coloured)
    BY <1>1, <2>2
  <2> HIDE DEF free, all
  <2> QED
    BY <1>2, <1>3, <1>4, <1>5, <2>3, <2>4, <2>5
<1> QED
  BY <1>4, <1>6

LEMMA HouseAgrees == HouseInv => HouseAddsUp
<1> SUFFICES ASSUME HouseInv, CapacityShown # None
             PROVE  /\ perf.mode = "RESERVED" =>
                          SoldShown = Cardinality(Coloured) + Cardinality(TicketsAstray)
                    /\ \A s \in Session :
                          SoldShown + AvailableShown(s) <= CapacityShown + Cardinality(TicketsAstray)
  BY DEF HouseAddsUp
<1>1. perf.mode = "GA" \/ perf.mode = "RESERVED"
  BY DEF HouseInv, AllocInv, TypeOK, Row, Mode
<1>2. CASE perf.mode = "GA"
  <2>1. capacity # None
    BY <1>2 DEF CapacityShown
  <2> QED
    BY <1>2, <2>1, GaHouseAddsUp
<1>3. CASE perf.mode = "RESERVED"
  BY <1>3, ReservedHouseAddsUp
<1> QED
  BY <1>1, <1>2, <1>3

LEMMA HouseBegins == Init => HouseInv
<1> SUFFICES ASSUME Init
             PROVE  HouseInv
  OBVIOUS
<1>1. AllocInv
  BY AllocBegins
<1>2. Live = {} /\ Active = {}
  BY DEF Init, Live, Active
<1>3. IsFiniteSet(Active)
  BY <1>2, FS_EmptySet
<1> QED
  BY <1>1, <1>2, <1>3 DEF HouseInv, SeatsSoldOnce

(* The dashboard draws a seat for every ticket but those an edit left       *)
(* astray, and the selection page offers each buyer no more than what those *)
(* leave of the capacity (the counts of performance_detail, ga_available    *)
(* and the seat map).                                                       *)
THEOREM PagesAgree == Spec => []HouseAddsUp
BY HouseBegins, HouseKept, HouseAgrees, PTL DEF Spec

-----------------------------------------------------------------------------
(* Only a saved form overcommits the allocation *)

(* A performance that never had an allocation holds no GA places. *)
HeldInv == HouseInv /\ (capacity = None => HeldGa = {})

OverByASave ==
    Overcommitted' /\ ~Overcommitted =>
       /\ capacity' < capacity
       /\ \E t \in Staff : Shows(t, "saving") /\ page'[t] = None

LEMMA HeldGaFinite ==
  ASSUME HouseInv
  PROVE  IsFiniteSet(HeldGa) /\ Cardinality(HeldGa) \in Nat
<1> DEFINE U == (1 .. MaxQty) \cup Seat
<1>1. IsFiniteSet(1 .. MaxQty)
  BY FS_Interval, SmallHouse
<1>2. IsFiniteSet(Active \X U)
  BY <1>1, FS_Union, FS_Product, SmallHouse DEF HouseInv
<1>3. \A x \in Active : carts[x].units \in Units
  BY DEF HouseInv, AllocInv, TypeOK, Active, Selection
<1>4. HeldGa \in SUBSET (Active \X U)
  BY <1>3 DEF HeldGa, Units
<1> QED
  BY <1>2, <1>4, FS_Subset, FS_CardinalityType

(* The places of one GA hold and those of the others are apart. *)
LEMMA HeldWith ==
  ASSUME HouseInv, NEW s \in Session, NEW U \in Units
  PROVE  /\ IsFiniteSet(HeldByOthers(s, "GA") \cup ({s} \X U))
         /\ Cardinality(HeldByOthers(s, "GA") \cup ({s} \X U))
              = Cardinality(HeldByOthers(s, "GA")) + Cardinality(U)
<1> DEFINE H == HeldByOthers(s, "GA")
<1>1. IsFiniteSet(H) /\ Cardinality(H) \in Nat
  BY HeldFinite
<1>2. IsFiniteSet({s} \X U) /\ Cardinality({s} \X U) = Cardinality(U) /\ Cardinality(U) \in Nat
  BY TicketsOf, UnitsFinite
<1>3. H \cap ({s} \X U) = {}
  BY DEF HeldByOthers
<1>4. /\ IsFiniteSet(H \cup ({s} \X U))
      /\ Cardinality(H \cup ({s} \X U))
           = Cardinality(H) + Cardinality({s} \X U) - Cardinality(H \cap ({s} \X U))
  BY <1>1, <1>2, FS_Union
<1>5. Cardinality(H \cap ({s} \X U)) = 0
  BY <1>3, FS_EmptySet
<1> HIDE DEF H
<1>6. Cardinality(H \cup ({s} \X U)) = Cardinality(H) + Cardinality(U)
  BY <1>1, <1>2, <1>4, <1>5
<1> QED
  BY <1>4, <1>6 DEF H

(* What everybody else holds is a part of what everybody holds. *)
LEMMA HeldByOthersIsHeld ==
  ASSUME HouseInv, NEW s \in Session
  PROVE  /\ HeldByOthers(s, "GA") \in SUBSET HeldGa
         /\ Cardinality(HeldByOthers(s, "GA")) <= Cardinality(HeldGa)
<1>1. HeldByOthers(s, "GA") \in SUBSET HeldGa
  BY DEF HeldByOthers, HeldGa
<1> QED
  BY <1>1, HeldGaFinite, FS_Subset

(* An allocation that keeps its capacity is overcommitted by nothing that   *)
(* leaves the places sold and held no more than they were.                  *)
LEMMA NoMoreIsNotOver ==
  ASSUME HouseInv, NEW n \in Nat, NEW h \in Nat, capacity' = capacity,
         sold' = n, Cardinality(HeldGa') = h, n + h <= sold + Cardinality(HeldGa)
  PROVE  ~(Overcommitted' /\ ~Overcommitted)
<1>1. sold \in Nat /\ Cardinality(HeldGa) \in Nat /\ (capacity # None => capacity \in Nat)
  BY HeldGaFinite, SmallHouse DEF HouseInv, AllocInv, TypeOK
<1> QED
  BY <1>1 DEF Overcommitted

LEMMA QuantityCounted ==
  ASSUME NEW q \in 1 .. MaxQty
  PROVE  1 .. q \in Units /\ Cardinality(1 .. q) = q
<1>1. 1 .. q \in SUBSET (1 .. MaxQty)
  BY SmallHouse
<1>2. Cardinality(1 .. q) = q
  BY FS_Interval, SmallHouse
<1> QED
  BY <1>1, <1>2 DEF Units

(* set_ga_hold adds what it is asked for to what the others hold. *)
LEMMA GaHoldFits ==
  ASSUME HeldInv, NEW s \in Session, NEW q \in 1 .. MaxQty, NEW a \in Amount, SetGaHold(s, q, a)
  PROVE  ~Overcommitted' /\ capacity' # None
<1> DEFINE H == HeldByOthers(s, "GA")
<1>1. /\ carts' = [carts EXCEPT ![s] =
             [mode |-> "GA", units |-> 1 .. q, amount |-> a, tier |-> <<"flat">>]]
      /\ UNCHANGED <<capacity, sold>>
      /\ capacity # None /\ sold + (Cardinality(H) + q) <= capacity
  BY DEF SetGaHold, Hold, RoomFor
<1>2. HeldGa' \in SUBSET (H \cup ({s} \X (1 .. q)))
  <2>1. /\ carts'[s].units = 1 .. q
        /\ \A x \in Session : x # s => carts'[x] = carts[x]
    BY <1>1 DEF HeldInv, HouseInv, AllocInv, TypeOK
  <2> QED
    BY <2>1 DEF HeldGa, HeldByOthers, Active
<1>3. Cardinality(HeldGa') <= Cardinality(H) + q /\ Cardinality(HeldGa') \in Nat
  <2> DEFINE W == H \cup ({s} \X (1 .. q))
  <2>1. IsFiniteSet(W) /\ Cardinality(W) = Cardinality(H) + q
    BY HeldWith, QuantityCounted DEF HeldInv
  <2> HIDE DEF W
  <2>2. /\ Cardinality(HeldGa') <= Cardinality(W)
        /\ IsFiniteSet(HeldGa')
    BY <1>2, <2>1, FS_Subset DEF W
  <2> QED
    BY <2>1, <2>2, FS_CardinalityType
<1>4. Cardinality(H) \in Nat /\ sold \in Nat /\ capacity \in Nat /\ q \in Nat
  BY <1>1, HeldFinite, SmallHouse DEF HeldInv, HouseInv, AllocInv, TypeOK
<1> HIDE DEF H
<1> QED
  BY <1>1, <1>3, <1>4 DEF Overcommitted

(* Whatever else becomes of the session's own hold, the others keep theirs. *)
LEMMA OthersStayHeld ==
  ASSUME HouseInv, NEW s \in Session, NEW sel, carts' = [carts EXCEPT ![s] = sel],
         sel = None \/ sel.mode # "GA"
  PROVE  HeldGa' = HeldByOthers(s, "GA")
<1>1. carts'[s] = sel /\ \A x \in Session : x # s => carts'[x] = carts[x]
  BY DEF HouseInv, AllocInv, TypeOK
<1>2. {x \in Active' : carts'[x].mode = "GA"} = {y \in Active \ {s} : carts[y].mode = "GA"}
  BY <1>1 DEF Active
<1>3. \A y \in Active \ {s} : carts'[y].units = carts[y].units
  BY <1>1 DEF Active
<1> QED
  BY <1>2, <1>3 DEF HeldGa, HeldByOthers

LEMMA LettingGoFits ==
  ASSUME HeldInv, NEW s \in Session, NEW sel, carts' = [carts EXCEPT ![s] = sel],
         sel = None \/ sel.mode # "GA", UNCHANGED <<capacity, sold>>
  PROVE  /\ ~(Overcommitted' /\ ~Overcommitted)
         /\ capacity' = None => HeldGa' = {}
<1>1. HeldGa' = HeldByOthers(s, "GA")
  BY OthersStayHeld DEF HeldInv
<1>2. /\ HeldByOthers(s, "GA") \in SUBSET HeldGa
      /\ Cardinality(HeldByOthers(s, "GA")) <= Cardinality(HeldGa)
      /\ Cardinality(HeldByOthers(s, "GA")) \in Nat
  BY HeldByOthersIsHeld, HeldFinite DEF HeldInv
<1>3. sold \in Nat /\ Cardinality(HeldGa) \in Nat
  BY HeldGaFinite DEF HeldInv, HouseInv, AllocInv, TypeOK
<1>4. sold + Cardinality(HeldByOthers(s, "GA")) <= sold + Cardinality(HeldGa)
  BY <1>2, <1>3
<1>5. ~(Overcommitted' /\ ~Overcommitted)
  BY <1>1, <1>2, <1>3, <1>4, NoMoreIsNotOver DEF HeldInv
<1> QED
  BY <1>1, <1>2, <1>5 DEF HeldInv

(* fulfill_hold sells the places the hold gives up. *)
LEMMA SaleSpendsTheHold ==
  ASSUME HeldInv, NEW s \in Session, FulfillHold(s), carts[s].mode = "GA"
  PROVE  /\ ~(Overcommitted' /\ ~Overcommitted)
         /\ capacity' = None => HeldGa' = {}
<1> DEFINE H == HeldByOthers(s, "GA")  U == carts[s].units
<1>1. /\ s \in Active /\ carts' = [carts EXCEPT ![s] = None] /\ capacity' = capacity
      /\ sold' = sold + Cardinality(U) /\ capacity # None
  BY DEF FulfillHold, RoomFor
<1>2. U \in Units
  BY <1>1 DEF HeldInv, HouseInv, AllocInv, TypeOK, Active, Selection
<1>3. HeldGa' = H
  BY <1>1, OthersStayHeld DEF HeldInv
<1>4. HeldGa = H \cup ({s} \X U)
  BY <1>1 DEF HeldGa, HeldByOthers
<1>5. Cardinality(HeldGa) = Cardinality(H) + Cardinality(U)
  BY <1>2, <1>4, HeldWith DEF HeldInv
<1>6. Cardinality(H) \in Nat /\ Cardinality(U) \in Nat /\ sold \in Nat
  BY <1>2, HeldFinite, UnitsFinite DEF HeldInv, HouseInv, AllocInv, TypeOK
<1> HIDE DEF H, U
<1>7. /\ sold + Cardinality(U) \in Nat
      /\ (sold + Cardinality(U)) + Cardinality(H) <= sold + Cardinality(HeldGa)
  BY <1>5, <1>6
<1>8. ~(Overcommitted' /\ ~Overcommitted)
  BY <1>1, <1>3, <1>6, <1>7, NoMoreIsNotOver DEF HeldInv
<1> QED
  BY <1>1, <1>8

LEMMA VoidFits ==
  ASSUME HeldInv, NEW o \in Order, VoidOrder(o)
  PROVE  /\ ~(Overcommitted' /\ ~Overcommitted)
         /\ capacity' = None => HeldGa' = {}
<1>1. UNCHANGED <<carts, capacity>> /\ HeldGa' = HeldGa
  BY DEF VoidOrder, HeldGa, Active
<1>2. orders[o].units \in Units
  BY DEF VoidOrder, Live, HeldInv, HouseInv, AllocInv, TypeOK, Selection
<1>3. Cardinality(orders[o].units) \in Nat /\ sold \in Nat /\ Cardinality(HeldGa) \in Nat
  BY <1>2, UnitsFinite, HeldGaFinite DEF HeldInv, HouseInv, AllocInv, TypeOK
<1>4. sold' \in Nat /\ sold' <= sold
  BY <1>3 DEF VoidOrder
<1>5. sold' + Cardinality(HeldGa) <= sold + Cardinality(HeldGa)
  BY <1>3, <1>4
<1>6. ~(Overcommitted' /\ ~Overcommitted)
  BY <1>1, <1>3, <1>4, <1>5, NoMoreIsNotOver DEF HeldInv
<1> QED
  BY <1>1, <1>6 DEF HeldInv

(* PerformanceForm may lower the capacity to what is sold. *)
LEMMA EditOvercommits ==
  ASSUME HeldInv, NEW t \in Staff, SaveAllocation(t)
  PROVE  OverByASave /\ (capacity' = None => HeldGa' = {})
<1>1. /\ Shows(t, "saving") /\ UNCHANGED <<sold, carts>> /\ HeldGa' = HeldGa
      /\ capacity' = IF sold <= page[t].cap THEN page[t].cap ELSE capacity
  BY DEF SaveAllocation, buyers, HeldGa, Active
<1>2. page[t].cap \in Nat /\ page[t].cap # None
  <2>1. page[t].cap \in 0 .. MaxCapacity
    BY <1>1 DEF Shows, HeldInv, HouseInv, AllocInv, TypeOK
  <2> QED
    BY <2>1, NoneIsNothing
<1>3. page'[t] = None
  BY DEF SaveAllocation, HeldInv, HouseInv, AllocInv, TypeOK
<1>4. sold \in Nat /\ Cardinality(HeldGa) \in Nat /\ (capacity # None => capacity \in Nat)
  BY HeldGaFinite, SmallHouse DEF HeldInv, HouseInv, AllocInv, TypeOK
<1>5. ASSUME Overcommitted', ~Overcommitted
      PROVE  capacity' < capacity
  <2>1. CASE capacity = None
    <3>1. sold = 0 /\ Cardinality(HeldGa) = 0
      BY <2>1, FS_EmptySet DEF HeldInv, HouseInv, AllocInv, AllocationIsTrue
    <3> QED
      BY <1>1, <1>2, <1>5, <2>1, <3>1 DEF Overcommitted
  <2>2. CASE capacity # None
    BY <1>1, <1>2, <1>4, <1>5, <2>2 DEF Overcommitted
  <2> QED
    BY <2>1, <2>2
<1>6. capacity' = None => capacity = None
  BY <1>1, <1>2
<1> QED
  BY <1>1, <1>3, <1>5, <1>6 DEF OverByASave, HeldInv

LEMMA StepsOvercommitByASave ==
  ASSUME HeldInv, [Next]_vars
  PROVE  OverByASave /\ (capacity' = None => HeldGa' = {})
<1> DEFINE Goal == OverByASave /\ (capacity' = None => HeldGa' = {})
<1>1. CASE UNCHANGED <<carts, sold, capacity>>
  BY <1>1 DEF OverByASave, Overcommitted, HeldInv, HeldGa, Active
<1>2. CASE UNCHANGED vars
  BY <1>1, <1>2 DEF vars
<1>3. ASSUME NEW s \in Session, LoadPerformance(s) \/ TurnAway(s)
      PROVE  Goal
  BY <1>1, <1>3 DEF LoadPerformance, TurnAway
<1>4. ASSUME NEW s \in Session, NEW q \in 1 .. MaxQty, NEW a \in Amount, SetGaHold(s, q, a)
      PROVE  Goal
  BY <1>4, GaHoldFits DEF OverByASave
<1>5. ASSUME NEW s \in Session, NEW S \in SUBSET Seat, SetReservedHold(s, S)
      PROVE  Goal
  <2> DEFINE tier == TierFor(request[s].chart)
             sel  == [mode |-> "RESERVED", units |-> S, amount |-> price[tier], tier |-> tier]
  <2>1. carts' = [carts EXCEPT ![s] = sel] /\ UNCHANGED <<capacity, sold>>
    BY <1>5 DEF SetReservedHold, Hold
  <2>2. sel.mode # "GA"
    OBVIOUS
  <2> HIDE DEF sel
  <2> QED
    BY <2>1, <2>2, LettingGoFits DEF OverByASave
<1>6. ASSUME NEW s \in Session, Release(s)
      PROVE  Goal
  BY <1>6, LettingGoFits DEF Release, OverByASave
<1>7. ASSUME NEW s \in Session, FulfillHold(s)
      PROVE  Goal
  <2>1. CASE carts[s].mode = "GA"
    BY <1>7, <2>1, SaleSpendsTheHold DEF OverByASave
  <2>2. CASE carts[s].mode # "GA"
    BY <1>7, <2>2, LettingGoFits DEF FulfillHold, OverByASave
  <2> QED
    BY <2>1, <2>2
<1>8. ASSUME NEW o \in Order, VoidOrder(o)
      PROVE  Goal
  BY <1>8, VoidFits DEF OverByASave
<1>9. ASSUME NEW t \in Staff,
             \/ \E row \in Row, cap \in 0 .. MaxCapacity : SubmitForm(t, row, cap)
             \/ FormDies(t) \/ OpenPrices(t)
             \/ \E cells \in [Cell -> Price] : SaveReservedPrices(t, cells)
             \/ \E a \in Amount : AddFlatTier(t, a)
      PROVE  Goal
  BY <1>1, <1>9 DEF SubmitForm, FormDies, OpenPrices, SaveReservedPrices, AddFlatTier, buyers
<1> QED
  BY <1>2, <1>3, <1>4, <1>5, <1>6, <1>7, <1>8, <1>9, EditOvercommits DEF Next

(* However the performance is switched to and fro under its buyers, the     *)
(* places sold and held exceed the allocation only by a form that lowers    *)
(* the capacity (set_ga_hold counts what others hold, PerformanceForm does  *)
(* not).                                                                    *)
THEOREM OnlyStaffOvercommit == Spec => OnlySavesOvercommit
<1>1. Init => HeldInv
  <2> SUFFICES ASSUME Init
               PROVE  HeldInv
    OBVIOUS
  <2>1. HeldGa = {}
    BY DEF Init, HeldGa, Active
  <2> QED
    BY <2>1, HouseBegins DEF HeldInv
<1>2. HeldInv /\ [Next]_vars => HeldInv'
  <2>1. HeldInv => HouseInv
    BY DEF HeldInv
  <2>2. HeldInv /\ [Next]_vars => HouseInv'
    BY <2>1, HouseKept
  <2> QED
    BY <2>2, StepsOvercommitByASave DEF HeldInv
<1>3. HeldInv /\ [Next]_vars => [OverByASave]_vars
  BY StepsOvercommitByASave
<1>4. Spec => [][OverByASave]_vars
  BY <1>1, <1>2, <1>3, PTL DEF Spec
<1> QED
  BY <1>4 DEF OnlySavesOvercommit, OverByASave
=============================================================================
