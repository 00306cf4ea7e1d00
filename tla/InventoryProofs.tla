-------------------------- MODULE InventoryProofs --------------------------
(***************************************************************************)
(* Proofs about Inventory, for any house, any buyers, any number of        *)
(* concurrent checkout requests and any bounds.                            *)
(***************************************************************************)
EXTENDS Inventory, FiniteSetTheorems, TLAPS

-----------------------------------------------------------------------------
(* Counting tickets *)

LEMMA UnitFinite == IsFiniteSet(Unit)
<1>1. IsFiniteSet(1 .. MaxQty)
  BY FS_Interval, BoundsAreNat
<1> QED
  BY <1>1, FS_Union, FiniteHouse DEF Unit

LEMMA TicketFinite == IsFiniteSet(Ticket)
<1> DEFINE P == (Order \X Perf) \X Unit
           f == [t \in Ticket |-> <<<<t.order, t.perf>>, t.unit>>]
<1>1. IsFiniteSet(Order)
  BY FS_Interval, BoundsAreNat DEF Order
<1>2. IsFiniteSet(Order \X Perf)
  BY <1>1, FS_Product, FiniteHouse
<1>3. IsFiniteSet(P)
  BY <1>2, UnitFinite, FS_Product
<1>4. f \in [Ticket -> P]
  BY DEF Ticket
<1>5. ASSUME NEW s \in Ticket, NEW t \in Ticket, f[s] = f[t]
      PROVE  s = t
  BY <1>5 DEF Ticket
<1>6. f \in Injection(Ticket, P)
  BY <1>4, <1>5, Zenon DEF Injection, IsInjective
<1> QED
  BY <1>3, <1>6, FS_Injection

LEMMA LiveAtFinite ==
  ASSUME NEW p
  PROVE  /\ IsFiniteSet(LiveAt(p))
         /\ Cardinality(LiveAt(p)) \in Nat
<1>1. LiveAt(p) \in SUBSET Ticket
  BY DEF LiveAt, Live
<1> QED
  BY <1>1, TicketFinite, FS_Subset, FS_CardinalityType

(* The rows that fulfilment creates for the units U of one order. *)
Rows(o, p, U) == {[order |-> o, perf |-> p, unit |-> u] : u \in U}

LEMMA RowsCount ==
  ASSUME NEW o \in Order, NEW p \in Perf, NEW U \in SUBSET Unit
  PROVE  /\ IsFiniteSet(Rows(o, p, U))
         /\ Cardinality(Rows(o, p, U)) = Cardinality(U)
         /\ Cardinality(U) \in Nat
<1> DEFINE f == [u \in U |-> [order |-> o, perf |-> p, unit |-> u]]
<1>1. IsFiniteSet(U) /\ Cardinality(U) \in Nat
  BY UnitFinite, FS_Subset, FS_CardinalityType
<1>2. f \in [U -> Rows(o, p, U)]
  BY DEF Rows
<1>3. ASSUME NEW u \in U, NEW v \in U, f[u] = f[v]
      PROVE  u = v
  <2>1. f[u].unit = u /\ f[v].unit = v
    OBVIOUS
  <2> QED
    BY <1>3, <2>1
<1>4. \A r \in Rows(o, p, U) : \E u \in U : f[u] = r
  BY DEF Rows
<1>5. f \in Bijection(U, Rows(o, p, U))
  BY <1>2, <1>3, <1>4, Zenon DEF Bijection, Injection, IsInjective, Surjection
<1>6. ExistsBijection(U, Rows(o, p, U))
  BY <1>5 DEF ExistsBijection
<1> QED
  BY <1>1, <1>6, FS_Bijection

-----------------------------------------------------------------------------
(* What each step does to the live tickets *)

(* Fulfilment adds the rows of one new order and touches no other ticket. *)
LEMMA MintAddsRows ==
  ASSUME TypeOK, TicketsHaveOrders, NEW o \in Order, NEW p \in Perf, NEW U \in SUBSET Unit,
         origin[o] = 0, Mint(o, p, U)
  PROVE  /\ status' \in [Ticket -> TicketStatus]
         /\ Live' = Live \cup Rows(o, p, U)
         /\ Live \cap Rows(o, p, U) = {}
         /\ \A t \in Live : t.order # o
<1>1. status' \in [Ticket -> TicketStatus]
  BY DEF Mint, TypeOK, TicketStatus
<1>2. \A t \in Live : t.order # o
  BY DEF Live, TicketsHaveOrders
<1>3. Rows(o, p, U) \subseteq Ticket
  BY DEF Rows, Ticket
<1>4. \A t \in Ticket : t \in Rows(o, p, U) <=> t.order = o /\ t.perf = p /\ t.unit \in U
  BY DEF Rows, Ticket
<1>5. Live' = Live \cup Rows(o, p, U)
  BY <1>3, <1>4 DEF Mint, Live
<1>6. Live \cap Rows(o, p, U) = {}
  BY <1>2 DEF Rows
<1> QED
  BY <1>1, <1>2, <1>5, <1>6

(* The count of a GA performance grows by the units sold, and by nothing    *)
(* for any other performance.                                               *)
LEMMA MintCounts ==
  ASSUME TypeOK, TicketsHaveOrders, NEW o \in Order, NEW p \in Perf, NEW U \in SUBSET Unit,
         origin[o] = 0, Mint(o, p, U), NEW q \in Perf
  PROVE  /\ LiveAt(q)' = IF q = p THEN LiveAt(q) \cup Rows(o, p, U) ELSE LiveAt(q)
         /\ Cardinality(LiveAt(q)') = IF q = p THEN Cardinality(LiveAt(q)) + Cardinality(U)
                                               ELSE Cardinality(LiveAt(q))
<1>1. /\ Live' = Live \cup Rows(o, p, U)
      /\ Live \cap Rows(o, p, U) = {}
  BY MintAddsRows
<1>2. \A r \in Rows(o, p, U) : r.perf = p
  BY DEF Rows
<1>3. LiveAt(q)' = IF q = p THEN LiveAt(q) \cup Rows(o, p, U) ELSE LiveAt(q)
  BY <1>1, <1>2 DEF LiveAt
<1>4. CASE q = p
  <2>1. LiveAt(q) \cap Rows(o, p, U) = {}
    BY <1>1 DEF LiveAt
  <2>2. Cardinality(LiveAt(q) \cap Rows(o, p, U)) = 0
    BY <2>1, FS_EmptySet
  <2>3. /\ IsFiniteSet(LiveAt(q)) /\ Cardinality(LiveAt(q)) \in Nat
        /\ IsFiniteSet(Rows(o, p, U)) /\ Cardinality(Rows(o, p, U)) = Cardinality(U)
        /\ Cardinality(U) \in Nat
    BY LiveAtFinite, RowsCount
  <2>4. Cardinality(LiveAt(q) \cup Rows(o, p, U))
          = Cardinality(LiveAt(q)) + Cardinality(Rows(o, p, U))
              - Cardinality(LiveAt(q) \cap Rows(o, p, U))
    BY <2>3, FS_Union, Zenon
  <2> QED
    BY <1>3, <1>4, <2>2, <2>3, <2>4
<1>5. CASE q # p
  BY <1>3, <1>5
<1> QED
  BY <1>3, <1>4, <1>5

(* Voiding removes exactly the live tickets of the order. *)
LEMMA VoidRemoves ==
  ASSUME TypeOK, NEW o \in Order, VoidOrder(o)
  PROVE  /\ status' \in [Ticket -> TicketStatus]
         /\ Live' = {t \in Live : t.order # o}
<1>1. LiveOf(o) \subseteq Ticket
  BY DEF LiveOf, Live
<1>2. status' \in [Ticket -> TicketStatus]
  BY DEF VoidOrder, TypeOK, TicketStatus
<1>3. \A t \in Ticket : t \in Live' <=> t \in Live /\ t \notin LiveOf(o)
  BY <1>1 DEF VoidOrder, Live
<1> QED
  BY <1>2, <1>3 DEF Live, LiveOf

(* The counter drops by the number of tickets voided, and the floor at zero *)
(* of void_order never has to act.                                          *)
LEMMA VoidCounts ==
  ASSUME TypeOK, SoldMatchesTickets, NEW o \in Order, VoidOrder(o), NEW p \in GAPerf
  PROVE  /\ sold'[p] = Cardinality(LiveAt(p)')
         /\ sold'[p] \in Nat
         /\ sold'[p] <= sold[p]
<1> DEFINE V == {t \in LiveOf(o) : t.perf = p}
<1>1. Live' = {t \in Live : t.order # o}
  BY VoidRemoves
<1>2. LiveAt(p)' = LiveAt(p) \ V
  BY <1>1 DEF LiveAt, LiveOf
<1>3. LiveAt(p) \cap V = V
  BY DEF LiveAt, LiveOf
<1>4. IsFiniteSet(LiveAt(p)) /\ Cardinality(LiveAt(p)) \in Nat
  BY LiveAtFinite
<1>5. V \in SUBSET LiveAt(p)
  BY DEF LiveAt, LiveOf
<1>6. IsFiniteSet(V) /\ Cardinality(V) \in Nat /\ Cardinality(V) <= Cardinality(LiveAt(p))
  BY <1>4, <1>5, FS_Subset, FS_CardinalityType
<1>7. Cardinality(LiveAt(p)') = Cardinality(LiveAt(p)) - Cardinality(V)
  BY <1>2, <1>3, <1>4, FS_Difference
<1>8. sold'[p] = Minus(sold[p], Cardinality(V))
  BY DEF VoidOrder
<1>9. sold[p] = Cardinality(LiveAt(p))
  BY DEF SoldMatchesTickets
<1> QED
  BY <1>4, <1>6, <1>7, <1>8, <1>9 DEF Minus

-----------------------------------------------------------------------------
(* What a fulfilment does, whichever path it came by *)

(* h is sold as the units U to the new order o. *)
SoldAs(h, o, U) ==
    /\ origin[o] = 0
    /\ origin' = [origin EXCEPT ![o] = h.id]
    /\ Mint(o, h.perf, U)
    /\ h.perf \in GAPerf => /\ sold[h.perf] + Cardinality(U) <= capacity[h.perf]
                            /\ sold' = [sold EXCEPT ![h.perf] = @ + Cardinality(U)]
    /\ h.perf \in ReservedPerf => /\ U \cap TicketedSeats(h.perf) = {}
                                  /\ U \subseteq h.units
                                  /\ h \notin holds => U = {}
                                  /\ sold' = sold

LEMMA FulfillIsSale ==
  ASSUME NEW h \in Hold, FulfillHold(h)
  PROVE  \E o \in Order, U \in SUBSET Unit : SoldAs(h, o, U)
<1>1. PICK o \in Order : /\ FreshOrder(o)
                         /\ origin' = [origin EXCEPT ![o] = h.id]
                         /\ FulfillGa(h, o) \/ FulfillReserved(h, o)
  BY DEF FulfillHold
<1>2. origin[o] = 0
  BY <1>1 DEF FreshOrder
<1>3. h.units \in SUBSET Unit
  BY DEF Hold
<1>4. CASE FulfillGa(h, o)
  <2>1. SoldAs(h, o, h.units)
    BY <1>1, <1>2, <1>4, ModesDisjoint DEF SoldAs, FulfillGa
  <2> QED
    BY <2>1, <1>3
<1>5. CASE FulfillReserved(h, o)
  <2>1. HoldSeats(h) \in SUBSET Unit
    BY <1>3 DEF HoldSeats
  <2>2. SoldAs(h, o, HoldSeats(h))
    BY <1>1, <1>2, <1>5, ModesDisjoint DEF SoldAs, FulfillReserved, HoldSeats
  <2> QED
    BY <2>1, <2>2
<1> QED
  BY <1>1, <1>4, <1>5

LEMMA SaleKeepsTypes ==
  ASSUME TypeOK, TicketInv, NEW h \in Hold, NEW o \in Order, NEW U \in SUBSET Unit, SoldAs(h, o, U)
  PROVE  /\ status' \in [Ticket -> TicketStatus]
         /\ origin' \in [Order -> 0 .. MaxHold]
         /\ sold' \in [GAPerf -> Nat]
<1>1. h.perf \in Perf /\ h.id \in 1 .. MaxHold
  BY DEF Hold, HoldId
<1>2. status' \in [Ticket -> TicketStatus]
  BY <1>1, MintAddsRows DEF SoldAs, TicketInv
<1>3. origin' \in [Order -> 0 .. MaxHold]
  BY <1>1, BoundsAreNat DEF SoldAs, TypeOK
<1>4. Cardinality(U) \in Nat
  BY <1>1, RowsCount
<1>5. sold' \in [GAPerf -> Nat]
  <2>1. CASE h.perf \in GAPerf
    BY <1>4, <2>1 DEF SoldAs, TypeOK
  <2>2. CASE h.perf \in ReservedPerf
    BY <2>2 DEF SoldAs, TypeOK
  <2> QED
    BY <1>1, <2>1, <2>2 DEF Perf
<1> QED
  BY <1>2, <1>3, <1>5

LEMMA SaleKeepsTickets ==
  ASSUME TypeOK, TicketInv, NEW h \in Hold, NEW o \in Order, NEW U \in SUBSET Unit,
         SoldAs(h, o, U), UNCHANGED capacity
  PROVE  TicketInv'
<1>1. h.perf \in Perf /\ h.id \in 1 .. MaxHold
  BY DEF Hold, HoldId
<1>2. /\ TicketsHaveOrders /\ NoDoubleSeat /\ SoldMatchesTickets /\ SoldWithinCapacity
      /\ Mint(o, h.perf, U) /\ origin[o] = 0
  BY DEF TicketInv, SoldAs
<1>3. TicketsHaveOrders'
  <2>1. SUFFICES ASSUME NEW t \in Ticket, origin'[t.order] = 0
                 PROVE  status'[t] = "none"
    BY DEF TicketsHaveOrders
  <2>2. t.order \in Order
    BY DEF Ticket
  <2>3. t.order # o /\ origin[t.order] = 0
    BY <1>1, <2>1, <2>2 DEF SoldAs, TypeOK
  <2> QED
    BY <1>2, <2>1, <2>3 DEF Mint, TicketsHaveOrders
<1>4. NoDoubleSeat'
  <2>1. SUFFICES ASSUME NEW p \in ReservedPerf, NEW t1 \in LiveAt(p)', NEW t2 \in LiveAt(p)',
                        t1.unit = t2.unit
                 PROVE  t1 = t2
    BY DEF NoDoubleSeat
  <2>2. LiveAt(p)' = IF p = h.perf THEN LiveAt(p) \cup Rows(o, h.perf, U) ELSE LiveAt(p)
    BY <1>1, <1>2, MintCounts DEF Perf
  <2>3. CASE p # h.perf
    BY <1>2, <2>1, <2>2, <2>3 DEF NoDoubleSeat
  <2>4. CASE p = h.perf
    <3>1. \A t \in LiveAt(p) : t.unit \notin U
      BY <2>4 DEF SoldAs, TicketedSeats
    <3>2. \A t \in Rows(o, h.perf, U) :
             t.unit \in U /\ t = [order |-> o, perf |-> h.perf, unit |-> t.unit]
      BY DEF Rows
    <3> QED
      BY <1>2, <2>1, <2>2, <2>4, <3>1, <3>2 DEF NoDoubleSeat
  <2> QED
    BY <2>3, <2>4
<1>5. SoldMatchesTickets' /\ SoldWithinCapacity'
  <2>1. SUFFICES ASSUME NEW p \in GAPerf
                 PROVE  sold'[p] = Cardinality(LiveAt(p)') /\ sold'[p] <= capacity[p]
    BY DEF SoldMatchesTickets, SoldWithinCapacity
  <2>2. Cardinality(LiveAt(p)') = IF p = h.perf THEN Cardinality(LiveAt(p)) + Cardinality(U)
                                                ELSE Cardinality(LiveAt(p))
    BY <1>1, <1>2, MintCounts DEF Perf
  <2>3. sold[p] = Cardinality(LiveAt(p)) /\ sold[p] <= capacity[p]
    BY <1>2 DEF SoldMatchesTickets, SoldWithinCapacity
  <2>4. CASE h.perf \in GAPerf
    BY <2>2, <2>3, <2>4 DEF SoldAs, TypeOK
  <2>5. CASE h.perf \in ReservedPerf
    BY <2>2, <2>3, <2>5, ModesDisjoint DEF SoldAs
  <2> QED
    BY <1>1, <2>4, <2>5 DEF Perf
<1> QED
  BY <1>3, <1>4, <1>5 DEF TicketInv

(* The seats of any other active hold stay unsold. *)
LEMMA SaleKeepsCart ==
  ASSUME TypeOK, CartInv, TicketInv, NEW h \in Hold, FulfillHold(h)
  PROVE  HoldsExclusive' /\ HeldSeatsUnsold'
<1>1. PICK o \in Order, U \in SUBSET Unit : SoldAs(h, o, U)
  BY FulfillIsSale
<1>2. /\ holds' = holds \ {h} /\ horizon' = horizon /\ Active(h) /\ h.perf \in Perf
      /\ HoldsExclusive /\ HeldSeatsUnsold /\ TicketsHaveOrders
  BY DEF FulfillHold, Hold, CartInv, TicketInv
<1>3. \A x \in holds : Active(x)' <=> Active(x)
  BY <1>2 DEF Active
<1>4. HoldsExclusive'
  BY <1>2, <1>3 DEF HoldsExclusive
<1>5. HeldSeatsUnsold'
  <2>1. SUFFICES ASSUME NEW x \in holds', x.perf \in ReservedPerf, Active(x)'
                 PROVE  x.units \cap TicketedSeats(x.perf)' = {}
    BY DEF HeldSeatsUnsold
  <2>2. x \in holds /\ x # h /\ Active(x)
    BY <1>2, <1>3, <2>1
  <2>3. x.units \cap TicketedSeats(x.perf) = {}
    BY <1>2, <2>1, <2>2 DEF HeldSeatsUnsold
  <2>4. LiveAt(x.perf)' = IF x.perf = h.perf THEN LiveAt(x.perf) \cup Rows(o, h.perf, U)
                                             ELSE LiveAt(x.perf)
    BY <1>1, <1>2, <2>1, MintCounts DEF SoldAs, Perf
  <2>5. CASE x.perf # h.perf
    BY <2>3, <2>4, <2>5 DEF TicketedSeats
  <2>6. CASE x.perf = h.perf
    <3>1. x.units \cap U = {}
      <4>1. CASE h \notin holds
        BY <1>1, <2>1, <2>6, <4>1 DEF SoldAs
      <4>2. CASE h \in holds
        BY <1>1, <1>2, <2>1, <2>2, <2>6, <4>2 DEF SoldAs, HoldsExclusive
      <4> QED
        BY <4>1, <4>2
    <3>2. \A t \in Rows(o, h.perf, U) : t.unit \in U
      BY DEF Rows
    <3> QED
      BY <2>3, <2>4, <2>6, <3>1, <3>2 DEF TicketedSeats
  <2> QED
    BY <2>5, <2>6
<1> QED
  BY <1>4, <1>5

-----------------------------------------------------------------------------
(* The initial state, and the steps one by one *)

LEMMA InitInv == ASSUME Init PROVE IInv
<1>1. TypeOK
  BY BoundsAreNat DEF Init, TypeOK, TicketStatus
<1>2. CartInv
  BY DEF Init, CartInv, Keys, HoldsExclusive, HeldSeatsUnsold
<1>3. Live = {}
  BY DEF Init, Live
<1>4. \A p : LiveAt(p) = {}
  BY <1>3 DEF LiveAt
<1>5. TicketsHaveOrders /\ NoDoubleSeat
  BY <1>4 DEF Init, TicketsHaveOrders, NoDoubleSeat
<1>6. SoldMatchesTickets
  <2>1. \A p : Cardinality(LiveAt(p)) = 0
    BY <1>4, FS_EmptySet
  <2> QED
    BY <2>1 DEF Init, SoldMatchesTickets
<1>7. SoldWithinCapacity
  BY BoundsAreNat DEF Init, SoldWithinCapacity
<1> QED
  BY <1>1, <1>2, <1>5, <1>6, <1>7 DEF IInv, TicketInv

(* Steps that leave tickets, counters and capacities alone keep TicketInv. *)
LEMMA TicketsUntouched ==
  ASSUME TicketInv, UNCHANGED <<status, origin, sold, capacity>>
  PROVE  TicketInv'
<1>1. Live' = Live
  BY DEF Live
<1>2. \A p : LiveAt(p)' = LiveAt(p)
  BY <1>1 DEF LiveAt
<1> QED
  BY <1>2 DEF TicketInv, TicketsHaveOrders, NoDoubleSeat, SoldMatchesTickets, SoldWithinCapacity

(* Steps that only drop holds or let time pass keep CartInv. *)
LEMMA FewerHolds ==
  ASSUME TypeOK, CartInv, holds' \subseteq holds, lastHold' = lastHold, horizon' >= horizon,
         horizon' \in Nat, \A i \in inflight' : i.hold.id <= lastHold, status' = status
  PROVE  CartInv'
<1>1. \A h \in holds' : Active(h)' => Active(h)
  BY DEF Active, TypeOK, Hold, HoldId
<1>2. \A p : TicketedSeats(p)' = TicketedSeats(p)
  BY DEF TicketedSeats, LiveAt, Live
<1>3. Keys'
  BY DEF CartInv, Keys
<1>4. HoldsExclusive'
  BY <1>1 DEF CartInv, HoldsExclusive
<1>5. HeldSeatsUnsold'
  BY <1>1, <1>2 DEF CartInv, HeldSeatsUnsold
<1> QED
  BY <1>3, <1>4, <1>5 DEF CartInv

(* A new or replaced hold.  For a reserved performance its seats are taken  *)
(* from nobody: not from a ticket, not from another session's active hold.  *)
LEMMA ReplaceHoldStep ==
  ASSUME IInv, NEW s \in Session, NEW p \in Perf, NEW U \in SUBSET Unit, ReplaceHold(s, p, U),
         p \in ReservedPerf => SeatsFree(s, p, U)
  PROVE  IInv'
<1> DEFINE new == [id |-> lastHold + 1, session |-> s, perf |-> p, units |-> U]
<1>1. /\ TypeOK /\ CartInv /\ TicketInv /\ Keys /\ HoldsExclusive /\ HeldSeatsUnsold
  BY DEF IInv, CartInv
<1>2. /\ holds' = {h \in holds : ~(h.session = s /\ h.perf = p)} \cup {new}
      /\ lastHold' = lastHold + 1 /\ lastHold < MaxHold
      /\ UNCHANGED <<horizon, inflight, status, origin, sold, capacity, blocked>>
  BY DEF ReplaceHold, WithoutHoldOf
<1>3. new \in Hold
  BY <1>1, <1>2, BoundsAreNat DEF TypeOK, Hold, HoldId
<1>4. TypeOK'
  BY <1>1, <1>2, <1>3, BoundsAreNat DEF TypeOK
<1>5. TicketInv'
  BY <1>1, <1>2, TicketsUntouched
<1>6. \A h \in holds : h.id \in Nat /\ h.id <= lastHold
  BY <1>1 DEF Keys, TypeOK, Hold, HoldId
<1>7. Keys'
  <2>1. \A i \in inflight : i.hold.id \in Nat /\ i.hold.id <= lastHold
    BY <1>1 DEF Keys, TypeOK, Hold, HoldId
  <2> QED
    BY <1>1, <1>2, <1>6, <2>1 DEF Keys, TypeOK
<1>8. \A h \in holds : Active(h)' <=> Active(h)
  BY <1>2 DEF Active
<1>9. HoldsExclusive'
  <2>1. SUFFICES ASSUME NEW h1 \in holds', NEW h2 \in holds'
                 PROVE  /\ h1.session = h2.session /\ h1.perf = h2.perf => h1 = h2
                        /\ (/\ h1 # h2 /\ h1.perf = h2.perf /\ h1.perf \in ReservedPerf
                            /\ Active(h1)' /\ Active(h2)') => h1.units \cap h2.units = {}
    BY DEF HoldsExclusive
  <2>2. \A h \in holds' : h # new => h \in holds /\ ~(h.session = s /\ h.perf = p)
    BY <1>2
  <2>3. ASSUME NEW h \in holds', h # new, h.perf = p, p \in ReservedPerf, Active(h)'
        PROVE  h.units \cap U = {}
    <3>1. h \in holds /\ h.session # s /\ Active(h)
      BY <1>8, <2>2, <2>3
    <3>2. h.units \subseteq SeatsHeldByOthers(s)
      BY <2>3, <3>1 DEF SeatsHeldByOthers
    <3> QED
      BY <2>3, <3>2 DEF SeatsFree
  <2>4. CASE h1 # new /\ h2 # new
    BY <1>1, <1>8, <2>2, <2>4 DEF HoldsExclusive
  <2>5. CASE h1 = new \/ h2 = new
    BY <2>2, <2>3, <2>5
  <2> QED
    BY <2>4, <2>5
<1>10. HeldSeatsUnsold'
  <2>1. \A q : TicketedSeats(q)' = TicketedSeats(q)
    BY <1>2 DEF TicketedSeats, LiveAt, Live
  <2>2. p \in ReservedPerf => U \cap TicketedSeats(p) = {}
    BY DEF SeatsFree
  <2> QED
    BY <1>1, <1>2, <1>8, <2>1, <2>2 DEF HeldSeatsUnsold
<1> QED
  BY <1>4, <1>5, <1>7, <1>9, <1>10 DEF IInv, CartInv

(* Any fulfilment, by webhook or by a request with a stale Hold. *)
LEMMA FulfillStep ==
  ASSUME IInv, NEW h \in Hold, FulfillHold(h), inflight' \subseteq inflight
  PROVE  IInv'
<1>1. TypeOK /\ CartInv /\ TicketInv /\ Keys
  BY DEF IInv, CartInv
<1>2. PICK o \in Order, U \in SUBSET Unit : SoldAs(h, o, U)
  BY FulfillIsSale
<1>3. holds' = holds \ {h} /\ UNCHANGED <<lastHold, horizon, capacity, blocked>>
  BY DEF FulfillHold
<1>4. TypeOK'
  BY <1>1, <1>2, <1>3, SaleKeepsTypes DEF TypeOK
<1>5. TicketInv'
  BY <1>1, <1>2, <1>3, SaleKeepsTickets
<1>6. Keys'
  BY <1>1, <1>3 DEF Keys
<1> QED
  BY <1>1, <1>4, <1>5, <1>6, SaleKeepsCart DEF IInv, CartInv

LEMMA VoidStep ==
  ASSUME IInv, NEW o \in Order, VoidOrder(o)
  PROVE  IInv'
<1>1. /\ TypeOK /\ CartInv /\ TicketsHaveOrders /\ NoDoubleSeat
      /\ SoldMatchesTickets /\ SoldWithinCapacity
  BY DEF IInv, TicketInv
<1>2. UNCHANGED <<holds, lastHold, horizon, inflight, origin, capacity, blocked>>
  BY DEF VoidOrder
<1>3. status' \in [Ticket -> TicketStatus] /\ Live' = {t \in Live : t.order # o}
  BY <1>1, VoidRemoves
<1>4. \A p \in GAPerf : /\ sold'[p] = Cardinality(LiveAt(p)')
                        /\ sold'[p] \in Nat /\ sold'[p] <= sold[p]
  BY <1>1, VoidCounts
<1>5. sold' \in [GAPerf -> Nat]
  BY <1>4 DEF VoidOrder
<1>6. TypeOK'
  BY <1>1, <1>2, <1>3, <1>5 DEF TypeOK
<1>7. \A p : LiveAt(p)' \subseteq LiveAt(p)
  BY <1>3 DEF LiveAt
<1>8. \A p : TicketedSeats(p)' \subseteq TicketedSeats(p)
  BY <1>7 DEF TicketedSeats
<1>9. CartInv'
  <2>1. \A h \in holds : Active(h)' <=> Active(h)
    BY <1>2 DEF Active
  <2> QED
    BY <1>1, <1>2, <1>8, <2>1 DEF CartInv, Keys, HoldsExclusive, HeldSeatsUnsold
<1>10. TicketsHaveOrders'
  <2>1. \A t \in LiveOf(o) : origin[t.order] # 0
    BY <1>1 DEF LiveOf, Live, TicketsHaveOrders
  <2> QED
    BY <1>1, <1>2, <2>1 DEF VoidOrder, TicketsHaveOrders
<1>11. NoDoubleSeat'
  BY <1>1, <1>7 DEF NoDoubleSeat
<1>12. SoldMatchesTickets' /\ SoldWithinCapacity'
  <2>1. \A p \in GAPerf : sold[p] \in Nat /\ capacity[p] \in Nat
    BY <1>1 DEF TypeOK
  <2> QED
    BY <1>1, <1>2, <1>4, <2>1 DEF SoldMatchesTickets, SoldWithinCapacity
<1> QED
  BY <1>6, <1>9, <1>10, <1>11, <1>12 DEF IInv, TicketInv

(* A scan admits a ticket that already counted as live. *)
LEMMA RedeemStep ==
  ASSUME IInv, NEW t \in Ticket, RedeemTicket(t)
  PROVE  IInv'
<1>1. TypeOK /\ CartInv /\ TicketInv
  BY DEF IInv
<1>2. /\ status' = [status EXCEPT ![t] = "used"] /\ status[t] = "valid"
      /\ UNCHANGED <<holds, lastHold, horizon, inflight, origin, sold, capacity, blocked>>
  BY DEF RedeemTicket
<1>3. TypeOK'
  BY <1>1, <1>2 DEF TypeOK, TicketStatus
<1>4. Live' = Live
  BY <1>1, <1>2 DEF Live, TypeOK
<1>5. \A p : LiveAt(p)' = LiveAt(p) /\ TicketedSeats(p)' = TicketedSeats(p)
  BY <1>4 DEF LiveAt, TicketedSeats
<1>6. \A h \in holds : Active(h)' <=> Active(h)
  BY <1>2 DEF Active
<1>7. CartInv'
  BY <1>1, <1>2, <1>5, <1>6 DEF CartInv, Keys, HoldsExclusive, HeldSeatsUnsold
<1>8. TicketsHaveOrders'
  BY <1>1, <1>2 DEF TicketInv, TicketsHaveOrders, TypeOK
<1> QED
  BY <1>1, <1>2, <1>3, <1>5, <1>7, <1>8
  DEF IInv, TicketInv, NoDoubleSeat, SoldMatchesTickets, SoldWithinCapacity

LEMMA SetCapacityStep ==
  ASSUME IInv, NEW p \in GAPerf, NEW c \in 0 .. MaxCapacity, SetCapacity(p, c)
  PROVE  IInv'
<1>1. TypeOK /\ CartInv /\ TicketInv
  BY DEF IInv
<1>2. /\ capacity' = [capacity EXCEPT ![p] = c] /\ c >= sold[p]
      /\ UNCHANGED <<holds, lastHold, horizon, inflight, status, origin, sold, blocked>>
  BY DEF SetCapacity
<1>3. TypeOK'
  BY <1>1, <1>2 DEF TypeOK
<1>4. \A q : LiveAt(q)' = LiveAt(q) /\ TicketedSeats(q)' = TicketedSeats(q)
  BY <1>2 DEF LiveAt, Live, TicketedSeats
<1>5. CartInv'
  BY <1>1, <1>2, <1>4 DEF CartInv, Keys, HoldsExclusive, HeldSeatsUnsold, Active
<1>6. SoldWithinCapacity'
  BY <1>1, <1>2, BoundsAreNat DEF TicketInv, SoldWithinCapacity, TypeOK
<1> QED
  BY <1>1, <1>2, <1>3, <1>4, <1>5, <1>6
  DEF IInv, TicketInv, TicketsHaveOrders, NoDoubleSeat, SoldMatchesTickets

(* Steps on the cart, the clock, the sweeper and the requests. *)
LEMMA CartStep ==
  ASSUME IInv,
         \/ \E s \in Session, p \in Perf : ReleaseHold(s, p)
         \/ TimePasses
         \/ ReleaseExpiredHolds
         \/ \E r \in Request, h \in holds : LoadHold(r, h)
         \/ \E i \in inflight : RejectLoaded(i)
  PROVE  IInv'
<1>1. TypeOK /\ CartInv /\ TicketInv /\ Keys
  BY DEF IInv, CartInv
<1>2. /\ UNCHANGED <<lastHold, status, origin, sold, capacity, blocked>>
      /\ holds' \subseteq holds
  BY DEF ReleaseHold, WithoutHoldOf, TimePasses, ReleaseExpiredHolds, LoadHold, RejectLoaded
<1>3. horizon' \in 0 .. lastHold /\ horizon' >= horizon
  BY <1>1 DEF TypeOK, ReleaseHold, TimePasses, ReleaseExpiredHolds, LoadHold, RejectLoaded
<1>4. \/ inflight' \subseteq inflight
      \/ \E r \in Request, h \in holds : inflight' = inflight \cup {[req |-> r, hold |-> h]}
  BY DEF ReleaseHold, TimePasses, ReleaseExpiredHolds, LoadHold, RejectLoaded
<1>5. inflight' \subseteq [req : Request, hold : Hold]
  BY <1>1, <1>4 DEF TypeOK
<1>6. \A i \in inflight' : i.hold.id <= lastHold
  BY <1>1, <1>4 DEF Keys
<1>7. TypeOK'
  BY <1>1, <1>2, <1>3, <1>5 DEF TypeOK
<1>8. CartInv'
  <2>1. horizon' \in Nat
    BY <1>1, <1>3 DEF TypeOK
  <2> QED
    BY <1>1, <1>2, <1>3, <1>6, <2>1, FewerHolds
<1> QED
  BY <1>1, <1>2, <1>7, <1>8, TicketsUntouched DEF IInv

LEMMA BlockStep ==
  ASSUME IInv, NEW p \in ReservedPerf, NEW s \in Seat, BlockSeat(p, s) \/ UnblockSeat(p, s)
  PROVE  IInv'
<1>1. TypeOK /\ CartInv /\ TicketInv
  BY DEF IInv
<1>2. /\ UNCHANGED <<holds, lastHold, horizon, inflight, status, origin, sold, capacity>>
      /\ blocked' \in [ReservedPerf -> SUBSET Seat]
  BY <1>1 DEF BlockSeat, UnblockSeat, TypeOK
<1>3. TypeOK'
  BY <1>1, <1>2 DEF TypeOK
<1>4. CartInv'
  BY <1>1, <1>2 DEF CartInv, Keys, HoldsExclusive, HeldSeatsUnsold, Active,
                    TicketedSeats, LiveAt, Live
<1> QED
  BY <1>1, <1>2, <1>3, <1>4, TicketsUntouched DEF IInv

LEMMA Stutter == ASSUME IInv, UNCHANGED vars PROVE IInv'
BY DEF vars, IInv, TypeOK, CartInv, Keys, HoldsExclusive, HeldSeatsUnsold, Active, TicketInv,
       TicketsHaveOrders, NoDoubleSeat, SoldMatchesTickets, SoldWithinCapacity,
       TicketedSeats, LiveAt, Live

LEMMA NextStep == ASSUME IInv, [Next]_vars PROVE IInv'
<1>1. TypeOK
  BY DEF IInv
<1>2. ASSUME NEW s \in Session, NEW p \in GAPerf, NEW q \in 1 .. MaxQty, SetGaHold(s, p, q)
      PROVE  IInv'
  <2>1. p \in Perf /\ p \notin ReservedPerf /\ (1 .. q) \in SUBSET Unit
    BY ModesDisjoint, BoundsAreNat DEF Perf, Unit
  <2> QED
    BY <1>2, <2>1, ReplaceHoldStep DEF SetGaHold
<1>3. ASSUME NEW s \in Session, NEW p \in ReservedPerf, NEW S \in SUBSET Seat,
             SetReservedHold(s, p, S)
      PROVE  IInv'
  <2>1. p \in Perf /\ S \in SUBSET Unit
    BY DEF Perf, Unit
  <2> QED
    BY <1>3, <2>1, ReplaceHoldStep DEF SetReservedHold
<1>4. ASSUME NEW h \in holds, FulfillCheckoutSession(h)
      PROVE  IInv'
  <2>1. h \in Hold
    BY <1>1 DEF TypeOK
  <2> QED
    BY <1>4, <2>1, FulfillStep DEF FulfillCheckoutSession
<1>5. ASSUME NEW i \in inflight, CheckoutLoaded(i)
      PROVE  IInv'
  <2>1. i.hold \in Hold
    BY <1>1 DEF TypeOK
  <2> QED
    BY <1>5, <2>1, FulfillStep DEF CheckoutLoaded
<1>6. CASE UNCHANGED vars
  BY <1>6, Stutter
<1> QED
  BY <1>2, <1>3, <1>4, <1>5, <1>6, CartStep, VoidStep, RedeemStep, SetCapacityStep, BlockStep
  DEF Next

-----------------------------------------------------------------------------
(* The theorems *)

LEMMA Inductive == Spec => []IInv
<1>1. Init => IInv
  BY InitInv
<1>2. IInv /\ [Next]_vars => IInv'
  BY NextStep
<1> QED
  BY <1>1, <1>2, PTL DEF Spec

(* Every table keeps its shape and every bound of the model is respected. *)
THEOREM TypeCorrect == Spec => []TypeOK
<1>1. IInv => TypeOK
  BY DEF IInv
<1> QED
  BY <1>1, Inductive, PTL

(* No seat backs two live tickets, even when several checkout requests      *)
(* carry Hold objects whose rows were replaced, swept or already fulfilled. *)
THEOREM SeatsSoldOnce == Spec => []NoDoubleSeat
<1>1. IInv => NoDoubleSeat
  BY DEF IInv, TicketInv
<1> QED
  BY <1>1, Inductive, PTL

(* GAAllocation.sold is always the number of live GA tickets. *)
THEOREM CounterIsExact == Spec => []SoldMatchesTickets
<1>1. IInv => SoldMatchesTickets
  BY DEF IInv, TicketInv
<1> QED
  BY <1>1, Inductive, PTL

(* No GA performance is ever oversold. *)
THEOREM NeverOversold == Spec => []SoldWithinCapacity
<1>1. IInv => SoldWithinCapacity
  BY DEF IInv, TicketInv
<1> QED
  BY <1>1, Inductive, PTL

(* Active holds of one performance never overlap. *)
THEOREM HoldsNeverClash == Spec => []HoldsExclusive
<1>1. IInv => HoldsExclusive
  BY DEF IInv, CartInv
<1> QED
  BY <1>1, Inductive, PTL

(* The seats of an active hold cannot be sold to anybody else. *)
THEOREM ReservationHonoured == Spec => []HeldSeatsUnsold
<1>1. IInv => HeldSeatsUnsold
  BY DEF IInv, CartInv
<1> QED
  BY <1>1, Inductive, PTL

-----------------------------------------------------------------------------
(* Refinement of SeatLedger *)

Sold == {o \in Order : origin[o] # 0}

LEMMA SameCardinality == \A S : Ledger!Cardinality(S) = Cardinality(S)
BY DEF Ledger!Cardinality, Cardinality

(* A fulfilment is one Sell of the ledger: whole, of a new order, and only  *)
(* of what the ledger has left.                                             *)
LEMMA SaleIsSell ==
  ASSUME IInv, NEW h \in Hold, FulfillHold(h)
  PROVE  \E o \in Order, p \in Perf, U \in SUBSET Unit : Ledger!Sell(o, p, U)
<1>1. /\ TypeOK /\ TicketInv /\ TicketsHaveOrders /\ SoldMatchesTickets
  BY DEF IInv, TicketInv
<1>2. PICK o \in Order, U \in SUBSET Unit : SoldAs(h, o, U)
  BY FulfillIsSale
<1>3. h.perf \in Perf /\ h.id \in 1 .. MaxHold /\ UNCHANGED capacity
  BY DEF FulfillHold, Hold, HoldId
<1>4. Live' = Live \cup {[order |-> o, perf |-> h.perf, unit |-> u] : u \in U}
  BY <1>1, <1>2, <1>3, MintAddsRows DEF SoldAs, Rows
<1>5. o \notin Sold /\ Sold' = Sold \cup {o}
  BY <1>1, <1>2, <1>3 DEF Sold, SoldAs, TypeOK
<1>6. h.perf \in GAPerf => Cardinality(LiveAt(h.perf)) + Cardinality(U) <= capacity[h.perf]
  BY <1>1, <1>2 DEF SoldAs, SoldMatchesTickets
<1>7. h.perf \in ReservedPerf => \A a \in LiveAt(h.perf) : a.unit \notin U
  BY <1>2 DEF SoldAs, TicketedSeats
<1>8. Ledger!Sell(o, h.perf, U)
  BY <1>3, <1>4, <1>5, <1>6, <1>7, SameCardinality DEF Ledger!Sell, Ledger!LiveAt, LiveAt, Sold
<1> QED
  BY <1>3, <1>8

LEMMA LedgerStep ==
  ASSUME IInv, IInv', [Next]_vars
  PROVE  [Ledger!LedgerNext]_(Ledger!ledger)
<1>1. TypeOK /\ SoldMatchesTickets /\ TypeOK'
  BY DEF IInv, TicketInv
<1>2. Ledger!Perf = Perf
  BY DEF Ledger!Perf, Perf
<1>3. ASSUME UNCHANGED <<status, origin, capacity>>
      PROVE  UNCHANGED Ledger!ledger
  BY <1>3 DEF Ledger!ledger, Live
<1>4. ASSUME NEW h \in Hold, FulfillHold(h)
      PROVE  Ledger!LedgerNext
  BY <1>2, <1>4, SaleIsSell DEF Ledger!LedgerNext
<1>5. ASSUME NEW o \in Order, VoidOrder(o)
      PROVE  Ledger!LedgerNext
  <2>1. Live' = {t \in Live : t.order # o} /\ UNCHANGED <<origin, capacity>>
    BY <1>1, <1>5, VoidRemoves DEF VoidOrder
  <2>2. Ledger!GiveBack(o)
    BY <2>1 DEF Ledger!GiveBack
  <2> QED
    BY <2>2 DEF Ledger!LedgerNext
<1>6. ASSUME NEW t \in Ticket, RedeemTicket(t)
      PROVE  UNCHANGED Ledger!ledger
  <2>1. Live' = Live
    BY <1>1, <1>6 DEF RedeemTicket, Live, TypeOK
  <2> QED
    BY <1>6, <2>1 DEF RedeemTicket, Ledger!ledger
<1>7. ASSUME NEW p \in GAPerf, NEW c \in 0 .. MaxCapacity, SetCapacity(p, c)
      PROVE  Ledger!LedgerNext
  <2>1. capacity' = [capacity EXCEPT ![p] = c] /\ c >= sold[p] /\ UNCHANGED <<status, origin>>
    BY <1>7 DEF SetCapacity
  <2>2. capacity'[p] = c /\ c \in Nat
    BY <1>1, <2>1, BoundsAreNat DEF TypeOK
  <2>3. Cardinality(LiveAt(p)) <= capacity'[p]
    BY <1>1, <2>1, <2>2 DEF SoldMatchesTickets
  <2>4. Live' = Live
    BY <2>1 DEF Live
  <2>5. Ledger!Resize(p)
    BY <2>1, <2>2, <2>3, <2>4, SameCardinality DEF Ledger!Resize, Ledger!LiveAt, LiveAt
  <2> QED
    BY <2>5 DEF Ledger!LedgerNext
<1>8. ASSUME NEW h \in holds, FulfillCheckoutSession(h)
      PROVE  Ledger!LedgerNext
  BY <1>1, <1>4, <1>8 DEF FulfillCheckoutSession, TypeOK
<1>9. ASSUME NEW i \in inflight, CheckoutLoaded(i)
      PROVE  Ledger!LedgerNext
  BY <1>1, <1>4, <1>9 DEF CheckoutLoaded, TypeOK
<1>10. CASE \/ \E s \in Session, p \in GAPerf, q \in 1 .. MaxQty : SetGaHold(s, p, q)
            \/ \E s \in Session, p \in ReservedPerf, S \in SUBSET Seat : SetReservedHold(s, p, S)
            \/ \E s \in Session, p \in Perf : ReleaseHold(s, p)
            \/ TimePasses
            \/ ReleaseExpiredHolds
            \/ \E r \in Request, h \in holds : LoadHold(r, h)
            \/ \E i \in inflight : RejectLoaded(i)
            \/ \E p \in ReservedPerf, s \in Seat : BlockSeat(p, s) \/ UnblockSeat(p, s)
            \/ UNCHANGED vars
  <2>1. UNCHANGED <<status, origin, capacity>>
    BY <1>10 DEF SetGaHold, SetReservedHold, ReplaceHold, ReleaseHold, TimePasses,
       ReleaseExpiredHolds, LoadHold, RejectLoaded, BlockSeat, UnblockSeat, vars
  <2> QED
    BY <1>3, <2>1
<1> QED
  BY <1>5, <1>6, <1>7, <1>8, <1>9, <1>10 DEF Next

(* Holds, counter, re-checks and stale requests together implement the      *)
(* ledger: no behaviour of the box office shows an admission it would not.  *)
THEOREM BoxOfficeKeepsLedger == Spec => ImplementsLedger
<1>1. Init => Ledger!LedgerInit
  <2>1. SUFFICES ASSUME Init PROVE Ledger!LedgerInit
    OBVIOUS
  <2>2. Live = {} /\ {o \in Order : origin[o] # 0} = {}
    BY <2>1 DEF Init, Live
  <2>3. capacity \in [GAPerf -> Nat]
    BY <2>1, BoundsAreNat DEF Init
  <2> QED
    BY <2>2, <2>3 DEF Ledger!LedgerInit
<1>2. IInv /\ IInv' /\ [Next]_vars => [Ledger!LedgerNext]_(Ledger!ledger)
  BY LedgerStep
<1> QED
  BY <1>1, <1>2, Inductive, PTL DEF Spec, ImplementsLedger, Ledger!LedgerSpec

-----------------------------------------------------------------------------
(* One order per hold, when every fulfilment reads its hold in its own      *)
(* transaction.  The key of a hold that is in the table was never sold: the *)
(* deletion at the end of fulfill_hold is what makes the hold itself the    *)
(* idempotency token.                                                       *)
SoldHoldsGone ==
    /\ inflight = {}
    /\ \A o \in Order : origin[o] <= lastHold
    /\ \A o \in Order, h \in holds : origin[o] # h.id
    /\ OneOrderPerHold

LEMMA SaleUsesHoldUp ==
  ASSUME IInv, SoldHoldsGone, NEW h \in holds, FulfillCheckoutSession(h)
  PROVE  SoldHoldsGone'
<1>1. /\ TypeOK /\ OneOrderPerHold /\ h \in Hold
      /\ \A h1, h2 \in holds : h1.id = h2.id => h1 = h2
      /\ h.id <= lastHold
  BY DEF IInv, CartInv, Keys, SoldHoldsGone, TypeOK
<1>2. PICK o \in Order, U \in SUBSET Unit : SoldAs(h, o, U)
  BY <1>1, FulfillIsSale DEF FulfillCheckoutSession
<1>3. /\ origin' = [origin EXCEPT ![o] = h.id] /\ origin[o] = 0
      /\ holds' = holds \ {h} /\ UNCHANGED <<lastHold, inflight>>
  BY <1>2 DEF SoldAs, FulfillCheckoutSession, FulfillHold
<1>4. \A q \in Order : origin'[q] = IF q = o THEN h.id ELSE origin[q]
  BY <1>1, <1>3 DEF TypeOK
<1>5. \A q \in Order : origin[q] <= lastHold /\ \A x \in holds : origin[q] # x.id
  BY DEF SoldHoldsGone
<1>6. OneOrderPerHold'
  BY <1>1, <1>4, <1>5 DEF OneOrderPerHold
<1>7. \A q \in Order, x \in holds' : origin'[q] # x.id
  BY <1>1, <1>3, <1>4, <1>5
<1> QED
  BY <1>1, <1>3, <1>4, <1>5, <1>6, <1>7 DEF SoldHoldsGone

LEMMA SoldHoldsGoneStep ==
  ASSUME Request = {}, IInv, SoldHoldsGone, [Next]_vars
  PROVE  SoldHoldsGone'
<1>1. /\ TypeOK /\ OneOrderPerHold /\ inflight = {}
      /\ \A o \in Order : origin[o] <= lastHold
      /\ \A o \in Order, h \in holds : origin[o] # h.id
  BY DEF IInv, SoldHoldsGone
<1>2. ASSUME NEW s \in Session, NEW p \in Perf, NEW U, ReplaceHold(s, p, U)
      PROVE  SoldHoldsGone'
  <2>1. /\ UNCHANGED <<origin, inflight>> /\ lastHold' = lastHold + 1
        /\ \A h \in holds' : h \in holds \/ h.id = lastHold + 1
    BY <1>2 DEF ReplaceHold, WithoutHoldOf
  <2>2. \A o \in Order : origin[o] \in Nat /\ lastHold \in Nat
    BY <1>1 DEF TypeOK
  <2>3. OneOrderPerHold'
    BY <1>1, <2>1 DEF OneOrderPerHold
  <2> QED
    BY <1>1, <2>1, <2>2, <2>3 DEF SoldHoldsGone
<1>3. ASSUME UNCHANGED <<origin, inflight, lastHold>>, holds' \subseteq holds
      PROVE  SoldHoldsGone'
  BY <1>1, <1>3 DEF SoldHoldsGone, OneOrderPerHold
<1>4. ASSUME NEW s \in Session, NEW p \in GAPerf, NEW q \in 1 .. MaxQty, SetGaHold(s, p, q)
      PROVE  SoldHoldsGone'
  BY <1>2, <1>4 DEF SetGaHold, Perf
<1>5. ASSUME NEW s \in Session, NEW p \in ReservedPerf, NEW S \in SUBSET Seat,
             SetReservedHold(s, p, S)
      PROVE  SoldHoldsGone'
  BY <1>2, <1>5 DEF SetReservedHold, Perf
<1>6. CASE \/ \E s \in Session, p \in Perf : ReleaseHold(s, p)
           \/ TimePasses
           \/ ReleaseExpiredHolds
           \/ \E o \in Order : VoidOrder(o)
           \/ \E t \in Ticket : RedeemTicket(t)
           \/ \E p \in GAPerf, c \in 0 .. MaxCapacity : SetCapacity(p, c)
           \/ \E p \in ReservedPerf, s \in Seat : BlockSeat(p, s) \/ UnblockSeat(p, s)
           \/ UNCHANGED vars
  <2>1. UNCHANGED <<origin, inflight, lastHold>> /\ holds' \subseteq holds
    BY <1>6 DEF ReleaseHold, WithoutHoldOf, TimePasses, ReleaseExpiredHolds, VoidOrder,
       RedeemTicket, SetCapacity, BlockSeat, UnblockSeat, vars
  <2> QED
    BY <1>3, <2>1
<1> QED
  BY <1>1, <1>4, <1>5, <1>6, SaleUsesHoldUp DEF Next

(* Where every checkout goes through the webhook, which loads the hold within *)
(* its transaction, a hold becomes at most one order.                         *)
THEOREM NoSecondOrder == Request = {} => (Spec => []OneOrderPerHold)
<1>1. Request = {} /\ Init => SoldHoldsGone
  BY BoundsAreNat DEF Init, SoldHoldsGone, OneOrderPerHold
<1>2. Request = {} /\ IInv /\ SoldHoldsGone /\ [Next]_vars => SoldHoldsGone'
  BY SoldHoldsGoneStep
<1>3. SoldHoldsGone => OneOrderPerHold
  BY DEF SoldHoldsGone
<1>4. ASSUME Request = {}
      PROVE  Spec => []OneOrderPerHold
  <2>1. Init => SoldHoldsGone
    BY <1>1, <1>4
  <2>2. IInv /\ SoldHoldsGone /\ [Next]_vars => SoldHoldsGone'
    BY <1>2, <1>4
  <2> QED
    BY <1>3, <2>1, <2>2, Inductive, PTL DEF Spec
<1> QED
  BY <1>4

-----------------------------------------------------------------------------
(* What is sold and held, against the capacity: an admission of an active   *)
(* hold is a pair of the hold's key and a unit.                             *)

LEMMA HeldFinite ==
  ASSUME TypeOK, NEW p
  PROVE  /\ Held(p) \subseteq HoldId \X Unit
         /\ IsFiniteSet(Held(p)) /\ Cardinality(Held(p)) \in Nat
<1>1. Held(p) \in SUBSET (HoldId \X Unit)
  BY DEF Held, TypeOK, Hold
<1>2. IsFiniteSet(HoldId \X Unit)
  <2>1. IsFiniteSet(HoldId)
    BY FS_Interval, BoundsAreNat DEF HoldId
  <2> QED
    BY <2>1, UnitFinite, FS_Product
<1> QED
  BY <1>1, <1>2, FS_Subset, FS_CardinalityType

LEMMA PairsCount ==
  ASSUME NEW i, NEW U, IsFiniteSet(U)
  PROVE  /\ IsFiniteSet({i} \X U) /\ Cardinality({i} \X U) = Cardinality(U)
         /\ Cardinality(U) \in Nat
<1>1. IsFiniteSet({i}) /\ Cardinality({i}) = 1
  BY FS_Singleton
<1>2. Cardinality(U) \in Nat
  BY FS_CardinalityType
<1>3. IsFiniteSet({i} \X U) /\ Cardinality({i} \X U) = Cardinality({i}) * Cardinality(U)
  BY <1>1, FS_Product
<1> QED
  BY <1>1, <1>2, <1>3

(* Fewer holds, of which fewer are active, hold no more. *)
LEMMA HeldShrinks ==
  ASSUME TypeOK, NEW p, holds' \subseteq holds, horizon' \in Nat, horizon' >= horizon
  PROVE  /\ IsFiniteSet(Held(p)') /\ Cardinality(Held(p)') \in Nat
         /\ Cardinality(Held(p)') <= Cardinality(Held(p))
<1>1. \A h \in holds' : Active(h)' => Active(h)
  BY DEF Active, TypeOK, Hold, HoldId
<1>2. Held(p)' \in SUBSET Held(p)
  BY <1>1 DEF Held
<1> QED
  BY <1>2, HeldFinite, FS_Subset, FS_CardinalityType

(* What a step other than an edit of the capacity must not do. *)
StaffOnly == \A p \in GAPerf : Overcommitted(p)' /\ ~Overcommitted(p) => capacity'[p] < capacity[p]

(* Steps that sell and hold no more: cancellations, lapses and the like. *)
LEMMA LessIsCommitted ==
  ASSUME TypeOK, holds' \subseteq holds, horizon' \in Nat, horizon' >= horizon,
         \A p \in GAPerf : sold'[p] \in Nat /\ sold'[p] <= sold[p], capacity' = capacity
  PROVE  StaffOnly
<1> SUFFICES ASSUME NEW p \in GAPerf, ~Overcommitted(p)
             PROVE  ~Overcommitted(p)'
  BY DEF StaffOnly
<1>1. Cardinality(Held(p)) \in Nat /\ Cardinality(Held(p)') \in Nat
      /\ Cardinality(Held(p)') <= Cardinality(Held(p))
  BY HeldFinite, HeldShrinks
<1>2. sold[p] \in Nat /\ capacity[p] \in Nat
  BY DEF TypeOK
<1>3. sold[p] + Cardinality(Held(p)) <= capacity[p]
  BY <1>1, <1>2 DEF Overcommitted
<1>4. sold'[p] + Cardinality(Held(p)') <= capacity'[p]
  BY <1>1, <1>2, <1>3
<1> QED
  BY <1>1, <1>2, <1>4 DEF Overcommitted

(* set_ga_hold counts what is sold and what the others hold. *)
LEMMA GaHoldFits ==
  ASSUME TypeOK, NEW s \in Session, NEW p \in GAPerf, NEW q \in 1 .. MaxQty, SetGaHold(s, p, q)
  PROVE  StaffOnly
<1> DEFINE new == [id |-> lastHold + 1, session |-> s, perf |-> p, units |-> 1 .. q]
<1>1. /\ holds' = {h \in holds : ~(h.session = s /\ h.perf = p)} \cup {new}
      /\ UNCHANGED <<horizon, sold, capacity>>
      /\ sold[p] + Cardinality(HeldExcept(p, s)) + q <= capacity[p]
  BY DEF SetGaHold, ReplaceHold, WithoutHoldOf, GaFits
<1>2. \A h : Active(h)' <=> Active(h)
  BY <1>1 DEF Active
<1>3. \A x \in GAPerf \ {p} : Held(x)' = Held(x)
  BY <1>1, <1>2 DEF Held
<1>4. Held(p)' \in SUBSET (HeldExcept(p, s) \cup ({lastHold + 1} \X (1 .. q)))
  BY <1>1, <1>2 DEF Held, HeldExcept
<1>5. HeldExcept(p, s) \in SUBSET Held(p)
  BY DEF Held, HeldExcept
<1>6. IsFiniteSet(HeldExcept(p, s)) /\ Cardinality(HeldExcept(p, s)) \in Nat
  BY <1>5, HeldFinite, FS_Subset, FS_CardinalityType
<1>7. q \in Nat /\ IsFiniteSet(1 .. q) /\ Cardinality(1 .. q) = q
  <2>1. q \in Nat /\ q >= 1
    BY BoundsAreNat
  <2> QED
    BY <2>1, FS_Interval
<1>8. IsFiniteSet({lastHold + 1} \X (1 .. q)) /\ Cardinality({lastHold + 1} \X (1 .. q)) = q
  BY <1>7, PairsCount
<1> DEFINE A == HeldExcept(p, s)
           B == {lastHold + 1} \X (1 .. q)
<1>9. /\ IsFiniteSet(A \cup B) /\ Cardinality(A \cup B) = Cardinality(A) + Cardinality(B) - Cardinality(A \cap B)
      /\ Cardinality(A \cap B) \in Nat
  <2>1. IsFiniteSet(A) /\ IsFiniteSet(B)
    BY <1>6, <1>8
  <2>2. A \cap B \in SUBSET A
    OBVIOUS
  <2> HIDE DEF A, B
  <2> QED
    BY <2>1, <2>2, FS_Union, FS_Subset, FS_CardinalityType
<1>10. Held(p)' \in SUBSET (A \cup B)
  BY <1>4
<1>11. Cardinality(A) \in Nat /\ Cardinality(B) = q
  BY <1>6, <1>8
<1> HIDE DEF A, B
<1>12. IsFiniteSet(Held(p)') /\ Cardinality(Held(p)') \in Nat /\ Cardinality(Held(p)') <= Cardinality(A \cup B)
  BY <1>9, <1>10, FS_Subset, FS_CardinalityType
<1>13. sold[p] \in Nat /\ capacity[p] \in Nat
  BY DEF TypeOK
<1>14. sold[p] + Cardinality(A) + q <= capacity[p]
  BY <1>1 DEF A
<1>15. ~Overcommitted(p)'
  BY <1>1, <1>7, <1>9, <1>11, <1>12, <1>13, <1>14 DEF Overcommitted
<1>16. \A x \in GAPerf \ {p} : Overcommitted(x)' = Overcommitted(x)
  BY <1>1, <1>3 DEF Overcommitted
<1> QED
  BY <1>15, <1>16 DEF StaffOnly
(* A hold of seats is none of general admission. *)
LEMMA SeatHoldFits ==
  ASSUME TypeOK, NEW s \in Session, NEW p \in ReservedPerf, NEW S, SetReservedHold(s, p, S)
  PROVE  StaffOnly
<1>1. /\ holds' = WithoutHoldOf(s, p) \cup {[id |-> lastHold + 1, session |-> s, perf |-> p, units |-> S]}
      /\ UNCHANGED <<horizon, sold, capacity>>
  BY DEF SetReservedHold, ReplaceHold
<1>2. \A x \in GAPerf : Held(x)' = Held(x)
  BY <1>1, ModesDisjoint DEF Held, Active, WithoutHoldOf
<1> QED
  BY <1>1, <1>2 DEF StaffOnly, Overcommitted

(* A fulfilment that finds its hold in the table sells what the hold held.  *)
LEMMA SaleSpendsTheHold ==
  ASSUME TypeOK, Keys, NEW h \in holds, FulfillCheckoutSession(h)
  PROVE  StaffOnly
<1>1. /\ Active(h) /\ holds' = holds \ {h} /\ UNCHANGED <<horizon, capacity>>
      /\ h \in Hold
  BY DEF FulfillCheckoutSession, FulfillHold, TypeOK
<1>2. PICK o \in Order : FulfillGa(h, o) \/ FulfillReserved(h, o)
  BY DEF FulfillCheckoutSession, FulfillHold
<1>3. horizon' \in Nat /\ horizon' >= horizon
  BY <1>1 DEF TypeOK
<1>4. CASE FulfillReserved(h, o)
  <2>1. \A p \in GAPerf : sold'[p] \in Nat /\ sold'[p] <= sold[p]
    BY <1>4 DEF FulfillReserved, TypeOK
  <2> QED
    BY <1>1, <1>3, <2>1, LessIsCommitted
<1>5. CASE FulfillGa(h, o)
  <2> DEFINE g == h.perf
             n == Cardinality(h.units)
  <2>1. g \in GAPerf /\ sold' = [sold EXCEPT ![g] = @ + n] /\ sold \in [GAPerf -> Nat]
    BY <1>5 DEF FulfillGa, TypeOK
  <2>2. IsFiniteSet(h.units)
    BY <1>1, UnitFinite, FS_Subset DEF Hold
  <2>3. IsFiniteSet({h.id} \X h.units) /\ Cardinality({h.id} \X h.units) = n /\ n \in Nat
    BY <2>2, PairsCount
  <2>4. Held(g)' = Held(g) \ ({h.id} \X h.units)
    <3>1. \A x \in holds \ {h} : x.id # h.id
      BY DEF Keys
    <3>2. \A x : Active(x)' <=> Active(x)
      BY <1>1 DEF Active
    <3> QED
      BY <1>1, <3>1, <3>2 DEF Held
  <2>5. Held(g) \cap ({h.id} \X h.units) = {h.id} \X h.units
    BY <1>1 DEF Held
  <2>6. IsFiniteSet(Held(g)) /\ Cardinality(Held(g)) \in Nat
    BY HeldFinite
  <2>7. Cardinality(Held(g)') = Cardinality(Held(g)) - n
    <3> DEFINE H == Held(g)
               X == {h.id} \X h.units
    <3>1. Held(g)' = H \ X /\ H \cap X = X /\ IsFiniteSet(H) /\ Cardinality(X) = n
      BY <2>3, <2>4, <2>5, <2>6
    <3> HIDE DEF H, X
    <3>2. Cardinality(H \ X) = Cardinality(H) - Cardinality(H \cap X)
      BY <3>1, FS_Difference
    <3> QED
      BY <3>1, <3>2 DEF H
  <2>8. sold'[g] = sold[g] + n /\ sold[g] \in Nat
    BY <2>1
  <2>9. Overcommitted(g)' <=> Overcommitted(g)
    BY <1>1, <2>3, <2>6, <2>7, <2>8 DEF Overcommitted
  <2>10. ASSUME NEW p \in GAPerf, p # g, ~Overcommitted(p)
         PROVE  ~Overcommitted(p)'
    <3>1. sold'[p] = sold[p] /\ sold[p] \in Nat /\ capacity[p] \in Nat
      BY <2>1, <2>10 DEF TypeOK
    <3>2. /\ Cardinality(Held(p)) \in Nat /\ Cardinality(Held(p)') \in Nat
          /\ Cardinality(Held(p)') <= Cardinality(Held(p))
      BY <1>1, <1>3, HeldFinite, HeldShrinks
    <3> QED
      BY <1>1, <2>10, <3>1, <3>2 DEF Overcommitted
  <2> QED
    BY <2>9, <2>10 DEF StaffOnly
<1> QED
  BY <1>2, <1>4, <1>5

LEMMA EditOvercommits ==
  ASSUME TypeOK, NEW p \in GAPerf, NEW c \in 0 .. MaxCapacity, SetCapacity(p, c)
  PROVE  StaffOnly
<1>1. capacity' = [capacity EXCEPT ![p] = c] /\ UNCHANGED <<holds, horizon, sold>>
  BY DEF SetCapacity
<1>2. \A x \in GAPerf : /\ Held(x)' = Held(x) /\ sold[x] \in Nat /\ capacity[x] \in Nat
                        /\ capacity'[x] = IF x = p THEN c ELSE capacity[x]
                        /\ Cardinality(Held(x)) \in Nat
  <2>1. \A x \in GAPerf : Held(x)' = Held(x)
    BY <1>1 DEF Held, Active
  <2>2. sold \in [GAPerf -> Nat] /\ capacity \in [GAPerf -> 0 .. MaxCapacity]
    BY DEF TypeOK
  <2>3. \A x \in GAPerf : sold[x] \in Nat /\ capacity[x] \in Nat
    BY <2>2, BoundsAreNat
  <2>4. \A x : Cardinality(Held(x)) \in Nat
    BY HeldFinite
  <2> QED
    BY <1>1, <2>1, <2>2, <2>3, <2>4
<1>3. c \in Nat
  BY BoundsAreNat
<1> QED
  BY <1>1, <1>2, <1>3 DEF StaffOnly, Overcommitted

LEMMA CommitStep ==
  ASSUME IInv, inflight = {}, [Next]_vars
  PROVE  StaffOnly
<1>1. TypeOK /\ Keys /\ SoldMatchesTickets
  BY DEF IInv, CartInv, TicketInv
<1>2. horizon \in Nat /\ horizon + 1 \in Nat /\ horizon + 1 >= horizon
      /\ \A p \in GAPerf : sold[p] \in Nat /\ sold[p] <= sold[p]
  BY <1>1 DEF TypeOK
<1>3. ASSUME NEW o \in Order, VoidOrder(o)
      PROVE  StaffOnly
  <2>1. \A p \in GAPerf : sold'[p] \in Nat /\ sold'[p] <= sold[p]
    BY <1>1, <1>3, VoidCounts
  <2> QED
    BY <1>1, <1>2, <1>3, <2>1, LessIsCommitted DEF VoidOrder
<1>4. CASE \/ \E s \in Session, p \in Perf : ReleaseHold(s, p)
           \/ TimePasses
           \/ ReleaseExpiredHolds
           \/ \E r \in Request, h \in holds : LoadHold(r, h)
           \/ \E i \in inflight : RejectLoaded(i)
           \/ \E t \in Ticket : RedeemTicket(t)
           \/ \E p \in ReservedPerf, s \in Seat : BlockSeat(p, s) \/ UnblockSeat(p, s)
           \/ UNCHANGED vars
  <2>1. holds' \subseteq holds /\ horizon' \in {horizon, horizon + 1} /\ UNCHANGED <<sold, capacity>>
    BY <1>4 DEF ReleaseHold, WithoutHoldOf, TimePasses, ReleaseExpiredHolds, LoadHold, RejectLoaded,
       RedeemTicket, BlockSeat, UnblockSeat, vars
  <2>2. horizon' \in Nat /\ horizon' >= horizon
    BY <1>2, <2>1
  <2> QED
    BY <1>1, <1>2, <2>1, <2>2, LessIsCommitted
<1> QED
  BY <1>1, <1>3, <1>4, GaHoldFits, SeatHoldFits, SaleSpendsTheHold, EditOvercommits DEF Next

(* Where every checkout goes through the webhook, no hold, sale,             *)
(* cancellation or lapse of time brings what is sold and held over the       *)
(* capacity: every active hold of general admission can be fulfilled, until  *)
(* staff lower the capacity (set_ga_hold, _fulfill_ga, void_order).          *)
THEOREM HoldsFitTheHouse == Request = {} => (Spec => OnlyStaffOvercommit)
<1> SUFFICES ASSUME Request = {}
             PROVE  Spec => OnlyStaffOvercommit
  OBVIOUS
<1>1. Init => SoldHoldsGone
  BY BoundsAreNat DEF Init, SoldHoldsGone, OneOrderPerHold
<1>2. IInv /\ SoldHoldsGone /\ [Next]_vars => SoldHoldsGone'
  BY SoldHoldsGoneStep
<1>3. IInv /\ SoldHoldsGone /\ [Next]_vars => [StaffOnly]_vars
  BY CommitStep DEF SoldHoldsGone
<1>4. Spec => [][StaffOnly]_vars
  BY <1>1, <1>2, <1>3, Inductive, PTL DEF Spec
<1> QED
  BY <1>4 DEF OnlyStaffOvercommit, StaffOnly
=============================================================================
