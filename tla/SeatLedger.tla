----------------------------- MODULE SeatLedger -----------------------------
(***************************************************************************)
(* What the box office promises about admissions, with no holds, no sold   *)
(* counter and no ticket rows: a ledger of live admissions per order.  An  *)
(* order is sold once, entirely or not at all; a reserved seat is admitted *)
(* to one live order per performance; a general admission performance      *)
(* never has more live admissions than its capacity; and what an order     *)
(* gave back it never gets again.                                          *)
(***************************************************************************)
EXTENDS Naturals, FiniteSets

CONSTANTS GAPerf,         \* performances sold by count
          ReservedPerf,   \* performances sold by seat
          Unit,           \* seats, and the numbers of the tickets of a GA order
          Order           \* order keys

Perf == GAPerf \cup ReservedPerf
Admission == [order : Order, perf : Perf, unit : Unit]

VARIABLES live,   \* the admissions a door scanner would let in, or has let in
          cap,    \* the capacity of each general admission performance
          spent   \* the orders that were ever sold

ledger == <<live, cap, spent>>

LiveAt(p) == {a \in live : a.perf = p}

LedgerTypeOK == /\ live \subseteq Admission
                /\ cap \in [GAPerf -> Nat]
                /\ spent \subseteq Order

LedgerInit == /\ live = {}
              /\ cap \in [GAPerf -> Nat]
              /\ spent = {}

(* An order takes the units U of one performance, if they are all free. *)
Sell(o, p, U) ==
    /\ o \notin spent
    /\ p \in GAPerf => Cardinality(LiveAt(p)) + Cardinality(U) <= cap[p]
    /\ p \in ReservedPerf => \A a \in LiveAt(p) : a.unit \notin U
    /\ live' = live \cup {[order |-> o, perf |-> p, unit |-> u] : u \in U}
    /\ spent' = spent \cup {o}
    /\ UNCHANGED cap

(* An order gives back everything it still has. *)
GiveBack(o) ==
    /\ live' = {a \in live : a.order # o}
    /\ UNCHANGED <<cap, spent>>

(* The house changes a capacity, never below what it has already admitted. *)
Resize(p) ==
    /\ cap'[p] \in Nat
    /\ Cardinality(LiveAt(p)) <= cap'[p]
    /\ cap' = [cap EXCEPT ![p] = cap'[p]]
    /\ UNCHANGED <<live, spent>>

LedgerNext == \/ \E o \in Order, p \in Perf, U \in SUBSET Unit : Sell(o, p, U)
              \/ \E o \in Order : GiveBack(o)
              \/ \E p \in GAPerf : Resize(p)

LedgerSpec == LedgerInit /\ [][LedgerNext]_ledger
=============================================================================
