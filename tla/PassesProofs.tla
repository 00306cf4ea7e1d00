---------------------------- MODULE PassesProofs ----------------------------
(***************************************************************************)
(* Proofs about Passes, for any passes, any events and any number of       *)
(* cancellations in flight at once.                                        *)
(***************************************************************************)
EXTENDS Passes, FiniteSetTheorems, TLAPS

-----------------------------------------------------------------------------
(* Counting tickets *)

LEMMA TicketFinite == IsFiniteSet(Ticket)
<1> DEFINE P == (Redemption \X Pass) \X (Event \X (1 .. MaxQty))
           f == [t \in Ticket |-> <<<<t.order, t.pass>>, <<t.event, t.number>>>>]
<1>1. IsFiniteSet(Redemption) /\ IsFiniteSet(1 .. MaxQty)
  BY FS_Interval, PassBounds DEF Redemption
<1>2. IsFiniteSet(Redemption \X Pass) /\ IsFiniteSet(Event \X (1 .. MaxQty))
  BY <1>1, FS_Product, FinitePasses
<1>3. IsFiniteSet(P)
  BY <1>2, FS_Product
<1>4. f \in [Ticket -> P]
  BY DEF Ticket
<1>5. ASSUME NEW s \in Ticket, NEW t \in Ticket, f[s] = f[t]
      PROVE  s = t
  BY <1>5 DEF Ticket
<1>6. f \in Injection(Ticket, P)
  BY <1>4, <1>5, Zenon DEF Injection, IsInjective
<1> QED
  BY <1>3, <1>6, FS_Injection

LEMMA TicketsCount ==
  ASSUME NEW T \in SUBSET Ticket
  PROVE  IsFiniteSet(T) /\ Cardinality(T) \in Nat
BY TicketFinite, FS_Subset, FS_CardinalityType

(* What is saved of a flex pass is a row, whatever was read and when. *)
LEMMA RestoredIsRow ==
  ASSUME NEW row \in PassRow, NEW now \in PassRow, NEW T \in SUBSET Ticket
  PROVE  Restored(row, now, Cardinality(T)) \in PassRow
BY TicketsCount DEF Restored, PassRow, PassStatus

-----------------------------------------------------------------------------
(* Type correctness *)

(* The tickets of a new redemption. *)
Minted(o, p, e, n) == [order : {o}, pass : {p}, event : {e}, number : 1 .. n]

LEMMA MintedAreTickets ==
  ASSUME NEW o \in Redemption, NEW p \in Pass, NEW e \in Event, NEW n \in 1 .. MaxQty
  PROVE  Minted(o, p, e, n) \subseteq Ticket
BY PassBounds DEF Minted, Ticket

LEMMA BurnType ==
  ASSUME TypeOK, NEW p \in Pass, NEW e \in Event, NEW n \in 1 .. MaxQty,
         FulfillHoldWithPass(p, e, n)
  PROVE  /\ pass' \in [Pass -> PassRow]
         /\ \A q \in SeasonPass : pass'[q].credits = 0 /\ pass'[q].status # "exhausted"
<1>1. pass' = Burn(p, n) /\ WithinBudget(p, e, n) /\ pass[p] \in PassRow
  BY DEF Redeemable, FulfillHoldWithPass, TypeOK
<1>2. CASE p \in FlexPass
  <2>1. pass[p].credits - n \in Nat
    BY <1>1, <1>2 DEF WithinBudget, PassRow
  <2>2. p \notin SeasonPass
    BY <1>2, KindsDisjoint
  <2> QED
    BY <1>1, <1>2, <2>1, <2>2 DEF Burn, TypeOK, PassRow, PassStatus
<1>3. CASE p \notin FlexPass
  BY <1>1, <1>3 DEF Burn, TypeOK
<1> QED
  BY <1>2, <1>3

LEMMA TypeStep == TypeOK /\ [Next]_vars => TypeOK'
<1> SUFFICES ASSUME TypeOK, [Next]_vars
             PROVE  TypeOK'
  OBVIOUS
<1>1. ASSUME NEW p \in Pass, NEW e \in Event, NEW n \in 1 .. MaxQty,
             FulfillHoldWithPass(p, e, n)
      PROVE  TypeOK'
  <2>1. PICK o \in Redemption :
          /\ status' = [status EXCEPT ![o] = "paid"]
          /\ live' = live \cup Minted(o, p, e, n)
          /\ redeemed' = redeemed \cup Minted(o, p, e, n)
    BY <1>1 DEF Redeemable, FulfillHoldWithPass, Minted
  <2>2. Minted(o, p, e, n) \subseteq Ticket
    BY MintedAreTickets
  <2>3. UNCHANGED <<charge, work>>
    BY <1>1 DEF Redeemable, FulfillHoldWithPass
  <2> QED
    BY <1>1, <2>1, <2>2, <2>3, BurnType DEF TypeOK
<1>2. ASSUME NEW o \in Redemption, RefundRedemption(o)
      PROVE  TypeOK'
  <2>1. RowsOf(o) \in SUBSET Ticket
    BY DEF RowsOf, TypeOK
  <2>2. \A p \in Pass : Restored(pass[p], pass[p], Cardinality(RowsOf(o))) \in PassRow
    BY <2>1, RestoredIsRow DEF TypeOK
  <2>3. pass' \in [Pass -> PassRow] /\ \A p \in SeasonPass : pass'[p] = pass[p]
    BY <1>2, <2>2, KindsDisjoint DEF RefundRedemption, TypeOK, Pass
  <2> QED
    BY <1>2, <2>3 DEF RefundRedemption, Void, TypeOK
<1>3. ASSUME NEW p \in Pass, RefundSale(p)
      PROVE  TypeOK'
  <2>1. /\ [status |-> "refunded", credits |-> pass[p].credits] \in PassRow
        /\ \A q \in SeasonPass : pass[q].credits = 0
    BY DEF TypeOK, PassRow, PassStatus
  <2>2. /\ pass' \in [Pass -> PassRow]
        /\ \A q \in SeasonPass : pass'[q].credits = 0 /\ pass'[q].status # "exhausted"
    BY <1>3, <2>1 DEF RefundSale, TypeOK, Pass
  <2>3. status' \in [Order -> {"none", "paid", "cancelled", "refunded"}]
    BY <1>3 DEF RefundSale, TypeOK
  <2>4. charge' \in [Pass -> {"kept", "returned"}]
    BY <1>3 DEF RefundSale, TypeOK
  <2> QED
    BY <1>3, <2>2, <2>3, <2>4 DEF RefundSale, TypeOK
<1>4. ASSUME NEW p \in Pass, RefundSaleUnheard(p)
      PROVE  TypeOK'
  BY <1>4 DEF RefundSaleUnheard, TypeOK
<1>5. ASSUME NEW k \in Clerk, NEW o \in Order, CancelLoad(k, o)
      PROVE  TypeOK'
  <2>1. NoRow \in PassRow
    BY DEF NoRow, PassRow, PassStatus
  <2> QED
    BY <1>5, <2>1 DEF CancelLoad, TypeOK, Work
<1>6. ASSUME NEW w \in work, CancelVoid(w) \/ RestoreRead(w) \/ RestoreLoad(w) \/ RestoreDelete(w)
      PROVE  TypeOK'
  <2>1. w \in Work /\ w.rows \in SUBSET Ticket
    BY DEF TypeOK, Work
  <2>2. RowsOf(w.order) \in SUBSET Ticket
    BY DEF RowsOf, TypeOK
  <2>3. \A t \in w.rows : pass[t.pass] \in PassRow
    BY <2>1 DEF TypeOK, Ticket
  <2>4. NoRow \in PassRow
    BY DEF NoRow, PassRow, PassStatus
  <2>5. work' \subseteq Work
    <3>1. CASE CancelVoid(w)
      BY <2>1, <2>4, <3>1 DEF CancelVoid, Goes, TypeOK, Work
    <3>2. CASE RestoreRead(w)
      BY <2>1, <2>2, <2>4, <3>2 DEF RestoreRead, Goes, TypeOK, Work
    <3>3. CASE RestoreLoad(w)
      BY <2>1, <2>3, <3>3 DEF RestoreLoad, Goes, TypeOK, Work
    <3>4. CASE RestoreDelete(w)
      BY <2>1, <3>4 DEF RestoreDelete, Goes, TypeOK, Work
    <3> QED
      BY <1>6, <3>1, <3>2, <3>3, <3>4
  <2> QED
    BY <1>6, <2>5 DEF CancelVoid, RestoreRead, RestoreLoad, RestoreDelete, Void, TypeOK
<1>7. ASSUME NEW w \in work, RestoreSave(w)
      PROVE  TypeOK'
  <2>1. w \in Work /\ w.rows \in SUBSET Ticket /\ w.row \in PassRow
    BY DEF TypeOK, Work
  <2>2. \A p \in Pass : Restored(w.row, pass[p], Cardinality(w.rows)) \in PassRow
    BY <2>1, RestoredIsRow DEF TypeOK
  <2>3. pass' \in [Pass -> PassRow] /\ \A p \in SeasonPass : pass'[p] = pass[p]
    BY <1>7, <2>2, KindsDisjoint DEF RestoreSave, TypeOK, Pass
  <2>4. work' \subseteq Work
    <3>1. NoRow \in PassRow
      BY DEF NoRow, PassRow, PassStatus
    <3> QED
      BY <1>7, <2>1, <3>1 DEF RestoreSave, Goes, TypeOK, Work
  <2> QED
    BY <1>7, <2>3, <2>4 DEF RestoreSave, TypeOK
<1>8. ASSUME NEW w \in work, CancelClose(w) \/ CancelDies(w)
      PROVE  TypeOK'
  BY <1>8 DEF CancelClose, CancelDies, TypeOK, Work
<1>9. CASE UNCHANGED vars
  BY <1>9 DEF vars, TypeOK
<1> QED
  BY <1>1, <1>2, <1>3, <1>4, <1>5, <1>6, <1>7, <1>8, <1>9 DEF Next, CancelNext

-----------------------------------------------------------------------------
(* Admissions and redemption rows *)

LEMMA InitIsInvariant == Init => IInv
<1> SUFFICES ASSUME Init
             PROVE  IInv
  OBVIOUS
<1>1. /\ pass \in [Pass -> PassRow]
      /\ \A p \in SeasonPass : pass[p].credits = 0 /\ pass[p].status # "exhausted"
  BY PassBounds, KindsDisjoint DEF Init, PassRow, PassStatus, Pass
<1>2. TypeOK
  BY <1>1 DEF Init, TypeOK
<1> QED
  BY <1>2 DEF Init, IInv, AdmissionsAreUsed, WorkOK, SeasonUsedOnce

(* A redemption is the only step that adds tickets and rows, to both tables. *)
LEMMA RedemptionKeeps ==
  ASSUME IInv, NEW p \in Pass, NEW e \in Event, NEW n \in 1 .. MaxQty,
         FulfillHoldWithPass(p, e, n)
  PROVE  AdmissionsAreUsed' /\ WorkOK' /\ SeasonUsedOnce'
<1>1. PICK o \in Redemption :
        /\ status[o] = "none"
        /\ status' = [status EXCEPT ![o] = "paid"]
        /\ live' = live \cup Minted(o, p, e, n)
        /\ redeemed' = redeemed \cup Minted(o, p, e, n)
  BY DEF Redeemable, FulfillHoldWithPass, Minted
<1>2. /\ TypeOK /\ AdmissionsAreUsed /\ WorkOK /\ SeasonUsedOnce
      /\ work' = work /\ WithinBudget(p, e, n)
  BY DEF IInv, Redeemable, FulfillHoldWithPass
<1>3. \A t \in Minted(o, p, e, n) : t.order = o /\ t.pass = p /\ t.event = e /\ t.number \in 1 .. n
  BY DEF Minted
<1>4. AdmissionsAreUsed'
  BY <1>1, <1>2 DEF AdmissionsAreUsed
<1>5. WorkOK'
  <2>1. \A w \in work : w.order \in Order /\ w.order # o /\ status'[w.order] = status[w.order]
    BY <1>1, <1>2 DEF TypeOK, Work, WorkOK
  <2> QED
    BY <1>1, <1>2, <1>3, <2>1 DEF WorkOK
<1>6. SeasonUsedOnce'
  <2>1. CASE p \in SeasonPass
    <3>1. n = 1 /\ \A t \in redeemed : t.pass = p => t.event # e
      BY <1>2, <2>1, KindsDisjoint DEF WithinBudget, Used
    <3>2. \A s, t \in Minted(o, p, e, n) : s = t
      BY <3>1 DEF Minted
    <3> QED
      BY <1>1, <1>2, <1>3, <3>1, <3>2 DEF SeasonUsedOnce
  <2>2. CASE p \notin SeasonPass
    BY <1>1, <1>2, <1>3, <2>2 DEF SeasonUsedOnce
  <2> QED
    BY <2>1, <2>2
<1> QED
  BY <1>4, <1>5, <1>6

(* Rows go away with, or after, the tickets of their order. *)
LEMMA OthersKeep ==
  ASSUME IInv, [Next]_vars,
         \A p \in Pass, e \in Event, n \in 1 .. MaxQty : ~FulfillHoldWithPass(p, e, n)
  PROVE  AdmissionsAreUsed' /\ WorkOK' /\ SeasonUsedOnce'
<1>1. TypeOK /\ AdmissionsAreUsed /\ WorkOK /\ SeasonUsedOnce
  BY DEF IInv
<1>2. ASSUME live' \subseteq live, redeemed' \subseteq redeemed, status' = status, live' \subseteq redeemed',
             NEW w \in work, NEW x, work' = (work \ {w}) \cup {x}, x.order = w.order,
             x.step # "void" => \A t \in live' : t.order # w.order
      PROVE  AdmissionsAreUsed' /\ WorkOK' /\ SeasonUsedOnce'
  BY <1>1, <1>2 DEF AdmissionsAreUsed, WorkOK, SeasonUsedOnce
<1>3. ASSUME NEW o \in Redemption, RefundRedemption(o)
      PROVE  AdmissionsAreUsed' /\ WorkOK' /\ SeasonUsedOnce'
  <2>1. \A q \in Order : status[q] # "none" => status'[q] # "none"
    BY <1>1, <1>3 DEF RefundRedemption, TypeOK
  <2>2. \A w \in work : w.order \in Order
    BY <1>1 DEF TypeOK, Work
  <2> QED
    BY <1>1, <1>3, <2>1, <2>2 DEF RefundRedemption, Void, RowsOf, AdmissionsAreUsed, WorkOK, SeasonUsedOnce
<1>4. ASSUME NEW p \in Pass, RefundSale(p) \/ RefundSaleUnheard(p)
      PROVE  AdmissionsAreUsed' /\ WorkOK' /\ SeasonUsedOnce'
  <2>1. \A q \in Order : status[q] # "none" => status'[q] # "none"
    BY <1>1, <1>4 DEF RefundSale, RefundSaleUnheard, TypeOK
  <2>2. \A w \in work : w.order \in Order
    BY <1>1 DEF TypeOK, Work
  <2> QED
    BY <1>1, <1>4, <2>1, <2>2 DEF RefundSale, RefundSaleUnheard, AdmissionsAreUsed, WorkOK, SeasonUsedOnce
<1>5. ASSUME NEW k \in Clerk, NEW o \in Order, CancelLoad(k, o)
      PROVE  AdmissionsAreUsed' /\ WorkOK' /\ SeasonUsedOnce'
  BY <1>1, <1>5 DEF CancelLoad, AdmissionsAreUsed, WorkOK, SeasonUsedOnce
<1>6. ASSUME NEW w \in work, CancelVoid(w)
      PROVE  AdmissionsAreUsed' /\ WorkOK' /\ SeasonUsedOnce'
  <2> DEFINE x == [clerk |-> w.clerk, order |-> w.order, step |-> "read", rows |-> {}, row |-> NoRow]
  <2>1. work' = (work \ {w}) \cup {x} /\ x.order = w.order
    BY <1>6 DEF CancelVoid, Goes
  <2>2. live' \subseteq live /\ \A t \in live' : t.order # w.order
    BY <1>6 DEF CancelVoid, Void
  <2>3. redeemed' = redeemed /\ status' = status /\ live' \subseteq redeemed'
    BY <1>1, <1>6, <2>2 DEF CancelVoid, AdmissionsAreUsed
  <2> HIDE DEF x
  <2> QED
    BY <1>2, <2>1, <2>2, <2>3
<1>7. ASSUME NEW w \in work, RestoreRead(w) \/ RestoreLoad(w) \/ RestoreDelete(w) \/ RestoreSave(w)
      PROVE  AdmissionsAreUsed' /\ WorkOK' /\ SeasonUsedOnce'
  <2>1. \A t \in live : t.order # w.order
    BY <1>1, <1>7 DEF RestoreRead, RestoreLoad, RestoreDelete, RestoreSave, WorkOK
  <2>2. /\ live' = live /\ status' = status
        /\ redeemed' \subseteq redeemed /\ live' \subseteq redeemed'
    BY <1>1, <1>7, <2>1 DEF RestoreRead, RestoreLoad, RestoreDelete, RestoreSave, RowsOf, AdmissionsAreUsed
  <2>3. PICK step, rows, row : Goes(w, step, rows, row)
    <3>1. CASE RestoreRead(w)
      BY <3>1, Zenon DEF RestoreRead
    <3>2. CASE RestoreLoad(w)
      BY <3>2, Zenon DEF RestoreLoad
    <3>3. CASE RestoreDelete(w)
      BY <3>3, Zenon DEF RestoreDelete
    <3>4. CASE RestoreSave(w)
      BY <3>4, Zenon DEF RestoreSave
    <3> QED
      BY <1>7, <3>1, <3>2, <3>3, <3>4
  <2> DEFINE x == [clerk |-> w.clerk, order |-> w.order, step |-> step, rows |-> rows, row |-> row]
  <2>4. work' = (work \ {w}) \cup {x} /\ x.order = w.order
    BY <2>3 DEF Goes
  <2> HIDE DEF x
  <2> QED
    BY <1>2, <2>1, <2>2, <2>4
<1>8. ASSUME NEW w \in work, CancelClose(w) \/ CancelDies(w)
      PROVE  AdmissionsAreUsed' /\ WorkOK' /\ SeasonUsedOnce'
  <2>1. w.order \in Order /\ \A v \in work : v.order \in Order
    BY <1>1 DEF TypeOK, Work
  <2>2. \A q \in Order : status[q] # "none" => status'[q] # "none"
    BY <1>1, <1>8, <2>1 DEF CancelClose, CancelDies, TypeOK
  <2> QED
    BY <1>1, <1>8, <2>1, <2>2 DEF CancelClose, CancelDies, AdmissionsAreUsed, WorkOK, SeasonUsedOnce
<1>9. CASE UNCHANGED vars
  BY <1>1, <1>9 DEF vars, AdmissionsAreUsed, WorkOK, SeasonUsedOnce
<1> QED
  BY <1>3, <1>4, <1>5, <1>6, <1>7, <1>8, <1>9 DEF Next, CancelNext

LEMMA StepKeepsInvariant == IInv /\ [Next]_vars => IInv'
<1> SUFFICES ASSUME IInv, [Next]_vars
             PROVE  IInv'
  OBVIOUS
<1>1. TypeOK'
  BY TypeStep DEF IInv
<1>2. AdmissionsAreUsed' /\ WorkOK' /\ SeasonUsedOnce'
  BY RedemptionKeeps, OthersKeep
<1> QED
  BY <1>1, <1>2 DEF IInv

LEMMA Invariance == Spec => []IInv
BY InitIsInvariant, StepKeepsInvariant, PTL DEF Spec

-----------------------------------------------------------------------------
(* The theorems *)

(* Balances and statuses stay what the models say they are: a flex balance  *)
(* is never negative, a season pass never has one and never runs out.       *)
THEOREM PassesTypeCorrect == Spec => []TypeOK
<1>1. IInv => TypeOK
  BY DEF IInv
<1> QED
  BY <1>1, Invariance, PTL

(* Nobody is admitted with a pass that was not used up for it, whatever      *)
(* cancellations overlap and wherever they die.                              *)
THEOREM NoFreeAdmission == Spec => []AdmissionsAreUsed
<1>1. IInv => AdmissionsAreUsed
  BY DEF IInv
<1> QED
  BY <1>1, Invariance, PTL

(* A season pass admits one person to an event, without recourse to the      *)
(* database constraint.                                                      *)
THEOREM OneSeasonAdmission == Spec => []SeasonOncePerEvent
<1>1. IInv => SeasonOncePerEvent
  BY DEF IInv, AdmissionsAreUsed, SeasonUsedOnce, SeasonOncePerEvent
<1> QED
  BY <1>1, Invariance, PTL

(* The price of a pass is returned only while nobody holds a ticket paid     *)
(* with it.                                                                  *)
THEOREM UsedPassesAreKept == Spec => NoRefundWhileAdmitting
<1>1. ASSUME IInv, Next, NEW p \in Pass, status'[p] = "refunded", status[p] # "refunded"
      PROVE  \A t \in live : t.pass # p
  <2>1. p \in Order /\ p \notin Redemption
    BY KindsDisjoint DEF Order
  <2>2. RefundSale(p)
    BY <1>1, <2>1 DEF IInv, TypeOK, Order, Next, CancelNext, Redeemable, FulfillHoldWithPass, RefundRedemption,
       RefundSale, RefundSaleUnheard, CancelLoad, CancelVoid, RestoreRead, RestoreLoad,
       RestoreDelete, RestoreSave, CancelClose, CancelDies
  <2> QED
    BY <1>1, <2>2 DEF RefundSale, Used, IInv, AdmissionsAreUsed
<1>2. IInv /\ [Next]_vars =>
        [\A p \in Pass : status'[p] = "refunded" /\ status[p] # "refunded"
                            => \A t \in live : t.pass # p]_vars
  BY <1>1
<1> QED
  BY <1>2, Invariance, PTL DEF Spec, NoRefundWhileAdmitting

-----------------------------------------------------------------------------
(* Credits, where nobody uses order_cancel *)

(* The rows of an order are of one pass, and of an order that exists. *)
RowsOfOnePass == /\ \A t \in redeemed : status[t.order] # "none"
                 /\ \A s, t \in redeemed : s.order = t.order => s.pass = t.pass

(* The credits a pass has, and those in use. *)
CreditsOf(p) == pass[p].credits + Cardinality(Used(p))

CreditsAddUp == \A p \in FlexPass : CreditsOf(p) = Credits

CreditInv == IInv /\ work = {} /\ RowsOfOnePass /\ CreditsAddUp

LEMMA MintedCount ==
  ASSUME NEW o \in Redemption, NEW p \in Pass, NEW e \in Event, NEW n \in 1 .. MaxQty
  PROVE  IsFiniteSet(Minted(o, p, e, n)) /\ Cardinality(Minted(o, p, e, n)) = n
<1> DEFINE M == Minted(o, p, e, n)
           f == [t \in M |-> t.number]
<1>1. IsFiniteSet(1 .. n) /\ Cardinality(1 .. n) = n
  BY FS_Interval, PassBounds
<1>2. f \in [M -> 1 .. n]
  BY DEF Minted
<1>3. ASSUME NEW s \in M, NEW t \in M, f[s] = f[t]
      PROVE  s = t
  BY <1>3 DEF Minted
<1>4. ASSUME NEW k \in 1 .. n
      PROVE  \E t \in M : f[t] = k
  <2>1. [order |-> o, pass |-> p, event |-> e, number |-> k] \in M
    BY DEF Minted
  <2> QED
    BY <2>1
<1> HIDE DEF M, f
<1>5. f \in Injection(M, 1 .. n) /\ f \in Surjection(M, 1 .. n)
  BY <1>2, <1>3, <1>4, Zenon DEF Injection, Surjection, IsInjective
<1>6. IsFiniteSet(M) /\ Cardinality(M) = Cardinality(1 .. n)
  BY <1>1, <1>5, FS_Injection
<1> QED
  BY <1>1, <1>6 DEF M

(* Rows that come or go count, if none of them was there before or is left. *)
LEMMA CountDisjoint ==
  ASSUME NEW S \in SUBSET Ticket, NEW T \in SUBSET Ticket, S \cap T = {}
  PROVE  /\ Cardinality(S \cup T) = Cardinality(S) + Cardinality(T)
         /\ Cardinality(S) \in Nat /\ Cardinality(T) \in Nat
<1>1. IsFiniteSet(S) /\ IsFiniteSet(T) /\ Cardinality(S) \in Nat /\ Cardinality(T) \in Nat
  BY TicketsCount
<1>2. Cardinality(S \cup T) = Cardinality(S) + Cardinality(T) - Cardinality(S \cap T)
  BY <1>1, FS_Union
<1>3. Cardinality(S \cap T) = 0
  BY FS_EmptySet
<1> QED
  BY <1>1, <1>2, <1>3

LEMMA CreditRedemption ==
  ASSUME TypeOK, RowsOfOnePass, NEW p \in Pass, NEW e \in Event, NEW n \in 1 .. MaxQty,
         FulfillHoldWithPass(p, e, n)
  PROVE  RowsOfOnePass' /\ \A q \in FlexPass : CreditsOf(q)' = CreditsOf(q)
<1>1. PICK o \in Redemption :
        /\ status[o] = "none"
        /\ status' = [status EXCEPT ![o] = "paid"]
        /\ redeemed' = redeemed \cup Minted(o, p, e, n)
  BY DEF Redeemable, FulfillHoldWithPass, Minted
<1> DEFINE M == Minted(o, p, e, n)
<1>2. /\ TypeOK /\ RowsOfOnePass
      /\ pass' = Burn(p, n) /\ WithinBudget(p, e, n)
  BY DEF Redeemable, FulfillHoldWithPass
<1>3. /\ M \subseteq Ticket /\ Cardinality(M) = n /\ n \in Nat
      /\ \A t \in M : t.order = o /\ t.pass = p
  BY MintedAreTickets, MintedCount, PassBounds DEF Minted
<1> HIDE DEF M
<1>4. \A t \in redeemed : t.order # o /\ t.order \in Order
  BY <1>1, <1>2 DEF RowsOfOnePass, TypeOK, Ticket, Order
<1>5. RowsOfOnePass'
  BY <1>1, <1>2, <1>3, <1>4 DEF RowsOfOnePass, TypeOK, Order, M
<1>6. ASSUME NEW q \in FlexPass
      PROVE  pass'[q].credits + Cardinality(Used(q)') = pass[q].credits + Cardinality(Used(q))
  <2>1. /\ Used(q) \subseteq Ticket /\ Used(q) \cap M = {} /\ q \in Pass
        /\ pass[q].credits \in Nat
    BY <1>2, <1>3, <1>4 DEF TypeOK, Used, PassRow, Pass
  <2>2. CASE q = p
    <3>1. Used(q)' = Used(q) \cup M
      BY <1>1, <1>3, <2>2 DEF Used, M
    <3>2. Cardinality(Used(q)') = Cardinality(Used(q)) + n /\ Cardinality(Used(q)) \in Nat
      BY <1>3, <2>1, <3>1, CountDisjoint
    <3>3. pass'[q].credits = pass[q].credits - n
      BY <1>2, <2>1, <2>2 DEF Burn, TypeOK
    <3> QED
      BY <1>3, <2>1, <3>2, <3>3
  <2>3. CASE q # p
    <3>1. Used(q)' = Used(q)
      BY <1>1, <1>3, <2>3 DEF Used, M
    <3>2. pass'[q] = pass[q]
      BY <1>2, <2>1, <2>3 DEF Burn, TypeOK
    <3> QED
      BY <2>1, <3>1, <3>2
  <2> QED
    BY <2>2, <2>3
<1> QED
  BY <1>5, <1>6 DEF CreditsOf

LEMMA CreditRefund ==
  ASSUME TypeOK, RowsOfOnePass, NEW o \in Redemption, RefundRedemption(o)
  PROVE  RowsOfOnePass' /\ \A q \in FlexPass : CreditsOf(q)' = CreditsOf(q)
<1> DEFINE R == RowsOf(o)
<1>1. TypeOK /\ RowsOfOnePass /\ redeemed' = redeemed \ R
  BY DEF RefundRedemption
<1>2. R \subseteq redeemed /\ R \subseteq Ticket
  BY <1>1 DEF RowsOf, TypeOK
<1>3. RowsOfOnePass'
  <2>1. \A q \in Order : status[q] # "none" => status'[q] # "none"
    BY <1>1 DEF RefundRedemption, TypeOK
  <2>2. \A t \in redeemed : t.order \in Order
    BY <1>1 DEF TypeOK, Ticket, Order
  <2> QED
    BY <1>1, <2>1, <2>2 DEF RowsOfOnePass
<1>4. ASSUME NEW q \in FlexPass
      PROVE  pass'[q].credits + Cardinality(Used(q)') = pass[q].credits + Cardinality(Used(q))
  <2>1. /\ Used(q) \subseteq Ticket /\ q \in Pass
        /\ pass[q].credits \in Nat
    BY <1>1 DEF TypeOK, Used, PassRow, Pass
  <2>2. Used(q)' = Used(q) \ R
    BY <1>1 DEF Used
  <2>3. CASE \E t \in R : t.pass = q
    <3>1. R \subseteq Used(q)
      BY <1>1, <2>3 DEF RowsOfOnePass, RowsOf, Used
    <3>2. Used(q) = Used(q)' \cup R /\ Used(q)' \cap R = {} /\ Used(q)' \subseteq Ticket
      BY <2>1, <2>2, <3>1
    <3>3. /\ Cardinality(Used(q)) = Cardinality(Used(q)') + Cardinality(R)
          /\ Cardinality(Used(q)') \in Nat /\ Cardinality(R) \in Nat
      BY <1>2, <3>2, CountDisjoint
    <3>4. pass'[q].credits = pass[q].credits + Cardinality(R)
      BY <2>1, <2>3 DEF RefundRedemption, Restored
    <3> QED
      BY <2>1, <3>3, <3>4
  <2>4. CASE ~\E t \in R : t.pass = q
    <3>1. Used(q)' = Used(q)
      BY <2>2, <2>4 DEF Used
    <3>2. pass'[q] = pass[q]
      BY <2>1, <2>4 DEF RefundRedemption
    <3> QED
      BY <2>1, <3>1, <3>2
  <2> QED
    BY <2>3, <2>4
<1> QED
  BY <1>3, <1>4 DEF CreditsOf

(* An order that exists goes on existing. *)
LEMMA OrdersStay ==
  ASSUME TypeOK, RowsOfOnePass, redeemed' \subseteq redeemed,
         \A q \in Order : status[q] # "none" => status'[q] # "none"
  PROVE  RowsOfOnePass'
<1>1. \A t \in redeemed : t.order \in Order
  BY DEF TypeOK, Ticket, Order
<1> QED
  BY <1>1 DEF RowsOfOnePass

LEMMA CreditSale ==
  ASSUME TypeOK, RowsOfOnePass, NEW p \in Pass, RefundSale(p) \/ RefundSaleUnheard(p)
  PROVE  RowsOfOnePass' /\ \A q \in FlexPass : CreditsOf(q)' = CreditsOf(q)
<1>1. work' = work /\ redeemed' = redeemed
  BY DEF RefundSale, RefundSaleUnheard
<1>2. \A q \in Order : status[q] # "none" => status'[q] # "none"
  BY DEF RefundSale, RefundSaleUnheard, TypeOK
<1>3. \A q \in Pass : pass'[q].credits = pass[q].credits
  BY DEF RefundSale, RefundSaleUnheard, TypeOK
<1> QED
  BY <1>1, <1>2, <1>3, OrdersStay DEF CreditsOf, Used, Pass

LEMMA CreditStep == Clerk = {} /\ CreditInv /\ [Next]_vars => CreditInv'
<1> SUFFICES ASSUME Clerk = {}, CreditInv, [Next]_vars
             PROVE  work' = {} /\ RowsOfOnePass' /\ CreditsAddUp'
  BY StepKeepsInvariant DEF CreditInv
<1>1. TypeOK /\ work = {} /\ RowsOfOnePass /\ CreditsAddUp
  BY DEF CreditInv, IInv
<1>2. ASSUME NEW p \in Pass, NEW e \in Event, NEW n \in 1 .. MaxQty, FulfillHoldWithPass(p, e, n)
      PROVE  work' = {} /\ RowsOfOnePass' /\ CreditsAddUp'
  BY <1>1, <1>2, CreditRedemption DEF FulfillHoldWithPass, CreditsAddUp
<1>3. ASSUME NEW o \in Redemption, RefundRedemption(o)
      PROVE  work' = {} /\ RowsOfOnePass' /\ CreditsAddUp'
  BY <1>1, <1>3, CreditRefund DEF RefundRedemption, CreditsAddUp
<1>4. ASSUME NEW p \in Pass, RefundSale(p) \/ RefundSaleUnheard(p)
      PROVE  work' = {} /\ RowsOfOnePass' /\ CreditsAddUp'
  BY <1>1, <1>4, CreditSale DEF RefundSale, RefundSaleUnheard, CreditsAddUp
<1>5. CASE UNCHANGED vars
  BY <1>1, <1>5 DEF vars, RowsOfOnePass, CreditsAddUp, CreditsOf, Used
<1>6. ~CancelNext
  BY <1>1, Zenon DEF CancelNext
<1> QED
  BY <1>2, <1>3, <1>4, <1>5, <1>6 DEF Next

(* Redemptions and refunds by themselves conserve the credits of a pass: it   *)
(* takes an order_cancel to make one up.                                      *)
THEOREM CreditsConserved == Clerk = {} => (Spec => []NoFreeCredits)
<1> SUFFICES ASSUME Clerk = {}
             PROVE  Spec => []NoFreeCredits
  OBVIOUS
<1>1. Init => CreditInv
  <2> SUFFICES ASSUME Init
               PROVE  work = {} /\ RowsOfOnePass /\ CreditsAddUp
    BY InitIsInvariant DEF CreditInv
  <2>1. work = {} /\ RowsOfOnePass /\ \A p \in FlexPass : Used(p) = {} /\ pass[p].credits = Credits
    BY DEF Init, RowsOfOnePass, Used, Pass
  <2> QED
    BY <2>1, FS_EmptySet, PassBounds DEF CreditsAddUp, CreditsOf
<1>2. CreditInv /\ [Next]_vars => CreditInv'
  BY CreditStep
<1>3. CreditInv => NoFreeCredits
  BY PassBounds DEF CreditInv, CreditsAddUp, CreditsOf, NoFreeCredits
<1> QED
  BY <1>1, <1>2, <1>3, PTL DEF Spec

-----------------------------------------------------------------------------
(* Credits, with order_cancel requests under way *)

(* A clerk has one request at a time, and the redemption rows a request has  *)
(* read are of one pass.                                                     *)
Requests == /\ IsFiniteSet(work)
            /\ \A v, w \in work : v.clerk = w.clerk => v = w
            /\ \A w \in work : \A s, t \in w.rows : s.pass = t.pass

CancelInv == IInv /\ RowsOfOnePass /\ Requests

(* A request goes on to its next statement, or is done. *)
LEMMA RequestGoesOn ==
  ASSUME TypeOK, Requests, NEW w \in work, NEW step, NEW rows, NEW row, Goes(w, step, rows, row),
         \A s, t \in rows : s.pass = t.pass, step # w.step
  PROVE  Requests' /\ w \notin work'
<1> DEFINE x == [clerk |-> w.clerk, order |-> w.order, step |-> step, rows |-> rows, row |-> row]
<1>1. work' = (work \ {w}) \cup {x}
  BY DEF Goes
<1>2. x.clerk = w.clerk /\ x.rows = rows /\ x # w
  OBVIOUS
<1> HIDE DEF x
<1>3. IsFiniteSet(work')
  BY <1>1, FS_AddElement, FS_RemoveElement DEF Requests
<1> QED
  BY <1>1, <1>2, <1>3 DEF Requests

LEMMA RequestEnds ==
  ASSUME Requests, NEW w \in work, work' = work \ {w}
  PROVE  Requests'
<1>1. IsFiniteSet(work')
  BY FS_RemoveElement DEF Requests
<1> QED
  BY <1>1 DEF Requests

LEMMA InitRequests == Init => CancelInv
BY InitIsInvariant, FS_EmptySet DEF Init, CancelInv, RowsOfOnePass, Requests

LEMMA RequestsStep == CancelInv /\ [Next]_vars => CancelInv'
<1> SUFFICES ASSUME CancelInv, [Next]_vars
             PROVE  RowsOfOnePass' /\ Requests'
  BY StepKeepsInvariant DEF CancelInv
<1>1. TypeOK /\ RowsOfOnePass /\ Requests /\ \A w \in work : w.order \in Order
  BY DEF CancelInv, IInv, TypeOK, Work
<1>2. ASSUME NEW p \in Pass, NEW e \in Event, NEW n \in 1 .. MaxQty, FulfillHoldWithPass(p, e, n)
      PROVE  RowsOfOnePass' /\ Requests'
  BY <1>1, <1>2, CreditRedemption DEF FulfillHoldWithPass, Requests
<1>3. ASSUME NEW o \in Redemption, RefundRedemption(o)
      PROVE  RowsOfOnePass' /\ Requests'
  BY <1>1, <1>3, CreditRefund DEF RefundRedemption, Requests
<1>4. ASSUME NEW p \in Pass, RefundSale(p) \/ RefundSaleUnheard(p)
      PROVE  RowsOfOnePass' /\ Requests'
  BY <1>1, <1>4, CreditSale DEF RefundSale, RefundSaleUnheard, Requests
<1>5. ASSUME NEW k \in Clerk, NEW o \in Order, CancelLoad(k, o)
      PROVE  RowsOfOnePass' /\ Requests'
  <2> DEFINE x == [clerk |-> k, order |-> o, step |-> "void", rows |-> {}, row |-> NoRow]
  <2>1. work' = work \cup {x} /\ \A w \in work : w.clerk # k
    BY <1>5 DEF CancelLoad
  <2>2. x.clerk = k /\ x.rows = {}
    OBVIOUS
  <2> HIDE DEF x
  <2>3. Requests'
    BY <1>1, <2>1, <2>2, FS_AddElement DEF Requests
  <2> QED
    BY <1>1, <1>5, <2>3 DEF CancelLoad, RowsOfOnePass
<1>6. ASSUME NEW w \in work, CancelVoid(w)
      PROVE  RowsOfOnePass' /\ Requests'
  BY <1>1, <1>6, RequestGoesOn DEF CancelVoid, RowsOfOnePass
<1>7. ASSUME NEW w \in work, RestoreRead(w)
      PROVE  RowsOfOnePass' /\ Requests'
  <2>1. \A s, t \in RowsOf(w.order) : s.pass = t.pass
    BY <1>1 DEF RowsOf, RowsOfOnePass
  <2> DEFINE step == IF RowsOf(w.order) = {} THEN "close" ELSE "load"
  <2>2. Goes(w, step, RowsOf(w.order), NoRow) /\ step # w.step
    BY <1>7 DEF RestoreRead
  <2> HIDE DEF step
  <2> QED
    BY <1>1, <1>7, <2>1, <2>2, RequestGoesOn DEF RestoreRead, RowsOfOnePass
<1>8. ASSUME NEW w \in work, RestoreLoad(w)
      PROVE  RowsOfOnePass' /\ Requests'
  BY <1>1, <1>8, RequestGoesOn DEF RestoreLoad, RowsOfOnePass, Requests
<1>9. ASSUME NEW w \in work, RestoreDelete(w)
      PROVE  RowsOfOnePass' /\ Requests'
  <2>1. Requests'
    BY <1>1, <1>9, RequestGoesOn DEF RestoreDelete, Requests
  <2> QED
    BY <1>1, <1>9, <2>1, OrdersStay DEF RestoreDelete
<1>10. ASSUME NEW w \in work, RestoreSave(w)
       PROVE  RowsOfOnePass' /\ Requests'
  BY <1>1, <1>10, RequestGoesOn DEF RestoreSave, RowsOfOnePass
<1>11. ASSUME NEW w \in work, CancelClose(w) \/ CancelDies(w)
       PROVE  RowsOfOnePass' /\ Requests'
  <2>1. \A q \in Order : status[q] # "none" => status'[q] # "none"
    BY <1>1, <1>11 DEF CancelClose, CancelDies, TypeOK
  <2>2. redeemed' = redeemed /\ work' = work \ {w}
    BY <1>11 DEF CancelClose, CancelDies
  <2> QED
    BY <1>1, <2>1, <2>2, OrdersStay, RequestEnds
<1>12. CASE UNCHANGED vars
  BY <1>1, <1>12 DEF vars, RowsOfOnePass, Requests
<1> QED
  BY <1>2, <1>3, <1>4, <1>5, <1>6, <1>7, <1>8, <1>9, <1>10, <1>11, <1>12 DEF Next, CancelNext

LEMMA RequestsInvariance == Spec => []CancelInv
BY InitRequests, RequestsStep, PTL DEF Spec

-----------------------------------------------------------------------------
(* A refunded pass that works again *)

(* What the steps that do not revive a pass by an old read obey. *)
OldReadsOnly ==
    \A p \in Pass :
         pass[p].status = "refunded" /\ pass'[p].status # "refunded" =>
            \E w \in work \ work' : w.step = "save" /\ w.row.status = "exhausted"
                                   /\ \E t \in w.rows : t.pass = p

LEMMA RevivalStep == CancelInv /\ [Next]_vars => [OldReadsOnly]_vars
<1> SUFFICES ASSUME CancelInv, Next, NEW p \in Pass,
                    pass[p].status = "refunded", pass'[p].status # "refunded"
             PROVE  \E w \in work \ work' : w.step = "save" /\ w.row.status = "exhausted"
                                            /\ \E t \in w.rows : t.pass = p
  BY DEF OldReadsOnly
<1>1. TypeOK /\ Requests
  BY DEF CancelInv, IInv
<1>2. ASSUME NEW q \in Pass, NEW e \in Event, NEW n \in 1 .. MaxQty, FulfillHoldWithPass(q, e, n)
      PROVE  FALSE
  BY <1>1, <1>2 DEF FulfillHoldWithPass, Redeemable, Burn, TypeOK
<1>3. ASSUME NEW o \in Redemption, RefundRedemption(o)
      PROVE  FALSE
  BY <1>1, <1>3 DEF RefundRedemption, Restored
<1>4. ASSUME NEW q \in Pass, RefundSale(q) \/ RefundSaleUnheard(q)
      PROVE  FALSE
  BY <1>1, <1>4 DEF RefundSale, RefundSaleUnheard, TypeOK
<1>5. PICK w \in work : RestoreSave(w)
  BY <1>2, <1>3, <1>4 DEF Next, CancelNext, CancelLoad, CancelVoid, RestoreRead, RestoreLoad,
     RestoreDelete, CancelClose, CancelDies
<1>6. w.step = "save" /\ w.row.status = "exhausted" /\ \E t \in w.rows : t.pass = p
  BY <1>5 DEF RestoreSave, Restored
<1>7. w \notin work'
  BY <1>1, <1>5, RequestGoesOn DEF RestoreSave
<1> QED
  BY <1>6, <1>7

(* A pass whose price was returned is usable again in one way only: a        *)
(* cancellation saves the status it had read before the refund               *)
(* (restore_redemptions_for_order, statement by statement).                  *)
THEOREM RefundedUntilOldRead == Spec => RevivedByOldReads
<1>1. Spec => [][OldReadsOnly]_vars
  BY RequestsInvariance, RevivalStep, PTL DEF Spec
<1> QED
  BY <1>1 DEF RevivedByOldReads, OldReadsOnly

-----------------------------------------------------------------------------
(* The balance of a pass: what it has, what is in use, and what requests    *)
(* have deleted and not saved yet.                                           *)

LEMMA OwedFinite ==
  ASSUME TypeOK, Requests, NEW p
  PROVE  IsFiniteSet(Owed(p)) /\ Cardinality(Owed(p)) \in Nat
<1> DEFINE C == {w.clerk : w \in work}
           f == [w \in work |-> w.clerk]
<1>1. f \in Surjection(work, C)
  BY DEF Surjection
<1>2. IsFiniteSet(C)
  BY <1>1, FS_Surjection DEF Requests
<1>3. IsFiniteSet(C \X Ticket)
  BY <1>2, TicketFinite, FS_Product
<1>4. \A w \in work : w.rows \subseteq Ticket
  BY DEF TypeOK, Work
<1>5. Owed(p) \in SUBSET (C \X Ticket)
  BY <1>4 DEF Owed
<1> QED
  BY <1>3, <1>5, FS_Subset, FS_CardinalityType

LEMMA BalanceTypes ==
  ASSUME TypeOK, NEW p \in FlexPass
  PROVE  /\ p \in Pass /\ pass[p].credits \in Nat
         /\ Used(p) \subseteq Ticket /\ IsFiniteSet(Used(p)) /\ Cardinality(Used(p)) \in Nat
<1>1. p \in Pass /\ pass[p].credits \in Nat
  BY DEF TypeOK, Pass, PassRow
<1>2. Used(p) \in SUBSET Ticket
  BY DEF Used, TypeOK
<1> QED
  BY <1>1, <1>2, TicketsCount

(* What a request that is about to save has deleted, of pass p. *)
Mine(w, p) == {w.clerk} \X {t \in w.rows : t.pass = p}

LEMMA MineCount ==
  ASSUME TypeOK, NEW w \in work, NEW p
  PROVE  /\ IsFiniteSet(Mine(w, p)) /\ Cardinality(Mine(w, p)) \in Nat
         /\ Cardinality(Mine(w, p)) = Cardinality({t \in w.rows : t.pass = p})
<1> DEFINE R == {t \in w.rows : t.pass = p}
<1>1. w.rows \subseteq Ticket
  BY DEF TypeOK, Work
<1>2. R \in SUBSET Ticket
  BY <1>1
<1> HIDE DEF R
<1>3. IsFiniteSet(R) /\ Cardinality(R) \in Nat
  BY <1>2, TicketsCount
<1>4. IsFiniteSet({w.clerk}) /\ Cardinality({w.clerk}) = 1
  BY FS_Singleton
<1>5. IsFiniteSet({w.clerk} \X R) /\ Cardinality({w.clerk} \X R) = 1 * Cardinality(R)
  BY <1>3, <1>4, FS_Product
<1> QED
  BY <1>3, <1>5 DEF Mine, R

(* Steps of requests that neither come to save nor have saved. *)
LEMMA SameBalance ==
  ASSUME {w \in work' : w.step = "save"} = {w \in work : w.step = "save"}, NEW p,
         CreditsOf(p)' = CreditsOf(p)
  PROVE  Balance(p)' = Balance(p)
<1>1. Owed(p)' = Owed(p)
  BY DEF Owed
<1> QED
  BY <1>1 DEF Balance, CreditsOf

(* A delete that finds the rows it has read moves them from use to owed. *)
LEMMA DeleteBalance ==
  ASSUME CancelInv, NEW w \in work, RestoreDelete(w), w.rows = RowsOf(w.order), NEW p \in FlexPass
  PROVE  Balance(p)' = Balance(p)
<1> DEFINE R == {t \in w.rows : t.pass = p}
           M == Mine(w, p)
           U == Used(p)
           O == Owed(p)
           x == [clerk |-> w.clerk, order |-> w.order, step |-> "save", rows |-> w.rows, row |-> w.row]
<1>1. TypeOK /\ Requests
  BY DEF CancelInv, IInv
<1>2. w.step = "delete" /\ redeemed' = redeemed \ w.rows /\ work' = (work \ {w}) \cup {x} /\ pass' = pass
  BY DEF RestoreDelete, Goes
<1>3. U' = U \ R /\ U \cap R = R
  BY <1>2 DEF Used, RowsOf
<1>4. O' = O \cup M
  <2>1. {v \in work' : v.step = "save"} = {v \in work : v.step = "save"} \cup {x}
    BY <1>2
  <2>2. x.clerk = w.clerk /\ x.rows = w.rows
    OBVIOUS
  <2> HIDE DEF x
  <2> QED
    BY <2>1, <2>2 DEF Owed, Mine
<1>5. O \cap M = {}
  BY <1>1, <1>2 DEF Owed, Mine, Requests
<1>6. IsFiniteSet(U) /\ Cardinality(U) \in Nat /\ pass[p].credits \in Nat
  BY <1>1, BalanceTypes
<1>7. IsFiniteSet(O) /\ Cardinality(O) \in Nat
  BY <1>1, OwedFinite
<1>8. IsFiniteSet(M) /\ Cardinality(M) \in Nat /\ Cardinality(M) = Cardinality(R)
  BY <1>1, MineCount
<1>9. Balance(p) = pass[p].credits + Cardinality(U) + Cardinality(O)
      /\ Balance(p)' = pass[p].credits + Cardinality(U \ R) + Cardinality(O \cup M)
  BY <1>2, <1>3, <1>4 DEF Balance
<1> HIDE DEF R, M, U, O
<1>10. Cardinality(U \ R) = Cardinality(U) - Cardinality(R)
  BY <1>3, <1>6, FS_Difference
<1>11. Cardinality(O \cup M) = Cardinality(O) + Cardinality(M)
  BY <1>5, <1>7, <1>8, FS_Union, FS_EmptySet
<1> QED
  BY <1>6, <1>7, <1>8, <1>9, <1>10, <1>11

(* A save on top of the row it has read moves them from owed to the pass. *)
LEMMA SaveBalance ==
  ASSUME CancelInv, NEW w \in work, RestoreSave(w), \A t \in w.rows : w.row = pass[t.pass],
         NEW p \in FlexPass
  PROVE  Balance(p)' = Balance(p)
<1> DEFINE R == {t \in w.rows : t.pass = p}
           M == Mine(w, p)
           O == Owed(p)
           x == [clerk |-> w.clerk, order |-> w.order, step |-> "close", rows |-> {}, row |-> NoRow]
<1>1. TypeOK /\ Requests
  BY DEF CancelInv, IInv
<1>2. w.step = "save" /\ redeemed' = redeemed /\ work' = (work \ {w}) \cup {x}
  BY DEF RestoreSave, Goes
<1>3. Used(p)' = Used(p)
  BY <1>2 DEF Used
<1>4. O' = O \ M
  BY <1>1, <1>2 DEF Owed, Mine, Requests
<1>5. O \cap M = M
  BY <1>2 DEF Owed, Mine
<1>6. Cardinality(Used(p)) \in Nat /\ pass[p].credits \in Nat /\ p \in Pass
  BY <1>1, BalanceTypes
<1>7. IsFiniteSet(O) /\ Cardinality(O) \in Nat
  BY <1>1, OwedFinite
<1>8. IsFiniteSet(M) /\ Cardinality(M) \in Nat /\ Cardinality(M) = Cardinality(R)
  BY <1>1, MineCount
<1>9. pass'[p].credits = pass[p].credits + Cardinality(R)
  <2>1. CASE \E t \in w.rows : t.pass = p
    <3>1. R = w.rows
      BY <1>1, <2>1 DEF Requests
    <3>2. w.row = pass[p]
      BY <2>1
    <3> HIDE DEF R
    <3> QED
      BY <1>6, <2>1, <3>1, <3>2 DEF RestoreSave, Restored
  <2>2. CASE ~\E t \in w.rows : t.pass = p
    <3>1. R = {} /\ pass'[p] = pass[p]
      BY <1>6, <2>2 DEF RestoreSave
    <3> QED
      BY <1>6, <3>1, FS_EmptySet
  <2> QED
    BY <2>1, <2>2
<1>10. Balance(p) = pass[p].credits + Cardinality(Used(p)) + Cardinality(O)
       /\ Balance(p)' = pass'[p].credits + Cardinality(Used(p)) + Cardinality(O \ M)
  BY <1>3, <1>4 DEF Balance
<1> HIDE DEF R, M, O
<1>11. Cardinality(O \ M) = Cardinality(O) - Cardinality(M)
  BY <1>5, <1>7, FS_Difference
<1> QED
  BY <1>6, <1>7, <1>8, <1>9, <1>10, <1>11

(* What a step may do to the balances. *)
BalanceKept ==
    \A p \in FlexPass :
         Balance(p)' # Balance(p) =>
            \E w \in work : /\ w \notin work'
                            /\ \/ Overlapped(w)
                               \/ w.step = "save" /\ \A v \in work' : v.clerk # w.clerk

LEMMA BalanceStep == CancelInv /\ [Next]_vars => [BalanceKept]_vars
<1> SUFFICES ASSUME CancelInv, Next
             PROVE  BalanceKept
  OBVIOUS
<1>1. TypeOK /\ RowsOfOnePass /\ Requests
  BY DEF CancelInv, IInv
<1>2. ASSUME NEW p \in Pass, NEW e \in Event, NEW n \in 1 .. MaxQty, FulfillHoldWithPass(p, e, n)
      PROVE  BalanceKept
  BY <1>1, <1>2, CreditRedemption, SameBalance DEF FulfillHoldWithPass, BalanceKept
<1>3. ASSUME NEW o \in Redemption, RefundRedemption(o)
      PROVE  BalanceKept
  BY <1>1, <1>3, CreditRefund, SameBalance DEF RefundRedemption, BalanceKept
<1>4. ASSUME NEW p \in Pass, RefundSale(p) \/ RefundSaleUnheard(p)
      PROVE  BalanceKept
  BY <1>1, <1>4, CreditSale, SameBalance DEF RefundSale, RefundSaleUnheard, BalanceKept
<1>5. ASSUME {w \in work' : w.step = "save"} = {w \in work : w.step = "save"},
             pass' = pass, redeemed' = redeemed
      PROVE  BalanceKept
  BY <1>5, SameBalance DEF BalanceKept, CreditsOf, Used
<1>6. ASSUME NEW k \in Clerk, NEW o \in Order, CancelLoad(k, o)
      PROVE  BalanceKept
  BY <1>5, <1>6 DEF CancelLoad
<1>7. ASSUME NEW w \in work, CancelVoid(w) \/ RestoreRead(w) \/ RestoreLoad(w)
      PROVE  BalanceKept
  <2>1. PICK step, rows, row : Goes(w, step, rows, row) /\ step # "save" /\ w.step # "save"
    <3>1. CASE CancelVoid(w)
      BY <3>1 DEF CancelVoid
    <3>2. CASE RestoreRead(w)
      BY <3>2 DEF RestoreRead
    <3>3. CASE RestoreLoad(w)
      BY <3>3 DEF RestoreLoad
    <3> QED
      BY <1>7, <3>1, <3>2, <3>3
  <2>2. {v \in work' : v.step = "save"} = {v \in work : v.step = "save"}
    BY <2>1 DEF Goes
  <2> QED
    BY <1>5, <1>7, <2>2 DEF CancelVoid, RestoreRead, RestoreLoad
<1>8. ASSUME NEW w \in work, RestoreDelete(w)
      PROVE  BalanceKept
  <2>1. w \notin work' /\ w.step = "delete"
    BY <1>1, <1>8, RequestGoesOn DEF RestoreDelete, Requests
  <2>2. CASE w.rows = RowsOf(w.order)
    BY <1>8, <2>2, DeleteBalance DEF BalanceKept
  <2>3. CASE w.rows # RowsOf(w.order)
    BY <2>1, <2>3 DEF BalanceKept, Overlapped
  <2> QED
    BY <2>2, <2>3
<1>9. ASSUME NEW w \in work, RestoreSave(w)
      PROVE  BalanceKept
  <2>1. w \notin work' /\ w.step = "save"
    BY <1>1, <1>9, RequestGoesOn DEF RestoreSave
  <2>2. CASE \A t \in w.rows : w.row = pass[t.pass]
    BY <1>9, <2>2, SaveBalance DEF BalanceKept
  <2>3. CASE \E t \in w.rows : w.row # pass[t.pass]
    BY <2>1, <2>3 DEF BalanceKept, Overlapped
  <2> QED
    BY <2>2, <2>3
<1>10. ASSUME NEW w \in work, CancelClose(w)
       PROVE  BalanceKept
  BY <1>5, <1>10 DEF CancelClose
<1>11. ASSUME NEW w \in work, CancelDies(w)
       PROVE  BalanceKept
  <2>1. CASE w.step = "save"
    BY <1>1, <1>11, <2>1 DEF CancelDies, BalanceKept, Requests
  <2>2. CASE w.step # "save"
    BY <1>5, <1>11, <2>2 DEF CancelDies
  <2> QED
    BY <2>1, <2>2
<1> QED
  BY <1>2, <1>3, <1>4, <1>6, <1>7, <1>8, <1>9, <1>10, <1>11 DEF Next, CancelNext

(* Credits come from nowhere or are lost in two ways only: a cancellation    *)
(* writes what another request made old, and one dies between its delete and *)
(* its save (restore_redemptions_for_order, which order_cancel calls outside *)
(* of any transaction).                                                      *)
THEOREM CreditsLostByOverlapOnly == Spec => OnlyOverlapsLoseCredits
<1>1. Spec => [][BalanceKept]_vars
  BY RequestsInvariance, BalanceStep, PTL DEF Spec
<1> QED
  BY <1>1 DEF OnlyOverlapsLoseCredits, BalanceKept
=============================================================================
