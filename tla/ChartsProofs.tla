---------------------------- MODULE ChartsProofs ----------------------------
(***************************************************************************)
(* Proofs about Charts, for any chart, zones, buyers and requests, and     *)
(* then about ChartEditor, for any sections, looks and requests in flight. *)
(***************************************************************************)
EXTENDS Charts, ChartEditor, FiniteSetTheorems, SequenceTheorems, TLAPS

-----------------------------------------------------------------------------
(* The names of seats *)

Name == (Nat \X Nat) \X Nat

LEMMA RowLabelType ==
  ASSUME NEW skip \in BOOLEAN, NEW i \in Nat
  PROVE  RowLabel(skip, i) \in Nat \X Nat
<1>1. CASE skip
  <2>1. i % 24 \in Nat /\ i \div 24 \in Nat
    OBVIOUS
  <2> QED
    BY <1>1, <2>1 DEF RowLabel, Letters, LetterAt
<1>2. CASE ~skip
  <2>1. i % 26 \in Nat /\ i \div 26 \in Nat
    OBVIOUS
  <2> QED
    BY <1>2, <2>1 DEF RowLabel, Letters, LetterAt
<1> QED
  BY <1>1, <1>2

(* Every row has a seat, and at most one more than the section is wide. *)
LEMMA RowCountType ==
  ASSUME NEW prm \in Params, NEW r \in Nat
  PROVE  RowCount(prm, r) \in 1 .. prm.seats_per_row + 1
<1> DEFINE odd == prm.alternating /\ r % 2 = 1
<1>1. prm.seats_per_row \in Nat \ {0} /\ prm.alt_row_seat_delta \in {-1, 0, 1}
  BY DEF Params
<1> QED
  BY <1>1 DEF RowCount

LEMMA SeatNumberType ==
  ASSUME NEW scheme, NEW n \in Nat, NEW r \in Nat, NEW i \in Nat, i < n
  PROVE  SeatNumber(scheme, n, r, i) \in Nat
BY DEF SeatNumber

(* What a section's parameters draw is a set of seat names. *)
LEMMA RosterType ==
  ASSUME NEW prm \in Params
  PROVE  Roster(prm) \subseteq Name
<1> SUFFICES ASSUME NEW pos \in Position(prm)
             PROVE  Identity(prm, pos) \in Name
  BY DEF Roster
<1>1. PICK r \in 0 .. prm.rows - 1, i \in 0 .. prm.seats_per_row : pos = <<r, i>> /\ i < RowCount(prm, r)
  BY DEF Position
<1>2. /\ prm.rows \in Nat \ {0} /\ prm.seats_per_row \in Nat /\ prm.skip_io \in BOOLEAN
      /\ prm.row_label_start \in Nat
  BY DEF Params
<1>3. r \in Nat /\ i \in Nat /\ pos[1] = r /\ pos[2] = i
  BY <1>1, <1>2
<1>4. RowCount(prm, r) \in Nat
  BY <1>2, <1>3, RowCountType
<1>5. SeatNumber(prm.numbering_scheme, RowCount(prm, r), r, i) \in Nat
  BY <1>1, <1>3, <1>4, SeatNumberType
<1>6. RowLabel(prm.skip_io, prm.row_label_start + r) \in Nat \X Nat
  BY <1>2, <1>3, RowLabelType
<1> QED
  BY <1>3, <1>5, <1>6 DEF Identity, Name

(* Rows are labelled apart, whatever letters are skipped. *)
LEMMA RowLabelsDiffer ==
  ASSUME NEW skip \in BOOLEAN, NEW i \in Nat, NEW j \in Nat, RowLabel(skip, i) = RowLabel(skip, j)
  PROVE  i = j
<1>1. CASE skip
  <2>1. /\ LetterAt(skip, i % 24) = LetterAt(skip, j % 24)
        /\ i \div 24 = j \div 24
    <3>1. Letters(skip) = 24
      BY <1>1 DEF Letters
    <3>2. <<LetterAt(skip, i % 24), i \div 24 + 1>> = <<LetterAt(skip, j % 24), j \div 24 + 1>>
      BY <3>1 DEF RowLabel
    <3>3. i \div 24 + 1 = j \div 24 + 1 /\ i \div 24 \in Int /\ j \div 24 \in Int
      BY <3>2
    <3> QED
      BY <3>2, <3>3
  <2>2. i % 24 \in 0 .. 23 /\ j % 24 \in 0 .. 23
    OBVIOUS
  <2>3. i % 24 = j % 24
    BY <1>1, <2>1, <2>2 DEF LetterAt
  <2> QED
    BY <2>1, <2>3
<1>2. CASE ~skip
  <2>1. /\ LetterAt(skip, i % 26) = LetterAt(skip, j % 26)
        /\ i \div 26 = j \div 26
    <3>1. Letters(skip) = 26
      BY <1>2 DEF Letters
    <3>2. <<LetterAt(skip, i % 26), i \div 26 + 1>> = <<LetterAt(skip, j % 26), j \div 26 + 1>>
      BY <3>1 DEF RowLabel
    <3>3. i \div 26 + 1 = j \div 26 + 1 /\ i \div 26 \in Int /\ j \div 26 \in Int
      BY <3>2
    <3> QED
      BY <3>2, <3>3
  <2>2. i % 26 = j % 26
    BY <1>2, <2>1 DEF LetterAt
  <2> QED
    BY <2>1, <2>2
<1> QED
  BY <1>1, <1>2

LEMMA SeatNumbersDiffer ==
  ASSUME NEW scheme, NEW n \in Nat, NEW r \in Nat, NEW i \in Nat, NEW j \in Nat,
         SeatNumber(scheme, n, r, i) = SeatNumber(scheme, n, r, j)
  PROVE  i = j
BY DEF SeatNumber

(* No two seats of a section are printed alike, for any parameters and       *)
(* numbering scheme, which the unique constraint of the Seat table needs     *)
(* when generate_seats creates them in bulk.                                 *)
THEOREM SeatNamesDiffer ==
  ASSUME NEW prm \in Params, NEW p \in Position(prm), NEW q \in Position(prm),
         Identity(prm, p) = Identity(prm, q)
  PROVE  p = q
<1>1. /\ prm.rows \in Nat \ {0} /\ prm.seats_per_row \in Nat /\ prm.skip_io \in BOOLEAN
      /\ prm.row_label_start \in Nat
  BY DEF Params
<1>2. PICK r \in 0 .. prm.rows - 1, i \in 0 .. prm.seats_per_row : p = <<r, i>>
  BY DEF Position
<1>3. PICK x \in 0 .. prm.rows - 1, j \in 0 .. prm.seats_per_row : q = <<x, j>>
  BY DEF Position
<1>4. /\ r \in Nat /\ i \in Nat /\ p[1] = r /\ p[2] = i
      /\ x \in Nat /\ j \in Nat /\ q[1] = x /\ q[2] = j
  BY <1>1, <1>2, <1>3
<1>5. /\ RowLabel(prm.skip_io, prm.row_label_start + r) = RowLabel(prm.skip_io, prm.row_label_start + x)
      /\ SeatNumber(prm.numbering_scheme, RowCount(prm, r), r, i)
           = SeatNumber(prm.numbering_scheme, RowCount(prm, x), x, j)
  BY <1>4 DEF Identity
<1>6. r = x
  BY <1>1, <1>4, <1>5, RowLabelsDiffer
<1>7. RowCount(prm, r) \in Nat
  BY <1>1, <1>4, RowCountType
<1>8. i = j
  BY <1>4, <1>5, <1>6, <1>7, SeatNumbersDiffer
<1> QED
  BY <1>2, <1>3, <1>6, <1>8

(* A form names the seats of a section by another scheme. *)
LEMMA RenamedParams ==
  ASSUME NEW prm \in Params, NEW scheme \in Scheme
  PROVE  [prm EXCEPT !.numbering_scheme = scheme] \in Params
BY ChartShapes DEF Params

-----------------------------------------------------------------------------
(* The rows of the seat table *)

LEMMA SeatIs ==
  ASSUME NEW s \in Section, NEW seat \in SeatRows(s)
  PROVE  seat.sec = s /\ seat.gen = gen[s] /\ seat.name \in roster[s]
BY DEF SeatRows

LEMMA SeatsAreTyped ==
  ASSUME TypeOK
  PROVE  Seats \subseteq Seat
<1> SUFFICES ASSUME NEW s \in Section, NEW seat \in SeatRows(s)
             PROVE  seat \in Seat
  BY DEF Seats
<1>1. gen[s] \in Nat /\ roster[s] \subseteq Name
  BY DEF TypeOK, Name
<1> QED
  BY <1>1 DEF SeatRows, Seat, Name

(* A seat row belongs to one section. *)
LEMMA SeatOf ==
  ASSUME NEW seat \in Seats
  PROVE  seat.sec \in Section /\ seat \in SeatRows(seat.sec)
BY SeatIs DEF Seats

(* Regenerating a section takes its rows and adds others. *)
LEMMA SeatsAfter ==
  ASSUME TypeOK, NEW s \in Section, NEW prm \in Params, NewSeats(s, prm)
  PROVE  /\ Seats \ SeatRows(s) \subseteq Seats'
         /\ \A x \in Section \ {s} : SeatRows(x)' = SeatRows(x)
<1>1. \A x \in Section \ {s} : gen'[x] = gen[x] /\ roster'[x] = roster[x]
  BY DEF NewSeats, TypeOK
<1>2. \A x \in Section \ {s} : SeatRows(x)' = SeatRows(x)
  BY <1>1 DEF SeatRows
<1> QED
  BY <1>2 DEF Seats

LEMMA ZonesAre ==
  ASSUME TypeOK, NEW z \in zones
  PROVE  /\ z = [id |-> z.id, perf |-> z.perf, template |-> z.template, amount |-> z.amount, seats |-> z.seats]
         /\ z.id \in ZoneId /\ z.perf \in Perf /\ z.template \in Template /\ z.amount \in Nat
         /\ z.seats \subseteq Seats
BY DEF TypeOK, Zone

LEMMA CartIs ==
  ASSUME RowsOK, NEW b \in Buyer
  PROVE  /\ cart[b] = [step |-> cart[b].step, perf |-> cart[b].perf, rows |-> cart[b].rows, bill |-> cart[b].bill]
         /\ cart[b].step \in {"none", "held", "paying"} /\ cart[b].perf \in Perf \cup {0}
         /\ cart[b].rows \subseteq HoldRow /\ cart[b].bill \subseteq HoldRow
BY DEF RowsOK, Cart

-----------------------------------------------------------------------------
(* The start *)

LEMMA InitInv == Init => ChartInv
<1> SUFFICES ASSUME Init PROVE ChartInv
  OBVIOUS
<1>1. shape \in [Section -> Params]
  BY ChartShapes DEF Init
<1>2. PICK parsed \in SUBSET Section :
        /\ roster = [s \in Section |-> IF s \in parsed THEN Roster(shape[s]) ELSE {}]
        /\ synced = parsed
  BY DEF Init
<1>3. roster \in [Section -> SUBSET Name]
  BY <1>1, <1>2, RosterType
<1>4. \A b \in Buyer : cart[b] = [step |-> "none", perf |-> 0, rows |-> {}, bill |-> {}]
  BY DEF Init, NoCart
<1>5. TypeOK
  BY <1>1, <1>2, <1>3, <1>4 DEF Init, TypeOK, Name
<1>6. RowsOK
  BY <1>4 DEF Init, RowsOK, NoCart, Cart
<1>7. SavedSectionsMatch
  BY <1>2 DEF SavedSectionsMatch
<1>8. IdsApart /\ ZonesDisjoint /\ LiveSeatsStay /\ PayersHoldTheirBill
  BY <1>4 DEF Init, IdsApart, ZonesDisjoint, LiveSeatsStay, PayersHoldTheirBill
<1> QED
  BY <1>5, <1>6, <1>7, <1>8 DEF ChartInv

-----------------------------------------------------------------------------
(* Save Layout *)

LEMMA RepositionInv ==
  ASSUME ChartInv, NEW s \in Section, NEW prm \in Shape, Reposition(s, prm)
  PROVE  ChartInv'
<1>1. prm \in Params
  BY ChartShapes
<1>2. shape' = [shape EXCEPT ![s] = prm] /\ shape \in [Section -> Params]
  BY DEF ChartInv, TypeOK, Reposition, Saved
<1>3. Seats' = Seats
  BY DEF Reposition, Seats, SeatRows
<1>4. TypeOK'
  BY <1>1, <1>2, <1>3 DEF ChartInv, TypeOK, Reposition, Saved, Zone, shop
<1>5. SavedSectionsMatch'
  BY <1>2 DEF ChartInv, SavedSectionsMatch, Reposition, Saved, SameRoster
<1>6. RowsOK' /\ IdsApart' /\ ZonesDisjoint' /\ LiveSeatsStay' /\ PayersHoldTheirBill'
  BY <1>3 DEF ChartInv, RowsOK, IdsApart, ZonesDisjoint, LiveSeatsStay, PayersHoldTheirBill, Reposition, shop
<1> QED
  BY <1>4, <1>5, <1>6 DEF ChartInv

(* What is left of a zone and of a cart when a section's seats are deleted. *)
LEMMA ZoneLeft ==
  ASSUME ChartInv, NEW s \in Section, DeleteSeats(s), NEW y \in zones'
  PROVE  \E z \in zones : /\ y.id = z.id /\ y.perf = z.perf /\ y.template = z.template
                          /\ y.amount = z.amount /\ y.seats = z.seats \ SeatRows(s)
                          /\ y = [z EXCEPT !.seats = @ \ SeatRows(s)]
<1>1. PICK z \in zones : y = [z EXCEPT !.seats = @ \ SeatRows(s)]
  BY DEF DeleteSeats
<1>2. z = [id |-> z.id, perf |-> z.perf, template |-> z.template, amount |-> z.amount, seats |-> z.seats]
  BY ZonesAre DEF ChartInv
<1>3. y = [id |-> z.id, perf |-> z.perf, template |-> z.template, amount |-> z.amount,
           seats |-> z.seats \ SeatRows(s)]
  BY <1>1, <1>2
<1> QED
  BY <1>1, <1>3

LEMMA CartLeft ==
  ASSUME ChartInv, NEW s \in Section, DeleteSeats(s), NEW b \in Buyer
  PROVE  /\ cart'[b].step = cart[b].step /\ cart'[b].perf = cart[b].perf
         /\ cart'[b].bill = cart[b].bill
         /\ cart'[b].rows = {r \in cart[b].rows : r.seat \notin SeatRows(s)}
         /\ cart'[b] \in Cart
<1>1. cart'[b] = [cart[b] EXCEPT !.rows = {r \in @ : r.seat \notin SeatRows(s)}]
  BY DEF DeleteSeats
<1>2. cart[b] \in Cart
  BY DEF ChartInv, RowsOK
<1> QED
  BY <1>1, <1>2 DEF Cart

LEMMA RegenerateInv ==
  ASSUME ChartInv, NEW s \in Section, NEW prm \in Shape, Regenerate(s, prm)
  PROVE  ChartInv'
<1>1. prm \in Params /\ DeleteSeats(s) /\ NewSeats(s, prm) /\ LiveOn(s) = {}
  BY ChartShapes DEF Regenerate
<1>2. Seats \ SeatRows(s) \subseteq Seats'
  BY <1>1, SeatsAfter DEF ChartInv
<1>3. /\ shape' = [shape EXCEPT ![s] = prm] /\ shape \in [Section -> Params]
      /\ roster' = [roster EXCEPT ![s] = Roster(prm)] /\ roster \in [Section -> SUBSET Name]
      /\ gen' = [gen EXCEPT ![s] = @ + 1] /\ gen \in [Section -> Nat]
  BY <1>1 DEF ChartInv, TypeOK, NewSeats, Saved, Name
<1>4. shape' \in [Section -> Params] /\ roster' \in [Section -> SUBSET Name] /\ gen' \in [Section -> Nat]
  BY <1>1, <1>3, RosterType
<1>5. zones' \subseteq Zone'
  <2> SUFFICES ASSUME NEW y \in zones' PROVE y \in Zone'
    OBVIOUS
  <2>1. PICK z \in zones : /\ y = [z EXCEPT !.seats = @ \ SeatRows(s)]
                           /\ y.seats = z.seats \ SeatRows(s)
    BY <1>1, ZoneLeft
  <2>2. z.seats \ SeatRows(s) \subseteq Seats'
    BY <1>2, ZonesAre DEF ChartInv
  <2>3. z \in Zone
    BY DEF ChartInv, TypeOK
  <2> QED
    BY <2>1, <2>2, <2>3 DEF Zone
<1>6. ASSUME NEW b \in Buyer
      PROVE  /\ cart'[b].rows \subseteq HoldRow /\ cart'[b].bill \subseteq HoldRow
             /\ \A r \in cart'[b].rows : r.seat \in Seats'
  <2>1. \A r \in cart[b].rows : r.seat \in Seats
    BY DEF ChartInv, TypeOK
  <2>2. cart[b].rows \subseteq HoldRow /\ cart[b].bill \subseteq HoldRow
    BY DEF ChartInv, TypeOK
  <2> QED
    BY <1>1, <1>2, <2>1, <2>2, CartLeft
<1>7. synced' \in SUBSET Section
  BY <1>1 DEF ChartInv, TypeOK, NewSeats, Saved
<1>8. TypeOK'
  BY <1>4, <1>5, <1>6, <1>7 DEF TypeOK, Name
<1>9. RowsOK'
  <2>1. cart' \in [Buyer -> Cart]
    BY <1>1, CartLeft DEF DeleteSeats
  <2> QED
    BY <1>1, <2>1 DEF ChartInv, RowsOK, NewSeats
<1>10. IdsApart'
  BY <1>1, ZoneLeft DEF ChartInv, IdsApart
<1>11. ZonesDisjoint'
  <2> SUFFICES ASSUME NEW x \in zones', NEW y \in zones', x.perf = y.perf, x.id # y.id, x.perf \notin mixed'
               PROVE  x.seats \cap y.seats = {}
    BY DEF ZonesDisjoint
  <2>1. PICK v \in zones : v.id = x.id /\ v.perf = x.perf /\ x.seats = v.seats \ SeatRows(s)
    BY <1>1, ZoneLeft
  <2>2. PICK z \in zones : z.id = y.id /\ z.perf = y.perf /\ y.seats = z.seats \ SeatRows(s)
    BY <1>1, ZoneLeft
  <2>3. v.perf \notin mixed
    BY <1>1, <2>1 DEF NewSeats
  <2> QED
    BY <2>1, <2>2, <2>3 DEF ChartInv, ZonesDisjoint
<1>12. SavedSectionsMatch'
  BY <1>1, <1>3 DEF ChartInv, SavedSectionsMatch, NewSeats, Saved
<1>13. LiveSeatsStay'
  <2> SUFFICES ASSUME NEW t \in live PROVE t.seat \in Seats'
    BY <1>1 DEF LiveSeatsStay, NewSeats
  <2>1. t.seat \in Seats /\ t.seat.sec # s
    BY <1>1 DEF ChartInv, LiveSeatsStay, LiveOn
  <2>2. t.seat \notin SeatRows(s)
    BY <2>1, SeatIs
  <2> QED
    BY <1>2, <2>1, <2>2
<1>14. PayersHoldTheirBill'
  <2> SUFFICES ASSUME NEW b \in Buyer, cart'[b].step = "paying", b \notin pulled'
               PROVE  cart'[b].rows = cart'[b].bill
    BY DEF PayersHoldTheirBill
  <2>1. cart[b].step = "paying" /\ b \notin pulled /\ \A r \in cart[b].bill : r.seat \notin SeatRows(s)
    BY <1>1, CartLeft DEF DeleteSeats
  <2>2. cart[b].rows = cart[b].bill
    BY <2>1 DEF ChartInv, PayersHoldTheirBill
  <2> QED
    BY <1>1, <2>1, <2>2, CartLeft
<1> QED
  BY <1>8, <1>9, <1>10, <1>11, <1>12, <1>13, <1>14 DEF ChartInv

LEMMA AbortInv ==
  ASSUME ChartInv, NEW s \in Section, NEW prm \in Shape, Abort(s, prm)
  PROVE  ChartInv'
BY DEF ChartInv, Abort, chart, shop, TypeOK, RowsOK, IdsApart, ZonesDisjoint, SavedSectionsMatch,
       LiveSeatsStay, PayersHoldTheirBill, Zone, Seats, SeatRows

-----------------------------------------------------------------------------
(* SectionForm *)

LEMMA FormLoadInv ==
  ASSUME ChartInv, NEW f \in Form, NEW s \in Section, FormLoad(f, s)
  PROVE  ChartInv'
<1>1. shape[s] \in Params
  BY DEF ChartInv, TypeOK
<1>2. RowsOK'
  BY <1>1 DEF ChartInv, RowsOK, FormLoad, shop
<1>3. TypeOK'
  BY DEF ChartInv, TypeOK, FormLoad, chart, shop, ghost, Zone, Seats, SeatRows
<1> QED
  BY <1>2, <1>3 DEF ChartInv, FormLoad, chart, shop, ghost, IdsApart, ZonesDisjoint, SavedSectionsMatch,
                    LiveSeatsStay, PayersHoldTheirBill, Seats, SeatRows

(* A form that writes back what is stored by now changes nothing; one that    *)
(* writes back old parameters is noted, and one that names the seats by       *)
(* another scheme leaves the section unsaved.                                 *)
LEMMA FormSaveInv ==
  ASSUME ChartInv, NEW f \in Form, NEW scheme \in Scheme, FormSave(f, scheme)
  PROVE  ChartInv'
<1> DEFINE s   == form[f].sec
           r == [form[f].row EXCEPT !.numbering_scheme = scheme]
<1>1. form[f] \in {NoForm} \cup [sec : Section, row : Params] /\ s # 0
  BY DEF ChartInv, RowsOK, FormSave
<1>2. s \in Section /\ form[f].row \in Params
  BY <1>1 DEF NoForm
<1>3. r \in Params
  BY <1>2, RenamedParams
<1>4. /\ shape' = [shape EXCEPT ![s] = r]
      /\ synced' = IF r = form[f].row THEN synced ELSE synced \ {s}
      /\ reverted' = IF form[f].row = shape[s] THEN reverted ELSE reverted \cup {s}
      /\ form' = [form EXCEPT ![f] = NoForm]
      /\ UNCHANGED <<roster, gen, zones, shop, mixed, pulled, stuck>>
  BY DEF FormSave
<1> HIDE DEF r, s
<1>5. TypeOK'
  BY <1>2, <1>3, <1>4 DEF ChartInv, TypeOK, shop, Zone, Seats, SeatRows
<1>6. RowsOK'
  BY <1>4 DEF ChartInv, RowsOK, shop
<1>7. SavedSectionsMatch'
  <2> SUFFICES ASSUME NEW x \in synced' \ reverted'
               PROVE  roster'[x] = Roster(shape'[x])
    BY DEF SavedSectionsMatch
  <2>1. shape \in [Section -> Params] /\ roster' = roster /\ x \in Section
    BY <1>4 DEF ChartInv, TypeOK
  <2>2. CASE x # s
    BY <1>4, <2>1, <2>2 DEF ChartInv, SavedSectionsMatch
  <2>3. CASE x = s
    BY <1>4, <2>1, <2>3 DEF ChartInv, SavedSectionsMatch
  <2> QED
    BY <2>2, <2>3
<1> QED
  BY <1>4, <1>5, <1>6, <1>7 DEF ChartInv, IdsApart, ZonesDisjoint, LiveSeatsStay, PayersHoldTheirBill,
                                shop, Seats, SeatRows

-----------------------------------------------------------------------------
(* Pricing zones *)

(* What the edits of a zone leave alone. *)
LEMMA ZonesOnly ==
  ASSUME ChartInv, UNCHANGED <<chart, form, shop, synced, reverted, pulled>>, zones' \subseteq Zone
  PROVE  /\ TypeOK' /\ RowsOK' /\ SavedSectionsMatch' /\ LiveSeatsStay' /\ PayersHoldTheirBill'
         /\ Zone' = Zone
<1>1. Seats' = Seats /\ Zone' = Zone
  BY DEF chart, Seats, SeatRows, Zone
<1> QED
  BY <1>1 DEF ChartInv, chart, shop, TypeOK, RowsOK, SavedSectionsMatch, LiveSeatsStay, PayersHoldTheirBill

LEMMA WithoutIs ==
  ASSUME TypeOK, NEW z \in zones, NEW chosen
  PROVE  /\ Without(z, chosen).id = z.id /\ Without(z, chosen).perf = z.perf
         /\ Without(z, chosen).seats = z.seats \ chosen
         /\ Without(z, chosen) \in Zone
<1>1. z \in Zone /\ z.seats \subseteq Seats
  BY ZonesAre DEF TypeOK
<1> QED
  BY <1>1 DEF Without, Zone

LEMMA ApplyZoneInv ==
  ASSUME ChartInv, NEW p \in Perf, NEW t \in Template, NEW chosen \in SUBSET Seats, NEW a \in Amount,
         ApplyZone(p, t, chosen, a)
  PROVE  ChartInv'
<1>1. PICK z \in Target(p, t) :
        zones' = {IF y.perf = p THEN Without(y, chosen) ELSE y : y \in zones \ {z}}
                  \cup {[z EXCEPT !.amount = a, !.seats = @ \cup chosen]}
  BY DEF ApplyZone
<1> DEFINE new == [z EXCEPT !.amount = a, !.seats = @ \cup chosen]
<1>2. z \in Zone /\ z.perf = p /\ (z \in zones \/ (z.seats = {} /\ \A y \in zones : y.id # z.id))
  <2>1. CASE z \in zones
    BY <2>1 DEF ChartInv, TypeOK, Target, ZonesOf
  <2>2. CASE z \notin zones
    BY <2>2 DEF Target, ZonesOf, Unused, Zone
  <2> QED
    BY <2>1, <2>2
<1>3. /\ new.id = z.id /\ new.perf = p /\ new.seats = z.seats \cup chosen /\ new \in Zone
  BY <1>2, ChartPrices DEF Zone
<1>4. \A y \in zones \ {z} : y.id # z.id
  BY <1>2 DEF ChartInv, IdsApart
<1>5. ASSUME NEW x \in zones', x # new
      PROVE  \E y \in zones \ {z} : /\ x.id = y.id /\ x.perf = y.perf /\ x.seats \subseteq y.seats
                                    /\ x.perf = p => x.seats \cap chosen = {}
                                    /\ x = IF y.perf = p THEN Without(y, chosen) ELSE y
                                    /\ x \in Zone
  <2>1. PICK y \in zones \ {z} : x = IF y.perf = p THEN Without(y, chosen) ELSE y
    BY <1>1, <1>5
  <2>2. y \in Zone
    BY DEF ChartInv, TypeOK
  <2> QED
    BY <2>1, <2>2, WithoutIs DEF ChartInv
<1> HIDE DEF new
<1>6. zones' \subseteq Zone
  BY <1>3, <1>5
<1>7. UNCHANGED <<chart, form, shop, ghost>>
  BY DEF ApplyZone
<1>8. IdsApart'
  <2> SUFFICES ASSUME NEW x \in zones', NEW y \in zones', x.id = y.id PROVE x = y
    BY DEF IdsApart
  <2>1. CASE x = new \/ y = new
    BY <1>3, <1>4, <1>5, <2>1
  <2>2. CASE x # new /\ y # new
    BY <1>5, <2>2 DEF ChartInv, IdsApart
  <2> QED
    BY <2>1, <2>2
<1>9. ZonesDisjoint'
  <2> SUFFICES ASSUME NEW x \in zones', NEW y \in zones', x.perf = y.perf, x.id # y.id, x.perf \notin mixed
               PROVE  x.seats \cap y.seats = {}
    BY <1>7 DEF ZonesDisjoint, ghost
  <2>1. ASSUME NEW u \in zones', u # new, u.perf = p, p \notin mixed
        PROVE  u.seats \cap new.seats = {}
    <3>1. PICK y1 \in zones \ {z} : u.id = y1.id /\ u.perf = y1.perf /\ u.seats \subseteq y1.seats
      BY <1>5, <2>1
    <3>2. u.seats \cap chosen = {}
      BY <1>5, <2>1
    <3>3. y1.seats \cap z.seats = {}
      BY <1>2, <1>4, <2>1, <3>1 DEF ChartInv, ZonesDisjoint
    <3> QED
      BY <1>3, <3>1, <3>2, <3>3
  <2>2. CASE x = new \/ y = new
    BY <1>3, <2>1, <2>2
  <2>3. CASE x # new /\ y # new
    <3>1. PICK x1 \in zones \ {z} : x.id = x1.id /\ x.perf = x1.perf /\ x.seats \subseteq x1.seats
      BY <1>5, <2>3
    <3>2. PICK y1 \in zones \ {z} : y.id = y1.id /\ y.perf = y1.perf /\ y.seats \subseteq y1.seats
      BY <1>5, <2>3
    <3> QED
      BY <3>1, <3>2 DEF ChartInv, ZonesDisjoint
  <2> QED
    BY <2>2, <2>3
<1> QED
  BY <1>6, <1>7, <1>8, <1>9, ZonesOnly DEF ChartInv, ghost

LEMMA RemoveSeatsInv ==
  ASSUME ChartInv, NEW z \in zones, NEW chosen, RemoveSeats(z, chosen)
  PROVE  ChartInv'
<1>1. zones' = (zones \ {z}) \cup {Without(z, chosen)} /\ UNCHANGED <<chart, form, shop, ghost>>
  BY DEF RemoveSeats
<1>2. /\ Without(z, chosen).id = z.id /\ Without(z, chosen).perf = z.perf
      /\ Without(z, chosen).seats = z.seats \ chosen
      /\ Without(z, chosen) \in Zone
  BY WithoutIs DEF ChartInv
<1>3. zones' \subseteq Zone
  BY <1>1, <1>2 DEF ChartInv, TypeOK
<1>4. IdsApart'
  BY <1>1, <1>2 DEF ChartInv, IdsApart
<1>5. ZonesDisjoint'
  BY <1>1, <1>2 DEF ChartInv, ZonesDisjoint, ghost
<1> QED
  BY <1>1, <1>3, <1>4, <1>5, ZonesOnly DEF ChartInv, ghost

LEMMA DeleteZoneInv ==
  ASSUME ChartInv, NEW z \in zones, DeleteZone(z)
  PROVE  ChartInv'
<1>1. zones' = zones \ {z} /\ UNCHANGED <<chart, form, shop, ghost>>
  BY DEF DeleteZone
<1>2. zones' \subseteq Zone
  BY <1>1 DEF ChartInv, TypeOK
<1>3. IdsApart' /\ ZonesDisjoint'
  BY <1>1 DEF ChartInv, IdsApart, ZonesDisjoint, ghost
<1> QED
  BY <1>1, <1>2, <1>3, ZonesOnly DEF ChartInv, ghost

LEMMA CloneZonesInv ==
  ASSUME ChartInv, NEW from \in Perf, NEW to \in Perf, CloneZones(from, to)
  PROVE  ChartInv'
<1>1. PICK id \in [ZonesOf(from) -> Unused] :
        /\ IsInjective(id)
        /\ zones' = zones \cup {[z EXCEPT !.id = id[z], !.perf = to] : z \in ZonesOf(from)}
  BY DEF CloneZones
<1>2. /\ UNCHANGED <<chart, form, shop, synced, reverted, pulled>>
      /\ mixed' = IF ZonesOf(to) # {} \/ from \in mixed THEN mixed \cup {to} ELSE mixed
  BY DEF CloneZones
<1>3. ASSUME NEW x \in zones', x \notin zones
      PROVE  \E z \in ZonesOf(from) : /\ x.id = id[z] /\ x.id \in ZoneId /\ x.perf = to /\ x.seats = z.seats
                                      /\ x = [z EXCEPT !.id = id[z], !.perf = to]
                                      /\ \A y \in zones : y.id # x.id
                                      /\ x \in Zone
  <2>1. PICK z \in ZonesOf(from) : x = [z EXCEPT !.id = id[z], !.perf = to]
    BY <1>1, <1>3
  <2>2. z \in Zone /\ id[z] \in Unused
    BY DEF ChartInv, TypeOK, ZonesOf
  <2> QED
    BY <2>1, <2>2 DEF Unused, Zone
<1>4. zones' \subseteq Zone
  BY <1>3 DEF ChartInv, TypeOK
<1>5. \A x, y \in ZonesOf(from) : id[x] = id[y] => x = y
  BY <1>1 DEF IsInjective
<1>6. IdsApart'
  <2> SUFFICES ASSUME NEW x \in zones', NEW y \in zones', x.id = y.id PROVE x = y
    BY DEF IdsApart
  <2>1. CASE x \in zones /\ y \in zones
    BY <2>1 DEF ChartInv, IdsApart
  <2>2. CASE x \in zones /\ y \notin zones
    BY <1>3, <2>2
  <2>4. CASE x \notin zones /\ y \in zones
    BY <1>3, <2>4
  <2>3. CASE x \notin zones /\ y \notin zones
    <3>1. PICK v \in ZonesOf(from) : x.id = id[v] /\ x = [v EXCEPT !.id = id[v], !.perf = to]
      BY <1>3, <2>3
    <3>2. PICK w \in ZonesOf(from) : y.id = id[w] /\ y = [w EXCEPT !.id = id[w], !.perf = to]
      BY <1>3, <2>3
    <3> QED
      BY <1>5, <3>1, <3>2
  <2> QED
    BY <2>1, <2>2, <2>3, <2>4
<1>7. ZonesDisjoint'
  <2> SUFFICES ASSUME NEW x \in zones', NEW y \in zones', x.perf = y.perf, x.id # y.id, x.perf \notin mixed'
               PROVE  x.seats \cap y.seats = {}
    BY DEF ZonesDisjoint
  <2>0. x.perf \notin mixed
    BY <1>2
  <2>1. CASE x \in zones /\ y \in zones
    BY <2>0, <2>1 DEF ChartInv, ZonesDisjoint
  <2>2. CASE x \in zones /\ y \notin zones
    BY <1>2, <1>3, <2>2 DEF ZonesOf
  <2>4. CASE x \notin zones /\ y \in zones
    BY <1>2, <1>3, <2>4 DEF ZonesOf
  <2>3. CASE x \notin zones /\ y \notin zones
    <3>1. PICK v \in ZonesOf(from) : x.id = id[v] /\ x.seats = v.seats /\ x.perf = to
      BY <1>3, <2>3
    <3>2. PICK w \in ZonesOf(from) : y.id = id[w] /\ y.seats = w.seats
      BY <1>3, <2>3
    <3>3. from \notin mixed /\ v \in zones /\ w \in zones /\ v.perf = from /\ w.perf = from
      BY <1>2, <3>1 DEF ZonesOf
    <3>4. v.id # w.id
      BY <3>1, <3>2, <3>3 DEF ChartInv, IdsApart
    <3> QED
      BY <3>1, <3>2, <3>3, <3>4 DEF ChartInv, ZonesDisjoint
  <2> QED
    BY <2>1, <2>2, <2>3, <2>4
<1> QED
  BY <1>2, <1>4, <1>6, <1>7, ZonesOnly DEF ChartInv

-----------------------------------------------------------------------------
(* Buyers *)

(* What a change of the carts and tickets leaves alone. *)
LEMMA ShopOnly ==
  ASSUME ChartInv, UNCHANGED <<chart, form, zones, synced, reverted, mixed>>,
         cart' \in [Buyer -> Cart],
         \A b \in Buyer : \A r \in cart'[b].rows : r.seat \in Seats
  PROVE  TypeOK' /\ IdsApart' /\ ZonesDisjoint' /\ SavedSectionsMatch' /\ Seats' = Seats
<1>1. Seats' = Seats /\ Zone' = Zone
  BY DEF chart, Seats, SeatRows, Zone
<1>2. \A b \in Buyer : cart'[b].rows \subseteq HoldRow /\ cart'[b].bill \subseteq HoldRow
  BY DEF Cart
<1> QED
  BY <1>1, <1>2 DEF ChartInv, chart, TypeOK, IdsApart, ZonesDisjoint, SavedSectionsMatch

LEMMA NoCartIs == NoCart \in Cart /\ NoCart.step = "none" /\ NoCart.rows = {}
BY DEF NoCart, Cart

LEMMA PriceType ==
  ASSUME TypeOK, NEW p \in Perf, NEW seat \in Seats, NEW price \in Prices(p, seat)
  PROVE  price \in Nat
<1>1. seat.sec \in Section
  BY SeatOf
<1>2. TierAmount(p, seat.sec) \in Nat
  BY <1>1, ChartPrices DEF TierAmount
<1>3. \A z \in zones : z.amount \in Nat
  BY ZonesAre
<1> QED
  BY <1>2, <1>3 DEF Prices, ZonesOf

LEMMA HoldInv ==
  ASSUME ChartInv, NEW b \in Buyer, NEW p \in OnSale, NEW chosen \in SUBSET Seats, Hold(b, p, chosen)
  PROVE  ChartInv'
<1>1. PICK price \in [chosen -> UNION {Prices(p, seat) : seat \in chosen}] :
        /\ \A seat \in chosen : price[seat] \in Prices(p, seat)
        /\ cart' = [cart EXCEPT ![b] = [step |-> "held", perf |-> p, bill |-> {},
                      rows |-> {[seat |-> seat, amount |-> price[seat]] : seat \in chosen}]]
  BY DEF Hold
<1> DEFINE rows == {[seat |-> seat, amount |-> price[seat]] : seat \in chosen}
           new  == [step |-> "held", perf |-> p, bill |-> {}, rows |-> rows]
<1>2. UNCHANGED <<chart, form, zones, live, ordered, ghost>>
  BY DEF Hold
<1>3. p \in Perf
  BY ChartShows
<1>4. \A seat \in chosen : seat \in Seat /\ price[seat] \in Nat
  BY <1>1, <1>3, SeatsAreTyped, PriceType DEF ChartInv
<1>5. rows \subseteq HoldRow /\ \A r \in rows : r.seat \in Seats
  BY <1>4 DEF HoldRow
<1> HIDE DEF rows
<1>6. new \in Cart
  BY <1>3, <1>5 DEF Cart
<1>7. cart \in [Buyer -> Cart] /\ cart' = [cart EXCEPT ![b] = new]
  BY <1>1 DEF ChartInv, RowsOK, rows
<1>8. cart' \in [Buyer -> Cart] /\ \A x \in Buyer : \A r \in cart'[x].rows : r.seat \in Seats
  BY <1>5, <1>6, <1>7 DEF ChartInv, TypeOK
<1>9. RowsOK'
  BY <1>2, <1>8 DEF ChartInv, RowsOK
<1>10. PayersHoldTheirBill'
  BY <1>2, <1>7 DEF ChartInv, PayersHoldTheirBill, ghost
<1> QED
  BY <1>2, <1>8, <1>9, <1>10, ShopOnly DEF ChartInv, LiveSeatsStay, ghost

(* The cart is emptied. *)
LEMMA Emptied ==
  ASSUME ChartInv, NEW b \in Buyer, cart' = [cart EXCEPT ![b] = NoCart], pulled' = pulled \ {b}
  PROVE  /\ cart' \in [Buyer -> Cart] /\ \A x \in Buyer : \A r \in cart'[x].rows : r.seat \in Seats
         /\ PayersHoldTheirBill'
<1>1. cart \in [Buyer -> Cart]
  BY DEF ChartInv, RowsOK
<1>2. \A x \in Buyer : cart'[x] = IF x = b THEN NoCart ELSE cart[x]
  BY <1>1
<1> QED
  BY <1>1, <1>2, NoCartIs DEF ChartInv, TypeOK, PayersHoldTheirBill

LEMMA ReleaseInv ==
  ASSUME ChartInv, NEW b \in Buyer, Release(b)
  PROVE  ChartInv'
<1>1. cart' = [cart EXCEPT ![b] = NoCart] /\ pulled' = pulled \ {b}
  BY DEF Release
<1>2. UNCHANGED <<chart, form, zones, live, ordered, synced, reverted, mixed, stuck>>
  BY DEF Release
<1>3. cart' \in [Buyer -> Cart] /\ PayersHoldTheirBill'
  BY <1>1, Emptied
<1>4. TypeOK' /\ IdsApart' /\ ZonesDisjoint' /\ SavedSectionsMatch' /\ Seats' = Seats
  BY <1>1, <1>2, <1>3, Emptied, ShopOnly
<1> QED
  BY <1>2, <1>3, <1>4 DEF ChartInv, RowsOK, LiveSeatsStay

LEMMA PayInv ==
  ASSUME ChartInv, NEW b \in Buyer, Pay(b)
  PROVE  ChartInv'
<1>1. cart \in [Buyer -> Cart]
  BY DEF ChartInv, RowsOK
<1>2. UNCHANGED <<chart, form, zones, live, ordered, ghost>>
  BY DEF Pay
<1>3. /\ \A x \in Buyer \ {b} : cart'[x] = cart[x]
      /\ cart'[b].step = "paying" /\ cart'[b].rows = cart[b].rows /\ cart'[b].bill = cart[b].rows
      /\ cart' \in [Buyer -> Cart]
  BY <1>1 DEF Pay, Cart
<1>4. \A x \in Buyer : \A r \in cart'[x].rows : r.seat \in Seats
  BY <1>3 DEF ChartInv, TypeOK
<1>5. PayersHoldTheirBill'
  BY <1>2, <1>3 DEF ChartInv, PayersHoldTheirBill, ghost
<1>6. TypeOK' /\ IdsApart' /\ ZonesDisjoint' /\ SavedSectionsMatch' /\ Seats' = Seats
  BY <1>2, <1>3, <1>4, ShopOnly DEF ghost
<1> QED
  BY <1>2, <1>3, <1>5, <1>6 DEF ChartInv, RowsOK, LiveSeatsStay

LEMMA FulfillInv ==
  ASSUME ChartInv, NEW b \in Buyer, Fulfill(b)
  PROVE  ChartInv'
<1>1. cart' = [cart EXCEPT ![b] = NoCart] /\ pulled' = pulled \ {b}
  BY DEF Fulfill
<1>2. UNCHANGED <<chart, form, zones, synced, reverted, mixed, stuck>>
  BY DEF Fulfill
<1>3. live' = live \cup {[perf |-> cart[b].perf, seat |-> r.seat] : r \in cart[b].rows}
  BY DEF Fulfill
<1>4. cart' \in [Buyer -> Cart] /\ PayersHoldTheirBill'
  BY <1>1, Emptied
<1>5. TypeOK' /\ IdsApart' /\ ZonesDisjoint' /\ SavedSectionsMatch' /\ Seats' = Seats
  BY <1>1, <1>2, <1>4, Emptied, ShopOnly
<1>6. cart[b].perf \in Perf \cup {0} /\ \A r \in cart[b].rows : r.seat \in Seats /\ r.seat \in Seat
  BY CartIs, SeatsAreTyped DEF ChartInv, TypeOK
<1>7. live' \subseteq Ticket
  BY <1>3, <1>6 DEF ChartInv, RowsOK, Ticket
<1>8. LiveSeatsStay'
  BY <1>3, <1>5, <1>6 DEF ChartInv, LiveSeatsStay
<1> QED
  BY <1>2, <1>4, <1>5, <1>7, <1>8 DEF ChartInv, RowsOK

LEMMA VoidInv ==
  ASSUME ChartInv, NEW t \in live, Void(t)
  PROVE  ChartInv'
<1>1. UNCHANGED <<chart, form, zones, cart, ordered, ghost>> /\ live' = live \ {t}
  BY DEF Void
<1>2. cart' \in [Buyer -> Cart] /\ \A b \in Buyer : \A r \in cart'[b].rows : r.seat \in Seats
  BY <1>1 DEF ChartInv, RowsOK, TypeOK
<1>3. TypeOK' /\ IdsApart' /\ ZonesDisjoint' /\ SavedSectionsMatch' /\ Seats' = Seats
  BY <1>1, <1>2, ShopOnly DEF ghost
<1> QED
  BY <1>1, <1>3 DEF ChartInv, RowsOK, LiveSeatsStay, PayersHoldTheirBill, ghost

-----------------------------------------------------------------------------
(* Every step *)

LEMMA StutterInv ==
  ASSUME ChartInv, UNCHANGED vars
  PROVE  ChartInv'
BY DEF ChartInv, vars, chart, shop, ghost, TypeOK, RowsOK, IdsApart, ZonesDisjoint, SavedSectionsMatch,
       LiveSeatsStay, PayersHoldTheirBill, Zone, Seats, SeatRows

LEMMA ChartStep == ChartInv /\ [Next]_vars => ChartInv'
<1> SUFFICES ASSUME ChartInv, [Next]_vars PROVE ChartInv'
  OBVIOUS
<1>1. CASE Layout
  BY <1>1, RepositionInv, RegenerateInv, AbortInv DEF Layout
<1>2. CASE Naming
  BY <1>2, FormLoadInv, FormSaveInv DEF Naming
<1>3. CASE Pricing
  BY <1>3, ApplyZoneInv, DeleteZoneInv, RemoveSeatsInv, CloneZonesInv DEF Pricing
<1>4. CASE Selling
  BY <1>4, ReleaseInv, PayInv, FulfillInv, HoldInv, VoidInv DEF Selling
<1>5. CASE UNCHANGED vars
  BY <1>5, StutterInv
<1> QED
  BY <1>1, <1>2, <1>3, <1>4, <1>5 DEF Next

(* The tables hold what their columns may hold, and no row of a hold or a    *)
(* zone points at a seat that is gone, however sections are regenerated.     *)
THEOREM ChartTypes == Spec => []TypeOK
<1>1. ChartInv => TypeOK
  BY DEF ChartInv
<1> QED
  BY InitInv, ChartStep, <1>1, PTL DEF Spec

(* A seat is in one zone of a performance at most, where no zones were       *)
(* cloned on top of others (assign_seats, clone_zones_from_performance).     *)
THEOREM ZonesKeepApart == Spec => []ZonesDisjoint
<1>1. ChartInv => ZonesDisjoint
  BY DEF ChartInv
<1> QED
  BY InitInv, ChartStep, <1>1, PTL DEF Spec

(* The parameters in a section's row draw the seats it has, from a save on   *)
(* until its form is saved (generate_seats, reposition_seats, SectionForm).  *)
THEOREM SavedSectionsDrawTheirSeats == Spec => []SavedSectionsMatch
<1>1. ChartInv => SavedSectionsMatch
  BY DEF ChartInv
<1> QED
  BY InitInv, ChartStep, <1>1, PTL DEF Spec

(* No ticket that admits loses its seat row (the guardrail of                *)
(* generate_seats).                                                          *)
THEOREM LiveTicketsHaveSeats == Spec => []LiveSeatsStay
<1>1. ChartInv => LiveSeatsStay
  BY DEF ChartInv
<1> QED
  BY InitInv, ChartStep, <1>1, PTL DEF Spec

(* Who pays holds what is billed, at the amounts billed, unless the seats    *)
(* were deleted under them: no edit of the zones reprices a hold             *)
(* (HoldSeat.unit_amount).                                                   *)
THEOREM BillsAreHeld == Spec => []PayersHoldTheirBill
<1>1. ChartInv => PayersHoldTheirBill
  BY DEF ChartInv
<1> QED
  BY InitInv, ChartStep, <1>1, PTL DEF Spec

-----------------------------------------------------------------------------
(* The list of sections *)

(* The chart's sections in a relation that may be counted with: those that *)
(* come before a section are fewer than those before a later one.          *)
Earlier(i) == {j \in Stored : Before(j, i)}

LEMMA StoredFinite ==
  IsFiniteSet(Stored) /\ Cardinality(Stored) \in 0 .. Cardinality(Key) /\ Cardinality(Key) \in Nat
<1>1. Stored \in SUBSET Key /\ IsFiniteSet(Key)
  BY SectionKeys DEF Stored
<1>2. IsFiniteSet(Stored) /\ Cardinality(Stored) <= Cardinality(Key)
  BY <1>1, FS_Subset
<1>3. Cardinality(Stored) \in Nat /\ Cardinality(Key) \in Nat
  BY <1>1, <1>2, FS_CardinalityType
<1> QED
  BY <1>2, <1>3

LEMMA BeforeOrders ==
  ASSUME rank \in [Key -> 0 .. Cardinality(Key)]
  PROVE  /\ \A i, j \in Key : i # j => Before(i, j) \/ Before(j, i)
         /\ \A i, j \in Key : Before(i, j) => ~Before(j, i) /\ i # j
         /\ \A i, j, k \in Key : Before(i, j) /\ Before(j, k) => Before(i, k)
<1>1. \A i \in Key : i \in Nat /\ rank[i] \in Nat
  BY SectionKeys, StoredFinite
<1> QED
  BY <1>1 DEF Before

LEMMA EarlierAreFewer ==
  ASSUME rank \in [Key -> 0 .. Cardinality(Key)], NEW i \in Stored, NEW j \in Stored, Before(i, j)
  PROVE  /\ Cardinality(Earlier(i)) \in Nat /\ Cardinality(Earlier(j)) \in Nat
         /\ Cardinality(Earlier(i)) < Cardinality(Earlier(j))
<1>1. i \in Key /\ j \in Key /\ \A k \in Stored : k \in Key
  BY DEF Stored
<1>2. Earlier(i) \in SUBSET Earlier(j) /\ i \in Earlier(j) /\ i \notin Earlier(i)
  BY <1>1, BeforeOrders DEF Earlier
<1>3. Earlier(j) \in SUBSET Stored
  BY DEF Earlier
<1>4. IsFiniteSet(Earlier(j)) /\ Cardinality(Earlier(j)) \in Nat
  BY <1>3, StoredFinite, FS_Subset, FS_CardinalityType
<1>5. /\ IsFiniteSet(Earlier(i)) /\ Cardinality(Earlier(i)) <= Cardinality(Earlier(j))
      /\ Cardinality(Earlier(i)) = Cardinality(Earlier(j)) => Earlier(j) = Earlier(i)
  BY <1>2, <1>4, FS_Subset
<1>6. Cardinality(Earlier(i)) \in Nat
  BY <1>5, FS_CardinalityType
<1> QED
  BY <1>2, <1>4, <1>5, <1>6

(* The place of a section is one more than the number of those before it.  *)
LEMMA PlacesAreTaken ==
  ASSUME rank \in [Key -> 0 .. Cardinality(Key)]
  PROVE  \E place \in [Stored -> 1 .. Cardinality(Stored)] :
            /\ \A i, j \in Stored : Before(i, j) => place[i] < place[j]
            /\ \A n \in 1 .. Cardinality(Stored) : \E i \in Stored : place[i] = n
<1> DEFINE N == Cardinality(Stored)
           place == [i \in Stored |-> Cardinality(Earlier(i)) + 1]
<1>1. N \in Nat /\ IsFiniteSet(Stored)
  BY StoredFinite
<1>2. ASSUME NEW i \in Stored
      PROVE  Cardinality(Earlier(i)) + 1 \in 1 .. N
  <2>1. i \in Key /\ i \notin Earlier(i) /\ Earlier(i) \in SUBSET Stored
    BY BeforeOrders DEF Earlier, Stored
  <2>2. /\ IsFiniteSet(Earlier(i)) /\ Cardinality(Earlier(i)) <= N
        /\ N = Cardinality(Earlier(i)) => Stored = Earlier(i)
    BY <1>1, <2>1, FS_Subset
  <2>3. Cardinality(Earlier(i)) \in Nat
    BY <2>2, FS_CardinalityType
  <2> HIDE DEF N
  <2> QED
    BY <1>1, <2>1, <2>2, <2>3
<1>3. place \in [Stored -> 1 .. N]
  BY <1>2
<1>4. \A i, j \in Stored : Before(i, j) => place[i] < place[j]
  BY EarlierAreFewer
<1>5. ASSUME NEW i \in Stored, NEW j \in Stored, place[i] = place[j]
      PROVE  i = j
  <2>1. i \in Key /\ j \in Key
    BY DEF Stored
  <2>2. place[i] \in Nat /\ place[j] \in Nat
    BY <1>1, <1>3
  <2> HIDE DEF place
  <2> QED
    BY <1>4, <1>5, <2>1, <2>2, BeforeOrders
<1>6. place \in Injection(Stored, 1 .. N)
  BY <1>3, <1>5, Zenon DEF Injection, IsInjective
<1>7. IsFiniteSet(1 .. N) /\ Cardinality(1 .. N) = N
  BY <1>1, FS_Interval
<1>8. place \in Surjection(Stored, 1 .. N)
  BY <1>6, <1>7, FS_Injection
<1>9. \A n \in 1 .. N : \E i \in Stored : place[i] = n
  BY <1>8 DEF Surjection
<1> HIDE DEF place
<1> QED
  BY <1>3, <1>4, <1>9

(* The list the server answers with has every section once, in order.      *)
LEMMA ListedIs ==
  ASSUME rank \in [Key -> 0 .. Cardinality(Key)]
  PROVE  /\ Listed \in [1 .. Cardinality(Stored) -> Stored]
         /\ \A m, n \in DOMAIN Listed : m < n => Before(Listed[m], Listed[n])
<1> DEFINE N == Cardinality(Stored)
<1>1. PICK place \in [Stored -> 1 .. N] :
            /\ \A i, j \in Stored : Before(i, j) => place[i] < place[j]
            /\ \A n \in 1 .. N : \E i \in Stored : place[i] = n
  BY PlacesAreTaken
<1> DEFINE q == [n \in 1 .. N |-> CHOOSE i \in Stored : place[i] = n]
<1>2. \A n \in 1 .. N : q[n] \in Stored /\ place[q[n]] = n
  BY <1>1
<1>3. q \in [1 .. N -> Stored] /\ DOMAIN q = 1 .. N
  BY <1>2
<1>4. ASSUME NEW m \in DOMAIN q, NEW n \in DOMAIN q, m < n
      PROVE  Before(q[m], q[n])
  <2>1. /\ q[m] \in Stored /\ q[n] \in Stored /\ q[m] # q[n]
        /\ place[q[m]] = m /\ place[q[n]] = n /\ m \in Nat /\ n \in Nat
    BY <1>2, <1>3, <1>4, StoredFinite
  <2>2. ~Before(q[n], q[m])
    BY <1>1, <1>4, <2>1
  <2>3. q[m] \in Key /\ q[n] \in Key
    BY <2>1 DEF Stored
  <2> QED
    BY <2>1, <2>2, <2>3, BeforeOrders
<1>5. \E r \in [1 .. N -> Stored] : \A m, n \in DOMAIN r : m < n => Before(r[m], r[n])
  BY <1>3, <1>4
<1> QED
  BY <1>5, Zenon DEF Listed

LEMMA ListedIsAll ==
  ASSUME rank \in [Key -> 0 .. Cardinality(Key)]
  PROVE  /\ Listed \in Seq(Key)
         /\ DOMAIN Listed = 1 .. Cardinality(Stored) /\ Cardinality(Stored) \in Nat
         /\ IsInjective(Listed) /\ Range(Listed) = Stored
<1> DEFINE N == Cardinality(Stored)
<1>1. /\ Listed \in [1 .. N -> Stored] /\ DOMAIN Listed = 1 .. N
      /\ \A m, n \in 1 .. N : m < n => Before(Listed[m], Listed[n])
  BY ListedIs
<1>2. N \in Nat /\ IsFiniteSet(Stored) /\ Stored \in SUBSET Key
  BY StoredFinite DEF Stored
<1>3. Listed \in Seq(Key)
  BY <1>1, <1>2
<1>4. ASSUME NEW m \in 1 .. N, NEW n \in 1 .. N, Listed[m] = Listed[n]
      PROVE  m = n
  <2>1. Listed[m] \in Key /\ Listed[n] \in Key
    BY <1>1, <1>2
  <2>2. m \in Int /\ n \in Int
    OBVIOUS
  <2>3. ~(m < n) /\ ~(n < m)
    BY <1>1, <1>4, <2>1, BeforeOrders
  <2> QED
    BY <2>2, <2>3
<1>5. IsInjective(Listed)
  BY <1>1, <1>4, Zenon DEF IsInjective
<1>6. Listed \in Injection(1 .. N, Stored)
  BY <1>1, <1>5 DEF Injection
<1>7. IsFiniteSet(1 .. N) /\ Cardinality(1 .. N) = N
  BY <1>2, FS_Interval
<1>8. Listed \in Surjection(1 .. N, Stored)
  BY <1>2, <1>6, <1>7, FS_Injection
<1>9. Range(Listed) = Stored
  BY <1>1, <1>8 DEF Surjection, Range
<1> QED
  BY <1>1, <1>2, <1>3, <1>5, <1>9

-----------------------------------------------------------------------------
(* Requests and the history, by type *)

(* A request is idle or at one of eleven stages, whose fields it has. *)
LEMMA RequestIs ==
  ASSUME EditorTypeOK, NEW s \in Slot
  PROVE  \/ req[s] = Idle
         \/ req[s] \in Counting \/ req[s] \in Inserting \/ req[s] \in Refusal \/ req[s] \in Creation
         \/ req[s] \in Loading \/ req[s] \in Reading \/ req[s] \in Swapping \/ req[s] \in Listing
         \/ req[s] \in NewOrder \/ req[s] \in Storing \/ req[s] \in Receipt
<1>1. req[s] \in Request
  BY DEF EditorTypeOK
<1> QED
  BY <1>1, Zenon DEF Request

LEMMA Fields ==
  ASSUME NEW s \in Slot
  PROVE  /\ req[s] = Idle        => req[s].kind = "idle"
         /\ req[s] \in Counting  => At(s, "create", "count")
         /\ req[s] \in Inserting => At(s, "create", "insert")
         /\ req[s] \in Refusal   => At(s, "create", "refused") /\ req[s].mine
         /\ req[s] \in Creation  => At(s, "create", "created") /\ req[s].mine
         /\ req[s] \in Loading   => At(s, "reorder", "load")
         /\ req[s] \in Reading   => At(s, "reorder", "read")
         /\ req[s] \in Swapping  => At(s, "reorder", "swap")
         /\ req[s] \in Listing   => At(s, "reorder", "list")
         /\ req[s] \in NewOrder  => At(s, "reorder", "moved") /\ req[s].mine
         /\ req[s] \in Storing   => At(s, "save", "write")
         /\ req[s] \in Receipt   => At(s, "save", "answer") /\ req[s].mine
<1>1. req[s] = Idle => req[s].kind = "idle"
  BY DEF Idle
<1>2. req[s] \in Counting => At(s, "create", "count")
  BY DEF At, Counting
<1>3. req[s] \in Inserting => At(s, "create", "insert")
  BY DEF At, Inserting
<1>4. req[s] \in Refusal => At(s, "create", "refused") /\ req[s].mine
  BY DEF At, Refusal
<1>5. req[s] \in Creation => At(s, "create", "created") /\ req[s].mine
  BY DEF At, Creation
<1>6. req[s] \in Reading => At(s, "reorder", "read")
  BY DEF At, Reading
<1>7. req[s] \in Swapping => At(s, "reorder", "swap")
  BY DEF At, Swapping
<1>8. req[s] \in Listing => At(s, "reorder", "list")
  BY DEF At, Listing
<1>9. req[s] \in NewOrder => At(s, "reorder", "moved") /\ req[s].mine
  BY DEF At, NewOrder
<1>10. req[s] \in Storing => At(s, "save", "write")
  BY DEF At, Storing
<1>11. req[s] \in Receipt => At(s, "save", "answer") /\ req[s].mine
  BY DEF At, Receipt
<1>12. req[s] \in Loading => At(s, "reorder", "load")
  BY DEF At, Loading
<1> QED
  BY <1>1, <1>2, <1>3, <1>4, <1>5, <1>6, <1>7, <1>8, <1>9, <1>10, <1>11, <1>12

LEMMA Stages ==
  ASSUME EditorTypeOK, NEW s \in Slot
  PROVE  /\ req[s].kind # "idle" => req[s] # Idle
         /\ At(s, "create", "count")   => req[s] \in Counting
         /\ At(s, "create", "insert")  => req[s] \in Inserting
         /\ At(s, "create", "refused") => req[s] \in Refusal
         /\ At(s, "create", "created") => req[s] \in Creation
         /\ At(s, "reorder", "load")   => req[s] \in Loading
         /\ At(s, "reorder", "read")   => req[s] \in Reading
         /\ At(s, "reorder", "swap")   => req[s] \in Swapping
         /\ At(s, "reorder", "list")   => req[s] \in Listing
         /\ At(s, "reorder", "moved")  => req[s] \in NewOrder
         /\ At(s, "save", "write")     => req[s] \in Storing
         /\ At(s, "save", "answer")    => req[s] \in Receipt
BY RequestIs, Fields DEF At

LEMMA SnapshotIs ==
  ASSUME EditorTypeOK
  PROVE  Snapshot \in Snapshots /\ Snapshot.order = order
<1> DEFINE D == Range(order) \cap known
<1>1. D \in SUBSET Key /\ \A i \in D : drawn[i] \in Look
  BY DEF EditorTypeOK
<1>2. [i \in D |-> drawn[i]] \in [D -> Look]
  BY <1>1
<1>3. [i \in D |-> drawn[i]] \in UNION {[E -> Look] : E \in SUBSET Key}
  BY <1>1, <1>2
<1> QED
  BY <1>3 DEF Snapshot, Snapshots, EditorTypeOK

LEMMA AppendIs ==
  ASSUME NEW S, NEW q \in Seq(S), NEW x \in S
  PROVE  /\ Append(q, x) \in Seq(S) /\ Append(q, x) # <<>> /\ Len(Append(q, x)) = Len(q) + 1
         /\ DOMAIN q = 1 .. Len(q) /\ DOMAIN Append(q, x) = 1 .. Len(q) + 1 /\ Len(q) \in Nat
         /\ \A n \in 1 .. Len(q) + 1 : Append(q, x)[n] = IF n <= Len(q) THEN q[n] ELSE x
         /\ Range(Append(q, x)) = Range(q) \cup {x}
<1> DEFINE a == Append(q, x)
<1>1. a \in Seq(S) /\ a # <<>> /\ Len(a) = Len(q) + 1
  BY AppendProperties
<1>2. Len(q) \in Nat /\ DOMAIN q = 1 .. Len(q) /\ DOMAIN a = 1 .. Len(q) + 1
  BY <1>1, LenProperties
<1>3. \A n \in 1 .. Len(q) + 1 : a[n] = IF n <= Len(q) THEN q[n] ELSE x
  BY AppendProperties
<1> HIDE DEF a
<1>4. Range(a) \subseteq Range(q) \cup {x}
  BY <1>2, <1>3 DEF Range
<1>5. ASSUME NEW n \in 1 .. Len(q)
      PROVE  q[n] \in Range(a)
  <2>1. n \in 1 .. Len(q) + 1 /\ a[n] = q[n]
    BY <1>2, <1>3
  <2> QED
    BY <1>2, <2>1 DEF Range
<1>6. x \in Range(a)
  <2>1. Len(q) + 1 \in 1 .. Len(q) + 1 /\ a[Len(q) + 1] = x
    BY <1>2, <1>3
  <2> QED
    BY <1>2, <2>1 DEF Range
<1>7. Range(q) \subseteq Range(a)
  BY <1>2, <1>5 DEF Range
<1>8. Range(a) = Range(q) \cup {x}
  BY <1>4, <1>6, <1>7
<1> QED
  BY <1>1, <1>2, <1>3, <1>8 DEF a

(* Push drops the oldest entry at the limit, and adds nothing but x. *)
LEMMA PushIs ==
  ASSUME NEW S, NEW q \in Seq(S), NEW x \in S, Len(q) <= HistoryLimit
  PROVE  /\ Push(q, x) \in Seq(S)
         /\ Len(Push(q, x)) <= HistoryLimit /\ Push(q, x) # <<>>
         /\ Range(Push(q, x)) \subseteq Range(q) \cup {x}
<1>0. HistoryLimit \in Nat \ {0} /\ Len(q) \in Nat
  BY EditorBounds
<1>1. CASE Len(q) < HistoryLimit
  <2>1. Push(q, x) = Append(q, x)
    BY <1>1 DEF Push
  <2> QED
    BY <1>0, <1>1, <2>1, AppendIs
<1>2. CASE ~(Len(q) < HistoryLimit)
  <2> DEFINE t == Tail(q)
  <2>1. Push(q, x) = Append(t, x)
    BY <1>2 DEF Push
  <2>2. q # <<>>
    BY <1>0, <1>2
  <2>3. t \in Seq(S) /\ Len(t) = Len(q) - 1 /\ \A n \in 1 .. Len(t) : t[n] = q[n + 1]
    BY <2>2, HeadTailProperties
  <2>4. \A n \in 1 .. Len(t) : t[n] \in Range(q)
    BY <1>0, <2>3 DEF Range
  <2> HIDE DEF t
  <2>5. DOMAIN t = 1 .. Len(t)
    BY <2>3, LenProperties
  <2>6. Range(t) \subseteq Range(q)
    BY <2>4, <2>5 DEF Range
  <2> QED
    BY <1>0, <2>1, <2>3, <2>6, AppendIs
<1> QED
  BY <1>1, <1>2

(* undo and redo take the newest entry off. *)
LEMMA PopIs ==
  ASSUME NEW S, NEW q \in Seq(S), q # <<>>
  PROVE  /\ Front(q) \in Seq(S) /\ Len(Front(q)) = Len(q) - 1
         /\ Range(Front(q)) \subseteq Range(q)
         /\ Last(q) \in Range(q) /\ Last(q) \in S
<1>1. Len(q) \in Nat \ {0} /\ DOMAIN q = 1 .. Len(q)
  BY EmptySeq
<1>2. \A n \in 1 .. Len(q) : q[n] \in S /\ q[n] \in Range(q)
  BY ElementOfSeq DEF Range
<1>3. /\ Front(q) \in Seq(S) /\ Len(Front(q)) = Len(q) - 1
      /\ \A n \in 1 .. Len(q) - 1 : Front(q)[n] = q[n]
  BY <1>1, <1>2 DEF Front
<1>4. Range(Front(q)) \subseteq Range(q)
  <2>1. DOMAIN Front(q) = 1 .. Len(q) - 1
    BY <1>3, LenProperties
  <2>2. \A n \in 1 .. Len(q) - 1 : Front(q)[n] \in Range(q)
    BY <1>1, <1>2, <1>3
  <2> QED
    BY <2>1, <2>2 DEF Range
<1> QED
  BY <1>1, <1>2, <1>3, <1>4 DEF Last

-----------------------------------------------------------------------------
(* Gestures *)

LEMMA EmptyIs ==
  ASSUME NEW S
  PROVE  <<>> \in Seq(S) /\ Len(<<>>) = 0 /\ Range(<<>>) = {}
<1>1. <<>> \in Seq(S) /\ Len(<<>>) = 0 /\ DOMAIN <<>> = {}
  OBVIOUS
<1> QED
  BY <1>1, Zenon DEF Range

LEMMA OneIs ==
  ASSUME NEW S, NEW x \in S
  PROVE  <<x>> \in Seq(S) /\ Len(<<x>>) = 1 /\ Range(<<x>>) = {x}
<1>1. <<x>> \in Seq(S) /\ Len(<<x>>) = 1 /\ DOMAIN <<x>> = {1} /\ <<x>>[1] = x
  OBVIOUS
<1> QED
  BY <1>1, Zenon DEF Range

LEMMA PendingIs ==
  ASSUME EditorTypeOK, HistoryKeepsSections, pending # <<>>
  PROVE  pending[1] \in Snapshots /\ pending[1].order = order
<1>1. pending \in Seq(Snapshots)
  BY DEF EditorTypeOK
<1>2. Len(pending) \in Nat \ {0} /\ DOMAIN pending = 1 .. Len(pending)
  BY <1>1, EmptySeq, LenProperties
<1>3. 1 \in 1 .. Len(pending)
  BY <1>2
<1>4. pending[1] \in Snapshots /\ pending[1] \in Range(pending)
  BY <1>1, <1>2, <1>3, ElementOfSeq DEF Range
<1> QED
  BY <1>4 DEF HistoryKeepsSections

(* Pushing a snapshot that lists the sections, for nothing to redo. *)
LEMMA PushKeeps ==
  ASSUME EditorTypeOK, HistoryKeepsSections,
         NEW q \in Seq(Snapshots), Len(q) <= HistoryLimit, \A snap \in Range(q) : snap.order = order,
         NEW x \in Snapshots, x.order = order
  PROVE  /\ Push(q, x) \in Seq(Snapshots)
         /\ Len(Push(q, x)) <= HistoryLimit /\ Push(q, x) # <<>>
         /\ \A snap \in Range(Push(q, x)) : snap.order = order
BY PushIs

LEMMA StacksAre ==
  ASSUME EditorTypeOK, HistoryKeepsSections
  PROVE  /\ undo \in Seq(Snapshots) /\ redo \in Seq(Snapshots)
         /\ Len(undo) \in Nat /\ Len(redo) \in Nat /\ HistoryLimit \in Nat
         /\ Len(undo) <= HistoryLimit /\ Len(undo) + Len(redo) <= HistoryLimit
         /\ \A snap \in Range(undo) \cup Range(redo) : snap.order = order
<1>1. undo \in Seq(Snapshots) /\ redo \in Seq(Snapshots) /\ Len(undo) + Len(redo) <= HistoryLimit
  BY DEF EditorTypeOK
<1>2. Len(undo) \in Nat /\ Len(redo) \in Nat
  BY <1>1, LenProperties
<1> QED
  BY <1>1, <1>2, EditorBounds DEF HistoryKeepsSections

(* What endCoalesce makes of the stacks. *)
StacksOK(u, r) ==
  /\ u \in Seq(Snapshots) /\ r \in Seq(Snapshots) /\ Len(u) + Len(r) <= HistoryLimit
  /\ \A snap \in Range(u) \cup Range(r) : snap.order = order

LEMMA ClosedStacks ==
  ASSUME EditorTypeOK, HistoryKeepsSections, pending # <<>>
  PROVE  StacksOK(Push(undo, pending[1]), <<>>) /\ Push(undo, pending[1]) # <<>>
<1>1. pending[1] \in Snapshots /\ pending[1].order = order
  BY PendingIs
<1>2. /\ Push(undo, pending[1]) \in Seq(Snapshots)
      /\ Len(Push(undo, pending[1])) <= HistoryLimit /\ Push(undo, pending[1]) # <<>>
      /\ \A snap \in Range(Push(undo, pending[1])) : snap.order = order
  BY <1>1, StacksAre, PushKeeps
<1>3. Len(Push(undo, pending[1])) \in Nat
  BY <1>2, LenProperties
<1> QED
  BY <1>2, <1>3, EmptyIs, EditorBounds DEF StacksOK

LEMMA OpenStacks ==
  ASSUME EditorTypeOK, HistoryKeepsSections
  PROVE  StacksOK(undo, redo)
BY StacksAre DEF StacksOK

LEMMA EndGestureIs ==
  ASSUME EditorTypeOK, HistoryKeepsSections, EndGesture
  PROVE  StacksOK(undo', redo')
BY ClosedStacks, OpenStacks DEF EndGesture

LEMMA StoredAlone ==
  ASSUME EditorInv, UNCHANGED <<known, row, req>>
  PROVE  DrawnAreStored'
BY DEF EditorInv, DrawnAreStored, At, Stored

LEMMA OneAlone ==
  ASSUME EditorInv, UNCHANGED <<saving, creating, req>>
  PROVE  OneAtATime'
BY DEF EditorInv, OneAtATime, InFlight

LEMMA ListAlone ==
  ASSUME EditorInv, UNCHANGED <<known, order, row, req>>, seen \ {"late"} \subseteq seen'
  PROVE  ListedAreKnown' /\ AnswersFitTheList'
BY DEF EditorInv, ListedAreKnown, AnswersFitTheList, InFlight, At, Stored

LEMMA DrawingAlone ==
  ASSUME EditorInv, UNCHANGED <<known, drawn, row, dirty, req>>, seen \subseteq seen'
  PROVE  CleanIsSaved' /\ AnswersFitTheDrawing'
BY DEF EditorInv, CleanIsSaved, AnswersFitTheDrawing, InFlight, At

LEMMA OrderingsAlone ==
  ASSUME EditorInv, UNCHANGED <<row, rank, req>>, seen \ {"late"} \subseteq seen'
  PROVE  OrderingsApart' /\ PlansFitTheOrderings'
<1>1. Stored' = Stored /\ ("raced" \notin seen' => "raced" \notin seen)
  BY DEF Stored
<1>2. OrderingsApart'
  BY <1>1 DEF EditorInv, OrderingsApart
<1>3. PlansFitTheOrderings'
  BY <1>1 DEF EditorInv, PlansFitTheOrderings, At
<1> QED
  BY <1>2, <1>3

(* A gesture that begins or ends disturbs nothing but the history. *)
LEMMA HistoryOnly ==
  ASSUME EditorInv, UNCHANGED <<known, drawn, order, dirty, saving, creating, server, req, seen, edits, sent>>,
         StacksOK(undo', redo'), pending' = <<>> \/ pending' = <<Snapshot>>
  PROVE  EditorInv'
<1>1. UNCHANGED <<known, drawn, order, dirty, saving, creating, row, rank, req, seen, edits, sent>>
  BY DEF server
<1>2. /\ pending' \in Seq(Snapshots) /\ Len(pending') <= 1
      /\ \A snap \in Range(pending') : snap.order = order
  <2>1. Snapshot \in Snapshots /\ Snapshot.order = order
    BY SnapshotIs DEF EditorInv
  <2>2. CASE pending' = <<>>
    BY <2>2, EmptyIs
  <2>3. CASE pending' = <<Snapshot>>
    BY <2>1, <2>3, OneIs
  <2> QED
    BY <2>2, <2>3
<1>3. EditorTypeOK'
  BY <1>1, <1>2 DEF EditorInv, EditorTypeOK, StacksOK
<1>4. HistoryKeepsSections'
  BY <1>1, <1>2 DEF HistoryKeepsSections, StacksOK
<1>5. DrawnAreStored' /\ OneAtATime'
  BY <1>1, StoredAlone, OneAlone
<1>6. ListedAreKnown' /\ AnswersFitTheList'
  BY <1>1, ListAlone
<1>7. CleanIsSaved' /\ AnswersFitTheDrawing'
  BY <1>1, DrawingAlone
<1>8. OrderingsApart' /\ PlansFitTheOrderings'
  BY <1>1, OrderingsAlone
<1> QED
  BY <1>3, <1>4, <1>5, <1>6, <1>7, <1>8 DEF EditorInv

(* A gesture that draws makes the page dirty, and leaves its mark when a   *)
(* save is under way.                                                      *)
LEMMA DrawingOnly ==
  ASSUME EditorInv, UNCHANGED <<known, order, saving, creating, server, req, sent>>,
         EditorTypeOK', HistoryKeepsSections',
         dirty', seen \subseteq seen', saving => "late" \in seen'
  PROVE  EditorInv'
<1>1. UNCHANGED <<known, order, saving, creating, row, rank, req, sent>>
  BY DEF server
<1>2. DrawnAreStored' /\ OneAtATime'
  BY <1>1, StoredAlone, OneAlone
<1>3. ListedAreKnown' /\ AnswersFitTheList'
  BY <1>1, ListAlone
<1>5. CleanIsSaved'
  BY DEF CleanIsSaved
<1>6. InFlight("save")' = InFlight("save")
  BY <1>1 DEF InFlight
<1>7. "late" \in seen' \/ InFlight("save")' = {}
  BY <1>6 DEF EditorInv, OneAtATime
<1>8. AnswersFitTheDrawing'
  BY <1>1, <1>7 DEF EditorInv, AnswersFitTheDrawing, At
<1>9. OrderingsApart' /\ PlansFitTheOrderings'
  BY <1>1, OrderingsAlone
<1> QED
  BY <1>2, <1>3, <1>5, <1>8, <1>9 DEF EditorInv

LEMMA BeginInv == ASSUME EditorInv, Begin PROVE EditorInv'
BY HistoryOnly, EndGestureIs DEF Begin, EditorInv

LEMMA EndInv == ASSUME EditorInv, End PROVE EditorInv'
BY HistoryOnly, EndGestureIs DEF End, EditorInv

(* A value under a gesture: the baseline stays pending. *)
LEMMA InputInv ==
  ASSUME EditorInv, NEW i \in Key, NEW v \in Look, Input(i, v)
  PROVE  EditorInv'
<1>1. /\ edits < MaxEdit /\ edits' = edits + 1 /\ i \in known
      /\ drawn' = [drawn EXCEPT ![i] = v] /\ dirty'
      /\ seen' = seen \cup (IF pending = <<>> THEN {"loose"} ELSE {})
                      \cup (IF saving THEN {"late"} ELSE {})
      /\ UNCHANGED <<known, order, undo, redo, pending, saving, creating, row, rank, req, sent>>
  BY DEF Input, server
<1>2. EditorTypeOK'
  <2>1. seen' \subseteq Events
    BY <1>1 DEF EditorInv, EditorTypeOK, Events
  <2>2. edits' \in 0 .. MaxEdit
    BY <1>1, EditorBounds DEF EditorInv, EditorTypeOK
  <2>3. drawn' \in [Key -> Look \cup {"absent"}] /\ \A k \in known : drawn'[k] \in Look
    BY <1>1 DEF EditorInv, EditorTypeOK
  <2>4. dirty' \in BOOLEAN
    BY DEF Input
  <2> QED
    BY <1>1, <2>1, <2>2, <2>3, <2>4 DEF EditorInv, EditorTypeOK
<1>3. HistoryKeepsSections'
  BY <1>1 DEF EditorInv, HistoryKeepsSections
<1>4. seen \subseteq seen' /\ (saving => "late" \in seen')
  BY <1>1
<1> QED
  BY <1>1, <1>2, <1>3, <1>4, DrawingOnly DEF server

(* A control that is a gesture of its own: the one before is closed, and   *)
(* the look before it is kept.                                             *)
LEMMA StepInv ==
  ASSUME EditorInv, NEW i \in Key, NEW v \in Look, Step(i, v)
  PROVE  EditorInv'
<1> DEFINE was  == Snapshot
           now  == [was EXCEPT !.look = [j \in DOMAIN @ |-> IF j = i THEN v ELSE @[j]]]
           open == pending # <<>> /\ pending[1] # was
           base == IF open THEN Push(undo, pending[1]) ELSE undo
           left == IF open THEN <<>> ELSE redo
<1>1. /\ edits < MaxEdit /\ edits' = edits + 1 /\ i \in known
      /\ undo' = IF now # was THEN Push(base, was) ELSE base
      /\ redo' = IF now # was \/ open THEN <<>> ELSE redo
      /\ drawn' = [drawn EXCEPT ![i] = v] /\ dirty' /\ pending' = <<>>
      /\ seen' = seen \cup (IF saving THEN {"late"} ELSE {})
      /\ UNCHANGED <<known, order, saving, creating, row, rank, req, sent>>
  BY DEF Step, server
<1>2. was \in Snapshots /\ was.order = order
  BY SnapshotIs DEF EditorInv
<1>3. StacksOK(base, left)
  BY ClosedStacks, OpenStacks DEF EditorInv
<1>4. StacksOK(undo', redo')
  <2>1. CASE now # was
    <3>1. /\ base \in Seq(Snapshots) /\ Len(base) <= HistoryLimit
          /\ \A snap \in Range(base) : snap.order = order
      <4>1. base \in Seq(Snapshots) /\ left \in Seq(Snapshots) /\ Len(base) + Len(left) <= HistoryLimit
        BY <1>3 DEF StacksOK
      <4>2. Len(base) \in Nat /\ Len(left) \in Nat
        BY <4>1, LenProperties
      <4> HIDE DEF base, left
      <4> QED
        BY <1>3, <4>1, <4>2, EditorBounds DEF StacksOK
    <3> HIDE DEF base, was, now, open
    <3>2. /\ Push(base, was) \in Seq(Snapshots) /\ Len(Push(base, was)) <= HistoryLimit
          /\ \A snap \in Range(Push(base, was)) : snap.order = order
      BY <1>2, <3>1, PushKeeps DEF EditorInv
    <3>3. Len(Push(base, was)) \in Nat
      BY <3>2, LenProperties
    <3>4. undo' = Push(base, was) /\ redo' = <<>>
      BY <1>1, <2>1
    <3> QED
      BY <3>2, <3>3, <3>4, EmptyIs, EditorBounds DEF StacksOK
  <2>2. CASE ~(now # was)
    <3>1. undo' = base /\ redo' = left
      BY <1>1, <2>2
    <3> QED
      BY <1>3, <3>1
  <2> QED
    BY <2>1, <2>2
<1> HIDE DEF was, now, open, base, left
<1>5. EditorTypeOK'
  <2>1. seen' \subseteq Events
    BY <1>1 DEF EditorInv, EditorTypeOK, Events
  <2>2. edits' \in 0 .. MaxEdit
    BY <1>1, EditorBounds DEF EditorInv, EditorTypeOK
  <2>3. drawn' \in [Key -> Look \cup {"absent"}] /\ \A k \in known : drawn'[k] \in Look
    BY <1>1 DEF EditorInv, EditorTypeOK
  <2>4. dirty' \in BOOLEAN
    BY DEF Step
  <2>5. pending' \in Seq(Snapshots) /\ Len(pending') <= 1
    BY <1>1, EmptyIs
  <2> QED
    BY <1>1, <1>4, <2>1, <2>2, <2>3, <2>4, <2>5 DEF EditorInv, EditorTypeOK, StacksOK
<1>6. HistoryKeepsSections'
  BY <1>1, <1>4, EmptyIs DEF HistoryKeepsSections, StacksOK
<1>7. seen \subseteq seen' /\ (saving => "late" \in seen')
  BY <1>1
<1> QED
  BY <1>1, <1>5, <1>6, <1>7, DrawingOnly DEF server

(* Undo and redo bring back a look, and with it the list as it is.         *)
LEMMA RestoreInv ==
  ASSUME EditorInv, NEW snap \in Snapshots, snap.order = order, Restore(snap),
         pending' = <<>>, StacksOK(undo', redo')
  PROVE  EditorInv'
<1>1. /\ drawn' = [k \in Key |-> IF k \in DOMAIN snap.look /\ k \in known
                                 THEN snap.look[k] ELSE drawn[k]]
      /\ order' = order /\ dirty'
      /\ seen' = seen \cup (IF saving THEN {"late"} ELSE {})
      /\ UNCHANGED <<known, saving, creating, row, rank, req, edits, sent>>
  BY DEF Restore, server
<1>2. \A k \in DOMAIN snap.look : snap.look[k] \in Look
  BY DEF Snapshots
<1>3. EditorTypeOK'
  <2>1. seen' \subseteq Events
    BY <1>1 DEF EditorInv, EditorTypeOK, Events
  <2>2. drawn' \in [Key -> Look \cup {"absent"}] /\ \A k \in known : drawn'[k] \in Look
    BY <1>1, <1>2 DEF EditorInv, EditorTypeOK
  <2>3. dirty' \in BOOLEAN
    BY DEF Restore
  <2>4. pending' \in Seq(Snapshots) /\ Len(pending') <= 1
    BY EmptyIs
  <2> QED
    BY <1>1, <2>1, <2>2, <2>3, <2>4 DEF EditorInv, EditorTypeOK, StacksOK
<1>4. HistoryKeepsSections'
  BY <1>1, EmptyIs DEF HistoryKeepsSections, StacksOK
<1>5. seen \subseteq seen' /\ (saving => "late" \in seen')
  BY <1>1
<1> QED
  BY <1>1, <1>3, <1>4, <1>5, DrawingOnly DEF server

(* One snapshot goes from one stack to the other, with the present in its  *)
(* place.                                                                  *)
LEMMA Exchange ==
  ASSUME EditorInv, NEW u, NEW r, StacksOK(u, r), u # <<>>
  PROVE  /\ StacksOK(Front(u), Append(r, Snapshot)) /\ StacksOK(Append(r, Snapshot), Front(u))
         /\ Last(u) \in Snapshots /\ Last(u).order = order
<1>1. /\ u \in Seq(Snapshots) /\ r \in Seq(Snapshots) /\ Len(u) + Len(r) <= HistoryLimit
      /\ \A snap \in Range(u) \cup Range(r) : snap.order = order
  BY DEF StacksOK
<1>2. Snapshot \in Snapshots /\ Snapshot.order = order
  BY SnapshotIs DEF EditorInv
<1>3. /\ Front(u) \in Seq(Snapshots) /\ Len(Front(u)) = Len(u) - 1 /\ Range(Front(u)) \subseteq Range(u)
      /\ Last(u) \in Range(u) /\ Last(u) \in Snapshots
  BY <1>1, PopIs
<1>4. Append(r, Snapshot) \in Seq(Snapshots) /\ Len(Append(r, Snapshot)) = Len(r) + 1
  BY <1>1, <1>2, AppendIs
<1>5. Len(u) \in Nat /\ Len(r) \in Nat
  BY <1>1, LenProperties
<1>6. Range(Append(r, Snapshot)) = Range(r) \cup {Snapshot}
  BY <1>1, <1>2, AppendIs
<1>7. Len(Front(u)) + Len(Append(r, Snapshot)) <= HistoryLimit
      /\ Len(Append(r, Snapshot)) + Len(Front(u)) <= HistoryLimit
  BY <1>1, <1>3, <1>4, <1>5, EditorBounds
<1> QED
  BY <1>1, <1>2, <1>3, <1>4, <1>6, <1>7 DEF StacksOK

LEMMA UndoInv == ASSUME EditorInv, Undo PROVE EditorInv'
<1> DEFINE open == pending # <<>> /\ pending[1] # Snapshot
           u    == IF open THEN Push(undo, pending[1]) ELSE undo
           r    == IF open THEN <<>> ELSE redo
<1>1. /\ u # <<>> /\ undo' = Front(u) /\ redo' = Append(r, Snapshot)
      /\ pending' = <<>> /\ Restore(Last(u))
  BY DEF Undo
<1>2. StacksOK(u, r)
  BY ClosedStacks, OpenStacks DEF EditorInv
<1> HIDE DEF u, r
<1> QED
  BY <1>1, <1>2, Exchange, RestoreInv

LEMMA RedoInv == ASSUME EditorInv, Redo PROVE EditorInv'
<1>1. StacksOK(redo, undo)
  BY StacksAre DEF EditorInv, StacksOK
<1> QED
  BY <1>1, Exchange, RestoreInv DEF Redo

-----------------------------------------------------------------------------
(* A step of one request: what must hold of it for each part to stay true  *)

Only(s) == \A x \in Slot \ {s} : req'[x] = req[x]

LEMMA ReqIs ==
  ASSUME EditorInv, NEW s \in Slot, NEW r \in Request, req' = [req EXCEPT ![s] = r]
  PROVE  Only(s) /\ req'[s] = r /\ req' \in [Slot -> Request]
BY DEF EditorInv, EditorTypeOK, Only

LEMMA TypesAlone ==
  ASSUME EditorInv, UNCHANGED <<known, drawn, order, undo, redo, pending>>,
         {dirty', saving', creating'} \subseteq BOOLEAN,
         row' \in [Key -> Look \cup {"absent"}], rank' \in [Key -> 0..Cardinality(Key)],
         req' \in [Slot -> Request], seen' \subseteq Events,
         edits' \in 0..MaxEdit, sent' \in 0..MaxRequest
  PROVE  EditorTypeOK' /\ HistoryKeepsSections'
<1>1. EditorTypeOK'
  BY DEF EditorInv, EditorTypeOK
<1>2. HistoryKeepsSections'
  BY DEF EditorInv, HistoryKeepsSections
<1> QED
  BY <1>1, <1>2

LEMMA StoredOf ==
  ASSUME EditorInv, NEW s \in Slot, Only(s), known' \subseteq Stored', Stored \subseteq Stored', known \subseteq known',
         At(s, "create", "created")' => req'[s].id \in Stored',
         At(s, "reorder", "load")' => req'[s].id \in Stored',
         At(s, "reorder", "read")' => req'[s].id \in Stored',
         At(s, "reorder", "swap")' => DOMAIN req'[s].new \subseteq Stored',
         At(s, "save", "write")' /\ req'[s].mine => DOMAIN req'[s].rows \subseteq known'
  PROVE  DrawnAreStored'
<1> SUFFICES ASSUME NEW x \in Slot
             PROVE  /\ At(x, "create", "created")' => req'[x].id \in Stored'
                    /\ At(x, "reorder", "load")' => req'[x].id \in Stored'
                    /\ At(x, "reorder", "read")' => req'[x].id \in Stored'
                    /\ At(x, "reorder", "swap")' => DOMAIN req'[x].new \subseteq Stored'
                    /\ At(x, "save", "write")' /\ req'[x].mine => DOMAIN req'[x].rows \subseteq known'
  BY DEF DrawnAreStored
<1>1. CASE x = s
  BY <1>1
<1>2. CASE x # s
  <2>1. req'[x] = req[x]
    BY <1>2 DEF Only
  <2> QED
    BY <2>1 DEF EditorInv, DrawnAreStored, At
<1> QED
  BY <1>1, <1>2

LEMMA StoredSame == row' = row => Stored' = Stored
BY DEF Stored

LEMMA FlightOf ==
  ASSUME NEW s \in Slot, Only(s), NEW k
  PROVE  /\ s \in InFlight(k)' => InFlight(k)' = InFlight(k) \cup {s}
         /\ s \notin InFlight(k)' => InFlight(k)' = InFlight(k) \ {s}
BY DEF InFlight, Only

LEMMA OneOf ==
  ASSUME EditorInv, NEW s \in Slot, Only(s), UNCHANGED <<saving, creating>>,
         s \in InFlight("save")' <=> s \in InFlight("save"),
         s \in InFlight("create")' <=> s \in InFlight("create")
  PROVE  OneAtATime'
<1>1. InFlight("save")' = InFlight("save")
  BY FlightOf
<1>2. InFlight("create")' = InFlight("create")
  BY FlightOf
<1> QED
  BY <1>1, <1>2 DEF EditorInv, OneAtATime

LEMMA FitsOf ==
  ASSUME EditorInv, NEW s \in Slot, Only(s), UNCHANGED known, Stored' = Stored,
         seen \ {"late"} \subseteq seen',
         seen' \cap {"strangers", "mixed"} = {} =>
            /\ s \in InFlight("create")' =>
                  s \in InFlight("create") \/ InFlight("reorder") \subseteq {s}
            /\ s \in InFlight("reorder")' =>
                  s \in InFlight("reorder") \/ InFlight("create") \subseteq {s}
            /\ ~(s \in InFlight("create")' /\ s \in InFlight("reorder")')
            /\ At(s, "create", "created") => At(s, "create", "created")' /\ req'[s].id = req[s].id
            /\ At(s, "create", "created")' => req'[s].id \notin known
            /\ At(s, "reorder", "moved")' => IsInjective(req'[s].order) /\ Range(req'[s].order) = known
  PROVE  AnswersFitTheList'
<1>2. ASSUME seen' \cap {"strangers", "mixed"} = {}
      PROVE  /\ InFlight("create")' = {} \/ InFlight("reorder")' = {}
             /\ \A i \in Stored' \ known' : \E x \in Slot : At(x, "create", "created")' /\ req'[x].id = i
             /\ \A x \in Slot : At(x, "create", "created")' => req'[x].id \notin known'
             /\ \A x \in Slot : At(x, "reorder", "moved")' =>
                  IsInjective(req'[x].order) /\ Range(req'[x].order) = known'
  <2>1. /\ InFlight("create") = {} \/ InFlight("reorder") = {}
        /\ \A i \in Stored \ known : \E x \in Slot : At(x, "create", "created") /\ req[x].id = i
        /\ \A x \in Slot : At(x, "create", "created") => req[x].id \notin known
        /\ \A x \in Slot : At(x, "reorder", "moved") =>
             IsInjective(req[x].order) /\ Range(req[x].order) = known
    BY <1>2 DEF EditorInv, AnswersFitTheList
  <2>2. InFlight("create")' = {} \/ InFlight("reorder")' = {}
    <3>1. /\ InFlight("create")' \subseteq InFlight("create") \cup {s}
          /\ InFlight("reorder")' \subseteq InFlight("reorder") \cup {s}
      BY FlightOf
    <3>2. CASE s \in InFlight("create")'
      <4>1. s \notin InFlight("reorder")' /\ InFlight("reorder") \subseteq {s}
        BY <1>2, <2>1, <3>2
      <4> QED
        BY <3>1, <4>1
    <3>3. CASE s \in InFlight("reorder")'
      <4>1. s \notin InFlight("create")' /\ InFlight("create") \subseteq {s}
        BY <1>2, <2>1, <3>3
      <4> QED
        BY <3>1, <4>1
    <3>4. CASE s \notin InFlight("create")' /\ s \notin InFlight("reorder")'
      BY <2>1, <3>1, <3>4
    <3> QED
      BY <3>2, <3>3, <3>4
  <2>3. Stored' = Stored /\ known' = known
    OBVIOUS
  <2>4. \A x \in Slot : x # s => req'[x] = req[x]
    BY DEF Only
  <2>5. ASSUME NEW i \in Stored \ known
        PROVE  \E x \in Slot : At(x, "create", "created")' /\ req'[x].id = i
    <3>1. PICK x \in Slot : At(x, "create", "created") /\ req[x].id = i
      BY <2>1
    <3>2. CASE x = s
      BY <1>2, <3>1, <3>2
    <3>3. CASE x # s
      BY <2>4, <3>1, <3>3 DEF At
    <3> QED
      BY <3>2, <3>3
  <2>6. ASSUME NEW x \in Slot
        PROVE  /\ At(x, "create", "created")' => req'[x].id \notin known
               /\ At(x, "reorder", "moved")' =>
                    IsInjective(req'[x].order) /\ Range(req'[x].order) = known
    <3>1. CASE x = s
      BY <1>2, <3>1
    <3>2. CASE x # s
      <4>1. req'[x] = req[x]
        BY <2>4, <3>2
      <4> QED
        BY <2>1, <4>1 DEF At
    <3> QED
      BY <3>1, <3>2
  <2> QED
    BY <2>2, <2>3, <2>5, <2>6
<1> QED
  BY <1>2 DEF AnswersFitTheList

LEMMA ListOf ==
  ASSUME EditorInv, NEW s \in Slot, Only(s), UNCHANGED <<known, order>>, Stored' = Stored,
         seen \ {"late"} \subseteq seen',
         seen' \cap {"strangers", "mixed"} = {} =>
            /\ s \in InFlight("create")' =>
                  s \in InFlight("create") \/ InFlight("reorder") \subseteq {s}
            /\ s \in InFlight("reorder")' =>
                  s \in InFlight("reorder") \/ InFlight("create") \subseteq {s}
            /\ ~(s \in InFlight("create")' /\ s \in InFlight("reorder")')
            /\ At(s, "create", "created") => At(s, "create", "created")' /\ req'[s].id = req[s].id
            /\ At(s, "create", "created")' => req'[s].id \notin known
            /\ At(s, "reorder", "moved")' => IsInjective(req'[s].order) /\ Range(req'[s].order) = known
  PROVE  ListedAreKnown' /\ AnswersFitTheList'
<1>1. ListedAreKnown'
  BY DEF EditorInv, ListedAreKnown
<1>2. AnswersFitTheList'
  BY FitsOf
<1> QED
  BY <1>1, <1>2

LEMMA DrawingOf ==
  ASSUME EditorInv, NEW s \in Slot, Only(s), UNCHANGED <<known, drawn, row, dirty>>,
         seen \subseteq seen' \/ (InFlight("save") = {} /\ dirty /\ seen \ {"late"} \subseteq seen'),
         seen' \cap {"overwritten", "strangers", "mixed"} = {} =>
            /\ At(s, "create", "created")' => row[req'[s].id] = Fresh
            /\ "late" \notin seen' /\ s \in InFlight("save")' =>
                 /\ req'[s].step = "write" => \A i \in known :
                      IF i \in DOMAIN req'[s].rows THEN drawn[i] = req'[s].rows[i]
                                                    ELSE row[i] = Clamp[drawn[i]]
                 /\ req'[s].step = "answer" /\ ~req'[s].errors =>
                      \A i \in known : row[i] = Clamp[drawn[i]]
  PROVE  CleanIsSaved' /\ AnswersFitTheDrawing'
<1>1. CleanIsSaved'
  BY DEF EditorInv, CleanIsSaved
<1>2. ASSUME seen' \cap {"overwritten", "strangers", "mixed"} = {}, NEW x \in Slot, At(x, "create", "created")'
      PROVE  row'[req'[x].id] = Fresh
  <2>1. CASE x = s
    BY <1>2, <2>1
  <2>2. CASE x # s
    <3>1. req'[x] = req[x]
      BY <2>2 DEF Only
    <3> QED
      BY <1>2, <3>1 DEF EditorInv, AnswersFitTheDrawing, At
  <2> QED
    BY <2>1, <2>2
<1>3. ASSUME seen' \cap {"late", "overwritten", "strangers", "mixed"} = {}, NEW x \in InFlight("save")'
      PROVE  /\ req'[x].step = "write" => \A i \in known :
                  IF i \in DOMAIN req'[x].rows THEN drawn[i] = req'[x].rows[i]
                                                ELSE row[i] = Clamp[drawn[i]]
             /\ req'[x].step = "answer" /\ ~req'[x].errors =>
                  \A i \in known : row[i] = Clamp[drawn[i]]
  <2>1. CASE x = s
    BY <1>3, <2>1
  <2>2. CASE x # s
    <3>1. x \in Slot /\ req'[x] = req[x] /\ x \in InFlight("save")
      BY <2>2 DEF Only, InFlight
    <3>2. seen \cap {"late", "overwritten", "strangers", "mixed"} = {}
      BY <1>3, <3>1
    <3> QED
      BY <3>1, <3>2 DEF EditorInv, AnswersFitTheDrawing
  <2> QED
    BY <2>1, <2>2
<1>4. AnswersFitTheDrawing'
  BY <1>2, <1>3 DEF AnswersFitTheDrawing
<1> QED
  BY <1>1, <1>4

LEMMA OrderingsOf ==
  ASSUME EditorInv, NEW s \in Slot, Only(s), UNCHANGED rank, Stored' = Stored,
         seen \ {"late"} \subseteq seen',
         "raced" \notin seen' =>
            /\ At(s, "create", "insert")' => req'[s].count = Cardinality(Stored)
            /\ At(s, "reorder", "read")' => req'[s].own = rank[req'[s].id]
            /\ At(s, "reorder", "swap")' =>
                 \E i, j \in Stored : /\ DOMAIN req'[s].new = {i, j}
                                      /\ req'[s].new[i] = rank[j] /\ req'[s].new[j] = rank[i]
  PROVE  OrderingsApart' /\ PlansFitTheOrderings'
<1>1. Stored' = Stored /\ ("raced" \notin seen' => "raced" \notin seen)
  OBVIOUS
<1>2. OrderingsApart'
  BY <1>1 DEF EditorInv, OrderingsApart
<1>3. ASSUME "raced" \notin seen', NEW x \in Slot
      PROVE  /\ At(x, "create", "insert")' => req'[x].count = Cardinality(Stored)
             /\ At(x, "reorder", "read")' => req'[x].own = rank[req'[x].id]
             /\ At(x, "reorder", "swap")' =>
                  \E i, j \in Stored : /\ DOMAIN req'[x].new = {i, j}
                                       /\ req'[x].new[i] = rank[j] /\ req'[x].new[j] = rank[i]
  <2>1. CASE x = s
    BY <1>3, <2>1
  <2>2. CASE x # s
    <3>1. req'[x] = req[x]
      BY <2>2 DEF Only
    <3> QED
      BY <1>1, <1>3, <3>1 DEF EditorInv, PlansFitTheOrderings, At
  <2> QED
    BY <2>1, <2>2
<1>4. PlansFitTheOrderings'
  BY <1>1, <1>3 DEF EditorInv, PlansFitTheOrderings
<1> QED
  BY <1>2, <1>4

-----------------------------------------------------------------------------
(* Requests are sent                                                       *)

LEMMA SendIs ==
  ASSUME EditorInv, NEW s \in Slot, NEW r \in Request, Send(s, r)
  PROVE  /\ Only(s) /\ req'[s] = r /\ req' \in [Slot -> Request]
         /\ req[s] = Idle /\ sent' \in 0 .. MaxRequest
<1>1. sent' \in 0 .. MaxRequest
  BY EditorBounds DEF Send, EditorInv, EditorTypeOK
<1> QED
  BY <1>1, ReqIs DEF Send

LEMMA IdleIs ==
  ASSUME NEW s \in Slot, req[s] = Idle
  PROVE  /\ \A k \in {"create", "reorder", "save"} : s \notin InFlight(k)
         /\ \A st : ~At(s, "create", st)
BY DEF Idle, InFlight, At

LEMMA NewSectionInv ==
  ASSUME EditorInv, NEW s \in Slot, NewSection(s)
  PROVE  EditorInv'
<1> DEFINE r == [kind |-> "create", step |-> "count", mine |-> TRUE]
<1>1. /\ ~creating /\ creating' = TRUE /\ Send(s, r)
      /\ seen' = seen \cup (IF InFlight("reorder") # {} THEN {"mixed"} ELSE {})
      /\ UNCHANGED <<known, drawn, order, undo, redo, pending, dirty, saving, row, rank, edits>>
  BY DEF NewSection, server
<1>2. r \in Request
  BY DEF Request, Counting
<1>3. /\ Only(s) /\ req'[s] = r /\ req' \in [Slot -> Request]
      /\ req[s] = Idle /\ sent' \in 0 .. MaxRequest
  BY <1>1, <1>2, SendIs
<1>4. /\ s \in InFlight("create")' /\ s \notin InFlight("reorder")' /\ s \notin InFlight("save")'
      /\ \A k, st : At(s, k, st)' => k = "create" /\ st = "count"
  BY <1>3 DEF InFlight, At
<1>5. EditorTypeOK' /\ HistoryKeepsSections'
  BY <1>1, <1>3, TypesAlone DEF EditorInv, EditorTypeOK, Events
<1>6. DrawnAreStored'
  BY <1>1, <1>3, <1>4, StoredOf DEF EditorInv, DrawnAreStored, Stored
<1>7. OneAtATime'
  <2>0. InFlight("create") = {}
    BY <1>1 DEF EditorInv, OneAtATime
  <2>1. InFlight("create")' = {s}
    BY <1>3, <1>4, <2>0, FlightOf
  <2>2. InFlight("save")' = InFlight("save")
    BY <1>3, <1>4, IdleIs, FlightOf
  <2>3. /\ saving = (InFlight("save") # {}) /\ \A x, y \in InFlight("save") : x = y
    BY DEF EditorInv, OneAtATime
  <2> QED
    BY <1>1, <2>1, <2>2, <2>3 DEF OneAtATime
<1>8. ListedAreKnown' /\ AnswersFitTheList'
  BY <1>1, <1>3, <1>4, IdleIs, StoredSame, ListOf
<1>9. CleanIsSaved' /\ AnswersFitTheDrawing'
  BY <1>1, <1>3, <1>4, DrawingOf
<1>10. OrderingsApart' /\ PlansFitTheOrderings'
  BY <1>1, <1>3, <1>4, StoredSame, OrderingsOf
<1> QED
  BY <1>5, <1>6, <1>7, <1>8, <1>9, <1>10 DEF EditorInv

(* What another tab sends is no request of the editor's. *)
LEMMA ElsewhereInv ==
  ASSUME EditorInv, NEW s \in Slot, NEW r \in Request, Send(s, r), ~r.mine,
         r.step \in {"count", "load", "write"}, r.step = "load" => r.id \in Stored,
         UNCHANGED <<client, server, seen, edits>>
  PROVE  EditorInv'
<1>1. UNCHANGED <<known, drawn, order, undo, redo, pending, dirty, saving, creating, row, rank, seen, edits>>
  BY DEF client, server
<1>2. /\ Only(s) /\ req'[s] = r /\ req' \in [Slot -> Request]
      /\ req[s] = Idle /\ sent' \in 0 .. MaxRequest
  BY SendIs
<1>3. /\ \A k : s \notin InFlight(k)'
      /\ \A k, st : At(s, k, st)' => st \in {"count", "load", "write"}
  BY <1>2 DEF InFlight, At
<1>4. EditorTypeOK' /\ HistoryKeepsSections'
  BY <1>1, <1>2, TypesAlone DEF EditorInv, EditorTypeOK
<1>5. DrawnAreStored'
  BY <1>1, <1>2, <1>3, StoredOf DEF EditorInv, DrawnAreStored, Stored, At
<1>6. OneAtATime'
  BY <1>1, <1>2, <1>3, IdleIs, OneOf
<1>7. ListedAreKnown' /\ AnswersFitTheList'
  BY <1>1, <1>2, <1>3, IdleIs, StoredSame, ListOf
<1>8. CleanIsSaved' /\ AnswersFitTheDrawing'
  BY <1>1, <1>2, <1>3, DrawingOf
<1>9. OrderingsApart' /\ PlansFitTheOrderings'
  BY <1>1, <1>2, <1>3, StoredSame, OrderingsOf
<1> QED
  BY <1>4, <1>5, <1>6, <1>7, <1>8, <1>9 DEF EditorInv

LEMMA BoundsAreLooks == InBounds \subseteq Look
BY ServerClamps DEF InBounds, Range

LEMMA AskedElsewhereInv ==
  ASSUME EditorInv, NEW s \in Slot,
         \/ NewSectionElsewhere(s)
         \/ \E v \in [First -> InBounds] : SaveElsewhere(s, v)
         \/ \E i \in Key, d \in {"up", "down"} : ReorderElsewhere(s, i, d)
  PROVE  EditorInv'
<1>1. CASE NewSectionElsewhere(s)
  <2>1. [kind |-> "create", step |-> "count", mine |-> FALSE] \in Request
    BY DEF Request, Counting
  <2> QED
    BY <1>1, <2>1, ElsewhereInv DEF NewSectionElsewhere
<1>2. ASSUME NEW v \in [First -> InBounds], SaveElsewhere(s, v)
      PROVE  EditorInv'
  <2>1. v \in UNION {[D -> Look] : D \in SUBSET Key}
    BY BoundsAreLooks, SectionKeys
  <2>2. [kind |-> "save", step |-> "write", mine |-> FALSE, rows |-> v] \in Storing
    BY <2>1 DEF Storing
  <2>3. [kind |-> "save", step |-> "write", mine |-> FALSE, rows |-> v] \in Request
    BY <2>2 DEF Request
  <2> QED
    BY <1>2, <2>3, ElsewhereInv DEF SaveElsewhere
<1>3. ASSUME NEW i \in Key, NEW d \in {"up", "down"}, ReorderElsewhere(s, i, d)
      PROVE  EditorInv'
  <2>1. [kind |-> "reorder", step |-> "load", mine |-> FALSE, id |-> i, dir |-> d] \in Request
    BY DEF Request, Loading
  <2> QED
    BY <1>3, <2>1, ElsewhereInv DEF ReorderElsewhere
<1> QED
  BY <1>1, <1>2, <1>3

LEMMA ReorderInv ==
  ASSUME EditorInv, NEW s \in Slot, NEW i \in Key, NEW d \in {"up", "down"}, Reorder(s, i, d)
  PROVE  EditorInv'
<1> DEFINE r == [kind |-> "reorder", step |-> "load", mine |-> TRUE, id |-> i, dir |-> d]
<1>1. /\ i \in known /\ Send(s, r)
      /\ seen' = seen \cup (IF InFlight("create") # {} THEN {"mixed"} ELSE {})
      /\ UNCHANGED <<known, drawn, order, undo, redo, pending, dirty, saving, creating, row, rank, edits>>
  BY DEF Reorder, server, client
<1>2. r \in Request
  BY DEF Request, Loading
<1>3. /\ Only(s) /\ req'[s] = r /\ req' \in [Slot -> Request]
      /\ req[s] = Idle /\ sent' \in 0 .. MaxRequest
  BY <1>1, <1>2, SendIs
<1>4. /\ s \notin InFlight("create")' /\ s \notin InFlight("save")' /\ i \in Stored
      /\ \A k, st : At(s, k, st)' => k = "reorder" /\ st = "load" /\ req'[s].id = i
  BY <1>1, <1>3 DEF InFlight, At, EditorInv, DrawnAreStored
<1>5. EditorTypeOK' /\ HistoryKeepsSections'
  BY <1>1, <1>3, TypesAlone DEF EditorInv, EditorTypeOK, Events
<1>6. DrawnAreStored'
  BY <1>1, <1>3, <1>4, StoredOf DEF EditorInv, DrawnAreStored, Stored
<1>7. OneAtATime'
  BY <1>1, <1>3, <1>4, IdleIs, OneOf
<1>8. ListedAreKnown' /\ AnswersFitTheList'
  BY <1>1, <1>3, <1>4, IdleIs, StoredSame, ListOf
<1>9. CleanIsSaved' /\ AnswersFitTheDrawing'
  BY <1>1, <1>3, <1>4, DrawingOf
<1>10. OrderingsApart' /\ PlansFitTheOrderings'
  BY <1>1, <1>3, <1>4, StoredSame, OrderingsOf
<1> QED
  BY <1>5, <1>6, <1>7, <1>8, <1>9, <1>10 DEF EditorInv

(* A save takes along everything that is drawn. *)
LEMMA SaveInv ==
  ASSUME EditorInv, NEW s \in Slot, Save(s)
  PROVE  EditorInv'
<1> DEFINE v == [i \in Range(order) |-> drawn[i]]
           r == [kind |-> "save", step |-> "write", mine |-> TRUE, rows |-> v]
<1>1. /\ dirty /\ ~saving /\ saving' = TRUE /\ Range(order) \subseteq known /\ Send(s, r)
      /\ seen' = seen \ {"late"}
      /\ UNCHANGED <<known, drawn, order, undo, redo, pending, dirty, creating, row, rank, edits>>
  BY DEF Save, server
<1>2. r \in Request
  <2>1. Range(order) \in SUBSET Key /\ \A i \in Range(order) : drawn[i] \in Look
    BY <1>1 DEF EditorInv, EditorTypeOK
  <2>2. v \in [Range(order) -> Look]
    BY <2>1
  <2>3. v \in UNION {[D -> Look] : D \in SUBSET Key}
    BY <2>1, <2>2
  <2>4. r \in Storing
    BY <2>3 DEF Storing
  <2> QED
    BY <2>4 DEF Request
<1>3. /\ Only(s) /\ req'[s] = r /\ req' \in [Slot -> Request]
      /\ req[s] = Idle /\ sent' \in 0 .. MaxRequest
  BY <1>1, <1>2, SendIs
<1>4. /\ s \in InFlight("save")' /\ s \notin InFlight("create")' /\ s \notin InFlight("reorder")'
      /\ \A k, st : At(s, k, st)' => k = "save" /\ st = "write"
      /\ req'[s].step = "write" /\ req'[s].rows = v /\ DOMAIN req'[s].rows \subseteq known
  BY <1>1, <1>3 DEF InFlight, At
<1>5. EditorTypeOK' /\ HistoryKeepsSections'
  BY <1>1, <1>3, TypesAlone DEF EditorInv, EditorTypeOK, Events
<1>6. DrawnAreStored'
  BY <1>1, <1>3, <1>4, StoredOf DEF EditorInv, DrawnAreStored, Stored
<1>7. InFlight("save") = {}
  BY <1>1 DEF EditorInv, OneAtATime
<1>8. OneAtATime'
  <2>1. InFlight("save")' = {s}
    BY <1>3, <1>4, <1>7, FlightOf
  <2>2. InFlight("create")' = InFlight("create")
    BY <1>3, <1>4, IdleIs, FlightOf
  <2> QED
    BY <1>1, <2>1, <2>2 DEF EditorInv, OneAtATime
<1>9. ListedAreKnown' /\ AnswersFitTheList'
  BY <1>1, <1>3, <1>4, IdleIs, StoredSame, ListOf
<1>10. CleanIsSaved' /\ AnswersFitTheDrawing'
  <2>1. seen' \cap {"strangers", "mixed"} = {} => Range(order) = known
    BY <1>1 DEF EditorInv, ListedAreKnown
  <2>2. DOMAIN v = Range(order) /\ \A i \in Range(order) : v[i] = drawn[i]
    OBVIOUS
  <2> HIDE DEF v, r
  <2>3. seen' \cap {"overwritten", "strangers", "mixed"} = {} =>
            \A i \in known : i \in DOMAIN req'[s].rows /\ drawn[i] = req'[s].rows[i]
    BY <1>4, <2>1, <2>2
  <2> QED
    BY <1>1, <1>3, <1>4, <1>7, <2>3, DrawingOf
<1>11. OrderingsApart' /\ PlansFitTheOrderings'
  BY <1>1, <1>3, <1>4, StoredSame, OrderingsOf
<1> QED
  BY <1>5, <1>6, <1>8, <1>9, <1>10, <1>11 DEF EditorInv

-----------------------------------------------------------------------------
(* The server reads and plans                                              *)

(* Whoever asked: the answer to another tab is not seen here. *)
SameRequest(s, r) ==
  \/ r.kind = req[s].kind /\ r.mine = req[s].mine
  \/ ~req[s].mine /\ r = Idle

LEMMA SameFlight ==
  ASSUME EditorInv, NEW s \in Slot, SameRequest(s, req'[s])
  PROVE  \A k \in {"create", "reorder", "save"} : s \in InFlight(k)' <=> s \in InFlight(k)
BY DEF SameRequest, InFlight, Idle

(* A request between a read and the write it is for. *)
LEMMA PlanInv ==
  ASSUME EditorInv, NEW s \in Slot, NEW r \in Request, req' = [req EXCEPT ![s] = r],
         UNCHANGED <<client, server, seen, edits, sent>>, SameRequest(s, r),
         req[s].kind \in {"create", "reorder"}, req[s].step # "created",
         r # Idle => r.step \in {"insert", "refused", "read", "swap", "list", "moved"},
         r.kind = "create" /\ r.step = "insert" => r.count = Cardinality(Stored),
         r.kind = "reorder" /\ r.step = "read" => r.id \in Stored /\ r.own = rank[r.id],
         r.kind = "reorder" /\ r.step = "swap" =>
            \E i, j \in Stored : /\ DOMAIN r.new = {i, j}
                                 /\ "raced" \notin seen => r.new[i] = rank[j] /\ r.new[j] = rank[i],
         r.kind = "reorder" /\ r.step = "moved" =>
            r.mine /\ IsInjective(r.order) /\ Range(r.order) = Stored
  PROVE  EditorInv'
<1>1. UNCHANGED <<known, drawn, order, undo, redo, pending, dirty, saving, creating, row, rank,
                  seen, edits, sent>>
  BY DEF client, server
<1>2. Only(s) /\ req'[s] = r /\ req' \in [Slot -> Request]
  BY ReqIs
<1>3. /\ \A k \in {"create", "reorder", "save"} : s \in InFlight(k)' <=> s \in InFlight(k)
      /\ s \notin InFlight("save")
      /\ ~(s \in InFlight("create") /\ s \in InFlight("reorder"))
  BY <1>2, SameFlight DEF InFlight
<1>4. /\ ~At(s, "create", "created") /\ ~At(s, "create", "created")' /\ ~At(s, "reorder", "load")'
      /\ \A st : ~At(s, "save", st)'
      /\ At(s, "create", "insert")' => r.count = Cardinality(Stored)
      /\ At(s, "reorder", "read")' => r.id \in Stored /\ r.own = rank[r.id]
      /\ At(s, "reorder", "swap")' =>
            \E i, j \in Stored : /\ DOMAIN r.new = {i, j}
                                 /\ "raced" \notin seen => r.new[i] = rank[j] /\ r.new[j] = rank[i]
      /\ At(s, "reorder", "moved")' => r.mine /\ IsInjective(r.order) /\ Range(r.order) = Stored
  BY <1>2 DEF At, Idle, SameRequest
<1>5. EditorTypeOK' /\ HistoryKeepsSections'
  BY <1>1, <1>2, TypesAlone DEF EditorInv, EditorTypeOK
<1>6. DrawnAreStored'
  <2>1. Stored' = Stored
    BY <1>1 DEF Stored
  <2>2. At(s, "reorder", "swap")' => DOMAIN req'[s].new \subseteq Stored
    BY <1>2, <1>4
  <2> QED
    BY <1>1, <1>2, <1>4, <2>1, <2>2, StoredOf DEF EditorInv, DrawnAreStored
<1>7. OneAtATime'
  BY <1>1, <1>2, <1>3, OneOf
<1>8. ListedAreKnown' /\ AnswersFitTheList'
  <2>1. ASSUME seen' \cap {"strangers", "mixed"} = {}, At(s, "reorder", "moved")'
        PROVE  Stored = known
    <3>1. s \in InFlight("reorder")'
      BY <1>2, <1>4, <2>1 DEF At, InFlight
    <3>2. InFlight("create") = {}
      BY <1>1, <1>3, <2>1, <3>1 DEF EditorInv, AnswersFitTheList
    <3>3. \A x \in Slot : ~At(x, "create", "created")
      BY <3>2, Stages, Fields DEF EditorInv, InFlight, At
    <3> QED
      BY <1>1, <2>1, <3>3 DEF EditorInv, AnswersFitTheList, DrawnAreStored
  <2> QED
    BY <1>1, <1>2, <1>3, <1>4, <2>1, StoredSame, ListOf
<1>9. CleanIsSaved' /\ AnswersFitTheDrawing'
  BY <1>1, <1>2, <1>3, <1>4, DrawingOf
<1>10. OrderingsApart' /\ PlansFitTheOrderings'
  BY <1>1, <1>2, <1>4, StoredSame, OrderingsOf
<1> QED
  BY <1>5, <1>6, <1>7, <1>8, <1>9, <1>10 DEF EditorInv

LEMMA CountInv ==
  ASSUME EditorInv, NEW s \in Slot, Count(s)
  PROVE  EditorInv'
<1>1. At(s, "create", "count") /\ UNCHANGED <<client, server, seen, edits, sent>>
  BY DEF Count
<1>2. req[s].kind = "create" /\ req[s].step = "count" /\ req[s].mine \in BOOLEAN
  BY <1>1, Stages DEF EditorInv, Counting, At
<1>3. Cardinality(Stored) \in 0 .. Cardinality(Key)
  BY StoredFinite
<1>4. CASE req' = [req EXCEPT ![s] = [kind |-> "create", step |-> "insert", mine |-> @.mine,
                                      count |-> Cardinality(Stored)]]
  <2> DEFINE r == [kind |-> "create", step |-> "insert", mine |-> req[s].mine, count |-> Cardinality(Stored)]
  <2>1. r \in Request
    BY <1>2, <1>3 DEF Request, Inserting
  <2>2. req' = [req EXCEPT ![s] = r]
    BY <1>4
  <2>3. SameRequest(s, r)
    BY <1>2 DEF SameRequest
  <2> QED
    BY <1>1, <1>2, <2>1, <2>2, <2>3, PlanInv
<1>5. CASE Answer(s, [kind |-> "create", step |-> "refused", mine |-> TRUE])
  <2> DEFINE r == IF req[s].mine THEN [kind |-> "create", step |-> "refused", mine |-> TRUE] ELSE Idle
  <2>1. r \in Request
    BY DEF Request, Refusal
  <2>2. req' = [req EXCEPT ![s] = r]
    BY <1>5 DEF Answer
  <2>3. SameRequest(s, r) /\ (r # Idle => r.kind = "create" /\ r.step = "refused")
    BY <1>2 DEF SameRequest
  <2>4. r.kind = "create" \/ r.kind = "idle"
    BY DEF Idle
  <2> HIDE DEF r
  <2>5. /\ r.kind = "create" => r # Idle
        /\ r.kind # "reorder"
    BY <2>4 DEF Idle
  <2> QED
    BY <1>1, <1>2, <2>1, <2>2, <2>3, <2>5, PlanInv
<1> QED
  BY <1>4, <1>5 DEF Count

(* The list is what is stored, in whatever order it is. *)
LEMMA ListInv ==
  ASSUME EditorInv, NEW s \in Slot, List(s)
  PROVE  EditorInv'
<1> DEFINE a == [kind |-> "reorder", step |-> "moved", mine |-> TRUE, order |-> Listed]
           r == IF req[s].mine THEN a ELSE Idle
<1>1. At(s, "reorder", "list") /\ UNCHANGED <<client, server, seen, edits, sent>>
      /\ req' = [req EXCEPT ![s] = r]
  BY DEF List, Answer
<1>2. req[s].kind = "reorder" /\ req[s].step = "list" /\ req[s].mine \in BOOLEAN
  BY <1>1, Stages DEF EditorInv, Listing, At
<1>3. Listed \in Seq(Key) /\ IsInjective(Listed) /\ Range(Listed) = Stored
  BY ListedIsAll DEF EditorInv, EditorTypeOK
<1>4. r \in Request
  BY <1>3 DEF Request, NewOrder
<1>5. SameRequest(s, r) /\ (r = a \/ r = Idle)
  BY <1>2 DEF SameRequest
<1>6. /\ r.kind # "create"
      /\ r # Idle => r.step = "moved"
      /\ r.kind = "reorder" => r.mine /\ r.step = "moved" /\ IsInjective(r.order) /\ Range(r.order) = Stored
  BY <1>3, <1>5 DEF Idle
<1> HIDE DEF r
<1> QED
  BY <1>1, <1>2, <1>4, <1>5, <1>6, PlanInv

(* The ordering of the section is as it is when the section is read. *)
LEMMA LoadInv ==
  ASSUME EditorInv, NEW s \in Slot, Load(s)
  PROVE  EditorInv'
<1> DEFINE r == [kind |-> "reorder", step |-> "read", mine |-> req[s].mine,
                 id |-> req[s].id, dir |-> req[s].dir, own |-> rank[req[s].id]]
<1>1. /\ At(s, "reorder", "load") /\ UNCHANGED <<client, server, seen, edits, sent>>
      /\ req' = [req EXCEPT ![s] = r]
  BY DEF Load
<1>2. /\ req[s].kind = "reorder" /\ req[s].step = "load" /\ req[s].mine \in BOOLEAN
      /\ req[s].id \in Key /\ req[s].dir \in {"up", "down"}
  BY <1>1, Stages DEF EditorInv, Loading, At
<1>3. req[s].id \in Stored
  BY <1>1 DEF EditorInv, DrawnAreStored
<1>4. rank[req[s].id] \in 0 .. Cardinality(Key)
  BY <1>2 DEF EditorInv, EditorTypeOK
<1>5. r \in Reading
  BY <1>2, <1>4 DEF Reading
<1>6. r \in Request /\ SameRequest(s, r)
  BY <1>2, <1>5 DEF Request, SameRequest
<1> QED
  BY <1>1, <1>2, <1>3, <1>6, PlanInv

(* The neighbour's ordering and the section's own, as it was when it was   *)
(* read, are to change places.                                             *)
LEMMA ReadInv ==
  ASSUME EditorInv, NEW s \in Slot, Read(s)
  PROVE  EditorInv'
<1> DEFINE n == CHOOSE n \in DOMAIN Listed : Listed[n] = req[s].id
           m == IF req[s].dir = "up" THEN n - 1 ELSE n + 1
           v == [j \in {Listed[n], Listed[m]} |->
                   IF j = Listed[n] THEN rank[Listed[m]] ELSE req[s].own]
<1>1. /\ At(s, "reorder", "read") /\ UNCHANGED <<client, server, seen, edits, sent>>
      /\ IF m \in DOMAIN Listed
         THEN req' = [req EXCEPT ![s] = [kind |-> "reorder", step |-> "swap", mine |-> @.mine, new |-> v]]
         ELSE req' = [req EXCEPT ![s] = [kind |-> "reorder", step |-> "list", mine |-> @.mine]]
  BY DEF Read
<1>2. /\ req[s].kind = "reorder" /\ req[s].step = "read" /\ req[s].mine \in BOOLEAN
      /\ req[s].own \in 0 .. Cardinality(Key)
  BY <1>1, Stages DEF EditorInv, Reading, At
<1>3. CASE m \in DOMAIN Listed
  <2> DEFINE r == [kind |-> "reorder", step |-> "swap", mine |-> req[s].mine, new |-> v]
  <2>1. /\ DOMAIN Listed = 1 .. Cardinality(Stored) /\ IsInjective(Listed) /\ Range(Listed) = Stored
        /\ Cardinality(Stored) \in Nat
    BY ListedIsAll DEF EditorInv, EditorTypeOK
  <2>2. req[s].id \in Stored
    BY <1>1 DEF EditorInv, DrawnAreStored
  <2>3. \E k \in DOMAIN Listed : Listed[k] = req[s].id
    BY <2>1, <2>2 DEF Range
  <2>4. n \in DOMAIN Listed /\ Listed[n] = req[s].id
    BY <2>3
  <2>5. m # n
    <3>1. n \in Int
      BY <2>1, <2>4
    <3> HIDE DEF n
    <3> QED
      BY <3>1
  <2> HIDE DEF n, m
  <2>6. Listed[n] \in Stored /\ Listed[m] \in Stored /\ Listed[m] # Listed[n]
    BY <1>3, <2>1, <2>4, <2>5 DEF IsInjective, Range
  <2>7. rank[Listed[m]] \in 0 .. Cardinality(Key)
    BY <2>6 DEF EditorInv, EditorTypeOK, Stored
  <2>8. v \in [{Listed[n], Listed[m]} -> 0 .. Cardinality(Key)]
    BY <1>2, <2>7
  <2>9. {Listed[n], Listed[m]} \in SUBSET Key
    BY <2>6 DEF Stored
  <2>10. DOMAIN v = {Listed[n], Listed[m]} /\ v[Listed[n]] = rank[Listed[m]] /\ v[Listed[m]] = req[s].own
    BY <2>6
  <2> HIDE DEF v
  <2>11. v \in UNION {[D -> 0..Cardinality(Key)] : D \in SUBSET Key}
    BY <2>8, <2>9
  <2>12. r \in Swapping
    BY <1>2, <2>11 DEF Swapping
  <2>13. r \in Request /\ SameRequest(s, r)
    BY <1>2, <2>12 DEF Request, SameRequest
  <2>14. req' = [req EXCEPT ![s] = r]
    BY <1>1, <1>3
  <2>15. "raced" \notin seen => req[s].own = rank[Listed[n]]
    BY <1>1, <2>4 DEF EditorInv, PlansFitTheOrderings
  <2>16. \E i, j \in Stored : /\ DOMAIN r.new = {i, j}
                              /\ "raced" \notin seen => r.new[i] = rank[j] /\ r.new[j] = rank[i]
    BY <2>6, <2>10, <2>15
  <2> QED
    BY <1>1, <1>2, <2>13, <2>14, <2>16, PlanInv
<1>4. CASE m \notin DOMAIN Listed
  <2> DEFINE r == [kind |-> "reorder", step |-> "list", mine |-> req[s].mine]
  <2>1. r \in Request /\ SameRequest(s, r)
    BY <1>2 DEF Request, Listing, SameRequest
  <2>2. req' = [req EXCEPT ![s] = r]
    BY <1>1, <1>4
  <2> QED
    BY <1>1, <1>2, <2>1, <2>2, PlanInv
<1> QED
  BY <1>3, <1>4

-----------------------------------------------------------------------------
(* The server writes                                                       *)

(* A new section takes the last place of the list, which was counted for   *)
(* it, unless somebody came between.                                       *)
LEMMA InsertInv ==
  ASSUME EditorInv, NEW s \in Slot, Insert(s)
  PROVE  EditorInv'
<1>1. PICK i \in Key \ Stored :
        /\ row' = [row EXCEPT ![i] = Fresh]
        /\ rank' = [rank EXCEPT ![i] = req[s].count]
        /\ Answer(s, [kind |-> "create", step |-> "created", mine |-> TRUE, id |-> i])
  BY DEF Insert
<1> DEFINE a == [kind |-> "create", step |-> "created", mine |-> TRUE, id |-> i]
           r == IF req[s].mine THEN a ELSE Idle
<1>2. /\ At(s, "create", "insert") /\ req' = [req EXCEPT ![s] = r]
      /\ seen' = seen \cup (IF Overlap(s) THEN {"raced"} ELSE {})
                      \cup (IF req[s].mine THEN {} ELSE {"strangers"})
      /\ UNCHANGED <<known, drawn, order, undo, redo, pending, dirty, saving, creating, edits, sent>>
  BY <1>1 DEF Insert, Answer, client
<1>3. /\ req[s].kind = "create" /\ req[s].step = "insert" /\ req[s].mine \in BOOLEAN
      /\ req[s].count \in 0 .. Cardinality(Key)
  BY <1>2, Stages DEF EditorInv, Inserting, At
<1>4. r \in Request /\ SameRequest(s, r) /\ (r = a \/ r = Idle) /\ (req[s].mine => r = a)
  BY <1>3 DEF Request, Creation, SameRequest
<1> HIDE DEF r
<1>5. Only(s) /\ req'[s] = r /\ req' \in [Slot -> Request]
  BY <1>2, <1>4, ReqIs
<1>6. /\ \A k \in {"create", "reorder", "save"} : InFlight(k)' = InFlight(k)
      /\ \A k \in {"create", "reorder", "save"} : \A st :
            At(s, k, st)' => k = "create" /\ st = "created" /\ r = a
  <2>1. \A k \in {"create", "reorder", "save"} : s \in InFlight(k)' <=> s \in InFlight(k)
    BY <1>4, <1>5, SameFlight
  <2>2. ASSUME NEW k \in {"create", "reorder", "save"}
        PROVE  InFlight(k)' = InFlight(k)
    BY <1>5, <2>1, FlightOf
  <2>3. \A k \in {"create", "reorder", "save"} : \A st :
            At(s, k, st)' => k = "create" /\ st = "created" /\ r = a
    BY <1>4, <1>5 DEF At, Idle
  <2> QED
    BY <2>2, <2>3
<1>7. /\ Stored' = Stored \cup {i} /\ known \subseteq Stored /\ i \notin known /\ row'[i] = Fresh
      /\ \A k \in Key : k # i => row'[k] = row[k] /\ rank'[k] = rank[k]
      /\ rank'[i] = req[s].count
  BY <1>1, FreshIsAShape DEF Stored, EditorInv, EditorTypeOK, DrawnAreStored
<1>8. EditorTypeOK' /\ HistoryKeepsSections'
  <2>1. row' \in [Key -> Look \cup {"absent"}] /\ rank' \in [Key -> 0..Cardinality(Key)]
    BY <1>1, <1>3, FreshIsAShape DEF EditorInv, EditorTypeOK
  <2> QED
    BY <1>2, <1>5, <2>1, TypesAlone DEF EditorInv, EditorTypeOK, Events
<1>9. DrawnAreStored'
  BY <1>2, <1>5, <1>6, <1>7, StoredOf
<1>10. OneAtATime'
  BY <1>2, <1>6 DEF EditorInv, OneAtATime
<1>11. ListedAreKnown'
  BY <1>2 DEF EditorInv, ListedAreKnown
<1>12. AnswersFitTheList'
  <2> SUFFICES ASSUME seen' \cap {"strangers", "mixed"} = {}
               PROVE  /\ InFlight("create") = {} \/ InFlight("reorder") = {}
                      /\ \A k \in Stored' \ known :
                            \E x \in Slot : At(x, "create", "created")' /\ req'[x].id = k
                      /\ \A x \in Slot : At(x, "create", "created")' => req'[x].id \notin known
                      /\ \A x \in Slot : At(x, "reorder", "moved")' =>
                           IsInjective(req'[x].order) /\ Range(req'[x].order) = known
    BY <1>2, <1>6 DEF AnswersFitTheList
  <2>1. /\ InFlight("create") = {} \/ InFlight("reorder") = {}
        /\ \A k \in Stored \ known : \E x \in Slot : At(x, "create", "created") /\ req[x].id = k
        /\ \A x \in Slot : At(x, "create", "created") => req[x].id \notin known
        /\ \A x \in Slot : At(x, "reorder", "moved") =>
             IsInjective(req[x].order) /\ Range(req[x].order) = known
    BY <1>2 DEF EditorInv, AnswersFitTheList
  <2>2. req'[s] = a /\ At(s, "create", "created")'
    BY <1>2, <1>4, <1>5 DEF At
  <2>3. ASSUME NEW k \in Stored' \ known
        PROVE  \E x \in Slot : At(x, "create", "created")' /\ req'[x].id = k
    <3>1. CASE k = i
      BY <2>2, <3>1
    <3>2. CASE k # i
      <4>1. PICK x \in Slot : At(x, "create", "created") /\ req[x].id = k
        BY <1>7, <2>1, <3>2
      <4>2. x # s
        BY <1>3, <4>1 DEF At
      <4> QED
        BY <1>5, <4>1, <4>2 DEF Only, At
    <3> QED
      BY <3>1, <3>2
  <2>4. ASSUME NEW x \in Slot
        PROVE  /\ At(x, "create", "created")' => req'[x].id \notin known
               /\ At(x, "reorder", "moved")' =>
                    IsInjective(req'[x].order) /\ Range(req'[x].order) = known
    <3>1. CASE x = s
      BY <1>6, <1>7, <2>2, <3>1
    <3>2. CASE x # s
      BY <1>5, <2>1, <3>2 DEF Only, At
    <3> QED
      BY <3>1, <3>2
  <2> QED
    BY <2>1, <2>3, <2>4
<1>13. CleanIsSaved'
  BY <1>2, <1>7 DEF EditorInv, EditorTypeOK, CleanIsSaved
<1>14. AnswersFitTheDrawing'
  <2>1. ASSUME seen' \cap {"overwritten", "strangers", "mixed"} = {}, NEW x \in Slot,
               At(x, "create", "created")'
        PROVE  row'[req'[x].id] = Fresh
    <3>1. CASE x = s
      BY <1>5, <1>6, <1>7, <2>1, <3>1
    <3>2. CASE x # s
      <4>1. req'[x] = req[x] /\ At(x, "create", "created")
        BY <1>5, <2>1, <3>2 DEF Only, At
      <4>2. req[x].id \in Stored
        BY <4>1 DEF EditorInv, DrawnAreStored
      <4>3. row[req[x].id] = Fresh
        BY <1>2, <2>1, <4>1 DEF EditorInv, AnswersFitTheDrawing
      <4> QED
        BY <1>7, <4>1, <4>2, <4>3 DEF Stored
    <3> QED
      BY <3>1, <3>2
  <2>2. ASSUME seen' \cap {"late", "overwritten", "strangers", "mixed"} = {}, NEW x \in InFlight("save")
        PROVE  /\ req'[x] = req[x]
               /\ req[x].step = "write" => \A k \in known :
                    IF k \in DOMAIN req[x].rows THEN drawn[k] = req[x].rows[k]
                                                ELSE row'[k] = Clamp[drawn[k]]
               /\ req[x].step = "answer" /\ ~req[x].errors =>
                    \A k \in known : row'[k] = Clamp[drawn[k]]
    <3>1. x # s /\ x \in Slot
      BY <1>3, <2>2 DEF InFlight
    <3>2. \A k \in known : row'[k] = row[k]
      BY <1>7 DEF EditorInv, EditorTypeOK
    <3>3. seen \cap {"late", "overwritten", "strangers", "mixed"} = {}
      BY <1>2, <2>2
    <3> QED
      BY <1>5, <2>2, <3>1, <3>2, <3>3 DEF EditorInv, AnswersFitTheDrawing, Only
  <2> QED
    BY <1>2, <1>6, <2>1, <2>2 DEF AnswersFitTheDrawing
<1>15. OrderingsApart' /\ PlansFitTheOrderings'
  <2> DEFINE N == Cardinality(Stored)
  <2>1. N \in Nat /\ Cardinality(Stored') = N + 1
    <3>1. IsFiniteSet(Stored) /\ N \in Nat
      BY StoredFinite
    <3>2. i \notin Stored
      BY <1>1
    <3>3. Cardinality(Stored \cup {i}) = N + 1
      BY <3>1, <3>2, FS_AddElement
    <3> QED
      BY <1>7, <3>1, <3>3
  <2> SUFFICES ASSUME "raced" \notin seen'
               PROVE  /\ \A j, k \in Stored' : rank'[j] = rank'[k] => j = k
                      /\ \A k \in Stored' : rank'[k] < N + 1
                      /\ \A x \in Slot : /\ ~At(x, "create", "insert")' /\ ~At(x, "reorder", "swap")'
                                         /\ At(x, "reorder", "read")' => req'[x].own = rank'[req'[x].id]
    BY <2>1 DEF OrderingsApart, PlansFitTheOrderings
  <2>2. "raced" \notin seen /\ ~Overlap(s)
    BY <1>2
  <2>3. /\ req[s].count = N
        /\ \A j, k \in Stored : rank[j] = rank[k] => j = k
        /\ \A k \in Stored : rank[k] < N
    BY <1>2, <2>2 DEF EditorInv, OrderingsApart, PlansFitTheOrderings
  <2> HIDE DEF N
  <2>4. \A k \in Stored : rank'[k] = rank[k] /\ rank[k] \in Nat
    <3>1. \A k \in Stored : k \in Key /\ k # i
      BY <1>1 DEF Stored
    <3> QED
      BY <1>7, <3>1, StoredFinite DEF EditorInv, EditorTypeOK
  <2>5. /\ \A j, k \in Stored' : rank'[j] = rank'[k] => j = k
        /\ \A k \in Stored' : rank'[k] < N + 1
    <3>1. rank'[i] = N /\ \A k \in Stored : rank'[k] \in Nat /\ rank'[k] < N
      BY <1>7, <2>3, <2>4
    <3>2. \A j, k \in Stored : rank'[j] = rank'[k] => j = k
      BY <2>3, <2>4
    <3>3. \A k \in Stored' : k \in Stored \/ k = i
      BY <1>7
    <3> QED
      BY <2>1, <3>1, <3>2, <3>3
  <2>6. \A x \in Slot : ~At(x, "create", "insert")' /\ ~At(x, "reorder", "swap")'
    BY <1>5, <1>6, <2>2 DEF Overlap, Only, At
  <2>7. ASSUME NEW x \in Slot, At(x, "reorder", "read")'
        PROVE  req'[x].own = rank'[req'[x].id]
    <3>1. req'[x] = req[x] /\ At(x, "reorder", "read")
      BY <1>5, <1>6, <2>7 DEF Only, At
    <3>2. req[x].id \in Stored /\ req[x].own = rank[req[x].id]
      BY <2>2, <3>1 DEF EditorInv, DrawnAreStored, PlansFitTheOrderings
    <3> QED
      BY <2>4, <3>1, <3>2
  <2> QED
    BY <2>5, <2>6, <2>7
<1> QED
  BY <1>8, <1>9, <1>10, <1>11, <1>12, <1>13, <1>14, <1>15 DEF EditorInv

(* A move exchanges two orderings as they are, unless somebody came        *)
(* between.                                                                *)
LEMMA SwapInv ==
  ASSUME EditorInv, NEW s \in Slot, Swap(s)
  PROVE  EditorInv'
<1> DEFINE r == [kind |-> "reorder", step |-> "list", mine |-> req[s].mine]
<1>1. /\ At(s, "reorder", "swap") /\ req' = [req EXCEPT ![s] = r]
      /\ rank' = [j \in Key |-> IF j \in DOMAIN req[s].new THEN req[s].new[j] ELSE rank[j]]
      /\ seen' = seen \cup (IF Overlap(s) THEN {"raced"} ELSE {})
      /\ UNCHANGED <<known, drawn, order, undo, redo, pending, dirty, saving, creating, row, edits, sent>>
  BY DEF Swap, client
<1>2. /\ req[s].kind = "reorder" /\ req[s].step = "swap" /\ req[s].mine \in BOOLEAN
      /\ req[s].new \in UNION {[D -> 0..Cardinality(Key)] : D \in SUBSET Key}
  BY <1>1, Stages DEF EditorInv, Swapping, At
<1>3. r \in Request /\ SameRequest(s, r) /\ r.kind = "reorder" /\ r.step = "list"
  BY <1>2 DEF Request, Listing, SameRequest
<1> HIDE DEF r
<1>4. Only(s) /\ req'[s] = r /\ req' \in [Slot -> Request]
  BY <1>1, <1>3, ReqIs
<1>5. /\ \A k \in {"create", "reorder", "save"} : s \in InFlight(k)' <=> s \in InFlight(k)
      /\ \A k, st : At(s, k, st)' => k = "reorder" /\ st = "list"
      /\ s \notin InFlight("create") /\ s \notin InFlight("save") /\ ~At(s, "create", "created")
  BY <1>2, <1>3, <1>4, SameFlight DEF At, InFlight
<1>6. EditorTypeOK' /\ HistoryKeepsSections'
  <2>1. rank' \in [Key -> 0..Cardinality(Key)]
    BY <1>1, <1>2 DEF EditorInv, EditorTypeOK
  <2> QED
    BY <1>1, <1>4, <2>1, TypesAlone DEF EditorInv, EditorTypeOK, Events
<1>7. DrawnAreStored'
  BY <1>1, <1>4, <1>5, StoredSame, StoredOf DEF EditorInv, DrawnAreStored
<1>8. OneAtATime'
  BY <1>1, <1>4, <1>5, OneOf
<1>9. ListedAreKnown' /\ AnswersFitTheList'
  BY <1>1, <1>4, <1>5, StoredSame, ListOf
<1>10. CleanIsSaved' /\ AnswersFitTheDrawing'
  BY <1>1, <1>4, <1>5, DrawingOf
<1>11. OrderingsApart' /\ PlansFitTheOrderings'
  <2>0. Stored' = Stored
    BY <1>1, StoredSame
  <2> SUFFICES ASSUME "raced" \notin seen'
               PROVE  /\ \A j, k \in Stored : rank'[j] = rank'[k] => j = k
                      /\ \A k \in Stored : rank'[k] < Cardinality(Stored)
                      /\ \A x \in Slot : /\ ~At(x, "create", "insert")' /\ ~At(x, "reorder", "swap")'
                                         /\ At(x, "reorder", "read")' => req'[x].own = rank'[req'[x].id]
    BY <2>0 DEF OrderingsApart, PlansFitTheOrderings
  <2>1. "raced" \notin seen /\ ~Overlap(s)
    BY <1>1
  <2>2. /\ \A j, k \in Stored : rank[j] = rank[k] => j = k
        /\ \A k \in Stored : rank[k] < Cardinality(Stored)
    BY <2>1 DEF EditorInv, OrderingsApart, PlansFitTheOrderings
  <2>3. PICK i, j \in Stored : /\ DOMAIN req[s].new = {i, j}
                               /\ req[s].new[i] = rank[j] /\ req[s].new[j] = rank[i]
    BY <1>1, <2>1 DEF EditorInv, PlansFitTheOrderings
  <2>4. \A k \in Stored : rank'[k] = IF k = i THEN rank[j] ELSE IF k = j THEN rank[i] ELSE rank[k]
    BY <1>1, <2>3 DEF Stored
  <2>5. /\ \A k, l \in Stored : rank'[k] = rank'[l] => k = l
        /\ \A k \in Stored : rank'[k] < Cardinality(Stored)
    BY <2>2, <2>4
  <2>6. \A x \in Slot : ~At(x, "create", "insert")' /\ ~At(x, "reorder", "swap")'
    BY <1>4, <1>5, <2>1 DEF Overlap, Only, At
  <2>7. ASSUME NEW x \in Slot, At(x, "reorder", "read")'
        PROVE  req'[x].own = rank'[req'[x].id]
    <3>1. x # s /\ req'[x] = req[x] /\ At(x, "reorder", "read")
      BY <1>4, <1>5, <2>7 DEF Only, At
    <3>2. req[x].id \notin DOMAIN req[s].new
      BY <1>1, <2>1, <3>1 DEF Overlap
    <3>3. req[x].id \in Key /\ req[x].own = rank[req[x].id]
      BY <2>1, <3>1 DEF EditorInv, DrawnAreStored, Stored, PlansFitTheOrderings
    <3> QED
      BY <1>1, <3>1, <3>2, <3>3
  <2> QED
    BY <2>5, <2>6, <2>7
<1> QED
  BY <1>6, <1>7, <1>8, <1>9, <1>10, <1>11 DEF EditorInv

-----------------------------------------------------------------------------
(* The editor is answered                                                  *)

LEMMA LeavesIs ==
  ASSUME EditorInv, NEW s \in Slot, Done(s)
  PROVE  /\ Only(s) /\ req'[s] = Idle /\ req' \in [Slot -> Request]
         /\ \A k \in {"create", "reorder", "save"} : s \notin InFlight(k)'
         /\ \A k \in {"create", "reorder", "save"} : \A st : ~At(s, k, st)'
<1>1. Idle \in Request
  BY DEF Request
<1>2. Only(s) /\ req'[s] = Idle /\ req' \in [Slot -> Request]
  BY <1>1, ReqIs DEF Done
<1> QED
  BY <1>2 DEF InFlight, At, Idle

(* The one new section, or the one save, that was waited for is answered.  *)
LEMMA OneLeaves ==
  ASSUME EditorInv, NEW s \in Slot, Only(s),
         s \notin InFlight("save")', s \notin InFlight("create")',
         saving' = IF s \in InFlight("save") THEN FALSE ELSE saving,
         creating' = IF s \in InFlight("create") THEN FALSE ELSE creating
  PROVE  OneAtATime'
<1>1. /\ InFlight("save")' = InFlight("save") \ {s}
      /\ InFlight("create")' = InFlight("create") \ {s}
  BY FlightOf
<1>2. /\ saving = (InFlight("save") # {}) /\ \A x, y \in InFlight("save") : x = y
      /\ creating = (InFlight("create") # {}) /\ \A x, y \in InFlight("create") : x = y
  BY DEF EditorInv, OneAtATime
<1>3. saving' = (InFlight("save")' # {})
  BY <1>1, <1>2
<1>4. creating' = (InFlight("create")' # {})
  BY <1>1, <1>2
<1> QED
  BY <1>1, <1>2, <1>3, <1>4 DEF OneAtATime

LEMMA RefusedInv ==
  ASSUME EditorInv, NEW s \in Slot, Refused(s)
  PROVE  EditorInv'
<1>1. /\ At(s, "create", "refused") /\ creating' = FALSE /\ Done(s)
      /\ UNCHANGED <<known, drawn, order, undo, redo, pending, dirty, saving, row, rank, seen, edits, sent>>
  BY DEF Refused, server
<1>2. s \in InFlight("create") /\ s \notin InFlight("save") /\ ~At(s, "create", "created")
  BY <1>1, Stages DEF EditorInv, Refusal, InFlight, At
<1>3. /\ Only(s) /\ req'[s] = Idle /\ req' \in [Slot -> Request]
      /\ \A k \in {"create", "reorder", "save"} : s \notin InFlight(k)'
      /\ \A k \in {"create", "reorder", "save"} : \A st : ~At(s, k, st)'
  BY <1>1, LeavesIs
<1>4. EditorTypeOK' /\ HistoryKeepsSections'
  BY <1>1, <1>3, TypesAlone DEF EditorInv, EditorTypeOK
<1>5. DrawnAreStored'
  BY <1>1, <1>3, StoredSame, StoredOf DEF EditorInv, DrawnAreStored
<1>6. OneAtATime'
  BY <1>1, <1>2, <1>3, OneLeaves
<1>7. ListedAreKnown' /\ AnswersFitTheList'
  BY <1>1, <1>2, <1>3, StoredSame, ListOf
<1>8. CleanIsSaved' /\ AnswersFitTheDrawing'
  BY <1>1, <1>3, DrawingOf
<1>9. OrderingsApart' /\ PlansFitTheOrderings'
  BY <1>1, <1>3, StoredSame, OrderingsOf
<1> QED
  BY <1>4, <1>5, <1>6, <1>7, <1>8, <1>9 DEF EditorInv

(* The server's list has the sections the editor has, unless there are     *)
(* some that it was not told of.                                           *)
LEMMA MovedInv ==
  ASSUME EditorInv, NEW s \in Slot, Moved(s)
  PROVE  EditorInv'
<1>1. /\ At(s, "reorder", "moved") /\ order' = req[s].order /\ Done(s)
      /\ undo' = <<>> /\ redo' = <<>> /\ pending' = <<>>
      /\ UNCHANGED <<known, drawn, dirty, saving, creating, row, rank, seen, edits, sent>>
  BY DEF Moved, ClearHistory, server
<1>2. /\ s \notin InFlight("create") /\ s \notin InFlight("save") /\ ~At(s, "create", "created")
      /\ req[s].order \in Seq(Key)
  BY <1>1, Stages DEF EditorInv, NewOrder, InFlight, At
<1>3. /\ Only(s) /\ req'[s] = Idle /\ req' \in [Slot -> Request]
      /\ \A k \in {"create", "reorder", "save"} : s \notin InFlight(k)'
      /\ \A k \in {"create", "reorder", "save"} : \A st : ~At(s, k, st)'
  BY <1>1, LeavesIs
<1>4. EditorTypeOK'
  <2>1. undo' \in Seq(Snapshots) /\ redo' \in Seq(Snapshots) /\ pending' \in Seq(Snapshots)
    BY <1>1, EmptyIs
  <2>2. Len(undo') + Len(redo') <= HistoryLimit /\ Len(pending') <= 1
    BY <1>1, EmptyIs, EditorBounds
  <2> QED
    BY <1>1, <1>2, <1>3, <2>1, <2>2 DEF EditorInv, EditorTypeOK
<1>5. HistoryKeepsSections'
  BY <1>1, EmptyIs DEF HistoryKeepsSections
<1>6. DrawnAreStored'
  BY <1>1, <1>3, StoredSame, StoredOf DEF EditorInv, DrawnAreStored
<1>7. OneAtATime'
  BY <1>1, <1>2, <1>3, OneOf
<1>8. ListedAreKnown'
  BY <1>1 DEF EditorInv, AnswersFitTheList, ListedAreKnown
<1>9. AnswersFitTheList'
  BY <1>1, <1>2, <1>3, StoredSame, FitsOf
<1>10. CleanIsSaved' /\ AnswersFitTheDrawing'
  BY <1>1, <1>3, DrawingOf
<1>11. OrderingsApart' /\ PlansFitTheOrderings'
  BY <1>1, <1>3, StoredSame, OrderingsOf
<1> QED
  BY <1>4, <1>5, <1>6, <1>7, <1>8, <1>9, <1>10, <1>11 DEF EditorInv

(* A save that reports nothing has stored everything that is drawn.        *)
LEMMA LayoutSavedInv ==
  ASSUME EditorInv, NEW s \in Slot, LayoutSaved(s)
  PROVE  EditorInv'
<1>1. /\ At(s, "save", "answer") /\ dirty' = (dirty /\ req[s].errors) /\ saving' = FALSE /\ Done(s)
      /\ UNCHANGED <<known, drawn, order, undo, redo, pending, creating, row, rank, seen, edits, sent>>
  BY DEF LayoutSaved, server
<1>2. /\ s \in InFlight("save") /\ s \notin InFlight("create") /\ ~At(s, "create", "created")
      /\ req[s].errors \in BOOLEAN /\ req[s].step = "answer"
  BY <1>1, Stages DEF EditorInv, Receipt, InFlight, At
<1>3. /\ Only(s) /\ req'[s] = Idle /\ req' \in [Slot -> Request]
      /\ \A k \in {"create", "reorder", "save"} : s \notin InFlight(k)'
      /\ \A k \in {"create", "reorder", "save"} : \A st : ~At(s, k, st)'
  BY <1>1, LeavesIs
<1>4. EditorTypeOK' /\ HistoryKeepsSections'
  BY <1>1, <1>2, <1>3, TypesAlone DEF EditorInv, EditorTypeOK
<1>5. DrawnAreStored'
  BY <1>1, <1>3, StoredSame, StoredOf DEF EditorInv, DrawnAreStored
<1>6. OneAtATime'
  BY <1>1, <1>2, <1>3, OneLeaves
<1>7. ListedAreKnown' /\ AnswersFitTheList'
  BY <1>1, <1>2, <1>3, StoredSame, ListOf
<1>8. CleanIsSaved'
  BY <1>1, <1>2 DEF EditorInv, EditorTypeOK, CleanIsSaved, AnswersFitTheDrawing
<1>9. AnswersFitTheDrawing'
  <2>1. InFlight("save")' = {}
    BY <1>2, <1>3, FlightOf DEF EditorInv, OneAtATime
  <2>2. ASSUME NEW x \in Slot, At(x, "create", "created")'
        PROVE  At(x, "create", "created") /\ req'[x] = req[x]
    BY <1>3, <2>2 DEF Only, At
  <2> QED
    BY <1>1, <2>1, <2>2 DEF EditorInv, AnswersFitTheDrawing
<1>10. OrderingsApart' /\ PlansFitTheOrderings'
  BY <1>1, <1>3, StoredSame, OrderingsOf
<1> QED
  BY <1>4, <1>5, <1>6, <1>7, <1>8, <1>9, <1>10 DEF EditorInv

(* The new section is the last of the list, and looks as it was stored.    *)
LEMMA CreatedInv ==
  ASSUME EditorInv, NEW s \in Slot, Created(s)
  PROVE  EditorInv'
<1> DEFINE i == req[s].id
<1>1. /\ At(s, "create", "created") /\ Done(s)
      /\ known' = known \cup {i} /\ drawn' = [drawn EXCEPT ![i] = Fresh]
      /\ order' = Append(order, i) /\ creating' = FALSE
      /\ undo' = <<>> /\ redo' = <<>> /\ pending' = <<>>
      /\ UNCHANGED <<dirty, saving, row, rank, seen, edits, sent>>
  BY DEF Created, ClearHistory, server
<1>2. /\ s \in InFlight("create") /\ s \notin InFlight("save") /\ i \in Key
  BY <1>1, Stages DEF EditorInv, Creation, InFlight, At
<1>3. i \in Stored
  BY <1>1 DEF EditorInv, DrawnAreStored
<1> HIDE DEF i
<1>4. /\ Only(s) /\ req'[s] = Idle /\ req' \in [Slot -> Request]
      /\ \A k \in {"create", "reorder", "save"} : s \notin InFlight(k)'
      /\ \A k \in {"create", "reorder", "save"} : \A st : ~At(s, k, st)'
  BY <1>1, LeavesIs
<1>5. /\ Append(order, i) \in Seq(Key)
      /\ DOMAIN order = 1 .. Len(order) /\ DOMAIN Append(order, i) = 1 .. Len(order) + 1 /\ Len(order) \in Nat
      /\ \A n \in 1 .. Len(order) + 1 : Append(order, i)[n] = IF n <= Len(order) THEN order[n] ELSE i
      /\ Range(Append(order, i)) = Range(order) \cup {i}
  <2>1. order \in Seq(Key)
    BY DEF EditorInv, EditorTypeOK
  <2> QED
    BY <1>2, <2>1, AppendIs
<1>6. EditorTypeOK'
  <2>1. undo' \in Seq(Snapshots) /\ redo' \in Seq(Snapshots) /\ pending' \in Seq(Snapshots)
    BY <1>1, EmptyIs
  <2>2. Len(undo') + Len(redo') <= HistoryLimit /\ Len(pending') <= 1
    BY <1>1, EmptyIs, EditorBounds
  <2>3. drawn' \in [Key -> Look \cup {"absent"}] /\ \A k \in known' : drawn'[k] \in Look
    BY <1>1, <1>2, FreshIsAShape DEF EditorInv, EditorTypeOK
  <2>4. known' \subseteq Key /\ order' \in Seq(Key)
    BY <1>1, <1>2, <1>5 DEF EditorInv, EditorTypeOK
  <2> QED
    BY <1>1, <1>4, <2>1, <2>2, <2>3, <2>4 DEF EditorInv, EditorTypeOK
<1>7. HistoryKeepsSections'
  BY <1>1, EmptyIs DEF HistoryKeepsSections
<1>8. DrawnAreStored'
  BY <1>1, <1>3, <1>4, StoredSame, StoredOf DEF EditorInv, DrawnAreStored
<1>9. OneAtATime'
  BY <1>1, <1>2, <1>4, OneLeaves
<1>10. InFlight("create")' = {} /\ \A x \in Slot : ~At(x, "create", "created")'
  <2>1. InFlight("create")' = {}
    BY <1>2, <1>4, FlightOf DEF EditorInv, OneAtATime
  <2>2. ASSUME NEW x \in Slot, At(x, "create", "created")'
        PROVE  FALSE
    <3>1. x # s /\ req'[x] = req[x] /\ At(x, "create", "created")
      BY <1>4, <2>2 DEF Only, At
    <3>2. x \in InFlight("create")
      BY <3>1, Stages DEF EditorInv, Creation, InFlight, At
    <3> QED
      BY <1>2, <3>1, <3>2 DEF EditorInv, OneAtATime
  <2> QED
    BY <2>1, <2>2
<1>11. ASSUME seen \cap {"strangers", "mixed"} = {}
       PROVE  /\ i \notin known /\ IsInjective(order) /\ Range(order) = known
              /\ InFlight("reorder") = {}
              /\ \A k \in Stored \ known : \E x \in Slot : At(x, "create", "created") /\ req[x].id = k
  BY <1>1, <1>2, <1>11 DEF EditorInv, AnswersFitTheList, ListedAreKnown, i
<1>12. ListedAreKnown'
  <2> SUFFICES ASSUME seen \cap {"strangers", "mixed"} = {}
               PROVE  IsInjective(Append(order, i)) /\ Range(Append(order, i)) = known \cup {i}
    BY <1>1 DEF ListedAreKnown
  <2>1. i \notin known /\ IsInjective(order) /\ Range(order) = known
    BY <1>11
  <2>2. \A n \in 1 .. Len(order) : order[n] # i
    BY <1>5, <2>1 DEF Range
  <2>3. ASSUME NEW m \in 1 .. Len(order) + 1, NEW n \in 1 .. Len(order) + 1,
               Append(order, i)[m] = Append(order, i)[n]
        PROVE  m = n
    BY <1>5, <2>1, <2>2, <2>3 DEF IsInjective
  <2>4. IsInjective(Append(order, i))
    BY <1>5, <2>3, Zenon DEF IsInjective
  <2> QED
    BY <1>5, <2>1, <2>4
<1>13. AnswersFitTheList'
  <2> SUFFICES ASSUME seen \cap {"strangers", "mixed"} = {}
               PROVE  /\ \A k \in Stored \ known' : FALSE
                      /\ \A x \in Slot : ~At(x, "reorder", "moved")'
    BY <1>1, <1>10, StoredSame DEF AnswersFitTheList
  <2>1. ASSUME NEW k \in Stored \ known'
        PROVE  FALSE
    <3>1. PICK x \in Slot : At(x, "create", "created") /\ req[x].id = k
      BY <1>1, <1>11, <2>1
    <3>2. x # s
      BY <1>1, <2>1, <3>1 DEF i
    <3> QED
      BY <1>4, <1>10, <3>1, <3>2 DEF Only, At
  <2>2. ASSUME NEW x \in Slot, At(x, "reorder", "moved")'
        PROVE  FALSE
    <3>1. x # s /\ req'[x] = req[x] /\ At(x, "reorder", "moved")
      BY <1>4, <2>2 DEF Only, At
    <3>2. x \in InFlight("reorder")
      BY <3>1, Stages DEF EditorInv, NewOrder, InFlight, At
    <3> QED
      BY <1>11, <3>2
  <2> QED
    BY <2>1, <2>2
<1>14. seen \cap {"overwritten", "strangers", "mixed"} = {} => row[i] = Fresh
  BY <1>1 DEF EditorInv, AnswersFitTheDrawing, i
<1>15. drawn'[i] = Fresh /\ \A k \in known : k # i => drawn'[k] = drawn[k]
  BY <1>1, <1>2 DEF EditorInv, EditorTypeOK
<1>16. CleanIsSaved'
  BY <1>1, <1>14, <1>15, ServerClamps DEF EditorInv, CleanIsSaved
<1>17. AnswersFitTheDrawing'
  <2>1. InFlight("save")' = InFlight("save")
    BY <1>2, <1>4, FlightOf
  <2>2. ASSUME seen \cap {"late", "overwritten", "strangers", "mixed"} = {}, NEW x \in InFlight("save")
        PROVE  /\ req'[x] = req[x]
               /\ req[x].step = "write" => \A k \in known' :
                    IF k \in DOMAIN req[x].rows THEN drawn'[k] = req[x].rows[k]
                                                ELSE row[k] = Clamp[drawn'[k]]
               /\ req[x].step = "answer" /\ ~req[x].errors =>
                    \A k \in known' : row[k] = Clamp[drawn'[k]]
    <3>1. x # s /\ x \in Slot /\ req[x].kind = "save" /\ req[x].mine
      BY <1>2, <2>2 DEF InFlight
    <3>2. /\ req[x].step = "write" => \A k \in known :
               IF k \in DOMAIN req[x].rows THEN drawn[k] = req[x].rows[k]
                                           ELSE row[k] = Clamp[drawn[k]]
          /\ req[x].step = "answer" /\ ~req[x].errors => \A k \in known : row[k] = Clamp[drawn[k]]
      BY <2>2 DEF EditorInv, AnswersFitTheDrawing
    <3>3. i \notin known /\ row[i] = Fresh
      BY <1>11, <1>14, <2>2
    <3>4. req[x].step = "write" => i \notin DOMAIN req[x].rows
      BY <3>1, <3>3 DEF EditorInv, DrawnAreStored, At
    <3>5. req'[x] = req[x]
      BY <1>4, <3>1 DEF Only
    <3> QED
      BY <1>1, <1>15, <3>2, <3>3, <3>4, <3>5, ServerClamps
  <2> QED
    BY <1>1, <1>10, <2>1, <2>2 DEF AnswersFitTheDrawing
<1>18. OrderingsApart' /\ PlansFitTheOrderings'
  BY <1>1, <1>4, StoredSame, OrderingsOf
<1> QED
  BY <1>6, <1>7, <1>8, <1>9, <1>12, <1>13, <1>16, <1>17, <1>18 DEF EditorInv

(* What is stored is what was drawn when it was sent, clamped, but for the *)
(* sections reported.  A section the editor does not have yet is not       *)
(* touched.                                                                *)
LEMMA StoreInv ==
  ASSUME EditorInv, NEW s \in Slot, Store(s)
  PROVE  EditorInv'
<1> DEFINE rows == req[s].rows
<1>1. PICK bad \in SUBSET (DOMAIN rows \cap Stored) :
        /\ row' = [i \in Key |-> IF i \in (DOMAIN rows \cap Stored) \ bad
                                  THEN Clamp[rows[i]] ELSE row[i]]
        /\ Answer(s, [kind |-> "save", step |-> "answer", mine |-> TRUE, errors |-> bad # {}])
  BY DEF Store
<1> DEFINE a == [kind |-> "save", step |-> "answer", mine |-> TRUE, errors |-> bad # {}]
           r == IF req[s].mine THEN a ELSE Idle
<1>2. /\ At(s, "save", "write") /\ req' = [req EXCEPT ![s] = r]
      /\ seen' = seen \cup (IF req[s].mine THEN {} ELSE {"overwritten"})
      /\ UNCHANGED <<known, drawn, order, undo, redo, pending, dirty, saving, creating, rank, edits, sent>>
  BY <1>1 DEF Store, Answer, client
<1>3. /\ req[s].kind = "save" /\ req[s].step = "write" /\ req[s].mine \in BOOLEAN
      /\ rows \in UNION {[D -> Look] : D \in SUBSET Key}
  BY <1>2, Stages DEF EditorInv, Storing, At
<1>4. r \in Request /\ SameRequest(s, r) /\ (r = a \/ r = Idle) /\ (req[s].mine => r = a)
  BY <1>3 DEF Request, Receipt, SameRequest
<1>5. req[s].mine => DOMAIN rows \subseteq known
  BY <1>2 DEF EditorInv, DrawnAreStored
<1>6. /\ \A k \in DOMAIN rows : rows[k] \in Look /\ Clamp[rows[k]] \in Look
      /\ known \subseteq Stored /\ known \subseteq Key
  BY <1>3, ServerClamps DEF EditorInv, EditorTypeOK, DrawnAreStored
<1> HIDE DEF r, rows
<1>7. Only(s) /\ req'[s] = r /\ req' \in [Slot -> Request]
  BY <1>2, <1>4, ReqIs
<1>8. /\ \A k \in {"create", "reorder", "save"} : s \in InFlight(k)' <=> s \in InFlight(k)
      /\ s \notin InFlight("create") /\ s \notin InFlight("reorder") /\ ~At(s, "create", "created")
      /\ \A k \in {"create", "reorder", "save"} : \A st : At(s, k, st)' => k = "save" /\ st = "answer"
      /\ s \in InFlight("save") <=> req[s].mine
  BY <1>3, <1>4, <1>7, SameFlight DEF At, InFlight, Idle
<1>9. row' \in [Key -> Look \cup {"absent"}]
  BY <1>1, <1>6 DEF EditorInv, EditorTypeOK
<1>10. Stored' = Stored
  BY <1>1, <1>6, FreshIsAShape DEF Stored
<1>11. EditorTypeOK' /\ HistoryKeepsSections'
  BY <1>2, <1>7, <1>9, TypesAlone DEF EditorInv, EditorTypeOK, Events
<1>12. DrawnAreStored'
  BY <1>2, <1>6, <1>7, <1>8, <1>10, StoredOf
<1>13. OneAtATime'
  BY <1>2, <1>7, <1>8, OneOf
<1>14. ListedAreKnown' /\ AnswersFitTheList'
  BY <1>2, <1>7, <1>8, <1>10, ListOf
<1>15. \A k \in Key : row'[k] = IF k \in (DOMAIN rows \cap Stored) \ bad
                              THEN Clamp[rows[k]] ELSE row[k]
  BY <1>1
<1>16. ASSUME seen' \cap {"late", "overwritten", "strangers", "mixed"} = {}
       PROVE  /\ req[s].mine
              /\ \A k \in known : IF k \in DOMAIN rows THEN drawn[k] = rows[k]
                                                       ELSE row[k] = Clamp[drawn[k]]
  <2>1. req[s].mine /\ seen \cap {"late", "overwritten", "strangers", "mixed"} = {}
    BY <1>2, <1>16
  <2>2. s \in InFlight("save")
    BY <1>8, <2>1
  <2> QED
    BY <1>3, <2>1, <2>2 DEF EditorInv, AnswersFitTheDrawing, rows
<1>17. CleanIsSaved'
  BY <1>2, <1>6, <1>15, <1>16 DEF EditorInv, CleanIsSaved
<1>18. AnswersFitTheDrawing'
  <2>1. ASSUME seen' \cap {"overwritten", "strangers", "mixed"} = {}, NEW x \in Slot,
               At(x, "create", "created")'
        PROVE  row'[req'[x].id] = Fresh
    <3>1. x # s /\ req'[x] = req[x] /\ At(x, "create", "created")
      BY <1>7, <1>8, <2>1 DEF Only, At
    <3>2. req[x].id \in Key /\ req[x].id \notin known /\ row[req[x].id] = Fresh
      BY <1>2, <2>1, <3>1, Stages
      DEF EditorInv, Creation, AnswersFitTheList, AnswersFitTheDrawing
    <3>3. DOMAIN rows \subseteq known
      BY <1>2, <1>5, <2>1
    <3> QED
      BY <1>15, <3>1, <3>2, <3>3
  <2>2. ASSUME seen' \cap {"late", "overwritten", "strangers", "mixed"} = {}, NEW x \in InFlight("save")'
        PROVE  /\ req'[x].step = "answer"
               /\ ~req'[x].errors => \A k \in known : row'[k] = Clamp[drawn[k]]
    <3>1. req[s].mine /\ r = a
      BY <1>4, <1>16, <2>2
    <3>2. InFlight("save")' = InFlight("save")
      BY <1>7, <1>8, FlightOf
    <3>3. x = s
      BY <1>8, <2>2, <3>1, <3>2 DEF EditorInv, OneAtATime
    <3>4. req'[x] = a
      BY <1>7, <3>1, <3>3
    <3>5. bad = {} => \A k \in known : row'[k] = Clamp[drawn[k]]
      BY <1>6, <1>15, <1>16, <2>2
    <3>6. a.step = "answer" /\ (a.errors <=> bad # {})
      OBVIOUS
    <3> QED
      BY <3>4, <3>5, <3>6
  <2> QED
    BY <1>2, <2>1, <2>2 DEF AnswersFitTheDrawing
<1>19. OrderingsApart' /\ PlansFitTheOrderings'
  BY <1>2, <1>7, <1>8, <1>10, OrderingsOf
<1> QED
  BY <1>11, <1>12, <1>13, <1>14, <1>17, <1>18, <1>19 DEF EditorInv

(* A request that is given up goes on as nobody's. *)
Disowned(s) == [req[s] EXCEPT !.mine = FALSE]

LEMMA DisownedIs ==
  ASSUME EditorInv, NEW s \in Slot, req[s].kind # "idle",
         req[s].step \notin {"created", "refused", "moved", "answer"}
  PROVE  /\ Disowned(s) \in Request /\ Disowned(s).mine = FALSE
         /\ Disowned(s).kind = req[s].kind /\ Disowned(s).step = req[s].step
         /\ At(s, "create", "insert") => Disowned(s).count = req[s].count
         /\ At(s, "reorder", "load") => Disowned(s).id = req[s].id
         /\ At(s, "reorder", "read") => Disowned(s).id = req[s].id /\ Disowned(s).own = req[s].own
         /\ At(s, "reorder", "swap") => Disowned(s).new = req[s].new
<1> DEFINE r == Disowned(s)
           same == r.mine = FALSE /\ r.kind = req[s].kind /\ r.step = req[s].step
<1>1. ASSUME req[s] \in Counting
      PROVE  r \in Counting /\ same
  BY <1>1 DEF Counting, Disowned
<1>2. ASSUME req[s] \in Inserting
      PROVE  r \in Inserting /\ same /\ r.count = req[s].count
  BY <1>2 DEF Inserting, Disowned
<1>3. ASSUME req[s] \in Reading
      PROVE  r \in Reading /\ same /\ r.id = req[s].id /\ r.own = req[s].own
  BY <1>3 DEF Reading, Disowned
<1>4. ASSUME req[s] \in Swapping
      PROVE  r \in Swapping /\ same /\ r.new = req[s].new
  BY <1>4 DEF Swapping, Disowned
<1>5. ASSUME req[s] \in Listing
      PROVE  r \in Listing /\ same
  BY <1>5 DEF Listing, Disowned
<1>6. ASSUME req[s] \in Storing
      PROVE  r \in Storing /\ same
  BY <1>6 DEF Storing, Disowned
<1>7. ASSUME req[s] \in Loading
      PROVE  r \in Loading /\ same /\ r.id = req[s].id
  BY <1>7 DEF Loading, Disowned
<1>8. \/ req[s] \in Counting \/ req[s] \in Inserting \/ req[s] \in Loading \/ req[s] \in Reading
      \/ req[s] \in Swapping \/ req[s] \in Listing \/ req[s] \in Storing
  BY RequestIs, Fields DEF EditorInv, At
<1>9. /\ At(s, "create", "insert") => req[s] \in Inserting
      /\ At(s, "reorder", "load") => req[s] \in Loading
      /\ At(s, "reorder", "read") => req[s] \in Reading
      /\ At(s, "reorder", "swap") => req[s] \in Swapping
  BY Stages DEF EditorInv
<1> HIDE DEF r
<1>10. r \in Request
  BY <1>1, <1>2, <1>3, <1>4, <1>5, <1>6, <1>7, <1>8, Zenon DEF Request
<1>11. same
  BY <1>1, <1>2, <1>3, <1>4, <1>5, <1>6, <1>7, <1>8
<1> QED
  BY <1>2, <1>3, <1>4, <1>7, <1>9, <1>10, <1>11 DEF r

(* Whoever waited for the answer does so no longer, and is not told of a   *)
(* section that was created.                                               *)
LEMMA FailInv ==
  ASSUME EditorInv, NEW s \in Slot, Fail(s)
  PROVE  EditorInv'
<1>1. /\ req[s].kind # "idle" /\ req[s].mine
      /\ saving' = (saving /\ req[s].kind # "save")
      /\ creating' = (creating /\ req[s].kind # "create")
      /\ seen' = seen \cup (IF req[s].step = "created" THEN {"strangers"} ELSE {})
      /\ UNCHANGED <<known, drawn, order, undo, redo, pending, dirty, row, rank, edits, sent>>
  BY DEF Fail, server
<1>2. PICK r \in Request :
        /\ req' = [req EXCEPT ![s] = r]
        /\ \/ r = Idle
           \/ /\ r = Disowned(s)
              /\ req[s].step \notin {"created", "refused", "moved", "answer"}
  <2>1. CASE Done(s)
    BY <2>1 DEF Done, Request
  <2>2. CASE ~Done(s)
    <3>1. /\ req[s].step \notin {"created", "refused", "moved", "answer"}
          /\ req' = [req EXCEPT ![s].mine = FALSE]
      BY <2>2 DEF Fail
    <3>2. req' = [req EXCEPT ![s] = Disowned(s)]
      BY <3>1 DEF EditorInv, EditorTypeOK, Disowned
    <3> QED
      BY <1>1, <3>1, <3>2, DisownedIs
  <2> QED
    BY <2>1, <2>2
<1>3. Only(s) /\ req'[s] = r /\ req' \in [Slot -> Request]
  BY <1>2, ReqIs
<1>4. r # Idle =>
         /\ ~r.mine /\ r.kind = req[s].kind /\ r.step = req[s].step
         /\ r.step \notin {"created", "refused", "moved", "answer"}
         /\ At(s, "create", "insert") => r.count = req[s].count
         /\ At(s, "reorder", "load") => r.id = req[s].id
         /\ At(s, "reorder", "read") => r.id = req[s].id /\ r.own = req[s].own
         /\ At(s, "reorder", "swap") => r.new = req[s].new
  BY <1>1, <1>2, DisownedIs
<1>5. /\ \A k \in {"create", "reorder", "save"} : s \notin InFlight(k)'
      /\ \A k \in {"create", "reorder", "save"} : \A st : At(s, k, st)' =>
            /\ r # Idle /\ At(s, k, st) /\ st \notin {"created", "refused", "moved", "answer"}
      /\ s \in InFlight("save") <=> req[s].kind = "save"
      /\ s \in InFlight("create") <=> req[s].kind = "create"
  BY <1>1, <1>3, <1>4 DEF InFlight, At, Idle
<1>6. /\ saving' = IF s \in InFlight("save") THEN FALSE ELSE saving
      /\ creating' = IF s \in InFlight("create") THEN FALSE ELSE creating
      /\ {saving', creating'} \subseteq BOOLEAN
  BY <1>1, <1>5 DEF EditorInv, EditorTypeOK
<1>7. EditorTypeOK' /\ HistoryKeepsSections'
  BY <1>1, <1>3, <1>6, TypesAlone DEF EditorInv, EditorTypeOK, Events
<1>8. DrawnAreStored'
  <2>1. /\ At(s, "reorder", "load")' => req'[s].id \in Stored
        /\ At(s, "reorder", "read")' => req'[s].id \in Stored
        /\ At(s, "reorder", "swap")' => DOMAIN req'[s].new \subseteq Stored
        /\ ~At(s, "create", "created")' /\ ~(At(s, "save", "write")' /\ req'[s].mine)
    BY <1>3, <1>4, <1>5 DEF EditorInv, DrawnAreStored
  <2> QED
    BY <1>1, <1>3, <2>1, StoredSame, StoredOf DEF EditorInv, DrawnAreStored
<1>9. OneAtATime'
  BY <1>3, <1>5, <1>6, OneLeaves
<1>10. ListedAreKnown' /\ AnswersFitTheList'
  <2>1. At(s, "create", "created") => "strangers" \in seen'
    BY <1>1 DEF At
  <2> QED
    BY <1>1, <1>3, <1>5, <2>1, StoredSame, ListOf
<1>11. CleanIsSaved' /\ AnswersFitTheDrawing'
  BY <1>1, <1>3, <1>5, DrawingOf
<1>12. OrderingsApart' /\ PlansFitTheOrderings'
  <2>1. "raced" \notin seen' =>
          /\ At(s, "create", "insert")' => req'[s].count = Cardinality(Stored)
          /\ At(s, "reorder", "read")' => req'[s].own = rank[req'[s].id]
          /\ At(s, "reorder", "swap")' =>
               \E i, j \in Stored : /\ DOMAIN req'[s].new = {i, j}
                                    /\ req'[s].new[i] = rank[j] /\ req'[s].new[j] = rank[i]
    BY <1>1, <1>3, <1>4, <1>5 DEF EditorInv, PlansFitTheOrderings
  <2> QED
    BY <1>1, <1>3, <2>1, StoredSame, OrderingsOf
<1> QED
  BY <1>7, <1>8, <1>9, <1>10, <1>11, <1>12 DEF EditorInv

-----------------------------------------------------------------------------
(* The page is loaded                                                      *)

(* The sections of the chart that come before one by key.                  *)
Below(i) == {j \in First : j < i}

(* The list is numbered from nothing, without gaps.                        *)
LEMMA BelowAreFewer ==
  /\ IsFiniteSet(First)
  /\ \A i \in Key : Cardinality(Below(i)) \in 0 .. Cardinality(Key)
  /\ \A i \in First : Cardinality(Below(i)) < Cardinality(First)
  /\ \A i, j \in First : i < j => Cardinality(Below(i)) < Cardinality(Below(j))
<1>1. /\ IsFiniteSet(First) /\ Cardinality(First) \in Nat
      /\ Cardinality(First) <= Cardinality(Key) /\ Cardinality(Key) \in Nat
  BY SectionKeys, FS_Subset, FS_CardinalityType
<1>2. ASSUME NEW i \in Key
      PROVE  /\ IsFiniteSet(Below(i)) /\ Cardinality(Below(i)) \in Nat
             /\ Cardinality(Below(i)) <= Cardinality(First)
             /\ Cardinality(Below(i)) = Cardinality(First) => First = Below(i)
  <2>1. Below(i) \in SUBSET First
    BY DEF Below
  <2> QED
    BY <1>1, <2>1, FS_Subset, FS_CardinalityType
<1>3. \A i \in Key : Cardinality(Below(i)) \in 0 .. Cardinality(Key)
  BY <1>1, <1>2
<1>4. ASSUME NEW i \in First
      PROVE  Cardinality(Below(i)) < Cardinality(First)
  <2>1. i \in Key /\ i \notin Below(i)
    BY SectionKeys DEF Below
  <2> QED
    BY <1>1, <1>2, <2>1
<1>5. ASSUME NEW i \in First, NEW j \in First, i < j
      PROVE  Cardinality(Below(i)) < Cardinality(Below(j))
  <2>1. i \in Key /\ j \in Key /\ \A k \in First : k \in Nat
    BY SectionKeys
  <2>2. Below(i) \in SUBSET Below(j) /\ i \in Below(j) /\ i \notin Below(i)
    BY <1>5, <2>1 DEF Below
  <2>3. /\ Cardinality(Below(i)) <= Cardinality(Below(j))
        /\ Cardinality(Below(i)) = Cardinality(Below(j)) => Below(j) = Below(i)
    BY <1>2, <2>1, <2>2, FS_Subset
  <2>4. Cardinality(Below(i)) \in Nat /\ Cardinality(Below(j)) \in Nat
    BY <1>2, <2>1
  <2> QED
    BY <2>2, <2>3, <2>4
<1> QED
  BY <1>1, <1>3, <1>4, <1>5

LEMMA EditorBegins == EditorInit => EditorInv
<1> SUFFICES ASSUME EditorInit
             PROVE  EditorInv
  OBVIOUS
<1>1. /\ row = [i \in Key |-> IF i \in First THEN Fresh ELSE "absent"]
      /\ rank = [i \in Key |-> IF i \in First THEN Cardinality(Below(i)) ELSE 0]
      /\ known = First /\ drawn = row /\ order = Listed
      /\ undo = <<>> /\ redo = <<>> /\ pending = <<>>
      /\ dirty = FALSE /\ saving = FALSE /\ creating = FALSE
      /\ req = [s \in Slot |-> Idle] /\ seen = {} /\ edits = 0 /\ sent = 0
  BY DEF EditorInit, Below
<1>2. Stored = First
  BY <1>1, SectionKeys, FreshIsAShape DEF Stored
<1>3. rank \in [Key -> 0 .. Cardinality(Key)]
  BY <1>1, BelowAreFewer, StoredFinite
<1>4. Listed \in Seq(Key) /\ IsInjective(Listed) /\ Range(Listed) = First
  BY <1>2, <1>3, ListedIsAll
<1>5. /\ \A k \in {"create", "reorder", "save"} : InFlight(k) = {}
      /\ \A s \in Slot, k \in {"create", "reorder", "save"} : \A st : ~At(s, k, st)
  BY <1>1 DEF InFlight, At, Idle
<1>6. EditorTypeOK
  <2>1. row \in [Key -> Look \cup {"absent"}] /\ \A i \in First : row[i] \in Look
    BY <1>1, SectionKeys, FreshIsAShape
  <2>2. undo \in Seq(Snapshots) /\ redo \in Seq(Snapshots) /\ pending \in Seq(Snapshots)
    BY <1>1, EmptyIs
  <2>3. Len(undo) + Len(redo) <= HistoryLimit /\ Len(pending) <= 1
    BY <1>1, EmptyIs, EditorBounds
  <2>4. req \in [Slot -> Request]
    BY <1>1 DEF Request
  <2>5. edits \in 0 .. MaxEdit /\ sent \in 0 .. MaxRequest
    BY <1>1, EditorBounds
  <2> QED
    BY <1>1, <1>3, <1>4, <2>1, <2>2, <2>3, <2>4, <2>5, SectionKeys DEF EditorTypeOK
<1>7. DrawnAreStored /\ OneAtATime
  BY <1>1, <1>2, <1>5 DEF DrawnAreStored, OneAtATime
<1>8. HistoryKeepsSections
  BY <1>1, EmptyIs DEF HistoryKeepsSections
<1>9. ListedAreKnown /\ AnswersFitTheList
  BY <1>1, <1>2, <1>4, <1>5 DEF ListedAreKnown, AnswersFitTheList
<1>10. CleanIsSaved /\ AnswersFitTheDrawing
  BY <1>1, <1>5, SectionKeys, ServerClamps DEF CleanIsSaved, AnswersFitTheDrawing
<1>11. \A i \in First : i \in Nat /\ i \in Key /\ rank[i] = Cardinality(Below(i)) /\ rank[i] \in Nat
  BY <1>1, <1>3, SectionKeys, StoredFinite
<1>12. OrderingsApart
  <2> SUFFICES ASSUME NEW i \in First, NEW j \in First, rank[i] = rank[j]
               PROVE  i = j
    BY <1>2 DEF OrderingsApart
  <2>1. ~(i < j) /\ ~(j < i)
    BY <1>11, BelowAreFewer
  <2> QED
    BY <1>11, <2>1
<1>13. PlansFitTheOrderings
  BY <1>2, <1>5, <1>11, BelowAreFewer DEF PlansFitTheOrderings
<1> QED
  BY <1>6, <1>7, <1>8, <1>9, <1>10, <1>12, <1>13 DEF EditorInv

LEMMA EditorKept == EditorInv /\ [EditorNext]_editorVars => EditorInv'
<1> SUFFICES ASSUME EditorInv, [EditorNext]_editorVars
             PROVE  EditorInv'
  OBVIOUS
<1>1. CASE Gesture
  <2>1. CASE Begin
    BY <2>1, BeginInv
  <2>2. CASE End
    BY <2>2, EndInv
  <2>3. CASE Undo
    BY <2>3, UndoInv
  <2>4. CASE Redo
    BY <2>4, RedoInv
  <2>5. ASSUME NEW i \in Key, NEW v \in Look, Input(i, v) \/ Step(i, v)
        PROVE  EditorInv'
    BY <2>5, InputInv, StepInv
  <2> QED
    BY <1>1, <2>1, <2>2, <2>3, <2>4, <2>5 DEF Gesture
<1>2. ASSUME NEW s \in Slot, Asked(s)
      PROVE  EditorInv'
  <2>1. CASE NewSection(s)
    BY <2>1, NewSectionInv
  <2>2. CASE Save(s)
    BY <2>2, SaveInv
  <2>3. ASSUME NEW i \in Key, NEW d \in {"up", "down"}, Reorder(s, i, d)
        PROVE  EditorInv'
    BY <2>3, ReorderInv
  <2>4. CASE \/ NewSectionElsewhere(s)
             \/ \E v \in [First -> InBounds] : SaveElsewhere(s, v)
             \/ \E i \in Key, d \in {"up", "down"} : ReorderElsewhere(s, i, d)
    BY <2>4, AskedElsewhereInv
  <2> QED
    BY <1>2, <2>1, <2>2, <2>3, <2>4 DEF Asked
<1>3. ASSUME NEW s \in Slot, Served(s)
      PROVE  EditorInv'
  BY <1>3, CountInv, InsertInv, LoadInv, ReadInv, SwapInv, ListInv, StoreInv DEF Served
<1>4. ASSUME NEW s \in Slot, Answered(s)
      PROVE  EditorInv'
  BY <1>4, CreatedInv, RefusedInv, MovedInv, LayoutSavedInv, FailInv DEF Answered
<1>5. CASE UNCHANGED editorVars
  <2>1. /\ UNCHANGED <<known, drawn, order, undo, redo, pending, dirty, saving, creating, row, rank, req>>
        /\ UNCHANGED <<seen, edits, sent>>
    BY <1>5 DEF editorVars, client, server
  <2>2. EditorTypeOK' /\ HistoryKeepsSections'
    BY <2>1 DEF EditorInv, EditorTypeOK, HistoryKeepsSections
  <2> QED
    BY <2>1, <2>2, StoredAlone, OneAlone, ListAlone, DrawingAlone, OrderingsAlone DEF EditorInv
<1> QED
  BY <1>1, <1>2, <1>3, <1>4, <1>5 DEF EditorNext

LEMMA EditorSafe == EditorSpec => []EditorInv
BY EditorBegins, EditorKept, PTL DEF EditorSpec

-----------------------------------------------------------------------------
(* What the editor promises                                                *)

(* Every value of the editor's state, of the tables behind it and of the   *)
(* requests in flight has its type, and the two stacks together never hold *)
(* more than _historyLimit snapshots (chart_editor.js, endCoalesce, undo,  *)
(* redo).                                                                  *)
THEOREM EditorTypes == EditorSpec => []EditorTypeOK
<1>1. EditorInv => EditorTypeOK
  BY DEF EditorInv
<1> QED
  BY <1>1, EditorSafe, PTL

(* No undo, redo or cancelled gesture takes a section off the list, brings *)
(* one back or moves one: every snapshot lists what is listed now.         *)
THEOREM UndoOrphansNothing == EditorSpec => []HistoryKeepsSections
<1>1. EditorInv => HistoryKeepsSections
  BY DEF EditorInv
<1> QED
  BY <1>1, EditorSafe, PTL

(* The list has each section the editor has once and no other, whatever    *)
(* the order its answers come in, unless a section was stored that it was  *)
(* not told of or a new one and a move were under way at once.             *)
THEOREM SavesLeaveNoneOut == EditorSpec => []ListedAreKnown
<1>1. EditorInv => ListedAreKnown
  BY DEF EditorInv
<1> QED
  BY <1>1, EditorSafe, PTL

(* Of every section of a page without unsaved changes, what is stored is   *)
(* what the server makes of what is drawn (chart_editor_save clamps the    *)
(* offset, the delta and the number of rows), although saves fail and only *)
(* a save without errors clears the mark: the exceptions are a change made *)
(* while the save was under way, another tab's save and a list that is     *)
(* wrong.                                                                  *)
THEOREM CleanPagesAreStored == EditorSpec => []CleanIsSaved
<1>1. EditorInv => CleanIsSaved
  BY DEF EditorInv
<1> QED
  BY <1>1, EditorSafe, PTL

(* Creating and moving sections one at a time, from however many tabs,     *)
(* never gives two of them the same ordering: a new one is counted to the  *)
(* end and a move exchanges two.                                           *)
THEOREM ArrowsKeepWorking == EditorSpec => []OrderingsApart
<1>1. EditorInv => OrderingsApart
  BY DEF EditorInv
<1> QED
  BY <1>1, EditorSafe, PTL
=============================================================================
