------------------------------- MODULE Charts -------------------------------
(***************************************************************************)
(* A seating chart and what hangs on its seats (chart_editor_save and the  *)
(* section and zone views of dashboard/views.py, venues/generation.py,     *)
(* events/zones.py, events/pricing.py).                                    *)
(*                                                                         *)
(* A seat row is known by its primary key.  Saving a section either moves  *)
(* the rows it has or deletes them all and makes new ones, and deleting a  *)
(* seat takes its HoldSeat and PricingZoneSeat rows along, while a Ticket  *)
(* stops the generator and an OrderItem stops the database (PROTECT).      *)
(* Save Layout is one transaction per section and SectionForm reads the    *)
(* row before it writes it, so other requests come in between.             *)
(*                                                                         *)
(* Holds stand for those of Inventory, and a payment for the one of        *)
(* Checkout: here they are what a change of the chart may pull away.       *)
(***************************************************************************)
EXTENDS SeatNames, Functions

CONSTANTS NSection,     \* the chart's sections, in display order
          Shape,        \* the parameters managers give to a section
          Perf,         \* reserved-seating performances of the chart
          OnSale,       \* those that buyers hold seats of
          Buyer,        \* storefront sessions
          Form,         \* slots for SectionForm requests being served
          Scheme,       \* numbering schemes managers choose from
          NTemplate,    \* zone templates, in the order of their names
          Amount,       \* prices given to zones
          DefaultTier,  \* section -> its chart-wide price tier
          OverrideTier, \* a partial function of <<performance, section>>
          MaxGen,       \* bound: how often a section is regenerated
          ZoneId        \* bound: so many zones exist at once

Section  == 1 .. NSection
Template == 1 .. NTemplate

ASSUME ChartSizes  == NSection \in Nat /\ NTemplate \in Nat /\ MaxGen \in Nat
ASSUME ChartShapes == Shape \subseteq Params /\ Scheme \subseteq NumberingSchemes
ASSUME ChartShows  == OnSale \subseteq Perf
ASSUME ChartPrices == /\ Amount \subseteq Nat
                      /\ DefaultTier \in [Section -> Nat]
                      /\ DOMAIN OverrideTier \subseteq Perf \X Section
                      /\ \A x \in DOMAIN OverrideTier : OverrideTier[x] \in Nat

VARIABLES shape,     \* the parameters in the Section rows
          roster,    \* the names of the seats each section has rows for
          gen,       \* how often its rows were made anew: (section, gen, name) is a pk
          form,      \* the Section row a SectionForm request has in memory
          zones,     \* the PricingZone table with its PricingZoneSeat rows
          cart,      \* the Hold of a session with its HoldSeat rows, and the bill being paid
          live,      \* the tickets that are not void
          ordered,   \* seats with an OrderItem
          synced,    \* sections whose last writer was a Save Layout or a parse
          reverted,  \* those a SectionForm then gave back parameters it had read before
          mixed,     \* performances that got cloned zones on top of others
          pulled,    \* buyers whose seats were deleted while they paid
          stuck      \* sections whose save died on PROTECT

chart == <<shape, roster, gen>>
shop  == <<cart, live, ordered>>
ghost == <<synced, reverted, mixed, pulled, stuck>>
vars  == <<chart, form, zones, shop, ghost>>

NoCart == [step |-> "none", perf |-> 0, rows |-> {}, bill |-> {}]
NoForm == [sec |-> 0]

SeatRows(s) == [sec : {s}, gen : {gen[s]}, name : roster[s]]
Seats       == UNION {SeatRows(s) : s \in Section}

(* A section is a shell without seats, or was parsed from an upload. *)
Init == /\ shape \in [Section -> Shape]
        /\ \E parsed \in SUBSET Section :
             /\ roster = [s \in Section |-> IF s \in parsed THEN Roster(shape[s]) ELSE {}]
             /\ synced = parsed
        /\ gen = [s \in Section |-> 0]
        /\ form = [f \in Form |-> NoForm]
        /\ zones = {}
        /\ cart = [b \in Buyer |-> NoCart]
        /\ live = {} /\ ordered = {}
        /\ reverted = {} /\ mixed = {} /\ pulled = {} /\ stuck = {}

-----------------------------------------------------------------------------
(* Save Layout: the request sends parameters for every section, those its  *)
(* tab loaded or edited, so they may be anything by now.  Each section is  *)
(* a transaction and so a step, and a request that dies has made some of   *)
(* these steps.  A section with live tickets is refused and left alone.    *)

LiveOn(s)    == {t \in live : t.seat.sec = s}
OrderedOn(s) == ordered \cap SeatRows(s)

SameRoster(prm, s) == Roster(prm) = roster[s]

Saved(s, prm) ==
    /\ shape' = [shape EXCEPT ![s] = prm]
    /\ synced' = synced \cup {s}
    /\ reverted' = reverted \ {s}

(* Deleting the seats of a section cascades to zones and holds. *)
DeleteSeats(s) ==
    /\ zones' = {[z EXCEPT !.seats = @ \ SeatRows(s)] : z \in zones}
    /\ cart' = [b \in Buyer |-> [cart[b] EXCEPT !.rows = {r \in @ : r.seat \notin SeatRows(s)}]]
    /\ pulled' = pulled \cup {b \in Buyer : \E r \in cart[b].bill : r.seat \in SeatRows(s)}

(* generate_seats with replace=True. *)
NewSeats(s, prm) ==
    /\ gen[s] < MaxGen
    /\ Saved(s, prm)
    /\ roster' = [roster EXCEPT ![s] = Roster(prm)]
    /\ gen' = [gen EXCEPT ![s] = @ + 1]
    /\ UNCHANGED <<form, live, ordered, mixed, stuck>>

(* reposition_seats: the rows are kept, so what points at them is too. *)
Reposition(s, prm) ==
    /\ SameRoster(prm, s)
    /\ Saved(s, prm)
    /\ UNCHANGED <<roster, gen, form, zones, shop, mixed, pulled, stuck>>

(* Mutant: the guardrail is left to the database. *)
RegenerateUnderTickets(s, prm) ==
    /\ ~SameRoster(prm, s)
    /\ DeleteSeats(s) /\ NewSeats(s, prm)

(* Mutant: the rows that point at the seats stay. *)
RegenerateOnly(s, prm) ==
    /\ ~SameRoster(prm, s)
    /\ LiveOn(s) = {} /\ OrderedOn(s) = {}
    /\ NewSeats(s, prm)
    /\ UNCHANGED <<zones, cart, pulled>>

Regenerate(s, prm) ==
    /\ ~SameRoster(prm, s)
    /\ LiveOn(s) = {} /\ OrderedOn(s) = {}
    /\ DeleteSeats(s) /\ NewSeats(s, prm)

(* Mutant: the parameters are saved before the seats are looked at. *)
AbortAfterSave(s, prm) ==
    /\ ~SameRoster(prm, s)
    /\ LiveOn(s) = {} /\ OrderedOn(s) # {}
    /\ Saved(s, prm)
    /\ stuck' = stuck \cup {s}
    /\ UNCHANGED <<roster, gen, form, zones, shop, mixed, pulled>>

(* Nothing catches the ProtectedError of a seat that was once ordered: the *)
(* section rolls back and the rest of the request is never reached.        *)
Abort(s, prm) ==
    /\ ~SameRoster(prm, s)
    /\ LiveOn(s) = {} /\ OrderedOn(s) # {}
    /\ stuck' = stuck \cup {s}
    /\ UNCHANGED <<chart, form, zones, shop, synced, reverted, mixed, pulled>>

-----------------------------------------------------------------------------
(* SectionForm: name, tier and the naming of the seats, which stay as they are *)

FormLoad(f, s) ==
    /\ form[f] = NoForm
    /\ form' = [form EXCEPT ![f] = [sec |-> s, row |-> shape[s]]]
    /\ UNCHANGED <<chart, zones, shop, ghost>>

(* save() without update_fields writes every column of the row it read. *)
FormSave(f, scheme) ==
    LET s   == form[f].sec
        row == [form[f].row EXCEPT !.numbering_scheme = scheme]
    IN  /\ s # 0
        /\ shape' = [shape EXCEPT ![s] = row]
        /\ synced' = IF row = form[f].row THEN synced ELSE synced \ {s}
        /\ reverted' = IF form[f].row = shape[s] THEN reverted ELSE reverted \cup {s}
        /\ form' = [form EXCEPT ![f] = NoForm]
        /\ UNCHANGED <<roster, gen, zones, shop, mixed, pulled, stuck>>

-----------------------------------------------------------------------------
(* Pricing zones *)

ZonesOf(p)   == {z \in zones : z.perf = p}
Unused       == ZoneId \ {z.id : z \in zones}
Without(z, chosen) == [z EXCEPT !.seats = @ \ chosen]

(* get_or_create, which raises when clones left two zones of the template. *)
Target(p, t) ==
    LET same == {z \in ZonesOf(p) : z.template = t}
    IN  IF same = {}
        THEN {[id |-> i, perf |-> p, template |-> t, amount |-> 0, seats |-> {}] : i \in Unused}
        ELSE {z \in same : same = {z}}

(* Mutant: the seats stay in the zones they were in. *)
ApplyZoneOnTop(p, t, chosen, a) ==
    /\ chosen # {}
    /\ \E z \in Target(p, t) :
         zones' = (zones \ {z}) \cup {[z EXCEPT !.amount = a, !.seats = @ \cup chosen]}
    /\ UNCHANGED <<chart, form, shop, ghost>>

ApplyZone(p, t, chosen, a) ==
    /\ chosen # {}
    /\ \E z \in Target(p, t) :
         zones' = {IF y.perf = p THEN Without(y, chosen) ELSE y : y \in zones \ {z}}
                  \cup {[z EXCEPT !.amount = a, !.seats = @ \cup chosen]}
    /\ UNCHANGED <<chart, form, shop, ghost>>

RemoveSeats(z, chosen) ==
    /\ chosen # {}
    /\ zones' = (zones \ {z}) \cup {Without(z, chosen)}
    /\ UNCHANGED <<chart, form, shop, ghost>>

(* Mutant: the holds priced from the zone go with it. *)
DeleteZoneAndHolds(z) ==
    /\ zones' = zones \ {z}
    /\ cart' = [b \in Buyer |-> IF cart[b].perf # z.perf THEN cart[b]
                  ELSE [cart[b] EXCEPT !.rows = {r \in @ : r.seat \notin z.seats}]]
    /\ UNCHANGED <<chart, form, live, ordered, ghost>>

(* SET_NULL: a hold keeps its row and the amount it was made with. *)
DeleteZone(z) ==
    /\ zones' = zones \ {z}
    /\ UNCHANGED <<chart, form, shop, ghost>>

(* Every zone of the source becomes a new zone of the target. *)
CloneZones(from, to) ==
    /\ from # to /\ ZonesOf(from) # {}
    /\ \E id \in [ZonesOf(from) -> Unused] :
         /\ IsInjective(id)
         /\ zones' = zones \cup {[z EXCEPT !.id = id[z], !.perf = to] : z \in ZonesOf(from)}
    /\ mixed' = IF ZonesOf(to) # {} \/ from \in mixed THEN mixed \cup {to} ELSE mixed
    /\ UNCHANGED <<chart, form, shop, synced, reverted, pulled, stuck>>

-----------------------------------------------------------------------------
(* Buyers *)

TierAmount(p, s) ==
    IF <<p, s>> \in DOMAIN OverrideTier THEN OverrideTier[<<p, s>>] ELSE DefaultTier[s]

(* resolve_reserved_prices: the zone that comes last by name wins, else the *)
(* section's tier.  Zones of one name come in any order.                    *)
Prices(p, seat) ==
    LET in == {z \in ZonesOf(p) : seat \in z.seats}
    IN  IF in = {} THEN {TierAmount(p, seat.sec)}
        ELSE {z.amount : z \in {y \in in : \A x \in in : x.template <= y.template}}

Taken(p) == {t.seat : t \in {u \in live : u.perf = p}}
HeldByOthers(b) == UNION {{r.seat : r \in cart[c].rows} : c \in Buyer \ {b}}

Hold(b, p, chosen) ==
    /\ cart[b].step \in {"none", "held"}
    /\ chosen # {} /\ chosen \cap (Taken(p) \cup HeldByOthers(b)) = {}
    /\ \E price \in [chosen -> UNION {Prices(p, seat) : seat \in chosen}] :
         /\ \A seat \in chosen : price[seat] \in Prices(p, seat)
         /\ cart' = [cart EXCEPT ![b] = [step |-> "held", perf |-> p, bill |-> {},
                        rows |-> {[seat |-> seat, amount |-> price[seat]] : seat \in chosen}]]
    /\ UNCHANGED <<chart, form, zones, live, ordered, ghost>>

(* Released by the buyer, or expired. *)
Release(b) ==
    /\ cart[b].step # "none"
    /\ cart' = [cart EXCEPT ![b] = NoCart]
    /\ pulled' = pulled \ {b}
    /\ UNCHANGED <<chart, form, zones, live, ordered, synced, reverted, mixed, stuck>>

(* The Checkout session lists the rows of the hold with their amounts. *)
Pay(b) ==
    /\ cart[b].step = "held" /\ cart[b].rows # {}
    /\ cart' = [cart EXCEPT ![b].step = "paying", ![b].bill = cart[b].rows]
    /\ UNCHANGED <<chart, form, zones, live, ordered, ghost>>

Fulfill(b) ==
    /\ cart[b].step = "paying"
    /\ live' = live \cup {[perf |-> cart[b].perf, seat |-> r.seat] : r \in cart[b].rows}
    /\ ordered' = ordered \cup {r.seat : r \in cart[b].rows}
    /\ cart' = [cart EXCEPT ![b] = NoCart]
    /\ pulled' = pulled \ {b}
    /\ UNCHANGED <<chart, form, zones, synced, reverted, mixed, stuck>>

(* The ticket is void, the OrderItem stays. *)
Void(t) ==
    /\ live' = live \ {t}
    /\ UNCHANGED <<chart, form, zones, cart, ordered, ghost>>

-----------------------------------------------------------------------------
Layout  == \E s \in Section, prm \in Shape :
             Reposition(s, prm) \/ Regenerate(s, prm) \/ Abort(s, prm)
Naming  == \E f \in Form : \/ \E s \in Section : FormLoad(f, s)
                           \/ \E scheme \in Scheme : FormSave(f, scheme)
Pricing == \/ \E p \in Perf, t \in Template, chosen \in SUBSET Seats, a \in Amount : ApplyZone(p, t, chosen, a)
           \/ \E z \in zones : DeleteZone(z) \/ \E chosen \in SUBSET z.seats : RemoveSeats(z, chosen)
           \/ \E from, to \in Perf : CloneZones(from, to)
Selling == \/ \E b \in Buyer : \/ Release(b) \/ Pay(b) \/ Fulfill(b)
                               \/ \E p \in OnSale, chosen \in SUBSET Seats : Hold(b, p, chosen)
           \/ \E t \in live : Void(t)

Next == Layout \/ Naming \/ Pricing \/ Selling
Spec == Init /\ [][Next]_vars

-----------------------------------------------------------------------------
(* Properties *)

Seat    == [sec : Section, gen : Nat, name : (Nat \X Nat) \X Nat]
HoldRow == [seat : Seat, amount : Nat]
Zone    == [id : ZoneId, perf : Perf, template : Template, amount : Nat, seats : SUBSET Seats]

(* No row points at a seat that is gone: chart, zones and holds agree on   *)
(* the seats there are, whatever was regenerated, cloned or sold.          *)
TypeOK ==
    /\ shape \in [Section -> Params]
    /\ roster \in [Section -> SUBSET ((Nat \X Nat) \X Nat)]
    /\ gen \in [Section -> Nat]
    /\ zones \subseteq Zone
    /\ \A b \in Buyer : /\ cart[b].rows \subseteq HoldRow /\ cart[b].bill \subseteq HoldRow
                        /\ \A r \in cart[b].rows : r.seat \in Seats
    /\ synced \in SUBSET Section

(* "A seat belongs to at most one zone per performance" (events/zones.py:10): *)
(* every way of assigning seats keeps it, but for a clone onto a performance  *)
(* that had zones.                                                            *)
ZonesDisjoint ==
    \A y, z \in zones : y.perf = z.perf /\ y.id # z.id /\ y.perf \notin mixed => y.seats \cap z.seats = {}

(* The same claim as it stands in events/zones.py:10-14 and events/models.py:232: *)
(* clone_zones_from_performance does not pull the seats out of the zones they     *)
(* are in.                                                                        *)
OneZonePerSeat ==
    \A y, z \in zones : y.perf = z.perf /\ y.id # z.id => y.seats \cap z.seats = {}

(* What the live editor computes from a section's parameters is the seats the *)
(* section has (venues/models.py:76-79), from a save until its naming is      *)
(* edited or a stale SectionForm writes old parameters back.                  *)
SavedSectionsMatch ==
    \A s \in synced \ reverted : roster[s] = Roster(shape[s])

(* A ticket that is not void has a seat row of its printed name, however     *)
(* sections are saved (the guardrail of generate_seats).                     *)
LiveSeatsStay == \A t \in live : t.seat \in Seats

(* Whoever is paying has a hold on just the seats and amounts of the bill, or *)
(* their section was regenerated meanwhile: zone edits, deletions and clones  *)
(* do not touch a price once it is held (HoldSeat.unit_amount).               *)
PayersHoldTheirBill ==
    \A b \in Buyer : cart[b].step = "paying" /\ b \notin pulled => cart[b].rows = cart[b].bill

(* The other tables, row by row. *)
Cart   == [step : {"none", "held", "paying"}, perf : Perf \cup {0}, rows : SUBSET HoldRow, bill : SUBSET HoldRow]
Ticket == [perf : Perf \cup {0}, seat : Seat]
RowsOK == /\ form \in [Form -> {NoForm} \cup [sec : Section, row : Params]]
          /\ cart \in [Buyer -> Cart]
          /\ live \subseteq Ticket

(* A zone's id is a primary key. *)
IdsApart == \A y, z \in zones : y.id = z.id => y = z

(* The inductive invariant. *)
ChartInv == /\ TypeOK /\ RowsOK /\ IdsApart /\ ZonesDisjoint
            /\ SavedSectionsMatch /\ LiveSeatsStay /\ PayersHoldTheirBill

(* The message of generate_seats, "Void/refund those tickets first" (venues/   *)
(* generation.py:424): once every ticket is void the section can be            *)
(* regenerated.  The OrderItem of the void ticket forbids it forever.          *)
VoidedSeatsCanGo == stuck = {}
=============================================================================
