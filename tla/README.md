# boxoffice in TLA+

This directory is a verification development of boxoffice, a multi-tenant
Django box office for small theaters. It models the parts of the program in
which several requests, several transactions or an outside service touch the
same rows: holding and selling admissions, taking money through Stripe,
giving passes back, mailing a campaign to guests who may withdraw, drawing and
pricing a seating chart, editing a performance, running a team, and giving a
theater its site. Every definition names its source lines in `PROJECT.json`.

How to run things:

    tlc -workers 2 -config InvHouse.cfg MCInventory.tla
    tlapm InventoryProofs.tla

## The system

| component | state it keeps | operations | what makes it correct |
|---|---|---|---|
| Cart holds and availability (`orders`) | `Hold`, `HoldSeat`, `PerformanceSeatBlock` | `set_ga_hold`, `set_reserved_hold`, `release_hold`, seat map | no seat in two carts, no promise beyond capacity, the map tells the truth |
| Ticket fulfilment (`payments`) | `Order`, `OrderItem`, `Ticket`, `GAAllocation.sold` | `fulfill_hold`, `_fulfill_ga`, `_fulfill_reserved` | a seat sold once, the counter exact, capacity kept, a hold used once |
| Voiding and scanning (`orders`, `scanning`) | `Ticket.status` | `void_order`, `redeem_ticket` | a void ticket is never admitted, an admission is counted once |
| Sweeper (`orders` command) | the same `Hold` rows | `release_expired_holds` from cron | an abandoned hold leaves |
| House edits (`dashboard`, admin) | mode, chart, capacity and prices of a performance, seat blocks | `PerformanceForm`, price pages, block and unblock | staff cannot sell what is already sold; what was held is what is bought; the pages agree |
| Stripe checkout and webhook (`payments`) | `Order.stripe_checkout_session_id`, Stripe's sessions | three session creators, `fulfill_checkout_session`, `stripe_webhook` | one order per payment, one receipt, every event answered |
| Promo codes (`promotions`) | `PromoCode.redemption_count`, the promo columns of `Hold` | validate, apply, remove, count, dashboard edits | exact counts, always something left to pay |
| Donations | the donation columns of `Hold`, `DonationCampaign` | add, remove, standalone gift | the gift is outside the discount, recorded once |
| Passes (`passes`) | `PassProduct`, `PassPurchase`, `PassRedemption` | sale, redemption, restoration | credits conserved, a season slot used once |
| Cancellation and refund (`dashboard`, `payments`) | `Order.status`, Stripe's refunds | `order_cancel`, `refund_order` | no money back for admissions still good |
| Stripe Connect onboarding | an account id and two flags on the organization | mirror of what Stripe reports | - |
| Email campaigns (`campaigns`) | `EmailCampaign.status`, `CampaignSend.status` | start, cron claim, send, finish, edit form | nobody mailed twice or after opting out; a campaign ends |
| Guests and consent (`guests`) | `GuestAccount.marketing_opt_in`, login tokens | opt in, unsubscribe, sign in | an unsubscribe is honoured |
| Accounts and team (`accounts`, `dashboard`) | `User`, `Membership`, set-password links | add and invite, change a role, remove, `create_staff_user` | a theater has an owner; who may change whom, also when requests overlap; the invited can get in |
| Tenants and provisioning (`tenants`, `bin/boxoffice`) | `Organization.infra_status`, vhost files, what nginx has loaded | queue, claim, `add-tenant`, `remove-tenant`, host lookup | one worker per tenant, a status that tells the truth, no site for the reserved or the removed |
| Venues and charts (`venues`) | `Section`, `Seat` | name, generate and move seats, `SectionForm`, Save Layout | a live ticket keeps its seat; parameters and seats agree |
| Pricing zones (`events`) | `PricingZone`, `PricingZoneSeat`, `PriceTier` | apply, shrink, delete, clone, resolve a price | each seat has one price, and a held one does not change |
| Chart editor (`static/js/chart_editor.js`) | sections, undo and redo, `dirty` in the page | gestures, undo, move, new section, Save Layout | undo never orphans a row; what looks saved is saved |
| Dashboard reports, help pages, other browser code | - | listing, drawing | - |

Interactions. The browser talks to Django views; a view reads rows, then calls
a service function. Service functions that change inventory or money are
decorated with `@transaction.atomic`. Stripe is called from views (to create a
session) and from inside `refund_order`'s transaction, and calls back through
`stripe_webhook`. Three cron commands (`release_expired_holds`,
`send_campaign_emails`, `provision_pending_tenants`) change rows next to the web workers, of which gunicorn
runs three by default (`bin/boxoffice`).

What is atomic. `harden_sqlite` (`config/settings/base.py`) makes every
transaction `IMMEDIATE`, so it takes SQLite's one write lock when it begins:
atomic functions run one after the other, and each is ONE action here.
`ATOMIC_REQUESTS` is not set, so a view is not a transaction: what a view reads
before it calls an atomic function, and every statement of a view that calls
none, is a step of its own, with other requests in between. This distinction is
where most of the hazards come from.

Hard behaviours. Two buyers for one seat; a hold that expires while its buyer
is paying; a `Hold` object in memory whose row has gone; two sessions for one
cart; events delivered twice, late, or again after a lost answer; staff who
change a code, a price or a capacity under somebody's cart; a form that saves
what it read before a sale; a cancellation that overlaps another, or dies half
way; a refund Stripe made and nobody heard of; a chart regenerated under holds,
bills and tickets; a performance that changes its mode while it is being sold;
two owners who demote each other; a provisioning worker killed half way; an
answer that reaches a page which has moved on. `PROJECT.json` lists each under
`hazards` with its line and the properties aimed at it.

Known behaviours about which the code promises nothing, so that no property is
stated: a code may go over its cap by as many paid orders as were under way when it
was reached (`promotions/services.py:92`; the comment in `fulfill_hold` accepts it); a
receipt that cannot be sent is never sent (`payments/views.py:91`); a seat blocked under an active
hold is still sold (`orders/models.py:230`); `order_cancel` writes CANCELLED over REFUNDED
(`dashboard/views.py:1164`). Each of them is a behaviour of its model.

## The modules

**`SeatLedger`** is the abstract specification of admissions: a set of live
admissions, the capacities, and the orders ever sold. An order is sold once,
entirely or not at all; a seat of a performance is admitted to one live order;
live admissions stay within capacity; what was given back stays given back.
There are no holds, no ticket rows and no counter in it.

**`Inventory`** is `orders/services.py`, `_fulfill_ga` and `_fulfill_reserved`,
the sweeper, the scanner's transition and the house edits. Variables are tables:

- `holds` is `Hold` with its `HoldSeat` rows. Its `units` are seats, or `1..quantity`
  for general admission, so that a cardinality is the quantity. All holds last
  the same ten minutes, hence expire in the order of their keys: `horizon` is
  the last expired key and `TimePasses` moves it.
- `inflight` is the checkout requests (stub page, test page) that
  have loaded a `Hold` object and not yet called `fulfill_hold`. The object may
  be any row that was once in the table. The webhook loads the hold within its
  transaction and never has such a step. `Request = {}` is the deployment
  that sells through Stripe only.
- `status` is `Ticket`, `origin` the hold each `Order` came from, `sold` and
  `capacity` the `GAAllocation` row, `blocked` the `PerformanceSeatBlock` rows.

A call that raises leaves the database alone and is not a step. The database's
own constraints (`unique_live_ticket_per_performance_seat`,
`ga_sold_lte_capacity`) are NOT in the model: what is shown is that the code
keeps them by itself.

**`Checkout`** is money: the cart's amount columns, the promo code row, the
pass product's price and switch, Stripe's sessions and the webhook. Inventory
appears as one step, `AvailabilityChanged`, that may always happen. Stripe is
external (`Pay`, `Abandon`, repeated delivery). The webhook's order commits
first and the receipt is a later step (`mailing`), because `stripe_webhook`
sends mail after `fulfill_checkout_session` has returned; `ReceiptFails` is a mail
host that raises or a worker that dies there. `editing` is the promo form
between loading and saving the row: Django saves every column.

**`Passes`** is passes after their sale. `fulfill_hold_with_pass` and
`refund_order` are actions. `order_cancel` is six steps of a `Clerk` (load, void,
read redemptions, load passes, delete, save, close), because neither the view
nor `restore_redemptions_for_order` opens a transaction, and `CancelDies` may
end it after any of them. Inside `refund_order` the same
`restore_redemptions_for_order` is part of one action. `RefundSaleUnheard` is a
refund that Stripe made and whose transaction rolled back. A ticket row, its
redemption row and its credit are one value, told apart by the sets `live` and
`redeemed`. The season constraint of the database is left out again.

**`Campaigns`** is one email campaign and the consent of the guests it goes to.
`send` is the `CampaignSend` table by guest, with "none" for no row, as the table
has one row per campaign and guest; `mailed` counts what really left. A run of
`send_campaign_emails` is a `Sender` with its batch in memory, and each statement
of its loop is a step: the conditional claim, the read of the guest's row, the
mail, the outcome, and at the end the count of what remains and the flip to SENT.
Runs overlap (cron does not wait for the last tick) and `SenderDies` may end one
anywhere. The rows of a batch are taken in any order; the code's order of keys is
one of them. Mail that raises may have gone out or not. An `Editor` is a request
that saves a model form: `EmailCampaignUpdateView` writes back the draft status
it loaded, `audience_detail` the consent it loaded. CANCELLED is set only in
the admin, whose other free edits are left out. `withdrawn`, `reverted` and
`deaths` are history: no action's guard but the bound of `SenderDies` reads them.

**`PaymentLedger`** is the abstract specification of payments: what was collected,
handed over, turned down and confirmed. A payment is handed over once or turned
down for good; what one cart held is handed over for one payment; a receipt is of
something handed over. There are no holds, sessions under way, events or codes in
it. `Checkout!ImplementsPayments` is the refinement: `sold` is what the orders
say, `refused` the payments logged as having nothing to fulfil.

**`Money`** is the arithmetic between a cart and Stripe as operators: amounts are
hundredths, and `ToMinorUnits` is the conversion of each line item, the coupon and
the gift, in its three kinds of currency, with Python's rounding to the even. `Checkout`
extends it for `ChargesReconcile`; the actions keep to the small amounts of `Price`, `Off` and `Gift`.

**`SeatNames`** and **`Charts`** are a seating chart and what hangs on its seats.
`SeatNames` translates how `venues/generation.py` names the seats of a section
from the section's parameters (`Roster`), without saying where they are drawn. In
`Charts` a seat row is a section, a generation and a name: regenerating a section
makes new rows, moving one keeps them. Deleting a seat takes its `HoldSeat` and
`PricingZoneSeat` rows along, a live ticket stops the generator, an `OrderItem`
stops the database. Save Layout is a transaction per section; `SectionForm` is a
`Form` that read the row some time before it writes it; a buyer holds, is paying a
bill, and is fulfilled from the hold's rows as they are then.

**`Performances`** is one performance while staff edit it and buyers select and pay.
`request` is the row `hold_create` loaded before it called a setter, `page` the price page
a tab of the staff shows, or the form that has saved the row and not yet the
`GAAllocation`. `SoldShown`, `CapacityShown`, `AvailableShown` and `Coloured` are what
the dashboard and the storefront show, recomputed from the tables. A cart or an
order is `Astray` when it is no longer one that the performance as it is could have
made.

**`Team`** is roles and invitations. No view of it is a transaction: a `Slot` is a
request that reads its own membership, the target's, counts the owners, and
writes, one query per step, and `Dies` may end it after any. An invitation is a
user, a membership and a mail, in that order. `failed` (whose creator ended before the
mail), `stale` (what another request made untrue of what a request remembers of its actor or
its target), `raced` and `shell` are history, for the properties: no guard reads them.

**`Provisioning`** is how a theater gets its nginx site and loses it. A `Tick` is a
worker that cron started: it scans, claims, runs the script and records the
result; `add-tenant` is followed from the test for the vhost file through opening it (which
empties one that a second script has written since), writing it, linking it, reloading nginx and
certbot, each a step that may end the script, from the worker or from the operator's `Shell`;
`remove-tenant` is the row, then the files, then the reload. A worker or a terminal may be killed
after any step. `mark` is history, "dark" of it for a site whose whole file nginx was not given:
it refused the configuration, found the file empty, or the file was emptied or removed since.
`Answer` is what a visitor of the subdomain gets.

**`ChartEditor`** is the editor in the browser and the requests it shares a chart
with other tabs by. One handler runs at a time; a request is counted, served and
answered in steps of its own, an answer is handled whenever it comes or is lost
after the work was done (`Fail`). A move reads the section (`Load`), the list (`Read`), exchanges
two orderings and lists again. What a section looks like is one value, and `Clamp` is what
`chart_editor_save` makes of it: a row offset, alternate delta or number of rows past its limits
is stored at the limit and answered with ok, while the number inputs of the page do not enforce
theirs on what is typed.

**`InventoryProofs`**, **`CheckoutProofs`** (with `Money`), **`PassesProofs`**,
**`CampaignsProofs`**, **`TeamProofs`**, **`ProvisioningProofs`**, **`PerformancesProofs`** and
**`ChartsProofs`** (with `SeatNames` and `ChartEditor`) hold the theorems; the modules named
`MC...` are the instances for TLC. The variables and the specification of `ChartEditor` have names
of their own (`drawn`, `EditorSpec`), because one module of proofs extends it and `Charts`.

Definitions marked "Mutant" are plausible mistakes of the code, each next to the
definition it spoils. They are used nowhere in the specifications; each one,
put in place of its neighbour, breaks the property named with it under
`mutants` in `PROJECT.json`, which is how we know that the property can fail.

## The runs

| run | instance | shows |
|---|---|---|
| `InvHouse` | 2 buyers, 1 general admission show, 1 reserved show of 2 seats, 3 holds, 2 orders, quantity up to 2, capacity up to 3 | `SoldMatchesTickets`: the counter equals the live tickets; `OnlyStaffOvercommit`: sold plus held exceeds capacity only by a capacity edit; `HeldSeatsUnsold` |
| `InvStale` | the same shows with 1 seat and quantity 1, 2 buyers, 3 holds, 2 orders, a request with a stale hold | `ImplementsLedger`: no seat twice, no more than the capacity, an order sold once and never again after it was given back; `HoldsGoAway` |
| `CheckoutOrders` | 2 carts, 2 sessions, 1 code with a cap of 1 | `ImplementsPayments`: one order per payment and per cart, one receipt, a refusal is final; `UsesCountPaidCodes` |
| `CheckoutStaff` | 1 cart, 1 session, a staff form, amounts 0, 1 and 2; for `Money`, 10 prices around the points where a rounding turns, 1 and 3 tickets, 12 codes and 4 gifts | `EveryPaymentAnswered`; `ChargesReconcile`: a session collects the total of its order |
| `CheckoutDrift` | 1 cart, 1 session | violation of `TotalIsCollected` |
| `PassesCancel` | a flex pass of 2 credits, a season pass, 2 redemption orders of 1 ticket, 2 cancellations | `AdmissionsAreUsed`, `SeasonOncePerEvent`, `OnlyOverlapsLoseCredits`, `RevivedByOldReads` |
| `CampaignSend` | 2 guests, 2 runs of the sender, 1 form, batches of 2, 1 death | `NobodyMailedTwice`, `SentMeansDrained`, `WithdrawalHonoured`, `CampaignEnds` |
| `HouseCharts` | 1 section of 1 or 2 seats that can be moved and regenerated once, 2 numbering schemes, 2 performances, 2 zones and templates, 1 buyer, 1 stale form | `TypeOK`: no row points at a seat that is gone; `ZonesDisjoint`, `SavedSectionsMatch`, `LiveSeatsStay`, `PayersHoldTheirBill` |
| `HouseEdits` | 2 buyers, 1 tab of the staff, 2 charts of 1 seat, capacity and quantity up to 1, 1 order | `AllocationIsTrue`: `sold` counts the live tickets across mode switches and a capacity never falls below it; `OnlySavesOvercommit`: between the two statements of the form, sold and held exceed the capacity only by a save of the staff; `HouseAddsUp`: the pages agree, but for the tickets of an order from before a switch of mode or chart, of which it says how far they are off; `AstrayThroughEditsOnly` |
| `TeamRoles` | 3 people, 2 of them known, 2 roles, 2 requests at once, each person added at most once | `OwnersRunOutByRace`, `AuthorityHolds`, `InvitedWereMailed` |
| `ProvisionQueue` | 2 tenants, 1 of them reserved, 2 workers, 1 terminal; 2 requests by the admin, 1 kill, 1 command | `WorkersKeepApart`, `StatusTellsTheWork`, `LiveIsServed`, `PurgedHasNoSite`, `QueueDrains` |
| `EditorUndo` | a page of 2 sections and room for a third, 3 looks of which one is past the limits, a history of 1, 2 edits, 2 requests | `EditorTypeOK` with the limit of the history, `HistoryKeepsSections`, `ListedAreKnown`, `CleanIsSaved`, `OrderingsApart` |

A property that is proved is not also given to a run, unless it is what the run
is about: the types, the inductive invariants and what the two ledgers imply
(`NoDoubleSeat`, `OneOrderPerCart`, `OneReceipt` and the like) are left to the
proofs.

Why the bounds are enough. Two sessions make every conflict of two buyers; three
holds and two orders let one buyer hold, lose and hold again while another
buys, and let a seat be sold, voided and sold again. Capacity 3 with quantities
up to 2 has houses that fit one cart and not two, and two carts and not three.
Two seats let selections overlap partly. A general admission show and a reserved
one share the tables, keys and orders, so that a mix-up of the two shows. In `Checkout`, two carts and two
sessions give two payments for one cart, one payment each, and a payment that
arrives for a replaced cart; the amounts 0, 1 and 2 put the discount below, at
and above the subtotal. In `Passes`, two credits and two orders exhaust a pass
and bring it back, and two cancellations are all a pair can do to each other. In
`Campaigns`, two runs make every race for a row, two guests give one run a row to
be at while the other finishes, and one death is enough to strand a row or a
campaign; a campaign may be put back to draft and started any number of times.
In `Charts`, a section of one seat or two is
grown, shrunk, moved and renumbered, and one regeneration is all it takes to pull a
row from under a hold, a zone or a ticket; the second performance is there to clone
zones from. In `Performances` one seat per chart and a capacity of one make
every sale the last one. In `Team` two owners and a newcomer give every pair of
requests that change each other's actor or target. In `Provisioning`
two workers meet at one tenant or work on two, a worker and the terminal run the same script, and the two requests of the admin let a tenant be
queued again under its worker. In `ChartEditor` a history of one overflows with the
second edit, and two requests make every overtaking of answers. `CheckoutStaff` gives `Money`
prices on both sides of each half; the other runs of `Checkout` do not look at it and give it one amount.
The proved properties hold for all bounds. Symmetry is used only in runs without
liveness, on sets whose members no definition distinguishes.

`CHECK_DEADLOCK FALSE` appears in three runs: in `PassesCancel` the passes may all be
refunded and the orders all be cancelled, in `TeamRoles` everybody may have left, and in
`ProvisionQueue` the requests and commands are used up; then nobody has anything
left to do. The other models always have a step.

### Claims of the code that do not hold

`CheckoutDrift` shows one as a violation. The session freezes the amount, the order
records the total of the cart as it is when the event arrives: a code or a gift
changed in between makes them differ. `Order.total` is documented as what Stripe
collected (`orders/models.py:294`).

The others are stated as definitions of their modules, with no run of their own;
each fails as soon as it is put into the configuration named here.

| definition | what the code says | what it does | where it fails |
|---|---|---|---|
| `Inventory!SelectableIsHoldable` | "So both agree on what 'taken' means" (`orders/services.py:270`): the seat map shows what can be held | the query for seats held by others in `set_reserved_hold` lacks a filter on the performance: two shows on one chart refuse each other's held seats, while the map shows them as available | `InvHouse` with two reserved shows |
| `Inventory!OneOrderPerHold` | a resubmission of the stub page finds no hold | the stub and test pages load the `Hold` before the transaction; two that both loaded it make two orders of a general admission hold | `InvStale` with two requests |
| `Passes!NoFreeCredits` | credits given back are those that were spent | `order_cancel` restores them outside a transaction; another cancellation or a refund in the middle, and the same credits are given twice | `PassesCancel` |
| `Passes!RefundedStaysRefunded` | a refunded pass stays refunded | a cancellation that has deleted the last redemption of an exhausted pass lets the pass's sale be refunded, then saves it as active | `PassesCancel` |
| `Campaigns!ConsentIsGiven` | consent is only ever changed by the guest (`GuestTagsNotesForm`) | `form.save()` writes every column: a guest who unsubscribes between the load and the save is subscribed again | `CampaignSend` |
| `Checkout!UsesCountPaidCodes` | the count is of codes paid with | the promo form writes back the count it read | `CheckoutOrders` with an `Editor` |
| `Charts!OneZonePerSeat` | a seat is in at most one zone of a performance | cloning zones onto a performance that has some does not pull the seats out of them | `HouseCharts` |
| `Charts!VoidedSeatsCanGo` | void the tickets and the section can be regenerated | the `OrderItem` of a void ticket protects its seat for ever | `HouseCharts` |
| `Performances!OnlyBlankCellsClear` | a blank cell clears a price | a price page saved after the performance was given another chart, or made general admission and back, deletes defaults it never showed | `HouseEdits` |
| `Team!AlwaysAnOwner` | never leave the organization with no owner | two owners demote or remove each other, both counts read two; `create_staff_user` asks nothing | `TeamRoles` |
| `Team!AuthorityAtTheWrite` | "Only an owner can grant or change the owner role" (`dashboard/views.py:2172`) | an owner's request that was under way when they were demoted still makes an owner; a manager's request removes a member who was made owner after it loaded them | `TeamRoles` |
| `ChartEditor!CleanIsExact` | "what staff see is exactly what gets persisted" (`dashboard/views.py:1635`) | a value typed past a field's limits is clamped and answered with ok: the page says Saved and still shows what was typed | `EditorUndo` |
| `Provisioning!RerunFinishes` | re-run as root to finish | the re-run finds no row, fails, and leaves the vhost | `ProvisionQueue` with two commands |

Next to them stand the properties that do hold: `OnlyOverlapsLoseCredits` (credits
appear or vanish only when a cancellation was overlapped or died between deleting
and saving), `RevivedByOldReads` (a refunded pass comes back only through a
cancellation that had read it as exhausted), `ZonesDisjoint`,
`OwnersRunOutByRace`, `AuthorityHolds` (the roles a request came in with decide, and another member
acts, unless one of the two memberships it read was changed since), `CleanIsSaved` (what is
stored is what is drawn, clamped). Making `order_cancel` one transaction and having forms save
the columns they show would be most of the repair.

Other behaviour that the models have, or that was met while writing them:

- `Money`: `_to_minor_units` is said to truncate and the reconciliation to be exact
  (`payments/services.py:352`). It rounds to the even, and in a currency of whole
  units each line is rounded on its own, so that total and charge may differ; a code of
  99.5 % rounds to the whole subtotal, and Stripe refuses the session.
- A sender of campaigns that dies after a claim, or after the last outcome and before the
  flip, leaves its campaign SENDING for ever; `EmailCampaignUpdateView` turns a campaign
  being sent back into a draft.
- `hold_create` and the checkout do not look at the status of a performance. A
  switch from reserved to general admission accepts a capacity below the seats already sold,
  because it looks at the allocation's own count. The general admission page lists prices that
  `hold_create` then refuses. Clearing a price that has priced a ticket raises
  `ProtectedError`.
- Provisioning: a tenant that is removed and made active again says Live and has no
  site; the re-run of `provision_tenant` never sets `is_active`; `add-tenant --infra-only`
  by hand is not stopped at a reserved name; a file that was opened and not written is
  left as it is by every later run; `nginx -t && systemctl reload nginx` is exempt from
  `set -e`, so that a refused configuration exits with 0.
- The chart editor: the answer to a save clears `dirty` although something was changed
  since; the answer to a move may drop or repeat a section that is being created; a section
  from another tab stops every save; the keyboard on a slider is not recorded; after two
  moves at once, equal orderings make the arrows do nothing.

## Fairness

Safety is checked without any. Liveness assumes:

- `InvStale`: weak fairness of `TimePasses` (the clock) and of
  `ReleaseExpiredHolds` (cron runs it every minute). Nothing is assumed of buyers,
  so a hold leaves the table whether or not anybody comes back.
- `CheckoutStaff`: weak fairness of the webhook for each paid session, because Stripe
  redelivers an event until it is answered with 200; and of the end of a webhook call that
  has committed its order, by receipt or by failure. A receipt that fails leaves
  the event unanswered; the retry finds the order and answers.
- `CampaignSend`: weak fairness of SOME run beginning, because cron starts one every
  two minutes (`deploy/boxoffice-campaigns.cron`) and delivery is configured, and of
  each run going on, because it is a process that does not wait for anything. Neither
  is assumed of guests, staff or the mail host, and `CampaignEnds` is about behaviours in
  which no run dies and no form is saved over a started campaign.
- `ProvisionQueue`: weak fairness of each worker, because cron starts one every
  minute (`deploy/boxoffice-provision.cron`) and a script is stopped after ten. Neither
  the admin nor the operator need do anything.

## What is proved

From the assumptions `ModesDisjoint`, `FiniteHouse` and `BoundsAreNat`, for any number
of shows, seats, buyers and requests, `InventoryProofs` proves

- `TypeCorrect`, `SeatsSoldOnce`, `CounterIsExact`, `NeverOversold`,
  `HoldsNeverClash`, `ReservationHonoured`: the safety invariants;
- `BoxOfficeKeepsLedger`: `Spec` implements `SeatLedger`;
- `NoSecondOrder`: with `Request = {}`, a hold becomes at most one order;
- `HoldsFitTheHouse`: with `Request = {}`, the action property `OnlyStaffOvercommit`.

The inductive invariant is `Inventory!IInv`: the types, `Keys` (keys are handed
out once, also to the objects still in memory: without it a stale `Hold`
could be taken for a new row), `HoldsExclusive` with `HeldSeatsUnsold` (a hold
that is active owns its seats: needed for `NoDoubleSeat`, since what
`_fulfill_reserved` sells must also not be in somebody else's hold for
`HeldSeatsUnsold` to survive), `TicketsHaveOrders` (a fresh order has no tickets,
needed to count what is minted), `NoDoubleSeat`, `SoldMatchesTickets` and
`SoldWithinCapacity` (the last two together: the guard of `_fulfill_ga` is on
the counter). `MintCounts` and `VoidCounts` are the counting lemmas: what a
sale adds to, and a cancellation takes from, a performance's live tickets.
For the refinement, a fulfilment maps to `Sell`, a void to `GiveBack`, a
capacity edit to `Resize`, and everything else stutters. `NoSecondOrder` adds that a hold that
was sold has no row any more, and `HoldsFitTheHouse` counts with it: a fulfilment puts into
`sold` what its hold takes out of `Held`, and only because the hold was there. A request of the stub
page that sells a hold whose row is gone adds to `sold` alone, so the hypothesis is
that every checkout goes through the webhook.

From `CheckoutBounds` and `Amounts`, for any number of carts and sessions and any
prices, discounts and gifts, `CheckoutProofs` proves

- `MoneyTypeCorrect`, `AlwaysSomethingToPay`: amounts are natural numbers and a
  discounted cart still costs something;
- `PaymentsFulfilledOnce`, `CartsSoldOnce`, `GivenUpForGood`, `NoSecondReceipt`;
- `UsesCountedExactly`: with `Editor = {}`, the promo count is the number of
  orders paid with the code. The
  hypothesis is needed: a form that saves what it read loses an increment.

Its invariant `Checkout!IInv` has two halves. `MoneyInv` joins the types to
`PromoLeavesSomethingToPay`, because a session's amount is the subtotal less the
discount plus the gift and is a natural number only while the discount is less
than the subtotal. `RecordInv` joins the four properties to
`SessionsNameCarts` (a session names a hold exactly if it is a cart's),
`SoldCartsGone` (a hold that became an order has left the table and its key is
not handed out again, which is what makes `OneOrderPerCart` inductive) and
`GivenUpCartsGone` (the hold of a payment given up has left or expired, so that no
later delivery can fulfil it). `UsesCountedExactly` adds to `IInv` that
nobody is between loading the promo form and saving it.

`DeskKeepsLedger` is that `Spec` implements `PaymentLedger`, from the same invariant:
a fulfilment maps to `HandOver`, a `HoldGone` to `TurnDown` (again, if the event comes
again), a payment to `Collect`, a receipt to `Confirm`, and everything else stutters.
`SoldCartsGone` gives the guard of `HandOver` on carts, `GivenUpCartsGone` that on
refused payments, `OneReceipt` that of `Confirm`.

It also proves of `Money`, for all natural numbers, `SessionsCollectTotals` (from
`HalfAUnit`: a rounding moves an amount by at most half a unit),
`SessionsAreNeverFree` and `PercentWithinSubtotal`. From the first, from `CouponsFit` (a code that was
let through leaves something of the subtotal) and from the assumption `MoneyAmounts` (amounts are
natural numbers, percentages at most a hundred), `ChargesAddUp` is that `Spec` implies
`ChargesReconcile` for any prices, quantities, gifts and codes. Its substance is the arithmetic: the
property quantifies over every amount a cart of that kind could have, so no invariant is needed.

From `KindsDisjoint`, `FinitePasses` and `PassBounds`, for any passes and
events and any number of cancellations in flight, `PassesProofs` proves

- `PassesTypeCorrect`, `NoFreeAdmission`, `OneSeasonAdmission` and, from the
  same invariant, the action property `UsedPassesAreKept`;
- `CreditsConserved`: with `Clerk = {}`, a flex pass never has more credits, spent
  and unspent, than it was sold with. One cancellation is enough to break it;
- `CreditsLostByOverlapOnly` and `RefundedUntilOldRead`: the action properties
  `OnlyOverlapsLoseCredits` and `RevivedByOldReads`, with any number of cancellations.

Its invariant `Passes!IInv` adds to the types and to `AdmissionsAreUsed` that a
cancellation past its first statement serves an order without live tickets
(`WorkOK`: this is why deleting the redemption rows is harmless, and it
survives because a fresh redemption never reuses an order), and that a season
pass has one redemption row per event, live or not (`SeasonUsedOnce`). For the last two theorems
`RowsOfOnePass` and `Requests` say that the redemption rows of an order, and those that a
cancellation has read, are of one pass, and that a clerk's request is at one statement: then what a
step of `order_cancel` does to the balance is compared with the rows it takes away, pass by pass.

From `FiniteAudience` and `CampaignBounds`, for any audience, any number of
overlapping runs and forms, any batch size and any number of deaths,
`CampaignsProofs` proves

- `OneMailPerGuest`, `LogNeverLies`: each guest is reached at most once, and the
  rows say truly whom;
- `OptOutHeard`: a guest who opts out while queued and stays out is not mailed;
- `SentIsDrained`: a campaign marked SENT has nothing in its queue, unless a form was
  saved over it.

Its invariant `Campaigns!IInv` (`QueueConsistent`) adds `RowsOwned`: the row a run
has claimed is SENDING, belongs to no other run, and its guest has been reached
exactly if the run is past the mail. This is what the conditional update buys, and it
carries both `NobodyMailedTwice` and `LogIsTrue`. `WithdrawnNotChecked` says that
a run past its check is not at a guest who had withdrawn when queued: withdrawing
counts only while the row is PENDING, and the check comes after the claim.
`StartedOnce` is needed for `SentIsDrained`: a run that found nothing left may flip the
campaign much later, so nothing may have been queued since, and only a second
start could have done that.

From `FounderIsAPerson`, `SomeRoles` and `TeamBounds`, for any people, roles and number of
requests at once, `TeamProofs` proves `TypeCorrect`, `OwnerlessByRaceOnly`,
`InvitationsAccountedFor` and `AuthorityKept`. Its invariant adds to the types
`CountsGood` (a request past its count still sees another owner, unless a write came
in between), `AimsGood` (a request that skipped the count aims at a membership that is no
owner's, unless raced, or at one that is gone), `InvitesGood` (a user without a password and
without a link has a creator on its way to the mail or one that ended before it, whether or not
the membership is there yet: `add_member` of another request may insert it first) and
`AuthorityGood` (of an actor and a target nobody touched, what the request read is still so; the
new role it brings was allowed to the role it read).

From the assumptions of `Provisioning`, for any tenants and workers, `ProvisioningProofs`
proves `ClaimsAreExclusive`, `StatusIsTrue`, `LiveTheatersAnswer`, `ReservedStayFree` and
`PurgeIsClean`. Its invariant has `Apart` (two workers at a tenant mean it was queued
again), the status seen from both sides, `ReservedApart` (no job is at a reserved tenant
but by hand), `GoneForGood` (who may still be at a purged row) and `Hosted` (what a job that
is past its reload, or a Live row, has left on the machine, unless the site is dark). Beside it
`LinkedOrDark` is kept: a script about to reload nginx has linked its tenant, or the site went dark
since; without it a reload that nginx accepts would not be known to have read the file.

From `ChartsApart`, `NoneIsNothing` and `SmallHouse`, for any buyers, tabs, charts and
prices, `PerformancesProofs` proves `OnlyStaffOvercommit`, `OnlyEditsLeadAstray`,
`AllocationStaysTrue` and `PagesAgree`. `OnlyStaffOvercommit` (the property `OnlySavesOvercommit`) is
that neither a cart, nor the sale of one, whatever the form's first statement has changed under it,
takes the performance over its capacity: a sale moves to `sold` what it takes from the holds. `AllocationStaysTrue` needs its three parts together: the
guard of a sale and the constraint on the row speak of the counter, the floor at nothing in
`void_order` is never reached because the counter is at least the order's tickets, and a performance
without an allocation row has sold none. `PagesAgree` (`HouseAddsUp`) adds `SeatsSoldOnce`, without
which the union of the sold seats would be smaller than the tickets in it, and that the active carts
are finitely many, so that what they hold can be counted beside it.

From the assumptions of `Charts`, for any number of sections, performances, zones, buyers and stale
forms, `ChartsProofs` proves `SeatNamesDiffer`, `ChartTypes`, `ZonesKeepApart`,
`SavedSectionsDrawTheirSeats`, `LiveTicketsHaveSeats` and `BillsAreHeld`. Its invariant `ChartInv`
joins them to `RowsOK` (the rows of carts, forms and tickets name what exists) and `IdsApart` (a
zone's id is a key: `ZonesDisjoint` tells zones apart by it, and a new or cloned zone must take one
that is free for the seats of two zones to stay apart). `SeatNamesDiffer` is about the operators alone: the row labels are
written in a positional system of 24 or 26 letters and the numbers of a row are distinct in each
scheme, so two positions of a section never have one name.

From `SectionKeys`, `FreshIsAShape` and `EditorBounds`, for any number of sections and requests in
flight, any limit of the history and any number of edits, `ChartsProofs` proves of `ChartEditor`
`EditorTypes`, `UndoOrphansNothing`, `SavesLeaveNoneOut`, `CleanPagesAreStored` and
`ArrowsKeepWorking`. Its invariant `EditorInv` adds, to each of the four properties, what an answer on
its way must look like so that handling it whenever it comes is harmless:

- `DrawnAreStored` and `OneAtATime`: what the editor draws has a row, no request deletes one, and the
  flags `saving` and `newSectionSaving` stand for the one save and the one new section in flight;
- `AnswersFitTheList`, for `ListedAreKnown`: a stored section that the editor does not have is the
  answer to its own request, and the list that a move is answered with has what the editor has. This
  is where the two exceptions of the property come from: with a new section and a move under way at
  once, or a section the editor is not told of, it cannot be kept;
- `AnswersFitTheDrawing`, for `CleanIsSaved`: what a save in flight will write is what is still
  drawn, and a new section looks as it was stored, so that an answer without errors finds
  everything stored as the server takes it;
- `PlansFitTheOrderings`, for `OrderingsApart`: a count or a swap that was planned is of the table as
  it still is, and all orderings are below the number of sections, so that the next one is free.

`HistoryKeepsSections` needs no more than the types: every list that changes clears the history. That
the list a move is answered with exists at all, `ListedIs`, is a lemma about a `CHOOSE`: the sections
that come before a section are fewer than those before a later one, so that each has a place. TLC
finds `EditorInv` to hold on the instance of `EditorUndo`, as an invariant in place of the others.

### Only model-checked

Liveness (`HoldsGoAway`, `EveryPaymentAnswered`, `CampaignEnds`, `QueueDrains`), which is out of the
prover's reach. Every other property of a passing run is proved. `OnlyStaffOvercommit` of `Inventory` and
`UsesCountPaidCodes` are proved under the hypotheses given above, which the instances of their runs
satisfy and without which they fail (`OnlyStaffOvercommit` in `InvStale`, the other as in the table).

## What is not modelled

- Formatting, templates, CSV, PDF and zone exports, help pages, parsing and the geometry of
  charts: no concurrent state. `import_seating_chart --replace` deletes and rebuilds a chart in
  separate statements; what it can take from a buyer is what a regeneration in `Charts` can.
- Stripe Connect onboarding: two flags that mirror Stripe. `connect_start` makes an
  account before it stores its id, and an `account.updated` that comes late writes old flags;
  the code promises nothing of either.
- Refunds of ordinary ticket and donation orders, and `Payment` rows: their effect
  on inventory is `VoidOrder`. Donation campaigns are provenance only.
- Ticket signatures, wrong-performance answers and the scanner's camera loop:
  the server's transition is what admits.
- The text of a campaign, its tests and previews, and sign-in links of guests; logging in
  and out of the staff.
- Reloading the page of the chart editor, selection and drawing; the zone editor keeps
  nothing between requests.
- The status column of a performance and its deletion; in `Performances`, holds that
  have expired and are not yet swept (they are in `Inventory`).
- TLS and DNS as states of their own; the commands that seed demonstration data.
- Tenancy: every query is scoped to one organization, so a model is one theater
  (`Provisioning` excepted).
- Composition of `Passes` and `Checkout` with `Inventory`: `AvailabilityChanged` and the hold a
  redemption spends stand for it, and product state spaces are out of TLC's reach.
- Database engines other than SQLite: with row locks the atomic functions would
  interleave.
