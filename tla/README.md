# Verification of the salon reservation system

TLA+ modules for the API of this repository (`apps/api/src`) and the screens over it
(`apps/web/src`), TLC configurations that check them on small instances, and proofs
checked by TLAPS. Paths below are relative to the repository root.

To check a run: `tlc -config MCBookingEdits.cfg MCBooking`. To check the proofs of a module:
`tlapm BookingProofs.tla`, and so on for each `...Proofs` and for `Sums`. `PROJECT.json` lists the runs, the mutants that each
property rejects, the source lines each definition stands for, and the hazards
each property is aimed at.

## 1. The system

A multi-tenant booking system for beauty salons: a Fastify API over
PostgreSQL (Prisma), screens for staff and for members, and background jobs.
Every writer that matters runs a serializable transaction, retried at most three
times (`runSerializable`, `operations-support.ts:72-82`; accounting runs that whole loop up to
five times, `cash-routes.ts:118-136`), whose first statements
lock rows in a fixed order: Tenant, AppUser, TenantMembership, Salon
(`lockOperation`, `operations-support.ts:25-58`). The interesting behaviour is in
what is *not* under those locks: copies read before the transaction, screens that
clerks loaded minutes ago, follow-up transactions after the commit, master data
written without any lock, and external services (mail, identity, object storage).

| component | state it keeps | operations | hard part |
|---|---|---|---|
| Reservation desk (`server.ts`, `reservation-capacity.ts`, `member-booking-routes.ts`) | Reservation rows, `Customer.visitCount` | create, edit, status change by staff; create, cancel by members; recount | stale pre-read of PATCH, capacity under concurrent admission, recount after the commit |
| Availability (`member-booking-domain.ts`, `reservation-capacity.ts`) | none (pure) | sweep, coverage walk, booking window, slot list | two code paths that must agree; boundaries of intervals and days |
| Shifts, settings, staff (`server.ts`) | master rows | CRUD without the tenant lock | check and write of PATCH are apart |
| Checkouts and register (`cash-routes.ts`, `cash-domain.ts`, `accounting-stats.ts`) | CashCheckout, CashRegisterSession, CashRegisterMovement, `Reservation.paymentStatus`, `Customer.totalSpent` | create, save, refresh, finalize, reverse; open, move, close | stale screens, corrections in chains, refunds across days, closing reports |
| Member points (`membership-domain.ts`) | MembershipPointEntry | redeem, earn, refund, reverse | a refund after the points were spent |
| Member booking limits (`member-booking-routes.ts`) | idempotency keys, attempts | replay, rate limit, eight future bookings | a repeat before, during and after the first; the limit counts over salons of several tenants |
| Email outbox (`email-outbox.ts`) | outbox rows with leases | claim, deliver, retry, give up | expired leases, crash between send and mark |
| Access and invitations (`access-routes.ts`, `invitation-registration.ts`, `permissions.ts`) | memberships, invitations | invite, reissue, revoke, accept, register, change role | acceptance racing with revocation and demotion; lost answers of the identity provider |
| Charts and photos (`chart-routes.ts`, `chart-photo-cleanup.ts`) | charts, revisions, photo rows, objects in a bucket | create, draft, finalize, amend, upload, remove, clean up | objects without rows and rows without objects; screens left behind |
| Membership programs (`membership-routes.ts`, `membership-provision.ts`, triggers of `membership-invariants.ts`) | programs, accounts, links | enrol, look up, link, dry run, apply | rows of four tables that agree by triggers; a plan that is reviewed and applied later; lock order |
| Imports (`customer-import-routes.ts`, `history-*.ts`, `staff-import-routes.ts`) | import runs, customers, records of the history, links to staff | prepare, chunks, summary, link plan, apply | chunks sent again, overlapping files, edits meanwhile |
| Receipts (`receipt-email-routes.ts`, `receipt-email.ts`) | outbox rows with a snapshot | preview, send | queued twice, or other than confirmed |
| Master data and the board (`server.ts`, `dashboard-history.ts`) | staff, menus, categories, equipment, customers | POST, PATCH, DELETE, GET /api/dashboard | deletions decided by a count; a board put together from reads at several moments |
| Web screens (`apps/web/src/components`) | what clerks see, keys of requests, pending answers | board, lists, forms, till, card reader, panels | answers in any order, buttons pressed again, rows others change |
| Relay, redirect, deployment scripts | none of the program's own | | not modelled |

How they interact:

* **desk -> checkout**: a checkout copies what the reservation sells (interval,
  staff, customer, service) and finalize compares the copy with the reservation
  as it is then; finalize and reverse write `paymentStatus`.
* **checkout, chart -> desk**: a reservation with a FINALIZED checkout or a chart
  cannot be moved to other hours, staff, customer or service.
* **checkout -> points, statistics, outbox**: the entries, the customer's
  `totalSpent` and the notification are written in the transaction of the sale.
* **desk -> customer**: visits are recounted in transactions of their own, after
  the commit of the edit.
* **master data -> desk**: the admission check reads settings, staff and shift
  rows that other requests write without the lock.
* **screens -> API**: a screen sends what it was shown (a version, a reviewed hash, the
  whole of a form), the API compares it with the row as it is, and the answer may be
  late, lost, or about something the clerk has left.
* **everything -> outbox, audit**: written in the transaction of the change.

## 2. Modules

| module | models | proofs |
|---|---|---|
| `SettlementBook` | abstract: what accounting promises about reservations | |
| `Booking` | the desk, with every write of the rows it reads | `BookingProofs` |
| `Availability` | the pure algorithms and the checks of a member's creation | |
| `Shifts` | the shift handlers, check and write apart | |
| `Cash` | checkouts, points, registers, statistics | `CashProofs` |
| `Outbox` | the e-mail job, statement by statement | `DeliveryProofs` |
| `Permissions` | pure: what a membership may do, and who may give it to whom | |
| `Access` | members, invitations, joining by login or by registration | `AccessProofs` |
| `Amounts` | pure: discounts, points and tax of the lines of a checkout, and what a receipt must satisfy | |
| `MemberBooking` | creations and cancellations of one member over several salons, with keys and limits | `CounterProofs` |
| `Membership` | programs, enrolment, cards at the reception, provisioning, and the triggers | `CounterProofs` |
| `Charts` | one chart with its revisions and photos, the screens on it, the bucket and its cleanup | `ChartsProofs` |
| `Locks` | what every kind of transaction locks, in which order, what aborts it, and how often its loops start it again | `RequestsProofs` |
| `Imports` | imports in chunks, staff by key, links by a reviewed plan, and the pages that send them | `RequestsProofs` |
| `Catalog` | master data, the cards that refer to it, and the board as GET /api/dashboard reads it | `DeliveryProofs` |
| `Dashboard` | the board on a clerk's screen: the rows of its document, loads, moves, the editor, undo | `DeliveryProofs` |
| `Board` | pure: where the cards of a row are drawn, where a dragged card lands and a pulled one ends | |
| `Listing` | the lists with search, pages and removals, over the pages of the API | `DeliveryProofs` |
| `Forms` | the forms in which a clerk changes or creates a row that others change | `RequestsProofs` |
| `Till` | the buttons of a checkout and of a register, with their request ids | `CounterProofs` |
| `CardReader` | the membership card on the screen of a checkout | `CounterProofs` |
| `Receipts` | the panel that sends receipts, and its handlers | `CounterProofs` |
| `Counter` | the parts of the reception and the till side by side: `MemberBooking`, `Membership`, `Receipts`, `Till`, `CardReader` | `CounterProofs` |
| `Requests` | requests that are made again side by side: `Locks`, `Imports`, `Forms` | `RequestsProofs` |
| `Web` | the screens side by side: `Dashboard`, `Listing`, `Catalog` | `DeliveryProofs` |
| `Sums` | what the sums of the models compute, and other facts about finite sets, for the proofs | itself |
| `MCBooking`, `MCAvailability`, `MCCash`, `MCAccess`, `MCCharts` | instances of one component | |
| `MCCounter`, `MCRequests`, `MCWeb` | several components in one run; see section 3 | |

### Booking

A *worker* is one HTTP request in progress. `ReadForEdit` and `ReadForStatus` are
the read outside the transaction; `EnterChange`, `EnterCreate`,
`EnterMemberCreate` and `EnterMemberCancel` take the lock and make every check
the handler makes; `Commit` writes; `Recount` is one `recalculateCustomerStats`;
`Crash` may come at any of these steps. `Settle`, `Refund` and `Chart` are what
the routes of accounting and charts do to the rows the desk reads (module `Cash`
has the first two in full). `ChangeSettings`, `ChangeStaff` and `ChangeShifts`
take no lock. A "customer" of this model stands for the pair (customer, service):
the code treats both alike where it refuses a change of context.

*Reads under the lock.* With PostgreSQL's serializable isolation a transaction
reads a snapshot taken at its first statement, possibly before it obtained the
row locks. If another transaction it depends on committed in between, the
database aborts it and `runSerializable` starts again with a new snapshot, so the
checks are modelled as reads made when the lock is obtained. Master rows are
the exception that matters: their writers do not serialize with the admission, and
the window between "writing" and `Commit` lets them change after they were read.
`ChangeSettings` inserts the first settings row only while nobody holds the Salon
row, because the foreign key of the insert waits for it; later updates do not.
`ChangeShifts` may also insert while the lock is held, which is more than the
database allows.

Two history variables name what the invariants are about: `granted`, the limits
a reservation was last admitted under, and `uncounted`, the customers whose recount
was skipped or lost. "Not overbooked" cannot mean "no more than the present limit",
since the limit may be lowered afterwards; it means that at every instant
somebody in the crowd was admitted under a limit no smaller than the crowd.

### Availability

The sweep of `peakConcurrentReservations` with its order of events, the walk of
`memberStaffIsWorking`, `cutoffAt`, `memberStartIsBookable` and the slot list are
folds and sets over the rows of a salon that the steps let grow. `Booking` uses
the plain forms (crowd at every instant, pointwise coverage); the runs of this
module show that the algorithms compute them. `OfferedIsAccepted` compares
the availability list with the checks of the creation.

### Cash

Every handler takes `lockOperation` first and reads after it, so each is one
step; what interleaves is the people. `view` is the checkout on a clerk's
screen: `SaveDraft`, `RefreshDraft` and `Finalize` carry the version that was
loaded. `EditReservation` and `ChangeStatus` are the desk. Money is in yen without
tax detail (module `Amounts` has it); a draft is the price, the points asked for and the allocation to
cash, external and other payment. `AccountOf` is a constant, because links
between customers and member accounts cannot be changed or deleted (triggers of
`membership-invariants.ts:52-152`).

The idempotency ids of finalize, reverse and the register only change which answer
a repeated request gets (module `Till`); the status, version and ALREADY_EXISTS
checks refuse it anyway. The id of the creation does matter (a later request with the same id
after a reversal must not make another checkout) and is `createdBy`.

### Shifts

PATCH reads the row, checks the interval it would have, and then writes only the
fields named, without a transaction around the two.

### Outbox

A *worker* is one execution of `send-email-outbox`; several may overlap, since
the scheduler does not wait for the last one. Each statement is a step: the
sweep before the loop (`Start`), the claim (`Claim`), the row and its payload
(`Load`), the invitation or checkout it is about (`Look`), the call of the
provider (`Send`), the mark (`MarkSent`, `Skip`), and in the catch clause the read
of the attempts (`ReadAttempts`) and the update made of it (`Retire`). After the
claim nothing looks at the lease again, so `Leave` writes over whatever the row
has become. `Send` may be accepted with its answer lost; `StatementFails` is a
statement of `deliver` that fails, which the caller takes for a failure to send.
What ends an execution from outside, and a failing claim or catch clause, is
`Crash`. The hundred messages of one execution are "any number from one": after
the first an execution may stop at any time.

*Leases.* `LeaseRunsOut` may come at any moment, also while an execution is still
at work on the message; `overrun` then remembers the message. In the deployment
the task is killed after ten minutes (`--task-timeout=10m`,
`scripts/deploy-native.sh:351`), which is the length of the lease, so this is
kept out by configuration and not by the code. `CopiesBounded` holds in either case;
it is part of `SentAgainOnlyIfUnsure`. All else that is promised excludes `overrun`, because
the code needs it to: an execution that reads the attempts, sleeps past its lease and then updates the row
(`email-outbox.ts:161-175`) may put back to PENDING what another one has sent,
or what has no attempts left, which neither the claim nor the sweep will find.

What writers enqueue (reservation, sale, refund, invitation, receipt) is
one action: each creates a row under a unique event key. `BecomesVoid` is the
invitation that is accepted, revoked or over, or the checkout that is taken back.

### Access

Every transaction of `access-routes.ts` and `invitation-registration.ts` first
locks the Tenant row. They run under READ COMMITTED, where each statement sees what
was committed before it, so a transaction reads what the last holder of
the lock left and is one step (`ChangeMember`, `Invite`, `Revoke`, `Accept`,
`Preflight`, `CommitRegistration`). The check of the permission before the
transaction only refuses more and is left out. Between the steps lie the login
(`Authenticate`, which makes the AppUser row follow the account; `SignIn` is the same
for any other request), the provider's account (`Look`, `CreateAccount`) and
answers that get lost: an account that was created although no answer came, a
commit whose answer is lost ("unsure"), and `Confirm`, which looks afterwards what
became of it. `Crash` ends a request anywhere. A grant is the part of a membership
or an invitation that gives rights (`Permissions`). `Confirm` reads user,
invitation and audit in two statements; all but `disabled` and the status of the
membership only ever become true, so it is one step.

Outside the model: the counters that limit how often a link is tried (they only refuse),
salons and the tenant's status (constant), and the token, which stands for its
invitation. The verified credential is assumed to carry the address the account
has at that moment; revocation is checked on every request (`auth.ts:30-32`).
LAST_OWNER_REQUIRED is part of `ChangeMember`, but no property is about it: nobody
changes themselves, so the acting owner always remains.

The history variable `given` holds the grants that those who are not owners began
with and those an owner gave since: `RightsAreGiven` says that no sequence of
operations makes more of them. `audits` are the rows of AuditLog that tell by which
route a person joined, which is what `Confirm` asks.

### SettlementBook

The promise that desk and accounting keep together: money is collected for a
reservation at most once at a time, it is given back only when it was collected, and
what was sold does not change in between. `Booking` (`KeepsBook`) and `Cash`
(`ImplementsBook`) both implement it, each with the other side reduced to the
actions the book allows, so the two models agree on their interface.

### MemberBooking

`Precheck` is what a creation does before its transaction: the replay by key and the
attempt it consumes. `Begin` takes the snapshot, `Lock` gets the advisory lock of the
member, `Create` makes every check on the snapshot and either commits or, if PostgreSQL
finds that the snapshot is past, starts again (`Restart`). A snapshot may therefore be
older than the lock; this is where a plain "lock, then count" would be wrong to assume.
The salon may end, reopen or give away what the member booked, and may book for the
customer, both without any limit: `LimitHolds` is about what the app made.

### Membership

An enrolment holds the Tenant row shared from its check to its commit and is several
steps; every other handler is one. `ChangeTenant`, `SwitchProgram` and `SwitchAccount`
are writers that go to the database directly and are stopped by triggers only.
`reviewed` is the operator's last dry run; `touched` remembers any write since of what it
was about, also one that was undone.

### Charts

A handler under `lockOperation` is one step. An upload is three: the object is put into
the bucket (`Put`), the transaction records it (`Record`), and a rollback that is certain
leaves a row marked for deletion (`MarkRejected`). A removal or a correction runs the
cleanup after its transaction: `ReadPending`, `RemoveObject`, `DropRow`, each of which may
fail or be the last. `AuditReason` is what the storage audit would say of an object.

### Locks

Each kind of transaction is the sequence of row locks its handler takes (`Operation`,
`AccessChange`, `Accept`, `MemberBook`, `MemberCancel`, `Recount`, `Enrol`, `Link`,
`Settle`, `Provision`), shared or exclusive. PostgreSQL stops a transaction because it is
`Stuck` (`Victim`, 40P01) or because it read what another has changed (`Conflicted`, 40001;
which of those that overlapped is left open, and only after another one has ended).

An aborted transaction (`Aborted`) is started again as often as its loops allow. `Repeats` is
the limit of the loop that runs it: three for `runSerializable` and the member routes, five
for `membership-routes.ts`, none for access management and provisioning. What accounting does
(plans of kind `cash`) runs in `cashTransaction`, a second loop around `runSerializable`:
when the inner loop gives up, the outer one waits (`NextRound`, `Resume`) and runs it anew,
four times (`Rounds`), so that a refund or a finalization may be attempted twenty times.
Between two rounds, and between two attempts of `membership-routes.ts`, a request is
"waiting": it holds no lock, and others go on.

### Imports

A file is a sequence of records, told apart by its checksum; two files overlap. Pages send
the next chunk after the answer to the last, start again after a lost one, and may be
left. `CustomerImportRun.processedOffsets` makes a repeated chunk harmless;
`HistoricalReservation` rows are linked to staff by a plan whose checksum is compared
when it is applied.

### Catalog, Dashboard, Board

`Catalog` has the DELETE handlers with the count and the write apart (`CountDependents`,
`StopOrDelete`): between them a reservation may be booked, and the foreign key then
refuses the deletion. GET /api/dashboard is `ReadSalon` followed by four reads in any
order (`ReadPart`), since `Promise.all` runs them side by side outside a transaction.

`Dashboard` is the component on the screen. Navigation, refresh, drags, the editor and
undo interleave with loads whose answers come in any order. `Elsewhere` is any other
clerk. `Rerender` is a render that runs the effect of the load: it takes the rows of the
document (the seed) or sends a request, and in both cases what is shown then has to be at
least as new as that moment, whose versions `since` remembers.

`preload` is what the effect knows of the seed (`dashboard-preload.ts`). `RequestKey` is what
the effect depends on: day, salon, filters, right to read, whether anything has been
refreshed, and whose rendering the props are of (`renderId` and the identity of `initialData`,
which change together). As soon as one of them changes, the seed is `Invalidated` for good,
also if everything goes back to what it was; a component put on the page by a navigation of
the browser (`Return`) begins with it invalidated, whatever props the cache of the router
brings. `Refreshed` is the change of `refreshKey` by the refresh button and by every answer to
a save; the model keeps only that it has left 0. `Rendered` is a rendering by the server where
the clerk is, `ChangeReading` the right to read given or taken, which empties the board.
An editor opens by a key (`OpenEditor`), also while a card is being saved or another is in
the editor, or by a click (`Click`), which is a drag that did not move.

`Board` lays the cards of a row out in lanes. Pixels are counted in fifths (132 px
an hour are 11 fifths a minute), so that the widths of `schedule-layout.ts` are exact. It
also has where a dragged card lands (`ScheduleMoveStart`) and where one whose end is pulled
ends (`ResizedEnd`).

### Listing, Forms

The screens differ in few ways, which are fields of a record (`style`, `mounted`,
`removes` of a list, `kind` of a form). The page handlers read the count and the rows in
one transaction (`Snapshot`), except for the charts, which follow a cursor, and the choice of
a reservation for a checkout, which is one statement without pages (`FindOptions`). In `Forms` a request
is carried out or refused (what the handlers check is elsewhere); what matters is which
fields it names, what the row was when the form was filled, and what the form shows
afterwards. `FormsSaveWhatWasChanged` promises the clerk's own changes, that fields that
were not touched are kept (by forms that name only what changed) or go back to what the
form shows, and that a success is about the last request.

### Till, CardReader, Receipts

Requests of one screen may be lost, handled late or answered late. `Till` has the two
screens of `cash-views.tsx`, each with its keys: a key is kept while the same request is
repeated and dropped when something else is asked. `CardReader` has the ticket and the scope by
which late answers are thrown away. In `Receipts` the preview's hash must still be
true when the receipt is sent, and an attempt keeps its key until the server has answered.

## 3. Runs

| run | question | bounds |
|---|---|---|
| `capacity` | Can the salon or a staff member be overbooked? | 2 reservations, 2 requests, limits moving between 1 and 2, a long and a short slot |
| `edits` | What may edits, cancellations, checkout, refund and chart do to one reservation? | 1 reservation with up to 2 writes, 2 customers, 2 requests, two shift rows |
| `visits` | Are visit counts repaired? (fair) | 2 reservations, 2 customers, 2 requests |
| `availability` | Do the sweep, the walk and the amounts compute what they should; is what is offered what is accepted? | every salon of up to 4 rows in a day of 4 instants; up to 5 rows over 2 days of 4 instants, 49 settings rows, every minute; drafts of up to 3 lines at two tax rates |
| `shifts_race` | Can a shift end before it starts? (it can) | 1 shift, 2 PATCH requests |
| `cash` | Are sales, refunds, registers, points and totals in step? | 2 checkouts, 2 reservations, 2 registers, 2 days, 2 clerks, 1 member |
| `outbox` | How often is a message sent, what does its status mean, does it end? (fair) | 2 messages, one that may become void and one whose payload is refused, 2 executions, 2 attempts, 1 crash |
| `access` | Who joins, with which rights, and is told the truth? | an owner, an administrator of one of 2 salons and the account a registration creates; 2 invitations to one address, 2 requests, 1 change from outside |
| `charts` | Do photos, rows and objects stay together, and does a save replace only what its clerk saw? | 2 screens, 2 requests, 2 photos, faults and versions bounded |
| `counter` | Repeats, limits, late answers and confirmations of one customer | see the comment of `MCCounter.cfg` |
| `requests` | Do transactions end, are imports exact, do forms save what was changed? (fair) | 2 transactions over 2 tenants, 2 users and a member; 2 clerks with 2 files of 3 and 2 records, 3 imports, or an edit in place of one or two of them; a form with 2 requests, 1 change by others and 1 entry |
| `web` | Does the board show and move what it should, are lists whole, has every card a place? | 2 cards, 2 days, 2 filters, a document with or without rows and 3 runs of the load effect with 2 moves, or 3 moves with fewer runs; 3 cards in a row; 3 rows in pages of one; 2 staff, a menu, a category, a piece of equipment and a customer with 3 writes |

*Several questions in one run.* `MCCash` and `MCAvailability` keep still what cannot matter
to a question, so that the rest can be large (`focus`, and the worlds `Algorithms`,
`Offers` and drafts of amounts). `MCCounter`, `MCRequests` and `MCWeb` check components
that share no state: the variable `part` names the component that moves, those of the others
keep their initial value. A run of this kind is the disjoint union of its parts, with
the same verdict on each as a run of its own. `Focus` of `MCWeb` splits the board of one clerk
into moves of a card of the history and of a live reservation, with as many loads or as
many moves as there may be but not both, and `DayFocus` lets only staff, for which the
board has rows, change together with everything else. In `MCRequests` each edit an
import may meet takes the place of one of the three imports.

*Why the bounds are enough to be interesting.* Two requests are enough for each race
listed as a hazard: one that read and one that wrote in between. Limits of 1 and 2 with
two reservations let the limit be lowered below the present crowd and raised again. Two
checkouts and two request ids give a correction and a repeated request; two days and two
registers give a refund from another drawer; two sales of one member let points earned
with one be spent by the other before the first is taken back. Two executions are enough
for one to outlive its lease while the other claims; two attempts give a retry and a
last attempt. Two invitations to one address give the second sending of a link, two
requests a login against a registration; one change is enough to demote or disable the
sender or to move an account to another address. Two screens are enough for one to be
left behind; three runs of the load effect for an answer that comes two loads late, and
for a seed that is asked for again after a refresh or a return; twenty attempts of
accounting are run in full; one more press than there are buttons for a repeat after
another operation; two overlapping files for a record that was imported by the other.
`MaxChanges`, `MaxCrashes`, `MaxStamp`, `MaxVersion`, `MaxEntries`, `LastInstant`,
`LastDay`, `MaxRows`, `MaxFaults`, `MaxDesk`, `MaxRepeats`, `MaxLookups`, `MaxPresses`,
`MaxElsewhere`, `MaxTries`, `MaxSettings`, `MaxStarts`, `MaxStaff`, `MaxEdits`,
`MaxTouches`, `MaxRequests`, `MaxLoads`, `MaxSteps` and `MaxWrites` bound counters in
the guards; each cfg is annotated with what it is about. For every safety property of
the desk that is also proved the run is only a smoke test of the same definition.

*Mutants.* Beside each guard or update that carries a property stands a variant
(named after it, marked "variant" in a comment) that is a plausible mistake in
that code; `PROJECT.json` pairs every property with one that breaks it. Nothing
else refers to a variant.

*Deadlock* is not checked: every counter is bounded, so every instance stops.

*Fairness* is assumed in `visits`, `outbox` and `requests`. In `visits` a transaction that has passed its checks
commits or crashes (weak fairness of `Commit`), and a handler on its way to a
recount gets the Salon row lock in the end (strong fairness, since others take and
release the lock meanwhile; PostgreSQL's lock queue is first come first served).
Nothing is assumed of clients, and `Crash` may still come first, which is why the
property allows `uncounted`. In `outbox` an execution that lives goes on and the
scheduler starts the next one (weak fairness of the steps of each worker), and time
passes (weak fairness of `BecomesDue` and `LeaseRunsOut`). Which message is claimed is
left open, and the order `availableAt, createdAt, id` is not needed: attempts are
bounded, so no message can keep the others waiting for ever. In `requests` a
transaction goes on when it can (weak fairness of `Take` and `Finish`) and PostgreSQL
resolves a deadlock (weak fairness of `Victim`, its deadlock timeout); nobody is obliged to
start anything. A loop that waits tries again (weak fairness of `Resume`, its timer). Nothing
is assumed of `Conflicted`: the limits of the loops alone end a request that is aborted each
time. Locks are not queued in the model, so `EveryRequestEnds` does not rest
on the order in which PostgreSQL serves those who wait.

## 4. Findings

`shifts_race`: `PATCH /api/admin/shifts/:id` (`server.ts:1034-1077`) checks the
interval against a row it read before and then updates only the named fields.
Two requests, one moving the start and one the end, each pass the check and
together leave a shift that ends before it starts, which the refusal
INVALID_SHIFT_RANGE of the same handler is meant to exclude. Such a row has no
effect on coverage or blocking as computed today (`CoverageIsPointwise` includes
inverted rows), but it stays on the calendar.

Observations that are no contradiction of a document or a comment, and that the properties
therefore leave room for:

* `reservation-edit-form.tsx:55` renews what a save is compared with after a status button,
  but not the staff that is selected: if others changed the staff meanwhile, the next save
  puts the old one back although the clerk did not touch it (`Promised` in `Forms`).
* `settings-management.tsx:110` lets the name of the salon be typed while a save is under
  way; the answer then replaces it (`OpenWhileBusy`).
* `cash-views.tsx:205-210`: reloading a checkout at an unchanged version leaves the card
  reader open although the checkout is no longer waiting for it (`Reload` in `CardReader`).
* `cash-domain.ts:139-143` gives the yen left over by rounding to the first lines of a
  rate, also to a line whose total is zero.
* `email-outbox.ts:161-175`: see *Leases* above; excluded by the deployment's timeout only.

## 5. Proofs

A theorem holds for every value of the constants that satisfies the assumptions of its
module; a run checks the same definition on one small instance. Each component has one
inductive invariant, from which its properties follow. Nothing else is assumed: the
assumptions say that sets are finite where the code counts, that bounds are natural
numbers, and that the values for "none" are not members of the sets.

| theorem module | theorems that state a property of a run |
|---|---|
| `BookingProofs` | `StoreNotOverbooked`, `StaffNotOverbooked`, `SettledContextFrozen`, `OnlyNamedFieldsChange`, `VisitCountStaleOnlyInFlight`, `KeepsBook` |
| `CashProofs` | `CheckoutsAreSound`, `RegistersAreTrue`, `TotalSpentIsExact`, `PointsFollowTheMoney`, `ImplementsBook` |
| `DeliveryProofs` | `SentAgainOnlyIfUnsure`, `OutcomeIsTrue` of the outbox; `ShowsTheContext`, `UndoTakesBackOwnMove`, `ListsShowOnePage`, `EveryCardHasItsPlace` of the screens |
| `AccessProofs` | `LinkUsedOnce`, `RightsAreGiven`, `AnswersAreTrue`, `SenderIsEntitled` |
| `ChartsProofs` | `LinkedPhotosStay`, `OrphansAreKnown`, `SavesOverWhatWasShown` |
| `CounterProofs` | `RepeatsGetTheReservation`, `LimitHolds`, `EnrolledProgramsStay`, `AppliesWhatWasReviewed`, `SentAsConfirmed`, `PressesAreExact`, `MemberIsTheCardRead` |
| `RequestsProofs` | `DeadlockNeedsProvisioning`, `ImportsAreExact`, `FormsSaveWhatWasChanged` |

`Counter`, `Requests` and `Web` only instantiate components that share no state, name the
assumptions on their constants and state the properties again. A theorem about one of them
is about the specification of the component itself (`F!Spec => []FormsSaveWhatWasChanged`),
and the run over all of them checks the same definition. `RequestsAssumption` says that
files are sequences of records and that every record names staff by a key; `WebAssumption`
that a card is of the history or live and on one board, that staff is none of the other
entries, and that the rows of a list are numbered by their places, which stands for the
total orders (a time, then the id) by which the queries sort.

### Booking

`BookingProofs` is about any finite set of reservations and any customers, staff,
requests, slots, settings and shift rows satisfying `BookingAssumption`.
`StoreNotOverbooked` is not inductive: it says that *somebody* in the crowd had a
limit that large, and when that one leaves nothing is known of the rest. The
strengthening is `StoreLayers`: for every `k`, those admitted under a limit of at
most `k` are at most `k`. A new admission under limit `l` only adds to the layers
`k >= l`, and each of them is a subset of the crowd, which the check under the lock
found smaller than `l`. `PendingFits` carries that check from the moment it was
made to the commit, past changes of the master rows; it needs `LockHeld`, which says
that nobody else writes reservations meanwhile. `CopiesCurrent` (a pre-read with the
current stamp agrees with the row in every field it does not name) gives
`OnlyNamedFieldsChange`, and `RecordedFrozen` gives `SettledContextFrozen`.

`VisitCountsBehindOnlyInFlight` needs to know what a request under the lock is about to
write (`WritesKnown`): an edit has both customers it concerns on its list of recounts,
before and after, and what has no list makes and unmakes no visit.

`DeskKeepsBook` and `CashImplementsBook` are the refinement of `SettlementBook`, step by
step. On the desk's side `RecordedFrozen` is what makes an edit of a settled reservation a
stuttering step of the book; on the side of accounting it is `CheckoutsAreSound`, by which
a finalization finds nothing collected and a reversal finds what it gives back.

### Cash

`CashProofs` is about any finite set of checkouts and any reservations, customers,
accounts, registers, days, clerks and amounts satisfying `CashAssumption`. The handlers are
first brought to a few shapes (`MakesDraft`, `ChangesDraft`, `Collects`, `GivesBack`,
`Books`), and each part of `CashInv` is then kept by every shape. The parts lean on each
other: that a reservation has one live checkout needs the ages (`AgesCount`), since only
the youngest of a chain can be live; that the money of a sale is booked once needs that the
movements are numbered by the versions of their register (`MovementsNumbered`), since an
optimistic check on that version is all that keeps two bookings apart; the report of a
closed register stays true because sales and refunds only ever name the open register of
the day (`RegistersNamed`, `OneRegisterPerDay`). Points are entries; `EntriesKnown` says
exactly which entries a checkout has, and a sale with its reversal sums to nothing.

`TotalsAreExact`, `PointsFollowMoney` and the drawers are about sums over sets, defined by
recursion over data. `Sums` proves what is needed of them without induction over a
predicate: if the sum were wrong for some subset, it would be wrong for a smallest one
(`SmallestSet`, from well-foundedness of inclusion on finite sets), and that one less an
element is right. The element the recursion takes first is a CHOOSE, so the step
shows that any element may be taken instead (`SumOfOneMore`).

### Locks

`RequestsProofs` is about any number of requests, tenants and users. Rows come in the order
(class of the row, then its first id); for each handler its sequence of locks is proved to
go up in that order (`OperationInOrder`, ..., `PlansAreInOrder`), with rows of one class
and id taken once. Of requests that wait for each other only finitely many run, so one of
them wants the greatest row any of them wants; whoever holds it wants a greater one
(`WaitsUpwards`), which is a contradiction unless the holder's plan is the only one that
is out of order, provisioning. A request that waits for its next attempt holds nothing and
is in nobody's way. That the loops end is a run only (`EveryRequestEnds`).

### Member bookings

`CounterProofs` is here about any calls, keys and salons and any limit. A transaction
works on `seen`, a state of the past. `IsPast` says what such a state knows: keys that were
used then are used now, by the same call; and if it knows every key that is used now, then
no reservation is open now that it does not show. PostgreSQL restarts a transaction exactly
when a key was used since (`Restart`), so the count of open reservations that passed the
check on the snapshot bounds the count at the commit.

### Reception, receipts and till

*Membership* (`ReceptionInv`). That a program with accounts keeps its tenant is kept by what
the triggers let through: an account or a link is only written while some tenant has the
program (`AccountsHaveTenants`, `LinksHaveAccounts`), and what an enrolment under way relies
on is not yet a row, so the invariant says what its lock holds (`EnrolmentsHold`).
`AppliesWhatWasReviewed` is an action property: the hash of a review holds the rows with
their stamps, and stamps only grow (`ReviewsAge`), so equal hashes mean that nobody wrote.

*Receipts* (`MailInv`). An attempt is named by the press it began with; panel, requests and
messages of one attempt all carry the receipt that was agreed to then, and no two messages
are of one attempt. A lost answer leaves the attempt open with the same key.

*Till* (`DeskInv`). Keys of requests outlive answers, so the invariant is about all requests
under keys, on their way or carried out: those of one key ask for the same
(`OneRequestEach`); if the key is still the screen's and the button is there to be pressed,
pressing asks for it again (`KeysAreKept`); and everything a screen, a press or an answer
shows was the row once (`RowsWere`). *Card reader* (`ReaderInv`): only the answer with the
last ticket is taken, and that one is about the card in the reader.

### Forms and imports

*Forms* (`FormInv`). What a request names is determined when it is sent; the invariant says it
of every request on its way and of every answer, together with what the page showed, since
both are gone when the property is about them (`SavesNameWhatWasEntered`, `MemoStays`,
`ComparedWithShown`). The last one holds only until a status button is pressed, which is the
first observation of section 4.

*Imports* (`ImportInv`). `ImportsAreExact` is about sums: a run has created and skipped as
many records as are in the chunks it lists, and what all runs created is what is there or
was deleted (`Counted`, over `Sums`). A run that counted the whole file therefore has all
of its chunks, and their records are there (`TakenIsThere`). Pages and answers tell only what
stays true (`AnswersAreTrue`), and a link is to the staff of its key (`LinkedAsKeyed`), so
repeating a chunk or a plan changes nothing.

### Screens

*Dashboard* (`BoardInv`). Every row that is shown, in the hand or on its way was the row of
its card at its version (`Placed`), and versions only grow. The seed needs no such invariant,
because only the first run of the load effect, in the initial state, can take it: from then on
`preload.key` is the key of what the screen shows unless the seed is invalidated
(`PreloadOK`), and every later run has another key or rendering (`SeedIsOver`), so it sends a
load (`RerenderKeeps`) or, without the right to read, empties the board. A load
carries its number and its request; the one with the last number is for what the clerk looks
at and was read since that was asked (`LoadsAsked`), and only its answer is taken. A move to
take back is a move of the clerk to the version it names (`OwnMove`), so the check of that
version makes it the last one (`UndoTakesBackOwnMove`).

*Listing* (`ListInv`). A counted request keeps the rows it counted until it reads its page,
so number, page and rows are of one moment (`Whole`); for this the arithmetic of pages is
proved for any page size (`PageCount`, `OnPageIs`). The request with the last number asks for
the fields and the page the list shows as asked (`Current`); a page that was
clamped is asked for again, under the number it was clamped to. The cursors of the charts lie one behind the other (`Trail`).

*Catalog* (`CatalogInv`). Staff with cards cannot be deleted, staff that is deleted gets none,
and a deleted entry never comes back; so of the cards read after the staff, none is of staff
that was deleted when the reading began. The hours shown are the least and the greatest of
finitely many (`Extremes` in `Sums`), rounded outwards.

### Charts

`ChartsProofs` is about any screens, requests, photos, texts, versions and faults. Three
facts keep photos whole: a photo being uploaded has no row and one request
(`UploadsAreNew`), so no cleanup has it on its list; what is on a list was given up, and
`RemoveObject` and `DropRow` touch nothing else (`CleanupsAreRight`); and only linked
photos are "live" (`RowsAreRight`). Rows that were given up are never linked again, because
a photo is linked only out of an upload. `ViewsAreTrue` is about texts: what a screen or a
request knows is a past version of the chart, or the present one with the present text.
An upload and a removal give a screen a newer version without a new text; this is right
since neither changes the text, and only while its screen is locked.

### Outbox and access

`DeliveryProofs` proves, for any messages, any finite set of executions and any
number of attempts and crashes, `InvariantHolds` (`Spec => []OutboxInv`) and from it
`TypesHold`, `CopiesStayBounded`, `LeaseLocks`, `SentAgainIsExcused`,
`OutcomesAreTrue` and `EndedStays`. `CopiesBounded` is not inductive: an execution
that has claimed may still send. `OneCopyPerClaim` counts those, too: copies plus
executions on their way to send are no more than the attempts, and only a claim
makes room. `CopiesAccounted` is the reason why nothing is sent twice: where no lease
was outlived and no answer lost, a copy is known to its row or to the one
execution (`LeaseIsALock`) that is about to mark it.

`AccessProofs` proves, for any people, addresses, invitations, requests, salons and
grants satisfying `AccessAssumption`, `InvariantHolds` (`Spec => []AccessInv`) and
from it `TypesHold`, `LinksAreUsedOnce`, `OneLinkWorks`, `RightsComeFromOwners`,
`AnswersStayTrue`, `SendersAreEntitled` and `OnlyTheInvited`. `OneWorkingLink` is
not inductive, since it forgets the invitations that have expired: `OneOutstanding`
is the same without the expiry. `AnswersAreTrue` needs `OwnAccounts` (no two requests
made the same account) and `RegisteredHaveAccounts`. `GivenRightsAreHeld` is the
lemma about `assertAccessAssignment`: what it lets pass are rights the actor has, in
salons the actor has.

The cardinality lemmas (removing, adding, subsets) come from `FiniteSetTheorems`; the rest
is one step per action.

### What is proved and not run, and what is run and not proved

Some invariants are stated by a theorem only and have no run of their own: the type
invariants, `LeaseIsALock` and `EndsStay` of the outbox,
`OneWorkingLink` and `OnlyTheInvitedJoin` of access management. The run of the board has one
live card, one save and one form on their way; that a form opens for another card while one
is being sent is reached by the theorems only.

Only model-checked:

* liveness (`VisitCountsCatchUp`, `EveryMessageEnds`, `EveryRequestEnds`): fairness and
  ENABLED are beyond the prover;
* `AlgorithmsAreExact`, `SlotsAreAccepted` and `BoardIsDrawnTrue`: what folds over
  sequences and sets compute. A smallest counterexample would do for each, as in `Sums`,
  but every fold needs an argument of its own. The walk, the sweep and the amounts of
  `Amounts` are such folds.

## 6. What is not modelled

* Tokens, sign-in and sessions (verified by an external service), the pages of access
  management, navigation and layout (of the charts, too: `Charts` has what their screens send
and know, not the effects by which they are drawn), the field that looks up a customer, the form that opens
  a register and the customer's detail panel.
* Receipts and mails as documents: rendering of PDF and text.
* Parsing of import files and the refusals of malformed manifests; serving the bytes of
  a photo; the limits of 20 and 5 photos per cleanup, which only postpone.
* Search terms, the calendar of months, reads for mobile staff: they change nothing and
  relate to nothing that is promised.
* Counters that only refuse (look-ups, links of invitations).
* What the schema library does with defaults inside optional fields of a PATCH body.
* Relay, redirect and deployment scripts.

One tenant and one salon are modelled, as every query carries both ids, except where handlers
read or lock across them: `MemberBooking`, `Membership` and `Locks` have several tenants,
`Access` several salons, `Dashboard` a tenant as part of its context.

## 7. Plan

Done: every component in the table of section 2, model-checked, and proved but for what
section 5 lists. Left, in order of importance:

1. The sweep of `peakConcurrentReservations` against the largest crowd, by a smallest
   counterexample over the events; then the lanes of `Board` in the same way.
2. The rounding of taxes and discounts over lines (`Amounts`).
3. The look-up of a customer by phone and mail, and the counters that refuse.
