# TLA+ models of the booking platform

This directory verifies the behaviour of the repository under `src/`: what
happens when calls overlap, answers are lost, deadlines pass, processes stop and
customers change their minds. Each part is a TLA+ module translated from the
code, model-checked on small instances with TLC; for most of them TLAPS proves
theorems that hold for every value of the constants.

`PROJECT.json` lists the components, the runs, the hazards, the findings, and
for each definition the source lines it stands for (`map`). Definitions named
`Mutant_...` are plausible wrong versions of the definition that follows them:
each checked property is violated when its mutant replaces the original.

    tlc -workers 2 -config capacity.cfg MCPaymentRuntime
    tlapm PaymentRuntime_proofs.tla

## 1. Inventory

Paths are relative to `src/`. "Correct when" is what the properties of
section 3 are about.

### Database and edge functions

**Checkout call** (`supabase/functions/create-payment-intent`). Loads a booking,
checks that its slot is offered, reserves capacity, creates a payment intent
under an idempotency key, upserts `payments`, advances the booking from `draft`
to `pending_payment`, and answers with the client secret. No lock is held between
statements. Correct when no slot is sold twice, no secret is out for a slot that
is not held, and a failed call leaves no hold behind.

**Payment webhook** (`supabase/functions/stripe-webhook`). Success: replay check,
hold check, then either honour (undraft, consume, link, confirm) or compensate
(refund, log, mark, release, fail). Failure: mark, drop hold, fail. Refund feeds:
record, settle payment, settle booking. Stripe delivers at least once and in any
order, deliveries overlap, an instance may die between two statements, and many
statements ignore their error. Correct when captured money ends as a confirmed
booking or goes back, never both, and the rows say what is true of the provider.

**Capacity holds** (migrations 0010, 0015, 0022), **booking state machine**
(`packages/contracts/src/booking.ts`, the trigger of 0005 and 0009), **payments and
refund accounting** (0005, 0008, 0011). The rows the two functions share. Correct
when no moment has more consumers than capacity although holds expire by the
clock, and only legal edges are walked.

**Durable outbox** (0016). `enqueue`, `lease`, `ack`, `retry` with generations,
tokens, attempts and a dead state. Correct when a lease has one holder, an
acknowledged event stays so, an accepted one is never lost, effects are bounded by
attempts, and every open event is settled in the end.

**Resource reservations** (0012, 0014, 0020, 0031). Reserve, consume, release,
expiry, the exclusivity trigger with its EXCLUDE constraint, changes of capacity.
Correct when an exclusive unit is never used twice, no call takes more than there
is, and a promised unit is not taken away.

**Planning groups, allocator and repository** (0021-0025, 0027, 0028,
`apps/api/src/planning-allocation-repository.ts`). One allocation of a crew to a
booking per generation; a repository call has phases, deadlines, aborts and lost
commits; every transaction near a group takes its locks in a given order. Correct
when a caller is told the truth, no worker is held twice, and transactions do not
wait for one another in a circle.

**Flow storage and requests** (0017-0019), **mode installations** (0029 and its
repository), **mode flow sessions** (0030 and its repository), **mode owner API**
and **API server** (`apps/api`). Drafts under revisions; installations, policies and
their history; sessions that are issued, recovered, used once and expire; an HTTP
boundary with rate windows, limits and deadlines; start and close of the service.
Correct when updates are not lost, an answer says what the database has, a policy
that was revoked is not overtaken, and close leaves nothing behind.

### Packages

**Booking engine** (`packages/core/src/booking.ts`): records by id and key, with
awaits between a check and the decision on it. **Availability**
(`packages/core/src/availability.ts`, `packages/resources`): slots from rules,
overrides and blackouts; a reader of resource rows. **Pricing** and the **workflow
engine** (`packages/core`, `packages/workflow`, `functions/_shared`): what the
customer is shown, must answer and pays. **Event dispatch** (`packages/events`),
**notifications**, **billing**, **payment routing** (`packages/payments`), **payment
and calendar adapters**, **integrations** (OAuth and calendars), **media**. They keep
their state in memory or in what the host passes in; what is hard is events in any
order, overlapping batches, retries and callbacks that come late or twice.

### Applications

**Checkout app** (`apps/checkout`): a reducer, a wizard and asynchronous functions
whose answers arrive after the page changed. **Flow client libraries**
(`packages/flow-ui`): rules of forms, pending operations of the owner client.
**Owner portal** (`apps/portal`): the flow editor in several tabs, the mode owner's
page, and the desk over a demo store.

### How the parts interact

The checkout call and the webhook meet in five rows of one booking (its state,
its payment link, its hold, its payment, its refunds) and in Stripe's intent.
Neither calls the other: the customer pays at Stripe with the secret the checkout
call handed out, Stripe calls the webhook, the webhook calls Stripe for refunds.
`reserve_capacity` is the only function that orders two bookings against each
other. Requests of flows write a booking and an outbox event together; consumers
lease the outbox. Planning groups take over the rows of the bookings they manage.

An owner's change goes from portal to owner client to HTTP boundary to repository
to the functions of 0029, and a session of 0030 reads the installation and policy
that such a change moves. The demo checkout does not use the edge functions: its
page holds a booking engine and a mock provider of its own, so `CheckoutPage` is
`BookingEngine` with the page around it. The configure step uses pricing and
workflow of the packages; the server has copies of both pricing and availability,
which is why two implementations are compared.

### Not modelled, and left out of what is

- Tenants, identity and row security: declarative rules without behaviour over
  time. One tenant is modelled except where tenants can meet (`Integrations`,
  `MediaLibrary`, `CalendarBusy`, `PortalDesk`, `EventDispatch`).
- Tables of services and schedules: constants of the models.
- Templates and localisation, rendering, logging, parsing and sizes of documents.
- The command center reads demo data only; the portal's pages for availability,
  resources and settings edit one record each.
- Deferred validation of group carriers and what the guards on other writers
  refuse (0025); crews' rosters and the schedule inside an allocation (0028).
- ConnectedCheckout, the runtime and action clients of `packages/flow-ui` and
  `runtime-client`: transports around modelled functions.

`components` in `PROJECT.json` says the same part by part.

## 2. Modules

| module | stands for |
|---|---|
| `BookingLedger` | what the runtime promises, without processes (abstract) |
| `PaymentRuntime` | checkout call, webhook, holds, booking and payment rows, Stripe |
| `OutboxPromise` | an event is accepted, has effects, is settled once (abstract) |
| `DurableOutbox` | the outbox table, its functions, clock and workers |
| `ResourceReservations` | reservation rows, calls, trigger, constraint, capacity |
| `PlanningAllocation` | allocation calls, their backends, groups and two clocks |
| `GroupLocks` | the order in which transactions near a group take locks |
| `FlowSessions` | session repository, its transactions, the owner meanwhile |
| `OwnerJourney` | an owner's change from portal to database |
| `OwnerAdmission` | rate windows, limits, deadlines of the owner's HTTP boundary |
| `ServiceLifecycle` | start, signals, close and exit of the two hosts |
| `FlowAuthoring` | tabs of the flow editor over one draft and its publications |
| `HostedRequests` | the hosted page, its sessions and the stored request |
| `ConfigurableForm` | rules of a configurable form, in editor, browser and database |
| `BookingEngine` | the in-memory engine over the mock provider |
| `CheckoutPage` | the demo checkout page; EXTENDS `BookingEngine` |
| `Configurator` | the configure step, both pricers, the flow and its check |
| `Scheduling`, `CalendarBusy` | both slot engines; busy windows and their merge |
| `ResourceReading` | the resource reader against the rows the writer grants |
| `Billing`, `MerchantCharges`, `StripePayments` | subscriptions; routed charges; the Stripe adapter |
| `Integrations`, `EventDispatch`, `Notifications` | OAuth; deliveries; notices and reminders |
| `PortalDesk`, `MediaLibrary` | the portal's store and pages; the storage port, variants and cards |
| `Sorting` | what `sort` and `filter` return, for `CalendarBusy` and `MediaLibrary` |
| `MC...` | instances for TLC |
| `..._proofs` | theorems about the modules, see section 4; `Components_proofs` has those of the library and flow parts, `Repositories_proofs` of resources and the owner's journey, `Operations_proofs` of the parts of `MCOperations` |
| `Summation` | lemmas about folds and sums over finite sets, used by the proofs |

`MCLibrary`, `MCFlows` and `MCOperations` hold parts that share no state. Their
variable `focus` names, from the initial state on, the part whose steps are taken;
the others keep their initial state, so a run explores each part completely and
every property is checked of all. Parts that do share state are composed for
real: `CheckoutPage` with `BookingEngine`; portal, server, repository and database
in `OwnerJourney`; page, server and rows in `HostedRequests`; reader and writer in
`ResourceReading`.

### PaymentRuntime

A worker is one running call. `call[w].step` is the next statement that touches
shared state; what the call read before is in `sawBooking`, `sawPayment`,
`sawLive` and may be stale. Each action is one statement with its guard, its
effect, and where the code goes on. A statement whose error the code ignores is
written `Unchecked(label, effect, noEffect)`: if its label is in `Lossy` it may
be lost, at the price of one fault. `Die` ends a call between two statements.
The provider keeps `captured`, `refunded` and the set `events`; an event not in
`acked` may be delivered again, to any idle worker, at any time.

| variable | code |
|---|---|
| `booking`, `linked` | `bookings.state`, `bookings.payment_id is not null` |
| `hold` | the booking's row of `capacity_holds` |
| `payment` | `payments.state` |
| `ledger` | the booking's rows of `refunds` |
| `secretOut` | the client secret was part of an answer |
| `captured`, `refunded`, `events`, `acked` | Stripe, and what it was answered |
| `call`, `faults` | running calls; faults so far |

Abstractions, each with its reason:

- One service of one tenant, since that is the scope of the advisory lock. One
  intent per booking, since the idempotency key is the booking's; that Stripe
  forgets keys after a day is left out.
- A hold is `live` or `lapsed` where the table says `active` and `expires_at`
  decides. The status `expired` is never written by any code.
- The quote is the constant `Amount`; what Stripe captured is chosen from
  `CapturedAmounts`, so the amount check of the webhook has both outcomes.
- A refund is named by the total it brings the intent to; the two feeds report
  the total (`charge.refunded`) and the refund's own amount (`refund.created`).
- Slot capacity does not change. A read that fails ends a checkout call before
  it changed anything. In the webhook a failed read looks like an empty one
  (labels `lookup`, `read_booking`, `read_hold` of `Lossy`).
- Planning-policy services and group-managed bookings take other branches
  (0022:204, 0025:166) that refuse the call; they are left out here.

### BookingLedger

States, money captured and money returned, and the legal edges. A sale needs
the full price and room at every moment of the slot; the refunded state needs
the whole price returned. `ImplementsLedger` maps `booking`, `captured` and
`refunded` to it. The map is the identity on these variables, and what has to
be shown is that each of twenty-odd statements, run with stale reads, either
leaves them alone or makes a step the ledger allows.

### DurableOutbox

A row has its envelope, status, generation, attempts, whether it is due and
whether its lease has run out. `Lease` is the whole function: it first buries
rows whose last lease ran out, then leases up to `Limit` due rows. The token is
merged with the generation, which changes with it. Backoff and lease times are
abstracted to `ComesDue` and `LeaseEnds`. A worker keeps a ticket for each
lease and performs the effect at most once per ticket, so an effect is repeated
by a later lease. It may miss the answer of a call and make it again, crash, or
come back late. `OutboxPromise` is refined through `KeepsPromise`: an event is
settled once, and as completed only after its effect happened.

### ResourceReservations

One resource of one tenant. A row is one booking's reservation: status, units,
the moments it covers, whether its expiry has passed, and the flag `exclusive`
that the trigger maintains. A call of
`Spanning` may straddle an expiry between the start of its transaction and its
statement, as it does when it waits for a lock: `now()` is then older than
`clock_timestamp()`. `Direct` allows inserts around the reserve function.
Changing the capacity updates the flags of existing rows. Group-managed rows,
and a direct insert racing an uncommitted capacity change, are left out.
A `reserve` that spans an expiry may be rejected by the EXCLUDE constraint
although units are free, so `RoomIsGranted`, one half of `GrantsAreFair`, speaks
of calls that span none.

### PlanningAllocation and GroupLocks

A call has a phase (acquiring, running, committing, settled) and a backend that
goes on by itself when the call is answered: a commit that was sent may still
happen, which is why a stop in the committing phase is told as unknown.
`allocate_planning_group` is one atomic step, as its locks make it. Two clocks, the
host's and the server's, judge whether a receipt is usable; the wall clock may be
set back once. Bookings are drafts at one time and two crews share a worker.
Expiry alone does not free a generation: it takes a release or a newer one.

`GroupLocks` keeps of each transaction only the list of its locks: two tables and
the row they are taken for. Locks of rosters and identities, resource locks
(taken in the order of ids) and the queue behind a lock are left out.
`OnlyInvertedWritersDeadlock` says which circles exist: a writer of `bookings`
against the save of a policy, which migration 0022:38 names, and an update of a
booking against the release of its group. PostgreSQL ends both.

### FlowSessions, OwnerJourney, OwnerAdmission, ServiceLifecycle

`FlowSessions` follows one call of the session repository through connect, begin,
statement and commit; each can be cut by a deadline, an abort, a lost connection or
shutdown while the backend goes on. A context is what the process remembers of a
session. Refusals for limits, entropy and busy contexts change nothing and are
stutters; the pool of two never binds with the calls of the instance. A
`recoverIssue` that fails for a moment makes `finish` forget the context: a later
call is refused, and nothing false is told.

`OwnerJourney` follows a change through four layers, each with its own deadline.
`mode_retry` is never used by the portal and is left out; an install compares only
the published version. `OwnerAdmission` is the boundary alone: windows, budget of a
request (one tick is its 15 seconds), limits and what is given back by whom.
Handlers are numbered by arrival; the limit on handlers at once is not reached by
three requests; a failing clock exists in tests only. `ServiceLifecycle` has the
local and the hosted process; requests of an owner that are in flight at close are
answered without a result, and the hosted process may exit before its pool ended.

### FlowAuthoring, HostedRequests, ConfigurableForm

One questionnaire whose documents are abstract; editors of the local harness;
a call that the client gave up on is served later by the server (`orphans`). A hosted
session is pinned to a version and stores one request; refusals by time or
validation are `Fail`. `ConfigurableForm` compares three implementations of the
same rules: the editor's, the browser's and the database's. Prompts are left out,
and a multiple choice with exactly one pick counts as that pick, as the code
flattens it.

### BookingEngine, CheckoutPage, Configurator

An action of `BookingEngine` is what runs between two awaits. In the demo these
awaits are microtasks; they are modelled as genuine ones, since the provider is an
interface. Records are named by their place, intents by key and attempt, the
check of the amount is one `Price`. In `CheckoutPage` an asynchronous function of
the page is a job that kept what it captured when it started; a reload loses the
job, the engine and the provider and keeps what the reducer persisted.

`Configurator` has the selection, the wizard's gate, both pricers with their
integer rounding, and a checkout's flow: visibility, effects, publication and the
check before it. A step's key is its place, so duplicated keys are left out.

### The library parts

`Scheduling` compares the engine with the server's copy on days of 12 minutes,
with overlapping windows, overrides, blackouts and a change of the clock between
them; yearly blackouts and validation to the second are left out, and no clock is
put forward inside a window. `Notifications`: no application of the repository
calls the package, so when batches start is the environment's choice.
`StripePayments`: Stripe is the environment and currency is left out. In `Billing`
the mock never creates `incomplete`; a reactivated past-due subscription keeps its
scheduled end, a repeated renewal adds a paid invoice, and a recovery makes a trial
active without one. In `MerchantCharges` keys are global across tenants and a charge
asked with an authorization's key returns that authorization. In `EventDispatch` the
host is outside the repository: it may call `dispatch` at any time, with several calls
under way, and keeps what it was returned last. In `PortalDesk` the store's
clock stands still, as in the code. `MediaLibrary`: the rows live in the host's
database and nothing in the repository makes the variants. `ResourceReading`: a
booking has one slot and one row per resource, and instants are readable.

## 3. Runs

| run | what happens | properties |
|---|---|---|
| `capacity` | two bookings compete for the last place through two workers; holds expire, one fault, any unchecked statement but the advance may be lost | `NoOversell` `ImplementsLedger` |
| `refunds` | price 2, part captures, declines, merchant refunds, both feeds, one fault, every unchecked statement may be lost | `RefundedMeansReturned` `ConsumedHoldIsKept` |
| `resolution` | one call dies, deliveries are retried | `PaidIsResolved` (liveness) |
| `late_failure` | a failure of an earlier attempt during a success | `MoneyOrService`: violated |
| `outbox` | two writers, two keys, two workers that crash, stall and miss answers | `LeasesHold` `KeepsPromise` `EventuallySettled` (liveness) |
| `resources` | reservations, expiry across waits, direct inserts, changes of capacity | `NoDoubleUse` `PromiseIsKept` `GrantsAreFair` |
| `checkout` | wizard back and forth, slots that fill, declines, retries, reloads at any await | `PageIsTrue` `NothingHangs` (liveness) |
| `sessions` | three calls on a session, stopped at any step, an owner who changes the installation | `AnswersAreTrue` `PolicyHolds` `NothingLingers` (liveness) |
| `owner` | two owners, two changes, every layer cut off from the next | `ToldIsTrue` `OneChangeAtATime` `NoLostUpdate` `PortalAnswers` (liveness) |
| `library` | nine parts of the packages | `CallbackOnce` `BusyIsMerged` `NeverOverCapacity` `PricesAgree` `WizardLeadsOn` `NoticesHold` `StripeIsReadTrue` `SubscriptionHolds` `ChargesHold` `Settles` |
| `flows` | editor tabs, form rules, hosted page, media | `EditorIsCurrent` `FormFollowsRules` `RepeatIsStored` `MediaIsSound` `NothingOverwritten` |
| `operations` | engine calls, allocations, locks, desk, reader, close, admission | `BookingsAreSound` `PlanningHolds` `DeskAgrees` `ReaderIsWriter` `OwnerServiceHolds` |

What the passing runs show: slot arithmetic survives every interleaving of two
checkouts, two deliveries and the clock; no refunded state lies about money; a paid
booking is resolved although a call dies; fencing holds against stalled workers;
exclusivity survives changes of capacity; no layer between an owner or a customer and
the database tells as failed what can still happen, and none waits for ever; the
checkout page never shows a booking that is not for what it displays; one key has one
booking and what is sold is paid once, whatever overlaps at the awaits; both
implementations of price, rules and resource counts agree where the findings below do
not say otherwise.

### Findings

`late_failure` is the one violated run: a `payment_failed` of an earlier attempt
fails the booking after the success passed its hold check, the confirming update
matches no row, the event is answered 200: money captured, nothing returned.

The other findings of `PROJECT.json` have no run of their own. Each is
reproduced by a small change of a configuration:

| finding | how to see it |
|---|---|
| a lost advance oversells a slot | `capacity` with `Lossy = {"advance"}`: `NoOversell` |
| part refunds are recorded as running totals | `refunds` with `RefundFeed = {"charge"}` and nothing lossy: `LedgerNotOverstated` |
| a compensated booking is confirmed | `capacity` without faults: `NoFreeService` |
| a death after the refund is asked again for ever | `resolution`: `EventuallyAcked` |
| an abandoned checkout consumes its slot for ever | `resolution` without faults: `AbandonedSlotReturns` |
| a failed lookup loses a capture | `resolution` with `Lossy = {"lookup"}`: `PaidIsResolved` |
| a slow consume takes units granted since | `resources` with `Spanning = {"consume"}`: `CallsFit` |
| an overlapping confirmation is refused | `operations`: `RepeatIsConfirmed` |
| answers of hidden questions are charged | `library` with `Configurations <- MCHiding`: `HiddenDoesNotCount` |
| a quantity without a minimum, or a hidden required question, passes the gate | the same with the question "paint" required: `FinishedIsPriceable` |
| a step "never shown" is shown | `library` with `Configurations <- MCForward`: `NeverShown` |
| the server's slots ignore blackouts | `library`: `LockStep` |
| overlapping ticks deliver a success twice | `library`: `NeverDoubleDelivered` |
| a provider that rejects for ever is called for ever | `library`: `focus = "dispatch" => AlwaysSettles` |
| a subscription set to end renews | `library`: `EndsInsteadOfRenewing` |
| the reader counts rows, the writer units | `operations` with `RowQuantities = {1, 2}`: `ReaderIsWriter` |
| a nearly flat image gets a variant of height 0 | `flows` with `Sides = {1, 40}`: `MediaIsSound` |
| an hour that the clock skips has its places twice | `library` with the calendar `Setup({Rule("any", 2, 0, 12, 1)}, {}, {}, Clock(0, 2, 14))` added: `NeverOverCapacity` |

Two are read off the code: overlapping batches send a notice twice (`NoticesHold`
claims only that duplicates have that cause), and an unreadable expiry frees a unit
in the reader (instants are readable in the model).

### Bounds, and why they are enough

- Runtime. Two bookings of one slot of capacity one are the smallest contest, and
  each counting argument compares one booking with the set of the others; the
  proofs cover the rest. Two workers let any two calls overlap; three at once are
  left to the proofs. One fault reaches every partial failure. Price 2 is the
  smallest with a part refund and an under-capture.
- Outbox, resources. One and two attempts give a dead row with and without a
  retry; two keys and writers a conflict over a key. Slots {1}, {2} and {1,2}
  overlap in every way; units 0 to 2 and capacities 1 and 2 switch exclusivity.
- Checkout. Two slots, two customers, a service with options and one without; two
  bookings, two attempts, one reload: a change after a booking, a decline and a
  retry each fit, and so does the answer that arrives after either.
- Sessions. One context and three calls (`MaxCalls`): issue, recovery and
  submission, or submission and its repetition; four ticks with a life of three
  and a patience of one, so that a call and a session end in either order; the
  host's clock runs one tick ahead.
- Owner. Two portals and two operations: a conflict of two owners, or a second
  change after an uncertain one; one sign-in again.
- Library. Two attempts and a dead letter (`MaxAttempts = 3`, with backoff), by two
  calls of `dispatch` that may overlap; a clock of three ticks and more while a retry
  is due; two periods and three invoices, two charges, intents and refunds, two
  overlapping batches, three deliveries of an event, four calendars of two days, and
  the services and flows `MCLibrary` spells out.
- Flows. Two tabs and documents, three revisions, one call left behind; two pages,
  sessions, keys and contents; a required question that shows two others; images
  narrower and wider than a breakpoint.
- Operations. Two callers and keys for one place, three records; two calls,
  bookings and crews with a shared worker, two generations; three requests against
  limits they reach; three transactions, so that circles of two and of three can
  form, and two bookings, so that the same row and another one can meet.

Every counter has a named bound in the guards: `MaxFaults`, `MaxCalls`, `MaxTime`,
`MaxRevision`, `MaxOperations`, `MaxRecords`, `MaxAttempts`, `MaxGenerations`,
`MaxWindows` and the like, set in the configuration. Symmetry is used in runs or
parts without liveness (`capacity`, `refunds`, `late_failure`, `resources`, tabs and
documents of `flows`, callers and keys of `operations`). The view of
`MCPaymentRuntime` drops `linked`, `ledger` and `acked`, which no guard and no
property of the runs that use it reads.

Deadlock is checked for the outbox and the resources. The other systems may stop:
a customer or an owner need not act, and the bounds end the rest.

### Fairness

- Runtime (`FairSpec`): weak fairness of the statements of a running call (the
  platform runs or kills it), strong fairness of delivering an event not yet
  answered 200 (Stripe retries), weak fairness of expiry. Nobody has to open a
  checkout or pay, and calls may die as often as `MaxFaults` allows.
- Outbox (`FairSpec`): a consumer that keeps leasing, leases that run out, rows
  that come due. No worker has to finish what it leased. The repository ships no
  consumer, so `EventuallySettled` is conditional on one.
- Checkout (`PageSpec`): the promises the page awaits settle (its provider and slot
  engine live in the page) and a mounted effect runs. The customer does nothing.
- Sessions (`SessionFairness`): time passes, the deadline of a call fires, the
  server's own timeout ends a transaction it was left with, a context expires. No
  connection, statement or commit has to succeed.
- Owner (`JourneyFairness`): deadlines of the client fire (`DeliveryUncertain`,
  `Checked`, `Refreshed`, `Abandoned`). No layer behind it has to answer.
- Dispatch (`DispatchFairness`): the clock ticks, the host keeps calling `dispatch`
  while a retry is due (strongly fair, for ticks are shared among the deliveries), and
  each call ends: the attempt reaches the receiver, is lost, or the provider rejects.
  A delivery for which the provider rejects again and again need not settle.
- All other parts: safety only.

## 4. Proofs

Every theorem holds for every value of the constants that the named assumption of
its module allows: any finite set of bookings, any workers, capacity, price and
number of faults (`RuntimeAssumption`), any keys, envelopes and attempts
(`OutboxAssumption`), any requests and capacities of finitely many bookings
(`ReservationAssumption`), any
calls, keys and requests of the booking engine (`EngineAssumption`), any services,
selections and customers of a checkout (`PageAssumption`: keys are numbers, and a
service's empty selection is of that service), any portals and operations
(`JourneyAssumption`), any contexts and intents of sessions (`NoneIsNothing`: the
value for nothing is none of them), any scopes and limits
(`AdmissionAssumption`), any calls, crews and workers (`PlanningAssumption`:
lifetimes and bounds are numbers), any calendars of finitely many rows
(`SchedulingAssumption`, `CalendarRows`), any desk whose customers have one tenant
and e-mail each and whose bookings belong to them (`DeskAssumption`: the demo data
are generated so, `apps/portal/src/data/mockTenant.ts:328-350` and 441), and so on in
the small components. TLC evaluates
these assumptions in the passing runs.

**Payment runtime.**
`TypesAndEvents` proves types and `EventsAreTrue` together: what a call
remembers of its event is still true of the provider, because captures do not
change and refunds only grow. From it follow `RefundsAreReal` and the
amounts in `RuntimeImplementsLedger`.

`CapacityIsSafe` is the main result: if the advance to `pending_payment` is not
lossy, then `[]NoOversell`. `NoOversell` is not inductive: it counts sold
bookings, while a sale happens several statements after the hold was
read. The strengthening counts every *entitled* booking (one with a live
hold, a sold one, and a `pending_payment` one whose hold is consumed or which a call is
honouring) and says that at most `Capacity` are entitled to a moment
(`RoomForEntitled`). A step makes a booking entitled only by a grant, and
a grant counts every booking that could be entitled, provided a booking a call
is honouring is not a draft without a hold. That is `OfferedBeforePaid`: a
secret is only ever out for a booking that has left draft. The proof shows for each action
that the set of entitled bookings grows by a grant or not at all, and the
bound by cardinality of subsets. The hypothesis on the advance is necessary:
with the advance lossy the conclusion is violated (section 3).

`ConsumedHoldsStay` is an action property: no statement takes a consumed hold
back. `RuntimeImplementsLedger` shows that initial states map to initial states and
every step to a ledger step or a stutter, with the invariants above as
hypotheses of the step, and therefore under the same condition on the advance.
(`refunds` may lose the advance too: with one booking there is nobody to
oversell to.)

**Outbox.** The inductive invariant `OutboxInvariant` has four parts: rows
obey the table's constraints; each ticket names a stored row and a
generation not newer than the row's, no two tickets of a row share a generation,
and a ticket marked performed has had its effect; accepted envelopes are stored;
confirmed keys are completed. An acknowledgement completes a row only
through a performed ticket, which is what the refinement needs. `OutboxFencing`
(`OneHolder`), `OutboxKeeps`
(`ConfirmedIsDone`, `AcceptedIsStored`, `DeadIsJustified`), `OutboxTypes` and
`OutboxKeepsPromise` (the refinement) follow. `OutboxBoundsEffects` counts: the
effects of a key and the tickets for it that are not yet performed (`Unperformed`)
together never exceed the leases that were given, and those never exceed the
attempts. `OutboxIsSafe` joins all five as `LeasesHold`, which the run checks.

**Resources.** `ReservationInvariant` joins types, the agreement of each counted row's
flag with the resource's capacity, the constraint itself, and that what a
waiting call takes for over is over (so that it never expires a live row). The agreement is
why changing a capacity is safe, and it needs the update of existing
rows in the same transaction. `ExclusiveIsExclusive` and `PromisesAreKept` are
its consequences. `GrantsStayFair` proves both halves of `GrantsAreFair` under the
hypothesis that no consume call waits across an expiry (`"consume" \notin Spanning`; with
one that does, `CallsFit` is violated, section 3). What a moment uses after a call is a
sum over the rows that used it before and the row of the call (`OthersUse`,
`FewerUse`); a request that found room is not refused by the constraint, since
what still overlaps it is reaped or would have been counted (`ReserveStores`).

**Booking engine.** `EngineIsSound` proves `[]BookingsAreSound` for any callers,
keys, requests, capacity and price. The three statements (one booking per key that
did not fail, no slot over capacity, what is sold is paid once) are not inductive:
between a check and the decision on it other calls run. The invariant `Inv` adds
that a record which did not fail is the one of its key and its payment key was
counted (`RecordsHold`), that records and keys name each other and share no payment
key (`KeysHold`), and that what a confirmation saw at the provider before its await
is still so after it (`MoneyHolds`). A record moves only along the table's edges, so
the bookings that hold a slot grow only by a creation that counted them.

**Checkout page.** `PageHolds` proves `[]PageIsTrue`, for any services, selections,
customers and keys and any number of reloads. The engine's `Inv` is of no use to it:
the engine lives in the page, and a reload empties it under the page's feet. `PageInv`
therefore says of the engine only what holds while it is live (`EngineIs`: a live record
is its key's; an intent that settled is either what the page's job is about to ask for or
what its booking became) and joins it to the page. The page's key is used for the request
on it only, by a booking that is or becomes the page's (`KeyIsPages`), so a changed
request takes an unused key. Whatever the page shows of its booking is a copy that
survives (`BookingIsPages`). What a job captured when it started is still the page's when
it goes on (`CreatesForPage`, `PaysForPage`): the wizard cannot leave the Payment step
under a job (`WizardIs`). So a failure that is shown stands for a key whose live booking
was not sold, and under which nothing was captured.

**Owner's journey.** `OwnersAreToldTrue`, `OneChangeOfAPortal` and `NoUpdateIsLost`
follow from one invariant over the four layers. It says how far each layer
lets the next one be (`LayersFollow`), that an operation told as not made is
`Hopeless` (its request is answered, its call over or never begun, and no commit is
out, so that nothing can still make it), that a portal tracks each operation of
unknown outcome or has marked itself unresolved (`Tracked`), that one
transaction has the row and compared the present revision (`RowIsHeld`), and that
no revision exists without a commit (`RevisionsCounted`). The last is what bounds
the revision, and it needs cardinalities.

**Sessions.** The invariant of `FlowSessions_proofs` relates the call and its
transaction phase by phase: a call answered "failed" has a transaction that can no
longer commit. What a transaction read is still true while it shares the
installation's row (`ReadsTrue`), what it wrote is there (`WroteIt`), transactions
of one context exclude one another (`OneHolds`), and what the process keeps of a
context is stored (`Remembers`). `AnswersHold` and `PolicyIsNotOvertaken` follow;
the second is an action property, and `ReadsTrue` in the state before the commit is
its reason.

**Operations.** `ServiceHolds` and `PlanningIsHeld` are stated for the composition
the run checks, and each joins theorems about its parts. `AdmissionExact` counts by
cardinality: the limit of a scope is the number of handlers that are calling for
it. `ClosesCleanly` needs to know which pools are whole at each stage
(`PoolsHold`). `AllocationsHold` says that what was written and not yet committed is
the next generation, and that its workers are held by no other booking: that is the
lock's merit, and the reason a later commit is safe. `OnlyInversionsDeadlock` is not an
induction over circles. `NoClash` is the invariant (no two transactions have locks
that exclude each other). Given it, the proof goes through the places of the lock
order from the last to the first: whoever holds a lock at one place can only be
waiting at a later one, where nobody of the stuck set waits any more, unless the two
are one of the named inversions. So the
finding holds for any number of transactions and bookings: there is no other circle.

**Small components.** Each part of `Components_proofs` has its own invariant.
OAuth: a nonce is consumed by the callback accepted under it. Billing: a
subscription without a trial has the paid invoice of its period. Charges: the amounts
agree with the state, and a key names the charge made with it. Deliveries: an attempt
on its way, however old the outcome it started from, follows as many failures as it
says, and its good answer is one of an endpoint that acted. The hosted form: what the page waits for,
what travels under its session and what is stored there is one body. The editor: at
the draft's revision a tab has the draft's document, every call on its way was made by
the editor as it still is, and one that nobody awaits carries the document its editor
had before it. `OutcomesAreTrue` is the safety part of `Settles`; the rest of it is liveness.

**Sums.** Several statements compare a count with a sum of capacities or amounts. The
library states induction only for operators, which no installed prover can
instantiate, but its least-element theorem takes a set. `Summation` derives from it
induction over numbers and finite sets, that the recursion behind a fold has
exactly one solution, and from that the equations of a sum (`TotalAdd`, `TotalUnion`,
`TotalPart`, `TotalImage`, `TotalParts`).

**Availability.** `SchedulingWithinPlaces` proves `[]NeverOverCapacity` under
`NeverPutForward`. The invariant `WithinPlaces` counts at every moment, not only where a
booking runs. What has to be shown of a new booking is that the remaining places of its
start bound those of every moment it covers: a window that offers the start
covers the whole appointment, and offers the start once (`OffersFit`). Both fail where
a window spans an hour that the clock skips, because two wall times are then one instant and
its places are added twice; this is the finding of section 3, and why the hypothesis is
there. Overlapping and split windows, blackouts, and clocks set back need no hypothesis.

**Stripe payments.** `StripeReadTrue` proves `[]StripeIsReadTrue`. `StripeInv` says what
an event promised when it was sent (`EventHolds`) and what a reading of it may claim
(`ReadingHolds`); both stay true because intents only move on (`MoveOn`: a paid one stays
paid and what is refunded grows), so an event may be read at any later time, in any order.

**Resource reader.** `ReaderAgreesWithWriter` and `ReaderIsTheWriter` prove that the
reader's offer is the writer's grant when every row has one unit
(`RowQuantities = {1}`); with other quantities it is false, which is a finding. A
sum of ones is a cardinality, and that is what reader and writer have in common.

**Portal desk.** `DeskHolds` proves `[]DeskAgrees`. `DeskInv` keeps, for each booking,
that the k-th event the log has of it is the k-th change of its history
(`TrailRebuildsDesk`, with `Told` counting the log's events). The sums of the pages need
no history: every booking that earns belongs to exactly one customer
(`CustomersEarn`), so the customers' sums are a sum over the parts of a partition.

**Questionnaire.** `FormsFollowRules` proves `[]FormFollowsRules`. `FormInv` says of the
steps that a question is asked once (`AsksOnce`), and of the answers that only visible
questions have one (`AnswersFit`). The second holds after one pass of clearing because a
condition's source is asked of everybody, before it (`ClearedIsVisible`); the
database may judge a condition over what it accepted so far for the same reason
(`AcceptedDecides`). The editor's edits keep this although only `move` checks it: a
question that a condition asks about is neither left out nor made conditional.

**Messages.** `NoticesAreRight` proves `[]NoticesHold`. A key that was answered is in the
set every later batch copies, and a batch that took a key has it, so the answered
deliveries of a key number at most the batches that have it (`SentInv`). A booking that
was confirmed in time and looked at since the reminder came within the horizon has it
planned (`LookInv`); as no horizon passes without a look, none is missed. What a loop
collects is the library's `FoldLeft`, whose equation `Summation` solves
(`FoldLeftExists`, `FoldLeftInduction`).

**Calendars and media.** `Sorting` says what JavaScript's `sort` does as one insertion per
element, so that the result follows from `FoldSet`'s equation: every element once, in
the comparison's order, whenever the comparison is total and transitive
(`SortedIsInOrder`). `BusyMerges` proves `[]BusyIsMerged`: the pass of `mergeBusy` keeps
`Merges`, by which every window it has absorbed lies in a merged one, no merged one is
busy or internal without such a window, and there is a gap between any two
(`AbsorbMerges`). The last holds because a window starts no earlier than those before it.
`MediaSound` proves that a tenant is given only what she wrote and that a card is whole,
and, where no image is nearly flat (`NotFlat`, the finding of section 3), all of
`[]MediaIsSound`: a scaled height is within half a pixel of the ratio, so a width that is
not above the original's has a height that is not either (`HeightIsNear`).

**Model-checked only.** All liveness (`EventuallySettled`,
`PaidIsResolved`, `NothingHangs`, `NothingLingers`, `PortalAnswers`, and that
deliveries settle), which is beyond the prover. `PricesAgree` and `WizardLeadsOn`
rest on recursive operators, in whose presence the prover has no arithmetic.

## 5. What is left

1. Planning groups: deferred validation of carriers, the guards on other writers
   and rosters (0021, 0024, 0025), composed with `PlanningAllocation`; a clock of
   its own for each call, so that a reservation can wait across an expiry.
2. The older flow tables (0017, 0018) and `mode_retry`, if a caller appears.
