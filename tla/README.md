# Majal: specification of the platform's core

Majal sells limited drops of dishes. A creator owns a recipe, an establishment
(the host) cooks it, a customer reserves a portion and pays, the creator earns
a royalty on every portion handed over. The server (`server/*.ts`, Express on
SQLite or PostgreSQL) keeps all of this in one database and shares its work
between request handlers, payment webhooks, timers and several instances.

A host works with a team; a visitor may enter a demo, which the server gives a
database of its own and the browser can also play alone.

The modules here specify that core in TLA+. TLC checks them on small instances;
TLAPS proves the properties that matter most for every value of the constants.
Modules are translated from the code; documents and comments of the repository
are used only where a run shows that the code does something else.

1. [The system](#1-the-system)
2. [Modules](#2-modules)
3. [Runs](#3-runs)
4. [Fairness](#4-fairness)
5. [Proofs](#5-proofs)
6. [Where code and documents disagree](#6-where-code-and-documents-disagree)
7. [Not modelled](#7-not-modelled)
8. [Plan](#8-plan)

## 1. The system

### Components

Paths are relative to `src/`.

| Component | Code | State | Operations |
|---|---|---|---|
| Orders and stock | `server/orders.ts`, `checkout.ts` | `orders`, `launch_branch_stock` | reserve, call the provider, store its reference, fail and release, sweep expired holds |
| Payments | `server/payments.ts` | `payment_intents`, `payment_webhook_receipts`, `accruals` | apply a verified provider event |
| Fulfilment and stock configuration | `server/commerce-ops.ts` | `orders`, `accruals`, `launch_branch_stock` | fulfil, configure capacity and cutoff |
| Ledger | `server/ledger.ts`, `time-anchor.ts` | `financial_ledger`, its head, `ledger_time_anchors` | append to a hash chain, verify it, anchor its head, verify the anchors |
| Settlement | `server/domain.ts:76-111, 924-990` | `settlement_batches`, `accruals` | approve a batch, report it paid |
| Kill switches | `server/kill-switch.ts` | `security_kill_switches` | engage, release, ask |
| Proof of reserves | `server/proof-of-reserves.ts`, `merkle.ts` | `reserve_attestations` | sum liabilities and reserve, attest them |
| Deal | `server/domain.ts:827-925`, `moderation.ts` | `collaborations`, `offer_versions`, `contract_versions`, `contract_signatures`, `launches`, `products` | offer, accept, sign, prepare and activate a launch, pause |
| Idempotent commands | `server/domain.ts:116-135` | `idempotency_keys` | look up, run, store |
| Notifications | `server/notifications.ts`, `notify.ts`, `delivery.ts` | `notification_inbox`, `notification_outbox`, `notification_delivery_claims` | create or coalesce, read, select, claim, deliver, record |
| Scheduled launches | `server/launch-schedule.ts`, `idle-aware.ts`, `commerce-ops.ts` | `launches.opens_reminded_at`, `open_notified_at`, `drop_waitlist`, `creator_follows` | claim and announce; wait, follow |
| Accounts and team | `server/auth.ts`, `team.ts`, `moderation.ts` | `users`, `sessions`, `organization_memberships`, `organization_invites` | invite, accept, change, remove, moderate, log in, authenticate |
| Demo sandboxes | `server/demo-sandbox.ts` | a registry of databases in memory | enter, serve, rebuild, reset, exit, sweep |
| Browser, signed in | `src/lib/store.ts`, `App.tsx`, `apiFetch.ts` | identity, generation, loaded data | restore, log in and out, ask, apply an answer |
| Browser, demo | `src/lib/store.ts`, `data/demoUniverse.ts` | deal, launch, orders, royalties, batches | the operations of the server, played locally |
| Recipe secrecy | `server/secret-halflife.ts`, `domain.ts:957-960`, `advanced.ts` | `secret_exposure_grants`, `progressive_secret_escrows`, `progressive_secret_disclosures` | grant, look, advance, show, revoke, contain |
| Memory capsule | `server/domain.ts:972-974`, `secure-storage.ts` | `customer_memory_capsules`, encrypted objects | put, replace, delete |
| Database | `server/database.ts` | all tables | two transaction disciplines |

Showcase, analytics, hosting, the views and the scripts are listed in `PROJECT.json` with
the reason each is left out.

### How they interact

* A **customer's order** is one transaction (stock, intent, order, ledger), then a
  call to the payment provider outside any transaction, then statements on their own.
  The provider answers later with **webhooks**, which move intent, order, accrual,
  stock and ledger in one transaction. The **sweeper** and the handler's own catch
  block take the same order back.
* **Fulfilment** turns the accrual a capture left into one that is payable;
  **approval** locks all payable accruals into a batch; **reconciliation** reports the
  batch paid and posts the payout. A **refund** may arrive at any point of this.
* The **terms** that price an order and its royalty are those of the accepted offer
  (`orders.ts:63-69`, `payments.ts:478`), which the deal's handlers write.
* Everything leaves **notifications**, which a worker of every instance delivers; another
  loop of every instance announces **scheduled launches** to those who wait or follow.
* Every step that moves money appends a row to the **ledger**; auditors verify, anchor and
  attest it while it moves.
* Every request is **authenticated** against an account, a session and a membership that
  the owner of a team, moderation and other requests change; or it carries the id of a
  **sandbox** and runs on that database.
* A **recipe** is shown through a grant with a budget of looks or an escrow in stages, each
  behind the kill switch; a customer's **preferences** are a row and an object in encrypted
  storage that no transaction covers.
* The **browser** asks under an identity and shows what comes back, perhaps after the
  identity, or the cookie it shares with other tabs, has changed.

### What is hard

* *Two databases.* `database.ts` runs SQLite transactions one at a time (`BEGIN
  IMMEDIATE` behind a promise queue). On PostgreSQL transactions run side by side at
  READ COMMITTED and most SELECTs take no lock, so a transaction may act on rows that
  changed since it read them.
* *Reads outside the transaction they guard*: the sweeper's SELECT, every check of a
  deal's handlers (an acceptance even uploads a document in between), kill switches, every
  check of the team's handlers, the five sums of an attestation.
* *Handlers that continue after a provider call*, with unconditional UPDATEs.
* *Webhooks* that repeat, overtake each other, or come after a hold was given up.
* *Instances that stop* between two statements, with a hold, a claim or a half-finished
  catch block left behind, and leases that run out under a worker that is only slow.
* *Counts that lock nothing*: the places of a pickup slot, the units of a launch, the units a
  branch holds when its stock is first configured.
* *Two stores*, a row and an object, written one after the other by requests that overlap.
* *Answers that arrive after the account changed*, and a cookie jar several tabs share.
* *Awaits in the middle of a registry* that other requests read and write meanwhile.

`PROJECT.json` lists each hazard at its line with the properties that cover it.

### What makes each component correct

| Component | Property |
|---|---|
| Orders, stock | what is reserved is what the orders that hold stock add up to; nothing beyond the branch's capacity or the launch's cap; no hold for ever |
| Payments, ledger | an order counts as a sale exactly while one capture and no refund of it is booked |
| Fulfilment, accruals | a royalty waits while its sale is paid, is payable or paid out once it is handed over, and is never payable on a refunded order |
| Settlement | paid out = marked paid, each once; the reserve covers what is owed |
| Ledger, anchors | in order up to its head; a changed row is named; an anchor pins what came before it |
| Reserves, switches | an attestation nothing crossed is exact; a freeze brings settlements to rest |
| Deal | signed means signed by both; a signed contract is final; orders are sold by the signed terms |
| Notifications | one sender at a time; no early surrender; every row settles |
| Scheduled launches | no sweep tells a person twice; whoever waits hears |
| Stock of several branches | oversold only where nothing made two orders wait; a stock row counts what its branch holds, but for named orders |
| Recipe secrecy | no look beyond the budget; stages in order; nothing reopened but by a request older than its closing |
| Memory capsule | every object is the row's, in hand, or named as left behind |
| Accounts, team | one link, one account; a suspension holds; a request is served in a role its user holds |
| Sandboxes | as many as allowed, none forgotten; a visitor never reaches another database |
| Browser | data of another account only where named; changes only as oneself; a demo's books and deal keep to each other |

## 2. Modules

| Module | What it is |
|---|---|
| `DropSale` | abstract: a branch that sells what fits, orders that move along one path |
| `OrderPayments` | the purchase cycle; implements `DropSale` |
| `Reservation` | the order transactions of one launch over several branches, slots and stock rows, statement by statement |
| `RoyaltyAccount` | abstract: a creator's royalties, each paid once, in full, only when due |
| `Settlement` | approval and payment of batches; implements `RoyaltyAccount` |
| `LedgerChain` | the hash chain, its verification, its anchors, and rows changed behind the program's back |
| `Books` | composition of `Settlement` and `LedgerChain` with the kill switch and the attestations |
| `Deal` | offers, contracts, signatures, launch, pause |
| `ExposureBudget` | an exposure grant whose strength decays, and the looks at it |
| `SecretEscrow` | a recipe disclosed in three stages |
| `MemoryCapsule` | a customer's row and its encrypted object |
| `Outbox` | inbox, outbox and the delivery workers |
| `LaunchSchedule` | a scheduled launch, its audience and the sweeps that announce it |
| `Team` | invitations, members, moderation, sessions, authentication |
| `DemoSandbox` | the registry of sandboxes and the requests that run in them |
| `ClientSession` | tabs of a browser, the cookie they share, answers in flight |
| `DemoStore` | the demo the browser plays by itself |
| `MC*` | small instances for TLC |
| `BooksProofs` | theorems about `Settlement`, `LedgerChain` and `Books` |
| `BackgroundProofs` | theorems about `Outbox` and `LaunchSchedule` |
| `VisitorsProofs` | theorems about `ClientSession`, `Team` and `DemoStore` |
| `ProductProofs` | theorems about `ExposureBudget`, `SecretEscrow` and `MemoryCapsule` |
| `OrderPaymentsProofs`, `ReservationProofs`, `DealProofs`, `DemoSandboxProofs` | theorems about the module they are named after |

Definitions marked *Faulty variant* or *Mutant of* are what a plausible bug would make of
the definition below them; the specifications never use them. `PROJECT.json` ("mutants")
pairs each with the property that must notice.

### OrderPayments

`order`, `intent`, `accrual`, `reserved`, `capacity`, `cutoff`, `receipts` are columns
or tables; `ledger` counts entries per order and type; `request` is where the POST
handler stands between two awaits; `elapsed`, `stale` belong to the sweeper; `reading`
holds PostgreSQL webhook transactions between their SELECT and their first UPDATE;
`checkout`, `sent` are the provider.

| Action | Code |
|---|---|
| `CreateOrder` | reservation transaction of `POST /orders` |
| `StoreReference`, `Respond` | the statements after the provider answered |
| `MarkIntentFailed`, `ReleaseFailedOrder` | the catch block, two statements |
| `HandlerCrash` | the instance stops between two of them |
| `DeliverEvent` (SQLite), `BeginEvent`/`CommitEvent`/`AbortEvent` (PostgreSQL) | `applyVerifiedPaymentEventInner` |
| `HoldElapses`, `SelectStaleHolds`, `ExpireHold` | `expireStaleHolds` |
| `FulfilOrder`, `ConfigureStock` | `commerce-ops.ts` |
| `ProviderMoves` | external: what the provider may report |

Choices worth knowing:

* The model covers a LIVE launch with one configured branch, a quantity cap and no
  pickup slot; `Reservation` has the others. The UPDATE of the stock row comes first in the transaction and makes
  other reservations of the branch wait, so the count for the cap is exact on
  PostgreSQL too.
* `Dialect = "sqlite"` lets handler steps and sweeps interleave with whole webhook
  transactions. That is more than a single SQLite process does (its driver is
  synchronous, so few awaits really yield), and every property is therefore checked
  under more interleavings than that deployment has.
* The provider is the union of the repository's two adapters. Both may authorise before they
  capture (`payments.ts:165, 327`); MyFatoorah reports no refund, LemonSqueezy no
  cancellation. A declined page is taken to be closed.
* The receipt of an event lies under the provider's id for it, `EventKey`. Orders of `SharedId`
  are paid through LemonSqueezy, whose id is the event's name and the provider's order
  (`payments.ts:335`): a pending and a paid `order_created` share one, and the second is refused
  for ever (`payments.ts:441`). MyFatoorah's reference is opaque; we take it to differ from
  status to status. `EventIds` gives an event a second id. A shared id only takes deliveries
  away, so the runs of safety properties on PostgreSQL leave `SharedId` empty; the theorems
  hold for any.
* An accepted offer is assumed to exist when a payment is captured (`Deal` shows why a
  launch implies one).

### Reservation

`basket` is whether an order holds its units, `row` is `launch_branch_stock`, `configuring` is
what a request that configures a branch without a row has counted. `buying[o]` is the last
statement of an open order transaction: reserve, count the slot, sum the launch, commit; other
transactions commit in between, as READ COMMITTED lets them. A transaction that updated the
row keeps it locked (`Locked`) until it ends. Transactions that reserve from the same row are
thereby ordered, and the later one counts the earlier one; two that do not are `Blind` to
each other when neither committed before the other counted. `carried`, `sawUnits`, `sawSlot`
are history that says who was ordered and who counted whom; `astray` is the orders a stock row
got wrong when it was inserted: it had not counted them, or counted them for nothing. Payments are left out: an order is
made and given back.

### ExposureBudget, SecretEscrow, MemoryCapsule

A look at a recipe (`look[l]`) passes the switch, takes its time, waits for the grant's row
and is decided by that time, however long it waited; `ReadGrant` is the FOR UPDATE (SQLite
orders the transactions itself). The status is asked for REVOKED alone, so `Allow` may write
ACTIVE over a grant that an impatient, later look has closed. Time is counted in half-lives,
and strength is rounded down where the code rounds to the nearest point.
An advance of an escrow (`clerk[r]`) reads it, uploads the fragment and writes later; the
UNIQUE of the disclosures refuses a stage twice, and the escrow's UPDATE asks nothing.
A PUT or DELETE of a capsule (`call[c]`) reads the row, stores or deletes an object, and
writes the row in the order of the code; it may stop after any of them. An object is a number,
`sealed` its additional data. `strays`, `emptied`, `doubled` are history: what nobody deletes
any more, what was deleted before its row was, what was sealed for a row id that lost.

### Settlement

A sale is captured, handed over and refunded in one step each: that is
`OrderPayments`' business. Amounts are fils; a sum is the size of a set of tokens, one
per fils, which TLC evaluates and the provers can reason about without recursion.
Approval and payment are two steps each, because both read before they write: on SQLite
`MayBegin` keeps everything else out in between, on PostgreSQL nothing does. A row lock
merges the rest: once the UPDATE ran, others wait until COMMIT.
There is one creator because approvals select by creator. Batch statuses that no code
writes (DRAFT, PROCESSING, FAILED) are absent. An idempotent retry is another approval.

### Deal

`offer`, `contract`, `terms`, `signed`, `stage`, `launch`, `product` are columns of one
collaboration; `cleared` stands for the manual items of the launch gate; `request` is
what a handler has checked before it writes. Every handler is a check and a write with
other requests in between. The wait is real on both databases for an acceptance (it
uploads the contract's text) and on PostgreSQL for the others. The acceptance's UPDATE on
PostgreSQL may miss a contract inserted just before its own, hence `known`.
Who sends an offer is abstracted: an administrator may answer any of them.
`overtaken` remembers that an acceptance was written although what it had checked no
longer held; it separates what holds from the finding.

### Outbox

`inbox`, `row`, `attempts`, `due` are columns of a notification and its outbox row;
`claim` and `lease` are the row of `notification_delivery_claims` and whether its minute
is still running; `job[i][n]` is what the worker of instance `i` remembers of row `n`
since its SELECT. `tries` and `overran` are history. Rows share only a worker's tick,
which waits for all of them. A tick takes 25 rows at most in the code; here it takes all.
The claim deletes one that ran out and inserts its own in one transaction, one step.
`FailToDeliver` includes a provider that took the message but did not answer in time.

### LedgerChain

`rows`, `head`, `anchors` are the tables; `reading` and `anchoring` hold what a verification
or an anchor in progress has read; `report` is the last answer; `edit` remembers the change
made behind the program's back. A hash stands for everything it covers, so it *is* the list
of entries up to its row: equal hashes, equal prefixes. An append is one step (the head's
row is locked from its SELECT to COMMIT on PostgreSQL, and SQLite runs one transaction at a
time); a verification reads rows and head in two.
`Alter` changes what a row says, `Delete` removes it, `Rewrite` changes it and computes every
hash up to the head anew. The first two a verification must name, the third only an anchor
can show. `ledgerHashAtSeq` recomputes a prefix from the rows, `AnchorHolds`.

### Books

Adds to `Settlement` what surrounds it. `Posting` appends the row of every step that posts.
`frozen`, `admitted` are the SETTLEMENTS switch and the requests that have passed it:
`Pass` is `assertKillSwitchClear`, and the transaction comes later, so a request admitted
before the freeze still commits after it. `attesting` collects the five reads of
`buildReserveAttestation`; `quiet` is history: no posting and no accrual since the first.
Sums are over the rows of the ledger, by type, while `Reserve` of `Settlement` adds up what
it posted: `AttestsTheBooks` compares the two.

### LaunchSchedule

`launch`, `reminded`, `opened` are columns of one launch, `phase` is where `starts_at` lies.
`sweep[s]` is where the sweep of instance `s` stands, with the time it woke at and the people
it has yet to address; a host's notify (`hosting`) addresses the same people in a request of
its own. `told` counts announcements per person (history). A sweep selects, claims with a
conditional UPDATE, reads the audience and notifies one by one; a pause, an activation, a
join or an unfollow may come between any two of these.
An opening is at most a day old when a sweep announces it: the loop sleeps twenty minutes at
most, so a claim is taken for granted within the day (`SeenOpen`).

### Team

One host, whose owner is not a person of the model. `account`, `member`, `invites`,
`sessions` are the tables; `call[n]` is a handler in flight with what it has read. Reads
outside a transaction are steps of their own, a transaction is one step: acceptance consumes
the link, creates the account and the membership together. A request is `requireAuth`: the
account, the membership, the lookup and the repair of the account's role are four steps;
`held` is the history of roles its user held meanwhile.
What the model shows beside its properties: two invitations sent at the same time may exceed
`MAX_MEMBERS`, and leave two open links for one address; a change of the owner that
read the account before a suspension lifts it (`team.ts:139, 147`); a suspension by moderation of a
member the owner had suspended is the owner's to lift, against `team.ts:145-146`; a role
given by moderation to a member is reverted by the next request's repair.

### DemoSandbox

`box` is the registry, `opened` and `closed` the databases there have been, `job` the
requests and sweeps in flight with the database one of them has opened and not registered.
Every `await` of `create`, `sweep` and `reset` is a step. A sweep destroys by id: one rebuilt
for the same visitor while it runs goes with it, and an exit, a reset or an expiry closes a
database under a request in flight; the visitor's next request rebuilds it. None of this
lets a request out of its own database.

### ClientSession

A session is its number in the order of logins. `tabs` are identity, token, generation,
status and what is shown; `cookie` is the jar they share; `calls` are requests in flight, each
with the identity it was made under and the session the jar held then. Answers come in any
order. `hydrateFromServer` and `loadManageableUsers` look at the generation again before
they show anything; `searchUsers` (`store.ts:751`) and `submitNewProduct` (`store.ts:1000`)
do not, and a late 401 of an earlier session ends the next one (`App.tsx:161`):
`submitNewProduct` stands for `sendOffer` (`store.ts:1235`), which does not look either.
`ForeignDataExplained` lists the two ways in which data of another account is ever shown.

### DemoStore

One collaboration of a demo session: `stage`, `offers`, `contracts`, `drop` (the launch),
`ready` (the items of the gate a person ticks), `papers`, `product`, and `sold`, `orders`,
`accruals`, `batches`. Calls run to completion; a visitor plays every role. The session starts
either after the tasting or with a launch that sells. `Universe` is its royalties as
`buildDemoUniverse` adds them up: some accrue, some may be settled, and the others are in a
batch (`Carrier`) that is approved and locks them or paid out and marks them PAID (`Runs`).
`refundDemoOrder` asks for both statuses, which is what keeps a batch worth its royalties.
Two things break that, and `BooksOfTheDemo` names them. The orders of one launch are taken
out again after the batches were added up (`Gone`, `demoUniverse.ts:624-635`): their batch
keeps its total, whatever its royalties are now (section 6). And pending orders come with a royalty
(`demoUniverse.ts:421-438`): paid, they earn twice, and refunded, they take a royalty out of
the batch that carries it. `launch.unitsSold` starts at a number of its own, not at what the
orders add up to, and no property speaks of it. In the model, too, two pending orders oversell the quantity (`store.ts:1544` does not ask again), and a contract
that was replaced can still be signed.

## 3. Runs

| Run | Shows | Instance |
|---|---|---|
| `orders_safety` | types, stock, refinement of `DropSale` | SQLite, one-step capture, orders of 1 and 2 units, capacities 2 and 3, two ids per event, one order with a shared id |
| `orders_liveness` | holds end, payments are booked | SQLite, two-step capture, cap 2, one order with a shared id |
| `orders_postgres` | ledger and royalties with stale reads | PostgreSQL, two-step capture, capacity 2, one event id |
| `sweeper_race` | finding | PostgreSQL, two-step capture |
| `stale_webhook` | finding | PostgreSQL, one-step capture |
| `settlement_safety` | `Books`: payouts, solvency, refinement of `RoyaltyAccount`; the ledger in order, false alarms explained, tampering found, anchors; attestations; the freeze | SQLite, 3 orders of which 2 are sold, 2 batches, 1 anchor, 1 tampered row |
| `payout_race` | finding | PostgreSQL |
| `stuck_batch` | finding | SQLite |
| `product_safety` | `Deal`: signatures, launches, terms, finality. `Reservation`: overselling, stock rows. `ExposureBudget`: the budget, closed grants. `SecretEscrow`: stages. `MemoryCapsule`: objects | 3 offers, 3 contracts, 2 requests; 3 orders of 1, 1 and 2 units, 2 branches, a slot of 1, a cap of 3, capacities 1 and 2; 2 looks, strength 16, floor 3, decay 2, 2 half-lives; 2 requests; 2 requests, 4 objects |
| `renegotiation` | finding | 2 offers, 2 contracts, 2 requests |
| `outbox_delivery` | `Outbox`: one sender, no early surrender, every row settles. `LaunchSchedule`: announced once, waiters are told | 2 instances, 1 crash; 1 notification with 3 attempts; 1 person, 2 activations |
| `visitors` | `ClientSession`, `DemoStore`, `Team`, `DemoSandbox`: their nine properties | 2 tabs, 2 accounts, 2 logins, 2 calls; 2 new orders and 6 of the universe in 3 batches, 2 creators, 2 offers; 1 address, 2 roles, 2 links, 2 handlers; 3 visitors, 2 sandboxes, 3 databases, 2 jobs |

Four runs check parts that do not act on each other: a behaviour draws a `scope` at its
start and exercises one of them, so that states add up instead of multiplying. In `MCBooks`
the parts are the switch, the evidence of the ledger and the attestations, each around the
settlements; in `MCBackground` the two loops of an instance; in `MCVisitors` the four
modules about visitors; in `MCProduct` the five about one product.

Why the bounds are enough to be interesting:

* *Orders*: two orders fill the larger branch exactly and overrun the smaller, so a
  reservation is refused for capacity, for cutoff and for the cap; capacity can change
  under a reservation; a second event id makes repeated events of one status distinct
  from redelivered ones. With two ids on PostgreSQL one payment can be booked twice
  (two transactions read the same status), which needs a provider that reports one
  capture under two ids; the adapters do not, so that run keeps one (section 7).
* *Settlement*: two sales and two batches let one order be locked in a first batch and one
  in a second, or be refunded in either; royalties include 0 and prices barely exceed
  them, which is where solvency is tight. Two sales leave up to six rows in the ledger: a
  tampered row has rows before and after it, and one anchor lies before, at or after it.
* *Deal*: two requests are enough for every pair of handlers to overlap; three offers
  and contracts let one be superseded, one signed and one opened afterwards. Requests
  are interchangeable: symmetry.
* *Reservation*: two orders share a branch, its stock row (or none) and a slot for one; the third
  is of the other branch, and with it the launch is oversold. A smaller and a larger capacity
  make a row fill up, be resized and be refused.
* *Exposure, escrow, capsule*: two requests overlap in every way; the budget allows a few looks
  at once and fewer after a half-life, and the expiry is reached; four objects are two puts
  and their replacements.
* *Outbox*: an owner that is slow or stops and another instance meet on one row; three
  attempts make a lost count visible. Notifications do not interact except through the tick.
* *LaunchSchedule*: the second activation is what a sweep that still holds the first one
  meets; two instances are two sweeps with different lists. People do not interact. An
  instance stops or the launch is activated twice, not both.
* *Team*: two handlers are enough for every pair to overlap, two links for the same address
  for a race of acceptances, of which the first may run out; handlers and roles are
  interchangeable.
* *DemoSandbox*: three visitors for two places, two jobs for every pair of requests or a
  request and a sweep; three databases let one id be rebuilt. Ids are signed in a fixed order,
  which loses nothing: they differ in nothing else.
* *ClientSession*: an account that searches and one that submits, two tabs, two logins; a tab
  goes through two identities and shows one item at a time, each of which is judged alone.
* *DemoStore*: two offers let a deal be negotiated twice; two new orders of up to two units. The
  universe has a royalty either creator may settle, one in an approved batch, a paid batch with
  a royalty of a paid and one of a pending order, and a paid batch that lost its only order.
  The deal and the sale take turns, since an order reads the launch's status only.

Where a system may come to rest (every order closed, every batch used) the
configuration says `CHECK_DEADLOCK FALSE`; the others are checked for deadlock.

## 4. Fairness

`orders_liveness`, `settlement_safety` and `outbox_delivery` use it.

* *Orders* (`FairSpec`): a request handler runs on unless its instance stops
  (`HandlerCrash` has no fairness and disables the handler's steps); fifteen minutes pass;
  the sweeper's loop is restarted by `startAdaptiveLoop` after every task, also one that
  threw; the provider repeats an event until it is acknowledged. Customers, the
  establishment and the provider's decisions owe nothing. All of it is weak fairness.
* *Outbox* (`FairSpec`): the same loop drives a worker's ticks and steps, provider calls
  are aborted after twelve seconds (`delivery.ts:36, 54`), time passes over leases and
  delays. Weak fairness per instance and row; users and crashes have none.

* *Books* (`BooksFairness`): a request that has passed the switch goes on to its answer, one
  way or another. Nobody is obliged to make one, nor to engage the switch; `FreezeTakesHold`
  speaks of a freeze that lasts.
* *LaunchSchedule* (`ScheduleFairness`): `startAdaptiveLoop` restarts the sweep whatever a
  task threw, so every instance's sweep goes on; time reaches the opening. An instance that
  stops is replaced, but what it had claimed is lost: `WaitersAreTold` names that case. All
  of it is weak fairness.

`HoldsEnd` excludes, by name, two cases in which an order does stay unpaid for ever:
an authorised payment that is never captured, and an instance that stops between the two
statements of the catch block (`orders.ts:272-273`).
`PaymentsBooked` excludes a payment whose intent was given up first: releasing a hold
cancels nothing at the provider, a customer still on its page pays, and the PAID event is an
illegal transition from CANCELLED and refused for ever (`payments.ts:410-411, 460`). It also
excludes an order whose authorisation was received under the id of its capture (`KeyTaken`,
section 6).

## 5. Proofs

All theorems hold for any constants that satisfy the named assumptions (finite sets of
orders, positive units, royalties not above prices, ...), without fairness.

| Theorem | Assumes | Inductive invariant |
|---|---|---|
| `OrderPayments`: `TypeCorrect` | nothing | `TypeOK` itself |
| `LedgerBacksEverySale`, `RoyaltyOnDeliveredSales` | SQLite, or one event per status and order (`OneEventId`) | `LedgerInv`, `ReceiptsInv` |
| `StockNeverDrifts`, `CycleImplementsSale`, `NothingOversold` | SQLite, `~TwoStepCapture` | `StockInv`, `CapInv` |
| `Settlement`: `TypeCorrect` | nothing | `TypeOK` itself |
| `PayoutsNeverDiverge` | SQLite | `PayoutInv` |
| `BooksStaySolvent`, `SettlementImplementsAccount` | SQLite | `BooksInv`, `PayoutInv` |
| `Deal`: `TypeCorrect` | nothing | `RecordInv` |
| `SignaturesAlwaysStand`, `SignedContractsFinal` | nothing | `SignInv` |
| `LaunchesAlwaysSigned` | nothing | `SaleInv` |
| `SignedTermsAlwaysSold` | nothing | `TermsInv` |
| `Outbox`: `TypeCorrect` | nothing | `RowInv` |
| `OneSenderAtATime` | nothing | `HolderInv` |
| `NeverGivenUpEarly` | nothing | `GiveUpInv` |
| `Reservation`: `StockRowsStayTrue` | finitely many orders, positive sizes | `StockInv` |
| `OversoldOnlyByTheBlind` | the same | `ReservationInv` |
| `ExposureBudget`: `BudgetNeverOverdrawn` | the constants' ranges | `ExposureInv` |
| `ClosedForGood` (action property) | the same | `ExposureInv`, `ShutForCause` |
| `SecretEscrow`: `StagesShownAsDisclosed` | nothing | `EscrowInv` |
| `MemoryCapsule`: `StorageIsAccounted` | nothing | `CapsuleInv` |
| `LedgerChain`: `LedgerStaysIntact`, `FalseAlarmsAreExplained`, `TamperingIsFound`, `AnchorsPin` | nothing | `ChainInv` |
| `Books`: `BooksSettle`, `BooksKeepTheLedger` (refinements) | rows settlement posts are rows the ledger admits | `TotalsAreSums` |
| `AttestationsAreTrue` (action property) | the same | `AttestInv` |
| `BooksKeepTheirPromises` | the same; SQLite for its second half | by refinement |
| `LaunchSchedule`: `ToldAtMostOnce` | finitely many servers | `ScheduleInv` |
| `ClientSession`: `ForeignDataIsExplained`, `TabsActAsThemselves` | nothing | `SessionInv` |
| `Team`: `OneLinkMakesOneAccount`, `ServedWithARoleHeld` | nothing | `TeamInv` |
| `SuspensionIsTheirs` (action property) | nothing | `TeamShape` |
| `DemoStore`: `OneOfferIsOpen` | nothing | `DealInv` |
| `DemoBooksAddUp` | new, seeded and removed orders are different; `Carrier` names a batch or none | `SaleInv` |
| `DemoSandbox`: `SandboxesAreAccounted`, `VisitorsAreIsolated` | finitely many ids | `SandboxInv` |

Why the strengthenings are needed:

* `LedgerInv` ties an order's ledger counts, accrual and status to its *intent*, since
  the intent alone decides which events still apply: an order whose intent may still
  reach PAID has no capture booked. The handler's unconditional UPDATEs are harmless only
  because no event precedes the page it opens; the invariant says which intents can meet
  which handler step. On PostgreSQL an event commits on a status others have changed since
  it was read, so the intent says nothing any more; `ReceiptsInv` ties the counts to the
  *receipts* instead: money is booked exactly when its event was received, and what an open
  transaction read of the money is still so. It needs one event per status of an order: with
  two ids TLC books a payment twice on PostgreSQL, so the theorems keep that hypothesis.
* `StockInv` adds that nobody loses a hold to the sweeper and is paid afterwards. It is
  false with two-step capture, where the sweeper may take the hold of an order that is
  authorised meanwhile: the assumption is exactly the finding `sweeper_race`.
* `PayoutInv` says that an open payment's verified sum is still the sum of what its batch
  holds, which one-at-a-time transactions guarantee and READ COMMITTED does not
  (`payout_race`). `BooksInv` books every sale at its price.
* `TermsInv`: as long as no acceptance was overtaken, at most the newest offer is open,
  every open or signed contract states the accepted offer that prices orders, and every
  contract that exists is known to an acceptance whose checks still hold.
* `HolderInv`: until a lease ran out under its owner, whoever works on a row holds a
  claim that is still running. `GiveUpInv`: no count, a pending row's or one a worker
  remembers, is ahead of the attempts that really failed.
* `ChainInv`: an untouched ledger has every row's hash spell out its prefix, and so has
  every anchor; from the change on, what is before the row still follows and the row itself does
  not (altered), or the row after the gap is one too far (deleted); an anchor that covered
  the row misses it. All of it survives any number of appends, because an append touches
  neither the rows before it nor the anchors.
* `StockInv` of `Reservation`: whoever has updated a row and is not committed has it alone and
  the row has room for it; a row about to be inserted has counted orders of its branch, and
  nothing goes astray before it is an order. `ReservationInv` adds what an open transaction has counted: it left room for
  the order, and contains every committed order of the same row. Overselling is then claimed
  of every subset of the orders that hold, because a release leaves fewer of them: whichever
  order of a heavy subset committed last had not counted another of it. The sum of a set of
  orders is the size of a set of tokens, so that no induction is needed.
* `AttestInv`: while no row was changed behind the program's back, the rows of each type,
  added up one by one, come to what settlement posted under it; and as long as nothing
  crossed an attestation, each number it has read is still the one it would read now. The
  rows come to that because a posting appends one row and moves one sum, by the same
  amount; what a batch pays is the royalties of some set of orders (`TotalsAreSums`), which
  is why the ledger admits the row.
* `ShutForCause`: a grant that is used up had less than the floor left when it closed, one
  that expired was past its deadline; a later look finds no more, because strength never
  comes back. `Faded` is recursive, and an induction principle takes an operator, which the
  provers cannot instantiate; so each fact about all hours (that `Faded` exists and obeys
  its definition, that it never grows) is proved from the absence of a first hour that
  refutes it (`FirstOf`, from the well-foundedness of the naturals).
* `ScheduleInv`: what a person has been told, what a sweep that claimed it is still to tell
  them, and what somebody may yet claim are together no more than the times the launch was
  scheduled (activated, for reminders). An instance that stops only takes from the sum.
* `SessionInv`: every answer awaited, and every item shown, carries the generation and the
  account its tab had when it asked, and a session token names the account that logged in
  with it for good; a tab keeps its account as long as its generation.
* `TeamInv`: whoever is a member has used up one link and has an account; whoever has used up
  a link cannot use up another because acceptance asks for an address without an account and
  nothing deletes one; what a request remembers of a membership was held at a moment of that
  request.
* `DealInv`: an offer is open only while it is the last, and a contract's offer is accepted,
  which no later offer undoes. `SaleInv`: an order the visitor placed has its royalty exactly
  while paid; a royalty of the universe is locked or paid exactly when a batch carries it, so
  that no refund of a paid order reaches one in a batch; and a batch nothing was taken from
  is worth what it carries until a pending order of the universe is paid and refunded.
* `SandboxInv`: a database that was opened is in one hand or registered for its id, never
  both; a request that may still open one has an id; nothing closed is registered.

Refinements (`CycleImplementsSale`, `SettlementImplementsAccount`) are proved step by
step: each action is one abstract step or a stutter. In `Settlement` approval is a
stutter (a royalty is due before and after it is locked).

The type invariants of `Deal`, `Settlement`, `Outbox`, `Reservation`, `ExposureBudget`,
`SecretEscrow` and `MemoryCapsule` are part of these inductive invariants and are listed in no
run; `orders_safety` checks the one of `OrderPayments`.

Only model-checked: liveness (`HoldsEnd`, `PaymentsBooked`, `RowsSettle`, `FreezeTakesHold`,
`WaitersAreTold`) and the findings. Every other property a passing run checks is a theorem.
Proofs about ENABLED and fairness are not attempted.

## 6. Where code and documents disagree

Each is a run that TLC ends with a counterexample; `PROJECT.json` quotes both sides.

| Run | What happens |
|---|---|
| `sweeper_race` | a payment authorised between the sweep's SELECT and its release loses its stock (`checkout.ts:103` says it keeps it) |
| `stale_webhook` | a PAID webhook on PostgreSQL reads the intent, the catch block of the order's handler sets it to FAILED, and the webhook moves it from FAILED to PAID (`SECURITY_MODEL.md:31`) |
| `payout_race` | a refund between SELECT and UPDATE makes a payout larger than what was locked (`domain.ts:94-96`) |
| `stuck_batch` | a refused settlement is not cancelled, and can never be paid (`domain.ts:983`) |
| `renegotiation` | an acceptance that overlaps the signing of another contract renegotiates the signed deal (`domain.ts:877`) |

`Deal` also contains a launch that goes on sale after its product was paused
(`BeginActivate`, `PauseProduct`, `CommitActivate`), on PostgreSQL only;
`review-fixes.test.ts:41` says it cannot be.

Smaller divergences, in the models without a run of their own:

* A hold that ran out is released "without any deduction" (`commerce-ops.ts:97`), but nothing
  is cancelled at the provider and a late payment stays there, see `PaymentsBooked`.
* "AUTHORIZED = provider checkout completed, capture webhook pending" (`orders.test.ts:26`), but
  through LemonSqueezy the capture of a payment that was pending never comes through. The two
  `order_created` events have one id (`payments.ts:335`), the second is refused as
  WEBHOOK_REPLAY_PAYLOAD_MISMATCH whenever it is delivered (`payments.ts:441`), the intent stays
  AUTHORIZED, the money with the provider, and the hold, which the sweep spares, for ever
  (`KeyTaken` of `PaymentsBooked`).
* The stock row "can never drift from the orders it backs" (`checkout.ts:5-6`) and "a branch
  configured mid-drop starts with the orders it already holds" (`commerce-ops.ts:363`). The row is
  counted and inserted in two statements of no transaction (`commerce-ops.ts:364-367`): an order
  that found no row and commits in between is in neither, one released in between stays
  counted, and nothing ever corrects the row. `StockRowsTrue` names these orders (`astray`): a
  branch is sold beyond its capacity by no more than they weigh, and a row that has none is
  exact. How far a row may say too much is not bounded by them: a release whose units the row
  has not is skipped (`reserved_units >= ?`, `checkout.ts:95`), and a large order then stays
  counted. The instance of `product_safety` reaches rows that drift both ways and a branch sold
  beyond its capacity.
* "The creator's statement and the admin's settlement board tell the same story"
  (`demoUniverse.ts:551-552`), but the universe takes the orders of one launch out again after
  it added the batches up (`demoUniverse.ts:624-635`). With the launches it builds, the paid
  batch of one creator keeps the total of three royalties that are no longer there
  (`Gone` of `BooksOfTheDemo`).
* "Not the owner's to lift" (`team.ts:145-146`): a suspension by the platform is lifted by an owner
  whose change was decided before it, or who had suspended the member too (`SuspensionHolds`
  names both).
* "Physical deletion on revoke" (`domain.ts:971`): a PUT that overlaps a DELETE or another PUT
  leaves its object in storage with no row that points to it, and so does a request that stops
  before its last deletion (`strays`). Two first PUTs leave a row whose object was sealed for
  the other id and answers `SECURE_OBJECT_AAD_MISMATCH`; a DELETE after a DELETE fails, since
  the empty key is no object key.
* A look that waited longest reopens a grant that closed meanwhile; TEMP_GRANTS revokes grants
  that are ACTIVE at that moment and leaves such a one to be reopened (`kill-switch.ts:51`).
* An advance in flight when the creator revokes an escrow makes it ACTIVE again (`domain.ts:958`).
* "A late response from a previous account is discarded" (`store.ts:120`), except by
  `searchUsers` and `submitNewProduct`, for which the model has an action, by the live
  `sendOffer` (`store.ts:1235`), which does what `submitNewProduct` does, and by the
  notifications of the bar (`Navbar.tsx:148-158`), which are no data of the store.

## 7. Not modelled

* Payments of orders over several branches: `Reservation` has the branches and `OrderPayments`
  the payments, since several of either multiply the states of the other beyond TLC. Launches
  that are not LIVE or not open yet; delivery fees.
* Two events of one status under two ids on PostgreSQL (`payments.ts:451`): LemonSqueezy
  reports a capture under one id, and MyFatoorah's reference is taken to be the event's.
* Readers on SQLite's one connection may see rows of a transaction that is still open; the
  models let a transaction show only when it commits.
* Recipe access before its approval, canaries, lineage, threshold secret sharing, sealed
  compute: single conditional updates, and computation over stored rows. The expiry of a
  memory capsule, which only its GET looks at.
* The market of kitchen capacity: an insert, and a booking that takes an open slot by one
  conditional update. (Its fifteen-minute hold is never released by any code.)
* The idempotency table itself; its gap (two overlapping attempts both run) is.
* The kill switch WEBHOOKS; password reset, MFA and PACI.
* Showcase campaigns, reviews, the ecosystem, analytics: independent rows and reads.
* Notification recipients, preferences and digests; push subscriptions.
* Database errors other than conflicts and rollbacks; deadlock detection is seen only
  as the victim's rollback and a later retry.
* Signature checks, parsing, encryption, hashing, formatting: no state of their own.
* React components, types, seed data and the database schema, which are more than half of the
  implementation's lines: nothing in them moves, so there is nothing to model.

## 8. Plan

Done: everything of section 2. What is left, in order of worth:

1. **Per-branch refinement**: `Reservation` as an implementation of a `DropSale` per stock row.
2. **Accounts**: reset tokens and MFA codes, each used once.
