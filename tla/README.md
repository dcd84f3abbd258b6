# A TLA+ model of the Khepree platform

Khepree sells desktop software: a TypeScript monorepo (`apps/` holds five Next.js
applications, `packages/` the domain services, PostgreSQL through Drizzle under all of
them). This directory is a formal model of the parts of it where mistakes cost money or
access: the path of a payment from the checkout, through the webhook inbox, the commerce
transactions and the transactional outbox, to the customer's entitlement and licence; the
devices and sessions that use it; the wallet of a reseller; and the publishing side: the
versions of a page, what a product sells, announcements and the clients that poll them, the
packages of a release and the clients that install it.

- Each module models the code of one component; `PROJECT.json` maps every definition to
  the lines it stands for.
- The `.cfg` files check the modules on small instances with TLC
  (`tlc -workers 2 -config X.cfg M`).
- The `...Proofs` modules prove the most important results for every instance with TLAPS
  (`tlapm M.tla`).

Contents: 1 the system, 2 the modules, 3 the runs, 4 bounds, 5 fairness, 6 the proofs,
7 what the code does otherwise than expected, 8 what is not modelled, 9 plan.

## 1. The system

### 1.1 Components

| Component | State it keeps | Operations that change it | What makes it correct |
|---|---|---|---|
| commerce (`packages/commerce/src/service.ts`) | `orders`, `payments`, `refunds`, `subscriptions`, `webhook_events`, rows of `outbox_events` | create an order, start a checkout, confirm / fail / void a payment, cancel, request and confirm refunds, process a webhook | the statuses of an order, its payment, its refunds and its outbox rows never contradict each other; refunds fit in the payment; each order keeps the promise of `OrderContract` |
| payment providers (`provider.ts`, `sepay.ts`) | external: charges, returned money, webhooks to deliver | capture, decline, return, report a return once more, reverse | none: an environment with few rules |
| webhook inbox (`claimWebhookEvent`, `markWebhookProcessed`, the payments route) | `webhook_events` by (provider, event id) | claim, apply, commit, answer | an event is applied exactly once, and acknowledged only when it can no longer be lost |
| outbox dispatcher (`packages/events`) | `outbox_events.status`, `attempts`, `lockedAt`; each dispatcher's batch | reclaim stale locks, claim a batch, run handlers, mark | at-least-once delivery to every handler; critical events are never given up |
| entitlements and licence keys (`packages/entitlement`, `packages/licensing/src/order-handlers.ts`, the trial of `apps/api`) | `entitlements`, `licenses` | grant, provision, suspend (by the order handlers); trial, renew, revoke, expire on read, reissue (by desktops, partners and administration) | access follows the orders: bought, taken back when the order is; one open row per product; no paid time lost; a licence agrees with its row |
| licensing: devices and seats (`packages/licensing/src/service.ts`) | `devices`, `activations`, `license_leases`, `device_removal_events` | activate, refresh a lease, deactivate, remove, block | no more seats than the licence has; a device out of service holds none; the transfer quota |
| reseller (`packages/reseller`) | `wallets`, `wallet_transactions`, `commissions`, `partner_issues` | credit, charge, issue, renew; record, approve, release, pay and reverse a commission | the balance is the sum of the ledger and not negative; renewals are paid for; nothing is paid twice or for a refunded order |
| desktop-auth (`packages/desktop-auth`) | `desktop_auth_codes`, `desktop_sessions`, nonces in Redis | exchange a code, refresh, heartbeat, log out | a code and a signed request are used once; reuse of a refresh token revokes the session, for good |
| content (`packages/catalog/src/content`) | `content_entries`, `content_versions`, objects | draft, fork, edit, publish, archive | each version has its own body; one version is published; readers keep a page |
| announcements (`packages/catalog/src/announcement`, the desktop routes of `apps/api`) | `system_announcements`, translations, `announcement_receipts` | draft, edit, clone, publish, expire, archive, announce a release; list by page, mark read, dismiss | one announcement per release; what is public is complete and stays as it is; a client misses none and is shown none twice |
| products, plans and prices (`packages/catalog/src/product`) | `products`, `plans`, `prices` | save and publish in the studio; create, switch, delete on the administrator's pages; read the offer at checkout | what is ordered was entered together; one active price per interval; what was ordered is not deleted |
| releases (`packages/catalog/src/release`, `media`) | `software_releases`, `release_artifacts`, `media_assets` | add an artifact, publish, delete media | a published release is complete and was verified |
| desktop updates (`apps/api` routes, `packages/catalog/src/release`, `download`) | tickets and presigned addresses in the hands of clients | offer a release, authorize a download, serve the Squirrel feed | no client is left below what updates can reach; access ends with the entitlement |
| rate limits, worker heartbeat (`packages/security`) | counters and timestamps in memory or Redis | hit, reset, beat | a bound per window |
| platform (`packages/platform`) | none | wires the packages: which handlers run for which event, in which order | the order of the handlers |
| apps, sdk, ui, email, storage, config, auth, validation, types | none that the domain depends on | pages, routes, adapters | - |

### 1.2 How they interact

```
 customer/admin --calls--> CommerceService --one transaction--> orders, payments, refunds,
                                ^                               subscriptions, outbox_events
 provider --webhooks--> route --+                                       |
   (any order, repeated)        |                                       | claimBatch
   webhook_events: one row per (provider, event id)                     v
                                                     dispatchers (API process after each
                                                     webhook, and the worker), in batches
                                                                        |
                              order.paid:  entitlement -> licensing -> partner
                              order.refunded / order.voided: entitlement -> partner
                                                                        |
                                                     entitlements, licenses, commissions
                                                       |            |          |
   desktop: updates, announcements <- releases, announcements <- administrators -> plans, prices
   desktop: code -> session -> activate/refresh -> access? -> seats, leases    wallet <- partner:
                                                                               issue, renew
```

Two boundaries carry the correctness argument. The first is the database transaction: a
commerce call changes statuses and writes the outbox row that announces them in one
transaction. The second is the outbox: what was committed reaches every handler at least
once, in no particular order between rows, possibly several times.

### 1.3 Which behaviours are hard

- Webhooks and calls for one order come in any order: a capture after a cancellation, a
  failure after a success, a refund reported twice.
- `service.ts` reads with plain SELECTs and writes by id at the READ COMMITTED level, so
  overlapping transactions act on stale statuses and stale sums.
- `provider.refund()` is called inside the transaction: money moves even when the
  transaction rolls back or returns early.
- Several deliveries of one webhook overlap; a unique violation dooms a PostgreSQL
  transaction.
- Dispatchers crash with rows in hand, or stay alive longer than their locks.
- Handlers are retried from the first one; a row that failed backs off and is overtaken by
  the rows written after it.
- Reversals read and write in separate statements, outside the lock that grants take.
- Activation counts seats under a lock that deactivation, removal and blocking do not take.
- A refresh of a desktop session checks five things one after the other in two stores,
  then rotates; requests are replayed, answers are lost.
- A renewal is three transactions and a compensation; a payout two.
- Reading entitlements writes: it expires rows that were read earlier.
- Bodies are uploaded outside transactions, to keys made of a version number.
- The catalog has hardly any transactions: a save of the studio, a publication of an
  announcement, the attachment of a package are statements one after the other, on rows
  chosen earlier and written by id.
- A desktop client pages through a list that changes under it, and its acknowledgements
  overtake the deliveries they answer.
- A client updates along a chain of releases whose floors it cannot see, with tickets that
  outlive the entitlement they were given for.

The list, at its lines, is `PROJECT.json` `"hazards"`; each names the properties that would
catch it going wrong, or says why none does yet.

## 2. The modules

| Module | Models | Used by |
|---|---|---|
| `OrderStates` | the status enums and the two transition tables | Commerce, CommerceRace |
| `OrderContract` | abstract: what the rest of the platform is promised of an order | Commerce implements it; Fulfilment runs on it |
| `Commerce` | `CommerceService`, each transaction one action, and the provider around it | MCCommerce, CommerceProofs |
| `CommerceRace` | overlapping transactions on one order: reads one by one, then the write | MCCommerceRace, TransactionProofs |
| `WebhookInbox` | overlapping deliveries of one webhook event on PostgreSQL | MCWebhookInbox, TransactionProofs |
| `Delivery` | abstract: at-least-once, in-order delivery of a row to its handlers | Outbox implements it |
| `Outbox` | outbox rows and dispatchers | MCEvents, EventsProofs |
| `Fulfilment` | the order handlers of entitlement and licensing, fed by any `OrderContract` through an outbox that is as weak as `Outbox` allows | MCEvents, EventsProofs |
| `Seats` | devices and seats of one account | MCSeats, SeatsProofs |
| `DesktopSession` | one desktop sign-in, from its code to the end of its session | MCDesktopSession, DesktopProofs |
| `PartnerWallet` | one partner's wallet, its issues and renewals, and one commission | MCPartnerWallet, WalletProofs |
| `Entitlement` | the entitlement rows of one principal and one product, with a clock | MCEntitlement, EntitlementProofs |
| `ContentVersions` | the versions of one page in one locale, and the object store | MCPublishing, CatalogProofs |
| `Announcements` | the announcements administrators write and releases bring | MCPublishing, AnnouncementFeed, CatalogProofs |
| `AnnouncementFeed` | desktop clients that poll those announcements (extends `Announcements`) | MCClients, CatalogProofs |
| `ProductOffers` | plans and prices of one product, and the checkouts that read them | MCProducts, TransactionProofs |
| `ReleaseArtifacts` | the packages of one release | MCProducts, CatalogProofs |
| `DesktopUpdates` | releases of one product and the clients that install them | MCClients, DesktopProofs |
| `CommerceProofs` | theorems about `Commerce` | - |
| `TransactionProofs` | theorems about `CommerceRace`, `WebhookInbox`, `ProductOffers` | - |
| `EventsProofs` | theorems about `Outbox`, `Fulfilment` | - |
| `SeatsProofs`, `WalletProofs`, `EntitlementProofs` | theorems about `Seats`, `PartnerWallet`, `Entitlement` | - |
| `DesktopProofs` | theorems about `DesktopSession`, `DesktopUpdates` | - |
| `CatalogProofs` | theorems about `Announcements`, `AnnouncementFeed`, `ContentVersions`, `ReleaseArtifacts` | - |

The composition is by contract, which keeps every state space small: `Commerce` is shown
to implement `OrderContract`, and `Fulfilment` is checked over `OrderContract` itself, so
its results hold for the commerce service. `Fulfilment` takes from `Outbox` what the
latter shows while locks are respected: rows are handled at least once, one dispatcher at
a time, in any order. `Fulfilment` follows several orders and abstracts dates to counted
terms; `Entitlement` follows one product's rows with dates and with every other writer,
and does not know orders. `DesktopSession` takes the device status from `Seats` as a
variable that may change at any moment, and `Seats` leaves open whether `Entitlement`
gives access. `AnnouncementFeed` composes with `Announcements` directly: its next-state
relation has every step of the administrators, so what clients see is checked against every
way a list can change. `DesktopUpdates` takes from `ReleaseArtifacts` that a published
release is complete.

`MCEvents`, `MCProducts`, `MCPublishing` and `MCClients` each extend two components and check
them in one run. The two share no variable and no process, so a behaviour of both is a
behaviour of each, interleaved, and the product of their states says nothing that the two do
not say alone: a variable `part`, chosen at the start, says which of them moves. In
`MCProducts` and `MCClients` it also chooses between two bounds on the same component
(`OneOffer` or `OneRequest`; a clock for tickets or a chain of floors). Modules that are
extended together have disjoint names, which is why some names are more specific than those of
the code (`editing` and `working` for what a request is doing, `ClockTicks` beside `Tick`).

The modules of one aggregate each (`Seats` to `ReleaseArtifacts`) have one shape.
`op[p]` (`editing[p]`, `working[p]`) is the program counter and the local variables of
request `p`: what it read is
kept there until it is used. A step is one statement or one transaction; between two steps
any other request may move, and `Crash`, `Lose`, `Stop` (`EditStops`, `WorkStops`) may end the request. A lock is a
guard (`Unlocked`) over the requests that hold it. Some variables are history: they record
that operations overlapped in a way the code does not defend against (`crossed`,
`troubled`, `disturbed`, `torn`, `cut`, `late`, `missed`), and the properties say exactly that nothing goes wrong
otherwise.

An operator marked "faulty" is not part of any specification. It is a plausible mistake
in the definition that follows it (a dropped guard, a wrong flag), kept because some
property must refute it: `PROJECT.json` `"mutants"` pairs each property with one.

### 2.1 Commerce

State. `order[o]` and `payment[o]` are the two status columns ("none" before the row
exists; an order has one payment, because `markPaymentPending` runs once per order).
`refunded[o]` is the sum of the refund rows with status `succeeded`, `held[o]` of those
with status `manual_required`, which are also kept as rows in `manual`, because finance
confirms them one by one. `refIdUsed[o]` says whether a refund row already carries the id
the provider returns (some adapters return the same id each time, and the column is
unique). `outbox[o]` has a flag for the paid and the voided rows, whose `publicId` is a
function of the order, and counters for refund rows, whose `publicId` is a function of the
refund. `sub[o]` is the subscription created for the order. `processed` and `sent` are the
webhook inbox and what the provider has sent; `charge`, `returned` and `told` are the
provider's own view: the money that went back, and the money it reported as gone back, where a
refund that is reported twice counts twice.

Actions. One per public method, plus one per kind of webhook. What several of them share
(`confirmPaymentOn`, `failPaymentOn`, `applyVoidOn`, `settleSuccessfulRefund`,
`applyLocalRefund`) are the operators `Confirm`, `Fail`, `Void`, `Settle`, `RecordRefund`.
A call that throws rolls back and is no step; the exception is a refund, where
`provider.refund()` has moved money before the rollback: `RequestRefundUnrecorded`.

A refund webhook is either the first report of money the provider returned on its own
(`ProviderReturns`) or one more report of money that had gone back before
(`ProviderReports`): the event of a refund this service asked for, whether its row was
written or not, or a second event of one refund. The service cannot tell them apart. It
books each under its own event id, so the ledger may exceed the money (7.22).

A partial refund asked of the provider while the order is already `partially_refunded` is
one of those: `applyLocalRefund` returns early (section 7).

### 2.2 CommerceRace

One order and one payment after the checkout. A transaction is its SELECTs, one step each
in the order of the code, and one step that writes what it decided on them and commits.
Writing is one step because the first row written is locked until COMMIT and no one else
sees the writes before. `Abort` covers throws, early returns, deadlock victims and lost
connections. The refunds that succeeded are a sum, those an operator has still to carry out
are rows (`manual`): `CommitManualRefund` records one, `BeginConfirmRefund` to
`CommitConfirmRefund` are its confirmation, which reads the refund before the payment, the
order and the sum. The outbox is the set of kinds announced, where the unique `publicId` of
the paid and voided rows, and of a refund's row, makes a second insertion fail.

### 2.3 WebhookInbox

`at[d]` is where delivery `d` stands: the transaction is open, has claimed the key, is
doomed by a unique violation, has applied the event, has committed. The INSERT of a key
that an open transaction holds waits. `StorePayment` is the commit of
`markPaymentPending`, which a webhook may overtake. `answers` remembers each answer with
what the claim had found.

### 2.4 Outbox

`status` and `attempts` are columns; `batch[d]`, `seen[d]`, `working[d]`, `ran[d]` are the
local variables of a dispatcher: the rows it claimed, the `attempts` it read with them, the
row in hand and the handlers done. `reached` and `overrun` are history variables: how far
the handlers of a row ever got, and whether a stale-lock sweep ever took a row from a
dispatcher that was still at work. Time is abstracted: a PENDING row may be claimed at any
later moment (backoff only delays), and a PROCESSING row may be found stale at any moment,
because `lockedAt` is set once for the batch and handlers take as long as they take.

### 2.5 Fulfilment

Orders of one customer for one product. `phase` and `announced` are those of
`OrderContract`; `handled` and `done` are the handling of each outbox row; `ent` is the one
entitlement row of customer and product with the order its metadata names and the terms
granted; `licence` is `licenses.status`. `reversePurchasedAccess` looks for the
entitlement in one statement (`FindAccess`, remembered in `matched`) and suspends it by id
in a later one (`Suspend`). `overtaken` is a history variable: orders with a reversal that
was handled while the paid row was still owed.

### 2.6 Seats

`status[d]` and `removed` are columns of `devices`, `seats[l]` the active activations of
licence `l`, `cooling` and `used` what `assertTransferCooldown` and `assertTransferQuota`
compute from timestamps; `CoolDown` and `RemovalLeavesWindow` are the passing of time.
Activation reads the device (`ActivateRead`), takes the licence's lock and counts
(`ActivateLock`), writes and commits (`ActivateCommit`). Deactivation, removal and
blocking read the device and then write one activation at a time (`Unseat`) and the device
at the end, with no lock. `blockDevice` lists the activations once and writes them by id,
so a row inserted later escapes it (`NotListed`). A removal with `bypassTransferQuota` (kind
`bypass`) takes the same steps without the quota and is not counted in it; no caller in the
repository passes the flag, and a removal by another actor than the owner, which is not
counted either, is one of its behaviours. `crossed` are devices on which two
operations that leave it in different states overlapped, `barred` those that `blockDevice`
has finished with.

### 2.7 DesktopSession

`consumed` is the code's `consumedAt`; `version` is `rotation_version`, which names the
refresh token it was issued with; `revoked` is `revokedAt`. The client signs proofs
(`Sign`), with a clock of its own and with any token it has held, and each proof may be
presented any number of times. A refresh goes through `CheckProof` (session, signature,
timestamp window), `ReserveNonce` (Redis SET NX EX), `CheckDevice`, `Rotate` (one
conditional UPDATE), and then `AnswerRefresh` or `LeaseRefused` in the route; when the
UPDATE finds no row, `LookAgain` (a SELECT of its own) and `RevokeReused`. A heartbeat
ends after the nonce. `reserved[n]` is the time at which Redis forgets the nonce.
`SessionAssumption` is the arithmetic the code relies on without saying so: the nonce must
outlive twice the tolerance plus the longest delay between the two tests
(300 s against 2 x 120 s and the part of a request between the two).

### 2.8 PartnerWallet

`balance` is the cached `balance_minor`, `ledger` the set of entries that exist; an entry
is named by its kind and idempotency key, since every caller builds the key from the two.
A posting is a read under the wallet's lock (replay, coverage, the new balance:
`PostRead`) and a write (`PostCommit`). `IssueProduct` is one transaction. `RenewIssue`,
`Extend`, `RecordRenewal` and `RenewalFails` are the three transactions and the
compensation of a renewal; the entitlement appears as the number of terms it has. A
commission moves `pending -> approved -> available -> paid`, and to `reversed` from any
of them; `Pay` and `Reverse` post first and set the status afterwards.

### 2.9 Entitlement

`status[r]`, `until[r]`, `licence[r]` for the rows of one principal and product, in order
of insertion, and a clock. Grants read and write under the principal's lock
(`GrantRead`, `GrantCommit`); everything else does not take it. `Resolve` is the read that
expires lapsed rows, one by one, from what it read; a suspension, a revocation and an
expiry write the row first and its licence in a second statement (`SyncLicence`). `FindNone`
is the look-up of the free trial that found no row.

A null `accessTermDays` is `NoTerm`, a null `expiresAt` is `Forever`, later than every date.
`NextExpiresAt` is `nextExpiresAt` with both: without a term there is no end, a date that is
ahead is extended, and everything else starts now, also a row that had no end (7.23).
`Named` are the expiry dates, or none, that an administrator or a partner may name.
`deferred` are rows that an administrator granted with a `startsAt` ahead; whether such a row
has begun is left open at every look (7.24). `PaidTimeIsKept` is about rows that run to a
date; `ExpiredIsOver` says of the others that they do not expire.

### 2.10 ContentVersions

`version[v]` (the status) and `recorded[v]` are columns (the checksum stands for the body it is of),
`object[v]` is what the store holds under the version's key. Creating a version reads the
highest number, inserts the row, uploads, and records the checksum; an edit reads, uploads
and writes by id; publishing archives and publishes in one transaction. `Compensate` is
the deletion of an object whose row could not be written. `cut` are versions an edit of which
was overlapped or cut short.

### 2.11 Announcements

A row is named by its id (`Ids`, ordered as its random public ids are, in no relation to
time). `status[a]`, `bound[a]` (`related_release_id`) and `at[a]` are columns, `content[a]`
the others, `copy[a]` the locales that have a translation. `CreateDraft` to `WriteCopy` are
the statements of `createDraft` and `updateDraft`: look for the announcement of the release
(`FindBound`), insert or save the row, delete the translations (`ClearCopy`), insert them
(`WriteCopy`). `PublishRead`, `ReadCopy`, `PublishRow` are `publish`; `RetireRead`,
`RetireRow` are `setStatus`; `Clone`, `CloneCopy` the copy of an announcement. `ReleaseReady`,
`ReleasePublish`, `Notify` are `publishReleaseAction` with `publishWhatsNewForRelease`, which
then goes through the same statements. Every step may be the last (`Stop`).

### 2.12 AnnouncementFeed

A client's `trip` is one poll: `ReadPage` (the rows, a set, and the cursor to what follows them), `ReadReceipts` (receipts and
translations, and the time of delivery), `Deliver` (one receipt), `Answer`, and again with the
cursor until there is none. `ack` is an acknowledgement between its check (`AckCheck`) and its
write (`AckWrite`). `due`, `seen`, `twice` and `hidden` are history: what was meant for the
client all the way, what it was shown, shown twice, and had dismissed before it asked.
Targeting is a set of clients and a schedule; version ranges and channels are further filters
of the same kind.

### 2.13 ProductOffers

`plan[i]` and `price[k]` are rows with their status. `Save` is the snapshot and the form of
`saveStudioDraft`; the plans are written one by one (`SavePlan`, with the draft status it
gives, `SavePrice`, `ArchivePlan`), then `PublishCheck`, `PublishProduct`, `PublishPlans`,
`ActivatePlan` are `publish`. The other pages are single statements. A deletion counts the
orders and deletes in a second statement (`DeletePlan`, ..., `DeleteRow`), where foreign keys
still refuse (`Restricted`). A checkout reads the plan, the product and the price
(`ReadPlan`, `ReadProduct`, `ReadPrice`) and orders (`PlaceOrder`). `entered[i]` is the term and amount
last entered together.

### 2.14 ReleaseArtifacts

One release, whose status is `release`. An object is an uploaded file; `context[o]` says whether it has a media row and
what that row is for, `artifacts` which objects the release is made of. `AddCheck`,
`AddMedia`, `AddRow`, `AddContext` are `addArtifact`; `ReleaseCheck` and `ReleaseWrite` the
readiness and the transaction of `publish`; `DeleteCheck` and `DeleteMediaRow` are
`deleteIfUnreferenced`. `verified` is what the readiness behind the publication saw, `missed`
what was on its way then. A deleted media row ends the requests that hold its id, whose next
statement would find nothing or break a foreign key.

### 2.15 DesktopUpdates

`installed[c]` and `flow[c]` (which path the client is on, with which release, until when its
ticket or address lives). The API path is `CheckLatest`, `AuthorizeDownload`; the Squirrel
path `FeedTicket`, `ReadFeed`, `FetchPackage`; both end in `Download` and `Install`. Versions
are numbers in semver order. `clock` is the time, `lapsed[c]` is when the entitlement last ended.

## 3. The runs

| Run | Module | States | What it shows |
|---|---|---|---|
| `commerce` | MCCommerce | 100,980 | with partial refunds left to finance, crashes after `provider.refund()` and three webhooks in any order: the rows of an order never contradict each other (`RowsAgree`: `StatusesAgree`, `RefundsLedger`, `OutboxTellsTheOrder`), what is recorded as refunded went back or was reported so, each report once, and accepted manual refunds still fit (`RefundsAreBacked`: `RecordedRefundsAreReal`, `ReservationsFit`), and every transaction is a step of the contract (`ImplementsContract`) |
| `commerce_two_orders` | MCCommerce | 32,617 | two orders for one plan: a subscription is active only while its order is paid for (`SubscriptionsArePaidFor`); a capture of the right amount is recognised in the end (`CaptureIsSettled`) |
| `race_outbox` | MCCommerceRace | 995,372 | whatever two transactions do to each other, manual refunds and their confirmations among them, the status is announced (`StatusIsAnnounced`) and nothing unpaid is refunded (`OnlyBoughtIsRefunded`) |
| `inbox` | MCWebhookInbox | 2,780 | three overlapping deliveries, three crashes or failures: applied at most once and acknowledged only when safe (`NeitherLostNorRepeated`: `AppliedOnce`, `AcknowledgedIsApplied`), and applied in the end (`EventIsApplied`) |
| `events` | MCEvents | 438,746 | the outbox: two dispatchers, failures, crashes, early lock expiry: an immortal row is delivered in the end (`DeliveredInTheEnd`), and until a lock expires early the dispatchers implement `Delivery` (`KeepsPromise`). Fulfilment: access is bought and suspended for a reason (`AccessWasBought`), given with all its terms when all is handled (`PurchaseGivesAccess`), and ended by a reversal that is not handled too early (`RefundEndsAccess`) |
| `seats` | MCSeats | 1,267,331 | two overlapping requests, two devices, two licences with one seat each: the limit holds (`SeatsWithinLimit`), a device out of service is out (`OutOfServiceIsOut`), overlapping removals exceed the quota by no more than their number, whatever is removed beside them without it (`TransfersBounded`) |
| `session` | MCDesktopSession | 861,225 | one code makes one session and a replayed proof is refused for as long as its timestamp is valid (`UsedOnce`: `CodeUsedOnce`, `ProofAcceptedOnce`); a replaced token costs the session (`ReuseRevokes`), for good (`RevokedIsFinal`) |
| `wallet` | MCPartnerWallet | 1,304,966 | overlapping postings, replays, compensations and crashes: the balance is the ledger and never negative (`WalletBalances`: `BalanceIsLedger`, `NeverOverdrawn`); renewals are paid for (`RenewalsArePaid`); a refunded order's commission ends reversed, its payout taken back once (`CommissionSettles`) |
| `entitlement` | MCEntitlement | 2,055,482 | perpetual and fixed plans, named expiries, later starts: one open row, expired only when over (`RowsAreSound`: `OneOpenRow`, `ExpiredIsOver`), a licence that follows its row (`LicenceFollowsTheRow`), no more trials than overlapping requests (`TrialsBounded`), no date to which an active row runs is brought forward (`PaidTimeIsKept`) |
| `products` | MCProducts | 657,161 | offers: two administrators save, publish, archive and price one plan while a customer reads the offer: what is ordered was entered together, unless requests overlapped or died (`OffersAreAsEntered`); one deletes prices, plans and the product against a checkout: nothing an order names goes, and an interval has one active price (`RowsStayInOrder`). Artifacts: two overlapping requests that add, publish and delete: one package of a kind, a published release has every package it needs with its media, and none that was not verified or on its way (`PublishedIsSound`) |
| `publishing` | MCPublishing | 1,122,993 | content: numbers without gaps, one published version, bodies written for their version and checksums that match (`VersionsKeepTheirBodies`), a page that only an archive takes away, and published bodies that change only under an edit already under way (`PublicPageIsKept`). Announcements: two overlapping requests that stop anywhere: a row has a date exactly when it was published (`AnnTypeOK`), one announcement per release (`OneAnnouncementPerRelease`); up to overlaps, what is public has its copy, does not change and does not come back (`PublicIsFinal`) |
| `clients` | MCClients | 326,480 | the feed: a walk over pages of one, among announcements that are published and retired, that start late and expire: none that stayed is missed and none repeated (`WalkShowsEachOnce`); receipts are in order, written once, and only for what was public and meant for the client, and dismissed means gone (`ReceiptsAreTrue`); a client that polls and follows cursors is delivered what stays meant for it (`PolledIsDelivered`). Updates: both paths, prereleases, other channels, floors, an entitlement that comes and goes: nothing is downloaded later after its end than the three lifetimes add up to (`AccessEndsInTime`), and a client that is offered nothing more runs the newest release that any chain of updates reaches, or a newer one (`NobodyIsStranded`) |

All of them pass. Where the code has a hole a property is weaker: it names the circumstance (an
overlap, a retry, an overtaken row), and section 7 says what happens then. Some properties
are conjunctions of invariants that the modules define and comment one by one; the table names
the parts.

## 4. Bounds, and why they are enough

- Orders: one in `commerce` (transactions touch a single order, except
  `cancelSubscriptionsForOrder`), two for the same plan in `commerce_two_orders`, two in
  `events` (a grant for one order overwrites the row of another; a third adds no new pair).
- `Price = 3` in `commerce`: a payment can be refunded in one, two or three parts, in
  unequal amounts, and with a remainder. `Price = 1` or `2` elsewhere.
- Two manual refunds: one may use up what the other reserved. Three webhooks: enough for
  capture, refund and a third that arrives too late or twice; a processed webhook stays in
  `sent`, so repetition costs no further id; a refund reported under a second id does, and two
  of them after a capture by the API are enough to record more than went back.
- `MaxReturned` bounds the money the provider is asked to return, above the price, so that
  an over-refund is reachable.
- Two transactions in `CommerceRace`, and one manual refund beside refunds of any size up to
  `Price = 2`: every conflict in the code is between two; three
  deliveries in `WebhookInbox`, because the doomed one and the waiting one differ.
- Two dispatchers, two rows (one immortal with two handlers, one ordinary with one), a
  batch of two, `maxAttempts = 2`: a batch has a row in hand and a row waiting, a failure
  count has a first and a last value, and a handler can be repeated after a later one.
- `MaxTrouble` (two or three) bounds failures and crashes. It stands for the environment,
  and with it liveness says: once failures stop, delivery happens.
- `MaxTerms = 3` in `events`: two orders and one replay.
- Two requests at once in `seats`, `session`, `wallet`, `entitlement`, `publishing` and
  `products`: each
  conflict in that code is between one that has read and one that writes in between. The
  theorems of section 6 cover any number.
- `seats`: two devices, two licences with one seat each and one transfer, so that the limit
  and the quota are reached by the first and tested by the second.
- `session`: two proofs, `Tolerance = 1`, `NonceTtl = 4`, one unit of delay, five instants
  and two rotations: a nonce can be forgotten within the run, a token can be one or two
  rotations old.
- `wallet`: two keys for issues and renewals and one for an adjustment, `Funds = 4` against
  `Price = 2`: the wallet covers two debits and not a third after a payout is reversed.
  `MaxTerms = 2` bounds the extensions.
- `entitlement`: two rows, a perpetual plan and one of a term of 1, dates up to 2, named expiries
  of 2 and of none, two instants: a row can lapse, be renewed before or after, be perpetual before
  or after, and be followed by another. The run has a `VIEW` that leaves out the licence of
  `disturbed` rows: a row stays disturbed, no property looks at such a row's licence, and it
  decides nothing but itself (`ProvisionLicence` and `ReissueLicence` change no other variable of
  such a row), so states that differ in it alone have the same future.
- `publishing`: two versions, two bodies: a published version and its fork. Two announcements,
  one release, a form with a button for it and one without that lacks the default locale:
  enough for a clone, for two announcements that want the same release, and for a copy that
  goes missing. Requests overlap on one of the two announcements only (`OneIsMixed`; without that
  bound, and with ids in any order, TLC finds 1.5 million states of announcements and the same
  result). No time passes: schedules matter to clients only.
- `products`: one plan and one price, because term and amount of a plan are mixed by requests on
  that plan, two entries that differ in both, a price that is not switched off, and no order
  rows (the reading of the offer is what matters); for deletions two prices of two intervals,
  one order, and one administrator, who does not publish and whose deletion races with the
  checkout. Both properties are proved without these bounds (6.2). Two installers and one artifact of each other kind,
  and two requests: one that adds or deletes beside one that publishes (three give 225,886
  states and the same result).
- `clients`: one client, since clients share no state but the list; one administrator, since what
  two of them do to a row is `publishing`'s question; two announcements on pages of one, one that
  starts late and one that expires, two instants. Acknowledgements are dismissals: reading is
  written in the same way and hides nothing. Lifetimes of 1, 2, 2 and 1 units on a clock of 7,
  so that the bound of `AccessEndsInTime` (5 units after the end) is inside the run, with the
  releases of `Mixed`; and, while the clock stays below 2, the four releases of `Chain`, whose
  floors make a chain of three steps, one of them for another architecture.

`CHECK_DEADLOCK FALSE` appears where the system may stop: the orders are closed, the
webhooks handled, the rows processed, a session revoked with its clock run out, or a bound
reached, or the product deleted. `race_outbox`, `inbox`, `seats`, `wallet` and `clients` need no
such line.

## 5. Fairness

- `Commerce!FairSpec`: weak fairness of `Webhook(e)`. The provider redelivers a webhook
  until it is answered with success and the route runs the handler on each delivery, so a
  webhook whose handler stays able to commit is eventually handled. Nothing is assumed of
  customers, administrators or of what the provider captures.
- `WebhookInbox!FairSpec`: a running process handles what it received (one fairness for
  all deliveries together, since which waiting INSERT goes first is up to PostgreSQL);
  the checkout eventually commits the payment; while nothing was acknowledged the provider
  delivers again. Crashes and failures are never fair and are bounded.
- `Outbox!FairSpec`: each dispatcher keeps polling (`worker.ts` loops; every webhook also
  dispatches), and a stale lock is eventually swept, since `reclaimStaleLocks` runs at the
  start of each poll and a lock nobody renews only gets older.
- `AnnouncementFeed!FeedSpec`: weak fairness of each client's next step, and from some time on
  its requests do not fail. The documented client polls at intervals for as long as it runs;
  administrators, time and acknowledgements are not fair.
- `MCEvents!MCSpec` and `MCClients!MCSpec` assume the same of the component that moves, and
  nothing of the other.
- The other modules state safety only: their requests may stop at any point and nothing
  in the code takes them up again.

## 6. What is proved

Every theorem holds for all values of the constants that the named assumption of its module
allows (`CommerceAssumption`, `RaceAssumption`, `InboxAssumption`, `OutboxAssumption`,
`FulfilmentAssumption`, `SeatsAssumption`, `SessionAssumption`, `WalletAssumption`,
`EntitlementAssumption`, `ContentAssumption`, `AnnouncementAssumption`, `FeedAssumption`,
`OffersAssumption`, `ArtifactsAssumption`, `UpdatesAssumption`). TLC evaluates them in the runs.
They say that a price is a positive natural number, that sets that are counted or summed are
finite (refunds, webhooks, announcements, plans), that bounds are natural numbers, that
"nothing" is not one of the things. Two of them relate numbers as the code does:
`SessionAssumption` the nonce and the timestamp window of section 2.7, `UpdatesAssumption` the
lifetimes of tickets (`DownloadTTL <= FeedTTL + ArtifactTTL + LeastTTL`: 120 s against 900 s,
an hour and a minute).

In each case the property is not inductive as it stands, and the paragraph says what the
invariant adds to it.

### 6.1 Money: `CommerceProofs`

- `TypeCorrect`, `RowsNeverContradict`, `LedgerDecidesTheStatus`, `OutboxIsExact`,
  `OrderRowsAgree` (the three of them), `ContractIsImplemented`. The three safety properties are
  one predicate `Consistent` of the four rows of a single order, and together with the types
  they are inductive: none of the three is by itself, because a transaction tests the statuses
  and writes the ledger and the outbox. The argument is pointwise. Types first (`CallTypes`,
  `ManualTypes`, `WebhookTypes`, `ProviderTypes`); then `StepEffect`: every step leaves all
  orders alone or has one of five `Effect`s on one order (it stays unpaid or closes, is paid, is
  partly refunded, is refunded, is voided), each with the outbox row it announces. The delicate
  effect is the refund (`RefundEffect`), where ledger, status and the flag of the outbox row must
  take the same side of "does it complete the price". `StepSound` and `EffectIsMove` then only
  look at the five effects: the first gives safety, the second the refinement of `OrderContract`,
  where a manual refund of nothing on a refunded order is a stutter.
- `SubscriptionsFollowPayment`. A confirmation must not find a cancelled subscription of its
  order, so the invariant adds that an order that was never paid for has none. `StepFollows`
  reduces every step to the three things that can happen to an order's subscription.
- `RefundsAreBackedByMoney`: recorded refunds went back or were reported so, and what manual
  refunds reserve fits. Both compare columns with sums over rows. With money that is reported
  more than once the ledger is no longer bounded by what went back, but by the reports (`told`).
  Nor is it bounded by these alone, because an event of a full refund stands for the price
  whatever it carries: so the property is a disjunction, and `LedgerBacked` adds that until the
  price is reached the recorded refunds and the reports that may still be recorded fit in
  `told`; `HeldFits` ties `held` to the
  sum of the open manual refunds; `EventsAreReal` says that a full refund was reported only when
  the money is back. The sums are folds; what one row adds to them (`TotalChanges`) is proved
  from the fold's definition by descent to a smallest counterexample, which needs no induction
  theorem.

### 6.2 Overlapping transactions: `TransactionProofs`

- `RaceTypeCorrect`, `StatusAlwaysAnnounced`, `NothingUnpaidIsRefunded`, for any number of
  transactions on one order. A transaction writes what it decided on rows it read earlier, so
  the invariant says what such a snapshot is worth (`SnapshotsAreOld`): an order that some
  transaction saw bought has been announced as paid, for ever. This is the part of the commerce
  service that survives the races of section 7.
- `InboxTypeCorrect`, `EventAppliedOnce`, `NoAcknowledgedEventIsLost`, `InboxIsExact` (the last
  two together), for any number of deliveries and failures. `KeyIsExclusive` is the unique
  index: one holder at a time, and none once the row is committed.
- `RowsInOrder`, for any plans, prices, requests and checkouts: whatever saves, deletions and
  orders overlap, an ordered row is not deleted, no plan goes before its prices, and an interval
  has one active price. A save writes the prices of the snapshot it started from, so
  `WorkFits` says that these belong to the plan they are saved for and never go back to not
  existing.
- `WhatIsOrderedWasEntered`, the action property `OffersAreAsEntered`, for the same. A plan's row
  and its price are written in two statements and read in three. `AsEntered` says, of a plan
  that was not `torn`, what the code relies on without a transaction: one request at most is
  between the two writes (`Halves`); until it writes the price the plan is off sale with the
  term of its form; no customer is between the reads meanwhile; and when nobody is half-way, row
  and price are what was last entered. `torn` is needed: a second save, a publication or a
  checkout in between breaks it in the code too (section 7).

### 6.3 Events: `EventsProofs`

- `OutboxTypeCorrect`, `ProcessedRowsWereHandled` and `FailedRowsWereTried` for every behaviour,
  also those where several dispatchers run the same row; `ReachedFollowsRan` relates the progress
  of each dispatcher to what the row has reached. `RowsHaveOneDispatcher`, `AttemptsAreKept` and
  `PromiseIsKept` (the refinement of `Delivery`) for as long as no batch outlives its lock.
- `FulfilmentTypeCorrect`, `AccessIsBought`, `PurchasesGiveAccess`, `RefundsEndAccess`, for any
  number of orders. A row of the outbox is related to the order it announces
  (`AnnouncedPhases`), to the handlers it has run and to a suspension that is found but not
  written (`HandlingInv`); the entitlement to the orders served (`AccessInv`). `PurchaseGivesAccess`
  counts terms, so `TermsInv` counts the orders it owes them to: those whose grant has run, and
  the one in the metadata of the entitlement, whose row a retry may have taken back to the
  start. `RefundEndsAccess` needs `ReversedInv`: once a reversal in time is handled, the order's
  paid row is not owed and its entitlement, if the entitlement is still its own, is suspended.

### 6.4 Seats, sessions, wallet, entitlements

- `SeatsProofs`: `SeatsTypeCorrect`, `LimitHolds`, `OutOfServiceHolds`, `TransfersStayBounded`,
  for any devices, licences, limits and number of overlapping requests. The limit needs
  `RoomWhileLocked`: a request that holds the lock and will add a seat has room for it, which
  seats taken away meanwhile only increase. `OutOfServiceIsOut` is proved one device at a time:
  `Service(d)` relates the device, its seats and every request on it (what an activation saw,
  which licences a removal still has to visit, that the requests on it agree), and is inductive
  for each device that is not `crossed`. `QuietStep`, `BeginStep` and `FinishStep` split the
  steps into those that do not touch the device, those that begin and those that end an
  operation on it. The quota's argument counts the removals bound by it only; a removal that
  bypasses it neither asks for the number nor changes it.
- `DesktopProofs`, sessions: `SessionTypeCorrect`, `CodeMakesOneSession`, `RevocationIsFinal`,
  `ProofsAreAcceptedOnce`, `UsedOnceHolds`, `ReuseCostsTheSession`, for any number of requests
  and proofs. A request that passed the timestamp test may reserve its nonce late, so `NonceInv`
  dates each request by its test and each nonce entry by the window of the proof it belongs to.
- `WalletProofs`: `WalletTypeCorrect`, `BalanceHolds`, `NeverOverdrawnHolds`,
  `WalletBalancesHolds`, `RenewalsPaid`, `CommissionsSettle`, for any finite sets of keys and
  requests and any amounts. The balance is a number computed before the lock's second step:
  `PostingInv` says that only one request is between the two, that its entry is still absent and
  that its number is the balance plus the entry. The commission needs one invariant that holds
  always (`PayoutInv`) and one for as long as no two requests on it crossed (`UncrossedInv`);
  the renewals `RenewInv`, which counts a request that has extended and not yet recorded as half
  a renewal.
- `EntitlementProofs`: `EntitlementTypeCorrect`, `OneOpenRowHolds`, `ExpiredIsOverHolds`,
  `RowsAreSoundHolds`, `LicenceFollows`, `TrialsAreBounded`, `PaidTimeKept`, for any number of
  requests and rows. Rows are inserted in order, so a grant's row number is a cardinality:
  `RowsInv` is what makes that number free. What a request read is dated by `disturbed`: for a
  row that no overlap disturbed and that was not granted for later, a lapsed row in hand has
  lapsed and is not perpetual (`LapsedInv`), a new expiry in
  hand is no earlier than the date to which the row runs, and a licence differs from its row only while a request is
  about to write it (`LicenceInv`).

### 6.5 The catalog: `CatalogProofs`

- Announcements: `AnnTypeCorrect`, `OnePerRelease`, `WhatIsPublicIsFinal`, for any number of
  requests that stop anywhere. `HandsInv` says what a request has in hand; `AloneInv`, that the
  request on an announcement that is not `torn` is the only one and still finds the status it
  read. Without `torn` that is false: it is what the races of the code come to.
- The feed: `WalksAreWhole`, `ReceiptsTellTruth`, for any page length, clients and announcements.
  "Missed nothing, repeated nothing" needs `CursorDivides`: before the cursor is what was shown
  or is on the page, after it what comes. Publications and withdrawals keep this division,
  because the date by which the list is ordered is fixed when an announcement is published.
- Content: `ContentTypeCorrect`, `BodiesAreKept`, `PublicPage`. `NumbersInv`: the numbers taken
  have no gap, and below the number a request is about to insert all are taken, so the insertion
  fails or extends them. `UntornInv`: a version that was not `cut` has one writer at most, whose
  progress says which of the two copies is behind. `LateInv`: nobody edits a published version,
  but requests that were on their way.
- Releases: `PublishedReleaseIsSound`. `MediaInv`: what a publication has seen is what the release
  needs and cannot be deleted meanwhile. `PublishedInv`: what is published was verified, and
  whatever joins it was on its way.

### 6.6 Updates: `DesktopProofs`

`NobodyIsLeftBehind`: what is installed never goes back (`UnderWay`), and the set reachable from
the shipped version, a least fixed point, is closed under updates, so a client with nothing left
on offer runs the newest of it or a newer one. `AccessIsTimed`: a ticket is bounded by the end of
the entitlement plus the lifetimes of the tickets it was obtained with (`TicketsEnd`, a bound
for each stage that adds to the one before).

### 6.7 Only model-checked

Every safety property of the runs is proved. Liveness (`CaptureIsSettled`, `EventIsApplied`,
`DeliveredInTheEnd`, `PolledIsDelivered`) stays with TLC: the proof system covers neither
fairness nor ENABLED here.

## 7. What the code does otherwise than expected

Found while modelling. The properties of section 3 are worded so that they hold beside these
items, and name the exceptions.

1. A purchase after expiry inserts a second entitlement, because
   `findOpenForProduct` sees active and suspended rows only. `requireAccessForPrincipal`
   takes the first row of the product from an unordered list and refuses when that is the
   expired one, against "Desktop refresh picks up the new entitlement and re-issues lease"
   (`docs/DESKTOP-ECOSYSTEM.md:192`).
2. The second partial refund through the provider is returned and not recorded:
   `requestRefundOn` calls `provider.refund()`, then `applyLocalRefund` finds the order
   `partially_refunded` and returns early. The remaining amount that later requests are
   checked against is too large, and the provider can be told to return more than was paid.
   `RequestRefundUnrecorded` is the step.
3. Two overlapping refunds check the same remainder; both commit (`CommerceRace`).
4. An overlapping confirmation and cancellation commit `cancelled -> paid`: the table is
   consulted for a status read earlier, the update is by id, although the documented table
   has no state after `cancelled` (`docs/ARCHITECTURE.md:88`).
5. On PostgreSQL the SELECT after a unique violation fails in an aborted transaction, so a
   duplicate webhook is answered 500. The in-memory store of the tests answers it as the
   test expects. Safety does not suffer (`AppliedOnce`); the provider keeps redelivering.
6. A paid row that failed and backs off is handled after the row of its full refund, which
   found nothing to suspend: a refunded customer keeps access. `RefundEndsAccess` excepts
   `overtaken` orders.
7. A grant recognises its replay by the order in the entitlement's metadata, which the next
   order's grant overwrites: a retry of the first order's row gives a second term. For this
   reason `PurchaseGivesAccess` bounds the terms from below only.
8. A block that overlaps a removal or a deactivation of the same device is overwritten with
   `deactivated`, and the device can be activated again, against "same installation cannot
   reactivate" (`docs/DEVICE-RECOVERY.md`). `OutOfServiceIsOut` excepts `crossed` devices.
9. A refresh rotates the credentials and then renews the lease; when the lease is refused,
   or the answer is lost, the client keeps a token that has been replaced, and its next
   refresh is treated as theft and revokes the session. The policy assumes that "the
   legitimate client keeps the new credential" (`docs/DESKTOP-ECOSYSTEM.md:308`).
10. A renewal that failed after its debit is compensated under another key. A retry with
    the same key finds the debit in the ledger, takes it for a replay, and renews for
    nothing; the ledger is "idempotent" (`docs/ARCHITECTURE.md:122`), the renewal is not.
    Of two renewals that overlap, one overwrites the date of the other, and both are paid.
    `RenewalsArePaid` excepts keys in `troubled`.
11. An edit that read a draft before it was published writes the object and the row
    afterwards, although "Published bodies are never overwritten"
    (`docs/ARCHITECTURE.md:74`). `PublishedBodyIsKept` excepts versions in `late`.
12. `publish` makes every plan active that has an active price, and archiving a
    plan leaves its prices active: an archived plan, even one the same form has just removed, is back on
    sale. `rejectIfReferenced` tells administrators to archive what cannot be deleted.
13. "Honor `mandatoryUpdate` and `minimumSupportedVersion`: lock the app behind an
    update gate when below the floor" (`docs/DESKTOP-CLIENT-DESIGN.md:128`); a release is left out of the
    answer of `updates/latest` exactly when the client is below its floor, so the client cannot know.
    The Squirrel feed has no floor at all: the same client is offered the same release there.
14. Saving a draft of a product that is on sale takes its plans off sale until the next
    publication. A save that dies or overlaps half-way leaves a term and an amount that were never
    entered together, and the next publication sells them; `savePrice` edits the newest price only,
    so other prices keep their amounts at the new term. `OffersAreAsEntered` excepts such plans.
    Readiness is content with an active price on any plan that is not archived, and with an amount of
    0, which is not sold.
15. `updateDraft`, `publish` and `setStatus` of announcements check the status once and write by id:
    overlapping requests edit what is public or bring back what was archived (`torn`).
16. `publishWhatsNewForRelease` creates a draft and publishes it in two steps; after a crash in
    between, later calls find the draft and leave it. `publishReleaseAction` asks for a draft release
    first, so that after a crash between the publication of a release and its announcement the retry is
    refused, and the idempotent branch of `publish` is not reached from there.
17. Editing a clone of an announcement of a release conflicts with the original, because `updateDraft`
    derives `related_release_id` again.
18. `createDraft` of releases verifies a signature over a manifest with a public id that it draws
    itself a few lines earlier, so nothing can be signed in advance; `ReleaseArtifacts` takes the draft
    as given.
19. A request that dies between the media row and the artifact row leaves the object key taken; adding
    the same object again fails until its media row is deleted.
20. The reference of the desktop poll gives no cursor. A client that reads first pages only may never
    be shown older announcements: dismissed ones are taken out after the page is cut.
21. `authorizeReleaseArtifactDownload` reserves a ticket id that it has just drawn, so the
    reservation never refuses. A beta client is never offered a newer stable release, and nothing in the
    code sets the status `retired`.

22. A refund webhook is booked under its own event id and not matched to a refund that is recorded
    already. After a refund of 1 out of 2 by the API, a webhook about the same refund as a partial
    one finds the order `partially_refunded` with 1 recorded, and 1 more completes the price: the
    order is `refunded` and the access ends, with 1 returned. Two events of one refund do the same.
    `RecordedRefundsAreReal` bounds the ledger by the reports, not by the money.
23. A grant or a renewal of a fixed term on a row without an end gives it one, counted from today
    (`access.ts:25-31`: a null expiry is not a date that is ahead), so that a customer with perpetual
    access loses it by buying a term. `PaidTimeIsKept` is about rows that run to a date.
24. An administrator may grant access that starts later. The first look at the entitlements before
    that day finds the row active and not in force, and writes `expired` (`service.ts:231`): the
    access never begins. `ExpiredIsOver` excepts `deferred` rows.
25. A capture that is reported after a decline of the same payment is refused for ever
    (`failed` is terminal), with the money taken. `CaptureIsSettled` excepts it.
26. `cancelSubscriptionsForOrder` cancels the customer's active subscriptions for the plans of the
    order, whichever order they belong to: the refund of one of two orders ends the subscription of
    the other. `SubscriptionsArePaidFor` says the converse only.
27. A crash between an entitlement's status and its licence's leaves them in contradiction, and two
    operations that cross may do the same. `LicenceFollowsTheRow` excepts both.
28. An artifact whose request was under way when its release was published joins the published
    release unverified by that publication. `PublishedIsSound` excepts what was `missed`.

What follows from (3) and (4) for the promises of section 6: the refinement of
`OrderContract` is a theorem about transactions taken one at a time. For overlapping ones
`TransactionProofs` says which part remains.

## 8. What is not modelled, and why

- Prices, carts, promotions, audit rows and read-only queries: no control depends on them.
  A payment has one amount, `Price`.
- Signatures and parsing of webhooks, PKCE, device keys and lease signatures: a request
  that fails them changes nothing and is the same as no request.
- Backoff and lock age in `Outbox`, cooldown and transfer window in `Seats`: "may happen
  from now on". Dates matter, and are modelled, in `DesktopSession` and `Entitlement`.
- Credential lifetimes and inactive desktop clients in `DesktopSession`: further reasons to
  refuse. Binding a device to an existing session: one write by id.
- `Seats` gives an account a fixed set of licences and a fixed limit; what happens when a
  plan change lowers the limit below the seats in use is outside the model.
- Members, tiers, prices, referral codes, clicks and attribution of a partner: rows written
  once, by one person.
- `PartnerWallet` follows one commission; several share nothing but the wallet, whose
  ledger takes any number of keys.
- Titles, slugs, SEO columns, categories and media links of content.
- `expireEntitlements`, which no application calls: it writes what `Resolve` writes.
- Descriptions, features, media and SEO of products, and the lock on a product's technical
  identity, which is counted once and may be stale when the metadata is written (a hazard without
  a property).
- Bodies, severities, version ranges and channels of announcements; the deletion of a draft is
  not offered by the code.
- Creation of releases (7.18), their notes, and images in the media library.
- Products whose updates are public, downloads from the web account, and the parsing of
  RELEASES files.
- Rate limits and the worker's heartbeat: counters whose loss the code tolerates.
- Pages, adapters, seeds, messages and configuration, which are most of the lines of the
  repository: no state of their own.

## 9. Plan

In order of importance:

1. **Composition** of `Seats`, `Entitlement` and `DesktopSession`: the lease as the thing
   all three agree on, with its grace period after a revocation.
2. **Technical identity** of a product: the lock that is counted before the metadata is
   written.
3. **Rate limiter and heartbeat**, if the above leave room.
