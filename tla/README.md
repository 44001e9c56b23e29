# A verification project for the milk distribution platform

This directory holds TLA+ models of the platform in `../src` (a NestJS and
Prisma backend, a Next.js frontend), the TLC configurations that model-check
them on small instances, and theorems about them that TLAPS checks for every
value of the constants.  Source paths below are relative to `src/`; `BS` stands
for `backend/src`, `FS` for `frontend/src`.

`PROJECT.json` is the index: components, runs, the source lines behind every
definition (`map`), one plausible bug per property that the property catches
(`mutants`), the hazards the properties are for, findings and theorems.

    tlc -workers 2 -config MCBilling.cfg MCBilling           # a run
    tlapm Billing_proofs.tla                                 # the proofs

## 1. What there is: an inventory

The backend is one Node process over one PostgreSQL database.  Its services are
stateless; every shared state is a row.  What makes it hard is therefore always
the same thing, in many guises: a handler reads rows, awaits, decides and later
writes rows *by id*, and it holds no transaction and no lock in between.  Any
number of handlers are in flight; the crons run in the same process; a handler
dies where a query fails, and nothing it has written is taken back.  There are
five transactions in the backend, each over the last writes of a handler only.
The browser adds its own concurrency: promises that share one
token pair, several tabs, a long-lived notification stream.

| component | state | operations | what is hard | what makes it correct |
|---|---|---|---|---|
| **billing ledger and passes** `BS/billing/billing.service.ts` | bills, lines, payments, adjustments | `runCycle` (endpoint, 1 AM cron), `createSettlementBill`, `recordPayment`, `addAdjustment`, `voidBill`, `markOverdueBills` (6 AM cron) | passes that read before others write; read, insert, write-back without a transaction | an item is charged once; columns, rows and status agree; late bills become overdue |
| **billing windows** same file, `BS/jobs/jobs.service.ts` | settings | `getCycleWindow`, `updateSettings`, `runCycleForAllDistributors` | windows asked every day, cycles that change, one failure stops the rest | every delivered day is billed, and a lost one has a cause |
| **subscriptions and their end** `BS/subscription/subscription-end.service.ts`, `BS/customer/customer.service.ts`, `BS/distributor/distributor.service.ts` | subscription and end-request rows | create by either party, approve, decline, `updateSubscription`, `requestEnd`, `confirmEnd`, `rejectEnd`, settlement | two parties at once; a settlement bill before the closing transaction; duplicate checks before writes | ending takes both parties; none is stuck ending; one open subscription per pair |
| **deliveries** `BS/delivery/*.ts`, unavailable days in `distributor.service.ts` | items, run headers, unavailable days | generation (00:30 cron, button, start of a journey), `startJourney`, `completeJourney`, `updateItem`, `bulkStatus`, `adminOverride`, create and delete an unavailable day | generations overlap each other, journeys and changes of the subscription | the list is complete; a delivered item keeps status and quantity; a day off is clear |
| **schedule** `BS/subscription/subscription-schedule.service.ts` | local variables of five loops | `getDeliveryDates` | first cursors, strides, short months | the dates are exactly the due days, whatever range is asked |
| **sessions** `BS/auth/auth.service.ts`, `FS/lib/api.ts`, `FS/lib/notification-sse.ts`, `FS/store/auth-store.ts` | refresh tokens; per tab a store, a flag and a queue; `localStorage` | login, refresh, the axios interceptor, the stream's own refresh, sign-out, rehydration | two refreshers who do not know of each other, tabs, lost answers | a token buys one pair; no call waits for ever; no session without a user |
| **identity documents** `BS/identity/identity.service.ts` | documents, `identityVerified` | uploads, delete, status poll, sync | a flag derived by count then write | the flag says what the documents say; the limit holds |
| **onboarding** `BS/distributor/readiness.service.ts`, `distributor.service.ts` | `onboardingStatus`, `setupSteps` | `goLive`, `checkReadiness`, `completeSetupStep` | checks in a row and a write at the end; an array read and written back | who is live was ready; steps are not forgotten |
| **catalog** `BS/products/catalog.service.ts`, pricing in `distributor.service.ts` | products, enabled rows, prices | global and custom products, reviews, promotion, deactivation, enabling, pricing, product checks of both `createSubscription` and of the customer's `updateSubscription` | products change hands between check and write | private products stay private; no product is gone under a running subscription |
| **notifications** `BS/notification/*`, `FS/components/notifications/notification-arrival-watcher.tsx` | rows, an in-process hub; badge and toasts of a tab | create with `eventId`, snapshots, the stream, polls, marks | look-up then create; two queries per snapshot, published without order | every event is told once; the badge is right in the end |
| **accounts** `BS/auth/auth.service.ts`, `createCustomer`, `suspendDistributor` | users, one-time links, refresh tokens | `register`, `login`, `refresh`, `forgotPassword`, `resetPassword`, `activate`, inviting, suspending | links read before the password is hashed and spent after; three writes of an invitation; a suspension beside sign-ins | a link works once; who is suspended does not sign in; who is invited can get in |
| **jobs** `BS/jobs/jobs.service.ts` | none | four crons | they overlap with the endpoints | see the services |
| **admin, discovery, geocoding, mail** | none of their own | reads, external calls | their answers are cached by the pages | - |
| **pages and hooks** `FS/app`, `FS/components`, `FS/hooks` | the react-query cache of a tab, form state | queries, and mutations that send the calls above and name by hand the keys they make old | forgotten keys, answers overtaken by changes, forms filled from a cache, the next user of the tab | what one has changed shows; a save undoes nothing unseen; what is typed goes only for a cause |

How they interact: jobs and controllers call services.  `subscription-end`
calls `billing.createSettlementBill`; generation calls the schedule and reads
subscriptions, pauses, extras and unavailable days; `startJourney` calls
generation; billing reads the items that `updateItem` and `bulkStatus` deliver;
`goLive` calls readiness and identity's sync; subscriptions read the catalog;
everything calls notifications, whose failures reach the caller.  The browser
calls the backend through one axios instance, except for the notification
stream, which uses `fetch`.

The hazards this exposes the code to are in `PROJECT.json` under `hazards`, each
at its line with the properties that watch it.

## 2. The modules

Each module models one group of handlers over the rows they share.  A handler
in flight is a record (`pass`, `op`, `call`, `agent`) with a program counter and
the values it has read; an action is what happens between two awaits, its guard
the code's conditions.  Handlers also die (`...Fails`, `Die`): that is a query
that throws or a process that stops, and the rows stay as they are.  History
variables, named as such where they are declared, are read by properties and by
no action.

**Billing.**  `pass` is a `runCycle` or a `createSettlementBill`: `CycleRead` is
the query for unbilled delivered items of the window, `CycleIssue` the
`bill.create` of one customer from what was read, `CycleEnd` the end of the
loop; `SettlePeriod`, `SettleRead`, `SettleIssue` are the three queries of a
settlement.  `op` is a ledger call: read the bill, insert the row, write the
bill back (`PayRead`/`PayRow`/`PayWrite`, `AdjRead`/`AdjRow`/`AdjWrite`,
`VoidRead`/`VoidWrite`).  `received`, `credits` and `debits` sum the inserted
rows, which the code never reads again; the properties compare them with the
columns.  `MarkOverdue` is the cron's single `updateMany`.  Prices and windows
are the constants `Charge` and `Window`.

**SubscriptionEnd.**  The subscriptions of one customer with one distributor
and their end requests.  A creation is `CreateCheck` then `CreateWrite`, a
verdict `ReviewRead`, `ReviewWrite`; `updateSubscription` writes in one step
whatever it finds (`UpdateStatus`).  `requestEnd`, `confirmEnd` and `rejectEnd`
read, perhaps settle (`SettleRead`, `SettleIssue`, the bill outside the
transaction), and close with the one transaction each has (`RequestWrite`,
`Close`, `RejectWrite`).  Deliveries and cycles appear only as what a settlement
finds to bill.

**Delivery.**  One distributor's date.  `GenerateBegin` looks for an unavailable
day, `GenerateRead` reads the subscriptions, then per slot the header
(`GenerateSlot`), one upsert per subscription (`GenerateItem`) and the count
(`GenerateSlotEnd`).  A journey starts with a generation, then reads and writes
the headers (`JourneyRead`, `JourneyStart`).  `UpdateRead`/`UpdateWrite`,
`BulkRead`/`BulkNext`, `AwayCreate`/`AwayRead`/`AwaySkip` are the rest.
Subscriptions `Change` underneath.  What schedule, pauses and extras make of a
subscription on the date is one number, `want`.

**Schedule.**  The loops of `getDeliveryDates`: `FirstCursor`, the phase loop of
alternate days (`Skip`), the day loops (`CollectDay`) and the month loop
(`CollectMonth`).  The calendar - the first day of every month, the weekday of
day 1 - is a constant, JavaScript's `Date` with its arithmetic is left out.
`Calendar` has the days of the week, which BillingCycle reckons with too.

**Session.**  `live`, `expired`, `overdue` and `origin` are the server's: the
refresh rows, the access tokens past their 15 minutes, the rows past their 7 days
(which stay, and which `RefreshFind` refuses), the token each pair was bought with.
`store` is the store of each tab, `saved` is `localStorage`, `refreshing` is
`isRefreshing`, and the calls whose `pc` is `"queued"` are `failedQueue`.
`Post`, `RefreshFind`, `RefreshDelete`, `RefreshCreate`, `RefreshLost` are the
endpoint, `Call...` the interceptor, `Stream...` the stream.  The server's two
queries find and delete are apart, as in the code.

**Onboarding.**  `doc`, `flag` (identityVerified), `live`, `has` (which kinds of
rows readiness finds), `steps`.  Uploads are count then create; a deletion is
read then delete; both, and the poll, go through `SyncCount` and `SyncWrite`;
`goLive` then asserts the identity, reads profile, documents and one table per
need, and publishes; `completeSetupStep` reads and saves the array.

**Catalog.**  `product` rows, the `enabled` pairs, `price` rows and the
subscriptions as far as the deactivation counts look at them.  Custom products
are three writes (`CreateCustom`, `CreateEnable`, `CreatePrice`); promotion,
deactivation, pricing and both `createSubscription` handlers check a product in
one query and write in later ones.  So does the customer's `updateSubscription`,
which moves an active subscription to another product (`SwitchRead`,
`SwitchPrice`, `SwitchUse`, `Switch`) without a second look at either.

**MutualEnd.**  The abstract specification of an end: a party asks, the other
agrees or refuses, each in one step.  `SubscriptionEnd!Agreement` is its instance
under the mapping of the rows (statuses, and each request with its verdict and
who gave it); the property `EndsByAgreement` says that every step of the handlers
- queries, settlements, crashes - is a step of it or a stutter.

**BillingCycle.**  The windows that Billing leaves open.  Days pass (`Midnight`);
the 1 AM run starts, or the process is down and it does not; `CronRun`,
`CronThrows`, `CronEnd` and `CronDies` are the loop of
`runCycleForAllDistributors`, `Window` is `getCycleWindow`, over a calendar given
by the first days of months.  One item per distributor, all of one date, is
followed until a run finds it: `Found` is the query of `runCycle`.

**Notifications.**  Reporting handlers look an event up and insert its row
(`Look`, `Insert`, or `InsertRefused` by the unique key).  Every change of the rows
appends a snapshot to `snap`, whose count and latest row are read apart
(`SnapReads`) and published whenever it is ready (`Publish`), in any order.  The
tab has the stream (`Connect`, `StreamReads`, `Subscribe`, `Receive`, `Drop`), the
polls it makes while the stream is not live (`Fetch...`), and the watcher
(`Hear`), which keeps the badge and raises the toasts.

**Accounts.**  One address: its user row, links and sessions, and the requests on
it, each split where it awaits - `...Looks` is the query that reads and decides,
`...Writes` (or `Open`, `RefreshRotates`) what follows bcrypt and the random
token.  `createCustomer` makes the user, the join row and the activation link in
three writes, `Die` leaves it between any two.

**Screens** is the browser tab: one query of one page, and one change that writes
what the query shows, of all pairs the source has.  The state machine (visits,
focus, fetches that land or fail, invalidation, forms, rewrites of the store's user)
is in `Screens`; the pairs are data read off the source: `Answers` (what facts each
endpoint's answer shows), `SharedScreens`, `DistributorScreens`, `CustomerScreens`,
`AdminScreens` (which query key each hook has, what each mutation writes and which
keys it invalidates, which page mounts, offers and fills what).  `ScreenParts` has
their vocabulary; it tells five kinds of forms apart by when they are filled and
what their page shows before the first answer (`Form`, `FormShown`).
`Screens!Forgotten` lists the pairs the hooks do not invalidate; it is the list a
maintainer would work off.

`MC*.tla` only give instances: the constants' values, symmetry sets and bounds.

## 3. The runs

| run | what it asks | instance | states |
|---|---|---|---|
| `billing_ledger` | when an item is charged twice; columns, rows and status whatever interleaves; late bills leave OPEN | two passes over the items of two customers; three ledger calls and a pass on one bill; the cron | 139,628 |
| `subscription_end` | both parties, never stuck: the refinement of MutualEnd; duplicates | two handlers at a time over one subscription with three end requests and a settlement, or over two subscriptions of the pair with one | 393,173 |
| `delivery` | a complete list; what happens to a delivered item, a completed run, a day off | generations and journeys of two slots under a changing subscription, or every handler on one item, two at a time | 451,861 |
| `delivery_paused` | finding | one subscription, generation alone | violation |
| `session` | rotation, queue, sign-out | a tab with two calls and the stream, a second tab that signs in, out and reloads; two pairs, one lost answer or one pair past its 7 days | 292,781 |
| `schedule` | exact days | every frequency, starts and ranges at the ends of five months of a leap year | 84,334 |
| `onboarding` | flag, limit, going live | four documents for a limit of two, one need, two handlers | 998,000 |
| `catalog` | a product gone under a subscription, two prices | one product, two distributors, two prices, one subscription, two handlers, or a second product beside it that the subscription is moved away from | 1,196,621 |
| `billing_cycle` | is every delivered day billed | two distributors, dates at the end of January and the beginning of February, 61 days, each cycle, marks up to 27 days late | 820,776 |
| `notifications` | who is told, badge, toasts | two handlers on two events, or one and a tab with a mark and a stream that breaks once | 311,286 |
| `accounts` | sessions, links, suspension | four requests on one address, two links, three sessions, two suspensions | 332,686 |
| `screens` | what pages show and forms send | two people, one own change and one by others, every pair of query and change of every page | 3,478,893 |

*Why the bounds are enough to be interesting.*  Every race in the backend is
between a reader and one writer that comes between its read and its write, so
two handlers in flight show it; the ledger run has three because a lost update
and a stale void only meet on a bill with three calls, accounts has four because
one request makes the account, one the link and two use it.  Where a handler ends
and its slot is reused, two slots are not two calls: end requests, documents,
prices and bills run up to their bounds one after the other.  `MaxEnds = 3` lets a
request be rejected, asked again and raced; four documents for a limit of two
let the limit be passed and then passed again after deletes; `MaxPairs = 2` is
one login and one rotation, whose refresh token is then fought over.  A third
pair could show a second purchase completed; with two it is seen already when the
second request gets past its deletion, which is what `OneSuccessor` forbids.  No
handler of Catalog looks at two products; a subscription that is moved leaves one
for another, so the second of the instance is only sold.  Onboarding's needs
differ only in the table that is counted.  BillingCycle's dates lie on both sides
of the shortest month and its horizon is the longest a window can look back.  The
keys of a query cache do not depend on each other, which is why Screens follows
one pair at a time; one own change and one by somebody else give every order of
the two with a read.  The proofs remove the bounds of every module: the instances
are where a mistake would have shown first, and where liveness is checked.

Several instances are a *union of two* (`Bounds` in the `MC` module): the states
in which one half of the actions has happened, and those in which the other has.
The halves are chosen so that each property's actors are together in one of them.
TLC checks the states just outside the bound too, and does not go on from them.
In `billing_ledger`, `session` and `notifications`, whose bounds stand beside a
liveness property, liveness is therefore shown of the behaviours that stay inside
the bounds.  A behaviour whose next fair step leaves them is not followed further:
that can hide a counterexample beyond the bounds and makes up none within, since
ENABLED is that of the action, not of the bounded graph.

*Deadlock* is checked except where the modelled thing ends: the loops of
`schedule`, the people of `screens` (each signs in once), the requests of
`accounts`.

*Fairness.*  `Billing!FairSpec` makes the overdue cron weakly fair: it runs daily
and its update has no condition but the date and the status.  `Session!FairSpec`
makes each call's way through the interceptor fair: a request is answered or
fails (the browser reports either), and promise callbacks run.  It does not
make tokens expire, nor the stream or a user do anything.
`Notifications!FairSpec` makes the polls fair, which a timer sends, and nothing
else: not snapshots, not the stream.  All safety properties are checked and
proved without fairness.

*Type invariants* are proved (`TypeCorrect` and its like in the modules of
proofs), and are not part of the runs.

### What the runs show

*Billing.*  An item on two bills takes two passes that overlapped
(`RebillNeedsOverlap`).  The implementation plan's "Double cron run" - no
duplicates (`docs/implementation/PHASE_2_Delivery_Billing_Notifications.md:353`)
is thus true of runs one after the other (`OnePassNeverDoubleBills` proves it) and
rests on nothing but their not overlapping: no transaction, no unique key.
`TotalAddsUp`, `PaidWithinReceived` and `StatusBackedByMoney`
survive every interleaving and every crash, since each handler writes the
columns it relates from one read.  What does not survive is the agreement of
columns with rows, and `ColumnsAddUp` says exactly when it is lost: two calls of
the same kind on the same bill overlapped, or one died between its row and the
bill.  `MissedDuesAreExplained` (a PAID bill with a balance is no due) needs a
debit on the bill or adjustments that overwrote each other.
`VoidUndoneOnlyByStalePayment`: only a payment that read the bill before takes a
void back.  `LateBillsLeaveOpen` holds under the cron's fairness.

*Billing windows.*  No delivered item falls between the windows of successive
nights.  One marked late, or missed by runs that were stopped by another
distributor's missing price, has a grace of 6 days (weekly), 13 (bi-weekly) or 28
(monthly) in total, and is lost to every later run when that is used up or the
cycle changed (`LossIsExplained`); otherwise it is billed by the run that closes
its cycle (`BilledByClosing`).

*Subscriptions.*  Every step of the handlers is one of the agreement's
(`EndsByAgreement`), so nothing ends one-sided and nothing hangs in
PENDING_CANCEL without a request the other party can decide.  The waiting branch of
`confirmEnd` is dead code (`NeverWaits`, proved).  Without overlap and manual
status changes, rows and requests agree (`RequestsMatchStatus`).  Two open
subscriptions of one pair come from two creations in flight or from
`updateSubscription` reviving a row.

*Deliveries.*  After a generation that nothing overlapped, the list lacks
nothing until a subscription changes (`ListIsComplete`) - but it may hold too
much (`ListMatches` fails).  A completed run is reopened by any later generation
of its slot, or by a start that read it earlier, and by nothing else.  A
delivered item is taken back by an administrator or by a handler that read it
before (`RevertsAreStaleOrAdmin`), and lacks its quantity only where two updates
overlapped.  A day off is clear unless a generation was under way, its
declaration died halfway, or somebody put an item back to pending.

*Sessions.*  `OneSuccessor` rests on one thing, that deleting a row that is gone
fails: the mutant that ignores it breaks it.  The interceptor never leaves a
call in its queue (`CallsEnd`) and never refreshes twice at once (`QueueIsServed`,
proved).  A refresh fails only if its answer or that of an earlier one was lost, if
the token is past its 7 days, or if it was presented by another tab or by the
stream too, which refreshes without asking the interceptor
(`RefreshFailureIsExplained`).  A store with tokens and no user comes only from
a refresh that outlived a sign-out (proved).

*Accounts.*  `refresh` never asks whether a user is suspended; what holds is that
every session of a suspended user goes back to a sign-in that looked him up before
(`SuspendedSessionsAreOld`).  An invited customer is without an activation link
only while the invitation is under way or after it died half-way; nothing sends
another.  A pending account is signed in only after a reset, which does not
activate it.  A link sets two passwords only for requests that held it at once.

*Notifications.*  A `createMany` that loses the race for an `eventId` drops the rest of
its list, and still everyone is told, since the winner goes on (`EveryoneIsTold`).
While the stream is live nothing polls, so a snapshot that arrived late or fell
between the first snapshot and the subscription leaves the badge wrong
(`StaleBadgeIsExplained`); without the stream the polls put it right for good
(`PollsCatchUp`).  A toast comes twice only after the tab heard of an older row
than it knew.  Rows that reach the tab together share the toast of the newest, the
others never get one; if one of them is unread, that toast comes, unless the
snapshot's count was read before its latest row (`UnreadRowsPassWithAToast`).

*Screens.*  A page at rest lacks a change its user has made only for the pairs of
`Forgotten`, or where an answer was lost, a read failed or was sent before the
change (`OwnChangesShow`).  The cache outlives the sign-out, so the next person on
the tab sees the last one's data until an answer of their own has landed
(`OthersDataIsLeftover`).  A save undoes only what was on nobody's screen when it
was sent, save where a form is filled once (`SavesWhatIsShown`).  Typed text goes
only for an answer that differs from what filled the form
(`TypedTextLossHasACause`): the row has changed since, or the form was open before
its first answer, as on the setup page, and on the settings pages after a failed
read.  The customer's profile loses it without any news: its effect depends on the
store's user too, which `updateUser` makes anew when the page's own save is answered
and when the language is switched, and the form goes back to the cached answer.

*Onboarding and catalog.*  `identityVerified` is wrong only while a handler
still owes a sync, after one died before it, or after one wrote a count that
had been overtaken.  Each handler in flight may pass the document limit by one.
GO_LIVE lacks only what went away during the checks; steps are forgotten only by
a stale save.  A private product stays with its owner although checks and
writes are apart, because a product never becomes private again (proved).  A product
that is gone under a running subscription, and two active prices for one product,
each come about in the ways the properties list.

### Finding

`delivery_paused`: the implementation plan has the list match subscriptions with
pauses (US-7, `docs/implementation/PHASE_2_Delivery_Billing_Notifications.md:338`)
and a paused day not billed (US-9, line 340).  A planned quantity of zero skips the
subscription, and the item an earlier generation made stays PENDING with its old
quantity.

## 4. The proofs

TLC shows a property for one small instance; the theorems say it for any sets
of items, customers, handlers, subscriptions, users and days.  Every safety property
of the runs is a theorem.  The only assumptions are the named ones of the modules on
their constants, which TLC evaluates in every run: types, finite sets of items and
events, months of 28 to 31 days, at least one reporting handler, names for "nobody"
and "nothing" that are nothing else, and the list `Screens!Forgotten`.

**Billing_proofs.**  `TypeCorrect` comes first, with one lemma per action.
`RebillOnlyByOverlap` needs `RebillInv`: besides the property, that an item a
pass still holds is on no bill older than the pass's read (`Fresh`): without it
nothing relates the items in a handler's hands to the bills others create.
Every other action keeps what matters of a bill (`Core`), which is why payments and voids
need no case of their own.  `OnePassNeverDoubleBills` follows from it for a
single pass.  `TotalAlwaysAddsUp`, `NoMoneyInvented` and `PaidIsCovered` come
from `LedgerInv`: of each bill `LedgerOk`, and of each call in flight `CallOk`,
which bounds the stale columns it holds by the bill as it has become - received
only grows, so a base read earlier is still covered (`Grows`).  That
monotonicity is the argument why a lost update can never invent money.
`ColumnInv` says when none is lost: as long as nothing contends for a bill's
payments, at most one is in flight, the column is its base, and the rows are its
base or, after its first write, its base and amount; adjustments likewise
(`LossNeedsContention`).  `DuesInv` bounds the total a payment compares with: on a
bill without debits the total only falls, so what a payment read of it is still
enough (`MissedDuesNeedDebit`).  `VoidStandsButForStalePayments` needs no more than
the types: it is an action property, checked action by action.

**SubscriptionEnd_proofs.**  `EndInv` says of each request who has acted on it
(`EndOk`) and of each handler what its snapshot still says (`CallOk`); the rows
it relies on are only ever written in ways that keep that (`RowsKept`).  From it
come `EndingNeedsBoth`, `WaitingIsDead`, `EndingIsNeverStuck` and
`DuplicatesAreExplained`, for any number of handlers and requests.
`EndsAreAgreed` is the refinement: initial states map to initial states, and each
action, in the states of the invariant, to a step of MutualEnd or a stutter
(a transaction that closes a request is `Agree`, all its queries before are
stutters).  `CancellingIsAgreed` carries over what holds of MutualEnd by itself
(`AgreedHolds`, proved from its own two actions): a subscription that is ending was asked to end, and a
cancelled one by one party and with the approval of the other.  `MatchInv`
speaks of the subscriptions on which no two handlers met and which nobody edited:
status and requests match, one handler at most is at work, and what it read is still so
(`Current`) until its last write, which changes both together
(`MismatchNeedsRaceOrEdit`).

**Delivery_proofs.**  `Typed` says what each handler holds at each of its steps: which
rows it has read, and that the items it will write exist.  On it rest three
invariants.  `ListInv` gives `ListCompletes`: what a generation that is still
clean has read is what the subscriptions say, and each that wants something
is still on its list or has its item (`CleanOk`); after it, while the list is fresh,
every other generation in flight has read the same (`Current`), which is why
a second one cannot spoil it.  `QtyInv` gives `QtyLostNeedsOverlap`: an update about
to write no quantity will not leave the item delivered (`Leaves`), and two updates
on one item are in the history.  `AwayInv` gives `AwayDayClears`: whatever is pending on a
declared day is still on the list of the one handler that declares it.  None of the
three properties is inductive: the mistake would sit in a handler's hands before it
shows in the rows.  The two action properties follow from `Typed`, action by
action (`RevertsNeedStaleOrAdmin`, `ReopeningNeedsRelistingOrStaleStart`).

**Calendar_proofs.**  Schedule: `LoopInv` says that what is collected is what is due
before the cursor, and the cursor is in phase with the start, so no due day lies
within a stride.  `ScheduleIsExact` holds for every calendar with months of 28 to 31
days, every start, frequency and range.  The arithmetic modulo 2 and 7 is in lemmas
of its own.  BillingCycle: `getCycleWindow` answers a night with a window of dates;
the proofs turn it round.  The nights whose window has a given date are one stretch
`a .. b` (`Reaches`), which begins before the next cycle of that setting closes and is
long enough for the grace (`WeeksReach`, `MonthReaches`: any anchor days, any months of
28 to 31 days).  `LossIsExplained` is not inductive: the day an item is lost it has long
been late.  `SlackOk` counts its slack all along - of the nights of its stretch that
are over, each either came before it was delivered or missed it - so that once the
stretch is over the slack is the whole grace (`LossNeedsSlack`), and an item with no slack is
on a bill by the first of those nights (`BilledWhenCycleCloses`).

**Onboarding_proofs.**  `OnboardingInv` says of each handler in flight
(`HandlerOk`) that what it has read of documents, needs and steps still holds,
or that its history field `moved` says it was overtaken.  A write is right
exactly when the first alternative still holds, so `DriftExplained`,
`LiveLacks` and `StepsForgotten` follow at the write; none is inductive without
it, since they speak of the rows and the mistake is in a handler's hands long
before.  `LimitBounded` has an invariant of its own, `CountInv`, which counts
the uploads about to create a document with the documents there are; that it is
kept is an argument about cardinalities, for any limit and any number of
handlers.

**Catalog_proofs.**  `Grows` says that products change in one direction: none,
then private or global, then global for good, with the same owner as long as
there is one.  So what a handler has checked of a product stays true without a
lock, and `CatalogInv` may say of each handler and of each row it wrote that the
distributor may use the product as it is *now* (of a subscription that is being
moved, `SwitchesOk` says whose it is); `PrivateForGood` is the case of
a product that is still private.  `HistoryInv` adds that the prices a creation
looked at are silent or were switched on again (`PricesQuiet`, `CallsQuiet`,
hence `DuplicatePriceExplained`) and that a maker offers his product, gave it
up or is still at it (`MakersOk`, hence `MakerKeeps`).  `GoneInv` follows a deactivation: it counts
all the subscriptions it has to, or its product was promoted meanwhile (`Sees`), so
each that is active once it has counted is one it could not see (`Counted`); that
outlives the write, and `GoneProductExplained` is what remains of it.

**Access_proofs.**  Accounts: `AccountsInv` says what a request may still rely on
after its first query.  `Ages` dates every look-up and session by the suspensions before
it, so that while one lasts all that signs in goes back to before it: that is
`SuspensionBarsNewcomers`, and it needs `Roles` and `Held` - links and the
requests holding them are of the kind of account they were made for - because an
activation writes ACTIVE without asking, and would lift a suspension if it could
meet one.  `Unasked` (how a pending account came by a password) gives
`PendingNeedsReset`, `UnreachableIsExplained` is inductive beside `Fresh`
(`InvitationsComplete`), and `Links` (who holds which link) gives
`LinksAreUsedOnce`, for any number of requests and links.

Session: after the types, four invariants.  `OneInv`: a row that is
still there has bought nothing and is buying nothing, so the one request that gets
past its deletion is the only one (`OneSuccessorHolds`).  `QueueInv`: a tab that
refreshes has exactly one call at it, and only then are calls queued
(`QueueIsServedHolds`).  `UserInv`: unless a sign-out overtook a refresh, tokens
come with a user (`UserlessOnlyByLateRefreshHolds`).  `TokenInv` says where a spent
token can be: lost, shared, in the hands of the one call that trades it, or gone
from the tab, from localStorage and from every refresh, because the pair it bought
replaced it; so whoever comes with it a second time is a second tab or a stream
(`RefreshFailureExplained`).  A row past its 7 days stays there and stays so
(`OverdueGrows`).  It takes `FreshGot`, that a pair on its way to
the browser is nobody else's yet, and `QueueInv`, that a tab has no two calls
refreshing.  `OneInv` and `TokenInv` are proved of kinds of steps (`Kinds`) rather
than of the 24 actions.

**Tab_proofs.**  Notifications: everyone is told because some handler is `Ahead`, the
one that inserted last: a handler loses the race for the unique key only to another's
insertion, and what is told, what it holds and what it has left cover all events
(`TellInv`, hence `AllAreTold`, for any number of handlers; it takes one to exist).
The badge is about snapshots, wherever they are - being read, on the wire, polled or
cached: `FaithInv` says what one that has read the count or the latest row at some
version still says of the rows, and `FreshInv` that the last change is told by a
snapshot under way, or was heard, or may have been missed; at rest that leaves
`WrongBadgeNeedsMiss`.  `OrderInv` (later readings of the latest row show no older one)
and `ToastInv` (beyond `prevLatestRef` nothing was toasted) give
`SecondToastNeedsDisorder`; `SilenceNeedsATornSnapshot` follows from what a faithful
snapshot with a count of zero says of all rows up to its latest: they are read.
Screens: `PairFacts` goes through the pages once, to show that nothing is read or
changed on the login page.  `LeftoverInv` adds to `OthersDataIsLeftover` that the read
under way is the present user's: without it a late answer of the last one's could
replace his own.  `FormInv` says that a form that follows its query holds what is on
the screen, or is empty while nothing is, and that what it sends it sent so
(`SavesAreOfWhatIsShown`).  `OwnInv`
explains every answer older than its user's own change, read (`ReadOk`) or cached
(`ShownOk`): it will be announced, was announced to a read under way, or is old and being
read again; `OwnChangesAreShown` is what is left of that at rest.  Which pairs the hooks
forget is data: `ForgottenIsExact` is an assumption that TLC evaluates over all pages,
for both feature flags on, and so this theorem alone asks for both flags.

Only model-checked: the liveness of Billing, Session and Notifications
(`LateBillsLeaveOpen`, `CallsEnd`, `PollsCatchUp`), which with ENABLED is out of the
prover's reach.  So is what a recursive definition computes for every input
(induction over data); there is none here, nor a RECURSIVE operator.

## 5. What is left out

Wording, formatting, mails, audit rows and statistics are left out everywhere.
`Charge` hides prices and rounding to cents, `Window` in Billing the computation of
billing windows (which is BillingCycle), `want` the composition of pauses and
extras, the verdict on a document the OCR and the name matcher.  The clock is
modelled in BillingCycle only: elsewhere due dates pass and tokens expire at any
time.  One distributor, date, customer-distributor pair, address or tab is modelled
at a time where nothing relates two of them.  The database executes each query
atomically (read committed); the queries of a Prisma array transaction are one
step.  Screens takes a form's fields as one value and the answer of an endpoint as
the set of facts its pages show.

Not modelled, and why: mail (one call to a provider per message, failures logged
and swallowed); geocoding and distances (external, geometry); OCR and name
matching (external engine, string heuristic); the admin's statistics and audit
rows (read or appended, nothing computes with them); the public pages, the
middleware's redirects and the translations (no shared state); guards and module
wiring.  `assertBeforeCutoff` (`BS/customer/customer.service.ts:762`), which guards
`updateSubscription`, adds a day to now before it sets the cutoff hour, so it refuses
nothing: a model of it would be a guard that is always true, and no property could
tell it from none.  Pauses and extras do have a cutoff
(`assertBeforeCutoffForDate`, line 775); it compares with the time of day, and is
left out with it.

## 6. The order of work, and what could follow

Written by importance: the money (Billing), the agreement of the two parties
(SubscriptionEnd), the day's work (Delivery), who is signed in (Session), which
days are due (Schedule), then Onboarding and Catalog; after them BillingCycle,
Notifications, Accounts, the abstract agreement (MutualEnd) and the pages
(Screens).  The proofs followed in about that order, the ones of Delivery,
BillingCycle, Notifications and Screens last.

What could follow: an abstract ledger that charges each delivery once unless
passes overlap, with Billing and BillingCycle shown to implement it; the
composition of Session and Accounts, whose refresh tokens are the same rows.
