# Tecnikos in TLA+

Tecnikos is a field-service back end: a company opens **service orders** ("OS"),
offers them to technicians over public links, runs a configurable **workflow**
on them, and settles and collects the money. The code is NestJS over Prisma and
PostgreSQL (`src/backend/src`), with a Next.js frontend that keeps no
authoritative state.

One fact about the code decides what is worth modelling. Requests, crons and
fire-and-forget tasks run concurrently, PostgreSQL is at its default READ
COMMITTED, **no row is locked when it is read**, and almost every handler has
the shape *read, check, compute, await, write by id*. Only the two acceptances
of a link are Serializable; a handful of unique indexes and conditional updates
do the rest. So the state a handler has checked may be gone when it writes, and
the tests of the repository, which call one handler against mocks, cannot see
it.

## 1. Inventory

| Component | State it keeps | Operations | What is hard, what makes it correct |
|---|---|---|---|
| Service order desk (`service-order`) | the `ServiceOrder` row: status, technician, timestamps | create, updateStatus, assign, reassign, cancel, remove, dispatchNotifications, update, duplicate, pause | stale checks; terminal statuses stay, an accepted order has a technician, timestamps survive rework |
| Technician's link (`public-offer`) | links (`ServiceOrderOffer`), one-time codes (`OtpCode`), the same order row | createOffer, requestOtp, acceptDirect, acceptWithOtp, markEnRoute, markArrived, declineAfterAccept, pause, GPS | acceptance against assignment; one technician, one use of a code |
| Settlement (`finalize`, `approveAndFinalize`, `finance.confirm`) | `ServiceOrderLedger` (unique per order), `FinancialEntry` rows | three handlers that may run at once, two of them skipping entries launched early | billed once, all or nothing |
| Financial entries (`finance`) | `FinancialEntry` status | pay, reverse, cancel, delete, split, renegotiate | paid stays paid, open entries go with the cancelled order |
| Cash accounts, closed months, transfers | a balance per account, incremented by every handler; `AccountTransfer` rows; closed months | payments, reversals, rebalance, transfers, close, reopen | the balance equals what is posted; a month closed stays as it was |
| Bank reconciliation | statement lines, and the entry, transfer and fee a match makes | match, unmatch, ignore | one payment posted once; undoing a match undoes what it did |
| Installments, card settlements, collection | installments, settlements, rules | settle, daily cron | one payment posted once |
| Workflow engine (`workflow-engine`) | step logs, unique by (order, stepOrder) | executeWorkflowFromStart, advance, reset, resume | each block done once and in order, effects outside the transaction, delays held in memory |
| Workflow waits (`wait-for`) | `PendingWorkflowWait` | event trigger, cron expiry, cancellation | resumed exactly once, never after cancellation, eventually |
| Automation rules | rules, executions | dispatch after each mutation | writes status and technician without a check |
| Sessions and codes (`auth`) | sessions, one-time codes | login, refresh, logout, reset, verify | one live session per rotation; nothing survives a reset |
| Quota and code generator | counters, the period of the subscription | create, duplicate, createOsFromQuote, generateCode | count-then-insert; two windows; a counter behind the codes that exist |
| Quotes | status, total, public link, the order it became | create, update, send, approve, reject, cancel, duplicate, approvePublic, createOsFromQuote, expiry cron | a decision stands, the total is the sum of its parts, one order per quote |
| Tenants and billing (`asaas`, `tenant`) | tenant status and plan, subscriptions, add-ons, the limits of the company in the tenant's own schema | signup, upgrade, downgrade, add-ons, webhooks, daily crons, onboarding | webhooks twice and out of order against crons; no transaction spans the schemas, nor the gateway; charged once, onboarded once, not locked out when paid |
| Boletos, service invoices, contracts | document status | issue, webhook, poll, timeout | one outcome, webhook against cron |
| Goods invoices, SPED, pool budgets, reports, catalogue, chat, notifications, frontend | rows or none | parsing, calculation, CRUD, I/O | no protocol (see section 7) |

How they interact: every handler of the desk, after its write, fires the
automation and `checkEarlyTrigger` of the waits without awaiting them; the
link, the workflow's system blocks and automation write the order's row
directly, past the desk's transition table; the workflow's `FINANCIAL_ENTRY`
block calls `finance.confirm`; cancelling an order writes its entries, and
deleting an entry reads its order. Payments, transfers and reconciliation meet in
the balance of an account, which each increments on its own. A quote becomes an
order, and deleting the order gives the quote back. The quota of orders is what
billing writes into the company, counted in the period billing advances.

## 2. Modules

| Module | Models |
|---|---|
| `OrderStatus` | the statuses, `ALLOWED_TRANSITIONS`, `TERMINAL_STATUSES` |
| `OrderState` | the rows of one order, and a request as a list of transactions still to run: what `prisma.update` and `$transaction` do, the unique index on the ledger, first-updater-wins of a Serializable transaction |
| `OrderDesk` | the desk's handlers |
| `OfferPortal` | links, codes and the technician's handlers |
| `OrderMoney` | early launch, the three settlements, the entries' own transitions |
| `ServiceOrder` | composes the three against one set of rows; the properties |
| `Settlement` | the abstract specification of a settlement, which `ServiceOrder` implements |
| `MCServiceOrder` | the instances TLC checks: which handlers each run exercises, symmetry |
| `ServiceOrderProofs` | the theorems |
| `WorkflowEngine` | the workflow of one order: start, timers, advances, waits, their events, the cron, restarts of workflow and process |
| `MCWorkflowEngine` | its instances: templates, what the environment does |
| `WorkflowProofs` | its theorems |
| `CashLedger` | entries with amounts, balances, transfers, closed months, and the handlers that post |
| `Reconciliation` | statement lines: match, unmatch, ignore |
| `Treasury` | composes the two; what the reports derive from the rows; the properties |
| `MCTreasury` | its instance |
| `TreasuryProofs` | the theorems of `Treasury`, and the lemmas about sums over finite sets (`SumFunction` of the community modules) they rest on |
| `Subscriptions` | the rows of billing, the single queries and gateway calls its handlers are made of |
| `Billing` | the tenant's requests, the webhooks, the crons, the gateway, time; the properties |
| `MCBilling` | its instances |
| `BillingTypes` | the types of billing, and what each of its handlers in flight has left to write |
| `BillingProofs` | the theorems on onboarding and on paying tenants |
| `ChargingProofs` | the theorem that a tenant is charged once |
| `LimitProofs` | the theorem that the limit of the company fits its plan and add-ons |
| `Intake` | the rows of quotes and orders, the quota, the code generator, the calendar |
| `Quotes` | the handlers of quotes, those of orders that bear on the quota, the expiry; the properties |
| `MCQuotes` | its instance |
| `QuotesProofs` | the theorems of `Intake` and `Quotes` |

### How a handler becomes an action

`UpdateStatus`, `Finalize`, ... are the handler **up to its first write**: the
guard is its reads and checks, and what it will write is computed from what it
read and put in `req[r].todo`, a list of transactions. `Commit(r)` runs the head
of that list in one step, or gives up when the unique index of the ledger or
the isolation level refuses it; `ReadEntries(r)` is the second read some handlers
make (the entries that exist, or the open ones) just before their transaction.
Between any two steps of a request every other request may run. A handler
therefore writes what it decided on a state that may be gone, as in the code.

`stale` is what a Serializable transaction has read and someone else has
overwritten since it began: PostgreSQL refuses such a transaction its own write
of that row, which is `Fails`.

Columns: `status, assignedPartnerId, directedTechnicianIds[0], acceptedAt,
enRouteAt, arrivedAt, completedAt, deletedAt`; of a timestamp, only whether it
is null. Entries: type, status, whether the settlement or an early launch made
them, `deletedAt`.

### Abstractions

- One order, with a client, a value and a commission, so that both entry types
  are billable. In this model entries have no amounts and no accounts; those are
  `CashLedger`'s, where entries have no order.
- `FINALIZADA` is in the enum and in the transition table, but no handler modelled
  here writes it.
- The workflow and the automation a handler fires are not steps of this model;
  the configuration they would supply (`autoStartExecution`, `onDecline`) is
  chosen freely by each call.
- `declineAfterAccept` first writes two columns that are not modelled; such a
  write does not count as overwriting the row. The model then refuses fewer
  Serializable transactions than PostgreSQL does: it has more behaviours, and
  what holds in it holds with the extra write.
- `reassign` on an order that is not `RECUSADA` is `assign`, which reads and
  checks again, and is that action.
- A code's expiry and its attempt counter are left out; acceptance with a wrong
  code changes nothing, since its transaction is rolled back.
- `Existing` counts soft-deleted entries, because the code's query does.

### How the workflow engine becomes actions

A **task** is a piece of asynchronous work: a request that advances, a start of
the workflow in the background, the timer of a long delay, an event, a call of
the cron. Its record says where it is (`pc`), at which block, with which step
order, and which rows its open transaction has inserted (`own`). One action is
what happens between two awaits:

| Code | Actions |
|---|---|
| `executeWorkflowFromStart` | `FromStart`, `Wake`, `LogFromStart`: no transaction; a conflict on a step order is swallowed and counted |
| the callback of a delay over five minutes | `Timer`, `LogTimer` |
| `advanceStep`, `advanceBlockV2` | `AdvanceStep` (the read: current block, next step order), then `InsertLog`, `WalkBlocks`, ..., `CommitLogs`, `ReadProgress`, `Conclude` |
| `submitPosition` of the link | `SubmitPosition`, then as above |
| `resumeFromBlock` | `ResumeFromBlock` (the read), then as above |
| the end of an interactive transaction that does not commit | `Abort` (its step order is taken), `Rollback` (one of its queries fails, or it is over the five seconds Prisma gives it), `TimeOut` and `FinishLate` (those seconds end while a system block runs) |
| `checkEarlyTrigger`, `resolveWait`, `handleExpiredWaits`, `logWaitResolution` | `CheckEarlyTrigger` / `HandleExpiredWaits` (the list), `ResolveWait` (the conditional update), `LogWaitResolution`; `CancelWaits` |
| desk | `UpdateStatus`, `Assign`, `Reassign`: one step each, their own races are those of `ServiceOrder`; the event goes to a task of its own |

`executeSystemBlock` writes on another connection than the transaction that
calls it, so `WalkBlocks` changes `status` at once, and a rollback or a crash
does not take it back. The unique index on (order, stepOrder) lets a second
inserter wait for the first: while the key is `Held`, the insert is either not
taken or given up (`Abort`, the transaction's timeout).

A transaction may be rolled back at every point, before, between and after its
system blocks (`Rollback`), without a restart and while the request lives on. When its
time is over during a system block (`TimeOut`) its rows are gone and others may
insert them, while the block still runs: its effect comes later (`FinishLate`),
perhaps after the next advance has executed the same block again. A STATUS block that
waits for the row its own transaction has locked ends so too. `rollbacks` counts both, and
`MaxRollbacks` bounds them. What is not in a transaction is one statement, and is taken
to fail only where the code says what happens then: a system block (`MayFail`) and a
log whose number is taken.

Abstractions: a template is a linear list of blocks with START and END left out
(branches are in the plan); every actionable type is `ACTION`; `NOTIFY` stands
for every system block that does not write the order; what a block stores is
left out; all waits have one configuration. `performed`, `run`, `crashes` and
`rollbacks` count for the properties and are read by no action but their bounds.
`SubmitPosition` sets `proximityEnteredAt` and reads the progress in one step;
the position's own preconditions on the link are left out.
`Presses` says which kinds of block the technician's client submits: the code
takes any current block, and with `{"ACTION"}` the client is one that only
submits blocks that require interaction.

### How the money, billing and quotes become actions

The same shape, with the granularity the code has. In `CashLedger` and
`Reconciliation` the unit is the transaction: a handler's `todo` is a list of
transactions, each a set of row updates, creations and increments (`Tx`), and
`Commit` applies one. All handlers have one, but `partialPay`, which has a second
phase (`PayPart`) that reads and checks again, and `unmatchLine`, whose updates
are separate queries. In `Billing` and `Quotes` almost nothing is in a
transaction, so the unit is the query: `todo` lists single writes, reads in the
middle (`ReadFloor`, `CheckFloor`, `ReadOnboard`, `ReadOthers`, `CountOrders`, `CheckCode`,
`ReadHighest`, `ReadItems`) and calls of the gateway; what a read decides replaces
the head of the list. The floor under an expiring add-on takes three: the plan is read
(`ReadFloor`), then the company (`CheckFloor`, with the plan as it was), and then the
limit is written. `soft` says how much of the list one failing query takes with
it: the rest of its `try` block, or the rest of the handler.

| Code | Actions |
|---|---|
| `createEntry` with `resolveAutoPay`, `updateEntry`, `changeEntryStatus`, `partialPay`, `deleteEntry`, `renegotiate` | `CreateEntry`, `UpdateEntry`, `Pay` / `Reverse` / `CancelEntry`, `PartialPay` and `PayPart`, `DeleteEntry`, `Renegotiate` |
| `rebalance`, `transfer.create`, `closeStatement`, `reopenStatement`, `assertNotClosed` | `Rebalance`, `CreateTransfer`, `CloseStatement`, `ReopenStatement`, `IsClosed` |
| `matchLine` (an open entry or a paid one, with a transit account or without), `unmatchLine` (four flows), `ignoreLine`, `unignoreLine` | `MatchLine` (`MatchOpen`, `MatchPaid`), `UnmatchLine` (`Undo`), `IgnoreLine`, `UnignoreLine` |
| `createSignupCheckout`, `createUpgradeCheckout`, `schedulePlanDowngrade`, `cancelPendingDowngrade`, `createAddOnCheckout` | `Subscribe`, `Upgrade`, `Downgrade`, `CancelDowngrade`, `BuyAddOn` |
| `handlePaymentWebhook`, `handleSubscriptionWebhook`, `tenant-onboarding.onboard` | `UpgradePaid`, `AddOnPaid`, `CyclePaid`, `CycleOverdue`; `ExtCreated`, `ExtDeleted`; `ReadOnboard`, `InsertCompany` |
| `checkOverdueSubscriptions`, `applyPendingDowngrades`, `expireAddOnPurchases` | `CheckOverdue`, `ApplyPending`, `ExpireAddOns` |
| quotes: `create` ... `createOsFromQuote`, `approvePublic`, `rejectPublic`, `expireQuotes` | the actions of the same names |
| `service-order` `create`, `duplicate`, `remove`, `getBillingPeriod`; `generateCode`; `advanceBillingCycles` | `CreateOrder`, `DuplicateOrder`, `RemoveOrder`, `InCycle`; `Increment`, `CheckCode`, `ReadHighest`, `CorrectCounter`; `AdvanceCycle` |

The payment gateway is outside the repository and marked external in the map: it
charges, is paid or not, ends subscriptions, and sends webhooks, which wait in a
set (`asaas.post`) and are taken in any order, two for a card payment. They are
never sent again, because the controller answers 200 whatever happens.

**Slips.** These handlers do lose their invariants in some races and failures, and
in some calls alone. A property that said nothing but `Balanced` would only be
violated by the first of them. Each of these models therefore names, in a variable
that no handler reads (`slips`), every way the code has of losing a property as a
step takes it, and the properties are stated of all the behaviours that no slip
explains. The names are part of what is claimed: they are all the ways there are,
within the bounds, and everything else keeps the property. A behaviour is not
explored beyond its first slip (the constraint `BeforeFirstSlip` in `Treasury`, the
guard `Go` in `Billing` and `Quotes`). Each slip can happen.

| Slip of `Treasury` | What happens |
|---|---|
| `stale` | a transaction commits on rows or months changed since they were read: two payments of one entry, two matches, a month closed meanwhile, an unmatch whose rows another request has written |
| `deleted`, `edited` | a paid entry is deleted, or its amount edited; the balance stays |
| `uncredited` | paid without naming an account the entry already has, or with the balance skipped |
| `legacy` | no transit account: the bank takes the line's amount, whatever the entry's is |
| `gross` | the match moves the gross amount of an entry with a commission |
| `undo` | a match is undone by the rows as they are now, not by what it did: the gross amount of a net posting, a fee credited back that is not posted, the line's amount where others were posted |
| `torn` | `unmatchLine` stops between two of its queries |

| Slip of `Billing` | What happens |
|---|---|
| `halted` | a query or a call of the gateway fails, or the process stops (`Halt`) |
| `again` | an upgrade is applied by each webhook of its payment |
| `unpaid` | the plan of an unpaid upgrade is applied (section 5) |
| `revived` | a payment, or its delay, brings a cancelled subscription back |
| `plans` | two changes of the plan at once; a floor written, or a company inserted, with the limit of a plan the tenant no longer has |
| `credits` | an add-on confirmed by two webhooks at once, or expired before it is credited |
| `subscribed` | a second subscription is opened beside one that is not active, by two signups at once, or beside an upgrade in flight |
| `mislinked` | the webhook of a new subscription comes late, and links it to the row just made for the next one (`asaas.service.ts:1254`) |
| `locked` | a tenant is blocked or suspended by a handler that has not seen it pay |
| `unlocked` | an upgrade is paid by a tenant that is blocked, and it stays blocked |

| Slip of `Quotes` | What happens |
|---|---|
| `rewound` | a correction of the code counter sets it back |
| `raced`, `month`, `lapsed` | the quota is counted by two before either inserts; in the calendar month, though the cycle began before; past the end of a cycle not advanced yet |
| `twice`, `broken`, `relinked`, `dead` | two orders made of one quote at once; a failure before the link; a quote relinked by hand; linked to an order deleted meanwhile |
| `overwritten` | a quote is written by a handler that has not seen its last write |
| `copied` | `duplicate` keeps the total and drops the value of the products |

What these models leave out: cards (their settlements are in the plan), check and
instrument data, orders of an entry; yearly cycles, credits, promotions and
the gateway's invoices; the fields of a quote that enter no total. A discount
enters a total as the value of products does, so one value stands for them all. A
subscription's dates are whether they are past (`overdue`, `due`).

## 3. Runs

### The order

No run of this part uses fairness: all its properties are safety.

| Run | Instance | Shows |
|---|---|---|
| `Acceptance` | 2 requests, 2 links, 2 technicians, one code each; accept, assign, dispatch, decline, finalize | types, no code used twice, an accepted order has its technician, acceptance displaces nobody |
| `Settling` | 3 requests; finalize, approve, confirm, early launch, cancel | settled once; refinement of `Settlement` |
| `Life` | 1 request, every desk and link handler, finalize and approve, 2 technicians | completion time through rework and reassignment; which handlers leave CANCELADA |
| `MoneyLife` | 1 request, money handlers, cancel, remove, assign, at most 2 entries before a launch | one receivable; cancelling cascades |

Bounds. Two requests are what a check-then-write race takes; three let the
ledger's row be hit by two losers. Two technicians distinguish "his already"
from "someone else's"; two links, "this link" from "the order's links".
`MaxEntries` only stops new early launches (a launch may start below it and add
two). `MaxOtp = 1` already lets two requests hold the same code. `Life` and
`MoneyLife` have one request because their properties do not hold under races
(section 5). The type invariant is checked where the requests
are most varied and proved for the rest.

A run without symmetric technicians lists none; symmetry is only over model
values that no property or constant tells apart. Deadlock is checked in
`Acceptance`; in the others the system really may stop (a deleted order whose
handlers have all run).

### The workflow

| Run | Instance | Shows |
|---|---|---|
| `Waits` | 3 tasks; delay left to a timer, action, wait, STATUS, action; advances, events, timeouts, cancellation, one crash, one rollback, system blocks may fail; a million states | no step behind a wait before it is over; steps numbered without a gap; no block done twice but for a crash or a rollback; a wait resolved once |
| `Progress` | 2 tasks, 2 runs of the workflow by refusal and reassignment; a short delay among system blocks and two waits; advances, positions, timeouts that end the flow, cancellations; rows in the public schema; fairness | a start that sleeps finishes its system blocks although the technician works meanwhile; every wait ends |
| `TenantWait` | 1 task, rows in a tenant's schema | a violation (section 5) |

Bounds. `Task` is how much asynchronous work is in flight: two tasks make every
race of two; the third lets a cancellation or a second event come between. The
flows are the shortest that have the blocks in question before and behind each
other. `MaxRuns` bounds reassignments, `MaxCrashes` restarts of the process, `MaxRollbacks`
the transactions rolled back for another reason than a taken number: one of each is enough
to execute a block again, and with both each may repeat it. `Progress` has no rollbacks:
an advance that is rolled back and one that was never made leave the same waits
and the same start. `Waits` has one run of the workflow, because a restart keeps the waits of the run
before (section 5).

Fairness (`FairSpec`, runs `Progress` and `TenantWait`). A task that is started
goes on (`WF` on `Continue`: Node runs its callbacks, PostgreSQL answers, timers
fire, and there is no crash or rollback in these runs); time passes (`WF` on `Expire`); the
cron is called every minute whatever else runs, so it is called again and again
whenever a slot is free (`SF`, because the slots of `Task` are a bound of the
model and may be taken in between). Nothing is assumed of the technician or the
desk.

### Money, billing, quotes

| Run | Instance | Shows |
|---|---|---|
| `Ledger` | 3 requests in all, 2 at once, of every handler; bank and transit account (or none), 2 months, lines of +1 and -2, entries of 2, one with a commission, amounts of 1; half a million states | the balance of every account at rest is what is posted; an entry is matched with one line; a closed month keeps its sum. Proved of every instance |
| `Billing` | 1 request of the tenant, its consequences at the gateway, every webhook and cron, 2 handlers at once, one monthly charge; tenants not signed up, with a downgrade that is due, and, without a subscription at the gateway, with an add-on about to end and with both; 1.2 million states | onboarded once, charged once, limits within the plan and its add-ons, a paying tenant not locked out |
| `PastDue` | signup, upgrade, charged or covered by credit, and the daily job that blocks; a subscription the gateway has not announced yet; fairness | a subscription past due is paid, ended, or its tenant blocked |
| `UnpaidUpgrade` | as `Billing`, 1 handler of requests | a violation (section 5) |
| `Intake` | 3 requests in all, 2 at once, of every handler; quota 2, 2 days; the month ends with the first, the cycle with it or a day later; counters behind the codes of imported rows; half a million states | codes free until inserted, quota kept, one order per quote, links sound, totals, decisions |

Bounds. A race takes two handlers at once; three requests are prepare, act,
undo (create, match, unmatch; approve, make the order, delete it). One amount a user
enters is half of the entries' first one: a part, a fee and an edit that
differs. Two months, two accounts and two lines tell this one from another. `Limit`
2 with one old order is reached by one creation and passed by two. A new
month starts on the second day, with the new cycle or within the old one, so that
the two windows agree or differ. `MaxRequests = 1` in `Billing` is
one request of the tenant, and everything it sets off; webhooks, crons and the
gateway are not counted. The tenant with both an add-on and a downgrade is there for the two
jobs that race for its limit. Those with an add-on are not charged monthly: that webhook
writes a limit only where a downgrade is pending, and the tenant with a downgrade is
charged, and may buy an add-on that ends. `MaxCode` and `MaxRows` stop insertions, not checks.
Deadlock is not checked: every request is optional, and behaviours end at their
bounds.

Fairness (`Billing!FairSpec`, run `PastDue`): a handler that has begun goes on (`WF`
on `Step`), the cron of seven o'clock runs (`WF` on `CheckOverdue`, in a slot of its
own), days pass (`WF` on `Time`). Nothing is assumed of the tenant or the gateway:
it may never pay.

## 4. Proofs

TLC checks instances; the theorems hold for every value of the constants. Each is
proved from an inductive invariant, which TLC has checked first as an invariant of
the run.

### The order (`ServiceOrderProofs`)

For all constants that satisfy the named assumptions (`NoTech` is no technician, the
bounds are naturals, `Handlers` are handlers):

| Theorem | States |
|---|---|
| `TypeCorrect` | `Spec => []TypeOK` |
| `AcceptedOrderHasTech` | `Spec => []AcceptedHasTech` |
| `AcceptanceKeepsTech` | `Spec => AcceptKeepsTech` (an action property) |
| `OrderSettledOnce` | `Spec => []SettledOnce` |
| `ImplementsSettlement` | `Spec => SettlementSpec` (refinement) |
| `DoneOrderHasCompletion` | `Alone`: `Spec => []DoneHasCompletion` |
| `ClientBilledOnce` | `Alone`: `Spec => []OneReceivable` |
| `FewReviveCancelled` | `Alone`: `Spec => CancelledLeftOnlyBy` (an action property) |
| `CancellationCascades` | `Alone`: `Spec => CancelCascades` (an action property) |

`Alone == \A r, s \in Request : r = s`: one request at a time, of any handlers, for any
technicians, links and bounds. It is not there for the proof: two requests at once
break each of the four (section 5), because what a handler writes by id is then
decided on a row that is gone. What they say is that nothing else does.

`AcceptedHasTech` is not inductive: a pending write that clears `acceptedAt`, or
sets it without a technician, decides whether it survives. The inductive
invariant is `IInv == TypeOK /\ AcceptedHasTech /\ InFlight`, where `InFlight` says
of every transaction in flight what its handler guarantees whatever the row has
become: one that clears the technician clears `acceptedAt` too; one that sets
`acceptedAt` either names a technician or is a Serializable acceptance that saw one,
and then either the row still is what it saw or `stale` says it will be refused.
The proof has one lemma for the plans of each module (`DeskPlans`,
`PortalPlans`, `MoneyPlans`), one for each kind of step (`BeginKeeps`, `LinkKeeps`,
`GiveUpKeeps`, `ReadKeeps`, `CommitKeeps`), and lemmas on sequences. Settlement
follows from `StepSettles`: a step that adds entries of a settlement is the commit
that inserts the ledger row, and no step takes either away.

The four theorems of one request rest on `AloneInv == IInv /\ DoneHasCompletion /\
OneReceivable /\ Fitting`. `Fitting` says of the k-th transaction still to run what it keeps:
one that sets a final status sets the completion with it, or is the first and finds it
set (`Completes`); one of a handler not in `Revives` leaves a cancelled order cancelled
(`StaysCancelled`); one that makes a receivable is the first and finds none, and an
entry is given a status only while it lives (`BillsOnce`); one of a
cancellation cannot be refused, and cancels what is open (`Cascades`). The lemmas are
`DeskFits`, `PortalFits`, `MoneyFits` for the plans of handlers, `ReadFits` for the second reads and
`ApplyFits` for a commit.

### The workflow (`WorkflowProofs`)

| Theorem | States | Of which workflows |
|---|---|---|
| `WorkflowTypes` | `Spec => []TypeInv` | all |
| `ResolvedStays` | `Spec => ResolvedOnce` | all |
| `StepsStayContiguous` | `Spec => []StepsContiguous` | `Growing`: no reassignment |
| `BlocksDoneOnce` | `Spec => []DoneOnce` | `Linear` |
| `WorkflowTypeCorrect` | `Spec => []WorkflowTypeOK` | `Linear` |
| `NoStepBehindWait` | `Spec => []WaitsRespected` | `Linear` and `Separated` |
| `DelaysContinue` | `Spec => [](crashes = 0 => DelayContinues)` | no write fails, and no long delay before the first action |

`Linear` is `Growing` with a client that only submits actions, and no positions;
`Separated` says that every WAIT_FOR of the flow follows an action with no other
WAIT_FOR between. The flow, the number of tasks, of restarts and of rollbacks, the events, what a
timeout does and where the rows live are arbitrary. The hypotheses are not there for
the proof: without each of them the property is false of the code, by a behaviour
listed in section 5 (a step order counted before a reassignment, a pending wait that
the client or a position completes, a wait that a start passes over; and of two waits
in a row the second is only opened when the first is resumed, and until then the
technician can go on behind both; a write that fails or a restart drops a block for
good, and a delay left to a timer the blocks behind its first conflict).

The proof first says of every action what it makes of its task (`Turn`, for the rollbacks
`Rolls`, and the lemmas up to `Turning`), and then shows five invariants, the first four each on top of those before:

- `TypeInv`. `WorkflowTypeOK` is not inductive, since it bounds the step orders by the
  flow, which only holds when no block is logged twice. `TypeInv` says instead what a
  task may be doing at each point (`IsTask`), and what it refers to.
- `Chain`: the step order of a task that walks is one past the rows it has inserted,
  and those follow on a prefix of the logs, as long as they were when it read them. The
  unique index then works as a version check: of all tasks that have read the same
  list one inserts, and any other finds its first number taken or held, before it has
  any row of its own to lose.
- `Once`: a block may be done by one task alone. A task that walks comes from the action it
  has logged or from the wait it has resolved (`Led`), no two from the same, and the
  start is ahead of what is done of the opening, which no transaction enters. `Due(c)` says
  that somebody may still come to `c`: its action is not taken, or its wait not resumed,
  or a task is on its way. A block is taken only when it is not due any more
  (`NotAgain`). What makes one executed again is a restart or a rollback, which take the walk
  from the task that was on its way. A task that still executes a block behind its rolled
  back transaction (`Late`) counts as having done so: with `Effects(c)` for
  `performed[c]` and these, `Effects(c) <= crashes + rollbacks + 1`, and
  `<= crashes + rollbacks` while `c` is due. No rollback reaches the opening.
- `Respected`: an action is logged in one transaction with all that follows up to the
  next wait (`Whole`), so that an advance whose read saw the action saw the wait
  too; the wait is opened by that commit (`OpenedFor`), and the read passes it only when it is over.
- `Reaching`, on top of `TypeInv` alone and with reassignments: until a restart, each system
  block before the first action has been executed since the workflow began, or a start
  is before it (`Comes`), which the conflicts of its logs do not end.

### Quotes and the quota (`QuotesProofs`)

For every number of requests, quota, price, validity and calendar, and all tables
that `Init` admits, every property of the run `Intake`:

| Theorem | States |
|---|---|
| `IntakeTypes` | `Spec => []IntakeTypeOK` |
| `CodesStayFree` | `Spec => []CodeStaysFree` |
| `TotalStaysSum` | `Spec => []TotalIsSum` |
| `DecisionsStand` | `Spec => DecisionStands` (an action property) |
| `QuoteBecomesOneOrder` | `Spec => []OneOrderPerQuote` |
| `LinksStaySound` | `Spec => []LinkSound` |
| `QuotaStaysKept` | `Spec => []QuotaKept` |

None of them is inductive: each is decided by what a request in flight is about to
write. The invariants say which queries each request has left and what it has read that
still holds: a code drawn and checked is not drawn by another and not in the table
(`Drawn`); the row a quote's writer will write is the one it saw, with the total
that fits its parts (`FitInv`); whoever will link a quote to an order has it unlinked,
alone, and the order made is not linked elsewhere (`OneOrder`, `LinkInv`); a creation
in flight has a place in the cycle left for it (`Quota`). All but the types hold only
while `slips` is empty, so the proof also shows, for all instances, that the named
slips are the only ways these properties are lost.

### Balances, matches and closed months (`TreasuryProofs`)

For all accounts, months, amounts, commissions, statement lines, first entries and
bounds, and any finite number of requests, with or without a transit account, every
property of the run `Ledger`:

| Theorem | States |
|---|---|
| `TreasuryTyped` | `Spec => []TreasuryTypeOK` |
| `EntryMatchedOnce` | `Spec => []OneLinePerEntry` |
| `BalancesMatch` | `Spec => []Balanced` |
| `ClosedMonthsKept` | `Spec => ClosedMonthKept` (an action property) |

Assumed are the named assumptions of `CashLedger` and `Treasury`: the accounts are
distinct and none is the null, lines have amounts other than zero and months that
exist, amounts are positive and commissions natural, there is a latest month, the
requests are finitely many, and a behaviour starts with entries that are due.

`Balanced` is about states at rest and says nothing of the transactions in flight, which
decide it. The invariant is `Inv == TypeInv /\ (slips = {} => Clean /\ Even)`:

- `TypeInv`: every transaction in flight names rows that exist and writes what a row may
  hold (`IsTx`), whatever has become of the rows since it was computed.
- `Clean`: an entry paid by a machine and no longer paid is in no account (`Regular`), no
  entry is matched twice, and a request that is not stale is `Sound`: it writes only rows
  that it has read, matches an entry that no other line has, posts in months it has found
  open (a match: in the bank, in the month of its line), and what it moves in a balance
  is what it posts there, but for an unmatch, whose queries do this only together.
- `Even`: the drift of each account and what the unmatches in flight have still to move
  (`Owed`) add up to zero, unless one of them is `Doomed`: it will update a row that is
  gone, or one that another request has written, and so end in a slip.

The lemmas: `PostedAfter` and `DriftAfter` say what a transaction does to the sum posted
in an account, from the lemmas about sums; `LedgerAdmits` and `LineAdmits` that a handler that begins
without a slip makes a sound request, one lemma to a handler; `LastEnds` that the four flows of an
unmatch take back what was posted; `OtherSound`, `OtherOwes`, `OwnSound` and `OwnPays`
that a commit leaves the others, and what is left of its own request, sound and owing the rest.
Those show of `SumFunction`, a fold that takes the elements of a set in an order of its own
choosing, that the order does not matter: by least counterexamples in the finite
subsets, since an induction principle that takes a predicate is out of the provers' reach.

The theorems reach what the bounds of the run do not. It takes four requests to undo a
match whose fee, entry or transfer was changed in between, which takes back what is not
posted (the cases of the slip `undo`), and five to bring by a match an entry that
counts in another month into the closed month of the bank, or take it out (the last
case of `ClosedMonthKept`).

### Billing (`BillingTypes`, `BillingProofs`, `ChargingProofs`, `LimitProofs`)

For every set of plans and of handlers, number of requests, webhooks and charges, and
first states:

| Theorem | States |
|---|---|
| `BillingTyped` | `Spec => []BillingTypeOK` |
| `OnboardsOnce` | `Spec => []OnboardedOnce` |
| `PayingWorks` | `Spec => []PaidTenantWorks` |
| `ChargesOnce` | `Spec => []ChargedOnce` |
| `LimitStaysWithinPlan` | `Spec => []LimitWithinPlan` |

Assumed are `PlanAssumption` (plans and add-ons are positive), `RequestAssumption` (a
request is not one of the jobs) and `FirstStatesAssumption`: a behaviour starts with
tables that are `Sound`, that is with one subscription not cancelled at most, one
company, an active tenant where the subscription is active, and a gateway that
charges nothing else. All but the types hold while `slips` is empty, so these
theorems too show that the named slips are the only ways to lose them. No handler
here uses a transaction: what it writes was decided on tables that are gone, and
each invariant says what survives until it does.

- `TypeInv == Typed /\ TasksFit` (`BillingTypes`): every write a handler has left is one
  its operation makes with that many writes to follow (`At`), names rows that exist
  (`Named`), and no row goes away (`Grows`).
- `WorkInv == TypeInv /\ PayInv` (`BillingProofs`). Of the payments of a first month in
  flight one has activated the tenant and boards it (`Boards`), by the conditional
  update of `Activate`; a payment past that point, and an upgrade about to make its new
  row, find the tenant active (`Activated`, `Replaces`); whoever will set the tenant
  to something else has seen that nothing is active, or has been overtaken
  (`SignsUp`, `Ends`). `PayInv` says more than `PaidTenantWorks`: an active subscription has
  an active tenant also while handlers run and webhooks wait.
- `ChargingProofs` adds `ChargeInv`: one row that is not cancelled, in every state. A
  subscription of the gateway is followed from the call that opens it, to the handler that
  holds it (`Holds`) and the row that links it (`Linking`), up to the webhook of its
  end, which finds it ended (`Follows`). A row is replaced only when its subscription has
  ended or the handler will end it first (`Clears`, `Closes`); one handler applies an
  upgrade at a time, one makes a row, and the announcement of a subscription
  finds its row linked or about to be (`Announces`).
- `LimitProofs` adds `LimitInv`, about the limit while handlers run. Unless one stands
  between the plan of the tenant and the limit (`Moved`), the limit is at most the plan
  and `AddOn` for each add-on that counts (`Counted`: paid, not awaiting its credit, and
  not taken off by the expiry job before it is marked), and at least the plan unless that
  job is about to restore it (`Sinking`: it has taken an add-on off and not yet looked at the
  company, or looked with the plan as it is): each write then moves the limit and the count
  together or leaves both. It holds because a handler writes the limit of the plan it has
  set (`Sets`), and the job, which goes by the plan it has read, either writes the floor of
  the plan as it is or takes the slip `plans`; because the add-ons credited or listed are paid, and the job's list
  names each once (`Backed`, from what `FlattenSeq` makes of the blocks of the list,
  `FlattenSteps`); and because of two handlers one at most changes a plan, they credit
  different add-ons, and none credits what the job takes off (`Apart`).

### What stays with TLC

- Liveness (`WaitEnds`, `PastDueEnds`), and anything with ENABLED.
- The violations.

## 5. What the code does not keep

Two runs must end in a violation; the sentence each contradicts is quoted in
`PROJECT.json`.

| Run | What happens |
|---|---|
| `TenantWait` | the cron of the waits runs without a tenant: no wait of a tenant expires |
| `UnpaidUpgrade` | an upgrade waits for its payment in the columns of a scheduled plan change, dated in the present: the daily cron, or the payment of the month, applies it unpaid |

`TenantWait` shares its property with `Progress`: the one says when it holds, the
other what breaks it.

Other behaviours of the code met while modelling, for which no run is kept. Those of
the order and the workflow appear when a configuration is varied as said; those of
money, billing and quotes are the slips above.

- updateStatus overwrites a concurrent cancellation (`service-order.service.ts:1112`;
  the test at `service-order.service.spec.ts:170` says any transition out of a
  terminal status is blocked): the handlers `updateStatus` and `cancel`, two requests.
- cancel cancels an entry paid since it was read (1400; the comment at 1366 says paid
  entries are not touched): `cancel` and `pay`, two requests.
- Two early launches at once bill the client twice (1749): `MoneyLife` with two
  requests.
- A wait of a refused run resumes the reassigned one (1049): `Waits` with the handler
  `reassign` and `MaxRuns = 2`.
- Behind a delay of over five minutes at most two system blocks are executed and one
  is logged (`workflow-engine.service.ts:268`, `278`): `Progress` with the delay left to
  its timer.
- A month closed after checking does not stop updateEntry (`finance.service.ts:850`;
  `closed-month-guard.service.ts:9` names what may not change), nor rebalance.
- Undoing a match reverses a payment the user had made and marked automatic
  (`reconciliation.service.ts:2750` against `finance.service.ts:306`).
- `duplicate` of a quote keeps `totalCents` and drops `productValueCents`
  (`quote.service.ts:605`): the next edit of the copy changes its total.
- Orders count in the billing cycle in `create`, in the calendar month in `duplicate`
  and `createOsFromQuote`.
- A late `SUBSCRIPTION_CREATED` links a subscription to the newest row without one
  (`asaas.service.ts:1254`), which may be the row of the next: the slip `mislinked` of
  `Billing`. Two signups at once both open a subscription (`subscribed`), and a company
  onboarded while the plan changes keeps the limit of the plan before (`plans`).
- `approveAndFinalize` takes a CANCELADA order to APROVADA: the handlers
  `updateStatus` and `approveAndFinalize` and one request.
- A finalized order goes through AJUSTE to CANCELADA with its entries open, because
  only `cancel` cascades and it refuses CONCLUIDA: the handlers `assign`, `finalize`
  and `updateStatus`, the states with `os.status = "CANCELADA"` and `Open # {}`.
- A start passes over a WAIT_FOR that comes before the first action: `Waits` with a
  `Flow` that begins with one.
- A position advances a workflow that waits, since `submitPosition` names no block:
  `Waits` with the handler `position`.
- A system block executed in a transaction that is rolled back is executed again by the
  next advance (`workflow-engine.service.ts:819`), whatever rolled it back; what `DoneOnce` says is
  that nothing else does this.
- A log of the start that fails for another reason than its number leaves a gap
  (`workflow-engine.service.ts:301`, the step order is counted up first), and every later advance
  counts a step order that is taken: `StepsContiguous` speaks of starts whose logs fail
  on their number alone.
- `advanceStep` completes a pending wait if the client submits it: `Waits` with
  `Presses = {"ACTION", "WAIT_FOR"}`.
- An advance that counted its step order before a reassignment and inserts it after
  leaves a gap, and every later advance then counts a step order that is taken:
  `StepsContiguous` with the handler `reassign` and two tasks.
- After a timeout with action "cancel" the technician goes on behind the wait: the
  wait's log no longer waits, so `CurrentBlock` passes it.
- A cancelled order gets a new wait from an advance that commits after
  `checkEarlyTrigger`, and a wait resolved as the order is cancelled, or an advance
  that concludes the flow on a status it read before, moves the order on:
  `resumeFromBlock` and `Conclude` do not look at the status again.

## 6. Plan

In this order; each item names its module, its abstract specification where one is
worth stating, and what is to be proved.

1. `Wait`, an abstract specification (idle, waiting, over, resumed once), and
   `WorkflowEngine` shown to implement it.
2. `ExecutionPause`: pause and resume from desk and link; `OtpLockout`: the attempt
   counter and the transaction that takes it back; `Sessions`: login, refresh, logout,
   reset.
3. `Emission`: boletos and service invoices, webhook against poll and timeout; card
   settlements and installments as further handlers of `CashLedger`.
4. Branches, `resetStep`, `retryWorkflow` and row locks in `WorkflowEngine`;
   automation rules and the events of the link as further handlers of `ServiceOrder`;
   the composition of the order with its workflow and with `Quotes`.

## 7. Not modelled, and why

- Pool budgets, formulas, hydraulic and solar calculation: real arithmetic.
- NF-e import, SPED, OFX and CSV parsing, reports: pure text and number processing.
- Catalogue CRUD, notifications, e-mail, WhatsApp, chat: no protocol, or I/O whose
  outcome no handler reads.
- The frontend: presentation; what it submits is an input of the models.
- Tenant routing: the choice of a schema is the constant `Schema` of
  `WorkflowEngine`; provisioning and migration are DDL.
- Credits, promotions and invoices of the subscription: amounts that no status
  depends on.

The repository has about 200,000 lines, most of them frontend, CRUD, parsing,
document layout and numerical calculation. The handlers with shared state and an
order of events to get wrong are a few thousand lines of the back end; the map
covers those it models and does not reach for the rest.
