# Verification of EziHubb's money and goods paths

EziHubb (`src/`) is a marketplace: a NestJS API (`apps/api`), two Next.js
applications (`apps/client`, `apps/admin`), shared libraries, a Prisma schema
with SQL migrations whose triggers guard the ledger, and BullMQ workers. Money
and goods move through the *economic-v1* subsystem
(`apps/api/src/modules/finances/economic-*.ts`, `modules/payments/economic-*.ts`,
`modules/products/inventory-*.ts`); orders that are not versioned take the older
path of `modules/payments`, `modules/orders` and `queue/`. This project models
both in TLA+, checks them with TLC on small instances, and proves their main
safety properties with TLAPS for every instance.

## 1. Inventory

### What is modelled

| component | state it keeps | operations | talks to |
|---|---|---|---|
| **Quote arithmetic** (`economic-policy.ts`, `-checkout.ts`, `-quote.ts`, `-journal.ts`) | the frozen quote of an order: parts with customer, funding, gross, fee and net amounts | freeze discounts, fees and commission; quote; journal of the capture | checkout, capture, refunds |
| **Inventory** (`inventory-reservation.ts`) | `EconomicInventoryReservation`, `EconomicInventoryReacquisition`; stock of products and variants | reserve, expire, release, consume, acquire again | checkout, the capture's event, cancellation, sellers' edits |
| **Payment and capture** (`economic-payment-intent.ts`, `economic-payments.service.ts`, `economic-capture.ts`) | `Payment`, two `EconomicOperation`s, `EconomicCapture` | create and bind a payment, capture, verify, book | Stripe, PayPal, webhooks, lots, outbox |
| **Balances** (`economic-balance.ts`, `economic-transfer.ts`) | `EconomicBalanceAccount` (debt), `EconomicBalanceLot` (amount, reserved, paid, reversed, debtRecovered), `EconomicPayout` and its allocations, `EconomicDebtRecovery` | read a balance, reserve / reject / verify / settle a payout, recover debt | orders (eligibility), refunds (pending ones block), transfer lookup |
| **Refunds** (`economic-refund*.ts`) | `EconomicRefundRequest` with a frozen plan, `EconomicRefund`, its journal, `EconomicRefundLotReversal` | plan, prepare, execute, settle | lots and debts, operation, provider, outbox |
| **Operations** (`economic-durability.ts`) | `EconomicOperation`: PREPARED, DISPATCHED, NEEDS_RECONCILIATION, SUCCEEDED; dispatch token, reference | claim, bind, settle, quarantine | Stripe, PayPal |
| **Print orders** (`economic-external-effect*.ts`, `-fulfillment-guard.ts`, `-shipping-refund.ts`) | `EconomicExternalEffect` | prepare, claim, POST, look up, settle, quarantine | Printify, inventory, refunds |
| **Outbox and dispatcher** (`economic-durability.ts`, `economic-dispatcher.service.ts`) | `EconomicOutbox`: PENDING, CLAIMED, PUBLISHED, DEAD; lease, attempts | append, claim, finish, quarantine exhausted rows, tick every 10 s in every API process | consumers |
| **Consumers and recovery** (`economic-consumers.ts`, `-notifications.ts`, `-recovery.service.ts`) | `EconomicConsumerReceipt`, `EconomicLifecycleRecovery`, order and payment status | confirm an order, close a refunded one, project a notification, recover a DEAD event | orders, inventory |
| **Legacy order path** (`queue/*`, `payments.service.ts`, `orders.service.ts`) | `OrderEventOutbox`, BullMQ jobs, `StoreOrder`, `StoreOrderFulfillment` | pay, publish, fan out, credit sellers, push to print providers, cancel, set a status | Redis queues, print providers, administrators |

They meet in the database: every economic-v1 change is a Serializable transaction,
most take an account or capture row lock first, and code outside a transaction
holds values that may be stale by the time they are used. Administrators, sellers,
customers, webhooks, workers, and one dispatcher per process run at any time.

What is hard, and what makes each component correct:

* **Rounding in pieces.** Discounts, fees and commission are divided among lines
  with largest remainders; refunds then take cumulative floors of seven columns,
  each rounded by itself. However an order is refunded, the pieces must add up to
  the cent, and no plan may be refused by its own bounds after the provider has
  moved the money.
* **The last piece.** Reservations expire while payments are on their way. A
  capture that comes late must take the stock again or fail; nothing may be sold
  twice or lost, also when the seller overwrites quantities or the order is
  cancelled meanwhile.
* **The buyer is faster than the code.** A payment can be charged the moment its
  secret is released. What is charged must be the one payment bound to the order,
  with its capture already dispatched, and must be booked once, and in the end.
* **Concurrency on lots.** Payouts, debt recoveries and refunds of the same lots
  interleave. A lot must never be over-committed; debt must be conserved although
  money that was paid out, or used to recover debt, is refunded later; a refund
  that was prepared must be bookable.
* **An unknown answer.** The POST of a refund or of a print order may be answered
  late or never, the process may stop, the dispatch expires, an administrator may
  mistype a reference, and webhooks arrive before the answer. It must be sent once
  and booked once, only with evidence; and an order refunded as never handed off
  must never be handed off afterwards.
* **At-least-once delivery.** Workers outlive their leases, commits are reported as
  errors, jobs stall and run twice, a queue answers after the caller stopped
  waiting. An effect must run once, nothing may be acknowledged that did not
  happen, and no row may be left for nobody.
* **Order of events.** Capture and refund events are consumed in any order, while
  administrators cancel or set statuses they read earlier. A closed order must stay
  closed, and a capture that is refunded in full must close its order.

## 2. Modules

| module | models | built on |
|---|---|---|
| `MinorUnits` | totals over finite sets, positive parts, largest-remainder allocation and balances of entries, without recursion, so that they can be proved about | |
| `EconomicQuote` | checkout arithmetic, the quote, the capture's journal: operators only | `MinorUnits` |
| `EconomicRefundPlan` | partial refunds of one capture: plans, history, books | `EconomicQuote` |
| `EconomicInventory` | stock and reservations | `MinorUnits` |
| `EconomicFulfilment` | print orders, refunds and shipping, composed with the inventory | `EconomicInventory` |
| `EconomicCapture` | creating, binding, charging and booking one payment | |
| `EconomicBalance` | accounts, lots, payouts, debt recovery, refunds as they change lots | `MinorUnits` |
| `EconomicAccount` | abstract: what all of that promises of an account | |
| `EconomicRefundExecution` | one refund operation, its callers, the webhooks and the provider | |
| `EconomicOutbox` | the outbox of one order, the dispatchers, consumers and recovery | `MinorUnits` |
| `EconomicLifecycle` | abstract: what the outbox promises of an order | |
| `ProviderRequest` | abstract: what asking a provider for a payment, a refund or a print order promises | |
| `OrderPaid` | the legacy path from the payment to the print providers | |
| `MC*` | instances for TLC | |
| `*_proofs` | theorems and proofs | |

Definitions whose comment says "Mutant of X" are X with a plausible bug: no
specification uses them. Each property of a passing run is paired in
`PROJECT.json` with one that it refutes.

### EconomicQuote and EconomicRefundPlan

A checkout is a record of lines, discounts per shop and of the whole order,
shipping, gift wrap and rates. `Frozen` is `freezeCheckoutEconomics`, `BuildQuote`
is `buildEconomicQuote` with its fees allocated one after the other to what is left
of the parts (`Charged`), `CaptureJournal` the journal, per account. `Freezable`
and `Quotable` are the refusals. A quote that is refused has no behaviour.
`WellFormed` says which checkouts are meant (amounts natural, quantities positive,
rates fractions of at most 1); the constant set `Checkouts` holds such ones.

The state of `EconomicRefundPlan` is the history the code reads back: units
returned and amounts refunded per part, shipping exceptions, lots' reversals, and
the journal added up. A second refund is prepared only after the first is settled,
so a refund is one step. `RefundQuantities` is `planQuantityRefund` and
`RefundShippingException` is `planShippingOverride`, each with the checks of
`platformRounding`, `plannedRefundJournal` and `refundLotImpact`, and with the bound of
the customer's money (`Accepted`).
Payouts, which make the impact a debt, are in `EconomicBalance`.

### EconomicInventory and EconomicFulfilment

Rows of one order move together, so their state is one value per order; which
pools they cover is frozen at checkout (`counted`). `ConsumeCapture` is the
inventory part of the capture's event: held stock is kept, even when it has
expired, and stock given back is debited again, all of it or the event fails.
`EditPool` is a seller's absolute write. `base` is a history variable: the pieces
the seller put into the pool, those already owned included.

`EconomicFulfilment` runs the inventory's own actions (`InventoryStep`) next to
`executeExternalEffect` for the print order: first read, claiming transaction with
the authorisation read again, one POST, lookup by reference, settling transaction,
each a step of its caller. `Settle` fails without the catch block (the promise is
returned without `await`), which is `Abandon`. Refunds appear with what fulfilment
reads of them; that items of all lines are refunded is the cancelled order.

### EconomicCapture

Requests of the buyer run `createEconomicPayment` and `capturePaypal`; deliveries
of the provider run the webhook; both end in `verifyAndBookEconomicCapture`, whose
evidence (`ReadEvidence`) is read outside the transaction that books (`Book`). The
provider (external) makes a payment for a POST whose sender may have gone, charges
a Stripe payment when the buyer confirms, and takes a PayPal order's money once it
is approved. Money that was taken can go back elsewhere or be disputed before it is
booked (`Disturb`), and is no evidence then. That the quote still matches the order
is assumed.

### ProviderRequest

A payment, a refund and a print order are all asked for the same way: a row is
claimed once, one POST is sent, and whoever learns what became of it records it.
`ProviderRequest` is what that amounts to when nothing goes wrong: asked once, at
most one thing made, which takes effect (is charged, moves money, is printed), and
is then recorded once. `EconomicRefundExecution`, `EconomicCapture` and, for each
order, `EconomicFulfilment` implement it (`RequestPromise`), with the stage read
from the states of their operations, *made* and *effective* from the provider's side,
and *recorded* from the books or the bound reference.

### EconomicBalance and EconomicAccount

The columns of the lot table are the functions `reserved`, `paid`, `reversed`,
`recovered`; `reversalDebt` is the sum of a lot's reversal rows' debt. One action
is one transaction of the code: `ReservePayout` recovers debt first, re-reads the
balance, and draws oldest lots first, exactly as `reserveEconomicPayout` does,
and is disabled where the code throws. `verifyAndSettleEconomicPayout` has two
transactions with a provider lookup in between and is two actions,
`BeginVerification` and `SettlePayout`. A refund is `PrepareRefund`,
`DispatchRefund`, `QuarantineRefund`, `SettleRefund`.

Abstractions: `createdAt` is the order of booking; an order is `PENDING_PAYMENT`,
`OPEN` (every fulfilment stage in which a balance is safe) or `CLOSED`
(cancelled, disputed, refunded, archived, or its lot or account held: nothing in
the code makes such a lot safe again); a refund plan is any plan within what is
left of each lot, with at least one minor unit somewhere (`RefundsTelescope` of
`EconomicRefundPlan` shows that real plans are); there is one latest refund per
capture because the code refuses a second pending one. `delivered` may be
withdrawn, as the code allows.

`EconomicAccount` is one signed balance per account and one hold per payout.
`EconomicBalance` implements it with *balance* := booked amounts − reserved −
paid − reversed and *hold* := the payout's phase and amount. The point of the
promise is `Hold`: a payout never exceeds the signed balance at that moment,
whatever lots, debts, refunds and recoveries lie underneath, although the code
never computes that number.

### EconomicRefundExecution

Each caller (an administrator's request or a webhook delivery) runs
`executeEconomicRefund` step by step: `phase` is where it is, `reference` its
local variable, `answer` what the provider replied. The steps between two
database or provider calls are one action. `Abandon` is a crash or a database
error outside the `try`; `Fail` is the `catch`. The dispatch token is not a
variable: it is written by the only claim and never replaced (a trigger forbids
it), so the updates with and without it reach the same row. The provider
(external, modelled from how the code uses it) may accept a POST after its caller
has gone, lose it, and move or fail to move the money; its own idempotency keys
are *not* relied upon. `RefundElsewhere` is a refund made in its dashboard, `Dispute`
a dispute of the charge, after which no refund of it can be proven.

`RefundWebhook` is the webhook of any refund, ours or not. It only looks for the
request the refund belongs to (`Found` is the query of `reconcileWebhook`): by the
operation a refund of ours names, or by the reference that operation is bound to.
What it found is executed in later steps, with the operation read again (`Recover`);
if it found none, the lots are held in a later step (`Hold`). `ChargeWebhook`,
`Retrieve` and `Compare` are the `charge.refunded` webhook, `DisputeWebhook` the ones
of disputes and reversals. An administrator can type any reference, that of a refund
made without us included. Not included: refunds that fail after having succeeded, and
several requests to refund one charge at a time.

### EconomicOutbox

Each worker runs a tick: quarantine, notifications scan, then claim, consume,
acknowledge or release until nothing is claimable. The clock is one flag per row,
`due`: the time the row waits for has come. A token is the number of the attempt.
`inTime` records what a worker's last look at the clock said, so a worker can act
on a lease that has ended meanwhile. Commits whose answer is lost are
`ConsumeFails`, `PublishThrows`. `CancelOrder` is `adminCancelOrder`, which reads
the status before its transaction and cancels whatever it is by then. The bound of
20 rows per scan and per tick is not reached; `TimePasses` needs no bound.

`EconomicLifecycle` is the same order without rows, leases and workers: events take
effect once and in one step, on the refunds settled at that moment; they are
announced and acknowledged only afterwards; what is acknowledged or given up stays
so, though an event given up may still take effect. `EconomicOutbox` implements it
with *applied* := the receipts, *announced* := the projected events, *published* and
*dead* := the rows in these states (`LifecyclePromise`).

### OrderPaid

`Pay` writes the order, the payment and the outbox row. The tick of a process
leases the row, looks at the order, its archive mark and its payment (`Unwanted`), and
adds the event's job under a fixed id, or skips the row for good; when it stops waiting (`TimeOut`) the dispatch goes on by itself
(`late`, `LatePublish`). The event's job adds `CONFIRM_STORE_ORDERS`, whose worker
credits each shop by a compare-and-set and adds its `PUSH_STORE_ORDER`. BullMQ
(external) tries a job again, and gives a stalled one to another worker while the
first goes on.

Meanwhile the order and its payment change. `Cancel`, `Archive` and the provider's
reports (`PaymentReported`, `CaptureRefunded`) are single steps that ask little of the
state they find. `updateStatus`, `createRefund` and PayPal's `createOrder` look first
(`Read`) and write later without looking again (`WriteStatus`, `WriteRefund`,
`WritePaypal`), the last two after an answer of the provider.

## 3. Runs

| run | question | instance, bounds | distinct states |
|---|---|---|---|
| `refund_plan` | do refunds in pieces add up, books and lots agree, and is every selectable refund bookable? | 128 quotes: two shops, lines of 3, 1 and 2 units, prices 1 to 5, fees near the whole of the small parts; every order of refunds | 19,884 |
| `fulfilment` | is stock conserved, printed goods never sold again, shipping not refunded and handed off, and is the print of an order one request to the provider? | two orders, one last piece, one edit, two administrators, two identities | 2,242,716 |
| `capture` | is every charge bookable, booked in the end, and the payment of an order one request to the provider? | two requests, two deliveries, two payments, both providers | 10,858 |
| `seller` | do interleaved payouts, recoveries and refunds keep lots, debts and references right, and keep the account's promise? | one seller, lots of 2 and 1 in two captures, two payouts, two transfers | 892,520 |
| `shared` | are allocations kept apart, can a prepared refund be settled, does the inductive invariant of the proofs hold? | one capture with a seller's and an affiliate's lot, three payouts | 37,433 |
| `refund_execution` | one POST, of money that moved, never bound to a mistyped reference, never taken back, one request to the provider; booked in the end, and a refund made without us held? | two administrators, one webhook, a reference of ours and one made without us, a dispute, one crash | 536,172 |
| `refund_hold` | **violated**: are lots held only for refunds made without us? | one administrator, one webhook, no crash | (counterexample) |
| `outbox` | effect once, leases exclusive, nothing stranded or reopened, a refunded order closed, and the life cycle of the order kept? | two workers, a capture and a full refund, two attempts, two crashes | 972,216 |
| `outbox_live` | is every event decided and every applied effect notified? | two workers, one event, one crash | 13,594 |
| `order_paid` | is a seller credited once, and in the end? | one process, two workers, one shop and connection, two attempts, one change of the order or payment and archiving | 272,470 |
| `prints` | **violated**: is an order recorded as SUBMITTED never placed again? | two connections, two attempts | (counterexample) |
| `reopened` | **violated**: does a cancelled order stay cancelled? | one shop, two changes | (counterexample) |

The bounds are where the interesting cases are: a lot of 2 is drawn, refunded in
two parts, and turned into debt that a second lot repays before it is refunded
itself; a payout spans two lots; two attempts distinguish the last one from the
others; with two payments or identities a second POST would make a second payment
or print order (a second POST of a refund is counted, `posts`), and the reference or
identity that is not the request's own stands for every mistyped one;
two abandoned ticks let a worker die holding a row and another report a
commit as an error; one piece for two orders is the least for which a late capture
can oversell; one edit suffices to change a pool between a debit and its restoration;
fees that exceed single parts make the sequential allocation matter, and three
units of 1, 2 or 5 exercise all remainders of a cumulative floor. The bounds in the
specifications are `Amounts` (`EconomicBalance`), `MaxAttempts` and `MaxAbandons`
(`EconomicOutbox`, `EconomicRefundExecution`), `MaxEdits` (`EconomicInventory`),
`MaxAttempts`, `MaxPushes` and `MaxChanges` (`OrderPaid`: attempts of jobs, three and
five in the code, and what administrators and the provider do to the order) and the
set `Checkouts`. One change at any point, before the payment, between a look and a
write of its own, or while any step of outbox, queue and workers is under way, is
what `order_paid` explores; `CreditedOnce` is proved for any number of them. Nothing depends on the number of attempts but "last
or not".

Symmetry is used in `outbox` (workers) and `fulfilment` (administrators, identities),
whose definitions treat them alike and whose properties are not liveness. Deadlock is
not checked in the balance runs (all payouts and refunds may be used up), in
`refund_plan` (everything may be refunded) and in `fulfilment` (orders are checked
out once, and when all is cancelled or refunded, printed and held the instance is
over), nor in the three runs of `OrderPaid` (the order was cancelled, or its jobs are
done); in the other runs some step is always possible.

## 4. Fairness

*Outbox.* A process ticks every 10 seconds (`setInterval`) and a tick that runs
goes on, so each worker's tick is weakly fair; so is the clock of each row. A
projection of one event is strongly fair: it is tried at every tick that finds the
event without notification, and does not fail every time. Nothing is assumed of
consuming or acknowledging, which may always fail: the attempts then run out and
the row becomes DEAD. Crashes are bounded, not fair. No fairness is assumed of
captures, refunds, cancellations or the administrator's recovery.

*Refund execution and capture.* Providers deliver a webhook again until it is
answered with success (the handlers answer an unresolved payment or refund with
an error), so each kind of delivery is fair, and reading evidence and booking in a
delivery succeed if they are tried for ever. A delivery that runs goes on: it does not
stop before it looked, executed, or held. What a delivery finds, and hence whether it
holds anything, is left to the state it meets: `EventuallyHeld` would fail if some
order of executions let the lookup take the other refund for ours. Nothing is assumed
of buyers, administrators, or of the provider's decision.

*Legacy path.* The tick runs every ten seconds and its leases expire; reading the
order and adding a job succeed if tried for ever (strong fairness, since a timeout
disables them); BullMQ gives waiting jobs to workers, a worker that runs goes on,
and the lock of a worker that stopped is found (`Abandoned`). Nothing is assumed
of retries, which may run out: `PaidIsCredited` then ends in a failed job, which
the code reports.

## 5. What is proved

Assumptions are the named `ASSUME`s of the modules: finite sets, amounts that are
natural or positive, disjoint sets of callers and references, distinct null values.

*`MinorUnits_proofs`*: a total is a cardinality, so it is a natural number, splits
over disjoint sets, adds up pointwise, is monotone, and changes by one element's
amount when one element does. Of the largest remainder method (`Allocation`): the
amounts are natural and add up to what was to be allocated, exactly, and nobody gets
more than his weight unless the total exceeds all weights together. The proof
counts who is ahead of whom: if fewer units are left than there are remainders,
`FirstRanks` says that as many are first. `FloorOfSum` and `FloorBounds` are the
arithmetic of cumulative floors that the refunds need.

*`EconomicRefundPlan_proofs`*: all of the refund arithmetic, for every set of
well-formed checkouts, any number of lines, shops, units and refunds, in any order.
First, a quote is good (`QuoteIsGood`): whatever discounts, subsidies and rates are
in force, the fees that were allocated one code after the other to what the earlier
codes left leave no part with less than nothing (`ChargedDrafted`, along the loop over
the fee codes), and each part's customer money and subsidy are its gross. Hence the
journal of a capture balances (`CaptureBalances`), so that its own refusal is never
reached. Then the refunds: `RefundsTelescope` bounds
what was refunded and says more only of complete parts, so it is not inductive. `IInv` says that everything the code reads back, counters,
reversals of lots and each account of the journal, is what *one* refund of all units
returned so far would have made it (`History`, `Telescoped`). A plan that continues
the history adds exactly the difference (`PlanPartAdds`), because a difference of
cumulative floors is never negative and never more than what is left, and such a
plan passes all of the code's refusals (`ContinuedIsAccepted`): thus no selection
that the code offers is refused after the fact (`SelectableIsAccepted`), the books say
what the lots say (`BooksMatchLots`), and every journal balances (`BooksBalance`).

*`EconomicBalance_proofs`*: `Spec => []IInv`, and from it every invariant the
runs check plus the two action properties. `LotBounds` is not inductive alone: to
settle a payout one must know that what it allocated is what the lot reserved
(`ReservationsBacked`, `PayoutAllocated`); to settle a refund one must know that
nothing was reserved since it was prepared (`RefundSettleable`); to book a capture,
that nothing was ever counted in its lots (`MoneyAfterBooking`). `DebtConserved` needs
all of them: settling a payout turns reserved money into paid money without
changing the debt only because a lot that is over-reversed has nothing reserved.
`DebtBeforePayout` rests on an argument about one step: if money is left to
reserve after the recovery, the recovery has taken the whole debt.

Its second part shows that every step of the ledger is a step of
`EconomicAccount` or leaves it alone. The heart is `FreeLessDebt`: what is free in
the booked lots, less the debt, *is* the signed balance, which follows from
`DebtConserved` lot by lot.

*`EconomicRefundExecution_proofs`*: `Spec => []IInv` and from it the safety
properties of `refund_execution`, for any number of callers and crashes.
`PostedOnce` needs `OneDispatch`: an execution about to post is the only one, nothing
has been posted, and the operation will not be PREPARED again. `BookedIsMoved`
and `HintsNeverBind` need `Evidence`: an answer, a reference to be bound and one to be
booked are refunds the provider made. `Refines`: the executions and webhooks together
are one `ProviderRequest`. It needs that there is never a second refund of ours
(`OneRefund`): none before the POST was sent, none while it is under way, at most one
after. `BookedOnce` is proved too; no run checks it by itself, since the promise
implies it.

*`EconomicOutbox_proofs`*: every safety property of `outbox`, for any number of
workers, events and attempts. `Leases` says that a worker holds an attempt of the
past or present, never of the future, and acknowledges only what took effect: hence
a stale worker never matches a row claimed since. `Effects` ties receipts, runs and
notices together. `RefundsClose` covers what no run does, any division of the capture
into refunds: the last settled refund to be consumed sees the full total. `Refines`:
the outbox is an implementation of `EconomicLifecycle`, in which nothing is claimed,
retried or lost: a step of a worker is one event's effect, its publication, or
nothing that the order shows. Its core is that consuming twice is consuming once
(`ConsumeRefines`). `PublishedIsApplied`, that nothing is announced which did not
happen, is proved as well and implied by the promise.

*`EconomicFulfilment_proofs`*: `StockInv` is inductive for the inventory by two
lemmas about one order: what is owned changes by that order's share (`OwnedStep`), so
a step that takes from the shelf what it gains conserves the pool (`ConservedStep`).
`ImplementsInventory` shows that the composition only makes the inventory's own
steps, so its invariant carries over. `PrintedOnce` needs `Dispatches` (one token, one
POST, and the effect never PREPARED again) and `Evidence` (a verified reference is
the print order of the effect's own order); `RefundedOrPrinted` needs `Backs`: once
shipping is given back the order is cancelled and stays without an intent.
`Refines` shows that the effect of each order is a `ProviderRequest`, whatever
identities the administrators type: the promise is about the print orders made for
this order, so it holds however the other orders' effects go.

*`EconomicCapture_proofs`*: `BoundIsCovered`, `OnlyTheBound` and `Claimed` say that the
buyer and every execution only know the payment that is bound, and that the capture
was dispatched before anything could be charged; `ChargeIsBookable` and `BookedOnce`
follow for any number of requests, deliveries and payments. `Refines` shows the
capture to be a `ProviderRequest`; `OnePayment` is what it needs beyond `IInv`: one
request may create the payment, and only before there is one.

*`OrderPaid_proofs`*: `CreditedOnce`. A credit leaves PENDING_PAYMENT behind for good
(`Credits`), and before a payment is booked there is no row, job or worker
(`NothingUnpaid`), so that a status set on an unpaid order credits nobody, whatever
becomes of the order and its payment afterwards.

Only model-checked: the liveness properties (`EventuallyDecided`, `EventuallyNotified`,
`EventuallyBooked` of captures and of refunds, `EventuallyHeld`, `PaidIsCredited`), which
TLAPS does not do, and the three properties the code violates. That the proofs are
about the model TLC runs is by construction: the configurations replace no definition.

## 6. Findings

`refund_hold`: `charge.refunded` about *our own* refund, handled after the provider
made it and before `executeEconomicRefund` stored its reference (or after the answer
was lost, or while the refund is pending), compares the charge's refunded total with
the booked refunds, finds a difference, and sets `holdReason` on all lots of the
capture. The comment there says "Recover only already-bound requests, then compare
fresh provider totals with immutable settlements. An external/unplanned adjustment
stays held." Nothing clears `holdReason`, and booking the refund does not, so a
planned refund can lock the rest of the order's earnings. TLC's trace: an
administrator executes, the POST is accepted, the webhook retrieves and compares,
the lots are held; nothing was refunded elsewhere.

`prints`: `handlePushStoreOrder` calls `createOrder` for every connection in every
attempt; the row of a connection that is already SUBMITTED is not looked at
(`fulfillment.processor.ts:171-208`). When one of two connections fails, the whole
job is tried again and the other gets the order a second time. `order.processor.ts:381`
warns of exactly that ("A duplicate push here would place a second REAL print order
with the provider") and relies on the job id, which does not cover attempts of one job.

`reopened`: `updateStatus` refuses a cancelled order before its transaction
(`orders.service.ts:1121`, "Cancelled orders cannot be reopened after their seller
proceeds have been reversed.") and the transaction writes by id. TLC's trace: an
administrator's update reads the order, another cancels it, the update is written.

## 7. Limits

* A Serializable transaction is one atomic step; a conflict that is retried is
  that step, one that is not is a failure of the caller.
* Hashes, provider payloads, request validation, access control and wording are
  left out; evidence is "our payment (refund, print order), and it happened".
* Composition: inventory and print orders are one specification. `EconomicCapture`,
  `EconomicBalance`, `EconomicInventory` and `EconomicOutbox` meet in the booking
  transaction, `EconomicRefundPlan`, `EconomicRefundExecution`, `EconomicBalance` and
  `EconomicOutbox` in the settling one; each module contains that transaction as far
  as its own state goes.
* A refund the provider refuses stays NEEDS_RECONCILIATION and blocks later refunds
  and payouts of its lots; the code leaves it to a person and no property claims
  progress. The same holds for a payout bound to a mistyped transfer reference
  (`economic-transfer.ts:57`), and for a PayPal order whose capture is asked for
  before the buyer approved it: the operation is used up.
* `EconomicRefundPlan`: gift wrap needs an approval, which any caller may have; that
  nothing was handed off is `EconomicFulfilment`'s subject. Shipping exceptions bypass
  that rule, as in the code, and what is left of the shipping can then be refunded
  only by further exceptions. A unit whose share of the customer's money rounds to
  zero cannot be refunded by itself ("positive captured customer amount").
* `EconomicInventory`: sellers' writes are absolute and may overwrite a debit made
  since they read; `StockConserved` counts the pieces of the last such write. The
  release of expired stock takes at most 20 orders per tick, which is not modelled.
* `EconomicFulfilment`: authorising a print order does not look whether the seller
  shipped it already; no property claims otherwise.
* `OrderPaid`: a digital order is COMPLETED at once and never credited, a gap
  `docs/competitive-analysis/gaps-and-risks.md:82` names; `PaidIsCredited` is about
  orders that are CONFIRMED. The queue forgets finished push jobs after a hundred
  completions, after which their id no longer protects; not modelled. A push does
  not look whether the order was cancelled since.
* `PaidIsCredited` promises nothing once the payment is not PAID. The code does leave
  shops waiting then: a late `payment_intent.payment_failed` (`payments.service.ts:343`),
  a partial refund, or PayPal's `createOrder` writing PENDING over a booked payment
  (`paypal.service.ts:129`) makes `dispatch` skip the row for good while the order stays
  CONFIRMED; and a payment once FAILED is not booked later (`payments.service.ts:262`)
  unless PayPal's `createOrder` resets it. Nor does it promise anything of an order that
  an administrator set back to PENDING_PAYMENT and that was paid again: its row is there
  already. The runs' `Edits` leave that status out, the proofs do not.
* `EventuallyBooked` excepts charges that are disputed (and, of captures, refunded
  elsewhere): the code leaves them to reconciliation.
* The comparison of `charge.refunded` alone does not find every refund made without
  us: one of ours booked between its two reads can make up for another. The webhook of
  that refund holds the lots; for lots to be held it must come, as assumed above.
* That an order cancelled or refunded since its print order was prepared is not
  dispatched rests on the authorisation repeated in the claim
  (`economic-external-effect.ts:38`). It is modelled, but no property states it: it would
  be that guard once more.
* In the `seller` run no account is an affiliate's; that such lots lose their
  eligibility again is covered by `shared` and by the proofs.

### Not modelled

* Transactional email as an external effect: sent once without lookup or recovery;
  its claim is the print order's.
* ORDER_DELIVERED, analytics and commission jobs of the event bus: the same outbox
  and queues with other consumers.
* Customer tax in quotes: checkout never produces it and refunds of it are refused.
* Legacy gift cards, amounts of legacy refunds, affiliate commissions and the legacy ledger; provider
  adapters and tracking webhooks: input and output around single-row updates.
* Catalogue, search, promotions, campaigns, subscriptions, messages, notifications,
  realtime, reviews, moderation, authentication, reporting, both web applications and
  the shared libraries. They are most of the repository's lines: CRUD over single
  rows, queries, forms and pages, in which no state outlives a request that two
  actors could bring out of step. `PROJECT.json` lists each with its reason.

## 8. What could follow

1. ORDER_DELIVERED and the email effect, as further consumers in `OrderPaid` and a
   second kind of effect in `EconomicFulfilment`.
2. The outbox and queues of `OrderPaid` as an implementation of a life cycle, as
   `EconomicOutbox` is one of `EconomicLifecycle`.
3. One order from its checkout to its refund: capture, outbox and balance in one
   specification, with the booking transaction as a joint step.
