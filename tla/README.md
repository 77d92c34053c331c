# Agat: TLA+ models, checks and proofs

This directory holds the formal models of the Agat printing platform: TLA+ modules translated
from the source under `src/`, TLC configurations that check them on small instances, and
TLAPS proofs of the theorems that hold for every instance. `PROJECT.json` is the index: which
definition models which lines, which run checks which property, which mutation of the code each
property catches, which statements of the documentation the code does not keep, and which hazards
the properties are aimed at.

Contents: 1 the system, 2 the plan, 3 the modules, 4 the runs, 5 where the code and the
documentation disagree, 6 the proofs, 7 what is not modelled, 8 how to run.

## 1. The system

Agat takes a customer's file, prepares it for print, sells the print, finds a partner studio to
produce it, hands it over by pickup or courier, and settles with the partner. One NestJS process
(`src/apps/api`) serves the HTTP interface and, depending on its environment, also runs the
workers; PostgreSQL holds all state, Redis (BullMQ) only schedules jobs. Several instances may run.

Every component follows one pattern. A request locks its rows (`SELECT ... FOR UPDATE`, row
versions, or `SERIALIZABLE`), checks a status, writes the new status with an incremented version
and an outbox event in one transaction, and answers. A dispatcher polls the outbox and runs the
event in a worker; a deduplication key (`sha256(aggregate:id:version:type)`) makes events and jobs
unique. External services (payment, maps, notification, fiscal, refund) are called outside
transactions. What is hard is therefore what lies between two transactions: the provider's answer,
the worker's crash, the webhook that overtakes the answer, the second click.

| Component | State | Operations | Interacts with | What makes it correct |
|---|---|---|---|---|
| Payments (`commerce/`) | Payment, PaymentAttempt, ProviderCallback, RefundOperation, Order.status | startPayment, dispatchPaymentAttempt, callbackRaw, confirmPayment, cancelPayment, reconcile, applyAttemptObservation, requestNoExecutorRefund | provider (calls, webhooks), job queue, matching (PAYMENT_SUCCEEDED event), finance | one open charge per order; success only for money taken, never withdrawn; rows of attempt, payment and order agree; refunded at most once; every charge is resolved |
| Tariffs and order creation (`commerce/`) | TariffVersion, PriceQuote, Order, OrderItem | createTariff, createOrder | ordering, layouts | an order has the file that was approved and the price of its configuration |
| Idempotency (`commerce/idempotency.service.ts`) | IdempotencyRecord by scope and key digest | prepare, replay, assertCompatible | every mutating request | one effect per key, the same answer for a repeated request |
| Job queue (`finance/finance-queue.service.ts`) | OutboxEvent, FinancialJob (lease, attempts) | dispatchBatch, handle | payments, finance | one holder of a lease, no job DONE in vain, every event served or dead |
| Finance (`finance/`) | PartnerLedgerEntry, SettlementBatch and items, FiscalOperation, FiscalReceipt | materialize, createSettlement, submitSettlement, reconcile, dispatchFiscal, retryFiscal | payments, fulfillment, payout and fiscal provider | every event is booked once, refunds are netted, no entry is paid twice |
| Matching (`matching/`) | OrderMatching, PartnerOffer, OfferCapacityReservation, PartnerAssignment, ProductionCycle, InboxOperation | startOrder, decideOffer, expireOffer, setProductionStatus, setItemProductionStatus | payments (refund on exhaustion), fulfillment, finance | one open offer and one active assignment per order, capacity of a branch is not exceeded, every paid order is assigned or refunded |
| Partner network | versions of capability, hours, catalog, capacity; availability exceptions | publish a version, set availability | matching (offer snapshots) | one active version; an offer is accepted only under the versions it was made with |
| Fulfillment (`fulfillment/`) | PrintJob (lease), OrderFulfillment, DeliveryTask, PINs, CourierProfile, PrinterAgent | createPrintJob, claim, report; request, assign, hand off, complete, fail; approve, suspend, revoke | printer agent, matching, finance | READY means every item is printed; a courier has one order; rows of order, fulfilment and task agree; earlier cycles rest |
| Printer agent (`apps/printer-agent`) | local spool | claim, spool, report | fulfillment | a job is printed under its lease |
| Disputes and aftercare (`disputes/`) | DisputeCase, RefundOperation, ProductionCycle, LegalHold, RetentionSchedule, RetentionTombstone | open, respond, cancel, resolve, hold, release; sweep, delete, erase | payments, matching, finance | order, dispute, hold and payment agree; refunds stay within the paid total; files in dispute are kept, others expire |
| Ordering and basket (`ordering/`) | OrderDraft, PriceQuote, OrderBasket, BasketQuote, notifications | create, edit, link, approve, quote, check out, cancel; notify | commerce, uploads, layouts | what is ordered was approved, and priced as it is |
| Uploads (`uploads/`) | UploadSession, ProcessingJob, ProcessingResult, objects | create, putContent, cancel, cleanup, dispatch, process | object storage, outbox, BullMQ | a dropped upload is not accepted, an accepted one has its original, READY means processed once |
| Layouts (`layouts/`) | LayoutRequest, PreviewVersion, PrintReadyVersion, ManualReview, LayoutApproval | generate, confirm, decideManualReview | uploads, ordering | what is shown and approved is the artifact of the current settings |
| Authentication (`auth/`) | sessions, refresh tokens | login, refresh, logout | all | a refresh token is used once |
| Marketplace, partners, profile | listings, reviews, preferences, applications | publish, review, decide | matching, ordering | one live version |
| Audit, health, metrics, admin, configuration, guards | append-only rows, counters | record, probe, parse | all | no state that is read back |
| Web client, operations scripts, contracts | - | - | API | decisions are the API's |

How they follow one another: an upload becomes a layout, a layout's approval a draft's, a draft with
its quote an order (alone or in a basket); the paid order goes to matching, from the partner's
acceptance to print jobs, from READY to pickup or delivery, and from completion to the ledger. A dispute
takes a completed or failed order back: to a reprint, which enters production in a new cycle, or to a
refund, which the ledger nets. Retention looks at all of it before it deletes a file.

Hard behaviour, in order of what it can cost: money taken twice or forgotten (payments against the
provider), an entry paid out twice or before its refund (ledger), an order produced that was refunded
(matching against refunds), a job run twice or never (leases), a branch over its capacity, a file
printed that nobody approved, a file deleted that a reprint needs.
`PROJECT.json` lists each hazard at its line under "hazards".

## 2. The plan

| Module | Models | Abstract specification | Runs | Proofs |
|---|---|---|---|---|
| `PaymentDomain`, `Payment` | payment of an order | `ChargeBook` | `payment_sole`, `payment_retry`, `double_charge` | `PaymentProofs` |
| `Matching` | offers, capacity, assignment | `Tender` | `matching` | `MatchingProofs` |
| `Printing` | print jobs, agents, manual production | | `printing`, `print_retry` | `PrintingProofs` |
| `Handover` | pickup, delivery, couriers | | `handover` | `HandoverProofs` |
| `FinanceQueue` | financial jobs, fiscal operation | | `finance_queue` | `FinanceQueueProofs` |
| `Aftercare` | disputes, refunds, holds | | in `ledger`, `retention` | `AftercareProofs` |
| `Ledger` (extends `Aftercare`) | earnings, adjustments, settlement | | `ledger` | `AftercareProofs` |
| `Retention` (extends `Aftercare`) | schedules, deletion, erasure | | `retention` | `AftercareProofs` |
| `Uploads`, `Layouts` (extends `Uploads`) | from the session to the approved layout | `LayoutLife` | `layouts` | `LayoutsProofs` |
| `Ordering` (extends `LayoutLife`) | drafts, quotes, baskets, checkout | | `ordering` | `OrderingProofs` |

`LayoutLife` is what `Layouts` is shown to implement and what `Ordering` is built on: the two runs
together cover the way from the bytes to the order.

Every invariant and every action property that a passing run checks is proved, and so are the three
refinements; section 6 has the arguments and says what stays with TLC. No module declares a RECURSIVE
operator. `AftercareProofs` holds the proofs of the two modules that extend `Aftercare`, because both
rest on the same facts about its actions; for that the names of `Ledger` differ from those of `Retention`.

Not begun: notifications, sessions, idempotency records as a component of their own, the
ranking of candidates and the price function as pure algorithms (section 7).

## 3. The modules

Every module is named for what it models; an action has the name of the function it stands for, or of
the part of it that lies between two points where something else may happen. Operators marked "Mutant
of" are the mutated definitions that the mutation runs substitute; nothing else refers to them.

### PaymentDomain
The status vocabulary and `paymentTransition` (`payment-domain.ts`).

### Payment
One order, because orders share no state. The customer starts attempts `1 .. MaxAttempts`. Each
transaction of `commerce.service.ts` is one action; each call that happens outside a transaction is
a step of its own:

* `StartPayment` is the transaction of `startPayment`. The dispatch that the request goes on with
  is an execution in `call[<<a, "api">>]`; the job of the event it wrote is `call[<<a, "job">>]`,
  claimed by `ClaimDispatch` up to `MaxTries` times.
* `DispatchCall` is the provider call, `DispatchAccepted`, `DispatchRaced` and `DispatchFailed` what
  the code does with the answer. `attemptFresh` and `paymentFresh` say whether the versions the
  execution read are still those of the rows, so that each compare-and-swap can fail alone, as in
  the code. `DispatchCrash` is the death of the process at any point.
* `provider` is the charge at the provider. It may take the money after it reported a failure
  (`CAPTURED_LATE`). Webhooks report any state the charge ever had, in any order, `MaxEvents` times
  under different event ids; an event of the same id is answered from its row and needs no action.
* `Webhook...` are the branches of `callbackRaw`, with the tail they share in `Settles`.
* `ConfirmObserves`, `AdminObserves`, `JobObserves`, `CancelCreated` and `CancelProcessing` are the
  reads that precede `applyAttemptObservation`; `ObservationApplied`, `ObservationRepeats` and
  `ObservationAborted` (the partial unique index refuses) are its transaction, which may come much
  later. `Observers` bounds how many of them run at once.
* `DeadlinePasses` and `Sweep` are the deadline and the part of `dispatchBatch` that turns it into
  an event. An event is unique per attempt version: `event` is that of the current version, `older`
  says that a job of an older version is not done.
* `RefundAsked`, `RefundRecorded`, `RefundConfirmed` are `requestNoExecutorRefund` and the
  `REFUND_SUCCEEDED` branch; `RefundOperation_total_guard`, a trigger of the schema, is a guard.

Abstractions. Amounts, currency, signatures and encryption of references are left out: an attempt
has its reference or not. MATCHING stands for MATCHING and PARTNER_OFFERED. UNKNOWN_EVENT only
writes a row nobody reads. The job of PAYMENT_CONFIRMATION_REQUESTED and the finance run do a part
of what `AdminObserves` may do at any time, and so does a worker that dies after its transaction
and runs the job again. A reconciliation job is retried without end (the code gives it five runs,
then DEAD_LETTER): properties that need it to stop would be weaker, liveness is judged under the
more generous rule. The read that precedes the provider call is part of `DispatchCall`.

### ChargeBook
What a payment promises, without attempts, jobs or webhooks: charges are captured, booked once
captured, and the order is released only while a charge is booked. `Payment` implements it under
the mapping `captured = {a : provider[a] captured}`, `booked = {a : attempt[a] = "SUCCEEDED"}`,
`producing = (order # "AWAITING_PAYMENT")`. It allows `Suspend`, because a late webhook does take an
order back to AWAITING_PAYMENT.

### Matching
Several orders, because they share the capacity of the branches. The transactions of
`matching.service.ts` are SERIALIZABLE and lock the order first, so each is one action; one that fails
to serialize changes nothing and is run again.

* `NextOffer` is `createNextOffer`, which four handlers end in. It is given the offers as the handler
  has left them. Eligibility (partner, switches, compatibility, hours, area, preference) differs from
  moment to moment: any branch that was not asked before and has room may be offered, or none is,
  and matching is EXHAUSTED. The recount under the lock of the capacity version is `HasRoom`.
* `offer[o][b]` is the offer with its reservation: they are created together, expire together
  (`lapsed`) and the unique index allows one per order and branch. `version` counts the publications
  of any kind; an offer remembers the one it was made under, and `Current` compares, as `accept`
  does, only when there is a reservation.
* `OfferAccepted`, `OfferInvalidated`, `OfferRejected` are the outcomes of `decideOffer`,
  `OfferExpired` is `expireOffer`. A job that is delivered twice, or after the offer was decided,
  finds its inbox row or a decided offer and changes nothing.
* `Published` is `partner-network.service.ts`. `ProductionStarted`, `ProductionReady` and `Reprint`
  are the transactions that move an assigned order; READY stands for all that follows it.
* `RefundAsked`, `RefundRecorded`, `RefundConfirmed` are the refund of section Payment as matching
  meets it; orders in `AdminRefunds` may be refunded by an administrator at any time.

### Tender
What matching promises: an order is tendered to one branch after another, to none twice, until one
takes it or the tender is closed for good. `Matching` implements it, whatever refunds, reprints and
publications do.

### Printing
One order at one branch, of any of the `Items`. `Claim`, `ReportPrinting`, `Spool`, `ReportCompleted`, `ReportFailed` and
`Crash` are the agent's loop; `Report` is one request with its idempotency key, of which the answer
may be lost, and `Effect` what `setPrintJobStatus` writes. `record` holds the answers the API has
stored for the agent's keys: a key is made of job and status only, so a second run of a job meets the
records of the first. `CreateAsked` and `CreatePrintJobs` are the read and the inserts of
`createPrintJob`, between which the branch may take the order in hand (a reprint takes hours and is
not decided in that moment). `ItemByHand`, `StartByHand` and `FinishByHand` are the branch's own commands,
`RevokeAsked` and `Revoked` the two statements of `revokePrinterAgent`, `Reprint` the next cycle.

### Handover
Several orders, because they compete for couriers. `FindCourier` is what `assignDelivery` reads before
its transaction, `AssignCourier` and `FailNoCourier` are the transactions, `found` what runs have read
and not yet written. PINs are right or wrong; `wrong` and `misses` count the attempts, and
`PinExpires` closes one. `SuspendAsked` and `Suspended` are the two statements of `suspendCourier`.

### FinanceQueue
The events of one paid order, their jobs, and the fiscal operation they lead to. `MaterializeReads` and
`MaterializePayment` are the read of the payment, which ends the job early while a refund is pending, and
the transaction after it; `RefundAsked` and `RefundConfirmed` move the payment meanwhile. `ClaimJob`, `FinishJob`
and `FailJob` are the lease around the effect; a lease may end under a slow worker at any time
(`LeaseEnds`), a worker may die anywhere (`Dies`), and the queue delivers a job again as long as its
event waits. The effect is a sequence of transactions and of the call of the fiscal provider, whose
answer may be lost. `RetryAsked`, `RetryWritten`, `ReconcileReads` and `ReconcileWrites` are the
administrator's requests, each with its read and its write.

### Aftercare
Orders that are over, without production, delivery and matching, of which it keeps the ends. Each command
is one transaction under the order's lock. `Ledger` and `Retention` extend it and add to its actions
what they emit or protect. An order is refunded once at most, because no dispute is opened about one that
was refunded in part (`open` asks for COMPLETED or DELIVERY_FAILED); refunds are a sequence all the
same, as `resolve` and `callbackRaw` add up what there is. `CasesAgree` is checked in `ledger`;
`retention` checks the types.

### Ledger
`StartEarning`, `Earn`, `ReadPayment`, `ReadRefunds`, `Debit` and `Finish` are the statements of
`materializeEarning` and `materializeRefunds`, between which disputes go on and other workers run the
same event. `Adjustment` is the integer arithmetic of the source. `CreateSettlement(cutoff)` takes the
eligible entries up to a cutoff; `SubmitAsked`, `Submitted` and `SubmitFails` are the read, the answer and
the failure of `submitSettlement`, which may have reached the provider or not. `ReviewReads` and
`ReviewWrites` are `reconcile` of the batches, on both sides of the question to the provider: every batch
with a reference is read, settled ones too; SETTLED is written if the batch is still SUBMITTED, while an
answer that does not fit what was read writes RECONCILIATION_REQUIRED whatever the batch has become.
`Reviewers` are the batches that have been read and not yet compared. `Runners` are the runs
of finance jobs, `Requests` the submissions; `OrderStep` is `Aftercare` with the events it emits.

### Retention
`Hold` and `Date` are the two ends of `reconcileOrder`, `ListDue` and `Delete` those of `applyDue`, and
`Claim`, `Erase`, `Applied`, `EraseFails` the attempt to erase a file under the lease of its tombstone.
Sweeps overlap. `Protect` and `Available` are what the commands of `Aftercare` do about files. `Reprints`
is `ResolveReprint` for the items in the dispute's scope, whose layouts `reprint` remembers. A layout
stands for its upload, previews and print-ready versions, which are protected and erased alike.

### Uploads, Layouts, LayoutLife
`Uploads` has one session, the requests that put its content (the steps of `putContent` between its
compare-and-swaps), cancellation and expiry, the outbox event, the BullMQ message with its attempts
and stalls, the worker slots and the database job with its lease. `Fault` is a death of a process or a
failure of storage or database, of which `MaxFaults` happen. `Layouts` adds the layout of that upload:
concurrent calls of `generate`, the customer's confirmation and the administrator's review. `generate`
asks for a READY upload and neither half writes what the other reads, so the calls are made when the
upload has come to rest (`AtRest`); this saves interleavings that commute. `LayoutLife` is the layout
row with its committed changes only.

### Ordering
Every command on a draft or a basket is a serializable transaction and one action; `createLayout` and
`approve` have a second transaction (`Finish`), before which anything may happen (`Abandon`: it fails,
or the API dies). Versions are not counted: whoever holds a version of a draft is kept as long as it is
the current one, and forgotten by the write that increments it, because the comparison would refuse
it for ever. `preference` of a draft says whether a fulfilment preference is required, and chosen. A quote
carries what `createOrder` compares. `Settled` drafts only go into baskets.

### PaymentProofs, MatchingProofs, PrintingProofs, HandoverProofs, FinanceQueueProofs, LayoutsProofs, OrderingProofs, AftercareProofs
The theorems of section 6, with the inductive invariants and the lemmas they rest on.

### MC modules
Each extends its module for TLC and defines the constants that are functions.

## 4. The runs

| Run | Instance | Shows |
|---|---|---|
| `payment_sole` | 1 attempt, 1 claim of its job, 1 event of each kind, 1 customer, 1 worker, 2 refund triggers | `TypeOK`, `SoleAgree`, `EffectsOnce` (paid once, refunded once), `OpenChargeIsTracked`, `SoleOrderAdvances`; fair: `ChargesResolve` (a capture releases the order, a decline closes the attempt) |
| `payment_retry` | 2 attempts, 1 event of each kind, 1 customer | `OneOpenCharge`, `TakenUpIsReferenced`, refinement of ChargeBook |
| `matching` | 2 orders (one may be refunded by an administrator), 2 branches (one without a capacity version), capacity 1 or 2, 2 versions, 2 cycles | `TypeOK`, `HoldFollowsOffer`, `WorkMatchesOrder`, `HoldsFit`, `AcceptFits`, refinement of Tender; fair: `PaidIsServed` |
| `printing` | 1 or 2 items, 1 agent, 2 cycles | `TypeOK`, `ReadyIsComplete`, `OthersJobsRest` (jobs of earlier cycles and jobs taken by hand are left alone); fair: `AgentsFinish` |
| `handover` | 2 orders (one may be disputed), 1 courier, 2 PIN attempts, 2 cycles | `RowsAgree` (order, fulfilment and task agree, earlier cycles are closed), `OneOrderPerCourier`; fair: `RequestAnswered` |
| `finance_queue` | 2 workers, 2 attempts, 1 refund or request of the administrator | `DoneIsServed`, `LiveLeaseHolds`; fair: `EventsSettle` |
| `ledger` | 1 order, price 3, payout 2, 2 disputes, 2 workers, 2 requests, 2 reviewers, 2 attempts, 2 batches | `CasesAgree`, `LedgerFits`, `NoDoublePayout`, `SubmittedStays` |
| `retention` | 2 orders of 1 layout, one of which prints another layout too, 1 dispute each, 2 sweeps, 2 attempts | `FilesAgree` (a reprint has its files, an erasure is recorded), `HeldIsNonexpired`; fair: `FilesExpire` |
| `layouts` | 2 requests, 2 worker slots, 2 attempts, 2 faults; 2 settings (one doubtful), 2 calls | `SessionIsTrue` (a dropped upload stays out, READY was processed, an accepted one has its original), `ShownIsCurrent` (what is shown and approved is of the current settings), `ReviewedThenApproved`, refinement of LayoutLife; fair: `ProcessingEnds` |
| `ordering` | 2 drafts (one settled), 2 uploads, 2 configurations, preference required or not, 1 basket of 2 | `OrderedAsShown` (the approved file, at the price quoted), `ApprovalNeedsLayout` |
| `double_charge` | 2 attempts, 1 customer, 1 trigger | violated: `OneCharge` |
| `print_retry` | 1 or 2 items, 1 agent, 1 cycle, fair | violated: `FailedIsRetried` |

The type invariant of every module is checked, under its own name or as the first conjunct of the
invariant listed first or second (`payment_retry` leaves it to the proof).

Why the bounds are enough. Payment: two attempts are enough for every interference between an attempt
and the one before it: the code looks at the latest attempt, at the observed one, or at all of them.
Two dispatch executions (request and job) race; with one attempt, a customer and a worker observe at the
same time, besides dispatch and webhooks; with two attempts the customer does, and the properties of
that run are proved for any number of both. Matching: two orders race for the last place of a branch;
two branches make the first, the next and the last offer of an order different cases; a second version
lets the capacity go down or up under an open offer. Printing: a last item and one that is not, an old
cycle and the present one. Handover: two orders and one courier is the smallest competition. Finance: the
worker that was thought dead and its successor; a first and a last attempt; with price 3 and payout 2
the share of a partial refund is rounded, and the second dispute follows one that was decided without
a refund or by a reprint, so that an order is completed, and its event emitted, twice. With one order a batch has an earning and its adjustments; orders meet only in the sum of a
batch; two reconciliations read a batch before either writes. Retention: two orders share a layout, which is
what `ProtectedElsewhere` is about, one has a further item, and two sweeps overlap. Layouts: two requests for one session, the worker whose lease ended and its successor, settings
that are revised while the earlier ones are in preflight. Ordering: an order of one draft and an order
of a basket with two; one change of configuration and back.

Symmetry is used in `ordering` (the two configurations) and in `ledger` (workers, requests, reviewers);
no liveness is checked in either. The largest instances have 2.4 million (`ordering`), 1.2 million (`ledger`)
and 0.9 million states (`retention`).
`CHECK_DEADLOCK FALSE`: an order whose attempts, offers, cycles and requests are used up has nothing
left to do.

Fairness of `Payment!FairSpec`. `Scheduling`: requests and workers that can go on do so (the dispatchers are
timers that run every second; a job that fails is retried); a reconciliation that is started again
and again is not lost to a crash every time (strong fairness). `Delivery`: the provider sends an
event again until it is acknowledged, as payment providers do and as the webhook's error answers
presume. `Decision`: the provider decides each charge. `ChargesResolve` is
restricted to attempts with a reference: an attempt whose provider call threw stays UNKNOWN without one.

`Matching`: the jobs of the matching queue run (a failed job is run again; five failures in a row, after
which BullMQ gives up, are assumed not to happen), time passes, and the provider confirms refunds.
Nothing is assumed of partners. `Printing`: the agents poll in a loop, leases end, and of requests that
are repeated one is heard (strong fairness). `Handover`: the queue's worker runs again and one of its runs
gets through; users, partners and couriers owe nothing. `FinanceQueue`: the tick runs every second, leases
end, a living worker goes on; a job whose turn comes again and again is taken. Nobody owes a retry.
`Retention`: a sweep is made every minute and time passes; nothing is assumed of the storage. `Layouts`:
the dispatcher polls, workers take what waits, and a call that was made goes on. Where the code gives no
guarantee after a death (a worker in the last run of its job, a call of `generate`), the property says
so in its premise.

## 5. Where the code and the documentation disagree

Two statements do not hold of the code and have runs of their own, whose counterexamples TLC prints;
"findings" of `PROJECT.json` quotes the documents.

* `double_charge`: cancelling a CREATED attempt does not wait for the dispatch in flight.
* `print_retry`: the agent's idempotency keys do not tell the runs of a job apart, so a job that failed
  once is never reported again.

The models contain more steps at which code and documentation differ. They were met while modelling, the
properties leave them out by their premises, and no run is spent on them:

* `commerce.service.ts:1830` (docs/STAGE14_PROPOSAL.md:174): an observation of one attempt overwrites
  the payment whatever it has become; `:1605` (:641-642): a charge cancelled from PROCESSING leaves its
  attempt UNKNOWN; `:1822` (:447-449): UNKNOWN to PROCESSING clears the deadline of polling; `:1266`
  (:190-192): the success of one attempt is stored as a duplicate of another's.
* `matching.service.ts:1551` (docs/ARCHITECTURE.md:229-230): an offer that ends moves an order whose
  refund is pending to PARTNER_OFFERED; `:983` (docs/STAGE10.md:86-90): `accept` compares versions only
  for offers with a reservation.
* `finance.service.ts:226` (docs/OPERATIONS.md:278-279): a SUBMITTED fiscal operation whose worker died is
  not claimed again; `:196` (docs/ARCHITECTURE.md:322): an order that is disputed before its completion
  is served has no earning; `:75` (docs/ARCHITECTURE.md:318 speaks of one sale intent for each source): if PAYMENT_SUCCEEDED is served while a refund
  is pending, the job is DONE and the sale never gets a fiscal operation, even if only a part is refunded
  in the end; `:741` (docs/ARCHITECTURE.md:332): a reconciliation rewrites a SETTLED batch to
  RECONCILIATION_REQUIRED. `DoneIsServed` and `SubmittedStays` are stated so that they allow for these.
* `disputes/domain.ts:40` (docs/OPERATIONS.md:157): a hold protects the files of the order's first layout,
  not those of its other items; `disputes/retention-worker.service.ts:187` asks about the orders of which a
  layout is the first. A file that an order prints as a further item is deleted when the orders it is the
  first of rest, whether the printing order is in dispute, in a reprint, or still in its first cycle.
  `FilesAgree` therefore speaks of a reprint's own layout and of layouts that are no order's first, and
  claims nothing of the others.
* `ordering.service.ts:433` (docs/STAGE11.md:26-27): a draft takes a layout of other settings back
  through `linkLayout` or `syncDraft`; `basket.service.ts:779` (docs/STAGE11.md:60-61): a draft ordered as
  the second item of a basket can be reopened and ordered again.
* `layouts.service.ts:224` (docs/ARCHITECTURE.md:199-200): settings whose artifacts exist, asked for
  again, leave the layout PROCESSING until another call.

## 6. The proofs

`PaymentProofs` proves, for every number of attempts, job runs, events, requests, workers and
triggers (assumption: `BoundsAssumption`, the bounds are naturals and there is an attempt):

* `TypeCorrect`, `Referenced`, `ChargesTracked`, `RetryWaits`: the invariants `TypeOK`,
  `TakenUpIsReferenced`, `OpenChargeIsTracked` and `OneOpenCharge`;
* `BookKept`: `Spec => KeepsChargeBook`, the refinement of ChargeBook;
* `SoleAlwaysAgree`, `EffectsAreOnce`, `SoleOrderAlwaysAdvances`: `SoleAgree`, `EffectsOnce` and
  `SoleOrderAdvances`, what holds of an order as long as it has one attempt.

The argument. `OpenChargeIsTracked` is not inductive: a FAILED that was observed and not yet applied
would break it. `IInv` adds `Evidence` (success and failure, in a row or in flight, are the
provider's word, and the provider does not go back to PENDING), `Lineage` (what is in flight looks at
an attempt that exists, and has its reference unless it is a cancellation; a reference comes with
leaving CREATED), `OneUnresolved` (the partial unique index, and the guard of `startPayment`) and
`Paid` (a payment that counts as paid, or an order that was released, has an attempt that succeeded).
`StepKinds` sorts the steps of `Next` into seven kinds by what they do to the rows the invariant
speaks of; each conjunct is then preserved by each kind. `BookKept` uses `Evidence` to show that what
is booked was captured and `Paid` for the release of the order. `SoleInv` adds what a dispatch that was
answered still knows (`CallTells`: the versions of attempt and payment it read are stale together, and
fresh only while the attempt is CREATED, which is why its two compare-and-swaps succeed or fail
together), that money goes back only with a refund on record (`RefundTells`), and counts the effects
against the order and the refunds on record (`OnceTells`).

`MatchingProofs` proves, for every finite set of orders, every set of branches with or without
capacity versions, every capacity the API accepts (1 to 10000), and every bound on publications and
cycles, whichever branches publish (`MatchingAssumption`):

* `TypeCorrect`, `HoldsSettled`, `CapacityKept`, `WorkKept`: the invariants `TypeOK`,
  `HoldFollowsOffer`, `HoldsFit` and `WorkMatchesOrder`;
* `AcceptanceFits`: `Spec => AcceptFits`, what no acceptance may do;
* `TenderKept`: `Spec => TendersOrders`, the refinement of Tender.

The argument. No conjunct is inductive alone. `HoldsFit` counts the places taken at a branch, so it
needs `Reserved` (a PENDING offer made under the version in force holds a place), `OneBranch` and
`WorkIsAccepted` (the branch that works on an order is the one that accepted it, so that a reprint,
of cycle two or later, never becomes an original again). `WorkMatchesOrder` needs
`OffersFollowMatching` (a PENDING offer belongs to a matching that is ACTIVE, an accepted one to one
that is ASSIGNED) and `RefundIsLast` (without an administrator only an EXHAUSTED order is refunded). `IInv` is the conjunction of these with the type invariant and the properties.
Four handlers end in `createNextOffer`; the lemmas about it speak of the offers as the handler leaves
them, so that each handler only has to show that what it leaves is in order. The counting rests on
two facts about cardinalities: one order takes at most one place more, and fewer orders with a place
still fit. `CapacityKept` and `AcceptanceFits` together say that two orders cannot both take the last place.

`PrintingProofs` proves, for every finite set of items, every set of agents and any number of cycles:
`TypeCorrect`, `ReadyIsAlwaysComplete`, `OthersJobsAlwaysRest`. `ReadyIsComplete` says nothing of the states
before READY; `IInv` adds that jobs are of items of the order and of cycles that have begun
(`JobsAreOfItems`, so that a reprint finds no job of its cycle), that no job is half made and every lease
an agent's (`JobsAreWhole`), and that only the first cycle may have no job yet, and is the one whose jobs are being made (`CyclesBegin`, without
which an order could become READY with nothing printed). `OthersJobsRest` is an action property: each
action is shown to leave the jobs alone that it must not touch.

`HandoverProofs` proves, for any orders, couriers, numbers of PIN attempts and of cycles: `TypeCorrect`,
`RowsAlwaysAgree`, `CourierCarriesOneOrder`. `RowsAgree` is stated from the side of the rows; the invariant is
turned round: `StatusTells` says what each status of an order means for fulfilment and task of its latest
cycle, `CyclesApart` that earlier cycles are over and later ones untouched. The event of a request may be
handled late, even in the next cycle: `RequestsHandled` shows that a request is open only while its order
waits for it, and `FindingsArePast` that a run of the worker found its courier for a cycle that has come.

`FinanceQueueProofs` proves, for every finite set of workers, any number of attempts and of the
administrator's requests: `DoneIsAlwaysServed`, `LiveLeaseAlwaysHolds`. A worker whose lease ended goes on,
so what a job's row says is not enough: `ServedHasEffect` says it of every worker that has come to the
end of its effect, whoever holds the lease, and `ReceiptKnown` of the operation it may find confirmed. A
worker that found the payment in the middle of a refund has no operation to show; that the payment never
is SUCCEEDED again is what such a worker knows.

`LayoutsProofs` proves, for any settings, requests, workers, calls, attempts and number of faults:
`TypeCorrect`, `SessionIsAlwaysTrue`, `ShownIsAlwaysCurrent`, `AlwaysReviewedThenApproved`, and
`LayoutsImplementLife`, the refinement of `LayoutLife`. Of the upload the version does the work: it counts
the changes, and `VersionTells` reads from it whether the session was dropped, which a slow request
cannot see; `PutTells` and `OneClaims` say what the progress of the one request that claimed the session
implies. Of the layout, `RunTells` says that the reviews a call has locked are pending and its own,
`RowTells` that the row is about the artifact of its settings, and `ApprovalTells` that nobody is asked
about what was approved. Upload and layout touch each other only at READY, so each half is shown to
leave the other's invariant alone.

`OrderingProofs` proves, for any drafts, uploads, configurations and baskets of any size: `TypeCorrect`,
`AlwaysOrderedAsShown`, `ApprovalAlwaysNeedsLayout`. What an order prints was looked up when it was quoted;
`QuoteTells` says that a basket's quote that is not void still agrees with its drafts, item by item,
`DraftTells` what a command between its two transactions relies on, and `LayoutTells` that an approval
is that of the artifact.

`AftercareProofs` proves of `Retention`, for any orders, layouts, items, sweeps, attempts, prices and
number of disputes, whatever further items the orders have: `TypeCorrect`, `HeldIsAlwaysNonexpired`,
`RecordsAlwaysTell` (what the tombstones say of the files), and `FilesAlwaysAgree`. `DeletionTells` and
`SweepTells` relate files, tombstones and what a sweep has in hand; `ReprintTells` says that of what is
printed again neither the order's own layout nor one that no order is about was decided to be deleted: a
sweep decides of a layout only when every order it is the first of rests, and the order in its reprint does
not.

Of `Ledger` it proves, for every finite set of orders, any runs, requests, prices, payouts up to the price,
and bounds on disputes, submissions and batches: `CasesAlwaysAgree`, `LedgerAlwaysFits` (with the types),
`NeverDoublePayout`, `SubmittedAlwaysStays`. `StoryTells` is `CasesAgree` with what makes it inductive: an
order has one refund at most, and payment and order have the same refund status. `RunTells` says that what
a run has read is still so although the order has moved on: REFUNDED and CONFIRMED are for good
(`ForGood`), so a run that is late debits what a run in time does. `EntryTells` and `OneEach` say what
every entry stands for, once: an order's earning, or the share of its one refund, which `Adjustment` comes
to by either of its branches, since a refund that makes the payment REFUNDED is of the whole price.
`SubmittedIsPaid` relates the batches to the provider; a review
settles only a batch that is SUBMITTED at that moment, and its other write, which has no condition, never
makes a batch submittable, so `SubmittedAlwaysStays` holds of any number of reviewers. With one refund per order the rule for the last
refund of several never meets a rest that differs from the share; the theorem shows that it does no harm.

Sums. The ledger adds amounts with `SumFunction`, a fold. The library's induction theorems cannot be used
here, since their parameter is an operator; but a statement about every finite set is proved by looking
at the least cardinality for which it would fail (`LeastNatural`, from the well-foundedness of <). `SumExists`
and `SumIsNat` do so: the recursion behind the fold is defined on every finite set, and its value is a
number. `SumOfNone` and `SumOfOne` are its values on the sets the proofs meet.

Only model-checked: the liveness properties `ChargesResolve`, `PaidIsServed`, `AgentsFinish`, `RequestAnswered`,
`EventsSettle`, `FilesExpire` and `ProcessingEnds`, because fairness and ENABLED are out of the prover's reach;
and the two violations. That the rows of `Payment` agree
is proved, and holds, only while the order has one attempt (section 5 has what happens with two).

## 7. What is not modelled

"components" in `PROJECT.json` has each part with its status and the reason. The larger gaps:

* Notifications (`notification-worker.service.ts`): a job row is written before the queue has the job and
  only events without a row are looked at, so a crash between the two loses the notification.
* Sessions (`auth/`): two refreshes at once both read the session before it is revoked, and both get a
  successor.
* Idempotency records as a component: replay is part of the actions whose outcome it changes (Printing,
  Ledger), elsewhere a repeated request is an action that changes nothing.
* Pure computations: the ranking of branches (`network-policy.ts`), prices (`pricing.ts`) beyond what
  they depend on, the checks of a file's bytes, opening hours and time windows.
* Marketplace listings and reviews, partner onboarding, profiles: rows edited by one actor at a time.
* Guards, audit, metrics, configuration, contracts, the web client and operations scripts keep no
  state that another component reads back.
* Of the payment: the reference of a payment from before attempts existed, and the projections.

## 8. How to run

    tlc -workers 2 -config PaymentSole.cfg MCPayment.tla
    tlc -workers 2 -config Layouts.cfg MCLayouts.tla
    tlapm PaymentProofs.tla
    tlapm MatchingProofs.tla
    tlapm PrintingProofs.tla
    tlapm HandoverProofs.tla
    tlapm FinanceQueueProofs.tla
    tlapm LayoutsProofs.tla
    tlapm OrderingProofs.tla
    tlapm AftercareProofs.tla

The other runs are the other configurations of the MC modules; "runs" of `PROJECT.json` names them.
