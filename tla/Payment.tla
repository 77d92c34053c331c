------------------------------ MODULE Payment ------------------------------
(* The payment of one order: customer requests, the in-line dispatch of an   *)
(* attempt and its outbox job, provider webhooks, reconciliation, and the    *)
(* refund of an order that found no executor (commerce.service.ts, with the  *)
(* deadline sweep of finance-queue.service.ts).  Orders do not interact, so  *)
(* one order is modelled.  A database transaction is one action; everything  *)
(* the code does outside a transaction is a step of its own.                 *)
EXTENDS PaymentDomain, Naturals

CONSTANTS
  MaxAttempts,   \* bound: attempts the customer starts on this order
  MaxTries,      \* runs a dispatch job has before DEAD_LETTER (5 in the code)
  MaxEvents,     \* bound: webhooks with ids of their own per charge and outcome
  Customers,     \* concurrent confirm and cancel requests
  Workers,       \* concurrent reconciliations: jobs, administrators, finance
  Triggers       \* distinct reasons to refund (admin reference, exhaustion)

ASSUME BoundsAssumption ==
  /\ MaxAttempts \in Nat \ {0}
  /\ MaxTries \in Nat /\ MaxEvents \in Nat

Attempts == 1 .. MaxAttempts
Observers == Customers \cup Workers
Outcomes == {"SUCCEEDED", "FAILED", "CANCELLED", "UNKNOWN"}
Callers == {"api", "job"}
Calls == Attempts \X Callers

VARIABLES
  order,        \* Order.status
  payment,      \* Payment.status, NONE before the first attempt
  attempt,      \* PaymentAttempt.status by sequence, NONE before it exists
  reference,    \* the provider reference is stored on the attempt
  due,          \* nextReconcileAt: NONE, ARMED (future) or DUE (past)
  event,        \* reconciliation event (and job) of the attempt's version
  older,        \* a reconciliation job of an older version is not done
  dispatchJob,  \* job of PAYMENT_ATTEMPT_CREATED
  tries,        \* runs that job has used
  call,         \* dispatchPaymentAttempt executions in flight
  obs,          \* observeAttempt / cancel executions in flight
  recorded,     \* ProviderCallback rows by attempt and outcome
  provider,     \* the provider's own state of the charge
  refund,       \* requestNoExecutorRefund by trigger
  paidEvents    \* PAYMENT_SUCCEEDED outbox events, counted to 2

db == <<order, payment, attempt, reference, due, event, older, dispatchJob,
        tries, recorded, refund, paidEvents>>
vars == <<order, payment, attempt, reference, due, event, older, dispatchJob,
          tries, call, obs, recorded, provider, refund, paidEvents>>

-----------------------------------------------------------------------------
\* MATCHING stands for MATCHING and PARTNER_OFFERED.
OrderStatus == {"AWAITING_PAYMENT", "PAID", "MATCHING", "REFUND_PENDING",
                "REFUNDED"}
\* CAPTURED_LATE: the provider reported a failure before it took the money.
ProviderStatus == {"NONE", "PENDING", "CAPTURED", "FAILED", "CAPTURED_LATE",
                   "CANCELLED"}
Captured == {"CAPTURED", "CAPTURED_LATE"}
Declined == {"FAILED", "CAPTURED_LATE"}

DispatchResult == {"ACCEPTED", "UNKNOWN", "TEMPORARY", "ERROR"}

\* attemptFresh, paymentFresh: the row still has the version the call read.
CallState == [pc : {"IDLE", "TODO", "ANSWERED"},
              result : DispatchResult \cup {"NONE"},
              attemptFresh : BOOLEAN, paymentFresh : BOOLEAN]
CallAt(pc) == [pc |-> pc, result |-> "NONE",
               attemptFresh |-> FALSE, paymentFresh |-> FALSE]

\* job: the reconciliation job this execution runs, of the attempt's EVENT or of
\* an OLDER version.
ObsState == [attempt : 0 .. MaxAttempts, seen : Observation \cup {"NONE"},
             job : {"NONE", "EVENT", "OLDER"}]
NoObs == [attempt |-> 0, seen |-> "NONE", job |-> "NONE"]

Init ==
  /\ order = "AWAITING_PAYMENT"
  /\ payment = "NONE"
  /\ attempt = [a \in Attempts |-> "NONE"]
  /\ reference = [a \in Attempts |-> FALSE]
  /\ due = [a \in Attempts |-> "NONE"]
  /\ event = [a \in Attempts |-> "NONE"]
  /\ older = [a \in Attempts |-> FALSE]
  /\ dispatchJob = [a \in Attempts |-> "NONE"]
  /\ tries = [a \in Attempts |-> 0]
  /\ call = [k \in Calls |-> CallAt("IDLE")]
  /\ obs = [w \in Observers |-> NoObs]
  /\ recorded = [x \in Attempts \X Outcomes |-> 0]
  /\ provider = [a \in Attempts |-> "NONE"]
  /\ refund = [t \in Triggers |-> "NONE"]
  /\ paidEvents = 0

-----------------------------------------------------------------------------
Latest(a) ==
  /\ attempt[a] # "NONE"
  /\ \A b \in Attempts : b > a => attempt[b] = "NONE"

\* The partial unique index accepts status s on attempt a.
IndexAccepts(a, s) ==
  s \in Unresolved => \A b \in Attempts \ {a} : attempt[b] \notin Unresolved

\* Mutant of Outdated: writing the payment row leaves its version alone.
OutdatedAttempts(calls, S, p) ==
  [k \in Calls |-> [calls[k] EXCEPT !.attemptFresh = @ /\ k[1] \notin S]]

\* The calls in flight after the rows of the attempts in S, and the payment row
\* when p, got a new version.
Outdated(calls, S, p) ==
  [k \in Calls |->
     [calls[k] EXCEPT !.attemptFresh = @ /\ k[1] \notin S,
                      !.paymentFresh = @ /\ ~p]]

\* The executions in flight once a has a new version: its event is an older one.
Superseded(a) ==
  [w \in Observers |->
     IF obs[w].attempt = a /\ obs[w].job = "EVENT"
     THEN [obs[w] EXCEPT !.job = "OLDER"] ELSE obs[w]]

CountPaid == paidEvents' = IF paidEvents < 2 THEN paidEvents + 1 ELSE 2

\* Mutant of Record: the deduplication key of an event lacks the version.
RecordUnversioned(a, s, e, job) ==
  /\ IndexAccepts(a, s)
  /\ attempt' = [attempt EXCEPT ![a] = s]
  /\ due' = [due EXCEPT ![a] = IF s = "UNKNOWN" THEN "DUE" ELSE "NONE"]
  /\ payment' = s
  /\ event' = [event EXCEPT ![a] = IF e /\ @ = "NONE" THEN "OPEN" ELSE @]
  /\ UNCHANGED older
  /\ call' = Outdated(call, {a}, TRUE)

\* The tail of callbackRaw and of applyAttemptObservation: attempt and payment
\* take status s, and e says whether the attempt gets a reconciliation event.
\* The job that does this, if any, is over; an open event becomes an older one.
Record(a, s, e, job) ==
  /\ IndexAccepts(a, s)
  /\ attempt' = [attempt EXCEPT ![a] = s]
  /\ due' = [due EXCEPT ![a] = IF s = "UNKNOWN" THEN "DUE" ELSE "NONE"]
  /\ payment' = s
  /\ event' = [event EXCEPT ![a] = IF e THEN "OPEN" ELSE "NONE"]
  /\ older' = [older EXCEPT ![a] = \/ @ /\ job # "OLDER"
                                   \/ event[a] = "OPEN" /\ job # "EVENT"]
  /\ call' = Outdated(call, {a}, TRUE)

-----------------------------------------------------------------------------
(* startPayment and dispatchPaymentAttempt.                                  *)

\* Mutant of Payable: the customer may retry while an attempt is UNKNOWN.
PayableIfUnknown ==
  /\ order = "AWAITING_PAYMENT"
  /\ payment # "SUCCEEDED"
  /\ \A b \in Attempts : attempt[b] \notin {"CREATED", "PROCESSING"}

\* startPayment takes an order that waits for payment and has no attempt whose
\* result is open.
Payable ==
  /\ order = "AWAITING_PAYMENT"
  /\ payment # "SUCCEEDED"
  /\ \A b \in Attempts : attempt[b] \notin Unresolved

\* The transaction of startPayment; the dispatch in the same request is TODO.
StartPayment(a) ==
  /\ attempt[a] = "NONE"
  /\ \A b \in Attempts : b < a => attempt[b] # "NONE"
  /\ Payable
  /\ payment' = "PENDING"
  /\ attempt' = [attempt EXCEPT ![a] = "CREATED"]
  /\ dispatchJob' = [dispatchJob EXCEPT ![a] = "OPEN"]
  /\ call' = [Outdated(call, {}, TRUE) EXCEPT ![<<a, "api">>] = CallAt("TODO")]
  /\ UNCHANGED <<order, reference, due, event, older, tries, obs, recorded,
                 provider, refund, paidEvents>>

\* A worker claims the job of PAYMENT_ATTEMPT_CREATED.
ClaimDispatch(a) ==
  /\ dispatchJob[a] = "OPEN"
  /\ tries[a] < MaxTries
  /\ call[<<a, "job">>].pc = "IDLE"
  /\ tries' = [tries EXCEPT ![a] = @ + 1]
  /\ call' = [call EXCEPT ![<<a, "job">>] = CallAt("TODO")]
  /\ UNCHANGED <<order, payment, attempt, reference, due, event, older,
                 dispatchJob, obs, recorded, provider, refund, paidEvents>>

\* The job ends: DONE, unless the worker dies before it can say so.
JobEnds(a, c) ==
  \/ UNCHANGED dispatchJob
  \/ c = "job" /\ dispatchJob' = [dispatchJob EXCEPT ![a] = "DONE"]

\* The attempt is no longer CREATED: the stored reference is the answer, and
\* without one the call fails and its job is retried.
DispatchSkip(a, c) ==
  /\ call[<<a, c>>].pc = "TODO"
  /\ attempt[a] # "CREATED"
  /\ call' = [call EXCEPT ![<<a, c>>] = CallAt("IDLE")]
  /\ IF reference[a] THEN JobEnds(a, c) ELSE UNCHANGED dispatchJob
  /\ UNCHANGED <<order, payment, attempt, reference, due, event, older, tries,
                 obs, recorded, provider, refund, paidEvents>>

\* dispatchPaymentAttempt reads the attempt and asks the provider to create its
\* charge, under the attempt's idempotency key: a repeated call finds the charge
\* it made. A request that fails may have made the charge; a temporary refusal
\* (first call of the RETRY scenario) made none. The read is part of the step: no
\* row the call depends on can change before it in a way another order of the
\* steps would not show.
DispatchCall(a, c, result) ==
  /\ call[<<a, c>>].pc = "TODO"
  /\ attempt[a] = "CREATED"
  /\ call' = [call EXCEPT ![<<a, c>>] =
       [pc |-> "ANSWERED", result |-> result,
        attemptFresh |-> TRUE, paymentFresh |-> TRUE]]
  /\ \/ /\ result \in {"ACCEPTED", "UNKNOWN", "ERROR"}
        /\ provider' = [provider EXCEPT ![a] = IF @ = "NONE" THEN "PENDING"
                                               ELSE @]
     \/ /\ result = "TEMPORARY" => provider[a] = "NONE"
        /\ result \in {"TEMPORARY", "ERROR"}
        /\ UNCHANGED provider
  /\ UNCHANGED <<db, obs>>

\* The transaction after an answer: a compare-and-swap on the attempt that
\* aborts everything, then one on the payment that is skipped when it fails.
DispatchAccepted(a, c) ==
  LET k == <<a, c>>
      s == IF call[k].result = "UNKNOWN" THEN "UNKNOWN" ELSE "PROCESSING"
  IN
  /\ call[k].pc = "ANSWERED"
  /\ call[k].result \in {"ACCEPTED", "UNKNOWN"}
  /\ call[k].attemptFresh /\ attempt[a] = "CREATED"
  /\ attempt' = [attempt EXCEPT ![a] = s]
  /\ reference' = [reference EXCEPT ![a] = TRUE]
  /\ due' = [due EXCEPT ![a] = IF s = "UNKNOWN" THEN "DUE" ELSE "ARMED"]
  /\ payment' = IF call[k].paymentFresh THEN s ELSE payment
  /\ call' = [Outdated(call, {a}, call[k].paymentFresh) EXCEPT
                ![k] = CallAt("IDLE")]
  /\ JobEnds(a, c)
  /\ UNCHANGED <<order, event, older, tries, obs, recorded, provider, refund,
                 paidEvents>>

\* PAYMENT_ATTEMPT_RACE: someone else moved the attempt; nothing is written.
DispatchRaced(a, c) ==
  /\ call[<<a, c>>].pc = "ANSWERED"
  /\ call[<<a, c>>].result \in {"ACCEPTED", "UNKNOWN"}
  /\ ~(call[<<a, c>>].attemptFresh /\ attempt[a] = "CREATED")
  /\ call' = [call EXCEPT ![<<a, c>>] = CallAt("IDLE")]
  /\ UNCHANGED <<db, obs, provider>>

\* The two catch branches: the attempt stays CREATED for a retry or becomes
\* UNKNOWN without a reference; both compare-and-swaps are skipped when stale.
DispatchFailed(a, c) ==
  LET k == <<a, c>>
      lost == call[k].result = "ERROR"
      mine == call[k].attemptFresh /\ attempt[a] = "CREATED"
  IN
  /\ call[k].pc = "ANSWERED"
  /\ call[k].result \in {"TEMPORARY", "ERROR"}
  /\ attempt' = [attempt EXCEPT ![a] = IF mine /\ lost THEN "UNKNOWN" ELSE @]
  /\ due' = [due EXCEPT ![a] = IF mine THEN "DUE" ELSE @]
  /\ payment' = IF call[k].paymentFresh /\ lost THEN "UNKNOWN" ELSE payment
  /\ call' = [Outdated(call, IF mine THEN {a} ELSE {}, call[k].paymentFresh)
                EXCEPT ![k] = CallAt("IDLE")]
  /\ UNCHANGED <<order, reference, event, older, dispatchJob, tries, obs,
                 recorded, provider, refund, paidEvents>>

\* The process that runs the call dies (the request or the worker is lost).
DispatchCrash(a, c) ==
  /\ call[<<a, c>>].pc # "IDLE"
  /\ call' = [call EXCEPT ![<<a, c>>] = CallAt("IDLE")]
  /\ UNCHANGED <<db, obs, provider>>

-----------------------------------------------------------------------------
(* The provider (external) and its webhooks. Webhooks tell every state the   *)
(* charge ever had, late and in any order; one that is answered with an      *)
(* error is sent again, one whose reference is not stored is answered 404.   *)

ProviderDecides(a) ==
  /\ \E s \in ProviderStatus :
       /\ <<provider[a], s>> \in
            {<<"PENDING", "CAPTURED">>, <<"PENDING", "FAILED">>,
             <<"PENDING", "CANCELLED">>, <<"FAILED", "CAPTURED_LATE">>}
       /\ provider' = [provider EXCEPT ![a] = s]
  /\ UNCHANGED <<db, call, obs>>

\* What the provider may tell of a charge.
Told(a, o) ==
  \/ o = "SUCCEEDED" /\ provider[a] \in Captured
  \/ o = "FAILED" /\ provider[a] \in Declined
  \/ o = "CANCELLED" /\ provider[a] = "CANCELLED"
  \/ o = "UNKNOWN" /\ provider[a] # "NONE"

\* One more event of outcome o on a's charge is there, and is recorded. An event
\* that is on record already is answered from there.
Webhook(a, o) ==
  /\ reference[a]
  /\ Told(a, o)
  /\ recorded[<<a, o>>] < MaxEvents
  /\ recorded' = [recorded EXCEPT ![<<a, o>>] = @ + 1]

\* The tail of callbackRaw: a and the payment get status s, the order o.
Settles(a, s, e, o) ==
  /\ Record(a, s, e, "NONE")
  /\ order' = o
  /\ obs' = Superseded(a)
  /\ UNCHANGED <<reference, dispatchJob, tries, provider, refund>>

\* DUPLICATE and OUT_OF_ORDER: only the event is stored. The success may be that
\* of another attempt than the one that succeeded.
WebhookStored(a) ==
  /\ \/ Webhook(a, "SUCCEEDED") /\ payment = "SUCCEEDED" /\ order = "PAID"
     \/ Webhook(a, "FAILED") /\ payment \in {"FAILED", "SUCCEEDED"}
  /\ UNCHANGED <<order, payment, attempt, reference, due, event, older,
                 dispatchJob, tries, call, obs, provider, refund, paidEvents>>

\* PAYMENT_SUCCEEDED when the payment or the attempt was failed or cancelled.
WebhookSucceededLate(a) ==
  /\ Webhook(a, "SUCCEEDED")
  /\ ~(payment = "SUCCEEDED" /\ order = "PAID")
  /\ \/ payment \in {"FAILED", "CANCELLED"}
     \/ attempt[a] \in {"FAILED", "CANCELLED"}
  /\ Settles(a, PaymentTransition(attempt[a], "UNKNOWN"), TRUE,
             "AWAITING_PAYMENT")
  /\ UNCHANGED paidEvents

WebhookSucceeded(a) ==
  /\ Webhook(a, "SUCCEEDED")
  /\ attempt[a] \notin {"FAILED", "CANCELLED"}
  /\ payment \in {"PENDING", "PROCESSING", "UNKNOWN"}
  /\ order = "AWAITING_PAYMENT"
  /\ Settles(a, PaymentTransition(attempt[a], "SUCCEEDED"), FALSE, "PAID")
  /\ CountPaid

WebhookFailed(a) ==
  /\ Webhook(a, "FAILED")
  /\ payment \in {"PENDING", "PROCESSING", "UNKNOWN"}
  /\ order = "AWAITING_PAYMENT"
  /\ Settles(a, PaymentTransition(attempt[a], "FAILED"), FALSE,
             "AWAITING_PAYMENT")
  /\ UNCHANGED paidEvents

WebhookCancelled(a) ==
  /\ Webhook(a, "CANCELLED")
  /\ attempt[a] \in Unresolved
  /\ Settles(a, PaymentTransition(attempt[a], "CANCELLED"), FALSE,
             "AWAITING_PAYMENT")
  /\ UNCHANGED paidEvents

WebhookUnknown(a) ==
  /\ Webhook(a, "UNKNOWN")
  /\ attempt[a] \in {"PROCESSING", "UNKNOWN"}
  /\ Settles(a, PaymentTransition(attempt[a], "UNKNOWN"), TRUE,
             "AWAITING_PAYMENT")
  /\ UNCHANGED paidEvents

-----------------------------------------------------------------------------
(* Confirmation, cancellation and reconciliation: an observation of the      *)
(* provider, then applyAttemptObservation in a transaction of its own.       *)

\* Mutant of Reported: the status of the provider is passed on as it is.
ReportedRaw(a) ==
  IF provider[a] \in Captured THEN "SUCCEEDED" ELSE provider[a]

\* What observeAttempt makes of provider.status. A cancelled charge has no
\* amount at the mock provider and no status at the HTTP one: never CANCELLED.
Reported(a) ==
  CASE provider[a] = "PENDING" -> "PROCESSING"
    [] provider[a] \in Captured -> "SUCCEEDED"
    [] provider[a] = "FAILED" -> "FAILED"
    [] OTHER -> "UNKNOWN"

\* Mutant of Reconciled: an attempt past its deadline counts as failed.
ReconciledAsFailed(a) ==
  IF /\ Reported(a) = "PROCESSING"
     /\ attempt[a] = "PROCESSING" /\ due[a] = "DUE"
  THEN "FAILED" ELSE Reported(a)

\* reconcilePaymentAttemptSystem turns PROCESSING past the deadline to UNKNOWN.
Reconciled(a) ==
  IF /\ Reported(a) = "PROCESSING"
     /\ attempt[a] = "PROCESSING" /\ due[a] = "DUE"
  THEN "UNKNOWN" ELSE Reported(a)

Observes(w, a, seen, job) ==
  /\ obs[w] = NoObs
  /\ obs' = [obs EXCEPT ![w] = [attempt |-> a, seen |-> seen, job |-> job]]

\* Mutant of ConfirmObserves: the reference is taken for granted.
ConfirmObservesUnreferenced(w, a) ==
  /\ w \in Customers
  /\ ~(payment = "SUCCEEDED" /\ order = "PAID")
  /\ Latest(a) /\ attempt[a] \in {"PROCESSING", "UNKNOWN"}
  /\ Observes(w, a, Reported(a), "NONE")
  /\ UNCHANGED <<db, call, provider>>

\* confirmPayment looks at the latest attempt only.
ConfirmObserves(w, a) ==
  /\ w \in Customers
  /\ ~(payment = "SUCCEEDED" /\ order = "PAID")
  /\ Latest(a) /\ attempt[a] \in {"PROCESSING", "UNKNOWN"} /\ reference[a]
  /\ Observes(w, a, Reported(a), "NONE")
  /\ UNCHANGED <<db, call, provider>>

\* The administrator reconciles any attempt with a reference. The finance run
\* and the job of PAYMENT_CONFIRMATION_REQUESTED do a part of this.
AdminObserves(w, a) ==
  /\ w \in Workers
  /\ attempt[a] # "NONE" /\ reference[a]
  /\ Observes(w, a, Reconciled(a), "NONE")
  /\ UNCHANGED <<db, call, provider>>

\* A worker runs a reconciliation job that nobody else holds. The job fails when
\* the attempt has no reference.
JobObserves(w, a, job) ==
  /\ w \in Workers
  /\ \/ job = "EVENT" /\ event[a] = "OPEN"
     \/ job = "OLDER" /\ older[a]
  /\ reference[a]
  /\ \A v \in Workers : ~(obs[v].attempt = a /\ obs[v].job = job)
  /\ Observes(w, a, Reconciled(a), job)
  /\ UNCHANGED <<db, call, provider>>

\* cancelPayment of an attempt it reads as CREATED asks nobody.
CancelCreated(w, a) ==
  /\ w \in Customers
  /\ Latest(a) /\ attempt[a] = "CREATED"
  /\ Observes(w, a, "CANCELLED", "NONE")
  /\ UNCHANGED <<db, call, provider>>

\* cancelPayment of a PROCESSING attempt goes on only if the provider cancels.
CancelProcessing(w, a) ==
  /\ w \in Customers
  /\ Latest(a) /\ attempt[a] = "PROCESSING" /\ reference[a]
  /\ provider[a] = "PENDING"
  /\ provider' = [provider EXCEPT ![a] = "CANCELLED"]
  /\ Observes(w, a, "CANCELLED", "NONE")
  /\ UNCHANGED <<db, call>>

\* Mutant of Released: a payment that succeeds makes any order PAID.
ReleasedAnyway(s) == IF s = "SUCCEEDED" THEN "PAID" ELSE order

\* A payment that succeeds takes its order to PAID only from AWAITING_PAYMENT.
Released(s) ==
  IF s = "SUCCEEDED" /\ order = "AWAITING_PAYMENT" THEN "PAID" ELSE order

\* Mutant of ObservationApplied: an observation is never a duplicate.
ObservationAppliedAgain(w) ==
  LET a == obs[w].attempt
      s == PaymentTransition(attempt[a], obs[w].seen)
  IN
  /\ obs[w] # NoObs
  /\ Record(a, s, s = "UNKNOWN", obs[w].job)
  /\ order' = Released(s)
  /\ IF s = "SUCCEEDED" THEN CountPaid ELSE UNCHANGED paidEvents
  /\ obs' = [Superseded(a) EXCEPT ![w] = NoObs]
  /\ UNCHANGED <<reference, dispatchJob, tries, recorded, provider, refund>>

\* applyAttemptObservation when it changes something. (A worker that dies after
\* this and before its job is DONE runs it again: see AdminObserves.)
ObservationApplied(w) ==
  LET a == obs[w].attempt
      s == PaymentTransition(attempt[a], obs[w].seen)
  IN
  /\ obs[w] # NoObs
  /\ ~(attempt[a] = s /\ payment = s)
  /\ Record(a, s, s = "UNKNOWN", obs[w].job)
  /\ order' = Released(s)
  /\ IF s = "SUCCEEDED" THEN CountPaid ELSE UNCHANGED paidEvents
  /\ obs' = [Superseded(a) EXCEPT ![w] = NoObs]
  /\ UNCHANGED <<reference, dispatchJob, tries, recorded, provider, refund>>

\* It changes nothing when both rows have the status already; the job is DONE.
ObservationRepeats(w) ==
  LET a == obs[w].attempt
      s == PaymentTransition(attempt[a], obs[w].seen)
  IN
  /\ obs[w] # NoObs
  /\ attempt[a] = s /\ payment = s
  /\ event' = [event EXCEPT ![a] = IF obs[w].job = "EVENT" THEN "DONE" ELSE @]
  /\ older' = [older EXCEPT ![a] = @ /\ obs[w].job # "OLDER"]
  /\ obs' = [obs EXCEPT ![w] = NoObs]
  /\ UNCHANGED <<order, payment, attempt, reference, due, dispatchJob, tries,
                 call, recorded, provider, refund, paidEvents>>

\* The index aborts the transaction: the job, if any, is free again.
ObservationAborted(w) ==
  /\ obs[w] # NoObs
  /\ ~IndexAccepts(obs[w].attempt,
                   PaymentTransition(attempt[obs[w].attempt], obs[w].seen))
  /\ obs' = [obs EXCEPT ![w] = NoObs]
  /\ UNCHANGED <<db, call, provider>>

\* The request or the worker dies.
ObservationLost(w) ==
  /\ obs[w] # NoObs
  /\ obs' = [obs EXCEPT ![w] = NoObs]
  /\ UNCHANGED <<db, call, provider>>

DeadlinePasses(a) ==
  /\ due[a] = "ARMED"
  /\ due' = [due EXCEPT ![a] = "DUE"]
  /\ UNCHANGED <<order, payment, attempt, reference, event, older,
                 dispatchJob, tries, call, obs, recorded, provider, refund,
                 paidEvents>>

\* dispatchBatch: an event for the version of every attempt past its deadline,
\* unless that version had one.
Sweep(a) ==
  /\ attempt[a] \in {"PROCESSING", "UNKNOWN"} /\ due[a] = "DUE"
  /\ event[a] = "NONE"
  /\ event' = [event EXCEPT ![a] = "OPEN"]
  /\ UNCHANGED <<order, payment, attempt, reference, due, older, dispatchJob,
                 tries, call, obs, recorded, provider, refund, paidEvents>>

-----------------------------------------------------------------------------
(* The refund of an order without an executor.                               *)

\* Matching (external here) takes the paid order over.
StartMatching ==
  /\ order = "PAID"
  /\ order' = "MATCHING"
  /\ UNCHANGED <<payment, attempt, reference, due, event, older, dispatchJob,
                 tries, call, obs, recorded, provider, refund, paidEvents>>

\* The order is read and the provider asked for the money before the
\* transaction; the reference is the latest attempt's.
RefundAsked(t) ==
  /\ refund[t] = "NONE"
  /\ payment = "SUCCEEDED" /\ order \in {"PAID", "MATCHING"}
  /\ \E a \in Attempts : Latest(a) /\ reference[a]
  /\ refund' = [refund EXCEPT ![t] = "ASKED"]
  /\ UNCHANGED <<order, payment, attempt, reference, due, event, older,
                 dispatchJob, tries, call, obs, recorded, provider,
                 paidEvents>>

\* Mutant of RefundRecorded: the database does not guard the refund total.
RefundRecordedUnguarded(t) ==
  /\ refund[t] = "ASKED"
  /\ payment = "SUCCEEDED"
  /\ refund' = [refund EXCEPT ![t] = "REQUESTED"]
  /\ payment' = "REFUND_PENDING"
  /\ order' = "REFUND_PENDING"
  /\ call' = Outdated(call, {}, TRUE)
  /\ UNCHANGED <<attempt, reference, due, event, older, dispatchJob, tries,
                 obs, recorded, provider, paidEvents>>

\* The transaction. RefundOperation_total_guard aborts it unless the payment is
\* SUCCEEDED and no other full refund is on record; payment and order are
\* overwritten whatever became of them since the read.
RefundRecorded(t) ==
  /\ refund[t] = "ASKED"
  /\ payment = "SUCCEEDED"
  /\ \A u \in Triggers : refund[u] \notin {"REQUESTED", "CONFIRMED"}
  /\ refund' = [refund EXCEPT ![t] = "REQUESTED"]
  /\ payment' = "REFUND_PENDING"
  /\ order' = "REFUND_PENDING"
  /\ call' = Outdated(call, {}, TRUE)
  /\ UNCHANGED <<attempt, reference, due, event, older, dispatchJob, tries,
                 obs, recorded, provider, paidEvents>>

\* REFUND_SUCCEEDED for the recorded refund.
RefundConfirmed(t) ==
  /\ refund[t] = "REQUESTED"
  /\ payment = "REFUND_PENDING" /\ order = "REFUND_PENDING"
  /\ refund' = [refund EXCEPT ![t] = "CONFIRMED"]
  /\ payment' = "REFUNDED"
  /\ order' = "REFUNDED"
  /\ call' = Outdated(call, {}, TRUE)
  /\ UNCHANGED <<attempt, reference, due, event, older, dispatchJob, tries,
                 obs, recorded, provider, paidEvents>>
-----------------------------------------------------------------------------
Dispatching(a) ==
  \/ ClaimDispatch(a)
  \/ \E c \in Callers :
       \/ DispatchSkip(a, c)
       \/ \E result \in DispatchResult : DispatchCall(a, c, result)
       \/ DispatchAccepted(a, c)
       \/ DispatchRaced(a, c)
       \/ DispatchFailed(a, c)
       \/ DispatchCrash(a, c)

Webhooks(a) ==
  \/ WebhookStored(a)
  \/ WebhookSucceededLate(a)
  \/ WebhookSucceeded(a)
  \/ WebhookFailed(a)
  \/ WebhookCancelled(a)
  \/ WebhookUnknown(a)

Observing(w, a) ==
  \/ ConfirmObserves(w, a)
  \/ AdminObserves(w, a)
  \/ \E job \in {"EVENT", "OLDER"} : JobObserves(w, a, job)
  \/ CancelCreated(w, a)
  \/ CancelProcessing(w, a)

ApplyObservation(w) ==
  \/ ObservationApplied(w)
  \/ ObservationRepeats(w)
  \/ ObservationAborted(w)

Next ==
  \/ \E a \in Attempts :
       \/ StartPayment(a)
       \/ Dispatching(a)
       \/ ProviderDecides(a)
       \/ Webhooks(a)
       \/ DeadlinePasses(a)
       \/ Sweep(a)
       \/ \E w \in Observers : Observing(w, a)
  \/ \E w \in Observers : ApplyObservation(w) \/ ObservationLost(w)
  \/ StartMatching
  \/ \E t \in Triggers :
       RefundAsked(t) \/ RefundRecorded(t) \/ RefundConfirmed(t)

Spec == Init /\ [][Next]_vars

-----------------------------------------------------------------------------
TypeOK ==
  /\ order \in OrderStatus
  /\ payment \in PaymentStatus \cup {"NONE"}
  /\ attempt \in [Attempts -> AttemptStatus \cup {"NONE"}]
  /\ reference \in [Attempts -> BOOLEAN]
  /\ due \in [Attempts -> {"NONE", "ARMED", "DUE"}]
  /\ event \in [Attempts -> {"NONE", "OPEN", "DONE"}]
  /\ older \in [Attempts -> BOOLEAN]
  /\ dispatchJob \in [Attempts -> {"NONE", "OPEN", "DONE"}]
  /\ tries \in [Attempts -> 0 .. MaxTries]
  /\ call \in [Calls -> CallState]
  /\ obs \in [Observers -> ObsState]
  /\ recorded \in [Attempts \X Outcomes -> 0 .. MaxEvents]
  /\ provider \in [Attempts -> ProviderStatus]
  /\ refund \in [Triggers -> {"NONE", "ASKED", "REQUESTED", "CONFIRMED"}]
  /\ paidEvents \in 0 .. 2
-----------------------------------------------------------------------------
(* Safety.                                                                   *)

\* A charge that is open at the provider is never forgotten: its attempt still
\* waits for reconciliation, or the customer cancelled it. (startPayment,
\* dispatchPaymentAttempt and both observers of the provider write the attempt.)
OpenChargeIsTracked ==
  \A a \in Attempts :
    provider[a] = "PENDING" => attempt[a] \in Unresolved \cup {"CANCELLED"}

\* Two charges of one order are open at the provider only when the customer has
\* cancelled the attempt of one of them: a retry waits for the earlier charge.
OneOpenCharge ==
  \A a, b \in Attempts :
    /\ a # b
    /\ provider[a] = "PENDING" /\ provider[b] = "PENDING"
    => "CANCELLED" \in {attempt[a], attempt[b]}

\* An attempt that left CREATED for a state the provider confirmed has the
\* reference of its charge, whichever of request, job, webhook, customer and
\* administrator got there first. Without it nobody could reconcile or refund.
TakenUpIsReferenced ==
  \A a \in Attempts :
    attempt[a] \in {"PROCESSING", "SUCCEEDED", "FAILED"} => reference[a]

Sole(a) == attempt[a] # "NONE" /\ \A b \in Attempts \ {a} : attempt[b] = "NONE"

\* While an order has one attempt, its payment tells the same story, and the
\* order is released exactly when that attempt succeeded, although dispatch
\* writes the two rows with separate compare-and-swaps.
SoleAgree ==
  \A a \in Attempts : Sole(a) =>
    /\ attempt[a] = "CREATED" => payment = "PENDING"
    /\ attempt[a] \notin {"CREATED", "SUCCEEDED"} => payment = attempt[a]
    /\ attempt[a] = "SUCCEEDED" =>
         payment \in {"SUCCEEDED", "REFUND_PENDING", "REFUNDED"}
    /\ (order = "AWAITING_PAYMENT") <=> (attempt[a] # "SUCCEEDED")

\* What may be done once is done once. Matching is told of the payment with one
\* event, whoever of webhook, customer, administrator and job sees the success,
\* as long as no refund is on record (after one, a stale observation of the
\* success may set the payment back, and the order is not counted on). And one
\* no-executor refund is recorded at most, whatever became of the payment between
\* two triggers.
EffectsOnce ==
  /\ (/\ \E a \in Attempts : Sole(a)
      /\ \A t \in Triggers : refund[t] \in {"NONE", "ASKED"})
       => paidEvents = IF order = "AWAITING_PAYMENT" THEN 0 ELSE 1
  /\ \A t, u \in Triggers :
       /\ refund[t] \in {"REQUESTED", "CONFIRMED"}
       /\ refund[u] \in {"REQUESTED", "CONFIRMED"}
       => t = u

Rank == [AWAITING_PAYMENT |-> 0, PAID |-> 1, MATCHING |-> 2,
         REFUND_PENDING |-> 3, REFUNDED |-> 4]

\* The order of a sole attempt only moves on: no late webhook or observation
\* brings a released or refunded order back.
SoleOrderAdvances ==
  [][(\E a \in Attempts : Sole(a)) => Rank[order] <= Rank[order']]_vars

-----------------------------------------------------------------------------
(* The payment implements the charge book.                                   *)

capturedCharges == {a \in Attempts : provider[a] \in Captured}
bookedCharges == {a \in Attempts : attempt[a] = "SUCCEEDED"}

Book == INSTANCE ChargeBook WITH
  Charges <- Attempts, captured <- capturedCharges, booked <- bookedCharges,
  producing <- (order # "AWAITING_PAYMENT")

\* Every behaviour of the payment is one of the charge book: success is booked
\* only for captured money and never withdrawn, and the order is out of
\* AWAITING_PAYMENT only while some attempt is SUCCEEDED.
KeepsChargeBook == Book!Spec

-----------------------------------------------------------------------------
(* Liveness.                                                                 *)

\* Workers and requests go on, and an attempt to reconcile that is repeated
\* forever is not lost every time (the job queue retries after every failure).
Scheduling ==
  /\ \A a \in Attempts :
       /\ WF_vars(ClaimDispatch(a))
       /\ \A c \in Callers :
            /\ WF_vars(\E r \in DispatchResult : DispatchCall(a, c, r))
            /\ WF_vars(DispatchSkip(a, c))
            /\ WF_vars(\/ DispatchAccepted(a, c)
                       \/ DispatchRaced(a, c)
                       \/ DispatchFailed(a, c))
       /\ WF_vars(DeadlinePasses(a))
       /\ WF_vars(Sweep(a))
       /\ \A job \in {"EVENT", "OLDER"} :
            SF_vars(\E w \in Workers : JobObserves(w, a, job))
  /\ \A w \in Observers : SF_vars(ApplyObservation(w))

\* The provider sends an event again until it is answered with a success.
Delivery ==
  \A a \in Attempts :
    /\ WF_vars(\/ WebhookSucceeded(a)
               \/ WebhookSucceededLate(a)
               \/ WebhookStored(a))
    /\ WF_vars(WebhookFailed(a))
    /\ WF_vars(WebhookCancelled(a))

\* The provider decides every charge.
Decision ==
  \A a \in Attempts : WF_vars(provider[a] = "PENDING" /\ ProviderDecides(a))

FairSpec == Spec /\ Scheduling /\ Delivery /\ Decision

\* With one attempt, every decision of the provider gets through, whatever stale
\* observation, repeated event or cancellation comes between: money it took
\* releases the order, and a charge it declined ends its attempt, so that the
\* customer may try again, unless the provider takes the money after all.
ChargesResolve ==
  \A a \in Attempts :
    /\ (provider[a] = "CAPTURED" /\ reference[a]) ~> (order # "AWAITING_PAYMENT")
    /\ (provider[a] = "FAILED" /\ reference[a])
         ~> (attempt[a] \in Terminal \/ provider[a] # "FAILED")

-----------------------------------------------------------------------------
(* A claim of the documentation that the code does not keep.                 *)

\* "Concurrent clicks/checkouts/attempts/callbacks cannot double-charge": the
\* provider takes the money of one attempt only.
OneCharge ==
  \A a, b \in Attempts :
    provider[a] = "CAPTURED" /\ provider[b] = "CAPTURED" => a = b
=============================================================================
