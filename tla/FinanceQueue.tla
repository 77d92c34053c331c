----------------------------- MODULE FinanceQueue -----------------------------
(* The financial events of one paid order, the jobs that serve them under     *)
(* leases (finance-queue.service.ts), and the fiscal operation they create    *)
(* and submit (finance.service.ts): the queue loses and repeats jobs, workers *)
(* die, leases end under a worker, the answer of the fiscal provider is lost, *)
(* the payment is refunded meanwhile, and an administrator retries and        *)
(* reconciles. The order has one attempt: its payment succeeded for good. The *)
(* refund has an operation of its own, which goes the same way.               *)
EXTENDS Naturals, FiniteSets

CONSTANTS
  Workers,       \* runs of a job that may be under way at once
  Nobody,
  MaxAttempts,   \* of a job, and of a fiscal operation; 5 in the source
  MaxRequests    \* bound: refunds, retries and reconciliations asked for

ASSUME FinanceQueueAssumption ==
  /\ IsFiniteSet(Workers) /\ Nobody \notin Workers
  /\ MaxAttempts \in Nat \ {0} /\ MaxRequests \in Nat

VARIABLES
  payment,     \* Payment.status: its attempt succeeded
  events,      \* OutboxEvents of the kinds the finance queue serves
  job,         \* FinancialJob of every event
  worker,      \* where each worker is, and the event it serves
  operation,   \* FiscalOperation, and whether it has its FiscalReceipt
  admin,       \* the administrator's request that is under way
  requests     \* how many there were (bound)

vars == <<payment, events, job, worker, operation, admin, requests>>

-----------------------------------------------------------------------------
\* PAYMENT_SUCCEEDED, and FISCAL_SUBMIT_REQUESTED of version n: an operation has
\* version 0 from the start and version n of a retry after n attempts.
Paid == 0
Submission(n) == n + 1
Events == 0 .. MaxAttempts + 1

Job == [status : {"NONE", "PENDING", "RUNNING", "DONE", "DEAD_LETTER"},
        attempts : 0 .. MaxAttempts,
        owner : Workers \cup {Nobody},
        leased : BOOLEAN]
NoJob == [status |-> "NONE", attempts |-> 0, owner |-> Nobody, leased |-> FALSE]

\* reference: the provider's reference is known.
Operation == [status : {"NONE", "PENDING", "SUBMITTED", "CONFIRMED",
                        "RETRY_PENDING", "RECONCILIATION_REQUIRED"},
              attempts : 0 .. MaxAttempts,
              receipt : BOOLEAN, reference : BOOLEAN]
NoOperation == [status |-> "NONE", attempts |-> 0,
                receipt |-> FALSE, reference |-> FALSE]

\* RUNNING: the job is claimed. MATERIALIZING: the payment was read. SUBMITTING:
\* the operation is claimed. THROWN: the submission failed; tries: the operation's
\* attempts as the worker read them. SERVED, FAILED: the effect of the event is over.
Idle == [step |-> "IDLE"]
Worker == {Idle} \cup
  [step : {"RUNNING", "MATERIALIZING", "SUBMITTING", "THROWN", "SERVED", "FAILED"},
   event : Events, tries : 0 .. MaxAttempts]

NoRequest == [kind |-> "NONE"]
Admin == {NoRequest, [kind |-> "MISMATCH"]} \cup
  [kind : {"RETRY"}, attempts : 0 .. MaxAttempts]

Init ==
  /\ payment = "SUCCEEDED"
  /\ events = {Paid}
  /\ job = [e \in Events |-> NoJob]
  /\ worker = [w \in Workers |-> Idle]
  /\ operation = NoOperation
  /\ admin = NoRequest
  /\ requests = 0

-----------------------------------------------------------------------------
(* dispatchBatch adds the jobs of the events that wait, every second, and      *)
(* BullMQ hands them out, again and again: a job that waits may be claimed.    *)

\* Mutant of Waits: running jobs are left to the worker that took them.
WaitsUnclaimed(e) ==
  e \in events /\ job[e].status \notin {"DONE", "DEAD_LETTER", "RUNNING"}

Waits(e) ==
  /\ e \in events
  /\ job[e].status \notin {"DONE", "DEAD_LETTER"}
  /\ ~(job[e].status = "RUNNING" /\ job[e].leased)

LeaseEnds(e) ==
  /\ job[e].leased
  /\ job' = [job EXCEPT ![e].leased = FALSE]
  /\ UNCHANGED <<payment, events, worker, operation, admin, requests>>

-----------------------------------------------------------------------------
(* handle: the job's lease around the effect of its event.                   *)

Claimable(e) ==
  /\ job[e].attempts < MaxAttempts
  /\ \/ job[e].status \in {"NONE", "PENDING"}
     \/ job[e].status = "RUNNING" /\ ~job[e].leased

ClaimJob(w, e) ==
  /\ worker[w] = Idle /\ Waits(e) /\ Claimable(e)
  /\ job' = [job EXCEPT ![e] = [status |-> "RUNNING", attempts |-> @.attempts + 1,
                                owner |-> w, leased |-> TRUE]]
  /\ worker' = [worker EXCEPT ![w] = [step |-> "RUNNING", event |-> e,
                                     tries |-> 0]]
  /\ UNCHANGED <<payment, events, operation, admin, requests>>

Goes(w, step) == worker' = [worker EXCEPT ![w].step = step, ![w].tries = 0]
At(w, step) == worker[w] # Idle /\ worker[w].step = step

\* The last transaction of handle.
FinishJob(w) ==
  /\ At(w, "SERVED")
  /\ LET e == worker[w].event
     IN IF job[e].owner = w /\ job[e].status = "RUNNING"
        THEN /\ job' = [job EXCEPT ![e] = [@ EXCEPT !.status = "DONE",
                                           !.owner = Nobody, !.leased = FALSE]]
             /\ worker' = [worker EXCEPT ![w] = Idle]
        ELSE Goes(w, "FAILED") /\ job' = job
  /\ UNCHANGED <<payment, events, operation, admin, requests>>

\* Mutant of Owns: who held the job does not matter.
OwnsAny(w, e) == job[e].status = "RUNNING"

Owns(w, e) == job[e].owner = w

\* The catch block of handle.
FailJob(w) ==
  /\ At(w, "FAILED")
  /\ LET e == worker[w].event
         status == IF job[e].attempts >= MaxAttempts THEN "DEAD_LETTER"
                   ELSE "PENDING"
     IN job' = IF ~Owns(w, e) THEN job
               ELSE [job EXCEPT ![e] = [@ EXCEPT !.status = status,
                                        !.owner = Nobody, !.leased = FALSE]]
  /\ worker' = [worker EXCEPT ![w] = Idle]
  /\ UNCHANGED <<payment, events, operation, admin, requests>>

\* The process of the worker ends between two statements.
Dies(w) ==
  /\ worker[w] # Idle
  /\ worker' = [worker EXCEPT ![w] = Idle]
  /\ UNCHANGED <<payment, events, job, operation, admin, requests>>

-----------------------------------------------------------------------------
(* The effects: materializePayment and dispatchFiscal.                       *)

\* Mutant of Materializes: only a payment that was refunded is looked for.
MaterializesRefunded == payment \in {"PARTIALLY_REFUNDED", "REFUNDED"}

Materializes == payment \in {"SUCCEEDED", "PARTIALLY_REFUNDED", "REFUNDED"}

\* The payment is read first. While its refund is pending there is nothing to do,
\* and the job is over.
MaterializeReads(w) ==
  /\ At(w, "RUNNING") /\ worker[w].event = Paid
  /\ Goes(w, IF Materializes THEN "MATERIALIZING" ELSE "SERVED")
  /\ UNCHANGED <<payment, events, job, operation, admin, requests>>

\* The transaction of materializePayment.
MaterializePayment(w) ==
  /\ At(w, "MATERIALIZING") /\ worker[w].event = Paid
  /\ operation' = IF operation = NoOperation
                  THEN [operation EXCEPT !.status = "PENDING"] ELSE operation
  /\ events' = events \cup {Submission(0)}
  /\ Goes(w, "SERVED")
  /\ UNCHANGED <<payment, job, admin, requests>>

OperationReady ==
  /\ operation.status \in {"PENDING", "RETRY_PENDING"}
  /\ operation.attempts < MaxAttempts

ClaimOperation(w) ==
  /\ At(w, "RUNNING") /\ worker[w].event # Paid /\ OperationReady
  /\ operation' = [operation EXCEPT !.status = "SUBMITTED",
                                    !.attempts = @ + 1]
  /\ worker' = [worker EXCEPT ![w].step = "SUBMITTING",
                              ![w].tries = operation.attempts + 1]
  /\ UNCHANGED <<payment, events, job, admin, requests>>

\* Mutant of WhenNotReady: a submission under way is as good as a receipt.
WhenNotReadyServed ==
  IF operation.status \in {"CONFIRMED", "SUBMITTED"} THEN "SERVED" ELSE "FAILED"

\* Without a claim the job ends well only if the receipt is there. There is none
\* when nextAttemptAt is not over either.
WhenNotReady == IF operation.status = "CONFIRMED" THEN "SERVED" ELSE "FAILED"

NothingToClaim(w) ==
  /\ At(w, "RUNNING") /\ worker[w].event # Paid
  /\ OperationReady => operation.status = "RETRY_PENDING"
  /\ Goes(w, WhenNotReady)
  /\ UNCHANGED <<payment, events, job, operation, admin, requests>>

\* The provider registers the sale under the operation's own key, once however
\* often it is asked; the answer is heard and recorded, or is lost.
Submit(w) ==
  /\ At(w, "SUBMITTING")
  /\ operation' = [operation EXCEPT
       !.receipt = TRUE,
       !.status = IF @ = "SUBMITTED" THEN "CONFIRMED" ELSE @,
       !.reference = @ \/ operation.status = "SUBMITTED"]
  /\ Goes(w, "SERVED")
  /\ UNCHANGED <<payment, events, job, admin, requests>>

SubmitFails(w) ==
  /\ At(w, "SUBMITTING")
  /\ worker' = [worker EXCEPT ![w].step = "THROWN"]
  /\ UNCHANGED <<payment, events, job, operation, admin, requests>>

\* The catch block of dispatchFiscal writes whatever the operation has become.
RecordFailure(w) ==
  /\ At(w, "THROWN")
  /\ operation' =
       IF worker[w].tries >= MaxAttempts
       THEN [operation EXCEPT !.status = "RECONCILIATION_REQUIRED"]
       ELSE [operation EXCEPT !.status = "RETRY_PENDING"]
  /\ Goes(w, "FAILED")
  /\ UNCHANGED <<payment, events, job, admin, requests>>

-----------------------------------------------------------------------------
(* Refunds: asked for by requestNoExecutorRefund or the decision of a dispute, *)
(* confirmed in part or in full by the provider's callback.                    *)

Counted == requests < MaxRequests /\ requests' = requests + 1

RefundAsked ==
  /\ Counted
  /\ payment \in {"SUCCEEDED", "PARTIALLY_REFUNDED"}
  /\ payment' = "REFUND_PENDING"
  /\ UNCHANGED <<events, job, worker, operation, admin>>

RefundConfirmed ==
  /\ payment = "REFUND_PENDING"
  /\ payment' \in {"PARTIALLY_REFUNDED", "REFUNDED"}
  /\ UNCHANGED <<events, job, worker, operation, admin, requests>>

-----------------------------------------------------------------------------
(* The administrator reads first, and writes in a transaction of its own.    *)

Ask == admin = NoRequest /\ Counted

\* retryFiscal before its transaction.
RetryAsked ==
  /\ Ask
  /\ operation.status \in {"RETRY_PENDING", "RECONCILIATION_REQUIRED"}
  /\ admin' = [kind |-> "RETRY", attempts |-> operation.attempts]
  /\ UNCHANGED <<payment, events, job, worker, operation>>

RetryWritten ==
  /\ admin.kind = "RETRY"
  /\ operation' = [operation EXCEPT !.status = "PENDING"]
  /\ events' = events \cup {Submission(admin.attempts)}
  /\ admin' = NoRequest
  /\ UNCHANGED <<payment, job, worker, requests>>

\* reconcile, of the fiscal operation: the provider may still say PENDING,
\* or say that it failed.
ReconcileReads ==
  /\ Ask /\ operation.reference
  /\ \E observed \in {"CONFIRMED", "PENDING", "FAILED"} :
       observed # (IF operation.status = "CONFIRMED" THEN "CONFIRMED"
                   ELSE "PENDING")
  /\ admin' = [kind |-> "MISMATCH"]
  /\ UNCHANGED <<payment, events, job, worker, operation>>

ReconcileWrites ==
  /\ admin.kind = "MISMATCH"
  /\ operation' = [operation EXCEPT !.status = "RECONCILIATION_REQUIRED"]
  /\ admin' = NoRequest
  /\ UNCHANGED <<payment, events, job, worker, requests>>

-----------------------------------------------------------------------------
WorkerStep(w) ==
  \/ FinishJob(w) \/ FailJob(w)
  \/ MaterializeReads(w) \/ MaterializePayment(w)
  \/ ClaimOperation(w) \/ NothingToClaim(w)
  \/ Submit(w) \/ SubmitFails(w)
  \/ RecordFailure(w)

Next ==
  \/ \E e \in Events : LeaseEnds(e) \/ \E w \in Workers : ClaimJob(w, e)
  \/ \E w \in Workers : WorkerStep(w) \/ Dies(w)
  \/ RefundAsked \/ RefundConfirmed
  \/ RetryAsked \/ RetryWritten \/ ReconcileReads \/ ReconcileWrites

Spec == Init /\ [][Next]_vars

TypeOK ==
  /\ payment \in {"SUCCEEDED", "REFUND_PENDING", "PARTIALLY_REFUNDED", "REFUNDED"}
  /\ events \subseteq Events
  /\ job \in [Events -> Job]
  /\ worker \in [Workers -> Worker]
  /\ operation \in Operation
  /\ admin \in Admin
  /\ requests \in 0 .. MaxRequests

\* A job that is DONE was not done in vain: a submission has its receipt, and a
\* payment has its operation unless its refund was asked for: within the runs a
\* job may have, and whoever served it. The source makes no operation for a payment
\* whose refund is pending at that moment, even if part of it stays paid.
DoneIsServed ==
  /\ TypeOK
  /\ job[Paid].status = "DONE" =>
       operation # NoOperation \/ payment # "SUCCEEDED"
  /\ \A n \in 0 .. MaxAttempts :
       job[Submission(n)].status = "DONE" => operation.receipt

\* While the lease of a run lasts only that run ends it: a worker that was
\* thought dead and comes back late does not touch the job of its successor.
LiveLeaseHolds ==
  [][\A e \in Events :
       /\ job[e].leased
       /\ <<job'[e].status, job'[e].owner>> # <<job[e].status, job[e].owner>>
       => worker'[job[e].owner] # worker[job[e].owner]]_vars

\* The tick runs every second, the queue hands out its jobs, leases end, and a
\* worker that lives goes on. Nobody owes a retry.
Fairness ==
  /\ \A e \in Events :
       /\ WF_vars(LeaseEnds(e))
       /\ SF_vars(\E w \in Workers : ClaimJob(w, e))
  /\ \A w \in Workers : WF_vars(WorkerStep(w))
FairSpec == Spec /\ Fairness

\* Every event is served or dead in the end, through deaths of workers and lost
\* leases: unless a worker dies in the last run its job has.
EventsSettle ==
  \A e \in Events :
    e \in events ~> \/ job[e].status \in {"DONE", "DEAD_LETTER"}
                    \/ job[e].status = "RUNNING" /\ job[e].attempts = MaxAttempts
=============================================================================
