-------------------------- MODULE FinanceQueueProofs --------------------------
(* What holds of FinanceQueue for any workers, attempts and requests.        *)
EXTENDS FinanceQueue, TLAPS

-----------------------------------------------------------------------------
(* The inductive invariant.                                                  *)

\* A lease is that of a run.
LeasedIsRun ==
  \A e \in Events :
    job[e].leased => job[e].status = "RUNNING" /\ job[e].owner \in Workers

\* What the event of a job, once its effect is over, has left behind.
Effect(e) == IF e = Paid THEN operation # NoOperation \/ payment # "SUCCEEDED"
             ELSE operation.receipt

ReceiptKnown == operation.status = "CONFIRMED" => operation.receipt
ServedHasEffect ==
  \A w \in Workers : At(w, "SERVED") => Effect(worker[w].event)
DoneHasEffect == \A e \in Events : job[e].status = "DONE" => Effect(e)

IInv == TypeOK /\ LeasedIsRun /\ ReceiptKnown /\ ServedHasEffect /\ DoneHasEffect

\* What is left behind stays.
Kept == \A e \in Events : Effect(e) => Effect(e)'

-----------------------------------------------------------------------------
(* Where a worker goes.                                                      *)

LEMMA Step0 == 0 \in 0 .. MaxAttempts /\ Paid \in Events
BY FinanceQueueAssumption DEF Paid, Events

Steps == {"RUNNING", "MATERIALIZING", "SUBMITTING", "THROWN", "SERVED", "FAILED"}

LEMMA AtIsRow ==
  ASSUME TypeOK, NEW w \in Workers, NEW step, At(w, step)
  PROVE  /\ worker[w] \in [step : Steps,
                           event : Events, tries : 0 .. MaxAttempts]
         /\ worker[w].event \in Events /\ worker[w].tries \in 0 .. MaxAttempts
         /\ worker[w].step = step
BY DEF TypeOK, Worker, At, Steps

LEMMA RowWritten ==
  ASSUME TypeOK, NEW w \in Workers, worker[w] # Idle,
         NEW step \in Steps,
         NEW tries \in 0 .. MaxAttempts,
         worker' = [worker EXCEPT ![w].step = step, ![w].tries = tries]
  PROVE  /\ worker' \in [Workers -> Worker]
         /\ worker'[w] # Idle /\ worker'[w].step = step
         /\ worker'[w].event = worker[w].event
         /\ \A v \in Workers \ {w} : worker'[v] = worker[v]
<1> DEFINE row == [[worker[w] EXCEPT !.step = step] EXCEPT !.tries = tries]
<1>1. /\ worker \in [Workers -> Worker]
      /\ worker[w] \in [step : Steps,
                        event : Events, tries : 0 .. MaxAttempts]
  BY DEF TypeOK, Worker, Steps
<1>2. /\ row \in Worker /\ row.step = step /\ row.event = worker[w].event
  BY <1>1 DEF Worker, Steps
<1>3. row # Idle
  BY <1>2 DEF Idle, Steps
<1>4. worker' = [worker EXCEPT ![w] = row]
  BY <1>1
<1> HIDE DEF row
<1> QED BY <1>1, <1>2, <1>3, <1>4

\* Where every worker stays, stops or goes on to something but SERVED, or has
\* the effect of its event when it gets there.
LEMMA ServedStays ==
  ASSUME IInv, Kept,
         \A v \in Workers :
           \/ worker'[v] = worker[v] \/ worker'[v] = Idle
           \/ worker'[v].step # "SERVED"
           \/ Effect(worker[v].event)'
  PROVE  ServedHasEffect'
<1> SUFFICES ASSUME NEW v \in Workers, At(v, "SERVED")', worker'[v] = worker[v]
             PROVE  Effect(worker[v].event)'
  BY DEF ServedHasEffect, At
<1>1. At(v, "SERVED")
  BY DEF At
<1>2. worker[v].event \in Events /\ Effect(worker[v].event)
  BY <1>1, AtIsRow DEF IInv, ServedHasEffect
<1> QED BY <1>2 DEF Kept

LEMMA DoneStays ==
  ASSUME IInv, Kept, job' = job
  PROVE  LeasedIsRun' /\ DoneHasEffect'
BY DEF IInv, LeasedIsRun, DoneHasEffect, Kept

LEMMA NothingWritten ==
  ASSUME ReceiptKnown, operation' = operation, payment' = payment
  PROVE  Kept /\ ReceiptKnown'
BY DEF Kept, Effect, ReceiptKnown

-----------------------------------------------------------------------------
(* The jobs: the row of one job is written.                                  *)

LEMMA JobWritten ==
  ASSUME IInv, NEW e \in Events, NEW row \in Job,
         job' = [job EXCEPT ![e] = row], operation' = operation, payment' = payment,
         row.leased => row.status = "RUNNING" /\ row.owner \in Workers,
         row.status = "DONE" => Effect(e)
  PROVE  job' \in [Events -> Job] /\ LeasedIsRun' /\ DoneHasEffect'
<1>1. job \in [Events -> Job]
  BY DEF IInv, TypeOK
<1>2. job'[e] = row /\ \A d \in Events \ {e} : job'[d] = job[d]
  BY <1>1
<1>3. LeasedIsRun'
  BY <1>2 DEF IInv, LeasedIsRun
<1>4. DoneHasEffect'
  BY <1>2 DEF IInv, DoneHasEffect, Effect
<1> QED BY <1>1, <1>3, <1>4

LEMMA LeaseEndsKeeps ==
  ASSUME IInv, NEW e \in Events, LeaseEnds(e)
  PROVE  IInv'
<1> DEFINE row == [job[e] EXCEPT !.leased = FALSE]
<1>1. job[e] \in Job
  BY DEF IInv, TypeOK
<1>2. row \in Job /\ row.leased = FALSE /\ row.status = job[e].status
  BY <1>1 DEF Job
<1>3. /\ job' = [job EXCEPT ![e] = row]
      /\ UNCHANGED <<payment, events, worker, operation, admin, requests>>
  BY DEF LeaseEnds
<1> HIDE DEF row
<1>4. job' \in [Events -> Job] /\ LeasedIsRun' /\ DoneHasEffect'
  BY <1>2, <1>3, JobWritten DEF IInv, DoneHasEffect
<1>5. Kept /\ ReceiptKnown'
  BY <1>3, NothingWritten DEF IInv
<1>6. ServedHasEffect'
  BY <1>3, <1>5, ServedStays
<1>7. TypeOK'
  BY <1>3, <1>4 DEF IInv, TypeOK
<1> QED BY <1>4, <1>5, <1>6, <1>7 DEF IInv

LEMMA ClaimJobKeeps ==
  ASSUME IInv, NEW w \in Workers, NEW e \in Events, ClaimJob(w, e)
  PROVE  IInv'
<1> DEFINE row == [status |-> "RUNNING", attempts |-> job[e].attempts + 1,
                   owner |-> w, leased |-> TRUE]
           run == [step |-> "RUNNING", event |-> e, tries |-> 0]
<1>1. job[e].attempts \in 0 .. MaxAttempts /\ job[e].attempts + 1 \in 0 .. MaxAttempts
  BY FinanceQueueAssumption DEF IInv, TypeOK, Job, ClaimJob, Claimable
<1>2. row \in Job /\ row.status = "RUNNING" /\ row.owner \in Workers
  BY <1>1 DEF Job
<1>3. run \in Worker /\ run.step = "RUNNING"
  BY Step0 DEF Worker
<1>4. /\ job' = [job EXCEPT ![e] = row] /\ worker' = [worker EXCEPT ![w] = run]
      /\ UNCHANGED <<payment, events, operation, admin, requests>>
  BY DEF ClaimJob
<1> HIDE DEF row, run
<1>5. job' \in [Events -> Job] /\ LeasedIsRun' /\ DoneHasEffect'
  BY <1>2, <1>4, JobWritten
<1>6. Kept /\ ReceiptKnown'
  BY <1>4, NothingWritten DEF IInv
<1>7. worker' \in [Workers -> Worker] /\ worker'[w] = run
      /\ \A v \in Workers \ {w} : worker'[v] = worker[v]
  BY <1>3, <1>4 DEF IInv, TypeOK
<1>8. ServedHasEffect'
  BY <1>3, <1>6, <1>7, ServedStays
<1>9. TypeOK'
  BY <1>4, <1>5, <1>7 DEF IInv, TypeOK
<1> QED BY <1>5, <1>6, <1>8, <1>9 DEF IInv

\* The last statements of a run write at most the row of its job, which it owns.
LEMMA RunEnds ==
  ASSUME IInv, NEW w \in Workers,
         FinishJob(w) \/ FailJob(w) \/ Dies(w)
  PROVE  IInv'
<1>1. UNCHANGED <<payment, events, operation, admin, requests>>
  BY DEF FinishJob, FailJob, Dies
<1>2. /\ worker' \in [Workers -> Worker]
      /\ worker'[w] = Idle \/ worker'[w].step # "SERVED"
      /\ \A v \in Workers \ {w} : worker'[v] = worker[v]
  <2>1. CASE worker' = [worker EXCEPT ![w] = Idle]
    BY <2>1 DEF IInv, TypeOK, Worker
  <2>2. CASE At(w, "SERVED") /\ Goes(w, "FAILED")
    BY <2>2, Step0, RowWritten DEF Steps, Goes, IInv, At
  <2> QED BY <2>1, <2>2 DEF FinishJob, FailJob, Dies
<1>3. Kept /\ ReceiptKnown'
  BY <1>1, NothingWritten DEF IInv
<1>4. ServedHasEffect'
  BY <1>2, <1>3, ServedStays
<1>5. job' \in [Events -> Job] /\ LeasedIsRun' /\ DoneHasEffect'
  <2>1. CASE job' = job
    BY <1>3, <2>1, DoneStays DEF IInv, TypeOK
  <2>2. CASE job' # job
    <3> DEFINE e == worker[w].event
    <3>1. PICK status \in {"DONE", "PENDING", "DEAD_LETTER"} :
            /\ job' = [job EXCEPT ![e] = [@ EXCEPT !.status = status, !.owner = Nobody,
                                                   !.leased = FALSE]]
            /\ status = "DONE" => At(w, "SERVED")
            /\ \E step : At(w, step)
      BY <2>2 DEF FinishJob, FailJob, Dies
    <3> DEFINE row == [job[e] EXCEPT !.status = status, !.owner = Nobody, !.leased = FALSE]
    <3>2. e \in Events /\ job[e] \in Job
      BY <3>1, AtIsRow DEF IInv, TypeOK
    <3>3. row \in Job /\ row.leased = FALSE /\ row.status = status
      BY <3>2 DEF Job
    <3>4. job' = [job EXCEPT ![e] = row]
      BY <3>1
    <3>5. status = "DONE" => Effect(e)
      BY <3>1 DEF IInv, ServedHasEffect
    <3> HIDE DEF row, e
    <3> QED BY <1>1, <3>2, <3>3, <3>4, <3>5, JobWritten
  <2> QED BY <2>1, <2>2
<1>6. TypeOK'
  BY <1>1, <1>2, <1>5 DEF IInv, TypeOK
<1> QED BY <1>3, <1>4, <1>5, <1>6 DEF IInv

-----------------------------------------------------------------------------
(* The effects.                                                              *)

\* The steps below write a worker's place and the operation, and leave the jobs.
LEMMA EffectStep ==
  ASSUME IInv, NEW w \in Workers, job' = job, requests' = requests, admin' = admin,
         payment' = payment,
         events' \subseteq Events, operation' \in Operation, ReceiptKnown',
         operation # NoOperation => operation' # NoOperation,
         operation.receipt => operation'.receipt,
         worker' \in [Workers -> Worker],
         \A v \in Workers \ {w} : worker'[v] = worker[v],
         worker'[w].step # "SERVED" \/ Effect(worker[w].event)'
  PROVE  IInv'
<1>1. Kept
  BY DEF Kept, Effect
<1>2. LeasedIsRun' /\ DoneHasEffect'
  BY <1>1, DoneStays
<1>3. ServedHasEffect'
  BY <1>1, ServedStays
<1>4. TypeOK'
  BY DEF IInv, TypeOK
<1> QED BY <1>2, <1>3, <1>4 DEF IInv

LEMMA OperationRow == ASSUME IInv PROVE operation \in Operation
BY DEF IInv, TypeOK

\* Nothing is made only while the refund is pending.
LEMMA MaterializeReadsKeeps ==
  ASSUME IInv, NEW w \in Workers, MaterializeReads(w)
  PROVE  IInv'
<1>1. PICK step \in {"MATERIALIZING", "SERVED"} :
        Goes(w, step) /\ (step = "SERVED" => payment # "SUCCEEDED")
  BY DEF MaterializeReads, Materializes
<1>2. worker[w] # Idle /\ worker[w].event = Paid
  BY DEF MaterializeReads, At
<1>3. /\ worker' \in [Workers -> Worker] /\ worker'[w].step = step
      /\ worker'[w].event = Paid
      /\ \A v \in Workers \ {w} : worker'[v] = worker[v]
  BY <1>1, <1>2, Step0, RowWritten DEF Steps, Goes, IInv
<1>4. worker'[w].step # "SERVED" \/ Effect(worker[w].event)'
  BY <1>1, <1>2, <1>3 DEF MaterializeReads, Effect
<1>5. ReceiptKnown' /\ operation' \in Operation /\ events' \subseteq Events
  BY DEF MaterializeReads, IInv, TypeOK, ReceiptKnown
<1> QED BY <1>3, <1>4, <1>5, EffectStep DEF MaterializeReads

LEMMA MaterializeKeeps ==
  ASSUME IInv, NEW w \in Workers, MaterializePayment(w)
  PROVE  IInv'
<1>1. At(w, "MATERIALIZING") /\ worker[w].event = Paid /\ worker[w] # Idle
  BY DEF MaterializePayment, At
<1>2. /\ worker' \in [Workers -> Worker] /\ worker'[w].event = Paid
      /\ \A v \in Workers \ {w} : worker'[v] = worker[v]
  BY <1>1, Step0, RowWritten DEF Steps, MaterializePayment, Goes, IInv
<1>3. /\ operation' \in Operation /\ operation' # NoOperation
      /\ operation'.receipt = operation.receipt
      /\ operation'.status = "CONFIRMED" => operation.status = "CONFIRMED"
  <2>1. CASE operation = NoOperation
    <3>1. operation' = [NoOperation EXCEPT !.status = "PENDING"]
      BY <2>1 DEF MaterializePayment
    <3> QED BY <2>1, <3>1, Step0 DEF NoOperation, Operation
  <2>2. CASE operation # NoOperation
    BY <2>2, OperationRow DEF MaterializePayment
  <2> QED BY <2>1, <2>2
<1>4. events' \subseteq Events
  BY FinanceQueueAssumption DEF MaterializePayment, IInv, TypeOK, Events, Submission
<1> QED BY <1>2, <1>3, <1>4, EffectStep DEF MaterializePayment, IInv, ReceiptKnown, Effect

LEMMA ClaimOperationKeeps ==
  ASSUME IInv, NEW w \in Workers, ClaimOperation(w)
  PROVE  IInv'
<1> DEFINE row == [operation EXCEPT !.status = "SUBMITTED",
                                    !.attempts = operation.attempts + 1]
<1>1. operation \in Operation /\ operation.attempts < MaxAttempts
  BY DEF ClaimOperation, OperationReady, IInv, TypeOK
<1>2. operation.attempts + 1 \in 0 .. MaxAttempts
  BY <1>1, FinanceQueueAssumption DEF Operation
<1>3. /\ row \in Operation /\ row.status = "SUBMITTED"
      /\ row.receipt = operation.receipt
  BY <1>1, <1>2 DEF Operation
<1>4. operation' = row
  BY DEF ClaimOperation
<1> HIDE DEF row
<1>5. /\ worker' \in [Workers -> Worker] /\ worker'[w].step = "SUBMITTING"
      /\ \A v \in Workers \ {w} : worker'[v] = worker[v]
  BY <1>2, RowWritten DEF Steps, ClaimOperation, At, IInv
<1>6. operation' # NoOperation /\ ReceiptKnown'
  BY <1>3, <1>4 DEF NoOperation, ReceiptKnown
<1> QED BY <1>3, <1>4, <1>5, <1>6, EffectStep DEF ClaimOperation, IInv, TypeOK

LEMMA NothingToClaimKeeps ==
  ASSUME IInv, NEW w \in Workers, NothingToClaim(w)
  PROVE  IInv'
<1>1. PICK step \in {"SERVED", "FAILED"} :
        /\ Goes(w, step)
        /\ step = "SERVED" => operation.status = "CONFIRMED"
  BY DEF NothingToClaim, WhenNotReady
<1>2. worker[w] # Idle /\ worker[w].event # Paid /\ operation' = operation
  BY DEF NothingToClaim, At
<1>3. /\ worker' \in [Workers -> Worker] /\ worker'[w].step = step
      /\ worker'[w].event # Paid
      /\ \A v \in Workers \ {w} : worker'[v] = worker[v]
  BY <1>1, <1>2, Step0, RowWritten DEF Steps, Goes, IInv
<1>4. step = "SERVED" => operation.receipt
  BY <1>1 DEF IInv, ReceiptKnown
<1> QED BY <1>2, <1>3, <1>4, EffectStep
        DEF NothingToClaim, IInv, TypeOK, ReceiptKnown, Effect

LEMMA SubmitKeeps ==
  ASSUME IInv, NEW w \in Workers, Submit(w)
  PROVE  IInv'
<1> DEFINE status == IF operation.status = "SUBMITTED" THEN "CONFIRMED" ELSE operation.status
           reference == operation.reference \/ operation.status = "SUBMITTED"
           row == [operation EXCEPT !.receipt = TRUE, !.status = status,
                                    !.reference = reference]
<1>1. operation \in Operation
  BY OperationRow
<1>2. status \in {"NONE", "PENDING", "SUBMITTED", "CONFIRMED",
                  "RETRY_PENDING", "RECONCILIATION_REQUIRED"}
      /\ reference \in BOOLEAN
  BY <1>1 DEF Operation
<1>3. operation' = row
  BY <1>1 DEF Submit, Operation
<1> HIDE DEF status, reference
<1>4. row \in Operation /\ row.receipt = TRUE
  BY <1>1, <1>2 DEF Operation
<1> HIDE DEF row
<1>5. /\ worker' \in [Workers -> Worker] /\ worker'[w].step = "SERVED"
      /\ \A v \in Workers \ {w} : worker'[v] = worker[v]
  BY Step0, RowWritten DEF Steps, Submit, Goes, At, IInv
<1>6. operation' # NoOperation /\ ReceiptKnown' /\ operation'.receipt
  BY <1>3, <1>4 DEF NoOperation, ReceiptKnown
<1> QED BY <1>3, <1>4, <1>5, <1>6, EffectStep DEF Submit, IInv, TypeOK, Effect

LEMMA SubmitFailsKeeps ==
  ASSUME IInv, NEW w \in Workers, SubmitFails(w)
  PROVE  IInv'
<1> DEFINE tries == worker[w].tries
<1>1. worker[w] # Idle /\ tries \in 0 .. MaxAttempts /\ operation' = operation
  BY AtIsRow DEF SubmitFails, At, IInv
<1>2. worker' = [worker EXCEPT ![w].step = "THROWN", ![w].tries = tries]
  <2>1. worker[w] \in [step : Steps,
                       event : Events, tries : 0 .. MaxAttempts]
        /\ worker' = [worker EXCEPT ![w].step = "THROWN"]
    BY AtIsRow DEF SubmitFails, IInv
  <2>2. [worker[w] EXCEPT !.step = "THROWN"]
          = [[worker[w] EXCEPT !.step = "THROWN"] EXCEPT !.tries = tries]
    BY <2>1
  <2> QED BY <2>1, <2>2 DEF IInv, TypeOK
<1> HIDE DEF tries
<1>3. /\ worker' \in [Workers -> Worker] /\ worker'[w].step = "THROWN"
      /\ \A v \in Workers \ {w} : worker'[v] = worker[v]
  BY <1>1, <1>2, RowWritten DEF Steps, IInv
<1> QED BY <1>1, <1>3, EffectStep DEF SubmitFails, IInv, TypeOK, ReceiptKnown

\* The status of the operation is written: what it has left behind stays.
LEMMA StatusWritten ==
  ASSUME IInv, NEW status \in {"PENDING", "RETRY_PENDING", "RECONCILIATION_REQUIRED"},
         operation' = [operation EXCEPT !.status = status]
  PROVE  /\ operation' \in Operation /\ operation' # NoOperation
         /\ operation'.receipt = operation.receipt /\ ReceiptKnown'
<1>1. operation \in Operation
  BY OperationRow
<1>2. /\ operation' \in Operation /\ operation'.status = status
      /\ operation'.receipt = operation.receipt
  BY <1>1 DEF Operation
<1> QED BY <1>2 DEF NoOperation, ReceiptKnown

LEMMA RecordFailureKeeps ==
  ASSUME IInv, NEW w \in Workers, RecordFailure(w)
  PROVE  IInv'
<1>1. PICK status \in {"RETRY_PENDING", "RECONCILIATION_REQUIRED"} :
        operation' = [operation EXCEPT !.status = status]
  BY DEF RecordFailure
<1>2. /\ worker' \in [Workers -> Worker] /\ worker'[w].step = "FAILED"
      /\ \A v \in Workers \ {w} : worker'[v] = worker[v]
  BY Step0, RowWritten DEF Steps, RecordFailure, Goes, At, IInv
<1> QED BY <1>1, <1>2, StatusWritten, EffectStep DEF RecordFailure, IInv, TypeOK

\* A payment whose refund was asked for is never SUCCEEDED again.
LEMMA RefundKeeps ==
  ASSUME IInv, RefundAsked \/ RefundConfirmed
  PROVE  IInv'
<1>1. /\ job' = job /\ worker' = worker /\ operation' = operation
      /\ payment' # "SUCCEEDED"
  BY DEF RefundAsked, RefundConfirmed
<1>2. Kept /\ ReceiptKnown'
  BY <1>1 DEF Kept, Effect, IInv, ReceiptKnown
<1>3. LeasedIsRun' /\ DoneHasEffect' /\ ServedHasEffect'
  BY <1>1, <1>2, DoneStays, ServedStays
<1>4. TypeOK'
  BY <1>1, FinanceQueueAssumption
     DEF RefundAsked, RefundConfirmed, Counted, IInv, TypeOK
<1> QED BY <1>2, <1>3, <1>4 DEF IInv

LEMMA AdminKeeps ==
  ASSUME IInv, RetryAsked \/ RetryWritten \/ ReconcileReads \/ ReconcileWrites
  PROVE  IInv'
<1>1. job' = job /\ worker' = worker /\ payment' = payment
  BY DEF RetryAsked, RetryWritten, ReconcileReads, ReconcileWrites
<1>2. /\ operation' \in Operation /\ ReceiptKnown'
      /\ operation # NoOperation => operation' # NoOperation
      /\ operation'.receipt = operation.receipt
  <2>1. CASE operation' = operation
    BY <2>1 DEF IInv, TypeOK, ReceiptKnown
  <2>2. CASE RetryWritten \/ ReconcileWrites
    BY <2>2, StatusWritten DEF RetryWritten, ReconcileWrites
  <2> QED BY <2>1, <2>2 DEF RetryAsked, ReconcileReads
<1>3. admin' \in Admin /\ requests' \in 0 .. MaxRequests /\ events' \subseteq Events
  <2>1. CASE RetryAsked
    <3>1. operation.attempts \in 0 .. MaxAttempts
      BY OperationRow DEF Operation
    <3> QED BY <2>1, <3>1, FinanceQueueAssumption DEF RetryAsked, Ask, Counted, Admin, IInv, TypeOK
  <2>2. CASE RetryWritten
    <3>1. admin.attempts \in 0 .. MaxAttempts
      BY <2>2 DEF RetryWritten, Admin, NoRequest, IInv, TypeOK
    <3>2. Submission(admin.attempts) \in Events
      BY <3>1, FinanceQueueAssumption DEF Submission, Events
    <3> QED BY <2>2, <3>2 DEF RetryWritten, Admin, IInv, TypeOK
  <2>3. CASE ReconcileReads
    BY <2>3, FinanceQueueAssumption DEF ReconcileReads, Ask, Counted, Admin, IInv, TypeOK
  <2>4. CASE ReconcileWrites
    BY <2>4 DEF ReconcileWrites, Admin, IInv, TypeOK
  <2> QED BY <2>1, <2>2, <2>3, <2>4
<1>4. Kept
  BY <1>1, <1>2 DEF Kept, Effect
<1>5. LeasedIsRun' /\ DoneHasEffect'
  BY <1>1, <1>4, DoneStays
<1>6. ServedHasEffect'
  BY <1>1, <1>4, ServedStays
<1>7. TypeOK'
  BY <1>1, <1>2, <1>3 DEF IInv, TypeOK
<1> QED BY <1>2, <1>5, <1>6, <1>7 DEF IInv

-----------------------------------------------------------------------------
(* The theorems.                                                             *)

LEMMA Start == ASSUME Init PROVE IInv
<1>1. NoJob \in Job /\ NoOperation \in Operation
  BY Step0 DEF NoJob, Job, NoOperation, Operation
<1>2. TypeOK
  BY <1>1, Step0, FinanceQueueAssumption DEF Init, TypeOK, Worker, Admin
<1>3. LeasedIsRun /\ DoneHasEffect
  BY DEF Init, LeasedIsRun, DoneHasEffect, NoJob
<1>4. ReceiptKnown /\ ServedHasEffect
  BY DEF Init, ReceiptKnown, NoOperation, ServedHasEffect, At
<1> QED BY <1>2, <1>3, <1>4 DEF IInv

LEMMA StepKeeps == ASSUME IInv, Next PROVE IInv'
<1>1. ASSUME NEW e \in Events, LeaseEnds(e) PROVE IInv'
  BY <1>1, LeaseEndsKeeps
<1>2. ASSUME NEW e \in Events, NEW w \in Workers, ClaimJob(w, e) PROVE IInv'
  BY <1>2, ClaimJobKeeps
<1>3. ASSUME NEW w \in Workers, WorkerStep(w) \/ Dies(w) PROVE IInv'
  BY <1>3, RunEnds, MaterializeReadsKeeps, MaterializeKeeps, ClaimOperationKeeps, NothingToClaimKeeps,
     SubmitKeeps, SubmitFailsKeeps, RecordFailureKeeps DEF WorkerStep
<1> QED BY <1>1, <1>2, <1>3, RefundKeeps, AdminKeeps DEF Next

LEMMA StutterKeeps == ASSUME IInv, UNCHANGED vars PROVE IInv'
<1>1. Kept /\ ReceiptKnown'
  BY NothingWritten DEF vars, IInv
<1>2. LeasedIsRun' /\ DoneHasEffect' /\ ServedHasEffect'
  BY <1>1, DoneStays, ServedStays DEF vars
<1>3. TypeOK'
  BY DEF vars, IInv, TypeOK
<1> QED BY <1>1, <1>2, <1>3 DEF IInv

\* The inductive invariant holds in every reachable state.
THEOREM Invariant == Spec => []IInv
<1> QED BY Start, StepKeeps, StutterKeeps, PTL DEF Spec

\* handle ends a job as DONE only when materializePayment has made the fiscal
\* operation of a payment whose refund nobody asked for, or the provider has the
\* receipt of a submission: whatever leases ended, workers died and administrators
\* wrote meanwhile.
THEOREM DoneIsAlwaysServed == Spec => []DoneIsServed
<1>1. IInv => DoneIsServed
  <2> SUFFICES ASSUME IInv PROVE DoneIsServed
    OBVIOUS
  <2>1. \A n \in 0 .. MaxAttempts : Submission(n) \in Events /\ Submission(n) # Paid
    BY FinanceQueueAssumption DEF Submission, Events, Paid
  <2> QED BY <2>1, Step0 DEF DoneIsServed, IInv, DoneHasEffect, Effect
<1> QED BY <1>1, Invariant, PTL

\* The catch block and the last transaction of handle write a job only by the
\* run that owns it, and a job whose lease lasts is not claimed.
THEOREM LiveLeaseAlwaysHolds == Spec => LiveLeaseHolds
<1> DEFINE Holds ==
      \A e \in Events :
        /\ job[e].leased
        /\ <<job'[e].status, job'[e].owner>> # <<job[e].status, job[e].owner>>
        => worker'[job[e].owner] # worker[job[e].owner]
<1>1. ASSUME IInv, [Next]_vars PROVE [Holds]_vars
  <2> SUFFICES ASSUME NEW e \in Events, job[e].leased, job'[e] # job[e], Next,
                      job'[e].status # job[e].status \/ job'[e].owner # job[e].owner
               PROVE  worker'[job[e].owner] # worker[job[e].owner]
    BY <1>1 DEF vars
  <2>1. job[e].status = "RUNNING" /\ job[e] \in Job /\ job \in [Events -> Job]
    BY <1>1 DEF IInv, LeasedIsRun, TypeOK
  <2>2. ASSUME NEW w \in Workers, worker[w] # Idle, worker' = [worker EXCEPT ![w] = Idle],
               job[e].owner = w
        PROVE  worker'[job[e].owner] # worker[job[e].owner]
    BY <1>1, <2>2 DEF IInv, TypeOK
  <2>3. ASSUME NEW d \in Events, LeaseEnds(d) PROVE FALSE
    <3>1. job' = [job EXCEPT ![d] = [job[d] EXCEPT !.leased = FALSE]] /\ job[d] \in Job
      BY <1>1, <2>3 DEF LeaseEnds, IInv, TypeOK
    <3>2. job'[e].status = job[e].status /\ job'[e].owner = job[e].owner
      BY <2>1, <3>1 DEF Job
    <3> QED BY <3>2
  <2>4. ASSUME NEW d \in Events, NEW w \in Workers, ClaimJob(w, d) PROVE FALSE
    BY <2>1, <2>4 DEF ClaimJob, Waits
  <2>5. ASSUME NEW w \in Workers, FinishJob(w)
        PROVE  worker[w] # Idle /\ worker' = [worker EXCEPT ![w] = Idle] /\ job[e].owner = w
    BY <2>1, <2>5 DEF FinishJob, At
  <2>6. ASSUME NEW w \in Workers, FailJob(w)
        PROVE  worker[w] # Idle /\ worker' = [worker EXCEPT ![w] = Idle] /\ job[e].owner = w
    BY <2>1, <2>6 DEF FailJob, At, Owns
  <2>7. job' = job \/ (\E d \in Events : LeaseEnds(d) \/ \E w \in Workers : ClaimJob(w, d))
        \/ \E w \in Workers : FinishJob(w) \/ FailJob(w)
    BY DEF Next, WorkerStep, Dies, MaterializeReads, MaterializePayment, ClaimOperation,
           NothingToClaim, RefundAsked, RefundConfirmed, Submit, SubmitFails, RecordFailure, RetryAsked, RetryWritten, ReconcileReads,
           ReconcileWrites
  <2> QED BY <2>2, <2>3, <2>4, <2>5, <2>6, <2>7
<1>2. Spec => [][Holds]_vars
  BY <1>1, Invariant, PTL DEF Spec
<1> QED BY <1>2 DEF LiveLeaseHolds
=============================================================================
