--------------------------- MODULE PaymentProofs ---------------------------
(* What holds of Payment for any number of attempts, tries, events,          *)
(* concurrent requests and refund triggers.                                  *)
EXTENDS Payment, TLAPS

-----------------------------------------------------------------------------
(* Types of the operators the actions share.                                 *)

LEMMA TransitionType ==
  ASSUME NEW current \in AttemptStatus, NEW observation \in Observation
  PROVE  PaymentTransition(current, observation) \in Observation
BY DEF PaymentTransition, Observation

LEMMA ObservationTypes ==
  ASSUME NEW s \in Observation
  PROVE  s \in AttemptStatus /\ s \in PaymentStatus
BY DEF Observation, AttemptStatus, Unresolved, Terminal, PaymentStatus

LEMMA CallAtType ==
  ASSUME NEW pc \in {"IDLE", "TODO", "ANSWERED"}
  PROVE  CallAt(pc) \in CallState
BY DEF CallAt, CallState

LEMMA OutdatedType ==
  ASSUME NEW calls \in [Calls -> CallState], NEW S, NEW p \in BOOLEAN
  PROVE  Outdated(calls, S, p) \in [Calls -> CallState]
<1>1. ASSUME NEW k \in Calls
      PROVE  [calls[k] EXCEPT !.attemptFresh = @ /\ k[1] \notin S,
                              !.paymentFresh = @ /\ ~p] \in CallState
  <2>1. calls[k] \in CallState
    OBVIOUS
  <2> QED BY <2>1 DEF CallState
<1> QED BY <1>1 DEF Outdated

LEMMA SupersededType ==
  ASSUME NEW a, obs \in [Observers -> ObsState]
  PROVE  Superseded(a) \in [Observers -> ObsState]
BY DEF Superseded, ObsState

LEMMA SupersededSame ==
  ASSUME NEW a \in Attempts, obs \in [Observers -> ObsState], NEW v \in Observers
  PROVE  /\ Superseded(a)[v].attempt = obs[v].attempt
         /\ Superseded(a)[v].seen = obs[v].seen
         /\ Superseded(a)[v] # NoObs => obs[v] # NoObs
<1>1. a # 0
  BY BoundsAssumption DEF Attempts
<1> QED BY <1>1 DEF Superseded, ObsState, NoObs

LEMMA InitType == Init => TypeOK
BY BoundsAssumption, CallAtType
   DEF Init, TypeOK, OrderStatus, NoObs, ObsState, ProviderStatus, CallAt, CallState

LEMMA RecordType ==
  ASSUME TypeOK, NEW a \in Attempts, NEW s \in Observation,
         NEW e \in BOOLEAN, NEW job, Record(a, s, e, job)
  PROVE  /\ attempt' \in [Attempts -> AttemptStatus \cup {"NONE"}]
         /\ due' \in [Attempts -> {"NONE", "ARMED", "DUE"}]
         /\ payment' \in PaymentStatus
         /\ event' \in [Attempts -> {"NONE", "OPEN", "DONE"}]
         /\ older' \in [Attempts -> BOOLEAN]
         /\ call' \in [Calls -> CallState]
<1>1. call' \in [Calls -> CallState]
  BY OutdatedType DEF Record, TypeOK
<1>2. payment' \in PaymentStatus
  BY ObservationTypes DEF Record
<1>3. older' \in [Attempts -> BOOLEAN]
  BY DEF Record, TypeOK
<1> QED BY <1>1, <1>2, <1>3, ObservationTypes DEF Record, TypeOK

LEMMA SettlesType ==
  ASSUME TypeOK, NEW a \in Attempts, NEW o \in OrderStatus,
         NEW s \in Observation, NEW e \in BOOLEAN, NEW x \in Outcomes,
         attempt[a] # "NONE", Webhook(a, x),
         Settles(a, PaymentTransition(attempt[a], s), e, o),
         paidEvents' \in 0 .. 2
  PROVE  TypeOK'
<1>1. PaymentTransition(attempt[a], s) \in Observation
  BY TransitionType DEF TypeOK
<1>2. recorded' \in [Attempts \X Outcomes -> 0 .. MaxEvents]
  BY BoundsAssumption DEF TypeOK, Webhook
<1>3. obs' \in [Observers -> ObsState]
  BY SupersededType DEF TypeOK, Settles
<1>4. Record(a, PaymentTransition(attempt[a], s), e, "NONE")
  BY DEF Settles
<1> QED BY <1>1, <1>2, <1>3, <1>4, RecordType DEF TypeOK, Settles

-----------------------------------------------------------------------------
(* The inductive invariant.                                                  *)

\* A reference is stored when an attempt leaves CREATED, and an execution in
\* flight looks at an attempt that exists.
Lineage ==
  /\ \A a \in Attempts : reference[a] => attempt[a] \notin {"NONE", "CREATED"}
  /\ \A a \in Attempts : provider[a] # "NONE" => attempt[a] # "NONE"
  /\ \A w \in Observers : obs[w] # NoObs =>
       /\ obs[w].attempt \in Attempts
       /\ attempt[obs[w].attempt] # "NONE"
       /\ obs[w].seen \in Observation
       /\ reference[obs[w].attempt] \/ obs[w].seen = "CANCELLED"

\* Success and failure are the provider's word, in the row and in flight.
Evidence ==
  /\ \A a \in Attempts :
       /\ attempt[a] = "SUCCEEDED" => provider[a] \in Captured
       /\ attempt[a] = "FAILED" => provider[a] \in Declined
  /\ \A w \in Observers : obs[w] # NoObs =>
       /\ obs[w].seen = "SUCCEEDED" => provider[obs[w].attempt] \in Captured
       /\ obs[w].seen = "FAILED" => provider[obs[w].attempt] \in Declined

\* A payment that succeeded and an order that was released rest on an attempt
\* that succeeded.
Paid ==
  \/ payment \in {"SUCCEEDED", "REFUND_PENDING"}
  \/ order # "AWAITING_PAYMENT"
  => \E a \in Attempts : attempt[a] = "SUCCEEDED"

OneUnresolved ==
  \A a, b \in Attempts :
    attempt[a] \in Unresolved /\ attempt[b] \in Unresolved => a = b

IInv ==
  /\ TypeOK
  /\ Lineage
  /\ Evidence
  /\ Paid
  /\ OneUnresolved
  /\ TakenUpIsReferenced

-----------------------------------------------------------------------------
(* What a step can do to the rows the invariant speaks of.                   *)

Quiet == UNCHANGED <<order, payment, attempt, reference, obs, provider>>

\* A webhook of outcome x settles attempt a as if s had been observed.
Settled ==
  \E a \in Attempts, x \in Outcomes, s \in Observation, e \in BOOLEAN,
     o \in {"AWAITING_PAYMENT", "PAID"} :
    /\ Webhook(a, x)
    /\ s \in {"SUCCEEDED", "FAILED", "CANCELLED"} => x = s
    /\ (o = "PAID") <=> (s = "SUCCEEDED")
    /\ s = "SUCCEEDED" => attempt[a] \notin {"FAILED", "CANCELLED"}
    /\ Settles(a, PaymentTransition(attempt[a], s), e, o)
    /\ paidEvents' \in 0 .. 2

\* An execution starts with something it saw.
Looked ==
  \E w \in Observers, a \in Attempts, s \in Observation,
     job \in {"NONE", "EVENT", "OLDER"} :
    /\ Observes(w, a, s, job)
    /\ attempt[a] # "NONE"
    /\ reference[a] \/ s = "CANCELLED"
    /\ s = "SUCCEEDED" => provider[a] \in Captured
    /\ s = "FAILED" => provider[a] = "FAILED"
    /\ \/ UNCHANGED provider
       \/ /\ provider[a] = "PENDING"
          /\ provider' = [provider EXCEPT ![a] = "CANCELLED"]
    /\ UNCHANGED <<order, payment, attempt, reference>>

Dropped ==
  /\ \E w \in Observers : obs' = [obs EXCEPT ![w] = NoObs]
  /\ UNCHANGED <<order, payment, attempt, reference, provider>>

Refunding ==
  \/ StartMatching
  \/ \E t \in Triggers :
       RefundAsked(t) \/ RefundRecorded(t) \/ RefundConfirmed(t)

Submitting ==
  \E a \in Attempts :
    \/ StartPayment(a)
    \/ \E c \in Callers :
         \/ \E result \in DispatchResult : DispatchCall(a, c, result)
         \/ DispatchAccepted(a, c)
         \/ DispatchFailed(a, c)
    \/ ProviderDecides(a)

LEMMA ReportedType ==
  ASSUME NEW a \in Attempts
  PROVE  /\ Reported(a) \in Observation /\ Reconciled(a) \in Observation
         /\ Reported(a) = "SUCCEEDED" => provider[a] \in Captured
         /\ Reported(a) = "FAILED" => provider[a] = "FAILED"
         /\ Reconciled(a) = "SUCCEEDED" => provider[a] \in Captured
         /\ Reconciled(a) = "FAILED" => provider[a] = "FAILED"
BY DEF Reported, Reconciled, Observation, Captured

LEMMA WebhookSettles ==
  ASSUME TypeOK, NEW a \in Attempts,
         \/ WebhookSucceededLate(a) \/ WebhookSucceeded(a)
         \/ WebhookFailed(a) \/ WebhookCancelled(a) \/ WebhookUnknown(a)
  PROVE  Settled
<1>1. CASE WebhookSucceededLate(a)
  BY <1>1 DEF WebhookSucceededLate, Settled, TypeOK, Outcomes, Observation
<1>2. CASE WebhookSucceeded(a)
  <2>1. paidEvents' \in 0 .. 2
    BY <1>2 DEF WebhookSucceeded, CountPaid, TypeOK
  <2> QED BY <1>2, <2>1 DEF WebhookSucceeded, Settled, Outcomes, Observation
<1>3. CASE WebhookFailed(a)
  BY <1>3 DEF WebhookFailed, Settled, TypeOK, Outcomes, Observation
<1>4. CASE WebhookCancelled(a)
  BY <1>4 DEF WebhookCancelled, Settled, TypeOK, Outcomes, Observation
<1>5. CASE WebhookUnknown(a)
  BY <1>5 DEF WebhookUnknown, Settled, TypeOK, Outcomes, Observation
<1> QED BY <1>1, <1>2, <1>3, <1>4, <1>5

LEMMA ObservingLooks ==
  ASSUME TypeOK, Lineage, NEW w \in Observers, NEW a \in Attempts, Observing(w, a)
  PROVE  Looked
<1>1. CASE ConfirmObserves(w, a)
  BY <1>1, ReportedType DEF ConfirmObserves, Looked, Latest, db
<1>2. CASE AdminObserves(w, a)
  BY <1>2, ReportedType DEF AdminObserves, Looked, db
<1>3. CASE \E job \in {"EVENT", "OLDER"} : JobObserves(w, a, job)
  BY <1>3, ReportedType DEF JobObserves, Looked, Lineage, db
<1>4. CASE CancelCreated(w, a)
  BY <1>4 DEF CancelCreated, Looked, Observation, db
<1>5. CASE CancelProcessing(w, a)
  BY <1>5 DEF CancelProcessing, Looked, Observation, db
<1> QED BY <1>1, <1>2, <1>3, <1>4, <1>5 DEF Observing

LEMMA StepKinds ==
  ASSUME TypeOK, Lineage, [Next]_vars
  PROVE  \/ Quiet \/ Settled \/ Looked \/ Dropped \/ Refunding \/ Submitting
         \/ \E w \in Observers : ObservationApplied(w)
<1>1. CASE UNCHANGED vars
  BY <1>1 DEF vars, Quiet
<1>2. ASSUME NEW a \in Attempts, Dispatching(a)
      PROVE  Quiet \/ Submitting
  BY <1>2 DEF Dispatching, ClaimDispatch, DispatchSkip, DispatchRaced,
              DispatchCrash, Quiet, Submitting, db
<1>3. ASSUME NEW a \in Attempts, Webhooks(a)
      PROVE  Quiet \/ Settled
  BY <1>3, WebhookSettles DEF Webhooks, WebhookStored, Quiet
<1>4. ASSUME NEW a \in Attempts, DeadlinePasses(a) \/ Sweep(a)
      PROVE  Quiet
  BY <1>4 DEF DeadlinePasses, Sweep, Quiet
<1>5. ASSUME NEW w \in Observers,
             \/ ObservationRepeats(w) \/ ObservationAborted(w)
             \/ ObservationLost(w)
      PROVE  Dropped
  BY <1>5 DEF ObservationRepeats, ObservationAborted, ObservationLost, Dropped, db
<1>6. ASSUME NEW a \in Attempts, StartPayment(a) \/ ProviderDecides(a)
      PROVE  Submitting
  BY <1>6 DEF Submitting
<1> QED BY <1>1, <1>2, <1>3, <1>4, <1>5, <1>6, ObservingLooks
        DEF Next, ApplyObservation, Refunding

-----------------------------------------------------------------------------
(* Type correctness.                                                         *)

LEMMA DispatchingType ==
  ASSUME TypeOK, NEW a \in Attempts, Dispatching(a)
  PROVE  TypeOK'
<1>1. CASE ClaimDispatch(a)
  <2>1. call' \in [Calls -> CallState]
    BY <1>1, CallAtType DEF ClaimDispatch, TypeOK
  <2>2. tries' \in [Attempts -> 0 .. MaxTries]
    BY <1>1, BoundsAssumption DEF ClaimDispatch, TypeOK
  <2> QED BY <1>1, <2>1, <2>2 DEF ClaimDispatch, TypeOK
<1>2. ASSUME NEW c \in Callers, DispatchSkip(a, c)
      PROVE  TypeOK'
  <2>1. call' \in [Calls -> CallState]
    BY <1>2, CallAtType DEF DispatchSkip, TypeOK
  <2> QED BY <1>2, <2>1 DEF DispatchSkip, JobEnds, TypeOK
<1>3. ASSUME NEW c \in Callers, NEW result \in DispatchResult,
             DispatchCall(a, c, result)
      PROVE  TypeOK'
  <2>1. call' \in [Calls -> CallState]
    BY <1>3 DEF DispatchCall, TypeOK, CallState
  <2>2. provider' \in [Attempts -> ProviderStatus]
    BY <1>3 DEF DispatchCall, TypeOK, ProviderStatus
  <2> QED BY <1>3, <2>1, <2>2 DEF DispatchCall, TypeOK, db
<1>4. ASSUME NEW c \in Callers, DispatchAccepted(a, c)
      PROVE  TypeOK'
  <2> DEFINE k == <<a, c>>
             s == IF call[k].result = "UNKNOWN" THEN "UNKNOWN" ELSE "PROCESSING"
  <2>1. k \in Calls /\ call[k].paymentFresh \in BOOLEAN
    BY DEF Calls, TypeOK, CallState
  <2>2. Outdated(call, {a}, call[k].paymentFresh) \in [Calls -> CallState]
    BY <2>1, OutdatedType DEF TypeOK
  <2>3. call' \in [Calls -> CallState]
    BY <1>4, <2>2, CallAtType DEF DispatchAccepted
  <2>4. /\ attempt' \in [Attempts -> AttemptStatus \cup {"NONE"}]
        /\ payment' \in PaymentStatus \cup {"NONE"}
    BY <1>4 DEF DispatchAccepted, TypeOK, AttemptStatus, Unresolved, PaymentStatus
  <2>5. dispatchJob' \in [Attempts -> {"NONE", "OPEN", "DONE"}]
    BY <1>4 DEF DispatchAccepted, TypeOK, JobEnds
  <2>6. /\ due' \in [Attempts -> {"NONE", "ARMED", "DUE"}]
        /\ reference' \in [Attempts -> BOOLEAN]
    BY <1>4 DEF DispatchAccepted, TypeOK
  <2> QED BY <1>4, <2>3, <2>4, <2>5, <2>6 DEF DispatchAccepted, TypeOK
<1>5. ASSUME NEW c \in Callers, DispatchRaced(a, c) \/ DispatchCrash(a, c)
      PROVE  TypeOK'
  <2>1. call' \in [Calls -> CallState]
    BY <1>5, CallAtType DEF DispatchRaced, DispatchCrash, TypeOK
  <2> QED BY <1>5, <2>1 DEF DispatchRaced, DispatchCrash, TypeOK, db
<1>6. ASSUME NEW c \in Callers, DispatchFailed(a, c)
      PROVE  TypeOK'
  <2> DEFINE k == <<a, c>>
             mine == call[k].attemptFresh /\ attempt[a] = "CREATED"
             S == IF mine THEN {a} ELSE {}
  <2>1. k \in Calls /\ call[k].paymentFresh \in BOOLEAN
    BY DEF Calls, TypeOK, CallState
  <2>2. Outdated(call, S, call[k].paymentFresh) \in [Calls -> CallState]
    BY <2>1, OutdatedType DEF TypeOK
  <2>3. call' \in [Calls -> CallState]
    BY <1>6, <2>2, CallAtType DEF DispatchFailed
  <2>4. /\ attempt' \in [Attempts -> AttemptStatus \cup {"NONE"}]
        /\ payment' \in PaymentStatus \cup {"NONE"}
        /\ due' \in [Attempts -> {"NONE", "ARMED", "DUE"}]
    BY <1>6 DEF DispatchFailed, TypeOK, AttemptStatus, Unresolved, PaymentStatus
  <2> QED BY <1>6, <2>3, <2>4 DEF DispatchFailed, TypeOK
<1> QED BY <1>1, <1>2, <1>3, <1>4, <1>5, <1>6 DEF Dispatching

LEMMA LookedType ==
  ASSUME TypeOK, NEW w \in Observers, NEW a \in Attempts, NEW s \in Observation,
         NEW job \in {"NONE", "EVENT", "OLDER"}, Observes(w, a, s, job)
  PROVE  obs' \in [Observers -> ObsState]
BY BoundsAssumption DEF Observes, TypeOK, ObsState, Attempts

LEMMA ObservingType ==
  ASSUME TypeOK, NEW w \in Observers, NEW a \in Attempts, Observing(w, a)
  PROVE  TypeOK'
<1>1. obs' \in [Observers -> ObsState]
  BY LookedType, ReportedType
     DEF Observing, ConfirmObserves, AdminObserves, JobObserves, CancelCreated,
         CancelProcessing, Observation
<1>2. provider' \in [Attempts -> ProviderStatus]
  BY DEF Observing, ConfirmObserves, AdminObserves, JobObserves, CancelCreated,
         CancelProcessing, TypeOK, ProviderStatus
<1>3. UNCHANGED <<db, call>>
  BY DEF Observing, ConfirmObserves, AdminObserves, JobObserves, CancelCreated,
         CancelProcessing
<1> QED BY <1>1, <1>2, <1>3 DEF TypeOK, db

LEMMA AppliedType ==
  ASSUME TypeOK, Lineage, NEW w \in Observers, ApplyObservation(w)
  PROVE  TypeOK'
<1> DEFINE a == obs[w].attempt
           s == PaymentTransition(attempt[a], obs[w].seen)
<1>1. obs[w] # NoObs
  BY DEF ApplyObservation, ObservationApplied, ObservationRepeats,
         ObservationAborted
<1>2. a \in Attempts /\ attempt[a] \in AttemptStatus /\ s \in Observation
  BY <1>1, TransitionType DEF Lineage, TypeOK
<1>3. NoObs \in ObsState
  BY BoundsAssumption DEF NoObs, ObsState
<1>4. CASE ObservationApplied(w)
  <2>1. Record(a, s, s = "UNKNOWN", obs[w].job)
    BY <1>4 DEF ObservationApplied
  <2>2. obs' \in [Observers -> ObsState]
    BY <1>3, <1>4, SupersededType DEF ObservationApplied, TypeOK
  <2>3. order' \in OrderStatus /\ paidEvents' \in 0 .. 2
    BY <1>4 DEF ObservationApplied, Released, CountPaid, TypeOK, OrderStatus
  <2> HIDE DEF a, s
  <2>4. /\ attempt' \in [Attempts -> AttemptStatus \cup {"NONE"}]
        /\ due' \in [Attempts -> {"NONE", "ARMED", "DUE"}]
        /\ payment' \in PaymentStatus
        /\ event' \in [Attempts -> {"NONE", "OPEN", "DONE"}]
        /\ older' \in [Attempts -> BOOLEAN]
        /\ call' \in [Calls -> CallState]
    BY <1>2, <2>1, RecordType
  <2>5. UNCHANGED <<reference, dispatchJob, tries, recorded, provider, refund>>
    BY <1>4 DEF ObservationApplied
  <2> QED BY <2>2, <2>3, <2>4, <2>5 DEF TypeOK
<1>5. CASE ObservationRepeats(w)
  <2>1. obs' \in [Observers -> ObsState]
    BY <1>3, <1>5 DEF ObservationRepeats, TypeOK
  <2>2. /\ event' \in [Attempts -> {"NONE", "OPEN", "DONE"}]
        /\ older' \in [Attempts -> BOOLEAN]
    BY <1>5 DEF ObservationRepeats, TypeOK
  <2> QED BY <1>5, <2>1, <2>2 DEF ObservationRepeats, TypeOK
<1>6. CASE ObservationAborted(w)
  BY <1>3, <1>6 DEF ObservationAborted, TypeOK, db
<1> QED BY <1>4, <1>5, <1>6 DEF ApplyObservation

LEMMA RefundingType ==
  ASSUME TypeOK, Refunding
  PROVE  TypeOK'
<1>1. CASE StartMatching
  BY <1>1 DEF StartMatching, TypeOK, OrderStatus
<1>2. ASSUME NEW t \in Triggers, RefundAsked(t)
      PROVE  TypeOK'
  BY <1>2 DEF RefundAsked, TypeOK
<1>3. ASSUME NEW t \in Triggers, RefundRecorded(t) \/ RefundConfirmed(t)
      PROVE  TypeOK'
  <2>. Outdated(call, {}, TRUE) \in [Calls -> CallState]
    BY OutdatedType DEF TypeOK
  <2>1. call' \in [Calls -> CallState]
    BY <1>3 DEF RefundRecorded, RefundConfirmed
  <2>2. /\ order' \in OrderStatus
        /\ payment' \in PaymentStatus \cup {"NONE"}
        /\ refund' \in [Triggers -> {"NONE", "ASKED", "REQUESTED", "CONFIRMED"}]
    BY <1>3
       DEF RefundRecorded, RefundConfirmed, TypeOK, OrderStatus, PaymentStatus
  <2>3. UNCHANGED <<attempt, reference, due, event, older, dispatchJob, tries,
                    obs, recorded, provider, paidEvents>>
    BY <1>3 DEF RefundRecorded, RefundConfirmed
  <2> QED BY <2>1, <2>2, <2>3 DEF TypeOK
<1> QED BY <1>1, <1>2, <1>3 DEF Refunding

LEMMA WebhooksType ==
  ASSUME TypeOK, Lineage, NEW a \in Attempts, Webhooks(a)
  PROVE  TypeOK'
<1>1. CASE WebhookStored(a)
  <2>1. recorded' \in [Attempts \X Outcomes -> 0 .. MaxEvents]
    BY <1>1, BoundsAssumption DEF WebhookStored, Webhook, TypeOK, Outcomes
  <2> QED BY <1>1, <2>1 DEF WebhookStored, TypeOK
<1>2. ASSUME Settled
      PROVE  TypeOK'
  <2>1. PICK b \in Attempts, x \in Outcomes, s \in Observation, e \in BOOLEAN,
             o \in {"AWAITING_PAYMENT", "PAID"} :
          /\ Webhook(b, x)
          /\ Settles(b, PaymentTransition(attempt[b], s), e, o)
          /\ paidEvents' \in 0 .. 2
    BY <1>2 DEF Settled
  <2>2. attempt[b] # "NONE"
    BY <2>1 DEF Webhook, Lineage
  <2>3. o \in OrderStatus
    BY DEF OrderStatus
  <2> QED BY <2>1, <2>2, <2>3, SettlesType
<1> QED BY <1>1, <1>2, WebhookSettles DEF Webhooks

LEMMA NextType == TypeOK /\ Lineage /\ [Next]_vars => TypeOK'
<1> SUFFICES ASSUME TypeOK, Lineage, [Next]_vars
             PROVE  TypeOK'
  OBVIOUS
<1>1. CASE UNCHANGED vars
  BY <1>1 DEF vars, TypeOK
<1>2. ASSUME NEW a \in Attempts, StartPayment(a)
      PROVE  TypeOK'
  <2>1. Outdated(call, {}, TRUE) \in [Calls -> CallState]
    BY OutdatedType DEF TypeOK
  <2>2. call' \in [Calls -> CallState]
    BY <1>2, <2>1, CallAtType DEF StartPayment
  <2> QED BY <1>2, <2>2
          DEF StartPayment, TypeOK, AttemptStatus, Unresolved, PaymentStatus
<1>3. ASSUME NEW a \in Attempts, ProviderDecides(a)
      PROVE  TypeOK'
  BY <1>3 DEF ProviderDecides, TypeOK, db
<1>4. ASSUME NEW a \in Attempts, DeadlinePasses(a) \/ Sweep(a)
      PROVE  TypeOK'
  BY <1>4 DEF DeadlinePasses, Sweep, TypeOK
<1>5. ASSUME NEW w \in Observers, ObservationLost(w)
      PROVE  TypeOK'
  BY <1>5, BoundsAssumption DEF ObservationLost, TypeOK, db, NoObs, ObsState
<1> QED BY <1>1, <1>2, <1>3, <1>4, <1>5, DispatchingType, WebhooksType,
           ObservingType, AppliedType, RefundingType DEF Next, Refunding

-----------------------------------------------------------------------------
(* The other parts of the invariant.                                         *)

\* The rows a record of an observation of attempt a writes.
LEMMA SettledRows ==
  ASSUME TypeOK, Lineage, Settled
  PROVE  \E a \in Attempts, s \in Observation :
           /\ reference[a] /\ attempt[a] \in AttemptStatus
           /\ s = "SUCCEEDED" =>
                provider[a] \in Captured \/ attempt[a] = "SUCCEEDED"
           /\ s = "FAILED" => provider[a] \in Declined
           /\ IndexAccepts(a, s)
           /\ attempt' = [attempt EXCEPT ![a] = s]
           /\ attempt[a] = "SUCCEEDED" => s = "SUCCEEDED"
           /\ payment' = s
           /\ order' = "AWAITING_PAYMENT" \/ (order' = "PAID" /\ s = "SUCCEEDED")
           /\ s = "SUCCEEDED" => order' = "PAID" \/ attempt[a] = "SUCCEEDED"
           /\ obs' = Superseded(a)
           /\ UNCHANGED <<reference, provider>>
<1>1. PICK a \in Attempts, x \in Outcomes, r \in Observation, e \in BOOLEAN,
           o \in {"AWAITING_PAYMENT", "PAID"} :
        /\ Webhook(a, x)
        /\ r \in {"SUCCEEDED", "FAILED", "CANCELLED"} => x = r
        /\ (o = "PAID") <=> (r = "SUCCEEDED")
        /\ r = "SUCCEEDED" => attempt[a] \notin {"FAILED", "CANCELLED"}
        /\ Settles(a, PaymentTransition(attempt[a], r), e, o)
  BY DEF Settled
<1> DEFINE s == PaymentTransition(attempt[a], r)
<1>2. reference[a] /\ attempt[a] \in AttemptStatus \ {"CREATED"}
  BY <1>1 DEF Webhook, Lineage, TypeOK
<1>3. s \in Observation
  BY <1>2, TransitionType
<1>4. /\ s = "SUCCEEDED" => r = "SUCCEEDED" \/ attempt[a] = "SUCCEEDED"
      /\ s = "FAILED" => r = "FAILED"
      /\ attempt[a] = "SUCCEEDED" => s = "SUCCEEDED"
  BY DEF PaymentTransition
<1>5. o = "PAID" => s = "SUCCEEDED"
  BY <1>1, <1>2 DEF PaymentTransition, AttemptStatus, Unresolved, Terminal,
                    Allowed, Observation
<1>6. /\ r = "SUCCEEDED" => provider[a] \in Captured
      /\ r = "FAILED" => provider[a] \in Declined
  BY <1>1 DEF Webhook, Told
<1> QED
  <2>1. /\ IndexAccepts(a, s)
        /\ attempt' = [attempt EXCEPT ![a] = s]
        /\ payment' = s
        /\ order' = o
        /\ obs' = Superseded(a)
        /\ UNCHANGED <<reference, provider>>
    BY <1>1 DEF Settles, Record
  <2> HIDE DEF s
  <2>2. reference[a] /\ attempt[a] \in AttemptStatus
    BY <1>2
  <2>3. s = "SUCCEEDED" => provider[a] \in Captured \/ attempt[a] = "SUCCEEDED"
    BY <1>4, <1>6
  <2>4. s = "FAILED" => provider[a] \in Declined
    BY <1>4, <1>6
  <2>5. order' = "AWAITING_PAYMENT" \/ (order' = "PAID" /\ s = "SUCCEEDED")
    BY <1>5, <2>1
  <2>6. s = "SUCCEEDED" => order' = "PAID" \/ attempt[a] = "SUCCEEDED"
    BY <1>1, <1>4, <2>1
  <2> QED BY <1>3, <1>4, <2>1, <2>2, <2>3, <2>4, <2>5, <2>6

LEMMA AppliedRows ==
  ASSUME TypeOK, Lineage, Evidence, NEW w \in Observers, ObservationApplied(w)
  PROVE  \E a \in Attempts, s \in Observation :
           /\ \/ reference[a] \/ attempt[a] = "SUCCEEDED"
              \/ s \in {"CANCELLED", "UNKNOWN"}
           /\ attempt[a] \in AttemptStatus
           /\ s = "SUCCEEDED" => provider[a] \in Captured
           /\ s = "FAILED" => provider[a] \in Declined
           /\ IndexAccepts(a, s)
           /\ attempt' = [attempt EXCEPT ![a] = s]
           /\ attempt[a] = "SUCCEEDED" => s = "SUCCEEDED"
           /\ payment' = s
           /\ order' = Released(s)
           /\ obs' = [Superseded(a) EXCEPT ![w] = NoObs]
           /\ UNCHANGED <<reference, provider>>
<1> DEFINE a == obs[w].attempt
           s == PaymentTransition(attempt[a], obs[w].seen)
<1>1. obs[w] # NoObs
  BY DEF ObservationApplied
<1>2. /\ a \in Attempts /\ attempt[a] \in AttemptStatus
      /\ obs[w].seen \in Observation
      /\ reference[a] \/ obs[w].seen = "CANCELLED"
  BY <1>1 DEF Lineage, TypeOK
<1>3. s \in Observation
  BY <1>2, TransitionType
<1>4. /\ s = "SUCCEEDED" => obs[w].seen = "SUCCEEDED" \/ attempt[a] = "SUCCEEDED"
      /\ s = "FAILED" => obs[w].seen = "FAILED"
      /\ attempt[a] = "SUCCEEDED" => s = "SUCCEEDED"
      /\ obs[w].seen = "CANCELLED" =>
           s \in {"CANCELLED", "UNKNOWN"} \/ attempt[a] = "SUCCEEDED"
  BY DEF PaymentTransition
<1>5. /\ s = "SUCCEEDED" => provider[a] \in Captured
      /\ s = "FAILED" => provider[a] \in Declined
  BY <1>1, <1>2, <1>4 DEF Evidence
<1>6. /\ IndexAccepts(a, s)
      /\ attempt' = [attempt EXCEPT ![a] = s]
      /\ payment' = s
      /\ order' = Released(s)
      /\ obs' = [Superseded(a) EXCEPT ![w] = NoObs]
      /\ UNCHANGED <<reference, provider>>
  BY DEF ObservationApplied, Record
<1> HIDE DEF a, s
<1> QED BY <1>2, <1>3, <1>4, <1>5, <1>6

\* The rows startPayment, an answered dispatch and the provider write.
Opened(a) ==
  /\ attempt[a] = "NONE"
  /\ Payable
  /\ attempt' = [attempt EXCEPT ![a] = "CREATED"]
  /\ UNCHANGED <<reference, provider>>

Answered(a) ==
  /\ attempt[a] = "CREATED"
  /\ \/ /\ \E s \in {"PROCESSING", "UNKNOWN"} :
             attempt' = [attempt EXCEPT ![a] = s]
        /\ reference' = [reference EXCEPT ![a] = TRUE]
     \/ /\ attempt' = [attempt EXCEPT ![a] = "UNKNOWN"]
        /\ UNCHANGED reference
  /\ UNCHANGED provider

Charged(a) ==
  /\ \E q \in ProviderStatus :
       /\ \/ provider[a] = "NONE" /\ attempt[a] = "CREATED" /\ q = "PENDING"
          \/ provider[a] = "PENDING" /\ q \in {"CAPTURED", "FAILED", "CANCELLED"}
          \/ provider[a] = "FAILED" /\ q = "CAPTURED_LATE"
       /\ provider' = [provider EXCEPT ![a] = q]
  /\ UNCHANGED <<attempt, reference>>

LEMMA SubmittingRows ==
  ASSUME TypeOK, Submitting
  PROVE  /\ UNCHANGED <<order, obs>>
         /\ payment' \in {payment, "PENDING", "PROCESSING", "UNKNOWN"}
         /\ \/ \E a \in Attempts : Opened(a) \/ Answered(a) \/ Charged(a)
            \/ UNCHANGED <<attempt, reference, provider>>
<1> DEFINE Rows ==
      /\ UNCHANGED <<order, obs>>
      /\ payment' \in {payment, "PENDING", "PROCESSING", "UNKNOWN"}
      /\ \/ \E a \in Attempts : Opened(a) \/ Answered(a) \/ Charged(a)
         \/ UNCHANGED <<attempt, reference, provider>>
<1>1. ASSUME NEW a \in Attempts, StartPayment(a)
      PROVE  Rows
  BY <1>1 DEF StartPayment, Opened
<1>2. ASSUME NEW a \in Attempts, NEW c \in Callers, NEW result \in DispatchResult,
             DispatchCall(a, c, result)
      PROVE  Rows
  <2>1. CASE provider[a] = "NONE"
    BY <1>2, <2>1 DEF DispatchCall, Charged, db, TypeOK, ProviderStatus
  <2>2. CASE provider[a] # "NONE"
    BY <1>2, <2>2 DEF DispatchCall, db, TypeOK
  <2> QED BY <2>1, <2>2
<1>3. ASSUME NEW a \in Attempts, NEW c \in Callers, DispatchAccepted(a, c)
      PROVE  Rows
  BY <1>3 DEF DispatchAccepted, Answered
<1>4. ASSUME NEW a \in Attempts, NEW c \in Callers, DispatchFailed(a, c)
      PROVE  Rows
  <2> DEFINE mine == call[<<a, c>>].attemptFresh /\ attempt[a] = "CREATED"
             lost == call[<<a, c>>].result = "ERROR"
  <2>1. CASE mine /\ lost
    BY <1>4, <2>1 DEF DispatchFailed, Answered
  <2>2. CASE ~(mine /\ lost)
    BY <1>4, <2>2 DEF DispatchFailed, TypeOK
  <2> QED BY <2>1, <2>2
<1>5. ASSUME NEW a \in Attempts, ProviderDecides(a)
      PROVE  Rows
  BY <1>5 DEF ProviderDecides, Charged, db, TypeOK
<1> QED BY <1>1, <1>2, <1>3, <1>4, <1>5 DEF Submitting

LEMMA LineageStep ==
  TypeOK /\ Lineage /\ Evidence /\ TakenUpIsReferenced /\ [Next]_vars => Lineage'
<1> SUFFICES ASSUME TypeOK, Lineage, Evidence, TakenUpIsReferenced, [Next]_vars
             PROVE  Lineage'
  OBVIOUS
<1>1. CASE Quiet
  BY <1>1 DEF Quiet, Lineage
<1>2. CASE Settled
  BY <1>2, SettledRows DEF Lineage, Superseded, TypeOK, ObsState, NoObs, Observation
<1>3. CASE Looked
  BY <1>3 DEF Looked, Observes, Lineage, TypeOK, Observation
<1>4. CASE Dropped
  BY <1>4 DEF Dropped, Lineage, TypeOK
<1>5. CASE Refunding
  BY <1>5 DEF Refunding, StartMatching, RefundAsked, RefundRecorded,
              RefundConfirmed, Lineage
<1>6. CASE Submitting
  BY <1>6, SubmittingRows
     DEF Opened, Answered, Charged, Lineage, TypeOK
<1>7. ASSUME NEW w \in Observers, ObservationApplied(w)
      PROVE  Lineage'
  <2>1. PICK a \in Attempts, s \in Observation :
          /\ \/ reference[a] \/ attempt[a] = "SUCCEEDED"
             \/ s \in {"CANCELLED", "UNKNOWN"}
          /\ attempt[a] \in AttemptStatus
          /\ s = "SUCCEEDED" => provider[a] \in Captured
          /\ s = "FAILED" => provider[a] \in Declined
          /\ attempt' = [attempt EXCEPT ![a] = s]
          /\ attempt[a] = "SUCCEEDED" => s = "SUCCEEDED"
          /\ payment' = s
          /\ order' = Released(s)
          /\ obs' = [Superseded(a) EXCEPT ![w] = NoObs]
          /\ UNCHANGED <<reference, provider>>
    BY <1>7, AppliedRows
  <2>2. ASSUME NEW v \in Observers, obs'[v] # NoObs
        PROVE  /\ obs[v] # NoObs
               /\ obs'[v].attempt = obs[v].attempt /\ obs'[v].seen = obs[v].seen
    <3>1. Superseded(a) \in [Observers -> ObsState]
      BY SupersededType DEF TypeOK
    <3>2. v # w /\ obs'[v] = Superseded(a)[v]
      BY <2>1, <2>2, <3>1
    <3> QED BY <2>2, <3>2, SupersededSame DEF TypeOK
  <2> QED BY <2>1, <2>2 DEF Lineage, TypeOK, Observation
<1> QED BY <1>1, <1>2, <1>3, <1>4, <1>5, <1>6, <1>7, StepKinds

LEMMA EvidenceStep ==
  TypeOK /\ Lineage /\ Evidence /\ [Next]_vars => Evidence'
<1> SUFFICES ASSUME TypeOK, Lineage, Evidence, [Next]_vars
             PROVE  Evidence'
  OBVIOUS
<1>1. CASE Quiet
  BY <1>1 DEF Quiet, Evidence
<1>2. CASE Settled
  BY <1>2, SettledRows DEF Lineage, Evidence, Superseded, TypeOK, ObsState, NoObs
<1>3. CASE Looked
  BY <1>3 DEF Looked, Observes, Lineage, Evidence, TypeOK, Captured, Declined, NoObs
<1>4. CASE Dropped
  BY <1>4 DEF Dropped, Evidence, TypeOK
<1>5. CASE Refunding
  BY <1>5 DEF Refunding, StartMatching, RefundAsked, RefundRecorded,
              RefundConfirmed, Evidence
<1>6. CASE Submitting
  BY <1>6, SubmittingRows
     DEF Opened, Answered, Charged, Lineage, Evidence, TypeOK, Captured, Declined
<1>7. ASSUME NEW w \in Observers, ObservationApplied(w)
      PROVE  Evidence'
  <2>1. PICK a \in Attempts, s \in Observation :
          /\ \/ reference[a] \/ attempt[a] = "SUCCEEDED"
             \/ s \in {"CANCELLED", "UNKNOWN"}
          /\ attempt[a] \in AttemptStatus
          /\ s = "SUCCEEDED" => provider[a] \in Captured
          /\ s = "FAILED" => provider[a] \in Declined
          /\ attempt' = [attempt EXCEPT ![a] = s]
          /\ attempt[a] = "SUCCEEDED" => s = "SUCCEEDED"
          /\ payment' = s
          /\ order' = Released(s)
          /\ obs' = [Superseded(a) EXCEPT ![w] = NoObs]
          /\ UNCHANGED <<reference, provider>>
    BY <1>7, AppliedRows
  <2>2. ASSUME NEW v \in Observers, obs'[v] # NoObs
        PROVE  /\ obs[v] # NoObs
               /\ obs'[v].attempt = obs[v].attempt /\ obs'[v].seen = obs[v].seen
    <3>1. Superseded(a) \in [Observers -> ObsState]
      BY SupersededType DEF TypeOK
    <3>2. v # w /\ obs'[v] = Superseded(a)[v]
      BY <2>1, <2>2, <3>1
    <3> QED BY <2>2, <3>2, SupersededSame DEF TypeOK
  <2> QED BY <2>1, <2>2 DEF Lineage, Evidence, TypeOK
<1> QED BY <1>1, <1>2, <1>3, <1>4, <1>5, <1>6, <1>7, StepKinds

LEMMA PaidStep ==
  TypeOK /\ Lineage /\ Evidence /\ Paid /\ [Next]_vars => Paid'
<1> SUFFICES ASSUME TypeOK, Lineage, Evidence, Paid, [Next]_vars
             PROVE  Paid'
  OBVIOUS
<1>1. CASE Quiet
  BY <1>1 DEF Quiet, Paid
<1>2. CASE Settled
  <2>1. PICK a \in Attempts, s \in Observation :
          /\ attempt' = [attempt EXCEPT ![a] = s]
          /\ attempt[a] = "SUCCEEDED" => s = "SUCCEEDED"
          /\ payment' = s
          /\ order' = "AWAITING_PAYMENT" \/ (order' = "PAID" /\ s = "SUCCEEDED")
    BY <1>2, SettledRows
  <2>2. CASE s = "SUCCEEDED"
    BY <2>1, <2>2 DEF Paid, TypeOK
  <2>3. CASE s # "SUCCEEDED"
    BY <2>1, <2>3 DEF Paid, Observation
  <2> QED BY <2>2, <2>3
<1>3. CASE Looked
  BY <1>3 DEF Looked, Paid
<1>4. CASE Dropped
  BY <1>4 DEF Dropped, Paid
<1>5. CASE Refunding
  BY <1>5 DEF Refunding, StartMatching, RefundAsked, RefundRecorded,
              RefundConfirmed, Paid
<1>6. CASE Submitting
  BY <1>6, SubmittingRows
     DEF Opened, Answered, Charged, Paid, TypeOK
<1>7. ASSUME NEW w \in Observers, ObservationApplied(w)
      PROVE  Paid'
  <2>1. PICK a \in Attempts, s \in Observation :
          /\ \/ reference[a] \/ attempt[a] = "SUCCEEDED"
             \/ s \in {"CANCELLED", "UNKNOWN"}
          /\ attempt[a] \in AttemptStatus
          /\ s = "SUCCEEDED" => provider[a] \in Captured
          /\ s = "FAILED" => provider[a] \in Declined
          /\ attempt' = [attempt EXCEPT ![a] = s]
          /\ attempt[a] = "SUCCEEDED" => s = "SUCCEEDED"
          /\ payment' = s
          /\ order' = Released(s)
          /\ obs' = [Superseded(a) EXCEPT ![w] = NoObs]
          /\ UNCHANGED <<reference, provider>>
    BY <1>7, AppliedRows
  <2>2. CASE s = "SUCCEEDED"
    BY <2>1, <2>2 DEF Paid, TypeOK
  <2>3. CASE s # "SUCCEEDED"
    <3>1. \A b \in Attempts : attempt[b] = "SUCCEEDED" => attempt'[b] = "SUCCEEDED"
      BY <2>1 DEF TypeOK
    <3>2. order' = order /\ payment' \notin {"SUCCEEDED", "REFUND_PENDING"}
      BY <2>1, <2>3 DEF Released, Observation
    <3> QED BY <3>1, <3>2 DEF Paid
  <2> QED BY <2>2, <2>3
<1> QED BY <1>1, <1>2, <1>3, <1>4, <1>5, <1>6, <1>7, StepKinds

LEMMA OneUnresolvedStep ==
  TypeOK /\ Lineage /\ Evidence /\ OneUnresolved /\ [Next]_vars => OneUnresolved'
<1> SUFFICES ASSUME TypeOK, Lineage, Evidence, OneUnresolved, [Next]_vars
             PROVE  OneUnresolved'
  OBVIOUS
<1>1. CASE Quiet
  BY <1>1 DEF Quiet, OneUnresolved
<1>2. CASE Settled
  BY <1>2, SettledRows DEF OneUnresolved, IndexAccepts, TypeOK
<1>3. CASE Looked
  BY <1>3 DEF Looked, OneUnresolved
<1>4. CASE Dropped
  BY <1>4 DEF Dropped, OneUnresolved
<1>5. CASE Refunding
  BY <1>5 DEF Refunding, StartMatching, RefundAsked, RefundRecorded,
              RefundConfirmed, OneUnresolved
<1>6. CASE Submitting
  <2>1. ASSUME NEW a \in Attempts, Opened(a)
        PROVE  OneUnresolved'
    BY <2>1 DEF Opened, Payable, OneUnresolved, TypeOK
  <2>2. ASSUME NEW a \in Attempts, Answered(a)
        PROVE  OneUnresolved'
    <3>1. \A b \in Attempts : attempt'[b] \in Unresolved => attempt[b] \in Unresolved
      BY <2>2 DEF Answered, TypeOK, Unresolved
    <3> QED BY <3>1 DEF OneUnresolved
  <2>3. ASSUME UNCHANGED attempt
        PROVE  OneUnresolved'
    BY <2>3 DEF OneUnresolved
  <2> QED BY <1>6, <2>1, <2>2, <2>3, SubmittingRows DEF Charged
<1>7. ASSUME NEW w \in Observers, ObservationApplied(w)
      PROVE  OneUnresolved'
  BY <1>7, AppliedRows DEF OneUnresolved, IndexAccepts, TypeOK
<1> QED BY <1>1, <1>2, <1>3, <1>4, <1>5, <1>6, <1>7, StepKinds

LEMMA TakenUpStep ==
  /\ TypeOK /\ Lineage /\ Evidence /\ TakenUpIsReferenced
  /\ [Next]_vars
  => TakenUpIsReferenced'
<1> SUFFICES ASSUME TypeOK, Lineage, Evidence, TakenUpIsReferenced, [Next]_vars
             PROVE  TakenUpIsReferenced'
  OBVIOUS
<1>1. CASE Quiet
  BY <1>1 DEF Quiet, TakenUpIsReferenced
<1>2. CASE Settled
  BY <1>2, SettledRows DEF TakenUpIsReferenced, TypeOK
<1>3. CASE Looked
  BY <1>3 DEF Looked, TakenUpIsReferenced
<1>4. CASE Dropped
  BY <1>4 DEF Dropped, TakenUpIsReferenced
<1>5. CASE Refunding
  BY <1>5 DEF Refunding, StartMatching, RefundAsked, RefundRecorded,
              RefundConfirmed, TakenUpIsReferenced
<1>6. CASE Submitting
  BY <1>6, SubmittingRows
     DEF Opened, Answered, Charged, TakenUpIsReferenced, TypeOK
<1>7. ASSUME NEW w \in Observers, ObservationApplied(w)
      PROVE  TakenUpIsReferenced'
  BY <1>7, AppliedRows DEF TakenUpIsReferenced, TypeOK
<1> QED BY <1>1, <1>2, <1>3, <1>4, <1>5, <1>6, <1>7, StepKinds

-----------------------------------------------------------------------------
(* The theorems.                                                             *)

LEMMA InitInv == Init => IInv
BY InitType DEF Init, IInv, Lineage, Evidence, Paid, OneUnresolved,
   TakenUpIsReferenced, Unresolved, NoObs

LEMMA StepInv == IInv /\ [Next]_vars => IInv'
BY NextType, LineageStep, EvidenceStep, PaidStep, OneUnresolvedStep, TakenUpStep
   DEF IInv

\* Every reachable state satisfies the inductive invariant.
THEOREM Invariance == Spec => []IInv
BY InitInv, StepInv, PTL DEF Spec

\* Every row of the payment keeps its type, whatever request, job or webhook
\* writes it.
THEOREM TypeCorrect == Spec => []TypeOK
BY Invariance, PTL DEF IInv

\* No attempt gets past CREATED on the provider's word without a reference.
THEOREM Referenced == Spec => []TakenUpIsReferenced
BY Invariance, PTL DEF IInv

\* An open charge is never forgotten.
THEOREM ChargesTracked == Spec => []OpenChargeIsTracked
<1>1. IInv => OpenChargeIsTracked
  <2> SUFFICES ASSUME IInv, NEW a \in Attempts, provider[a] = "PENDING"
               PROVE  attempt[a] \in Unresolved \cup {"CANCELLED"}
    BY DEF OpenChargeIsTracked
  <2>1. attempt[a] # "NONE"
    BY DEF IInv, Lineage
  <2>2. attempt[a] \notin {"SUCCEEDED", "FAILED"}
    BY DEF IInv, Evidence, Captured, Declined
  <2> QED BY <2>1, <2>2 DEF IInv, TypeOK, AttemptStatus, Unresolved, Terminal
<1> QED BY <1>1, Invariance, PTL

\* Two charges are open at once only if the attempt of one was cancelled.
THEOREM RetryWaits == Spec => []OneOpenCharge
<1>1. OpenChargeIsTracked /\ OneUnresolved => OneOpenCharge
  BY DEF OpenChargeIsTracked, OneUnresolved, OneOpenCharge
<1>2. IInv => OneUnresolved
  BY DEF IInv
<1> QED BY <1>1, <1>2, Invariance, ChargesTracked, PTL

-----------------------------------------------------------------------------
(* The payment implements the charge book.                                   *)

\* An observation that is recorded books its attempt, or books nothing.
LEMMA RecordedBooks ==
  ASSUME IInv, NEW a \in Attempts, NEW s,
         s = "SUCCEEDED" => provider[a] \in Captured \/ attempt[a] = "SUCCEEDED",
         attempt' = [attempt EXCEPT ![a] = s],
         attempt[a] = "SUCCEEDED" => s = "SUCCEEDED",
         order' # "AWAITING_PAYMENT" =>
           s = "SUCCEEDED" \/ order # "AWAITING_PAYMENT",
         order # "AWAITING_PAYMENT" /\ order' = "AWAITING_PAYMENT" =>
           s # "SUCCEEDED" \/ attempt[a] = "SUCCEEDED",
         UNCHANGED provider
  PROVE  [Book!Next]_<<capturedCharges, bookedCharges, order # "AWAITING_PAYMENT">>
<1>1. capturedCharges' = capturedCharges
  BY DEF capturedCharges
<1>2. CASE s = "SUCCEEDED"
  <2>1. bookedCharges' = bookedCharges \cup {a}
    BY <1>2 DEF bookedCharges, IInv, TypeOK
  <2>2. a \in capturedCharges
    BY <1>2 DEF IInv, Evidence, capturedCharges
  <2>3. CASE order' # "AWAITING_PAYMENT"
    BY <1>1, <2>1, <2>2, <2>3 DEF Book!Next, Book!Book
  <2>4. CASE order' = "AWAITING_PAYMENT" /\ order = "AWAITING_PAYMENT"
    BY <1>1, <2>1, <2>2, <2>4 DEF Book!Next, Book!Book
  <2>5. CASE order' = "AWAITING_PAYMENT" /\ order # "AWAITING_PAYMENT"
    <3>1. bookedCharges' = bookedCharges
      BY <1>2, <2>1, <2>5 DEF bookedCharges
    <3> QED BY <1>1, <2>5, <3>1 DEF Book!Next, Book!Suspend
  <2> QED BY <2>3, <2>4, <2>5
<1>3. CASE s # "SUCCEEDED"
  <2>1. bookedCharges' = bookedCharges
    BY <1>3 DEF bookedCharges, IInv, TypeOK
  <2>2. CASE order' = "AWAITING_PAYMENT"
    BY <1>1, <2>1, <2>2 DEF Book!Next, Book!Suspend
  <2>3. CASE order' # "AWAITING_PAYMENT"
    BY <1>1, <1>3, <2>1, <2>3
  <2> QED BY <2>2, <2>3
<1> QED BY <1>2, <1>3

LEMMA BookStep ==
  IInv /\ [Next]_vars =>
    [Book!Next]_<<capturedCharges, bookedCharges, order # "AWAITING_PAYMENT">>
<1> DEFINE Step ==
      [Book!Next]_<<capturedCharges, bookedCharges, order # "AWAITING_PAYMENT">>
<1> SUFFICES ASSUME IInv, [Next]_vars
             PROVE  Step
  OBVIOUS
<1>1. CASE Quiet
  BY <1>1 DEF Quiet, capturedCharges, bookedCharges
<1>2. CASE Settled
  <2>1. PICK a \in Attempts, s \in Observation :
          /\ s = "SUCCEEDED" => provider[a] \in Captured \/ attempt[a] = "SUCCEEDED"
          /\ attempt' = [attempt EXCEPT ![a] = s]
          /\ attempt[a] = "SUCCEEDED" => s = "SUCCEEDED"
          /\ order' = "AWAITING_PAYMENT" \/ (order' = "PAID" /\ s = "SUCCEEDED")
          /\ s = "SUCCEEDED" => order' = "PAID" \/ attempt[a] = "SUCCEEDED"
          /\ UNCHANGED provider
    BY <1>2, SettledRows DEF IInv
  <2> QED BY <2>1, RecordedBooks
<1>3. CASE Looked
  <2>1. capturedCharges' = capturedCharges
    BY <1>3 DEF Looked, capturedCharges, Captured, IInv, TypeOK
  <2>2. UNCHANGED <<order, bookedCharges>>
    BY <1>3 DEF Looked, bookedCharges
  <2> QED BY <2>1, <2>2
<1>4. CASE Dropped
  BY <1>4 DEF Dropped, capturedCharges, bookedCharges
<1>5. CASE Refunding
  <2>1. UNCHANGED <<capturedCharges, bookedCharges>>
    BY <1>5 DEF Refunding, StartMatching, RefundAsked, RefundRecorded,
                RefundConfirmed, capturedCharges, bookedCharges
  <2>2. UNCHANGED order \/ (order' # "AWAITING_PAYMENT" /\ bookedCharges # {})
    BY <1>5 DEF Refunding, StartMatching, RefundAsked, RefundRecorded,
                RefundConfirmed, IInv, Paid, bookedCharges
  <2> QED BY <2>1, <2>2 DEF Book!Next, Book!Produce
<1>6. CASE Submitting
  <2>1. UNCHANGED order
    BY <1>6, SubmittingRows DEF IInv
  <2>2. ASSUME NEW a \in Attempts, Opened(a) \/ Answered(a)
        PROVE  UNCHANGED <<capturedCharges, bookedCharges>>
    BY <2>2 DEF Opened, Answered, capturedCharges, bookedCharges, IInv, TypeOK
  <2>3. ASSUME NEW a \in Attempts, Charged(a)
        PROVE  /\ UNCHANGED bookedCharges
               /\ \/ UNCHANGED capturedCharges
                  \/ capturedCharges' = capturedCharges \cup {a}
    BY <2>3 DEF Charged, capturedCharges, bookedCharges, Captured, IInv, TypeOK
  <2>4. ASSUME UNCHANGED <<attempt, provider>>
        PROVE  UNCHANGED <<capturedCharges, bookedCharges>>
    BY <2>4 DEF capturedCharges, bookedCharges
  <2> QED BY <1>6, <2>1, <2>2, <2>3, <2>4, SubmittingRows
          DEF IInv, Book!Next, Book!Capture
<1>7. ASSUME NEW w \in Observers, ObservationApplied(w)
      PROVE  Step
  <2>1. PICK a \in Attempts, s \in Observation :
          /\ s = "SUCCEEDED" => provider[a] \in Captured
          /\ attempt' = [attempt EXCEPT ![a] = s]
          /\ attempt[a] = "SUCCEEDED" => s = "SUCCEEDED"
          /\ order' = Released(s)
          /\ UNCHANGED provider
    BY <1>7, AppliedRows DEF IInv
  <2>2. /\ order' # "AWAITING_PAYMENT" =>
             s = "SUCCEEDED" \/ order # "AWAITING_PAYMENT"
        /\ order # "AWAITING_PAYMENT" => order' # "AWAITING_PAYMENT"
    BY <2>1 DEF Released
  <2> QED BY <2>1, <2>2, RecordedBooks
<1> HIDE DEF Step
<1> QED BY <1>1, <1>2, <1>3, <1>4, <1>5, <1>6, <1>7, StepKinds DEF IInv

\* Every behaviour of the payment is one of the charge book: success is booked
\* only for captured money and never withdrawn, and the order is released only
\* while some attempt is booked.
THEOREM BookKept == Spec => KeepsChargeBook
<1>1. Init => Book!Init
  BY DEF Init, Book!Init, capturedCharges, bookedCharges, Captured
<1>2. Spec => []IInv
  BY Invariance
<1> QED BY <1>1, <1>2, BookStep, PTL DEF Spec, KeepsChargeBook, Book!Spec

-----------------------------------------------------------------------------
(* While the order has one attempt: the inductive invariant.                 *)

\* A call that was answered is about an attempt that exists. While that is the
\* only one, its version and that of the payment are stale together, and fresh
\* only as long as the attempt is CREATED.
CallTells(a, c) ==
  call[<<a, c>>].pc = "ANSWERED" =>
    /\ attempt[a] # "NONE"
    /\ Sole(a) => /\ call[<<a, c>>].attemptFresh = call[<<a, c>>].paymentFresh
                  /\ call[<<a, c>>].attemptFresh => attempt[a] = "CREATED"

OnRecord(t) == refund[t] \in {"REQUESTED", "CONFIRMED"}

\* Money is on its way back only with a refund on record.
RefundTells ==
  \/ payment \in {"REFUND_PENDING", "REFUNDED"}
  \/ order \in {"REFUND_PENDING", "REFUNDED"}
  => \E t \in Triggers : OnRecord(t)

\* EffectsOnce, with the refunds that are on record.
OnceTells ==
  /\ (\E a \in Attempts : Sole(a)) /\ (\A t \in Triggers : ~OnRecord(t))
       => paidEvents = IF order = "AWAITING_PAYMENT" THEN 0 ELSE 1
  /\ \A t, u \in Triggers : OnRecord(t) /\ OnRecord(u) => t = u

SoleInv ==
  /\ SoleAgree
  /\ \A a \in Attempts, c \in Callers : CallTells(a, c)
  /\ RefundTells /\ OnceTells
  /\ (\A a \in Attempts : attempt[a] = "NONE") => paidEvents = 0

-----------------------------------------------------------------------------
(* Its parts, step by step.                                                  *)

LEMMA OutdatedRow ==
  ASSUME NEW calls \in [Calls -> CallState], NEW S, NEW p \in BOOLEAN,
         NEW a \in Attempts, NEW c \in Callers
  PROVE  /\ Outdated(calls, S, p)[<<a, c>>].pc = calls[<<a, c>>].pc
         /\ Outdated(calls, S, p)[<<a, c>>].attemptFresh =
              (calls[<<a, c>>].attemptFresh /\ a \notin S)
         /\ Outdated(calls, S, p)[<<a, c>>].paymentFresh =
              (calls[<<a, c>>].paymentFresh /\ ~p)
<1> DEFINE k == <<a, c>>
<1>1. k \in Calls /\ calls[k] \in CallState /\ k[1] = a
  BY DEF Calls
<1> HIDE DEF k
<1>2. Outdated(calls, S, p)[k] =
        [calls[k] EXCEPT !.attemptFresh = calls[k].attemptFresh /\ k[1] \notin S,
                         !.paymentFresh = calls[k].paymentFresh /\ ~p]
  BY <1>1 DEF Outdated
<1> DEFINE f == calls[k].attemptFresh /\ k[1] \notin S
           g == calls[k].paymentFresh /\ ~p
           row == [calls[k] EXCEPT !.attemptFresh = f, !.paymentFresh = g]
<1> HIDE DEF f, g
<1>3. row.pc = calls[k].pc /\ row.attemptFresh = f /\ row.paymentFresh = g
  BY <1>1 DEF CallState
<1>4. Outdated(calls, S, p)[k] = row
  BY <1>2 DEF f, g
<1> HIDE DEF row
<1> QED BY <1>1, <1>3, <1>4 DEF f, g, k

\* An attempt is there for good once it is there.
LEMMA SoleStays ==
  ASSUME NEW a \in Attempts, Sole(a)',
         \A b \in Attempts : attempt'[b] = "NONE" <=> attempt[b] = "NONE"
  PROVE  Sole(a)
BY DEF Sole

LEMMA SoleIsOne ==
  ASSUME NEW a \in Attempts, NEW b \in Attempts, Sole(a), attempt[b] # "NONE"
  PROVE  a = b
BY DEF Sole

\* A step that leaves the rows alone, and every answered call as it was.
LEMMA CalmKeeps ==
  ASSUME SoleInv, UNCHANGED <<order, payment, attempt, paidEvents>>,
         \A t \in Triggers : OnRecord(t)' <=> OnRecord(t),
         \A a \in Attempts, c \in Callers :
           call'[<<a, c>>].pc = "ANSWERED" => call'[<<a, c>>] = call[<<a, c>>]
  PROVE  SoleInv'
<1>1. \A a \in Attempts : Sole(a)' <=> Sole(a)
  BY DEF Sole
<1>2. SoleAgree' /\ (\A a \in Attempts, c \in Callers : CallTells(a, c)')
  BY <1>1 DEF SoleInv, SoleAgree, CallTells
<1>3. RefundTells' /\ OnceTells'
  BY <1>1 DEF SoleInv, RefundTells, OnceTells
<1> QED BY <1>2, <1>3 DEF SoleInv

\* The first attempt starts with a payment that is PENDING.
LEMMA StartPaymentSole ==
  ASSUME IInv, SoleInv, NEW b \in Attempts, StartPayment(b)
  PROVE  SoleInv'
<1>1. /\ attempt \in [Attempts -> AttemptStatus \cup {"NONE"}]
      /\ call \in [Calls -> CallState]
  BY DEF IInv, TypeOK
<1>2. /\ attempt' = [attempt EXCEPT ![b] = "CREATED"] /\ payment' = "PENDING"
      /\ UNCHANGED <<order, refund, paidEvents>> /\ order = "AWAITING_PAYMENT"
      /\ call' = [Outdated(call, {}, TRUE) EXCEPT ![<<b, "api">>] = CallAt("TODO")]
      /\ attempt[b] = "NONE"
  BY DEF StartPayment, Payable
<1>3. /\ attempt'[b] = "CREATED"
      /\ \A a \in Attempts \ {b} : attempt'[a] = attempt[a]
  BY <1>1, <1>2
<1>4. ASSUME NEW a \in Attempts, Sole(a)'
      PROVE  a = b /\ \A e \in Attempts : attempt[e] = "NONE"
  BY <1>2, <1>3, <1>4 DEF Sole
<1>5. SoleAgree'
  BY <1>2, <1>3, <1>4 DEF SoleAgree
<1>6. ASSUME NEW a \in Attempts, NEW c \in Callers PROVE CallTells(a, c)'
  <2>1. CASE call'[<<a, c>>].pc = "ANSWERED"
    <3>1. <<a, c>> # <<b, "api">> /\ <<a, c>> \in Calls
      BY <1>1, <1>2, <2>1, OutdatedType DEF Calls, CallAt
    <3>2. Outdated(call, {}, TRUE) \in [Calls -> CallState]
      BY <1>1, OutdatedType
    <3>3. call'[<<a, c>>] = Outdated(call, {}, TRUE)[<<a, c>>]
      BY <1>2, <3>1, <3>2
    <3>4. call[<<a, c>>].pc = "ANSWERED"
      <4>1. Outdated(call, {}, TRUE)[<<a, c>>].pc = call[<<a, c>>].pc
        BY <1>1, OutdatedRow
      <4> QED BY <2>1, <3>3, <4>1
    <3>5. attempt[a] # "NONE" /\ a # b
      BY <1>2, <3>4 DEF SoleInv, CallTells
    <3> QED BY <1>3, <1>4, <3>5 DEF CallTells
  <2> QED BY <2>1 DEF CallTells
<1>7. RefundTells' /\ OnceTells'
  BY <1>2, <1>3, <1>4 DEF SoleInv, RefundTells, OnceTells, OnRecord
<1> QED BY <1>3, <1>5, <1>6, <1>7 DEF SoleInv, AttemptStatus

\* The provider answers a call for an attempt that is CREATED.
LEMMA DispatchCallSole ==
  ASSUME IInv, SoleInv, NEW b \in Attempts, NEW d \in Callers,
         NEW result \in DispatchResult, DispatchCall(b, d, result)
  PROVE  SoleInv'
<1> DEFINE row == [pc |-> "ANSWERED", result |-> result,
                   attemptFresh |-> TRUE, paymentFresh |-> TRUE]
<1>1. /\ attempt[b] = "CREATED"
      /\ call' = [call EXCEPT ![<<b, d>>] = row]
      /\ UNCHANGED <<order, payment, attempt, refund, paidEvents>>
  BY DEF DispatchCall, db
<1>2. row.attemptFresh = row.paymentFresh
  OBVIOUS
<1> HIDE DEF row
<1>3. \A a \in Attempts : Sole(a)' <=> Sole(a)
  BY <1>1 DEF Sole
<1>4. ASSUME NEW a \in Attempts, NEW c \in Callers PROVE CallTells(a, c)'
  <2>1. <<a, c>> \in Calls /\ <<b, d>> \in Calls /\ call \in [Calls -> CallState]
    BY DEF Calls, IInv, TypeOK
  <2>2. CASE a = b /\ c = d
    BY <1>1, <1>2, <2>1, <2>2 DEF CallTells
  <2>3. CASE ~(a = b /\ c = d)
    <3>1. call'[<<a, c>>] = call[<<a, c>>]
      BY <1>1, <2>1, <2>3
    <3> QED BY <1>1, <1>3, <3>1 DEF SoleInv, CallTells
  <2> QED BY <2>2, <2>3
<1>5. SoleAgree' /\ RefundTells' /\ OnceTells'
  BY <1>1, <1>3 DEF SoleInv, SoleAgree, RefundTells, OnceTells, OnRecord
<1> QED BY <1>1, <1>4, <1>5 DEF SoleInv

\* The rows after an answer: as long as the attempt is the only one, a call that is
\* fresh finds both rows as it read them, and outdates every other call.
LEMMA AnsweredSole ==
  ASSUME IInv, SoleInv, NEW b \in Attempts, NEW d \in Callers,
         call[<<b, d>>].pc = "ANSWERED",
         NEW s \in {"CREATED", "PROCESSING", "UNKNOWN"}, NEW mine \in BOOLEAN,
         mine = (call[<<b, d>>].attemptFresh /\ attempt[b] = "CREATED"),
         attempt' = [attempt EXCEPT ![b] = IF mine THEN s ELSE @],
         payment' = IF call[<<b, d>>].paymentFresh /\ s # "CREATED" THEN s
                    ELSE payment,
         call' = [Outdated(call, IF mine THEN {b} ELSE {}, call[<<b, d>>].paymentFresh)
                    EXCEPT ![<<b, d>>] = CallAt("IDLE")],
         UNCHANGED <<order, refund, paidEvents>>
  PROVE  SoleInv'
<1> DEFINE k == <<b, d>>
           p == call[k].paymentFresh
           S == IF mine THEN {b} ELSE {}
<1>1. /\ attempt \in [Attempts -> AttemptStatus \cup {"NONE"}]
      /\ call \in [Calls -> CallState] /\ k \in Calls
      /\ p \in BOOLEAN /\ call[k].attemptFresh \in BOOLEAN
  BY DEF IInv, TypeOK, Calls, CallState
<1>2. Outdated(call, S, p) \in [Calls -> CallState]
  BY <1>1, OutdatedType
<1>3. /\ attempt[b] # "NONE" /\ attempt'[b] # "NONE"
      /\ \A a \in Attempts \ {b} : attempt'[a] = attempt[a]
  BY <1>1 DEF SoleInv, CallTells
<1>4. \A a \in Attempts : Sole(a)' => Sole(a) /\ a = b
  BY <1>3 DEF Sole
<1>5. Sole(b) => p = mine
  BY <1>1 DEF SoleInv, CallTells
<1>6. SoleAgree'
  <2>1. ASSUME Sole(b)
        PROVE  /\ attempt'[b] = "CREATED" => payment' = "PENDING"
               /\ attempt'[b] \notin {"CREATED", "SUCCEEDED"} => payment' = attempt'[b]
               /\ attempt'[b] = "SUCCEEDED" =>
                    payment' \in {"SUCCEEDED", "REFUND_PENDING", "REFUNDED"}
               /\ (order' = "AWAITING_PAYMENT") <=> (attempt'[b] # "SUCCEEDED")
    <3>1. CASE mine
      <4>1. /\ attempt'[b] = s /\ attempt[b] = "CREATED"
            /\ payment' = IF s # "CREATED" THEN s ELSE payment
        BY <1>1, <1>5, <2>1, <3>1
      <4> QED BY <2>1, <4>1 DEF SoleInv, SoleAgree
    <3>2. CASE ~mine
      <4>1. attempt'[b] = attempt[b] /\ payment' = payment
        BY <1>1, <1>5, <2>1, <3>2
      <4> QED BY <2>1, <4>1 DEF SoleInv, SoleAgree
    <3> QED BY <3>1, <3>2
  <2> QED BY <1>4, <2>1 DEF SoleAgree
<1>7. ASSUME NEW a \in Attempts, NEW c \in Callers PROVE CallTells(a, c)'
  <2>1. CASE call'[<<a, c>>].pc = "ANSWERED"
    <3>1. <<a, c>> # k /\ <<a, c>> \in Calls
      BY <1>1, <1>2, <2>1 DEF Calls, CallAt
    <3> DEFINE old == call[<<a, c>>]
               new == Outdated(call, S, p)[<<a, c>>]
    <3>2. call'[<<a, c>>] = new
      BY <1>2, <3>1
    <3>3. /\ new.pc = old.pc
          /\ new.attemptFresh = (old.attemptFresh /\ a \notin S)
          /\ new.paymentFresh = (old.paymentFresh /\ ~p)
      BY <1>1, OutdatedRow
    <3>4. /\ attempt[a] # "NONE"
          /\ Sole(a) => /\ old.attemptFresh = old.paymentFresh
                        /\ old.attemptFresh => attempt[a] = "CREATED"
      BY <2>1, <3>2, <3>3 DEF SoleInv, CallTells
    <3> HIDE DEF old, new
    <3>5. attempt'[a] # "NONE"
      BY <1>3, <3>4
    <3>6. ASSUME Sole(a)'
          PROVE  new.attemptFresh = new.paymentFresh /\ (new.attemptFresh => attempt'[a] = "CREATED")
      <4>1. a = b /\ p = mine /\ Sole(a)
        BY <1>4, <1>5, <3>6
      <4>2. CASE mine
        BY <3>3, <4>1, <4>2
      <4>3. CASE ~mine
        <5>1. attempt' = attempt
          BY <1>1, <4>3
        <5> QED BY <3>3, <3>4, <4>1, <4>3, <5>1
      <4> QED BY <4>2, <4>3
    <3> QED BY <3>2, <3>5, <3>6 DEF CallTells
  <2> QED BY <2>1 DEF CallTells
<1>8. RefundTells' /\ OnceTells'
  BY <1>1, <1>4 DEF SoleInv, RefundTells, OnceTells, OnRecord
<1> QED BY <1>3, <1>6, <1>7, <1>8 DEF SoleInv

LEMMA DispatchAcceptedSole ==
  ASSUME IInv, SoleInv, NEW b \in Attempts, NEW d \in Callers, DispatchAccepted(b, d)
  PROVE  SoleInv'
<1> DEFINE k == <<b, d>>
           s == IF call[k].result = "UNKNOWN" THEN "UNKNOWN" ELSE "PROCESSING"
           p == call[k].paymentFresh
<1>1. /\ call[k].pc = "ANSWERED" /\ call[k].attemptFresh /\ attempt[b] = "CREATED"
      /\ attempt' = [attempt EXCEPT ![b] = s]
      /\ payment' = IF p THEN s ELSE payment
      /\ call' = [Outdated(call, {b}, p) EXCEPT ![k] = CallAt("IDLE")]
      /\ UNCHANGED <<order, refund, paidEvents>>
  BY DEF DispatchAccepted
<1>2. s \in {"CREATED", "PROCESSING", "UNKNOWN"} /\ s # "CREATED"
  OBVIOUS
<1>3. call[k].attemptFresh = TRUE /\ k \in Calls
  BY <1>1 DEF IInv, TypeOK, CallState, Calls
<1> HIDE DEF s
<1> QED BY <1>1, <1>2, <1>3, AnsweredSole

LEMMA DispatchFailedSole ==
  ASSUME IInv, SoleInv, NEW b \in Attempts, NEW d \in Callers, DispatchFailed(b, d)
  PROVE  SoleInv'
<1> DEFINE k == <<b, d>>
           lost == call[k].result = "ERROR"
           s == IF lost THEN "UNKNOWN" ELSE "CREATED"
           p == call[k].paymentFresh
           mine == call[k].attemptFresh /\ attempt[b] = "CREATED"
<1>1. /\ call[k].pc = "ANSWERED"
      /\ attempt' = [attempt EXCEPT ![b] = IF mine /\ lost THEN "UNKNOWN" ELSE @]
      /\ payment' = IF p /\ lost THEN "UNKNOWN" ELSE payment
      /\ call' = [Outdated(call, IF mine THEN {b} ELSE {}, p) EXCEPT ![k] = CallAt("IDLE")]
      /\ UNCHANGED <<order, refund, paidEvents>>
  BY DEF DispatchFailed
<1>2. s \in {"CREATED", "PROCESSING", "UNKNOWN"}
  OBVIOUS
<1>3. attempt' = [attempt EXCEPT ![b] = IF mine THEN s ELSE @]
  BY <1>1
<1>4. payment' = IF p /\ s # "CREATED" THEN s ELSE payment
  BY <1>1
<1>5. mine \in BOOLEAN
  OBVIOUS
<1> HIDE DEF s, lost
<1> QED BY <1>1, <1>2, <1>3, <1>4, <1>5, AnsweredSole

\* The tail of a webhook or of an observation writes both rows and outdates every
\* call.
LEMMA RecordSole ==
  ASSUME IInv, SoleInv, NEW b \in Attempts, attempt[b] # "NONE",
         NEW s \in Observation, NEW e, NEW job, Record(b, s, e, job),
         UNCHANGED refund,
         order' \in {"REFUND_PENDING", "REFUNDED"} => order' = order,
         Sole(b) =>
           /\ (order' = "AWAITING_PAYMENT") <=> (s # "SUCCEEDED")
           /\ (\A t \in Triggers : ~OnRecord(t))
                => paidEvents' = IF order' = "AWAITING_PAYMENT" THEN 0 ELSE 1
  PROVE  SoleInv'
<1>1. /\ attempt' = [attempt EXCEPT ![b] = s] /\ payment' = s
      /\ call' = Outdated(call, {b}, TRUE)
      /\ attempt \in [Attempts -> AttemptStatus \cup {"NONE"}]
      /\ call \in [Calls -> CallState]
  BY DEF Record, IInv, TypeOK
<1>2. /\ attempt'[b] = s /\ s # "NONE" /\ s # "CREATED"
      /\ s \notin {"REFUND_PENDING", "REFUNDED"}
      /\ \A a \in Attempts \ {b} : attempt'[a] = attempt[a]
  BY <1>1 DEF Observation
<1>3. \A a \in Attempts : Sole(a)' => Sole(a) /\ a = b
  BY <1>2 DEF Sole
<1>4. SoleAgree'
  BY <1>1, <1>2, <1>3 DEF SoleAgree
<1>5. ASSUME NEW a \in Attempts, NEW c \in Callers PROVE CallTells(a, c)'
  <2> DEFINE old == call[<<a, c>>]
             new == Outdated(call, {b}, TRUE)[<<a, c>>]
  <2>1. /\ new.pc = old.pc
        /\ new.attemptFresh = (old.attemptFresh /\ a \notin {b})
        /\ new.paymentFresh = (old.paymentFresh /\ ~TRUE)
    BY <1>1, OutdatedRow
  <2>2. new.pc = "ANSWERED" => attempt'[a] # "NONE"
    BY <1>2, <2>1 DEF SoleInv, CallTells
  <2>3. call'[<<a, c>>] = new
    BY <1>1
  <2> HIDE DEF old, new
  <2> QED BY <1>3, <2>1, <2>2, <2>3 DEF CallTells
<1>6. RefundTells'
  BY <1>1, <1>2 DEF SoleInv, RefundTells, OnRecord
<1>7. OnceTells'
  BY <1>3 DEF SoleInv, OnceTells, OnRecord
<1> QED BY <1>2, <1>4, <1>5, <1>6, <1>7 DEF SoleInv

\* What the rows of an only attempt say of each other.
LEMMA SoleRows ==
  ASSUME IInv, SoleInv, NEW b \in Attempts, attempt[b] # "NONE"
  PROVE  /\ order \in {"REFUND_PENDING", "REFUNDED"} => \E t \in Triggers : OnRecord(t)
         /\ Sole(b) =>
              /\ attempt[b] = "CREATED" => payment = "PENDING"
              /\ attempt[b] \notin {"CREATED", "SUCCEEDED"} => payment = attempt[b]
              /\ attempt[b] = "SUCCEEDED" =>
                   payment \in {"SUCCEEDED", "REFUND_PENDING", "REFUNDED"}
              /\ (order = "AWAITING_PAYMENT") <=> (attempt[b] # "SUCCEEDED")
              /\ (\A t \in Triggers : ~OnRecord(t)) =>
                   /\ payment \notin {"REFUND_PENDING", "REFUNDED"}
                   /\ paidEvents = IF order = "AWAITING_PAYMENT" THEN 0 ELSE 1
BY DEF SoleInv, SoleAgree, RefundTells, OnceTells

LEMMA PaidOnce == ASSUME paidEvents = 0, CountPaid PROVE paidEvents' = 1
BY DEF CountPaid

\* A webhook finds the rows of the only attempt in one state, and leaves them so.
LEMMA WebhookSole ==
  ASSUME IInv, SoleInv, NEW b \in Attempts,
         \/ WebhookSucceededLate(b) \/ WebhookSucceeded(b)
         \/ WebhookFailed(b) \/ WebhookCancelled(b) \/ WebhookUnknown(b)
  PROVE  SoleInv' /\ (Sole(b) => Rank[order] <= Rank[order'])
<1>1. PICK s \in {"UNKNOWN", "SUCCEEDED", "FAILED", "CANCELLED"}, e \in BOOLEAN,
           o \in {"AWAITING_PAYMENT", "PAID"} :
        /\ Settles(b, PaymentTransition(attempt[b], s), e, o)
        /\ o = "PAID" <=> s = "SUCCEEDED"
        /\ s = "SUCCEEDED" => /\ CountPaid /\ order = "AWAITING_PAYMENT"
                              /\ attempt[b] \notin {"FAILED", "CANCELLED"}
                              /\ payment \in {"PENDING", "PROCESSING", "UNKNOWN"}
        /\ s # "SUCCEEDED" =>
             /\ UNCHANGED paidEvents
             /\ \/ {payment, attempt[b]} \cap {"FAILED", "CANCELLED"} # {}
                \/ order = "AWAITING_PAYMENT"
                \/ attempt[b] \in Unresolved
  BY DEF WebhookSucceededLate, WebhookSucceeded, WebhookFailed, WebhookCancelled,
         WebhookUnknown, Unresolved
<1>2. attempt[b] \notin {"NONE", "CREATED"} /\ attempt[b] \in AttemptStatus
  BY DEF WebhookSucceededLate, WebhookSucceeded, WebhookFailed, WebhookCancelled,
         WebhookUnknown, Webhook, IInv, Lineage, TypeOK
<1> DEFINE n == PaymentTransition(attempt[b], s)
<1>3. /\ Record(b, n, e, "NONE") /\ order' = o /\ UNCHANGED refund
  BY <1>1 DEF Settles
<1>4. n \in Observation
  BY <1>2, TransitionType DEF Observation
<1>5. ASSUME Sole(b)
      PROVE  /\ order = "AWAITING_PAYMENT" /\ attempt[b] # "SUCCEEDED"
             /\ (order' = "AWAITING_PAYMENT") <=> (n # "SUCCEEDED")
  <2>1. order = "AWAITING_PAYMENT" /\ attempt[b] # "SUCCEEDED"
    BY <1>1, <1>2, <1>5, SoleRows DEF Unresolved
  <2>2. s = "SUCCEEDED" => attempt[b] \in {"PROCESSING", "UNKNOWN"}
    BY <1>1, <1>2, <2>1 DEF AttemptStatus, Unresolved, Terminal
  <2>3. n = "SUCCEEDED" <=> s = "SUCCEEDED"
    BY <2>1, <2>2 DEF PaymentTransition, Allowed, Observation
  <2> HIDE DEF n
  <2> QED BY <1>1, <1>3, <2>1, <2>3
<1> HIDE DEF n
<1>6. ASSUME Sole(b), \A t \in Triggers : ~OnRecord(t)
      PROVE  paidEvents' = IF order' = "AWAITING_PAYMENT" THEN 0 ELSE 1
  <2>1. paidEvents = 0
    BY <1>2, <1>5, <1>6, SoleRows
  <2> QED BY <1>1, <1>3, <1>5, <2>1, PaidOnce
<1>7. SoleInv'
  BY <1>2, <1>3, <1>4, <1>5, <1>6, RecordSole
<1>8. Sole(b) => Rank[order] <= Rank[order']
  BY <1>3, <1>5 DEF Rank
<1> QED BY <1>7, <1>8

\* An observation of an only attempt that changes something is the first of its
\* success, or comes after a refund.
LEMMA ObservationSole ==
  ASSUME IInv, SoleInv, NEW w \in Observers, ObservationApplied(w)
  PROVE  SoleInv' /\ Rank[order] <= Rank[order']
<1> DEFINE b == obs[w].attempt
           seen == obs[w].seen
           n == PaymentTransition(attempt[b], seen)
<1>1. /\ obs[w] # NoObs /\ ~(attempt[b] = n /\ payment = n)
      /\ Record(b, n, n = "UNKNOWN", obs[w].job)
      /\ order' = Released(n) /\ UNCHANGED refund
      /\ IF n = "SUCCEEDED" THEN CountPaid ELSE UNCHANGED paidEvents
  BY DEF ObservationApplied
<1>2. /\ b \in Attempts /\ attempt[b] # "NONE" /\ attempt[b] \in AttemptStatus
      /\ seen \in Observation
  BY <1>1 DEF IInv, Lineage, TypeOK
<1>3. n \in Observation /\ (attempt[b] = "SUCCEEDED" => n = "SUCCEEDED")
  BY <1>2, TransitionType DEF PaymentTransition
<1> DEFINE job == obs[w].job
<1> HIDE DEF b, n, seen, job
<1>4. order' = IF n = "SUCCEEDED" /\ order = "AWAITING_PAYMENT" THEN "PAID" ELSE order
  BY <1>1 DEF Released
<1>5. ASSUME Sole(b)
      PROVE  (order' = "AWAITING_PAYMENT") <=> (n # "SUCCEEDED")
  BY <1>2, <1>3, <1>4, <1>5, SoleRows
<1>6. ASSUME Sole(b), \A t \in Triggers : ~OnRecord(t)
      PROVE  paidEvents' = IF order' = "AWAITING_PAYMENT" THEN 0 ELSE 1
  <2>1. CASE order = "AWAITING_PAYMENT"
    BY <1>1, <1>2, <1>4, <1>6, <2>1, SoleRows, PaidOnce
  <2>2. CASE order # "AWAITING_PAYMENT"
    <3>1. attempt[b] = "SUCCEEDED" /\ payment = "SUCCEEDED" /\ n = "SUCCEEDED"
      BY <1>2, <1>3, <1>6, <2>2, SoleRows
    <3> QED BY <1>1, <3>1
  <2> QED BY <2>1, <2>2
<1>7. SoleInv'
  <2>1. Record(b, n, n = "UNKNOWN", job)
    BY <1>1 DEF job
  <2>2. order' \in {"REFUND_PENDING", "REFUNDED"} => order' = order
    BY <1>4
  <2> QED BY <1>1, <1>2, <1>3, <1>5, <1>6, <2>1, <2>2, RecordSole
<1>8. Rank[order] <= Rank[order']
  BY <1>4 DEF Rank, IInv, TypeOK, OrderStatus
<1> QED BY <1>7, <1>8

LEMMA StartMatchingSole ==
  ASSUME SoleInv, StartMatching
  PROVE  SoleInv' /\ Rank[order] <= Rank[order']
<1>1. /\ order = "PAID" /\ order' = "MATCHING"
      /\ UNCHANGED <<payment, attempt, call, refund, paidEvents>>
  BY DEF StartMatching
<1>2. \A a \in Attempts : Sole(a)' <=> Sole(a)
  BY <1>1 DEF Sole
<1>3. SoleAgree' /\ (\A a \in Attempts, c \in Callers : CallTells(a, c)')
  BY <1>1, <1>2 DEF SoleInv, SoleAgree, CallTells
<1>4. RefundTells' /\ OnceTells'
  BY <1>1, <1>2 DEF SoleInv, RefundTells, OnceTells, OnRecord
<1> QED BY <1>1, <1>3, <1>4 DEF SoleInv, Rank

\* A refund is recorded, or confirmed, when no call of an only attempt is fresh.
LEMMA RefundSole ==
  ASSUME IInv, SoleInv, NEW t \in Triggers,
         NEW status \in {"REQUESTED", "CONFIRMED"}, refund' = [refund EXCEPT ![t] = status],
         \A u \in Triggers \ {t} : ~OnRecord(u),
         payment \in {"SUCCEEDED", "REFUND_PENDING"},
         payment' \in {"REFUND_PENDING", "REFUNDED"}, order' = payment',
         call' = Outdated(call, {}, TRUE),
         UNCHANGED <<attempt, paidEvents>>
  PROVE  SoleInv'
<1>1. /\ refund \in [Triggers -> {"NONE", "ASKED", "REQUESTED", "CONFIRMED"}]
      /\ call \in [Calls -> CallState]
  BY DEF IInv, TypeOK
<1>2. \A a \in Attempts : Sole(a)' <=> Sole(a)
  BY DEF Sole
<1>3. \A u \in Triggers : OnRecord(u)' <=> u = t
  BY <1>1 DEF OnRecord
<1>4. \A a \in Attempts : Sole(a) => attempt[a] = "SUCCEEDED"
  <2>1. ASSUME NEW a \in Attempts, Sole(a) PROVE attempt[a] = "SUCCEEDED"
    <3>1. attempt[a] \in AttemptStatus
      BY <2>1 DEF Sole, IInv, TypeOK
    <3> QED BY <2>1, <3>1 DEF SoleInv, SoleAgree, AttemptStatus, Unresolved, Terminal
  <2> QED BY <2>1
<1>5. SoleAgree'
  BY <1>2, <1>4 DEF SoleInv, SoleAgree
<1>6. ASSUME NEW a \in Attempts, NEW c \in Callers PROVE CallTells(a, c)'
  <2> DEFINE old == call[<<a, c>>]
             new == Outdated(call, {}, TRUE)[<<a, c>>]
  <2>1. /\ new.pc = old.pc
        /\ new.attemptFresh = (old.attemptFresh /\ a \notin {})
        /\ new.paymentFresh = (old.paymentFresh /\ ~TRUE)
    BY <1>1, OutdatedRow
  <2>2. old.pc = "ANSWERED" =>
          attempt[a] # "NONE" /\ (Sole(a) => (old.attemptFresh => attempt[a] = "CREATED"))
    BY DEF SoleInv, CallTells
  <2>3. old.attemptFresh \in BOOLEAN
    BY <1>1 DEF Calls, CallState
  <2>4. call'[<<a, c>>] = new
    OBVIOUS
  <2> HIDE DEF old, new
  <2>5. new.pc = "ANSWERED" /\ Sole(a) => ~new.attemptFresh /\ ~new.paymentFresh
    BY <1>4, <2>1, <2>2
  <2> QED BY <1>2, <2>1, <2>2, <2>3, <2>4, <2>5 DEF CallTells
<1>7. RefundTells' /\ OnceTells'
  BY <1>3 DEF RefundTells, OnceTells
<1> QED BY <1>5, <1>6, <1>7 DEF SoleInv

LEMMA RefundingSole ==
  ASSUME IInv, SoleInv, Refunding
  PROVE  SoleInv' /\ Rank[order] <= Rank[order']
<1>1. CASE StartMatching
  BY <1>1, StartMatchingSole
<1>2. ASSUME NEW t \in Triggers, RefundAsked(t)
      PROVE  SoleInv' /\ order' = order
  <2>1. /\ refund[t] = "NONE" /\ refund' = [refund EXCEPT ![t] = "ASKED"]
        /\ UNCHANGED <<order, payment, attempt, paidEvents, call>>
    BY <1>2 DEF RefundAsked
  <2>2. \A u \in Triggers : OnRecord(u)' <=> OnRecord(u)
    BY <2>1 DEF OnRecord, IInv, TypeOK
  <2> QED BY <2>1, <2>2, CalmKeeps
<1>3. ASSUME NEW t \in Triggers, RefundRecorded(t)
      PROVE  SoleInv' /\ Rank[order] <= Rank[order']
  <2>1. /\ refund' = [refund EXCEPT ![t] = "REQUESTED"]
        /\ payment = "SUCCEEDED" /\ payment' = "REFUND_PENDING"
        /\ order' = "REFUND_PENDING"
        /\ call' = Outdated(call, {}, TRUE) /\ UNCHANGED <<attempt, paidEvents>>
        /\ \A u \in Triggers : ~OnRecord(u)
    BY <1>3 DEF RefundRecorded, OnRecord
  <2>2. SoleInv'
    BY <2>1, RefundSole
  <2>3. order \in {"AWAITING_PAYMENT", "PAID", "MATCHING"}
    BY <2>1 DEF SoleInv, RefundTells, IInv, TypeOK, OrderStatus
  <2> QED BY <2>1, <2>2, <2>3 DEF Rank
<1>4. ASSUME NEW t \in Triggers, RefundConfirmed(t)
      PROVE  SoleInv' /\ Rank[order] <= Rank[order']
  <2>1. /\ refund' = [refund EXCEPT ![t] = "CONFIRMED"] /\ OnRecord(t)
        /\ payment = "REFUND_PENDING" /\ payment' = "REFUNDED"
        /\ order = "REFUND_PENDING" /\ order' = "REFUNDED"
        /\ call' = Outdated(call, {}, TRUE) /\ UNCHANGED <<attempt, paidEvents>>
    BY <1>4 DEF RefundConfirmed, OnRecord
  <2>2. \A u \in Triggers \ {t} : ~OnRecord(u)
    BY <2>1 DEF SoleInv, OnceTells
  <2>3. SoleInv'
    BY <2>1, <2>2, RefundSole
  <2> QED BY <2>1, <2>3 DEF Rank
<1>5. ASSUME order' = order PROVE Rank[order] <= Rank[order']
  BY <1>5 DEF Rank, IInv, TypeOK, OrderStatus
<1> QED BY <1>1, <1>2, <1>3, <1>4, <1>5 DEF Refunding

\* A call that is claimed, or ends without writing, leaves the others as they are.
LEMMA CallRests ==
  ASSUME IInv, SoleInv, NEW k \in Calls, NEW pc \in {"IDLE", "TODO"},
         call' = [call EXCEPT ![k] = CallAt(pc)],
         UNCHANGED <<order, payment, attempt, refund, paidEvents>>
  PROVE  SoleInv'
<1>1. \A t \in Triggers : OnRecord(t)' <=> OnRecord(t)
  BY DEF OnRecord
<1>2. ASSUME NEW a \in Attempts, NEW c \in Callers, call'[<<a, c>>].pc = "ANSWERED"
      PROVE  call'[<<a, c>>] = call[<<a, c>>]
  <2>1. call \in [Calls -> CallState] /\ <<a, c>> \in Calls
    BY DEF IInv, TypeOK, Calls
  <2>2. CallAt(pc).pc # "ANSWERED"
    BY DEF CallAt
  <2> QED BY <1>2, <2>1, <2>2
<1> QED BY <1>1, <1>2, CalmKeeps

LEMMA DispatchingSole ==
  ASSUME IInv, SoleInv, NEW a \in Attempts, Dispatching(a)
  PROVE  SoleInv' /\ order' = order
<1>1. \A c \in Callers : <<a, c>> \in Calls
  BY DEF Calls
<1>2. CASE ClaimDispatch(a)
  BY <1>1, <1>2, CallRests DEF ClaimDispatch, Callers
<1>3. ASSUME NEW c \in Callers,
             DispatchSkip(a, c) \/ DispatchRaced(a, c) \/ DispatchCrash(a, c)
      PROVE  SoleInv' /\ order' = order
  BY <1>1, <1>3, CallRests DEF DispatchSkip, DispatchRaced, DispatchCrash, db
<1>4. ASSUME NEW c \in Callers, NEW result \in DispatchResult, DispatchCall(a, c, result)
      PROVE  SoleInv' /\ order' = order
  <2>1. order' = order
    BY <1>4 DEF DispatchCall, db
  <2> QED BY <1>4, <2>1, DispatchCallSole
<1>5. ASSUME NEW c \in Callers, DispatchAccepted(a, c) \/ DispatchFailed(a, c)
      PROVE  SoleInv' /\ order' = order
  <2>1. order' = order
    BY <1>5 DEF DispatchAccepted, DispatchFailed
  <2> QED BY <1>5, <2>1, DispatchAcceptedSole, DispatchFailedSole
<1> QED BY <1>2, <1>3, <1>4, <1>5 DEF Dispatching

LEMMA QuietSole ==
  ASSUME IInv, SoleInv,
         UNCHANGED <<order, payment, attempt, refund, paidEvents, call>>
  PROVE  SoleInv' /\ order' = order
<1>1. \A t \in Triggers : OnRecord(t)' <=> OnRecord(t)
  BY DEF OnRecord
<1> QED BY <1>1, CalmKeeps

\* No step takes the order of an only attempt back.
Advances == (\E a \in Attempts : Sole(a)) => Rank[order] <= Rank[order']

LEMMA SoleStep ==
  ASSUME IInv, SoleInv, [Next]_vars
  PROVE  SoleInv' /\ Advances
<1>1. ASSUME order' = order PROVE Advances
  BY <1>1 DEF Advances, Rank, IInv, TypeOK, OrderStatus
<1>2. ASSUME NEW a \in Attempts, StartPayment(a) PROVE SoleInv' /\ order' = order
  <2>1. order' = order
    BY <1>2 DEF StartPayment
  <2> QED BY <1>2, <2>1, StartPaymentSole
<1>3. ASSUME NEW a \in Attempts,
             \/ ProviderDecides(a) \/ WebhookStored(a)
             \/ DeadlinePasses(a) \/ Sweep(a)
      PROVE  SoleInv' /\ order' = order
  BY <1>3, QuietSole DEF ProviderDecides, WebhookStored, DeadlinePasses, Sweep, db
<1>4. ASSUME NEW a \in Attempts, NEW w \in Observers, Observing(w, a)
      PROVE  SoleInv' /\ order' = order
  BY <1>4, QuietSole
     DEF Observing, ConfirmObserves, AdminObserves, JobObserves, CancelCreated,
         CancelProcessing, db
<1>5. ASSUME NEW w \in Observers,
             ObservationRepeats(w) \/ ObservationAborted(w) \/ ObservationLost(w)
      PROVE  SoleInv' /\ order' = order
  BY <1>5, QuietSole DEF ObservationRepeats, ObservationAborted, ObservationLost, db
<1>6. CASE UNCHANGED vars
  BY <1>1, <1>6, QuietSole DEF vars
<1>7. ASSUME NEW a \in Attempts, Webhooks(a), ~WebhookStored(a)
      PROVE  SoleInv' /\ Advances
  <2>1. attempt[a] # "NONE"
    BY <1>7 DEF Webhooks, WebhookSucceededLate, WebhookSucceeded, WebhookFailed,
                WebhookCancelled, WebhookUnknown, Webhook, IInv, Lineage
  <2>2. SoleInv' /\ (Sole(a) => Rank[order] <= Rank[order'])
    BY <1>7, WebhookSole DEF Webhooks
  <2> QED BY <2>1, <2>2, SoleIsOne DEF Advances
<1>8. ASSUME NEW w \in Observers, ObservationApplied(w)
      PROVE  SoleInv' /\ Advances
  BY <1>8, ObservationSole DEF Advances
<1>9. CASE Refunding
  BY <1>9, RefundingSole DEF Advances
<1> QED
  BY <1>1, <1>2, <1>3, <1>4, <1>5, <1>6, <1>7, <1>8, <1>9, DispatchingSole
     DEF Next, ApplyObservation, Refunding

LEMMA SoleStart == Init => SoleInv
<1> SUFFICES ASSUME Init PROVE SoleInv
  OBVIOUS
<1>1. \A a \in Attempts : ~Sole(a)
  BY DEF Init, Sole
<1>2. SoleAgree /\ RefundTells /\ OnceTells
  BY <1>1 DEF Init, SoleAgree, RefundTells, OnceTells, OnRecord
<1>3. \A a \in Attempts, c \in Callers : CallTells(a, c)
  BY DEF Init, CallTells, Calls, CallAt
<1> QED BY <1>2, <1>3 DEF SoleInv, Init

\* What webhooks, observations, dispatches and refunds make of an order that has
\* one attempt: the inductive invariant.
THEOREM SoleInvariance == Spec => [](IInv /\ SoleInv)
<1>1. IInv /\ SoleInv /\ [Next]_vars => SoleInv'
  BY SoleStep
<1> QED BY <1>1, SoleStart, Invariance, PTL DEF Spec

\* Attempt, payment and order of a sole attempt tell one story, although
\* dispatchPaymentAttempt writes the two rows with separate compare-and-swaps.
THEOREM SoleAlwaysAgree == Spec => []SoleAgree
<1>1. SoleInv => SoleAgree
  BY DEF SoleInv
<1> QED BY <1>1, SoleInvariance, PTL

\* Matching is told once of the payment of a sole attempt, until a refund is on
\* record, and one no-executor refund is recorded at most, whoever triggers it.
THEOREM EffectsAreOnce == Spec => []EffectsOnce
<1>1. IInv /\ SoleInv => EffectsOnce
  <2>1. ASSUME IInv, SoleInv PROVE EffectsOnce
    <3>1. \A t \in Triggers : refund[t] \in {"NONE", "ASKED"} => ~OnRecord(t)
      BY DEF OnRecord
    <3> QED BY <2>1, <3>1 DEF SoleInv, OnceTells, EffectsOnce, OnRecord
  <2> QED BY <2>1
<1> QED BY <1>1, SoleInvariance, PTL

\* The order of a sole attempt only moves on: no late webhook, observation or
\* second trigger of a refund takes a released or refunded order back.
THEOREM SoleOrderAlwaysAdvances == Spec => SoleOrderAdvances
<1>1. IInv /\ SoleInv /\ [Next]_vars => [Advances]_vars
  BY SoleStep
<1>2. Spec => [][Advances]_vars
  BY <1>1, SoleInvariance, PTL DEF Spec
<1>3. SoleOrderAdvances <=> [][Advances]_vars
  BY DEF SoleOrderAdvances, Advances
<1> QED BY <1>2, <1>3
=============================================================================
