-------------------------------- MODULE Ledger --------------------------------
(* A partner's ledger, and the batches that pay it out (finance.service.ts    *)
(* and the migration of stage 9): the events of completed orders and confirmed*)
(* refunds are handled by concurrent workers, late, in any order and more     *)
(* than once, while disputes go on (Aftercare); settlements are created and   *)
(* submitted by requests that race each other and lose answers.               *)
EXTENDS Aftercare

CONSTANTS
  Runners,         \* runs of finance jobs that may be under way at once
  Requests,        \* submissions of a settlement that may be under way at once
  Reviewers,       \* batches that reconciliations have read and not yet compared
  Payout,          \* PartnerPayoutSnapshot.partnerPayoutMinor of every order
  MaxSubmissions,  \* of a batch; 5 in the source
  MaxBatches       \* bound: settlement batches

ASSUME LedgerAssumption ==
  /\ Payout \in 1 .. Price
  /\ MaxSubmissions \in Nat \ {0} /\ MaxBatches \in Nat

VARIABLES
  events,     \* events whose jobs are not done: an order's completion or refund
  run,        \* where each worker is in materializing an event
  ledger,     \* PartnerLedgerEntries, in order of creation
  batch,      \* SettlementBatches, in order of creation
  paid,       \* batches the payout provider has accepted
  request,    \* what each submission has read
  review      \* what each reconciliation has read

ledgerVars == <<caseVars, events, run, ledger, batch, paid, request, review>>
bookVars == <<run, ledger, batch, paid, request, review>>

-----------------------------------------------------------------------------
Event == [kind : {"COMPLETED", "REFUNDED"}, order : Orders]

\* The earning of an order is a credit, a refund's adjustment a debit.
Entry == [order : Orders, refund : Nat, amount : 1 .. Price]
Earning(o) == [order |-> o, refund |-> 0, amount |-> Payout]
HasEarning(o) == \E e \in Range(ledger) : e.order = o /\ e.refund = 0
HasDebit(o, i) == \E e \in Range(ledger) : e.order = o /\ e.refund = i
Debits(o) == {n \in DOMAIN ledger : ledger[n].order = o /\ ledger[n].refund # 0}
Debited(o) == Amounts(ledger, Debits(o))

\* COMPLETED: the order was read. EARNED: the earning is there. REFUNDS: the
\* payment was read. EACH: its refunds were read, and left are still to do.
NoRun == [step |-> "IDLE"]
Run == {NoRun} \cup
  [step : {"COMPLETED", "EARNED", "REFUNDS", "EACH"}, event : Event,
   payment : PaymentStatus, left : SUBSET Nat, last : Nat]

BatchStatus == {"CREATED", "SUBMITTED", "SETTLED", "RETRY_PENDING",
                "RECONCILIATION_REQUIRED"}
Batch == [entries : SUBSET DOMAIN ledger, total : Nat, status : BatchStatus,
          attempts : Nat,
          reference : BOOLEAN]   \* providerReference is known
NoRequest == [batch |-> 0]
NoReview == [batch |-> 0]

LedgerInit ==
  /\ CaseInit
  /\ events = {}
  /\ run = [w \in Runners |-> NoRun]
  /\ ledger = <<>>
  /\ batch = <<>>
  /\ paid = {}
  /\ request = [r \in Requests |-> NoRequest]
  /\ review = [v \in Reviewers |-> NoReview]

-----------------------------------------------------------------------------
(* The order's life, with the events finance is interested in.                *)

Emit(kind, o) == events' = events \cup {[kind |-> kind, order |-> o]}

OrderStep(o) ==
  \/ Complete(o) /\ Emit("COMPLETED", o)
  \/ (\E i \in DOMAIN refunds[o] : ConfirmRefund(o, i)) /\ Emit("REFUNDED", o)
  \/ /\ \/ FailDelivery(o) \/ OpenDispute(o) \/ PartnerRespond(o)
        \/ CancelDispute(o) \/ ResolveNoAction(o) \/ ResolveReprint(o)
        \/ \E amount \in 1 .. Price : ResolveRefund(o, amount)
        \/ CreateHold(o) \/ ReleaseHold(o)
        \/ \E i \in DOMAIN refunds[o] : SendRefund(o, i)
     /\ UNCHANGED events

-----------------------------------------------------------------------------
(* materializeEarning and materializeRefunds.                                 *)

Starts(w, step, e) ==
  run' = [run EXCEPT ![w] = [step |-> step, event |-> e, payment |-> "SUCCEEDED",
                             left |-> {}, last |-> 0]]
Goes(w, step) == run' = [run EXCEPT ![w].step = step]
At(w, step) == run[w].step = step
Order(w) == run[w].event.order

\* The job of the event is done, and never runs again.
Ended(w) ==
  /\ events' = events \ {run[w].event}
  /\ run' = [run EXCEPT ![w] = NoRun]

StartEarning(w, o) ==
  LET e == [kind |-> "COMPLETED", order |-> o] IN
  /\ run[w] = NoRun /\ e \in events
  /\ IF order[o] = "COMPLETED"
     THEN Starts(w, "COMPLETED", e) /\ UNCHANGED events
     ELSE events' = events \ {e} /\ run' = run
  /\ UNCHANGED <<caseVars, ledger, batch, paid, request, review>>

Earn(w) ==
  /\ At(w, "COMPLETED")
  /\ ledger' = IF HasEarning(Order(w)) THEN ledger
               ELSE Append(ledger, Earning(Order(w)))
  /\ Goes(w, "EARNED")
  /\ UNCHANGED <<caseVars, events, batch, paid, request, review>>

StartRefunds(w, o) ==
  LET e == [kind |-> "REFUNDED", order |-> o] IN
  /\ run[w] = NoRun /\ e \in events
  /\ Starts(w, "EARNED", e)
  /\ UNCHANGED <<caseVars, events, ledger, batch, paid, request, review>>

\* The payment and its refunds are read by two statements.
ReadPayment(w) ==
  /\ At(w, "EARNED")
  /\ run' = [run EXCEPT ![w].step = "REFUNDS", ![w].payment = payment[Order(w)]]
  /\ UNCHANGED <<caseVars, events, ledger, batch, paid, request, review>>

ReadRefunds(w) ==
  /\ At(w, "REFUNDS")
  /\ LET done == Confirmed(Order(w))
     IN run' = [run EXCEPT ![w].step = "EACH", ![w].left = done,
                           ![w].last = IF done = {} THEN 0 ELSE Max(done)]
  /\ UNCHANGED <<caseVars, events, ledger, batch, paid, request, review>>

Smaller(a, b) == IF a < b THEN a ELSE b

\* Mutant of Adjustment: the rounded share is never capped.
AdjustmentUncapped(w, i) ==
  (Payout * refunds[Order(w)][i].amount + Price - 1) \div Price + i - 1

\* The share of the payout that a refund takes back; the last refund of a
\* payment that is wholly refunded takes the rest.
Adjustment(w, i) ==
  LET o == Order(w)
      remaining == Payout - Debited(o)
      share == (Payout * refunds[o][i].amount) \div Price
  IN IF run[w].payment = "REFUNDED" /\ i = run[w].last THEN remaining
     ELSE Smaller(share, remaining)

\* One refund is one transaction under the payment's lock.
Debit(w) ==
  /\ At(w, "EACH") /\ run[w].left # {}
  /\ LET o == Order(w)
         i == Min(run[w].left)
     IN ledger' = IF HasEarning(o) /\ Adjustment(w, i) > 0 /\ ~HasDebit(o, i)
                  THEN Append(ledger, [order |-> o, refund |-> i,
                                       amount |-> Adjustment(w, i)])
                  ELSE ledger
  /\ run' = [run EXCEPT ![w].left = @ \ {Min(@)}]
  /\ UNCHANGED <<caseVars, events, batch, paid, request, review>>

Finish(w) ==
  /\ At(w, "EACH") /\ run[w].left = {}
  /\ Ended(w)
  /\ UNCHANGED <<caseVars, ledger, batch, paid, request, review>>

\* The run ends anywhere, and its job runs again.
RunDies(w) ==
  /\ run[w] # NoRun
  /\ run' = [run EXCEPT ![w] = NoRun]
  /\ UNCHANGED <<caseVars, events, ledger, batch, paid, request, review>>

-----------------------------------------------------------------------------
(* Settlement.                                                                *)

\* Mutant of Settled: entries of batches that failed may be paid again.
SettledUnlessFailed(n) ==
  \E b \in Range(batch) :
    n \in b.entries /\ b.status # "RECONCILIATION_REQUIRED"

\* The entry has a SettlementBatchItem.
Settled(n) == \E b \in Range(batch) : n \in b.entries

Eligible(o) ==
  /\ payment[o] \in Refundable \cup {"REFUNDED"}
  /\ \A i \in DOMAIN refunds[o] :
       refunds[o][i].status = "CONFIRMED" => HasDebit(o, i)
  /\ ~Active(o)
  /\ \A c \in DOMAIN cycles[o] : cycles[o][c] = "COMPLETED"
  /\ hold[o] = {}

Net(ns) ==
  LET credits == {n \in ns : ledger[n].refund = 0}
  IN Amounts(ledger, credits) - Amounts(ledger, ns \ credits)

\* createSettlement is serializable. The cutoff, or the limit of 500, leaves the
\* younger entries out.
CreateSettlement(cutoff) ==
  /\ Len(batch) < MaxBatches
  /\ LET ns == {n \in 1 .. cutoff : ~Settled(n) /\ Eligible(ledger[n].order)}
     IN /\ Net(ns) > 0
        /\ batch' = Append(batch, [entries |-> ns, total |-> Net(ns),
                                   status |-> "CREATED", attempts |-> 0,
                                   reference |-> FALSE])
  /\ UNCHANGED <<caseVars, events, run, ledger, paid, request, review>>

\* submitSettlement reads, asks the provider, and then writes.
Submittable == {"CREATED", "RETRY_PENDING"}

SubmitAsked(r, b) ==
  /\ request[r] = NoRequest /\ batch[b].status \in Submittable
  /\ request' = [request EXCEPT ![r] = [batch |-> b, status |-> batch[b].status,
                                        attempts |-> batch[b].attempts]]
  /\ UNCHANGED <<caseVars, events, run, ledger, batch, paid, review>>

Writes(b, status) ==
  batch' = [batch EXCEPT ![b].status = status, ![b].attempts = @ + 1,
                         ![b].reference = @ \/ status = "SUBMITTED"]

\* The provider accepts the batch under its own key, once; the answer is heard.
\* A batch that has moved on meanwhile is left alone.
Submitted(r) ==
  /\ request[r] # NoRequest
  /\ LET b == request[r].batch
     IN /\ paid' = paid \cup {b}
        /\ IF batch[b].status \in Submittable THEN Writes(b, "SUBMITTED")
           ELSE batch' = batch
  /\ request' = [request EXCEPT ![r] = NoRequest]
  /\ UNCHANGED <<caseVars, events, run, ledger, review>>

\* Mutant of Unmoved: a failure is written whatever the batch has become.
UnmovedOrNot(r) == TRUE

Unmoved(r) == batch[request[r].batch].status = request[r].status

\* The answer is lost, or the provider failed.
SubmitFails(r, accepted) ==
  /\ request[r] # NoRequest
  /\ LET b == request[r].batch
     IN /\ paid' = IF accepted THEN paid \cup {b} ELSE paid
        /\ IF Unmoved(r)
           THEN Writes(b, IF request[r].attempts + 1 >= MaxSubmissions
                          THEN "RECONCILIATION_REQUIRED" ELSE "RETRY_PENDING")
           ELSE batch' = batch
  /\ request' = [request EXCEPT ![r] = NoRequest]
  /\ UNCHANGED <<caseVars, events, run, ledger, review>>

\* reconcile reads the batches whose reference is known, settled ones too, asks
\* the provider of each, and then writes.
ReviewReads(v, b) ==
  /\ review[v] = NoReview /\ batch[b].reference
  /\ review' = [review EXCEPT ![v] = [batch |-> b, status |-> batch[b].status]]
  /\ UNCHANGED <<caseVars, events, run, ledger, batch, paid, request>>

\* Mutant of StillSubmitted: what the provider settled is settled by its id.
StillSubmittedOrNot(b) == TRUE

StillSubmitted(b) == batch[b].status = "SUBMITTED"

\* FAILED: another amount too. An answer that does not fit what was read is written
\* whatever the batch has become.
ReviewWrites(v, observed) ==
  /\ review[v] # NoReview
  /\ LET b == review[v].batch
         advanced == review[v].status = "SUBMITTED" /\ observed = "SETTLED"
         expected == IF advanced \/ review[v].status = "SETTLED"
                     THEN "SETTLED" ELSE "PENDING"
     IN batch' =
          IF observed # expected
          THEN [batch EXCEPT ![b].status = "RECONCILIATION_REQUIRED"]
          ELSE IF advanced /\ StillSubmitted(b)
               THEN [batch EXCEPT ![b].status = "SETTLED"] ELSE batch
  /\ review' = [review EXCEPT ![v] = NoReview]
  /\ UNCHANGED <<caseVars, events, run, ledger, paid, request>>

-----------------------------------------------------------------------------
RunStep(w) ==
  \/ \E o \in Orders : StartEarning(w, o) \/ StartRefunds(w, o)
  \/ Earn(w) \/ ReadPayment(w) \/ ReadRefunds(w) \/ Debit(w) \/ Finish(w)

LedgerNext ==
  \/ (\E o \in Orders : OrderStep(o)) /\ UNCHANGED bookVars
  \/ \E w \in Runners : RunStep(w) \/ RunDies(w)
  \/ \E cutoff \in DOMAIN ledger : CreateSettlement(cutoff)
  \/ \E b \in DOMAIN batch :
       \/ \E r \in Requests : SubmitAsked(r, b)
       \/ \E v \in Reviewers : ReviewReads(v, b)
  \/ \E r \in Requests :
       Submitted(r) \/ \E accepted \in BOOLEAN : SubmitFails(r, accepted)
  \/ \E v \in Reviewers, observed \in {"PENDING", "SETTLED", "FAILED"} :
       ReviewWrites(v, observed)

LedgerSpec == LedgerInit /\ [][LedgerNext]_ledgerVars

LedgerTypeOK ==
  /\ CaseTypeOK
  /\ events \subseteq Event
  /\ \A w \in Runners : run[w] \in Run
  /\ \A n \in DOMAIN ledger : ledger[n] \in Entry
  /\ \A b \in DOMAIN batch : batch[b] \in Batch
  /\ paid \subseteq DOMAIN batch
  /\ \A r \in Requests : request[r].batch \in {0} \cup DOMAIN batch
  /\ \A v \in Reviewers : review[v].batch \in {0} \cup DOMAIN batch

\* An order is earned once and debited within what it earned, and a refund is
\* debited its share of the payout (rounded down; all that is left with the
\* refund that makes the payment REFUNDED), however often and in whatever order
\* its events are handled.
LedgerFits ==
  /\ LedgerTypeOK
  /\ \A o \in Orders :
       /\ Cardinality({n \in DOMAIN ledger : ledger[n] = Earning(o)}) <= 1
       /\ Debited(o) <= IF HasEarning(o) THEN Payout ELSE 0
       /\ Debits(o) # {} =>
            /\ Refunded(o) = Price => Debited(o) = Payout
            /\ Debited(o) * Price <= Payout * Refunded(o)
            /\ Payout * Refunded(o) < (Debited(o) + 1) * Price

\* No entry is in two batches, and what the provider was asked to pay is what
\* the entries come to: no more than the orders' payouts.
NoDoublePayout ==
  /\ \A b, c \in DOMAIN batch : b # c => batch[b].entries \cap batch[c].entries = {}
  /\ \A b \in DOMAIN batch :
       batch[b].total = Net(batch[b].entries) /\ batch[b].total > 0

\* A batch that was submitted, or given up, is never submitted again: a slower
\* request that failed, or was answered late, does not reopen it, and what the row
\* says was submitted the provider has. A batch left to the operator stays with the
\* operator: a reconciliation that read it earlier does not settle it.
SubmittedStays ==
  [][\A b \in DOMAIN batch : batch[b].status \notin Submittable =>
       /\ batch'[b].status \notin Submittable
       /\ batch[b].status = "RECONCILIATION_REQUIRED" =>
            batch'[b].status = "RECONCILIATION_REQUIRED"
       /\ batch[b].status \in {"SUBMITTED", "SETTLED"} => b \in paid']_ledgerVars
===============================================================================
