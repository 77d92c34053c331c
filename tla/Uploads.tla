-------------------------------- MODULE Uploads --------------------------------
(***************************************************************************)
(* One upload from its session to the processed file                       *)
(* (apps/api/src/uploads: upload.service.ts, outbox-dispatcher.service.ts, *)
(* processing-worker.service.ts, processing-result.service.ts,             *)
(* upload-cleanup.service.ts).                                             *)
(*                                                                         *)
(* putContent stores the bytes in quarantine, validates, scans and         *)
(* promotes them between single compare-and-swaps of the session, while    *)
(* the customer repeats or cancels the request and cleanup expires it.     *)
(* Processing is a database job with a lease, delivered by a BullMQ        *)
(* message that is retried, and delivered again when its worker stalls.    *)
(***************************************************************************)
EXTENDS Naturals, FiniteSets

CONSTANTS
  Puts,        \* bound: putContent requests
  Workers,     \* slots that handle messages
  MaxTries,    \* attempts of a message; 3 in the source
  MaxFaults,   \* bound: deaths, stalls, failures of storage or database
  None

ASSUME UploadsAssumption ==
  /\ MaxTries \in Nat \ {0} /\ MaxFaults \in Nat
  /\ None \notin Puts \cup Workers

VARIABLES
  session,     \* UploadSession
  put,         \* progress of each putContent request
  cancelling,  \* a cancel that committed and has not removed the objects yet
  quarantine,  \* the quarantine object is there
  originals,   \* permanent objects, by the request that promoted them
  job,         \* ProcessingJob
  event,       \* the outbox event that asks for processing
  message,     \* the BullMQ message of that event
  worker,      \* the slots
  result,      \* ProcessingResult and InboxOperation, created together
  output,      \* the object at the job's resultObjectKey is there
  faults

sessionVars == <<session, put, cancelling, quarantine, originals>>
jobVars == <<job, event, message, worker, result, output>>
uploadVars == <<sessionVars, jobVars, faults>>

-----------------------------------------------------------------------------
UploadStatus == {"CREATED", "QUARANTINED", "SCANNING", "QUEUED", "PROCESSING",
                 "READY", "REJECTED", "CANCELLED", "EXPIRED", "FAILED"}
Accepted == {"QUEUED", "PROCESSING", "READY"}

\* key: permanentObjectKey. dropped: it was cancelled or expired at some time.
Session == [status : UploadStatus, version : 0 .. 6, key : Puts \cup {None},
            dropped : BOOLEAN]

\* aggregate: aggregateVersion. alive: leaseUntil is not past.
Job == [status : {"NONE", "PENDING", "RUNNING", "SUCCEEDED", "DEAD_LETTER"},
        owner : Workers \cup {None}, alive : BOOLEAN, aggregate : 0 .. 6]
NoJob == [status |-> "NONE", owner |-> None, alive |-> FALSE, aggregate |-> 0]

\* made: attempts that failed. by: the slot whose lock is on the message.
Message == [status : {"NONE", "WAITING", "ACTIVE", "COMPLETED", "FAILED"},
            made : 0 .. MaxTries, by : Workers \cup {None}, stalled : BOOLEAN]
NoMessage == [status |-> "NONE", made |-> 0, by |-> None, stalled |-> FALSE]

PutStep == {"IDLE", "READ", "WRITTEN", "CLAIMED", "SCANNING", "PROMOTED",
            "COMMITTED", "FAILING", "DONE"}
WorkerStep == {"IDLE", "TAKEN", "CLAIMED", "NORMALIZED", "WRITTEN", "LOST",
               "REMOVING", "FAILING"}

UploadInit ==
  /\ session = [status |-> "CREATED", version |-> 0, key |-> None,
                dropped |-> FALSE]
  /\ put = [p \in Puts |-> "IDLE"]
  /\ cancelling = FALSE /\ quarantine = FALSE /\ originals = {}
  /\ job = NoJob /\ event = "NONE" /\ message = NoMessage
  /\ worker = [w \in Workers |-> "IDLE"]
  /\ result = FALSE /\ output = FALSE
  /\ faults = 0

Fault == faults < MaxFaults /\ faults' = faults + 1
PutGoes(p, step) == put' = [put EXCEPT ![p] = step]

\* The session moves on; every update increments its version.
Moves(status) ==
  session' = [session EXCEPT !.status = status, !.version = @ + 1]

-----------------------------------------------------------------------------
(* putContent.                                                             *)

PutReads(p) ==
  /\ put[p] = "IDLE" /\ session.status = "CREATED"
  /\ PutGoes(p, "READ")
  /\ UNCHANGED <<session, cancelling, quarantine, originals, jobVars, faults>>

PutQuarantine(p) ==
  /\ put[p] = "READ"
  /\ quarantine' = TRUE
  /\ PutGoes(p, "WRITTEN")
  /\ UNCHANGED <<session, cancelling, originals, jobVars, faults>>

\* A session that is CREATED still has the version that was read.
PutClaims(p) ==
  /\ put[p] = "WRITTEN" /\ session.status = "CREATED"
  /\ Moves("QUARANTINED")
  /\ PutGoes(p, "CLAIMED")
  /\ UNCHANGED <<cancelling, quarantine, originals, jobVars, faults>>

\* Who loses removes the object at the key it shares with the winner.
PutLoses(p) ==
  /\ put[p] = "WRITTEN" /\ session.status # "CREATED"
  /\ quarantine' = FALSE
  /\ PutGoes(p, "DONE")
  /\ UNCHANGED <<session, cancelling, originals, jobVars, faults>>

\* The validated upload becomes SCANNING, whatever it was in the meantime.
PutScans(p) ==
  /\ put[p] = "CLAIMED"
  /\ Moves("SCANNING")
  /\ PutGoes(p, "SCANNING")
  /\ UNCHANGED <<cancelling, quarantine, originals, jobVars, faults>>

\* Virus scan, and the copy of the quarantine object.
Promotes(p) ==
  /\ put[p] = "SCANNING" /\ quarantine
  /\ originals' = originals \cup {p}
  /\ PutGoes(p, "PROMOTED")
  /\ UNCHANGED <<session, cancelling, quarantine, jobVars, faults>>

\* Mutant of Unmoved: the transaction compares the status only.
UnmovedStatus == session.status = "SCANNING"

\* Claim and scan were the only changes of the session.
Unmoved == session.status = "SCANNING" /\ session.version = 2

\* Session, job, object reference and outbox event in one transaction.
PutCommits(p) ==
  /\ put[p] = "PROMOTED" /\ Unmoved
  /\ session' = [session EXCEPT !.status = "QUEUED", !.version = @ + 1, !.key = p]
  /\ job' = [NoJob EXCEPT !.status = "PENDING", !.aggregate = 3]
  /\ event' = "OPEN"
  /\ PutGoes(p, "COMMITTED")
  /\ UNCHANGED <<cancelling, quarantine, originals, message, worker, result,
                 output, faults>>

PutEnds(p) ==
  /\ put[p] = "COMMITTED"
  /\ quarantine' = FALSE
  /\ PutGoes(p, "DONE")
  /\ UNCHANGED <<session, cancelling, originals, jobVars, faults>>

\* Validation or scan rejects the file, the copy finds no object, or the
\* transaction loses; storage and database may also fail, even after it.
PutThrows(p) ==
  /\ \/ put[p] \in {"CLAIMED", "SCANNING"} /\ UNCHANGED faults
     \/ put[p] = "PROMOTED" /\ ~Unmoved /\ UNCHANGED faults
     \/ put[p] \in {"PROMOTED", "COMMITTED"} /\ Fault
  /\ PutGoes(p, "FAILING")
  /\ UNCHANGED <<session, cancelling, quarantine, originals, jobVars>>

\* The catch removes both objects, then marks a session that is under way.
PutCatches(p) ==
  /\ put[p] = "FAILING"
  /\ originals' = originals \ {p} /\ quarantine' = FALSE
  /\ IF session.status \in {"QUARANTINED", "SCANNING"}
     THEN \E s \in {"REJECTED", "FAILED"} : Moves(s)
     ELSE UNCHANGED session
  /\ PutGoes(p, "DONE")
  /\ UNCHANGED <<cancelling, jobVars, faults>>

PutDies(p) ==
  /\ put[p] \notin {"IDLE", "DONE"}
  /\ Fault
  /\ PutGoes(p, "DONE")
  /\ UNCHANGED <<session, cancelling, quarantine, originals, jobVars>>

-----------------------------------------------------------------------------
(* cancel and cleanupExpired.                                              *)

Cancellable == {"CREATED", "QUARANTINED", "SCANNING", "QUEUED"}

\* Mutant of Cancels: the number of sessions that were cancelled is not checked.
CancelsUnchecked ==
  /\ IF session.status \in Cancellable
     THEN session' = [session EXCEPT !.status = "CANCELLED", !.version = @ + 1,
                                     !.dropped = TRUE]
     ELSE UNCHANGED session
  /\ cancelling' = TRUE
  /\ UNCHANGED <<put, quarantine, originals, jobVars, faults>>

\* Read and compare-and-swap of the same version are one step.
Cancels ==
  /\ session.status \in Cancellable
  /\ session' = [session EXCEPT !.status = "CANCELLED", !.version = @ + 1,
                                !.dropped = TRUE]
  /\ cancelling' = TRUE
  /\ UNCHANGED <<put, quarantine, originals, jobVars, faults>>

\* The objects go, with reference and tombstone of the permanent one; or the
\* request dies and they stay.
CancelEnds ==
  /\ cancelling /\ cancelling' = FALSE
  /\ \/ /\ quarantine' = FALSE /\ originals' = originals \ {session.key}
        /\ UNCHANGED faults
     \/ Fault /\ UNCHANGED <<quarantine, originals>>
  /\ UNCHANGED <<session, put, jobVars>>

\* expiresAt may pass at any time.
CleanupExpired ==
  /\ session.status \in {"CREATED", "QUARANTINED", "SCANNING"}
  /\ session' = [session EXCEPT !.status = "EXPIRED", !.version = @ + 1,
                                !.dropped = TRUE]
  /\ quarantine' = FALSE
  /\ UNCHANGED <<put, cancelling, originals, jobVars, faults>>

-----------------------------------------------------------------------------
(* Dispatch, and the BullMQ queue (external).                              *)

\* queue.add ignores a job id it knows.
Enqueues ==
  /\ event = "OPEN" /\ message = NoMessage
  /\ message' = [NoMessage EXCEPT !.status = "WAITING"]
  /\ UNCHANGED <<sessionVars, job, event, worker, result, output, faults>>

Publishes ==
  /\ event = "OPEN" /\ message # NoMessage
  /\ event' = "PUBLISHED"
  /\ UNCHANGED <<sessionVars, job, message, worker, result, output, faults>>

Takes(w) ==
  /\ worker[w] = "IDLE" /\ message.status = "WAITING"
  /\ message' = [message EXCEPT !.status = "ACTIVE", !.by = w]
  /\ worker' = [worker EXCEPT ![w] = "TAKEN"]
  /\ UNCHANGED <<sessionVars, job, event, result, output, faults>>

\* The lock is not renewed in time: the message is delivered again, once.
Stalls ==
  /\ message.status = "ACTIVE"
  /\ Fault
  /\ message' = [message EXCEPT !.by = None, !.stalled = TRUE,
                   !.status = IF message.stalled THEN "FAILED" ELSE "WAITING"]
  /\ UNCHANGED <<sessionVars, job, event, worker, result, output>>

\* The handler of w returns, or throws; it counts while w has the lock.
Returns(w) ==
  /\ worker' = [worker EXCEPT ![w] = "IDLE"]
  /\ message' = IF message.by # w THEN message
                ELSE [message EXCEPT !.status = "COMPLETED", !.by = None]

Throws(w) ==
  /\ worker' = [worker EXCEPT ![w] = "IDLE"]
  /\ message' = IF message.by # w THEN message
                ELSE [message EXCEPT !.by = None, !.made = @ + 1,
                        !.status = IF message.made + 1 < MaxTries
                                   THEN "WAITING" ELSE "FAILED"]

-----------------------------------------------------------------------------
(* The worker.                                                             *)

WorkerGoes(w, step) ==
  worker' = [worker EXCEPT ![w] = step] /\ UNCHANGED message

Claimable == job.status = "PENDING" \/ (job.status = "RUNNING" /\ ~job.alive)

Claim(w) ==
  LET starts == session.status = "QUEUED" /\ session.version = job.aggregate IN
  /\ worker[w] = "TAKEN" /\ ~result /\ Claimable
  /\ job' = [job EXCEPT !.status = "RUNNING", !.owner = w, !.alive = TRUE,
                        !.aggregate = IF starts THEN @ + 1 ELSE @]
  /\ IF starts THEN Moves("PROCESSING") ELSE UNCHANGED session
  /\ WorkerGoes(w, "CLAIMED")
  /\ UNCHANGED <<put, cancelling, quarantine, originals, event, result, output,
                 faults>>

\* duplicate: the handler returns, and the message is completed with it.
ClaimRefused(w) ==
  /\ worker[w] = "TAKEN" /\ (result \/ ~Claimable)
  /\ Returns(w)
  /\ UNCHANGED <<sessionVars, job, event, result, output, faults>>

\* The lease lasts five minutes and is never renewed.
LeaseEnds ==
  /\ job.status = "RUNNING" /\ job.alive
  /\ job' = [job EXCEPT !.alive = FALSE]
  /\ UNCHANGED <<sessionVars, event, message, worker, result, output, faults>>

\* The original is read and converted in the sandbox.
Normalizes(w) ==
  /\ worker[w] = "CLAIMED"
  /\ \/ session.key \in originals /\ WorkerGoes(w, "NORMALIZED")
     \/ WorkerGoes(w, "FAILING")
  /\ UNCHANGED <<sessionVars, job, event, result, output, faults>>

\* complete: there is a result already, or the output is scanned and written.
CompleteWrites(w) ==
  /\ worker[w] = "NORMALIZED"
  /\ \/ result /\ Returns(w) /\ UNCHANGED output
     \/ ~result /\ WorkerGoes(w, "WRITTEN") /\ output' = TRUE
     \/ ~result /\ WorkerGoes(w, "FAILING") /\ UNCHANGED output
  /\ UNCHANGED <<sessionVars, job, event, result, faults>>

Leased(w) == job.status = "RUNNING" /\ job.owner = w /\ job.alive

\* Mutant of Awaited: the number of sessions that became READY is not checked.
AwaitedAlways == TRUE

\* The session is the one the job belongs to.
Awaited == /\ session.status \in {"QUEUED", "PROCESSING"}
           /\ session.version = job.aggregate

Complete(w) ==
  /\ worker[w] = "WRITTEN" /\ Leased(w) /\ Awaited
  /\ result' = TRUE
  /\ job' = [job EXCEPT !.status = "SUCCEEDED", !.owner = None, !.alive = FALSE]
  /\ IF session.status \in {"QUEUED", "PROCESSING"} THEN Moves("READY")
     ELSE UNCHANGED session
  /\ Returns(w)
  /\ UNCHANGED <<put, cancelling, quarantine, originals, event, output, faults>>

CompleteLoses(w) ==
  /\ worker[w] = "WRITTEN" /\ ~(Leased(w) /\ Awaited)
  /\ WorkerGoes(w, "LOST")
  /\ UNCHANGED <<sessionVars, job, event, result, output, faults>>

\* The catch looks for another worker's result before it removes the object.
LostReads(w) ==
  /\ worker[w] = "LOST"
  /\ IF result THEN Returns(w) ELSE WorkerGoes(w, "REMOVING")
  /\ UNCHANGED <<sessionVars, job, event, result, output, faults>>

LostRemoves(w) ==
  /\ worker[w] = "REMOVING"
  /\ output' = FALSE
  /\ WorkerGoes(w, "FAILING")
  /\ UNCHANGED <<sessionVars, job, event, result, faults>>

\* Mutant of Final: the last attempt is counted one too late.
FinalLate == message.made >= MaxTries

\* attemptsMade + 1 >= attempts.
Final == message.made + 1 >= MaxTries

\* fail, for a worker that still owns the job; then the error is thrown again.
Fail(w) ==
  /\ worker[w] = "FAILING"
  /\ IF job.status = "RUNNING" /\ job.owner = w
     THEN /\ job' = [job EXCEPT !.owner = None, !.alive = FALSE,
                       !.status = IF Final THEN "DEAD_LETTER" ELSE "PENDING"]
          /\ IF Final /\ Awaited THEN Moves("FAILED") ELSE UNCHANGED session
     ELSE UNCHANGED <<job, session>>
  /\ Throws(w)
  /\ UNCHANGED <<put, cancelling, quarantine, originals, event, result, output,
                 faults>>

\* The worker dies: its message is delivered again when the lock has run out.
WorkerDies(w) ==
  /\ worker[w] # "IDLE"
  /\ Fault
  /\ worker' = [worker EXCEPT ![w] = "IDLE"]
  /\ UNCHANGED <<sessionVars, job, event, message, result, output>>

-----------------------------------------------------------------------------
PutProceeds(p) ==
  \/ PutQuarantine(p) \/ PutClaims(p) \/ PutLoses(p) \/ PutScans(p)
  \/ Promotes(p) \/ PutCommits(p) \/ PutEnds(p) \/ PutCatches(p)

Works(w) ==
  \/ Claim(w) \/ ClaimRefused(w) \/ Normalizes(w) \/ CompleteWrites(w)
  \/ Complete(w) \/ CompleteLoses(w) \/ LostReads(w) \/ LostRemoves(w)
  \/ Fail(w)

UploadNext ==
  \/ \E p \in Puts : PutReads(p) \/ PutProceeds(p) \/ PutThrows(p) \/ PutDies(p)
  \/ Cancels \/ CancelEnds \/ CleanupExpired
  \/ Enqueues \/ Publishes \/ Stalls \/ LeaseEnds
  \/ \E w \in Workers : Takes(w) \/ Works(w) \/ WorkerDies(w)

\* The dispatcher polls, and workers take what waits and go on with it.
UploadFairness ==
  /\ WF_uploadVars(Enqueues)
  /\ WF_uploadVars(\E w \in Workers : Takes(w))
  /\ \A w \in Workers : WF_uploadVars(Works(w))

-----------------------------------------------------------------------------
(* Properties.                                                             *)

\* Every variable keeps the shape of the rows and objects it stands for.
UploadTypeOK ==
  /\ session \in Session
  /\ put \in [Puts -> PutStep]
  /\ cancelling \in BOOLEAN /\ quarantine \in BOOLEAN
  /\ originals \subseteq Puts
  /\ job \in Job
  /\ event \in {"NONE", "OPEN", "PUBLISHED"}
  /\ message \in Message
  /\ worker \in [Workers -> WorkerStep]
  /\ result \in BOOLEAN /\ output \in BOOLEAN
  /\ faults \in 0 .. MaxFaults

\* The session tells what became of the upload. One that was cancelled or expired
\* is never accepted afterwards, although the scan overwrites those statuses: the
\* version of the session shows it to the transaction that would queue it. The
\* original of an accepted one is there, whatever repeated requests and
\* cancellations removed, unless storage or database failed. There is a result,
\* and a job that succeeded, exactly for a READY one: a late worker whose lease
\* was taken over produces no second.
SessionIsTrue ==
  /\ session.dropped => session.status \notin Accepted
  /\ faults = 0 /\ session.status \in Accepted => session.key \in originals
  /\ result <=> (session.status = "READY")
  /\ result <=> (job.status = "SUCCEEDED")

\* A queued upload becomes READY or FAILED, or is cancelled, however often its
\* lease runs out and its processing fails, as long as no worker is lost.
UploadSettles ==
  [](faults = 0) => ((session.status \in {"QUEUED", "PROCESSING"})
                      ~> (session.status \notin {"QUEUED", "PROCESSING"}))

===============================================================================
