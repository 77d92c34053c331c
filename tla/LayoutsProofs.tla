---------------------------- MODULE LayoutsProofs ----------------------------
(* What holds of Layouts, and of the upload before it, for any settings,     *)
(* requests, workers, calls, attempts and number of faults.                  *)
EXTENDS Layouts, TLAPS

-----------------------------------------------------------------------------
(* The upload: its inductive invariant.                                      *)

\* Where a request is that has claimed the session.
Claimed == {"CLAIMED", "SCANNING", "PROMOTED", "COMMITTED", "FAILING"}

\* What the status of the session says of its other columns: its version counts
\* the changes, and one change too many is a cancellation or an expiry.
VersionTells ==
  /\ session.status = "CREATED" =>
       session.version = 0 /\ ~session.dropped /\ session.key = None
  /\ session.status = "QUARANTINED" => session.version = 1 /\ ~session.dropped
  /\ session.status = "SCANNING" => \/ session.version = 2 /\ ~session.dropped
                                    \/ session.version = 3 /\ session.dropped
  /\ session.status = "QUEUED" => session.version = 3 /\ job.aggregate = 3
  /\ session.status = "PROCESSING" => session.version = 4 /\ job.aggregate = 4
  /\ session.status \in Accepted => ~session.dropped
  /\ session.version <= 5

\* What the progress of a request says of the session: one request claims it.
PutTells(p) ==
  /\ put[p] \in Claimed => session.status # "CREATED"
  /\ put[p] = "CLAIMED" =>
       \/ session.status = "QUARANTINED"
       \/ session.status \in {"CANCELLED", "EXPIRED"} /\ session.dropped
            /\ session.version = 2
  /\ put[p] \in {"SCANNING", "PROMOTED"} =>
       session.status \in {"SCANNING", "CANCELLED", "EXPIRED"}
  /\ put[p] \in {"CLAIMED", "SCANNING", "PROMOTED"} => session.key = None
  /\ put[p] = "PROMOTED" => p \in originals
  /\ put[p] = "FAILING" /\ faults = 0 => session.key # p

OneClaims ==
  \A p, q \in Puts : put[p] \in Claimed /\ put[q] \in Claimed => p = q

\* A message that is still to be handled has an attempt left.
MessageTells ==
  /\ message.by # None => message.status = "ACTIVE"
  /\ message.status \in {"NONE", "WAITING", "ACTIVE"} => message.made < MaxTries

UploadInv ==
  /\ UploadTypeOK /\ VersionTells
  /\ \A p \in Puts : PutTells(p)
  /\ OneClaims /\ MessageTells
  /\ cancelling => session.dropped
  /\ SessionIsTrue

-----------------------------------------------------------------------------
(* The rows.                                                                 *)

LEMMA SessionMoved ==
  ASSUME UploadInv, NEW status \in UploadStatus, Moves(status)
  PROVE  /\ session' \in Session
         /\ session'.status = status /\ session'.version = session.version + 1
         /\ session'.key = session.key /\ session'.dropped = session.dropped
<1>1. session \in Session /\ session.version <= 5
  BY DEF UploadInv, UploadTypeOK, VersionTells
<1>2. session.version + 1 \in 0 .. 6
  BY <1>1 DEF Session
<1> QED BY <1>1, <1>2 DEF Moves, Session

LEMMA SessionDropped ==
  ASSUME UploadInv, NEW status \in {"CANCELLED", "EXPIRED"},
         session' = [session EXCEPT !.status = status, !.version = @ + 1,
                                    !.dropped = TRUE]
  PROVE  /\ session' \in Session
         /\ session'.status = status /\ session'.version = session.version + 1
         /\ session'.key = session.key /\ session'.dropped
<1>1. session \in Session /\ session.version <= 5
  BY DEF UploadInv, UploadTypeOK, VersionTells
<1>2. session.version + 1 \in 0 .. 6
  BY <1>1 DEF Session
<1> QED BY <1>1, <1>2 DEF Session, UploadStatus

LEMMA Counted ==
  ASSUME UploadInv, Fault
  PROVE  faults' \in 0 .. MaxFaults /\ faults' # 0
BY UploadsAssumption DEF Fault, UploadInv, UploadTypeOK

LEMMA PutGone ==
  ASSUME UploadInv, NEW p \in Puts, NEW step \in PutStep, PutGoes(p, step)
  PROVE  /\ put' \in [Puts -> PutStep] /\ put'[p] = step
         /\ \A q \in Puts \ {p} : put'[q] = put[q]
BY DEF PutGoes, UploadInv, UploadTypeOK

\* What a step leaves as it is where it is not about the session.
LEMMA SessionKept ==
  ASSUME UploadInv, UNCHANGED <<session, originals, result, cancelling>>,
         job'.aggregate = job.aggregate,
         (job'.status = "SUCCEEDED") <=> (job.status = "SUCCEEDED"),
         faults' = faults \/ faults' # 0,
         \A p \in Puts : put'[p] = put[p] \/ put'[p] \notin Claimed
  PROVE  /\ VersionTells' /\ SessionIsTrue' /\ (cancelling' => session'.dropped)
         /\ \A p \in Puts : PutTells(p)'
         /\ OneClaims'
<1>1. VersionTells' /\ SessionIsTrue' /\ (cancelling' => session'.dropped)
  BY DEF UploadInv, VersionTells, SessionIsTrue
<1>2. ASSUME NEW p \in Puts PROVE PutTells(p)'
  <2>1. CASE put'[p] = put[p]
    BY <2>1 DEF UploadInv, PutTells
  <2>2. CASE put'[p] \notin Claimed
    BY <2>2 DEF PutTells, Claimed
  <2> QED BY <2>1, <2>2
<1>3. OneClaims'
  BY DEF UploadInv, OneClaims
<1> QED BY <1>1, <1>2, <1>3

-----------------------------------------------------------------------------
(* The steps of a request.                                                   *)

\* Steps that leave the session, the job and the original.
LEMMA QuietPut ==
  ASSUME UploadInv, NEW p \in Puts,
         \/ PutReads(p) \/ PutQuarantine(p) \/ PutLoses(p) \/ PutEnds(p) \/ PutDies(p)
  PROVE  UploadInv'
<1>1. PICK step \in {"READ", "WRITTEN", "DONE"} : PutGoes(p, step)
  BY DEF PutReads, PutQuarantine, PutLoses, PutEnds, PutDies
<1>2. /\ put' \in [Puts -> PutStep] /\ put'[p] \notin Claimed
      /\ \A q \in Puts \ {p} : put'[q] = put[q]
  BY <1>1, PutGone DEF PutStep, Claimed
<1>3. /\ UNCHANGED <<session, originals, cancelling, jobVars>>
      /\ quarantine' \in BOOLEAN /\ faults' \in 0 .. MaxFaults
      /\ faults' = faults \/ faults' # 0
  <2>1. CASE PutDies(p)
    BY <2>1, Counted DEF PutDies, UploadInv, UploadTypeOK
  <2>2. CASE ~PutDies(p)
    BY <2>2 DEF PutReads, PutQuarantine, PutLoses, PutEnds, UploadInv, UploadTypeOK
  <2> QED BY <2>1, <2>2
<1>4. UploadTypeOK'
  BY <1>2, <1>3 DEF UploadInv, UploadTypeOK, jobVars
<1>5. MessageTells'
  BY <1>3 DEF UploadInv, MessageTells, jobVars
<1> QED BY <1>2, <1>3, <1>4, <1>5, SessionKept DEF UploadInv, jobVars

LEMMA PutClaimsKeeps ==
  ASSUME UploadInv, NEW p \in Puts, PutClaims(p)
  PROVE  UploadInv'
<1>1. /\ session.status = "CREATED" /\ session.version = 0 /\ ~session.dropped
      /\ session.key = None
      /\ UNCHANGED <<cancelling, quarantine, originals, jobVars, faults>>
  BY DEF PutClaims, UploadInv, VersionTells
<1>2. /\ session' \in Session /\ session'.status = "QUARANTINED"
      /\ session'.version = 1 /\ ~session'.dropped /\ session'.key = None
  BY <1>1, SessionMoved DEF PutClaims, UploadStatus
<1>3. /\ put' \in [Puts -> PutStep] /\ put'[p] = "CLAIMED"
      /\ \A q \in Puts \ {p} : put'[q] = put[q] /\ put'[q] \notin Claimed
  BY <1>1, PutGone DEF PutClaims, PutStep, UploadInv, PutTells
<1>4. UploadTypeOK'
  BY <1>1, <1>2, <1>3 DEF UploadInv, UploadTypeOK, jobVars
<1>5. VersionTells' /\ MessageTells' /\ (cancelling' => session'.dropped)
  BY <1>1, <1>2 DEF UploadInv, VersionTells, Accepted, MessageTells, jobVars
<1>6. ASSUME NEW q \in Puts PROVE PutTells(q)'
  BY <1>2, <1>3 DEF PutTells, Claimed
<1>7. OneClaims'
  BY <1>3 DEF OneClaims
<1>8. SessionIsTrue'
  BY <1>1, <1>2 DEF UploadInv, SessionIsTrue, Accepted, jobVars
<1> QED BY <1>4, <1>5, <1>6, <1>7, <1>8 DEF UploadInv

\* The request that has claimed the session is alone in that.
LEMMA OthersNotClaimed ==
  ASSUME UploadInv, NEW p \in Puts, put[p] \in Claimed, NEW q \in Puts \ {p}
  PROVE  put[q] \notin Claimed
BY DEF UploadInv, OneClaims

\* What follows of the others when the one request that claimed goes on.
LEMMA ClaimantGoes ==
  ASSUME UploadInv, NEW p \in Puts, put[p] \in Claimed,
         \A q \in Puts \ {p} : put'[q] = put[q], PutTells(p)'
  PROVE  OneClaims' /\ \A q \in Puts : PutTells(q)'
<1>1. \A q \in Puts \ {p} : put'[q] \notin Claimed
  BY OthersNotClaimed
<1>2. OneClaims'
  BY <1>1 DEF OneClaims
<1>3. ASSUME NEW q \in Puts PROVE PutTells(q)'
  <2>1. CASE q = p
    BY <2>1
  <2>2. CASE q # p
    BY <1>1, <2>2 DEF PutTells, Claimed
  <2> QED BY <2>1, <2>2
<1> QED BY <1>2, <1>3

LEMMA PutScansKeeps ==
  ASSUME UploadInv, NEW p \in Puts, PutScans(p)
  PROVE  UploadInv'
<1>1. /\ put[p] = "CLAIMED" /\ session.key = None
      /\ \/ session.status = "QUARANTINED" /\ session.version = 1 /\ ~session.dropped
         \/ /\ session.status \in {"CANCELLED", "EXPIRED"} /\ session.dropped
            /\ session.version = 2
      /\ UNCHANGED <<cancelling, quarantine, originals, jobVars, faults>>
  BY DEF PutScans, UploadInv, PutTells, VersionTells
<1>2. /\ session' \in Session /\ session'.status = "SCANNING"
      /\ session'.key = None /\ session'.dropped = session.dropped
      /\ \/ session'.version = 2 /\ ~session'.dropped
         \/ session'.version = 3 /\ session'.dropped
  BY <1>1, SessionMoved DEF PutScans, UploadStatus
<1>3. /\ put' \in [Puts -> PutStep] /\ put'[p] = "SCANNING"
      /\ \A q \in Puts \ {p} : put'[q] = put[q]
  BY PutGone DEF PutScans, PutStep
<1>4. UploadTypeOK'
  BY <1>1, <1>2, <1>3 DEF UploadInv, UploadTypeOK, jobVars
<1>5. VersionTells' /\ MessageTells' /\ (cancelling' => session'.dropped)
  BY <1>1, <1>2 DEF UploadInv, VersionTells, Accepted, MessageTells, jobVars
<1>6. PutTells(p)'
  BY <1>2, <1>3 DEF PutTells
<1>7. OneClaims' /\ \A q \in Puts : PutTells(q)'
  BY <1>1, <1>3, <1>6, ClaimantGoes DEF Claimed
<1>8. SessionIsTrue'
  BY <1>1, <1>2 DEF UploadInv, SessionIsTrue, Accepted, jobVars
<1> QED BY <1>4, <1>5, <1>7, <1>8 DEF UploadInv

LEMMA PromotesKeeps ==
  ASSUME UploadInv, NEW p \in Puts, Promotes(p)
  PROVE  UploadInv'
<1>1. /\ put[p] = "SCANNING" /\ originals' = originals \cup {p}
      /\ UNCHANGED <<session, cancelling, quarantine, jobVars, faults>>
  BY DEF Promotes
<1>2. /\ put' \in [Puts -> PutStep] /\ put'[p] = "PROMOTED"
      /\ \A q \in Puts \ {p} : put'[q] = put[q]
  BY PutGone DEF Promotes, PutStep
<1>3. UploadTypeOK'
  BY <1>1, <1>2 DEF UploadInv, UploadTypeOK, jobVars
<1>4. VersionTells' /\ MessageTells' /\ (cancelling' => session'.dropped)
  BY <1>1 DEF UploadInv, VersionTells, MessageTells, jobVars
<1>5. PutTells(p)
  BY DEF UploadInv
<1>6. PutTells(p)'
  BY <1>1, <1>2, <1>5 DEF PutTells, Claimed
<1>7. OneClaims' /\ \A q \in Puts : PutTells(q)'
  BY <1>1, <1>2, <1>6, ClaimantGoes DEF Claimed
<1>8. SessionIsTrue'
  BY <1>1 DEF UploadInv, SessionIsTrue, jobVars
<1> QED BY <1>3, <1>4, <1>7, <1>8 DEF UploadInv

LEMMA PutCommitsKeeps ==
  ASSUME UploadInv, NEW p \in Puts, PutCommits(p)
  PROVE  UploadInv'
<1> DEFINE queued == [session EXCEPT !.status = "QUEUED", !.version = 3, !.key = p]
<1>1. /\ put[p] = "PROMOTED" /\ p \in originals /\ session \in Session
      /\ session.status = "SCANNING" /\ session.version = 2 /\ ~session.dropped
      /\ ~result
  BY DEF PutCommits, Unmoved, UploadInv, PutTells, UploadTypeOK, VersionTells, SessionIsTrue
<1>2. session' = queued
  <2>1. session.version + 1 = 3
    BY <1>1
  <2> QED BY <2>1 DEF PutCommits
<1>3. /\ session' \in Session /\ session'.status = "QUEUED" /\ session'.version = 3
      /\ session'.key = p /\ ~session'.dropped
  <2>1. session' \in Session
    <3>1. 3 \in 0 .. 6
      OBVIOUS
    <3> QED BY <1>1, <1>2, <3>1 DEF Session, UploadStatus
  <2>2. session'.status = "QUEUED" /\ session'.version = 3 /\ session'.key = p
    BY <1>1, <1>2 DEF Session
  <2>3. session'.dropped = session.dropped
    BY <1>1, <1>2 DEF Session
  <2> QED BY <1>1, <2>1, <2>2, <2>3
<1>4. /\ job' \in Job /\ job'.status = "PENDING" /\ job'.aggregate = 3
  <2>1. NoJob \in Job
    BY DEF NoJob, Job
  <2>2. job' = [NoJob EXCEPT !.status = "PENDING", !.aggregate = 3]
    BY DEF PutCommits
  <2>3. job' \in Job
    <3>1. 3 \in 0 .. 6
      OBVIOUS
    <3> QED BY <2>1, <2>2, <3>1 DEF Job
  <2>4. job'.status = "PENDING" /\ job'.aggregate = 3
    BY <2>1, <2>2 DEF Job
  <2> QED BY <2>3, <2>4
<1>5. /\ event' = "OPEN"
      /\ UNCHANGED <<cancelling, quarantine, originals, message, worker, result, output, faults>>
  BY DEF PutCommits
<1>6. /\ put' \in [Puts -> PutStep] /\ put'[p] = "COMMITTED"
      /\ \A q \in Puts \ {p} : put'[q] = put[q]
  BY PutGone DEF PutCommits, PutStep
<1>7. UploadTypeOK'
  BY <1>3, <1>4, <1>5, <1>6 DEF UploadInv, UploadTypeOK
<1>8. VersionTells' /\ MessageTells' /\ (cancelling' => session'.dropped)
  BY <1>1, <1>3, <1>4, <1>5 DEF UploadInv, VersionTells, MessageTells
<1>9. PutTells(p)'
  BY <1>3, <1>6 DEF PutTells
<1>10. OneClaims' /\ \A q \in Puts : PutTells(q)'
  BY <1>1, <1>6, <1>9, ClaimantGoes DEF Claimed
<1>11. SessionIsTrue'
  BY <1>1, <1>3, <1>4, <1>5 DEF SessionIsTrue
<1> QED BY <1>7, <1>8, <1>10, <1>11 DEF UploadInv

LEMMA PutThrowsKeeps ==
  ASSUME UploadInv, NEW p \in Puts, PutThrows(p)
  PROVE  UploadInv'
<1>1. /\ put[p] \in {"CLAIMED", "SCANNING", "PROMOTED", "COMMITTED"}
      /\ UNCHANGED <<session, cancelling, quarantine, originals, jobVars>>
      /\ faults' \in 0 .. MaxFaults
      /\ (faults' = faults /\ put[p] # "COMMITTED") \/ faults' # 0
  <2>1. CASE UNCHANGED faults /\ put[p] \in {"CLAIMED", "SCANNING", "PROMOTED"}
    BY <2>1 DEF PutThrows, UploadInv, UploadTypeOK
  <2>2. CASE Fault /\ put[p] \in {"PROMOTED", "COMMITTED"}
    BY <2>2, Counted DEF PutThrows
  <2> QED BY <2>1, <2>2 DEF PutThrows
<1>2. /\ put' \in [Puts -> PutStep] /\ put'[p] = "FAILING"
      /\ \A q \in Puts \ {p} : put'[q] = put[q]
  BY PutGone DEF PutThrows, PutStep
<1>3. UploadTypeOK'
  BY <1>1, <1>2 DEF UploadInv, UploadTypeOK, jobVars
<1>4. VersionTells' /\ MessageTells' /\ (cancelling' => session'.dropped)
  BY <1>1 DEF UploadInv, VersionTells, MessageTells, jobVars
<1>5. PutTells(p)
  BY DEF UploadInv
<1>6. PutTells(p)'
  BY <1>1, <1>2, <1>5, UploadsAssumption DEF PutTells, Claimed
<1>7. OneClaims' /\ \A q \in Puts : PutTells(q)'
  BY <1>1, <1>2, <1>6, ClaimantGoes DEF Claimed
<1>8. SessionIsTrue'
  BY <1>1 DEF UploadInv, SessionIsTrue, jobVars
<1> QED BY <1>1, <1>3, <1>4, <1>7, <1>8 DEF UploadInv

LEMMA PutCatchesKeeps ==
  ASSUME UploadInv, NEW p \in Puts, PutCatches(p)
  PROVE  UploadInv'
<1>1. /\ put[p] = "FAILING" /\ originals' = originals \ {p} /\ quarantine' = FALSE
      /\ UNCHANGED <<cancelling, jobVars, faults>>
      /\ faults = 0 => session.key # p
  BY DEF PutCatches, UploadInv, PutTells
<1>2. /\ put' \in [Puts -> PutStep] /\ put'[p] = "DONE"
      /\ \A q \in Puts \ {p} : put'[q] = put[q]
  BY PutGone DEF PutCatches, PutStep
<1>3. \/ session' = session
      \/ /\ session.status \in {"QUARANTINED", "SCANNING"} /\ session' \in Session
         /\ session'.status \in {"REJECTED", "FAILED"} /\ session'.key = session.key
         /\ session'.version = session.version + 1 /\ session'.dropped = session.dropped
  BY SessionMoved DEF PutCatches, UploadStatus
<1>4. UploadTypeOK'
  BY <1>1, <1>2, <1>3 DEF UploadInv, UploadTypeOK, jobVars
<1>5. VersionTells' /\ (cancelling' => session'.dropped)
  <2>1. session.status = "SCANNING" \/ session.status = "QUARANTINED"
          => session.version + 1 <= 5
    BY DEF UploadInv, VersionTells
  <2> QED BY <1>1, <1>3, <2>1 DEF UploadInv, VersionTells, Accepted, jobVars
<1>6. PutTells(p)'
  BY <1>2 DEF PutTells, Claimed
<1>7. OneClaims' /\ \A q \in Puts : PutTells(q)'
  BY <1>1, <1>2, <1>6, ClaimantGoes DEF Claimed
<1>8. SessionIsTrue'
  <2>1. UNCHANGED <<result, job, faults>>
    BY <1>1 DEF jobVars
  <2>2. faults = 0 /\ session.status \in Accepted => session.key \in originals'
    BY <1>1 DEF UploadInv, SessionIsTrue
  <2>3. CASE session' = session
    BY <2>1, <2>2, <2>3 DEF UploadInv, SessionIsTrue
  <2>4. CASE session' # session
    BY <1>3, <2>1, <2>4 DEF UploadInv, SessionIsTrue, Accepted
  <2> QED BY <2>3, <2>4
<1>9. MessageTells'
  BY <1>1 DEF UploadInv, MessageTells, jobVars
<1> QED BY <1>4, <1>5, <1>7, <1>8, <1>9 DEF UploadInv

-----------------------------------------------------------------------------
(* Cancellation and expiry.                                                  *)

LEMMA DropKeeps ==
  ASSUME UploadInv, Cancels \/ CleanupExpired
  PROVE  UploadInv'
<1>1. session.status \in {"CREATED", "QUARANTINED", "SCANNING", "QUEUED"}
  BY DEF Cancels, Cancellable, CleanupExpired
<1>2. /\ session' \in Session /\ session'.status \in {"CANCELLED", "EXPIRED"}
      /\ session'.version = session.version + 1 /\ session'.dropped
      /\ session'.key = session.key
  BY SessionDropped DEF Cancels, CleanupExpired
<1>3. /\ UNCHANGED <<put, originals, jobVars, faults>>
      /\ cancelling' \in BOOLEAN /\ quarantine' \in BOOLEAN
  BY DEF Cancels, CleanupExpired, UploadInv, UploadTypeOK
<1>4. session.version + 1 <= 5
  BY <1>1 DEF UploadInv, VersionTells
<1>5. VersionTells' /\ MessageTells' /\ (cancelling' => session'.dropped)
  BY <1>2, <1>3, <1>4 DEF UploadInv, VersionTells, Accepted, MessageTells, jobVars
<1>6. ASSUME NEW p \in Puts PROVE PutTells(p)'
  <2>1. PutTells(p)
    BY DEF UploadInv
  <2>2. put[p] = "CLAIMED" => session.version = 1
    BY <1>1, <2>1 DEF PutTells, UploadInv, VersionTells
  <2> QED BY <1>2, <1>3, <2>1, <2>2 DEF PutTells
<1>7. OneClaims'
  BY <1>3 DEF UploadInv, OneClaims
<1>8. SessionIsTrue'
  BY <1>1, <1>2, <1>3 DEF UploadInv, SessionIsTrue, Accepted, jobVars
<1>9. UploadTypeOK'
  BY <1>2, <1>3 DEF UploadInv, UploadTypeOK, jobVars
<1> QED BY <1>5, <1>6, <1>7, <1>8, <1>9 DEF UploadInv

\* A cancel that committed removes the original of a session nobody accepts; a
\* request that has promoted one, but did not commit, finds it all the same.
LEMMA CancelEndsKeeps ==
  ASSUME UploadInv, CancelEnds
  PROVE  UploadInv'
<1>1. /\ session.dropped /\ session.status \notin Accepted /\ cancelling' = FALSE
      /\ UNCHANGED <<session, put, jobVars>>
  BY DEF CancelEnds, UploadInv, SessionIsTrue
<1>2. /\ quarantine' \in BOOLEAN
      /\ originals' = originals \/ originals' = originals \ {session.key}
      /\ faults' \in 0 .. MaxFaults /\ (faults' = faults \/ faults' # 0)
  <2>1. CASE UNCHANGED faults /\ quarantine' = FALSE /\ originals' = originals \ {session.key}
    BY <2>1 DEF UploadInv, UploadTypeOK
  <2>2. CASE Fault /\ UNCHANGED <<quarantine, originals>>
    BY <2>2, Counted DEF UploadInv, UploadTypeOK
  <2> QED BY <2>1, <2>2 DEF CancelEnds
<1>3. UploadTypeOK'
  BY <1>1, <1>2 DEF UploadInv, UploadTypeOK, jobVars
<1>4. VersionTells' /\ MessageTells'
  BY <1>1 DEF UploadInv, VersionTells, MessageTells, jobVars
<1>5. ASSUME NEW p \in Puts PROVE PutTells(p)'
  <2>1. PutTells(p) /\ put'[p] = put[p] /\ None # p
    BY <1>1, UploadsAssumption DEF UploadInv
  <2>2. put[p] = "PROMOTED" => p \in originals'
    BY <1>2, <2>1 DEF PutTells
  <2> QED BY <1>1, <1>2, <2>1, <2>2 DEF PutTells
<1>6. OneClaims'
  BY <1>1 DEF UploadInv, OneClaims
<1>7. SessionIsTrue'
  BY <1>1 DEF UploadInv, SessionIsTrue, jobVars
<1> QED BY <1>1, <1>3, <1>4, <1>5, <1>6, <1>7 DEF UploadInv

-----------------------------------------------------------------------------
(* The queue and the worker.                                                 *)

\* What a step of the queue or of a worker that leaves session and job shows.
LEMMA QuietWork ==
  ASSUME UploadInv, UNCHANGED <<session, put, cancelling, quarantine, originals, result>>,
         job' \in Job, job'.aggregate = job.aggregate,
         (job'.status = "SUCCEEDED") <=> (job.status = "SUCCEEDED"),
         event' \in {"NONE", "OPEN", "PUBLISHED"},
         message' \in Message, MessageTells',
         worker' \in [Workers -> WorkerStep], output' \in BOOLEAN,
         faults' \in 0 .. MaxFaults, faults' = faults \/ faults' # 0
  PROVE  UploadInv'
<1>1. UploadTypeOK'
  BY DEF UploadInv, UploadTypeOK
<1>2. /\ VersionTells' /\ SessionIsTrue' /\ (cancelling' => session'.dropped)
      /\ \A p \in Puts : PutTells(p)'
      /\ OneClaims'
  BY SessionKept
<1> QED BY <1>1, <1>2 DEF UploadInv

LEMMA MessageRow ==
  ASSUME UploadInv
  PROVE  /\ message \in Message /\ message.made \in 0 .. MaxTries
         /\ MaxTries \in Nat \ {0} /\ 0 \in 0 .. MaxTries
         /\ message.by # None => message.status = "ACTIVE" /\ message.made < MaxTries
         /\ message.status \in {"NONE", "WAITING", "ACTIVE"} => message.made < MaxTries
BY UploadsAssumption DEF UploadInv, UploadTypeOK, Message, MessageTells

\* The handler returns, throws, or goes on.
LEMMA HandlerGoes ==
  ASSUME UploadInv, NEW w \in Workers,
         \/ Returns(w) \/ Throws(w)
         \/ \E step \in WorkerStep : WorkerGoes(w, step)
  PROVE  /\ worker' \in [Workers -> WorkerStep]
         /\ message' \in Message /\ MessageTells'
<1>1. worker' \in [Workers -> WorkerStep]
  BY DEF Returns, Throws, WorkerGoes, WorkerStep, UploadInv, UploadTypeOK
<1>2. CASE message' = message
  BY <1>1, <1>2 DEF UploadInv, UploadTypeOK, MessageTells
<1>3. CASE message.by = w /\ message' = [message EXCEPT !.status = "COMPLETED", !.by = None]
  <2>1. message' \in Message /\ message'.by = None /\ message'.status = "COMPLETED"
    BY <1>3, MessageRow DEF Message
  <2> QED BY <1>1, <2>1 DEF MessageTells
<1>4. ASSUME message.by = w,
             message' = [message EXCEPT !.by = None, !.made = message.made + 1,
                           !.status = IF message.made + 1 < MaxTries THEN "WAITING"
                                      ELSE "FAILED"]
      PROVE  message' \in Message /\ MessageTells'
  <2>1. message.made < MaxTries /\ message.made + 1 \in 0 .. MaxTries
    BY <1>4, MessageRow, UploadsAssumption
  <2>2. message' \in Message
    BY <1>4, <2>1, MessageRow DEF Message
  <2>3. message'.by = None
    BY <1>4, MessageRow DEF Message
  <2>4. message'.status \in {"NONE", "WAITING", "ACTIVE"} => message'.made < MaxTries
    BY <1>4, <2>1, MessageRow DEF Message
  <2> QED BY <2>2, <2>3, <2>4 DEF MessageTells
<1> QED BY <1>1, <1>2, <1>3, <1>4 DEF Returns, Throws, WorkerGoes

LEMMA HandlerKeeps ==
  ASSUME UploadInv, NEW w \in Workers,
         \/ ClaimRefused(w) \/ Normalizes(w) \/ CompleteWrites(w) \/ CompleteLoses(w)
         \/ LostReads(w) \/ LostRemoves(w)
  PROVE  UploadInv'
<1>1. \/ Returns(w)
      \/ \E step \in WorkerStep : WorkerGoes(w, step)
  BY DEF ClaimRefused, Normalizes, CompleteWrites, CompleteLoses, LostReads, LostRemoves,
         WorkerStep
<1>2. worker' \in [Workers -> WorkerStep] /\ message' \in Message /\ MessageTells'
  BY <1>1, HandlerGoes
<1>3. UNCHANGED <<sessionVars, job, event, result, faults>> /\ output' \in BOOLEAN
  BY DEF ClaimRefused, Normalizes, CompleteWrites, CompleteLoses, LostReads, LostRemoves,
         UploadInv, UploadTypeOK
<1> QED BY <1>2, <1>3, QuietWork DEF sessionVars, UploadInv, UploadTypeOK

LEMMA QueueKeeps ==
  ASSUME UploadInv,
         Enqueues \/ Publishes \/ Stalls \/ LeaseEnds
           \/ \E w \in Workers : Takes(w) \/ WorkerDies(w)
  PROVE  UploadInv'
<1>1. UNCHANGED <<sessionVars, result, output>>
  BY DEF Enqueues, Publishes, Stalls, LeaseEnds, Takes, WorkerDies
<1>2. output' \in BOOLEAN /\ event' \in {"NONE", "OPEN", "PUBLISHED"}
  BY DEF Enqueues, Publishes, Stalls, LeaseEnds, Takes, WorkerDies, UploadInv, UploadTypeOK
<1>3. worker' \in [Workers -> WorkerStep]
  BY DEF Enqueues, Publishes, Stalls, LeaseEnds, Takes, WorkerDies, WorkerStep,
         UploadInv, UploadTypeOK
<1>4. faults' \in 0 .. MaxFaults /\ (faults' = faults \/ faults' # 0)
  <2>1. CASE Fault
    BY <2>1, Counted
  <2>2. CASE ~Fault
    BY <2>2 DEF Enqueues, Publishes, Stalls, LeaseEnds, Takes, WorkerDies,
                UploadInv, UploadTypeOK
  <2> QED BY <2>1, <2>2
<1>5. /\ job' \in Job /\ job'.aggregate = job.aggregate
      /\ (job'.status = "SUCCEEDED") <=> (job.status = "SUCCEEDED")
  <2>1. CASE LeaseEnds
    <3>1. job \in Job /\ job' = [job EXCEPT !.alive = FALSE]
      BY <2>1 DEF LeaseEnds, UploadInv, UploadTypeOK
    <3> QED BY <3>1 DEF Job
  <2>2. CASE ~LeaseEnds
    BY <2>2 DEF Enqueues, Publishes, Stalls, Takes, WorkerDies, UploadInv, UploadTypeOK
  <2> QED BY <2>1, <2>2
<1>6. message' \in Message /\ MessageTells'
  <2>1. CASE Enqueues
    <3>1. NoMessage \in Message
      BY MessageRow DEF NoMessage, Message
    <3>2. message' = [NoMessage EXCEPT !.status = "WAITING"]
      BY <2>1 DEF Enqueues
    <3>3. message' \in Message /\ message'.by = None /\ message'.made = 0
      BY <3>1, <3>2 DEF Message, NoMessage
    <3> QED BY <3>3, UploadsAssumption DEF MessageTells
  <2>2. ASSUME NEW w \in Workers, Takes(w) PROVE message' \in Message /\ MessageTells'
    <3>1. message.status = "WAITING"
          /\ message' = [message EXCEPT !.status = "ACTIVE", !.by = w]
      BY <2>2 DEF Takes
    <3>2. /\ message' \in Message /\ message'.status = "ACTIVE"
          /\ message'.made = message.made
      BY <3>1, MessageRow DEF Message
    <3> QED BY <3>1, <3>2, MessageRow DEF MessageTells
  <2>3. CASE Stalls
    <3> DEFINE status == IF message.stalled THEN "FAILED" ELSE "WAITING"
    <3>1. message.status = "ACTIVE"
          /\ message' = [message EXCEPT !.by = None, !.stalled = TRUE, !.status = status]
      BY <2>3 DEF Stalls
    <3>2. status \in {"FAILED", "WAITING"}
      OBVIOUS
    <3> HIDE DEF status
    <3>3. /\ message' \in Message /\ message'.by = None /\ message'.made = message.made
      BY <3>1, <3>2, MessageRow DEF Message
    <3> QED BY <3>1, <3>3, MessageRow DEF MessageTells
  <2>4. CASE message' = message
    BY <2>4, MessageRow DEF UploadInv, MessageTells
  <2> QED BY <2>1, <2>2, <2>3, <2>4 DEF Publishes, LeaseEnds, WorkerDies
<1> QED BY <1>1, <1>2, <1>3, <1>4, <1>5, <1>6, QuietWork DEF sessionVars

LEMMA ClaimKeeps ==
  ASSUME UploadInv, NEW w \in Workers, Claim(w)
  PROVE  UploadInv'
<1> DEFINE starts == session.status = "QUEUED" /\ session.version = job.aggregate
           aggregate == IF starts THEN job.aggregate + 1 ELSE job.aggregate
<1>1. /\ job \in Job /\ session \in Session /\ job.aggregate \in 0 .. 6
      /\ session.status = "QUEUED" => starts /\ job.aggregate = 3
      /\ job.status # "SUCCEEDED" /\ ~result
  BY DEF UploadInv, UploadTypeOK, VersionTells, Job, Claim, Claimable
<1>2. aggregate \in 0 .. 6
  BY <1>1
<1>3. /\ job' = [job EXCEPT !.status = "RUNNING", !.owner = w, !.alive = TRUE,
                            !.aggregate = aggregate]
      /\ UNCHANGED <<put, cancelling, quarantine, originals, event, result, output, faults>>
  BY <1>1 DEF Claim, Job
<1>4. /\ starts => aggregate = 4
      /\ ~starts => aggregate = job.aggregate
  BY <1>1
<1>5. CASE starts
  <2>1. /\ session' \in Session /\ session'.status = "PROCESSING" /\ session'.version = 4
        /\ session'.key = session.key /\ session'.dropped = session.dropped
        /\ ~session.dropped
    BY <1>5, SessionMoved DEF Claim, UploadStatus, UploadInv, VersionTells, Accepted
  <2>2. job' \in Job /\ job'.aggregate = 4 /\ job'.status = "RUNNING"
    <3> HIDE DEF aggregate, starts
    <3>1. job' \in Job
      BY <1>1, <1>2, <1>3 DEF Job
    <3>2. job'.aggregate = 4 /\ job'.status = "RUNNING"
      BY <1>1, <1>3, <1>4, <1>5 DEF Job
    <3> QED BY <3>1, <3>2
  <2>3. worker' \in [Workers -> WorkerStep] /\ message' \in Message /\ MessageTells'
    BY HandlerGoes DEF Claim, WorkerStep
  <2>4. UploadTypeOK'
    BY <1>3, <2>1, <2>2, <2>3 DEF UploadInv, UploadTypeOK
  <2>5. VersionTells' /\ (cancelling' => session'.dropped)
    BY <1>3, <2>1, <2>2 DEF UploadInv, VersionTells
  <2>6. ASSUME NEW p \in Puts PROVE PutTells(p)'
    BY <1>3, <1>5, <2>1 DEF UploadInv, PutTells
  <2>7. OneClaims' /\ SessionIsTrue'
    BY <1>1, <1>3, <1>5, <2>1, <2>2 DEF UploadInv, OneClaims, SessionIsTrue, Accepted
  <2> QED BY <2>3, <2>4, <2>5, <2>6, <2>7 DEF UploadInv
<1>6. CASE ~starts
  <2>1. worker' \in [Workers -> WorkerStep] /\ message' \in Message /\ MessageTells'
    BY HandlerGoes DEF Claim, WorkerStep
  <2>2. session' = session
    BY <1>6 DEF Claim
  <2>3. job' \in Job /\ job'.aggregate = job.aggregate /\ job'.status = "RUNNING"
    <3> HIDE DEF aggregate, starts
    <3>1. job' \in Job
      BY <1>1, <1>2, <1>3 DEF Job
    <3>2. job'.aggregate = aggregate /\ job'.status = "RUNNING"
      BY <1>1, <1>3 DEF Job
    <3> QED BY <1>4, <1>6, <3>1, <3>2
  <2> QED BY <1>1, <1>3, <2>1, <2>2, <2>3, QuietWork DEF UploadInv, UploadTypeOK
<1> QED BY <1>5, <1>6

LEMMA CompleteKeeps ==
  ASSUME UploadInv, NEW w \in Workers, Complete(w)
  PROVE  UploadInv'
<1>1. /\ session.status \in {"QUEUED", "PROCESSING"} /\ ~session.dropped
      /\ session.version \in {3, 4} /\ job \in Job
  BY DEF Complete, Awaited, UploadInv, UploadTypeOK, VersionTells, Accepted
<1>2. /\ session' \in Session /\ session'.status = "READY"
      /\ session'.version = session.version + 1
      /\ session'.key = session.key /\ ~session'.dropped
  BY <1>1, SessionMoved DEF Complete, UploadStatus
<1>3. job' \in Job /\ job'.status = "SUCCEEDED"
  BY <1>1 DEF Complete, Job
<1>4. /\ result' = TRUE
      /\ UNCHANGED <<put, cancelling, quarantine, originals, event, output, faults>>
  BY DEF Complete
<1>5. worker' \in [Workers -> WorkerStep] /\ message' \in Message /\ MessageTells'
  BY HandlerGoes DEF Complete
<1>6. UploadTypeOK'
  BY <1>2, <1>3, <1>4, <1>5 DEF UploadInv, UploadTypeOK
<1>7. VersionTells' /\ (cancelling' => session'.dropped)
  BY <1>1, <1>2, <1>4 DEF UploadInv, VersionTells
<1>8. ASSUME NEW p \in Puts PROVE PutTells(p)'
  BY <1>1, <1>2, <1>4 DEF UploadInv, PutTells
<1>9. OneClaims' /\ SessionIsTrue'
  BY <1>1, <1>2, <1>3, <1>4 DEF UploadInv, OneClaims, SessionIsTrue, Accepted
<1> QED BY <1>5, <1>6, <1>7, <1>8, <1>9 DEF UploadInv

LEMMA FailKeeps ==
  ASSUME UploadInv, NEW w \in Workers, Fail(w)
  PROVE  UploadInv'
<1>1. UNCHANGED <<put, cancelling, quarantine, originals, event, result, output, faults>>
  BY DEF Fail
<1>2. worker' \in [Workers -> WorkerStep] /\ message' \in Message /\ MessageTells'
  BY HandlerGoes DEF Fail
<1>3. /\ job' \in Job /\ job'.aggregate = job.aggregate
      /\ (job'.status = "SUCCEEDED") <=> (job.status = "SUCCEEDED")
  <2> DEFINE status == IF Final THEN "DEAD_LETTER" ELSE "PENDING"
  <2>1. job \in Job
    BY DEF UploadInv, UploadTypeOK
  <2>2. \/ job' = job
        \/ /\ job.status = "RUNNING"
           /\ job' = [job EXCEPT !.owner = None, !.alive = FALSE, !.status = status]
    BY DEF Fail
  <2>3. status \in {"DEAD_LETTER", "PENDING"}
    OBVIOUS
  <2> HIDE DEF status
  <2> QED BY <2>1, <2>2, <2>3 DEF Job
<1>4. CASE session' = session
  BY <1>1, <1>2, <1>3, <1>4, QuietWork DEF UploadInv, UploadTypeOK
<1>5. CASE session' # session
  <2>1. /\ session.status \in {"QUEUED", "PROCESSING"} /\ session.version \in {3, 4}
        /\ Moves("FAILED")
    BY <1>5 DEF Fail, Awaited, UploadInv, VersionTells
  <2>2. /\ session' \in Session /\ session'.status = "FAILED"
        /\ session'.version = session.version + 1
        /\ session'.key = session.key /\ session'.dropped = session.dropped
    BY <2>1, SessionMoved DEF UploadStatus
  <2>3. UploadTypeOK'
    BY <1>1, <1>2, <1>3, <2>2 DEF UploadInv, UploadTypeOK
  <2>4. VersionTells' /\ (cancelling' => session'.dropped)
    BY <1>1, <2>1, <2>2 DEF UploadInv, VersionTells, Accepted
  <2>5. ASSUME NEW p \in Puts PROVE PutTells(p)'
    BY <1>1, <2>1, <2>2 DEF UploadInv, PutTells
  <2>6. OneClaims' /\ SessionIsTrue'
    BY <1>1, <1>3, <2>1, <2>2 DEF UploadInv, OneClaims, SessionIsTrue, Accepted
  <2> QED BY <1>2, <2>3, <2>4, <2>5, <2>6 DEF UploadInv
<1> QED BY <1>4, <1>5

LEMMA UploadStart == ASSUME UploadInit PROVE UploadInv
<1>1. NoJob \in Job /\ NoMessage \in Message /\ 0 \in 0 .. MaxFaults
  BY UploadsAssumption DEF NoJob, Job, NoMessage, Message
<1>2. session \in Session
  BY DEF UploadInit, Session, UploadStatus
<1>3. UploadTypeOK
  BY <1>1, <1>2 DEF UploadInit, UploadTypeOK, PutStep, WorkerStep
<1>4. VersionTells /\ OneClaims /\ SessionIsTrue /\ ~cancelling
  BY DEF UploadInit, VersionTells, OneClaims, SessionIsTrue, Accepted, Claimed, NoJob
<1>5. \A p \in Puts : PutTells(p)
  BY DEF UploadInit, PutTells, Claimed
<1>6. MessageTells
  BY UploadsAssumption DEF UploadInit, MessageTells, NoMessage
<1> QED BY <1>3, <1>4, <1>5, <1>6 DEF UploadInv

LEMMA UploadStepKeeps == ASSUME UploadInv, UploadNext PROVE UploadInv'
<1>1. ASSUME NEW p \in Puts, PutReads(p) \/ PutProceeds(p) \/ PutThrows(p) \/ PutDies(p)
      PROVE  UploadInv'
  BY <1>1, QuietPut, PutClaimsKeeps, PutScansKeeps, PromotesKeeps, PutCommitsKeeps,
     PutCatchesKeeps, PutThrowsKeeps DEF PutProceeds
<1>2. ASSUME NEW w \in Workers, Works(w) PROVE UploadInv'
  BY <1>2, ClaimKeeps, HandlerKeeps, CompleteKeeps, FailKeeps DEF Works
<1>3. CASE \/ Enqueues \/ Publishes \/ Stalls \/ LeaseEnds
           \/ \E w \in Workers : Takes(w) \/ WorkerDies(w)
  BY <1>3, QueueKeeps
<1> QED BY <1>1, <1>2, <1>3, DropKeeps, CancelEndsKeeps DEF UploadNext

\* The layout's steps leave the upload as it is, but for the count of faults.
LEMMA UploadRests ==
  ASSUME UploadInv, UNCHANGED <<sessionVars, jobVars>>, Fault \/ faults' = faults
  PROVE  UploadInv'
<1>1. faults' \in 0 .. MaxFaults /\ (faults' = faults \/ faults' # 0)
  BY Counted DEF UploadInv, UploadTypeOK
<1> QED BY <1>1, QuietWork DEF sessionVars, jobVars, UploadInv, UploadTypeOK, MessageTells

-----------------------------------------------------------------------------
(* The layout: its inductive invariant.                                      *)

LayoutTypeOK ==
  /\ row \in Row
  /\ made \in [Settings -> Runs \cup {None}]
  /\ review \in [Doubtful -> ReviewStatus]
  /\ approved \subseteq Settings
  /\ run \in [Runs -> GenerateCall]
  /\ stored \subseteq Runs

\* What a call has read is so still: that there is a row, and which reviews it
\* has locked, two calls never the same ones.
RunTells ==
  /\ \A r \in Runs :
       /\ run[r].pc # "IDLE" => run[r].settings \in Settings
       /\ run[r].pc \notin {"IDLE", "CREATE", "DONE"} => row.status # "NONE"
       /\ \A s \in run[r].seen : review[s] = "PENDING"
  /\ \A r, q \in Runs : r # q => run[r].seen \cap run[q].seen = {}

\* The row is about the artifact of its settings, and says whether it is approved.
RowTells ==
  /\ row.status = "NONE" => row = NoRow
  /\ row.status # "NONE" => row.settings \in Settings
  /\ row.status \in {"MANUAL_REVIEW_REQUIRED", "AWAITING_APPROVAL", "APPROVED"}
       => row.artifact = row.settings /\ made[row.settings] # None
  /\ (row.status = "APPROVED") <=> (row.approval # None)
  /\ row.approval # None => row.approval = row.artifact

\* What is asked of the customer or of a reviewer was not approved before.
ApprovalTells ==
  /\ \A s \in approved : made[s] # None
  /\ \A s \in approved \cap Doubtful : review[s] = "APPROVED"
  /\ row.status \in {"MANUAL_REVIEW_REQUIRED", "AWAITING_APPROVAL"}
       => row.artifact \notin approved
  /\ row.status = "AWAITING_APPROVAL" /\ row.artifact \in Doubtful
       => review[row.artifact] = "APPROVED"

LayoutInv == LayoutTypeOK /\ RunTells /\ RowTells /\ ApprovalTells

IInv == UploadInv /\ LayoutInv

-----------------------------------------------------------------------------
(* The calls.                                                                *)

LEMMA RunRow ==
  ASSUME LayoutInv, NEW r \in Runs
  PROVE  /\ run \in [Runs -> GenerateCall] /\ run[r] \in GenerateCall
         /\ run[r].seen \subseteq Doubtful /\ run[r].settings \in Settings \cup {None}
         /\ run[r].pc # "IDLE" => run[r].settings \in Settings
         /\ run[r].pc \notin {"IDLE", "CREATE", "DONE"} => row.status # "NONE"
BY DEF LayoutInv, LayoutTypeOK, RunTells, GenerateCall

LEMMA CallGone ==
  ASSUME LayoutInv, NEW r \in Runs,
         NEW pc \in {"WORKING", "STORED", "COMMITTED", "DONE"}, Goes(r, pc)
  PROVE  /\ run' \in [Runs -> GenerateCall]
         /\ run'[r].pc = pc /\ run'[r].seen = {} /\ run'[r].settings = run[r].settings
         /\ \A q \in Runs \ {r} : run'[q] = run[q]
<1> DEFINE call == [[run[r] EXCEPT !.pc = pc] EXCEPT !.seen = {}]
<1>1. run[r] \in GenerateCall
  BY RunRow
<1>2. /\ call \in GenerateCall /\ call.pc = pc /\ call.seen = {}
      /\ call.settings = run[r].settings
  BY <1>1 DEF GenerateCall
<1>3. run' = [run EXCEPT ![r] = call]
  BY <1>1 DEF Goes, LayoutInv, LayoutTypeOK
<1> HIDE DEF call
<1> QED BY <1>2, <1>3, RunRow

\* A call goes on from where there is a row; what it writes supersedes no review
\* but those it has locked.
LEMMA CallKeepsRuns ==
  ASSUME LayoutInv, NEW r \in Runs,
         NEW pc \in {"WORKING", "STORED", "COMMITTED", "DONE"}, Goes(r, pc),
         run[r].pc # "IDLE",
         row.status # "NONE" => row'.status # "NONE",
         pc # "DONE" => row'.status # "NONE",
         \A q \in Runs \ {r} : \A s \in run[q].seen :
           review[s] = "PENDING" => review'[s] = "PENDING"
  PROVE  run' \in [Runs -> GenerateCall] /\ RunTells'
<1>1. /\ run' \in [Runs -> GenerateCall]
      /\ run'[r].pc = pc /\ run'[r].seen = {} /\ run'[r].settings = run[r].settings
      /\ \A q \in Runs \ {r} : run'[q] = run[q]
  BY CallGone
<1>2. ASSUME NEW q \in Runs
      PROVE  /\ run'[q].pc # "IDLE" => run'[q].settings \in Settings
             /\ run'[q].pc \notin {"IDLE", "CREATE", "DONE"} => row'.status # "NONE"
             /\ \A s \in run'[q].seen : review'[s] = "PENDING"
  <2>1. CASE q = r
    BY <1>1, <2>1, RunRow
  <2>2. CASE q # r
    BY <1>1, <2>2 DEF LayoutInv, RunTells
  <2> QED BY <2>1, <2>2
<1>3. ASSUME NEW p \in Runs, NEW q \in Runs, p # q
      PROVE  run'[p].seen \cap run'[q].seen = {}
  BY <1>1, <1>3 DEF LayoutInv, RunTells
<1> QED BY <1>1, <1>2, <1>3 DEF RunTells

LEMMA ReadsKeeps ==
  ASSUME LayoutInv, NEW r \in Runs, NEW s \in Settings, Reads(r, s)
  PROVE  LayoutInv'
<1> DEFINE step == CASE row = NoRow -> "CREATE"
                     [] row.settings = s /\ row.status # "PROCESSING" -> "DONE"
                     [] OTHER -> "REVISE"
           call == [NoCall EXCEPT !.settings = s, !.pc = step]
<1>1. /\ step \in {"CREATE", "DONE", "REVISE"}
      /\ step \notin {"CREATE", "DONE"} => row # NoRow
  OBVIOUS
<1>2. run' = [run EXCEPT ![r] = call] /\ UNCHANGED <<row, made, review, approved, stored>>
  BY DEF Reads
<1> HIDE DEF step
<1>3. call \in GenerateCall /\ call.settings = s /\ call.pc = step /\ call.seen = {}
  BY <1>1 DEF NoCall, GenerateCall
<1> HIDE DEF call
<1>4. /\ run' \in [Runs -> GenerateCall] /\ run'[r] = call
      /\ \A q \in Runs \ {r} : run'[q] = run[q]
  BY <1>2, <1>3 DEF LayoutInv, LayoutTypeOK
<1>5. LayoutTypeOK' /\ RowTells' /\ ApprovalTells'
  BY <1>2, <1>4 DEF LayoutInv, LayoutTypeOK, RowTells, ApprovalTells
<1>6. row # NoRow => row.status # "NONE"
  BY DEF LayoutInv, RowTells
<1>7. RunTells'
  <2>1. ASSUME NEW q \in Runs
        PROVE  /\ run'[q].pc # "IDLE" => run'[q].settings \in Settings
               /\ run'[q].pc \notin {"IDLE", "CREATE", "DONE"} => row'.status # "NONE"
               /\ \A t \in run'[q].seen : review'[t] = "PENDING"
    <3>1. CASE q = r
      BY <1>1, <1>2, <1>3, <1>4, <1>6, <3>1
    <3>2. CASE q # r
      BY <1>2, <1>4, <3>2 DEF LayoutInv, RunTells
    <3> QED BY <3>1, <3>2
  <2>2. ASSUME NEW p \in Runs, NEW q \in Runs, p # q
        PROVE  run'[p].seen \cap run'[q].seen = {}
    BY <1>3, <1>4, <2>2 DEF LayoutInv, RunTells
  <2> QED BY <2>1, <2>2 DEF RunTells
<1> QED BY <1>5, <1>7 DEF LayoutInv

\* The reviews a call locks were locked by no other.
LEMMA SupersedesKeeps ==
  ASSUME LayoutInv, NEW r \in Runs, Supersedes(r)
  PROVE  LayoutInv'
<1> DEFINE call == [[run[r] EXCEPT !.pc = "LOCKED"] EXCEPT !.seen = Pending]
<1>1. run[r] \in GenerateCall /\ run[r].pc = "REVISE" /\ run[r].settings \in Settings
      /\ row.status # "NONE"
  BY RunRow DEF Supersedes
<1>2. Pending \subseteq Doubtful /\ \A s \in Pending : review[s] = "PENDING"
  BY DEF Pending
<1>3. /\ call \in GenerateCall /\ call.pc = "LOCKED" /\ call.seen = Pending
      /\ call.settings = run[r].settings
  BY <1>1, <1>2 DEF GenerateCall
<1>4. /\ run' = [run EXCEPT ![r] = call]
      /\ UNCHANGED <<row, made, review, approved, stored>>
  BY <1>1 DEF Supersedes, LayoutInv, LayoutTypeOK
<1> HIDE DEF call
<1>5. /\ run' \in [Runs -> GenerateCall] /\ run'[r] = call
      /\ \A q \in Runs \ {r} : run'[q] = run[q]
  BY <1>3, <1>4 DEF LayoutInv, LayoutTypeOK
<1>6. \A q \in Runs : Pending \cap run[q].seen = {}
  BY DEF Supersedes, Locked
<1>7. LayoutTypeOK' /\ RowTells' /\ ApprovalTells'
  BY <1>4, <1>5 DEF LayoutInv, LayoutTypeOK, RowTells, ApprovalTells
<1>8. RunTells'
  <2>1. ASSUME NEW q \in Runs
        PROVE  /\ run'[q].pc # "IDLE" => run'[q].settings \in Settings
               /\ run'[q].pc \notin {"IDLE", "CREATE", "DONE"} => row'.status # "NONE"
               /\ \A t \in run'[q].seen : review'[t] = "PENDING"
    <3>1. CASE q = r
      BY <1>1, <1>2, <1>3, <1>4, <1>5, <3>1
    <3>2. CASE q # r
      BY <1>4, <1>5, <3>2 DEF LayoutInv, RunTells
    <3> QED BY <3>1, <3>2
  <2>2. ASSUME NEW p \in Runs, NEW q \in Runs, p # q
        PROVE  run'[p].seen \cap run'[q].seen = {}
    BY <1>3, <1>5, <1>6, <2>2 DEF LayoutInv, RunTells
  <2> QED BY <2>1, <2>2 DEF RunTells
<1> QED BY <1>7, <1>8 DEF LayoutInv

LEMMA CreatesKeeps ==
  ASSUME LayoutInv, NEW r \in Runs, Creates(r)
  PROVE  LayoutInv'
<1> DEFINE first == [[NoRow EXCEPT !.status = "PROCESSING"] EXCEPT !.settings = run[r].settings]
<1>1. /\ run[r].pc = "CREATE" /\ run[r].settings \in Settings
      /\ UNCHANGED <<made, review, approved, stored>>
  BY RunRow DEF Creates
<1>2. /\ first \in Row /\ first.status = "PROCESSING" /\ first.settings = run[r].settings
      /\ first.approval = None /\ first.artifact = None
  BY <1>1 DEF NoRow, Row, LayoutStatus
<1>3. CASE row = NoRow
  <2>1. row' = first /\ Goes(r, "WORKING")
    BY <1>3 DEF Creates
  <2> HIDE DEF first
  <2>2. run' \in [Runs -> GenerateCall] /\ RunTells'
    BY <1>1, <1>2, <2>1, CallKeepsRuns
  <2>3. LayoutTypeOK' /\ RowTells' /\ ApprovalTells'
    BY <1>1, <1>2, <2>1, <2>2 DEF LayoutInv, LayoutTypeOK, RowTells, ApprovalTells
  <2> QED BY <2>2, <2>3 DEF LayoutInv
<1>4. CASE row # NoRow
  <2>1. row' = row /\ Goes(r, "DONE")
    BY <1>4 DEF Creates
  <2>2. run' \in [Runs -> GenerateCall] /\ RunTells'
    BY <1>1, <2>1, CallKeepsRuns
  <2>3. LayoutTypeOK' /\ RowTells' /\ ApprovalTells'
    BY <1>1, <2>1, <2>2 DEF LayoutInv, LayoutTypeOK, RowTells, ApprovalTells
  <2> QED BY <2>2, <2>3 DEF LayoutInv
<1> QED BY <1>3, <1>4

\* A review that was approved was not pending, and is not superseded.
LEMMA RevisesKeeps ==
  ASSUME LayoutInv, NEW r \in Runs, Revises(r)
  PROVE  LayoutInv'
<1> DEFINE s == run[r].settings
<1>1. /\ run[r].pc = "LOCKED" /\ s \in Settings /\ row \in Row /\ row.status # "NONE"
      /\ \A t \in run[r].seen : review[t] = "PENDING"
      /\ \A q \in Runs \ {r} : run[r].seen \cap run[q].seen = {}
      /\ Goes(r, "WORKING") /\ UNCHANGED <<made, approved, stored>>
  BY RunRow DEF Revises, LayoutInv, LayoutTypeOK, RunTells
<1> HIDE DEF s
<1>2. row' = [row EXCEPT !.status = "PROCESSING", !.settings = s, !.approval = None]
  BY DEF Revises, Revision, s
<1>3. /\ row' \in Row /\ row'.status = "PROCESSING" /\ row'.settings = s
      /\ row'.approval = None /\ row'.artifact = row.artifact
  BY <1>1, <1>2 DEF Row, LayoutStatus
<1>4. /\ review' \in [Doubtful -> ReviewStatus]
      /\ \A t \in Doubtful : t \notin run[r].seen => review'[t] = review[t]
  BY DEF Revises, LayoutInv, LayoutTypeOK, ReviewStatus
<1>5. run' \in [Runs -> GenerateCall] /\ RunTells'
  <2>1. ASSUME NEW q \in Runs \ {r}, NEW t \in run[q].seen, review[t] = "PENDING"
        PROVE  review'[t] = "PENDING"
    <3>1. t \in Doubtful /\ t \notin run[r].seen
      BY <1>1, RunRow
    <3> QED BY <1>4, <2>1, <3>1
  <2> QED BY <1>1, <1>3, <2>1, CallKeepsRuns
<1>6. \A t \in Doubtful : review[t] = "APPROVED" => review'[t] = "APPROVED"
  BY <1>1, <1>4
<1>7. LayoutTypeOK' /\ RowTells'
  BY <1>1, <1>3, <1>4, <1>5 DEF LayoutInv, LayoutTypeOK, RowTells
<1>8. ApprovalTells'
  BY <1>1, <1>3, <1>6 DEF LayoutInv, ApprovalTells
<1> QED BY <1>5, <1>7, <1>8 DEF LayoutInv

LEMMA PreflightFailsKeeps ==
  ASSUME LayoutInv, NEW r \in Runs, PreflightFails(r)
  PROVE  LayoutInv'
<1>1. /\ run[r].pc = "WORKING" /\ row \in Row /\ row.status # "NONE"
      /\ row' = [row EXCEPT !.status = "QUALITY_CHECK_FAILED", !.approval = None]
      /\ Goes(r, "DONE") /\ UNCHANGED <<made, review, approved, stored>>
  BY RunRow DEF PreflightFails, Failure, LayoutInv, LayoutTypeOK
<1>2. /\ row' \in Row /\ row'.status = "QUALITY_CHECK_FAILED" /\ row'.approval = None
      /\ row'.settings = row.settings /\ row'.artifact = row.artifact
  BY <1>1 DEF Row, LayoutStatus
<1>3. run' \in [Runs -> GenerateCall] /\ RunTells'
  BY <1>1, <1>2, CallKeepsRuns
<1>4. LayoutTypeOK' /\ RowTells' /\ ApprovalTells'
  BY <1>1, <1>2, <1>3 DEF LayoutInv, LayoutTypeOK, RowTells, ApprovalTells
<1> QED BY <1>3, <1>4 DEF LayoutInv

\* Steps that leave the row and the reviews.
LEMMA QuietCall ==
  ASSUME LayoutInv, NEW r \in Runs,
         \/ Stores(r) \/ Refused(r) \/ Audits(r) \/ GenerateThrows(r) \/ GenerateDies(r)
  PROVE  LayoutInv'
<1>1. PICK pc \in {"STORED", "DONE"} : /\ Goes(r, pc)
                                       /\ pc = "STORED" => run[r].pc = "WORKING"
  BY DEF Stores, Refused, Audits, GenerateThrows, GenerateDies
<1>2. /\ run[r].pc # "IDLE" /\ stored' \subseteq Runs
      /\ UNCHANGED <<row, made, review, approved>>
  BY DEF Stores, Refused, Audits, GenerateThrows, GenerateDies, LayoutInv, LayoutTypeOK
<1>3. run' \in [Runs -> GenerateCall] /\ RunTells'
  <2>1. pc = "STORED" => row.status # "NONE"
    BY <1>1, RunRow
  <2> QED BY <1>1, <1>2, <2>1, CallKeepsRuns
<1>4. LayoutTypeOK' /\ RowTells' /\ ApprovalTells'
  BY <1>2, <1>3 DEF LayoutInv, LayoutTypeOK, RowTells, ApprovalTells
<1> QED BY <1>3, <1>4 DEF LayoutInv

\* Settings without an artifact have no approval; theirs is now the latest one.
LEMMA CommitsKeeps ==
  ASSUME LayoutInv, NEW r \in Runs, Commits(r)
  PROVE  LayoutInv'
<1> DEFINE s == run[r].settings
           status == Shown(s)
<1>1. /\ run[r].pc = "STORED" /\ s \in Settings /\ row \in Row
      /\ row.settings = s /\ row.status = "PROCESSING" /\ made[s] = None
      /\ Goes(r, "COMMITTED") /\ UNCHANGED <<approved, stored>>
  BY RunRow DEF Commits, IsCurrent, LayoutInv, LayoutTypeOK
<1>2. /\ status \in {"MANUAL_REVIEW_REQUIRED", "AWAITING_APPROVAL"}
      /\ s \in Doubtful => status = "MANUAL_REVIEW_REQUIRED"
  BY DEF Shown
<1>3. /\ made' = [made EXCEPT ![s] = r]
      /\ row' = [row EXCEPT !.artifact = s, !.status = status]
      /\ review' = IF s \in Doubtful THEN [review EXCEPT ![s] = "PENDING"] ELSE review
  BY DEF Commits
<1> HIDE DEF s, status
<1>4. /\ row' \in Row /\ row'.status = status /\ row'.artifact = s /\ row'.settings = s
      /\ row'.approval = row.approval
  BY <1>1, <1>2, <1>3 DEF Row, LayoutStatus
<1>5. /\ made' \in [Settings -> Runs \cup {None}] /\ made'[s] = r /\ r # None
      /\ \A t \in Settings : t # s => made'[t] = made[t]
  BY <1>1, <1>3, LayoutsAssumption DEF LayoutInv, LayoutTypeOK
<1>6. /\ review' \in [Doubtful -> ReviewStatus]
      /\ \A t \in Doubtful : t # s => review'[t] = review[t]
      /\ \A t \in Doubtful : review[t] = "PENDING" => review'[t] = "PENDING"
  BY <1>3 DEF LayoutInv, LayoutTypeOK, ReviewStatus
<1>7. run' \in [Runs -> GenerateCall] /\ RunTells'
  <2>1. \A q \in Runs \ {r} : \A t \in run[q].seen :
          review[t] = "PENDING" => review'[t] = "PENDING"
    BY <1>6, RunRow
  <2> QED BY <1>1, <1>2, <1>4, <2>1, CallKeepsRuns
<1>8. row.approval = None /\ s \notin approved /\ approved \subseteq Settings
  BY <1>1 DEF LayoutInv, LayoutTypeOK, RowTells, ApprovalTells
<1>9. LayoutTypeOK'
  BY <1>1, <1>4, <1>5, <1>6, <1>7 DEF LayoutInv, LayoutTypeOK
<1>10. RowTells'
  BY <1>1, <1>2, <1>4, <1>5, <1>8 DEF RowTells
<1>11. ApprovalTells'
  <2>1. \A t \in approved' : made'[t] # None
    BY <1>1, <1>5, <1>8 DEF LayoutInv, ApprovalTells
  <2>2. \A t \in approved' \cap Doubtful : review'[t] = "APPROVED"
    BY <1>1, <1>6, <1>8 DEF LayoutInv, ApprovalTells
  <2> QED BY <1>1, <1>2, <1>4, <1>8, <2>1, <2>2 DEF ApprovalTells
<1> QED BY <1>7, <1>9, <1>10, <1>11 DEF LayoutInv

-----------------------------------------------------------------------------
(* The customer and the administrator.                                       *)

LEMMA RunsRest ==
  ASSUME LayoutInv, UNCHANGED run, row'.status # "NONE",
         \A r \in Runs : \A s \in run[r].seen :
           review[s] = "PENDING" => review'[s] = "PENDING"
  PROVE  run' \in [Runs -> GenerateCall] /\ RunTells'
BY DEF LayoutInv, LayoutTypeOK, RunTells

LEMMA ConfirmKeeps == ASSUME LayoutInv, Confirm PROVE LayoutInv'
<1> DEFINE s == row.settings
<1>1. /\ row \in Row /\ row.status = "AWAITING_APPROVAL" /\ row.artifact = s
      /\ s \in Settings /\ s # None /\ made[s] # None
      /\ approved' = approved \cup {s}
      /\ UNCHANGED <<made, review, run, stored>>
  BY LayoutsAssumption DEF Confirm, LayoutInv, LayoutTypeOK, RowTells
<1>2. row' = [row EXCEPT !.status = "APPROVED", !.approval = s]
  BY <1>1 DEF Confirm, Confirmed
<1>3. /\ row' \in Row /\ row'.status = "APPROVED" /\ row'.approval = s
      /\ row'.settings = s /\ row'.artifact = s
  BY <1>1, <1>2 DEF Row, LayoutStatus
<1> HIDE DEF s
<1>4. run' \in [Runs -> GenerateCall] /\ RunTells'
  BY <1>1, <1>3, RunsRest
<1>5. LayoutTypeOK' /\ RowTells'
  BY <1>1, <1>3, <1>4 DEF LayoutInv, LayoutTypeOK, RowTells
<1>6. ApprovalTells'
  BY <1>1, <1>3 DEF LayoutInv, ApprovalTells
<1> QED BY <1>4, <1>5, <1>6 DEF LayoutInv

LEMMA DecideManualReviewKeeps ==
  ASSUME LayoutInv, NEW s \in Doubtful, DecideManualReview(s)
  PROVE  LayoutInv'
<1>1. /\ row \in Row /\ row.status = "MANUAL_REVIEW_REQUIRED" /\ row.artifact = s
      /\ row.settings = s /\ made[s] # None /\ review[s] = "PENDING"
      /\ \A r \in Runs : s \notin run[r].seen
      /\ UNCHANGED <<made, approved, run, stored>>
  BY DEF DecideManualReview, Decidable, Locked, LayoutInv, LayoutTypeOK, RowTells
<1>2. PICK decision \in {"APPROVED", "REJECTED"},
           status \in {"AWAITING_APPROVAL", "QUALITY_CHECK_FAILED"} :
        /\ review' = [review EXCEPT ![s] = decision]
        /\ row' = [row EXCEPT !.status = status]
        /\ status = "AWAITING_APPROVAL" => decision = "APPROVED"
  BY DEF DecideManualReview
<1>3. /\ row' \in Row /\ row'.status = status /\ row'.settings = s
      /\ row'.artifact = s /\ row'.approval = row.approval
  BY <1>1, <1>2 DEF Row, LayoutStatus
<1>4. /\ review' \in [Doubtful -> ReviewStatus] /\ review'[s] = decision
      /\ \A t \in Doubtful : t # s => review'[t] = review[t]
  BY <1>2 DEF LayoutInv, LayoutTypeOK, ReviewStatus
<1>5. run' \in [Runs -> GenerateCall] /\ RunTells'
  <2>1. \A r \in Runs : \A t \in run[r].seen :
          review[t] = "PENDING" => review'[t] = "PENDING"
    BY <1>1, <1>4, RunRow
  <2> QED BY <1>1, <1>2, <1>3, <2>1, RunsRest
<1>6. LayoutTypeOK' /\ RowTells'
  BY <1>1, <1>2, <1>3, <1>4, <1>5 DEF LayoutInv, LayoutTypeOK, RowTells
<1>7. ApprovalTells'
  BY <1>1, <1>2, <1>3, <1>4 DEF LayoutInv, ApprovalTells
<1> QED BY <1>5, <1>6, <1>7 DEF LayoutInv

-----------------------------------------------------------------------------
(* The invariants of the specification.                                      *)

LEMMA LayoutStart == ASSUME LayoutInit PROVE LayoutInv
<1>1. /\ NoRow \in Row /\ NoRow.status = "NONE" /\ NoRow.approval = None
      /\ NoCall \in GenerateCall /\ NoCall.pc = "IDLE" /\ NoCall.seen = {}
  BY DEF NoRow, Row, LayoutStatus, NoCall, GenerateCall
<1>2. LayoutTypeOK
  BY <1>1 DEF LayoutInit, LayoutTypeOK, ReviewStatus
<1>3. RunTells /\ RowTells /\ ApprovalTells
  BY <1>1 DEF LayoutInit, RunTells, RowTells, ApprovalTells
<1> QED BY <1>2, <1>3 DEF LayoutInv

LEMMA LayoutStepKeeps == ASSUME LayoutInv, LayoutNext PROVE LayoutInv'
<1>1. ASSUME NEW r \in Runs, Proceeds(r) \/ GenerateThrows(r) \/ GenerateDies(r)
      PROVE  LayoutInv'
  BY <1>1, CreatesKeeps, SupersedesKeeps, RevisesKeeps, PreflightFailsKeeps,
     QuietCall, CommitsKeeps DEF Proceeds
<1> QED
  BY <1>1, ReadsKeeps, ConfirmKeeps, DecideManualReviewKeeps DEF LayoutNext

\* Only a call that throws or dies counts as a fault.
LEMMA LayoutFaults == ASSUME LayoutNext PROVE Fault \/ faults' = faults
BY DEF LayoutNext, Reads, Proceeds, Creates, Supersedes, Revises, PreflightFails,
       Stores, Commits, Refused, Audits, GenerateThrows, GenerateDies, Confirm,
       DecideManualReview

LEMMA StepKeeps == ASSUME IInv, [Next]_vars PROVE IInv'
<1>1. CASE UploadNext /\ UNCHANGED layoutVars
  <2>1. UploadInv'
    BY <1>1, UploadStepKeeps DEF IInv
  <2>2. LayoutInv'
    BY <1>1 DEF IInv, layoutVars, LayoutInv, LayoutTypeOK, RunTells, RowTells,
                ApprovalTells
  <2> QED BY <2>1, <2>2 DEF IInv
<1>2. CASE LayoutNext /\ UNCHANGED <<sessionVars, jobVars>>
  <2>1. LayoutInv'
    BY <1>2, LayoutStepKeeps DEF IInv
  <2>2. UploadInv'
    BY <1>2, LayoutFaults, UploadRests DEF IInv
  <2> QED BY <2>1, <2>2 DEF IInv
<1>3. CASE UNCHANGED vars
  <2>1. UploadInv'
    BY <1>3, UploadRests DEF IInv, vars, uploadVars
  <2>2. LayoutInv'
    BY <1>3 DEF IInv, vars, layoutVars, LayoutInv, LayoutTypeOK, RunTells, RowTells,
                ApprovalTells
  <2> QED BY <2>1, <2>2 DEF IInv
<1> QED BY <1>1, <1>2, <1>3 DEF Next

\* The inductive invariant holds in every reachable state.
THEOREM Invariant == Spec => []IInv
<1>1. Init => IInv
  BY UploadStart, LayoutStart DEF Init, IInv
<1> QED BY <1>1, StepKeeps, PTL DEF Spec

\* The rows and objects of an upload and its layout keep their shape: no step of
\* UploadService, the workers or LayoutsService reads a column that is not there.
THEOREM TypeCorrect == Spec => []TypeOK
<1>1. IInv => TypeOK
  BY DEF IInv, UploadInv, LayoutInv, LayoutTypeOK, TypeOK
<1> QED BY <1>1, Invariant, PTL

\* putContent, cancel, cleanupExpired and the worker's complete and fail: however
\* many requests, workers and attempts there are, a session that was cancelled or
\* expired is never accepted, and a result is that of a READY one.
THEOREM SessionIsAlwaysTrue == Spec => []SessionIsTrue
<1>1. IInv => SessionIsTrue
  BY DEF IInv, UploadInv
<1> QED BY <1>1, Invariant, PTL

\* generate, confirm and decideManualReview: whichever of any number of calls of
\* generate commits or fails last, the artifact shown, asked about or approved is
\* that of the layout's settings.
THEOREM ShownIsAlwaysCurrent == Spec => []ShownIsCurrent
<1>1. IInv => ShownIsCurrent
  BY DEF IInv, UploadInv, LayoutInv, LayoutTypeOK, RowTells, TypeOK, ShownIsCurrent
<1> QED BY <1>1, Invariant, PTL

\* A document photo of low confidence is approved after its own review only, and
\* nothing is asked of the customer twice: the unique index on the previewId of
\* LayoutApproval never refuses a confirmation.
THEOREM AlwaysReviewedThenApproved == Spec => []ReviewedThenApproved
<1>1. IInv => ReviewedThenApproved
  BY DEF IInv, LayoutInv, ApprovalTells, ReviewedThenApproved
<1> QED BY <1>1, Invariant, PTL

-----------------------------------------------------------------------------
(* The refinement.                                                           *)

LEMMA LayoutTyped ==
  ASSUME NEW x \in Row, NEW n \in SUBSET Settings
  PROVE  [status |-> x.status, settings |-> x.settings, made |-> n,
          artifact |-> x.artifact, approval |-> x.approval] \in Life!Layout
BY DEF Row, LayoutStatus, Life!Layout, Life!LayoutStatus

LEMMA NowTyped ==
  ASSUME LayoutInv, LayoutInv'
  PROVE  Now \in Life!Layout /\ Now' \in Life!Layout
<1>1. row \in Row /\ row' \in Row
  BY DEF LayoutInv, LayoutTypeOK
<1>2. /\ {s \in Settings : made[s] # None} \in SUBSET Settings
      /\ {s \in Settings : made'[s] # None} \in SUBSET Settings
  OBVIOUS
<1> QED BY <1>1, <1>2, LayoutTyped DEF Now

LEMMA SameLayout ==
  ASSUME NEW x \in Life!Layout, NEW y \in Life!Layout,
         x.status = y.status, x.settings = y.settings, x.made = y.made,
         x.artifact = y.artifact, x.approval = y.approval
  PROVE  x = y
BY DEF Life!Layout

LEMMA NowTells ==
  /\ Now.status = row.status /\ Now.settings = row.settings
  /\ Now.approval = row.approval /\ Now.artifact = row.artifact
  /\ Now.made = {s \in Settings : made[s] # None}
  /\ Now'.status = row'.status /\ Now'.settings = row'.settings
  /\ Now'.approval = row'.approval /\ Now'.artifact = row'.artifact
  /\ Now'.made = {s \in Settings : made'[s] # None}
BY DEF Now

\* Creates and Revises: the settings are others, the approval is dropped.
LEMMA LifeRevises ==
  ASSUME LayoutInv, LayoutInv', NEW s \in Settings, UNCHANGED made,
         row'.status = "PROCESSING", row'.settings = s, row'.approval = None,
         row'.artifact = row.artifact
  PROVE  Life!LayoutChange("upload")
<1> DEFINE revised == [Now EXCEPT !.status = "PROCESSING", !.settings = s, !.approval = None]
<1>1. Now \in Life!Layout /\ Now' \in Life!Layout
  BY NowTyped
<1>2. /\ revised \in Life!Layout /\ revised.status = "PROCESSING" /\ revised.settings = s
      /\ revised.approval = None /\ revised.made = Now.made
      /\ revised.artifact = Now.artifact
  BY <1>1 DEF Life!Layout, Life!LayoutStatus
<1>3. /\ Now'.status = row'.status /\ Now'.settings = row'.settings
      /\ Now'.approval = row'.approval /\ Now'.artifact = row'.artifact
      /\ Now.artifact = row.artifact /\ Now'.made = Now.made
  BY DEF Now
<1>4. Now' = revised
  <2> HIDE DEF revised
  <2> QED BY <1>1, <1>2, <1>3, SameLayout
<1>5. Life!Revises("upload", s)
  BY <1>4 DEF Life!Revises
<1> QED BY <1>5 DEF Life!LayoutChange

\* PreflightFails, of whatever settings: the row is marked.
LEMMA LifeFails ==
  ASSUME LayoutInv, LayoutInv', UNCHANGED made, row.status # "NONE",
         row'.status = "QUALITY_CHECK_FAILED", row'.approval = None,
         row'.settings = row.settings, row'.artifact = row.artifact
  PROVE  Life!LayoutChange("upload")
<1> DEFINE failed == [Now EXCEPT !.status = "QUALITY_CHECK_FAILED", !.approval = None]
<1>1. Now \in Life!Layout /\ Now' \in Life!Layout
  BY NowTyped
<1>2. /\ failed \in Life!Layout /\ failed.status = "QUALITY_CHECK_FAILED"
      /\ failed.settings = Now.settings /\ failed.approval = None
      /\ failed.made = Now.made /\ failed.artifact = Now.artifact
  BY <1>1 DEF Life!Layout, Life!LayoutStatus
<1>3. /\ Now'.status = row'.status /\ Now'.settings = row'.settings
      /\ Now'.approval = row'.approval /\ Now'.artifact = row'.artifact
      /\ Now.artifact = row.artifact /\ Now.settings = row.settings
      /\ Now'.made = Now.made
  BY DEF Now
<1>4. Now' = failed
  <2> HIDE DEF failed
  <2> QED BY <1>1, <1>2, <1>3, SameLayout
<1>5. Life!Fails("upload")
  BY <1>4, NowTells DEF Life!Fails
<1> QED BY <1>5 DEF Life!LayoutChange

\* Commits: the settings had no artifact, and have one now.
LEMMA LifeProduces ==
  ASSUME LayoutInv, LayoutInv', NEW s \in Settings,
         NEW status \in {"AWAITING_APPROVAL", "MANUAL_REVIEW_REQUIRED"},
         row.status = "PROCESSING", row.settings = s, made[s] = None,
         row'.status = status, row'.settings = s, row'.artifact = s,
         row'.approval = row.approval,
         made'[s] # None, \A t \in Settings : t # s => made'[t] = made[t]
  PROVE  Life!LayoutChange("upload")
<1> DEFINE shown == [Now EXCEPT !.status = status, !.made = Now.made \cup {s},
                                !.artifact = s]
<1>1. Now \in Life!Layout /\ Now' \in Life!Layout
  BY NowTyped
<1>2. /\ shown \in Life!Layout /\ shown.status = status
      /\ shown.settings = Now.settings /\ shown.approval = Now.approval
      /\ shown.made = Now.made \cup {s} /\ shown.artifact = s
  BY <1>1 DEF Life!Layout, Life!LayoutStatus
<1>3. /\ Now'.status = status /\ Now'.settings = s /\ Now'.artifact = s
      /\ Now.settings = s /\ Now.status = "PROCESSING" /\ Now'.approval = Now.approval
  BY NowTells
<1>4. Now'.made = Now.made \cup {s} /\ s \notin Now.made
  BY NowTells
<1>5. Now' = shown
  <2> HIDE DEF shown
  <2> QED BY <1>1, <1>2, <1>3, <1>4, SameLayout
<1>6. Life!Produces("upload")
  BY <1>3, <1>4, <1>5 DEF Life!Produces
<1> QED BY <1>6 DEF Life!LayoutChange

\* DecideManualReview.
LEMMA LifeReviewed ==
  ASSUME LayoutInv, LayoutInv', UNCHANGED made,
         NEW status \in {"AWAITING_APPROVAL", "QUALITY_CHECK_FAILED"},
         row.status = "MANUAL_REVIEW_REQUIRED", row' = [row EXCEPT !.status = status]
  PROVE  Life!LayoutChange("upload")
<1> DEFINE decided == [Now EXCEPT !.status = status]
<1>1. Now \in Life!Layout /\ Now' \in Life!Layout
  BY NowTyped
<1>2. /\ decided \in Life!Layout /\ decided.status = status
      /\ decided.settings = Now.settings /\ decided.approval = Now.approval
      /\ decided.made = Now.made /\ decided.artifact = Now.artifact
  BY <1>1 DEF Life!Layout, Life!LayoutStatus
<1>3. /\ row'.status = status /\ row'.settings = row.settings
      /\ row'.artifact = row.artifact /\ row'.approval = row.approval
  BY DEF LayoutInv, LayoutTypeOK, Row
<1>4. /\ Now'.status = row'.status /\ Now'.settings = row'.settings
      /\ Now'.approval = row'.approval /\ Now'.artifact = row'.artifact
      /\ Now'.made = Now.made
  BY DEF Now
<1>5. Now' = decided
  <2> HIDE DEF decided
  <2> QED BY <1>1, <1>2, <1>3, <1>4, NowTells, SameLayout
<1>6. Life!Reviewed("upload")
  BY <1>5, NowTells DEF Life!Reviewed
<1> QED BY <1>6 DEF Life!LayoutChange

\* Confirm.
LEMMA LifeApproves ==
  ASSUME LayoutInv, LayoutInv', UNCHANGED made, row.status = "AWAITING_APPROVAL",
         row' = [row EXCEPT !.status = "APPROVED", !.approval = row.artifact]
  PROVE  Life!LayoutChange("upload")
<1> DEFINE confirmed == [Now EXCEPT !.status = "APPROVED", !.approval = Now.artifact]
<1>1. Now \in Life!Layout /\ Now' \in Life!Layout
  BY NowTyped
<1>2. /\ confirmed \in Life!Layout /\ confirmed.status = "APPROVED"
      /\ confirmed.settings = Now.settings /\ confirmed.approval = Now.artifact
      /\ confirmed.made = Now.made /\ confirmed.artifact = Now.artifact
  BY <1>1 DEF Life!Layout, Life!LayoutStatus
<1>3. /\ row'.status = "APPROVED" /\ row'.settings = row.settings
      /\ row'.artifact = row.artifact /\ row'.approval = row.artifact
  BY DEF LayoutInv, LayoutTypeOK, Row
<1>4. /\ Now'.status = row'.status /\ Now'.settings = row'.settings
      /\ Now'.approval = row'.approval /\ Now'.artifact = row'.artifact
      /\ Now'.made = Now.made
  BY DEF Now
<1>5. Now' = confirmed
  <2> HIDE DEF confirmed
  <2> QED BY <1>1, <1>2, <1>3, <1>4, NowTells, SameLayout
<1>6. Life!Approves("upload")
  BY <1>5, NowTells DEF Life!Approves
<1> QED BY <1>6 DEF Life!LayoutChange

\* Every step is one of LayoutLife, or changes nothing it shows.
LEMMA CallRefines ==
  ASSUME LayoutInv, LayoutInv', NEW r \in Runs, Proceeds(r)
  PROVE  Life!LayoutChange("upload") \/ UNCHANGED <<row, made>>
<1> DEFINE s == run[r].settings
<1>1. CASE Creates(r)
  <2>1. CASE row = NoRow
    <3>1. s \in Settings /\ NoRow.artifact = None
      BY <1>1, RunRow DEF Creates, NoRow
    <3>2. row' = [NoRow EXCEPT !.status = "PROCESSING", !.settings = s]
      BY <1>1, <2>1 DEF Creates
    <3>3. /\ row'.status = "PROCESSING" /\ row'.settings = s /\ row'.approval = None
          /\ row'.artifact = row.artifact /\ UNCHANGED made
      BY <1>1, <2>1, <3>1, <3>2 DEF Creates, NoRow
    <3> QED BY <3>1, <3>3, LifeRevises
  <2>2. CASE row # NoRow
    BY <1>1, <2>2 DEF Creates
  <2> QED BY <2>1, <2>2
<1>2. CASE Revises(r)
  <2>1. s \in Settings /\ row \in Row
    BY <1>2, RunRow DEF Revises, LayoutInv, LayoutTypeOK
  <2>2. row' = [row EXCEPT !.status = "PROCESSING", !.settings = s, !.approval = None]
    BY <1>2 DEF Revises, Revision
  <2>3. /\ row'.status = "PROCESSING" /\ row'.settings = s /\ row'.approval = None
        /\ row'.artifact = row.artifact /\ UNCHANGED made
    BY <1>2, <2>1, <2>2 DEF Revises, Row
  <2> QED BY <2>1, <2>3, LifeRevises
<1>3. CASE PreflightFails(r)
  <2>1. row.status # "NONE" /\ row \in Row
    BY <1>3, RunRow DEF PreflightFails, LayoutInv, LayoutTypeOK
  <2>2. row' = [row EXCEPT !.status = "QUALITY_CHECK_FAILED", !.approval = None]
    BY <1>3 DEF PreflightFails, Failure
  <2>3. /\ row'.status = "QUALITY_CHECK_FAILED" /\ row'.approval = None
        /\ row'.settings = row.settings /\ row'.artifact = row.artifact
        /\ UNCHANGED made
    BY <1>3, <2>1, <2>2 DEF PreflightFails, Row
  <2> QED BY <2>1, <2>3, LifeFails
<1>4. CASE Commits(r)
  <2> DEFINE status == Shown(s)
  <2>1. /\ s \in Settings /\ row \in Row /\ r # None
        /\ row.status = "PROCESSING" /\ row.settings = s /\ made[s] = None
    BY <1>4, RunRow, LayoutsAssumption DEF Commits, IsCurrent, LayoutInv, LayoutTypeOK
  <2>2. status \in {"AWAITING_APPROVAL", "MANUAL_REVIEW_REQUIRED"}
    BY DEF Shown
  <2>3. /\ row' = [row EXCEPT !.artifact = s, !.status = status]
        /\ made' = [made EXCEPT ![s] = r]
    BY <1>4 DEF Commits
  <2> HIDE DEF s, status
  <2>4. /\ row'.status = status /\ row'.settings = s /\ row'.artifact = s
        /\ row'.approval = row.approval
    BY <2>1, <2>3 DEF Row
  <2>5. made'[s] # None /\ \A t \in Settings : t # s => made'[t] = made[t]
    BY <2>1, <2>3 DEF LayoutInv, LayoutTypeOK
  <2> QED BY <2>1, <2>2, <2>4, <2>5, LifeProduces
<1>5. CASE Supersedes(r) \/ Stores(r) \/ Refused(r) \/ Audits(r)
  BY <1>5 DEF Supersedes, Stores, Refused, Audits
<1> QED BY <1>1, <1>2, <1>3, <1>4, <1>5 DEF Proceeds

LEMMA StepRefines ==
  ASSUME IInv, IInv', [Next]_vars
  PROVE  Life!LayoutChange("upload") \/ UNCHANGED <<row, made>>
<1>1. LayoutInv /\ LayoutInv'
  BY DEF IInv
<1>2. ASSUME LayoutNext PROVE Life!LayoutChange("upload") \/ UNCHANGED <<row, made>>
  <2>1. CASE Confirm
    BY <1>1, <2>1, LifeApproves DEF Confirm, Confirmed
  <2>2. ASSUME NEW s \in Doubtful, DecideManualReview(s)
        PROVE  Life!LayoutChange("upload")
    <3>1. row.status = "MANUAL_REVIEW_REQUIRED" /\ UNCHANGED made
      BY <2>2 DEF DecideManualReview, Decidable
    <3>2. PICK status \in {"AWAITING_APPROVAL", "QUALITY_CHECK_FAILED"} :
            row' = [row EXCEPT !.status = status]
      BY <2>2 DEF DecideManualReview
    <3> QED BY <1>1, <3>1, <3>2, LifeReviewed
  <2>3. ASSUME NEW r \in Runs,
               \/ \E s \in Settings : Reads(r, s)
               \/ GenerateThrows(r) \/ GenerateDies(r)
        PROVE  UNCHANGED <<row, made>>
    BY <2>3 DEF Reads, GenerateThrows, GenerateDies
  <2> QED BY <1>1, <1>2, <2>1, <2>2, <2>3, CallRefines DEF LayoutNext
<1> QED BY <1>2 DEF Next, vars, layoutVars

\* generate, confirm and decideManualReview implement the layout the ordering
\* services rely on: each of their statements commits one change of it, and the
\* two statements of the revising transaction may be taken for one.
THEOREM LayoutsImplementLife == Spec => ImplementsLife
<1>1. Init => Life!LayoutInit
  BY DEF Init, LayoutInit, NoRow, Now, Life!LayoutInit, Life!NoLayout
<1>2. ASSUME IInv, IInv', [Next]_vars
      PROVE  [\E u \in {"upload"} : Life!LayoutChange(u)]_[u \in {"upload"} |-> Now]
  BY <1>2, StepRefines DEF Now
<1> QED BY <1>1, <1>2, Invariant, PTL DEF Spec, ImplementsLife, Life!LifeSpec, Now
=============================================================================
