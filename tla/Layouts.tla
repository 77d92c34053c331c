-------------------------------- MODULE Layouts --------------------------------
(***************************************************************************)
(* The layout of one upload (apps/api/src/layouts/layouts.service.ts).     *)
(*                                                                         *)
(* Concurrent generate calls, with the same or other settings, read the    *)
(* row, revise it, run the preflight and store its result with no          *)
(* transaction open, and commit only if the row still has their settings;  *)
(* the customer confirms a preview and an administrator decides reviews    *)
(* meanwhile.  The service has no worker: what a call leaves undone, only  *)
(* another call does.                                                      *)
(*                                                                         *)
(* generate needs an upload that is READY.  No step of the layout writes   *)
(* anything of the upload, READY is never left, and a preflight may always *)
(* fail, also because the original is missing; the calls are therefore     *)
(* made after the last step of the upload, without loss.                   *)
(***************************************************************************)
EXTENDS Uploads

CONSTANTS
  Settings,    \* values of settingsHash, which contains the file version
  Doubtful,    \* document-photo settings whose preflight has low confidence
  Runs         \* bound: calls of generate, each made once

ASSUME LayoutsAssumption ==
  /\ Doubtful \subseteq Settings
  /\ None \notin Settings \cup Runs

VARIABLES
  row,        \* the LayoutRequest
  made,       \* PreviewVersion and PrintReadyVersion of each settings, by run
  review,     \* ManualReview of each preview
  approved,   \* previews that have a LayoutApproval, one each
  run,        \* the generate calls
  stored      \* runs whose two objects are in the object storage

layoutVars == <<row, made, review, approved, run, stored>>
vars == <<uploadVars, layoutVars>>

-----------------------------------------------------------------------------
LayoutStatus == {"NONE", "PROCESSING", "QUALITY_CHECK_FAILED",
                 "MANUAL_REVIEW_REQUIRED", "AWAITING_APPROVAL", "APPROVED"}

\* An artifact, and its approval, is named by its settings. artifact stands for
\* latestPreviewId and latestPrintReadyId, approval for currentApprovalId.
Row == [status : LayoutStatus, settings : Settings \cup {None},
        artifact : Settings \cup {None}, approval : Settings \cup {None}]
NoRow == [status |-> "NONE", settings |-> None, artifact |-> None,
          approval |-> None]

ReviewStatus == {"NONE", "PENDING", "SUPERSEDED", "APPROVED", "REJECTED"}

\* pc: CREATE and REVISE once the row was read, LOCKED between the statements of
\* the revising transaction, WORKING in the preflight, STORED and COMMITTED.
\* seen: the pending reviews that transaction found.
GenerateCall == [pc : {"IDLE", "CREATE", "REVISE", "LOCKED", "WORKING", "STORED",
              "COMMITTED", "DONE"},
        settings : Settings \cup {None}, seen : SUBSET Doubtful]
NoCall == [pc |-> "IDLE", settings |-> None, seen |-> {}]

LayoutInit ==
  /\ row = NoRow
  /\ made = [s \in Settings |-> None]
  /\ review = [s \in Doubtful |-> "NONE"]
  /\ approved = {}
  /\ run = [r \in Runs |-> NoCall]
  /\ stored = {}

Goes(r, pc) == run' = [run EXCEPT ![r].pc = pc, ![r].seen = {}]

\* Nothing of the upload is under way any more.
AtRest ==
  /\ session.status = "READY" /\ event = "PUBLISHED"
  /\ \A p \in Puts : put[p] \in {"IDLE", "DONE"}
  /\ \A w \in Workers : worker[w] = "IDLE"
  /\ message.status \in {"COMPLETED", "FAILED"}

-----------------------------------------------------------------------------
(* generate: the row.                                                      *)

\* The read outside any transaction. A layout that has the settings already is
\* returned, a failed one as well, unless it is being processed.
Reads(r, s) ==
  /\ AtRest /\ run[r].pc = "IDLE"
  /\ run' = [run EXCEPT ![r] = [NoCall EXCEPT !.settings = s, !.pc =
       CASE row = NoRow -> "CREATE"
         [] row.settings = s /\ row.status # "PROCESSING" -> "DONE"
         [] OTHER -> "REVISE"]]
  /\ UNCHANGED <<row, made, review, approved, stored, faults>>

\* The unique index on uploadId lets one of two first calls create the row.
Creates(r) ==
  /\ run[r].pc = "CREATE"
  /\ \/ /\ row = NoRow
        /\ row' = [NoRow EXCEPT !.status = "PROCESSING",
                                !.settings = run[r].settings]
        /\ Goes(r, "WORKING")
     \/ row # NoRow /\ Goes(r, "DONE") /\ UNCHANGED row
  /\ UNCHANGED <<made, review, approved, stored, faults>>

Pending == {s \in Doubtful : review[s] = "PENDING"}
Locked == UNION {run[r].seen : r \in Runs}

\* The transaction that revises the row is READ COMMITTED: the reviews it
\* supersedes are those pending when its first statement runs, and stay locked.
Supersedes(r) ==
  /\ run[r].pc = "REVISE"
  /\ Pending \cap Locked = {}
  /\ run' = [run EXCEPT ![r].pc = "LOCKED", ![r].seen = Pending]
  /\ UNCHANGED <<row, made, review, approved, stored, faults>>

\* Mutant of Revision: the approval of the previous settings stays.
RevisionApproved(s) ==
  [row EXCEPT !.status = "PROCESSING", !.settings = s]

Revision(s) ==
  [row EXCEPT !.status = "PROCESSING", !.settings = s, !.approval = None]

\* Its second statement finds the row by its id only.
Revises(r) ==
  /\ run[r].pc = "LOCKED"
  /\ row' = Revision(run[r].settings)
  /\ review' = [s \in Doubtful |->
                  IF s \in run[r].seen THEN "SUPERSEDED" ELSE review[s]]
  /\ Goes(r, "WORKING")
  /\ UNCHANGED <<made, approved, stored, faults>>

-----------------------------------------------------------------------------
(* generate: preflight, storage and commit.                                *)

\* Mutant of Failure: a preflight that fails is logged only.
FailureUnmarked == row

\* markQualityFailure, by the id only.
Failure ==
  [row EXCEPT !.status = "QUALITY_CHECK_FAILED", !.approval = None]

\* The preflight, the scan of its output or the resolution fails.
PreflightFails(r) ==
  /\ run[r].pc = "WORKING"
  /\ row' = Failure
  /\ Goes(r, "DONE")
  /\ UNCHANGED <<made, review, approved, stored, faults>>

Stores(r) ==
  /\ run[r].pc = "WORKING"
  /\ stored' = stored \cup {r}
  /\ Goes(r, "STORED")
  /\ UNCHANGED <<row, made, review, approved, faults>>

\* Mutant of IsCurrent: the commit does not compare the settings.
IsCurrentIfProcessing(r) == row.status = "PROCESSING"

\* The row is still the one this run revised, or another run's for the same.
IsCurrent(r) ==
  row.settings = run[r].settings /\ row.status = "PROCESSING"

\* Mutant of Shown: the latest artifact is shown whatever its confidence.
ShownAtOnce(s) == "AWAITING_APPROVAL"

Shown(s) ==
  IF s \in Doubtful THEN "MANUAL_REVIEW_REQUIRED" ELSE "AWAITING_APPROVAL"

\* The serializable transaction that adds both artifacts.
Commits(r) ==
  LET s == run[r].settings IN
  /\ run[r].pc = "STORED" /\ IsCurrent(r) /\ made[s] = None
  /\ made' = [made EXCEPT ![s] = r]
  /\ review' = IF s \in Doubtful THEN [review EXCEPT ![s] = "PENDING"]
               ELSE review
  /\ row' = [row EXCEPT !.artifact = s, !.status = Shown(s)]
  /\ Goes(r, "COMMITTED")
  /\ UNCHANGED <<approved, stored, faults>>

\* LAYOUT_REVISION_CHANGED, or a preview of these settings exists (created is
\* false, or P2002): the objects are removed and the row is left as it is.
Refused(r) ==
  /\ run[r].pc = "STORED"
  /\ ~IsCurrent(r) \/ made[run[r].settings] # None
  /\ stored' = stored \ {r}
  /\ Goes(r, "DONE")
  /\ UNCHANGED <<row, made, review, approved, faults>>

\* The audit record is written after the commit and ends the call.
Audits(r) ==
  /\ run[r].pc = "COMMITTED"
  /\ Goes(r, "DONE")
  /\ UNCHANGED <<row, made, review, approved, stored, faults>>

\* Storage, commit or audit record fails: the catch removes the objects, those
\* of a committed artifact too.
GenerateThrows(r) ==
  /\ run[r].pc \in {"WORKING", "STORED", "COMMITTED"}
  /\ Fault
  /\ stored' = stored \ {r}
  /\ Goes(r, "DONE")
  /\ UNCHANGED <<row, made, review, approved>>

GenerateDies(r) ==
  /\ run[r].pc \notin {"IDLE", "DONE"}
  /\ Fault
  /\ Goes(r, "DONE")
  /\ UNCHANGED <<row, made, review, approved, stored>>

-----------------------------------------------------------------------------
(* confirm and decideManualReview.                                         *)

\* Mutant of Confirmed: the approval is named by the object it was given for.
ConfirmedObject == [row EXCEPT !.status = "APPROVED",
                               !.approval = made[row.artifact]]

Confirmed == [row EXCEPT !.status = "APPROVED", !.approval = row.artifact]

\* The customer names the latest preview, which has the row's settings; the
\* unique index lets a preview be approved once.
Confirm ==
  /\ row.status = "AWAITING_APPROVAL" /\ row.artifact = row.settings
  /\ row.artifact \notin approved
  /\ approved' = approved \cup {row.artifact}
  /\ row' = Confirmed
  /\ UNCHANGED <<made, review, run, stored, faults>>

\* Mutant of Decidable: the decision is not bound to the latest preview.
DecidableAlways(s) == row.status # "NONE"

\* The decision of a review counts for the preview it was made of, shown now.
Decidable(s) == row.status = "MANUAL_REVIEW_REQUIRED" /\ row.artifact = s

DecideManualReview(s) ==
  /\ review[s] = "PENDING" /\ s \notin Locked
  /\ Decidable(s)
  /\ \E approve \in BOOLEAN :
       /\ review' = [review EXCEPT ![s] = IF approve THEN "APPROVED"
                                          ELSE "REJECTED"]
       /\ row' = [row EXCEPT !.status = IF approve THEN "AWAITING_APPROVAL"
                                        ELSE "QUALITY_CHECK_FAILED"]
  /\ UNCHANGED <<made, approved, run, stored, faults>>

-----------------------------------------------------------------------------
Proceeds(r) ==
  \/ Creates(r) \/ Supersedes(r) \/ Revises(r) \/ PreflightFails(r) \/ Stores(r)
  \/ Commits(r) \/ Refused(r) \/ Audits(r)

LayoutNext ==
  \/ \E r \in Runs : \/ \E s \in Settings : Reads(r, s)
                     \/ Proceeds(r) \/ GenerateThrows(r) \/ GenerateDies(r)
  \/ Confirm
  \/ \E s \in Doubtful : DecideManualReview(s)

Init == UploadInit /\ LayoutInit
Next == \/ UploadNext /\ UNCHANGED layoutVars
        \/ LayoutNext /\ UNCHANGED <<sessionVars, jobVars>>

Spec == Init /\ [][Next]_vars

\* A call that was made goes on: it awaits each of its steps.
FairSpec ==
  Spec /\ UploadFairness /\ \A r \in Runs : WF_layoutVars(Proceeds(r))

-----------------------------------------------------------------------------
(* Properties.                                                             *)

\* Every variable keeps the shape of the rows it stands for.
TypeOK ==
  /\ UploadTypeOK
  /\ row \in Row
  /\ made \in [Settings -> Runs \cup {None}]
  /\ review \in [Doubtful -> ReviewStatus]
  /\ approved \subseteq Settings
  /\ run \in [Runs -> GenerateCall]
  /\ stored \subseteq Runs

\* What the customer is shown, asked about or has approved is the artifact of
\* the settings the layout has now, whichever of the concurrent calls of
\* generate committed or failed last; it has an approval exactly while it is
\* APPROVED, and then that of this artifact.
ShownIsCurrent ==
  /\ TypeOK
  /\ row.status \in {"MANUAL_REVIEW_REQUIRED", "AWAITING_APPROVAL", "APPROVED"}
       => row.artifact = row.settings /\ made[row.settings] # None
  /\ (row.status = "APPROVED") <=> (row.approval # None)
  /\ row.approval # None => row.approval = row.artifact

\* A photo of low confidence is approved by the customer only after an
\* administrator accepted that very preview, and a preview the customer is asked
\* about was never approved before: the unique index refuses no confirmation.
ReviewedThenApproved ==
  /\ \A s \in approved \cap Doubtful : review[s] = "APPROVED"
  /\ row.status = "AWAITING_APPROVAL" => row.artifact \notin approved

\* The layout that the ordering services use, as the row and its artifacts give it.
Now == [status |-> row.status, settings |-> row.settings,
        made |-> {s \in Settings : made[s] # None},
        artifact |-> row.artifact, approval |-> row.approval]
Life == INSTANCE LayoutLife WITH
  Uploads <- {"upload"}, Configs <- Settings, layout <- [u \in {"upload"} |-> Now]

\* Every step of the calls, the customer and the administrator is a step of that
\* layout: the transactions of generate may be taken for its single changes.
ImplementsLife == Life!LifeSpec

\* No processing lasts for ever, however often leases run out and runs fail, as
\* long as no worker or call is lost: a queued upload becomes READY or FAILED, or
\* is cancelled, and a layout that is processed for settings that have no artifact
\* yet comes out of it, or is given other settings.
ProcessingEnds ==
  /\ UploadSettles
  /\ [](faults = 0) =>
       \A s \in Settings :
         (row.status = "PROCESSING" /\ row.settings = s /\ made[s] = None)
           ~> (row.status # "PROCESSING" \/ row.settings # s \/ made[s] # None)
===============================================================================
