------------------------------ MODULE LayoutLife ------------------------------
(***************************************************************************)
(* What the layout of one uploaded file can go through, as the ordering    *)
(* services see it: apps/api/src/layouts/layouts.service.ts reduced to its *)
(* committed changes of the LayoutRequest row.                             *)
(*                                                                         *)
(* A layout is made for settings, which hold the draft's configuration; at *)
(* most one preview and one print-ready artifact exist for each value of   *)
(* them (the unique indexes of PreviewVersion and PrintReadyVersion), and  *)
(* at most one approval of each preview.  An artifact and its approval are *)
(* therefore named by the settings they were made for, and the layout's    *)
(* version by its approval: every other change clears the approval.        *)
(***************************************************************************)
EXTENDS FiniteSets

CONSTANTS Uploads,    \* uploaded files; a layout exists at most once for each
          Configs,    \* print configurations, part of a layout's settings
          None        \* the null of a nullable column

VARIABLE layout       \* the LayoutRequest of each upload

LayoutStatus == {"NONE", "PROCESSING", "QUALITY_CHECK_FAILED",
                 "MANUAL_REVIEW_REQUIRED", "AWAITING_APPROVAL", "APPROVED"}

\* settings: settingsHash; made: the settings that have artifacts;
\* artifact: latestPreviewId and latestPrintReadyId; approval: currentApprovalId
Layout == [status : LayoutStatus, settings : Configs \cup {None},
           made : SUBSET Configs, artifact : Configs \cup {None},
           approval : Configs \cup {None}]

NoLayout == [status |-> "NONE", settings |-> None, made |-> {},
             artifact |-> None, approval |-> None]

LayoutInit == layout = [u \in Uploads |-> NoLayout]

\* generate with settings c: the approval is dropped. It does nothing when it
\* reads that they are the layout's and it is not being processed; but the row
\* may be another one by the time it is updated.
Revises(u, c) ==
  layout' = [layout EXCEPT ![u].status = "PROCESSING", ![u].settings = c,
                           ![u].approval = None]

\* The preflight of the current settings commits its artifacts, the first time.
Produces(u) ==
  /\ layout[u].status = "PROCESSING"
  /\ layout[u].settings \notin layout[u].made
  /\ \E s \in {"AWAITING_APPROVAL", "MANUAL_REVIEW_REQUIRED"} :
       layout' = [layout EXCEPT ![u].status = s,
                                ![u].made = @ \cup {layout[u].settings},
                                ![u].artifact = layout[u].settings]

\* A preflight fails: the row is marked whatever became of it meanwhile.
Fails(u) ==
  /\ layout[u].status # "NONE"
  /\ layout' = [layout EXCEPT ![u].status = "QUALITY_CHECK_FAILED",
                              ![u].approval = None]

\* A reviewer decides about a low-confidence photo.
Reviewed(u) ==
  /\ layout[u].status = "MANUAL_REVIEW_REQUIRED"
  /\ \E s \in {"AWAITING_APPROVAL", "QUALITY_CHECK_FAILED"} :
       layout' = [layout EXCEPT ![u].status = s]

\* The customer confirms the latest preview.
Approves(u) ==
  /\ layout[u].status = "AWAITING_APPROVAL"
  /\ layout' = [layout EXCEPT ![u].status = "APPROVED",
                              ![u].approval = layout[u].artifact]

LayoutChange(u) == \/ \E c \in Configs : Revises(u, c)
                   \/ Produces(u) \/ Fails(u) \/ Reviewed(u) \/ Approves(u)

LifeSpec == LayoutInit /\ [][\E u \in Uploads : LayoutChange(u)]_layout
===============================================================================
