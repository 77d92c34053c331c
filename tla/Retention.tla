------------------------------- MODULE Retention -------------------------------
(* The files of orders that are over (retention-worker.service.ts and         *)
(* disputes/domain.ts): sweeps that overlap give every file a date, mark the  *)
(* files that are due as deleted, and erase what is marked, while disputes,   *)
(* reprints and holds on the same files go on (Aftercare). A layout stands    *)
(* for its upload, previews and print-ready versions.                         *)
EXTENDS Aftercare

CONSTANTS
  Layouts,
  Primary,       \* Order.layout of every order
  Items,         \* the layouts of all items of every order
  Workers,       \* sweeps that may be under way at once
  MaxAttempts    \* of erasing a file; 5 in the source

ASSUME RetentionAssumption ==
  /\ Primary \in [Orders -> Layouts]
  /\ Items \in [Orders -> SUBSET Layouts]
  /\ \A o \in Orders : Primary[o] \in Items[o]
  /\ MaxAttempts \in Nat \ {0}

VARIABLES
  version,     \* Order.version
  reprint,     \* layouts of the items that an order's reprint under way prints
  schedule,    \* the RetentionSchedule that is not superseded, of every order
  file,        \* PermanentObjectReferences, and what is stored
  tombstone,   \* RetentionTombstones
  sweep        \* where each sweep is

vars == <<caseVars, version, reprint, schedule, file, tombstone, sweep>>
fileVars == <<file, tombstone, sweep>>

-----------------------------------------------------------------------------
Terminal == Over \cup {"REFUNDED", "PARTIALLY_REFUNDED"}

\* The order is over and nobody holds it.
Rests(o) == order[o] \in Terminal /\ hold[o] = {}
Owners(l) == {o \in Orders : Primary[o] = l}

Schedule == [version : Nat,
             status : {"NONE", "ACTIVE", "HELD", "SUPERSEDED", "COMPLETED"}]
NoSchedule == [version |-> 0, status |-> "NONE"]

\* expiry: NEVER is holdExpiry; DUE is past.
File == [expiry : {"NEVER", "LATER", "DUE"}, deleted : BOOLEAN, stored : BOOLEAN]

\* lease: the attempt that holds it, 0 for none. expired: it is past.
Tombstone == [status : {"NONE", "PENDING", "APPLIED"},
              attempts : 0 .. MaxAttempts, lease : 0 .. MaxAttempts,
              expired : BOOLEAN]
NoTombstone == [status |-> "NONE", attempts |-> 0, lease |-> 0, expired |-> FALSE]

\* A sweep has read what is due, or erases a file under its lease.
Due == [order : Orders, version : Nat]
Idle == [step |-> "IDLE"]
Sweep == {Idle} \cup [step : {"DUE"}, due : SUBSET Due]
         \cup [step : {"ERASE", "ERASED"}, layout : Layouts, lease : 1 .. MaxAttempts]

Init ==
  /\ CaseInit
  /\ version = [o \in Orders |-> 1]
  /\ reprint = [o \in Orders |-> {}]
  /\ schedule = [o \in Orders |-> NoSchedule]
  /\ file = [l \in Layouts |->
               [expiry |-> "LATER", deleted |-> FALSE, stored |-> TRUE]]
  /\ tombstone = [l \in Layouts |-> NoTombstone]
  /\ sweep = [w \in Workers |-> Idle]

-----------------------------------------------------------------------------
(* The commands about orders, and protectObjects in those that need files.    *)

Expires(l, expiry) ==
  file' = IF file[l].deleted THEN file
          ELSE [file EXCEPT ![l].expiry = expiry]

Protect(o) ==
  /\ Expires(Primary[o], "NEVER")
  /\ schedule' = [schedule EXCEPT ![o].status =
                    IF @ \in {"ACTIVE", "HELD"} THEN "SUPERSEDED" ELSE @]

\* Mutant of Available: the file is only looked for in the storage.
AvailableInStorage(l) == file[l].stored

\* A reprint needs files that nobody has decided to delete.
Available(l) == ~file[l].deleted /\ tombstone[l].status = "NONE"

\* The items of the dispute's scope are printed again, or all.
Reprints(o, scope) ==
  /\ ResolveReprint(o)
  /\ scope # {} /\ \A l \in scope : Available(l)
  /\ reprint' = [reprint EXCEPT ![o] = scope]
  /\ Protect(o)

CaseStep(o) ==
  /\ \/ \E scope \in SUBSET Items[o] : Reprints(o, scope)
     \/ /\ OpenDispute(o) \/ CreateHold(o)
        /\ Protect(o)
        /\ UNCHANGED reprint
     \/ /\ \/ Complete(o) \/ FailDelivery(o)
           \/ PartnerRespond(o) \/ CancelDispute(o) \/ ResolveNoAction(o)
           \/ \E amount \in 1 .. Price : ResolveRefund(o, amount)
           \/ ReleaseHold(o)
           \/ \E i \in DOMAIN refunds[o] : SendRefund(o, i) \/ ConfirmRefund(o, i)
        /\ reprint' = [reprint EXCEPT ![o] = IF order'[o] = "REPRINT" THEN @ ELSE {}]
        /\ UNCHANGED <<schedule, file>>
  /\ version' = [version EXCEPT ![o] = IF order'[o] # order[o] THEN @ + 1 ELSE @]
  /\ UNCHANGED <<tombstone, sweep>>

-----------------------------------------------------------------------------
(* reconcileOrder: one transaction under the retention lock.                  *)

\* Mutant of ProtectedElsewhere: other orders' holds are overlooked.
ProtectedElsewhereByOrder(o) ==
  \E p \in Owners(Primary[o]) \ {o} : order[p] \notin Terminal

ProtectedElsewhere(o) == \E p \in Owners(Primary[o]) \ {o} : ~Rests(p)

Hold(o) ==
  /\ ~Rests(o)
  /\ Expires(Primary[o], "NEVER")
  /\ schedule' = [schedule EXCEPT ![o].status =
                    IF @ = "ACTIVE" THEN "HELD" ELSE @]

\* Mutant of Scheduled: a superseded schedule is as good as an active one.
ScheduledOnce(o) == schedule[o].version = version[o]

Scheduled(o) ==
  /\ schedule[o].version = version[o]
  /\ schedule[o].status \in {"ACTIVE", "COMPLETED"}

Date(o) ==
  /\ Rests(o) /\ ~Scheduled(o)
  /\ schedule' = [schedule EXCEPT ![o] = [version |-> version[o],
                                          status |-> "ACTIVE"]]
  /\ Expires(Primary[o], IF ProtectedElsewhere(o) THEN "NEVER" ELSE "LATER")

Reconcile(o) ==
  /\ Hold(o) \/ Date(o)
  /\ UNCHANGED <<caseVars, version, reprint, tombstone, sweep>>

\* Nobody reads the date of a layout that no order is about.
DaysPass(l) ==
  /\ Owners(l) # {} /\ file[l].expiry = "LATER"
  /\ file' = [file EXCEPT ![l].expiry = "DUE"]
  /\ UNCHANGED <<caseVars, version, reprint, schedule, tombstone, sweep>>

-----------------------------------------------------------------------------
(* applyDue: a list, then a transaction under the retention lock for each.    *)

IsDue(o) ==
  /\ schedule[o].status = "ACTIVE"
  /\ file[Primary[o]].expiry = "DUE" /\ ~file[Primary[o]].deleted

ListDue(w) ==
  LET due == {[order |-> o, version |-> schedule[o].version] :
              o \in {p \in Orders : IsDue(p)}}
  IN /\ sweep[w] = Idle /\ due # {}
     /\ sweep' = [sweep EXCEPT ![w] = [step |-> "DUE", due |-> due]]
     /\ UNCHANGED <<caseVars, version, reprint, schedule, file, tombstone>>

StillDue(d) ==
  /\ IsDue(d.order) /\ schedule[d.order].version = d.version
  /\ \A o \in Owners(Primary[d.order]) : Rests(o)

\* An old tombstone is left as it is.
Delete(w, d) ==
  LET l == Primary[d.order] IN
  /\ sweep[w].step = "DUE" /\ d \in sweep[w].due
  /\ IF StillDue(d)
     THEN /\ file' = [file EXCEPT ![l].deleted = TRUE]
          /\ tombstone' = [tombstone EXCEPT ![l].status =
                             IF @ = "NONE" THEN "PENDING" ELSE @]
     ELSE UNCHANGED <<file, tombstone>>
  /\ sweep' = [sweep EXCEPT ![w] = IF @.due = {d} THEN Idle
                                   ELSE [@ EXCEPT !.due = sweep[w].due \ {d}]]
  /\ UNCHANGED <<caseVars, version, reprint, schedule>>

-----------------------------------------------------------------------------
(* retryTombstones: claim, remove from the storage, mark.                     *)

Claim(w, l) ==
  LET t == tombstone[l] IN
  /\ sweep[w] = Idle
  /\ t.status = "PENDING" /\ t.attempts < MaxAttempts
  /\ t.lease = 0 \/ t.expired
  /\ tombstone' = [tombstone EXCEPT
       ![l] = [t EXCEPT !.attempts = t.attempts + 1, !.lease = t.attempts + 1,
                        !.expired = FALSE]]
  /\ sweep' = [sweep EXCEPT ![w] = [step |-> "ERASE", layout |-> l,
                                    lease |-> t.attempts + 1]]
  /\ UNCHANGED <<caseVars, version, reprint, schedule, file>>

Erase(w) ==
  /\ sweep[w].step = "ERASE"
  /\ file' = [file EXCEPT ![sweep[w].layout].stored = FALSE]
  /\ sweep' = [sweep EXCEPT ![w].step = "ERASED"]
  /\ UNCHANGED <<caseVars, version, reprint, schedule, tombstone>>

\* The update names the lease of this attempt.
Settle(w, status) ==
  LET l == sweep[w].layout IN
  /\ tombstone' = IF tombstone[l].lease = sweep[w].lease
                  THEN [tombstone EXCEPT ![l].status = status, ![l].lease = 0,
                                         ![l].expired = FALSE]
                  ELSE tombstone
  /\ sweep' = [sweep EXCEPT ![w] = Idle]
  /\ UNCHANGED <<caseVars, version, reprint, schedule, file>>

\* Mutant of Marks: an attempt that was not seen to end is taken to have ended.
MarksUnerased(w) == sweep[w].step \in {"ERASE", "ERASED"}

Marks(w) == sweep[w].step = "ERASED"

Applied(w) == Marks(w) /\ Settle(w, "APPLIED")
EraseFails(w) == sweep[w].step = "ERASE" /\ Settle(w, "PENDING")

\* A worker dies while it erases; the lease runs out, as that of a slow one may.
Dies(w) ==
  /\ sweep[w].step \in {"ERASE", "ERASED"}
  /\ sweep' = [sweep EXCEPT ![w] = Idle]
  /\ UNCHANGED <<caseVars, version, reprint, schedule, file, tombstone>>

LeaseEnds(l) ==
  /\ tombstone[l].lease # 0 /\ ~tombstone[l].expired
  /\ tombstone' = [tombstone EXCEPT ![l].expired = TRUE]
  /\ UNCHANGED <<caseVars, version, reprint, schedule, file, sweep>>

CompleteSchedule(o) ==
  /\ schedule[o].status = "ACTIVE" /\ file[Primary[o]].deleted
  /\ schedule' = [schedule EXCEPT ![o].status = "COMPLETED"]
  /\ UNCHANGED <<caseVars, version, reprint, fileVars>>

-----------------------------------------------------------------------------
SweepStep(w) ==
  \/ ListDue(w)
  \/ sweep[w].step = "DUE" /\ \E d \in sweep[w].due : Delete(w, d)
  \/ \E l \in Layouts : Claim(w, l)
  \/ Erase(w) \/ Applied(w)

Next ==
  \/ \E o \in Orders : CaseStep(o) \/ Reconcile(o) \/ CompleteSchedule(o)
  \/ \E l \in Layouts : DaysPass(l) \/ LeaseEnds(l)
  \/ \E w \in Workers : SweepStep(w) \/ EraseFails(w) \/ Dies(w)

Spec == Init /\ [][Next]_vars

\* A sweep is made every minute, and time passes. Nothing is assumed of the
\* people, nor of the storage.
Fairness ==
  /\ \A o \in Orders : WF_vars(Reconcile(o))
  /\ \A l \in Layouts : WF_vars(DaysPass(l)) /\ WF_vars(LeaseEnds(l))
  /\ \A w \in Workers : WF_vars(SweepStep(w))

FairSpec == Spec /\ Fairness

-----------------------------------------------------------------------------
TypeOK ==
  /\ CaseTypeOK
  /\ version \in [Orders -> Nat]
  /\ reprint \in [Orders -> SUBSET Layouts]
  /\ schedule \in [Orders -> Schedule]
  /\ file \in [Layouts -> File]
  /\ tombstone \in [Layouts -> Tombstone]
  /\ \A w \in Workers : sweep[w] \in Sweep

\* What is decided about a file, and on record, is what becomes of it. A reprint
\* has the file of its order's own layout, and those no order is about, although
\* they may have been due, listed, marked or half erased when it was decided.
\* Nothing is said of an item whose layout is another order's: the source deletes it
\* when that order rests, whoever prints it. Nothing is said to be erased that still
\* is there, and nothing is erased without the decision on record.
FilesAgree ==
  /\ TypeOK
  /\ \A o \in Orders : order[o] = "REPRINT" =>
       \A l \in reprint[o] : l = Primary[o] \/ Owners(l) = {} =>
         file[l].stored /\ tombstone[l].status = "NONE"
  /\ \A l \in Layouts :
       /\ tombstone[l].status = "APPLIED" => ~file[l].stored
       /\ ~file[l].stored => file[l].deleted /\ tombstone[l].status # "NONE"

\* While an order is held or disputed its file has no date, unless its deletion
\* had been decided before: whatever the other orders of the layout do.
HeldIsNonexpired ==
  \A o \in Orders : hold[o] # {} =>
    LET f == file[Primary[o]]
    IN /\ f.deleted \/ f.expiry = "NEVER"
       /\ schedule[o].status # "ACTIVE"

\* When the orders of a layout rest for good its file is deleted, and erased
\* unless the storage failed too often: no hold, dispute or overlapping sweep
\* leaves a file behind that nothing will ever date again.
FilesExpire ==
  \A l \in Layouts : Owners(l) # {} =>
    (<>[](\A o \in Owners(l) : Rests(o))
      => <>(file[l].deleted /\ (~file[l].stored
                                \/ tombstone[l].attempts = MaxAttempts)))
=============================================================================
