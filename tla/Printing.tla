------------------------------- MODULE Printing -------------------------------
(* Production of one order by one branch: its print jobs, one per item and    *)
(* production cycle, the printer agents that claim them                       *)
(* (fulfillment.service.ts and printer-agent/src/index.ts), and the manual    *)
(* path beside them, for an item or for the whole order (matching.service.ts).*)
(* Every transaction locks the order or is SERIALIZABLE, so each is one       *)
(* action, except that of createPrintJob, which reads and then inserts; an    *)
(* agent's loop is several of them. The assignment is active exactly while    *)
(* the order is in Production (Matching, WorkMatchesOrder).                   *)
EXTENDS Naturals, FiniteSets

CONSTANTS
  Items,       \* the items an order may have
  Agents,
  NoAgent,
  MaxCycles    \* bound: production cycles

ASSUME PrintingAssumption ==
  /\ IsFiniteSet(Items) /\ Items # {}
  /\ NoAgent \notin Agents
  /\ MaxCycles \in Nat \ {0}

VARIABLES
  items,     \* the OrderItems of the order
  order,     \* Order.status
  cycle,     \* sequence of the latest ProductionCycle
  creating,  \* createPrintJob has read the order and not yet inserted
  job,       \* PrintJob of every cycle and item
  record,    \* answers recorded for the agents: cycle, item and status
  agent,     \* where each agent is in its loop, and the job it works on
  access     \* PrinterAgent.status; LEAVING while it is being revoked

vars == <<items, order, cycle, creating, job, record, agent, access>>

-----------------------------------------------------------------------------
Cycles == 1 .. MaxCycles
Jobs == Cycles \X Items
Production == {"PARTNER_ACCEPTED", "REPRINT", "IN_PRODUCTION"}

\* READY stands for READY and what follows it, up to DISPUTED.
OrderStatus == Production \cup {"READY"}

\* leased: the lease has not ended.
Job == [status : {"NONE", "PENDING", "LEASED", "PRINTING", "COMPLETED",
                  "CANCELLED"},
        agent : Agents \cup {NoAgent},
        leased : BOOLEAN]
NoJob == [status |-> "NONE", agent |-> NoAgent, leased |-> FALSE]
NewJob == [NoJob EXCEPT !.status = "PENDING"]

\* CLAIMED: a job was received. SPOOLING: PRINTING was accepted. SPOOLED: the
\* document is in the spool. FAILING: something was thrown since.
Idle == [step |-> "IDLE"]
AgentState == {Idle} \cup
  [step : {"CLAIMED", "SPOOLING", "SPOOLED", "FAILING"}, job : Jobs]

\* A partner has accepted: PARTNER_ASSIGNED is on its way to the queue.
Init ==
  /\ items \in (SUBSET Items) \ {{}}
  /\ order = "PARTNER_ACCEPTED"
  /\ cycle = 1
  /\ creating = FALSE
  /\ job = [j \in Jobs |-> NoJob]
  /\ record = {}
  /\ agent = [a \in Agents |-> Idle]
  /\ access = [a \in Agents |-> "ACTIVE"]

-----------------------------------------------------------------------------
(* createPrintJob, the queue's job of PARTNER_ASSIGNED. It may run late, and  *)
(* is refused when the order has moved on before it is read.                  *)

CreateAsked ==
  /\ ~creating
  /\ order = "PARTNER_ACCEPTED"
  /\ \A i \in items : job[<<1, i>>] = NoJob
  /\ creating' = TRUE
  /\ UNCHANGED <<items, order, cycle, job, record, agent, access>>

\* Nothing is locked: the branch may have taken the order in hand since.
CreatePrintJobs ==
  /\ creating
  /\ job' = [j \in Jobs |-> IF j[1] = 1 /\ j[2] \in items THEN NewJob
                          ELSE job[j]]
  /\ creating' = FALSE
  /\ UNCHANGED <<items, order, cycle, record, agent, access>>

\* Mutant of Claimable: any job with no live lease.
ClaimableUnleased(j) ==
  /\ order \in Production
  /\ job[j].status \in {"PENDING", "LEASED", "PRINTING"} /\ ~job[j].leased

Claimable(j) ==
  /\ order \in Production
  /\ \/ job[j].status = "PENDING"
     \/ job[j].status = "LEASED" /\ ~job[j].leased

\* Jobs of a cycle are created together: any of the oldest may come first.
Oldest(j) == \A k \in Jobs : Claimable(k) => j[1] <= k[1]

\* claimPrintJob, and printJobDownload after it, which refuses the job of an
\* older cycle only when it is leased already. heard: the answer arrives.
Claim(a, j, heard) ==
  /\ agent[a] = Idle /\ access[a] # "REVOKED"
  /\ Claimable(j) /\ Oldest(j)
  /\ job' = [job EXCEPT ![j] = [status |-> "LEASED", agent |-> a,
                                leased |-> TRUE]]
  /\ agent' = IF heard /\ j[1] = cycle
              THEN [agent EXCEPT ![a] = [step |-> "CLAIMED", job |-> j]]
              ELSE agent
  /\ UNCHANGED <<items, order, cycle, creating, record, access>>

\* A lease is never renewed.
LeaseEnds(j) ==
  /\ job[j].leased
  /\ job' = [job EXCEPT ![j].leased = FALSE]
  /\ UNCHANGED <<items, order, cycle, creating, record, agent, access>>

\* Mutant of LastOf: the job itself is counted too.
LastWith(j) ==
  \A i \in items : job[<<j[1], i>>].status \in {"NONE", "COMPLETED"}

\* The other jobs of the cycle are COMPLETED.
LastOf(j) ==
  \A i \in items :
    i # j[2] => job[<<j[1], i>>].status \in {"NONE", "COMPLETED"}

-----------------------------------------------------------------------------
(* setPrintJobStatus.                                                        *)

\* The agent is known, and the job is its own.
Received(a, j) == access[a] # "REVOKED" /\ job[j].agent = a

\* The agent derives its keys from the job and the status alone: a status
\* reported once is answered from its record ever after.
Replayed(a, j, status) == Received(a, j) /\ <<j, status>> \in record

\* Mutant of InForce: the cycle is not compared.
InForceInAnyCycle(a, j) == Received(a, j) /\ job[j].leased

\* The job is of the latest cycle and the lease has not ended.
InForce(a, j) == Received(a, j) /\ j[1] = cycle /\ job[j].leased

Permitted(a, j, status) ==
  /\ InForce(a, j)
  /\ <<j, status>> \notin record
  /\ status = "PRINTING" => job[j].status = "LEASED" /\ order \in Production
  /\ status = "COMPLETED" => job[j].status = "PRINTING"
                             /\ order = "IN_PRODUCTION"

\* Mutant of Effect: an item that is done makes the order READY.
EffectReady(j, status) ==
  /\ job' = [job EXCEPT ![j] =
       IF status = "FAILED" THEN NewJob ELSE [@ EXCEPT !.status = status]]
  /\ order' = CASE status = "PRINTING" -> "IN_PRODUCTION"
                [] status = "COMPLETED" -> "READY"
                [] OTHER -> order
  /\ record' = record \cup {<<j, status>>}

\* Mutant of Effect: a failed job keeps the status that was reported.
EffectFailed(j, status) ==
  /\ job' = [job EXCEPT ![j].status = status]
  /\ order' = CASE status = "PRINTING" -> "IN_PRODUCTION"
                [] status = "COMPLETED" /\ LastOf(j) -> "READY"
                [] OTHER -> order
  /\ record' = record \cup {<<j, status>>}

\* FAILED asks for no status of the job or of the order.
Effect(j, status) ==
  /\ job' = [job EXCEPT ![j] =
       IF status = "FAILED" THEN NewJob ELSE [@ EXCEPT !.status = status]]
  /\ order' = CASE status = "PRINTING" -> "IN_PRODUCTION"
                [] status = "COMPLETED" /\ LastOf(j) -> "READY"
                [] OTHER -> order
  /\ record' = record \cup {<<j, status>>}

\* The agent a in step reports status and goes on to next when it is told yes,
\* or else to otherwise. The answer may be lost in either case.
Report(a, step, status, next, otherwise) ==
  /\ agent[a].step = step
  /\ LET j == agent[a].job
         to(s) == IF s = "IDLE" THEN Idle ELSE [step |-> s, job |-> j]
     IN \/ /\ Permitted(a, j, status)
           /\ Effect(j, status)
           /\ \E s \in {next, otherwise} : agent' = [agent EXCEPT ![a] = to(s)]
        \/ /\ ~Permitted(a, j, status)
           /\ agent' = [agent EXCEPT ![a] =
                to(IF Replayed(a, j, status) THEN next ELSE otherwise)]
           /\ UNCHANGED <<order, job, record>>
        \/ /\ agent' = [agent EXCEPT ![a] = to(otherwise)]
           /\ UNCHANGED <<order, job, record>>
  /\ UNCHANGED <<items, cycle, creating, access>>

\* processOnce.
ReportPrinting(a) == Report(a, "CLAIMED", "PRINTING", "SPOOLING", "IDLE")
ReportCompleted(a) == Report(a, "SPOOLED", "COMPLETED", "IDLE", "FAILING")
ReportFailed(a) == Report(a, "FAILING", "FAILED", "IDLE", "IDLE")

\* acceptIntoSpool.
Spool(a) ==
  /\ agent[a].step = "SPOOLING"
  /\ \E s \in {"SPOOLED", "FAILING"} : agent' = [agent EXCEPT ![a].step = s]
  /\ UNCHANGED <<items, order, cycle, creating, job, record, access>>

Crash(a) ==
  /\ agent[a] # Idle
  /\ agent' = [agent EXCEPT ![a] = Idle]
  /\ UNCHANGED <<items, order, cycle, creating, job, record, access>>

\* revokePrinterAgent reads the jobs and then writes; a claim may come between.
RevokeAsked(a) ==
  /\ access[a] = "ACTIVE"
  /\ \A j \in Jobs : job[j].agent = a =>
       job[j].status \notin {"LEASED", "PRINTING"}
  /\ access' = [access EXCEPT ![a] = "LEAVING"]
  /\ UNCHANGED <<items, order, cycle, creating, job, record, agent>>

Revoked(a) ==
  /\ access[a] = "LEAVING"
  /\ access' = [access EXCEPT ![a] = "REVOKED"]
  /\ UNCHANGED <<items, order, cycle, creating, job, record, agent>>

-----------------------------------------------------------------------------
(* The manual path.                                                          *)

\* setItemProductionStatus. Agent and lease of the job are left as they are.
ItemByHand(i, status) ==
  LET j == <<cycle, i>>
  IN /\ order \in Production
     /\ \/ job[j].status = "PENDING"
        \/ job[j].status = "PRINTING" /\ status = "COMPLETED"
     /\ job' = [job EXCEPT ![j].status = status]
     /\ order' = IF status = "COMPLETED" /\ LastOf(j) THEN "READY"
                 ELSE "IN_PRODUCTION"
     /\ UNCHANGED <<items, cycle, creating, record, agent, access>>

\* The newest job of the order, if it has one: any of the newest cycle that
\* has jobs.
Newest(j) ==
  /\ job[j] # NoJob
  /\ \A k \in Jobs : job[k] # NoJob => k[1] <= j[1]
NoJobs == \A j \in Jobs : job[j] = NoJob

\* setProductionStatus with IN_PRODUCTION looks at one job of the order only,
\* and cancels it when no agent has claimed it.
StartByHand ==
  /\ order \in {"PARTNER_ACCEPTED", "REPRINT"}
  /\ \/ NoJobs /\ UNCHANGED job
     \/ \E j \in Jobs :
          /\ Newest(j) /\ job[j].status \notin {"LEASED", "PRINTING"}
          /\ job' = IF job[j].status = "PENDING"
                    THEN [job EXCEPT ![j].status = "CANCELLED"] ELSE job
  /\ order' = "IN_PRODUCTION"
  /\ UNCHANGED <<items, cycle, creating, record, agent, access>>

\* setProductionStatus with READY: an order of several items needs as many
\* COMPLETED jobs in the cycle as it has items.
FinishByHand ==
  /\ order = "IN_PRODUCTION"
  /\ \/ NoJobs
     \/ \E j \in Jobs : Newest(j) /\ job[j].status \notin {"LEASED", "PRINTING"}
  /\ Cardinality(items) > 1 =>
       \A i \in items : job[<<cycle, i>>].status = "COMPLETED"
  /\ order' = "READY"
  /\ UNCHANGED <<items, cycle, creating, job, record, agent, access>>

\* A dispute is decided with REPRINT, for some of the items. The transaction of
\* createPrintJob, of seconds at most, does not last that long.
Reprint ==
  /\ order = "READY" /\ cycle < MaxCycles /\ ~creating
  /\ cycle' = cycle + 1
  /\ \E scope \in (SUBSET items) \ {{}} :
       job' = [j \in Jobs |-> IF j[1] = cycle' /\ j[2] \in scope THEN NewJob
                              ELSE job[j]]
  /\ order' = "REPRINT"
  /\ UNCHANGED <<items, creating, record, agent, access>>

-----------------------------------------------------------------------------
AgentStep(a) ==
  \/ \E j \in Jobs, heard \in BOOLEAN : Claim(a, j, heard)
  \/ ReportPrinting(a) \/ Spool(a) \/ ReportCompleted(a) \/ ReportFailed(a)

Next ==
  \/ CreateAsked \/ CreatePrintJobs \/ StartByHand \/ FinishByHand \/ Reprint
  \/ \E j \in Jobs : LeaseEnds(j)
  \/ \E a \in Agents : AgentStep(a) \/ Crash(a) \/ RevokeAsked(a) \/ Revoked(a)
  \/ \E i \in Items, status \in {"PRINTING", "COMPLETED"} : ItemByHand(i, status)

Spec == Init /\ [][Next]_vars

TypeOK ==
  /\ items \subseteq Items
  /\ order \in OrderStatus
  /\ cycle \in Cycles
  /\ creating \in BOOLEAN
  /\ job \in [Jobs -> Job]
  /\ record \subseteq Jobs \X {"PRINTING", "COMPLETED", "FAILED"}
  /\ agent \in [Agents -> AgentState]
  /\ access \in [Agents -> {"ACTIVE", "LEAVING", "REVOKED"}]

\* An order of several items is READY only when every item of its cycle is
\* COMPLETED, by whichever of the three paths the last one was.
ReadyIsComplete ==
  [][order' = "READY" /\ order # "READY" /\ Cardinality(items) > 1 =>
       /\ \E i \in items : job'[<<cycle, i>>].status = "COMPLETED"
       /\ \A i \in items : job'[<<cycle, i>>].status \in {"NONE", "COMPLETED"}]_vars

ByHand(j) == job[j].status = "PRINTING" /\ job[j].agent = NoAgent

\* Jobs that are no longer the agents' rest. One of an older cycle may still be
\* claimed, but is neither printed nor completed nor failed: a reprint is never
\* mixed with what is left of the production before it. What the branch prints by
\* hand no agent prints as well: such a job goes to COMPLETED and nowhere else,
\* and a cancelled one stays cancelled.
OthersJobsRest ==
  [][\A j \in Jobs :
       /\ j[1] < cycle /\ job'[j].status # job[j].status =>
            job'[j].status = "LEASED" /\ order' = order
       /\ ByHand(j) => job'[j] \in {job[j], [job[j] EXCEPT !.status = "COMPLETED"]}
       /\ job[j].status = "CANCELLED" => job'[j] = job[j]]_vars

\* Agents go on polling, leases end, the queue runs, and a request that is
\* made again and again gets its answer in the end.
Fairness ==
  /\ WF_vars(CreateAsked) /\ WF_vars(CreatePrintJobs)
  /\ \A j \in Jobs : WF_vars(LeaseEnds(j))
  /\ \A a \in Agents :
       /\ WF_vars(AgentStep(a))
       /\ \A j \in Jobs : SF_vars(Claim(a, j, TRUE))
       /\ SF_vars(ReportPrinting(a) /\ agent'[a].step = "SPOOLING")
       /\ SF_vars(Spool(a) /\ agent'[a].step = "SPOOLED")
       /\ SF_vars(ReportCompleted(a) /\ agent'[a] = Idle)
FairSpec == Spec /\ Fairness

\* No job is in print by hand, cancelled, or in print under a lease that ended,
\* and every agent keeps its access.
Undisturbed ==
  /\ \A j \in Jobs :
       /\ ~ByHand(j) /\ job[j].status # "CANCELLED"
       /\ job[j].status = "PRINTING" => job[j].leased
  /\ \A a \in Agents : access[a] = "ACTIVE"
Unfailed == \A j \in Jobs : <<j, "FAILED">> \notin record

InPrint == order \in Production /\ \E i \in Items : job[<<cycle, i>>] # NoJob

\* Once there are jobs, the agents make the order READY although claims and
\* answers are lost and leases end before PRINTING, unless a job fails or the
\* branch steps in.
AgentsFinish == [](Undisturbed /\ Unfailed) => (InPrint ~> order = "READY")

-----------------------------------------------------------------------------
(* A claim of the documentation that the code does not keep.                 *)

\* A job that failed is printed again, and the order becomes READY.
FailedIsRetried == []Undisturbed => (InPrint ~> order = "READY")
=============================================================================
