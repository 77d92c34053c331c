---------------------------- MODULE PrintingProofs ----------------------------
(* What holds of Printing for any items, agents and number of reprints.      *)
EXTENDS Printing, TLAPS

-----------------------------------------------------------------------------
(* The inductive invariant.                                                  *)

\* A job is of an item of the order and of a cycle that has begun.
JobsAreOfItems ==
  \A j \in Jobs : job[j] # NoJob => j[2] \in items /\ j[1] <= cycle

\* There is no half-made job, and a lease is that of an agent.
JobsAreWhole ==
  \A j \in Jobs :
    /\ job[j].status = "NONE" => job[j] = NoJob
    /\ job[j].leased => /\ job[j].status \in {"LEASED", "PRINTING", "COMPLETED"}
                        /\ job[j].agent \in Agents

\* Only the first cycle may be without jobs, and only it awaits its first ones.
CyclesBegin ==
  /\ order = "PARTNER_ACCEPTED" => cycle = 1
  /\ creating => cycle = 1 /\ NoJobs
  /\ cycle # 1 => \E i \in Items : job[<<cycle, i>>] # NoJob

IInv == TypeOK /\ items # {} /\ JobsAreOfItems /\ JobsAreWhole /\ CyclesBegin

-----------------------------------------------------------------------------
(* Jobs, and what a step may write.                                          *)

LEMMA JobFacts ==
  /\ NoJob \in Job /\ NoJob.status = "NONE" /\ ~NoJob.leased
  /\ NewJob \in Job /\ NewJob.status = "PENDING" /\ ~NewJob.leased
  /\ NewJob # NoJob
BY DEF NoJob, NewJob, Job

LEMMA JobOfCycle ==
  ASSUME IInv
  PROVE  /\ cycle \in Cycles /\ 1 \in Cycles
         /\ \A i \in Items : <<cycle, i>> \in Jobs /\ <<1, i>> \in Jobs
         /\ \A j \in Jobs : /\ j[1] \in Cycles /\ j[2] \in Items
                            /\ j = <<j[1], j[2]>> /\ job[j] \in Job
BY PrintingAssumption DEF IInv, TypeOK, Jobs, Cycles

\* One job is written that is there; nothing else but the order changes.
JobWrittenTo(j, row) ==
  /\ job[j] # NoJob
  /\ job' = [job EXCEPT ![j] = row]
  /\ row \in Job /\ row.status # "NONE"
  /\ row.leased => /\ row.status \in {"LEASED", "PRINTING", "COMPLETED"}
                   /\ row.agent \in Agents

LEMMA OneJobWritten ==
  ASSUME IInv, NEW j \in Jobs, NEW row, JobWrittenTo(j, row),
         items' = items, cycle' = cycle, creating' = creating, order' # "PARTNER_ACCEPTED" \/ order' = order
  PROVE  /\ job' \in [Jobs -> Job] /\ job'[j] = row
         /\ \A k \in Jobs \ {j} : job'[k] = job[k]
         /\ JobsAreOfItems' /\ JobsAreWhole' /\ CyclesBegin'
<1>1. /\ job' \in [Jobs -> Job] /\ job'[j] = row
      /\ \A k \in Jobs \ {j} : job'[k] = job[k]
  BY DEF IInv, TypeOK, JobWrittenTo
<1>2. row # NoJob
  BY JobFacts DEF JobWrittenTo
<1>3. JobsAreOfItems'
  BY <1>1 DEF IInv, JobsAreOfItems, JobWrittenTo
<1>4. JobsAreWhole'
  <2> SUFFICES ASSUME NEW k \in Jobs
               PROVE  /\ job'[k].status = "NONE" => job'[k] = NoJob
                      /\ job'[k].leased =>
                           /\ job'[k].status \in {"LEASED", "PRINTING", "COMPLETED"}
                           /\ job'[k].agent \in Agents
    BY DEF JobsAreWhole
  <2> QED BY <1>1 DEF IInv, JobsAreWhole, JobWrittenTo
<1>5. CyclesBegin'
  <2>1. cycle # 1 => \E i \in Items : job'[<<cycle, i>>] # NoJob
    <3> SUFFICES ASSUME NEW i \in Items, job[<<cycle, i>>] # NoJob
                 PROVE  job'[<<cycle, i>>] # NoJob
      BY DEF IInv, CyclesBegin
    <3>1. <<cycle, i>> \in Jobs
      BY JobOfCycle
    <3> QED BY <1>1, <1>2, <3>1
  <2>2. ~creating
    BY DEF IInv, CyclesBegin, NoJobs, JobWrittenTo
  <2> QED BY <2>1, <2>2 DEF IInv, CyclesBegin
<1> QED BY <1>1, <1>3, <1>4, <1>5

LEMMA JobsRest ==
  ASSUME IInv, UNCHANGED <<items, cycle, creating, job>>,
         order' # "PARTNER_ACCEPTED" \/ order' = order
  PROVE  /\ items' # {} /\ JobsAreOfItems' /\ JobsAreWhole' /\ CyclesBegin'
         /\ items' \subseteq Items /\ cycle' \in Cycles /\ job' \in [Jobs -> Job]
<1>1. items' # {} /\ items' \subseteq Items /\ cycle' \in Cycles /\ job' \in [Jobs -> Job]
  BY DEF IInv, TypeOK
<1>2. JobsAreOfItems' /\ JobsAreWhole'
  BY DEF IInv, JobsAreOfItems, JobsAreWhole
<1>3. CyclesBegin'
  BY DEF IInv, CyclesBegin, NoJobs
<1> QED BY <1>1, <1>2, <1>3

\* Whatever is reported, and heard: nothing is written, or one job the agent owns.
LEMMA ReportShape ==
  ASSUME TypeOK, NEW a \in Agents,
         NEW step \in {"CLAIMED", "SPOOLED", "FAILING"},
         NEW status \in {"PRINTING", "COMPLETED", "FAILED"},
         NEW next \in {"IDLE", "SPOOLING"}, NEW otherwise \in {"IDLE", "FAILING"},
         Report(a, step, status, next, otherwise)
  PROVE  /\ agent' \in [Agents -> AgentState]
         /\ UNCHANGED <<items, cycle, creating, access>>
         /\ \/ UNCHANGED <<order, job, record>>
            \/ \E j \in Jobs : Permitted(a, j, status) /\ Effect(j, status)
<1> DEFINE j == agent[a].job
           to(s) == IF s = "IDLE" THEN Idle ELSE [step |-> s, job |-> j]
<1>1. agent[a] \in AgentState /\ agent[a].step = step /\ agent[a] # Idle
  BY DEF Report, TypeOK, Idle
<1>2. j \in Jobs
  BY <1>1 DEF AgentState
<1>3. \A s \in {"IDLE", "SPOOLING", "FAILING"} : to(s) \in AgentState
  BY <1>2 DEF AgentState
<1>4. \E s \in {"IDLE", "SPOOLING", "FAILING"} : agent' = [agent EXCEPT ![a] = to(s)]
  BY DEF Report
<1>5. agent' \in [Agents -> AgentState]
  <2> HIDE DEF to
  <2> QED BY <1>3, <1>4 DEF TypeOK
<1> QED BY <1>2, <1>5 DEF Report

-----------------------------------------------------------------------------
(* The steps keep the inductive invariant.                                   *)

LEMMA CreateAskedKeeps ==
  ASSUME IInv, CreateAsked
  PROVE  IInv'
<1>1. cycle = 1 /\ \A i \in items : job[<<1, i>>] = NoJob
  BY DEF CreateAsked, IInv, CyclesBegin
<1>2. ASSUME NEW j \in Jobs PROVE job[j] = NoJob
  <2>1. j[1] \in 1 .. MaxCycles /\ j = <<j[1], j[2]>>
    BY JobOfCycle DEF Cycles
  <2>2. ASSUME job[j] # NoJob PROVE j[1] = 1 /\ j[2] \in items
    BY <1>1, <2>1, <2>2 DEF IInv, JobsAreOfItems
  <2> QED BY <1>1, <2>1, <2>2
<1>3. UNCHANGED <<items, order, cycle, job, record, agent, access>> /\ creating' = TRUE
  BY DEF CreateAsked
<1> QED BY <1>1, <1>2, <1>3
        DEF IInv, TypeOK, JobsAreOfItems, JobsAreWhole, CyclesBegin, NoJobs

LEMMA CreateKeeps ==
  ASSUME IInv, CreatePrintJobs
  PROVE  IInv'
<1>1. cycle = 1
  BY DEF CreatePrintJobs, IInv, CyclesBegin
<1>2. UNCHANGED <<items, order, cycle, record, agent, access>> /\ creating' = FALSE
  BY DEF CreatePrintJobs
<1>3. \A j \in Jobs : job'[j] = IF j[1] = 1 /\ j[2] \in items THEN NewJob ELSE job[j]
  BY DEF CreatePrintJobs
<1>4. job' \in [Jobs -> Job]
  BY JobFacts DEF CreatePrintJobs, IInv, TypeOK
<1>5. TypeOK'
  BY <1>2, <1>4 DEF IInv, TypeOK
<1>6. JobsAreOfItems'
  <2> SUFFICES ASSUME NEW j \in Jobs, job'[j] # NoJob
               PROVE  j[2] \in items /\ j[1] <= cycle
    BY <1>2 DEF JobsAreOfItems
  <2>1. CASE j[1] = 1 /\ j[2] \in items
    BY <1>1, <2>1
  <2>2. CASE ~(j[1] = 1 /\ j[2] \in items)
    BY <1>3, <2>2 DEF IInv, JobsAreOfItems
  <2> QED BY <2>1, <2>2
<1>7. JobsAreWhole'
  BY <1>3, JobFacts DEF IInv, JobsAreWhole
<1>8. CyclesBegin'
  BY <1>1, <1>2 DEF CyclesBegin
<1> QED BY <1>2, <1>5, <1>6, <1>7, <1>8 DEF IInv

LEMMA ClaimKeeps ==
  ASSUME IInv, NEW a \in Agents, NEW j \in Jobs, NEW heard \in BOOLEAN, Claim(a, j, heard)
  PROVE  IInv'
<1> DEFINE row == [status |-> "LEASED", agent |-> a, leased |-> TRUE]
<1>1. /\ job' = [job EXCEPT ![j] = row]
      /\ UNCHANGED <<items, order, cycle, creating, record, access>>
  BY DEF Claim
<1>2. row \in Job /\ row.status = "LEASED" /\ row.agent = a
  BY DEF Job
<1>3. job[j] # NoJob
  BY JobFacts DEF Claim, Claimable
<1> HIDE DEF row
<1>4. JobWrittenTo(j, row)
  BY <1>1, <1>2, <1>3 DEF JobWrittenTo
<1>5. job' \in [Jobs -> Job] /\ JobsAreOfItems' /\ JobsAreWhole' /\ CyclesBegin'
  BY <1>1, <1>4, OneJobWritten
<1>6. agent' \in [Agents -> AgentState]
  BY DEF Claim, AgentState, IInv, TypeOK
<1> QED BY <1>1, <1>5, <1>6 DEF IInv, TypeOK

LEMMA LeaseEndsKeeps ==
  ASSUME IInv, NEW j \in Jobs, LeaseEnds(j)
  PROVE  IInv' /\ job'[j].status = job[j].status /\ \A k \in Jobs \ {j} : job'[k] = job[k]
<1> DEFINE row == [job[j] EXCEPT !.leased = FALSE]
<1>1. /\ job' = [job EXCEPT ![j] = row]
      /\ UNCHANGED <<items, order, cycle, creating, record, agent, access>>
  BY DEF LeaseEnds
<1>2. job[j] \in Job
  BY DEF IInv, TypeOK
<1>3. row \in Job /\ row.status = job[j].status /\ row.leased = FALSE
  BY <1>2 DEF Job
<1>4. job[j].leased /\ job[j] # NoJob /\ row.status # "NONE"
  BY <1>3, JobFacts DEF LeaseEnds, IInv, JobsAreWhole
<1> HIDE DEF row
<1>5. JobWrittenTo(j, row)
  BY <1>1, <1>3, <1>4 DEF JobWrittenTo
<1>6. /\ job' \in [Jobs -> Job] /\ JobsAreOfItems' /\ JobsAreWhole' /\ CyclesBegin'
      /\ job'[j] = row /\ \A k \in Jobs \ {j} : job'[k] = job[k]
  BY <1>1, <1>5, OneJobWritten
<1> QED BY <1>1, <1>3, <1>6 DEF IInv, TypeOK

\* setPrintJobStatus writes one job: the agent's own, of the latest cycle.
LEMMA EffectWrites ==
  ASSUME IInv, NEW a \in Agents, NEW j \in Jobs,
         NEW status \in {"PRINTING", "COMPLETED", "FAILED"},
         Permitted(a, j, status), Effect(j, status)
  PROVE  /\ j[1] = cycle /\ job[j].agent = a /\ job[j].leased /\ job[j] # NoJob
         /\ \E row : /\ JobWrittenTo(j, row)
                     /\ row.status = IF status = "FAILED" THEN "PENDING" ELSE status
         /\ order' \in OrderStatus
         /\ order' # "PARTNER_ACCEPTED" \/ order' = order
         /\ record' \subseteq Jobs \X {"PRINTING", "COMPLETED", "FAILED"}
<1> DEFINE row == IF status = "FAILED" THEN NewJob ELSE [job[j] EXCEPT !.status = status]
<1>1. j[1] = cycle /\ job[j].agent = a /\ job[j].leased /\ job[j] # NoJob
  BY JobFacts DEF Permitted, InForce, Received
<1>2. job[j] \in Job
  BY DEF IInv, TypeOK
<1>3. /\ row \in Job /\ row.status # "NONE"
      /\ row.status = IF status = "FAILED" THEN "PENDING" ELSE status
      /\ row.leased => row.status \in {"PRINTING", "COMPLETED"} /\ row.agent \in Agents
  <2>1. CASE status = "FAILED"
    BY <2>1, JobFacts
  <2>2. CASE status # "FAILED"
    BY <1>1, <1>2, <2>2 DEF Job
  <2> QED BY <2>1, <2>2
<1>4. job' = [job EXCEPT ![j] = row]
  BY DEF Effect
<1>5. order' \in OrderStatus /\ (order' # "PARTNER_ACCEPTED" \/ order' = order)
  BY DEF Effect, OrderStatus, Production, IInv, TypeOK
<1>6. record' \subseteq Jobs \X {"PRINTING", "COMPLETED", "FAILED"}
  BY DEF Effect, IInv, TypeOK
<1> HIDE DEF row
<1>7. JobWrittenTo(j, row)
  BY <1>1, <1>3, <1>4 DEF JobWrittenTo
<1> QED BY <1>1, <1>3, <1>5, <1>6, <1>7

LEMMA ReportKeeps ==
  ASSUME IInv, NEW a \in Agents,
         NEW step \in {"CLAIMED", "SPOOLED", "FAILING"},
         NEW status \in {"PRINTING", "COMPLETED", "FAILED"},
         NEW next \in {"IDLE", "SPOOLING"}, NEW otherwise \in {"IDLE", "FAILING"},
         Report(a, step, status, next, otherwise)
  PROVE  IInv'
<1>1. agent' \in [Agents -> AgentState] /\ UNCHANGED <<items, cycle, creating, access>>
  BY ReportShape DEF IInv
<1>2. CASE UNCHANGED <<order, job, record>>
  BY <1>1, <1>2, JobsRest DEF IInv, TypeOK
<1>3. ASSUME NEW j \in Jobs, Permitted(a, j, status), Effect(j, status) PROVE IInv'
  <2>1. PICK row : JobWrittenTo(j, row)
    BY <1>3, EffectWrites
  <2>2. /\ order' \in OrderStatus
        /\ order' # "PARTNER_ACCEPTED" \/ order' = order
        /\ record' \subseteq Jobs \X {"PRINTING", "COMPLETED", "FAILED"}
    BY <1>3, EffectWrites
  <2>3. job' \in [Jobs -> Job] /\ JobsAreOfItems' /\ JobsAreWhole' /\ CyclesBegin'
    BY <1>1, <2>1, <2>2, OneJobWritten
  <2> QED BY <1>1, <2>2, <2>3 DEF IInv, TypeOK
<1> QED BY <1>2, <1>3, ReportShape DEF IInv

\* Steps of an agent and of its access.
LEMMA AgentKeeps ==
  ASSUME IInv, NEW a \in Agents, Spool(a) \/ Crash(a) \/ RevokeAsked(a) \/ Revoked(a)
  PROVE  IInv'
<1>1. UNCHANGED <<items, order, cycle, creating, job, record>>
  BY DEF Spool, Crash, RevokeAsked, Revoked
<1>2. agent' \in [Agents -> AgentState]
  <2>1. CASE Spool(a)
    <3>1. agent[a].job \in Jobs /\ agent[a].step = "SPOOLING" /\ agent[a] \in AgentState
      BY <2>1 DEF Spool, AgentState, Idle, IInv, TypeOK
    <3>2. PICK s \in {"SPOOLED", "FAILING"} : agent' = [agent EXCEPT ![a].step = s]
      BY <2>1 DEF Spool
    <3>3. [agent[a] EXCEPT !.step = s] \in AgentState
      BY <3>1 DEF AgentState, Idle
    <3> QED BY <3>2, <3>3 DEF IInv, TypeOK
  <2>2. CASE ~Spool(a)
    BY <2>2 DEF Crash, RevokeAsked, Revoked, AgentState, IInv, TypeOK
  <2> QED BY <2>1, <2>2
<1>3. access' \in [Agents -> {"ACTIVE", "LEAVING", "REVOKED"}]
  BY DEF Spool, Crash, RevokeAsked, Revoked, IInv, TypeOK
<1> QED BY <1>1, <1>2, <1>3, JobsRest DEF IInv, TypeOK

\* setItemProductionStatus writes one job of the latest cycle, not begun or in
\* print; of what an agent has not claimed it leaves no lease.
LEMMA ByHandWrites ==
  ASSUME IInv, NEW i \in Items, NEW status \in {"PRINTING", "COMPLETED"},
         ItemByHand(i, status)
  PROVE  LET j == <<cycle, i>>
         IN /\ j \in Jobs /\ job[j].status \in {"PENDING", "PRINTING"}
            /\ job[j].status = "PRINTING" => status = "COMPLETED"
            /\ job' = [job EXCEPT ![j] = [job[j] EXCEPT !.status = status]]
            /\ JobWrittenTo(j, [job[j] EXCEPT !.status = status])
<1> DEFINE j == <<cycle, i>>
           row == [job[j] EXCEPT !.status = status]
<1>1. j \in Jobs /\ job[j] \in Job
  BY JobOfCycle
<1> HIDE DEF j
<1>2. /\ job[j].status \in {"PENDING", "PRINTING"}
      /\ job[j].status = "PRINTING" => status = "COMPLETED"
      /\ job' = [job EXCEPT ![j] = row]
  BY DEF ItemByHand, j
<1>3. row \in Job /\ row.status = status /\ row.agent = job[j].agent
      /\ row.leased = job[j].leased
  BY <1>1 DEF Job
<1>4. job[j] # NoJob
  BY <1>2, JobFacts
<1>5. row.leased => job[j].status = "PRINTING" /\ row.agent \in Agents
  BY <1>1, <1>2, <1>3 DEF IInv, JobsAreWhole
<1>6. JobWrittenTo(j, row)
  <2> HIDE DEF row
  <2> QED BY <1>2, <1>3, <1>4, <1>5 DEF JobWrittenTo
<1> QED BY <1>1, <1>2, <1>6 DEF j

LEMMA ItemByHandKeeps ==
  ASSUME IInv, NEW i \in Items, NEW status \in {"PRINTING", "COMPLETED"},
         ItemByHand(i, status)
  PROVE  IInv'
<1>1. PICK j \in Jobs : \E row : JobWrittenTo(j, row)
  BY ByHandWrites
<1>2. /\ UNCHANGED <<items, cycle, creating, record, agent, access>>
      /\ order' \in {"READY", "IN_PRODUCTION"}
  BY DEF ItemByHand
<1>3. job' \in [Jobs -> Job] /\ JobsAreOfItems' /\ JobsAreWhole' /\ CyclesBegin'
  BY <1>1, <1>2, OneJobWritten
<1> QED BY <1>2, <1>3 DEF IInv, TypeOK, OrderStatus, Production

\* setProductionStatus writes at most one job, not begun.
LEMMA StartWrites ==
  ASSUME IInv, StartByHand
  PROVE  \/ job' = job
         \/ \E j \in Jobs :
              /\ Newest(j) /\ job[j].status = "PENDING"
              /\ \E row : row.status = "CANCELLED" /\ JobWrittenTo(j, row)
<1> SUFFICES ASSUME NEW j \in Jobs, Newest(j), job[j].status = "PENDING",
                    job' = [job EXCEPT ![j].status = "CANCELLED"]
             PROVE  \E row : row.status = "CANCELLED" /\ JobWrittenTo(j, row)
  BY DEF StartByHand
<1> DEFINE row == [job[j] EXCEPT !.status = "CANCELLED"]
<1>1. job[j] \in Job /\ ~job[j].leased
  BY JobOfCycle DEF IInv, JobsAreWhole
<1>2. row \in Job /\ row.status = "CANCELLED" /\ ~row.leased
  BY <1>1 DEF Job
<1>3. job' = [job EXCEPT ![j] = row]
  OBVIOUS
<1> HIDE DEF row
<1> QED BY <1>2, <1>3, JobFacts DEF JobWrittenTo, Newest

LEMMA WholeOrderByHandKeeps ==
  ASSUME IInv, StartByHand \/ FinishByHand
  PROVE  IInv'
<1>1. UNCHANGED <<items, cycle, creating, record, agent, access>>
      /\ order' \in {"IN_PRODUCTION", "READY"}
  BY DEF StartByHand, FinishByHand
<1>2. order' \in OrderStatus /\ order' # "PARTNER_ACCEPTED"
  BY <1>1 DEF OrderStatus, Production
<1>3. CASE job' = job
  BY <1>1, <1>2, <1>3, JobsRest DEF IInv, TypeOK
<1>4. ASSUME NEW j \in Jobs, NEW row, JobWrittenTo(j, row) PROVE IInv'
  <2>1. job' \in [Jobs -> Job] /\ JobsAreOfItems' /\ JobsAreWhole' /\ CyclesBegin'
    BY <1>1, <1>2, <1>4, OneJobWritten
  <2> QED BY <1>1, <1>2, <2>1 DEF IInv, TypeOK
<1> QED BY <1>3, <1>4, StartWrites DEF FinishByHand

LEMMA ReprintKeeps ==
  ASSUME IInv, Reprint
  PROVE  IInv'
<1>1. PICK scope \in (SUBSET items) \ {{}} :
        job' = [j \in Jobs |-> IF j[1] = cycle + 1 /\ j[2] \in scope THEN NewJob ELSE job[j]]
  BY DEF Reprint
<1>2. /\ order' = "REPRINT" /\ cycle' = cycle + 1 /\ cycle < MaxCycles
      /\ ~creating /\ UNCHANGED <<items, creating, record, agent, access>>
  BY DEF Reprint
<1>3. cycle \in 1 .. MaxCycles /\ cycle' \in Cycles /\ cycle' # 1
  BY <1>2, PrintingAssumption DEF IInv, TypeOK, Cycles
<1>4. job' \in [Jobs -> Job]
  BY <1>1, JobFacts DEF IInv, TypeOK
<1>5. TypeOK'
  BY <1>2, <1>3, <1>4 DEF IInv, TypeOK, OrderStatus, Production
<1>6. JobsAreOfItems'
  <2> SUFFICES ASSUME NEW j \in Jobs, job'[j] # NoJob
               PROVE  j[2] \in items /\ j[1] <= cycle'
    BY <1>2 DEF JobsAreOfItems
  <2>1. j[1] \in 1 .. MaxCycles
    BY JobOfCycle DEF Cycles
  <2>2. CASE j[1] = cycle + 1 /\ j[2] \in scope
    BY <1>2, <1>3, <2>2
  <2>3. CASE ~(j[1] = cycle + 1 /\ j[2] \in scope)
    <3>1. job[j] # NoJob
      BY <1>1, <2>3
    <3>2. j[2] \in items /\ j[1] <= cycle
      BY <3>1 DEF IInv, JobsAreOfItems
    <3> QED BY <1>2, <1>3, <2>1, <3>2
  <2> QED BY <2>2, <2>3
<1>7. JobsAreWhole'
  <2>1. \A j \in Jobs : job'[j] = NewJob \/ job'[j] = job[j]
    BY <1>1
  <2> QED BY <2>1, JobFacts DEF IInv, JobsAreWhole
<1>8. CyclesBegin'
  <2>1. PICK i \in scope : i \in Items
    BY <1>1 DEF IInv, TypeOK
  <2>2. <<cycle', i>> \in Jobs
    BY <1>3, <2>1 DEF Jobs
  <2>3. job'[<<cycle', i>>] = NewJob
    BY <1>1, <1>2, <2>1, <2>2
  <2> QED BY <1>2, <2>1, <2>3, JobFacts DEF CyclesBegin
<1> QED BY <1>2, <1>5, <1>6, <1>7, <1>8 DEF IInv

LEMMA Start == ASSUME Init PROVE IInv
<1>1. TypeOK
  <2>1. items \subseteq Items /\ order \in OrderStatus /\ cycle \in Cycles
    BY PrintingAssumption DEF Init, OrderStatus, Production, Cycles
  <2>2. job \in [Jobs -> Job] /\ record = {} /\ creating = FALSE
    BY JobFacts DEF Init
  <2>3. /\ agent \in [Agents -> AgentState]
        /\ access \in [Agents -> {"ACTIVE", "LEAVING", "REVOKED"}]
    BY DEF Init, AgentState
  <2> QED BY <2>1, <2>2, <2>3 DEF TypeOK
<1>2. JobsAreOfItems /\ JobsAreWhole /\ CyclesBegin
  BY JobFacts DEF Init, JobsAreOfItems, JobsAreWhole, CyclesBegin
<1> QED BY <1>1, <1>2 DEF Init, IInv

LEMMA StepKeeps == ASSUME IInv, Next PROVE IInv'
<1>1. ASSUME NEW a \in Agents, AgentStep(a) PROVE IInv'
  <2>1. CASE \E j \in Jobs, heard \in BOOLEAN : Claim(a, j, heard)
    BY <2>1, ClaimKeeps
  <2>2. CASE ReportPrinting(a)
    BY <2>2, ReportKeeps DEF ReportPrinting
  <2>3. CASE ReportCompleted(a)
    BY <2>3, ReportKeeps DEF ReportCompleted
  <2>4. CASE ReportFailed(a)
    BY <2>4, ReportKeeps DEF ReportFailed
  <2> QED BY <1>1, <2>1, <2>2, <2>3, <2>4, AgentKeeps DEF AgentStep
<1>2. ASSUME NEW j \in Jobs, LeaseEnds(j) PROVE IInv'
  BY <1>2, LeaseEndsKeeps
<1>3. ASSUME NEW i \in Items, NEW status \in {"PRINTING", "COMPLETED"}, ItemByHand(i, status)
      PROVE  IInv'
  BY <1>3, ItemByHandKeeps
<1> QED BY <1>1, <1>2, <1>3, CreateAskedKeeps, CreateKeeps, WholeOrderByHandKeeps, ReprintKeeps, AgentKeeps
        DEF Next

LEMMA StutterKeeps == ASSUME IInv, UNCHANGED vars PROVE IInv'
BY JobsRest DEF vars, IInv, TypeOK

\* The inductive invariant holds in every reachable state.
THEOREM Invariant == Spec => []IInv
<1> QED BY Start, StepKeeps, StutterKeeps, PTL DEF Spec

\* The tables of jobs, answers and agents stay what they are declared to be:
\* no agent works on a job that is none, and no answer is recorded of another.
THEOREM TypeCorrect == Spec => []TypeOK
<1>1. IInv => TypeOK
  BY DEF IInv
<1> QED BY <1>1, Invariant, PTL

-----------------------------------------------------------------------------
(* Action properties.                                                        *)

CycleComplete ==
  /\ \E i \in items : job'[<<cycle, i>>].status = "COMPLETED"
  /\ \A i \in items : job'[<<cycle, i>>].status \in {"NONE", "COMPLETED"}

ReadyStep ==
  order' = "READY" /\ order # "READY" /\ Cardinality(items) > 1 => CycleComplete

\* The last job of its cycle is done.
LEMMA LastIsComplete ==
  ASSUME IInv, NEW j \in Jobs, j[1] = cycle, LastOf(j),
         NEW row, JobWrittenTo(j, row), row.status = "COMPLETED"
  PROVE  CycleComplete
<1>1. /\ j = <<cycle, j[2]>> /\ j[2] \in items /\ items \subseteq Items
      /\ \A i \in items : <<cycle, i>> \in Jobs
  BY JobOfCycle DEF IInv, TypeOK, JobsAreOfItems, JobWrittenTo
<1>2. job'[j] = row /\ \A k \in Jobs \ {j} : job'[k] = job[k]
  BY DEF IInv, TypeOK, JobWrittenTo
<1>3. \A i \in items : i # j[2] => job[<<cycle, i>>].status \in {"NONE", "COMPLETED"}
  BY DEF LastOf
<1>4. ASSUME NEW i \in items PROVE job'[<<cycle, i>>].status \in {"NONE", "COMPLETED"}
  <2>1. CASE i = j[2]
    BY <1>1, <1>2, <2>1
  <2>2. CASE i # j[2]
    <3>1. <<cycle, i>> \in Jobs \ {j}
      BY <1>1, <2>2
    <3> QED BY <1>2, <1>3, <2>2, <3>1
  <2> QED BY <2>1, <2>2
<1>5. job'[<<cycle, j[2]>>].status = "COMPLETED"
  BY <1>1, <1>2
<1> QED BY <1>1, <1>4, <1>5 DEF CycleComplete

LEMMA ReportReady ==
  ASSUME IInv, NEW a \in Agents, ReportPrinting(a) \/ ReportCompleted(a) \/ ReportFailed(a),
         order' = "READY", order # "READY"
  PROVE  CycleComplete
<1>1. PICK status \in {"PRINTING", "COMPLETED", "FAILED"}, j \in Jobs :
        Permitted(a, j, status) /\ Effect(j, status)
  BY ReportShape DEF ReportPrinting, ReportCompleted, ReportFailed, IInv
<1>2. status = "COMPLETED" /\ LastOf(j)
  BY <1>1 DEF Effect
<1>3. j[1] = cycle
  BY <1>1, EffectWrites
<1>4. PICK row : JobWrittenTo(j, row) /\ row.status = "COMPLETED"
  BY <1>1, <1>2, EffectWrites
<1> QED BY <1>2, <1>3, <1>4, LastIsComplete

LEMMA ByHandReady ==
  ASSUME IInv, NEW i \in Items, NEW status \in {"PRINTING", "COMPLETED"},
         ItemByHand(i, status), order' = "READY"
  PROVE  CycleComplete
<1> DEFINE j == <<cycle, i>>
           row == [job[j] EXCEPT !.status = status]
<1>1. status = "COMPLETED" /\ LastOf(j)
  BY DEF ItemByHand
<1>2. j \in Jobs /\ JobWrittenTo(j, row) /\ job[j] \in Job /\ j[1] = cycle
  BY ByHandWrites, JobOfCycle
<1>3. row.status = "COMPLETED"
  BY <1>1, <1>2 DEF Job
<1> HIDE DEF row, j
<1> QED BY <1>1, <1>2, <1>3, LastIsComplete

LEMMA FinishReady ==
  ASSUME IInv, FinishByHand, Cardinality(items) > 1
  PROVE  CycleComplete
<1>1. job' = job /\ \A i \in items : job[<<cycle, i>>].status = "COMPLETED"
  BY DEF FinishByHand
<1> QED BY <1>1 DEF CycleComplete, IInv

LEMMA NextIsReady == ASSUME IInv, Next PROVE ReadyStep
<1> SUFFICES ASSUME order' = "READY", order # "READY", Cardinality(items) > 1
             PROVE  CycleComplete
  BY DEF ReadyStep
<1>1. ASSUME NEW a \in Agents, AgentStep(a) PROVE CycleComplete
  <2>1. ~(\E j \in Jobs, heard \in BOOLEAN : Claim(a, j, heard)) /\ ~Spool(a)
    BY DEF Claim, Spool
  <2> QED BY <1>1, <2>1, ReportReady DEF AgentStep
<1>2. ASSUME NEW i \in Items, NEW status \in {"PRINTING", "COMPLETED"}, ItemByHand(i, status)
      PROVE  CycleComplete
  BY <1>2, ByHandReady
<1>3. ~CreateAsked /\ ~CreatePrintJobs /\ ~StartByHand /\ ~Reprint
  BY DEF CreateAsked, CreatePrintJobs, StartByHand, Reprint
<1>4. \A j \in Jobs : ~LeaseEnds(j)
  BY DEF LeaseEnds
<1>5. \A a \in Agents : ~Crash(a) /\ ~RevokeAsked(a) /\ ~Revoked(a)
  BY DEF Crash, RevokeAsked, Revoked
<1> QED BY <1>1, <1>2, <1>3, <1>4, <1>5, FinishReady DEF Next

\* setPrintJobStatus, setItemProductionStatus and setProductionStatus: whichever
\* of them makes an order of several items READY, every item that is in the
\* order's latest cycle is then printed, and the cycle is not an empty one.
THEOREM ReadyIsAlwaysComplete == Spec => ReadyIsComplete
<1>1. ASSUME IInv, [Next]_vars PROVE [ReadyStep]_vars
  BY <1>1, NextIsReady
<1>2. Spec => [][ReadyStep]_vars
  BY <1>1, Invariant, PTL DEF Spec
<1>3. ReadyIsComplete <=> [][ReadyStep]_vars
  BY DEF ReadyIsComplete, ReadyStep, CycleComplete
<1> QED BY <1>2, <1>3

-----------------------------------------------------------------------------
(* Jobs that are no longer the agents'.                                      *)

\* What a step may do to job j.
Rests(j) ==
  /\ j[1] < cycle /\ job'[j].status # job[j].status =>
       job'[j].status = "LEASED" /\ order' = order
  /\ ByHand(j) => job'[j] \in {job[j], [job[j] EXCEPT !.status = "COMPLETED"]}
  /\ job[j].status = "CANCELLED" => job'[j] = job[j]

RestStep == \A j \in Jobs : Rests(j)

LEMMA UntouchedRests == ASSUME NEW j \in Jobs, job'[j] = job[j] PROVE Rests(j)
BY DEF Rests

\* A job of an agent's or of none, of the latest cycle, neither in print by hand
\* nor cancelled, is free to be written.
LEMMA WrittenRests ==
  ASSUME IInv, NEW j \in Jobs, NEW row, JobWrittenTo(j, row),
         j[1] = cycle \/ (row.status = "LEASED" /\ order' = order),
         ~ByHand(j), job[j].status # "CANCELLED"
  PROVE  RestStep
<1>1. job'[j] = row /\ \A k \in Jobs \ {j} : job'[k] = job[k]
  BY DEF IInv, TypeOK, JobWrittenTo
<1>2. Rests(j)
  BY <1>1, JobOfCycle DEF Rests, Cycles
<1> QED BY <1>1, <1>2, UntouchedRests DEF RestStep

\* The newest job is of the latest cycle.
LEMMA NewestIsLatest ==
  ASSUME IInv, NEW j \in Jobs, Newest(j)
  PROVE  j[1] = cycle
<1>1. j[1] \in 1 .. MaxCycles /\ cycle \in 1 .. MaxCycles /\ j[1] <= cycle
  BY JobOfCycle DEF IInv, JobsAreOfItems, Newest, Cycles
<1>2. CASE cycle = 1
  BY <1>1, <1>2
<1>3. CASE cycle # 1
  <2>1. PICK i \in Items : job[<<cycle, i>>] # NoJob
    BY <1>3 DEF IInv, CyclesBegin
  <2>2. <<cycle, i>> \in Jobs /\ <<cycle, i>>[1] = cycle
    BY JobOfCycle
  <2>3. cycle <= j[1]
    BY <2>1, <2>2 DEF Newest
  <2> QED BY <1>1, <2>3
<1> QED BY <1>2, <1>3

LEMMA CreateRests == ASSUME IInv, CreatePrintJobs PROVE RestStep
<1>1. /\ NoJobs
      /\ \A j \in Jobs : job'[j] = IF j[1] = 1 /\ j[2] \in items THEN NewJob ELSE job[j]
      /\ cycle = 1
  BY DEF CreatePrintJobs, IInv, CyclesBegin
<1> SUFFICES ASSUME NEW j \in Jobs PROVE Rests(j)
  BY DEF RestStep
<1>2. CASE j[1] = 1 /\ j[2] \in items
  <2>1. job[j].status = "NONE"
    BY <1>1, JobFacts DEF NoJobs
  <2> QED BY <1>1, <1>2, <2>1 DEF Rests, ByHand
<1>3. CASE ~(j[1] = 1 /\ j[2] \in items)
  BY <1>1, <1>3, UntouchedRests
<1> QED BY <1>2, <1>3

LEMMA ReprintRests == ASSUME IInv, Reprint PROVE RestStep
<1> SUFFICES ASSUME NEW j \in Jobs PROVE Rests(j)
  BY DEF RestStep
<1>1. /\ cycle' = cycle + 1 /\ cycle \in 1 .. MaxCycles /\ j[1] \in 1 .. MaxCycles
      /\ (job'[j] = NewJob /\ j[1] = cycle + 1) \/ job'[j] = job[j]
  BY JobOfCycle DEF Reprint, Cycles
<1>2. CASE job'[j] = job[j]
  BY <1>2, UntouchedRests
<1>3. CASE j[1] = cycle + 1
  <2>1. job[j].status = "NONE"
    BY <1>1, <1>3, JobFacts, PrintingAssumption DEF IInv, JobsAreOfItems
  <2> QED BY <1>1, <1>3, <2>1 DEF Rests, ByHand
<1> QED BY <1>1, <1>2, <1>3

LEMMA LeaseEndRests == ASSUME IInv, NEW j \in Jobs, LeaseEnds(j) PROVE RestStep
<1>1. job'[j].status = job[j].status /\ \A k \in Jobs \ {j} : job'[k] = job[k]
  BY LeaseEndsKeeps
<1>2. ~ByHand(j) /\ job[j].status # "CANCELLED"
  BY PrintingAssumption DEF IInv, JobsAreWhole, LeaseEnds, ByHand
<1>3. Rests(j)
  BY <1>1, <1>2 DEF Rests
<1> QED BY <1>1, <1>3, UntouchedRests DEF RestStep

LEMMA ClaimRests ==
  ASSUME IInv, NEW a \in Agents, NEW j \in Jobs, NEW heard \in BOOLEAN, Claim(a, j, heard)
  PROVE  RestStep
<1> DEFINE row == [status |-> "LEASED", agent |-> a, leased |-> TRUE]
<1>1. job' = [job EXCEPT ![j] = row] /\ row \in Job /\ row.status = "LEASED" /\ row.agent = a
  BY DEF Claim, Job
<1>2. job[j].status \in {"PENDING", "LEASED"} /\ order' = order
  BY DEF Claim, Claimable
<1> HIDE DEF row
<1>3. JobWrittenTo(j, row)
  BY <1>1, <1>2, JobFacts DEF JobWrittenTo
<1> QED BY <1>1, <1>2, <1>3, WrittenRests DEF ByHand

LEMMA ReportRests ==
  ASSUME IInv, NEW a \in Agents, ReportPrinting(a) \/ ReportCompleted(a) \/ ReportFailed(a)
  PROVE  RestStep
<1>1. job' = job \/ \E status \in {"PRINTING", "COMPLETED", "FAILED"}, j \in Jobs :
                      Permitted(a, j, status) /\ Effect(j, status)
  BY ReportShape DEF ReportPrinting, ReportCompleted, ReportFailed, IInv
<1>2. CASE job' = job
  BY <1>2, UntouchedRests DEF RestStep
<1>3. ASSUME NEW status \in {"PRINTING", "COMPLETED", "FAILED"}, NEW j \in Jobs,
             Permitted(a, j, status), Effect(j, status)
      PROVE  RestStep
  <2>1. /\ j[1] = cycle /\ job[j].agent = a /\ job[j].leased
        /\ \E row : JobWrittenTo(j, row)
    BY <1>3, EffectWrites
  <2>2. ~ByHand(j) /\ job[j].status # "CANCELLED"
    BY <2>1, PrintingAssumption DEF ByHand, IInv, JobsAreWhole
  <2> QED BY <2>1, <2>2, WrittenRests
<1> QED BY <1>1, <1>2, <1>3

LEMMA ByHandRests ==
  ASSUME IInv, NEW i \in Items, NEW status \in {"PRINTING", "COMPLETED"},
         ItemByHand(i, status)
  PROVE  RestStep
<1> DEFINE j == <<cycle, i>>
           row == [job[j] EXCEPT !.status = status]
<1>1. /\ j \in Jobs /\ job[j].status \in {"PENDING", "PRINTING"}
      /\ job[j].status = "PRINTING" => status = "COMPLETED"
      /\ JobWrittenTo(j, row) /\ j[1] = cycle
  BY ByHandWrites
<1>2. CASE job[j].status = "PENDING"
  <2>1. ~ByHand(j) /\ job[j].status # "CANCELLED"
    BY <1>2 DEF ByHand
  <2> HIDE DEF j, row
  <2> QED BY <1>1, <2>1, WrittenRests
<1>3. CASE job[j].status = "PRINTING"
  <2>1. /\ job'[j] = [job[j] EXCEPT !.status = "COMPLETED"]
        /\ \A k \in Jobs \ {j} : job'[k] = job[k]
    BY <1>1, <1>3 DEF IInv, TypeOK, JobWrittenTo
  <2>2. Rests(j)
    BY <1>1, <1>3, <2>1, JobOfCycle DEF Rests, Cycles
  <2> HIDE DEF j, row
  <2> QED BY <1>1, <2>1, <2>2, UntouchedRests DEF RestStep
<1> QED BY <1>1, <1>2, <1>3

LEMMA StartRests == ASSUME IInv, StartByHand PROVE RestStep
<1>1. CASE job' = job
  BY <1>1, UntouchedRests DEF RestStep
<1>2. ASSUME NEW j \in Jobs, NEW row, Newest(j), job[j].status = "PENDING",
             JobWrittenTo(j, row)
      PROVE  RestStep
  <2>1. j[1] = cycle /\ ~ByHand(j) /\ job[j].status # "CANCELLED"
    BY <1>2, NewestIsLatest DEF ByHand
  <2> QED BY <1>2, <2>1, WrittenRests
<1> QED BY <1>1, <1>2, StartWrites

LEMMA NextRests == ASSUME IInv, Next PROVE RestStep
<1>1. ASSUME NEW a \in Agents, AgentStep(a) \/ Crash(a) \/ RevokeAsked(a) \/ Revoked(a)
      PROVE  RestStep
  <2>1. CASE \E j \in Jobs, heard \in BOOLEAN : Claim(a, j, heard)
    BY <2>1, ClaimRests
  <2>2. CASE ReportPrinting(a) \/ ReportCompleted(a) \/ ReportFailed(a)
    BY <2>2, ReportRests
  <2>3. CASE Spool(a) \/ Crash(a) \/ RevokeAsked(a) \/ Revoked(a)
    BY <2>3, UntouchedRests DEF RestStep, Spool, Crash, RevokeAsked, Revoked
  <2> QED BY <1>1, <2>1, <2>2, <2>3 DEF AgentStep
<1>2. ASSUME NEW j \in Jobs, LeaseEnds(j) PROVE RestStep
  BY <1>2, LeaseEndRests
<1>3. ASSUME NEW i \in Items, NEW status \in {"PRINTING", "COMPLETED"}, ItemByHand(i, status)
      PROVE  RestStep
  BY <1>3, ByHandRests
<1>4. CASE FinishByHand \/ CreateAsked
  BY <1>4, UntouchedRests DEF RestStep, FinishByHand, CreateAsked
<1> QED BY <1>1, <1>2, <1>3, <1>4, CreateRests, ReprintRests, StartRests DEF Next

\* createPrintJob, setPrintJobStatus, the manual path and the reprint leave alone
\* what is not the agents' any more: a job of an older cycle is at most claimed,
\* one in print by hand is at most completed, a cancelled one never changes.
THEOREM OthersJobsAlwaysRest == Spec => OthersJobsRest
<1>1. ASSUME IInv, [Next]_vars PROVE [RestStep]_vars
  BY <1>1, NextRests
<1>2. Spec => [][RestStep]_vars
  BY <1>1, Invariant, PTL DEF Spec
<1>3. OthersJobsRest <=> [][RestStep]_vars
  BY DEF OthersJobsRest, RestStep, Rests
<1> QED BY <1>2, <1>3
=============================================================================
