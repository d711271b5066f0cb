-------------------------- MODULE SwitchoverProofs --------------------------
(* Type correctness of Switchover for any number of groups, roles and       *)
(* priorities, any lag, any commands and any faults, and the invariants     *)
(* that follow from it.                                                    *)
EXTENDS Switchover, ClusterStoreProofs

(***************************************************************************)
(* The controller                                                          *)
(***************************************************************************)
\* The aggregation of a group's roles is a state a group may report.
LEMMA GroupActualType ==
    ASSUME NEW managed, NEW reports, NEW newer
    PROVE  GroupActual(managed, reports, newer) \in Actuals
BY DEF GroupActual, Actuals

\* What a group may be, a role may report.
LEMMA ActualsAreReports == Actuals \subseteq Reports
BY DEF Actuals, Reports

\* The groups a phase visits are groups.
LEMMA PhaseGroups ==
    ASSUME ControllerTypeOK
    PROVE  /\ ManagedIn(rt) \subseteq Groups
           /\ Demotable(rt) \cup Promotable(rt) \subseteq Groups
BY DEF ControllerTypeOK, ManagedIn, Demotable, Promotable, TopGroups, Best, AvailableIn

\* The next phase visits groups and keeps what was collected, or nothing.
LEMMA ContinueTypes ==
    ASSUME ControllerTypeOK, NEW phase \in Phases, NEW rest \in SUBSET Groups,
           Continue(phase, rest)
    PROVE  /\ pc' \in Phases
           /\ todo' \subseteq Groups
           /\ DOMAIN rt' \subseteq Groups
           /\ rt' \in [DOMAIN rt' -> Runtimes]
<1>1. CASE rt' = rt
  BY <1>1 DEF ControllerTypeOK, Continue
<1>2. CASE rt' = NoRuntimes
  <2>1. DOMAIN rt' = {} /\ rt' \in [{} -> Runtimes]
    BY <1>2 DEF NoRuntimes
  <2> QED BY <2>1 DEF Continue
<1> QED BY <1>1, <1>2 DEF Continue

\* The end of a pass.
LEMMA FinishTypes ==
    ASSUME ControllerTypeOK, FinishPass
    PROVE  /\ pc' \in Phases
           /\ todo' \subseteq Groups
           /\ DOMAIN rt' \subseteq Groups
           /\ rt' \in [DOMAIN rt' -> Runtimes]
<1>1. "idle" \in Phases /\ {} \in SUBSET Groups
  BY DEF Phases
<1> QED BY <1>1, ContinueTypes DEF FinishPass

\* writeDesiredIfChanged writes a proper desired document.
LEMMA WriteDesiredTypes ==
    ASSUME StoreTypeOK, NEW g \in Groups, NEW state \in {"active", "passive"},
           NEW ok \in BOOLEAN, WriteDesired(g, state, ok)
    PROVE  StoreTypeOK'
<1>1. CASE UNCHANGED storeVars
  BY <1>1 DEF storeVars, StoreTypeOK, Snapshot
<1>2. CASE TryPut(Desired(g), Doc(state, TRUE), ok)
  <2>1. Doc(state, TRUE) \in ValuesAt(Desired(g))
    BY ValuesOfGroup DEF Doc, Docs
  <2> QED BY <1>2, <2>1, KeysOfGroup, TryPutTypes
<1> QED BY <1>1, <1>2 DEF WriteDesired

\* A step that leaves etcd, the copy and the watch alone.
LEMMA StoreUnchanged ==
    ASSUME StoreTypeOK, UNCHANGED storeVars
    PROVE  StoreTypeOK'
BY DEF storeVars, StoreTypeOK, Snapshot

\* reconcileManagementGroup collects and publishes a proper state.
LEMMA CollectTypes ==
    ASSUME StoreTypeOK, ControllerTypeOK, NEW g \in Groups, CollectGroup(g)
    PROVE  StoreTypeOK' /\ ControllerTypeOK'
<1> USE DEF StoreTypeOK, ControllerTypeOK
<1>1. PICK startingIsNewer \in BOOLEAN, ok \in BOOLEAN :
        LET doc == store[Desired(g)]
            actual == GroupActual(doc.managed,
                                  {store[RoleKey(g, r)] : r \in Roles},
                                  startingIsNewer)
            runtime == [priority |-> store[Priority(g)], desired |-> doc.state,
                        managed |-> doc.managed, actual |-> actual]
            collected == [h \in DOMAIN rt \cup {g} |-> IF h = g THEN runtime ELSE rt[h]]
        IN  \/ /\ rt' = collected
               /\ UNCHANGED <<pc, storeVars>>
            \/ /\ TryPut(Status(g), actual, ok)
               /\ \/ rt' = collected /\ pc' = "priority"
                  \/ UNCHANGED <<rt, pc>>
  BY DEF CollectGroup
<1> DEFINE doc == store[Desired(g)]
           actual == GroupActual(doc.managed,
                                 {store[RoleKey(g, r)] : r \in Roles},
                                 startingIsNewer)
           runtime == [priority |-> store[Priority(g)], desired |-> doc.state,
                       managed |-> doc.managed, actual |-> actual]
           collected == [h \in DOMAIN rt \cup {g} |-> IF h = g THEN runtime ELSE rt[h]]
<1>2. actual \in Actuals
  BY GroupActualType
<1>3. runtime \in Runtimes
  <2>1. doc \in Docs /\ store[Priority(g)] \in Priorities
    BY SnapshotValues
  <2> HIDE DEF doc, actual
  <2> QED BY <2>1, <1>2 DEF Runtimes, Docs
<1> HIDE DEF actual, runtime
<1>4. DOMAIN collected \subseteq Groups /\ collected \in [DOMAIN collected -> Runtimes]
  BY <1>3
<1>5. (rt' = collected \/ rt' = rt) /\ pc' \in {pc, "priority"}
  BY <1>1 DEF actual, runtime
<1>6. DOMAIN rt' \subseteq Groups /\ rt' \in [DOMAIN rt' -> Runtimes]
  BY <1>4, <1>5
<1>7. StoreTypeOK'
  <2>1. CASE UNCHANGED storeVars
    BY <2>1, StoreUnchanged
  <2>2. CASE TryPut(Status(g), actual, ok)
    <3>1. actual \in ValuesAt(Status(g)) /\ Status(g) \in Keys
      BY <1>2, ActualsAreReports, ValuesOfGroup, KeysOfGroup
    <3> QED BY <2>2, <3>1, TryPutTypes
  <2> QED BY <2>1, <2>2, <1>1 DEF actual, runtime
<1> QED BY <1>5, <1>6, <1>7 DEF CollectGroup, Phases

\* The priority that is read after the put is a priority.
LEMMA ReadPriorityTypes ==
    ASSUME StoreTypeOK, ControllerTypeOK, NEW g \in Groups, ReadPriority(g)
    PROVE  StoreTypeOK' /\ ControllerTypeOK'
<1>1. store[Priority(g)] \in Priorities
  BY SnapshotValues DEF StoreTypeOK
<1>2. g \in DOMAIN rt /\ rt[g] \in Runtimes
  BY DEF ReadPriority, ControllerTypeOK
<1>3. [rt[g] EXCEPT !.priority = store[Priority(g)]] \in Runtimes
  BY <1>1, <1>2 DEF Runtimes
<1>4. DOMAIN rt' = DOMAIN rt /\ rt' \in [DOMAIN rt -> Runtimes]
  BY <1>2, <1>3 DEF ReadPriority, ControllerTypeOK
<1> QED BY <1>4, StoreUnchanged DEF ReadPriority, ControllerTypeOK, Phases

\* The priorities that automatic failover writes are priorities.
LEMMA SwapTypes ==
    ASSUME StoreTypeOK, ControllerTypeOK, NEW g \in Groups, SwapPriority(g)
    PROVE  StoreTypeOK' /\ ControllerTypeOK'
<1>1. PICK p \in Priorities, ok \in BOOLEAN :
        \/ UNCHANGED storeVars
        \/ TryPut(Priority(g), p, ok)
  BY DEF SwapPriority
<1>2. StoreTypeOK'
  BY <1>1, StoreUnchanged, TryPutTypes, KeysOfGroup, ValuesOfGroup
<1>3. "failover" \in Phases /\ todo \ {g} \in SUBSET Groups
  BY DEF Phases, ControllerTypeOK
<1> QED BY <1>2, <1>3, ContinueTypes DEF SwapPriority, ControllerTypeOK

\* One write of a loop over groups.
LEMMA WriteNextTypes ==
    ASSUME StoreTypeOK, ControllerTypeOK, NEW g \in Groups,
           NEW phase \in Phases, NEW state \in {"active", "passive"},
           WriteNext(phase, state, g)
    PROVE  StoreTypeOK' /\ ControllerTypeOK'
<1>1. PICK ok \in BOOLEAN :
        /\ WriteDesired(g, state, ok)
        /\ Continue(IF ok THEN phase ELSE "idle", IF ok THEN todo \ {g} ELSE {})
  BY DEF WriteNext
<1>2. /\ (IF ok THEN phase ELSE "idle") \in Phases
      /\ (IF ok THEN todo \ {g} ELSE {}) \in SUBSET Groups
  BY DEF Phases, ControllerTypeOK
<1> QED BY <1>1, <1>2, WriteDesiredTypes, ContinueTypes DEF WriteNext, ControllerTypeOK

\* Phase 1.
LEMMA DrainTypes ==
    ASSUME StoreTypeOK, ControllerTypeOK, NEW h \in Groups, DrainHolder(h)
    PROVE  StoreTypeOK' /\ ControllerTypeOK'
<1>1. PICK t \in Groups, ok \in BOOLEAN :
        /\ WriteDesired(h, "passive", ok)
        /\ CASE ok /\ started[h] = "none" ->
                  /\ started' = [started EXCEPT ![h] = "running"]
                  /\ switchTarget' = t
             [] ok /\ started[h] = "expired" ->
                  /\ started' = [started EXCEPT ![h] = "none"]
                  /\ switchTarget' = None
             [] OTHER -> UNCHANGED <<started, switchTarget>>
  BY DEF DrainHolder
<1>2. /\ started' \in [Groups -> Timers]
      /\ switchTarget' \in Groups \cup {None}
  BY <1>1 DEF ControllerTypeOK, Timers
<1>3. StoreTypeOK'
  BY <1>1, WriteDesiredTypes
<1> QED BY <1>2, <1>3, FinishTypes DEF DrainHolder, ControllerTypeOK

\* Phase 2.
LEMMA ActivateTypes ==
    ASSUME StoreTypeOK, ControllerTypeOK, NEW t \in Groups, ActivateTarget(t)
    PROVE  StoreTypeOK' /\ ControllerTypeOK'
<1>1. started' \in [Groups -> Timers] /\ switchTarget' \in Groups \cup {None}
  BY DEF ActivateTarget, ControllerTypeOK, Timers
<1>2. PICK ok \in BOOLEAN :
        /\ WriteDesired(t, "active", ok)
        /\ Continue(IF ok THEN "passivate" ELSE "idle",
                    IF ok THEN ManagedIn(rt) \ {t} ELSE {})
  BY DEF ActivateTarget
<1>3. /\ (IF ok THEN "passivate" ELSE "idle") \in Phases
      /\ (IF ok THEN ManagedIn(rt) \ {t} ELSE {}) \in SUBSET Groups
  BY PhaseGroups DEF Phases
<1> QED BY <1>1, <1>2, <1>3, WriteDesiredTypes, ContinueTypes DEF ControllerTypeOK

\* The actions that write nothing.
LEMMA QuietTypes ==
    ASSUME StoreTypeOK, ControllerTypeOK,
           \/ StartReconcile
           \/ BeginFailover
           \/ BeginActivateAll
           \/ NoTarget
           \/ EndPass
           \/ \E g \in Groups : KeepTarget(g) \/ GuardActivation(g)
    PROVE  StoreTypeOK' /\ ControllerTypeOK'
<1>1. CASE StartReconcile
  <2>1. DOMAIN rt' = {} /\ rt' \in [{} -> Runtimes]
    BY <1>1 DEF StartReconcile, NoRuntimes
  <2> QED BY <1>1, <2>1, StoreUnchanged DEF StartReconcile, ControllerTypeOK, Phases
<1>2. CASE BeginFailover
  <2>1. "failover" \in Phases BY DEF Phases
  <2> QED
    BY <1>2, <2>1, PhaseGroups, ContinueTypes, StoreUnchanged
       DEF BeginFailover, ControllerTypeOK
<1>3. CASE BeginActivateAll
  <2>1. "activateAll" \in Phases BY DEF Phases
  <2> QED
    BY <1>3, <2>1, PhaseGroups, ContinueTypes, StoreUnchanged
       DEF BeginActivateAll, ControllerTypeOK
<1>4. CASE NoTarget
  BY <1>4, FinishTypes, StoreUnchanged DEF NoTarget, ControllerTypeOK
<1>5. CASE EndPass
  BY <1>5, FinishTypes, StoreUnchanged DEF EndPass, ControllerTypeOK
<1>6. ASSUME NEW t \in Groups, KeepTarget(t) PROVE StoreTypeOK' /\ ControllerTypeOK'
  <2>1. "passivate" \in Phases /\ ManagedIn(rt) \ {t} \in SUBSET Groups
    BY PhaseGroups DEF Phases
  <2> QED BY <1>6, <2>1, ContinueTypes, StoreUnchanged DEF KeepTarget, ControllerTypeOK
<1>7. ASSUME NEW t \in Groups, GuardActivation(t)
      PROVE  StoreTypeOK' /\ ControllerTypeOK'
  BY <1>7, FinishTypes, StoreUnchanged DEF GuardActivation, ControllerTypeOK
<1> QED BY <1>1, <1>2, <1>3, <1>4, <1>5, <1>6, <1>7

\* Every step of the reconcile loop.
LEMMA ControllerStepTypes ==
    ASSUME StoreTypeOK, ControllerTypeOK, ControllerStep
    PROVE  StoreTypeOK' /\ ControllerTypeOK'
<1>1. ASSUME NEW g \in Groups, ActivateNext(g) PROVE StoreTypeOK' /\ ControllerTypeOK'
  <2>1. "activateAll" \in Phases BY DEF Phases
  <2> QED BY <1>1, <2>1, WriteNextTypes DEF ActivateNext
<1>2. ASSUME NEW g \in Groups, PassivateNext(g) PROVE StoreTypeOK' /\ ControllerTypeOK'
  <2>1. "passivate" \in Phases BY DEF Phases
  <2> QED BY <1>2, <2>1, WriteNextTypes DEF PassivateNext
<1>3. CASE \E g \in Groups : \/ CollectGroup(g)
                             \/ ReadPriority(g)
                             \/ SwapPriority(g)
                             \/ DrainHolder(g)
                             \/ ActivateTarget(g)
  BY <1>3, CollectTypes, ReadPriorityTypes, SwapTypes, DrainTypes, ActivateTypes
<1> QED BY <1>1, <1>2, <1>3, QuietTypes DEF ControllerStep

(***************************************************************************)
(* Commands                                                                *)
(***************************************************************************)
LEMMA WriteTypes ==
    ASSUME NEW k \in Keys, NEW v \in ValuesAt(k)
    PROVE  Write(k, v) \in Events
BY EventShape DEF Write

\* What the plans of the commands write is proper.
LEMMA PlannedWrites ==
    ASSUME StoreTypeOK, NEW g \in Groups, NEW h \in Groups
    PROVE  /\ Write(Priority(g), PriorityOf(h)) \in Events
           /\ \A state \in {"active", "passive"}, managed \in BOOLEAN :
                Write(Desired(g), Doc(state, managed)) \in Events
           /\ store[Desired(g)].state \in {"active", "passive"}
<1>1. store[Desired(g)] \in Docs /\ store[Priority(h)] \in Priorities
  BY SnapshotValues DEF StoreTypeOK
<1>2. Write(Priority(g), PriorityOf(h)) \in Events
  BY <1>1, WriteTypes, KeysOfGroup, ValuesOfGroup DEF PriorityOf
<1>3. ASSUME NEW state \in {"active", "passive"}, NEW managed \in BOOLEAN
      PROVE  Write(Desired(g), Doc(state, managed)) \in Events
  <2>1. Doc(state, managed) \in ValuesAt(Desired(g))
    BY ValuesOfGroup DEF Doc, Docs
  <2> QED BY <2>1, WriteTypes, KeysOfGroup
<1> QED BY <1>1, <1>2, <1>3 DEF Docs

\* A tuple of proper writes is a plan.
LEMMA Plans ==
    ASSUME NEW a \in Events, NEW b \in Events, NEW c \in Events, NEW d \in Events
    PROVE  /\ <<>> \in Seq(Events)
           /\ <<a>> \in Seq(Events)
           /\ <<a, b>> \in Seq(Events)
           /\ <<a, b, c, d>> \in Seq(Events)
OBVIOUS

JobTypeOK ==
    job \in {NoJob} \cup [group : Groups, plan : Seq(Events), activate : BOOLEAN]

\* A command begins with a proper plan.
LEMMA StartTypes ==
    ASSUME NEW g \in Groups, NEW plan \in Seq(Events), NEW activate \in BOOLEAN,
           Start(g, plan, activate)
    PROVE  JobTypeOK'
BY DEF Start, JobTypeOK

\* Each command of the consumer, when it begins.
LEMMA ExecTypes ==
    ASSUME StoreTypeOK, JobTypeOK, NEW g \in Groups,
           \/ ExecPromote(g)
           \/ ExecDemote(g)
           \/ ExecDisable(g)
           \/ ExecEnable(g)
           \/ ExecForcePassive(g)
    PROVE  JobTypeOK'
<1>1. CASE UNCHANGED job
  BY <1>1 DEF JobTypeOK
<1>2. CASE ExecPromote(g)
  <2>1. PICK top \in Groups :
          IF PriorityOf(g) = PriorityOf(top)
          THEN Start(g, <<>>, TRUE)
          ELSE Start(g, <<Write(Priority(g), PriorityOf(top)),
                          Write(Priority(top), PriorityOf(g))>>, TRUE)
    BY <1>2 DEF ExecPromote
  <2>2. <<>> \in Seq(Events) /\ <<Write(Priority(g), PriorityOf(top)),
                                  Write(Priority(top), PriorityOf(g))>> \in Seq(Events)
    BY PlannedWrites
  <2> QED BY <2>1, <2>2, StartTypes
<1>3. ASSUME NEW managed \in BOOLEAN, SetManaged(g, managed) PROVE JobTypeOK'
  <2>1. <<Write(Desired(g), Doc(store[Desired(g)].state, managed))>> \in Seq(Events)
    BY PlannedWrites
  <2> QED BY <1>3, <2>1, StartTypes DEF SetManaged
<1>4. CASE Start(g, <<Write(Desired(g), Doc("passive", TRUE))>>, FALSE)
  <2>1. Write(Desired(g), Doc("passive", TRUE)) \in Events
    BY PlannedWrites
  <2> DEFINE plan == <<Write(Desired(g), Doc("passive", TRUE))>>
  <2>2. plan \in Seq(Events)
    BY <2>1, Plans
  <2>3. Start(g, plan, FALSE)
    BY <1>4
  <2> HIDE DEF plan
  <2> QED BY <2>2, <2>3, StartTypes
<1>5. ASSUME NEW best \in Groups,
             Start(g, <<Write(Priority(best), PriorityOf(g)),
                        Write(Priority(g), PriorityOf(best)),
                        Write(Desired(g), Doc("passive", TRUE)),
                        Write(Desired(best), Doc("active", TRUE))>>, FALSE)
      PROVE  JobTypeOK'
  <2>1. /\ Write(Priority(best), PriorityOf(g)) \in Events
        /\ Write(Priority(g), PriorityOf(best)) \in Events
        /\ Write(Desired(g), Doc("passive", TRUE)) \in Events
        /\ Write(Desired(best), Doc("active", TRUE)) \in Events
    BY PlannedWrites
  <2> DEFINE plan == <<Write(Priority(best), PriorityOf(g)),
                       Write(Priority(g), PriorityOf(best)),
                       Write(Desired(g), Doc("passive", TRUE)),
                       Write(Desired(best), Doc("active", TRUE))>>
  <2>2. plan \in Seq(Events)
    BY <2>1, Plans
  <2>3. Start(g, plan, FALSE)
    BY <1>5
  <2> HIDE DEF plan
  <2> QED BY <2>2, <2>3, StartTypes
<1> QED BY <1>1, <1>2, <1>3, <1>4, <1>5
       DEF ExecDemote, ExecDisable, ExecEnable, ExecForcePassive

\* Every step of the command consumer.
LEMMA ConsumerStepTypes ==
    ASSUME StoreTypeOK, CommandTypeOK, ConsumerStep
    PROVE  StoreTypeOK' /\ CommandTypeOK'
<1> JobTypeOK
  BY DEF CommandTypeOK, JobTypeOK
<1>1. CASE BeginCommand
  <2>1. Head(queue).group \in Groups /\ Tail(queue) \in Seq(Commands)
    <3>1. Head(queue) \in Commands /\ Tail(queue) \in Seq(Commands)
      BY <1>1 DEF BeginCommand, CommandTypeOK
    <3> QED BY <3>1 DEF Commands
  <2>2. JobTypeOK'
    BY <1>1, <2>1, ExecTypes DEF BeginCommand
  <2> QED BY <1>1, <2>1, <2>2, StoreUnchanged DEF BeginCommand, CommandTypeOK, JobTypeOK
<1>2. CASE ExecWrite
  <2>0. job \in [group : Groups, plan : Seq(Events), activate : BOOLEAN]
    BY <1>2 DEF ExecWrite, JobTypeOK, NoJob
  <2>1. Head(job.plan) \in Events /\ Tail(job.plan) \in Seq(Events)
    BY <1>2, <2>0 DEF ExecWrite
  <2>2. StoreTypeOK'
    BY <1>2, <2>1, EventParts, TryPutTypes DEF ExecWrite
  <2>3. job' \in {[job EXCEPT !.plan = Tail(job.plan)], NoJob}
    BY <1>2 DEF ExecWrite
  <2>4. JobTypeOK'
    BY <2>0, <2>1, <2>3 DEF JobTypeOK
  <2> QED BY <1>2, <2>2, <2>4 DEF ExecWrite, CommandTypeOK, JobTypeOK
<1>3. CASE ExecActivate
  <2>1. PICK ok \in BOOLEAN :
          TryPut(Desired(job.group),
                 Doc(IF HasNoActiveGroup THEN "active" ELSE "passive", TRUE), ok)
    BY <1>3 DEF ExecActivate
  <2>2. job.group \in Groups
    BY <1>3 DEF ExecActivate, JobTypeOK, NoJob
  <2>3. Doc(IF HasNoActiveGroup THEN "active" ELSE "passive", TRUE)
           \in ValuesAt(Desired(job.group))
    BY <2>2, ValuesOfGroup DEF Doc, Docs
  <2>4. StoreTypeOK'
    BY <2>1, <2>2, <2>3, KeysOfGroup, TryPutTypes
  <2> QED BY <1>3, <2>4 DEF ExecActivate, CommandTypeOK, NoJob
<1> QED BY <1>1, <1>2, <1>3 DEF ConsumerStep

\* A valid command is queued.
LEMMA SubmitTypes ==
    ASSUME StoreTypeOK, CommandTypeOK, NEW type \in CommandTypes, NEW g \in Groups,
           Submit(type, g)
    PROVE  StoreTypeOK' /\ CommandTypeOK'
<1>1. [type |-> type, group |-> g] \in Commands
  BY DEF Commands
<1>2. queue' \in Seq(Commands)
  BY <1>1 DEF Submit, CommandTypeOK
<1>3. submitted' \in 0..MaxCommands
  BY CommandAssumption DEF Submit, CommandTypeOK
<1> QED BY <1>2, <1>3, StoreUnchanged DEF Submit, CommandTypeOK, NoJob

(***************************************************************************)
(* The role agents                                                         *)
(***************************************************************************)
LEMMA ReportTypes ==
    ASSUME StoreTypeOK, NEW w \in Workers, NEW state \in Reports,
           Report(w, state) \/ Put(RoleKey(w[1], w[2]), state)
    PROVE  StoreTypeOK'
<1>1. w[1] \in Groups /\ w[2] \in Roles
  BY DEF Workers
<1>2. RoleKey(w[1], w[2]) \in Keys /\ state \in ValuesAt(RoleKey(w[1], w[2]))
  BY <1>1, KeysOfRole, ValuesOfRole
<1> QED BY <1>2, PutTypes, StoreUnchanged DEF Report

\* Every step and every fault of a role worker.
LEMMA AgentTypes ==
    ASSUME StoreTypeOK, AgentTypeOK, NEW w \in Workers,
           Observe(w) \/ AgentStep(w) \/ AgentFault(w)
    PROVE  StoreTypeOK' /\ AgentTypeOK'
<1> USE DEF AgentTypeOK, Goto
<1>0. /\ w[1] \in Groups
      /\ seen[w] \in Docs
      /\ seen[w].state \in {"active", "passive"}
      /\ {"active", "passive", "starting", "stopping", "failed", "absent"} \subseteq Reports
  BY DEF Workers, Docs, Reports, Actuals
<1>1. CASE Observe(w)
  <2>1. etcd[Desired(w[1])] \in Docs
    BY <1>0, SnapshotValues DEF StoreTypeOK
  <2> QED BY <1>1, <2>1, StoreUnchanged DEF Observe
<1>2. CASE ProbeOk(w)
  BY <1>0, <1>2, ReportTypes DEF ProbeOk
<1>3. CASE ProbeMismatch(w)
  <2>1. StoreTypeOK'
    BY <1>0, <1>3, ReportTypes DEF ProbeMismatch
  <2> QED BY <1>3, <2>1 DEF ProbeMismatch
<1>4. CASE SetService(w)
  BY <1>0, <1>4, StoreUnchanged DEF SetService
<1>5. CASE SetFails(w)
  BY <1>5, StoreUnchanged DEF SetFails
<1>6. CASE GiveUp(w)
  <2>1. StoreTypeOK'
    BY <1>0, <1>6, ReportTypes DEF GiveUp
  <2> QED BY <1>6, <2>1 DEF GiveUp
<1>7. CASE ServiceCrashes(w)
  BY <1>7, StoreUnchanged DEF ServiceCrashes
<1>8. CASE AgentLost(w)
  <2>1. StoreTypeOK'
    BY <1>0, <1>8, ReportTypes DEF AgentLost
  <2> QED BY <1>8, <2>1 DEF AgentLost
<1>9. CASE AgentReturns(w)
  BY <1>9, StoreUnchanged DEF AgentReturns
<1> QED BY <1>1, <1>2, <1>3, <1>4, <1>5, <1>6, <1>7, <1>8, <1>9
       DEF AgentStep, AgentFault

(***************************************************************************)
(* The composition                                                         *)
(***************************************************************************)
LEMMA ControllerUnchanged ==
    ASSUME ControllerTypeOK, UNCHANGED ctlVars PROVE ControllerTypeOK'
BY DEF ctlVars, ControllerTypeOK

\* Steps that do not concern the consumer ...
LEMMA CommandsUnchanged ==
    ASSUME CommandTypeOK, UNCHANGED cmdVars PROVE CommandTypeOK'
BY DEF cmdVars, CommandTypeOK

\* ... or the workers.
LEMMA AgentsUnchanged ==
    ASSUME AgentTypeOK, UNCHANGED agentVars PROVE AgentTypeOK'
BY DEF agentVars, AgentTypeOK

\* A run begins in a well-formed state.
LEMMA InitTypes == Init => TypeOK
<1> SUFFICES ASSUME Init PROVE TypeOK
  OBVIOUS
<1>1. PICK desired \in InitialDesired, priority \in InitialPriority :
        /\ etcd = [k \in Keys |-> InitialValue(desired, priority, k)]
        /\ AgentInit(desired)
  BY DEF Init
<1>2. desired \in [Groups -> Docs] /\ priority \in [Groups -> Priorities]
  BY SwitchoverAssumption
<1>3. ASSUME NEW k \in Keys PROVE InitialValue(desired, priority, k) \in ValuesAt(k)
  <2>1. CASE k \in DesiredKeys
    BY <1>2, <2>1 DEF DesiredKeys, InitialValue, ValuesAt
  <2>2. CASE k \in PriorityKeys
    BY <1>2, <2>2 DEF PriorityKeys, InitialValue, ValuesAt
  <2>3. CASE k \in StatusKeys \cup RoleKeys
    <3>1. /\ k[1] \notin {"desired", "config"}
          /\ k[2] \in Groups
      BY <2>3 DEF StatusKeys, RoleKeys
    <3>2. desired[k[2]].state \in Reports
      BY <1>2, <3>1 DEF Docs, Reports, Actuals
    <3> QED BY <3>1, <3>2 DEF InitialValue, ValuesAt
  <2> QED BY <2>1, <2>2, <2>3 DEF Keys
<1>4. StoreTypeOK
  BY <1>1, <1>3 DEF Init, StoreTypeOK, Snapshot
<1>5. ControllerTypeOK
  BY DEF Init, ControllerInit, ControllerTypeOK, Phases, Timers, NoRuntimes
<1>6. CommandTypeOK
  BY CommandAssumption DEF Init, CommandInit, CommandTypeOK
<1>7. AgentTypeOK
  BY <1>1, <1>2 DEF AgentInit, AgentTypeOK, Docs, Workers
<1> QED BY <1>4, <1>5, <1>6, <1>7 DEF TypeOK

\* Every step keeps the state well formed.
LEMMA NextTypes == TypeOK /\ [Next]_vars => TypeOK'
<1> SUFFICES ASSUME TypeOK, [Next]_vars PROVE TypeOK'
  OBVIOUS
<1> USE DEF TypeOK
<1>1. CASE DeliverEvent
  BY <1>1, DeliverTypes, ControllerUnchanged, CommandsUnchanged, AgentsUnchanged
     DEF DeliverEvent
<1>2. CASE ReconcileStep
  BY <1>2, ControllerStepTypes, CommandsUnchanged, AgentsUnchanged DEF ReconcileStep
<1>3. CASE CommandStep
  BY <1>3, ConsumerStepTypes, ControllerUnchanged, AgentsUnchanged DEF CommandStep
<1>4. CASE OperatorStep
  BY <1>4, SubmitTypes, ControllerUnchanged, AgentsUnchanged DEF OperatorStep
<1>5. CASE LeaderRestarts
  <2>1. ControllerTypeOK'
    BY <1>5 DEF LeaderRestarts, ForgetMemory, ControllerTypeOK, Phases, Timers, NoRuntimes
  <2>2. CommandTypeOK'
    BY <1>5 DEF LeaderRestarts, CommandTypeOK
  <2> QED BY <1>5, <2>1, <2>2, StoreUnchanged, AgentsUnchanged DEF LeaderRestarts
<1>6. ASSUME NEW w \in Workers, WorkerPoll(w) \/ WorkerStep(w) \/ WorkerFault(w)
      PROVE  TypeOK'
  BY <1>6, AgentTypes, ControllerUnchanged, CommandsUnchanged
     DEF WorkerPoll, WorkerStep, WorkerFault
<1>7. ASSUME NEW g \in Groups, TimerStep(g) PROVE TypeOK'
  <2>1. ControllerTypeOK'
    BY <1>7 DEF TimerStep, TimerExpires, ControllerTypeOK, Timers
  <2> QED BY <1>7, <2>1, StoreUnchanged, CommandsUnchanged, AgentsUnchanged
         DEF TimerStep, TimerExpires
<1>8. CASE UNCHANGED vars
  BY <1>8, StoreUnchanged, ControllerUnchanged, CommandsUnchanged, AgentsUnchanged
     DEF vars
<1> QED BY <1>1, <1>2, <1>3, <1>4, <1>5, <1>6, <1>7, <1>8 DEF Next

\* Whatever the loops, the commands, the agents and the watch do, in any
\* interleaving and with any faults, every document, event, collected group
\* and plan is well formed.
THEOREM TypeCorrect == Spec => []TypeOK
BY InitTypes, NextTypes, PTL DEF Spec

(***************************************************************************)
(* The two maps of the controller                                          *)
(***************************************************************************)
LEMMA TimerInit == Init => TargetHasTimer
BY DEF Init, ControllerInit, TargetHasTimer

\* The actions that leave both maps alone.
LEMMA MapsUnchanged ==
    ASSUME TargetHasTimer, UNCHANGED <<started, switchTarget>>
    PROVE  TargetHasTimer'
BY DEF TargetHasTimer

\* A timer that expires is still a timer.
LEMMA TimerStepKeeps ==
    ASSUME ControllerTypeOK, TargetHasTimer, NEW g \in Groups, TimerExpires(g)
    PROVE  TargetHasTimer'
<1>1. started'[g] # "none" /\ switchTarget' = switchTarget
  BY DEF TimerExpires, ControllerTypeOK
<1>2. \A h \in Groups : started[h] # "none" => started'[h] # "none"
  BY DEF TimerExpires, ControllerTypeOK
<1> QED BY <1>1, <1>2 DEF TargetHasTimer

\* Phase 1 records a target with a start and forgets it with that start.
LEMMA DrainKeeps ==
    ASSUME ControllerTypeOK, TargetHasTimer, NEW h \in Groups, DrainHolder(h)
    PROVE  TargetHasTimer'
<1>1. \/ started' = [started EXCEPT ![h] = "running"]
      \/ switchTarget' = None
      \/ UNCHANGED <<started, switchTarget>>
  BY DEF DrainHolder
<1>2. CASE started' = [started EXCEPT ![h] = "running"]
  <2>1. started'[h] # "none"
    BY <1>2 DEF ControllerTypeOK
  <2> QED BY <2>1 DEF TargetHasTimer
<1>3. CASE switchTarget' = None
  BY <1>3 DEF TargetHasTimer
<1> QED BY <1>1, <1>2, <1>3, MapsUnchanged

\* Of the reconcile loop only phases 1 and 2 touch the maps; phase 2 forgets
\* the target.
LEMMA ControllerKeepsTimer ==
    ASSUME ControllerTypeOK, TargetHasTimer, ControllerStep
    PROVE  TargetHasTimer'
<1>1. \/ UNCHANGED <<started, switchTarget>>
      \/ \E g \in Groups : DrainHolder(g) \/ ActivateTarget(g)
  BY DEF ControllerStep, StartReconcile, BeginFailover, BeginActivateAll,
         NoTarget, EndPass, CollectGroup, ReadPriority, SwapPriority, KeepTarget,
         GuardActivation, ActivateNext, PassivateNext, WriteNext
<1>2. ASSUME NEW g \in Groups, ActivateTarget(g) PROVE TargetHasTimer'
  BY <1>2 DEF ActivateTarget, TargetHasTimer
<1> QED BY <1>1, <1>2, DrainKeeps, MapsUnchanged

\* The invariant is inductive, given the types.
LEMMA NextKeepsTimer == TypeOK /\ TargetHasTimer /\ [Next]_vars => TargetHasTimer'
<1> SUFFICES ASSUME TypeOK, TargetHasTimer, [Next]_vars PROVE TargetHasTimer'
  OBVIOUS
<1>0. ControllerTypeOK
  BY DEF TypeOK
<1>1. CASE ReconcileStep
  BY <1>0, <1>1, ControllerKeepsTimer DEF ReconcileStep
<1>2. CASE LeaderRestarts
  BY <1>2 DEF LeaderRestarts, ForgetMemory, TargetHasTimer
<1>3. ASSUME NEW g \in Groups, TimerStep(g) PROVE TargetHasTimer'
  BY <1>0, <1>3, TimerStepKeeps DEF TimerStep
<1>4. CASE \/ DeliverEvent
           \/ CommandStep
           \/ OperatorStep
           \/ \E w \in Workers : WorkerPoll(w) \/ WorkerStep(w) \/ WorkerFault(w)
           \/ UNCHANGED vars
  <2>1. UNCHANGED ctlVars
    BY <1>4 DEF DeliverEvent, CommandStep, OperatorStep, WorkerPoll, WorkerStep,
                WorkerFault, vars
  <2> QED BY <2>1, MapsUnchanged DEF ctlVars
<1> QED BY <1>1, <1>2, <1>3, <1>4 DEF Next

\* The controller never remembers the target of a switchover without the start
\* of a drain: true for any groups, faults and commands.
THEOREM TimerForTarget == Spec => []TargetHasTimer
BY TypeCorrect, TimerInit, NextKeepsTimer, PTL DEF Spec

(***************************************************************************)
(* The copy follows etcd                                                   *)
(***************************************************************************)
\* What a step that writes no priority does to etcd and the copy.
PlainStep ==
    \/ UNCHANGED storeVars
    \/ Deliver
    \/ \E k \in Keys \ PriorityKeys, v \in Docs \cup Reports : Put(k, v)

\* A request that may fail is a put or nothing.
LEMMA TryPutPlain ==
    ASSUME NEW k \in Keys \ PriorityKeys, NEW v \in Docs \cup Reports,
           NEW ok \in BOOLEAN, TryPut(k, v, ok)
    PROVE  PlainStep
BY DEF TryPut, PlainStep

\* Keys that are not priorities.
LEMMA PlainKeys ==
    ASSUME NEW g \in Groups, NEW r \in Roles
    PROVE  {Desired(g), Status(g), RoleKey(g, r)} \subseteq Keys \ PriorityKeys
BY KeysOfGroup, KeysOfRole DEF Desired, Status, RoleKey, PriorityKeys

\* The same without a role at hand.
LEMMA PlainGroupKeys ==
    ASSUME NEW g \in Groups
    PROVE  {Desired(g), Status(g)} \subseteq Keys \ PriorityKeys
BY KeysOfGroup DEF Desired, Status, PriorityKeys

\* writeDesiredIfChanged writes no priority.
LEMMA WriteDesiredPlain ==
    ASSUME NEW g \in Groups, NEW state \in {"active", "passive"},
           NEW ok \in BOOLEAN, WriteDesired(g, state, ok)
    PROVE  PlainStep
<1>1. CASE UNCHANGED storeVars
  BY <1>1 DEF PlainStep
<1>2. CASE TryPut(Desired(g), Doc(state, TRUE), ok)
  <2>1. Doc(state, TRUE) \in Docs
    BY DEF Doc, Docs
  <2> QED BY <1>2, <2>1, PlainGroupKeys, TryPutPlain
<1> QED BY <1>1, <1>2 DEF WriteDesired

\* Of the reconcile loop only the swap of automatic failover writes priorities.
LEMMA ControllerStepPlain ==
    ASSUME ControllerTypeOK, ControllerStep, ~ \E g \in Groups : SwapPriority(g)
    PROVE  PlainStep
<1>1. CASE \/ StartReconcile
           \/ BeginFailover
           \/ BeginActivateAll
           \/ NoTarget
           \/ EndPass
           \/ \E g \in Groups : ReadPriority(g) \/ KeepTarget(g) \/ GuardActivation(g)
  BY <1>1 DEF StartReconcile, BeginFailover, BeginActivateAll, NoTarget, EndPass,
              ReadPriority, KeepTarget, GuardActivation, PlainStep
<1>2. ASSUME NEW g \in Groups, CollectGroup(g) PROVE PlainStep
  <2>1. \/ UNCHANGED storeVars
        \/ \E startingIsNewer, ok \in BOOLEAN :
              TryPut(Status(g),
                     GroupActual(store[Desired(g)].managed,
                                 {store[RoleKey(g, r)] : r \in Roles},
                                 startingIsNewer), ok)
    BY <1>2 DEF CollectGroup
  <2>2. CASE UNCHANGED storeVars
    BY <2>2 DEF PlainStep
  <2>3. ASSUME NEW startingIsNewer \in BOOLEAN, NEW ok \in BOOLEAN,
               TryPut(Status(g),
                      GroupActual(store[Desired(g)].managed,
                                  {store[RoleKey(g, r)] : r \in Roles},
                                  startingIsNewer), ok)
        PROVE  PlainStep
    BY <2>3, GroupActualType, ActualsAreReports, PlainGroupKeys, TryPutPlain
  <2> QED BY <2>1, <2>2, <2>3
<1>3. ASSUME NEW g \in Groups, DrainHolder(g) \/ PassivateNext(g) PROVE PlainStep
  <2>1. \E ok \in BOOLEAN : WriteDesired(g, "passive", ok)
    BY <1>3 DEF DrainHolder, PassivateNext, WriteNext
  <2> QED BY <2>1, WriteDesiredPlain
<1>4. ASSUME NEW g \in Groups, ActivateTarget(g) \/ ActivateNext(g) PROVE PlainStep
  <2>1. \E ok \in BOOLEAN : WriteDesired(g, "active", ok)
    BY <1>4 DEF ActivateTarget, ActivateNext, WriteNext
  <2> QED BY <2>1, WriteDesiredPlain
<1> QED BY <1>1, <1>2, <1>3, <1>4 DEF ControllerStep

\* The workers write their own keys.
LEMMA AgentPlain ==
    ASSUME AgentTypeOK, NEW w \in Workers,
           Observe(w) \/ AgentStep(w) \/ AgentFault(w)
    PROVE  PlainStep
<1>1. w[1] \in Groups /\ w[2] \in Roles /\ seen[w].state \in Reports
  BY DEF Workers, AgentTypeOK, Docs, Reports, Actuals
<1>2. \A state \in {"starting", "stopping", "failed", "absent"} : state \in Reports
  BY DEF Reports, Actuals
<1>3. \/ UNCHANGED storeVars
      \/ \E state \in Reports : \/ Report(w, state)
                                \/ Put(RoleKey(w[1], w[2]), state)
  BY <1>1, <1>2 DEF Observe, AgentStep, AgentFault, ProbeOk, ProbeMismatch,
         SetService, SetFails, GiveUp, ServiceCrashes, AgentLost, AgentReturns
<1>4. ASSUME NEW state \in Reports, Report(w, state) PROVE PlainStep
  BY <1>1, <1>4, PlainKeys DEF Report, PlainStep
<1>5. ASSUME NEW state \in Reports, Put(RoleKey(w[1], w[2]), state) PROVE PlainStep
  BY <1>1, <1>5, PlainKeys DEF PlainStep
<1>6. CASE UNCHANGED storeVars
  BY <1>6 DEF PlainStep
<1> QED BY <1>3, <1>4, <1>5, <1>6

\* Priorities change by the planned writes of a command and by automatic
\* failover, and by nothing else.
LEMMA OtherStepsPlain ==
    ASSUME TypeOK, [Next]_vars,
           ~ExecWrite,
           ~ \E g \in Groups : SwapPriority(g)
    PROVE  PlainStep
<1> USE DEF TypeOK
<1>1. CASE DeliverEvent
  BY <1>1 DEF DeliverEvent, PlainStep
<1>2. CASE ReconcileStep
  BY <1>2, ControllerStepPlain DEF ReconcileStep
<1>3. CASE CommandStep
  <2>1. CASE BeginCommand
    BY <2>1 DEF BeginCommand, PlainStep
  <2>2. CASE ExecActivate
    <3>1. PICK ok \in BOOLEAN :
            TryPut(Desired(job.group),
                   Doc(IF HasNoActiveGroup THEN "active" ELSE "passive", TRUE), ok)
      BY <2>2 DEF ExecActivate
    <3>2. job.group \in Groups
      BY <2>2 DEF ExecActivate, CommandTypeOK, NoJob
    <3>3. Doc(IF HasNoActiveGroup THEN "active" ELSE "passive", TRUE) \in Docs
      BY DEF Doc, Docs
    <3> QED BY <3>1, <3>2, <3>3, PlainGroupKeys, TryPutPlain
  <2> QED BY <1>3, <2>1, <2>2 DEF CommandStep, ConsumerStep
<1>4. CASE OperatorStep \/ LeaderRestarts \/ UNCHANGED vars
  BY <1>4 DEF OperatorStep, Submit, LeaderRestarts, vars, PlainStep
<1>5. ASSUME NEW w \in Workers, WorkerPoll(w) \/ WorkerStep(w) \/ WorkerFault(w)
      PROVE  PlainStep
  BY <1>5, AgentPlain DEF WorkerPoll, WorkerStep, WorkerFault
<1>6. ASSUME NEW g \in Groups, TimerStep(g) PROVE PlainStep
  BY <1>6 DEF TimerStep, TimerExpires, PlainStep
<1> QED BY <1>1, <1>2, <1>3, <1>4, <1>5, <1>6 DEF Next

\* Every write and every delivery keeps what the model says of the copy.
LEMMA StoreFollows ==
    ASSUME StoreTypeOK, CopyFollows,
           \/ PlainStep
           \/ \E k \in Keys : \E v, ok : TryPut(k, v, ok)
    PROVE  CopyFollows'
<1>1. CASE UNCHANGED storeVars
  BY <1>1 DEF storeVars, CopyFollows, Follows
<1>2. ASSUME NEW k \in Keys, NEW v, Put(k, v) PROVE CopyFollows'
  BY <1>2, PutFollows
<1>3. CASE PlainStep
  BY <1>1, <1>2, <1>3, DeliverFollows DEF PlainStep
<1> QED BY <1>1, <1>2, <1>3 DEF TryPut

\* The command's write is a write of its plan.
LEMMA ExecWriteHead ==
    ASSUME CommandTypeOK, ExecWrite
    PROVE  /\ Head(job.plan) \in Events
           /\ \E ok \in BOOLEAN :
                TryPut(Head(job.plan).key, Head(job.plan).value, ok)
<1>1. job.plan \in Seq(Events) /\ job.plan # <<>>
  BY DEF ExecWrite, CommandTypeOK, NoJob
<1> QED BY <1>1 DEF ExecWrite

\* The leader's copy is loaded from etcd.
LEMMA InitFollows == Init => CopyFollows
<1> SUFFICES ASSUME Init PROVE CopyFollows
  OBVIOUS
<1>1. store = etcd /\ watch = <<>> /\ Len(watch) = 0
  BY DEF Init
<1>2. Len(watch) <= MaxLag /\ 1..Len(watch) = {}
  BY <1>1, StoreAssumption
<1> QED BY <1>1, <1>2 DEF CopyFollows, Follows

\* No step of the composition takes the copy off the events under way.
LEMMA NextFollows == TypeOK /\ CopyFollows /\ [Next]_vars => CopyFollows'
<1> SUFFICES ASSUME TypeOK, CopyFollows, [Next]_vars PROVE CopyFollows'
  OBVIOUS
<1>1. StoreTypeOK /\ CommandTypeOK
  BY DEF TypeOK
<1>2. CASE ExecWrite
  BY <1>1, <1>2, ExecWriteHead, EventParts, StoreFollows
<1>3. ASSUME NEW g \in Groups, SwapPriority(g) PROVE CopyFollows'
  <2>1. \/ UNCHANGED storeVars
        \/ \E p, ok : TryPut(Priority(g), p, ok)
    BY <1>3 DEF SwapPriority
  <2> QED BY <1>1, <2>1, KeysOfGroup, StoreFollows DEF PlainStep
<1>4. CASE ~ExecWrite /\ ~ \E g \in Groups : SwapPriority(g)
  BY <1>1, <1>4, OtherStepsPlain, StoreFollows
<1> QED BY <1>2, <1>3, <1>4

(***************************************************************************)
(* Swaps of priorities                                                     *)
(***************************************************************************)
\* The priorities of a run are swapped by commands alone, each decided from a
\* copy that has seen the previous one: by an operator who waits for it, or
\* because the copy does not lag.  An error between the two writes, a leader
\* lost between them and the swap of automatic failover are what TornSwap,
\* PromoteRace and the open hazards are about.
SwapsOneByOne ==
    /\ ~WritesMayFail
    /\ ~Automatic
    /\ ~LeaderMayRestart
    /\ OrderlyOperators \/ MaxLag = 0
    /\ \A priority \in InitialPriority : \A g, h \in Groups :
         g # h => priority[g] # priority[h]

\* The priorities the command under way still gives to a group ...
PlannedRanks(g) ==
    {job.plan[i].value : i \in {j \in 1..Len(job.plan) : job.plan[j].key = Priority(g)}}

\* ... and the one the group has when the command is over.
RankAfter(g) == IF PlannedRanks(g) = {} THEN {etcd[Priority(g)]} ELSE PlannedRanks(g)

RanksApart == \A g, h \in Groups : g # h => RankAfter(g) \cap RankAfter(h) = {}

\* When a command begins, no priority is on its way to the copy.
CalmQueue ==
    MaxLag > 0 /\ queue # <<>> =>
        /\ Len(queue) = 1
        /\ job = NoJob
        /\ \A i \in 1..Len(watch) : watch[i].key \notin PriorityKeys

SwapInv ==
    /\ TypeOK
    /\ CopyFollows
    /\ pc # "failover"
    /\ CalmQueue
    /\ RanksApart

\* Without a plan every group keeps its rank.
LEMMA NoPlanNoRanks ==
    ASSUME CommandTypeOK,
           \A i \in 1..Len(job.plan) : job.plan[i].key \notin PriorityKeys
    PROVE  \A g \in Groups : RankAfter(g) = {etcd[Priority(g)]}
<1> TAKE g \in Groups
<1>1. Priority(g) \in PriorityKeys
  BY DEF Priority, PriorityKeys
<1>2. {j \in 1..Len(job.plan) : job.plan[j].key = Priority(g)} = {}
  BY <1>1
<1> QED BY <1>2 DEF RankAfter, PlannedRanks

\* The job of no command.
LEMMA NoJobPlan == NoJob.plan = <<>> /\ Len(NoJob.plan) = 0 /\ ~NoJob.activate
BY DEF NoJob

\* When a command begins, the copy has the priorities that etcd has.
LEMMA CopyHasRanks ==
    ASSUME SwapInv, BeginCommand, NEW g \in Groups
    PROVE  store[Priority(g)] = etcd[Priority(g)]
<1>1. \A i \in 1..Len(watch) : watch[i].key \notin PriorityKeys
  <2>1. CASE MaxLag > 0
    BY <2>1 DEF SwapInv, CalmQueue, BeginCommand
  <2>2. CASE ~(MaxLag > 0)
    <3>1. Len(watch) \in Nat /\ Len(watch) <= 0
      BY <2>2, StoreAssumption DEF SwapInv, CopyFollows, TypeOK, StoreTypeOK
    <3> QED BY <3>1
  <2> QED BY <2>1, <2>2
<1>2. Priority(g) \in PriorityKeys /\ Priority(g) \in Keys
  BY KeysOfGroup DEF Priority, PriorityKeys
<1>3. Follows(Priority(g))
  BY <1>2 DEF SwapInv, CopyFollows
<1> QED BY <1>1, <1>2, <1>3 DEF Follows

\* A plan that begins with the swap of two groups' priorities and writes no
\* other priority.
SwapPlan(plan, a, b) ==
    /\ Len(plan) \in Nat \ {0, 1}
    /\ plan[1] = Write(Priority(a), etcd[Priority(b)])
    /\ plan[2] = Write(Priority(b), etcd[Priority(a)])
    /\ \A i \in 3..Len(plan) : plan[i].key \notin PriorityKeys

\* What a command may plan: no priorities at all, or a swap.
LEMMA PlansAreSwaps ==
    ASSUME SwapInv, BeginCommand
    PROVE  \/ \A i \in 1..Len(job'.plan) : job'.plan[i].key \notin PriorityKeys
           \/ \E a, b \in Groups : a # b /\ SwapPlan(job'.plan, a, b)
<1> DEFINE Goal == \/ \A i \in 1..Len(job'.plan) : job'.plan[i].key \notin PriorityKeys
                   \/ \E a, b \in Groups : a # b /\ SwapPlan(job'.plan, a, b)
<1> DEFINE g == Head(queue).group
<1>1. g \in Groups
  <2>1. Head(queue) \in Commands
    BY DEF BeginCommand, SwapInv, TypeOK, CommandTypeOK
  <2> QED BY <2>1 DEF Commands
<1>2. \A h \in Groups : PriorityOf(h) = etcd[Priority(h)]
  BY CopyHasRanks DEF PriorityOf
<1>3. \A h \in Groups : Desired(h) \notin PriorityKeys
  BY DEF Desired, PriorityKeys
<1> HIDE DEF g
<1>4. CASE UNCHANGED job
  BY <1>4, NoJobPlan DEF BeginCommand
<1>5. ASSUME NEW v, Start(g, <<Write(Desired(g), v)>>, FALSE) PROVE Goal
  <2>1. /\ Len(job'.plan) = 1
        /\ job'.plan[1].key = Desired(g)
    BY <1>5 DEF Start, Write
  <2> QED BY <1>1, <1>3, <2>1
<1>6. CASE ExecPromote(g)
  <2>1. PICK top \in Groups :
          IF PriorityOf(g) = PriorityOf(top)
          THEN Start(g, <<>>, TRUE)
          ELSE Start(g, <<Write(Priority(g), PriorityOf(top)),
                          Write(Priority(top), PriorityOf(g))>>, TRUE)
    BY <1>6 DEF ExecPromote
  <2>2. CASE PriorityOf(g) = PriorityOf(top)
    <3>1. Len(job'.plan) = 0
      BY <2>1, <2>2 DEF Start
    <3> QED BY <3>1
  <2>3. CASE PriorityOf(g) # PriorityOf(top)
    <3>1. /\ Len(job'.plan) = 2
          /\ job'.plan[1] = Write(Priority(g), etcd[Priority(top)])
          /\ job'.plan[2] = Write(Priority(top), etcd[Priority(g)])
      BY <1>1, <1>2, <2>1, <2>3 DEF Start
    <3>2. g # top
      BY <2>3
    <3>3. SwapPlan(job'.plan, g, top)
      BY <3>1 DEF SwapPlan
    <3> QED BY <1>1, <3>2, <3>3
  <2> QED BY <2>2, <2>3
<1>7. ASSUME NEW best \in Groups, BestOf(Replacements(g), best),
             Start(g, <<Write(Priority(best), PriorityOf(g)),
                        Write(Priority(g), PriorityOf(best)),
                        Write(Desired(g), Doc("passive", TRUE)),
                        Write(Desired(best), Doc("active", TRUE))>>, FALSE)
      PROVE  Goal
  <2>1. best # g
    BY <1>7 DEF BestOf, Replacements
  <2>2. /\ Len(job'.plan) = 4
        /\ job'.plan[1] = Write(Priority(best), etcd[Priority(g)])
        /\ job'.plan[2] = Write(Priority(g), etcd[Priority(best)])
        /\ job'.plan[3].key = Desired(g)
        /\ job'.plan[4].key = Desired(best)
    <3> DEFINE p == Doc("passive", TRUE)
               q == Doc("active", TRUE)
    <3> HIDE DEF p, q
    <3>1. Start(g, <<Write(Priority(best), PriorityOf(g)),
                     Write(Priority(g), PriorityOf(best)),
                     Write(Desired(g), p),
                     Write(Desired(best), q)>>, FALSE)
      BY <1>7 DEF p, q
    <3> QED BY <1>1, <1>2, <3>1 DEF Start, Write
  <2>3. SwapPlan(job'.plan, best, g)
    BY <1>1, <1>3, <2>2 DEF SwapPlan
  <2> QED BY <1>1, <2>1, <2>3
<1>8. ASSUME NEW managed \in BOOLEAN, SetManaged(g, managed) PROVE Goal
  BY <1>5, <1>8 DEF SetManaged
<1>9. CASE ExecDemote(g)
  <2>1. CASE Start(g, <<Write(Desired(g), Doc("passive", TRUE))>>, FALSE)
    BY <1>5, <2>1
  <2> QED BY <1>4, <1>7, <1>9, <2>1 DEF ExecDemote, BestOf, Replacements
<1>10. CASE ExecForcePassive(g)
  <2>1. CASE Start(g, <<Write(Desired(g), Doc("passive", TRUE))>>, FALSE)
    BY <1>5, <2>1
  <2> QED BY <1>4, <1>10, <2>1 DEF ExecForcePassive
<1>11. CASE ExecDisable(g) \/ ExecEnable(g)
  BY <1>8, <1>11 DEF ExecDisable, ExecEnable
<1> HIDE DEF Goal
<1>12. \/ ExecPromote(g)
       \/ ExecDemote(g)
       \/ ExecDisable(g)
       \/ ExecEnable(g)
       \/ ExecForcePassive(g)
  BY DEF BeginCommand, g
<1> QED BY <1>6, <1>9, <1>10, <1>11, <1>12 DEF Goal

\* A command that begins plans ranks that are apart.
LEMMA BeginKeepsApart ==
    ASSUME SwapInv, CommandTypeOK', BeginCommand
    PROVE  RanksApart'
<1>1. etcd' = etcd
  BY DEF BeginCommand, storeVars
<1>2. \A g, h \in Groups : g # h => etcd[Priority(g)] # etcd[Priority(h)]
  <2>1. \A i \in 1..Len(job.plan) : job.plan[i].key \notin PriorityKeys
    BY NoJobPlan DEF BeginCommand
  <2>2. \A g \in Groups : RankAfter(g) = {etcd[Priority(g)]}
    BY <2>1, NoPlanNoRanks DEF SwapInv, TypeOK
  <2> QED BY <2>2 DEF SwapInv, RanksApart
<1>3. CASE \A i \in 1..Len(job'.plan) : job'.plan[i].key \notin PriorityKeys
  <2>1. ASSUME NEW g \in Groups PROVE RankAfter(g)' = {etcd[Priority(g)]}
    <3>1. Priority(g) \in PriorityKeys
      BY DEF Priority, PriorityKeys
    <3>2. {j \in 1..Len(job'.plan) : job'.plan[j].key = Priority(g)} = {}
      BY <1>3, <3>1
    <3> QED BY <1>1, <3>2 DEF RankAfter, PlannedRanks
  <2> QED BY <1>2, <2>1 DEF RanksApart
<1>4. ASSUME NEW a \in Groups, NEW b \in Groups, a # b, SwapPlan(job'.plan, a, b)
      PROVE  RanksApart'
  <2> DEFINE At(g) == {j \in 1..Len(job'.plan) : job'.plan[j].key = Priority(g)}
  <2>0. /\ job'.plan[1].key = Priority(a)
        /\ job'.plan[1].value = etcd[Priority(b)]
        /\ job'.plan[2].key = Priority(b)
        /\ job'.plan[2].value = etcd[Priority(a)]
    BY <1>4 DEF SwapPlan, Write
  <2>1. /\ 1 \in 1..Len(job'.plan)
        /\ 2 \in 1..Len(job'.plan)
        /\ \A i \in 1..Len(job'.plan) : i \notin {1, 2} => i \in 3..Len(job'.plan)
    <3>1. PICK n \in Nat \ {0, 1} : Len(job'.plan) = n
      BY <1>4 DEF SwapPlan
    <3>2. n >= 2
      BY <3>1
    <3>3. \A i \in 1..n : i \notin {1, 2} => i \in 3..n
      BY <3>1
    <3> QED BY <3>1, <3>2, <3>3
  <2>2. \A g, h \in Groups : Priority(g) = Priority(h) => g = h
    BY DEF Priority
  <2>3. \A g \in Groups : Priority(g) \in PriorityKeys
    BY DEF Priority, PriorityKeys
  <2>4. /\ At(a) = {1}
        /\ At(b) = {2}
        /\ \A g \in Groups \ {a, b} : At(g) = {}
    BY <1>4, <2>0, <2>1, <2>2, <2>3 DEF SwapPlan
  <2>5. ASSUME NEW g \in Groups
        PROVE  RankAfter(g)' = {IF g = a THEN etcd[Priority(b)]
                                ELSE IF g = b THEN etcd[Priority(a)]
                                ELSE etcd[Priority(g)]}
    <3>1. PlannedRanks(g)' = {job'.plan[i].value : i \in At(g)}
      BY DEF PlannedRanks
    <3>2. CASE g = a
      <4>1. PlannedRanks(g)' = {etcd[Priority(b)]}
        BY <2>0, <2>4, <3>1, <3>2
      <4> QED BY <3>2, <4>1 DEF RankAfter
    <3>3. CASE g = b
      <4>1. PlannedRanks(g)' = {etcd[Priority(a)]}
        BY <2>0, <2>4, <3>1, <3>3
      <4> QED BY <1>4, <3>3, <4>1 DEF RankAfter
    <3>4. CASE g \notin {a, b}
      <4>1. PlannedRanks(g)' = {}
        BY <2>4, <3>1, <3>4
      <4> QED BY <1>1, <3>4, <4>1 DEF RankAfter
    <3> QED BY <3>2, <3>3, <3>4
  <2> HIDE DEF At
  <2> QED BY <1>2, <1>4, <2>5 DEF RanksApart
<1> QED BY <1>3, <1>4, PlansAreSwaps

\* A write of the plan gives a group the rank it was going to have.
LEMMA WriteKeepsApart ==
    ASSUME SwapsOneByOne, SwapInv, ExecWrite
    PROVE  RanksApart'
<1> DEFINE n == Len(job.plan)
<1>1. /\ job.plan \in Seq(Events) /\ n \in Nat \ {0}
      /\ job'.plan = Tail(job.plan)
      /\ Put(job.plan[1].key, job.plan[1].value)
      /\ job.plan[1].key \in Keys
  <2>1. /\ job \in [group : Groups, plan : Seq(Events), activate : BOOLEAN]
        /\ job.plan # <<>>
    BY NoJobPlan DEF ExecWrite, SwapInv, TypeOK, CommandTypeOK
  <2>2. job.plan \in Seq(Events) /\ n \in Nat \ {0} /\ Head(job.plan) = job.plan[1]
    BY <2>1
  <2>3. PICK ok \in BOOLEAN :
          /\ TryPut(Head(job.plan).key, Head(job.plan).value, ok)
          /\ job' = IF ok /\ (Len(job.plan) > 1 \/ job.activate)
                    THEN [job EXCEPT !.plan = Tail(job.plan)]
                    ELSE NoJob
    BY DEF ExecWrite
  <2>4. ok /\ Put(job.plan[1].key, job.plan[1].value)
    BY <2>2, <2>3 DEF TryPut, SwapsOneByOne
  <2>5. ASSUME Len(job.plan) > 1 \/ job.activate
        PROVE  job'.plan = Tail(job.plan)
    BY <2>1, <2>3, <2>4, <2>5
  <2>6. ASSUME ~(Len(job.plan) > 1 \/ job.activate)
        PROVE  job'.plan = Tail(job.plan)
    <3>1. job'.plan = <<>>
      BY <2>3, <2>6, NoJobPlan
    <3>2. Tail(job.plan) = <<>>
      BY <2>2, <2>6
    <3> QED BY <3>1, <3>2
  <2>7. job.plan[1].key \in Keys
    <3>1. job.plan[1] \in Events
      BY <2>2
    <3> QED BY <3>1, EventParts
  <2> QED BY <2>2, <2>4, <2>5, <2>6, <2>7
<1>2. /\ Len(job'.plan) = n - 1
      /\ \A i \in 1..(n - 1) : job'.plan[i] = job.plan[i + 1]
  BY <1>1
<1>3. /\ etcd'[job.plan[1].key] = job.plan[1].value
      /\ \A k \in Keys : k # job.plan[1].key => etcd'[k] = etcd[k]
  BY <1>1 DEF Put, storeVars, SwapInv, TypeOK, StoreTypeOK, Snapshot
<1>4. ASSUME NEW g \in Groups PROVE RankAfter(g)' \subseteq RankAfter(g)
  <2> DEFINE At == {j \in 1..n : job.plan[j].key = Priority(g)}
             AtNext == {j \in 1..Len(job'.plan) : job'.plan[j].key = Priority(g)}
  <2>1. \A j \in AtNext : j + 1 \in At /\ job'.plan[j].value = job.plan[j + 1].value
    BY <1>1, <1>2
  <2>2. \A j \in At : j = 1 \/ j - 1 \in AtNext
    BY <1>1, <1>2
  <2>3. PlannedRanks(g) = {job.plan[i].value : i \in At}
    BY DEF PlannedRanks
  <2>4. PlannedRanks(g)' = {job'.plan[i].value : i \in AtNext}
    BY DEF PlannedRanks
  <2>5. Priority(g) \in Keys
    BY KeysOfGroup
  <2>6. 1 \in 1..n
    BY <1>1
  <2>7. job.plan[1].key = Priority(g) => 1 \in At
    BY <2>6
  <2>8. job.plan[1].key # Priority(g) => 1 \notin At
    OBVIOUS
  <2> HIDE DEF At, AtNext
  <2>9. CASE AtNext # {}
    <3>1. PlannedRanks(g)' \subseteq PlannedRanks(g) /\ PlannedRanks(g)' # {}
      BY <2>1, <2>3, <2>4, <2>9
    <3> QED BY <3>1 DEF RankAfter
  <2>10. CASE AtNext = {} /\ job.plan[1].key = Priority(g)
    <3>1. PlannedRanks(g)' = {} /\ etcd'[Priority(g)] \in PlannedRanks(g)
      BY <1>3, <2>3, <2>4, <2>7, <2>10
    <3> QED BY <3>1 DEF RankAfter
  <2>11. CASE AtNext = {} /\ job.plan[1].key # Priority(g)
    <3>1. At = {}
      BY <2>2, <2>8, <2>11
    <3>2. PlannedRanks(g)' = {} /\ PlannedRanks(g) = {}
      BY <2>3, <2>4, <2>11, <3>1
    <3>3. etcd'[Priority(g)] = etcd[Priority(g)]
      BY <1>3, <2>5, <2>11
    <3> QED BY <3>2, <3>3 DEF RankAfter
  <2> QED BY <2>9, <2>10, <2>11
<1> QED BY <1>4 DEF RanksApart, SwapInv

\* A step that writes no priority and leaves the plan alone.
LEMMA PlainKeepsApart ==
    ASSUME SwapInv, PlainStep, job'.plan = job.plan
    PROVE  RanksApart'
<1>1. ASSUME NEW g \in Groups PROVE etcd'[Priority(g)] = etcd[Priority(g)]
  <2>1. Priority(g) \in PriorityKeys
    BY DEF Priority, PriorityKeys
  <2>2. ASSUME NEW k \in Keys \ PriorityKeys, NEW v, Put(k, v)
        PROVE  etcd'[Priority(g)] = etcd[Priority(g)]
    <3>1. Priority(g) # k
      BY <2>1
    <3> QED BY <2>2, <3>1, KeysOfGroup
           DEF Put, storeVars, SwapInv, TypeOK, StoreTypeOK, Snapshot
  <2> QED BY <2>2 DEF PlainStep, storeVars, Deliver
<1>2. ASSUME NEW g \in Groups PROVE RankAfter(g)' = RankAfter(g)
  BY <1>1 DEF RankAfter, PlannedRanks
<1> QED BY <1>2 DEF RanksApart, SwapInv

\* ... sends no priority to the copy either.
LEMMA PlainKeepsCalm ==
    ASSUME StoreTypeOK, PlainStep,
           \A i \in 1..Len(watch) : watch[i].key \notin PriorityKeys
    PROVE  \A i \in 1..Len(watch') : watch'[i].key \notin PriorityKeys
<1> DEFINE n == Len(watch)
<1>1. n \in Nat
  BY DEF StoreTypeOK
<1>2. CASE UNCHANGED watch
  BY <1>2
<1>3. CASE Deliver
  <2>1. Len(watch') = n - 1 /\ \A i \in 1..(n - 1) : watch'[i] = watch[i + 1]
    BY <1>3 DEF Deliver, StoreTypeOK
  <2> QED BY <1>1, <2>1
<1>4. ASSUME NEW k \in Keys \ PriorityKeys, NEW v,
             watch' = Append(watch, [key |-> k, value |-> v])
      PROVE  \A i \in 1..Len(watch') : watch'[i].key \notin PriorityKeys
  <2>1. /\ Len(watch') = n + 1
        /\ \A i \in 1..n : watch'[i] = watch[i]
        /\ watch'[n + 1].key = k
    BY <1>4 DEF StoreTypeOK
  <2> QED BY <1>1, <2>1
<1>5. ASSUME NEW k \in Keys \ PriorityKeys, NEW v, Put(k, v)
      PROVE  \A i \in 1..Len(watch') : watch'[i].key \notin PriorityKeys
  BY <1>2, <1>4, <1>5 DEF Put, storeVars
<1> QED BY <1>2, <1>3, <1>5 DEF PlainStep, storeVars

\* Without automatic failover a pass swaps nothing.
LEMMA NoFailoverPhase ==
    ASSUME SwapsOneByOne, SwapInv, [Next]_vars
    PROVE  pc' # "failover" /\ ~ \E g \in Groups : SwapPriority(g)
<1>1. ~ \E g \in Groups : SwapPriority(g)
  BY DEF SwapInv, SwapPriority
<1>2. CASE ControllerStep
  <2>1. ~BeginFailover
    BY DEF BeginFailover, Failover, SwapsOneByOne
  <2>2. CASE StartReconcile \/ BeginActivateAll \/ NoTarget \/ EndPass
    BY <1>1, <2>2 DEF StartReconcile, BeginActivateAll, NoTarget, EndPass, FinishPass, Continue
  <2>3. ASSUME NEW g \in Groups, CollectGroup(g) \/ ReadPriority(g)
        PROVE  pc' # "failover"
    BY <2>3 DEF CollectGroup, ReadPriority, SwapInv
  <2>4. ASSUME NEW g \in Groups, KeepTarget(g) \/ DrainHolder(g) \/ GuardActivation(g)
        PROVE  pc' # "failover"
    BY <2>4 DEF KeepTarget, DrainHolder, GuardActivation, FinishPass, Continue
  <2>5. ASSUME NEW g \in Groups, ActivateTarget(g) \/ ActivateNext(g) \/ PassivateNext(g)
        PROVE  pc' # "failover"
    BY <2>5 DEF ActivateTarget, ActivateNext, PassivateNext, WriteNext, Continue
  <2> QED BY <1>1, <1>2, <2>1, <2>2, <2>3, <2>4, <2>5 DEF ControllerStep
<1>3. CASE UNCHANGED pc
  BY <1>1, <1>3 DEF SwapInv
<1>4. \/ ControllerStep
      \/ UNCHANGED pc
  BY DEF Next, SwapsOneByOne, DeliverEvent, ReconcileStep, CommandStep, OperatorStep,
         LeaderRestarts, WorkerPoll, WorkerStep, WorkerFault, TimerStep, TimerExpires,
         ctlVars, vars
<1> QED BY <1>1, <1>2, <1>3, <1>4

\* The queue and the job change by an operator and by the consumer.
LEMMA QueueSteps ==
    ASSUME SwapsOneByOne, [Next]_vars
    PROVE  OperatorStep \/ ConsumerStep \/ UNCHANGED cmdVars
BY DEF Next, SwapsOneByOne, DeliverEvent, ReconcileStep, CommandStep, LeaderRestarts,
       WorkerPoll, WorkerStep, WorkerFault, TimerStep, vars

LEMMA NextKeepsCalm ==
    ASSUME SwapsOneByOne, SwapInv, [Next]_vars
    PROVE  CalmQueue'
<1> USE DEF SwapInv
<1>1. CASE MaxLag = 0
  BY <1>1, StoreAssumption DEF CalmQueue
<1>2. CASE MaxLag # 0
  <2>0. MaxLag > 0
    BY <1>2, StoreAssumption
  <2>1. CASE OperatorStep
    <3>1. /\ queue = <<>> /\ watch = <<>> /\ job = NoJob
          /\ \E e : queue' = Append(queue, e)
          /\ UNCHANGED <<job, watch>>
      BY <1>2, <2>1 DEF OperatorStep, SwapsOneByOne, Settled, Submit, storeVars
    <3>2. Len(queue') = 1 /\ Len(watch') = 0
      BY <3>1
    <3> QED BY <3>1, <3>2 DEF CalmQueue
  <2>2. CASE BeginCommand
    <3>1. Len(queue) = 1 /\ queue' = Tail(queue) /\ queue \in Seq(Commands)
      BY <2>0, <2>2 DEF BeginCommand, CalmQueue, TypeOK, CommandTypeOK
    <3>2. queue' = <<>>
      BY <3>1
    <3> QED BY <3>2 DEF CalmQueue
  <2>3. CASE ExecWrite \/ ExecActivate
    <3>1. job # NoJob
      BY <2>3, NoJobPlan DEF ExecWrite, ExecActivate
    <3>2. queue = <<>> /\ queue' = queue
      BY <2>0, <2>3, <3>1 DEF CalmQueue, ExecWrite, ExecActivate
    <3> QED BY <3>2 DEF CalmQueue
  <2>4. CASE UNCHANGED cmdVars
    <3>1. CASE queue = <<>>
      BY <2>4, <3>1 DEF CalmQueue, cmdVars
    <3>2. CASE queue # <<>>
      <4>1. /\ job = NoJob
            /\ Len(queue) = 1
            /\ \A i \in 1..Len(watch) : watch[i].key \notin PriorityKeys
        BY <2>0, <3>2 DEF CalmQueue
      <4>2. ~ExecWrite
        BY <4>1, NoJobPlan DEF ExecWrite
      <4>3. PlainStep
        BY <4>2, NoFailoverPhase, OtherStepsPlain
      <4>4. \A i \in 1..Len(watch') : watch'[i].key \notin PriorityKeys
        BY <4>1, <4>3, PlainKeepsCalm DEF TypeOK
      <4> QED BY <2>4, <4>1, <4>4 DEF CalmQueue, cmdVars
    <3> QED BY <3>1, <3>2
  <2> QED BY <2>1, <2>2, <2>3, <2>4, QueueSteps DEF ConsumerStep
<1> QED BY <1>1, <1>2

LEMMA InitSwaps ==
    ASSUME SwapsOneByOne
    PROVE  Init => SwapInv
<1> SUFFICES ASSUME Init PROVE SwapInv
  OBVIOUS
<1>1. TypeOK /\ CopyFollows
  BY InitTypes, InitFollows
<1>2. pc # "failover" /\ queue = <<>> /\ job = NoJob
  BY DEF Init, ControllerInit, CommandInit
<1>3. RanksApart
  <2>1. PICK desired \in InitialDesired, priority \in InitialPriority :
          etcd = [k \in Keys |-> InitialValue(desired, priority, k)]
    BY DEF Init
  <2>2. ASSUME NEW g \in Groups PROVE etcd[Priority(g)] = priority[g]
    <3>1. Priority(g) \in Keys
      BY KeysOfGroup
    <3> QED BY <2>1, <3>1 DEF InitialValue, Priority
  <2>3. \A g \in Groups : RankAfter(g) = {etcd[Priority(g)]}
    <3>1. \A i \in 1..Len(job.plan) : job.plan[i].key \notin PriorityKeys
      BY <1>2, NoJobPlan
    <3> QED BY <1>1, <3>1, NoPlanNoRanks DEF TypeOK
  <2> QED BY <2>2, <2>3 DEF RanksApart, SwapsOneByOne
<1>4. CalmQueue
  BY <1>2 DEF CalmQueue
<1> QED BY <1>1, <1>2, <1>3, <1>4 DEF SwapInv

LEMMA NextSwaps ==
    ASSUME SwapsOneByOne
    PROVE  SwapInv /\ [Next]_vars => SwapInv'
<1> SUFFICES ASSUME SwapInv, [Next]_vars PROVE SwapInv'
  OBVIOUS
<1>1. TypeOK' /\ CopyFollows'
  BY NextTypes, NextFollows DEF SwapInv
<1>2. pc' # "failover" /\ ~ \E g \in Groups : SwapPriority(g)
  BY NoFailoverPhase
<1>3. CalmQueue'
  BY NextKeepsCalm
<1>4. RanksApart'
  <2>1. CASE BeginCommand
    BY <1>1, <2>1, BeginKeepsApart DEF TypeOK
  <2>2. CASE ExecWrite
    BY <2>2, WriteKeepsApart
  <2>3. CASE ~BeginCommand /\ ~ExecWrite
    <3>1. PlainStep
      BY <1>2, <2>3, OtherStepsPlain DEF SwapInv
    <3>2. job'.plan = job.plan
      BY <2>3, QueueSteps, NoJobPlan
         DEF OperatorStep, Submit, ConsumerStep, ExecActivate, cmdVars
    <3> QED BY <3>1, <3>2, PlainKeepsApart
  <2> QED BY <2>1, <2>2, <2>3
<1> QED BY <1>1, <1>2, <1>3, <1>4 DEF SwapInv

\* Once no command is under way its plan is empty, and the ranks to be are
\* the ranks.
LEMMA SwapInvImplies == SwapInv => SwapsKeepRanks
<1> SUFFICES ASSUME SwapInv, job = NoJob
             PROVE  \A g, h \in Groups : g # h => etcd[Priority(g)] # etcd[Priority(h)]
  BY DEF SwapsKeepRanks
<1>1. \A i \in 1..Len(job.plan) : job.plan[i].key \notin PriorityKeys
  BY NoJobPlan
<1>2. \A g \in Groups : RankAfter(g) = {etcd[Priority(g)]}
  BY <1>1, NoPlanNoRanks DEF SwapInv, TypeOK
<1> QED BY <1>2 DEF SwapInv, RanksApart

\* A promote or demote exchanges two priorities and loses none, whatever the
\* reconcile loop, the agents and their faults do between its two writes, for
\* any number of groups and any lag, when commands wait for each other's
\* writes to reach the copy or the copy does not lag.
THEOREM SwapsAreSwaps ==
    ASSUME SwapsOneByOne
    PROVE  Spec => []SwapsKeepRanks
BY InitSwaps, NextSwaps, SwapInvImplies, PTL DEF Spec

=============================================================================
