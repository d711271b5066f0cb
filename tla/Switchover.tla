----------------------------- MODULE Switchover -----------------------------
(***************************************************************************)
(* One cluster group: the leader's reconcile loop and command consumer, the *)
(* watch that feeds the leader's copy of etcd, the role agents of every    *)
(* management group, and the operators who submit commands.                *)
(***************************************************************************)
EXTENDS Controller, CommandConsumer, RoleAgents, FiniteSets

CONSTANTS
    InitialDesired,   \* the desired documents a run may begin with
    InitialPriority,  \* the priorities a run may begin with
    OrderlyOperators, \* commands are submitted to a settled group only
    SeparateLoops     \* commands execute between two reconcile passes

ASSUME SwitchoverAssumption ==
    /\ InitialDesired \subseteq [Groups -> Docs]
    /\ InitialPriority \subseteq [Groups -> Priorities]
    /\ {OrderlyOperators, SeparateLoops} \subseteq BOOLEAN

vars == <<storeVars, ctlVars, cmdVars, agentVars>>

(***************************************************************************)
(* The cluster has been running in a desired state: services, reports and  *)
(* published states agree with it.                                         *)
(***************************************************************************)
InitialValue(desired, priority, k) ==
    CASE k[1] = "desired" -> desired[k[2]]
      [] k[1] = "config"  -> priority[k[2]]
      [] OTHER            -> desired[k[2]].state

Init ==
    /\ \E desired \in InitialDesired, priority \in InitialPriority :
         /\ etcd = [k \in Keys |-> InitialValue(desired, priority, k)]
         /\ AgentInit(desired)
    /\ store = etcd
    /\ watch = <<>>
    /\ ControllerInit
    /\ CommandInit

(***************************************************************************)
(* A settled group: nothing under way, nobody between two states, and the  *)
(* group with the best priority the only active one.  Orderly operators    *)
(* wait for that, and promote only groups that are not active.             *)
(***************************************************************************)
Settled ==
    /\ watch = <<>>
    /\ queue = <<>>
    /\ job = NoJob
    /\ \A g \in Groups, r \in Roles :
         store[RoleKey(g, r)] = store[Desired(g)].state
    /\ \A g \in Groups : store[Status(g)] = store[Desired(g)].state
    /\ \A g \in Groups : WantsActive(g) <=> BestOf(Groups, g)

OperatorStep ==
    \E type \in CommandTypes, g \in Groups :
        /\ OrderlyOperators => Settled /\ ~(type = "promote" /\ WantsActive(g))
        /\ Submit(type, g)
        /\ UNCHANGED <<ctlVars, agentVars>>

LeaderRestarts ==
    /\ LeaderMayRestart
    /\ ForgetMemory
    /\ job' = NoJob
    /\ UNCHANGED <<queue, submitted, storeVars, agentVars>>

DeliverEvent == Deliver /\ UNCHANGED <<ctlVars, cmdVars, agentVars>>

\* The two leader loops share nothing but etcd and the copy, and no lock: a
\* pass takes milliseconds every 2 s, so they usually miss each other.
\* SeparateLoops assumes that they always do.
ReconcileStep ==
    /\ SeparateLoops /\ pc = "idle" => queue = <<>> /\ job = NoJob
    /\ ControllerStep
    /\ UNCHANGED <<cmdVars, agentVars>>

CommandStep ==
    /\ SeparateLoops => pc = "idle"
    /\ ConsumerStep
    /\ UNCHANGED <<ctlVars, agentVars>>

WorkerPoll(w) == Observe(w) /\ UNCHANGED <<ctlVars, cmdVars>>
WorkerStep(w) == AgentStep(w) /\ UNCHANGED <<ctlVars, cmdVars>>
WorkerFault(w) == AgentFault(w) /\ UNCHANGED <<ctlVars, cmdVars>>
TimerStep(g) == TimerExpires(g) /\ UNCHANGED <<cmdVars, agentVars>>

Next ==
    \/ DeliverEvent
    \/ ReconcileStep
    \/ CommandStep
    \/ OperatorStep
    \/ LeaderRestarts
    \/ \E w \in Workers : WorkerPoll(w) \/ WorkerStep(w) \/ WorkerFault(w)
    \/ \E g \in Groups : TimerStep(g)

Spec == Init /\ [][Next]_vars

(***************************************************************************)
(* The watch delivers, the reconcile loop runs on a 2 s ticker, the        *)
(* consumer waits on its channel, and every worker has a 500 ms ticker     *)
(* that first looks for a new desired document and goes on with its run.   *)
(* A report may come to nothing (RoleAgents), but what a worker goes on to *)
(* find is reported in the end: ReportsSettle in RoleWorker.  Operators    *)
(* and faults are not fair.                                                *)
(***************************************************************************)
Fairness ==
    /\ WF_vars(DeliverEvent)
    /\ WF_vars(ReconcileStep)
    /\ WF_vars(CommandStep)
    /\ \A w \in Workers : WF_vars(WorkerPoll(w)) /\ WF_vars(WorkerStep(w))

FairSpec == Spec /\ Fairness

(***************************************************************************)
(* Properties                                                              *)
(***************************************************************************)
TypeOK == StoreTypeOK /\ ControllerTypeOK /\ CommandTypeOK /\ AgentTypeOK

Running == {g \in Groups : \E r \in Roles : service[<<g, r>>] = "active"}

\* The services of two groups are never up together, whatever the
\* interleaving of the reconcile loop, the commands and the agents.
SingleActive == Cardinality(Running) <= 1

\* A planned switchover is a Handover.  The group that should be active is
\* the first of those with the best priority in etcd.
Wanted == CHOOSE g \in Groups :
            \A h \in Groups : \/ etcd[Priority(g)] < etcd[Priority(h)]
                              \/ etcd[Priority(g)] = etcd[Priority(h)] /\ g <= h

\* A command that swaps priorities is a swap: once it is over the groups
\* have the same ranks as before, in another order.  Both halves are decided
\* from one state of the copy, and no other swap begins before they land.
SwapsKeepRanks ==
    job = NoJob => \A g, h \in Groups :
                      g # h => etcd[Priority(g)] # etcd[Priority(h)]

Holder == IF Running = {} THEN None ELSE CHOOSE g \in Running : TRUE

Abstract == INSTANCE Handover WITH
    Group <- Groups, Nobody <- None, wanted <- Wanted, holder <- Holder

\* The old group's services go down before the promoted group's come up,
\* and no third group's ever do: drain, guard and activation in the right
\* order across reconcile passes.
HandsOver == Abstract!Safety

\* ... and both phases are eventually completed: the whole Handover.
ImplementsHandover == Abstract!Spec

\* Whatever was promoted, the group with the best priority ends up running
\* alone: both phases of every switchover take place.
WantedRuns == []<>(Running = {Wanted})

\* Automatic failover: when a group's agents are gone for good, some other
\* group ends up with the best priority and running.
FailoverCompletes ==
    \A g \in CrashingGroups :
        <>[](\A r \in Roles : run[<<g, r>>] = "off")
            => <>[](Wanted # g /\ Wanted \in Running)

ManagedGroups == {g \in Groups : etcd[Desired(g)].managed}
EqualPriorities == \A g, h \in Groups : etcd[Priority(g)] = etcd[Priority(h)]

\* Whatever the desired documents and priorities, without faults the loop
\* brings the managed groups to what the topology asks for, and leaves them
\* there: all running when the priorities are equal, else at most one.
ReachesTopology ==
    <>[](IF EqualPriorities THEN ManagedGroups \subseteq Running
                            ELSE Cardinality(ManagedGroups \cap Running) <= 1)

\* The loop comes to rest: it does not go on rewriting etcd.
Quiesces == <>[][UNCHANGED etcd]_vars

\* README.md:199: every managed group that shares the best priority runs.
BestAllRun ==
    <>[](\A g \in ManagedGroups :
            etcd[Priority(g)] = etcd[Priority(Wanted)] => g \in Running)

\* commands.go:328: forcing a group passive activates no other group.
NobodyIsActivated ==
    [][\A g \in Groups : etcd'[Desired(g)].state = "active"
                            => etcd[Desired(g)].state = "active"]_vars

\* controller/README.md:17: the controller never changes an unmanaged group.
RespectsUnmanaged ==
    [][ReconcileStep => \A g \in Groups :
            ~etcd[Desired(g)].managed => etcd'[Desired(g)] = etcd[Desired(g)]]_vars

\* A switchoverTarget is only remembered while the start of some drain is,
\* though each of the two maps is cleared in places of its own.
TargetHasTimer == switchTarget # None => \E g \in Groups : started[g] # "none"
=============================================================================
