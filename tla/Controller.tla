---------------------------- MODULE Controller ----------------------------
(***************************************************************************)
(* The leader's reconcile loop (internal/controller/controller.go) for one *)
(* cluster group.  One pass collects every management group from the       *)
(* in-memory copy, in name order, then applies the priority policy to what *)
(* it collected.  Each etcd request is a step of its own, so the role      *)
(* agents, the command consumer and the watch run between any two of them. *)
(***************************************************************************)
EXTENDS ClusterStore, PriorityPolicy

CONSTANTS
    Automatic,        \* failover_mode = "automatic"
    TimersMayExpire,  \* a phase-1 drain may exceed switchoverTimeout
    LeaderMayRestart  \* leadership may move to a fresh process

ASSUME ControllerAssumption ==
    {Automatic, TimersMayExpire, LeaderMayRestart} \subseteq BOOLEAN

VARIABLES
    pc,            \* where the reconcile loop is
    todo,          \* groups the current phase still has to visit
    rt,            \* groupRuntimes collected by this pass
    started,       \* switchoverStarted, per drained group
    switchTarget   \* switchoverTarget of the cluster group

ctlVars == <<pc, todo, rt, started, switchTarget>>

Runtimes == [priority : Priorities, desired : {"active", "passive"},
             managed : BOOLEAN, actual : Actuals]
NoRuntimes == [g \in {} |-> {}]
Timers == {"none", "running", "expired"}
Phases == {"idle", "collect", "priority", "failover", "activateAll", "passivate"}

ControllerTypeOK ==
    /\ pc \in Phases
    /\ todo \subseteq Groups
    /\ DOMAIN rt \subseteq Groups
    /\ rt \in [DOMAIN rt -> Runtimes]
    /\ started \in [Groups -> Timers]
    /\ switchTarget \in Groups \cup {None}

ControllerInit ==
    /\ pc = "idle"
    /\ todo = {}
    /\ rt = NoRuntimes
    /\ started = [g \in Groups |-> "none"]
    /\ switchTarget = None

(***************************************************************************)
(* Collecting                                                              *)
(***************************************************************************)
StartReconcile ==
    /\ pc = "idle"
    /\ pc' = "collect"
    /\ todo' = Groups
    /\ rt' = NoRuntimes
    /\ UNCHANGED <<started, switchTarget, storeVars>>

\* reconcileManagementGroup up to the put: aggregate the roles, publish the
\* group's state if it changed, or the reason why it is failed did.  A failed
\* write drops the group from this pass.
CollectGroup(g) ==
    /\ pc = "collect"
    /\ First(todo, g)
    /\ todo' = todo \ {g}
    /\ \E startingIsNewer, ok \in BOOLEAN :
         LET doc == store[Desired(g)]
             actual == GroupActual(doc.managed,
                                   {store[RoleKey(g, r)] : r \in Roles},
                                   startingIsNewer)
             runtime == [priority |-> store[Priority(g)], desired |-> doc.state,
                         managed |-> doc.managed, actual |-> actual]
             collected == [h \in DOMAIN rt \cup {g} |-> IF h = g THEN runtime ELSE rt[h]]
         IN  \/ /\ store[Status(g)] = actual
                /\ rt' = collected
                /\ UNCHANGED <<pc, storeVars>>
             \/ /\ store[Status(g)] # actual \/ actual = "failed"
                /\ TryPut(Status(g), actual, ok)
                /\ IF ok
                   THEN rt' = collected /\ pc' = "priority"
                   ELSE UNCHANGED <<rt, pc>>
    /\ UNCHANGED <<started, switchTarget>>

\* readPriority comes after the put, so the copy may be a newer one by then.
ReadPriority(g) ==
    /\ pc = "priority"
    /\ g \in DOMAIN rt
    /\ \A h \in DOMAIN rt : h <= g
    /\ rt' = [rt EXCEPT ![g].priority = store[Priority(g)]]
    /\ pc' = "collect"
    /\ UNCHANGED <<todo, started, switchTarget, storeVars>>

(***************************************************************************)
(* The policy                                                              *)
(***************************************************************************)
Collected == pc = "collect" /\ todo = {}
Failover  == Automatic /\ FailoverDue(rt)

\* A policy that has a target and is neither failover nor active-active.
ActivePassive(t) ==
    /\ Collected
    /\ ~Failover
    /\ ~AllSamePriority(rt)
    /\ FindTarget(rt, t)

\* writeDesiredIfChanged: managed=true always, no request when the copy
\* already says so.
WriteDesired(g, state, ok) ==
    IF store[Desired(g)] = Doc(state, TRUE)
    THEN ok /\ UNCHANGED storeVars
    ELSE TryPut(Desired(g), Doc(state, TRUE), ok)

\* The pass ends here, or its next phase visits "rest".  Only the swap still
\* needs what was collected.
Continue(phase, rest) ==
    /\ pc' = phase
    /\ todo' = rest
    /\ rt' = IF phase = "failover" THEN rt ELSE NoRuntimes

FinishPass == Continue("idle", {})

\* handleAutoFailover starts the swap; the rest of the policy waits for the
\* next pass, also when the swap changes nothing.
BeginFailover ==
    /\ Collected
    /\ Failover
    /\ Continue("failover", Demotable(rt) \cup Promotable(rt))
    /\ UNCHANGED <<started, switchTarget, storeVars>>

\* One writePriority of the swap; its errors are only logged.
SwapPriority(g) ==
    /\ pc = "failover"
    /\ First(todo, g)
    /\ \E p \in Priorities, ok \in BOOLEAN :
         /\ SwappedPriority(rt, g, p)
         /\ IF store[Priority(g)] = p THEN UNCHANGED storeVars
                                      ELSE TryPut(Priority(g), p, ok)
    /\ Continue("failover", todo \ {g})
    /\ UNCHANGED <<started, switchTarget>>

\* Active-active: every group that can be managed is made active.
BeginActivateAll ==
    /\ Collected
    /\ ~Failover
    /\ AllSamePriority(rt)
    /\ Continue("activateAll", ManagedIn(rt))
    /\ UNCHANGED <<started, switchTarget, storeVars>>

\* findTarget found no candidate.
NoTarget ==
    /\ Collected
    /\ ~Failover
    /\ ~AllSamePriority(rt)
    /\ ManagedIn(rt) \cap AvailableIn(rt) = {}
    /\ FinishPass
    /\ UNCHANGED <<started, switchTarget, storeVars>>

\* Variant: a pass that keeps the target has nothing more to do.
KeepTargetOnly(t) ==
    /\ ActivePassive(t)
    /\ CurrentActive(rt, t)
    /\ FinishPass
    /\ UNCHANGED <<started, switchTarget, storeVars>>

\* The holder is the target already: the others are made passive.
KeepTarget(t) ==
    /\ ActivePassive(t)
    /\ CurrentActive(rt, t)
    /\ Continue("passivate", ManagedIn(rt) \ {t})
    /\ UNCHANGED <<started, switchTarget, storeVars>>

\* Variant: the drain's target is not recorded.
DrainForgetsTarget(h) ==
    /\ \E t \in Groups : /\ ActivePassive(t)
                         /\ CurrentActive(rt, h)
                         /\ h # t
    /\ ~Drained(rt, h)
    /\ \E ok \in BOOLEAN :
         /\ WriteDesired(h, "passive", ok)
         /\ started' = IF ok THEN [started EXCEPT ![h] = "running"] ELSE started
    /\ UNCHANGED switchTarget
    /\ FinishPass

\* Variant: the timeout drops the start but keeps the target.
DrainTimeoutKeepsTarget(h) ==
    /\ \E t \in Groups :
         /\ ActivePassive(t)
         /\ CurrentActive(rt, h)
         /\ h # t
         /\ ~Drained(rt, h)
         /\ \E ok \in BOOLEAN :
              /\ WriteDesired(h, "passive", ok)
              /\ CASE ok /\ started[h] = "none" ->
                        /\ started' = [started EXCEPT ![h] = "running"]
                        /\ switchTarget' = t
                   [] ok /\ started[h] = "expired" ->
                        /\ started' = [started EXCEPT ![h] = "none"]
                        /\ UNCHANGED switchTarget
                   [] OTHER -> UNCHANGED <<started, switchTarget>>
    /\ FinishPass

\* Phase 1.  The first drain of a group records its start and its target; a
\* later one compares the elapsed time and gives up by forgetting both.
DrainHolder(h) ==
    /\ \E t \in Groups :
         /\ ActivePassive(t)
         /\ CurrentActive(rt, h)
         /\ h # t
         /\ ~Drained(rt, h)
         /\ \E ok \in BOOLEAN :
              /\ WriteDesired(h, "passive", ok)
              /\ CASE ok /\ started[h] = "none" ->
                        /\ started' = [started EXCEPT ![h] = "running"]
                        /\ switchTarget' = t
                   [] ok /\ started[h] = "expired" ->
                        /\ started' = [started EXCEPT ![h] = "none"]
                        /\ switchTarget' = None
                   [] OTHER -> UNCHANGED <<started, switchTarget>>
    /\ FinishPass

\* Nobody runs and no drain was started for this target: do nothing.
GuardActivation(t) ==
    /\ ActivePassive(t)
    /\ CurrentActive(rt, NoGroup)
    /\ switchTarget # t
    /\ FinishPass
    /\ UNCHANGED <<started, switchTarget, storeVars>>

\* Phase 2: the target first, then the others.
ActivateTarget(t) ==
    /\ ActivePassive(t)
    /\ \/ /\ CurrentActive(rt, NoGroup)
          /\ switchTarget = t
          /\ UNCHANGED started
       \/ \E h \in Groups \ {t} :
            /\ CurrentActive(rt, h)
            /\ Drained(rt, h)
            /\ started' = [started EXCEPT ![h] = "none"]
    /\ switchTarget' = None
    /\ \E ok \in BOOLEAN :
         /\ WriteDesired(t, "active", ok)
         /\ Continue(IF ok THEN "passivate" ELSE "idle",
                     IF ok THEN ManagedIn(rt) \ {t} ELSE {})

\* One writeDesiredIfChanged of a loop over groups; an error ends the pass.
WriteNext(phase, state, g) ==
    /\ pc = phase
    /\ First(todo, g)
    /\ \E ok \in BOOLEAN :
         /\ WriteDesired(g, state, ok)
         /\ Continue(IF ok THEN phase ELSE "idle", IF ok THEN todo \ {g} ELSE {})
    /\ UNCHANGED <<started, switchTarget>>

ActivateNext(g)  == WriteNext("activateAll", "active", g)
PassivateNext(g) == WriteNext("passivate", "passive", g)

EndPass ==
    /\ pc \in {"failover", "activateAll", "passivate"}
    /\ todo = {}
    /\ FinishPass
    /\ UNCHANGED <<started, switchTarget, storeVars>>

(***************************************************************************)
(* Time, and a new leader                                                  *)
(***************************************************************************)
TimerExpires(g) ==
    /\ TimersMayExpire
    /\ started[g] = "running"
    /\ started' = [started EXCEPT ![g] = "expired"]
    /\ UNCHANGED <<pc, todo, rt, switchTarget, storeVars>>

\* The maps of the Controller struct live in memory only.
ForgetMemory ==
    /\ pc' = "idle"
    /\ todo' = {}
    /\ rt' = NoRuntimes
    /\ started' = [g \in Groups |-> "none"]
    /\ switchTarget' = None

ControllerStep ==
    \/ StartReconcile
    \/ BeginFailover
    \/ BeginActivateAll
    \/ NoTarget
    \/ EndPass
    \/ \E g \in Groups :
         \/ CollectGroup(g)
         \/ ReadPriority(g)
         \/ SwapPriority(g)
         \/ KeepTarget(g)
         \/ DrainHolder(g)
         \/ GuardActivation(g)
         \/ ActivateTarget(g)
         \/ ActivateNext(g)
         \/ PassivateNext(g)
=============================================================================
