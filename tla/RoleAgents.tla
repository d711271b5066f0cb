----------------------------- MODULE RoleAgents -----------------------------
(***************************************************************************)
(* The role workers (internal/roles): each drives one service of one       *)
(* management group towards the group's desired state and reports what it  *)
(* finds.  A worker polls its node's copy of the desired key; the lag of   *)
(* that copy and of the poll is in when Observe happens.                   *)
(*                                                                         *)
(* A run (applyDesired) probes; on a mismatch it reports starting or       *)
(* stopping, runs the set actor and probes again.  An unmanaged group is   *)
(* only probed.  The in-flight run is dropped when desired changes.        *)
(***************************************************************************)
EXTENDS ClusterStore

CONSTANTS
    UnreliableActors,  \* groups whose set scripts fail, whose runs give up
    CrashingGroups     \* groups whose agents and services crash

ASSUME AgentAssumption ==
    /\ UnreliableActors \subseteq Groups
    /\ CrashingGroups \subseteq Groups

VARIABLES
    service,  \* what the service really is: "active" or "passive"
    seen,     \* lastDesired and lastManaged
    run       \* "off" no agent, "start" no desired seen yet, "probe" the next
              \* thing to do is to probe (now, or at the next check), "set"
              \* the probe missed and the set actor is next

agentVars == <<service, seen, run>>

AgentTypeOK ==
    /\ service \in [Workers -> {"active", "passive"}]
    /\ seen \in [Workers -> Docs]
    /\ run \in [Workers -> {"off", "start", "probe", "set"}]

\* The agents have been running: services and reports match "desired".
AgentInit(desired) ==
    /\ service = [w \in Workers |-> desired[w[1]].state]
    /\ seen = [w \in Workers |-> desired[w[1]]]
    /\ run = [w \in Workers |-> "probe"]

\* writeStatus.  It may come to nothing: the node has no session lease, its
\* own copy of etcd, however old, shows the status already, or etcd does not
\* answer.  None of these needs a fault, so it is possible in every run.
Report(w, state) == Put(RoleKey(w[1], w[2]), state) \/ UNCHANGED storeVars

Goto(w, phase) == run' = [run EXCEPT ![w] = phase]

\* Worker.reconcile sees a new desired document and starts a run for it.
Observe(w) ==
    /\ run[w] # "off"
    /\ run[w] = "start" \/ seen[w] # etcd[Desired(w[1])]
    /\ seen' = [seen EXCEPT ![w] = etcd[Desired(w[1])]]
    /\ Goto(w, "probe")
    /\ UNCHANGED <<service, storeVars>>

\* A run starts when the check interval has passed, which may be any time.
ProbeOk(w) ==
    /\ run[w] = "probe"
    /\ service[w] = seen[w].state
    /\ Report(w, seen[w].state)
    /\ UNCHANGED <<service, seen, run>>

ProbeMismatch(w) ==
    /\ run[w] = "probe"
    /\ service[w] # seen[w].state
    /\ IF seen[w].managed
       THEN /\ Report(w, IF seen[w].state = "active" THEN "starting" ELSE "stopping")
            /\ Goto(w, "set")
       ELSE /\ Report(w, "failed")
            /\ UNCHANGED run
    /\ UNCHANGED <<service, seen>>

\* The set actor worked; the run probes again.
SetService(w) ==
    /\ run[w] = "set"
    /\ service' = [service EXCEPT ![w] = seen[w].state]
    /\ Goto(w, "probe")
    /\ UNCHANGED <<seen, storeVars>>

SetFails(w) ==
    /\ w[1] \in UnreliableActors
    /\ run[w] = "set"
    /\ Goto(w, "probe")
    /\ UNCHANGED <<service, seen, storeVars>>

\* An exec error, or the converge timeout; the latter runs force_stop when
\* the target is passive.
GiveUp(w) ==
    /\ w[1] \in UnreliableActors
    /\ run[w] \in {"probe", "set"}
    /\ Report(w, "failed")
    /\ \/ UNCHANGED service
       \/ /\ seen[w] = Doc("passive", TRUE)
          /\ service' = [service EXCEPT ![w] = "passive"]
    /\ Goto(w, "probe")
    /\ UNCHANGED seen

ServiceCrashes(w) ==
    /\ w[1] \in CrashingGroups
    /\ service[w] = "active"
    /\ service' = [service EXCEPT ![w] = "passive"]
    /\ UNCHANGED <<seen, run, storeVars>>

\* The agent dies and its session lease expires: its reports vanish, its
\* service stays as it is.
AgentLost(w) ==
    /\ w[1] \in CrashingGroups
    /\ run[w] # "off"
    /\ Put(RoleKey(w[1], w[2]), "absent")
    /\ Goto(w, "off")
    /\ UNCHANGED <<service, seen>>

AgentReturns(w) ==
    /\ run[w] = "off"
    /\ Goto(w, "start")
    /\ UNCHANGED <<service, seen, storeVars>>

AgentStep(w) ==
    \/ ProbeOk(w)
    \/ ProbeMismatch(w)
    \/ SetService(w)

AgentFault(w) ==
    \/ SetFails(w)
    \/ GiveUp(w)
    \/ ServiceCrashes(w)
    \/ AgentLost(w)
    \/ AgentReturns(w)
=============================================================================
