----------------------------- MODULE RoleWorker -----------------------------
(***************************************************************************)
(* One role worker (internal/roles) in its process: the copy of etcd it    *)
(* reads, the session lease it reports under, and the run (a goroutine of  *)
(* applyDesired) that drives the service.  RoleAgents is its abstraction;  *)
(* ImplementsAgents says of which of its constants.                        *)
(*                                                                         *)
(* A new desired document, or the check interval, cancels the run and      *)
(* starts another.  A cancelled run starts no actor and sends no write any *)
(* more, but two things of it may outlive it: a write that was on its way  *)
(* ("late") and the children of a killed script ("orphan").  Of each the   *)
(* model remembers the latest only.                                        *)
(*                                                                         *)
(* Time passes in ticks of the retry interval.  A script takes less than a *)
(* tick, except for faults.                                                *)
(***************************************************************************)
EXTENDS Session, Sequences

CONSTANTS
    MaxLag,        \* bound: watch events under way
    CheckInterval, \* timeouts.check_interval, in ticks
    Converge,      \* timeouts.converge, in ticks
    FailingSets,   \* targets whose set actor may fail, each time anew
    BaseDir,       \* node.actors_base_dir: "absolute", "here" (empty or ".")
                   \* or "relative"; the actors' paths are relative
    MaxChanges,    \* bound: changes of the desired document
    MaxFaults      \* bound: faults of scripts, services, requests,
                   \* the session and the watch

ASSUME WorkerAssumption ==
    /\ MaxLag \in Nat \ {0}
    /\ CheckInterval \in Nat \ {0}
    /\ Converge \in Nat \ {0}
    /\ FailingSets \subseteq {"active", "passive"}
    /\ BaseDir \in {"absolute", "here", "relative"}
    /\ MaxChanges \in Nat
    /\ MaxFaults \in Nat

VARIABLES
    desired,      \* etcd: the desired document of the worker's group
    report,       \* etcd: the worker's actual and health, and their lease
    copy,         \* the process's copy of both keys
    watch,        \* events on their way to the copy
    watching,     \* watchLoop runs
    last,         \* lastDesired and lastManaged; they are the run's, too
    age,          \* ticks since lastCheckAt
    began,        \* the age at which ensure set its deadline
    phase,        \* where the run is
    transitioned, \* the run has reported its transition
    verdict,      \* the status the run ends with
    script,       \* the actors' paths in the process's configuration
    service,      \* what the service really is
    late, orphan, \* what is left of a cancelled run
    changes, faults

etcdVars == <<desired, report, copy, watch, watching>>
runVars == <<last, age, began, phase, transitioned, verdict>>
leftVars == <<late, orphan>>
vars == <<sessionVars, etcdVars, runVars, leftVars, script, service, changes, faults>>

States == {"active", "passive"}
Doc(state, managed) == [state |-> state, managed |-> managed]
Docs == [state : States, managed : BOOLEAN]
NoDoc == Doc("none", FALSE)
Statuses == {"active", "passive", "starting", "stopping", "failed"}
Report(status, lease) == [state |-> status, lease |-> lease]
NoReport == Report("absent", 0)
Reports == [state : Statuses, lease : Leases]
Copies == [desired : Docs, report : Statuses \cup {"absent"}]
Phases == {"idle", "wait", "probe", "notify", "set", "sleep", "retry", "force", "write"}

Events ==
    [key : {"desired"}, value : Docs] \cup
    [key : {"report"}, value : Statuses \cup {"absent"}]

TypeOK ==
    /\ SessionTypeOK
    /\ desired \in Docs
    /\ report \in Reports \cup {NoReport}
    /\ copy \in Copies
    /\ watch \in Seq(Events)
    /\ watching \in BOOLEAN
    /\ last \in Docs \cup {NoDoc}
    /\ age \in Nat
    /\ began \in Nat
    /\ phase \in Phases
    /\ transitioned \in BOOLEAN
    /\ verdict \in Statuses
    /\ script \in {"file", "joined", "mangled"}
    /\ service \in States
    /\ late \in Reports \cup {NoReport}
    /\ orphan \in States \cup {"none"}
    /\ changes \in Nat
    /\ faults \in Nat

Other(state) == IF state = "active" THEN "passive" ELSE "active"
Transition(state) == IF state = "active" THEN "starting" ELSE "stopping"

\* Bootstrap has put the first desired document.
Init ==
    /\ SessionInit
    /\ desired = Doc("passive", FALSE)
    /\ report = NoReport
    /\ copy = [desired |-> desired, report |-> "absent"]
    /\ watch = <<>>
    /\ watching = TRUE
    /\ last = NoDoc
    /\ age = 0
    /\ began = 0
    /\ phase = "idle"
    /\ transitioned = FALSE
    /\ verdict = "failed"
    /\ script = "file"
    /\ service \in States
    /\ late = NoReport
    /\ orphan = "none"
    /\ changes = 0
    /\ faults = 0

(***************************************************************************)
(* etcd and the copy                                                       *)
(***************************************************************************)
Send(key, value) ==
    IF watching
    THEN /\ Len(watch) < MaxLag
         /\ watch' = Append(watch, [key |-> key, value |-> value])
    ELSE UNCHANGED watch

\* PutWithLease: a lease that is gone is an error, "lease 0" is no lease.
PutReport(status, lease) ==
    IF lease \in alive \cup {0}
    THEN /\ report' = Report(status, lease)
         /\ Send("report", status)
         /\ UNCHANGED <<desired, copy, watching>>
    ELSE UNCHANGED etcdVars

Deliver ==
    /\ watch # <<>>
    /\ copy' = [copy EXCEPT ![Head(watch).key] = Head(watch).value]
    /\ watch' = Tail(watch)
    /\ UNCHANGED <<sessionVars, desired, report, watching, runVars, leftVars,
                   script, service, changes, faults>>

ChangeDesired ==
    /\ changes < MaxChanges
    /\ changes' = changes + 1
    /\ desired' \in Docs \ {desired}
    /\ Send("desired", desired')
    /\ UNCHANGED <<sessionVars, report, copy, watching, runVars, leftVars,
                   script, service, faults>>

\* The keys put under a lease go with it.
DropLease(l) ==
    /\ Expires(l)
    /\ IF report.lease = l
       THEN /\ report' = NoReport
            /\ Send("report", "absent")
            /\ UNCHANGED <<desired, copy, watching>>
       ELSE UNCHANGED etcdVars
    /\ UNCHANGED <<runVars, leftVars, script, service, changes>>

AbandonedLeaseExpires(l) ==
    /\ Abandoned(l)
    /\ DropLease(l)
    /\ UNCHANGED faults

SessionStep ==
    /\ Grant \/ Register \/ NoticeLeaseGone
    /\ UNCHANGED <<etcdVars, runVars, leftVars, script, service, changes, faults>>

(***************************************************************************)
(* The worker's ticker                                                     *)
(***************************************************************************)
\* Variant: writeStatus does not ask for a session lease.
NeedsWriteWithoutLease(status) == copy.report # status

\* writeStatus under the session lease, unless there is none or the copy
\* has the status already.
NeedsWrite(status) == leaseId # 0 /\ copy.report # status

WriteStatus(status) ==
    IF NeedsWrite(status) THEN PutReport(status, leaseId) ELSE UNCHANGED etcdVars

\* The status a run in this phase is writing.
Pending == IF phase = "notify" THEN Transition(last.state) ELSE verdict

Fault ==
    /\ faults < MaxFaults
    /\ faults' = faults + 1

\* desiredCancel of the run under way.  A write that is on its way may still
\* commit, the children of a killed script may still act.
Cancel ==
    \/ UNCHANGED <<leftVars, faults>>
    \/ /\ phase \in {"notify", "write"}
       /\ NeedsWrite(Pending)
       /\ late' = Report(Pending, leaseId)
       /\ Fault
       /\ UNCHANGED orphan
    \/ /\ phase \in {"set", "force"}
       /\ orphan' = last.state
       /\ Fault
       /\ UNCHANGED late

Begin(doc, p) ==
    /\ last' = doc
    /\ age' = 0
    /\ began' = 0
    /\ phase' = p
    /\ transitioned' = FALSE
    /\ verdict' = "failed"

\* Variant: lastCheckAt is never looked at.
ReconcileOnChangeOnly ==
    /\ sess # "down"
    /\ copy.desired # last
    /\ Cancel
    /\ Begin(copy.desired, "wait")
    /\ UNCHANGED <<sessionVars, etcdVars, script, service, changes>>

\* Worker.reconcile: a new document, or the check interval has passed.
Reconcile ==
    /\ sess # "down"
    /\ copy.desired # last \/ age >= CheckInterval
    /\ Cancel
    /\ Begin(copy.desired, "wait")
    /\ UNCHANGED <<sessionVars, etcdVars, script, service, changes>>

(***************************************************************************)
(* The run                                                                 *)
(***************************************************************************)
Goto(p) == phase' = p
GoOn(p) == Goto(p) /\ UNCHANGED <<transitioned, verdict>>
FinishWith(status) == Goto("write") /\ verdict' = status /\ transitioned' = FALSE

\* toExecutorActors joins the paths with the base directory, in the slices
\* of the configuration itself, so the next run joins them again; an absolute
\* path stays as it is, and so does a path below ".".
JoinPaths == IF BaseDir = "relative" /\ script # "file" THEN "mangled" ELSE "joined"

WaitForSessionLease ==
    /\ phase = "wait"
    /\ leaseId # 0
    /\ script' = JoinPaths
    /\ GoOn("probe")
    /\ UNCHANGED <<etcdVars, service>>

ProbeOk ==
    /\ phase = "probe"
    /\ script # "mangled"
    /\ service = last.state
    /\ FinishWith(last.state)
    /\ UNCHANGED <<etcdVars, script, service>>

\* Variant: managed is not looked at, every mismatch is corrected.
ProbeMissIgnoresManaged ==
    /\ phase = "probe"
    /\ service # last.state
    /\ GoOn(IF transitioned THEN "set" ELSE "notify")
    /\ UNCHANGED <<etcdVars, script, service>>

\* ReconcileDisabled fails; ensure goes on to set, the first time by way of
\* reporting the transition.  Both fail at once if Run's precheck finds no
\* file at the path.
Miss ==
    IF last.managed /\ script # "mangled"
    THEN GoOn(IF transitioned THEN "set" ELSE "notify")
    ELSE FinishWith("failed")

ProbeMiss ==
    /\ phase = "probe"
    /\ service # last.state \/ script = "mangled"
    /\ Miss
    /\ UNCHANGED <<etcdVars, script, service>>

NotifyTransition ==
    /\ phase = "notify"
    /\ WriteStatus(Transition(last.state))
    /\ transitioned' = TRUE
    /\ Goto("set")
    /\ UNCHANGED <<verdict, script, service>>

RunSet ==
    /\ phase = "set"
    /\ service' \in {last.state} \cup (IF last.state \in FailingSets THEN {service} ELSE {})
    /\ Goto("sleep")
    /\ UNCHANGED <<etcdVars, transitioned, verdict, script>>

\* Variant: the convergence timeout does not force a passive target.
RetryWithoutForce ==
    /\ phase = "retry"
    /\ IF age - began < Converge THEN GoOn("probe") ELSE FinishWith("failed")
    /\ UNCHANGED <<etcdVars, script, service>>

\* The top of ensure's loop after the sleep.
Retry ==
    /\ phase = "retry"
    /\ IF age - began < Converge THEN GoOn("probe")
       ELSE IF last.state = "passive" THEN GoOn("force")
       ELSE FinishWith("failed")
    /\ UNCHANGED <<etcdVars, script, service>>

\* The result of force_stop is not looked at.
ForceStop ==
    /\ phase = "force"
    /\ service' = "passive"
    /\ FinishWith("failed")
    /\ UNCHANGED <<etcdVars, script>>

WriteFinal ==
    /\ phase = "write"
    /\ WriteStatus(verdict)
    /\ Goto("idle")
    /\ verdict' = "failed"
    /\ UNCHANGED <<transitioned, script, service>>

\* The deadline of ensure counts from the end of the wait for the lease; it
\* goes with the run.
RunStep ==
    /\ sess # "down"
    /\ began' = CASE phase = "wait" -> age [] phase = "write" -> 0 [] OTHER -> began
    /\ \/ WaitForSessionLease
       \/ ProbeOk
       \/ ProbeMiss
       \/ NotifyTransition
       \/ RunSet
       \/ Retry
       \/ ForceStop
       \/ WriteFinal
    /\ UNCHANGED <<sessionVars, last, age, leftVars, changes, faults>>

(***************************************************************************)
(* What is left of cancelled runs                                          *)
(***************************************************************************)
LateCommits ==
    /\ late # NoReport
    /\ PutReport(late.state, late.lease)
    /\ late' = NoReport
    /\ UNCHANGED <<sessionVars, runVars, orphan, script, service, changes, faults>>

OrphanActs ==
    /\ orphan # "none"
    /\ service' = orphan
    /\ orphan' = "none"
    /\ UNCHANGED <<sessionVars, etcdVars, runVars, late, script, changes, faults>>

(***************************************************************************)
(* Time, and faults                                                        *)
(***************************************************************************)
Advance ==
    /\ last # NoDoc
    /\ age < CheckInterval
    /\ age' = age + 1
    /\ Goto(IF phase = "sleep" THEN "retry" ELSE phase)
    /\ UNCHANGED <<sessionVars, etcdVars, last, began, transitioned, verdict, leftVars,
                   script, service, changes>>

\* The run is over or waits.
Resting == phase \in {"idle", "sleep"} \/ (phase = "wait" /\ leaseId = 0)

Tick ==
    /\ sess # "down"
    /\ Resting
    /\ Advance
    /\ UNCHANGED faults

\* An actor or a request takes longer than a tick.
Slow ==
    /\ sess # "down"
    /\ ~Resting
    /\ Advance
    /\ Fault

\* The service starts, stops or dies by itself, or by hand.
ServiceFlips ==
    /\ service' = Other(service)
    /\ Fault
    /\ UNCHANGED <<sessionVars, etcdVars, runVars, leftVars, script, changes>>

\* The probe times out or exits nonzero though the service is as wanted.
ProbeFails ==
    /\ sess # "down"
    /\ phase = "probe"
    /\ service = last.state
    /\ Miss
    /\ Fault
    /\ UNCHANGED <<sessionVars, etcdVars, last, age, began, leftVars, script, service, changes>>

\* An actor that cannot be started ends the run.
ExecError ==
    /\ sess # "down"
    /\ phase \in {"probe", "set"}
    /\ FinishWith("failed")
    /\ Fault
    /\ UNCHANGED <<sessionVars, etcdVars, last, age, began, leftVars, script, service, changes>>

\* force_stop fails; a write returns an error, committed or not.
ForceFails ==
    /\ sess # "down"
    /\ phase = "force"
    /\ FinishWith("failed")
    /\ Fault
    /\ UNCHANGED <<sessionVars, etcdVars, last, age, began, leftVars, script, service, changes>>

WriteFails ==
    /\ sess # "down"
    /\ phase \in {"notify", "write"}
    /\ NeedsWrite(Pending)
    /\ Goto(IF phase = "notify" THEN "set" ELSE "idle")
    /\ transitioned' = (phase = "notify")
    /\ verdict' = "failed"
    /\ Fault
    /\ UNCHANGED <<sessionVars, etcdVars, last, age, began, leftVars, script, service, changes>>

\* The node is cut off from etcd for the TTL of its session.
CutOff ==
    /\ ~Abandoned(starts)
    /\ DropLease(starts)
    /\ Fault

SessionLost ==
    /\ SessionFails
    /\ Fault
    /\ UNCHANGED <<etcdVars, runVars, leftVars, script, service, changes>>

\* The channel closes on any error of the watch, and watchLoop returns.
WatchCloses ==
    /\ watching
    /\ watching' = FALSE
    /\ watch' = <<>>
    /\ Fault
    /\ UNCHANGED <<sessionVars, desired, report, copy, runVars, leftVars,
                   script, service, changes>>

\* The copy and the worker's memory go with the process.
Die ==
    /\ ProcessDies
    /\ Cancel
    /\ Begin(NoDoc, "idle")
    /\ watching' = FALSE
    /\ watch' = <<>>
    /\ script' = "file"
    /\ UNCHANGED <<desired, report, copy, service, changes>>

\* LoadSnapshot, then a watch from the next revision on.
Restart ==
    /\ ProcessStarts
    /\ copy' = [desired |-> desired, report |-> report.state]
    /\ watching' = TRUE
    /\ UNCHANGED <<desired, report, watch, runVars, leftVars, script, service, changes, faults>>

Next ==
    \/ Deliver
    \/ ChangeDesired
    \/ \E l \in Leases : AbandonedLeaseExpires(l)
    \/ SessionStep
    \/ Reconcile
    \/ RunStep
    \/ LateCommits
    \/ OrphanActs
    \/ Tick
    \/ Slow
    \/ ServiceFlips
    \/ ProbeFails
    \/ ExecError
    \/ ForceFails
    \/ WriteFails
    \/ CutOff
    \/ SessionLost
    \/ WatchCloses
    \/ Die
    \/ Restart

Spec == Init /\ [][Next]_vars

(***************************************************************************)
(* The loops of a living process run, etcd drops leases nobody keeps, and  *)
(* what outlives a run ends.  Operators, faults, deaths and restarts are   *)
(* not fair.                                                               *)
(***************************************************************************)
Fairness ==
    /\ WF_vars(Deliver)
    /\ WF_vars(SessionStep)
    /\ WF_vars(Reconcile)
    /\ WF_vars(RunStep)
    /\ WF_vars(Tick)
    /\ WF_vars(LateCommits)
    /\ WF_vars(OrphanActs)
    /\ \A l \in Leases : WF_vars(AbandonedLeaseExpires(l))

FairSpec == Spec /\ Fairness

(***************************************************************************)
(* Properties                                                              *)
(***************************************************************************)
\* A report hangs on a lease that etcd holds, also one that a cancelled run
\* or a process that is dead by now wrote: a node whose session nobody keeps
\* does not go on saying that its service runs (client.go:165).
ReportsAreLeased == report = NoReport \/ report.lease \in alive

\* The process runs with its session, and hears of changes.
Connected == sess = "keep" /\ watching

\* etcd says of the service what a probe says of it now.
Truthful ==
    IF service = desired.state THEN report.state = desired.state
    ELSE IF desired.managed THEN report.state \in {Transition(desired.state), "failed"}
    ELSE report.state = "failed"

\* Whatever was cancelled, arrived late, was skipped because the copy was
\* old (manager.go:406) or vanished with a former process's lease, the
\* report of a connected worker ends up telling the truth and stays.
ReportsSettle == <>[]Connected => <>[]Truthful

\* A managed passive service comes down, if not by set_passive then by
\* force_stop when the convergence times out (converge.go:28).
StopsEventually ==
    <>[](Connected /\ desired = Doc("passive", TRUE)) => <>[](service = "passive")

\* roles/README.md:13: once the worker's copy says unmanaged it stops
\* running actors that change the service, also on later checks.
UnmanagedIsLeftAlone ==
    <>[](~copy.desired.managed) => <>[](phase \notin {"set", "force"})

\* RoleAgents' worker, whose etcd has the desired document that the copy has.
Me == <<1, "role">>
MyKeys == {<<"desired", 1>>, <<"config", 1>>, <<"status", 1>>, <<"role", 1, "role">>}
AbstractEtcd ==
    [k \in MyKeys |-> CASE k[1] = "desired" -> copy.desired
                        [] k[1] = "config"  -> 1
                        [] k[1] = "status"  -> "absent"
                        [] k[1] = "role"    -> report.state]
AbstractRun ==
    IF last = NoDoc THEN "start" ELSE IF phase = "set" THEN "set" ELSE "probe"

\* The workers of Planned, PlannedLive, Maintenance, Converge and
\* WriteErrors, and those of the group of Failover that is not reliable.
Agents == INSTANCE RoleAgents WITH
    N <- 1, Roles <- {"role"}, MaxPriority <- 1, MaxLag <- 0, WritesMayFail <- FALSE,
    UnreliableActors <- {}, CrashingGroups <- {},
    etcd <- AbstractEtcd, store <- AbstractEtcd, watch <- <<>>,
    service <- [w \in {Me} |-> service],
    seen <- [w \in {Me} |-> last],
    run <- [w \in {Me} |-> AbstractRun]

UnreliableAgents == INSTANCE RoleAgents WITH
    N <- 1, Roles <- {"role"}, MaxPriority <- 1, MaxLag <- 0, WritesMayFail <- FALSE,
    UnreliableActors <- {1}, CrashingGroups <- {},
    etcd <- AbstractEtcd, store <- AbstractEtcd, watch <- <<>>,
    service <- [w \in {Me} |-> service],
    seen <- [w \in {Me} |-> last],
    run <- [w \in {Me} |-> AbstractRun]

HearsOfDesired ==
    \E d \in Docs : Agents!Put(Agents!Desired(1), d) /\ UNCHANGED Agents!agentVars

\* The set actor fails or is cut off by the check interval, or the run gives
\* up: its convergence timed out, or no file was at the actor's path.
CutShort ==
    \/ phase = "set" /\ phase' # "set" /\ service' # last.state
    \/ phase = "force"
    \/ phase = "write" /\ verdict = "failed" /\ (last.managed \/ script = "mangled")

\* Until the first fault or death every step of the worker, with its copy,
\* its cancelled runs and the reports it skips because the copy is old, is
\* one of the abstract worker: of the reliable one, unless the run is cut
\* short, and of the unreliable one then.
ImplementsAgents ==
    [][faults' = 0 /\ starts' = 1 /\ sess' # "down"
         => \/ HearsOfDesired
            \/ Agents!Observe(Me)
            \/ Agents!AgentStep(Me)
            \/ CutShort /\ (UnreliableAgents!SetFails(Me) \/ UnreliableAgents!GiveUp(Me))
      ]_<<AbstractEtcd, service, last, AbstractRun>>

\* lease/README.md:5: the session is kept for as long as the process runs,
\* so the reports of a process that stays up do not stay away.
ReportsComeBack == <>[](sess # "down") => []<>(report # NoReport)
=============================================================================
