# cluster-tumbler in TLA+

A specification of the cluster-tumbler agent: the leader's reconcile loop with
its two-phase switchover and automatic failover, the management commands, the
role workers with their session, leader election, the life of a command in
etcd, and the start of an agent: its configuration, the seeding of etcd, the
copy it keeps and the page it streams. TLC checks the modules on small
instances; TLAPS proves, for every instance, type correctness of every
component; that a sequence of promotes is a sequence of handovers in which no
two groups ever run together; that swaps of priorities stay swaps; leader
uniqueness; that commands go forward and no consumer executes one twice; that
seeded groups are complete and stay enabled, and that what the nodes' config
watchers rebuild from etcd is valid and the same; that the copy of a starting
process, with the events still to come, is etcd, and the page of a browser the
copy; that reports hang on living leases; and that until the first fault the
detailed worker implements the one that the switchover is checked and proved
with.

Line numbers are those of the files under `src/internal`; `README.md:n` is the
repository's own.

## 1. The system

Every node runs one process. etcd is the only thing the nodes share. A process
**writes etcd and reads its own copy of it**, which one watch feeds event by
event. One process at a time holds the leadership lease and starts, on top of
the rest, the controller and the command consumer.

| Part | State | Operations | Talks to | What is hard | Correct when |
|---|---|---|---|---|---|
| state store `store/store.go` | tree, revision, ready, one notification slot | LoadSnapshot, Apply, Get, Prefix, ListChildren | fed by the watch; read by everybody | the copy lags; deleted keys leave the nodes above them; one slot for all streams | with the events still to come it is etcd |
| etcd client `etcd/client.go` | one session lease id | Put, Delete, WatchPrefix, leases, compare-and-swap | etcd | an error after the commit; a watch that ends | a caller cannot tell a lost answer from a lost request |
| reconcile loop `controller/controller.go` | `switchoverStarted`, `switchoverTarget`, in memory only | aggregate the roles, publish, apply the policy | reads the copy, writes status, desired, config | every request may interleave with agents, commands and its own earlier writes | services of two groups are never up together; the best group ends up running; the loop comes to rest |
| command consumer `controller/commands.go` | none but the command it executes | drainPending, watch, promote, demote, disable, enable, force_passive, archive | the copy and etcd, next to the reconcile loop and without a lock | several writes per command; death in the middle; two consumers | each command once, forward only, and archived |
| API `api/server.go` | none | validate and enqueue | copy, `commands/` | validation is on a stale copy and not repeated | what it accepts is processed |
| role workers `roles/*.go` | lastDesired, lastManaged, lastCheckAt, one run | probe, set, force_stop, report | desired key, role keys under the session lease | a new document or the check interval cancels the run, whose writes and scripts may outlive it; reports are skipped on an old copy; scripts fail; agents die | the reports of a connected agent tell the truth; a passive service comes down |
| leader election `lease/leadership.go` | current lease id, event channel of 8 | grant, compare-and-swap, keepalive | etcd, runtime | lost answers, expiry, dropped events | one believer, who owns the key; somebody leads |
| runtime `runtime/runtime.go` | which goroutines run | connectETCD, snapshot, Ensure, watchLoop, controllerWhenLeader | everything | the snapshot is older than the node's own seeds; reacts to `acquired` only | controller and consumer run on the leader and nowhere else; nothing falls between snapshot and watch |
| session `lease/session.go` | session lease id | grant, register, keep alive | role reports | never re-created once lost; a former process's lease outlives it | a live node's reports stay, a dead node's go |
| bootstrap `bootstrap/bootstrap.go` | what is left to seed | put-if-absent, key by key; the own document always | etcd, while others seed, run and operate | several nodes with different files; death in the middle; seeding again | seeded groups are complete; what operators changed stays |
| configuration `config/config.go`, `watcher.go` | the loaded file | Load, defaults, validate, loadSnapshot, Merge | file, `config` keys | each node starts with its own file and stays with it; what the watcher rebuilds from etcd is only logged | what is rebuilt is valid, and the same on every node |
| state view and stream `api/view.go`, `api/server.go` | the last page sent | BuildStateView, handleStream | the store, a read at a time | pages are torn, signals fall together | the last page of a quiet system is etcd |
| web page `web/page.go`, logging, entry point | none | presentation | | | not modelled |

Interactions: `Submit` (API) puts a command; the consumer turns it into writes
of `config` and `desired` keys; the reconcile loop reads those from the copy
and writes `desired` keys again; workers poll `desired` and write role keys;
the loop aggregates those into `status` keys, which the API and the demote
command read. Nothing but etcd orders these.

`PROJECT.json` lists the components with what is modelled of each, and the
hazards of the code line by line with the property that would notice them.

## 2. The modules

| Module | Models | Correspondence |
|---|---|---|
| `ClusterStore` | etcd, the leader's copy, the watch between them | `etcd`, `store` map keys to values, `watch` is the events not yet applied. `Put` commits and appends an event; `TryPut` may return an error, committed or not; `Deliver` is watchLoop + Apply |
| `PriorityPolicy` | the pure decisions of the controller | aggregation (`GroupActual`), `FindTarget`, `CurrentActive`, `Drained`, `AllSamePriority`, failover's two sides and the swap, as predicates on what a pass collected |
| `Controller` | one reconcile pass, step by step | `pc`, `todo` say where the pass is, `rt` is `groupRuntimes`, `started` and `switchTarget` are the two maps; an action per etcd request and per branch of `applyActivePassive` |
| `CommandConsumer` | API validation and the five commands | `Submit` validates and enqueues; `ExecX` reads the copy and plans the writes; `ExecWrite` does them one by one; `ExecActivate` is the second read of a promote |
| `RoleAgents` | a worker per (group, role) | `service` is the real service, `seen` is lastDesired/lastManaged, `run` is where the run is; probes, actors, force_stop, crashes, lost agents; a report may be skipped at any time |
| `Switchover` | composition: leader + consumer + workers + operators | all of the above; `LeaderRestarts` clears what lives in memory |
| `Handover` | **abstract**: what a planned switchover promises | `wanted`, `holder`; Promote, Release, Take |
| `Leadership` | election and the goroutines it starts | `key`, `alive` (leases in etcd), `mgr` (the manager's loop), `events` (channel), `runners` (goroutines of controllerWhenLeader) |
| `CommandQueue` | the life of a command | `log` is the history of `commands/`, `applied` the copy's revision, `from` the consumer's watch, `job` the steps of processCommand |
| `MCSwitchover` | instances for TLC | sets of initial documents and priorities |
| `Session` | session manager and session lease | `sess` is where Run is, `leaseId` is Client.sessionLeaseID, `alive` the leases in etcd; process `i` grants lease `i` |
| `RoleWorker` | one role worker in its process | `last` and `age` are lastDesired/lastManaged and lastCheckAt, `began` is when ensure set its deadline, `phase` is where applyDesired, ReconcileDisabled or ensure is; `copy`, `watch`, `watching` its copy of etcd; `late`, `orphan` what outlives a cancelled run; `script` what has become of the actors' paths |
| `EtcdKeys` | `model/keys.go` | one operator per key function; a key is a sequence of names |
| `StateStore` | the tree | a function from paths to values; LoadSnapshot, Insert, Delete, ListChildren, Prefix |
| `StateView` | BuildStateView | one operator per function of view.go, on a tree |
| `NodeConfig` | `config.go` | roles.defaults, defaults, validation of memberships, loadSnapshot, Merge, on records |
| `Bootstrap` | the agents as they start | `phase`, `config`, `todo` of each process; `Ensure` puts one key; `Operate`, `Prioritize`, `Report`, `Expire` are the writes of everybody else |
| `Startup` | composition: Bootstrap + the copy of one process + its streams | `store`, `watch`, `notify` of process `Me`; `stream`, `held`, `page` of each browser |
| `MCStartup` | instances for TLC | two files that contradict each other, scenes |
| `ClusterStoreProofs`, `SwitchoverProofs`, `HandoverProofs`, `LeadershipProofs`, `CommandQueueProofs`, `RoleWorkerProofs`, `StartupProofs`, `CopyProofs` | proofs | section 5 |

`Switchover` EXTENDS `Controller`, `CommandConsumer` and `RoleAgents`, which
all EXTEND `ClusterStore`: the variables `etcd`, `store`, `watch` are the only
ones they share, as in the code. `Handover` is instantiated in `Switchover`
with `wanted` = the group with the best priority in etcd and `holder` = the
group whose services run. `Leadership` and `CommandQueue` stand alone: they
have other nodes and other keys; what they establish is what `Switchover`
assumes (one leader, a command executed once), and the violation runs of both
say where that assumption ends.

`RoleWorker` EXTENDS `Session` and instantiates `RoleAgents`, the worker of
`Switchover`, with a mapping that keeps the document its copy has, its report,
its service and whether it is about to call a set actor. It does so twice, with
the constants of the runs: `Agents` has no failing writes and nothing
unreliable, as in `Planned`, `PlannedLive`, `Maintenance`, `Converge` and the
theorems of `HandoverProofs`; `UnreliableAgents` has unreliable actors, as in
`Failover`. Until the first fault or death every step of the detailed worker is
one of the first, and if the run is cut short (`CutShort`: a set actor fails or
is cut off by the check interval, the convergence times out, no file is at the
actor's path) one of the second (`ImplementsAgents`). A report that is skipped
because the worker's own copy, however old, shows the status already needs no
fault (manager.go:406), so `RoleAgents` may skip one in every run. What comes
after a fault is up to `RoleWorker`'s own properties; `Switchover`'s
CrashingGroups are coarser.

`Startup` EXTENDS `Bootstrap`, which EXTENDS `NodeConfig` and `EtcdKeys`; it
takes `StateView` (and `StateStore` with it) by INSTANCE as `View`. Its etcd is
the whole key space but for commands, leadership and statuses, which nobody
has written yet when agents start.

Operators whose comment begins with "Variant:" are not part of any
specification. Each is a plausible mistake in the operator after it; putting
it in that operator's place makes the property named with it in `PROJECT.json`
("mutants") fail, which shows that the property depends on that code.

### Abstractions, and why they are sound

* **One cluster group.** Reconcile and policy never read another cluster
  group's keys; commands and timers are per cluster group too.
* **Names are numbers.** Groups are `1..N` in the order of ListChildren, since
  the code breaks ties by that order. A "role" is a (node, role) pair, which
  is what the aggregation loops over.
* **actual and health are one key**, for groups and roles: health is a
  function of actual, and both are written one after the other from one value.
* **Timestamps** are left out, except where the aggregation compares a
  starting and a stopping role: there either may be the newer one.
* **Reads of one group's keys in a pass are one step**, except for the priority
  when a put comes before it (`ReadPriority`). They are reads of the copy in
  memory, microseconds apart; between groups, and between collecting and the
  policy, anything may happen.
* **Details** of a status are left out, but a group that is still failed may be
  published again, since the reason may have changed; no other state has more
  than one.
* **The copy of a worker** is folded, in `RoleAgents`, into when it observes:
  `Observe` takes etcd's desired document at any later time, so documents that
  come in between may be missed. A worker that first sees a document when a
  newer one is put already is not in `Switchover`; in `Planned` there is no
  such worker, since a document is only changed once its group has reported.
  `RoleWorker` has the copy, also of the worker's own reports, and its mapping
  takes the copy for etcd.
* **The watch goes on** in `Switchover` and `Startup`. When its channel closes
  (client.go:118-121) the code's copy is stale for ever (runtime.go:223-227),
  and nothing said of the copy holds any more; `RoleWorker` has this fault
  (`WatchCloses`), and its properties hold but for those of workers whose watch
  goes on.
* **The API validates on the leader's copy.** Another node's copy only lags
  differently; with `OrderlyOperators` off and a queue, commands are executed
  in a state different from the one they were validated in anyway.
* **Timeouts** are events that may happen whenever their clock is running
  (`TimerExpires`, `GiveUp`, `ExpireCurrent`); durations are left out.
* **Nodes and roles are registered** when a run begins, and services, reports
  and desired documents agree then; runs differ in which agreement that is.

* **Time** in `RoleWorker` passes in ticks of the retry interval; check
  interval and convergence timeout are numbers of ticks. Scripts and requests
  take less than a tick, except as a fault (`Slow`).
* **Of cancelled runs** only the latest late write and the latest script that
  acts on are remembered. The two keys of a report are one.
* **Values of a configuration** are integers: 0 is the zero value that defaults
  replace and Merge ignores, negative is a negative duration. Fields that only
  the node itself uses, and parsing, are left out: durations are written to
  etcd and parsed back unchanged.
* **GetPrefix and LoadSnapshot** are one step: nobody reads the store before,
  and the watch begins at the snapshot's revision either way. A put of the
  document that is there already is not counted as a revision: it changes no
  page.
* **Operators and workers in `Bootstrap`** are writes anyone may make at any
  time to keys of the right kind; `Switchover` and `RoleWorker` have their
  order.
* **The view** shows documents as they are; ensureDetails, which adds an empty
  field, is left out.

### Named assumptions of a run

* `OrderlyOperators`: a command is submitted when the last one is settled, and
  nobody promotes the group that is active already.
* `SeparateLoops`: a command executes between two passes of the reconcile
  loop. A pass takes milliseconds of every two seconds, so this is the usual
  case; nothing in the code enforces it, and PromoteRace shows what happens
  otherwise.
* `WritesMayFail`, `TimersMayExpire`, `LeaderMayRestart`, `Automatic`,
  `UnreliableActors`, `CrashingGroups`: the faults and modes of the run.
* `NamesAssumption` (Bootstrap): no file uses a name of the key layout
  (`desired`, `config`, `_meta`, ...) for a group, role or node. Nothing in the
  code checks it (config.go:492).
* `BootstrapAssumption`: files pass the validation, otherwise the process does
  not start.
* `OneClient`: browsers connect to a process's stream one at a time, as in the
  scenes of `Startup`; `TwoClients` has two.
* `BaseDir`, `FailingSets`, `CheckInterval`, `Converge` (RoleWorker): the
  node's configuration and which set actors may fail. The passing run has a
  check interval longer than the convergence timeout and an absolute base
  directory.
* `Exclusive`, `FreshStart` (CommandQueue): a consumer starts when no other is
  left and with an up-to-date copy. That is so if the old leader's process is
  gone and the lease TTL exceeds the watch's delay.

## 3. Fairness

Assumed in `Switchover!FairSpec`: the watch delivers, the reconcile loop runs
(a 2 s ticker), the consumer reads its channel, and each worker both polls and
goes on with its run (a 500 ms ticker whose body first looks for a new desired
document, so polling cannot starve the run or the other way round). All weak:
each of these loops stays enabled until it acts. A report may be skipped, but a
worker that goes on to find the same has it written in the end: the session and
the watch of a living process go on, and `Worker` shows it of the detailed
worker (`ReportsSettle`). Operators, faults, timeouts and restarts are never
fair. `Leadership!FairSpec`: the manager's and the
runtime's loops run, and etcd expires a lease nobody keeps alive;
`LeaderRuns` further supposes that faults end. `CommandQueue!FairSpec`:
copies catch up, consumers run, and some node starts one while the bound on
starts allows. `RoleWorker!FairSpec`: the watch delivers, the session manager,
the worker's ticker and its run go on (goroutines of a living process), time
passes while the run rests, a write or script that is still under way ends, and
etcd drops a lease that nobody keeps alive. Changes of the desired document,
faults, deaths and restarts are not fair. `Startup` states no liveness and needs
no fairness.

## 4. The runs

### What holds

| Run | Instance | Shows |
|---|---|---|
| `Planned` | 3 groups, lag 3, 3 promotes, timers | `HandsOver`: each promote is a handover, old services down before new ones up, no third group ever; `SwapsKeepRanks`: the two writes of a swap, planned from a lagging copy, land as a swap; `TypeOK` |
| `PlannedLive` | 3 groups, lag 1, 2 promotes, fairness | `ImplementsHandover`, `WantedRuns`: both phases of each switchover are carried through |
| `Maintenance` | 4 groups, the first or the last active and best, or one of them each, lag 1, 2 of promote/disable/enable/force_passive, timers, leader restarts at any point | `SingleActive`, although a restart may leave a command half done and forgets the drain |
| `Failover` | 3 groups, automatic; services, actors and agents of group 1 fail at any time | `FailoverCompletes` |
| `Converge` | 3 groups, every assignment of desired documents and of priorities 1 and 2, lag 1, fairness | `ReachesTopology`, `Quiesces` |
| `WriteErrors` | 2 groups, promote or demote racing the passes, every request may fail before or after it commits, timers, restarts | `TargetHasTimer` |
| `Leadership` | 2 nodes, lost answers, expiry, crashes, restarts, fairness | `LeaderOwnsKey`, `LeaderRuns`, `TypeOK` |
| `Queue` | 2 commands, a consumer that dies and is replaced, failing writes, fairness | `OncePerConsumer`, `ForwardOnly`, `CoveredIsExecuted`, `TypeOK` |
| `Worker` | 2 changes of desired, lag 1, check interval 3, convergence 2, 1 fault of any kind or place, 1 death and restart, both set actors may always fail, fairness | `ReportsSettle`: the report ends up true although runs are cancelled, writes come late and copies are old; `StopsEventually`: by force_stop if need be; `UnmanagedIsLeftAlone`; `ReportsAreLeased`; `ImplementsAgents`; `TypeOK` |
| `Startup` | 2 nodes with contradicting files, 3 starts or 2 starts and a write or, with one node and one browser, 2 starts and 2 writes | `GroupsAreComplete`, `EnabledStays`: whoever dies and starts when; `OwnNodeIsLocal`: the node's own document is its file's; `MergedIsValid`, `RebuildsAgree`: what the config watchers rebuild from etcd and throw away; `CopyCatchesUp`, `ViewShowsReports`, `QuietPageIsCurrent`: from etcd to the page; `TypeOK` |

Bounds. Three groups are the least with a group that is neither source nor
target of a switchover, and the policy distinguishes no others. `Maintenance`
has four because an interrupted promote leaves two groups with one priority:
two commands must not be able to make all priorities equal, which is the
active-active topology. It begins with either end of the order in which a pass
goes through the groups, since what it sees of the first group is older than
what it sees of the last. Three promotes come back to a group that was drained before. A lag of three events
holds both halves of a swap and a desired write at once. One role per group is
enough for the order of services between groups; two are in TwoRoles below.
Two priorities are enough in `Converge`: without failover the policy
asks only who has the best one and whether all have the same. Two nodes compete, and one can compete with the key of its own abandoned
lease; the safety part is proved for any number. The channel holds 2 events
instead of 8, which fills it sooner. Two commands and two consumers are the
least for a drain and a watch that overlap, and a death between them.
In `Worker` two changes of desired give an active target between two passive
ones, or a managed document between unmanaged ones; one fault together with a
restart meets every phase of a run; convergence 2 and check interval 3 are the
least with a run that goes round its loop again and then times out before it is
checked again. In `Startup` node
"a" has the name of its group, so its reports are one level higher (view.go);
each file is silent where the other is not, and they disagree on priority and
roles of the group they share; "b" may come back with another file. `Scenes`
bounds starts and writes per behaviour; a running copy lags one event when
another is committed, any number while Ensure runs.
`MaxCommands`, `MaxLag`, `MaxStarts`, `MaxRunners`, `MaxChanges`, `MaxFaults`
and `Scenes` are the only bounds; each is in a guard and in the module's
CONSTANTS. `MaxRunners` only stops counting:
goroutines are never stopped, so what is asked of them is whether there is
one. Deadlock is not checked: operators stop submitting at the bound, and a
system with nothing left to do is meant to stop.

### Where the code differs from what it says of itself

Two runs look for, and find, a violation; `PROJECT.json` ("findings") quotes
the text the code contradicts.

| Run | Property | Line |
|---|---|---|
| `ExLeader` | `StopsWhenLost` | runtime.go:248: "lost" is ignored |
| `LostCommand` | `AcceptedIsProcessed` | commands.go:44: gap between the drain's snapshot and the watch |

The configurations below, kept beside them for whoever changes that code, find
one violation each as well (`tlc -config X.cfg M`, M the module):

| Configuration | Module | Property | Line |
|---|---|---|---|
| `PromoteRace` | MCSwitchover | `SingleActive` | commands.go:347: activateTarget's own read races a pass; as Planned, without SeparateLoops |
| `SecondDrain` | MCSwitchover | `WantedRuns` | controller.go:560: a completed drain's start is not forgotten, so the next drain of that group records no target; as PlannedLive, with a third promote |
| `Demote` | MCSwitchover | `SingleActive` | commands.go:314: the replacement is activated at once, while the demoted group still runs; commands.go:229-230 says the controller waits |
| `TwoRoles` | MCSwitchover | `SingleActive` | controller.go:275: a group with one role stopped and one up aggregates to failed, which counts as drained |
| `TwoGroups` | MCSwitchover | `SingleActive` | controller.go:466: with two groups half a swap looks like equal priorities |
| `DroppedGroup` | MCSwitchover | `SingleActive` | controller.go:112: a failed status write hides the draining group from the policy |
| `TornSwap` | MCSwitchover | `WantedRuns` | controller.go:541: the recorded target comes from half a swap |
| `PromoteActive` | MCSwitchover | `WantedRuns` | commands.go:350: promoting the active best group stops it |
| `TiedFailover` | MCSwitchover | `FailoverCompletes` | controller.go:764: a swap that changes nothing skips the policy for ever |
| `TiedTop` | MCSwitchover | `BestAllRun` | controller.go:619 against README.md:199 |
| `ForcePassive` | MCSwitchover | `NobodyIsActivated` | controller.go:571 against commands.go:328 |
| `Unmanaged` | MCSwitchover | `RespectsUnmanaged` | controller.go:536: a draining unmanaged group is written, against controller/README.md:17 |
| `OrphanCommand` | CommandQueue | `RunningIsArchived` | commands.go:77: nobody takes up a running command |
| `TwoConsumers` | CommandQueue | `ForwardOnly` | commands.go:60: nothing claims a command |
| `CheckInterval` | RoleWorker | `StopsEventually` | manager.go:204-206: a check interval shorter than the convergence timeout, as the defaults of config.go:442-452 have it, cancels every run before it times out, so force_stop is never called; README.md:82 says force_stop is "used on converge timeout", README.md:86 that the loop goes on until it "expires" |
| `SessionLost` | RoleWorker | `ReportsComeBack` | session.go:107-110: a session that ends is not created again, against lease/README.md:5 |
| `RelativeBase` | RoleWorker | `ReportsSettle` | manager.go:440-441: paths are joined with the base directory in place, again on every run; README.md:118 allows a relative one |
| `TwoClients` | MCStartup | `QuietPageIsCurrent` | store.go:53: one notification wakes one of two browsers; README.md:247 and api/README.md:7 say clients get updates |
| `NegativeDuration` | MCStartup | `RebuildsAgree` | config.go:415-425 against 262-270: a negative duration is neither defaulted nor overridden |

`Maintenance` itself finds a violation of `SingleActive` once its `MaxLag` is 2
(controller.go:529): with two events under way a disabled group that is
promoted is taken for unmanaged, a third group gets its turn, and is then taken
for drained before it has started.

So `SingleActive` needs each of the assumptions of `Maintenance`: orderly
operators, commands between passes, no failing requests, one role per group, no
demote, and a copy at most one event old.

## 5. What is proved

For every value of the constants, from the named assumptions
`StoreAssumption`, `ControllerAssumption`, `CommandAssumption`,
`AgentAssumption`, `SwitchoverAssumption`, `LeadershipAssumption`,
`QueueAssumption`, `SessionAssumption`, `WorkerAssumption`,
`BootstrapAssumption`, `StartupAssumption`, which say of which sets the
constants are (at least one group and one priority, a channel of positive
capacity, initial documents that are documents, files that are valid), and
`NamesAssumption` (section 2):

* `LeadershipProofs!TypeCorrect`: `Spec => []TypeOK`, so no channel is ever
  overfilled.
* `LeadershipProofs!LeaderOwnsKeyAlways`, `OneLeader`. `LeaderOwnsKey` is
  inductive together with the types: only Acquire makes a believer, and it
  sets the key; the key leaves a node only when its lease expires, which ends
  its leading, or when the node takes a fresh lease, which it does only when
  it does not believe. A second believer would need the same key
  (`OwnersDiffer`).
* `SwitchoverProofs!TypeCorrect`: the whole composition is well formed. One
  lemma per action; `ClusterStoreProofs` has what they rest on: which values a
  key may have, that a put, failed put or delivery of a proper value keeps
  etcd, copy and watch proper, and hence that whatever a pass or a plan reads
  from the copy is proper too.
* `SwitchoverProofs!TimerForTarget`: `Spec => []TargetHasTimer`. Inductive
  with the types: phase 1 records start and target together and its timeout
  forgets both; phase 2 forgets the target whatever becomes of the start; an
  expired timer is still a timer; a restart forgets everything.
* `SwitchoverProofs!SwapsAreSwaps`, assuming `SwapsOneByOne`: no failing
  writes, no automatic failover, no leader that is lost between the two writes,
  initial priorities that differ, and commands one after the other or a copy
  that does not lag. `SwapInv` says that the priorities in etcd, overwritten
  with what is left of the plan under way, are a permutation of the initial
  ones, and that a plan is made from the priorities etcd has: the copy followed
  by the events under way is etcd (`CopyFollows`), and where the copy may lag
  no priority is under way while commands are waiting (`CalmQueue`). Each of
  the assumptions is needed: `TornSwap`, `PromoteRace` and `TwoGroups` of section 4
  break the property without them.
* `HandoverProofs!PlannedSingleActive`, `PlannedHandsOver`, assuming
  `Planned`: at least three groups with one role each, initial priorities that
  differ and the best group alone active, promotes by orderly operators between
  the passes, actors and requests that work, a leader that stays; any number of
  groups from three on and of promotes, any lag of the copy, and drains that
  may time out at any moment. (With two groups half a swap makes all priorities
  equal, which is the topology in which everybody runs: `TwoGroups`.) The
  invariant, `Round`, is the history of the last switchover in nine stages, one
  for each write that leads to the next: priority of the new group, priority of
  the old, desired passive, the old worker's two reports (stopping, passive),
  desired active, and the new worker's two (starting, active). The reports of a
  transition may be skipped, and the stages 4 and 7 with them. etcd is at one
  stage E, the copy at an earlier S, the events between them are those of the
  stages in between; each worker and the command under way are where stage E
  allows, and what a pass has collected of a group is from one of the stages
  before S, its priority from that or a later one. Every action either leaves
  the stage or takes it forward. That two services are up at once is impossible in each stage
  (`RoundIsSingle`), and each step maps to a step of `Handover` or a stutter.
* `CommandQueueProofs!OncePerConsumerAlways`, `TypeCorrect`. The inductive
  invariant adds to the types that a command is put as pending once
  (`OnePending`), that every command in the log has a last event (`HasLast`),
  and `Consumed`: what the drain still holds, what is being executed and what
  was executed are disjoint, and all of it lies before the first event the
  watch has yet to come to. So drain and watch pass each submission once, though
  they read the copy at different moments; `LostCommand` shows that they may
  pass it never.
* `CommandQueueProofs!CommandsGoForward`, assuming `CleanTakeover`, that is
  `Exclusive` and `FreshStart` (section 2): a consumer that executes a command
  has taken it when it was pending in etcd, not only in the copy, since nobody
  else could have changed it since. `TwoConsumers` shows that it takes one
  consumer at a time.
* `RoleWorkerProofs!TypeCorrect`, `ReportsAreLeasedAlways`. With `Safe`: the
  types, a report's lease lives, and a process that is down has no lease id.
  Late writes of cancelled runs, skipped writes and leases of former processes
  are all in it.
* `RoleWorkerProofs!Refines`: `Spec => ImplementsAgents`, that is, the worker of
  `Planned`, `PlannedSingleActive` and `PlannedHandsOver` but for runs that are
  cut short, and the one of `Failover` for those (section 2). It needs `Smooth`:
  until the first fault a run that corrects the service knows what it is, and
  the status it ends with is what it saw unless it was cut short.
* `StartupProofs!GroupsAreCompleteAlways`. `Loaded` (each process has one of
  its files), `Order` (what is left of a node's stages still has roles before
  the groups that name them and a group's config before its desired, unless
  they are in etcd already), `DesiredDocs` and `GroupDocs` (what is in etcd has
  what it needs there). Config documents are put over but never removed, so
  whoever dies leaves the order of the others intact.
* `StartupProofs!EnabledStaysAlways`: from the same invariant, since only a key
  that is absent gets bootstrap's document, and leases have no desired keys.
* `StartupProofs!OwnNodeIsLocalAlways`, `MergedIsValidAlways`. `JInv` adds to
  the invariant above `KnownKeys` (etcd's keys are those files lead to, and
  finitely many), `Sowing` (of a node past its start every seed is in etcd or
  to come, and its own document says what its file says unless it is to come)
  and `FileDocs` (every config document is some file's, but for priorities that
  operators raised). A running node has nothing to come, so each thing its file
  names has a document in etcd, valid by itself, and Merge keeps it so.
* `StartupProofs!RebuildsAgreeAlways`, assuming `FilesDecide`: after defaults no
  file has an empty or negative field, unless no file decides that field of
  that role. Then Merge takes every field from etcd, the same for all. It is
  about what the config watchers rebuild: they log that a restart is needed and
  throw it away (watcher.go:62-66), and each node goes on with its own file.
  Nothing in the code asks for `FilesDecide`: negative durations break it (`NegativeDuration`); so would two files that define one
  role of which the one seeded first has no actors: config.go:289 keeps the
  local ones.
* `CopyProofs!CopyCatchesUpAlways`, `TypeCorrect`. `InStep` says that there is a
  tree that the watch leads to from the copy's and that has etcd's documents.
  A commit's events are those of `Changed` in any order: `BatchReaches` shows by
  induction on the batch that each takes the tree to one more key of the new
  etcd. A delete takes everything below the key with it, which is nothing:
  only keys under a lease are deleted, and no key is below one of those
  (`NothingBelow`, from `NamesAssumption`: a role named `actual` would break it).
  What FoldLeft computes is proved from its definition (`FoldRuns`), with
  induction over sets of numbers by their least element (`SetInduction`).

* `CopyProofs!ViewShowsReportsAlways`. The view walks the tree, and the tree is
  not etcd: a deletion leaves the nodes above the key. `ViewInv` says which
  there can be: nodes have the nodes above them, those with a document are keys,
  the others are above a key (`TreeInv`); each is there for a key that has a
  document or is one under a lease (`Rooted`); no group has a key before its
  desired document (`Grounded`), and what the watch holds keeps it so
  (`WatchInv`). A report's own node goes with its document, since no key is
  below it (`ReportNodes`), and a path that ends with `actual` or `health` in the
  place of a report is one (`ReportPath`); so a node that is left over is never
  shown, and whether the view looks for a node at its group's own key or one
  level below is decided by its name alone (`NodesShown`).
* `CopyProofs!QuietPageIsCurrentAlways`, assuming `OneClient`: no two browsers at
  a time, since one notification wakes one of them (`TwoClients`). `StampInv`: the
  last event under way is stamped with etcd's revision, and without one the
  copy is. `StreamInv`: a signal is in the slot, or what the handler has read of
  ready and revision, and the page it sent, are the copy's. A page that stays is
  thus the view of the copy's tree; `SameView` shows that this is the view of a
  fresh snapshot, though the trees differ: where the view lists children, in the
  config and among the groups, `Rooted` leaves no node without a document of etcd
  (`ShownNodes`), and elsewhere it shows documents only.

Only model-checked: `SingleActive` outside `Planned`, that is, with disable,
enable, force_passive and leaders that restart (`Maintenance`), whose invariant
would have to cover every half-done command; and every liveness property
(`CoveredIsExecuted` and `UnmanagedIsLeftAlone` among them) and the liveness half
of the refinement of `Handover`, which the prover does not handle.

## 6. Not modelled, and the plan

In the order of importance:

1. `SingleActive` with disable, enable, force_passive and leaders that restart,
   as a theorem: `Round` with the stages of those commands.
2. Commands together with automatic failover, which swap priorities from
   different states of the copy (controller.go:744); several active groups at
   once, of which only the first is drained (controller.go:489); a third group
   that takes over on a lagging copy (controller.go:529), with the lag that
   `SingleActive` tolerates.
3. Several cluster groups: a pass goes through those of the leader's own file,
   one after another (controller.go:94), and another node's file may have
   others.
4. Two workers of one node, which share the session lease and the actors'
   paths.

Left out for good: HTTP, tokens and routing; the web page (a constant string and
the script a browser runs); parsing of YAML and durations; logging; fields of a
configuration that only the node itself uses. The configuration watcher merges
what etcd has and throws the result away (watcher.go:62-66, it only logs that a
restart is needed), so it has no state: `Rebuilt` in `Startup` is what it
computes.
