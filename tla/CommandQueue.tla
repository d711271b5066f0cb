---------------------------- MODULE CommandQueue ----------------------------
(***************************************************************************)
(* The life of a management command (internal/controller/commands.go): the *)
(* API puts it under commands/ as pending, a leader's consumer takes it    *)
(* from its node's copy of etcd when it starts (drainPending) or from a    *)
(* watch of commands/ afterwards, marks it running, executes it, marks it  *)
(* completed or failed, copies it to commands_history/ and deletes it.     *)
(*                                                                         *)
(* What a command does is left out (CommandConsumer has it); what matters  *)
(* here is which consumer executes which command, and how often.           *)
(***************************************************************************)
EXTENDS Naturals, Sequences

CONSTANTS
    Nodes,         \* each may run a consumer and has its own copy of etcd
    Commands,      \* the commands that may be submitted, each once
    MaxStarts,     \* bound: consumers ever started
    Exclusive,     \* a consumer starts only when no other is left running
    FreshStart,    \* a starting consumer's copy is up to date
    WritesMayFail  \* an etcd request may return an error

ASSUME QueueAssumption ==
    /\ MaxStarts \in Nat \ {0}
    /\ {Exclusive, FreshStart, WritesMayFail} \subseteq BOOLEAN

VARIABLES
    log,      \* the events of commands/ in commit order
    history,  \* what commands_history/ says of each command
    applied,  \* how much of the log the node's copy has seen
    consumer, \* "off", "drain", "watch"
    todo,     \* what is left of the drain's snapshot
    from,     \* the next event of the watch
    job,      \* the step of processCommand, its command and outcome
    ran,      \* how often this consumer executed the command
    starts

vars == <<log, history, applied, consumer, todo, from, job, ran, starts>>

Outcomes == {"completed", "failed"}
Statuses == {"pending", "running", "deleted"} \cup Outcomes
Steps == {"none", "begin", "exec", "finish", "archive", "delete"}

NoJob == [step |-> "none", cmds |-> {}, outcome |-> "completed"]
Job(c, step, outcome) == [step |-> step, cmds |-> {c}, outcome |-> outcome]

\* Every copy is a prefix of the log, and the watch of commands/ never begins
\* beyond the end of it.
TypeOK ==
    /\ log \in Seq([cmd : Commands, status : Statuses])
    /\ history \in [Commands -> {"none"} \cup Outcomes]
    /\ \A n \in Nodes : applied[n] \in 0..Len(log)
    /\ consumer \in [Nodes -> {"off", "drain", "watch"}]
    /\ todo \in [Nodes -> SUBSET Commands]
    /\ \A n \in Nodes : from[n] \in 1..Len(log) + 1
    /\ job \in [Nodes -> [step : Steps, cmds : SUBSET Commands, outcome : Outcomes]]
    /\ ran \in [Nodes -> [Commands -> 0..1 + Len(log)]]
    /\ starts \in 0..MaxStarts

Init ==
    /\ log = <<>>
    /\ history = [c \in Commands |-> "none"]
    /\ applied = [n \in Nodes |-> 0]
    /\ consumer = [n \in Nodes |-> "off"]
    /\ todo = [n \in Nodes |-> {}]
    /\ from = [n \in Nodes |-> 1]
    /\ job = [n \in Nodes |-> NoJob]
    /\ ran = [n \in Nodes |-> [c \in Commands |-> 0]]
    /\ starts = 0

\* The value of the command's key after the first "len" events.
StatusAt(c, len) ==
    LET at == {i \in 1..len : log[i].cmd = c} IN
    IF at = {} THEN "none"
    ELSE log[CHOOSE i \in at : \A j \in at : j <= i].status

Status(c) == StatusAt(c, Len(log))

PutStatus(c, status) == log' = Append(log, [cmd |-> c, status |-> status])

\* An error is only logged, whether or not the request was committed.
TryPutStatus(c, status) ==
    \/ PutStatus(c, status)
    \/ WritesMayFail /\ UNCHANGED log

(***************************************************************************)
(* The API, and the watch that feeds a node's copy                         *)
(***************************************************************************)
Submit(c) ==
    /\ Status(c) = "none"
    /\ PutStatus(c, "pending")
    /\ UNCHANGED <<history, applied, consumer, todo, from, job, ran, starts>>

Apply(n) ==
    /\ applied[n] < Len(log)
    /\ applied' = [applied EXCEPT ![n] = @ + 1]
    /\ UNCHANGED <<log, history, consumer, todo, from, job, ran, starts>>

(***************************************************************************)
(* CommandConsumer.Run: drain, then watch from the revision of the copy    *)
(***************************************************************************)

\* Variant: everything under commands/ is drained, whatever its status.
DrainableAll(n) ==
    {c \in Commands : StatusAt(c, applied[n]) \notin {"none", "deleted"}}

Drainable(n) == {c \in Commands : StatusAt(c, applied[n]) = "pending"}

Start(n) ==
    /\ consumer[n] = "off"
    /\ starts < MaxStarts
    /\ Exclusive => \A m \in Nodes : consumer[m] = "off"
    /\ FreshStart => applied[n] = Len(log)
    /\ consumer' = [consumer EXCEPT ![n] = "drain"]
    /\ todo' = [todo EXCEPT ![n] = Drainable(n)]
    /\ ran' = [ran EXCEPT ![n] = [c \in Commands |-> 0]]
    /\ starts' = starts + 1
    /\ UNCHANGED <<log, history, applied, from, job>>

Idle(n) == job[n] = NoJob
Process(n, c) == job' = [job EXCEPT ![n] = Job(c, "begin", "completed")]

\* The snapshot is a Go map: its order is any order.
DrainNext(n, c) ==
    /\ consumer[n] = "drain"
    /\ Idle(n)
    /\ c \in todo[n]
    /\ todo' = [todo EXCEPT ![n] = @ \ {c}]
    /\ Process(n, c)
    /\ UNCHANGED <<log, history, applied, consumer, from, ran, starts>>

\* Variant: the watch begins one event too early.
StartWatchEarly(n) ==
    /\ consumer[n] = "drain"
    /\ Idle(n)
    /\ todo[n] = {}
    /\ consumer' = [consumer EXCEPT ![n] = "watch"]
    /\ from' = [from EXCEPT ![n] = IF applied[n] = 0 THEN 1 ELSE applied[n]]
    /\ UNCHANGED <<log, history, applied, todo, job, ran, starts>>

\* Variant: one event too late.
StartWatchLate(n) ==
    /\ consumer[n] = "drain"
    /\ Idle(n)
    /\ todo[n] = {}
    /\ consumer' = [consumer EXCEPT ![n] = "watch"]
    /\ from' = [from EXCEPT ![n] = applied[n] + 2]
    /\ UNCHANGED <<log, history, applied, todo, job, ran, starts>>

StartWatch(n) ==
    /\ consumer[n] = "drain"
    /\ Idle(n)
    /\ todo[n] = {}
    /\ consumer' = [consumer EXCEPT ![n] = "watch"]
    /\ from' = [from EXCEPT ![n] = applied[n] + 1]
    /\ UNCHANGED <<log, history, applied, todo, job, ran, starts>>

WatchEvent(n) ==
    /\ consumer[n] = "watch"
    /\ Idle(n)
    /\ from[n] <= Len(log)
    /\ from' = [from EXCEPT ![n] = @ + 1]
    /\ IF log[from[n]].status = "pending"
       THEN Process(n, log[from[n]].cmd)
       ELSE UNCHANGED job
    /\ UNCHANGED <<log, history, applied, consumer, todo, ran, starts>>

(***************************************************************************)
(* processCommand                                                          *)
(***************************************************************************)
AtStep(n, c, step) == job[n].step = step /\ job[n].cmds = {c}
NextStep(n, step) == job' = [job EXCEPT ![n].step = step]
EndJob(n) == job' = [job EXCEPT ![n] = NoJob]

\* Variant: a command that cannot be marked is not executed.
MarkRunningStrict(n, c) ==
    /\ AtStep(n, c, "begin")
    /\ \/ PutStatus(c, "running") /\ NextStep(n, "exec")
       \/ WritesMayFail /\ UNCHANGED log /\ EndJob(n)
    /\ UNCHANGED <<history, applied, consumer, todo, from, ran, starts>>

MarkRunning(n, c) ==
    /\ AtStep(n, c, "begin")
    /\ TryPutStatus(c, "running")
    /\ NextStep(n, "exec")
    /\ UNCHANGED <<history, applied, consumer, todo, from, ran, starts>>

Execute(n, c) ==
    /\ AtStep(n, c, "exec")
    /\ ran' = [ran EXCEPT ![n][c] = @ + 1]
    /\ \E outcome \in Outcomes : job' = [job EXCEPT ![n] = Job(c, "finish", outcome)]
    /\ UNCHANGED <<log, history, applied, consumer, todo, from, starts>>

MarkFinished(n, c) ==
    /\ AtStep(n, c, "finish")
    /\ TryPutStatus(c, job[n].outcome)
    /\ NextStep(n, "archive")
    /\ UNCHANGED <<history, applied, consumer, todo, from, ran, starts>>

\* archiveCommand: an error, whether the history entry was committed or not,
\* and the command is not deleted.
Archive(n, c) ==
    /\ AtStep(n, c, "archive")
    /\ \/ /\ history' = [history EXCEPT ![c] = job[n].outcome]
          /\ NextStep(n, "delete")
       \/ /\ WritesMayFail
          /\ history' \in {history, [history EXCEPT ![c] = job[n].outcome]}
          /\ EndJob(n)
    /\ UNCHANGED <<log, applied, consumer, todo, from, ran, starts>>

Delete(n, c) ==
    /\ AtStep(n, c, "delete")
    /\ IF Status(c) = "deleted" THEN UNCHANGED log ELSE TryPutStatus(c, "deleted")
    /\ EndJob(n)
    /\ UNCHANGED <<history, applied, consumer, todo, from, ran, starts>>

(***************************************************************************)
(* The process dies, or its watch channel closes and Run returns.  A       *)
(* consumer whose leadership ended does NOT stop.                          *)
(***************************************************************************)
Stop(n) ==
    /\ consumer[n] # "off"
    /\ starts < MaxStarts
    /\ consumer' = [consumer EXCEPT ![n] = "off"]
    /\ todo' = [todo EXCEPT ![n] = {}]
    /\ EndJob(n)
    /\ UNCHANGED <<log, history, applied, from, ran, starts>>

ConsumerStep(n) ==
    \/ StartWatch(n)
    \/ WatchEvent(n)
    \/ \E c \in Commands :
         \/ DrainNext(n, c)
         \/ MarkRunning(n, c)
         \/ Execute(n, c)
         \/ MarkFinished(n, c)
         \/ Archive(n, c)
         \/ Delete(n, c)

Next ==
    \/ \E c \in Commands : Submit(c)
    \/ \E n \in Nodes : Apply(n) \/ Start(n) \/ ConsumerStep(n) \/ Stop(n)

Spec == Init /\ [][Next]_vars

\* Consumers and watches run on, and some node always ends up leading.
Fairness ==
    /\ \A n \in Nodes : WF_vars(Apply(n)) /\ WF_vars(ConsumerStep(n))
    /\ WF_vars(\E n \in Nodes : Start(n))

FairSpec == Spec /\ Fairness

(***************************************************************************)
(* Properties                                                              *)
(***************************************************************************)
\* Drain and watch never hand the same command to one consumer twice: the
\* watch begins after everything the drain's snapshot contained.
OncePerConsumer == \A n \in Nodes, c \in Commands : ran[n][c] <= 1

Rank(status) ==
    CASE status = "none"    -> 0
      [] status = "pending" -> 1
      [] status = "running" -> 2
      [] status \in Outcomes -> 3
      [] OTHER              -> 4

\* controller/README.md:33: pending, running, completed or failed, archived.
\* A command never goes back, also when its consumer dies on the way and
\* another one takes over.
ForwardOnly == [][\A c \in Commands : Rank(Status(c)') >= Rank(Status(c))]_vars

Archived(c) == history[c] # "none" /\ Status(c) = "deleted"
PendingAt(c, i) == i \in 1..Len(log) /\ log[i] = [cmd |-> c, status |-> "pending"]

\* Every command that the drain's snapshot or the rest of the watch holds is
\* executed, whatever etcd answers to the status writes around it and around
\* the commands before it, unless the consumer dies.
CoveredIsExecuted ==
    \A n \in Nodes, c \in Commands :
        \/ c \in todo[n]
        \/ consumer[n] = "watch" /\ \E i \in 1..Len(log) : i >= from[n] /\ PendingAt(c, i)
        ~> ran[n][c] = 1 \/ consumer[n] = "off"

\* README.md:248: an accepted command is processed by the leader's consumer.
AcceptedIsProcessed ==
    \A c \in Commands : Status(c) = "pending" ~> Status(c) # "pending"

\* controller/README.md:33: a running command ends and is archived.
RunningIsArchived == \A c \in Commands : Status(c) = "running" ~> Archived(c)
=============================================================================
