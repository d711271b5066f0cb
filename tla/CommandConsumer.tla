-------------------------- MODULE CommandConsumer --------------------------
(***************************************************************************)
(* Management commands: the API handler that validates and enqueues them   *)
(* (internal/api/server.go), and the leader's consumer that executes them  *)
(* one at a time (internal/controller/commands.go) next to the reconcile   *)
(* loop.  A command decides what to write from the in-memory copy when it  *)
(* begins; its writes are steps of their own, and the final activateTarget *)
(* of a promote reads the copy again.                                      *)
(***************************************************************************)
EXTENDS ClusterStore

CONSTANTS
    CommandTypes,  \* the commands operators use
    MaxCommands    \* bound: commands ever submitted

ASSUME CommandAssumption ==
    /\ CommandTypes \subseteq {"promote", "demote", "disable", "enable", "force_passive"}
    /\ MaxCommands \in Nat

VARIABLES
    queue,      \* pending commands, oldest first
    submitted,  \* how many were ever accepted
    job         \* the command being executed: its group, the writes left,
                \* and whether activateTarget follows them

cmdVars == <<queue, submitted, job>>

Commands == [type : CommandTypes, group : Groups]
NoJob    == [group |-> None, plan |-> <<>>, activate |-> FALSE]

CommandTypeOK ==
    /\ queue \in Seq(Commands)
    /\ submitted \in 0..MaxCommands
    /\ job \in {NoJob} \cup [group : Groups, plan : Seq(Events), activate : BOOLEAN]

CommandInit ==
    /\ queue = <<>>
    /\ submitted = 0
    /\ job = NoJob

(***************************************************************************)
(* What the copy says                                                      *)
(***************************************************************************)
IsManaged(g)  == store[Desired(g)].managed
WantsActive(g) == store[Desired(g)].state = "active"
PriorityOf(g) == store[Priority(g)]

\* lowest priority number of S, first in name order on a tie
BestOf(S, g) ==
    /\ g \in S
    /\ \A h \in S : \/ PriorityOf(g) < PriorityOf(h)
                    \/ PriorityOf(g) = PriorityOf(h) /\ g <= h

Replacements(g) ==
    {h \in Groups \ {g} : IsManaged(h) /\ store[Status(h)] = "passive"}

(***************************************************************************)
(* API: validate and enqueue                                               *)
(***************************************************************************)

\* Variant: the unmanaged siblings are not looked at.
ValidPromoteAlways(g) == g \in Groups

ValidPromote(g) ==
    \A h \in Groups \ {g} :
        IsManaged(h) \/ store[Status(h)] \notin {"active", "starting"}

ValidDemote(g) ==
    \/ ~WantsActive(g)
    \/ /\ \A h \in Groups : store[Status(h)] \notin {"starting", "stopping"}
       /\ Replacements(g) # {}

ValidEnable(g) == ~IsManaged(g)

ValidForcePassive(g) == ~IsManaged(g) /\ WantsActive(g)

Valid(type, g) ==
    /\ type = "promote" => ValidPromote(g)
    /\ type = "demote" => ValidDemote(g)
    /\ type = "enable" => ValidEnable(g)
    /\ type = "force_passive" => ValidForcePassive(g)

Submit(type, g) ==
    /\ submitted < MaxCommands
    /\ Valid(type, g)
    /\ queue' = Append(queue, [type |-> type, group |-> g])
    /\ submitted' = submitted + 1
    /\ UNCHANGED <<job, storeVars>>

(***************************************************************************)
(* Consumer: the plan of each command                                      *)
(***************************************************************************)
Write(k, v) == [key |-> k, value |-> v]

Start(g, plan, activate) == job' = [group |-> g, plan |-> plan, activate |-> activate]

\* Variant: the group is put above the best instead of changing places.
ExecPromoteAbove(g) ==
    \E top \in Groups :
        /\ BestOf(Groups, top)
        /\ Start(g, <<Write(Priority(g), PriorityOf(top) - 1)>>, TRUE)

\* Variant: only half of the swap.
ExecPromoteHalf(g) ==
    \E top \in Groups :
        /\ BestOf(Groups, top)
        /\ Start(g, <<Write(Priority(g), PriorityOf(top))>>, TRUE)

ExecPromote(g) ==
    \E top \in Groups :
        /\ BestOf(Groups, top)
        /\ IF PriorityOf(g) = PriorityOf(top)
           THEN Start(g, <<>>, TRUE)
           ELSE Start(g, <<Write(Priority(g), PriorityOf(top)),
                           Write(Priority(top), PriorityOf(g))>>, TRUE)

SetManaged(g, managed) ==
    Start(g, <<Write(Desired(g), Doc(store[Desired(g)].state, managed))>>, FALSE)

ExecDisable(g) == SetManaged(g, FALSE)
ExecEnable(g)  == SetManaged(g, TRUE)

\* A command that fails before its first write leaves no job behind.
ExecDemote(g) ==
    \/ /\ ~WantsActive(g)
       /\ Start(g, <<Write(Desired(g), Doc("passive", TRUE))>>, FALSE)
    \/ /\ WantsActive(g)
       /\ \E best \in Groups :
            /\ BestOf(Replacements(g), best)
            /\ Start(g, <<Write(Priority(best), PriorityOf(g)),
                          Write(Priority(g), PriorityOf(best)),
                          Write(Desired(g), Doc("passive", TRUE)),
                          Write(Desired(best), Doc("active", TRUE))>>, FALSE)
    \/ /\ WantsActive(g)
       /\ Replacements(g) = {}
       /\ UNCHANGED job

ExecForcePassive(g) ==
    IF IsManaged(g) THEN UNCHANGED job
    ELSE Start(g, <<Write(Desired(g), Doc("passive", TRUE))>>, FALSE)

BeginCommand ==
    /\ job = NoJob
    /\ queue # <<>>
    /\ queue' = Tail(queue)
    /\ LET cmd == Head(queue) IN
         \/ cmd.type = "promote" /\ ExecPromote(cmd.group)
         \/ cmd.type = "demote"  /\ ExecDemote(cmd.group)
         \/ cmd.type = "disable" /\ ExecDisable(cmd.group)
         \/ cmd.type = "enable"  /\ ExecEnable(cmd.group)
         \/ cmd.type = "force_passive" /\ ExecForcePassive(cmd.group)
    /\ UNCHANGED <<submitted, storeVars>>

\* The next write of the plan; an error fails the command.
ExecWrite ==
    /\ job.plan # <<>>
    /\ \E ok \in BOOLEAN :
         /\ TryPut(Head(job.plan).key, Head(job.plan).value, ok)
         /\ job' = IF ok /\ (Len(job.plan) > 1 \/ job.activate)
                   THEN [job EXCEPT !.plan = Tail(job.plan)]
                   ELSE NoJob
    /\ UNCHANGED <<queue, submitted>>

HasNoActiveGroup == \A g \in Groups : ~(WantsActive(g) /\ IsManaged(g))

\* activateTarget: activate at once when nobody is active, else leave the
\* switchover to the controller.
ExecActivate ==
    /\ job.plan = <<>>
    /\ job.activate
    /\ \E ok \in BOOLEAN :
         TryPut(Desired(job.group),
                Doc(IF HasNoActiveGroup THEN "active" ELSE "passive", TRUE), ok)
    /\ job' = NoJob
    /\ UNCHANGED <<queue, submitted>>

ConsumerStep == BeginCommand \/ ExecWrite \/ ExecActivate
=============================================================================
