------------------------- MODULE CommandQueueProofs -------------------------
(***************************************************************************)
(* Proofs about CommandQueue, for any number of nodes, commands and        *)
(* consumers, with stale copies and requests that fail.                    *)
(*                                                                         *)
(* That no consumer executes a command twice rests on three facts: a       *)
(* command is put as pending only once, drain and watch together pass each *)
(* event once, and the watch begins where the drain's snapshot ended.      *)
(* That no command goes back rests on the consumer at work being the only  *)
(* one, and on what it holds being as far as the log says.                 *)
(***************************************************************************)
EXTENDS CommandQueue, TLAPS

USE QueueAssumption

EventType == [cmd : Commands, status : Statuses]
JobType == [step : Steps, cmds : SUBSET Commands, outcome : Outcomes]

\* TypeOK, but for the bound of ran, which OncePerConsumer implies.
Types ==
    /\ log \in Seq(EventType)
    /\ history \in [Commands -> {"none"} \cup Outcomes]
    /\ applied \in [Nodes -> Nat]
    /\ \A n \in Nodes : applied[n] \in 0..Len(log)
    /\ consumer \in [Nodes -> {"off", "drain", "watch"}]
    /\ todo \in [Nodes -> SUBSET Commands]
    /\ from \in [Nodes -> Nat]
    /\ \A n \in Nodes : from[n] \in 1..Len(log) + 1
    /\ job \in [Nodes -> JobType]
    /\ ran \in [Nodes -> [Commands -> Nat]]
    /\ starts \in 0..MaxStarts

\* The last event of a command among the first "len".
LastAt(c, len, i) ==
    i \in 1..len /\ log[i].cmd = c /\ \A j \in 1..len : log[j].cmd = c => j <= i

\* What StatusAt chooses exists.
HasLast ==
    \A c \in Commands, len \in 0..Len(log) :
        (\E i \in 1..len : log[i].cmd = c) => \E i \in 1..len : LastAt(c, len, i)

\* A command is submitted once.
OnePending ==
    \A c \in Commands, i, j \in 1..Len(log) : PendingAt(c, i) /\ PendingAt(c, j) => i = j

\* The first event the consumer has not come to.
Mark(n) == IF consumer[n] = "watch" THEN from[n] ELSE applied[n] + 1

\* The consumer is past the submission of the command.
Seen(n, c) == \E i \in 1..Len(log) : PendingAt(c, i) /\ i < Mark(n)

\* The consumer is about to execute the command.
Ahead(n, c) == job[n].step \in {"begin", "exec"} /\ c \in job[n].cmds

Consumed(n, c) ==
    /\ consumer[n] = "off" => todo[n] = {} /\ job[n] = NoJob
    /\ consumer[n] = "watch" => todo[n] = {}
    /\ c \in todo[n] => Seen(n, c) /\ ran[n][c] = 0
    /\ Ahead(n, c) => Seen(n, c) /\ ran[n][c] = 0 /\ c \notin todo[n]
    /\ consumer[n] # "off" /\ ran[n][c] > 0 => Seen(n, c)
    /\ ran[n][c] <= 1

IInv ==
    /\ Types
    /\ HasLast
    /\ OnePending
    /\ \A n \in Nodes, c \in Commands : Consumed(n, c)

(***************************************************************************)
(* The log                                                                 *)
(***************************************************************************)
\* What StatusAt finds is the status of an event of the command.
LEMMA StatusIsLogged ==
    ASSUME Types, HasLast, NEW c \in Commands, NEW len \in 0..Len(log)
    PROVE  IF \E i \in 1..len : log[i].cmd = c
           THEN \E i \in 1..len : log[i].cmd = c /\ StatusAt(c, len) = log[i].status
           ELSE StatusAt(c, len) = "none"
<1> DEFINE at == {i \in 1..len : log[i].cmd = c}
<1>1. CASE \E i \in 1..len : log[i].cmd = c
  <2> DEFINE found == CHOOSE i \in at : \A j \in at : j <= i
  <2>1. \E i \in at : \A j \in at : j <= i
    BY <1>1 DEF HasLast, LastAt
  <2>2. found \in at
    BY <2>1
  <2>3. at # {}
    BY <1>1
  <2>4. StatusAt(c, len) = log[found].status
    BY <2>3 DEF StatusAt
  <2> QED BY <1>1, <2>2, <2>4
<1>2. CASE ~ \E i \in 1..len : log[i].cmd = c
  BY <1>2 DEF StatusAt
<1> QED BY <1>1, <1>2

\* A command without a status has no event: it was never submitted.
LEMMA NoneIsUnlogged ==
    ASSUME Types, HasLast, NEW c \in Commands, Status(c) = "none"
    PROVE  \A i \in 1..Len(log) : log[i].cmd # c
<1>1. \A i \in 1..Len(log) : log[i].status # "none"
  <2>1. \A i \in 1..Len(log) : log[i] \in EventType
    BY DEF Types
  <2>2. "none" \notin Statuses
    BY DEF Statuses, Outcomes
  <2> QED BY <2>1, <2>2 DEF EventType
<1>2. Len(log) \in 0..Len(log)
  BY DEF Types
<1> QED BY <1>1, <1>2, StatusIsLogged DEF Status

\* What drainPending takes was submitted before the copy's revision.
LEMMA PendingIsLogged ==
    ASSUME Types, HasLast, NEW c \in Commands, NEW len \in 0..Len(log),
           StatusAt(c, len) = "pending"
    PROVE  \E i \in 1..len : PendingAt(c, i)
<1>1. PICK i \in 1..len : log[i].cmd = c /\ log[i].status = "pending"
  BY StatusIsLogged
<1>2. i \in 1..Len(log) /\ log[i] \in EventType
  BY DEF Types
<1>3. log[i] = [cmd |-> c, status |-> "pending"]
  BY <1>1, <1>2 DEF EventType
<1> QED BY <1>2, <1>3 DEF PendingAt

\* One more event: nothing that was logged changes.
LEMMA Appended ==
    ASSUME Types, NEW e \in EventType, log' = Append(log, e)
    PROVE  /\ log' \in Seq(EventType)
           /\ Len(log') = Len(log) + 1
           /\ \A i \in 1..Len(log) : log'[i] = log[i]
           /\ log'[Len(log) + 1] = e
BY DEF Types

\* One more event: its command's last event is this one.
LEMMA HasLastGrows ==
    ASSUME Types, HasLast, NEW e \in EventType, log' = Append(log, e)
    PROVE  HasLast'
<1> SUFFICES ASSUME NEW c \in Commands, NEW len \in 0..Len(log'),
                    \E i \in 1..len : log'[i].cmd = c
             PROVE  \E i \in 1..len : LastAt(c, len, i)'
  BY DEF HasLast
<1>1. Len(log) \in Nat
  BY DEF Types
<1>2. CASE len \in 0..Len(log)
  <2>1. \A i \in 1..len : log'[i] = log[i]
    BY <1>1, <1>2, Appended
  <2>2. PICK i \in 1..len : LastAt(c, len, i)
    BY <1>2, <2>1 DEF HasLast
  <2> QED BY <2>1, <2>2 DEF LastAt
<1>3. CASE len = Len(log) + 1 /\ e.cmd = c
  BY <1>1, <1>3, Appended DEF LastAt
<1>4. CASE len = Len(log) + 1 /\ e.cmd # c
  <2>1. \A i \in 1..len : log'[i].cmd = c => i \in 1..Len(log) /\ log[i].cmd = c
    BY <1>1, <1>4, Appended
  <2>2. PICK i \in 1..Len(log) : LastAt(c, Len(log), i)
    BY <1>1, <2>1 DEF HasLast
  <2> QED BY <1>1, <1>4, <2>1, <2>2, Appended DEF LastAt
<1> QED BY <1>1, <1>2, <1>3, <1>4, Appended

\* One more event: if it submits a command, it is the only one that does.
LEMMA OnePendingGrows ==
    ASSUME Types, OnePending, NEW e \in EventType, log' = Append(log, e),
           e.status = "pending" => \A i \in 1..Len(log) : log[i].cmd # e.cmd
    PROVE  OnePending'
<1> SUFFICES ASSUME NEW c \in Commands, NEW i \in 1..Len(log'), NEW j \in 1..Len(log'),
                    PendingAt(c, i)', PendingAt(c, j)'
             PROVE  i = j
  BY DEF OnePending
<1>1. Len(log) \in Nat
  BY DEF Types
<1>2. \A k \in 1..Len(log) : PendingAt(c, k)' => PendingAt(c, k)
  BY Appended DEF PendingAt
<1>3. CASE i \in 1..Len(log) /\ j \in 1..Len(log)
  BY <1>2, <1>3 DEF OnePending
<1>4. ASSUME NEW k \in 1..Len(log), PendingAt(c, k)',
             NEW l \in Nat, l = Len(log) + 1, PendingAt(c, l)'
      PROVE  FALSE
  <2>1. log[k].cmd = c
    BY <1>2, <1>4 DEF PendingAt
  <2>2. e.status = "pending" /\ e.cmd = c
    BY <1>4, Appended DEF PendingAt
  <2> QED BY <2>1, <2>2
<1>5. \A k \in 1..Len(log') : k \in Nat /\ (k \in 1..Len(log) \/ k = Len(log) + 1)
  BY <1>1, Appended
<1>6. CASE i \in 1..Len(log) /\ j = Len(log) + 1
  BY <1>4, <1>5, <1>6
<1>7. CASE i = Len(log) + 1 /\ j \in 1..Len(log)
  BY <1>4, <1>5, <1>7
<1> QED BY <1>3, <1>5, <1>6, <1>7

(***************************************************************************)
(* The steps                                                               *)
(***************************************************************************)
\* A consumer that saw a command's submission has seen it for good, though
\* the log grows and its mark moves on.
LEMMA SeenStays ==
    ASSUME Types, NEW n \in Nodes, NEW c \in Commands, Seen(n, c),
           log' = log \/ \E e \in EventType : log' = Append(log, e),
           Mark(n)' \in Nat, Mark(n) <= Mark(n)'
    PROVE  Seen(n, c)'
<1>1. PICK i \in 1..Len(log) : PendingAt(c, i) /\ i < Mark(n)
  BY DEF Seen
<1>2. i \in 1..Len(log') /\ log'[i] = log[i]
  <2>1. CASE log' = log
    BY <2>1
  <2>2. ASSUME NEW e \in EventType, log' = Append(log, e)
        PROVE  i \in 1..Len(log') /\ log'[i] = log[i]
    BY <2>2, Appended DEF Types
  <2> QED BY <2>1, <2>2
<1>3. Mark(n) \in Nat
  BY DEF Mark, Types
<1>4. i < Mark(n)'
  BY <1>1, <1>3
<1> QED BY <1>1, <1>2, <1>4 DEF Seen, PendingAt

\* A step that does not touch a consumer, but for the log, leaves it consumed.
LEMMA Untouched ==
    ASSUME Types, NEW n \in Nodes, NEW c \in Commands, Consumed(n, c),
           log' = log \/ \E e \in EventType : log' = Append(log, e),
           consumer'[n] = consumer[n], todo'[n] = todo[n], from'[n] = from[n],
           applied'[n] = applied[n], job'[n] = job[n], ran'[n][c] = ran[n][c]
    PROVE  Consumed(n, c)'
<1>1. Mark(n)' = Mark(n) /\ Mark(n) \in Nat
  BY DEF Mark, Types
<1>2. Seen(n, c) => Seen(n, c)'
  BY <1>1, SeenStays
<1> QED BY <1>2 DEF Consumed, Ahead

\* Every step keeps the types.
LEMMA TypesStep == Types /\ [Next]_vars => Types'
<1> SUFFICES ASSUME Types, [Next]_vars PROVE Types'
  OBVIOUS
<1> USE DEF Types
<1>0. NoJob \in JobType
  BY DEF NoJob, JobType, Steps, Outcomes
<1>1. ASSUME NEW c \in Commands, NEW status \in Statuses, PutStatus(c, status)
      PROVE  /\ log' \in Seq(EventType)
             /\ Len(log') = Len(log) + 1
  BY <1>1, Appended DEF PutStatus, EventType
<1>2. ASSUME NEW c \in Commands, NEW status \in Statuses, TryPutStatus(c, status)
      PROVE  /\ log' \in Seq(EventType)
             /\ Len(log') \in {Len(log), Len(log) + 1}
  BY <1>1, <1>2 DEF TryPutStatus
<1>3. {"pending", "running", "completed", "failed", "deleted"} \subseteq Statuses
  BY DEF Statuses, Outcomes
<1>4. ASSUME NEW c \in Commands, NEW step \in Steps, NEW outcome \in Outcomes
      PROVE  Job(c, step, outcome) \in JobType
  BY DEF Job, JobType
<1>5. {"begin", "exec", "finish", "archive", "delete"} \subseteq Steps
  BY DEF Steps
<1>6. "completed" \in Outcomes
  BY DEF Outcomes
<1>7. ASSUME NEW n \in Nodes, NEW step \in Steps, NextStep(n, step)
       PROVE  job' \in [Nodes -> JobType]
  <2>1. [job[n] EXCEPT !.step = step] \in JobType
    BY DEF JobType
  <2>2. job' = [job EXCEPT ![n] = [job[n] EXCEPT !.step = step]]
    BY <1>7 DEF NextStep
  <2> QED BY <2>1, <2>2
<1>8. ASSUME NEW n \in Nodes, NEW c \in Commands, Process(n, c)
       PROVE  job' \in [Nodes -> JobType]
  BY <1>4, <1>5, <1>6, <1>8 DEF Process
<1>9. ASSUME NEW n \in Nodes, EndJob(n)
       PROVE  job' \in [Nodes -> JobType]
  BY <1>0, <1>9 DEF EndJob
<1>10. ASSUME NEW c \in Commands, Submit(c) PROVE Types'
  BY <1>1, <1>3, <1>10 DEF Submit
<1>11. ASSUME NEW n \in Nodes, Apply(n) PROVE Types'
  BY <1>11 DEF Apply
<1>12. ASSUME NEW n \in Nodes, Start(n) PROVE Types'
  <2>1. Drainable(n) \subseteq Commands
    BY DEF Drainable
  <2> QED BY <1>12, <2>1 DEF Start
<1>13. ASSUME NEW n \in Nodes, StartWatch(n) PROVE Types'
  BY <1>13 DEF StartWatch
<1>14. ASSUME NEW n \in Nodes, WatchEvent(n) PROVE Types'
  <2>1. log[from[n]] \in EventType
    BY <1>14 DEF WatchEvent
  <2>2. log[from[n]].cmd \in Commands
    BY <2>1 DEF EventType
  <2>3. job' \in [Nodes -> JobType]
    BY <1>14, <1>8, <2>2 DEF WatchEvent
  <2>4. \A m \in Nodes : from'[m] \in 1..Len(log) + 1
    BY <1>14 DEF WatchEvent
  <2>5. from' \in [Nodes -> Nat]
    BY <1>14 DEF WatchEvent
  <2> QED BY <1>14, <2>3, <2>4, <2>5 DEF WatchEvent
<1>15. ASSUME NEW n \in Nodes, NEW c \in Commands, DrainNext(n, c) PROVE Types'
  BY <1>15, <1>8 DEF DrainNext
<1>16. ASSUME NEW n \in Nodes, NEW c \in Commands, MarkRunning(n, c) PROVE Types'
  BY <1>2, <1>3, <1>5, <1>16, <1>7 DEF MarkRunning
<1>17. ASSUME NEW n \in Nodes, NEW c \in Commands, Execute(n, c) PROVE Types'
  BY <1>4, <1>5, <1>17 DEF Execute
<1>18. ASSUME NEW n \in Nodes, NEW c \in Commands, MarkFinished(n, c) PROVE Types'
  <2>1. job[n].outcome \in Statuses
    BY DEF Statuses, JobType
  <2> QED BY <1>2, <1>5, <1>18, <1>7, <2>1 DEF MarkFinished
<1>19. ASSUME NEW n \in Nodes, NEW c \in Commands, Archive(n, c) PROVE Types'
  <2>1. job[n].outcome \in Outcomes
    BY DEF JobType
  <2>2. job' \in [Nodes -> JobType]
    BY <1>5, <1>19, <1>7, <1>9 DEF Archive
  <2> QED BY <1>19, <2>1, <2>2 DEF Archive
<1>20. ASSUME NEW n \in Nodes, NEW c \in Commands, Delete(n, c) PROVE Types'
  BY <1>2, <1>3, <1>20, <1>9 DEF Delete
<1>21. ASSUME NEW n \in Nodes, Stop(n) PROVE Types'
  BY <1>21, <1>9 DEF Stop
<1>22. CASE UNCHANGED vars
  BY <1>22 DEF vars
<1> QED
  BY <1>10, <1>11, <1>12, <1>13, <1>14, <1>15, <1>16, <1>17, <1>18, <1>19, <1>20, <1>21, <1>22
     DEF Next, ConsumerStep

\* Every step keeps each consumer's account of what it has executed.
LEMMA ConsumedStep ==
    ASSUME IInv, [Next]_vars, NEW m \in Nodes, NEW d \in Commands
    PROVE  Consumed(m, d)'
<1> USE DEF IInv
<1>0. /\ Consumed(m, d) /\ Types'
      /\ Mark(m) \in Nat /\ Mark(m)' \in Nat
      /\ {"pending", "running", "deleted"} \cup Outcomes \subseteq Statuses
  <2>1. Consumed(m, d) /\ Types
    OBVIOUS
  <2>2. Types'
    BY TypesStep
  <2>3. applied[m] \in Nat /\ from[m] \in Nat
    BY <2>1 DEF Types
  <2>4. applied'[m] \in Nat /\ from'[m] \in Nat
    BY <2>2 DEF Types
  <2>5. Mark(m) \in Nat
    BY <2>3 DEF Mark
  <2>6. Mark(m)' \in Nat
    BY <2>4 DEF Mark
  <2>7. {"pending", "running", "deleted"} \cup Outcomes \subseteq Statuses
    BY DEF Statuses
  <2> QED BY <2>1, <2>2, <2>5, <2>6, <2>7
<1>1. ASSUME NEW c \in Commands, NEW status \in Statuses, TryPutStatus(c, status)
      PROVE  log' = log \/ \E e \in EventType : log' = Append(log, e)
  BY <1>1 DEF TryPutStatus, PutStatus, EventType
<1>2. ASSUME NEW c \in Commands, Submit(c) PROVE Consumed(m, d)'
  <2>1. log' = log \/ \E e \in EventType : log' = Append(log, e)
    BY <1>0, <1>1, <1>2 DEF Submit, TryPutStatus
  <2> QED BY <1>0, <1>2, <2>1, Untouched DEF Submit
<1>3. ASSUME NEW n \in Nodes, Apply(n) PROVE Consumed(m, d)'
  <2>1. Mark(m) <= Mark(m)'
    BY <1>3 DEF Apply, Mark, Types
  <2>2. Seen(m, d) => Seen(m, d)'
    BY <1>0, <1>3, <2>1, SeenStays DEF Apply
  <2> QED BY <1>0, <1>3, <2>2 DEF Apply, Consumed, Ahead
<1>4. ASSUME NEW n \in Nodes, Start(n) PROVE Consumed(m, d)'
  <2>1. CASE m = n
    <3>1. d \in todo'[m] => Seen(m, d)'
      <4> SUFFICES ASSUME d \in todo'[m] PROVE Seen(m, d)'
        OBVIOUS
      <4>1. applied[m] \in 0..Len(log) /\ StatusAt(d, applied[m]) = "pending"
        BY <1>4, <2>1 DEF Start, Drainable, Types
      <4>2. PICK i \in 1..applied[m] : PendingAt(d, i)
        BY <4>1, PendingIsLogged
      <4> QED BY <1>4, <2>1, <4>1, <4>2 DEF Start, Seen, Mark, PendingAt, Types
    <3>2. job'[m] = NoJob /\ ran'[m][d] = 0 /\ consumer'[m] = "drain"
      BY <1>0, <1>4, <2>1 DEF Start, Consumed, Types
    <3> QED BY <3>1, <3>2 DEF Consumed, Ahead, NoJob
  <2>2. CASE m # n
    BY <1>0, <1>4, <2>2, Untouched DEF Start
  <2> QED BY <2>1, <2>2
<1>5. ASSUME NEW n \in Nodes, StartWatch(n) PROVE Consumed(m, d)'
  <2>1. Mark(m)' = Mark(m)
    BY <1>5 DEF StartWatch, Mark, Types
  <2>2. Seen(m, d) => Seen(m, d)'
    BY <1>0, <1>5, <2>1, SeenStays DEF StartWatch
  <2> QED BY <1>0, <1>5, <2>2 DEF StartWatch, Consumed, Ahead, Types
<1>6. ASSUME NEW n \in Nodes, WatchEvent(n) PROVE Consumed(m, d)'
  <2>1. CASE m = n /\ log[from[n]] = [cmd |-> d, status |-> "pending"]
    <3>1. PendingAt(d, from[m]) /\ Mark(m) = from[m]
      BY <1>6, <2>1 DEF WatchEvent, PendingAt, Mark, Types
    <3>2. ~Seen(m, d)
      BY <3>1 DEF Seen, OnePending, Types, PendingAt
    <3>3. ran[m][d] = 0 /\ d \notin todo[m]
      BY <1>0, <1>6, <2>1, <3>2 DEF WatchEvent, Consumed, Types
    <3>4. Seen(m, d)'
      BY <1>6, <2>1, <3>1 DEF WatchEvent, Seen, PendingAt, Mark, Types
    <3> QED BY <1>0, <1>6, <2>1, <3>3, <3>4 DEF WatchEvent, Consumed, Ahead
  <2>2. CASE m = n /\ log[from[n]] # [cmd |-> d, status |-> "pending"]
    <3>1. Mark(m) <= Mark(m)'
      BY <1>6, <2>2 DEF WatchEvent, Mark, Types
    <3>2. Seen(m, d) => Seen(m, d)'
      BY <1>0, <1>6, <3>1, SeenStays DEF WatchEvent
    <3>3. Ahead(m, d)' => Ahead(m, d)
      <4>1. log[from[n]] \in EventType
        BY <1>6 DEF WatchEvent, Types
      <4>2. ~(log[from[n]].status = "pending" /\ log[from[n]].cmd = d)
        BY <2>2, <4>1 DEF EventType
      <4> QED BY <1>6, <2>2, <4>2 DEF WatchEvent, Process, Job, Ahead, Types
    <3> QED BY <1>0, <1>6, <2>2, <3>2, <3>3 DEF WatchEvent, Consumed
  <2>3. CASE m # n
    <3>1. job'[m] = job[m]
      BY <1>6, <2>3 DEF WatchEvent, Process, Types
    <3> QED BY <1>0, <1>6, <2>3, <3>1, Untouched DEF WatchEvent
  <2> QED BY <2>1, <2>2, <2>3
<1>7. ASSUME NEW n \in Nodes, NEW c \in Commands, DrainNext(n, c) PROVE Consumed(m, d)'
  <2>1. CASE m = n
    <3>1. Mark(m)' = Mark(m)
      BY <1>7 DEF DrainNext, Mark
    <3>2. Seen(m, d) => Seen(m, d)'
      BY <1>0, <1>7, <3>1, SeenStays DEF DrainNext
    <3>3. todo'[m] = todo[m] \ {c} /\ job'[m] = Job(c, "begin", "completed")
      BY <1>7, <2>1 DEF DrainNext, Process, Types
    <3> QED BY <1>0, <1>7, <2>1, <3>2, <3>3 DEF DrainNext, Consumed, Ahead, Job
  <2>2. CASE m # n
    BY <1>0, <1>7, <2>2, Untouched DEF DrainNext, Process, Types
  <2> QED BY <2>1, <2>2
<1>8. ASSUME NEW n \in Nodes, NEW c \in Commands, NEW status \in Statuses,
             TryPutStatus(c, status), job[n] # NoJob,
             job'[n].step = "exec" => job[n].step = "begin",
             job'[n].step # "begin",
             job'[n].cmds = job[n].cmds \/ job'[n] = NoJob,
             \A k \in Nodes : k # n => job'[k] = job[k],
             UNCHANGED <<applied, consumer, todo, from, ran>>
      PROVE  Consumed(m, d)'
  <2>1. Mark(m)' = Mark(m)
    BY <1>8 DEF Mark
  <2>2. Seen(m, d) => Seen(m, d)'
    BY <1>0, <1>1, <1>8, <2>1, SeenStays
  <2>3. Ahead(m, d)' => Ahead(m, d)
    BY <1>8 DEF Ahead, NoJob
  <2>4. consumer[m] = "off" => job'[m] = NoJob
    BY <1>0, <1>8 DEF Consumed
  <2> QED BY <1>0, <1>8, <2>2, <2>3, <2>4 DEF Consumed
<1>9. ASSUME NEW n \in Nodes, NEW c \in Commands, NEW step, AtStep(n, c, step), step # "none"
      PROVE  job[n] # NoJob
  BY <1>9 DEF AtStep, NoJob
<1>10. ASSUME NEW n \in Nodes, NEW step, NextStep(n, step)
       PROVE  /\ job'[n].step = step /\ job'[n].cmds = job[n].cmds
              /\ \A k \in Nodes : k # n => job'[k] = job[k]
  <2>1. job' = [job EXCEPT ![n] = [job[n] EXCEPT !.step = step]] /\ job[n] \in JobType
    BY <1>10 DEF NextStep, Types
  <2>2. [job[n] EXCEPT !.step = step].step = step /\ [job[n] EXCEPT !.step = step].cmds = job[n].cmds
    BY <2>1 DEF JobType
  <2> QED BY <2>1, <2>2 DEF Types
<1>11. ASSUME NEW n \in Nodes, EndJob(n)
       PROVE  /\ job'[n] = NoJob
              /\ \A k \in Nodes : k # n => job'[k] = job[k]
  BY <1>11 DEF EndJob, Types
<1>12. ASSUME NEW n \in Nodes, NEW c \in Commands, MarkRunning(n, c) PROVE Consumed(m, d)'
  BY <1>0, <1>8, <1>9, <1>10, <1>12 DEF MarkRunning, AtStep
<1>13. ASSUME NEW n \in Nodes, NEW c \in Commands, Execute(n, c) PROVE Consumed(m, d)'
  <2>1. CASE m = n
    <3>1. Mark(m)' = Mark(m) /\ (Seen(m, d) => Seen(m, d)')
      BY <1>0, <1>13, SeenStays DEF Execute, Mark
    <3>2. ~Ahead(m, d)' /\ consumer[m] # "off"
      BY <1>0, <1>9, <1>13, <2>1 DEF Execute, Ahead, Job, Consumed, Types
    <3>3. CASE c = d
      <4>1. Ahead(m, d)
        BY <1>13, <2>1, <3>3 DEF Execute, AtStep, Ahead
      <4>2. ran'[m][d] = ran[m][d] + 1
        BY <1>13, <2>1, <3>3 DEF Execute, Types
      <4> QED BY <1>0, <1>13, <3>1, <3>2, <4>1, <4>2 DEF Execute, Consumed
    <3>4. CASE c # d
      <4>1. ran'[m][d] = ran[m][d]
        BY <1>13, <2>1, <3>4 DEF Execute, Types
      <4> QED BY <1>0, <1>13, <3>1, <3>2, <4>1 DEF Execute, Consumed
    <3> QED BY <3>3, <3>4
  <2>2. CASE m # n
    BY <1>0, <1>13, <2>2, Untouched DEF Execute, Types
  <2> QED BY <2>1, <2>2
<1>14. ASSUME NEW n \in Nodes, NEW c \in Commands, MarkFinished(n, c) PROVE Consumed(m, d)'
  <2>1. job[n].outcome \in Statuses
    BY DEF Types, JobType, Statuses
  <2> QED BY <1>8, <1>9, <1>10, <1>14, <2>1 DEF MarkFinished, AtStep
<1>15. ASSUME NEW n \in Nodes, NEW c \in Commands, Archive(n, c) PROVE Consumed(m, d)'
  <2>1. /\ job[n] # NoJob
        /\ job'[n].step # "exec" /\ job'[n].step # "begin"
        /\ job'[n].cmds = job[n].cmds \/ job'[n] = NoJob
        /\ \A k \in Nodes : k # n => job'[k] = job[k]
    BY <1>9, <1>10, <1>11, <1>15 DEF Archive, NoJob
  <2>2. Mark(m)' = Mark(m) /\ (Seen(m, d) => Seen(m, d)')
    BY <1>0, <1>15, SeenStays DEF Archive, Mark
  <2>3. ~Ahead(m, d)' \/ Ahead(m, d)
    BY <2>1 DEF Ahead
  <2>4. consumer[m] = "off" => job'[m] = NoJob
    BY <1>0, <2>1 DEF Consumed
  <2> QED BY <1>0, <1>15, <2>2, <2>3, <2>4 DEF Archive, Consumed
<1>16. ASSUME NEW n \in Nodes, NEW c \in Commands, Delete(n, c) PROVE Consumed(m, d)'
  <2>1. /\ job[n] # NoJob
        /\ job'[n].step # "exec" /\ job'[n].step # "begin"
        /\ job'[n] = NoJob
        /\ \A k \in Nodes : k # n => job'[k] = job[k]
    BY <1>9, <1>11, <1>16 DEF Delete, NoJob
  <2>2. log' = log \/ \E e \in EventType : log' = Append(log, e)
    BY <1>0, <1>1, <1>16 DEF Delete
  <2>3. Mark(m)' = Mark(m) /\ (Seen(m, d) => Seen(m, d)')
    BY <1>0, <1>16, <2>2, SeenStays DEF Delete, Mark
  <2>4. ~Ahead(m, d)' \/ Ahead(m, d)
    BY <2>1 DEF Ahead
  <2>5. consumer[m] = "off" => job'[m] = NoJob
    BY <1>0, <2>1 DEF Consumed
  <2> QED BY <1>0, <1>16, <2>3, <2>4, <2>5 DEF Delete, Consumed
<1>17. ASSUME NEW n \in Nodes, Stop(n) PROVE Consumed(m, d)'
  <2>1. CASE m = n
    <3>1. consumer'[m] = "off" /\ todo'[m] = {} /\ job'[m] = NoJob
      BY <1>11, <1>17, <2>1 DEF Stop, Types
    <3> QED BY <1>0, <1>17, <3>1 DEF Stop, Consumed, Ahead, NoJob
  <2>2. CASE m # n
    BY <1>0, <1>11, <1>17, <2>2, Untouched DEF Stop, Types
  <2> QED BY <2>1, <2>2
<1>18. CASE UNCHANGED vars
  BY <1>0, <1>18, Untouched DEF vars
<1> QED
  BY <1>2, <1>3, <1>4, <1>5, <1>6, <1>7, <1>12, <1>13, <1>14, <1>15, <1>16, <1>17, <1>18
     DEF Next, ConsumerStep

\* Only Submit puts a pending event, and only for a command without events.
LEMMA LogStep == IInv /\ [Next]_vars => HasLast' /\ OnePending'
<1> SUFFICES ASSUME IInv, [Next]_vars PROVE HasLast' /\ OnePending'
  OBVIOUS
<1> USE DEF IInv
<1>1. CASE log' = log
  BY <1>1 DEF HasLast, LastAt, OnePending, PendingAt
<1>2. ASSUME NEW c \in Commands, NEW status \in Statuses, PutStatus(c, status),
             status = "pending" => Status(c) = "none"
      PROVE  HasLast' /\ OnePending'
  <2> DEFINE e == [cmd |-> c, status |-> status]
  <2>1. e \in EventType /\ log' = Append(log, e) /\ e.cmd = c /\ e.status = status
    BY <1>2 DEF PutStatus, EventType
  <2>2. e.status = "pending" => \A i \in 1..Len(log) : log[i].cmd # e.cmd
    BY <1>2, <2>1, NoneIsUnlogged
  <2> HIDE DEF e
  <2> QED BY <2>1, <2>2, HasLastGrows, OnePendingGrows
<1>3. ASSUME NEW c \in Commands, NEW status \in Statuses, TryPutStatus(c, status),
             status # "pending"
      PROVE  HasLast' /\ OnePending'
  BY <1>1, <1>2, <1>3 DEF TryPutStatus
<1>4. {"running", "completed", "failed", "deleted", "pending"} \subseteq Statuses
  BY DEF Statuses, Outcomes
<1>5. ASSUME NEW c \in Commands, Submit(c) PROVE HasLast' /\ OnePending'
  BY <1>2, <1>4, <1>5 DEF Submit
<1>6. ASSUME NEW n \in Nodes, NEW c \in Commands, MarkRunning(n, c)
      PROVE  HasLast' /\ OnePending'
  BY <1>3, <1>4, <1>6 DEF MarkRunning
<1>7. ASSUME NEW n \in Nodes, NEW c \in Commands, MarkFinished(n, c)
      PROVE  HasLast' /\ OnePending'
  <2>1. job[n].outcome \in Statuses /\ job[n].outcome # "pending"
    BY DEF Types, JobType, Statuses, Outcomes
  <2> QED BY <1>3, <1>7, <2>1 DEF MarkFinished
<1>8. ASSUME NEW n \in Nodes, NEW c \in Commands, Delete(n, c)
      PROVE  HasLast' /\ OnePending'
  BY <1>1, <1>3, <1>4, <1>8 DEF Delete
<1>9. ASSUME NEW n \in Nodes, NEW c \in Commands,
             Apply(n) \/ Start(n) \/ StartWatch(n) \/ WatchEvent(n) \/ Stop(n)
             \/ DrainNext(n, c) \/ Execute(n, c) \/ Archive(n, c)
      PROVE  log' = log
  BY <1>9 DEF Apply, Start, StartWatch, WatchEvent, Stop, DrainNext, Execute, Archive
<1>10. ASSUME NEW n \in Nodes, Apply(n) \/ Start(n) \/ StartWatch(n) \/ WatchEvent(n) \/ Stop(n)
       PROVE  log' = log
  BY <1>10 DEF Apply, Start, StartWatch, WatchEvent, Stop
<1> QED
  BY <1>1, <1>5, <1>6, <1>7, <1>8, <1>9, <1>10 DEF Next, ConsumerStep, vars

\* A run begins with an empty log and no consumer.
LEMMA InitInductive == Init => IInv
<1> SUFFICES ASSUME Init PROVE IInv
  OBVIOUS
<1> USE DEF Init
<1>1. NoJob \in JobType
  BY DEF NoJob, JobType, Steps, Outcomes
<1>2. Types
  BY <1>1 DEF Types
<1>3. HasLast /\ OnePending
  BY DEF HasLast, OnePending
<1>4. \A n \in Nodes, c \in Commands : Consumed(n, c)
  BY DEF Consumed, Ahead, NoJob
<1> QED BY <1>2, <1>3, <1>4 DEF IInv

\* The invariant is inductive.
LEMMA NextInductive == IInv /\ [Next]_vars => IInv'
BY TypesStep, LogStep, ConsumedStep DEF IInv

\* What the log, the copies and the consumers know of each other never changes.
THEOREM Inductive == Spec => []IInv
BY InitInductive, NextInductive, PTL DEF Spec

\* Drain and watch never hand a command to one consumer twice, however many
\* consumers there are, however old the copy it starts from, and whatever
\* etcd answers.
THEOREM OncePerConsumerAlways == Spec => []OncePerConsumer
<1>1. IInv => OncePerConsumer
  BY DEF IInv, Consumed, OncePerConsumer
<1> QED BY <1>1, Inductive, PTL

\* Every copy is a prefix of the log, and no consumer watches beyond its end.
THEOREM TypeCorrect == Spec => []TypeOK
<1>1. IInv => TypeOK
  <2> SUFFICES ASSUME IInv PROVE TypeOK
    OBVIOUS
  <2>1. \A n \in Nodes : ran[n] \in [Commands -> 0..1 + Len(log)]
    <3> SUFFICES ASSUME NEW n \in Nodes, NEW c \in Commands
                 PROVE  ran[n][c] \in 0..1 + Len(log)
      BY DEF IInv, Types
    <3>1. ran[n][c] \in Nat /\ ran[n][c] <= 1 /\ Len(log) \in Nat
      BY DEF IInv, Types, Consumed
    <3> QED BY <3>1
  <2>2. ran \in [Nodes -> [Commands -> 0..1 + Len(log)]]
    BY <2>1 DEF IInv, Types
  <2> QED BY <2>2 DEF IInv, Types, TypeOK, EventType, JobType
<1> QED BY <1>1, Inductive, PTL

(***************************************************************************)
(* No way back                                                             *)
(***************************************************************************)
\* The consumer that takes over finds no other at work and a copy that is up
\* to date.  TwoConsumers shows what happens otherwise.
CleanTakeover == Exclusive /\ FreshStart

\* How far a command can be when its consumer is about to do a step.
Upto(step) ==
    CASE step = "begin"               -> {"pending"}
      [] step \in {"exec", "finish"}    -> {"pending", "running"}
      [] step \in {"archive", "delete"} -> {"pending", "running"} \cup Outcomes
      [] OTHER                        -> {}

\* A consumer executes, or still may execute, only commands that nobody has
\* taken any further.
Current(n, c) ==
    /\ c \in todo[n] => Status(c) = "pending"
    /\ \A i \in 1..Len(log) : PendingAt(c, i) /\ i >= Mark(n) => Status(c) = "pending"
    /\ c \in job[n].cmds => /\ Seen(n, c)
                            /\ c \notin todo[n]
                            /\ Status(c) \in Upto(job[n].step)

FInv ==
    /\ IInv
    /\ \A m, n \in Nodes : consumer[m] # "off" /\ consumer[n] # "off" => m = n
    /\ \A n \in Nodes, c \in Commands : consumer[n] # "off" => Current(n, c)

\* An event changes the status of its command ...
LEMMA StatusWritten ==
    ASSUME Types, HasLast, NEW c \in Commands, NEW status \in Statuses,
           PutStatus(c, status)
    PROVE  Status(c)' = status
<1> DEFINE e == [cmd |-> c, status |-> status]
           n == Len(log) + 1
           at == {i \in 1..n : log'[i].cmd = c}
<1>1. e \in EventType /\ log' = Append(log, e)
  BY DEF PutStatus, EventType
<1>2. Len(log') = n /\ n \in Nat \ {0} /\ log'[n] = e
  BY <1>1, Appended DEF Types
<1>3. n \in at /\ \A j \in at : j <= n
  BY <1>2
<1>4. (CHOOSE i \in at : \A j \in at : j <= i) = n
  <2> DEFINE found == CHOOSE i \in at : \A j \in at : j <= i
  <2>1. found \in at /\ \A j \in at : j <= found
    BY <1>3
  <2>2. found <= n /\ n <= found
    BY <1>3, <2>1
  <2>3. found \in Nat /\ n \in Nat
    BY <1>2, <2>1
  <2> HIDE DEF found
  <2>4. found = n
    BY <2>2, <2>3
  <2> QED BY <2>4 DEF found
<1>5. at # {}
  BY <1>3
<1>6. Status(c)' = log'[CHOOSE i \in at : \A j \in at : j <= i].status
  BY <1>2, <1>5 DEF Status, StatusAt
<1> QED BY <1>2, <1>4, <1>6

\* ... and of no other.
LEMMA StatusKept ==
    ASSUME Types, HasLast, NEW c \in Commands, NEW d \in Commands, c # d,
           NEW status \in Statuses, PutStatus(c, status)
    PROVE  Status(d)' = Status(d)
<1> DEFINE e == [cmd |-> c, status |-> status]
           at == {i \in 1..Len(log) : log[i].cmd = d}
           next == {i \in 1..Len(log') : log'[i].cmd = d}
           found == CHOOSE i \in at : \A j \in at : j <= i
<1>1. e \in EventType /\ log' = Append(log, e)
  BY DEF PutStatus, EventType
<1>2. /\ Len(log) \in Nat /\ Len(log') = Len(log) + 1
      /\ \A i \in 1..Len(log) : log'[i] = log[i]
      /\ log'[Len(log) + 1].cmd # d
  BY <1>1, Appended DEF Types
<1>3. next = at
  BY <1>2
<1>4. Status(d)' = IF at = {} THEN "none" ELSE log'[found].status
  <2>1. Status(d)' = IF next = {} THEN "none"
                     ELSE log'[CHOOSE i \in next : \A j \in next : j <= i].status
    BY DEF Status, StatusAt
  <2> HIDE DEF next, at
  <2> QED BY <1>3, <2>1
<1>5. Status(d) = IF at = {} THEN "none" ELSE log[found].status
  BY DEF Status, StatusAt
<1>6. CASE at = {}
  BY <1>4, <1>5, <1>6
<1>7. CASE at # {}
  <2>1. \E i \in at : \A j \in at : j <= i
    <3>1. \E i \in 1..Len(log) : log[i].cmd = d
      BY <1>7
    <3>2. PICK i \in 1..Len(log) : LastAt(d, Len(log), i)
      BY <1>2, <3>1 DEF HasLast
    <3> QED BY <3>2 DEF LastAt
  <2>2. found \in at
    BY <2>1
  <2>3. log'[found] = log[found]
    BY <1>2, <2>2
  <2> QED BY <1>4, <1>5, <1>7, <2>3
<1> QED BY <1>6, <1>7

\* Without an event no status changes.
LEMMA StatusSame ==
    ASSUME NEW c \in Commands, log' = log
    PROVE  Status(c)' = Status(c)
BY DEF Status, StatusAt

\* The consumer at work is the only one, and its command is no further than
\* the step it is at.
LEMMA AtWork ==
    ASSUME FInv, NEW n \in Nodes, NEW c \in Commands, NEW step,
           AtStep(n, c, step), step # "none"
    PROVE  /\ consumer[n] # "off"
           /\ c \in job[n].cmds
           /\ Seen(n, c)
           /\ c \notin todo[n]
           /\ Status(c) \in Upto(step)
<1>1. job[n] # NoJob /\ c \in job[n].cmds /\ job[n].step = step
  BY DEF AtStep, NoJob
<1>2. consumer[n] # "off"
  BY <1>1 DEF FInv, IInv, Consumed
<1> QED BY <1>1, <1>2 DEF FInv, Current

\* The events of the log after a status write that is no submission.
LEMMA PendingKept ==
    ASSUME Types, NEW c \in Commands, NEW d \in Commands, NEW status \in Statuses,
           status # "pending" \/ c # d,
           PutStatus(c, status), NEW i \in 1..Len(log'), PendingAt(d, i)'
    PROVE  i \in 1..Len(log) /\ PendingAt(d, i)
<1> DEFINE e == [cmd |-> c, status |-> status]
<1>1. e \in EventType /\ log' = Append(log, e)
  BY DEF PutStatus, EventType
<1>2. /\ Len(log) \in Nat /\ Len(log') = Len(log) + 1
      /\ \A j \in 1..Len(log) : log'[j] = log[j]
      /\ log'[Len(log) + 1] = e
  BY <1>1, Appended DEF Types
<1>3. e # [cmd |-> d, status |-> "pending"]
  OBVIOUS
<1> HIDE DEF e
<1>4. i # Len(log) + 1
  BY <1>2, <1>3 DEF PendingAt
<1>5. i \in 1..Len(log)
  BY <1>2, <1>4
<1> QED BY <1>2, <1>5 DEF PendingAt

\* A step of processCommand: it may write the command's status, and goes on
\* to a step for which that status is not too far.
LEMMA ProcessStep ==
    ASSUME FInv, IInv',
           NEW n \in Nodes, NEW c \in Commands, NEW step, AtStep(n, c, step), step # "none",
           NEW status \in Statuses, status # "pending",
           PutStatus(c, status) \/ log' = log,
           \/ job'[n] = NoJob
           \/ /\ job'[n].cmds = {c}
              /\ Upto(step) \cup {status} \subseteq Upto(job'[n].step)
           \/ /\ job'[n].cmds = {c}
              /\ log' = log
              /\ Upto(step) \subseteq Upto(job'[n].step),
           UNCHANGED <<applied, consumer, todo, from>>,
           NEW m \in Nodes, consumer'[m] # "off", NEW d \in Commands
    PROVE  Current(m, d)'
<1>1. m = n
  BY AtWork DEF FInv
<1>2. /\ Current(m, d) /\ Types /\ HasLast
      /\ Mark(m)' = Mark(m) /\ Mark(m) \in Nat
  <2>1. Current(m, d) /\ Types /\ HasLast
    BY DEF FInv, IInv
  <2>2. Mark(m)' = Mark(m)
    BY DEF Mark
  <2>3. Mark(m) \in Nat
    BY <2>1 DEF Mark, Types
  <2> QED BY <2>1, <2>2, <2>3
<1>3. log' = log \/ \E e \in EventType : log' = Append(log, e)
  BY DEF PutStatus, EventType
<1>4. Seen(m, c)'
  BY <1>1, <1>2, <1>3, AtWork, SeenStays
<1>5. CASE d # c
  <2>1. Status(d)' = Status(d)
    BY <1>2, <1>5, StatusKept, StatusSame
  <2>2. \A i \in 1..Len(log') : PendingAt(d, i)' => i \in 1..Len(log) /\ PendingAt(d, i)
    BY <1>2, <1>5, PendingKept DEF PendingAt
  <2>3. d \notin job'[m].cmds
    BY <1>1, <1>5 DEF NoJob
  <2> QED BY <1>2, <2>1, <2>2, <2>3 DEF Current
<1>6. CASE d = c
  <2>1. c \notin todo'[m]
    BY <1>1, AtWork
  <2>2. ~ \E i \in 1..Len(log') : PendingAt(c, i)' /\ i >= Mark(m)'
    <3>1. PICK k \in 1..Len(log') : PendingAt(c, k)' /\ k < Mark(m)'
      BY <1>4 DEF Seen
    <3>2. \A i \in 1..Len(log') : PendingAt(c, i)' => i = k
      BY <3>1 DEF IInv, OnePending
    <3>3. k \in Nat /\ Mark(m)' \in Nat
      BY <1>2, <3>1
    <3> QED BY <3>1, <3>2, <3>3
  <2>3. Status(c)' \in {Status(c), status} /\ (log' = log => Status(c)' = Status(c))
    BY <1>2, StatusWritten, StatusSame
  <2>4. c \in job'[m].cmds => Status(c)' \in Upto(job'[m].step)
    <3>1. Status(c) \in Upto(step)
      BY AtWork
    <3> QED BY <1>1, <2>3, <3>1 DEF NoJob
  <2> QED BY <1>4, <1>6, <2>1, <2>2, <2>4 DEF Current
<1> QED BY <1>5, <1>6

\* The steps of processCommand are such steps.
LEMMA ProcessSteps ==
    ASSUME FInv, IInv', NEW n \in Nodes, NEW c \in Commands,
           \/ MarkRunning(n, c)
           \/ Execute(n, c)
           \/ MarkFinished(n, c)
           \/ Archive(n, c)
           \/ Delete(n, c),
           NEW m \in Nodes, consumer'[m] # "off", NEW d \in Commands
    PROVE  Current(m, d)'
<1>0. /\ {"running", "deleted"} \cup Outcomes \subseteq Statuses
      /\ "pending" \notin {"running", "deleted"} \cup Outcomes
      /\ job[n] \in JobType /\ job \in [Nodes -> JobType]
  BY DEF Statuses, Outcomes, FInv, IInv, Types
<1>1. ASSUME NEW step, AtStep(n, c, step), NEW next, NextStep(n, next)
      PROVE  job'[n].cmds = {c} /\ job'[n].step = next
  BY <1>0, <1>1 DEF AtStep, NextStep, JobType
<1>2. EndJob(n) => job'[n] = NoJob
  BY <1>0 DEF EndJob
<1>3. CASE MarkRunning(n, c)
  <2>1. /\ AtStep(n, c, "begin")
        /\ PutStatus(c, "running") \/ log' = log
        /\ job'[n].cmds = {c} /\ job'[n].step = "exec"
        /\ UNCHANGED <<applied, consumer, todo, from>>
    BY <1>1, <1>3 DEF MarkRunning, TryPutStatus
  <2>2. Upto("begin") \cup {"running"} \subseteq Upto("exec")
    BY DEF Upto
  <2> QED BY <1>0, <2>1, <2>2, ProcessStep
<1>4. CASE Execute(n, c)
  <2>1. /\ AtStep(n, c, "exec")
        /\ log' = log
        /\ job'[n].cmds = {c} /\ job'[n].step = "finish"
        /\ UNCHANGED <<applied, consumer, todo, from>>
    BY <1>0, <1>4 DEF Execute, Job
  <2>2. Upto("exec") \cup {"running"} \subseteq Upto("finish")
    BY DEF Upto
  <2> QED BY <1>0, <2>1, <2>2, ProcessStep
<1>5. CASE MarkFinished(n, c)
  <2>1. /\ AtStep(n, c, "finish")
        /\ PutStatus(c, job[n].outcome) \/ log' = log
        /\ job'[n].cmds = {c} /\ job'[n].step = "archive"
        /\ UNCHANGED <<applied, consumer, todo, from>>
    BY <1>1, <1>5 DEF MarkFinished, TryPutStatus
  <2>2. job[n].outcome \in Outcomes
    BY <1>0 DEF JobType
  <2>3. Upto("finish") \cup {job[n].outcome} \subseteq Upto("archive")
    BY <2>2 DEF Upto
  <2> QED BY <1>0, <2>1, <2>2, <2>3, ProcessStep
<1>6. CASE Archive(n, c)
  <2>1. /\ AtStep(n, c, "archive")
        /\ log' = log
        /\ \/ job'[n] = NoJob
           \/ job'[n].cmds = {c} /\ job'[n].step = "delete"
        /\ UNCHANGED <<applied, consumer, todo, from>>
    BY <1>1, <1>2, <1>6 DEF Archive
  <2>2. Upto("archive") \cup {"running"} \subseteq Upto("delete")
    BY DEF Upto
  <2> QED BY <1>0, <2>1, <2>2, ProcessStep
<1>7. CASE Delete(n, c)
  <2>1. /\ AtStep(n, c, "delete")
        /\ PutStatus(c, "deleted") \/ log' = log
        /\ job'[n] = NoJob
        /\ UNCHANGED <<applied, consumer, todo, from>>
    BY <1>2, <1>7 DEF Delete, TryPutStatus
  <2> QED BY <1>0, <2>1, ProcessStep
<1> QED BY <1>3, <1>4, <1>5, <1>6, <1>7

\* Every step keeps what the consumer at work holds current.
LEMMA CurrentStep ==
    ASSUME CleanTakeover, FInv, IInv', [Next]_vars,
           NEW m \in Nodes, consumer'[m] # "off", NEW d \in Commands
    PROVE  Current(m, d)'
<1>0. /\ Types /\ Types' /\ HasLast /\ OnePending
      /\ Consumed(m, d)
      /\ consumer[m] # "off" => Current(m, d)
      /\ Mark(m) \in Nat /\ Mark(m)' \in Nat
  <2>1. Types /\ Types' /\ HasLast /\ OnePending /\ Consumed(m, d)
    BY DEF FInv, IInv
  <2>2. Mark(m) \in Nat
    BY <2>1 DEF Mark, Types
  <2>3. Mark(m)' \in Nat
    BY <2>1 DEF Mark, Types
  <2> QED BY <2>1, <2>2, <2>3 DEF FInv
<1>1. ASSUME consumer[m] # "off", log' = log, todo'[m] = todo[m],
             job'[m] = job[m], Mark(m) <= Mark(m)'
      PROVE  Current(m, d)'
  <2>1. Seen(m, d) => Seen(m, d)'
    BY <1>0, <1>1, SeenStays
  <2>2. Status(d)' = Status(d)
    BY <1>1 DEF Status, StatusAt
  <2>3. \A i \in 1..Len(log') : PendingAt(d, i)' /\ i >= Mark(m)'
            => i \in 1..Len(log) /\ PendingAt(d, i) /\ i >= Mark(m)
    BY <1>0, <1>1 DEF PendingAt
  <2> QED BY <1>0, <1>1, <2>1, <2>2, <2>3 DEF Current
<1>2. ASSUME NEW c \in Commands, Submit(c) PROVE Current(m, d)'
  <2>1. /\ PutStatus(c, "pending") /\ Status(c) = "none" /\ "pending" \in Statuses
        /\ consumer[m] # "off" /\ todo'[m] = todo[m] /\ job'[m] = job[m]
        /\ Mark(m)' = Mark(m)
    BY <1>2 DEF Submit, Statuses, Mark
  <2>2. CASE d = c
    <3>1. Status(c)' = "pending"
      BY <1>0, <2>1, StatusWritten
    <3>2. c \notin job[m].cmds
      <4>1. "none" \notin Upto(job[m].step)
        BY DEF Upto, Outcomes
      <4> QED BY <1>0, <2>1, <2>2, <4>1 DEF Current
    <3> QED BY <2>1, <2>2, <3>1, <3>2 DEF Current
  <2>3. CASE d # c
    <3>1. Status(d)' = Status(d)
      BY <1>0, <2>1, <2>3, StatusKept
    <3>2. \A i \in 1..Len(log') : PendingAt(d, i)' => i \in 1..Len(log) /\ PendingAt(d, i)
      BY <1>0, <2>1, <2>3, PendingKept
    <3>3. \E e \in EventType : log' = Append(log, e)
      BY <2>1 DEF PutStatus, EventType
    <3>4. Seen(m, d) => Seen(m, d)'
      BY <1>0, <2>1, <3>3, SeenStays
    <3> QED BY <1>0, <2>1, <3>1, <3>2, <3>4 DEF Current
  <2> QED BY <2>2, <2>3
<1>3. ASSUME NEW n \in Nodes, Apply(n) PROVE Current(m, d)'
  <2>1. Mark(m) <= Mark(m)'
    BY <1>0, <1>3 DEF Apply, Mark, Types
  <2> QED BY <1>1, <1>3, <2>1 DEF Apply
<1>4. ASSUME NEW n \in Nodes, Start(n) PROVE Current(m, d)'
  <2>1. m = n /\ applied[m] = Len(log) /\ consumer[m] = "off"
    BY <1>0, <1>4 DEF Start, CleanTakeover, Types
  <2>2. /\ todo'[m] = Drainable(m) /\ job'[m] = NoJob /\ log' = log
        /\ Mark(m)' = Len(log) + 1
    BY <1>0, <1>4, <2>1 DEF Start, Types, Consumed, Mark
  <2>3. Status(d)' = Status(d)
    BY <2>2 DEF Status, StatusAt
  <2>4. d \in todo'[m] => Status(d)' = "pending"
    BY <2>1, <2>2, <2>3 DEF Drainable, Status
  <2>5. d \notin job'[m].cmds
    BY <2>2 DEF NoJob
  <2>6. ~ \E i \in 1..Len(log') : i >= Mark(m)'
    BY <1>0, <2>2 DEF Types
  <2> QED BY <2>4, <2>5, <2>6 DEF Current
<1>5. ASSUME NEW n \in Nodes, StartWatch(n) PROVE Current(m, d)'
  <2>1. Mark(m)' = Mark(m) /\ consumer[m] # "off"
    BY <1>0, <1>5 DEF StartWatch, Mark, Types
  <2> QED BY <1>0, <1>1, <1>5, <2>1 DEF StartWatch
<1>6. ASSUME NEW n \in Nodes, WatchEvent(n) PROVE Current(m, d)'
  <2>1. m = n /\ consumer[m] = "watch"
    BY <1>6 DEF WatchEvent, FInv
  <2>2. /\ log' = log /\ todo' = todo /\ todo[m] = {}
        /\ Mark(m) = from[m] /\ Mark(m)' = from[m] + 1 /\ Mark(m) <= Mark(m)'
        /\ from[m] \in 1..Len(log)
    BY <1>0, <1>6, <2>1 DEF WatchEvent, Mark, Types, Consumed
  <2>3. CASE log[from[m]].status # "pending"
    BY <1>1, <1>6, <2>1, <2>2, <2>3 DEF WatchEvent
  <2>4. CASE log[from[m]].status = "pending"
    <3>1. PICK c \in Commands : c = log[from[m]].cmd /\ PendingAt(c, from[m])
      <4>1. log[from[m]] \in EventType
        <5>1. log \in Seq(EventType)
          BY <1>0 DEF Types
        <5> QED BY <2>2, <5>1
      <4>2. log[from[m]] = [cmd |-> log[from[m]].cmd, status |-> "pending"]
        BY <2>4, <4>1 DEF EventType
      <4>3. PICK c \in Commands : c = log[from[m]].cmd
        BY <4>1 DEF EventType
      <4>4. PendingAt(c, from[m])
        BY <2>2, <4>2, <4>3 DEF PendingAt
      <4> QED BY <4>3, <4>4
    <3>2. job'[m] = Job(c, "begin", "completed")
      BY <1>0, <1>6, <2>1, <2>4, <3>1 DEF WatchEvent, Process, Types
    <3>3. \A e \in Commands : Status(e)' = Status(e)
      BY <2>2 DEF Status, StatusAt
    <3>4. \A i \in 1..Len(log') : PendingAt(d, i)' /\ i >= Mark(m)'
              => i \in 1..Len(log) /\ PendingAt(d, i) /\ i >= Mark(m)
      BY <1>0, <2>2 DEF PendingAt
    <3>5. d \in job'[m].cmds => Seen(m, d)' /\ Status(d)' \in Upto(job'[m].step)
      <4> SUFFICES ASSUME d = c PROVE Seen(m, d)' /\ Status(d)' \in Upto("begin")
        BY <3>2 DEF Job
      <4>1. Current(m, c)
        BY <2>1, <3>1 DEF FInv
      <4>2. from[m] >= Mark(m)
        BY <1>0, <2>2
      <4>3. Status(c) = "pending"
        BY <2>2, <3>1, <4>1, <4>2 DEF Current
      <4>4. PICK i \in 1..Len(log) : i = from[m]
        BY <2>2
      <4>5. /\ i \in 1..Len(log')
            /\ PendingAt(c, i)'
            /\ i < Mark(m)'
        <5>1. PendingAt(c, i)' <=> PendingAt(c, i)
          BY <2>2 DEF PendingAt
        <5>2. i \in Nat /\ i < i + 1
          BY <1>0, <4>4 DEF Types
        <5> QED BY <2>2, <3>1, <4>4, <5>1, <5>2
      <4>6. Seen(m, c)'
        BY <4>5 DEF Seen
      <4> QED BY <3>1, <3>3, <4>3, <4>6 DEF Upto
    <3> QED BY <1>0, <2>1, <2>2, <3>3, <3>4, <3>5 DEF Current
  <2> QED BY <2>3, <2>4
<1>7. ASSUME NEW n \in Nodes, NEW c \in Commands, DrainNext(n, c) PROVE Current(m, d)'
  <2>1. m = n /\ consumer[m] # "off" /\ c \in todo[m]
    BY <1>7 DEF DrainNext, FInv
  <2>2. /\ log' = log /\ Mark(m)' = Mark(m)
        /\ todo'[m] = todo[m] \ {c} /\ job'[m] = Job(c, "begin", "completed")
    BY <1>0, <1>7, <2>1 DEF DrainNext, Process, Mark, Types
  <2>3. Status(d)' = Status(d)
    BY <2>2 DEF Status, StatusAt
  <2>4. Seen(m, d) => Seen(m, d)'
    BY <1>0, <2>2, SeenStays
  <2>5. \A i \in 1..Len(log') : PendingAt(d, i)' => i \in 1..Len(log) /\ PendingAt(d, i)
    BY <2>2 DEF PendingAt
  <2>6. d \in job'[m].cmds => d = c
    BY <2>2 DEF Job
  <2>7. d = c => Status(d) \in Upto(job'[m].step) /\ Seen(m, d)
    BY <1>0, <2>1, <2>2 DEF Upto, Job, Current, Consumed
  <2> QED BY <1>0, <2>1, <2>2, <2>3, <2>4, <2>5, <2>6, <2>7 DEF Current
<1>8. ASSUME NEW n \in Nodes, Stop(n) PROVE Current(m, d)'
  <2>1. m # n
    BY <1>0, <1>8 DEF Stop, Types
  <2>2. /\ consumer[m] # "off" /\ log' = log /\ todo'[m] = todo[m]
        /\ job'[m] = job[m] /\ Mark(m)' = Mark(m)
    BY <1>0, <1>8, <2>1 DEF Stop, EndJob, Mark, Types
  <2> QED BY <1>0, <1>1, <2>2
<1>9. CASE UNCHANGED vars
  <2>1. Mark(m)' = Mark(m)
    BY <1>9 DEF vars, Mark
  <2> QED BY <1>0, <1>1, <1>9, <2>1 DEF vars
<1> QED
  BY <1>2, <1>3, <1>4, <1>5, <1>6, <1>7, <1>8, <1>9, ProcessSteps DEF Next, ConsumerStep

\* A consumer starts only when no other is left.
LEMMA AloneStep ==
    ASSUME CleanTakeover, FInv, [Next]_vars,
           NEW m \in Nodes, NEW n \in Nodes, consumer'[m] # "off", consumer'[n] # "off"
    PROVE  m = n
<1>1. consumer \in [Nodes -> {"off", "drain", "watch"}]
  BY DEF FInv, IInv, Types
<1>2. ASSUME NEW k \in Nodes, Start(k) PROVE m = n
  BY <1>1, <1>2 DEF Start, CleanTakeover
<1>3. ASSUME NEW k \in Nodes, StartWatch(k) \/ Stop(k) PROVE m = n
  <2>1. consumer[m] # "off" /\ consumer[n] # "off"
    BY <1>1, <1>3 DEF StartWatch, Stop
  <2> QED BY <2>1 DEF FInv
<1>4. CASE UNCHANGED consumer
  BY <1>4 DEF FInv
<1>5. \/ \E k \in Nodes : Start(k) \/ StartWatch(k) \/ Stop(k)
      \/ UNCHANGED consumer
  BY DEF Next, ConsumerStep, Submit, Apply, WatchEvent, DrainNext, MarkRunning, Execute,
         MarkFinished, Archive, Delete, vars
<1> QED BY <1>2, <1>3, <1>4, <1>5

\* No step takes a command back.
LEMMA ForwardStep ==
    ASSUME FInv, [Next]_vars, NEW d \in Commands
    PROVE  Rank(Status(d)') >= Rank(Status(d))
<1>0. /\ Types /\ HasLast
      /\ {"pending", "running", "deleted"} \cup Outcomes \subseteq Statuses
  BY DEF FInv, IInv, Statuses
<1>1. Rank(Status(d)) \in 0..4
  BY DEF Rank
<1>2. CASE Status(d)' = Status(d)
  BY <1>1, <1>2
<1>3. CASE log' = log
  <2>1. Status(d)' = Status(d)
    BY <1>3 DEF Status, StatusAt
  <2> QED BY <1>2, <2>1
<1>4. ASSUME NEW c \in Commands, NEW status \in Statuses, PutStatus(c, status),
             Rank(status) >= Rank(Status(c))
      PROVE  Rank(Status(d)') >= Rank(Status(d))
  <2>1. CASE c = d
    BY <1>0, <1>4, <2>1, StatusWritten
  <2>2. CASE c # d
    BY <1>0, <1>2, <1>4, <2>2, StatusKept
  <2> QED BY <2>1, <2>2
<1>5. ASSUME NEW c \in Commands, Submit(c) PROVE Rank(Status(d)') >= Rank(Status(d))
  <2>1. Rank("pending") >= Rank("none")
    BY DEF Rank, Outcomes
  <2> QED BY <1>0, <1>4, <1>5, <2>1 DEF Submit
<1>6. ASSUME NEW n \in Nodes, NEW c \in Commands, MarkRunning(n, c)
      PROVE  Rank(Status(d)') >= Rank(Status(d))
  <2>1. Status(c) \in {"pending"}
    BY <1>6, AtWork DEF MarkRunning, Upto
  <2>2. Rank("running") >= Rank(Status(c))
    BY <2>1 DEF Rank, Outcomes
  <2> QED BY <1>0, <1>3, <1>4, <1>6, <2>2 DEF MarkRunning, TryPutStatus
<1>7. ASSUME NEW n \in Nodes, NEW c \in Commands, MarkFinished(n, c)
      PROVE  Rank(Status(d)') >= Rank(Status(d))
  <2>1. Status(c) \in {"pending", "running"}
    BY <1>7, AtWork DEF MarkFinished, Upto
  <2>2. job[n].outcome \in Outcomes
    BY <1>0 DEF Types, JobType
  <2>3. Rank(job[n].outcome) >= Rank(Status(c))
    BY <2>1, <2>2 DEF Rank, Outcomes
  <2> QED BY <1>0, <1>3, <1>4, <1>7, <2>2, <2>3 DEF MarkFinished, TryPutStatus
<1>8. ASSUME NEW n \in Nodes, NEW c \in Commands, Delete(n, c)
      PROVE  Rank(Status(d)') >= Rank(Status(d))
  <2>1. Rank("deleted") >= Rank(Status(c))
    BY DEF Rank, Outcomes
  <2> QED BY <1>0, <1>3, <1>4, <1>8, <2>1 DEF Delete, TryPutStatus
<1>9. \/ log' = log
      \/ \E c \in Commands : \/ Submit(c)
                             \/ \E n \in Nodes : \/ MarkRunning(n, c)
                                                 \/ MarkFinished(n, c)
                                                 \/ Delete(n, c)
  BY DEF Next, ConsumerStep, Apply, Start, StartWatch, WatchEvent, Stop, DrainNext,
         Execute, Archive, vars
<1> QED BY <1>3, <1>5, <1>6, <1>7, <1>8, <1>9

\* A command only moves forward, for any number of nodes, commands and
\* consumers that die at any step, and whatever etcd answers, when each
\* consumer starts after the last one stopped and from a copy that is up to
\* date.
THEOREM CommandsGoForward ==
    ASSUME CleanTakeover
    PROVE  Spec => ForwardOnly
<1>1. Init => FInv
  <2> SUFFICES ASSUME Init, IInv PROVE FInv
    BY InitInductive
  <2> QED BY DEF Init, FInv
<1>2. FInv /\ [Next]_vars => FInv'
  <2> SUFFICES ASSUME FInv, [Next]_vars PROVE FInv'
    OBVIOUS
  <2>1. IInv'
    BY NextInductive DEF FInv
  <2> QED BY <2>1, CurrentStep, AloneStep DEF FInv
<1>3. FInv /\ [Next]_vars => [\A c \in Commands : Rank(Status(c)') >= Rank(Status(c))]_vars
  BY ForwardStep
<1> QED BY <1>1, <1>2, <1>3, PTL DEF Spec, ForwardOnly

=============================================================================
