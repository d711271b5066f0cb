--------------------------- MODULE HandoverProofs ---------------------------
(***************************************************************************)
(* That a sequence of promotes is a sequence of handovers (HandsOver), for *)
(* any number of groups from three on, any priorities, any number of       *)
(* commands, any lag of the copy and drains that time out at any moment,   *)
(* under the conditions that Planned lists.                                *)
(*                                                                         *)
(* A switchover changes the keys of the group it leaves ("from") and of    *)
(* the one it goes to ("to") in one order only, so everything that etcd    *)
(* may hold is one of nine stages.  The copy is at an earlier stage than   *)
(* etcd, the events of the watch lead from the one to the other, and what  *)
(* a pass has collected is group by group from stages before the copy's,   *)
(* the priority, if it is read after a put, from the same or a later one.  *)
(***************************************************************************)
EXTENDS SwitchoverProofs, FiniteSetTheorems

\* The desired document of a managed group.
Managed(state) == Doc(state, TRUE)

\* A settled group of three or more management groups with one role each,
\* whose operators promote in an orderly way, and no faults but slow drains.
Planned ==
    /\ N >= 3
    /\ \E r : Roles = {r}
    /\ ~WritesMayFail /\ ~Automatic /\ ~LeaderMayRestart
    /\ OrderlyOperators /\ SeparateLoops
    /\ CommandTypes \subseteq {"promote"}
    /\ UnreliableActors = {} /\ CrashingGroups = {}
    /\ \A desired \in InitialDesired, priority \in InitialPriority :
        /\ \A g, h \in Groups : priority[g] = priority[h] => g = h
        /\ \E top \in Groups :
            /\ \A g \in Groups : priority[top] <= priority[g]
            /\ desired = [g \in Groups |-> Managed(IF g = top THEN "active" ELSE "passive")]

(***************************************************************************)
(* The stages                                                              *)
(***************************************************************************)
Stages == 0..8

\* A switchover: the two groups, and the priorities it begins with.
Switches ==
    {sw \in [from : Groups, to : Groups, ranks : [Groups -> Priorities]] :
        /\ sw.from # sw.to
        /\ \A g, h \in Groups : sw.ranks[g] = sw.ranks[h] => g = h
        /\ \A g \in Groups : sw.ranks[sw.from] <= sw.ranks[g]}

\* Stages 1 and 2: the two priority writes of the swap.
PriorityAt(sw, s, g) ==
    IF g = sw.to /\ s >= 1 THEN sw.ranks[sw.from]
    ELSE IF g = sw.from /\ s >= 2 THEN sw.ranks[sw.to]
    ELSE sw.ranks[g]

\* Stage 3: the drain; stage 6: the activation.
StateAt(sw, s, g) ==
    IF (g = sw.from /\ s < 3) \/ (g = sw.to /\ s >= 6) THEN "active" ELSE "passive"

\* Stages 4 and 5: the old group reports that it stops and that it is down;
\* stages 7 and 8: the new one that it starts and that it is up.  A report
\* of the transition may be missing: 5 may follow 3, and 8 may follow 6.
ReportAt(sw, s, g) ==
    IF g = sw.from THEN IF s < 4 THEN "active" ELSE IF s = 4 THEN "stopping" ELSE "passive"
    ELSE IF g = sw.to THEN IF s < 7 THEN "passive" ELSE IF s = 7 THEN "starting" ELSE "active"
    ELSE "passive"

\* What etcd, or a copy of it, holds at a stage; statuses are left open.
AtStage(sw, v, s) ==
    \A g \in Groups :
        /\ v[Desired(g)] = Managed(StateAt(sw, s, g))
        /\ v[Priority(g)] = PriorityAt(sw, s, g)
        /\ \A r \in Roles : v[RoleKey(g, r)] = ReportAt(sw, s, g)

\* What a stage prescribes for the key of a write changes to what is written,
\* and for no other key: the write takes stage s to stage t.
Leads(sw, k, x, s, t) ==
    /\ s <= t
    /\ \A g \in Groups :
        /\ Managed(StateAt(sw, t, g)) =
               IF Desired(g) = k THEN x ELSE Managed(StateAt(sw, s, g))
        /\ PriorityAt(sw, t, g) = IF Priority(g) = k THEN x ELSE PriorityAt(sw, s, g)
        /\ \A r \in Roles :
             ReportAt(sw, t, g) = IF RoleKey(g, r) = k THEN x ELSE ReportAt(sw, s, g)

\* The documents of managed groups differ in their states only.
LEMMA ManagedDocs ==
    /\ \A state : Managed(state).state = state /\ Managed(state).managed
    /\ Managed("active") # Managed("passive")
BY DEF Managed, Doc

\* A write changes its key and no other.
LEMMA Written ==
    ASSUME NEW v, Snapshot(v), NEW k \in Keys, NEW x
    PROVE  \A j \in Keys : [v EXCEPT ![k] = x][j] = IF j = k THEN x ELSE v[j]
BY DEF Snapshot

\* A write that leads from a stage to another takes a snapshot there.
LEMMA StageWrite ==
    ASSUME NEW sw, NEW v, Snapshot(v), NEW k \in Keys, NEW x, NEW s, NEW t,
           AtStage(sw, v, s), Leads(sw, k, x, s, t)
    PROVE  AtStage(sw, [v EXCEPT ![k] = x], t)
<1> DEFINE w == [v EXCEPT ![k] = x]
<1>1. \A j \in Keys : w[j] = IF j = k THEN x ELSE v[j]
  BY Written
<1> HIDE DEF w
<1>2. ASSUME NEW h \in Groups
      PROVE  /\ w[Desired(h)] = IF Desired(h) = k THEN x ELSE v[Desired(h)]
             /\ w[Priority(h)] = IF Priority(h) = k THEN x ELSE v[Priority(h)]
             /\ \A r \in Roles :
                  w[RoleKey(h, r)] = IF RoleKey(h, r) = k THEN x ELSE v[RoleKey(h, r)]
  BY <1>1, KeysOfGroup, KeysOfRole
<1>3. AtStage(sw, w, t)
  BY <1>2 DEF AtStage, Leads
<1> QED BY <1>3 DEF w

\* The status of a group may be written at any stage.
LEMMA StatusLeads ==
    ASSUME NEW sw, NEW s \in Stages, NEW g \in Groups, NEW x
    PROVE  Leads(sw, Status(g), x, s, s)
BY DEF Stages, Leads, Status, Priority, Desired, RoleKey

\* The swap.
LEMMA PriorityLeads ==
    ASSUME NEW sw \in Switches
    PROVE  /\ Leads(sw, Priority(sw.to), sw.ranks[sw.from], 0, 1)
           /\ Leads(sw, Priority(sw.from), sw.ranks[sw.to], 1, 2)
<1>1. sw.from \in Groups /\ sw.to \in Groups /\ sw.from # sw.to
  BY DEF Switches
<1>2. Leads(sw, Priority(sw.to), sw.ranks[sw.from], 0, 1)
  BY <1>1 DEF Leads, StateAt, PriorityAt, ReportAt, Priority, Desired, RoleKey
<1>3. Leads(sw, Priority(sw.from), sw.ranks[sw.to], 1, 2)
  BY <1>1 DEF Leads, StateAt, PriorityAt, ReportAt, Priority, Desired, RoleKey
<1> QED BY <1>2, <1>3

\* The drain and the activation.
LEMMA DesiredLeads ==
    ASSUME NEW sw \in Switches
    PROVE  /\ Leads(sw, Desired(sw.from), Managed("passive"), 2, 3)
           /\ Leads(sw, Desired(sw.to), Managed("active"), 5, 6)
<1>1. sw.from \in Groups /\ sw.to \in Groups /\ sw.from # sw.to
  BY DEF Switches
<1>2. Leads(sw, Desired(sw.from), Managed("passive"), 2, 3)
  BY <1>1 DEF Leads, StateAt, PriorityAt, ReportAt, Priority, Desired, RoleKey
<1>3. Leads(sw, Desired(sw.to), Managed("active"), 5, 6)
  BY <1>1 DEF Leads, StateAt, PriorityAt, ReportAt, Priority, Desired, RoleKey
<1> QED BY <1>2, <1>3

\* The reports of the group that stops and of the one that starts.
LEMMA ReportLeads ==
    ASSUME NEW sw \in Switches, NEW r, Roles = {r}
    PROVE  /\ Leads(sw, RoleKey(sw.from, r), "stopping", 3, 4)
           /\ \A s \in {3, 4} : Leads(sw, RoleKey(sw.from, r), "passive", s, 5)
           /\ Leads(sw, RoleKey(sw.to, r), "starting", 6, 7)
           /\ \A s \in {6, 7} : Leads(sw, RoleKey(sw.to, r), "active", s, 8)
<1>1. sw.from \in Groups /\ sw.to \in Groups /\ sw.from # sw.to
  BY DEF Switches
<1>2. Leads(sw, RoleKey(sw.from, r), "stopping", 3, 4)
  BY <1>1 DEF Leads, StateAt, PriorityAt, ReportAt, Priority, Desired, RoleKey
<1>3. ASSUME NEW s \in {3, 4} PROVE Leads(sw, RoleKey(sw.from, r), "passive", s, 5)
  BY <1>1 DEF Leads, StateAt, PriorityAt, ReportAt, Priority, Desired, RoleKey
<1>4. Leads(sw, RoleKey(sw.to, r), "starting", 6, 7)
  BY <1>1 DEF Leads, StateAt, PriorityAt, ReportAt, Priority, Desired, RoleKey
<1>5. ASSUME NEW s \in {6, 7} PROVE Leads(sw, RoleKey(sw.to, r), "active", s, 8)
  BY <1>1 DEF Leads, StateAt, PriorityAt, ReportAt, Priority, Desired, RoleKey
<1> QED BY <1>2, <1>3, <1>4, <1>5

(***************************************************************************)
(* etcd, the copy, and the events between them                             *)
(***************************************************************************)
\* The events of the watch lead from the copy's stage to etcd's.
History(sw, S, E) ==
    \E at \in [0..Len(watch) -> Stages] :
        /\ at[0] = S
        /\ at[Len(watch)] = E
        /\ \A i, j \in 0..Len(watch) : i <= j => at[i] <= at[j]
        /\ \A i \in 1..Len(watch) : Leads(sw, watch[i].key, watch[i].value, at[i - 1], at[i])

StoreAt(sw, S, E) ==
    /\ AtStage(sw, store, S)
    /\ AtStage(sw, etcd, E)
    /\ History(sw, S, E)
    /\ MaxLag = 0 => watch = <<>>

\* The copy is never ahead; with no events on their way it is up to date.
LEMMA CopyIsBehind ==
    ASSUME StoreTypeOK, NEW sw, NEW S \in Stages, NEW E \in Stages, StoreAt(sw, S, E)
    PROVE  S <= E /\ (watch = <<>> => S = E)
<1>1. PICK at \in [0..Len(watch) -> Stages] :
        /\ at[0] = S
        /\ at[Len(watch)] = E
        /\ \A i, j \in 0..Len(watch) : i <= j => at[i] <= at[j]
  BY DEF StoreAt, History
<1>2. Len(watch) \in Nat /\ (watch = <<>> => Len(watch) = 0)
  BY DEF StoreTypeOK
<1> QED BY <1>1, <1>2

\* A step that leaves etcd, the copy and the watch alone.
LEMMA StoreStays ==
    ASSUME NEW sw, NEW S, NEW E, StoreAt(sw, S, E), UNCHANGED storeVars
    PROVE  StoreAt(sw, S, E)'
BY DEF storeVars, StoreAt, AtStage, History

\* A put of what is there already.
LEMMA PutAgain ==
    ASSUME NEW k, NEW x, etcd[k] = x, Put(k, x)
    PROVE  UNCHANGED storeVars
BY DEF Put

\* Stages are ordered.
LEMMA StagesInOrder ==
    ASSUME NEW s \in Stages, NEW t \in Stages, NEW u \in Stages, s <= t, t <= u
    PROVE  s <= u
BY DEF Stages

\* A put that leads to a stage takes etcd there, and the copy too when it
\* does not lag.
LEMMA PutAdvances ==
    ASSUME StoreTypeOK, NEW sw, NEW S \in Stages, NEW E \in Stages, NEW T \in Stages,
           StoreAt(sw, S, E), NEW k \in Keys, NEW x, Leads(sw, k, x, E, T), Put(k, x),
           etcd[k] # x
    PROVE  \E U \in Stages : S <= U /\ StoreAt(sw, U, T)'
<1>0. E <= T
  BY DEF Leads, Stages
<1>1. CASE /\ Len(watch) < MaxLag
           /\ etcd' = [etcd EXCEPT ![k] = x]
           /\ watch' = Append(watch, [key |-> k, value |-> x])
           /\ UNCHANGED store
  <2>1. AtStage(sw, etcd', T)
    BY <1>1, StageWrite DEF StoreTypeOK, StoreAt
  <2>2. PICK at \in [0..Len(watch) -> Stages] :
          /\ at[0] = S
          /\ at[Len(watch)] = E
          /\ \A i, j \in 0..Len(watch) : i <= j => at[i] <= at[j]
          /\ \A i \in 1..Len(watch) : Leads(sw, watch[i].key, watch[i].value, at[i - 1], at[i])
    BY DEF StoreAt, History
  <2>3. /\ Len(watch) \in Nat
        /\ Len(watch') = Len(watch) + 1
        /\ \A i \in 1..Len(watch) : watch'[i] = watch[i]
        /\ watch'[Len(watch) + 1] = [key |-> k, value |-> x]
    BY <1>1 DEF StoreTypeOK
  <2> DEFINE n == Len(watch)
             to == [i \in 0..(n + 1) |-> IF i <= n THEN at[i] ELSE T]
  <2> HIDE DEF n
  <2>4. /\ n \in Nat
        /\ to \in [0..(n + 1) -> Stages]
        /\ to[0] = S
        /\ to[n + 1] = T
    BY <2>2, <2>3 DEF n
  <2>5. ASSUME NEW i \in 0..(n + 1), NEW j \in 0..(n + 1), i <= j
        PROVE  to[i] <= to[j]
    <3>1. CASE j \in 0..n
      <4>1. i \in 0..n /\ to[i] = at[i] /\ to[j] = at[j]
        BY <2>4, <2>5, <3>1
      <4> QED BY <2>2, <2>5, <3>1, <4>1 DEF n
    <3>2. CASE i \in 0..n /\ j = n + 1
      <4>1. to[i] = at[i] /\ to[j] = T /\ n \in 0..n
        BY <2>4, <3>2
      <4>2. at[i] \in Stages /\ at[i] <= E
        BY <2>2, <2>4, <3>2, <4>1 DEF n
      <4>3. at[i] <= T
        BY <1>0, <4>2, StagesInOrder
      <4> QED BY <4>1, <4>3
    <3>3. CASE i = n + 1 /\ j = n + 1
      BY <2>4, <3>3 DEF Stages
    <3> QED BY <2>4, <2>5, <3>1, <3>2, <3>3
  <2>6. ASSUME NEW i \in 1..(n + 1)
        PROVE  Leads(sw, watch'[i].key, watch'[i].value, to[i - 1], to[i])
    <3>1. CASE i \in 1..n
      <4>1. to[i - 1] = at[i - 1] /\ to[i] = at[i] /\ watch'[i] = watch[i]
        BY <2>3, <2>4, <3>1 DEF n
      <4> QED BY <2>2, <3>1, <4>1 DEF n
    <3>2. CASE i = n + 1
      <4>1. to[i - 1] = E /\ to[i] = T
        BY <2>2, <2>4, <3>2 DEF n
      <4>2. watch'[i].key = k /\ watch'[i].value = x
        BY <2>3, <3>2 DEF n
      <4> QED BY <4>1, <4>2
    <3> QED BY <2>4, <3>1, <3>2
  <2>7. Len(watch') = n + 1
    BY <2>3 DEF n
  <2> HIDE DEF to
  <2>8. History(sw, S, T)'
    BY <2>4, <2>5, <2>6, <2>7 DEF History
  <2>9. MaxLag # 0 /\ AtStage(sw, store', S)
    BY <1>1, <2>3 DEF StoreAt
  <2>10. StoreAt(sw, S, T)'
    BY <2>1, <2>8, <2>9 DEF StoreAt, AtStage
  <2> QED BY <2>10 DEF Stages
<1>2. CASE /\ MaxLag = 0
           /\ etcd' = [etcd EXCEPT ![k] = x]
           /\ store' = [store EXCEPT ![k] = x]
           /\ UNCHANGED watch
  <2>1. watch = <<>> /\ S = E
    BY <1>2, CopyIsBehind DEF StoreAt
  <2>2. AtStage(sw, etcd', T) /\ AtStage(sw, store', T)
    BY <1>2, <2>1, StageWrite DEF StoreTypeOK, StoreAt
  <2>3. History(sw, T, T)'
    <3>1. watch' = <<>> /\ Len(watch') = 0
      BY <1>2, <2>1
    <3> DEFINE to == [i \in 0..0 |-> T]
    <3>2. /\ to \in [0..Len(watch') -> Stages]
          /\ to[0] = T /\ to[Len(watch')] = T
          /\ \A i, j \in 0..Len(watch') : i <= j => to[i] <= to[j]
          /\ 1..Len(watch') = {}
      BY <3>1 DEF Stages
    <3> QED BY <3>2 DEF History
  <2>4. StoreAt(sw, T, T)'
    BY <1>2, <2>1, <2>2, <2>3 DEF StoreAt, AtStage
  <2> QED BY <1>0, <2>1, <2>4
<1> QED BY <1>1, <1>2 DEF Put

\* The delivery of an event takes the copy towards etcd.
LEMMA DeliverAdvances ==
    ASSUME StoreTypeOK, NEW sw, NEW S \in Stages, NEW E \in Stages, StoreAt(sw, S, E), Deliver
    PROVE  \E U \in Stages : S <= U /\ StoreAt(sw, U, E)'
<1>1. PICK at \in [0..Len(watch) -> Stages] :
        /\ at[0] = S
        /\ at[Len(watch)] = E
        /\ \A i, j \in 0..Len(watch) : i <= j => at[i] <= at[j]
        /\ \A i \in 1..Len(watch) : Leads(sw, watch[i].key, watch[i].value, at[i - 1], at[i])
  BY DEF StoreAt, History
<1> DEFINE n == Len(watch)
           to == [i \in 0..(n - 1) |-> at[i + 1]]
<1>2. /\ n \in Nat \ {0}
      /\ Head(watch) = watch[1] /\ Head(watch) \in Events
      /\ Len(watch') = n - 1
      /\ \A i \in 1..(n - 1) : watch'[i] = watch[i + 1]
  BY DEF StoreTypeOK, Deliver
<1> HIDE DEF n
<1>3. at[1] \in Stages /\ S <= at[1]
  BY <1>1, <1>2 DEF n
<1>4. AtStage(sw, store', at[1])
  <2>1. Leads(sw, Head(watch).key, Head(watch).value, S, at[1])
    BY <1>1, <1>2 DEF n
  <2>2. Head(watch).key \in Keys
    BY <1>2, EventParts
  <2> QED BY <2>1, <2>2, StageWrite DEF StoreTypeOK, StoreAt, Deliver
<1>5. History(sw, at[1], E)'
  <2>1. /\ to \in [0..(n - 1) -> Stages]
        /\ to[0] = at[1]
        /\ to[n - 1] = E
    BY <1>1, <1>2 DEF n
  <2>2. \A i, j \in 0..(n - 1) : i <= j => to[i] <= to[j]
    BY <1>1, <1>2 DEF n
  <2>3. ASSUME NEW i \in 1..(n - 1)
        PROVE  Leads(sw, watch'[i].key, watch'[i].value, to[i - 1], to[i])
    <3>1. /\ to[i - 1] = at[i] /\ to[i] = at[i + 1] /\ watch'[i] = watch[i + 1]
          /\ i + 1 \in 1..n /\ (i + 1) - 1 = i
      BY <1>2
    <3> QED BY <1>1, <3>1 DEF n
  <2> HIDE DEF to
  <2> QED BY <1>2, <2>1, <2>2, <2>3 DEF History
<1>6. StoreAt(sw, at[1], E)'
  BY <1>4, <1>5 DEF StoreAt, AtStage, Deliver
<1> QED BY <1>3, <1>6

(***************************************************************************)
(* The round                                                               *)
(***************************************************************************)
Worker(w, state, wanted, phase) ==
    service[w] = state /\ seen[w] = Managed(wanted) /\ run[w] = phase

Up(w)   == Worker(w, "active", "active", "probe")
Down(w) == Worker(w, "passive", "passive", "probe")

\* Where a worker is: one of the old group may see at stage 3 that it is to
\* stop, may report it (4), stops, and reports that (5); one of the new group
\* likewise starts.
WorkerAt(sw, s, w) ==
    IF w[1] = sw.from
    THEN \/ s <= 3 /\ Up(w)
         \/ s = 3  /\ Worker(w, "active", "passive", "probe")
         \/ s \in {3, 4} /\ Worker(w, "active", "passive", "set")
         \/ s >= 3 /\ Down(w)
    ELSE IF w[1] = sw.to
    THEN \/ s <= 6 /\ Down(w)
         \/ s = 6  /\ Worker(w, "passive", "active", "probe")
         \/ s \in {6, 7} /\ Worker(w, "passive", "active", "set")
         \/ s >= 6 /\ Up(w)
    ELSE Down(w)

\* What a pass collects about a group from a copy at stage s, and at stage p
\* when it reads the priority.
RuntimeAt(sw, s, p, g) ==
    [priority |-> PriorityAt(sw, p, g), desired |-> StateAt(sw, s, g),
     managed |-> TRUE, actual |-> ReportAt(sw, s, g)]

\* The stages that a pass in progress may have seen: the drain is written by
\* one that saw the swap begin, the activation by one that saw the old group
\* down, and the next pass begins after that.
Seen(S, E) == {s \in Stages : s <= S /\ (E >= 3 => s >= 1) /\ (E >= 6 => s >= 5)}

\* What a pass has collected about a group.
Collects(sw, S, E, g) ==
    \E s, p \in Seen(S, E) : s <= p /\ rt[g] = RuntimeAt(sw, s, p, g)

PassAt(sw, S, E) ==
    /\ pc \in {"idle", "collect", "priority", "passivate"}
    /\ pc \in {"collect", "priority"} =>
         /\ DOMAIN rt = Groups \ todo
         /\ \A g \in Groups \ todo : Collects(sw, S, E, g)
    /\ pc = "passivate" => \A g \in todo : StateAt(sw, E, g) = "passive"

\* The writes of the swap that are not in etcd yet.
SwapLeft(sw, s) ==
    IF s = 0 THEN <<Write(Priority(sw.to), sw.ranks[sw.from]),
                    Write(Priority(sw.from), sw.ranks[sw.to])>>
    ELSE IF s = 1 THEN <<Write(Priority(sw.from), sw.ranks[sw.to])>>
    ELSE <<>>

\* A command is accepted when the last switchover is over, and executes when
\* no pass is in progress.
CommandsAt(sw, S, E) ==
    /\ queue # <<>> =>
         /\ job = NoJob
         /\ S = 8
         /\ \E g \in Groups \ {sw.to} : queue = <<[type |-> "promote", group |-> g]>>
    /\ job = NoJob => E >= 2
    /\ job # NoJob =>
         /\ pc = "idle"
         /\ E <= 2
         /\ job = [group |-> sw.to, plan |-> SwapLeft(sw, E), activate |-> TRUE]

InRound(sw, S, E) ==
    /\ StoreAt(sw, S, E)
    /\ S \in Seen(S, E)
    /\ \A w \in Workers : WorkerAt(sw, E, w)
    /\ CommandsAt(sw, S, E)
    /\ PassAt(sw, S, E)

Round == \E sw \in Switches, S, E \in Stages : InRound(sw, S, E)

(***************************************************************************)
(* Parts of the round that a step leaves alone                             *)
(***************************************************************************)
LEMMA WorkersStay ==
    ASSUME NEW sw, NEW E, NEW w \in Workers, WorkerAt(sw, E, w), UNCHANGED agentVars
    PROVE  WorkerAt(sw, E, w)'
BY DEF agentVars, WorkerAt, Worker, Up, Down

\* A pass in progress goes on while the copy and etcd advance, except across
\* the drain and the activation.
LEMMA PassLater ==
    ASSUME NEW sw, NEW S \in Stages, NEW U \in Stages, NEW E \in Stages, NEW T \in Stages,
           S <= U, E >= 3 <=> T >= 3, E >= 6 <=> T >= 6,
           S \in Seen(S, E), PassAt(sw, S, E), UNCHANGED <<pc, todo, rt>>
    PROVE  U \in Seen(U, T) /\ PassAt(sw, U, T)'
<1>1. Seen(S, E) \subseteq Seen(U, T) /\ U \in Seen(U, T)
  BY DEF Seen, Stages
<1>2. ASSUME pc' \in {"collect", "priority"}
      PROVE  /\ DOMAIN rt' = Groups \ todo'
             /\ \A g \in Groups \ todo' : Collects(sw, U, T, g)'
  BY <1>1, <1>2 DEF PassAt, Collects
<1>3. ASSUME pc' = "passivate" PROVE \A g \in todo' : StateAt(sw, T, g) = "passive"
  BY <1>3 DEF PassAt, StateAt, Stages
<1> QED BY <1>1, <1>2, <1>3 DEF PassAt

\* The consumer and its queue stay as they are while the copy advances, and
\* between commands while etcd does.
LEMMA CommandsLater ==
    ASSUME NEW sw, NEW S \in Stages, NEW U \in Stages, NEW E \in Stages, NEW T \in Stages,
           S <= U, T = E \/ (job = NoJob /\ T >= 2), CommandsAt(sw, S, E),
           UNCHANGED <<queue, job>>, job = NoJob \/ pc' = pc
    PROVE  CommandsAt(sw, U, T)'
BY DEF CommandsAt, Stages

\* A step that touches nothing that the round is about.
LEMMA RoundStays ==
    ASSUME NEW sw \in Switches, NEW S \in Stages, NEW E \in Stages, InRound(sw, S, E),
           UNCHANGED <<storeVars, pc, todo, rt, queue, job, agentVars>>
    PROVE  InRound(sw, S, E)'
<1>1. StoreAt(sw, S, E)'
  BY StoreStays DEF InRound
<1>2. PassAt(sw, S, E)' /\ CommandsAt(sw, S, E)'
  <2>1. PassAt(sw, S, E)'
    BY PassLater DEF InRound, Stages
  <2>2. CommandsAt(sw, S, E)'
    BY CommandsLater DEF InRound, Stages
  <2> QED BY <2>1, <2>2
<1>3. ASSUME NEW w \in Workers PROVE WorkerAt(sw, E, w)'
  BY WorkersStay DEF InRound
<1> QED BY <1>1, <1>2, <1>3 DEF InRound

\* Without errors a request is a put.
LEMMA NoErrors ==
    ASSUME ~WritesMayFail, NEW k, NEW x, NEW ok \in BOOLEAN, TryPut(k, x, ok)
    PROVE  ok /\ Put(k, x)
BY DEF TryPut

\* An event arrives.
LEMMA DeliverKeepsRound ==
    ASSUME TypeOK, Round, DeliverEvent
    PROVE  Round'
<1>1. PICK sw \in Switches, S \in Stages, E \in Stages : InRound(sw, S, E)
  BY DEF Round
<1>2. PICK U \in Stages : S <= U /\ StoreAt(sw, U, E)'
  BY <1>1, DeliverAdvances DEF TypeOK, InRound, DeliverEvent
<1>3. U \in Seen(U, E) /\ PassAt(sw, U, E)' /\ CommandsAt(sw, U, E)'
  BY <1>1, <1>2, PassLater, CommandsLater DEF InRound, DeliverEvent, ctlVars, cmdVars
<1>4. ASSUME NEW w \in Workers PROVE WorkerAt(sw, E, w)'
  BY <1>1, WorkersStay DEF InRound, DeliverEvent
<1>5. InRound(sw, U, E)'
  BY <1>2, <1>3, <1>4 DEF InRound
<1> QED BY <1>5 DEF Round

(***************************************************************************)
(* The workers                                                             *)
(***************************************************************************)
\* What Planned says of the workers: one in each group, and no faults.
LEMMA OneWorker ==
    ASSUME Planned
    PROVE  /\ \A v, w \in Workers : v[1] = w[1] => v = w
           /\ \A w \in Workers : w[1] \in Groups /\ w[2] \in Roles
BY DEF Planned, Workers

\* A worker that takes no step is where it was.
LEMMA WorkerWaits ==
    ASSUME NEW sw, NEW E, NEW w \in Workers, WorkerAt(sw, E, w),
           service'[w] = service[w], seen'[w] = seen[w], run'[w] = run[w]
    PROVE  WorkerAt(sw, E, w)'
BY DEF WorkerAt, Worker, Up, Down

\* A step of one worker that changes neither etcd nor the copy.
LEMMA WorkerMoves ==
    ASSUME NEW sw \in Switches, NEW S \in Stages, NEW E \in Stages, InRound(sw, S, E),
           NEW w \in Workers, WorkerAt(sw, E, w)', UNCHANGED <<storeVars, ctlVars, cmdVars>>,
           \A v \in Workers \ {w} :
             /\ service'[v] = service[v]
             /\ seen'[v] = seen[v]
             /\ run'[v] = run[v]
    PROVE  InRound(sw, S, E)'
<1>1. StoreAt(sw, S, E)'
  BY StoreStays DEF InRound
<1>2. PassAt(sw, S, E)' /\ CommandsAt(sw, S, E)'
  <2>1. PassAt(sw, S, E)'
    BY PassLater DEF InRound, Stages, ctlVars
  <2>2. CommandsAt(sw, S, E)'
    BY CommandsLater DEF InRound, Stages, ctlVars, cmdVars
  <2> QED BY <2>1, <2>2
<1>3. ASSUME NEW v \in Workers \ {w} PROVE WorkerAt(sw, E, v)'
  BY WorkerWaits DEF InRound
<1> QED BY <1>1, <1>2, <1>3 DEF InRound

\* A worker sees the drain, or the activation.
LEMMA ObserveKeepsRound ==
    ASSUME Planned, TypeOK, Round, NEW w \in Workers, Observe(w), UNCHANGED <<ctlVars, cmdVars>>
    PROVE  Round'
<1>1. PICK sw \in Switches, S \in Stages, E \in Stages : InRound(sw, S, E)
  BY DEF Round
<1>2. WorkerAt(sw, E, w) /\ etcd[Desired(w[1])] = Managed(StateAt(sw, E, w[1]))
  BY <1>1, OneWorker DEF InRound, StoreAt, AtStage
<1>3. \/ /\ w[1] = sw.from /\ E = 3 /\ Up(w)
      \/ /\ w[1] = sw.to /\ w[1] # sw.from /\ E = 6 /\ Down(w)
  <2>1. seen[w] # Managed(StateAt(sw, E, w[1]))
    BY <1>2 DEF Observe, WorkerAt, Worker, Up, Down
  <2> QED BY <1>2, <2>1 DEF WorkerAt, Worker, Up, Down, StateAt, Stages, Switches
<1>4. WorkerAt(sw, E, w)'
  BY <1>2, <1>3 DEF Observe, Goto, WorkerAt, Worker, Up, Down, StateAt, TypeOK, AgentTypeOK
<1>5. InRound(sw, S, E)'
  BY <1>1, <1>4, WorkerMoves DEF Observe, Goto, TypeOK, AgentTypeOK
<1> QED BY <1>5 DEF Round

\* The service of the old group stops, or that of the new one starts.
LEMMA SetKeepsRound ==
    ASSUME Planned, TypeOK, Round, NEW w \in Workers, SetService(w), UNCHANGED <<ctlVars, cmdVars>>
    PROVE  Round'
<1>1. PICK sw \in Switches, S \in Stages, E \in Stages : InRound(sw, S, E)
  BY DEF Round
<1>2. WorkerAt(sw, E, w)
  BY <1>1 DEF InRound
<1>3. \/ w[1] = sw.from /\ E \in {3, 4} /\ Worker(w, "active", "passive", "set")
      \/ /\ w[1] = sw.to /\ w[1] # sw.from
         /\ E \in {6, 7} /\ Worker(w, "passive", "active", "set")
  BY <1>2 DEF SetService, WorkerAt, Worker, Up, Down
<1>4. /\ service'[w] = seen[w].state
      /\ seen'[w] = seen[w]
      /\ run'[w] = "probe"
  BY DEF SetService, Goto, TypeOK, AgentTypeOK
<1>5. WorkerAt(sw, E, w)'
  BY <1>3, <1>4, ManagedDocs DEF WorkerAt, Worker, Up, Down
<1>6. InRound(sw, S, E)'
  BY <1>1, <1>5, WorkerMoves DEF SetService, Goto, TypeOK, AgentTypeOK
<1> QED BY <1>6 DEF Round

\* A report that etcd does not hold yet takes the switchover to its next
\* stage, T.
LEMMA ReportAdvances ==
    ASSUME Planned, TypeOK, NEW sw \in Switches, NEW S \in Stages, NEW E \in Stages,
           NEW T \in Stages, InRound(sw, S, E), NEW w \in Workers, NEW x \in Reports,
           Put(RoleKey(w[1], w[2]), x), etcd[RoleKey(w[1], w[2])] # x,
           Leads(sw, RoleKey(w[1], w[2]), x, E, T),
           E >= 3, E >= 6 <=> T >= 6, UNCHANGED <<ctlVars, cmdVars>>,
           \A v \in Workers : WorkerAt(sw, T, v)'
    PROVE  Round'
<1>1. RoleKey(w[1], w[2]) \in Keys
  BY OneWorker, KeysOfRole
<1>2. PICK U \in Stages : S <= U /\ StoreAt(sw, U, T)'
  BY <1>1, PutAdvances DEF TypeOK, InRound
<1>3. E <= T
  BY DEF Leads, Stages
<1>4. job = NoJob
  BY DEF InRound, CommandsAt, Stages
<1>5. U \in Seen(U, T) /\ PassAt(sw, U, T)' /\ CommandsAt(sw, U, T)'
  <2>1. S \in Seen(S, E) /\ PassAt(sw, S, E) /\ CommandsAt(sw, S, E)
    BY DEF InRound
  <2>2. UNCHANGED <<pc, todo, rt, queue, job>>
    BY DEF ctlVars, cmdVars
  <2>3. (E >= 3 <=> T >= 3) /\ T >= 2
    BY <1>3 DEF Stages
  <2>4. U \in Seen(U, T) /\ PassAt(sw, U, T)'
    BY <1>2, <2>1, <2>2, <2>3, PassLater
  <2>5. CommandsAt(sw, U, T)'
    BY <1>2, <1>4, <2>1, <2>2, <2>3, CommandsLater
  <2> QED BY <2>4, <2>5
<1>6. InRound(sw, U, T)'
  BY <1>2, <1>5 DEF InRound
<1> QED BY <1>6 DEF Round

\* The other workers are where they were.
LEMMA OthersStay ==
    ASSUME Planned, TypeOK, NEW sw \in Switches, NEW E \in Stages, NEW T \in Stages,
           NEW w \in Workers,
           \/ w[1] = sw.from /\ E \in {3, 4} /\ T \in {4, 5}
           \/ w[1] = sw.to /\ E \in {6, 7} /\ T \in {7, 8},
           \A v \in Workers : WorkerAt(sw, E, v),
           NEW v \in Workers \ {w},
           service'[v] = service[v], seen'[v] = seen[v], run'[v] = run[v]
    PROVE  WorkerAt(sw, T, v)'
<1>1. v[1] # w[1]
  BY OneWorker
<1>2. WorkerAt(sw, E, v) /\ sw.from # sw.to
  BY DEF Switches
<1>3. WorkerAt(sw, T, v)
  <2>1. CASE w[1] = sw.from /\ E \in {3, 4} /\ T \in {4, 5}
    BY <1>1, <1>2, <2>1 DEF WorkerAt
  <2>2. CASE w[1] = sw.to /\ E \in {6, 7} /\ T \in {7, 8}
    BY <1>1, <1>2, <2>2 DEF WorkerAt
  <2> QED BY <2>1, <2>2
<1> QED BY <1>3, WorkerWaits

\* A probe that finds what is wanted reports it: what etcd holds already, or
\* the end of the stop or of the start.
LEMMA ProbeOkKeepsRound ==
    ASSUME Planned, TypeOK, Round, NEW w \in Workers, ProbeOk(w), UNCHANGED <<ctlVars, cmdVars>>
    PROVE  Round'
<1>1. PICK sw \in Switches, S \in Stages, E \in Stages : InRound(sw, S, E)
  BY DEF Round
<1>2. /\ \A v \in Workers : WorkerAt(sw, E, v)
      /\ etcd[RoleKey(w[1], w[2])] = ReportAt(sw, E, w[1])
  BY <1>1, OneWorker DEF InRound, StoreAt, AtStage
<1>3. PICK r : Roles = {r}
  BY DEF Planned
<1>4. sw.from # sw.to /\ w[2] = r
  BY <1>3, OneWorker DEF Switches
<1> DEFINE x == seen[w].state
<1>5. /\ Put(RoleKey(w[1], w[2]), x) \/ UNCHANGED storeVars
      /\ UNCHANGED agentVars
  BY DEF ProbeOk, Report, agentVars
<1>6. \/ Up(w) /\ x = "active"
      \/ Down(w) /\ x = "passive"
  BY <1>2, ManagedDocs DEF ProbeOk, WorkerAt, Worker, Up, Down
<1> HIDE DEF x
<1>7. CASE x = ReportAt(sw, E, w[1]) \/ UNCHANGED storeVars
  <2>1. UNCHANGED storeVars
    BY <1>2, <1>5, <1>7, PutAgain
  <2>2. InRound(sw, S, E)'
    BY <1>1, <1>5, <2>1, RoundStays DEF ctlVars, cmdVars
  <2> QED BY <2>2 DEF Round
<1>8. CASE /\ w[1] = sw.from /\ E \in {3, 4} /\ x = "passive"
           /\ Put(RoleKey(w[1], w[2]), x)
  <2>1. Leads(sw, RoleKey(w[1], w[2]), x, E, 5)
    BY <1>3, <1>4, <1>8, ReportLeads
  <2>2. WorkerAt(sw, 5, w)'
    BY <1>5, <1>6, <1>8 DEF agentVars, WorkerAt, Worker, Up, Down
  <2>3. 5 \in Stages /\ 5 \in {4, 5}
    BY DEF Stages
  <2>4. \A v \in Workers : WorkerAt(sw, 5, v)'
    BY <1>2, <1>5, <1>8, <2>2, <2>3, OthersStay DEF agentVars
  <2>5. x # ReportAt(sw, E, w[1]) /\ x \in Reports
    BY <1>8 DEF ReportAt, Reports, Actuals
  <2>6. E >= 3 /\ (E >= 6 <=> 5 >= 6)
    BY <1>8
  <2> QED BY <1>1, <1>2, <1>8, <2>1, <2>3, <2>4, <2>5, <2>6, ReportAdvances
<1>9. CASE /\ w[1] = sw.to /\ E \in {6, 7} /\ x = "active"
           /\ Put(RoleKey(w[1], w[2]), x)
  <2>1. Leads(sw, RoleKey(w[1], w[2]), x, E, 8)
    BY <1>3, <1>4, <1>9, ReportLeads
  <2>2. WorkerAt(sw, 8, w)'
    BY <1>4, <1>5, <1>6, <1>9 DEF agentVars, WorkerAt, Worker, Up, Down
  <2>3. 8 \in Stages /\ 8 \in {7, 8}
    BY DEF Stages
  <2>4. \A v \in Workers : WorkerAt(sw, 8, v)'
    BY <1>2, <1>5, <1>9, <2>2, <2>3, OthersStay DEF agentVars
  <2>5. x # ReportAt(sw, E, w[1]) /\ x \in Reports
    BY <1>4, <1>9 DEF ReportAt, Reports, Actuals
  <2>6. E >= 3 /\ (E >= 6 <=> 8 >= 6)
    BY <1>9
  <2> QED BY <1>1, <1>2, <1>9, <2>1, <2>3, <2>4, <2>5, <2>6, ReportAdvances
<1>10. \/ x = ReportAt(sw, E, w[1])
       \/ w[1] = sw.from /\ E \in {3, 4} /\ x = "passive"
       \/ w[1] = sw.to /\ E \in {6, 7} /\ x = "active"
  <2>1. WorkerAt(sw, E, w) /\ (Up(w) => x = "active") /\ (Down(w) => x = "passive")
    BY <1>2, <1>6, ManagedDocs DEF Up, Down, Worker
  <2> QED BY <1>4, <1>6, <2>1 DEF WorkerAt, ReportAt, Worker, Up, Down, Stages
<1> QED BY <1>5, <1>7, <1>8, <1>9, <1>10

\* A probe that does not reports that the service is about to stop, or start,
\* unless the report is skipped.
LEMMA ProbeMismatchKeepsRound ==
    ASSUME Planned, TypeOK, Round, NEW w \in Workers, ProbeMismatch(w),
           UNCHANGED <<ctlVars, cmdVars>>
    PROVE  Round'
<1>1. PICK sw \in Switches, S \in Stages, E \in Stages : InRound(sw, S, E)
  BY DEF Round
<1>2. /\ \A v \in Workers : WorkerAt(sw, E, v)
      /\ etcd[RoleKey(w[1], w[2])] = ReportAt(sw, E, w[1])
  BY <1>1, OneWorker DEF InRound, StoreAt, AtStage
<1>3. PICK r : Roles = {r}
  BY DEF Planned
<1>4. sw.from # sw.to /\ w[2] = r
  BY <1>3, OneWorker DEF Switches
<1>5. \/ w[1] = sw.from /\ E = 3 /\ Worker(w, "active", "passive", "probe")
      \/ w[1] = sw.to /\ E = 6 /\ Worker(w, "passive", "active", "probe")
  BY <1>2, <1>4, ManagedDocs DEF ProbeMismatch, WorkerAt, Worker, Up, Down
<1> DEFINE x == IF seen[w].state = "active" THEN "starting" ELSE "stopping"
<1>6. /\ Put(RoleKey(w[1], w[2]), x) \/ UNCHANGED storeVars
      /\ service' = service /\ seen' = seen /\ run' = [run EXCEPT ![w] = "set"]
  BY <1>5, ManagedDocs DEF ProbeMismatch, Report, Goto, Worker
<1>7. run'[w] = "set" /\ \A v \in Workers \ {w} : run'[v] = run[v]
  BY <1>6 DEF TypeOK, AgentTypeOK
<1>8. CASE UNCHANGED storeVars
  <2>1. WorkerAt(sw, E, w)'
    BY <1>4, <1>5, <1>6, <1>7 DEF WorkerAt, Worker
  <2>2. InRound(sw, S, E)'
    BY <1>1, <1>6, <1>7, <1>8, <2>1, WorkerMoves
  <2> QED BY <2>2 DEF Round
<1>9. CASE /\ w[1] = sw.from /\ E = 3 /\ Worker(w, "active", "passive", "probe")
           /\ Put(RoleKey(w[1], w[2]), x)
  <2>1. x = "stopping"
    BY <1>9, ManagedDocs DEF Worker
  <2> HIDE DEF x
  <2>2. Leads(sw, RoleKey(w[1], w[2]), x, 3, 4)
    BY <1>3, <1>4, <1>9, <2>1, ReportLeads
  <2>3. WorkerAt(sw, 4, w)'
    BY <1>6, <1>7, <1>9 DEF WorkerAt, Worker
  <2>4. 4 \in Stages /\ 4 \in {4, 5}
    BY DEF Stages
  <2>5. \A v \in Workers : WorkerAt(sw, 4, v)'
    BY <1>2, <1>6, <1>7, <1>9, <2>3, <2>4, OthersStay
  <2>6. x # ReportAt(sw, E, w[1]) /\ x \in Reports
    BY <1>9, <2>1 DEF ReportAt, Reports, Actuals
  <2> QED BY <1>1, <1>2, <1>9, <2>2, <2>4, <2>5, <2>6, ReportAdvances
<1>10. CASE /\ w[1] = sw.to /\ E = 6 /\ Worker(w, "passive", "active", "probe")
            /\ Put(RoleKey(w[1], w[2]), x)
  <2>1. x = "starting"
    BY <1>10, ManagedDocs DEF Worker
  <2> HIDE DEF x
  <2>2. Leads(sw, RoleKey(w[1], w[2]), x, 6, 7)
    BY <1>3, <1>4, <1>10, <2>1, ReportLeads
  <2>3. WorkerAt(sw, 7, w)'
    BY <1>4, <1>6, <1>7, <1>10 DEF WorkerAt, Worker
  <2>4. 7 \in Stages /\ 7 \in {7, 8}
    BY DEF Stages
  <2>5. \A v \in Workers : WorkerAt(sw, 7, v)'
    BY <1>2, <1>6, <1>7, <1>10, <2>3, <2>4, OthersStay
  <2>6. x # ReportAt(sw, E, w[1]) /\ x \in Reports
    BY <1>4, <1>10, <2>1 DEF ReportAt, Reports, Actuals
  <2> QED BY <1>1, <1>2, <1>10, <2>2, <2>4, <2>5, <2>6, ReportAdvances
<1> QED BY <1>5, <1>6, <1>8, <1>9, <1>10

\* No worker fails.
LEMMA NoFaults ==
    ASSUME Planned, Round, NEW w \in Workers
    PROVE  ~AgentFault(w)
<1>1. PICK sw \in Switches, S \in Stages, E \in Stages : WorkerAt(sw, E, w)
  BY DEF Round, InRound
<1>2. run[w] # "off"
  BY <1>1 DEF WorkerAt, Worker, Up, Down
<1> QED BY <1>2 DEF Planned, AgentFault, SetFails, GiveUp, ServiceCrashes, AgentLost, AgentReturns

(***************************************************************************)
(* The commands                                                            *)
(***************************************************************************)
\* Once the swap is done, the group switched to has the best priority.
LEMMA BestAfterSwap ==
    ASSUME NEW sw \in Switches, NEW s \in Stages, s >= 2, AtStage(sw, store, s),
           NEW t \in Groups
    PROVE  BestOf(Groups, t) <=> t = sw.to
<1>1. /\ sw.from \in Groups /\ sw.to \in Groups /\ sw.from # sw.to
      /\ \A g \in Groups : sw.ranks[g] \in Int
  BY DEF Switches, Priorities
<1>2. \A g \in Groups : PriorityOf(g) = IF g = sw.to THEN sw.ranks[sw.from]
                                        ELSE IF g = sw.from THEN sw.ranks[sw.to]
                                        ELSE sw.ranks[g]
  BY DEF PriorityOf, AtStage, PriorityAt, Stages
<1>3. ASSUME NEW g \in Groups \ {sw.to} PROVE PriorityOf(sw.to) < PriorityOf(g)
  BY <1>1, <1>2 DEF Switches
<1>4. \A g \in Groups : g \in Int /\ PriorityOf(g) \in Int
  BY <1>1, <1>2 DEF Groups
<1> QED BY <1>1, <1>3, <1>4 DEF BestOf

\* In a settled group the last switchover is over, also in the copy.
LEMMA SettledIsOver ==
    ASSUME Planned, TypeOK, NEW sw \in Switches, NEW S \in Stages, NEW E \in Stages,
           InRound(sw, S, E), Settled
    PROVE  S = 8 /\ E = 8 /\ WantsActive(sw.to)
<1>1. S = E /\ E >= 2 /\ AtStage(sw, store, E)
  BY CopyIsBehind DEF TypeOK, InRound, StoreAt, CommandsAt, Settled
<1>2. /\ sw.from \in Groups /\ sw.to \in Groups /\ sw.from # sw.to
      /\ \E r : r \in Roles
  BY DEF Switches, Planned
<1>3. \A g \in Groups : ReportAt(sw, E, g) = StateAt(sw, E, g)
  BY <1>1, <1>2, ManagedDocs DEF Settled, AtStage
<1>4. E \in {2, 5, 8}
  BY <1>1, <1>2, <1>3 DEF ReportAt, StateAt, Stages
<1>5. \A g \in Groups : WantsActive(g) <=> StateAt(sw, E, g) = "active"
  BY <1>1, ManagedDocs DEF WantsActive, AtStage
<1>6. BestOf(Groups, sw.to)
  BY <1>1, <1>2, BestAfterSwap
<1>7. ~BestOf(Groups, sw.from)
  BY <1>1, <1>2, BestAfterSwap
<1>8. E # 2 /\ WantsActive(sw.to)
  BY <1>2, <1>5, <1>6, <1>7 DEF Settled, StateAt
<1> QED BY <1>1, <1>2, <1>4, <1>5, <1>8 DEF StateAt

\* A command is submitted.
LEMMA SubmitKeepsRound ==
    ASSUME Planned, TypeOK, Round, OperatorStep
    PROVE  Round'
<1>1. PICK sw \in Switches, S \in Stages, E \in Stages : InRound(sw, S, E)
  BY DEF Round
<1>2. PICK type \in CommandTypes, g \in Groups :
        /\ Settled
        /\ ~(type = "promote" /\ WantsActive(g))
        /\ queue' = Append(queue, [type |-> type, group |-> g])
        /\ UNCHANGED <<storeVars, ctlVars, job, agentVars>>
  BY DEF OperatorStep, Submit, Planned
<1>3. S = 8 /\ E = 8 /\ type = "promote" /\ g # sw.to
  BY <1>1, <1>2, SettledIsOver DEF Planned
<1>4. queue = <<>> /\ job = NoJob
  BY <1>2 DEF Settled
<1>5. queue' = <<[type |-> "promote", group |-> g]>>
  BY <1>2, <1>3, <1>4
<1>6. CommandsAt(sw, S, E)'
  BY <1>2, <1>3, <1>4, <1>5 DEF CommandsAt
<1>7. StoreAt(sw, S, E)'
  BY <1>1, <1>2, StoreStays DEF InRound
<1>8. PassAt(sw, S, E)'
  BY <1>1, <1>2, PassLater DEF InRound, Stages, ctlVars
<1>9. ASSUME NEW w \in Workers PROVE WorkerAt(sw, E, w)'
  BY <1>1, <1>2, WorkersStay DEF InRound
<1>10. InRound(sw, S, E)'
  BY <1>1, <1>6, <1>7, <1>8, <1>9 DEF InRound
<1> QED BY <1>10 DEF Round

\* The end of a switchover is the beginning of the next.
NextSwitch(sw, g) ==
    [from |-> sw.to, to |-> g, ranks |-> [h \in Groups |-> PriorityAt(sw, 8, h)]]

LEMMA NextSwitchIsOne ==
    ASSUME NEW sw \in Switches, NEW g \in Groups \ {sw.to}
    PROVE  NextSwitch(sw, g) \in Switches
<1>1. /\ sw.from \in Groups /\ sw.to \in Groups /\ sw.from # sw.to
      /\ sw.ranks \in [Groups -> Priorities]
      /\ \A h \in Groups : sw.ranks[sw.from] <= sw.ranks[h]
      /\ \A i, j \in Groups : sw.ranks[i] = sw.ranks[j] => i = j
  BY DEF Switches
<1> DEFINE q == [h \in Groups |-> PriorityAt(sw, 8, h)]
<1>2. \A h \in Groups : q[h] = IF h = sw.to THEN sw.ranks[sw.from]
                               ELSE IF h = sw.from THEN sw.ranks[sw.to]
                               ELSE sw.ranks[h]
  BY DEF PriorityAt
<1>3. q \in [Groups -> Priorities]
  BY <1>1, <1>2
<1> HIDE DEF q
<1>4. \A i, j \in Groups : q[i] = q[j] => i = j
  BY <1>1, <1>2
<1>5. \A h \in Groups : q[sw.to] <= q[h]
  BY <1>1, <1>2
<1> QED BY <1>1, <1>3, <1>4, <1>5 DEF q, NextSwitch, Switches

LEMMA NextSwitchBegins ==
    ASSUME NEW sw \in Switches, NEW g \in Groups \ {sw.to}, NEW h \in Groups
    PROVE  /\ PriorityAt(NextSwitch(sw, g), 0, h) = PriorityAt(sw, 8, h)
           /\ StateAt(NextSwitch(sw, g), 0, h) = StateAt(sw, 8, h)
           /\ ReportAt(NextSwitch(sw, g), 0, h) = ReportAt(sw, 8, h)
BY DEF NextSwitch, PriorityAt, StateAt, ReportAt, Switches

\* A promote begins, and with it the next switchover.
LEMMA BeginKeepsRound ==
    ASSUME Planned, TypeOK, Round, BeginCommand, pc = "idle", UNCHANGED <<ctlVars, agentVars>>
    PROVE  Round'
<1>1. PICK sw \in Switches, S \in Stages, E \in Stages : InRound(sw, S, E)
  BY DEF Round
<1>2. S = 8 /\ E = 8
  BY <1>1, CopyIsBehind DEF TypeOK, InRound, CommandsAt, BeginCommand, Stages
<1>3. PICK g \in Groups \ {sw.to} : queue = <<[type |-> "promote", group |-> g]>>
  BY <1>1 DEF InRound, CommandsAt, BeginCommand
<1>4. queue' = <<>> /\ ExecPromote(g)
  BY <1>3 DEF BeginCommand
<1> DEFINE n == NextSwitch(sw, g)
<1>5. n \in Switches /\ n.from = sw.to /\ n.to = g
  BY NextSwitchIsOne DEF NextSwitch
<1>6. \A h \in Groups : n.ranks[h] = PriorityOf(h)
  BY <1>1, <1>2 DEF NextSwitch, PriorityOf, InRound, StoreAt, AtStage
<1>7. job' = [group |-> g, plan |-> SwapLeft(n, 0), activate |-> TRUE]
  <2>1. PICK top \in Groups :
          /\ BestOf(Groups, top)
          /\ IF PriorityOf(g) = PriorityOf(top)
             THEN Start(g, <<>>, TRUE)
             ELSE Start(g, <<Write(Priority(g), PriorityOf(top)),
                             Write(Priority(top), PriorityOf(g))>>, TRUE)
    BY <1>4 DEF ExecPromote
  <2>2. top = sw.to
    BY <1>1, <1>2, <2>1, BestAfterSwap DEF InRound, StoreAt
  <2>3. PriorityOf(g) # PriorityOf(sw.to)
    BY <1>5, <1>6 DEF Switches
  <2> HIDE DEF n
  <2> QED BY <1>5, <1>6, <2>1, <2>2, <2>3 DEF Start, SwapLeft, Switches
<1> HIDE DEF n
<1>8. CommandsAt(n, 0, 0)'
  <2>1. job' # NoJob
    BY <1>7 DEF NoJob, None, Groups
  <2> QED BY <1>4, <1>5, <1>7, <2>1 DEF CommandsAt, ctlVars
<1>9. AtStage(n, store, 0) /\ AtStage(n, etcd, 0)
  BY <1>1, <1>2, NextSwitchBegins DEF InRound, StoreAt, AtStage, n
<1>10. History(n, 0, 0)
  <2>1. PICK at \in [0..Len(watch) -> Stages] :
          /\ at[0] = 8
          /\ at[Len(watch)] = 8
          /\ \A i, j \in 0..Len(watch) : i <= j => at[i] <= at[j]
          /\ \A i \in 1..Len(watch) : Leads(sw, watch[i].key, watch[i].value, at[i - 1], at[i])
    BY <1>1, <1>2 DEF InRound, StoreAt, History
  <2>2. Len(watch) \in Nat
    BY DEF TypeOK, StoreTypeOK
  <2>3. \A i \in 0..Len(watch) : at[i] = 8
    BY <2>1, <2>2 DEF Stages
  <2>4. \A k, x : Leads(sw, k, x, 8, 8) => Leads(n, k, x, 0, 0)
    BY NextSwitchBegins DEF Leads, n
  <2> DEFINE to == [i \in 0..Len(watch) |-> 0]
  <2>5. \A i \in 1..Len(watch) : Leads(n, watch[i].key, watch[i].value, to[i - 1], to[i])
    <3> SUFFICES ASSUME NEW i \in 1..Len(watch)
                 PROVE  Leads(n, watch[i].key, watch[i].value, to[i - 1], to[i])
      OBVIOUS
    <3>1. at[i - 1] = 8 /\ at[i] = 8 /\ to[i - 1] = 0 /\ to[i] = 0
      BY <2>2, <2>3
    <3>2. Leads(sw, watch[i].key, watch[i].value, 8, 8)
      BY <2>1, <3>1
    <3> QED BY <2>4, <3>1, <3>2
  <2>6. /\ to \in [0..Len(watch) -> Stages]
        /\ to[0] = 0 /\ to[Len(watch)] = 0
        /\ \A i, j \in 0..Len(watch) : to[i] <= to[j]
    BY <2>2 DEF Stages
  <2> HIDE DEF to
  <2> QED BY <2>5, <2>6 DEF History
<1>11. StoreAt(n, 0, 0)'
  <2>1. StoreAt(n, 0, 0)
    BY <1>1, <1>9, <1>10 DEF InRound, StoreAt
  <2> QED BY <2>1, StoreStays DEF BeginCommand
<1>12. ASSUME NEW w \in Workers PROVE WorkerAt(n, 0, w)'
  <2>1. WorkerAt(n, 0, w)
    BY <1>1, <1>2, <1>5 DEF InRound, WorkerAt, Switches
  <2> QED BY <2>1, WorkersStay
<1>13. 0 \in Seen(0, 0) /\ PassAt(n, 0, 0)' /\ 0 \in Stages
  BY DEF Seen, PassAt, Stages, ctlVars
<1>14. InRound(n, 0, 0)'
  BY <1>8, <1>11, <1>12, <1>13 DEF InRound
<1> QED BY <1>5, <1>13, <1>14 DEF Round

\* A write of the swap.
LEMMA WriteKeepsRound ==
    ASSUME Planned, TypeOK, Round, ExecWrite, UNCHANGED <<ctlVars, agentVars>>
    PROVE  Round'
<1>1. PICK sw \in Switches, S \in Stages, E \in Stages : InRound(sw, S, E)
  BY DEF Round
<1>2. /\ sw.from \in Groups /\ sw.to \in Groups /\ sw.from # sw.to
      /\ sw.ranks[sw.from] # sw.ranks[sw.to]
  BY DEF Switches
<1>3. /\ job = [group |-> sw.to, plan |-> SwapLeft(sw, E), activate |-> TRUE]
      /\ queue = <<>> /\ pc = "idle"
  <2>1. job # NoJob
    BY DEF ExecWrite, NoJob
  <2> QED BY <1>1, <2>1 DEF InRound, CommandsAt
<1> DEFINE k == IF E = 0 THEN Priority(sw.to) ELSE Priority(sw.from)
           x == IF E = 0 THEN sw.ranks[sw.from] ELSE sw.ranks[sw.to]
<1>4. E \in {0, 1} /\ Head(job.plan) = Write(k, x)
  BY <1>3 DEF ExecWrite, SwapLeft, Stages
<1>5. Tail(job.plan) = SwapLeft(sw, E + 1)
  BY <1>3, <1>4 DEF SwapLeft
<1>6. /\ Put(k, x)
      /\ job' = [group |-> sw.to, plan |-> SwapLeft(sw, E + 1), activate |-> TRUE]
      /\ queue' = queue
  <2>1. PICK ok \in BOOLEAN :
          /\ TryPut(Head(job.plan).key, Head(job.plan).value, ok)
          /\ job' = IF ok /\ (Len(job.plan) > 1 \/ job.activate)
                    THEN [job EXCEPT !.plan = Tail(job.plan)]
                    ELSE NoJob
          /\ queue' = queue
    BY DEF ExecWrite
  <2>2. ok /\ Put(Head(job.plan).key, Head(job.plan).value)
    BY <2>1, NoErrors DEF Planned
  <2>3. job' = [job EXCEPT !.plan = SwapLeft(sw, E + 1)]
    BY <1>3, <1>5, <2>1, <2>2
  <2>4. Head(job.plan).key = k /\ Head(job.plan).value = x
    BY <1>4 DEF Write
  <2> QED BY <1>3, <2>1, <2>2, <2>3, <2>4
<1>7. k \in Keys /\ E + 1 \in Stages /\ Leads(sw, k, x, E, E + 1)
  BY <1>2, <1>4, KeysOfGroup, PriorityLeads DEF Stages
<1>8. etcd[k] # x
  BY <1>1, <1>2, <1>4 DEF InRound, StoreAt, AtStage, PriorityAt
<1> HIDE DEF k, x
<1>9. PICK U \in Stages : S <= U /\ StoreAt(sw, U, E + 1)'
  BY <1>1, <1>6, <1>7, <1>8, PutAdvances DEF TypeOK, InRound
<1>10. U \in Seen(U, E + 1) /\ PassAt(sw, U, E + 1)'
  BY <1>1, <1>4, <1>7, <1>9, PassLater DEF InRound, ctlVars
<1>11. job' # NoJob
  BY <1>2, <1>6 DEF NoJob, None, Groups
<1>12. CommandsAt(sw, U, E + 1)'
  BY <1>3, <1>4, <1>6, <1>11 DEF CommandsAt, ctlVars
<1>13. ASSUME NEW w \in Workers PROVE WorkerAt(sw, E + 1, w)'
  <2>1. WorkerAt(sw, E + 1, w)
    BY <1>1, <1>4 DEF InRound, WorkerAt
  <2> QED BY <2>1, WorkersStay
<1>14. InRound(sw, U, E + 1)'
  BY <1>9, <1>10, <1>12, <1>13 DEF InRound
<1> QED BY <1>7, <1>14 DEF Round

\* activateTarget leaves the switchover to the reconcile loop: the old group
\* is still active in the copy, and the new one passive in etcd already.
LEMMA ActivateKeepsRound ==
    ASSUME Planned, TypeOK, Round, ExecActivate, UNCHANGED <<ctlVars, agentVars>>
    PROVE  Round'
<1>1. PICK sw \in Switches, S \in Stages, E \in Stages : InRound(sw, S, E)
  BY DEF Round
<1>2. sw.from \in Groups /\ sw.to \in Groups /\ sw.from # sw.to
  BY DEF Switches
<1>3. /\ job = [group |-> sw.to, plan |-> SwapLeft(sw, E), activate |-> TRUE]
      /\ queue = <<>> /\ pc = "idle" /\ E <= 2
  <2>1. job # NoJob
    BY DEF ExecActivate, NoJob
  <2> QED BY <1>1, <2>1 DEF InRound, CommandsAt
<1>4. E = 2
  BY <1>3 DEF ExecActivate, SwapLeft, Stages
<1>5. S <= 2
  BY <1>1, <1>4, CopyIsBehind DEF TypeOK, InRound
<1>6. store[Desired(sw.from)] = Managed("active")
  BY <1>1, <1>2, <1>5 DEF InRound, StoreAt, AtStage, StateAt, Stages
<1>7. ~HasNoActiveGroup
  BY <1>2, <1>6, ManagedDocs DEF HasNoActiveGroup, WantsActive, IsManaged
<1>8. Put(Desired(sw.to), Managed("passive")) /\ job' = NoJob /\ queue' = queue
  BY <1>3, <1>7, NoErrors DEF ExecActivate, Planned, Managed
<1>9. etcd[Desired(sw.to)] = Managed("passive")
  BY <1>1, <1>2, <1>4 DEF InRound, StoreAt, AtStage, StateAt
<1>10. UNCHANGED storeVars
  BY <1>8, <1>9, PutAgain
<1>11. StoreAt(sw, S, E)' /\ PassAt(sw, S, E)'
  BY <1>1, <1>10, StoreStays, PassLater DEF InRound, Stages, ctlVars
<1>12. CommandsAt(sw, S, E)'
  BY <1>3, <1>4, <1>8 DEF CommandsAt
<1>13. ASSUME NEW w \in Workers PROVE WorkerAt(sw, E, w)'
  BY <1>1, WorkersStay DEF InRound
<1>14. InRound(sw, S, E)'
  BY <1>1, <1>11, <1>12, <1>13 DEF InRound
<1> QED BY <1>14 DEF Round

(***************************************************************************)
(* What a pass decides                                                     *)
(***************************************************************************)
\* A pass that has collected every group saw each at some stage.
Sight(sw, S, E) ==
    /\ DOMAIN rt = Groups
    /\ \A g \in Groups : Collects(sw, S, E, g)

LEMMA PassSees ==
    ASSUME NEW sw, NEW S, NEW E, InRound(sw, S, E), Collected
    PROVE  Sight(sw, S, E) /\ E >= 2 /\ job = NoJob
BY DEF InRound, PassAt, CommandsAt, Collected, Sight

\* What it knows of a group is what that stage, for the priority that or a
\* later one, prescribes.
LEMMA SightOf ==
    ASSUME NEW sw, NEW S, NEW E, Sight(sw, S, E), NEW g \in Groups
    PROVE  \E s, p \in Seen(S, E) :
             /\ s <= p
             /\ rt[g].priority = PriorityAt(sw, p, g)
             /\ rt[g].desired = StateAt(sw, s, g)
             /\ rt[g].managed
             /\ rt[g].actual = ReportAt(sw, s, g)
BY DEF Sight, Collects, RuntimeAt

\* All groups can be managed.
LEMMA AllCandidates ==
    ASSUME NEW sw, NEW S, NEW E, Sight(sw, S, E)
    PROVE  ManagedIn(rt) = Groups /\ AvailableIn(rt) = Groups
<1>1. \A g \in Groups : rt[g].managed /\ rt[g].actual # "failed"
  BY SightOf DEF ReportAt
<1> QED BY <1>1 DEF Sight, ManagedIn, AvailableIn, Available

\* The priorities are never all the same: a third group keeps its own.
LEMMA PrioritiesDiffer ==
    ASSUME Planned, NEW sw \in Switches, NEW S, NEW E, Sight(sw, S, E)
    PROVE  ~AllSamePriority(rt)
<1>1. PICK g \in Groups : g # sw.from /\ g # sw.to
  <2>1. N >= 3
    BY Zenon DEF Planned
  <2>2. 1 \in Groups /\ 2 \in Groups /\ 3 \in Groups
    BY <2>1, StoreAssumption DEF Groups
  <2> QED BY <2>2
<1>2. /\ sw.from \in Groups /\ sw.to \in Groups
      /\ sw.ranks[g] # sw.ranks[sw.to] /\ sw.ranks[g] # sw.ranks[sw.from]
  BY <1>1 DEF Switches
<1>3. rt[g].priority = sw.ranks[g]
  BY <1>1, SightOf DEF PriorityAt
<1>4. rt[sw.to].priority \in {sw.ranks[sw.to], sw.ranks[sw.from]}
  <2>1. PICK s \in Seen(S, E) : rt[sw.to].priority = PriorityAt(sw, s, sw.to)
    BY <1>2, SightOf
  <2> QED BY <2>1 DEF PriorityAt, Switches
<1> QED BY <1>2, <1>3, <1>4 DEF AllSamePriority, Sight

\* A pass that saw both priorities of the swap goes for the new group ...
LEMMA TargetIsNew ==
    ASSUME NEW sw \in Switches, NEW S, NEW E, Sight(sw, S, E),
           \A g \in Groups : rt[g].priority = PriorityAt(sw, 2, g),
           NEW t \in Groups, FindTarget(rt, t)
    PROVE  t = sw.to
<1>1. /\ sw.from \in Groups /\ sw.to \in Groups /\ sw.from # sw.to
      /\ \A g \in Groups : sw.ranks[g] \in Int
      /\ \A g \in Groups : sw.ranks[sw.from] <= sw.ranks[g]
      /\ \A g, h \in Groups : sw.ranks[g] = sw.ranks[h] => g = h
  BY DEF Switches, Priorities
<1>2. PriorityAt(sw, 2, t) <= PriorityAt(sw, 2, sw.to)
  BY <1>1, AllCandidates DEF FindTarget, First, Best
<1> QED BY <1>1, <1>2 DEF PriorityAt

\* ... and one that saw neither stays with the old one.
LEMMA TargetIsOld ==
    ASSUME NEW sw \in Switches, NEW E, Sight(sw, 0, E), NEW t \in Groups, FindTarget(rt, t)
    PROVE  t = sw.from
<1>1. /\ sw.from \in Groups
      /\ \A g \in Groups : sw.ranks[g] \in Int
      /\ \A g \in Groups : sw.ranks[sw.from] <= sw.ranks[g]
      /\ \A g, h \in Groups : sw.ranks[g] = sw.ranks[h] => g = h
  BY DEF Switches, Priorities
<1>2. ASSUME NEW g \in Groups PROVE rt[g].priority = sw.ranks[g]
  <2>1. PICK s \in Seen(0, E) : rt[g].priority = PriorityAt(sw, s, g)
    BY SightOf
  <2>2. s = 0
    BY DEF Seen, Stages
  <2> QED BY <2>1, <2>2 DEF PriorityAt
<1>3. rt[t].priority <= rt[sw.from].priority
  BY <1>1, AllCandidates DEF FindTarget, First, Best
<1> QED BY <1>1, <1>2, <1>3

\* Until the new group is activated a pass finds the old one, still up or on
\* its way down, or nobody because it saw the old one down.
LEMMA HolderIsOld ==
    ASSUME NEW sw \in Switches, NEW S \in Stages, NEW E \in Stages, S <= E, E <= 5,
           Sight(sw, S, E), NEW h, CurrentActive(rt, h)
    PROVE  \/ h = sw.from /\ ~Drained(rt, h)
           \/ /\ h = NoGroup
              /\ S = 5 /\ E = 5
              /\ rt[sw.from].priority = PriorityAt(sw, 5, sw.from)
<1>1. sw.from \in Groups /\ sw.to \in Groups /\ sw.from # sw.to
  BY DEF Switches
<1>2. ASSUME NEW g \in Groups \ {sw.from}
      PROVE  rt[g].desired = "passive" /\ rt[g].actual = "passive"
  <2>1. PICK s \in Seen(S, E) : /\ rt[g].desired = StateAt(sw, s, g)
                                /\ rt[g].actual = ReportAt(sw, s, g)
    BY SightOf
  <2>2. s \in Int /\ s <= 5
    BY DEF Seen, Stages
  <2> QED BY <2>1, <2>2 DEF StateAt, ReportAt
<1>3. DesiredActive(rt) \subseteq {sw.from} /\ StillRunning(rt) \subseteq {sw.from}
  <2>1. DOMAIN rt = Groups
    BY DEF Sight
  <2> QED BY <1>2, <2>1 DEF DesiredActive, StillRunning, ManagedIn
<1>4. PICK s \in Seen(S, E), p \in Seen(S, E) :
        /\ s <= p
        /\ rt[sw.from].priority = PriorityAt(sw, p, sw.from)
        /\ rt[sw.from].desired = StateAt(sw, s, sw.from)
        /\ rt[sw.from].actual = ReportAt(sw, s, sw.from)
  BY <1>1, SightOf
<1>5. s \in Stages /\ p \in Stages /\ s <= p /\ p <= S
  BY <1>4 DEF Seen
<1>6. CASE s <= 4
  <2>1. rt[sw.from].actual \in {"active", "stopping"}
    BY <1>4, <1>5, <1>6 DEF ReportAt, Stages
  <2>2. rt[sw.from].desired \in {"active", "passive"}
    BY <1>4 DEF StateAt
  <2>3. sw.from \in DesiredActive(rt) \/ sw.from \in StillRunning(rt)
    BY <1>1, <2>1, <2>2, AllCandidates DEF DesiredActive, StillRunning, Sight
  <2>4. h = sw.from
    BY <1>3, <2>3 DEF CurrentActive, First
  <2> QED BY <2>1, <2>4 DEF Drained
<1>7. CASE s = 5
  <2>1. rt[sw.from].desired = "passive" /\ rt[sw.from].actual = "passive"
    BY <1>1, <1>4, <1>7 DEF StateAt, ReportAt
  <2>2. DesiredActive(rt) = {} /\ StillRunning(rt) = {}
    BY <1>3, <2>1 DEF DesiredActive, StillRunning
  <2>3. S = 5 /\ E = 5 /\ p = 5
    BY <1>5, <1>7 DEF Stages
  <2> QED BY <1>4, <1>7, <2>2, <2>3 DEF CurrentActive
<1> QED BY <1>5, <1>6, <1>7 DEF Stages

\* Afterwards it finds the new one or nobody.
LEMMA HolderIsNew ==
    ASSUME NEW sw \in Switches, NEW S \in Stages, NEW E \in Stages, E >= 6,
           Sight(sw, S, E), NEW h, CurrentActive(rt, h)
    PROVE  h \in {sw.to, NoGroup}
<1>1. ASSUME NEW g \in Groups \ {sw.to}
      PROVE  rt[g].desired = "passive" /\ rt[g].actual = "passive"
  <2>1. PICK s \in Seen(S, E) : /\ rt[g].desired = StateAt(sw, s, g)
                                /\ rt[g].actual = ReportAt(sw, s, g)
    BY SightOf
  <2>2. s \in Int /\ s >= 5
    BY DEF Seen, Stages
  <2> QED BY <2>1, <2>2 DEF StateAt, ReportAt
<1>2. DesiredActive(rt) \subseteq {sw.to} /\ StillRunning(rt) \subseteq {sw.to}
  <2>1. DOMAIN rt = Groups
    BY DEF Sight
  <2> QED BY <1>1, <2>1 DEF DesiredActive, StillRunning, ManagedIn
<1> QED BY <1>2 DEF CurrentActive, First

\* ... and knows who the switchover is for, as does one that saw the old
\* group down.
LEMMA TargetIsKept ==
    ASSUME NEW sw \in Switches, NEW S \in Stages, NEW E \in Stages, Sight(sw, S, E),
           NEW t \in Groups, FindTarget(rt, t),
           E >= 6 \/ (E >= 3 /\ rt[sw.from].priority = PriorityAt(sw, 5, sw.from))
    PROVE  t = sw.to
<1>1. ASSUME NEW g \in Groups PROVE rt[g].priority = PriorityAt(sw, 2, g)
  <2>1. PICK s \in Seen(S, E) : rt[g].priority = PriorityAt(sw, s, g)
    BY SightOf
  <2>2. s \in Int /\ (E >= 3 => s >= 1) /\ (E >= 6 => s >= 5)
    BY DEF Seen, Stages
  <2>3. CASE g = sw.from /\ E < 6
    BY <2>3 DEF PriorityAt, Stages
  <2>4. CASE g # sw.from \/ E >= 6
    BY <2>1, <2>2, <2>4 DEF PriorityAt, Stages
  <2> QED BY <2>3, <2>4 DEF Stages
<1> QED BY <1>1, TargetIsNew

(***************************************************************************)
(* The reconcile loop                                                      *)
(***************************************************************************)
\* A step of the loop that writes nothing new.
LEMMA LoopMoves ==
    ASSUME NEW sw \in Switches, NEW S \in Stages, NEW E \in Stages, InRound(sw, S, E),
           job = NoJob, UNCHANGED <<storeVars, cmdVars, agentVars>>, PassAt(sw, S, E)'
    PROVE  Round'
<1>1. StoreAt(sw, S, E)'
  BY StoreStays DEF InRound
<1>2. CommandsAt(sw, S, E)'
  BY CommandsLater DEF InRound, Stages, cmdVars
<1>3. ASSUME NEW w \in Workers PROVE WorkerAt(sw, E, w)'
  BY WorkersStay DEF InRound
<1>4. InRound(sw, S, E)'
  BY <1>1, <1>2, <1>3 DEF InRound
<1> QED BY <1>4 DEF Round

\* The end of a pass.
LEMMA FinishedPass ==
    ASSUME NEW sw, NEW S, NEW E, FinishPass
    PROVE  PassAt(sw, S, E)'
BY DEF FinishPass, Continue, PassAt

\* writeDesiredIfChanged makes no request, or one that is answered.
LEMMA DesiredWritten ==
    ASSUME ~WritesMayFail, NEW g, NEW state, NEW ok \in BOOLEAN, WriteDesired(g, state, ok)
    PROVE  /\ ok
           /\ \/ UNCHANGED storeVars
              \/ Put(Desired(g), Managed(state)) /\ store[Desired(g)] # Managed(state)
<1>1. CASE store[Desired(g)] = Managed(state)
  BY <1>1 DEF WriteDesired, Managed
<1>2. CASE store[Desired(g)] # Managed(state)
  BY <1>2, NoErrors DEF WriteDesired, Managed
<1> QED BY <1>1, <1>2

\* Outside a pass no command is in progress when one begins; during a pass
\* none begins.
LEMMA NoJobInPass ==
    ASSUME Planned, NEW sw, NEW S, NEW E, InRound(sw, S, E), ReconcileStep
    PROVE  job = NoJob
BY DEF Planned, InRound, CommandsAt, ReconcileStep

LEMMA StartKeepsRound ==
    ASSUME Planned, TypeOK, Round, ReconcileStep, StartReconcile
    PROVE  Round'
<1>1. PICK sw \in Switches, S \in Stages, E \in Stages : InRound(sw, S, E)
  BY DEF Round
<1>2. DOMAIN rt' = {} /\ Groups \ todo' = {} /\ pc' = "collect"
  BY DEF StartReconcile, NoRuntimes
<1>3. PassAt(sw, S, E)'
  BY <1>2 DEF PassAt
<1> QED BY <1>1, <1>3, NoJobInPass, LoopMoves DEF ReconcileStep, StartReconcile

\* A group is collected as the copy shows it, and its status published.
LEMMA CollectKeepsRound ==
    ASSUME Planned, TypeOK, Round, ReconcileStep, NEW g \in Groups, CollectGroup(g)
    PROVE  Round'
<1>1. PICK sw \in Switches, S \in Stages, E \in Stages : InRound(sw, S, E)
  BY DEF Round
<1>2. PICK startingIsNewer \in BOOLEAN, ok \in BOOLEAN :
        LET doc == store[Desired(g)]
            actual == GroupActual(doc.managed,
                                  {store[RoleKey(g, r)] : r \in Roles},
                                  startingIsNewer)
            runtime == [priority |-> store[Priority(g)], desired |-> doc.state,
                        managed |-> doc.managed, actual |-> actual]
            collected == [h \in DOMAIN rt \cup {g} |-> IF h = g THEN runtime ELSE rt[h]]
        IN  \/ /\ rt' = collected
               /\ UNCHANGED <<pc, storeVars>>
            \/ /\ TryPut(Status(g), actual, ok)
               /\ IF ok
                  THEN rt' = collected /\ pc' = "priority"
                  ELSE UNCHANGED <<rt, pc>>
  BY DEF CollectGroup
<1> DEFINE doc == store[Desired(g)]
           actual == GroupActual(doc.managed,
                                 {store[RoleKey(g, r)] : r \in Roles},
                                 startingIsNewer)
           runtime == [priority |-> store[Priority(g)], desired |-> doc.state,
                       managed |-> doc.managed, actual |-> actual]
<1>3. runtime = RuntimeAt(sw, S, S, g)
  <2>1. PICK r : Roles = {r}
    BY DEF Planned
  <2>2. /\ doc = Managed(StateAt(sw, S, g))
        /\ store[Priority(g)] = PriorityAt(sw, S, g)
        /\ {store[RoleKey(g, q)] : q \in Roles} = {ReportAt(sw, S, g)}
    BY <1>1, <2>1 DEF InRound, StoreAt, AtStage
  <2>3. doc.state = StateAt(sw, S, g) /\ doc.managed = TRUE
    BY <2>2 DEF Managed, Doc
  <2>4. actual = ReportAt(sw, S, g)
    <3>1. ReportAt(sw, S, g) \in {"active", "passive", "starting", "stopping"}
      BY DEF ReportAt
    <3>2. actual = GroupActual(TRUE, {ReportAt(sw, S, g)}, startingIsNewer)
      BY <2>2, <2>3
    <3> HIDE DEF actual
    <3> QED BY <3>1, <3>2 DEF GroupActual
  <2> HIDE DEF doc, actual
  <2> QED BY <2>2, <2>3, <2>4 DEF RuntimeAt
<1> HIDE DEF runtime, actual
<1>4. /\ rt' = [h \in DOMAIN rt \cup {g} |-> IF h = g THEN runtime ELSE rt[h]]
      /\ UNCHANGED storeVars \/ Put(Status(g), actual)
  BY <1>2, NoErrors DEF Planned, runtime, actual
<1>5. /\ pc = "collect" /\ pc' \in {"collect", "priority"} /\ g \in todo /\ todo' = todo \ {g}
      /\ job = NoJob /\ UNCHANGED <<queue, job, agentVars>>
  BY <1>1, <1>2, NoJobInPass DEF CollectGroup, First, ReconcileStep, cmdVars
<1>6. S \in Seen(S, E)
  BY <1>1 DEF InRound
<1>7. ASSUME NEW U \in Stages, S <= U PROVE U \in Seen(U, E) /\ PassAt(sw, U, E)'
  <2>1. Seen(S, E) \subseteq Seen(U, E) /\ U \in Seen(U, E)
    BY <1>6, <1>7 DEF Seen, Stages
  <2>2. /\ DOMAIN rt = Groups \ todo
        /\ \A h \in Groups \ todo : Collects(sw, S, E, h)
    BY <1>1, <1>5 DEF InRound, PassAt
  <2>3. DOMAIN rt' = Groups \ todo'
    BY <1>4, <1>5, <2>2
  <2>4. ASSUME NEW h \in Groups \ todo'
        PROVE  Collects(sw, U, E, h)'
    <3>1. CASE h = g
      <4>1. S <= S /\ rt'[h] = RuntimeAt(sw, S, S, h)
        BY <1>3, <1>4, <3>1 DEF Stages
      <4> QED BY <1>6, <2>1, <4>1 DEF Collects
    <3>2. CASE h # g
      <4>1. h \in Groups \ todo /\ rt'[h] = rt[h]
        BY <1>4, <1>5, <2>2, <3>2
      <4> QED BY <2>1, <2>2, <4>1 DEF Collects
    <3> QED BY <3>1, <3>2
  <2> QED BY <1>5, <2>1, <2>3, <2>4 DEF PassAt
<1>8. \E U \in Stages : S <= U /\ StoreAt(sw, U, E)'
  <2>1. CASE UNCHANGED storeVars
    BY <1>1, <2>1, StoreStays DEF InRound, Stages
  <2>2. CASE etcd[Status(g)] # actual /\ Put(Status(g), actual)
    BY <1>1, <2>2, KeysOfGroup, StatusLeads, PutAdvances DEF TypeOK, InRound
  <2> QED BY <1>4, <2>1, <2>2, PutAgain
<1>9. PICK U \in Stages : S <= U /\ StoreAt(sw, U, E)'
  BY <1>8
<1>10. CommandsAt(sw, U, E)'
  BY <1>1, <1>5, <1>9, CommandsLater DEF InRound
<1>11. ASSUME NEW w \in Workers PROVE WorkerAt(sw, E, w)'
  BY <1>1, <1>5, WorkersStay DEF InRound
<1>12. InRound(sw, U, E)'
  BY <1>7, <1>9, <1>10, <1>11 DEF InRound
<1> QED BY <1>12 DEF Round

\* What is collected, with the priority of another stage.
LEMMA PriorityAgain ==
    ASSUME NEW sw, NEW s, NEW p, NEW q, NEW g, RuntimeAt(sw, s, p, g) \in Runtimes
    PROVE  [RuntimeAt(sw, s, p, g) EXCEPT !.priority = PriorityAt(sw, q, g)]
             = RuntimeAt(sw, s, q, g)
<1> DEFINE runtime == RuntimeAt(sw, s, p, g)
<1>1. /\ runtime.desired = StateAt(sw, s, g)
      /\ runtime.managed = TRUE
      /\ runtime.actual = ReportAt(sw, s, g)
  BY DEF RuntimeAt
<1> HIDE DEF runtime
<1>2. ASSUME runtime \in Runtimes, NEW x
      PROVE  [runtime EXCEPT !.priority = x] =
               [priority |-> x, desired |-> runtime.desired,
                managed |-> runtime.managed, actual |-> runtime.actual]
  BY <1>2 DEF Runtimes
<1>3. runtime \in Runtimes
  BY DEF runtime
<1>4. [runtime EXCEPT !.priority = PriorityAt(sw, q, g)] = RuntimeAt(sw, s, q, g)
  BY <1>1, <1>2, <1>3 DEF RuntimeAt
<1> QED BY <1>4 DEF runtime

\* The priority is read again, from a copy that may have gone on.
LEMMA ReadPriorityKeepsRound ==
    ASSUME Planned, TypeOK, Round, ReconcileStep, NEW g \in Groups, ReadPriority(g)
    PROVE  Round'
<1>1. PICK sw \in Switches, S \in Stages, E \in Stages : InRound(sw, S, E)
  BY DEF Round
<1>2. /\ g \in DOMAIN rt /\ pc = "priority" /\ pc' = "collect" /\ todo' = todo
      /\ rt' = [rt EXCEPT ![g].priority = store[Priority(g)]]
  BY DEF ReadPriority
<1>3. /\ DOMAIN rt = Groups \ todo
      /\ \A h \in Groups \ todo : Collects(sw, S, E, h)
  BY <1>1, <1>2 DEF InRound, PassAt
<1>4. store[Priority(g)] = PriorityAt(sw, S, g) /\ S \in Seen(S, E)
  BY <1>1 DEF InRound, StoreAt, AtStage
<1>5. ASSUME NEW h \in Groups \ todo PROVE Collects(sw, S, E, h)'
  <2>1. PICK s \in Seen(S, E), p \in Seen(S, E) : s <= p /\ rt[h] = RuntimeAt(sw, s, p, h)
    BY <1>3 DEF Collects
  <2>2. CASE h = g
    <3>1. rt[h] \in Runtimes
      BY <1>2, <2>2 DEF TypeOK, ControllerTypeOK
    <3>2. rt'[h] = [rt[h] EXCEPT !.priority = PriorityAt(sw, S, h)]
      BY <1>2, <1>4, <2>2
    <3>3. rt'[h] = RuntimeAt(sw, s, S, h)
      BY <2>1, <3>1, <3>2, PriorityAgain
    <3>4. s <= S
      BY DEF Seen
    <3> QED BY <1>4, <3>3, <3>4 DEF Collects
  <2>3. CASE h # g
    BY <1>2, <1>3, <2>1, <2>3 DEF Collects
  <2> QED BY <2>2, <2>3
<1>6. PassAt(sw, S, E)'
  BY <1>2, <1>3, <1>5 DEF PassAt
<1> QED BY <1>1, <1>6, NoJobInPass, LoopMoves DEF ReconcileStep, ReadPriority

\* The target is the holder: the groups to be made passive are passive.
LEMMA KeepKeepsRound ==
    ASSUME Planned, TypeOK, Round, ReconcileStep, NEW t \in Groups, KeepTarget(t)
    PROVE  Round'
<1>1. PICK sw \in Switches, S \in Stages, E \in Stages : InRound(sw, S, E)
  BY DEF Round
<1>2. S <= E /\ job = NoJob
  BY <1>1, CopyIsBehind, NoJobInPass DEF TypeOK, InRound
<1>3. Sight(sw, S, E) /\ CurrentActive(rt, t) /\ t # NoGroup
  BY <1>1, PassSees DEF KeepTarget, ActivePassive, Groups, NoGroup
<1>4. t = IF E <= 5 THEN sw.from ELSE sw.to
  BY <1>2, <1>3, HolderIsOld, HolderIsNew DEF Stages
<1>5. pc' = "passivate" /\ todo' = Groups \ {t}
  BY <1>3, AllCandidates DEF KeepTarget, Continue
<1>6. \A g \in Groups \ {t} : StateAt(sw, E, g) = "passive"
  BY <1>4 DEF StateAt, Stages
<1>7. PassAt(sw, S, E)'
  BY <1>5, <1>6 DEF PassAt
<1> QED BY <1>1, <1>2, <1>7, LoopMoves DEF ReconcileStep, KeepTarget

\* Phase 1: the drain, once the pass has seen that the swap began.
LEMMA DrainKeepsRound ==
    ASSUME Planned, TypeOK, Round, ReconcileStep, NEW h \in Groups, DrainHolder(h)
    PROVE  Round'
<1>1. PICK sw \in Switches, S \in Stages, E \in Stages : InRound(sw, S, E)
  BY DEF Round
<1>2. S <= E /\ E >= 2 /\ job = NoJob /\ Sight(sw, S, E) /\ h # NoGroup
  BY <1>1, CopyIsBehind, PassSees
     DEF TypeOK, InRound, DrainHolder, ActivePassive, Groups, NoGroup
<1>3. PICK t \in Groups, ok \in BOOLEAN :
        /\ FindTarget(rt, t)
        /\ CurrentActive(rt, h)
        /\ h # t
        /\ WriteDesired(h, "passive", ok)
  BY DEF DrainHolder, ActivePassive
<1>4. E <= 5
  BY <1>1, <1>2, <1>3, HolderIsNew, TargetIsKept DEF Stages
<1>5. h = sw.from /\ h \in Groups
  BY <1>2, <1>3, <1>4, HolderIsOld
<1>6. S >= 1
  BY <1>2, <1>3, <1>5, TargetIsOld DEF Stages
<1>7. /\ \A U, T \in Stages : PassAt(sw, U, T)'
      /\ UNCHANGED <<queue, job, agentVars>>
  BY FinishedPass DEF DrainHolder, ReconcileStep, cmdVars
<1>8. UNCHANGED storeVars \/ Put(Desired(h), Managed("passive"))
  BY <1>3, DesiredWritten DEF Planned
<1>9. CASE UNCHANGED storeVars
  BY <1>1, <1>2, <1>7, <1>9, LoopMoves DEF ReconcileStep
<1>10. CASE E = 2 /\ etcd[Desired(h)] # Managed("passive") /\ Put(Desired(h), Managed("passive"))
  <2>1. PICK U \in Stages : S <= U /\ StoreAt(sw, U, 3)'
    <3>1. Leads(sw, Desired(h), Managed("passive"), 2, 3) /\ Desired(h) \in Keys
      BY <1>5, KeysOfGroup, DesiredLeads
    <3>2. StoreTypeOK /\ StoreAt(sw, S, 2)
      BY <1>1, <1>10 DEF TypeOK, InRound
    <3>3. 2 \in Stages /\ 3 \in Stages
      BY DEF Stages
    <3> QED BY <1>10, <3>1, <3>2, <3>3, PutAdvances
  <2>2. U \in Seen(U, 3) /\ 3 \in Stages
    BY <1>6, <2>1 DEF Seen, Stages
  <2>3. queue = <<>>
    BY <1>1, <1>2, <1>10 DEF InRound, CommandsAt
  <2>4. CommandsAt(sw, U, 3)'
    BY <1>2, <1>7, <2>3 DEF CommandsAt
  <2>5. ASSUME NEW w \in Workers PROVE WorkerAt(sw, 3, w)'
    <3>1. WorkerAt(sw, 3, w)
      BY <1>1, <1>10 DEF InRound, WorkerAt
    <3> QED BY <1>7, <3>1, WorkersStay
  <2>6. InRound(sw, U, 3)'
    BY <1>7, <2>1, <2>2, <2>4, <2>5 DEF InRound
  <2> QED BY <2>2, <2>6 DEF Round
<1>11. E # 2 => etcd[Desired(h)] = Managed("passive")
  BY <1>1, <1>2, <1>4, <1>5 DEF InRound, StoreAt, AtStage, StateAt, Stages, Switches
<1> QED BY <1>8, <1>9, <1>10, <1>11, PutAgain

\* The guard ends the pass.
LEMMA GuardKeepsRound ==
    ASSUME Planned, TypeOK, Round, ReconcileStep, NEW t \in Groups, GuardActivation(t)
    PROVE  Round'
<1>1. PICK sw \in Switches, S \in Stages, E \in Stages : InRound(sw, S, E)
  BY DEF Round
<1>2. PassAt(sw, S, E)'
  BY FinishedPass DEF GuardActivation
<1> QED BY <1>1, <1>2, NoJobInPass, LoopMoves DEF ReconcileStep, GuardActivation

\* Phase 2: the new group is activated by a pass that saw the old one down
\* and nothing else up.
LEMMA ActivateTargetKeepsRound ==
    ASSUME Planned, TypeOK, Round, ReconcileStep, NEW t \in Groups, ActivateTarget(t)
    PROVE  Round'
<1>1. PICK sw \in Switches, S \in Stages, E \in Stages : InRound(sw, S, E)
  BY DEF Round
<1>2. S <= E /\ E >= 2 /\ job = NoJob /\ Sight(sw, S, E)
  BY <1>1, CopyIsBehind, PassSees DEF TypeOK, InRound, ActivateTarget, ActivePassive
<1>3. /\ FindTarget(rt, t)
      /\ \/ CurrentActive(rt, NoGroup)
         \/ \E h \in Groups \ {t} : CurrentActive(rt, h) /\ Drained(rt, h)
  BY DEF ActivateTarget, ActivePassive
<1>4. PICK ok \in BOOLEAN :
        /\ WriteDesired(t, "active", ok)
        /\ Continue(IF ok THEN "passivate" ELSE "idle",
                    IF ok THEN ManagedIn(rt) \ {t} ELSE {})
        /\ UNCHANGED <<queue, job, agentVars>>
  BY DEF ActivateTarget, ReconcileStep, cmdVars
<1>5. /\ UNCHANGED storeVars \/ Put(Desired(t), Managed("active"))
      /\ store[Desired(t)] # Managed("active") => Put(Desired(t), Managed("active"))
      /\ pc' = "passivate" /\ todo' = Groups \ {t}
  BY <1>2, <1>4, DesiredWritten, AllCandidates DEF Planned, Continue, WriteDesired, Managed, TryPut
<1>6. NoGroup \notin Groups
  BY DEF Groups, NoGroup
<1>7. t = sw.to /\ (E <= 5 => E = 5 /\ S = 5)
  <2>1. CASE E <= 5
    <3>1. PICK h : CurrentActive(rt, h) /\ (h = NoGroup \/ Drained(rt, h))
      BY <1>3
    <3>2. /\ S = 5 /\ E = 5
          /\ rt[sw.from].priority = PriorityAt(sw, 5, sw.from)
      BY <1>2, <1>6, <2>1, <3>1, HolderIsOld DEF Switches
    <3> QED BY <1>2, <1>3, <3>2, TargetIsKept
  <2>2. CASE E > 5
    BY <1>2, <1>3, <2>2, TargetIsKept DEF Stages
  <2> QED BY <2>1, <2>2 DEF Stages
<1>8. t \in Groups /\ t # sw.from /\ sw.to = t
  BY <1>7 DEF Switches
<1>9. \A g \in Groups \ {t} : StateAt(sw, 6, g) = "passive"
  BY <1>8 DEF StateAt
<1>10. \A U \in Stages, T \in 6..8 : PassAt(sw, U, T)'
  BY <1>5, <1>8 DEF PassAt, StateAt
<1>11. CASE E >= 6
  <2>1. etcd[Desired(t)] = Managed("active")
    BY <1>1, <1>8, <1>11 DEF InRound, StoreAt, AtStage, StateAt
  <2>2. UNCHANGED storeVars
    BY <1>5, <2>1, PutAgain
  <2>3. PassAt(sw, S, E)'
    BY <1>10, <1>11 DEF Stages
  <2> QED BY <1>1, <1>2, <2>2, <2>3, LoopMoves DEF ReconcileStep
<1>12. CASE E = 5 /\ S = 5
  <2>1. /\ store[Desired(t)] = Managed("passive")
        /\ etcd[Desired(t)] = Managed("passive")
    BY <1>1, <1>8, <1>12 DEF InRound, StoreAt, AtStage, StateAt
  <2>2. Put(Desired(t), Managed("active"))
    BY <1>5, <2>1, ManagedDocs
  <2>3. PICK U \in Stages : S <= U /\ StoreAt(sw, U, 6)'
    BY <1>1, <1>8, <1>12, <2>1, <2>2, ManagedDocs, KeysOfGroup, DesiredLeads, PutAdvances
       DEF TypeOK, InRound, Stages
  <2>4. U \in Seen(U, 6) /\ 6 \in Stages /\ PassAt(sw, U, 6)'
    BY <1>10, <1>12, <2>3 DEF Seen, Stages
  <2>5. queue = <<>>
    BY <1>1, <1>12 DEF InRound, CommandsAt
  <2>6. CommandsAt(sw, U, 6)'
    BY <1>2, <1>4, <2>5 DEF CommandsAt
  <2>7. ASSUME NEW w \in Workers PROVE WorkerAt(sw, 6, w)'
    <3>1. WorkerAt(sw, 6, w)
      BY <1>1, <1>12 DEF InRound, WorkerAt
    <3> QED BY <1>4, <3>1, WorkersStay
  <2>8. InRound(sw, U, 6)'
    BY <2>3, <2>4, <2>6, <2>7 DEF InRound
  <2> QED BY <2>4, <2>8 DEF Round
<1> QED BY <1>7, <1>11, <1>12 DEF Stages

\* What is made passive is passive in etcd already.
LEMMA PassivateKeepsRound ==
    ASSUME Planned, TypeOK, Round, ReconcileStep, NEW g \in Groups, PassivateNext(g)
    PROVE  Round'
<1>1. PICK sw \in Switches, S \in Stages, E \in Stages : InRound(sw, S, E)
  BY DEF Round
<1>2. PICK ok \in BOOLEAN :
        /\ WriteDesired(g, "passive", ok)
        /\ Continue(IF ok THEN "passivate" ELSE "idle", IF ok THEN todo \ {g} ELSE {})
  BY DEF PassivateNext, WriteNext
<1>3. /\ UNCHANGED storeVars \/ Put(Desired(g), Managed("passive"))
      /\ pc' = "passivate" /\ todo' = todo \ {g}
  BY <1>2, DesiredWritten DEF Planned, Continue
<1>4. /\ \A h \in todo : StateAt(sw, E, h) = "passive"
      /\ g \in todo
  BY <1>1 DEF InRound, PassAt, PassivateNext, WriteNext, First
<1>5. etcd[Desired(g)] = Managed("passive")
  BY <1>1, <1>4 DEF InRound, StoreAt, AtStage
<1>6. UNCHANGED storeVars
  BY <1>3, <1>5, PutAgain
<1>7. PassAt(sw, S, E)'
  BY <1>3, <1>4 DEF PassAt
<1> QED BY <1>1, <1>6, <1>7, NoJobInPass, LoopMoves DEF ReconcileStep

\* Any step of the loop; the decisions of other policies are never taken.
LEMMA ReconcileKeepsRound ==
    ASSUME Planned, TypeOK, Round, ReconcileStep
    PROVE  Round'
<1>1. PICK sw \in Switches, S \in Stages, E \in Stages : InRound(sw, S, E)
  BY DEF Round
<1>2. ~BeginFailover
  BY DEF Planned, BeginFailover, Failover
<1>3. ~BeginActivateAll
  BY <1>1, PassSees, PrioritiesDiffer DEF BeginActivateAll
<1>4. ~NoTarget
  <2>1. Groups # {}
    BY <1>1 DEF Switches
  <2> QED BY <1>1, <2>1, PassSees, AllCandidates DEF NoTarget
<1>5. ASSUME NEW g \in Groups PROVE ~SwapPriority(g) /\ ~ActivateNext(g)
  BY <1>1 DEF InRound, PassAt, SwapPriority, ActivateNext, WriteNext
<1>6. CASE EndPass
  <2>1. PassAt(sw, S, E)'
    BY <1>6, FinishedPass DEF EndPass
  <2> QED BY <1>1, <1>6, <2>1, NoJobInPass, LoopMoves DEF ReconcileStep, EndPass
<1> QED BY <1>2, <1>3, <1>4, <1>5, <1>6, StartKeepsRound, CollectKeepsRound, ReadPriorityKeepsRound,
           KeepKeepsRound,
           DrainKeepsRound, GuardKeepsRound, ActivateTargetKeepsRound, PassivateKeepsRound
        DEF ReconcileStep, ControllerStep

(***************************************************************************)
(* The round is an invariant                                               *)
(***************************************************************************)
\* The initial state is the end of a switchover to the group that is active,
\* from any other.
LEMMA RoundInit == ASSUME Planned, Init PROVE \E sw \in Switches : InRound(sw, 8, 8)
<1>1. PICK desired \in InitialDesired, priority \in InitialPriority :
        /\ etcd = [k \in Keys |-> InitialValue(desired, priority, k)]
        /\ AgentInit(desired)
  BY DEF Init
<1>2. /\ priority \in [Groups -> Priorities]
      /\ \A g, h \in Groups : priority[g] = priority[h] => g = h
  BY SwitchoverAssumption DEF Planned
<1>3. PICK top \in Groups :
        /\ \A g \in Groups : priority[top] <= priority[g]
        /\ desired = [g \in Groups |-> Managed(IF g = top THEN "active" ELSE "passive")]
  BY DEF Planned
<1>4. PICK old \in Groups : old # top
  <2>1. N >= 3
    BY Zenon DEF Planned
  <2>2. 1 \in Groups /\ 2 \in Groups
    BY <2>1, StoreAssumption DEF Groups
  <2> QED BY <2>2
<1> DEFINE q == [g \in Groups |-> IF g = old THEN priority[top]
                                  ELSE IF g = top THEN priority[old]
                                  ELSE priority[g]]
           sw == [from |-> old, to |-> top, ranks |-> q]
<1>5. sw \in Switches
  <2>1. q \in [Groups -> Priorities]
    BY <1>2
  <2>2. \A g, h \in Groups : q[g] = q[h] => g = h
    BY <1>2
  <2>3. \A g \in Groups : q[old] <= q[g]
    BY <1>3, <1>4
  <2> HIDE DEF q
  <2> QED BY <1>4, <2>1, <2>2, <2>3 DEF Switches
<1>6. \A g \in Groups : /\ PriorityAt(sw, 8, g) = priority[g]
                        /\ desired[g] = Managed(StateAt(sw, 8, g))
                        /\ ReportAt(sw, 8, g) = desired[g].state
  <2>1. \A g \in Groups : PriorityAt(sw, 8, g) = priority[g]
    BY <1>4 DEF PriorityAt
  <2>2. ASSUME NEW g \in Groups
        PROVE  /\ desired[g] = Managed(StateAt(sw, 8, g))
               /\ ReportAt(sw, 8, g) = StateAt(sw, 8, g)
    BY <1>3, <1>4 DEF StateAt, ReportAt
  <2> HIDE DEF sw
  <2> QED BY <2>1, <2>2, ManagedDocs
<1> HIDE DEF sw
<1>7. AtStage(sw, etcd, 8)
  <2>1. ASSUME NEW g \in Groups
        PROVE  /\ etcd[Desired(g)] = desired[g]
               /\ etcd[Priority(g)] = priority[g]
               /\ \A r \in Roles : etcd[RoleKey(g, r)] = desired[g].state
    <3>1. etcd[Desired(g)] = InitialValue(desired, priority, Desired(g))
      BY <1>1, KeysOfGroup
    <3>2. etcd[Priority(g)] = InitialValue(desired, priority, Priority(g))
      BY <1>1, KeysOfGroup
    <3>3. \A r \in Roles : etcd[RoleKey(g, r)] = InitialValue(desired, priority, RoleKey(g, r))
      BY <1>1, KeysOfRole
    <3> QED BY <3>1, <3>2, <3>3 DEF InitialValue, Desired, Priority, RoleKey
  <2> QED BY <1>6, <2>1 DEF AtStage
<1>8. History(sw, 8, 8)
  <2> DEFINE at == [i \in 0..0 |-> 8]
  <2>1. /\ at \in [0..0 -> Stages]
        /\ at[0] = 8
        /\ \A i, j \in 0..0 : at[i] <= at[j]
        /\ 1..0 = {}
    BY DEF Stages
  <2>2. Len(watch) = 0
    BY DEF Init
  <2> HIDE DEF at
  <2> QED BY <2>1, <2>2 DEF History
<1>9. StoreAt(sw, 8, 8)
  BY <1>7, <1>8 DEF Init, StoreAt
<1>10. ASSUME NEW w \in Workers PROVE WorkerAt(sw, 8, w)
  <2>1. w[1] \in Groups
    BY DEF Workers
  <2>2. /\ service[w] = desired[w[1]].state
        /\ seen[w] = desired[w[1]]
        /\ run[w] = "probe"
    BY <1>1 DEF AgentInit
  <2>3. Worker(w, StateAt(sw, 8, w[1]), StateAt(sw, 8, w[1]), "probe")
    BY <1>6, <2>1, <2>2, ManagedDocs DEF Worker
  <2>4. StateAt(sw, 8, w[1]) = IF w[1] = sw.to THEN "active" ELSE "passive"
    BY DEF StateAt
  <2> QED BY <1>5, <2>3, <2>4 DEF WorkerAt, Up, Down, Switches
<1>11. CommandsAt(sw, 8, 8) /\ PassAt(sw, 8, 8)
  BY DEF Init, CommandInit, ControllerInit, CommandsAt, PassAt
<1>12. 8 \in Seen(8, 8) /\ 8 \in Stages
  BY DEF Seen, Stages
<1>13. InRound(sw, 8, 8)
  BY <1>9, <1>10, <1>11, <1>12 DEF InRound
<1> QED BY <1>5, <1>13

\* Every step stays in the round, or begins the next.
LEMMA RoundNext == ASSUME Planned, TypeOK, Round, [Next]_vars PROVE Round'
<1>1. PICK sw \in Switches, S \in Stages, E \in Stages : InRound(sw, S, E)
  BY DEF Round
<1>2. CASE CommandStep
  <2>1. pc = "idle" /\ UNCHANGED <<ctlVars, agentVars>> /\ ConsumerStep
    BY <1>2 DEF CommandStep, Planned
  <2> QED BY <2>1, BeginKeepsRound, WriteKeepsRound, ActivateKeepsRound DEF ConsumerStep
<1>3. ASSUME NEW w \in Workers, WorkerPoll(w) \/ WorkerStep(w) \/ WorkerFault(w)
      PROVE  Round'
  BY <1>3, ObserveKeepsRound, ProbeOkKeepsRound, ProbeMismatchKeepsRound, SetKeepsRound,
     NoFaults DEF WorkerPoll, WorkerStep, WorkerFault, AgentStep
<1>4. CASE UNCHANGED vars \/ \E g \in Groups : TimerStep(g)
  <2>1. UNCHANGED <<storeVars, pc, todo, rt, queue, job, agentVars>>
    BY <1>4 DEF vars, ctlVars, cmdVars, TimerStep, TimerExpires
  <2>2. InRound(sw, S, E)'
    BY <1>1, <2>1, RoundStays
  <2> QED BY <2>2 DEF Round
<1>5. ~LeaderRestarts
  BY DEF LeaderRestarts, Planned
<1> QED BY <1>2, <1>3, <1>4, <1>5, DeliverKeepsRound, ReconcileKeepsRound, SubmitKeepsRound
        DEF Next

\* From the initial state on there is always a last switchover, and the whole
\* composition is in one of its stages.
THEOREM RoundInvariant == ASSUME Planned PROVE Spec => []Round
<1>1. Init => Round
  BY RoundInit DEF Round, Stages
<1>2. TypeOK /\ Round /\ [Next]_vars => Round'
  BY RoundNext
<1> QED BY <1>1, <1>2, TypeCorrect, PTL DEF Spec

(***************************************************************************)
(* At most one group runs                                                  *)
(***************************************************************************)
\* Which services are up at a stage.
LEMMA RunningAt ==
    ASSUME Planned, NEW sw \in Switches, NEW S \in Stages, NEW E \in Stages, InRound(sw, S, E)
    PROVE  /\ E <= 2 => Running = {sw.from}
           /\ E \in {3, 4} => Running \subseteq {sw.from}
           /\ E = 5 => Running = {}
           /\ E \in {6, 7} => Running \subseteq {sw.to}
           /\ E = 8 => Running = {sw.to}
<1>1. PICK r : Roles = {r}
  BY DEF Planned
<1>2. sw.from \in Groups /\ sw.to \in Groups /\ sw.from # sw.to
  BY DEF Switches
<1>3. \A g \in Groups : g \in Running <=> service[<<g, r>>] = "active"
  BY <1>1 DEF Running
<1>4. ASSUME NEW g \in Groups
      PROVE  /\ service[<<g, r>>] = "active" => \/ g = sw.from /\ E <= 4
                                                \/ g = sw.to /\ E >= 6
             /\ g = sw.from /\ E <= 2 => service[<<g, r>>] = "active"
             /\ g = sw.to /\ E = 8 => service[<<g, r>>] = "active"
  <2>1. <<g, r>> \in Workers /\ <<g, r>>[1] = g
    BY <1>1 DEF Workers
  <2>2. WorkerAt(sw, E, <<g, r>>)
    BY <2>1 DEF InRound
  <2> DEFINE w == <<g, r>>
  <2> HIDE DEF w
  <2>3. w[1] = g /\ WorkerAt(sw, E, w)
    BY <2>1, <2>2 DEF w
  <2>4. /\ service[w] = "active" => \/ g = sw.from /\ E <= 4
                                    \/ g = sw.to /\ E >= 6
        /\ g = sw.from /\ E <= 2 => service[w] = "active"
        /\ g = sw.to /\ E = 8 => service[w] = "active"
    BY <1>2, <2>3 DEF WorkerAt, Worker, Up, Down, Stages
  <2> QED BY <2>4 DEF w
<1>5. Running \subseteq Groups
  BY DEF Running
<1>6. \A g \in Running : \/ g = sw.from /\ E <= 4
                         \/ g = sw.to /\ E >= 6
  BY <1>3, <1>4, <1>5
<1>7. /\ E <= 2 => sw.from \in Running
      /\ E = 8 => sw.to \in Running
  BY <1>2, <1>3, <1>4
<1>8. E \in Int
  BY DEF Stages
<1> QED BY <1>6, <1>7, <1>8

LEMMA RoundIsSingle == ASSUME Planned, Round PROVE SingleActive
<1>1. PICK sw \in Switches, S \in Stages, E \in Stages : InRound(sw, S, E)
  BY DEF Round
<1>2. PICK g : Running \subseteq {g}
  BY <1>1, RunningAt DEF Stages
<1>3. Running = {} \/ Running = {g}
  BY <1>2
<1>4. Cardinality({}) = 0 /\ Cardinality({g}) = 1
  BY FS_EmptySet, FS_Singleton
<1> QED BY <1>3, <1>4 DEF SingleActive

\* However long the copy lags and whenever the drains time out, a sequence of
\* promotes never has the services of two groups up at the same time.
THEOREM PlannedSingleActive == ASSUME Planned PROVE Spec => []SingleActive
<1>1. Round => SingleActive
  BY RoundIsSingle
<1> QED BY <1>1, RoundInvariant, PTL

(***************************************************************************)
(* The handover                                                            *)
(***************************************************************************)
\* The wanted group, once one has the best priority.
LEMMA WantedIs ==
    ASSUME \A h \in Groups : etcd[Priority(h)] \in Int,
           NEW g \in Groups,
           \A h \in Groups : \/ etcd[Priority(g)] < etcd[Priority(h)]
                             \/ etcd[Priority(g)] = etcd[Priority(h)] /\ g <= h
    PROVE  Wanted = g
<1> DEFINE W(k) == \A h \in Groups : \/ etcd[Priority(k)] < etcd[Priority(h)]
                                     \/ etcd[Priority(k)] = etcd[Priority(h)] /\ k <= h
<1>1. W(g) /\ Wanted = CHOOSE k \in Groups : W(k)
  BY DEF Wanted
<1> HIDE DEF W
<1>2. Wanted \in Groups /\ W(Wanted)
  BY <1>1
<1>3. \A h \in Groups : h \in Int
  BY DEF Groups
<1> QED BY <1>1, <1>2, <1>3 DEF W

\* From the second stage on it is the new group; before, it is one of the two.
LEMMA WantedAt ==
    ASSUME NEW sw \in Switches, NEW S \in Stages, NEW E \in Stages, InRound(sw, S, E)
    PROVE  /\ Wanted \in Groups
           /\ E >= 2 => Wanted = sw.to
<1>1. /\ sw.from \in Groups /\ sw.to \in Groups /\ sw.from # sw.to
      /\ \A g \in Groups : sw.ranks[g] \in Int
      /\ \A g \in Groups \ {sw.from} : sw.ranks[sw.from] < sw.ranks[g]
      /\ \A g \in Groups : g \in Int
      /\ E \in Int
  <2>1. /\ sw.from \in Groups /\ sw.to \in Groups /\ sw.from # sw.to
        /\ \A g \in Groups : sw.ranks[g] \in Int
        /\ \A g \in Groups : sw.ranks[sw.from] <= sw.ranks[g]
        /\ \A g, h \in Groups : sw.ranks[g] = sw.ranks[h] => g = h
    BY DEF Switches, Priorities
  <2>2. E \in Int /\ \A g \in Groups : g \in Int
    BY DEF Stages, Groups
  <2> QED BY <2>1, <2>2
<1>2. \A g \in Groups : etcd[Priority(g)] = PriorityAt(sw, E, g)
  BY DEF InRound, StoreAt, AtStage
<1>3. \A g \in Groups : etcd[Priority(g)] \in Int
  BY <1>1, <1>2 DEF PriorityAt
<1>4. CASE E = 0
  <2>1. \A h \in Groups : \/ etcd[Priority(sw.from)] < etcd[Priority(h)]
                          \/ sw.from = h
    BY <1>1, <1>2, <1>4 DEF PriorityAt
  <2>2. Wanted = sw.from
    BY <1>1, <1>3, <2>1, WantedIs
  <2> QED BY <1>1, <1>4, <2>2
<1>5. CASE E = 1
  <2>1. \A h \in Groups : /\ etcd[Priority(sw.from)] = etcd[Priority(sw.to)]
                          /\ \/ etcd[Priority(sw.from)] < etcd[Priority(h)]
                             \/ h = sw.from
                             \/ h = sw.to
    BY <1>1, <1>2, <1>5 DEF PriorityAt
  <2>2. CASE sw.from <= sw.to
    <3>1. Wanted = sw.from
      BY <1>1, <1>3, <2>1, <2>2, WantedIs
    <3> QED BY <1>1, <1>5, <3>1
  <2>3. CASE sw.to <= sw.from
    <3>1. Wanted = sw.to
      BY <1>1, <1>3, <2>1, <2>3, WantedIs
    <3> QED BY <1>1, <1>5, <3>1
  <2> QED BY <1>1, <2>2, <2>3
<1>6. CASE E >= 2
  <2>1. \A h \in Groups : \/ etcd[Priority(sw.to)] < etcd[Priority(h)]
                          \/ sw.to = h
    BY <1>1, <1>2, <1>6 DEF PriorityAt
  <2>2. Wanted = sw.to
    BY <1>1, <1>3, <2>1, WantedIs
  <2> QED BY <1>1, <2>2
<1> QED BY <1>4, <1>5, <1>6 DEF Stages

LEMMA WantedIsGroup == Round => Wanted \in Groups
BY WantedAt DEF Round

\* Nobody holds the role when nothing runs, else the group that does.
LEMMA HolderIs ==
    /\ Running = {} => Holder = None
    /\ \A g : Running = {g} => Holder = g
BY DEF Holder

\* Only the set actor of a worker changes what its service does.
LEMMA ServiceChanges ==
    ASSUME Planned, Round, [Next]_vars
    PROVE  UNCHANGED service \/ \E w \in Workers : SetService(w)
<1>1. ASSUME NEW w \in Workers, WorkerPoll(w) \/ WorkerStep(w) \/ WorkerFault(w)
      PROVE  UNCHANGED service \/ SetService(w)
  BY <1>1, NoFaults DEF WorkerPoll, WorkerStep, WorkerFault, AgentStep, Observe, ProbeOk,
                        ProbeMismatch
<1>2. CASE DeliverEvent \/ ReconcileStep \/ CommandStep \/ OperatorStep \/ LeaderRestarts
  BY <1>2 DEF DeliverEvent, ReconcileStep, CommandStep, OperatorStep, LeaderRestarts, agentVars
<1>3. CASE UNCHANGED vars \/ \E g \in Groups : TimerStep(g)
  BY <1>3 DEF TimerStep, vars, agentVars
<1> QED BY <1>1, <1>2, <1>3 DEF Next

\* A promote is the only thing that may change who should be active; the set
\* actor of the old group releases the role and that of the new one takes it.
LEMMA HandoverStep ==
    ASSUME Planned, TypeOK, Round, (Wanted \in Groups)', [Next]_vars
    PROVE  [Abstract!Next]_(Abstract!vars)
<1>1. CASE UNCHANGED service
  <2>1. UNCHANGED Holder
    BY <1>1 DEF Holder, Running
  <2>2. CASE Wanted' # Wanted
    <3>1. Abstract!Promote(Wanted')
      BY <2>1, <2>2 DEF Abstract!Promote
    <3> QED BY <3>1 DEF Abstract!Next
  <2>3. CASE Wanted' = Wanted
    BY <2>1, <2>3 DEF Abstract!vars
  <2> QED BY <2>2, <2>3
<1>2. ASSUME NEW w \in Workers, SetService(w)
      PROVE  Abstract!Next
  <2>1. PICK sw \in Switches, S \in Stages, E \in Stages : InRound(sw, S, E)
    BY DEF Round
  <2>2. PICK r : Roles = {r}
    BY DEF Planned
  <2>3. /\ WorkerAt(sw, E, w) /\ w[1] \in Groups /\ w = <<w[1], r>>
        /\ sw.from # sw.to /\ sw.from \in Groups /\ sw.to \in Groups
    BY <2>1, <2>2 DEF InRound, Workers, Switches
  <2>4. \/ w[1] = sw.from /\ E \in {3, 4} /\ Worker(w, "active", "passive", "set")
        \/ w[1] = sw.to /\ E \in {6, 7} /\ Worker(w, "passive", "active", "set")
    BY <1>2, <2>3 DEF SetService, WorkerAt, Worker, Up, Down
  <2>5. service' = [service EXCEPT ![w] = seen[w].state] /\ service \in [Workers -> {"active", "passive"}]
    BY <1>2 DEF SetService, TypeOK, AgentTypeOK
  <2>6. UNCHANGED Wanted /\ Wanted = sw.to
    BY <1>2, <2>1, <2>4, WantedAt DEF SetService, storeVars, Wanted
  <2>7. /\ Running = {g \in Groups : service[<<g, r>>] = "active"}
        /\ Running' = {g \in Groups : service'[<<g, r>>] = "active"}
    BY <2>2 DEF Running
  <2>8. \A g \in Groups : <<g, r>> \in Workers /\ (<<g, r>> = w <=> g = w[1])
    BY <2>2, <2>3 DEF Workers
  <2>9. \A g \in Groups : service'[<<g, r>>] = IF g = w[1] THEN seen[w].state ELSE service[<<g, r>>]
    BY <2>5, <2>8
  <2>10. CASE w[1] = sw.from /\ E \in {3, 4} /\ Worker(w, "active", "passive", "set")
    <3>1. Running = {sw.from}
      <4>1. service[<<sw.from, r>>] = "active" /\ Running \subseteq {sw.from}
        BY <2>1, <2>3, <2>10, RunningAt DEF Worker
      <4> QED BY <2>3, <2>7, <4>1
    <3>2. Running' = {}
      <4>1. seen[w].state = "passive"
        BY <2>10, ManagedDocs DEF Worker
      <4> QED BY <2>7, <2>9, <2>10, <3>1, <4>1
    <3>3. Holder = sw.from /\ Holder' = None
      BY <3>1, <3>2 DEF Holder
    <3>4. Abstract!Release
      BY <2>3, <2>6, <3>3 DEF Abstract!Release, None, Groups
    <3> QED BY <3>4 DEF Abstract!Next
  <2>11. CASE w[1] = sw.to /\ E \in {6, 7} /\ Worker(w, "passive", "active", "set")
    <3>1. Running = {}
      <4>1. service[<<sw.to, r>>] = "passive" /\ Running \subseteq {sw.to}
        BY <2>1, <2>3, <2>11, RunningAt DEF Worker
      <4> QED BY <2>3, <2>7, <4>1
    <3>2. Running' = {sw.to}
      <4>1. seen[w].state = "active"
        BY <2>11, ManagedDocs DEF Worker
      <4> QED BY <2>3, <2>7, <2>9, <2>11, <3>1, <4>1
    <3>3. Holder = None /\ Holder' = sw.to
      BY <3>1, <3>2 DEF Holder
    <3>4. Abstract!Take
      BY <2>6, <3>3 DEF Abstract!Take
    <3> QED BY <3>4 DEF Abstract!Next
  <2> QED BY <2>4, <2>10, <2>11
<1> QED BY <1>1, <1>2, ServiceChanges

\* It begins with the wanted group holding the role.
LEMMA HandoverInit == ASSUME Planned, Init PROVE Abstract!Init
<1>1. PICK sw \in Switches : InRound(sw, 8, 8)
  BY RoundInit
<1>2. 8 \in Stages
  BY DEF Stages
<1>3. Wanted = sw.to /\ Running = {sw.to} /\ sw.to \in Groups
  BY <1>1, <1>2, WantedAt, RunningAt DEF Switches
<1>4. Holder = sw.to
  BY <1>3 DEF Holder
<1> QED BY <1>3, <1>4 DEF Abstract!Init

\* A sequence of promotes is a sequence of handovers: the services of the old
\* group are down before those of the promoted one come up, and no third
\* group's ever do, whatever the lag of the copy, the interleaving of loop,
\* commands and agents, and the drains that time out.
THEOREM PlannedHandsOver == ASSUME Planned PROVE Spec => HandsOver
<1>1. Init => Abstract!Init
  BY HandoverInit
<1>2. Round => Wanted \in Groups
  BY WantedIsGroup
<1>3. TypeOK /\ Round /\ (Wanted \in Groups)' /\ [Next]_vars => [Abstract!Next]_(Abstract!vars)
  BY HandoverStep
<1> QED BY <1>1, <1>2, <1>3, TypeCorrect, RoundInvariant, PTL
        DEF Spec, HandsOver, Abstract!Safety
=============================================================================
