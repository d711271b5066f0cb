------------------------- MODULE ClusterStoreProofs -------------------------
(* What the operators on etcd and its copy preserve, for any number of     *)
(* groups, roles and priorities and any lag.                               *)
EXTENDS ClusterStore, TLAPS

USE StoreAssumption

\* Every accessor yields a key.
LEMMA KeysOfGroup ==
    ASSUME NEW g \in Groups
    PROVE  Desired(g) \in Keys /\ Priority(g) \in Keys /\ Status(g) \in Keys
BY DEF Desired, Priority, Status, Keys, DesiredKeys, PriorityKeys, StatusKeys

\* A role reports at a key of its own.
LEMMA KeysOfRole ==
    ASSUME NEW g \in Groups, NEW r \in Roles
    PROVE  RoleKey(g, r) \in Keys
BY DEF RoleKey, Keys, RoleKeys

\* What may be stored at each kind of key.
LEMMA ValuesOfGroup ==
    ASSUME NEW g \in Groups
    PROVE  /\ ValuesAt(Desired(g)) = Docs
           /\ ValuesAt(Priority(g)) = Priorities
           /\ ValuesAt(Status(g)) = Reports
BY DEF ValuesAt, Desired, Priority, Status

\* What a role may report.
LEMMA ValuesOfRole ==
    ASSUME NEW g \in Groups, NEW r \in Roles
    PROVE  ValuesAt(RoleKey(g, r)) = Reports
BY DEF ValuesAt, RoleKey

\* Keys of different kinds, and of different groups, differ.
LEMMA DistinctKeys ==
    ASSUME NEW g \in Groups, NEW h \in Groups, NEW r \in Roles
    PROVE  /\ Priority(g) # Desired(h)
           /\ Priority(g) # Status(h)
           /\ Priority(g) # RoleKey(h, r)
           /\ Priority(g) = Priority(h) => g = h
BY DEF Desired, Priority, Status, RoleKey

\* An event pairs a key with a value for it.
LEMMA EventShape ==
    ASSUME NEW k \in Keys, NEW v \in ValuesAt(k)
    PROVE  [key |-> k, value |-> v] \in Events
BY DEF Events

\* The parts of a watch event are a key and a value for it.
LEMMA EventParts ==
    ASSUME NEW e \in Events
    PROVE  e.key \in Keys /\ e.value \in ValuesAt(e.key)
BY DEF Events

\* A snapshot stays one when a key gets a value it may have.
LEMMA SnapshotUpdate ==
    ASSUME NEW s, Snapshot(s), NEW k \in Keys, NEW v \in ValuesAt(k)
    PROVE  Snapshot([s EXCEPT ![k] = v])
BY DEF Snapshot

\* What the copy or etcd holds at a group's keys.
LEMMA SnapshotValues ==
    ASSUME NEW s, Snapshot(s), NEW g \in Groups
    PROVE  /\ s[Desired(g)] \in Docs
           /\ s[Priority(g)] \in Priorities
           /\ s[Status(g)] \in Reports
           /\ \A r \in Roles : s[RoleKey(g, r)] \in Reports
BY KeysOfGroup, KeysOfRole, ValuesOfGroup, ValuesOfRole DEF Snapshot

\* A put of a proper value, answered or not, keeps etcd, the copy and the
\* watch well formed; so does the delivery of an event.
LEMMA PutTypes ==
    ASSUME StoreTypeOK, NEW k \in Keys, NEW v \in ValuesAt(k), Put(k, v)
    PROVE  StoreTypeOK'
<1>1. CASE UNCHANGED storeVars
  BY <1>1 DEF storeVars, StoreTypeOK, Snapshot
<1>2. CASE /\ etcd' = [etcd EXCEPT ![k] = v]
           /\ watch' = Append(watch, [key |-> k, value |-> v])
           /\ UNCHANGED store
  <2>1. Snapshot(etcd')
    BY <1>2, SnapshotUpdate DEF StoreTypeOK
  <2>2. watch' \in Seq(Events)
    BY <1>2, EventShape DEF StoreTypeOK
  <2> QED BY <1>2, <2>1, <2>2 DEF StoreTypeOK, Snapshot
<1>3. CASE /\ etcd' = [etcd EXCEPT ![k] = v]
           /\ store' = [store EXCEPT ![k] = v]
           /\ UNCHANGED watch
  <2>1. Snapshot(etcd') /\ Snapshot(store')
    BY <1>3, SnapshotUpdate DEF StoreTypeOK
  <2> QED BY <1>3, <2>1 DEF StoreTypeOK, Snapshot
<1> QED BY <1>1, <1>2, <1>3 DEF Put

\* The same for a request that may fail, before or after it commits.
LEMMA TryPutTypes ==
    ASSUME StoreTypeOK, NEW k \in Keys, NEW v \in ValuesAt(k), NEW ok \in BOOLEAN,
           TryPut(k, v, ok)
    PROVE  StoreTypeOK'
<1>1. CASE Put(k, v)
  BY <1>1, PutTypes
<1>2. CASE UNCHANGED storeVars
  BY <1>2 DEF storeVars, StoreTypeOK, Snapshot
<1> QED BY <1>1, <1>2 DEF TryPut

\* The watch applies an event to the copy.
LEMMA DeliverTypes ==
    ASSUME StoreTypeOK, Deliver
    PROVE  StoreTypeOK'
<1>1. Head(watch) \in Events /\ Tail(watch) \in Seq(Events)
  BY DEF StoreTypeOK, Deliver
<1>2. Snapshot(store')
  BY <1>1, EventParts, SnapshotUpdate DEF StoreTypeOK, Deliver
<1> QED BY <1>1, <1>2 DEF StoreTypeOK, Deliver, Snapshot

(***************************************************************************)
(* The copy follows etcd                                                   *)
(***************************************************************************)
\* The copy has the value of a key, or the last event of that key that is on
\* its way brings it.
Follows(k) ==
    \/ /\ \A i \in 1..Len(watch) : watch[i].key # k
       /\ store[k] = etcd[k]
    \/ \E i \in 1..Len(watch) :
         /\ watch[i].key = k
         /\ watch[i].value = etcd[k]
         /\ \A j \in (i + 1)..Len(watch) : watch[j].key # k

CopyFollows ==
    /\ \A k \in Keys : Follows(k)
    /\ Len(watch) <= MaxLag

\* A put whose event is appended keeps that ...
LEMMA PutFollows ==
    ASSUME StoreTypeOK, CopyFollows, NEW k \in Keys, NEW v, Put(k, v)
    PROVE  CopyFollows'
<1>1. CASE UNCHANGED storeVars
  BY <1>1 DEF storeVars, CopyFollows, Follows
<1>2. CASE /\ Len(watch) < MaxLag
           /\ etcd' = [etcd EXCEPT ![k] = v]
           /\ watch' = Append(watch, [key |-> k, value |-> v])
           /\ UNCHANGED store
  <2> DEFINE n == Len(watch)
  <2>1. /\ n \in Nat
        /\ Len(watch') = n + 1
        /\ \A i \in 1..n : watch'[i] = watch[i]
        /\ watch'[n + 1] = [key |-> k, value |-> v]
    BY <1>2 DEF StoreTypeOK
  <2>2. etcd'[k] = v /\ \A j \in Keys : j # k => etcd'[j] = etcd[j]
    BY <1>2 DEF StoreTypeOK, Snapshot
  <2>3. Len(watch') <= MaxLag
    BY <1>2, <2>1
  <2>4. ASSUME NEW j \in Keys PROVE Follows(j)'
    <3>1. CASE j = k
      <4>1. /\ n + 1 \in 1..Len(watch')
            /\ watch'[n + 1].key = j
            /\ watch'[n + 1].value = etcd'[j]
            /\ (n + 1 + 1)..Len(watch') = {}
        BY <2>1, <2>2, <3>1
      <4> QED BY <4>1 DEF Follows
    <3>2. CASE j # k
      <4>1. watch'[n + 1].key # j
        BY <2>1, <3>2
      <4>2. CASE /\ \A i \in 1..Len(watch) : watch[i].key # j
                 /\ store[j] = etcd[j]
        BY <1>2, <2>1, <2>2, <3>2, <4>1, <4>2 DEF Follows
      <4>3. ASSUME NEW i \in 1..Len(watch),
                   watch[i].key = j, watch[i].value = etcd[j],
                   \A l \in (i + 1)..Len(watch) : watch[l].key # j
            PROVE  Follows(j)'
        <5>1. /\ i \in 1..Len(watch')
              /\ watch'[i].key = j
              /\ watch'[i].value = etcd'[j]
              /\ \A l \in (i + 1)..Len(watch') : watch'[l].key # j
          BY <2>1, <2>2, <3>2, <4>1, <4>3
        <5> QED BY <5>1 DEF Follows
      <4> QED BY <4>2, <4>3 DEF CopyFollows, Follows
    <3> QED BY <3>1, <3>2
  <2> QED BY <2>3, <2>4 DEF CopyFollows
<1>3. CASE /\ MaxLag = 0
           /\ etcd' = [etcd EXCEPT ![k] = v]
           /\ store' = [store EXCEPT ![k] = v]
           /\ UNCHANGED watch
  <2>1. Len(watch) = 0
    BY <1>3 DEF CopyFollows, StoreTypeOK
  <2>2. \A j \in Keys : store[j] = etcd[j]
    BY <2>1 DEF CopyFollows, Follows
  <2>3. \A j \in Keys : store'[j] = etcd'[j]
    BY <1>3, <2>2 DEF StoreTypeOK, Snapshot
  <2> QED BY <1>3, <2>1, <2>3 DEF CopyFollows, Follows
<1> QED BY <1>1, <1>2, <1>3 DEF Put

\* ... and so does the delivery of the oldest event.
LEMMA DeliverFollows ==
    ASSUME StoreTypeOK, CopyFollows, Deliver
    PROVE  CopyFollows'
<1> DEFINE n == Len(watch)
<1>1. /\ n \in Nat \ {0}
      /\ Head(watch) = watch[1] /\ watch[1].key \in Keys
      /\ Len(watch') = n - 1
      /\ \A i \in 1..(n - 1) : watch'[i] = watch[i + 1]
  <2>1. Head(watch) \in Events
    BY DEF StoreTypeOK, Deliver
  <2> QED BY <2>1, EventParts DEF StoreTypeOK, Deliver
<1>2. /\ etcd' = etcd
      /\ store'[watch[1].key] = watch[1].value
      /\ \A k \in Keys : k # watch[1].key => store'[k] = store[k]
  BY <1>1 DEF StoreTypeOK, Snapshot, Deliver
<1>3. ASSUME NEW k \in Keys PROVE Follows(k)'
  <2>1. CASE /\ \A i \in 1..Len(watch) : watch[i].key # k
             /\ store[k] = etcd[k]
    BY <1>1, <1>2, <2>1 DEF Follows
  <2>2. ASSUME NEW i \in 1..Len(watch),
               watch[i].key = k, watch[i].value = etcd[k],
               \A j \in (i + 1)..Len(watch) : watch[j].key # k
        PROVE  Follows(k)'
    <3>1. CASE i = 1
      <4>1. \A j \in 1..Len(watch') : watch'[j].key # k
        BY <1>1, <2>2, <3>1
      <4> QED BY <1>2, <2>2, <3>1, <4>1 DEF Follows
    <3>2. CASE i # 1
      <4>1. /\ i - 1 \in 1..Len(watch')
            /\ watch'[i - 1].key = k
            /\ watch'[i - 1].value = etcd'[k]
            /\ \A j \in (i - 1 + 1)..Len(watch') : watch'[j].key # k
        BY <1>1, <1>2, <2>2, <3>2
      <4> QED BY <4>1 DEF Follows
    <3> QED BY <3>1, <3>2
  <2> QED BY <2>1, <2>2 DEF CopyFollows, Follows
<1>4. Len(watch') <= MaxLag
  BY <1>1 DEF CopyFollows
<1> QED BY <1>3, <1>4 DEF CopyFollows
=============================================================================
