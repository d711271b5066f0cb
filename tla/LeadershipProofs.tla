-------------------------- MODULE LeadershipProofs --------------------------
(* Proofs about Leadership, for any set of nodes and any capacity of the   *)
(* event channel.                                                          *)
EXTENDS Leadership, TLAPS

USE LeadershipAssumption

\* The keys of two nodes' current leases differ.
LEMMA OwnersDiffer ==
    ASSUME NEW n \in Nodes, NEW m \in Nodes, n # m
    PROVE  Owned(n, TRUE) # Owned(m, TRUE)
BY DEF Owned

\* A key that is owned is not the absent key.
LEMMA OwnedIsKey == ASSUME NEW n, NEW a PROVE Owned(n, a) # NoKey
BY DEF Owned, NoKey

\* Every state of the election is well typed and no node's event channel
\* ever holds more than its capacity.
THEOREM TypeCorrect == Spec => []TypeOK
<1>1. Init => TypeOK
  BY DEF Init, TypeOK
<1>2. TypeOK /\ [Next]_vars => TypeOK'
  <2> SUFFICES ASSUME TypeOK, [Next]_vars PROVE TypeOK'
    OBVIOUS
  <2> USE DEF TypeOK
  <2>0. ASSUME NEW n \in Nodes, NEW kind \in Kinds, Emit(n, kind)
        PROVE  /\ events' \in [Nodes -> Seq(Kinds)]
               /\ \A m \in Nodes : Len(events'[m]) <= EventCap
    <3>1. CASE Len(events[n]) < EventCap
      BY <2>0, <3>1 DEF Emit
    <3>2. CASE ~(Len(events[n]) < EventCap)
      BY <2>0, <3>2 DEF Emit
    <3> QED BY <3>1, <3>2
  <2>1. ASSUME NEW n \in Nodes, GrantLease(n) PROVE TypeOK'
    BY <2>1 DEF GrantLease, Abandon, Goto
  <2>2. ASSUME NEW n \in Nodes, Acquire(n) PROVE TypeOK'
    <3> "acquired" \in Kinds BY DEF Kinds
    <3> QED BY <2>0, <2>2 DEF Acquire, Goto
  <2>3. ASSUME NEW n \in Nodes, AcquireFails(n) PROVE TypeOK'
    BY <2>3 DEF AcquireFails, Goto
  <2>4. ASSUME NEW n \in Nodes, AcquireUnanswered(n) PROVE TypeOK'
    BY <2>4 DEF AcquireUnanswered, Goto
  <2>5. ASSUME NEW n \in Nodes, LoseLeadership(n) PROVE TypeOK'
    <3> "lost" \in Kinds BY DEF Kinds
    <3> QED BY <2>0, <2>5 DEF LoseLeadership, Goto
  <2>6. ASSUME NEW n \in Nodes, KeepAliveFails(n) PROVE TypeOK'
    BY <2>6 DEF KeepAliveFails, Goto
  <2>7. ASSUME NEW n \in Nodes, TakeEvent(n) PROVE TypeOK'
    <3>1. /\ Tail(events[n]) \in Seq(Kinds)
          /\ Len(Tail(events[n])) <= EventCap
      BY <2>7 DEF TakeEvent
    <3>2. /\ events' \in [Nodes -> Seq(Kinds)]
          /\ \A m \in Nodes : Len(events'[m]) <= EventCap
      BY <2>7, <3>1 DEF TakeEvent
    <3>3. runners' \in [Nodes -> 0..MaxRunners]
      BY <2>7 DEF TakeEvent
    <3> QED BY <2>7, <3>2, <3>3 DEF TakeEvent
  <2>8. ASSUME NEW n \in Nodes, ExpireCurrent(n) PROVE TypeOK'
    BY <2>8 DEF ExpireCurrent
  <2>9. ASSUME NEW n \in Nodes, ExpireAbandoned(n) PROVE TypeOK'
    BY <2>9 DEF ExpireAbandoned
  <2>10. ASSUME NEW n \in Nodes, Crash(n) PROVE TypeOK'
    BY <2>10 DEF Crash, Goto
  <2>11. ASSUME NEW n \in Nodes, Restart(n) PROVE TypeOK'
    BY <2>11 DEF Restart, Goto
  <2>12. CASE UNCHANGED vars
    BY <2>12 DEF vars
  <2> QED
    BY <2>1, <2>2, <2>3, <2>4, <2>5, <2>6, <2>7, <2>8, <2>9, <2>10, <2>11, <2>12
       DEF Next, Progress, Fault
<1> QED BY <1>1, <1>2, PTL DEF Spec

\* Whoever believes to lead under a lease that etcd still honours owns the
\* leadership key: the compare-and-swap of tryLeadership, lease expiry and
\* the grant of a fresh lease per attempt leave no second believer.
THEOREM LeaderOwnsKeyAlways == Spec => []LeaderOwnsKey
<1>1. Init => LeaderOwnsKey
  BY DEF Init, LeaderOwnsKey, Leading
<1>2. TypeOK /\ LeaderOwnsKey /\ [Next]_vars => LeaderOwnsKey'
  <2> SUFFICES ASSUME TypeOK, LeaderOwnsKey, [Next]_vars,
                      NEW l \in Nodes, Leading(l)'
               PROVE  key' = Owned(l, TRUE)
    BY DEF LeaderOwnsKey
  <2> USE DEF TypeOK, LeaderOwnsKey, Leading
  <2>1. ASSUME NEW n \in Nodes, GrantLease(n) PROVE key' = Owned(l, TRUE)
    <3>1. n # l /\ Leading(l)
      BY <2>1 DEF GrantLease, Goto
    <3>2. key = Owned(l, TRUE)
      BY <3>1
    <3>3. key # Owned(n, TRUE)
      BY <3>1, <3>2, OwnersDiffer
    <3> QED BY <2>1, <3>2, <3>3 DEF GrantLease, Abandon
  <2>2. ASSUME NEW n \in Nodes, Acquire(n) PROVE key' = Owned(l, TRUE)
    <3>1. key = NoKey /\ key' = Owned(n, TRUE)
      BY <2>2 DEF Acquire
    <3>2. ~Leading(l)
      BY <3>1, OwnedIsKey
    <3>3. n = l
      BY <2>2, <3>2 DEF Acquire, Goto
    <3> QED BY <3>1, <3>3
  <2>3. ASSUME NEW n \in Nodes, AcquireFails(n) PROVE key' = Owned(l, TRUE)
    BY <2>3 DEF AcquireFails, Goto
  <2>4. ASSUME NEW n \in Nodes, AcquireUnanswered(n) PROVE key' = Owned(l, TRUE)
    <3>1. Leading(l) /\ key = NoKey
      BY <2>4 DEF AcquireUnanswered, Goto
    <3> QED BY <3>1, OwnedIsKey
  <2>5. ASSUME NEW n \in Nodes, LoseLeadership(n) PROVE key' = Owned(l, TRUE)
    BY <2>5 DEF LoseLeadership, Goto
  <2>6. ASSUME NEW n \in Nodes, KeepAliveFails(n) PROVE key' = Owned(l, TRUE)
    BY <2>6 DEF KeepAliveFails, Goto
  <2>7. ASSUME NEW n \in Nodes, TakeEvent(n) PROVE key' = Owned(l, TRUE)
    BY <2>7 DEF TakeEvent
  <2>8. ASSUME NEW n \in Nodes, ExpireCurrent(n) PROVE key' = Owned(l, TRUE)
    <3>1. n # l /\ Leading(l)
      BY <2>8 DEF ExpireCurrent
    <3>2. key = Owned(l, TRUE)
      BY <3>1
    <3>3. key # Owned(n, TRUE)
      BY <3>1, <3>2, OwnersDiffer
    <3> QED BY <2>8, <3>2, <3>3 DEF ExpireCurrent
  <2>9. ASSUME NEW n \in Nodes, ExpireAbandoned(n) PROVE key' = Owned(l, TRUE)
    <3>1. Leading(l) /\ key = Owned(n, FALSE)
      BY <2>9 DEF ExpireAbandoned
    <3>2. Owned(l, TRUE) # Owned(n, FALSE)
      BY DEF Owned
    <3> QED BY <3>1, <3>2
  <2>10. ASSUME NEW n \in Nodes, Crash(n) PROVE key' = Owned(l, TRUE)
    BY <2>10 DEF Crash, Goto
  <2>11. ASSUME NEW n \in Nodes, Restart(n) PROVE key' = Owned(l, TRUE)
    BY <2>11 DEF Restart, Goto
  <2>12. CASE UNCHANGED vars
    BY <2>12 DEF vars
  <2> QED
    BY <2>1, <2>2, <2>3, <2>4, <2>5, <2>6, <2>7, <2>8, <2>9, <2>10, <2>11, <2>12
       DEF Next, Progress, Fault
<1> QED BY <1>1, <1>2, TypeCorrect, PTL DEF Spec

\* In particular two nodes never lead at once.
THEOREM OneLeader ==
    Spec => [](\A n, m \in Nodes : Leading(n) /\ Leading(m) => n = m)
<1>1. LeaderOwnsKey => \A n, m \in Nodes : Leading(n) /\ Leading(m) => n = m
  BY OwnersDiffer DEF LeaderOwnsKey
<1> QED BY <1>1, LeaderOwnsKeyAlways, PTL
=============================================================================
