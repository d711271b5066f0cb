----------------------------- MODULE Leadership -----------------------------
(***************************************************************************)
(* Leader election (internal/lease/leadership.go) on one etcd key, and the *)
(* goroutines each node starts when it wins (internal/runtime).            *)
(*                                                                         *)
(* A node grants itself a lease, then puts the leadership key under that   *)
(* lease if the key does not exist.  etcd removes the key when its lease   *)
(* expires.  The winner keeps the lease alive and learns of its loss only  *)
(* when the keepalive channel closes, before or after etcd expires it.     *)
(***************************************************************************)
EXTENDS Naturals, Sequences

CONSTANTS
    Nodes,
    EventCap,   \* capacity of the leadership event channel
    MaxRunners  \* bound: controllers started on one node

ASSUME LeadershipAssumption ==
    /\ EventCap \in Nat \ {0}
    /\ MaxRunners \in Nat \ {0}

VARIABLES
    key,      \* the leadership key: NoKey, or its owner and whether it is
              \* under the owner's current lease or one it has abandoned
    alive,    \* is the node's current lease alive in etcd?
    mgr,      \* the leadership manager: "off", "wait", "granted", "holding"
    events,   \* the channel from the manager to the runtime
    runners   \* controller and consumer goroutines running on the node

vars == <<key, alive, mgr, events, runners>>

NoKey == [owner |-> {}, current |-> FALSE]
Owned(n, current) == [owner |-> {n}, current |-> current]
Kinds == {"acquired", "lost"}

\* Every value is of its type; the key has one owner and no channel holds more
\* than its capacity, because emit drops what does not fit.
TypeOK ==
    /\ \/ key = NoKey
       \/ \E n \in Nodes, current \in BOOLEAN : key = Owned(n, current)
    /\ alive \in [Nodes -> BOOLEAN]
    /\ mgr \in [Nodes -> {"off", "wait", "granted", "holding"}]
    /\ events \in [Nodes -> Seq(Kinds)]
    /\ \A n \in Nodes : Len(events[n]) <= EventCap
    /\ runners \in [Nodes -> 0..MaxRunners]

Init ==
    /\ key = NoKey
    /\ alive = [n \in Nodes |-> FALSE]
    /\ mgr = [n \in Nodes |-> "wait"]
    /\ events = [n \in Nodes |-> <<>>]
    /\ runners = [n \in Nodes |-> 0]

Goto(n, state) == mgr' = [mgr EXCEPT ![n] = state]

\* Variant: the channel is unbounded.
EmitAlways(n, kind) == events' = [events EXCEPT ![n] = Append(@, kind)]

\* emit never blocks: a full channel drops the event.
Emit(n, kind) ==
    events' = IF Len(events[n]) < EventCap
              THEN [events EXCEPT ![n] = Append(@, kind)]
              ELSE events

\* The node's current lease is no longer the one it will use.
Abandon(n) == key' = IF key = Owned(n, TRUE) THEN Owned(n, FALSE) ELSE key

(***************************************************************************)
(* tryLeadership                                                           *)
(***************************************************************************)
GrantLease(n) ==
    /\ mgr[n] = "wait"
    /\ alive' = [alive EXCEPT ![n] = TRUE]
    /\ Abandon(n)
    /\ Goto(n, "granted")
    /\ UNCHANGED <<events, runners>>

\* Variant: a plain put instead of the compare-and-swap.
AcquireBlindly(n) ==
    /\ mgr[n] = "granted"
    /\ alive[n]
    /\ key' = Owned(n, TRUE)
    /\ Emit(n, "acquired")
    /\ Goto(n, "holding")
    /\ UNCHANGED <<alive, runners>>

\* Variant: nobody is told.
AcquireQuietly(n) ==
    /\ mgr[n] = "granted"
    /\ alive[n]
    /\ key = NoKey
    /\ key' = Owned(n, TRUE)
    /\ Goto(n, "holding")
    /\ UNCHANGED <<alive, events, runners>>

Acquire(n) ==
    /\ mgr[n] = "granted"
    /\ alive[n]
    /\ key = NoKey
    /\ key' = Owned(n, TRUE)
    /\ Emit(n, "acquired")
    /\ Goto(n, "holding")
    /\ UNCHANGED <<alive, runners>>

\* The key exists, or the lease expired before the transaction.
AcquireFails(n) ==
    /\ mgr[n] = "granted"
    /\ key # NoKey \/ ~alive[n]
    /\ Goto(n, "wait")
    /\ UNCHANGED <<key, alive, events, runners>>

\* The transaction returns an error, whether it was committed or not.
AcquireUnanswered(n) ==
    /\ mgr[n] = "granted"
    /\ alive[n]
    /\ key = NoKey
    /\ key' \in {key, Owned(n, TRUE)}
    /\ Goto(n, "wait")
    /\ UNCHANGED <<alive, events, runners>>

\* The keepalive channel closes, because the lease is gone or because the
\* client gave up on it.
LoseLeadership(n) ==
    /\ mgr[n] = "holding"
    /\ Emit(n, "lost")
    /\ Goto(n, "wait")
    /\ UNCHANGED <<key, alive, runners>>

\* KeepAlive itself returns an error: no "lost" event.
KeepAliveFails(n) ==
    /\ mgr[n] = "holding"
    /\ Goto(n, "wait")
    /\ UNCHANGED <<key, alive, events, runners>>

(***************************************************************************)
(* controllerWhenLeader: "acquired" starts the goroutines, under the       *)
(* context of the whole process; "lost" is read and ignored.               *)
(***************************************************************************)
TakeEvent(n) ==
    /\ events[n] # <<>>
    /\ events' = [events EXCEPT ![n] = Tail(@)]
    /\ runners' = IF Head(events[n]) = "acquired" /\ runners[n] < MaxRunners
                  THEN [runners EXCEPT ![n] = @ + 1]
                  ELSE runners
    /\ UNCHANGED <<key, alive, mgr>>

(***************************************************************************)
(* etcd, and the life of a process                                         *)
(***************************************************************************)
ExpireCurrent(n) ==
    /\ alive[n]
    /\ alive' = [alive EXCEPT ![n] = FALSE]
    /\ key' = IF key = Owned(n, TRUE) THEN NoKey ELSE key
    /\ UNCHANGED <<mgr, events, runners>>

ExpireAbandoned(n) ==
    /\ key = Owned(n, FALSE)
    /\ key' = NoKey
    /\ UNCHANGED <<alive, mgr, events, runners>>

Crash(n) ==
    /\ mgr[n] # "off"
    /\ Goto(n, "off")
    /\ events' = [events EXCEPT ![n] = <<>>]
    /\ runners' = [runners EXCEPT ![n] = 0]
    /\ UNCHANGED <<key, alive>>

Restart(n) ==
    /\ mgr[n] = "off"
    /\ Goto(n, "wait")
    /\ UNCHANGED <<key, alive, events, runners>>

\* A lease that nobody keeps alive expires; one that is kept alive expires
\* only when its node is cut off or paused.
Unattended(n) == mgr[n] # "holding"

Progress(n) ==
    \/ GrantLease(n)
    \/ Acquire(n)
    \/ AcquireFails(n)
    \/ TakeEvent(n)
    \/ Unattended(n) /\ mgr[n] # "granted" /\ ExpireCurrent(n)
    \/ ExpireAbandoned(n)
    \/ ~alive[n] /\ LoseLeadership(n)

Fault(n) ==
    \/ AcquireUnanswered(n)
    \/ alive[n] /\ LoseLeadership(n)
    \/ KeepAliveFails(n)
    \/ ExpireCurrent(n)
    \/ Crash(n)
    \/ Restart(n)

Next == \E n \in Nodes : Progress(n) \/ Fault(n)

Spec == Init /\ [][Next]_vars

\* The manager's loop and the runtime's loop run on; etcd expires what is
\* not kept alive.  No fault has to happen.
Fairness ==
    \A n \in Nodes :
        /\ WF_vars(GrantLease(n))
        /\ WF_vars(Acquire(n) \/ AcquireFails(n))
        /\ WF_vars(TakeEvent(n))
        /\ WF_vars(Unattended(n) /\ mgr[n] # "granted" /\ ExpireCurrent(n))
        /\ WF_vars(ExpireAbandoned(n))
        /\ WF_vars(~alive[n] /\ LoseLeadership(n))

FairSpec == Spec /\ Fairness

(***************************************************************************)
(* Properties                                                              *)
(***************************************************************************)
Leading(n) == mgr[n] = "holding" /\ alive[n]

\* A node that believes it leads, and whose lease etcd still honours, owns
\* the key: the CAS, the expiry and the re-grant leave no second believer.
LeaderOwnsKey == \A n \in Nodes : Leading(n) => key = Owned(n, TRUE)

\* Faults end.
CalmsDown == <>[][\A n \in Nodes : ~Fault(n)]_vars

\* Once faults stop and somebody is up, one node leads for good and its
\* controller runs, also when an abandoned key was left behind.
LeaderRuns ==
    CalmsDown /\ <>[](\E n \in Nodes : mgr[n] # "off")
        => <>[](\E n \in Nodes : Leading(n) /\ runners[n] > 0)

\* controller/README.md:3: controller and consumer run only while the node
\* holds the lease: after it has let go and read its events, none is left.
StopsWhenLost ==
    \A n \in Nodes : mgr[n] = "wait" /\ events[n] = <<>> => runners[n] = 0
=============================================================================
