------------------------------ MODULE Session ------------------------------
(***************************************************************************)
(* The session of a node (internal/lease/session.go) and the session lease *)
(* id that internal/etcd/client.go keeps for the role workers.             *)
(*                                                                         *)
(* The runtime starts the session manager once.  It grants a lease,        *)
(* publishes the id, writes the registration and the session key, and      *)
(* keeps the lease alive; when anything fails, or the keepalive channel    *)
(* closes, it takes the id back and ends, and nothing starts it again.     *)
(*                                                                         *)
(* Process i grants lease i.  The lease of a process that died lives on    *)
(* until its TTL is over: Close does not revoke it.                        *)
(***************************************************************************)
EXTENDS Naturals

CONSTANTS
    MaxStarts  \* bound: how often the process is started

ASSUME SessionAssumption == MaxStarts \in Nat \ {0}

VARIABLES
    starts,   \* processes started so far; the last one is the current one
    sess,     \* where the session manager of the current process is
    leaseId,  \* Client.sessionLeaseID, 0 when there is none
    alive     \* leases that live in etcd

sessionVars == <<starts, sess, leaseId, alive>>

Leases == 1..MaxStarts

SessionTypeOK ==
    /\ starts \in Leases
    /\ sess \in {"down", "grant", "register", "keep", "over"}
    /\ leaseId \in {0, starts}
    /\ alive \subseteq 1..starts

SessionInit ==
    /\ starts = 1
    /\ sess = "grant"
    /\ leaseId = 0
    /\ alive = {}

\* SetSessionLeaseID comes before the registration: the workers may write
\* under the lease from here on.
Grant ==
    /\ sess = "grant"
    /\ sess' = "register"
    /\ leaseId' = starts
    /\ alive' = alive \cup {starts}
    /\ UNCHANGED starts

\* The registration, the session key under the lease, and the keepalive.
\* The key cannot be put under a lease that has expired.
Register ==
    /\ sess = "register"
    /\ starts \in alive
    /\ sess' = "keep"
    /\ UNCHANGED <<starts, leaseId, alive>>

\* Run returns; the deferred ClearSessionLeaseID takes the id back.
EndSession ==
    /\ sess' = "over"
    /\ leaseId' = 0
    /\ UNCHANGED <<starts, alive>>

\* The lease is gone, so the session key cannot be put, or the keepalive
\* channel closes.
NoticeLeaseGone ==
    /\ sess \in {"register", "keep"}
    /\ starts \notin alive
    /\ EndSession

\* An error of any request, or a keepalive channel that closes although the
\* lease still lives.
SessionFails ==
    /\ sess \in {"grant", "register", "keep"}
    /\ EndSession

\* Nobody keeps it alive: its process is dead or its session is over.
Abandoned(l) == l # starts \/ sess \in {"down", "over"}

\* etcd drops a lease that was not kept alive for its TTL.
Expires(l) ==
    /\ l \in alive
    /\ alive' = alive \ {l}
    /\ UNCHANGED <<starts, sess, leaseId>>

ProcessDies ==
    /\ sess # "down"
    /\ starts < MaxStarts
    /\ sess' = "down"
    /\ leaseId' = 0
    /\ UNCHANGED <<starts, alive>>

ProcessStarts ==
    /\ sess = "down"
    /\ starts' = starts + 1
    /\ sess' = "grant"
    /\ UNCHANGED <<leaseId, alive>>
=============================================================================
