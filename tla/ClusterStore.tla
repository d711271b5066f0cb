--------------------------- MODULE ClusterStore ---------------------------
(***************************************************************************)
(* The etcd keys of one cluster group, and the copy of them that the       *)
(* leader's node keeps in memory (internal/store) and feeds from an etcd   *)
(* watch (internal/runtime watchLoop).                                     *)
(*                                                                         *)
(* Every part of the agent WRITES etcd and READS its in-memory copy, so a  *)
(* reader may see a state that is several writes old.  The copy is always  *)
(* some earlier state of etcd: events arrive one by one, in commit order.  *)
(*                                                                         *)
(* Management groups are the numbers 1..N, in the order in which           *)
(* store.ListChildren returns their names.  A role here is one (node,      *)
(* role) pair of a management group.  A group's /actual and /health keys   *)
(* are one key, because the controller derives both from one state:        *)
(* failed -> failed, starting or stopping -> warning, active or passive    *)
(* -> ok.  The same holds for the two keys of a role.                      *)
(***************************************************************************)
EXTENDS Integers, Sequences

CONSTANTS
    N,            \* number of management groups in the cluster group
    Roles,        \* the (node, role) pairs registered in each group
    MaxPriority,  \* priorities are 1..MaxPriority, 1 is the best
    MaxLag,       \* bound: watch events not yet applied to the copy; 0 for a
                  \* copy that never lags
    WritesMayFail \* an etcd request may return an error

ASSUME StoreAssumption ==
    /\ N \in Nat \ {0}
    /\ MaxPriority \in Nat \ {0}
    /\ MaxLag \in Nat
    /\ WritesMayFail \in BOOLEAN

VARIABLES
    etcd,   \* what etcd holds: a value for every key
    store,  \* the leader's in-memory copy
    watch   \* committed events on their way to the copy, oldest first

storeVars == <<etcd, store, watch>>

Groups == 1..N
None == 0
Workers == Groups \X Roles

Desired(g)     == <<"desired", g>>
Priority(g)    == <<"config", g>>
Status(g)      == <<"status", g>>
RoleKey(g, r)  == <<"role", g, r>>

Doc(state, managed) == [state |-> state, managed |-> managed]
Docs       == [state : {"active", "passive"}, managed : BOOLEAN]
Priorities == 1..MaxPriority
Actuals    == {"active", "passive", "starting", "stopping", "failed"}
Reports    == Actuals \cup {"absent"}

DesiredKeys  == {"desired"} \X Groups
PriorityKeys == {"config"} \X Groups
StatusKeys   == {"status"} \X Groups
RoleKeys     == {"role"} \X Groups \X Roles
Keys == DesiredKeys \cup PriorityKeys \cup StatusKeys \cup RoleKeys

ValuesAt(k) ==
    CASE k[1] = "desired" -> Docs
      [] k[1] = "config"  -> Priorities
      [] OTHER            -> Reports

\* A function on Keys with a proper value everywhere.
Snapshot(s) == /\ s = [k \in Keys |-> s[k]]
               /\ \A k \in Keys : s[k] \in ValuesAt(k)

Events == UNION {[key : {k}, value : ValuesAt(k)] : k \in Keys}

StoreTypeOK ==
    /\ Snapshot(etcd)
    /\ Snapshot(store)
    /\ watch \in Seq(Events)

(***************************************************************************)
(* A put commits in etcd and its event travels to the copy.  A put of the  *)
(* value that is already there changes only the timestamp, which nothing   *)
(* here reads.                                                             *)
(***************************************************************************)
Put(k, v) ==
    \/ etcd[k] = v /\ UNCHANGED storeVars
    \/ /\ etcd[k] # v
       /\ Len(watch) < MaxLag
       /\ etcd' = [etcd EXCEPT ![k] = v]
       /\ watch' = Append(watch, [key |-> k, value |-> v])
       /\ UNCHANGED store
    \/ /\ etcd[k] # v
       /\ MaxLag = 0
       /\ etcd' = [etcd EXCEPT ![k] = v]
       /\ store' = [store EXCEPT ![k] = v]
       /\ UNCHANGED watch

(***************************************************************************)
(* A request that returns an error may or may not have been committed: the *)
(* error can be a timeout of the answer.                                   *)
(***************************************************************************)
TryPut(k, v, ok) ==
    \/ ok /\ Put(k, v)
    \/ ~ok /\ WritesMayFail /\ (Put(k, v) \/ UNCHANGED storeVars)

\* StateStore.Apply of the oldest event; deletion of a role key is the
\* event that sets it to "absent".
Deliver ==
    /\ watch # <<>>
    /\ store' = [store EXCEPT ![Head(watch).key] = Head(watch).value]
    /\ watch' = Tail(watch)
    /\ UNCHANGED etcd
=============================================================================
