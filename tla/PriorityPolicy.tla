-------------------------- MODULE PriorityPolicy --------------------------
(***************************************************************************)
(* The decisions of the leader's controller, as operators on what one      *)
(* reconcile pass has collected: rt is a function from the groups whose    *)
(* reconcile succeeded to [priority, desired, managed, actual].            *)
(* Choices are predicates on the group chosen rather than CHOOSE, with the *)
(* code's tie-breaks (first in name order).                                *)
(***************************************************************************)
EXTENDS Integers

NoGroup == 0

\* The state the controller publishes for a group whose roles report the
\* set "reports".  An absent report is an agent that left: it fails a
\* managed group and is ignored for an unmanaged one.
GroupActual(managed, reports, startingIsNewer) ==
    LET seen == reports \ {"absent"} IN
    CASE managed /\ "absent" \in reports -> "failed"
      [] "failed" \in seen -> "failed"
      [] seen = {} -> "passive"
      [] {"starting", "stopping"} \subseteq seen ->
            IF startingIsNewer THEN "starting" ELSE "stopping"
      [] "starting" \in seen -> "starting"
      [] "stopping" \in seen -> "stopping"
      [] {"active", "passive"} \subseteq seen -> "failed"
      [] "active" \in seen -> "active"
      [] OTHER -> "passive"

Available(rt, g) == rt[g].actual # "failed"
ManagedIn(rt)    == {g \in DOMAIN rt : rt[g].managed}
AvailableIn(rt)  == {g \in DOMAIN rt : Available(rt, g)}

First(S, g) == g \in S /\ \A h \in S : g <= h

\* Variant: only the groups that are to be active are compared.
AllSamePriorityOfActive(rt) ==
    \A g, h \in {i \in DOMAIN rt : rt[i].desired = "active"} : rt[g].priority = rt[h].priority

AllSamePriority(rt) == \A g, h \in DOMAIN rt : rt[g].priority = rt[h].priority

\* The members of S with the lowest priority number.
Best(rt, S) == {g \in S : \A h \in S : rt[g].priority <= rt[h].priority}

FindTarget(rt, t) == First(Best(rt, ManagedIn(rt) \cap AvailableIn(rt)), t)

\* Who holds the active role.  First choice: desired=active and managed.
\* Second: desired=passive but the roles still run, whether or not the
\* group is managed.
DesiredActive(rt) == {g \in ManagedIn(rt) : rt[g].desired = "active"}

\* Variant: a group that was told to stop counts as gone at once.
StillRunningForgotten(rt) == {g \in DOMAIN rt : FALSE}

StillRunning(rt) ==
    {g \in DOMAIN rt : /\ rt[g].desired = "passive"
                       /\ rt[g].actual \in {"active", "stopping", "starting"}}

CurrentActive(rt, h) ==
    IF DesiredActive(rt) # {} THEN First(DesiredActive(rt), h)
    ELSE IF StillRunning(rt) # {} THEN First(StillRunning(rt), h)
    ELSE h = NoGroup

\* Variant: a holder that is on its way down counts as drained.
DrainedEarly(rt, h) == rt[h].actual \in {"passive", "failed", "stopping"}

\* Phase 1 is over for a holder that is down.
Drained(rt, h) == rt[h].actual \in {"passive", "failed"}

(***************************************************************************)
(* Automatic failover: the failed groups at the best priority change       *)
(* places with the best available ones.                                    *)
(***************************************************************************)
TopGroups(rt) == Best(rt, DOMAIN rt)
Demotable(rt) == TopGroups(rt) \ AvailableIn(rt)

\* Variant: the failed groups are candidates too.
PromotableUnchecked(rt) == Best(rt, DOMAIN rt)

Promotable(rt) == Best(rt, AvailableIn(rt))

FailoverDue(rt) ==
    /\ Demotable(rt) \cap ManagedIn(rt) # {}
    /\ AvailableIn(rt) # {}

\* g's priority after the swap is p.
SwappedPriority(rt, g, p) ==
    \/ g \in Demotable(rt)  /\ \E h \in Promotable(rt) : p = rt[h].priority
    \/ g \in Promotable(rt) /\ \E h \in TopGroups(rt)  : p = rt[h].priority
=============================================================================
