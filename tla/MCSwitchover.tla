---------------------------- MODULE MCSwitchover ----------------------------
(* Instances of Switchover for TLC. *)
EXTENDS Switchover

\* Group 1 is active and the best, all are managed.
Ranked == {[g \in Groups |-> g]}
OneActive == {[g \in Groups |-> Doc(IF g = 1 THEN "active" ELSE "passive", TRUE)]}
\* The first group is active and has the best priority, or the last one.
EitherRanked == {[g \in Groups |-> g], [g \in Groups |-> N + 1 - g]}
EitherActive ==
    {[g \in Groups |-> Doc(IF g = h THEN "active" ELSE "passive", TRUE)] : h \in {1, N}}

\* Groups 1 and 2 share the best priority.
TiedAtTop == {[g \in Groups |-> IF g <= 2 THEN 1 ELSE g]}
\* Group 2 runs unmanaged, the others are managed and passive.
UnmanagedActive ==
    {[g \in Groups |-> IF g = 2 THEN Doc("active", FALSE) ELSE Doc("passive", TRUE)]}

\* Any desired documents, any priorities.
AnyDesired == [Groups -> Docs]
AnyPriority == [Groups -> Priorities]
Distinct == {p \in AnyPriority : \A g, h \in Groups : p[g] = p[h] => g = h}
\* Every group is managed; any of them may be active.
AnyManaged == {d \in AnyDesired : \A g \in Groups : d[g].managed}
============================================================================
