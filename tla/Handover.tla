------------------------------ MODULE Handover ------------------------------
(***************************************************************************)
(* What a planned switchover promises: one group at a time holds the       *)
(* active role; a promote names the group that should; the holder lets go  *)
(* before the wanted group takes over, and nobody else ever does.          *)
(***************************************************************************)
CONSTANTS Group, Nobody

VARIABLES wanted, holder

vars == <<wanted, holder>>

Init == wanted \in Group /\ holder = wanted

Promote(g) ==
    /\ wanted # g
    /\ wanted' = g
    /\ UNCHANGED holder

Release ==
    /\ holder \notin {wanted, Nobody}
    /\ holder' = Nobody
    /\ UNCHANGED wanted

Take ==
    /\ holder = Nobody
    /\ holder' = wanted
    /\ UNCHANGED wanted

Next == Release \/ Take \/ \E g \in Group : Promote(g)

Safety == Init /\ [][Next]_vars
Spec == Safety /\ WF_vars(Release) /\ WF_vars(Take)
=============================================================================
