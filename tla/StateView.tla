------------------------------ MODULE StateView ------------------------------
(***************************************************************************)
(* What the API and the web page show of a tree (internal/api/view.go).    *)
(*                                                                         *)
(* Documents are shown as they are; names are looked up in the config      *)
(* documents; 0 is an empty name, for which the id is shown.               *)
(***************************************************************************)
EXTENDS StateStore, EtcdKeys

RootSystemKeys ==
    {"leadership", "commands", "commands_history", "registry", "session", "config"}
ManagementSystemKeys == {"desired", "actual", "health"}

Has(tree, key) == key \in DOMAIN tree

\* nameOrID, of the document that carries the name
NameOrID(tree, key) ==
    IF Get(tree, key) = NoValue THEN 0 ELSE CHOOSE name \in {doc.name : doc \in Get(tree, key)} : TRUE

\* buildFlatValueMap
FlatValueMap(tree, key) ==
    LET shown == {name \in ListChildren(tree, key) : Get(tree, Append(key, name)) # NoValue}
    IN  [name \in shown |-> Get(tree, Append(key, name))]

\* buildConfig: groups without a management group are left out.
BuildConfig(tree) ==
    LET root == <<"config", "cluster_groups">>
        groups(g) == ListChildren(tree, Append(root, g)) \ {"_meta"}
    IN  [g \in {g \in ListChildren(tree, root) : groups(g) # {}} |->
            [m \in groups(g) |-> Get(tree, ManagementGroupConfig(g, m))]]

\* Variant: every node below a management group is taken for a container.
AnyRoleContainer(tree, key) == ListChildren(tree, key) \ ManagementSystemKeys # {}

\* looksLikeRoleContainer
RoleContainer(tree, key) ==
    \E name \in ListChildren(tree, key) \ ManagementSystemKeys :
        Has(tree, key \o <<name, "actual">>) \/ Has(tree, key \o <<name, "health">>)

\* buildNode
NodeView(tree, key, n) ==
    LET report(r, kind) == Get(tree, key \o <<r, kind>>)
        shown == {r \in ListChildren(tree, key) \ ManagementSystemKeys :
                    report(r, "actual") # NoValue \/ report(r, "health") # NoValue}
    IN  [name  |-> NameOrID(tree, ConfigNode(n)),
         roles |-> [r \in shown |-> [name   |-> NameOrID(tree, ConfigRole(r)),
                                     actual |-> report(r, "actual"),
                                     health |-> report(r, "health")]]]

\* buildManagementGroup: a node with the group's name is found at the
\* group's own key.
ManagementGroupView(tree, g, m) ==
    LET key == ManagementGroup(g, m)
        below == {n \in ListChildren(tree, key) \ ManagementSystemKeys :
                    RoleContainer(tree, Append(key, n))}
        own == IF RoleContainer(tree, key) THEN {m} ELSE {}
    IN  [config  |-> Get(tree, ManagementGroupConfig(g, m)),
         desired |-> Get(tree, Append(key, "desired")),
         actual  |-> Get(tree, Append(key, "actual")),
         health  |-> Get(tree, Append(key, "health")),
         nodes   |-> [n \in below \cup own |->
                        NodeView(tree, IF n \in own THEN key ELSE Append(key, n), n)]]

\* buildClusterGroup
ClusterGroupView(tree, g) ==
    [name |-> NameOrID(tree, ConfigClusterGroupMeta(g)),
     management_groups |->
        [m \in ListChildren(tree, <<g>>) \ ManagementSystemKeys |->
            ManagementGroupView(tree, g, m)]]

\* BuildStateView
BuildStateView(ready, revision, tree) ==
    [ready    |-> ready,
     revision |-> revision,
     name     |-> NameOrID(tree, ConfigMeta),
     leader   |-> Get(tree, <<"leadership">>),
     config   |-> BuildConfig(tree),
     registry |-> FlatValueMap(tree, <<"registry">>),
     session  |-> FlatValueMap(tree, <<"session">>),
     groups   |-> [g \in ListChildren(tree, <<>>) \ RootSystemKeys |-> ClusterGroupView(tree, g)]]
=============================================================================
