----------------------------- MODULE NodeConfig -----------------------------
(***************************************************************************)
(* A node's configuration (internal/config): loaded from its file, with    *)
(* the defaults filled in, validated, and overlaid with the documents that *)
(* etcd holds.                                                             *)
(*                                                                         *)
(* The values of a field are integers: 0 is the zero value (an empty name, *)
(* no actors, no duration), 1 the hardcoded default, a negative number a   *)
(* negative duration.  Durations are written to etcd and parsed back       *)
(* unchanged.                                                              *)
(*                                                                         *)
(* A file has the fields of a configuration and "defaults", its            *)
(* roles.defaults.  Fields that only the node itself uses are left out.    *)
(***************************************************************************)
EXTENDS Integers, Sequences, Functions, EtcdKeys

DefaultValue == 1

ClusterFields == {"name", "failover_mode", "leader_ttl"}
RoleFields == {"name", "actors", "converge"}
InheritedFields == {"actors", "converge"}
DefaultedFields == {"name", "converge"}

\* The zero value of a role and of a management group.
NoRole == [f \in RoleFields |-> 0]
NoManagementGroup == [priority |-> 0, roles |-> {}]

\* applyRoleDefaults
ApplyRoleDefaults(role, defaults) ==
    [f \in RoleFields |->
        IF f \in InheritedFields /\ role[f] = 0 THEN defaults[f] ELSE role[f]]

\* Variant: the cluster's parameters have no defaults.
FillNothing(fields, values) == values

\* applyDefaults, of the fields that have a default
Fill(fields, values) ==
    [f \in DOMAIN values |-> IF f \in fields /\ values[f] = 0 THEN DefaultValue ELSE values[f]]

\* RolesMap.UnmarshalYAML
Roles(file) ==
    [r \in DOMAIN file.roles |-> ApplyRoleDefaults(file.roles[r], file.defaults)]

\* Load, but for the validation
LoadConfig(file) ==
    [cluster |-> Fill(ClusterFields, file.cluster),
     groups  |-> [g \in DOMAIN file.groups |-> Fill({"name"}, file.groups[g])],
     roles   |-> [r \in DOMAIN file.roles |-> Fill(DefaultedFields, Roles(file)[r])],
     management_groups |-> file.management_groups,
     node    |-> [file.node EXCEPT !.name = IF @ = 0 THEN DefaultValue ELSE @]]

\* validate, of one of the node's memberships
ValidMembership(config, g, m) ==
    /\ g \in DOMAIN config.groups
    /\ <<g, m>> \in DOMAIN config.management_groups
    /\ LET group == config.management_groups[<<g, m>>]
       IN  /\ group.priority > 0
           /\ group.roles # {}
           /\ group.roles \subseteq DOMAIN config.roles

Memberships(config) == Range(config.node.memberships)

Valid(config) ==
    /\ DOMAIN config.groups # {}
    /\ config.node.memberships # <<>>
    /\ \A at \in Memberships(config) : ValidMembership(config, at[1], at[2])

(***************************************************************************)
(* Merge with what etcd has.  "documents" maps the keys that etcd has to   *)
(* their documents.                                                        *)
(***************************************************************************)
\* etcd overrides where it has a value; a duration must be positive.
Overlay(local, document) ==
    [f \in DOMAIN local |-> IF document[f] > 0 THEN document[f] ELSE local[f]]

OverlayGroup(local, document) ==
    [priority |-> IF document.priority > 0 THEN document.priority ELSE local.priority,
     roles    |-> IF document.roles # {} THEN document.roles ELSE local.roles]

OverlayNode(local, document) ==
    [name        |-> IF document.name # 0 THEN document.name ELSE local.name,
     memberships |-> IF document.memberships # <<>> THEN document.memberships
                     ELSE local.memberships]

Or(locals, id, none) == IF id \in DOMAIN locals THEN locals[id] ELSE none

\* loadSnapshot: the documents that etcd has, sorted by the shape of their
\* keys; other nodes' documents are left out.  The node's own id is n.
EtcdSnapshot(documents, n) ==
    LET shaped(length, name) ==
            {k \in DOMAIN documents : Len(k) = length /\ k[1] = "config" /\ k[2] = name}
        groupKeys == shaped(4, "cluster_groups")
        these(keys) == {documents[k] : k \in keys \cap DOMAIN documents}
    IN  [cluster |-> these({ConfigMeta}),
         groups  |-> [g \in {k[3] : k \in {key \in groupKeys : key[4] = "_meta"}} |->
                        documents[ConfigClusterGroupMeta(g)]],
         roles   |-> [r \in {k[3] : k \in shaped(3, "roles")} |-> documents[ConfigRole(r)]],
         management_groups |->
            [at \in {<<k[3], k[4]>> : k \in {key \in groupKeys : key[4] # "_meta"}} |->
                documents[ManagementGroupConfig(at[1], at[2])]],
         node    |-> these({ConfigNode(n)})]

\* A copy of the file's map, with etcd's entries put into it.
WithEntries(locals, entries) ==
    [id \in DOMAIN locals \cup DOMAIN entries |->
        IF id \in DOMAIN entries THEN entries[id] ELSE locals[id]]

\* Merge
Merge(local, snap) ==
    [cluster |-> IF snap.cluster = {} THEN local.cluster
                 ELSE Overlay(local.cluster, CHOOSE doc \in snap.cluster : TRUE),
     groups  |-> WithEntries(local.groups,
                    [g \in {h \in DOMAIN snap.groups : snap.groups[h].name # 0} |->
                        snap.groups[g]]),
     roles   |-> WithEntries(local.roles,
                    [r \in DOMAIN snap.roles |->
                        Overlay(Or(local.roles, r, NoRole), snap.roles[r])]),
     management_groups |->
        WithEntries(local.management_groups,
            [at \in DOMAIN snap.management_groups |->
                OverlayGroup(Or(local.management_groups, at, NoManagementGroup),
                             snap.management_groups[at])]),
     node    |-> IF snap.node = {} THEN local.node
                 ELSE OverlayNode(local.node, CHOOSE doc \in snap.node : TRUE)]
=============================================================================
