------------------------------ MODULE EtcdKeys ------------------------------
(***************************************************************************)
(* The keys of a cluster in etcd (internal/model/keys.go), as paths below  *)
(* Root: a key is the sequence of its names.                               *)
(***************************************************************************)
EXTENDS Sequences

Registry(n) == <<"registry", n>>
Session(n) == <<"session", n>>

ConfigMeta == <<"config", "_meta">>
ConfigNode(n) == <<"config", "nodes", n>>
ConfigRole(r) == <<"config", "roles", r>>
ConfigClusterGroupMeta(g) == <<"config", "cluster_groups", g, "_meta">>
ManagementGroupConfig(g, m) == <<"config", "cluster_groups", g, m>>

ManagementGroup(g, m) == <<g, m>>
Desired(g, m) == <<g, m, "desired">>

\* A node that has the name of its management group has no level of its own.
RoleReport(g, m, n, r, kind) == IF m = n THEN <<g, m, r, kind>> ELSE <<g, m, n, r, kind>>
=============================================================================
