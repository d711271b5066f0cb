------------------------------ MODULE Bootstrap ------------------------------
(***************************************************************************)
(* The start of the agents: each loads its file, reads etcd, and seeds the *)
(* keys that are not there yet (internal/bootstrap, runtime.Run), while    *)
(* others start, run, or die, and operators and sessions write.            *)
(*                                                                         *)
(* etcd maps the keys it has to their documents.                           *)
(***************************************************************************)
EXTENDS NodeConfig, SequencesExt

CONSTANTS
    Nodes,
    Files,     \* for each node the files it may be started with
    Scenes     \* bounds: which nodes take part and which browsers, how often
               \* a process is started, how often operators and sessions write

ASSUME BootstrapAssumption ==
    /\ \A n \in Nodes : Files[n] # {} /\ \A file \in Files[n] : Valid(LoadConfig(file))
    /\ \A s \in Scenes : s.nodes \subseteq Nodes /\ s.starts \in Nat /\ s.writes \in Nat

\* The names that the layout of the keys uses.  A file may use them for its
\* groups, roles and nodes, too: nothing checks that it does not.
Reserved == {"config", "nodes", "roles", "cluster_groups", "_meta", "registry", "session",
             "leadership", "commands", "commands_history", "desired", "actual", "health"}

\* A configuration that does not use them, and is of the right shape.
Proper(c) ==
    /\ c.node = [name |-> c.node.name, memberships |-> c.node.memberships]
    /\ c.node.memberships \in Seq(Memberships(c))
    /\ DOMAIN c.roles \cap Reserved = {}
    /\ \A at \in Memberships(c) :
        /\ at = <<at[1], at[2]>>
        /\ {at[1], at[2]} \cap Reserved = {}
        /\ LET group == c.management_groups[at]
           IN  /\ group = [priority |-> group.priority, roles |-> group.roles]
               /\ group.priority \in Int

ASSUME NamesAssumption ==
    /\ Nodes \cap Reserved = {}
    /\ \A n \in Nodes : \A file \in Files[n] : Proper(LoadConfig(file))

VARIABLES
    etcd,
    phase,   \* of each node's process
    config,  \* the configuration it has loaded
    todo,    \* seeds that Ensure has yet to come to
    starts,
    writes,
    scene    \* the bounds of this behaviour

bootVars == <<etcd, phase, config, todo, starts, writes, scene>>

Phases == {"down", "connect", "ensure", "run"}

Put(key, document) ==
    [k \in {key} \cup DOMAIN etcd |-> IF k = key THEN document ELSE etcd[k]]
Has(key) == key \in DOMAIN etcd

BootstrapDesired == [state |-> "passive", managed |-> FALSE]

(***************************************************************************)
(* What a node seeds, and in which order                                   *)
(***************************************************************************)
Seed(c, n, key) ==
    CASE key = ConfigMeta    -> c.cluster
      [] key = ConfigNode(n) -> c.node
      [] key[1] # "config"   -> BootstrapDesired
      [] key[2] = "roles"    -> c.roles[key[3]]
      [] Len(key) = 4 /\ key[4] = "_meta" -> c.groups[key[3]]
      [] OTHER               -> c.management_groups[<<key[3], key[4]>>]

\* Variant: the node's memberships come first, and desired before config.
StagesBackwards(c, n) ==
    LET at(i) == c.node.memberships[(i + 1) \div 2]
    IN  [i \in 1..2 * Len(c.node.memberships) |->
            {IF i % 2 = 1 THEN Desired(at(i)[1], at(i)[2])
             ELSE ManagementGroupConfig(at(i)[1], at(i)[2])}]
        \o <<{ConfigNode(n)}, {ConfigRole(r) : r \in DOMAIN c.roles},
             {ConfigClusterGroupMeta(g) : g \in DOMAIN c.groups}, {ConfigMeta}>>

\* Ensure: one stage after the other, the keys of a stage (a Go map) in any
\* order; for each membership its group's config, then its desired.
Stages(c, n) ==
    LET at(i) == c.node.memberships[(i + 1) \div 2]
    IN  <<{ConfigMeta}, {ConfigClusterGroupMeta(g) : g \in DOMAIN c.groups},
          {ConfigRole(r) : r \in DOMAIN c.roles}, {ConfigNode(n)}>>
        \o [i \in 1..2 * Len(c.node.memberships) |->
               {IF i % 2 = 1 THEN ManagementGroupConfig(at(i)[1], at(i)[2])
                ELSE Desired(at(i)[1], at(i)[2])}]

(***************************************************************************)
(* A process                                                               *)
(***************************************************************************)
BootInit ==
    /\ etcd = <<>>
    /\ phase = [n \in Nodes |-> "down"]
    /\ config = [n \in Nodes |-> LoadConfig(CHOOSE file \in Files[n] : TRUE)]
    /\ todo = [n \in Nodes |-> <<>>]
    /\ starts = 0
    /\ writes = 0
    /\ scene \in Scenes

\* config.Load; the API is up from here on.
Start(n) ==
    /\ phase[n] = "down"
    /\ n \in scene.nodes
    /\ starts < scene.starts
    /\ starts' = starts + 1
    /\ \E file \in Files[n] : config' = [config EXCEPT ![n] = LoadConfig(file)]
    /\ phase' = [phase EXCEPT ![n] = "connect"]
    /\ UNCHANGED <<etcd, todo, writes, scene>>

\* connectETCD got an answer; GetPrefix and LoadSnapshot follow.
Connect(n) ==
    /\ phase[n] = "connect"
    /\ phase' = [phase EXCEPT ![n] = "ensure"]
    /\ todo' = [todo EXCEPT ![n] = Stages(config[n], n)]
    /\ UNCHANGED <<etcd, config, starts, writes, scene>>

\* Variant: every seed is put, whatever is there.
PutAlways(n, key) == Put(key, Seed(config[n], n, key))

\* Variant: no document is put over another.
PutIfAbsentOwnToo(n, key) == IF Has(key) THEN etcd ELSE Put(key, Seed(config[n], n, key))

\* TryPutIfAbsent, but for the node's own document, which is always put.
PutIfAbsent(n, key) ==
    IF Has(key) /\ key # ConfigNode(n) THEN etcd ELSE Put(key, Seed(config[n], n, key))

Ensure(n) ==
    /\ phase[n] = "ensure"
    /\ todo[n] # <<>>
    /\ \E key \in Head(todo[n]) :
        /\ etcd' = PutIfAbsent(n, key)
        /\ todo' = [todo EXCEPT ![n] =
                        IF Head(@) = {key} THEN Tail(@) ELSE <<Head(@) \ {key}>> \o Tail(@)]
    /\ UNCHANGED <<phase, config, starts, writes, scene>>

\* Ensure is done: the watch and the managers start.
Run(n) ==
    /\ phase[n] = "ensure"
    /\ todo[n] = <<>>
    /\ phase' = [phase EXCEPT ![n] = "run"]
    /\ UNCHANGED <<etcd, config, todo, starts, writes, scene>>

\* The process dies, or an error of a request ends its Run.
Die(n) ==
    /\ phase[n] # "down"
    /\ phase' = [phase EXCEPT ![n] = "down"]
    /\ todo' = [todo EXCEPT ![n] = <<>>]
    /\ UNCHANGED <<etcd, config, starts, writes, scene>>

(***************************************************************************)
(* Operators and sessions                                                  *)
(***************************************************************************)
Write == writes < scene.writes /\ writes' = writes + 1

\* promote, of a group that bootstrap has seeded: the leader enables it
Operate ==
    /\ Write
    /\ \E key \in DOMAIN etcd :
        /\ Last(key) = "desired"
        /\ etcd' = Put(key, [state |-> "active", managed |-> TRUE])
    /\ UNCHANGED <<phase, config, todo, starts, scene>>

\* promote and demote: another priority
Prioritize ==
    /\ Write
    /\ \E key \in DOMAIN etcd :
        /\ Len(key) = 4 /\ key[1] = "config" /\ key[2] = "cluster_groups" /\ key[4] # "_meta"
        /\ etcd' = Put(key, [etcd[key] EXCEPT !.priority = @ + 1])
    /\ UNCHANGED <<phase, config, todo, starts, scene>>

ReportKeys(n, c) ==
    UNION {{RoleReport(at[1], at[2], n, r, kind) : r \in c.management_groups[at].roles,
                                                   kind \in {"actual", "health"}} :
              at \in Memberships(c)}

\* The session or a worker of a running node writes; the registration comes
\* before the session and is the only one without a lease.
Report(n) ==
    /\ Write
    /\ phase[n] = "run"
    /\ \E key \in {Registry(n), Session(n)} \cup ReportKeys(n, config[n]) :
        /\ key = Session(n) => Has(Registry(n))
        /\ ~Has(key)
        /\ etcd' = Put(key, [status |-> "passive"])
    /\ UNCHANGED <<phase, config, todo, starts, scene>>

\* What the node may have written under a lease, now or as a former process.
LeasedKeys == [n \in Nodes |->
    {Session(n)} \cup UNION {ReportKeys(n, LoadConfig(file)) : file \in Files[n]}]

\* The node was cut off, or died: what it wrote under a lease goes, all at
\* one revision.
Expire(n) ==
    /\ \E gone \in (SUBSET (LeasedKeys[n] \cap DOMAIN etcd)) \ {{}} : etcd' = Restrict(etcd, DOMAIN etcd \ gone)
    /\ UNCHANGED <<phase, config, todo, starts, writes, scene>>
=============================================================================
