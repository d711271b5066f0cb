------------------------------ MODULE MCStartup ------------------------------
(* Files of two nodes for TLC.  Both are members of the group "a", the only *)
(* one, with other priorities and roles, and the file of the one leaves out *)
(* most of what that of the other sets.                                     *)
EXTENDS Startup

Cluster(name, mode, ttl) == [name |-> name, failover_mode |-> mode, leader_ttl |-> ttl]
Role(name, actors, converge) == [name |-> name, actors |-> actors, converge |-> converge]
Group(priority, roles) == [priority |-> priority, roles |-> roles]

FileA == [cluster |-> Cluster(0, 2, 0),
          groups |-> ("g" :> [name |-> 0]),
          roles |-> ("r" :> Role(0, 2, 0)),
          defaults |-> Role(0, 0, 0),
          management_groups |-> (<<"g", "a">> :> Group(1, {"r"})),
          node |-> [name |-> 0, memberships |-> <<<<"g", "a">>>>]]

FileB == [cluster |-> Cluster(3, 0, 3),
          groups |-> ("g" :> [name |-> 3]),
          roles |-> ("q" :> Role(3, 0, 0)),
          defaults |-> Role(0, 3, 3),
          management_groups |-> (<<"g", "a">> :> Group(2, {"q"})),
          node |-> [name |-> 3, memberships |-> <<<<"g", "a">>>>]]

\* "b" with another name
FileB2 == [FileB EXCEPT !.node.name = 2]

MCFiles == [n \in Nodes |-> IF n = "a" THEN {FileA} ELSE {FileB, FileB2}]

\* "a" with a negative duration: not defaulted, not overridden by etcd
NegativeFiles == [MCFiles EXCEPT !["a"] = {[FileA EXCEPT !.cluster.leader_ttl = -1]}]

\* A restart while the other runs; writes in between; one node whose pages are
\* watched.
MCScenes ==
    {[nodes |-> Nodes, clients |-> {}, starts |-> 3, writes |-> 0],
     [nodes |-> Nodes, clients |-> {}, starts |-> 2, writes |-> 1],
     [nodes |-> {Me}, clients |-> Clients, starts |-> 2, writes |-> 2]}
=============================================================================
