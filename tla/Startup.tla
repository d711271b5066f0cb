------------------------------- MODULE Startup -------------------------------
(***************************************************************************)
(* Bootstrap, with the copy of etcd that one of the processes ("Me")       *)
(* keeps, and what its API streams of it to browsers: runtime.Run and      *)
(* watchLoop, store, api handleStream, view.                               *)
(*                                                                         *)
(* The snapshot is loaded before Ensure and the watch starts after it,     *)
(* from the revision next to the snapshot's: what is committed in between  *)
(* is in "watch", too, and delivered then.  A put of what is there already *)
(* is not counted as a revision.                                           *)
(***************************************************************************)
EXTENDS Bootstrap

CONSTANTS
    Me,
    Clients, \* browsers connected to Me's stream
    MaxLag   \* bound: watch events a running Me may be behind when another comes

ASSUME StartupAssumption ==
    /\ Me \in Nodes
    /\ \A s \in Scenes : s.clients \subseteq Clients
    /\ MaxLag \in Nat \ {0}

VARIABLES
    revision, \* of etcd
    store,    \* Me's copy: ready, revision and tree
    watch,    \* events since the snapshot that the copy has yet to see
    notify,   \* the notify slot is full
    stream,   \* what a client's handler does next
    held,     \* what it has read for the next page
    page      \* what it sent last

storeVars == <<revision, store, watch>>
streamVars == <<stream, held, page>>
vars == <<bootVars, storeVars, notify, streamVars>>

View == INSTANCE StateView

EmptyStore == [ready |-> FALSE, revision |-> 0, tree |-> View!EmptyTree]
NoPage == View!BuildStateView(FALSE, 0, View!EmptyTree)

Init ==
    /\ BootInit
    /\ revision = 0
    /\ store = EmptyStore
    /\ watch = <<>>
    /\ notify = FALSE
    /\ stream = [c \in Clients |-> "off"]
    /\ held = [c \in Clients |-> [ready |-> FALSE, revision |-> 0]]
    /\ page = [c \in Clients |-> NoPage]

(***************************************************************************)
(* The copy                                                                *)
(***************************************************************************)
\* A change of etcd, as the watch will report it.
Changed == {k \in DOMAIN etcd \cup DOMAIN etcd' :
                ~(k \in DOMAIN etcd /\ k \in DOMAIN etcd' /\ etcd[k] = etcd'[k])}

EventsOfChange ==
    SetToSeq({[key |-> k, doc |-> IF k \in DOMAIN etcd' THEN {etcd'[k]} ELSE {},
               revision |-> revision + 1] : k \in Changed})

\* Whatever is committed after the snapshot reaches the watch.
Commit ==
    /\ phase[Me] = "run" => Changed = {} \/ Len(watch) < MaxLag
    /\ revision' = IF Changed = {} THEN revision ELSE revision + 1
    /\ watch' = IF phase[Me] \in {"ensure", "run"} THEN watch \o EventsOfChange ELSE watch
    /\ UNCHANGED <<store, notify, streamVars>>

\* Variant: the watch starts at the present revision.
RunFromNow ==
    /\ Run(Me)
    /\ watch' = <<>>
    /\ UNCHANGED <<revision, store, notify, streamVars>>

RunMe ==
    /\ Run(Me)
    /\ UNCHANGED <<storeVars, notify, streamVars>>

\* Variant: the copy is stamped with the revision the watch will start at.
LoadSnapshotAhead ==
    /\ Connect(Me)
    /\ store' = [ready |-> TRUE, revision |-> revision + 1, tree |-> View!LoadSnapshot(etcd)]
    /\ notify' = TRUE
    /\ UNCHANGED <<revision, watch, streamVars>>

LoadSnapshot ==
    /\ Connect(Me)
    /\ store' = [ready |-> TRUE, revision |-> revision, tree |-> View!LoadSnapshot(etcd)]
    /\ notify' = TRUE
    /\ UNCHANGED <<revision, watch, streamVars>>

ApplyTo(tree, event) ==
    IF event.doc = {} THEN View!Delete(tree, event.key)
    ELSE View!Insert(tree, event.key, CHOOSE doc \in event.doc : TRUE)

\* watchLoop and Apply; sendNotify does nothing if the slot is full.
Apply ==
    /\ phase[Me] = "run"
    /\ watch # <<>>
    /\ store' = [store EXCEPT !.revision = Head(watch).revision,
                              !.tree = ApplyTo(@, Head(watch))]
    /\ watch' = Tail(watch)
    /\ notify' = TRUE
    /\ UNCHANGED <<bootVars, revision, streamVars>>

\* All that Me has in memory goes with it, and its clients' connections.
DieMe ==
    /\ Die(Me)
    /\ store' = EmptyStore
    /\ watch' = <<>>
    /\ notify' = FALSE
    /\ stream' = [c \in Clients |-> "off"]
    /\ held' = [c \in Clients |-> [ready |-> FALSE, revision |-> 0]]
    /\ page' = [c \in Clients |-> NoPage]
    /\ UNCHANGED revision

(***************************************************************************)
(* The stream                                                              *)
(***************************************************************************)
Quiet == UNCHANGED <<bootVars, storeVars>>

\* The first page is sent at once.  send asks for Ready, Revision and the
\* Snapshot, and each takes the store's lock by itself.
Open(c) ==
    /\ c \in scene.clients
    /\ phase[Me] # "down"
    /\ stream[c] = "off"
    /\ stream' = [stream EXCEPT ![c] = "ready"]
    /\ Quiet
    /\ UNCHANGED <<notify, held, page>>

ReadReady(c) ==
    /\ stream[c] = "ready"
    /\ held' = [held EXCEPT ![c].ready = store.ready]
    /\ stream' = [stream EXCEPT ![c] = "revision"]
    /\ Quiet
    /\ UNCHANGED <<notify, page>>

ReadRevision(c) ==
    /\ stream[c] = "revision"
    /\ held' = [held EXCEPT ![c].revision = store.revision]
    /\ stream' = [stream EXCEPT ![c] = "tree"]
    /\ Quiet
    /\ UNCHANGED <<notify, page>>

\* Variant: a signal that came in the meantime is taken for dealt with.
SendAndDrain(c) ==
    /\ stream[c] = "tree"
    /\ page' = [page EXCEPT ![c] =
                    View!BuildStateView(held[c].ready, held[c].revision, store.tree)]
    /\ stream' = [stream EXCEPT ![c] = "wait"]
    /\ held' = [held EXCEPT ![c] = [ready |-> FALSE, revision |-> 0]]
    /\ notify' = FALSE
    /\ Quiet

Send(c) ==
    /\ stream[c] = "tree"
    /\ page' = [page EXCEPT ![c] =
                    View!BuildStateView(held[c].ready, held[c].revision, store.tree)]
    /\ stream' = [stream EXCEPT ![c] = "wait"]
    /\ held' = [held EXCEPT ![c] = [ready |-> FALSE, revision |-> 0]]
    /\ Quiet
    /\ UNCHANGED notify

\* Notify is one slot for all clients.
Wake(c) ==
    /\ stream[c] = "wait"
    /\ notify
    /\ notify' = FALSE
    /\ stream' = [stream EXCEPT ![c] = "ready"]
    /\ Quiet
    /\ UNCHANGED <<held, page>>

Next ==
    \/ \E n \in Nodes :
        /\ \/ Start(n)
           \/ n # Me /\ (Connect(n) \/ Run(n) \/ Die(n))
           \/ Ensure(n)
           \/ Report(n)
           \/ Expire(n)
        /\ Commit
    \/ (Operate \/ Prioritize) /\ Commit
    \/ LoadSnapshot
    \/ RunMe
    \/ DieMe
    \/ Apply
    \/ \E c \in Clients :
        Open(c) \/ ReadReady(c) \/ ReadRevision(c) \/ Send(c) \/ Wake(c)

Spec == Init /\ [][Next]_vars

Keys ==
    {Registry(n) : n \in Nodes}
    \cup (UNION Range(LeasedKeys))
    \cup UNION {UNION {UNION Range(Stages(LoadConfig(file), n)) : file \in Files[n]} : n \in Nodes}

TypeOK ==
    /\ DOMAIN etcd \subseteq Keys
    /\ phase \in [Nodes -> Phases]
    /\ revision \in Nat
    /\ store.ready \in BOOLEAN /\ store.revision \in 0..revision
    /\ notify \in BOOLEAN
    /\ stream \in [Clients -> {"off", "ready", "revision", "tree", "wait"}]

(***************************************************************************)
(* Properties                                                              *)
(***************************************************************************)
\* bootstrap.go:45: whoever seeded what, and wherever it died, a group that
\* has a desired document has a config, and its roles have theirs.
GroupsAreComplete ==
    \A k \in {key \in DOMAIN etcd : Last(key) = "desired"} :
        /\ Has(ManagementGroupConfig(k[1], k[2]))
        /\ \A r \in etcd[ManagementGroupConfig(k[1], k[2])].roles : Has(ConfigRole(r))

\* onConfigChanged: what the config watcher of n rebuilds, logs and throws
\* away (watcher.go:62).  The node goes on with config[n], its own file.
Rebuilt(n) == Merge(config[n], EtcdSnapshot(etcd, n))
Running == {n \in Nodes : phase[n] = "run"}

\* What the config watcher of a running node rebuilds passes the validation
\* that the node's file had to pass, though others seeded parts of it.
MergedIsValid == \A n \in Running : Valid(Rebuilt(n))

\* config.go:208, "etcd values override": what the config watchers of running
\* nodes rebuild is the same configuration of the cluster, whatever their
\* files say and whoever seeded what.  It is not what the nodes run with:
\* agents are not told of it (README.md:357), and go on as their files differ.
RebuildsAgree ==
    \A n1, n2 \in Running :
        LET c1 == Rebuilt(n1)
            c2 == Rebuilt(n2)
        IN  /\ c1.cluster = c2.cluster
            /\ c1.groups = c2.groups
            /\ c1.roles = c2.roles
            /\ \A at \in Memberships(c1) :
                    c1.management_groups[at] = c2.management_groups[at]

\* bootstrap.go:171: a changed file takes effect with a restart: a running
\* node's own document says what its file says.
OwnNodeIsLocal == \A n \in Running : Rebuilt(n).node = config[n].node

\* bootstrap/README.md:7: a group that operators have enabled is not taken
\* back to bootstrap's document by an agent that starts later or again.
EnabledStays ==
    [][\A k \in DOMAIN etcd : Last(k) = "desired" /\ etcd[k].managed
         => k \in DOMAIN etcd' /\ etcd'[k].managed]_vars

\* runtime.go:152: the copy with the events still to come is etcd, though
\* the node's own seeds were written after its snapshot.
CopyCatchesUp ==
    phase[Me] \in {"ensure", "run"} =>
        View!Items(FoldLeft(ApplyTo, store.tree, watch)) = etcd

\* view.go:372: the view shows the reports that the copy has, under their
\* node and role, and no node whose reports are all gone.
ViewShowsReports ==
    LET items == View!Items(store.tree)
        groups == View!BuildStateView(store.ready, store.revision, store.tree).groups
        nodes(g, m) == groups[g].management_groups[m].nodes
        places == UNION {UNION {{<<g, m, n>> : n \in DOMAIN nodes(g, m)} :
                            m \in DOMAIN groups[g].management_groups} : g \in DOMAIN groups}
        shown(g, m, n) ==
            LET roles == nodes(g, m)[n].roles
            IN  {<<RoleReport(g, m, n, r, "actual"), roles[r].actual>> : r \in DOMAIN roles}
                \cup {<<RoleReport(g, m, n, r, "health"), roles[r].health>> : r \in DOMAIN roles}
    IN  /\ \A p \in places : nodes(p[1], p[2])[p[3]].roles # <<>>
        /\ {x \in UNION {shown(p[1], p[2], p[3]) : p \in places} : x[2] # {}}
            = {<<k, {items[k]}>> : k \in {key \in DOMAIN items : Last(key) \in {"actual", "health"}}}

\* api/README.md:7: with one client, what it shows when nothing is on its way
\* is etcd, although pages are torn (server.go:107), signals fall together
\* (store.go:58), and the tree keeps the nodes above deleted keys.
QuietPageIsCurrent ==
    \A c \in Clients :
        phase[Me] = "run" /\ watch = <<>> /\ stream[c] = "wait" /\ ~notify =>
            page[c] = View!BuildStateView(TRUE, revision, View!LoadSnapshot(etcd))
=============================================================================
