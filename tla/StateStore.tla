----------------------------- MODULE StateStore -----------------------------
(***************************************************************************)
(* The tree in which a process keeps its copy of etcd (internal/store).    *)
(*                                                                         *)
(* A tree maps the path of each of its nodes to the node's value, a set    *)
(* of at most one document: the nodes above a key have none.  Documents    *)
(* are JSON, so normalizeJSON keeps them as they are.                      *)
(***************************************************************************)
EXTENDS Naturals, SequencesExt

NoValue == {}

EmptyTree == [p \in {<<>>} |-> NoValue]

\* insertLocked: the nodes on the way are created.
Insert(tree, key, doc) ==
    [p \in DOMAIN tree \cup Prefixes(key) |->
        IF p = key THEN {doc}
        ELSE IF p \in DOMAIN tree THEN tree[p] ELSE NoValue]

\* Variant: a deleted node's siblings go with it.
DeleteParent(tree, key) ==
    Restrict(tree, {p \in DOMAIN tree : ~IsPrefix(Front(key), p)} \cup {<<>>})

\* deleteLocked: the node goes with all below it; the nodes above it stay,
\* even if they are empty now.
Delete(tree, key) == Restrict(tree, {p \in DOMAIN tree : ~IsPrefix(key, p)})

\* LoadSnapshot
LoadSnapshot(items) ==
    [p \in (UNION {Prefixes(k) : k \in DOMAIN items}) \cup {<<>>} |->
        IF p \in DOMAIN items THEN {items[p]} ELSE NoValue]

\* Get, a node that is not there has no value either.
Get(tree, key) == IF key \in DOMAIN tree THEN tree[key] ELSE NoValue

ListChildren(tree, key) ==
    {Last(p) : p \in {q \in DOMAIN tree : q # <<>> /\ Front(q) = key}}

\* Prefix(Root): every key with its document.
Items(tree) ==
    [k \in {p \in DOMAIN tree : tree[p] # NoValue} |-> CHOOSE doc \in tree[k] : TRUE]
=============================================================================
