------------------------------ MODULE CopyProofs ------------------------------
(***************************************************************************)
(* Proofs about the copy of etcd that a process keeps and what it makes of *)
(* it (Startup, StateStore, StateView): with the events that it has yet to *)
(* see the copy is etcd, the view shows what the copy has, and a page that *)
(* stays is a page of etcd, for any nodes, files and clients, and any lag. *)
(***************************************************************************)
EXTENDS StartupProofs, SequenceTheorems

USE StartupAssumption

(***************************************************************************)
(* Folds                                                                   *)
(*                                                                         *)
(* What FoldLeft computes is a fact about all lengths.  The induction is   *)
(* over a set of numbers, by its least element outside.                    *)
(***************************************************************************)
\* A set of numbers with 0 and each member's successor is Nat.
LEMMA SetInduction ==
    ASSUME NEW T \in SUBSET Nat, 0 \in T, \A n \in T : n + 1 \in T
    PROVE  T = Nat
<1> DEFINE R == OpToRel(<, Nat)
<1>1. CASE Nat \ T # {}
  <2>1. PICK n \in Nat \ T : \A m \in Nat \ T : <<m, n>> \notin R
    <3>1. IsWellFoundedOn(R, Nat)
      BY NatLessThanWellFounded
    <3> HIDE DEF R
    <3> QED BY <1>1, <3>1, WFMin
  <2>2. n \in Nat /\ n \notin T /\ n # 0
    OBVIOUS
  <2>3. n - 1 \in Nat /\ n - 1 < n /\ (n - 1) + 1 = n
    BY <2>2
  <2>4. <<n - 1, n>> \in R
    BY <2>2, <2>3 DEF OpToRel
  <2> HIDE DEF R
  <2>5. n - 1 \in T
    BY <2>1, <2>3, <2>4
  <2>6. (n - 1) + 1 \in T
    BY <2>5
  <2> QED BY <2>2, <2>3, <2>6
<1> QED BY <1>1

\* The trees that a sequence of events leads through.
IsRun(trees, tree, events) ==
    /\ trees[0] = tree
    /\ \A i \in 1..Len(events) : trees[i] = ApplyTo(trees[i - 1], events[i])

\* FoldLeft's recursion, over the sets of indexes.
Folded(tree, events, f, s) ==
    IF s = {} THEN tree ELSE ApplyTo(f[s \ {Max(s)}], events[Max(s)])

IsFold(f, tree, events, n) == f = [s \in SUBSET (1..n) |-> Folded(tree, events, f, s)]

\* A function satisfies it.
LEMMA FoldExists ==
    ASSUME NEW tree, NEW events, NEW n \in Nat
    PROVE  \E f : IsFold(f, tree, events, n)
<1> DEFINE T == {m \in Nat : \E f : IsFold(f, tree, events, m)}
<1>1. 0 \in T
  <2> DEFINE f == [s \in {{}} |-> tree]
  <2>1. SUBSET (1..0) = {{}}
    OBVIOUS
  <2>2. f = [s \in SUBSET (1..0) |-> Folded(tree, events, f, s)]
    BY <2>1 DEF Folded
  <2> HIDE DEF f
  <2> QED BY <2>2 DEF IsFold
<1>2. ASSUME NEW m \in T PROVE m + 1 \in T
  <2>1. m \in Nat /\ m + 1 \in Nat
    OBVIOUS
  <2>2. PICK f : IsFold(f, tree, events, m)
    OBVIOUS
  <2> DEFINE h == [s \in SUBSET (1..m + 1) |->
                      IF m + 1 \in s THEN ApplyTo(f[s \ {m + 1}], events[m + 1]) ELSE f[s]]
  <2>3. ASSUME NEW s \in SUBSET (1..m + 1), m + 1 \notin s
        PROVE  s \in SUBSET (1..m) /\ h[s] = f[s]
    <3>1. s \in SUBSET (1..m)
      BY <2>1, <2>3
    <3> QED BY <2>3, <3>1
  <2>4. ASSUME NEW s \in SUBSET (1..m + 1), m + 1 \in s
        PROVE  h[s] = Folded(tree, events, h, s)
    <3>1. Max(s) = m + 1
      <4>1. \A y \in s : m + 1 >= y
        BY <2>1
      <4>2. \A x \in s : (\A y \in s : x >= y) => x = m + 1
        BY <2>1, <2>4
      <4> QED BY <2>4, <4>1, <4>2 DEF Max
    <3>2. s \ {m + 1} \in SUBSET (1..m + 1) /\ m + 1 \notin s \ {m + 1}
      OBVIOUS
    <3>3. h[s \ {m + 1}] = f[s \ {m + 1}]
      BY <2>3, <3>2
    <3>4. h[s] = ApplyTo(f[s \ {m + 1}], events[m + 1])
      BY <2>4
    <3>5. s # {}
      BY <2>4
    <3> HIDE DEF h
    <3> QED BY <3>1, <3>3, <3>4, <3>5 DEF Folded
  <2>5. ASSUME NEW s \in SUBSET (1..m + 1), m + 1 \notin s
        PROVE  h[s] = Folded(tree, events, h, s)
    <3>1. h[s] = Folded(tree, events, f, s)
      BY <2>2, <2>3, <2>5 DEF IsFold
    <3>2. s \ {Max(s)} \in SUBSET (1..m + 1) /\ m + 1 \notin s \ {Max(s)}
      BY <2>5
    <3>3. h[s \ {Max(s)}] = f[s \ {Max(s)}]
      BY <2>3, <3>2
    <3> HIDE DEF h
    <3> QED BY <3>1, <3>3 DEF Folded
  <2>6. h = [s \in SUBSET (1..m + 1) |-> h[s]]
    OBVIOUS
  <2>7. h = [s \in SUBSET (1..m + 1) |-> Folded(tree, events, h, s)]
    <3> HIDE DEF h
    <3> QED BY <2>4, <2>5, <2>6
  <2>8. IsFold(h, tree, events, m + 1)
    <3> HIDE DEF h
    <3> QED BY <2>7 DEF IsFold
  <2> HIDE DEF h
  <2> QED BY <2>1, <2>8
<1>3. T = Nat
  <2> HIDE DEF T
  <2>1. T \in SUBSET Nat
    BY DEF T
  <2> QED BY <1>1, <1>2, <2>1, SetInduction
<1> QED BY <1>3

\* FoldLeft is the recursion's value at all indexes.
LEMMA FoldIsFolded ==
    ASSUME NEW tree, NEW events, NEW n \in Nat, DOMAIN events = 1..n
    PROVE  \E f : IsFold(f, tree, events, n) /\ FoldLeft(ApplyTo, tree, events) = f[1..n]
<1> DEFINE f == CHOOSE it : it = [s \in SUBSET DOMAIN events |->
                                    IF s = {} THEN tree
                                    ELSE ApplyTo(it[s \ {Max(s)}], events[Max(s)])]
<1>1. FoldLeft(ApplyTo, tree, events) = f[DOMAIN events]
  BY Zenon DEF FoldLeft, MapThenFoldSet
<1>2. \E g : IsFold(g, tree, events, n)
  BY FoldExists
<1>3. PICK g : IsFold(g, tree, events, n)
  BY <1>2
<1>4. g = [s \in SUBSET DOMAIN events |->
              IF s = {} THEN tree ELSE ApplyTo(g[s \ {Max(s)}], events[Max(s)])]
  BY <1>3, Zenon DEF Folded, IsFold
<1>5. f = [s \in SUBSET DOMAIN events |->
              IF s = {} THEN tree ELSE ApplyTo(f[s \ {Max(s)}], events[Max(s)])]
  BY <1>4, Zenon
<1>6. IsFold(f, tree, events, n)
  <2> HIDE DEF f
  <2> QED BY <1>5, Zenon DEF Folded, IsFold
<1> HIDE DEF f
<1> QED BY <1>1, <1>6

\* FoldLeft gives the last of the trees.
LEMMA FoldRuns ==
    ASSUME NEW tree, NEW V, NEW events \in Seq(V), NEW trees, IsRun(trees, tree, events)
    PROVE  FoldLeft(ApplyTo, tree, events) = trees[Len(events)]
<1>1. PICK n \in Nat : n = Len(events) /\ DOMAIN events = 1..n
  OBVIOUS
<1>2. PICK f : IsFold(f, tree, events, n) /\ FoldLeft(ApplyTo, tree, events) = f[1..n]
  BY <1>1, FoldIsFolded
<1> DEFINE T == {m \in Nat : m <= n => f[1..m] = trees[m]}
<1>3. 0 \in T
  <2>1. 1..0 = {} /\ {} \in SUBSET (1..n)
    BY <1>1
  <2>2. f[{}] = tree
    BY <1>2, <2>1 DEF Folded, IsFold
  <2> QED BY <2>1, <2>2 DEF IsRun
<1>4. ASSUME NEW m \in T PROVE m + 1 \in T
  <2>1. m \in Nat /\ m + 1 \in Nat
    OBVIOUS
  <2>2. ASSUME m + 1 <= n PROVE f[1..m + 1] = trees[m + 1]
    <3>1. 1..m + 1 \in SUBSET (1..n) /\ m + 1 \in 1..m + 1 /\ (1..m + 1) \ {m + 1} = 1..m
      BY <1>1, <2>1, <2>2
    <3>2. Max(1..m + 1) = m + 1
      <4>1. \A y \in 1..m + 1 : m + 1 >= y
        BY <2>1
      <4>2. \A x \in 1..m + 1 : (\A y \in 1..m + 1 : x >= y) => x = m + 1
        BY <2>1, <3>1
      <4> QED BY <3>1, <4>1, <4>2 DEF Max
    <3>3. f[1..m + 1] = ApplyTo(f[1..m], events[m + 1])
      <4>1. f[1..m + 1] = Folded(tree, events, f, 1..m + 1)
        BY <1>2, <3>1 DEF IsFold
      <4>2. 1..m + 1 # {}
        BY <3>1
      <4> QED BY <3>1, <3>2, <4>1, <4>2 DEF Folded
    <3>4. f[1..m] = trees[m]
      BY <1>1, <2>1, <2>2
    <3>5. trees[m + 1] = ApplyTo(trees[m], events[m + 1])
      <4>1. m + 1 \in 1..Len(events) /\ (m + 1) - 1 = m
        BY <1>1, <2>1, <2>2
      <4> QED BY <4>1 DEF IsRun
    <3> QED BY <3>3, <3>4, <3>5
  <2> QED BY <2>1, <2>2
<1>5. T = Nat
  <2> HIDE DEF T
  <2>1. T \in SUBSET Nat
    BY DEF T
  <2> QED BY <1>3, <1>4, <2>1, SetInduction
<1>6. f[1..n] = trees[n]
  BY <1>1, <1>5
<1> QED BY <1>1, <1>2, <1>6

\* A sequence of events leads from one tree to another.
Reaches(tree, events, last) ==
    \E trees : IsRun(trees, tree, events) /\ last = trees[Len(events)]

\* No events lead nowhere.
LEMMA ReachesNothing == ASSUME NEW tree PROVE Reaches(tree, <<>>, tree)
<1> DEFINE trees == [i \in {0} |-> tree]
<1>1. IsRun(trees, tree, <<>>) /\ tree = trees[Len(<<>>)]
  BY DEF IsRun
<1> HIDE DEF trees
<1> QED BY <1>1 DEF Reaches

\* The first of the events do.
ReachesBy(tree, events, len, last) ==
    \E trees : /\ trees[0] = tree
               /\ \A i \in 1..len : trees[i] = ApplyTo(trees[i - 1], events[i])
               /\ last = trees[len]

\* One more event leads one tree further.
LEMMA ReachesFurther ==
    ASSUME NEW events, NEW n \in Nat, NEW tree, NEW last, ReachesBy(tree, events, n, last)
    PROVE  ReachesBy(tree, events, n + 1, ApplyTo(last, events[n + 1]))
<1>1. PICK trees : /\ trees[0] = tree
                   /\ \A i \in 1..n : trees[i] = ApplyTo(trees[i - 1], events[i])
                   /\ last = trees[n]
  BY DEF ReachesBy
<1> DEFINE more == [i \in 0..n + 1 |->
                       IF i = n + 1 THEN ApplyTo(last, events[n + 1]) ELSE trees[i]]
<1>2. more[0] = tree /\ more[n] = last /\ more[n + 1] = ApplyTo(last, events[n + 1])
  BY <1>1
<1>3. ASSUME NEW i \in 1..n PROVE more[i] = ApplyTo(more[i - 1], events[i])
  <2>1. more[i] = trees[i] /\ more[i - 1] = trees[i - 1]
    <3>1. i \in 0..n + 1 /\ i - 1 \in 0..n + 1 /\ i # n + 1 /\ i - 1 # n + 1
      OBVIOUS
    <3> QED BY <3>1
  <2> HIDE DEF more
  <2> QED BY <1>1, <2>1
<1> HIDE DEF more
<1>4. ASSUME NEW i \in 1..n + 1 PROVE more[i] = ApplyTo(more[i - 1], events[i])
  <2>1. CASE i = n + 1
    <3>1. i - 1 = n
      BY <2>1
    <3> QED BY <1>2, <2>1, <3>1
  <2>2. CASE i \in 1..n
    BY <1>3, <2>2
  <2> QED BY <2>1, <2>2
<1> QED BY <1>2, <1>4 DEF ReachesBy

\* The first part of a longer sequence leads where it leads by itself.
LEMMA ReachesFirst ==
    ASSUME NEW tree, NEW last, NEW part, Len(part) \in Nat, NEW events,
           \A i \in 1..Len(part) : events[i] = part[i]
    PROVE  Reaches(tree, part, last) <=> ReachesBy(tree, events, Len(part), last)
BY DEF Reaches, ReachesBy, IsRun

\* After the first event the others lead from where it led.
LEMMA ReachesRest ==
    ASSUME NEW V, NEW events \in Seq(V), events # <<>>, NEW tree, NEW last,
           Reaches(tree, events, last)
    PROVE  Reaches(ApplyTo(tree, Head(events)), Tail(events), last)
<1>1. PICK trees : IsRun(trees, tree, events) /\ last = trees[Len(events)]
  BY DEF Reaches
<1>2. PICK n \in Nat : n = Len(events) /\ n # 0
  OBVIOUS
<1>3. /\ Len(Tail(events)) = n - 1 /\ n - 1 \in Nat
      /\ Head(events) = events[1]
      /\ \A i \in 1..n - 1 : Tail(events)[i] = events[i + 1]
  BY <1>2
<1> DEFINE rest == [i \in 0..n - 1 |-> trees[i + 1]]
<1>4. rest[0] = ApplyTo(tree, Head(events))
  <2>1. trees[1] = ApplyTo(trees[1 - 1], events[1])
    BY <1>1, <1>2 DEF IsRun
  <2>2. 1 - 1 = 0 /\ trees[0] = tree
    BY <1>1 DEF IsRun
  <2>3. rest[0] = trees[1]
    BY <1>2
  <2> HIDE DEF rest
  <2> QED BY <1>3, <2>1, <2>2, <2>3
<1>5. rest[n - 1] = last
  BY <1>1, <1>2
<1>6. ASSUME NEW i \in 1..n - 1 PROVE rest[i] = ApplyTo(rest[i - 1], Tail(events)[i])
  <2>1. rest[i] = trees[i + 1] /\ rest[i - 1] = trees[i]
    BY <1>2
  <2>2. i + 1 \in 1..Len(events) /\ (i + 1) - 1 = i
    BY <1>2
  <2>3. trees[i + 1] = ApplyTo(trees[i], events[i + 1])
    BY <1>1, <2>2 DEF IsRun
  <2> HIDE DEF rest
  <2> QED BY <1>3, <2>1, <2>3
<1> HIDE DEF rest
<1>7. IsRun(rest, ApplyTo(tree, Head(events)), Tail(events))
  BY <1>3, <1>4, <1>6 DEF IsRun
<1> QED BY <1>3, <1>5, <1>7 DEF Reaches

(***************************************************************************)
(* The tree                                                                *)
(***************************************************************************)
\* A path is among its prefixes, and a path above another agrees with it.
LEMMA PathIsSeq == ASSUME NEW k, IsPath(k) PROVE \E V : k \in Seq(V)
<1>1. CASE Len(k) = 2 /\ k = <<k[1], k[2]>>
  <2>1. <<k[1], k[2]>> \in Seq({k[1], k[2]})
    OBVIOUS
  <2> QED BY <1>1, <2>1
<1>2. CASE Len(k) = 3 /\ k = <<k[1], k[2], k[3]>>
  <2>1. <<k[1], k[2], k[3]>> \in Seq({k[1], k[2], k[3]})
    OBVIOUS
  <2> QED BY <1>2, <2>1
<1>3. CASE Len(k) = 4 /\ k = <<k[1], k[2], k[3], k[4]>>
  <2>1. <<k[1], k[2], k[3], k[4]>> \in Seq({k[1], k[2], k[3], k[4]})
    OBVIOUS
  <2> QED BY <1>3, <2>1
<1>4. CASE Len(k) = 5 /\ k = <<k[1], k[2], k[3], k[4], k[5]>>
  <2>1. <<k[1], k[2], k[3], k[4], k[5]>> \in Seq({k[1], k[2], k[3], k[4], k[5]})
    OBVIOUS
  <2> QED BY <1>4, <2>1
<1> QED BY <1>1, <1>2, <1>3, <1>4 DEF IsPath

\* insertLocked goes through the key itself, which delete takes for its own.
LEMMA PathPrefix ==
    ASSUME NEW k, IsPath(k)
    PROVE  k \in View!Prefixes(k) /\ View!IsPrefix(k, k)
<1>1. PICK V : k \in Seq(V)
  BY PathIsSeq
<1>2. SubSeq(k, 1, Len(k)) = k /\ Len(k) \in 0..Len(k) /\ Len(k) <= Len(k)
  BY <1>1
<1>3. k \in View!Prefixes(k)
  BY <1>2 DEF View!Prefixes
<1>4. View!IsPrefix(k, k)
  BY <1>2 DEF View!IsPrefix
<1> QED BY <1>3, <1>4

\* Of what Insert adds only the key has a document.
LEMMA InsertItems ==
    ASSUME NEW tree, NEW key, NEW doc, IsPath(key), NEW items, items = View!Items(tree)
    PROVE  View!Items(View!Insert(tree, key, doc))
             = [k \in DOMAIN items \cup {key} |-> IF k = key THEN doc ELSE items[k]]
<1> DEFINE after == View!Insert(tree, key, doc)
           valued == {p \in DOMAIN after : after[p] # {}}
<1>1. /\ DOMAIN after = DOMAIN tree \cup View!Prefixes(key)
      /\ \A p \in DOMAIN after :
            after[p] = IF p = key THEN {doc} ELSE IF p \in DOMAIN tree THEN tree[p] ELSE {}
  BY DEF View!Insert, View!NoValue
<1>2. key \in DOMAIN after
  BY <1>1, PathPrefix
<1>3. /\ DOMAIN items = {p \in DOMAIN tree : tree[p] # {}}
      /\ \A k \in DOMAIN items : items[k] = CHOOSE d \in tree[k] : TRUE
  BY DEF View!Items, View!NoValue
<1>4. View!Items(after) = [k \in valued |-> CHOOSE d \in after[k] : TRUE]
  BY DEF View!Items, View!NoValue
<1> HIDE DEF after
<1>5. valued = DOMAIN items \cup {key}
  BY <1>1, <1>2, <1>3
<1>6. ASSUME NEW k \in valued
      PROVE  (CHOOSE d \in after[k] : TRUE) = IF k = key THEN doc ELSE items[k]
  <2>1. CASE k = key
    <3>1. after[k] = {doc}
      BY <1>1, <1>2, <2>1
    <3>2. (CHOOSE d \in {doc} : TRUE) = doc
      OBVIOUS
    <3> QED BY <2>1, <3>1, <3>2
  <2>2. CASE k # key
    <3>1. k \in DOMAIN items /\ after[k] = tree[k]
      BY <1>1, <1>3, <1>5, <2>2
    <3> QED BY <1>3, <2>2, <3>1
  <2> QED BY <2>1, <2>2
<1> HIDE DEF valued
<1>7. View!Items(after) = [k \in valued |-> IF k = key THEN doc ELSE items[k]]
  BY <1>4, <1>6
<1> QED BY <1>5, <1>7 DEF after

\* Delete takes what is below the key with it.
Without(items, key) == [k \in {p \in DOMAIN items : ~View!IsPrefix(key, p)} |-> items[k]]

LEMMA DeleteItems ==
    ASSUME NEW tree, NEW key, NEW items, items = View!Items(tree)
    PROVE  View!Items(View!Delete(tree, key)) = Without(items, key)
<1> DEFINE after == View!Delete(tree, key)
           kept == {p \in DOMAIN tree : ~View!IsPrefix(key, p)}
           valued == {p \in DOMAIN after : after[p] # {}}
<1>1. after = [p \in kept |-> tree[p]]
  BY DEF View!Delete, View!Restrict
<1>2. /\ DOMAIN items = {p \in DOMAIN tree : tree[p] # {}}
      /\ \A k \in DOMAIN items : items[k] = CHOOSE d \in tree[k] : TRUE
  BY DEF View!Items, View!NoValue
<1>3. View!Items(after) = [k \in valued |-> CHOOSE d \in after[k] : TRUE]
  BY DEF View!Items, View!NoValue
<1> HIDE DEF after
<1>4. valued = {p \in DOMAIN items : ~View!IsPrefix(key, p)}
  BY <1>1, <1>2
<1>5. ASSUME NEW k \in valued PROVE (CHOOSE d \in after[k] : TRUE) = items[k]
  <2>1. k \in DOMAIN items /\ after[k] = tree[k]
    BY <1>1, <1>4
  <2> QED BY <1>2, <2>1
<1> HIDE DEF valued
<1>6. View!Items(after) = [k \in valued |-> items[k]]
  BY <1>3, <1>5
<1> QED BY <1>4, <1>6 DEF after, Without

\* A snapshot's items are what it was loaded from.
LEMMA SnapshotItems ==
    ASSUME NEW items, items = [k \in DOMAIN items |-> items[k]], \A k \in DOMAIN items : IsPath(k)
    PROVE  View!Items(View!LoadSnapshot(items)) = items
<1> DEFINE tree == View!LoadSnapshot(items)
           valued == {p \in DOMAIN tree : tree[p] # {}}
<1>1. /\ DOMAIN tree = (UNION {View!Prefixes(k) : k \in DOMAIN items}) \cup {<<>>}
      /\ \A p \in DOMAIN tree : tree[p] = IF p \in DOMAIN items THEN {items[p]} ELSE {}
  BY DEF View!LoadSnapshot, View!NoValue
<1>2. DOMAIN items \subseteq DOMAIN tree
  BY <1>1, PathPrefix
<1>3. View!Items(tree) = [k \in valued |-> CHOOSE d \in tree[k] : TRUE]
  BY DEF View!Items, View!NoValue
<1> HIDE DEF tree
<1>4. valued = DOMAIN items
  BY <1>1, <1>2
<1>5. ASSUME NEW k \in valued PROVE (CHOOSE d \in tree[k] : TRUE) = items[k]
  <2>1. tree[k] = {items[k]}
    BY <1>1, <1>2, <1>4
  <2>2. (CHOOSE d \in {items[k]} : TRUE) = items[k]
    OBVIOUS
  <2> QED BY <2>1, <2>2
<1> HIDE DEF valued
<1>6. View!Items(tree) = [k \in valued |-> items[k]]
  BY <1>3, <1>5
<1> QED BY <1>4, <1>6 DEF tree

(***************************************************************************)
(* The keys                                                                *)
(***************************************************************************)
Kinds == {"actual", "health"}

\* The key of a report: its names are those of groups, nodes and roles, and a
\* node that is named like its group has no level of its own.
IsReport(k) ==
    /\ {k[1], k[2], k[3]} \cap Reserved = {}
    /\ \/ Len(k) = 4 /\ k[4] \in Kinds
       \/ Len(k) = 5 /\ k[2] # k[3] /\ k[4] \notin Reserved /\ k[5] \in Kinds

\* A file's roles are not named like a part of the layout.
LEMMA ReportShapes ==
    ASSUME NEW n \in Nodes, NEW c \in Configs(n), NEW k \in ReportKeys(n, c)
    PROVE  IsReport(k)
<1>1. PICK at \in Memberships(c) :
        \E r \in c.management_groups[at].roles, kind \in {"actual", "health"} :
            k = RoleReport(at[1], at[2], n, r, kind)
  BY DEF ReportKeys
<1>2. {at[1], at[2], n} \cap Reserved = {} /\ at = <<at[1], at[2]>> /\ DOMAIN c.roles \cap Reserved = {}
  <2>1. Proper(c)
    BY ConfigFacts
  <2>2. n \notin Reserved
    BY NamesAssumption
  <2> QED BY <2>1, <2>2 DEF Proper
<1>3. ASSUME NEW r \in c.management_groups[at].roles PROVE r \notin Reserved
  <2>1. ValidMembership(c, at[1], at[2])
    BY ConfigFacts DEF Valid
  <2>2. c.management_groups[<<at[1], at[2]>>].roles \subseteq DOMAIN c.roles
    BY <2>1 DEF ValidMembership
  <2> QED BY <1>2, <2>2
<1>4. PICK r \in c.management_groups[at].roles, kind \in Kinds :
        k = RoleReport(at[1], at[2], n, r, kind)
  BY <1>1 DEF Kinds
<1>5. r \notin Reserved
  BY <1>3
<1>6. CASE at[2] = n
  <2>1. k = <<at[1], n, r, kind>>
    BY <1>4, <1>6 DEF RoleReport
  <2> QED BY <1>2, <1>5, <2>1 DEF IsReport
<1>7. CASE at[2] # n
  <2>1. k = <<at[1], at[2], n, r, kind>>
    BY <1>4, <1>7 DEF RoleReport
  <2> QED BY <1>2, <1>5, <1>7, <2>1 DEF IsReport
<1> QED BY <1>6, <1>7

\* A session's key has two names, a report's has the shape above.
LEMMA LeasedShapes ==
    ASSUME NEW n \in Nodes, NEW k \in LeasedKeys[n]
    PROVE  (k[1] = "session" /\ Len(k) = 2 /\ Last(k) \notin Kinds) \/ IsReport(k)
<1>1. CASE k = Session(n)
  BY <1>1, LastOfPair, NamesAssumption DEF Session, Kinds, Reserved
<1>2. CASE k # Session(n)
  <2>1. PICK file \in Files[n] : k \in ReportKeys(n, LoadConfig(file))
    BY <1>2 DEF LeasedKeys
  <2> QED BY <2>1, ReportShapes DEF Configs
<1> QED BY <1>1, <1>2

\* The other keys are of the layout's own parts, or desired documents.
LEMMA KeyShapes ==
    ASSUME NEW k \in Keys
    PROVE  \/ k[1] = "session" /\ Len(k) = 2 /\ Last(k) \notin Kinds
           \/ k[1] \in {"registry", "config"} /\ Last(k) \notin Kinds
           \/ {k[1], k[2]} \cap Reserved = {} /\ k = Desired(k[1], k[2])
           \/ IsReport(k)
<1>1. PICK n \in Nodes :
        k = Registry(n) \/ k \in LeasedKeys[n] \/ \E c \in Configs(n) : k \in Seeds(c, n)
  BY KeyCases
<1>2. n \notin Kinds
  BY NamesAssumption DEF Kinds, Reserved
<1>3. CASE k = Registry(n)
  BY <1>2, <1>3, LastOfPair DEF Registry
<1>4. ASSUME NEW c \in Configs(n), k \in Seeds(c, n)
      PROVE  \/ k[1] \in {"registry", "config"} /\ Last(k) \notin Kinds
             \/ {k[1], k[2]} \cap Reserved = {} /\ k = Desired(k[1], k[2])
  <2>1. \A at \in Memberships(c) : {at[1], at[2]} \cap Reserved = {}
    BY ConfigFacts DEF Proper
  <2>2. \A r \in DOMAIN c.roles : r \notin Reserved
    BY ConfigFacts DEF Proper
  <2>3. Kinds \subseteq Reserved /\ "_meta" \notin Kinds
    BY DEF Kinds, Reserved
  <2>4. CASE k = ConfigMeta
    BY <2>3, <2>4, LastOfPair DEF ConfigMeta
  <2>5. CASE k = ConfigNode(n)
    BY <1>2, <2>5, LastOfThree DEF ConfigNode
  <2>6. ASSUME NEW g, k = ConfigClusterGroupMeta(g) PROVE k[1] = "config" /\ Last(k) \notin Kinds
    BY <2>3, <2>6, LastOfFour DEF ConfigClusterGroupMeta
  <2>7. ASSUME NEW r \in DOMAIN c.roles, k = ConfigRole(r) PROVE k[1] = "config" /\ Last(k) \notin Kinds
    BY <2>2, <2>3, <2>7, LastOfThree DEF ConfigRole
  <2>8. ASSUME NEW at \in Memberships(c), k = ManagementGroupConfig(at[1], at[2])
        PROVE  k[1] = "config" /\ Last(k) \notin Kinds
    BY <2>1, <2>3, <2>8, LastOfFour DEF ManagementGroupConfig
  <2>9. ASSUME NEW at \in Memberships(c), k = Desired(at[1], at[2])
        PROVE  {k[1], k[2]} \cap Reserved = {} /\ k = Desired(k[1], k[2])
    BY <2>1, <2>9 DEF Desired
  <2> QED BY <1>4, <2>4, <2>5, <2>6, <2>7, <2>8, <2>9 DEF Seeds
<1> QED BY <1>1, <1>3, <1>4, LeasedShapes

\* A path that is a prefix of another agrees with it as far as it goes.
LEMMA PrefixAgrees ==
    ASSUME NEW k, IsPath(k), NEW p, IsPath(p), View!IsPrefix(k, p)
    PROVE  /\ Len(k) <= Len(p)
           /\ \A i \in 1..Len(k) : k[i] = p[i]
<1>1. PICK V : k \in Seq(V)
  BY PathIsSeq
<1>2. PICK W : p \in Seq(W)
  BY PathIsSeq
<1>3. Len(k) <= Len(p) /\ SubSeq(k, 1, Len(k)) = SubSeq(p, 1, Len(k))
  BY DEF View!IsPrefix
<1>4. ASSUME NEW i \in 1..Len(k) PROVE k[i] = p[i]
  <2>1. SubSeq(k, 1, Len(k))[i] = k[i]
    BY <1>1
  <2>2. SubSeq(p, 1, Len(k))[i] = p[i]
    BY <1>1, <1>2, <1>3
  <2> QED BY <1>3, <2>1, <2>2
<1> QED BY <1>3, <1>4

\* Paths of the same length that agree are the same.
LEMMA SamePath ==
    ASSUME NEW k, IsPath(k), NEW p, IsPath(p), Len(k) = Len(p),
           \A i \in 1..Len(k) : k[i] = p[i]
    PROVE  k = p
<1>1. CASE Len(k) = 2
  BY <1>1 DEF IsPath
<1>2. CASE Len(k) = 3
  BY <1>2 DEF IsPath
<1>3. CASE Len(k) = 4
  BY <1>3 DEF IsPath
<1>4. CASE Len(k) = 5
  BY <1>4 DEF IsPath
<1> QED BY <1>1, <1>2, <1>3, <1>4 DEF IsPath

\* A key that may be deleted has no key below it, so the tree loses no other
\* document with it.
LEMMA NothingBelow ==
    ASSUME NEW n \in Nodes, NEW k \in LeasedKeys[n], NEW p \in Keys, View!IsPrefix(k, p)
    PROVE  p = k
<1>1. IsPath(k) /\ IsPath(p)
  BY LeasedPaths, KeyPaths
<1>2. Len(k) <= Len(p) /\ \A i \in 1..Len(k) : k[i] = p[i]
  BY <1>1, PrefixAgrees
<1>3. Len(k) \in 2..5 /\ Len(p) \in 2..5
  BY <1>1 DEF IsPath
<1>4. k[1] = p[1]
  BY <1>2, <1>3
<1>5. Len(p) = Len(k)
  <2>1. CASE k[1] = "session" /\ Len(k) = 2
    <3>1. p[1] = "session" /\ "session" \in Reserved
      BY <1>4, <2>1 DEF Reserved
    <3> QED BY <2>1, <3>1, KeyShapes DEF IsReport
  <2>2. CASE IsReport(k)
    <3>1. p[1] \notin Reserved
      BY <1>4, <2>2 DEF IsReport
    <3>2. p[1] \notin {"registry", "config", "session"}
      BY <3>1 DEF Reserved
    <3>3. IsReport(p)
      <4>1. Len(p) # 3
        <5>1. Len(k) = 4 \/ Len(k) = 5
          BY <2>2 DEF IsReport
        <5>2. Len(k) <= Len(p)
          BY <1>2
        <5>3. Len(p) \in 2..5
          BY <1>3
        <5> QED BY <5>1, <5>2, <5>3
      <4>2. p # Desired(p[1], p[2])
        BY <4>1 DEF Desired
      <4> QED BY <3>2, <4>2, KeyShapes
    <3>4. CASE Len(k) = 4 /\ Len(p) = 5
      <4>1. k[4] = p[4]
        BY <1>2, <3>4
      <4>2. k[4] \in Reserved /\ p[4] \notin Reserved
        BY <2>2, <3>3, <3>4 DEF IsReport, Kinds, Reserved
      <4> QED BY <4>1, <4>2
    <3> QED BY <1>2, <1>3, <2>2, <3>3, <3>4 DEF IsReport
  <2> QED BY <2>1, <2>2, LeasedShapes
<1> QED BY <1>1, <1>2, <1>5, SamePath

(***************************************************************************)
(* The events of a change                                                  *)
(***************************************************************************)
\* SetToSeq lists all elements of a finite set.
LEMMA SequenceOfSet ==
    ASSUME NEW S, IsFiniteSet(S)
    PROVE  /\ SetToSeq(S) \in Seq(S)
           /\ \A s \in S : \E i \in 1..Len(SetToSeq(S)) : SetToSeq(S)[i] = s
<1>1. PICK n \in Nat : n = Cardinality(S) /\ ExistsBijection(1..n, S)
  BY FS_CardinalityType
<1>2. \E b \in [1..n -> S] : IsInjective(b)
  <2>1. PICK b : b \in Bijection(1..n, S)
    BY <1>1 DEF ExistsBijection
  <2> QED BY <2>1 DEF Bijection, Injection
<1>3. SetToSeq(S) \in [1..n -> S] /\ IsInjective(SetToSeq(S))
  BY <1>1, <1>2, Zenon DEF SetToSeq
<1>4. SetToSeq(S) \in Injection(1..n, S)
  BY <1>3 DEF Injection
<1>5. IsFiniteSet(1..n) /\ Cardinality(1..n) = n
  BY <1>1, FS_Interval
<1>6. SetToSeq(S) \in Surjection(1..n, S)
  BY <1>1, <1>4, <1>5, FS_Injection
<1>7. \A s \in S : \E i \in 1..n : SetToSeq(S)[i] = s
  BY <1>6 DEF Surjection
<1>8. SetToSeq(S) \in Seq(S) /\ Len(SetToSeq(S)) = n
  <2> SUFFICES ASSUME NEW q \in [1..n -> S] PROVE q \in Seq(S) /\ Len(q) = n
    BY <1>3
  <2> QED BY <1>1
<1> QED BY <1>7, <1>8

\* An event of a changed key.
EventOf(k) == [key |-> k, doc |-> IF k \in DOMAIN etcd' THEN {etcd'[k]} ELSE {},
               revision |-> revision + 1]

\* The events of a change are those of its keys.
LEMMA ChangeEvents ==
    ASSUME KnownKeys, KnownKeys'
    PROVE  /\ EventsOfChange \in Seq({EventOf(k) : k \in Changed})
           /\ \A k \in Changed : \E i \in 1..Len(EventsOfChange) : EventsOfChange[i] = EventOf(k)
<1> DEFINE S == {EventOf(k) : k \in Changed}
           f == [k \in Changed |-> EventOf(k)]
<1>1. IsFiniteSet(Changed)
  <2>1. IsFiniteSet(DOMAIN etcd \cup DOMAIN etcd')
    BY FS_Union DEF KnownKeys
  <2> QED BY <2>1, FS_Subset DEF Changed
<1>2. f \in Surjection(Changed, S)
  BY DEF Surjection
<1>3. IsFiniteSet(S)
  BY <1>1, <1>2, FS_Surjection
<1>4. EventsOfChange = SetToSeq(S)
  BY DEF EventsOfChange, EventOf
<1> HIDE DEF f
<1>5. \A k \in Changed : EventOf(k) \in S
  OBVIOUS
<1> HIDE DEF S
<1>6. /\ SetToSeq(S) \in Seq(S)
      /\ \A s \in S : \E i \in 1..Len(SetToSeq(S)) : SetToSeq(S)[i] = s
  BY <1>3, SequenceOfSet
<1>7. EventsOfChange \in Seq(S)
  BY <1>4, <1>6
<1>8. \A k \in Changed : \E i \in 1..Len(EventsOfChange) : EventsOfChange[i] = EventOf(k)
  BY <1>4, <1>5, <1>6
<1> QED BY <1>7, <1>8 DEF S

\* A map that is on its way from one to another: it has come to these keys.
Between(old, new, done) ==
    [k \in (DOMAIN new \cap done) \cup (DOMAIN old \ done) |-> IF k \in done THEN new[k] ELSE old[k]]

\* An event puts a key's new document, or removes a key that is gone and has
\* nothing below it.
IsEventOf(event, old, new) ==
    LET k == event.key
    IN  /\ IsPath(k)
        /\ event.doc = IF k \in DOMAIN new THEN {new[k]} ELSE {}
        /\ k \notin DOMAIN new =>
                \A p \in DOMAIN old \cup DOMAIN new : View!IsPrefix(k, p) => p = k

\* An event takes its tree to one more key.
LEMMA EventGoesOn ==
    ASSUME NEW old, NEW new, NEW done, NEW tree, NEW event, IsEventOf(event, old, new),
           View!Items(tree) = Between(old, new, done)
    PROVE  View!Items(ApplyTo(tree, event)) = Between(old, new, done \cup {event.key})
<1> SUFFICES ASSUME NEW k, k = event.key, IsPath(k),
                    event.doc = IF k \in DOMAIN new THEN {new[k]} ELSE {},
                    k \notin DOMAIN new =>
                        \A p \in DOMAIN old \cup DOMAIN new : View!IsPrefix(k, p) => p = k
             PROVE  View!Items(ApplyTo(tree, event)) = Between(old, new, done \cup {k})
  BY DEF IsEventOf
<1> DEFINE items == Between(old, new, done)
           after == Between(old, new, done \cup {k})
<1>1. /\ DOMAIN items = (DOMAIN new \cap done) \cup (DOMAIN old \ done)
      /\ \A p \in DOMAIN items : items[p] = IF p \in done THEN new[p] ELSE old[p]
  BY DEF Between
<1>2. CASE k \in DOMAIN new
  <2>1. event.doc = {new[k]} /\ event.doc # {}
    BY <1>2
  <2>2. (CHOOSE doc \in event.doc : TRUE) = new[k]
    BY <2>1
  <2>3. ApplyTo(tree, event) = View!Insert(tree, k, new[k])
    BY <2>1, <2>2 DEF ApplyTo
  <2>4. View!Items(ApplyTo(tree, event))
          = [p \in DOMAIN items \cup {k} |-> IF p = k THEN new[k] ELSE items[p]]
    <3> HIDE DEF items
    <3>1. items = View!Items(tree)
      BY DEF items
    <3> QED BY <2>3, <3>1, InsertItems
  <2>5. after = [p \in DOMAIN items \cup {k} |-> IF p = k THEN new[k] ELSE items[p]]
    <3>1. DOMAIN items \cup {k} = (DOMAIN new \cap (done \cup {k})) \cup (DOMAIN old \ (done \cup {k}))
      BY <1>1, <1>2
    <3>2. ASSUME NEW p \in DOMAIN items \cup {k}
          PROVE  (IF p \in done \cup {k} THEN new[p] ELSE old[p]) = IF p = k THEN new[k] ELSE items[p]
      BY <1>1
    <3> HIDE DEF items
    <3> QED BY <3>1, <3>2 DEF Between
  <2> QED BY <2>4, <2>5
<1>3. CASE k \notin DOMAIN new
  <2>1. ApplyTo(tree, event) = View!Delete(tree, k)
    BY <1>3 DEF ApplyTo
  <2>2. View!Items(View!Delete(tree, k))
          = [p \in {q \in DOMAIN items : ~View!IsPrefix(k, q)} |-> items[p]]
    <3> HIDE DEF items
    <3>1. items = View!Items(tree)
      BY DEF items
    <3>2. View!Items(View!Delete(tree, k)) = Without(items, k)
      BY <3>1, DeleteItems
    <3> QED BY <3>2 DEF Without
  <2>3. {q \in DOMAIN items : ~View!IsPrefix(k, q)}
          = (DOMAIN new \cap (done \cup {k})) \cup (DOMAIN old \ (done \cup {k}))
    <3>1. \A q \in DOMAIN items : View!IsPrefix(k, q) <=> q = k
      BY <1>1, <1>3, PathPrefix
    <3> QED BY <1>1, <1>3, <3>1
  <2>4. ASSUME NEW p \in (DOMAIN new \cap (done \cup {k})) \cup (DOMAIN old \ (done \cup {k}))
        PROVE  (IF p \in done \cup {k} THEN new[p] ELSE old[p]) = items[p]
    <3>1. p # k /\ p \in DOMAIN items
      BY <1>1, <1>3
    <3> QED BY <1>1, <3>1
  <2> HIDE DEF items
  <2> QED BY <2>1, <2>2, <2>3, <2>4 DEF Between
<1> QED BY <1>2, <1>3

\* One more index.
LEMMA NextIndex == ASSUME NEW j \in Nat PROVE 1..j + 1 = (1..j) \cup {j + 1}
OBVIOUS

\* A batch of events has one for each key that changes.
IsBatch(batch, old, new) ==
    /\ old = [k \in DOMAIN old |-> old[k]]
    /\ new = [k \in DOMAIN new |-> new[k]]
    /\ \A i \in 1..Len(batch) : IsEventOf(batch[i], old, new)
    /\ \A k \in DOMAIN old \cup DOMAIN new :
        \/ k \in DOMAIN old /\ k \in DOMAIN new /\ old[k] = new[k]
        \/ \E i \in 1..Len(batch) : batch[i].key = k

\* In whatever order they are, they lead from a tree with the old documents to
\* one with the new.
LEMMA BatchReaches ==
    ASSUME NEW old, NEW new, NEW V, NEW events \in Seq(V), NEW batch \in Seq(V),
           IsBatch(batch, old, new), NEW tree, NEW last, Reaches(tree, events, last),
           View!Items(last) = old
    PROVE  \E end : Reaches(tree, events \o batch, end) /\ View!Items(end) = new
<1> SUFFICES ASSUME NEW n \in Nat, n = Len(events), NEW b \in Nat, b = Len(batch),
                    old = [k \in DOMAIN old |-> old[k]],
                    new = [k \in DOMAIN new |-> new[k]],
                    \A i \in 1..b : IsEventOf(batch[i], old, new),
                    \A k \in DOMAIN old \cup DOMAIN new :
                        \/ k \in DOMAIN old /\ k \in DOMAIN new /\ old[k] = new[k]
                        \/ \E i \in 1..b : batch[i].key = k
             PROVE  \E end : Reaches(tree, events \o batch, end) /\ View!Items(end) = new
  BY DEF IsBatch
<1> DEFINE keys(j) == {batch[i].key : i \in 1..j}
           all == events \o batch
           Goes(j) == \E end : /\ ReachesBy(tree, all, n + j, end)
                               /\ View!Items(end) = Between(old, new, keys(j))
           T == {j \in Nat : j <= b => Goes(j)}
<1>1. /\ all \in Seq(V) /\ Len(all) = n + b
      /\ \A i \in 1..n : all[i] = events[i]
      /\ \A i \in 1..b : all[n + i] = batch[i]
  OBVIOUS
<1> HIDE DEF all
<1>2. 0 \in T
  <2>1. ReachesBy(tree, all, n + 0, last)
    BY <1>1, ReachesFirst
  <2>2. keys(0) = {}
    OBVIOUS
  <2>3. old = Between(old, new, {})
    BY DEF Between
  <2> HIDE DEF keys
  <2> QED BY <2>1, <2>2, <2>3
<1>3. ASSUME NEW j \in T PROVE j + 1 \in T
  <2>1. j \in Nat
    OBVIOUS
  <2>2. ASSUME j + 1 <= b PROVE Goes(j + 1)
    <3>1. j <= b /\ j + 1 \in 1..b /\ n + j \in Nat /\ (n + j) + 1 = n + (j + 1)
      BY <2>1, <2>2
    <3>2. PICK mid : /\ ReachesBy(tree, all, n + j, mid)
                     /\ View!Items(mid) = Between(old, new, keys(j))
      BY <3>1
    <3>3. keys(j + 1) = keys(j) \cup {batch[j + 1].key}
      <4>1. 1..j + 1 = (1..j) \cup {j + 1}
        BY <2>1, NextIndex
      <4> QED BY <4>1
    <3> HIDE DEF keys, T
    <3>4. View!Items(ApplyTo(mid, batch[j + 1])) = Between(old, new, keys(j) \cup {batch[j + 1].key})
      <4>1. IsEventOf(batch[j + 1], old, new)
        BY <3>1
      <4> QED BY <3>2, <4>1, EventGoesOn
    <3>5. ReachesBy(tree, all, n + (j + 1), ApplyTo(mid, batch[j + 1]))
      <4>1. PICK m \in Nat : m = n + j /\ m + 1 = n + (j + 1)
        BY <3>1
      <4>2. all[m + 1] = batch[j + 1]
        BY <1>1, <3>1, <4>1
      <4>3. ReachesBy(tree, all, m + 1, ApplyTo(mid, all[m + 1]))
        BY <3>2, <4>1, ReachesFurther
      <4> QED BY <4>1, <4>2, <4>3
    <3> QED BY <3>3, <3>4, <3>5
  <2>3. j + 1 \in Nat
    BY <2>1
  <2> HIDE DEF Goes
  <2> QED BY <2>2, <2>3
<1>4. T = Nat
  <2> HIDE DEF T
  <2>1. T \in SUBSET Nat
    BY DEF T
  <2> QED BY <1>2, <1>3, <2>1, SetInduction
<1>5. Goes(b)
  <2> HIDE DEF Goes
  <2> QED BY <1>4
<1>6. PICK end : ReachesBy(tree, all, n + b, end) /\ View!Items(end) = Between(old, new, keys(b))
  BY <1>5
<1>7. Reaches(tree, all, end)
  <2>1. ReachesBy(tree, all, Len(all), end) /\ Len(all) \in Nat
    BY <1>1, <1>6
  <2> QED BY <2>1, ReachesFirst
<1>8. Between(old, new, keys(b)) = new
  <2>1. \A k \in DOMAIN old \cup DOMAIN new : k \notin keys(b) =>
            k \in DOMAIN old /\ k \in DOMAIN new /\ old[k] = new[k]
    OBVIOUS
  <2> HIDE DEF keys
  <2>2. (DOMAIN new \cap keys(b)) \cup (DOMAIN old \ keys(b)) = DOMAIN new
    <3> SUFFICES ASSUME NEW k
                 PROVE  k \in (DOMAIN new \cap keys(b)) \cup (DOMAIN old \ keys(b))
                          <=> k \in DOMAIN new
      OBVIOUS
    <3> QED BY <2>1
  <2> QED BY <2>1, <2>2 DEF Between
<1> QED BY <1>6, <1>7, <1>8 DEF all

(***************************************************************************)
(* The copy                                                                *)
(***************************************************************************)
EtcdIsMap == etcd = [k \in DOMAIN etcd |-> etcd[k]]

\* The keys that are removed were under a lease.
OnlyLeasedGo ==
    \A k \in DOMAIN etcd : k \in DOMAIN etcd' \/ \E n \in Nodes : k \in LeasedKeys[n]

\* A put removes nothing.
LEMMA PutIsMap ==
    ASSUME NEW key, NEW doc, etcd' = Put(key, doc)
    PROVE  EtcdIsMap' /\ OnlyLeasedGo
BY DEF Put, EtcdIsMap, OnlyLeasedGo

\* Only the end of a lease does.
LEMMA EtcdSteps ==
    ASSUME EtcdIsMap, BootStep
    PROVE  EtcdIsMap' /\ OnlyLeasedGo
<1>1. CASE UNCHANGED etcd
  BY <1>1 DEF EtcdIsMap, OnlyLeasedGo
<1>2. ASSUME NEW n \in Nodes, Ensure(n) \/ Report(n) PROVE EtcdIsMap' /\ OnlyLeasedGo
  <2>1. (\E key, doc : etcd' = Put(key, doc)) \/ UNCHANGED etcd
    BY <1>2 DEF Ensure, PutIfAbsent, Report
  <2> QED BY <1>1, <2>1, PutIsMap
<1>3. CASE Operate \/ Prioritize
  <2>1. \E key, doc : etcd' = Put(key, doc)
    BY <1>3 DEF Operate, Prioritize
  <2> QED BY <2>1, PutIsMap
<1>4. ASSUME NEW n \in Nodes, Expire(n) PROVE EtcdIsMap' /\ OnlyLeasedGo
  <2>1. PICK gone \in SUBSET LeasedKeys[n] : etcd' = Restrict(etcd, DOMAIN etcd \ gone)
    BY <1>4 DEF Expire
  <2> QED BY <2>1 DEF Restrict, EtcdIsMap, OnlyLeasedGo
<1> QED BY <1>1, <1>2, <1>3, <1>4 DEF BootStep, Start, Connect, Run, Die, bootVars

WatchIsSeq == \E V : watch \in Seq(V)

\* The tree with the events that it has yet to see has the documents of etcd.
InStep ==
    \E last : Reaches(store.tree, watch, last) /\ View!Items(last) = etcd

\* Before the snapshot there are no events.
CopyInv ==
    /\ EtcdIsMap
    /\ phase \in [Nodes -> Phases]
    /\ WatchIsSeq
    /\ phase[Me] \in {"down", "connect"} => watch = <<>>
    /\ phase[Me] \in {"ensure", "run"} => InStep

\* What the others and Me's own Ensure write to etcd is on its way.
LEMMA CommitKeepsStep ==
    ASSUME EtcdIsMap, EtcdIsMap', OnlyLeasedGo, KnownKeys, KnownKeys', WatchIsSeq, InStep,
           UNCHANGED store, watch' = watch \o EventsOfChange
    PROVE  WatchIsSeq' /\ InStep'
<1>1. PICK V : watch \in Seq(V)
  BY DEF WatchIsSeq
<1>2. PICK last : Reaches(store.tree, watch, last) /\ View!Items(last) = etcd
  BY DEF InStep
<1> DEFINE W == {EventOf(k) : k \in Changed}
<1>3. PICK batch : batch = EventsOfChange
  OBVIOUS
<1>4. batch \in Seq(W) /\ \A k \in Changed : \E i \in 1..Len(batch) : batch[i] = EventOf(k)
  BY <1>3, ChangeEvents
<1>5. PICK old, new : old = etcd /\ new = etcd'
  OBVIOUS
<1>6. watch \in Seq(V \cup W) /\ batch \in Seq(V \cup W) /\ Len(watch) \in Nat /\ Len(batch) \in Nat
  <2> HIDE DEF W
  <2> QED BY <1>1, <1>4
<1>7. ASSUME NEW i \in 1..Len(batch) PROVE IsEventOf(batch[i], old, new)
  <2>1. batch[i] \in W
    <3> HIDE DEF W
    <3> QED BY <1>4
  <2>2. PICK k \in Changed : batch[i] = EventOf(k)
    BY <2>1
  <2>3. k \in Keys /\ IsPath(k)
    BY KeyPaths DEF Changed, KnownKeys
  <2>4. ASSUME k \notin DOMAIN new, NEW p \in DOMAIN old \cup DOMAIN new, View!IsPrefix(k, p)
        PROVE  p = k
    <3>1. PICK n \in Nodes : k \in LeasedKeys[n]
      BY <1>5, <2>4 DEF Changed, OnlyLeasedGo
    <3>2. p \in Keys
      BY <1>5 DEF KnownKeys
    <3> QED BY <2>4, <3>1, <3>2, NothingBelow
  <2>5. /\ EventOf(k).key = k
        /\ EventOf(k).doc = IF k \in DOMAIN new THEN {new[k]} ELSE {}
    BY <1>5 DEF EventOf
  <2> QED BY <2>2, <2>3, <2>4, <2>5 DEF IsEventOf
<1>8. ASSUME NEW k \in DOMAIN old \cup DOMAIN new
      PROVE  \/ k \in DOMAIN old /\ k \in DOMAIN new /\ old[k] = new[k]
             \/ \E i \in 1..Len(batch) : batch[i].key = k
  <2>1. CASE k \in Changed
    <3>1. EventOf(k).key = k
      BY DEF EventOf
    <3>2. PICK i \in 1..Len(batch) : batch[i] = EventOf(k)
      BY <1>4, <2>1
    <3> QED BY <3>1, <3>2
  <2>2. CASE k \notin Changed
    BY <1>5, <2>2 DEF Changed
  <2> QED BY <2>1, <2>2
<1>9. old = [k \in DOMAIN old |-> old[k]] /\ new = [k \in DOMAIN new |-> new[k]]
  BY <1>5 DEF EtcdIsMap
<1>10. View!Items(last) = old
  BY <1>2, <1>5
<1> HIDE DEF W
<1>11. \E end : Reaches(store.tree, watch \o batch, end) /\ View!Items(end) = new
  <2>1. IsBatch(batch, old, new)
    BY <1>7, <1>8, <1>9 DEF IsBatch
  <2>2. PICK tree : tree = store.tree
    OBVIOUS
  <2>3. Reaches(tree, watch, last)
    BY <1>2, <2>2
  <2>4. \E end : Reaches(tree, watch \o batch, end) /\ View!Items(end) = new
    BY <1>6, <1>10, <2>1, <2>3, BatchReaches
  <2> QED BY <2>2, <2>4
<1>12. InStep'
  BY <1>3, <1>5, <1>11 DEF InStep
<1>13. WatchIsSeq'
  BY <1>3, <1>6 DEF WatchIsSeq
<1> QED BY <1>12, <1>13

\* Other processes' steps, Me's start and Me's Ensure.
LEMMA CommitKeepsCopy ==
    ASSUME JInv, JInv', BootStep, CopyInv, Commit,
           phase'[Me] = phase[Me] \/ (phase[Me] = "down" /\ phase'[Me] = "connect"),
           phase' \in [Nodes -> Phases]
    PROVE  CopyInv'
<1>1. EtcdIsMap' /\ OnlyLeasedGo
  BY EtcdSteps DEF CopyInv
<1>2. UNCHANGED store /\ phase[Me] \in Phases
  BY DEF Commit, CopyInv
<1>3. CASE phase[Me] \in {"ensure", "run"}
  <2>1. watch' = watch \o EventsOfChange /\ InStep
    BY <1>3 DEF Commit, CopyInv
  <2>2. WatchIsSeq' /\ InStep'
    BY <1>1, <1>2, <2>1, CommitKeepsStep DEF JInv, CopyInv
  <2>3. phase'[Me] \in {"ensure", "run"}
    BY <1>3
  <2> QED BY <1>1, <2>2, <2>3 DEF CopyInv
<1>4. CASE phase[Me] \in {"down", "connect"}
  <2>1. watch' = watch /\ watch = <<>>
    BY <1>4 DEF Commit, CopyInv
  <2>2. WatchIsSeq'
    BY <2>1 DEF WatchIsSeq, CopyInv
  <2>3. phase'[Me] \in {"down", "connect"}
    BY <1>4
  <2> QED BY <1>1, <2>1, <2>2, <2>3 DEF CopyInv
<1> QED BY <1>2, <1>3, <1>4 DEF Phases

\* The snapshot is etcd, and the events after it come later.
LEMMA LoadKeepsCopy ==
    ASSUME JInv, CopyInv, LoadSnapshot
    PROVE  CopyInv'
<1>1. /\ phase[Me] = "connect" /\ phase' = [phase EXCEPT ![Me] = "ensure"]
      /\ UNCHANGED <<etcd, watch>>
      /\ store'.tree = View!LoadSnapshot(etcd)
  BY DEF LoadSnapshot, Connect
<1>2. phase' \in [Nodes -> Phases] /\ phase'[Me] = "ensure"
  BY <1>1 DEF CopyInv, Phases
<1>3. watch' = <<>>
  BY <1>1 DEF CopyInv
<1>4. View!Items(View!LoadSnapshot(etcd)) = etcd
  <2>1. \A k \in DOMAIN etcd : IsPath(k)
    BY KeyPaths DEF JInv, KnownKeys
  <2>2. PICK items : items = etcd
    OBVIOUS
  <2>3. View!Items(View!LoadSnapshot(items)) = items
    BY <2>1, <2>2, SnapshotItems DEF CopyInv, EtcdIsMap
  <2> QED BY <2>2, <2>3
<1>5. InStep'
  <2>1. PICK tree : tree = View!LoadSnapshot(etcd)
    OBVIOUS
  <2>2. Reaches(tree, <<>>, tree)
    BY ReachesNothing
  <2> QED BY <1>1, <1>3, <1>4, <2>1, <2>2 DEF InStep
<1>6. EtcdIsMap' /\ WatchIsSeq'
  BY <1>1 DEF CopyInv, EtcdIsMap, WatchIsSeq
<1> QED BY <1>2, <1>5, <1>6 DEF CopyInv

\* The next event goes from the watch to the tree.
LEMMA ApplyKeepsCopy ==
    ASSUME CopyInv, Apply, store = [ready |-> store.ready, revision |-> store.revision, tree |-> store.tree]
    PROVE  CopyInv'
<1>1. /\ phase[Me] = "run" /\ watch # <<>> /\ watch' = Tail(watch)
      /\ UNCHANGED <<etcd, phase>>
      /\ store'.tree = ApplyTo(store.tree, Head(watch))
  BY DEF Apply, bootVars
<1>2. PICK V : watch \in Seq(V)
  BY DEF CopyInv, WatchIsSeq
<1>3. WatchIsSeq'
  <2>1. Tail(watch) \in Seq(V)
    BY <1>1, <1>2
  <2> QED BY <1>1, <2>1 DEF WatchIsSeq
<1>4. PICK last : Reaches(store.tree, watch, last) /\ View!Items(last) = etcd
  BY <1>1 DEF CopyInv, InStep
<1>5. Reaches(ApplyTo(store.tree, Head(watch)), Tail(watch), last)
  <2>1. PICK tree, events : tree = store.tree /\ events = watch
    OBVIOUS
  <2>2. Reaches(ApplyTo(tree, Head(events)), Tail(events), last)
    BY <1>1, <1>2, <1>4, <2>1, ReachesRest
  <2> QED BY <2>1, <2>2
<1>6. InStep'
  BY <1>1, <1>4, <1>5 DEF InStep
<1> QED BY <1>1, <1>3, <1>6 DEF CopyInv, EtcdIsMap

(***************************************************************************)
(* The types                                                               *)
(***************************************************************************)
\* What the copy is stamped with, now and later, etcd has been at.
CopyTypes ==
    /\ TypeOK
    /\ store = [ready |-> store.ready, revision |-> store.revision, tree |-> store.tree]
    /\ \A i \in 1..Len(watch) : watch[i].revision \in 0..revision

\* Whatever else a step of the others does, Me at most starts.
OthersStep ==
    /\ Commit
    /\ phase' \in [Nodes -> Phases]
    /\ phase'[Me] = phase[Me] \/ (phase[Me] = "down" /\ phase'[Me] = "connect")

\* A step of the stream leaves the copy alone, but for its notification.
StreamStep ==
    /\ UNCHANGED <<bootVars, storeVars>>
    /\ notify' \in BOOLEAN
    /\ stream' \in [Clients -> {"off", "ready", "revision", "tree", "wait"}]

\* The steps there are.
LEMMA NextOthers ==
    ASSUME TypeOK, [Next]_vars
    PROVE  \/ OthersStep \/ LoadSnapshot \/ RunMe \/ DieMe \/ Apply
           \/ \E c \in Clients : Open(c) \/ ReadReady(c) \/ ReadRevision(c) \/ Send(c) \/ Wake(c)
           \/ UNCHANGED vars
<1>1. ASSUME NEW n \in Nodes, Commit,
             Start(n) \/ (n # Me /\ (Connect(n) \/ Run(n) \/ Die(n))) \/ Ensure(n) \/ Report(n) \/ Expire(n)
      PROVE  OthersStep
  BY <1>1 DEF OthersStep, TypeOK, Phases, Start, Connect, Run, Die, Ensure, Report, Expire
<1>2. CASE (Operate \/ Prioritize) /\ Commit
  BY <1>2 DEF OthersStep, TypeOK, Operate, Prioritize
<1> QED BY <1>1, <1>2 DEF Next

\* To the copy the stream's are all alike.
LEMMA NextSteps ==
    ASSUME TypeOK, [Next]_vars
    PROVE  OthersStep \/ LoadSnapshot \/ RunMe \/ DieMe \/ Apply \/ StreamStep
<1>1. ASSUME NEW c \in Clients, Open(c) \/ ReadReady(c) \/ ReadRevision(c) \/ Send(c) \/ Wake(c)
      PROVE  StreamStep
  BY <1>1 DEF StreamStep, TypeOK, Quiet, Open, ReadReady, ReadRevision, Send, Wake
<1>2. CASE UNCHANGED vars
  BY <1>2 DEF StreamStep, TypeOK, vars, streamVars
<1> QED BY <1>1, <1>2, NextOthers

\* The copy of a process that has just started.
LEMMA EmptyStoreShape ==
    /\ EmptyStore.ready \in BOOLEAN /\ EmptyStore.revision = 0
    /\ EmptyStore = [ready |-> EmptyStore.ready, revision |-> EmptyStore.revision,
                     tree |-> EmptyStore.tree]
BY DEF EmptyStore

\* No step writes anything else.
LEMMA TypesKept ==
    ASSUME CopyTypes, WatchIsSeq, KnownKeys, KnownKeys', [Next]_vars
    PROVE  CopyTypes'
<1> USE DEF CopyTypes, TypeOK
<1>1. DOMAIN etcd' \subseteq Keys
  BY DEF KnownKeys
<1>2. PICK V : watch \in Seq(V)
  BY DEF WatchIsSeq
<1>3. CASE OthersStep
  <2>1. UNCHANGED <<store, notify, stream>> /\ revision' \in {revision, revision + 1}
    BY <1>3 DEF OthersStep, Commit, streamVars
  <2>2. revision' \in Nat /\ store'.revision \in 0..revision' /\ 0..revision \subseteq 0..revision'
    BY <2>1
  <2>3. CASE watch' = watch
    BY <1>1, <1>3, <2>1, <2>2, <2>3 DEF OthersStep
  <2>4. CASE watch' = watch \o EventsOfChange
    <3> DEFINE W == {EventOf(k) : k \in Changed}
    <3>1. PICK batch : batch = EventsOfChange
      OBVIOUS
    <3>2. batch \in Seq(W)
      BY <3>1, ChangeEvents
    <3>3. ASSUME NEW i \in 1..Len(batch) PROVE batch[i].revision \in 0..revision'
      <4>1. batch[i] \in W
        <5> HIDE DEF W
        <5> QED BY <3>2
      <4>2. PICK k \in Changed : batch[i] = EventOf(k)
        BY <4>1
      <4>3. revision' = revision + 1
        BY <1>3, <4>2 DEF OthersStep, Commit
      <4>4. batch[i].revision = revision + 1
        BY <4>2 DEF EventOf
      <4> QED BY <4>3, <4>4
    <3> HIDE DEF W
    <3>4. PICK events : events = watch /\ events \in Seq(V)
      BY <1>2
    <3>5. \A i \in 1..Len(events) : events[i].revision \in 0..revision'
      BY <2>2, <3>4
    <3>6. ASSUME NEW i \in 1..Len(events \o batch) PROVE (events \o batch)[i].revision \in 0..revision'
      <4>1. PICK n \in Nat, b \in Nat : n = Len(events) /\ b = Len(batch)
        BY <3>2, <3>4
      <4>2. i \in 1..n + b
        BY <3>2, <3>4, <4>1
      <4>3. CASE i \in 1..n
        <5>1. (events \o batch)[i] = events[i]
          BY <3>2, <3>4, <4>1, <4>3
        <5> QED BY <3>5, <4>1, <4>3, <5>1
      <4>4. CASE i \in n + 1..n + b
        <5>1. (events \o batch)[i] = batch[i - n] /\ i - n \in 1..b
          BY <3>2, <3>4, <4>1, <4>4
        <5> QED BY <3>3, <4>1, <5>1
      <4> QED BY <4>1, <4>2, <4>3, <4>4
    <3>7. \A i \in 1..Len(watch') : watch'[i].revision \in 0..revision'
      BY <2>4, <3>1, <3>4, <3>6
    <3> QED BY <1>1, <1>3, <2>1, <2>2, <3>7 DEF OthersStep
  <2> QED BY <1>3, <2>3, <2>4 DEF OthersStep, Commit
<1>4. CASE LoadSnapshot
  BY <1>1, <1>4 DEF LoadSnapshot, Connect, streamVars, Phases
<1>5. CASE RunMe
  BY <1>1, <1>5 DEF RunMe, Run, storeVars, streamVars, Phases
<1>6. CASE DieMe
  <2>1. /\ store' = EmptyStore /\ watch' = <<>> /\ notify' = FALSE /\ UNCHANGED revision
        /\ stream' = [c \in Clients |-> "off"] /\ phase' = [phase EXCEPT ![Me] = "down"]
    BY <1>6 DEF DieMe, Die
  <2>2. \A i \in 1..Len(watch') : watch'[i].revision \in 0..revision'
    BY <2>1
  <2>3. store'.ready \in BOOLEAN /\ store'.revision \in 0..revision'
    <3>1. revision' \in Nat
      BY <2>1
    <3> QED BY <2>1, <3>1, EmptyStoreShape
  <2>4. phase' \in [Nodes -> Phases]
    BY <2>1 DEF Phases
  <2> QED BY <1>1, <2>1, <2>2, <2>3, <2>4, EmptyStoreShape
<1>7. CASE Apply
  <2>1. /\ store'.ready = store.ready /\ store'.revision = Head(watch).revision
        /\ store' = [ready |-> store'.ready, revision |-> store'.revision, tree |-> store'.tree]
        /\ watch' = Tail(watch) /\ watch # <<>>
        /\ UNCHANGED <<etcd, phase, revision, stream>> /\ notify' = TRUE
    BY <1>7 DEF Apply, bootVars, streamVars
  <2>2. PICK events, r : events = watch /\ events \in Seq(V) /\ r = revision
    BY <1>2
  <2>3. /\ Head(events) = events[1] /\ 1 \in 1..Len(events)
        /\ \A i \in 1..Len(Tail(events)) : Tail(events)[i] = events[i + 1] /\ i + 1 \in 1..Len(events)
    BY <2>1, <2>2
  <2>4. \A i \in 1..Len(events) : events[i].revision \in 0..r
    BY <2>2
  <2>5. Head(events).revision \in 0..r /\ \A i \in 1..Len(Tail(events)) : Tail(events)[i].revision \in 0..r
    BY <2>3, <2>4
  <2>6. store'.revision \in 0..revision' /\ \A i \in 1..Len(watch') : watch'[i].revision \in 0..revision'
    BY <2>1, <2>2, <2>5
  <2> QED BY <1>1, <2>1, <2>6
<1>8. CASE StreamStep
  BY <1>1, <1>8 DEF StreamStep, bootVars, storeVars
<1> QED BY <1>3, <1>4, <1>5, <1>6, <1>7, <1>8, NextSteps

\* Every step keeps the copy in step with etcd.
LEMMA CopyKept ==
    ASSUME JInv, JInv', CopyInv, CopyTypes, [Next]_vars
    PROVE  CopyInv'
<1>1. CASE OthersStep
  BY <1>1, NextBoots, CommitKeepsCopy DEF OthersStep
<1>2. CASE LoadSnapshot
  BY <1>2, LoadKeepsCopy
<1>3. CASE RunMe
  <2>1. UNCHANGED <<etcd, store, watch>> /\ phase[Me] = "ensure" /\ phase' = [phase EXCEPT ![Me] = "run"]
    BY <1>3 DEF RunMe, Run, storeVars
  <2>2. InStep' /\ EtcdIsMap' /\ WatchIsSeq'
    BY <2>1 DEF CopyInv, InStep, EtcdIsMap, WatchIsSeq
  <2> QED BY <2>1, <2>2 DEF CopyInv, Phases
<1>4. CASE DieMe
  <2>1. UNCHANGED etcd /\ watch' = <<>> /\ phase' = [phase EXCEPT ![Me] = "down"]
    BY <1>4 DEF DieMe, Die
  <2>2. EtcdIsMap' /\ WatchIsSeq'
    <3>1. <<>> \in Seq({})
      OBVIOUS
    <3> QED BY <2>1, <3>1 DEF CopyInv, EtcdIsMap, WatchIsSeq
  <2> QED BY <2>1, <2>2 DEF CopyInv, Phases
<1>5. CASE Apply
  BY <1>5, ApplyKeepsCopy DEF CopyTypes
<1>6. CASE StreamStep
  BY <1>6 DEF StreamStep, bootVars, storeVars, CopyInv, InStep, EtcdIsMap, WatchIsSeq
<1> QED BY <1>1, <1>2, <1>3, <1>4, <1>5, <1>6, NextSteps DEF CopyTypes

\* At first there is nothing, anywhere.
LEMMA CopyInit == Init => CopyInv /\ CopyTypes
<1> SUFFICES ASSUME Init PROVE CopyInv /\ CopyTypes
  OBVIOUS
<1>1. EtcdIsMap /\ DOMAIN etcd = {}
  BY DEF Init, BootInit, EtcdIsMap
<1>2. watch = <<>> /\ WatchIsSeq
  <2>1. <<>> \in Seq({})
    OBVIOUS
  <2> QED BY <2>1 DEF Init, WatchIsSeq
<1>3. CopyInv
  BY <1>1, <1>2 DEF Init, BootInit, CopyInv, Phases
<1>4. CopyTypes
  <2>1. store = EmptyStore /\ revision = 0 /\ notify = FALSE /\ stream = [c \in Clients |-> "off"]
    BY DEF Init
  <2>2. phase \in [Nodes -> Phases]
    BY DEF Init, BootInit, Phases
  <2>3. store.ready \in BOOLEAN /\ store.revision \in 0..revision
    BY <2>1, EmptyStoreShape
  <2>4. TypeOK
    BY <1>1, <2>1, <2>2, <2>3 DEF TypeOK
  <2>5. \A i \in 1..Len(watch) : watch[i].revision \in 0..revision
    BY <1>2
  <2> QED BY <2>1, <2>4, <2>5, EmptyStoreShape DEF CopyTypes
<1> QED BY <1>3, <1>4

(***************************************************************************)
(* The theorems                                                            *)
(***************************************************************************)
\* runtime.go:150: the snapshot, the events and what is to come of them add up
\* to etcd, always.
THEOREM CopyInvariant == Spec => [](CopyInv /\ CopyTypes)
<1>1. Init => CopyInv /\ CopyTypes
  BY CopyInit
<1>2. JInv /\ JInv' /\ CopyInv /\ CopyTypes /\ [Next]_vars => (CopyInv /\ CopyTypes)'
  BY CopyKept, TypesKept DEF CopyInv, JInv
<1> QED BY <1>1, <1>2, SeedingInvariant, PTL DEF Spec

\* The bootstrap, the copy and the stream are well typed: etcd has no key that
\* no file leads to, and no copy is ahead of etcd.
THEOREM TypeCorrect == Spec => []TypeOK
<1>1. CopyTypes => TypeOK
  BY DEF CopyTypes
<1> QED BY <1>1, CopyInvariant, PTL

\* runtime.go:152: whatever is committed while Me loads its snapshot, seeds and
\* runs, by whomever and in batches of any order, the copy becomes etcd when
\* the events under way have been applied.
THEOREM CopyCatchesUpAlways == Spec => []CopyCatchesUp
<1>1. CopyInv => CopyCatchesUp
  <2> SUFFICES ASSUME CopyInv, phase[Me] \in {"ensure", "run"}
               PROVE  View!Items(FoldLeft(ApplyTo, store.tree, watch)) = etcd
    BY DEF CopyCatchesUp
  <2>1. PICK V : watch \in Seq(V)
    BY DEF CopyInv, WatchIsSeq
  <2>2. PICK last : Reaches(store.tree, watch, last) /\ View!Items(last) = etcd
    BY DEF CopyInv, InStep
  <2>3. PICK tree, events : tree = store.tree /\ events = watch
    OBVIOUS
  <2>4. PICK trees : IsRun(trees, tree, events) /\ last = trees[Len(events)]
    BY <2>2, <2>3 DEF Reaches
  <2>5. FoldLeft(ApplyTo, tree, events) = last
    BY <2>1, <2>3, <2>4, FoldRuns
  <2> QED BY <2>2, <2>3, <2>5
<1> QED BY <1>1, CopyInvariant, PTL

USE NamesAssumption

(***************************************************************************)
(* The paths of the tree                                                   *)
(***************************************************************************)
\* What is above a key, and the key.
IsNode(p) == p = <<>> \/ (Len(p) = 1 /\ p = <<p[1]>>) \/ IsPath(p)

\* The length of a path tells its form.
LEMMA NodeForms ==
    ASSUME NEW p, IsNode(p)
    PROVE  /\ Len(p) \in 0..5
           /\ Len(p) = 0 => p = <<>>
           /\ Len(p) = 1 => p = <<p[1]>>
           /\ Len(p) = 2 => p = <<p[1], p[2]>>
           /\ Len(p) = 3 => p = <<p[1], p[2], p[3]>>
           /\ Len(p) = 4 => p = <<p[1], p[2], p[3], p[4]>>
           /\ Len(p) = 5 => p = <<p[1], p[2], p[3], p[4], p[5]>>
<1>1. CASE p = <<>>
  BY <1>1
<1>2. CASE Len(p) = 1 /\ p = <<p[1]>>
  BY <1>2
<1>3. CASE IsPath(p)
  <2>1. \/ Len(p) = 2 /\ p = <<p[1], p[2]>>
        \/ Len(p) = 3 /\ p = <<p[1], p[2], p[3]>>
        \/ Len(p) = 4 /\ p = <<p[1], p[2], p[3], p[4]>>
        \/ Len(p) = 5 /\ p = <<p[1], p[2], p[3], p[4], p[5]>>
    BY <1>3 DEF IsPath
  <2> QED BY <2>1
<1> QED BY <1>1, <1>2, <1>3 DEF IsNode

\* So it is a sequence.
LEMMA NodeIsSeq == ASSUME NEW p, IsNode(p) PROVE \E V : p \in Seq(V)
<1>1. CASE p = <<>>
  <2>1. <<>> \in Seq({})
    OBVIOUS
  <2> QED BY <1>1, <2>1
<1>2. CASE Len(p) = 1 /\ p = <<p[1]>>
  <2>1. <<p[1]>> \in Seq({p[1]})
    OBVIOUS
  <2> QED BY <1>2, <2>1
<1> QED BY <1>1, <1>2, PathIsSeq DEF IsNode

\* Of a sequence of at most five names it is one.
LEMMA ShortIsNode ==
    ASSUME NEW V, NEW p \in Seq(V), Len(p) <= 5
    PROVE  IsNode(p)
<1>0. Len(p) \in Nat
  OBVIOUS
<1>1. CASE Len(p) = 0
  BY <1>1 DEF IsNode
<1>2. CASE Len(p) = 1
  <2>1. p = <<p[1]>>
    BY <1>2
  <2> QED BY <1>2, <2>1 DEF IsNode
<1>3. CASE Len(p) = 2
  <2>1. p = <<p[1], p[2]>>
    BY <1>3
  <2> QED BY <1>3, <2>1 DEF IsNode, IsPath
<1>4. CASE Len(p) = 3
  <2>1. p = <<p[1], p[2], p[3]>>
    BY <1>4
  <2> QED BY <1>4, <2>1 DEF IsNode, IsPath
<1>5. CASE Len(p) = 4
  <2>1. p = <<p[1], p[2], p[3], p[4]>>
    BY <1>5
  <2> QED BY <1>5, <2>1 DEF IsNode, IsPath
<1>6. CASE Len(p) = 5
  <2>1. p = <<p[1], p[2], p[3], p[4], p[5]>>
    BY <1>6
  <2> QED BY <1>6, <2>1 DEF IsNode, IsPath
<1>7. \A n \in Nat : n <= 5 => n = 0 \/ n = 1 \/ n = 2 \/ n = 3 \/ n = 4 \/ n = 5
  OBVIOUS
<1> QED BY <1>0, <1>1, <1>2, <1>3, <1>4, <1>5, <1>6, <1>7

\* The prefixes of a path are those that agree with it as far as they go.
Agrees(p, k) == Len(p) <= Len(k) /\ \A i \in 1..Len(p) : p[i] = k[i]

\* They are paths again.
LEMMA PrefixIsNode ==
    ASSUME NEW k, IsNode(k), NEW p \in View!Prefixes(k)
    PROVE  IsNode(p) /\ Agrees(p, k)
<1>1. PICK V : k \in Seq(V)
  BY NodeIsSeq
<1>2. PICK l \in 0..Len(k) : p = SubSeq(k, 1, l)
  BY DEF View!Prefixes
<1>3. p \in Seq(V) /\ Len(p) = l /\ \A i \in 1..l : p[i] = k[i]
  BY <1>1, <1>2
<1>4. Len(k) \in 0..5
  BY NodeForms
<1>5. Len(p) <= 5 /\ Len(p) <= Len(k)
  BY <1>2, <1>3, <1>4
<1> QED BY <1>3, <1>5, ShortIsNode DEF Agrees

\* There are no others.
LEMMA AgreesIsPrefix ==
    ASSUME NEW k, IsNode(k), NEW p, IsNode(p), Agrees(p, k)
    PROVE  p \in View!Prefixes(k)
<1>1. PICK V : k \in Seq(V)
  BY NodeIsSeq
<1>2. PICK W : p \in Seq(W)
  BY NodeIsSeq
<1>3. Len(p) \in 0..Len(k) /\ \A i \in 1..Len(p) : p[i] = k[i]
  BY <1>1, <1>2 DEF Agrees
<1>4. SubSeq(k, 1, Len(p)) = p
  BY <1>1, <1>2, <1>3
<1> QED BY <1>3, <1>4 DEF View!Prefixes

\* A prefix of a prefix is one.
LEMMA PrefixOfPrefix ==
    ASSUME NEW k, IsNode(k), NEW p \in View!Prefixes(k), NEW q \in View!Prefixes(p)
    PROVE  q \in View!Prefixes(k)
<1>1. IsNode(p) /\ Agrees(p, k)
  BY PrefixIsNode
<1>2. IsNode(q) /\ Agrees(q, p)
  BY <1>1, PrefixIsNode
<1>3. Len(p) \in Nat /\ Len(q) \in Nat /\ Len(k) \in Nat
  BY <1>1, <1>2, NodeForms
<1>4. Agrees(q, k)
  BY <1>1, <1>2, <1>3 DEF Agrees
<1> QED BY <1>2, <1>4, AgreesIsPrefix

\* What IsPrefix says.
LEMMA PrefixMeaning ==
    ASSUME NEW k, IsNode(k), NEW p, IsNode(p)
    PROVE  View!IsPrefix(p, k) <=> p \in View!Prefixes(k)
<1>1. PICK V : k \in Seq(V)
  BY NodeIsSeq
<1>2. PICK W : p \in Seq(W)
  BY NodeIsSeq
<1>3. SubSeq(p, 1, Len(p)) = p /\ Len(p) \in Nat /\ Len(k) \in Nat
  BY <1>1, <1>2
<1>4. ASSUME View!IsPrefix(p, k) PROVE p \in View!Prefixes(k)
  <2>1. Len(p) <= Len(k) /\ p = SubSeq(k, 1, Len(p))
    BY <1>3, <1>4 DEF View!IsPrefix
  <2>2. Len(p) \in 0..Len(k)
    BY <1>3, <2>1
  <2> QED BY <2>1, <2>2 DEF View!Prefixes
<1>5. ASSUME p \in View!Prefixes(k) PROVE View!IsPrefix(p, k)
  <2>1. PICK l \in 0..Len(k) : p = SubSeq(k, 1, l)
    BY <1>5 DEF View!Prefixes
  <2>2. Len(p) = l
    BY <1>1, <2>1
  <2> QED BY <1>3, <2>1, <2>2 DEF View!IsPrefix
<1> QED BY <1>4, <1>5

(***************************************************************************)
(* The tree of the copy                                                    *)
(***************************************************************************)
Leased(k) == \E n \in Nodes : k \in LeasedKeys[n]

\* Nodes have the nodes above them; one has the document of its key, or is
\* above a key.
TreeInv(tree) ==
    /\ tree = [p \in DOMAIN tree |-> tree[p]]
    /\ \A p \in DOMAIN tree :
        /\ View!Prefixes(p) \subseteq DOMAIN tree
        /\ \/ p \in Keys /\ \E doc : tree[p] = {doc}
           \/ tree[p] = {} /\ \E k \in Keys : p \in View!Prefixes(k) /\ p # k

\* A group's keys come after its desired document.
Grounded(k, keys) == k[1] \notin Reserved => Desired(k[1], k[2]) \in keys

\* Each node is there for a key that has a document, or had one under a lease.
Rooted(tree, keys) ==
    \A p \in DOMAIN tree : \E k \in Keys :
        /\ p \in View!Prefixes(k)
        /\ View!Get(tree, k) # {} \/ Leased(k)
        /\ Grounded(k, keys)

\* A leased key is one of the keys.
LEMMA LeasedIsKey == ASSUME NEW k, Leased(k) PROVE k \in Keys
<1>1. PICK n \in Nodes : k \in LeasedKeys[n]
  BY DEF Leased
<1>2. DOMAIN LeasedKeys = Nodes
  BY DEF LeasedKeys
<1>3. LeasedKeys[n] \in Range(LeasedKeys)
  BY <1>2 DEF Range
<1> QED BY <1>1, <1>3 DEF Keys

\* Each node of the tree is above a key, or is one.
LEMMA TreeNodes ==
    ASSUME NEW tree, TreeInv(tree), NEW p \in DOMAIN tree
    PROVE  /\ IsNode(p)
           /\ \E k \in Keys : IsPath(k) /\ p \in View!Prefixes(k) /\ Agrees(p, k)
<1>1. PICK k \in Keys : p \in View!Prefixes(k)
  <2>1. CASE p \in Keys
    BY <2>1, KeyPaths, PathPrefix
  <2> QED BY <2>1 DEF TreeInv
<1>2. IsPath(k) /\ IsNode(k)
  BY KeyPaths DEF IsNode
<1> QED BY <1>1, <1>2, PrefixIsNode

\* The empty tree has only its root.
LEMMA EmptyTreeInv == TreeInv(View!EmptyTree) /\ \A keys : Rooted(View!EmptyTree, keys)
<1>1. PICK tree : tree = View!EmptyTree
  OBVIOUS
<1>2. DOMAIN tree = {<<>>} /\ tree[<<>>] = {} /\ tree = [p \in DOMAIN tree |-> tree[p]]
  BY <1>1 DEF View!EmptyTree, View!NoValue
<1>3. PICK k \in Keys : k = Session(Me) /\ Leased(k)
  <2>1. Leased(Session(Me))
    BY StartupAssumption DEF Leased, LeasedKeys
  <2> QED BY <2>1, LeasedIsKey
<1>4. IsNode(<<>>) /\ IsPath(k) /\ IsNode(k) /\ Len(<<>>) = 0 /\ k # <<>> /\ k[1] = "session"
  BY <1>3 DEF IsNode, IsPath, Session
<1>5. <<>> \in View!Prefixes(k)
  <2>1. Len(k) \in Nat
    BY <1>4, NodeForms
  <2> QED BY <1>4, <2>1, AgreesIsPrefix DEF Agrees
<1>6. View!Prefixes(<<>>) \subseteq {<<>>}
  <2>1. ASSUME NEW q \in View!Prefixes(<<>>) PROVE q = <<>>
    <3>1. IsNode(q) /\ Len(q) <= 0
      BY <1>4, PrefixIsNode DEF Agrees
    <3> QED BY <3>1, NodeForms
  <2> QED BY <2>1
<1>7. TreeInv(tree)
  BY <1>2, <1>4, <1>5, <1>6 DEF TreeInv
<1>8. \A keys : Rooted(tree, keys)
  BY <1>2, <1>3, <1>4, <1>5 DEF Rooted, Grounded, Reserved
<1> QED BY <1>1, <1>7, <1>8

\* A key is inserted.
LEMMA InsertTree ==
    ASSUME NEW tree, TreeInv(tree), NEW key \in Keys, NEW doc
    PROVE  TreeInv(View!Insert(tree, key, doc))
<1>1. PICK after : after = View!Insert(tree, key, doc)
  OBVIOUS
<1>2. /\ DOMAIN after = DOMAIN tree \cup View!Prefixes(key)
      /\ after = [p \in DOMAIN after |-> after[p]]
      /\ \A p \in DOMAIN after :
            after[p] = IF p = key THEN {doc} ELSE IF p \in DOMAIN tree THEN tree[p] ELSE {}
  BY <1>1 DEF View!Insert, View!NoValue
<1>3. IsNode(key)
  BY KeyPaths DEF IsNode
<1>4. ASSUME NEW p \in DOMAIN after
      PROVE  /\ View!Prefixes(p) \subseteq DOMAIN after
             /\ \/ p \in Keys /\ \E d : after[p] = {d}
                \/ after[p] = {} /\ \E k \in Keys : p \in View!Prefixes(k) /\ p # k
  <2>1. View!Prefixes(p) \subseteq DOMAIN after
    <3>1. CASE p \in DOMAIN tree
      BY <1>2, <3>1 DEF TreeInv
    <3>2. CASE p \in View!Prefixes(key)
      BY <1>2, <1>3, <3>2, PrefixOfPrefix
    <3> QED BY <1>2, <3>1, <3>2
  <2>2. CASE p = key
    BY <1>2, <2>1, <2>2
  <2>3. CASE p # key /\ p \in DOMAIN tree
    BY <1>2, <2>1, <2>3 DEF TreeInv
  <2>4. CASE p # key /\ p \notin DOMAIN tree
    BY <1>2, <2>1, <2>4
  <2> QED BY <2>2, <2>3, <2>4
<1>5. TreeInv(after)
  BY <1>2, <1>4 DEF TreeInv
<1> QED BY <1>1, <1>5

\* Its group, if it is a group's, must have a desired document.
LEMMA InsertRoots ==
    ASSUME NEW tree, NEW keys, Rooted(tree, keys), NEW key \in Keys, NEW doc,
           Grounded(key, keys)
    PROVE  Rooted(View!Insert(tree, key, doc), keys)
<1>1. PICK after : after = View!Insert(tree, key, doc)
  OBVIOUS
<1>2. /\ DOMAIN after = DOMAIN tree \cup View!Prefixes(key)
      /\ \A p \in DOMAIN after :
            after[p] = IF p = key THEN {doc} ELSE IF p \in DOMAIN tree THEN tree[p] ELSE {}
  BY <1>1 DEF View!Insert, View!NoValue
<1>3. key \in View!Prefixes(key)
  BY KeyPaths, PathPrefix
<1>4. \A k : View!Get(tree, k) # {} \/ k = key => View!Get(after, k) # {}
  BY <1>2, <1>3 DEF View!Get, View!NoValue
<1>5. ASSUME NEW p \in DOMAIN after
      PROVE  \E k \in Keys :
                /\ p \in View!Prefixes(k)
                /\ View!Get(after, k) # {} \/ Leased(k)
                /\ Grounded(k, keys)
  <2>1. CASE p \in DOMAIN tree
    BY <1>4, <2>1 DEF Rooted
  <2>2. CASE p \in View!Prefixes(key)
    BY <1>4, <2>2
  <2> QED BY <1>2, <2>1, <2>2
<1>6. Rooted(after, keys)
  BY <1>5 DEF Rooted
<1> QED BY <1>1, <1>6

\* A key is deleted, with all below it.
LEMMA DeleteTree ==
    ASSUME NEW tree, TreeInv(tree), NEW key \in Keys
    PROVE  TreeInv(View!Delete(tree, key))
<1>1. PICK after : after = View!Delete(tree, key)
  OBVIOUS
<1>2. /\ DOMAIN after = {p \in DOMAIN tree : ~View!IsPrefix(key, p)}
      /\ after = [p \in DOMAIN after |-> after[p]]
      /\ \A p \in DOMAIN after : after[p] = tree[p]
  BY <1>1 DEF View!Delete, View!Restrict
<1>3. IsNode(key)
  BY KeyPaths DEF IsNode
<1>4. ASSUME NEW p \in DOMAIN after, NEW q \in View!Prefixes(p)
      PROVE  q \in DOMAIN after
  <2>1. p \in DOMAIN tree /\ q \in DOMAIN tree
    BY <1>2, <1>4 DEF TreeInv
  <2>2. IsNode(p) /\ IsNode(q)
    BY <2>1, TreeNodes
  <2>3. View!IsPrefix(key, q) => View!IsPrefix(key, p)
    BY <1>3, <1>4, <2>2, PrefixMeaning, PrefixOfPrefix
  <2> QED BY <1>2, <2>1, <2>3
<1>5. TreeInv(after)
  BY <1>2, <1>4 DEF TreeInv
<1> QED BY <1>1, <1>5

\* If it was under a lease, the nodes above it may stay.
LEMMA DeleteRoots ==
    ASSUME NEW tree, NEW keys, Rooted(tree, keys), NEW key, Leased(key)
    PROVE  Rooted(View!Delete(tree, key), keys)
<1>1. PICK after : after = View!Delete(tree, key)
  OBVIOUS
<1>2. /\ DOMAIN after = {p \in DOMAIN tree : ~View!IsPrefix(key, p)}
      /\ \A p \in DOMAIN after : after[p] = tree[p]
  BY <1>1 DEF View!Delete, View!Restrict
<1>3. ASSUME NEW k \in Keys, View!Get(tree, k) # {} PROVE View!Get(after, k) # {} \/ Leased(k)
  <2>1. k \in DOMAIN tree /\ tree[k] # {}
    BY <1>3 DEF View!Get, View!NoValue
  <2>2. CASE View!IsPrefix(key, k)
    <3>1. k = key
      BY <2>2, NothingBelow DEF Leased
    <3> QED BY <3>1
  <2>3. CASE ~View!IsPrefix(key, k)
    BY <1>2, <2>1, <2>3 DEF View!Get
  <2> QED BY <2>2, <2>3
<1>4. ASSUME NEW p \in DOMAIN after
      PROVE  \E k \in Keys :
                /\ p \in View!Prefixes(k)
                /\ View!Get(after, k) # {} \/ Leased(k)
                /\ Grounded(k, keys)
  <2>1. p \in DOMAIN tree
    BY <1>2
  <2>2. PICK k \in Keys :
          /\ p \in View!Prefixes(k)
          /\ View!Get(tree, k) # {} \/ Leased(k)
          /\ Grounded(k, keys)
    BY <2>1 DEF Rooted
  <2> QED BY <1>3, <2>2
<1>5. Rooted(after, keys)
  BY <1>4 DEF Rooted
<1> QED BY <1>1, <1>5

\* A snapshot is loaded.
LEMMA LoadTree ==
    ASSUME NEW items, DOMAIN items \subseteq Keys,
           \A k \in DOMAIN items : Grounded(k, DOMAIN items)
    PROVE  /\ TreeInv(View!LoadSnapshot(items))
           /\ Rooted(View!LoadSnapshot(items), DOMAIN items)
<1>1. PICK tree : tree = View!LoadSnapshot(items)
  OBVIOUS
<1>2. /\ DOMAIN tree = (UNION {View!Prefixes(k) : k \in DOMAIN items}) \cup {<<>>}
      /\ tree = [p \in DOMAIN tree |-> tree[p]]
      /\ \A p \in DOMAIN tree : tree[p] = IF p \in DOMAIN items THEN {items[p]} ELSE {}
  BY <1>1 DEF View!LoadSnapshot, View!NoValue
<1>3. \A k \in DOMAIN items : IsNode(k) /\ k \in View!Prefixes(k) /\ k \in DOMAIN tree
  <2>1. \A k \in DOMAIN items : IsPath(k) /\ k \in View!Prefixes(k)
    BY KeyPaths, PathPrefix
  <2> QED BY <1>2, <2>1 DEF IsNode
<1>4. PICK empty : empty = View!EmptyTree
  OBVIOUS
<1>5. /\ TreeInv(empty) /\ Rooted(empty, DOMAIN items)
      /\ DOMAIN empty = {<<>>} /\ empty[<<>>] = {}
  BY <1>4, EmptyTreeInv DEF View!EmptyTree, View!NoValue
<1>6. \A k : ~(View!Get(empty, k) # {})
  BY <1>5 DEF View!Get, View!NoValue
<1>7. ASSUME NEW p \in DOMAIN tree, p # <<>>
      PROVE  /\ View!Prefixes(p) \subseteq DOMAIN tree
             /\ \/ p \in Keys /\ \E d : tree[p] = {d}
                \/ tree[p] = {} /\ \E k \in Keys : p \in View!Prefixes(k) /\ p # k
             /\ \E k \in Keys :
                /\ p \in View!Prefixes(k)
                /\ View!Get(tree, k) # {} \/ Leased(k)
                /\ Grounded(k, DOMAIN items)
  <2>1. PICK k \in DOMAIN items : p \in View!Prefixes(k)
    BY <1>2, <1>7
  <2>2. View!Prefixes(p) \subseteq DOMAIN tree
    <3>1. View!Prefixes(p) \subseteq View!Prefixes(k)
      BY <1>3, <2>1, PrefixOfPrefix
    <3> QED BY <1>2, <3>1
  <2>3. View!Get(tree, k) # {}
    BY <1>2, <1>3 DEF View!Get
  <2>4. k \in Keys
    OBVIOUS
  <2>5. CASE p \in DOMAIN items
    BY <1>2, <2>1, <2>2, <2>3, <2>4, <2>5
  <2>6. CASE p \notin DOMAIN items
    BY <1>2, <2>1, <2>2, <2>3, <2>4, <2>6
  <2> QED BY <2>5, <2>6
<1>8. /\ View!Prefixes(<<>>) \subseteq DOMAIN tree
      /\ <<>> \notin Keys
      /\ tree[<<>>] = {}
      /\ \E k \in Keys : <<>> \in View!Prefixes(k) /\ <<>> # k
      /\ \E k \in Keys :
            /\ <<>> \in View!Prefixes(k)
            /\ Leased(k)
            /\ Grounded(k, DOMAIN items)
  <2>1. <<>> \notin Keys
    BY KeyPaths DEF IsPath
  <2> QED BY <1>2, <1>5, <1>6, <2>1 DEF TreeInv, Rooted
<1>9. TreeInv(tree)
  <2>1. ASSUME NEW p \in DOMAIN tree
        PROVE  /\ View!Prefixes(p) \subseteq DOMAIN tree
               /\ \/ p \in Keys /\ \E d : tree[p] = {d}
                  \/ tree[p] = {} /\ \E k \in Keys : p \in View!Prefixes(k) /\ p # k
    <3>1. CASE p = <<>>
      BY <1>8, <3>1
    <3>2. CASE p # <<>>
      BY <1>7, <3>2
    <3> QED BY <3>1, <3>2
  <2> QED BY <1>2, <2>1 DEF TreeInv
<1>10. Rooted(tree, DOMAIN items)
  BY <1>7, <1>8 DEF Rooted
<1> QED BY <1>1, <1>9, <1>10

(***************************************************************************)
(* The tree in every state                                                 *)
(***************************************************************************)
\* Of the keys in etcd.
GroundedInv == \A k \in DOMAIN etcd : Grounded(k, DOMAIN etcd)

\* An event puts a known key, or deletes one that was under a lease.
EventInv(event) ==
    /\ event.key \in Keys
    /\ event.doc = {} => Leased(event.key)
    /\ Grounded(event.key, DOMAIN etcd)

WatchInv == \E V : watch \in Seq(V) /\ \A event \in V : EventInv(event)

ViewInv ==
    /\ GroundedInv
    /\ WatchInv
    /\ TreeInv(store.tree)
    /\ Rooted(store.tree, DOMAIN etcd)

\* A desired document stays.
DesiredStays == \A g, m : Has(Desired(g, m)) => Has(Desired(g, m))'

LEMMA DesiredKept == ASSUME OnlyLeasedGo PROVE DesiredStays
<1> SUFFICES ASSUME NEW g, NEW m, Has(Desired(g, m)) PROVE Has(Desired(g, m))'
  BY DEF DesiredStays
<1>1. ~Leased(Desired(g, m))
  BY LeasedKinds, ConfigKinds DEF Leased
<1>2. Desired(g, m) \in DOMAIN etcd'
  BY <1>1 DEF OnlyLeasedGo, Has, Leased
<1> QED BY <1>2 DEF Has

\* So what came after one keeps it.
LEMMA GroundedKept ==
    ASSUME DesiredStays, NEW k, Grounded(k, DOMAIN etcd)
    PROVE  Grounded(k, DOMAIN etcd')
BY DEF DesiredStays, Grounded, Has

\* The same of the whole tree.
LEMMA RootedKept ==
    ASSUME DesiredStays, NEW tree, Rooted(tree, DOMAIN etcd)
    PROVE  Rooted(tree, DOMAIN etcd')
BY GroundedKept DEF Rooted

\* A seed is a config document or a desired one.
LEMMA SeedIsGrounded ==
    ASSUME NEW n \in Nodes, NEW c \in Configs(n), NEW k \in Seeds(c, n), k \in DOMAIN etcd'
    PROVE  Grounded(k, DOMAIN etcd')
<1>1. k \in Keys
  BY KeysWritten
<1>2. k[1] = "config" \/ IsDesired(k)
  BY LastOfThree DEF Seeds, IsDesired, ConfigMeta, ConfigNode, ConfigRole, ConfigClusterGroupMeta,
                     ManagementGroupConfig, Desired
<1>3. CASE k[1] = "config"
  BY <1>3 DEF Grounded, Reserved
<1>4. CASE k[1] # "config" /\ k[1] \notin Reserved
  <2>1. Last(k) = "desired"
    BY <1>2, <1>4 DEF IsDesired
  <2>2. ~IsReport(k)
    <3>1. ASSUME IsReport(k) PROVE FALSE
      <4>1. Len(k) = 4 \/ Len(k) = 5
        BY <3>1 DEF IsReport
      <4>2. Last(k) \in Kinds
        BY <3>1, <4>1 DEF IsReport, Last
      <4> QED BY <2>1, <4>2 DEF Kinds
    <3> QED BY <3>1
  <2>3. k[1] \notin {"session", "registry", "config"}
    BY <1>4 DEF Reserved
  <2>4. k = Desired(k[1], k[2])
    BY <1>1, <2>2, <2>3, KeyShapes
  <2> QED BY <2>4 DEF Grounded
<1>5. CASE k[1] \in Reserved
  BY <1>5 DEF Grounded
<1> QED BY <1>3, <1>4, <1>5

\* A report is one of a group that its node has seeded.
LEMMA ReportIsGrounded ==
    ASSUME NEW n \in Nodes, NEW c \in Configs(n), NEW k \in ReportKeys(n, c), NEW keys,
           Seeds(c, n) \subseteq keys
    PROVE  Grounded(k, keys)
<1>1. PICK at \in Memberships(c) : \E r, kind : k = RoleReport(at[1], at[2], n, r, kind)
  BY DEF ReportKeys
<1>2. k[1] = at[1] /\ k[2] = at[2]
  BY <1>1 DEF RoleReport
<1>3. Desired(at[1], at[2]) \in keys
  BY DEF Seeds
<1> QED BY <1>2, <1>3 DEF Grounded

\* A running node has put its seeds.
LEMMA RunnerHasSeeds ==
    ASSUME Sowing, NEW n \in Nodes, phase[n] = "run"
    PROVE  Seeds(config[n], n) \subseteq DOMAIN etcd
<1>1. PICK t : t = todo[n]
  OBVIOUS
<1>2. t = <<>> /\ \A k \in Seeds(config[n], n) : Has(k) \/ Pending(t, k)
  BY <1>1 DEF Sowing
<1>3. Len(t) = 0 /\ 1..0 = {}
  BY <1>2
<1>4. \A k : ~Pending(t, k)
  BY <1>3 DEF Pending
<1> QED BY <1>2, <1>4 DEF Has

\* One more key.
LEMMA GroundedPut ==
    ASSUME DesiredStays, GroundedInv, NEW key, NEW doc, etcd' = Put(key, doc),
           Grounded(key, DOMAIN etcd')
    PROVE  GroundedInv'
<1>1. DOMAIN etcd' = DOMAIN etcd \cup {key}
  BY DEF Put
<1>2. \A k \in DOMAIN etcd' : Grounded(k, DOMAIN etcd')
  BY <1>1, GroundedKept DEF GroundedInv
<1> QED BY <1>2 DEF GroundedInv

\* Every step keeps it.
LEMMA GroundedInvKept ==
    ASSUME JInv, GroundedInv, DesiredStays, BootStep
    PROVE  GroundedInv'
<1>1. CASE UNCHANGED etcd
  BY <1>1 DEF GroundedInv
<1>2. ASSUME NEW n \in Nodes, Ensure(n) PROVE GroundedInv'
  <2>1. PICK key \in Seeds(config[n], n) : UNCHANGED etcd \/ SeedPut(n, key)
    BY <1>2, EnsureSeeds DEF JInv
  <2>2. config[n] \in Configs(n)
    BY DEF JInv, IInv, Loaded
  <2>3. CASE SeedPut(n, key)
    <3>1. etcd' = Put(key, Seed(config[n], n, key))
      BY <2>3 DEF SeedPut
    <3>2. key \in DOMAIN etcd'
      BY <3>1 DEF Put
    <3>3. Grounded(key, DOMAIN etcd')
      BY <2>2, <3>2, SeedIsGrounded
    <3> QED BY <3>1, <3>3, GroundedPut
  <2> QED BY <1>1, <2>1, <2>3
<1>3. ASSUME NEW n \in Nodes, Report(n) PROVE GroundedInv'
  <2>1. phase[n] = "run" /\ config[n] \in Configs(n)
    BY <1>3 DEF Report, JInv, IInv, Loaded
  <2>2. PICK key \in {Registry(n), Session(n)} \cup ReportKeys(n, config[n]) :
          etcd' = Put(key, [status |-> "passive"])
    BY <1>3 DEF Report
  <2>3. Grounded(key, DOMAIN etcd)
    <3>1. CASE key \in {Registry(n), Session(n)}
      BY <3>1 DEF Registry, Session, Grounded, Reserved
    <3>2. CASE key \in ReportKeys(n, config[n])
      BY <2>1, <3>2, RunnerHasSeeds, ReportIsGrounded DEF JInv
    <3> QED BY <2>2, <3>1, <3>2
  <2> QED BY <2>2, <2>3, GroundedKept, GroundedPut
<1>4. ASSUME NEW n \in Nodes, Expire(n) PROVE GroundedInv'
  <2>1. DOMAIN etcd' \subseteq DOMAIN etcd
    BY <1>4 DEF Expire, Restrict
  <2>2. \A k \in DOMAIN etcd' : Grounded(k, DOMAIN etcd')
    BY <2>1, GroundedKept DEF GroundedInv
  <2> QED BY <2>2 DEF GroundedInv
<1>5. ASSUME NEW key \in DOMAIN etcd, NEW doc, etcd' = Put(key, doc) PROVE GroundedInv'
  BY <1>5, GroundedKept, GroundedPut DEF GroundedInv
<1>6. CASE Operate
  BY <1>5, <1>6 DEF Operate
<1>7. CASE Prioritize
  BY <1>5, <1>7 DEF Prioritize
<1>8. ASSUME NEW n \in Nodes, Start(n) \/ Connect(n) \/ Run(n) \/ Die(n) PROVE UNCHANGED etcd
  BY <1>8 DEF Start, Connect, Run, Die
<1> QED BY <1>1, <1>2, <1>3, <1>4, <1>6, <1>7, <1>8 DEF BootStep, bootVars

\* The events under way stay as they are while etcd changes.
LEMMA EventsKept ==
    ASSUME DesiredStays, WatchInv, UNCHANGED watch
    PROVE  WatchInv'
<1>1. PICK V : watch \in Seq(V) /\ \A event \in V : EventInv(event)
  BY DEF WatchInv
<1>2. ASSUME NEW event \in V PROVE EventInv(event)'
  BY <1>1, GroundedKept DEF EventInv
<1> QED BY <1>1, <1>2 DEF WatchInv

\* A change's events put known keys or delete leased ones.
LEMMA EventsJoin ==
    ASSUME KnownKeys, KnownKeys', OnlyLeasedGo, DesiredStays, GroundedInv, GroundedInv', WatchInv,
           watch' = watch \o EventsOfChange
    PROVE  WatchInv'
<1>1. PICK V : watch \in Seq(V) /\ \A event \in V : EventInv(event)
  BY DEF WatchInv
<1>2. PICK W : W = {EventOf(k) : k \in Changed}
  OBVIOUS
<1>3. EventsOfChange \in Seq(W)
  BY <1>2, ChangeEvents
<1>4. watch' \in Seq(V \cup W)
  <2>1. PICK old, batch : old = watch /\ batch = EventsOfChange
    OBVIOUS
  <2>2. old \in Seq(V \cup W) /\ batch \in Seq(V \cup W)
    BY <1>1, <1>3, <2>1
  <2>3. old \o batch \in Seq(V \cup W)
    BY <2>2
  <2> QED BY <2>1, <2>3
<1>5. ASSUME NEW event \in V PROVE EventInv(event)'
  BY <1>1, GroundedKept DEF EventInv
<1>6. ASSUME NEW event \in W PROVE EventInv(event)'
  <2>1. PICK k \in Changed : event = EventOf(k)
    BY <1>2
  <2>2. event.key = k /\ event.doc = IF k \in DOMAIN etcd' THEN {etcd'[k]} ELSE {}
    BY <2>1 DEF EventOf
  <2>3. k \in DOMAIN etcd \cup DOMAIN etcd'
    BY DEF Changed
  <2>4. k \in Keys
    BY <2>3 DEF KnownKeys
  <2>5. event.doc = {} => Leased(k)
    BY <2>2, <2>3 DEF OnlyLeasedGo, Leased
  <2>6. Grounded(k, DOMAIN etcd')
    BY <2>3, GroundedKept DEF GroundedInv
  <2> QED BY <2>2, <2>4, <2>5, <2>6 DEF EventInv
<1> QED BY <1>4, <1>5, <1>6 DEF WatchInv

\* An event takes one such tree to another.
LEMMA ApplyToTree ==
    ASSUME NEW tree, TreeInv(tree), Rooted(tree, DOMAIN etcd), NEW event, EventInv(event),
           NEW after, after = ApplyTo(tree, event)
    PROVE  TreeInv(after) /\ Rooted(after, DOMAIN etcd)
<1>1. PICK key, keys : key = event.key /\ keys = DOMAIN etcd
  OBVIOUS
<1>2. key \in Keys /\ Grounded(key, keys) /\ (event.doc = {} => Leased(key))
  BY <1>1 DEF EventInv
<1>3. CASE event.doc = {}
  <2>1. after = View!Delete(tree, key)
    BY <1>1, <1>3 DEF ApplyTo
  <2> QED BY <1>1, <1>2, <1>3, <2>1, DeleteTree, DeleteRoots
<1>4. CASE event.doc # {}
  <2>1. PICK doc : after = View!Insert(tree, key, doc)
    BY <1>1, <1>4 DEF ApplyTo
  <2> QED BY <1>1, <1>2, <2>1, InsertTree, InsertRoots
<1> QED BY <1>3, <1>4

\* The others' steps leave the tree and may add events.
LEMMA CommitKeepsView ==
    ASSUME JInv, JInv', OnlyLeasedGo, DesiredStays, GroundedInv', ViewInv, Commit
    PROVE  ViewInv'
<1>1. UNCHANGED store
  BY DEF Commit
<1>2. TreeInv(store.tree)' /\ Rooted(store.tree, DOMAIN etcd)'
  BY <1>1, RootedKept DEF ViewInv
<1>3. watch' = watch \/ watch' = watch \o EventsOfChange
  BY DEF Commit
<1>4. WatchInv'
  BY <1>3, EventsKept, EventsJoin DEF JInv, ViewInv
<1> QED BY <1>2, <1>4 DEF ViewInv

\* An event is applied.
LEMMA ApplyKeepsView ==
    ASSUME ViewInv, CopyTypes, Apply
    PROVE  ViewInv'
<1>1. /\ watch # <<>> /\ watch' = Tail(watch) /\ UNCHANGED etcd
      /\ store' = [store EXCEPT !.revision = Head(watch).revision, !.tree = ApplyTo(@, Head(watch))]
  BY DEF Apply, bootVars
<1>2. store'.tree = ApplyTo(store.tree, Head(watch))
  BY <1>1 DEF CopyTypes
<1>3. PICK V : watch \in Seq(V) /\ \A event \in V : EventInv(event)
  BY DEF ViewInv, WatchInv
<1>4. Head(watch) \in V /\ watch' \in Seq(V)
  BY <1>1, <1>3
<1>5. PICK tree, event, after : tree = store.tree /\ event = Head(watch) /\ after = store'.tree
  OBVIOUS
<1>6. TreeInv(after) /\ Rooted(after, DOMAIN etcd)
  BY <1>2, <1>3, <1>4, <1>5, ApplyToTree DEF ViewInv
<1>7. \A e \in V : EventInv(e)'
  BY <1>1, <1>3 DEF EventInv
<1>8. GroundedInv' /\ WatchInv'
  BY <1>1, <1>4, <1>7 DEF ViewInv, GroundedInv, WatchInv
<1> QED BY <1>1, <1>5, <1>6, <1>8 DEF ViewInv

\* Every step keeps the tree as it should be.
LEMMA ViewInvKept ==
    ASSUME JInv, JInv', CopyInv, CopyTypes, ViewInv, [Next]_vars
    PROVE  ViewInv'
<1>1. BootStep /\ OnlyLeasedGo
  BY NextBoots, EtcdSteps DEF CopyInv
<1>2. DesiredStays
  BY <1>1, DesiredKept
<1>3. GroundedInv'
  BY <1>1, <1>2, GroundedInvKept DEF ViewInv
<1>4. CASE OthersStep
  BY <1>1, <1>2, <1>3, <1>4, CommitKeepsView DEF OthersStep
<1>5. CASE LoadSnapshot
  <2>1. UNCHANGED <<etcd, watch>> /\ store'.tree = View!LoadSnapshot(etcd)
    BY <1>5 DEF LoadSnapshot, Connect
  <2>2. PICK items : items = etcd
    OBVIOUS
  <2>3. TreeInv(View!LoadSnapshot(items)) /\ Rooted(View!LoadSnapshot(items), DOMAIN items)
    BY <2>2, LoadTree DEF ViewInv, GroundedInv, JInv, KnownKeys
  <2>4. WatchInv'
    BY <1>2, <2>1, EventsKept DEF ViewInv
  <2> QED BY <1>3, <2>1, <2>2, <2>3, <2>4 DEF ViewInv
<1>6. CASE RunMe \/ StreamStep
  <2>1. UNCHANGED <<etcd, store, watch>>
    BY <1>6 DEF RunMe, Run, StreamStep, bootVars, storeVars
  <2>2. WatchInv'
    BY <1>2, <2>1, EventsKept DEF ViewInv
  <2> QED BY <1>3, <2>1, <2>2 DEF ViewInv
<1>7. CASE DieMe
  <2>1. UNCHANGED etcd /\ store' = EmptyStore /\ watch' = <<>>
    BY <1>7 DEF DieMe, Die
  <2>2. store'.tree = View!EmptyTree
    BY <2>1 DEF EmptyStore
  <2>3. WatchInv'
    <3>1. <<>> \in Seq({})
      OBVIOUS
    <3> QED BY <2>1, <3>1 DEF WatchInv
  <2> QED BY <1>3, <2>2, <2>3, EmptyTreeInv DEF ViewInv
<1>8. CASE Apply
  BY <1>8, ApplyKeepsView
<1> QED BY <1>4, <1>5, <1>6, <1>7, <1>8, NextSteps DEF CopyTypes

\* It is so at first.
LEMMA ViewInit == Init => ViewInv
<1> SUFFICES ASSUME Init PROVE ViewInv
  OBVIOUS
<1>1. DOMAIN etcd = {} /\ watch = <<>> /\ store = EmptyStore
  BY DEF Init, BootInit
<1>2. store.tree = View!EmptyTree
  BY <1>1 DEF EmptyStore
<1>3. WatchInv
  <2>1. <<>> \in Seq({})
    OBVIOUS
  <2> QED BY <1>1, <2>1 DEF WatchInv
<1>4. GroundedInv
  BY <1>1 DEF GroundedInv
<1> QED BY <1>2, <1>3, <1>4, EmptyTreeInv DEF ViewInv

\* What ViewShowsReports and QuietPageIsCurrent rest on.
THEOREM ViewInvariant == Spec => []ViewInv
<1>1. JInv /\ JInv' /\ CopyInv /\ CopyTypes /\ ViewInv /\ [Next]_vars => ViewInv'
  BY ViewInvKept
<1> QED BY <1>1, ViewInit, SeedingInvariant, CopyInvariant, PTL DEF Spec

(***************************************************************************)
(* What the view makes of the tree                                         *)
(***************************************************************************)
\* With a node the tree has those above it.
LEMMA NodesAbove ==
    ASSUME NEW tree, TreeInv(tree), NEW p \in DOMAIN tree, NEW q, IsNode(q), Agrees(q, p)
    PROVE  q \in DOMAIN tree
<1>1. IsNode(p)
  BY TreeNodes
<1> QED BY <1>1, AgreesIsPrefix DEF TreeInv

\* Longer paths, written out.
LEMMA LongerPaths ==
    /\ \A a, b : Append(<<a>>, b) = <<a, b>>
    /\ \A a, b, c : Append(<<a, b>>, c) = <<a, b, c>>
    /\ \A a, b, c, d : Append(<<a, b, c>>, d) = <<a, b, c, d>>
    /\ \A a, b, c, d : <<a, b>> \o <<c, d>> = <<a, b, c, d>>
    /\ \A a, b, c, d, e : <<a, b, c>> \o <<d, e>> = <<a, b, c, d, e>>
<1>1. ASSUME NEW a, NEW b PROVE Append(<<a>>, b) = <<a, b>>
  <2> DEFINE s == Append(<<a>>, b)
  <2>1. <<a>> \in Seq({a, b}) /\ b \in {a, b}
    OBVIOUS
  <2>2. s \in Seq({a, b}) /\ Len(s) = 2 /\ s[1] = a /\ s[2] = b
    BY <2>1
  <2> HIDE DEF s
  <2>3. s = <<s[1], s[2]>>
    BY <2>2
  <2> QED BY <2>2, <2>3 DEF s
<1>2. ASSUME NEW a, NEW b, NEW c PROVE Append(<<a, b>>, c) = <<a, b, c>>
  <2> DEFINE s == Append(<<a, b>>, c)
  <2>1. <<a, b>> \in Seq({a, b, c}) /\ c \in {a, b, c}
    OBVIOUS
  <2>2. s \in Seq({a, b, c}) /\ Len(s) = 3 /\ s[1] = a /\ s[2] = b /\ s[3] = c
    BY <2>1
  <2> HIDE DEF s
  <2>3. s = <<s[1], s[2], s[3]>>
    BY <2>2
  <2> QED BY <2>2, <2>3 DEF s
<1>3. ASSUME NEW a, NEW b, NEW c, NEW d PROVE Append(<<a, b, c>>, d) = <<a, b, c, d>>
  <2> DEFINE s == Append(<<a, b, c>>, d)
  <2>1. <<a, b, c>> \in Seq({a, b, c, d}) /\ d \in {a, b, c, d}
    OBVIOUS
  <2>2. s \in Seq({a, b, c, d}) /\ Len(s) = 4 /\ s[1] = a /\ s[2] = b /\ s[3] = c /\ s[4] = d
    BY <2>1
  <2> HIDE DEF s
  <2>3. s = <<s[1], s[2], s[3], s[4]>>
    BY <2>2
  <2> QED BY <2>2, <2>3 DEF s
<1>4. ASSUME NEW a, NEW b, NEW c, NEW d PROVE <<a, b>> \o <<c, d>> = <<a, b, c, d>>
  <2> DEFINE s == <<a, b>> \o <<c, d>>
  <2>1. <<a, b>> \in Seq({a, b, c, d}) /\ <<c, d>> \in Seq({a, b, c, d})
    OBVIOUS
  <2>2. s \in Seq({a, b, c, d}) /\ Len(s) = 4 /\ s[1] = a /\ s[2] = b /\ s[3] = c /\ s[4] = d
    BY <2>1
  <2> HIDE DEF s
  <2>3. s = <<s[1], s[2], s[3], s[4]>>
    BY <2>2
  <2> QED BY <2>2, <2>3 DEF s
<1>5. ASSUME NEW a, NEW b, NEW c, NEW d, NEW e PROVE <<a, b, c>> \o <<d, e>> = <<a, b, c, d, e>>
  <2> DEFINE s == <<a, b, c>> \o <<d, e>>
  <2>1. <<a, b, c>> \in Seq({a, b, c, d, e}) /\ <<d, e>> \in Seq({a, b, c, d, e})
    OBVIOUS
  <2>2. s \in Seq({a, b, c, d, e}) /\ Len(s) = 5 /\ s[1] = a /\ s[2] = b /\ s[3] = c /\ s[4] = d /\ s[5] = e
    BY <2>1
  <2> HIDE DEF s
  <2>3. s = <<s[1], s[2], s[3], s[4], s[5]>>
    BY <2>2
  <2> QED BY <2>2, <2>3 DEF s
<1> QED BY <1>1, <1>2, <1>3, <1>4, <1>5

\* ListChildren
LEMMA Children ==
    ASSUME NEW tree, TreeInv(tree), NEW V, NEW key \in Seq(V), NEW x
    PROVE  x \in View!ListChildren(tree, key) <=> Append(key, x) \in DOMAIN tree
<1>1. ASSUME x \in View!ListChildren(tree, key) PROVE Append(key, x) \in DOMAIN tree
  <2>1. PICK p \in DOMAIN tree : p # <<>> /\ View!Front(p) = key /\ View!Last(p) = x
    BY <1>1 DEF View!ListChildren
  <2>2. PICK W : p \in Seq(W)
    BY TreeNodes, NodeIsSeq
  <2>3. Len(p) \in Nat \ {0}
    BY <2>1, <2>2
  <2>4. key = SubSeq(p, 1, Len(p) - 1) /\ x = p[Len(p)]
    BY <2>1 DEF View!Front, View!Last
  <2>5. Append(SubSeq(p, 1, Len(p) - 1), p[Len(p)]) = p
    BY <2>2, <2>3
  <2> QED BY <2>4, <2>5
<1>2. ASSUME Append(key, x) \in DOMAIN tree PROVE x \in View!ListChildren(tree, key)
  <2>1. PICK p \in DOMAIN tree : p = Append(key, x)
    BY <1>2
  <2>2. key \in Seq(V \cup {x}) /\ Len(key) \in Nat
    OBVIOUS
  <2>3. p \in Seq(V \cup {x}) /\ Len(p) = Len(key) + 1 /\ p[Len(p)] = x
    BY <2>1, <2>2
  <2>4. SubSeq(p, 1, Len(p) - 1) = key
    BY <2>1, <2>2, <2>3
  <2>5. p # <<>>
    BY <2>2, <2>3
  <2> QED BY <2>3, <2>4, <2>5 DEF View!ListChildren, View!Front, View!Last
<1> QED BY <1>1, <1>2

\* The same of the paths that the view asks for.
LEMMA ChildrenOf ==
    ASSUME NEW tree, TreeInv(tree)
    PROVE  /\ \A x : x \in View!ListChildren(tree, <<>>) <=> <<x>> \in DOMAIN tree
           /\ \A a, x : x \in View!ListChildren(tree, <<a>>) <=> <<a, x>> \in DOMAIN tree
           /\ \A a, b, x : x \in View!ListChildren(tree, <<a, b>>) <=> <<a, b, x>> \in DOMAIN tree
           /\ \A a, b, c, x :
                x \in View!ListChildren(tree, <<a, b, c>>) <=> <<a, b, c, x>> \in DOMAIN tree
<1>1. ASSUME NEW x PROVE x \in View!ListChildren(tree, <<>>) <=> <<x>> \in DOMAIN tree
  <2>1. <<>> \in Seq({x}) /\ Append(<<>>, x) = <<x>>
    OBVIOUS
  <2> QED BY <2>1, Children
<1>2. ASSUME NEW a, NEW x PROVE x \in View!ListChildren(tree, <<a>>) <=> <<a, x>> \in DOMAIN tree
  <2>1. <<a>> \in Seq({a})
    OBVIOUS
  <2>2. x \in View!ListChildren(tree, <<a>>) <=> Append(<<a>>, x) \in DOMAIN tree
    BY <2>1, Children
  <2>3. Append(<<a>>, x) = <<a, x>>
    BY LongerPaths
  <2> QED BY <2>2, <2>3, Zenon
<1>3. ASSUME NEW a, NEW b, NEW x
      PROVE  x \in View!ListChildren(tree, <<a, b>>) <=> <<a, b, x>> \in DOMAIN tree
  <2>1. <<a, b>> \in Seq({a, b})
    OBVIOUS
  <2>2. x \in View!ListChildren(tree, <<a, b>>) <=> Append(<<a, b>>, x) \in DOMAIN tree
    BY <2>1, Children
  <2>3. Append(<<a, b>>, x) = <<a, b, x>>
    BY LongerPaths
  <2> QED BY <2>2, <2>3, Zenon
<1>4. ASSUME NEW a, NEW b, NEW c, NEW x
      PROVE  x \in View!ListChildren(tree, <<a, b, c>>) <=> <<a, b, c, x>> \in DOMAIN tree
  <2>1. <<a, b, c>> \in Seq({a, b, c})
    OBVIOUS
  <2>2. x \in View!ListChildren(tree, <<a, b, c>>) <=> Append(<<a, b, c>>, x) \in DOMAIN tree
    BY <2>1, Children
  <2>3. Append(<<a, b, c>>, x) = <<a, b, c, x>>
    BY LongerPaths
  <2> QED BY <2>2, <2>3, Zenon
<1> QED BY <1>1, <1>2, <1>3, <1>4

\* The names of the groups in the tree are none of the layout's.
LEMMA GroupNames ==
    ASSUME NEW tree, TreeInv(tree), NEW g
    PROVE  /\ <<g>> \in DOMAIN tree /\ g \notin View!RootSystemKeys => g \notin Reserved
           /\ g \notin Reserved => g \notin View!RootSystemKeys
           /\ \A m : g \notin Reserved /\ <<g, m>> \in DOMAIN tree => m \notin Reserved
<1>1. ASSUME <<g>> \in DOMAIN tree, g \notin View!RootSystemKeys PROVE g \notin Reserved
  <2>1. PICK k \in Keys : Agrees(<<g>>, k)
    BY <1>1, TreeNodes
  <2>2. k[1] = g
    BY <2>1 DEF Agrees
  <2> QED BY <1>1, <2>2, KeyShapes DEF View!RootSystemKeys, IsReport
<1>2. g \notin Reserved => g \notin View!RootSystemKeys
  BY DEF View!RootSystemKeys, Reserved
<1>3. ASSUME NEW m, g \notin Reserved, <<g, m>> \in DOMAIN tree PROVE m \notin Reserved
  <2>1. PICK k \in Keys : Agrees(<<g, m>>, k)
    BY <1>3, TreeNodes
  <2>2. k[1] = g /\ k[2] = m
    BY <2>1 DEF Agrees
  <2>3. g \notin {"session", "registry", "config"}
    BY <1>3 DEF Reserved
  <2> QED BY <2>2, <2>3, KeyShapes DEF IsReport
<1> QED BY <1>1, <1>2, <1>3

\* The paths that end with a kind in the place of a report are reports.
LEMMA ReportPath ==
    ASSUME NEW k \in Keys, NEW p \in View!Prefixes(k), p[1] \notin Reserved,
           \/ Len(p) = 4 /\ p[4] \in Kinds
           \/ Len(p) = 5 /\ p[5] \in Kinds
    PROVE  p = k /\ IsReport(k)
<1>1. IsPath(k) /\ IsNode(k)
  BY KeyPaths DEF IsNode
<1>2. IsNode(p) /\ Agrees(p, k)
  BY <1>1, PrefixIsNode
<1>3. Len(p) <= Len(k) /\ \A i \in 1..Len(p) : p[i] = k[i]
  BY <1>2 DEF Agrees
<1>4. k[1] \notin Reserved /\ k[4] = p[4]
  BY <1>3
<1>5. k # Desired(k[1], k[2])
  BY <1>3 DEF Desired
<1>6. IsReport(k)
  <2>1. k[1] \notin {"session", "registry", "config"}
    BY <1>4 DEF Reserved
  <2> QED BY <1>5, <2>1, KeyShapes
<1>7. Len(p) = Len(k)
  <2>1. Len(k) = 4 \/ Len(k) = 5
    BY <1>6 DEF IsReport
  <2>2. CASE Len(p) = 4 /\ p[4] \in Kinds
    <3>1. k[4] \in Reserved
      BY <1>4, <2>2 DEF Kinds, Reserved
    <3> QED BY <1>6, <2>2, <3>1 DEF IsReport
  <2>3. CASE Len(p) = 5 /\ p[5] \in Kinds
    BY <1>3, <2>1, <2>3
  <2> QED BY <2>2, <2>3
<1>8. IsPath(p)
  BY <1>2, <1>7, <1>6, NodeForms DEF IsReport, IsPath
<1> QED BY <1>1, <1>3, <1>6, <1>7, <1>8, SamePath

\* A report's node goes with its document, whatever is left above it.
LEMMA ReportNodes ==
    ASSUME NEW tree, TreeInv(tree), NEW p, p[1] \notin Reserved,
           \/ Len(p) = 4 /\ p[4] \in Kinds
           \/ Len(p) = 5 /\ p[5] \in Kinds
    PROVE  /\ p \in DOMAIN tree <=> View!Get(tree, p) # {}
           /\ p \in DOMAIN tree => p \in Keys /\ IsReport(p)
<1>1. ASSUME p \in DOMAIN tree PROVE p \in Keys /\ IsReport(p) /\ View!Get(tree, p) # {}
  <2>1. \A k \in Keys : p \in View!Prefixes(k) => p = k /\ IsReport(k)
    BY ReportPath
  <2>2. p \in Keys /\ \E doc : tree[p] = {doc}
    <3>1. \/ p \in Keys /\ \E doc : tree[p] = {doc}
          \/ \E k \in Keys : p \in View!Prefixes(k) /\ p # k
      BY <1>1 DEF TreeInv
    <3> QED BY <2>1, <3>1
  <2>3. p \in View!Prefixes(p)
    BY <2>2, KeyPaths, PathPrefix
  <2> QED BY <1>1, <2>1, <2>2, <2>3 DEF View!Get
<1> QED BY <1>1 DEF View!Get, View!NoValue

\* Where the view looks for the roles of a node of a management group.
Container(g, m, n) == IF m = n THEN <<g, m>> ELSE <<g, m, n>>

\* A role of a node has reported.
Shows(tree, g, m, n, r) ==
    \E kind \in Kinds : View!Get(tree, RoleReport(g, m, n, r, kind)) # {}

\* The report of a role in it.
LEMMA ReportsOf ==
    ASSUME NEW tree, TreeInv(tree), NEW g, g \notin Reserved, NEW m, NEW n, NEW r, NEW kind \in Kinds
    PROVE  /\ Container(g, m, n) \o <<r, kind>> = RoleReport(g, m, n, r, kind)
           /\ RoleReport(g, m, n, r, kind) \in DOMAIN tree <=>
                View!Get(tree, RoleReport(g, m, n, r, kind)) # {}
           /\ RoleReport(g, m, n, r, kind) \in DOMAIN tree =>
                {m, n, r} \cap Reserved = {} /\ Append(Container(g, m, n), r) \in DOMAIN tree
<1>0. PICK q : q = Container(g, m, n) \o <<r, kind>>
  OBVIOUS
<1>1. CASE m = n
  <2>1. q = <<g, m, r, kind>> /\ Append(Container(g, m, n), r) = <<g, m, r>>
    BY <1>0, <1>1, LongerPaths DEF Container
  <2>2. q = RoleReport(g, m, n, r, kind)
    BY <1>1, <2>1 DEF RoleReport
  <2>3. Len(q) = 4 /\ q[1] = g /\ q[2] = m /\ q[3] = r /\ q[4] = kind
    BY <2>1
  <2>4. /\ q \in DOMAIN tree <=> View!Get(tree, q) # {}
        /\ q \in DOMAIN tree => q \in Keys /\ IsReport(q)
    BY <2>3, ReportNodes
  <2>5. IsNode(<<g, m, r>>) /\ Agrees(<<g, m, r>>, q)
    BY <2>1 DEF IsNode, IsPath, Agrees
  <2>6. IsReport(q) => {m, n, r} \cap Reserved = {}
    BY <1>1, <2>3 DEF IsReport
  <2> QED BY <1>0, <2>1, <2>2, <2>4, <2>5, <2>6, NodesAbove
<1>2. CASE m # n
  <2>1. q = <<g, m, n, r, kind>> /\ Append(Container(g, m, n), r) = <<g, m, n, r>>
    BY <1>0, <1>2, LongerPaths DEF Container
  <2>2. q = RoleReport(g, m, n, r, kind)
    BY <1>2, <2>1 DEF RoleReport
  <2>3. Len(q) = 5 /\ q[1] = g /\ q[2] = m /\ q[3] = n /\ q[4] = r /\ q[5] = kind
    BY <2>1
  <2>4. /\ q \in DOMAIN tree <=> View!Get(tree, q) # {}
        /\ q \in DOMAIN tree => q \in Keys /\ IsReport(q)
    BY <2>3, ReportNodes
  <2>5. IsNode(<<g, m, n, r>>) /\ Agrees(<<g, m, n, r>>, q)
    BY <2>1 DEF IsNode, IsPath, Agrees
  <2>6. IsReport(q) => {m, n, r} \cap Reserved = {}
    BY <2>3 DEF IsReport
  <2> QED BY <1>0, <2>1, <2>2, <2>4, <2>5, <2>6, NodesAbove
<1> QED BY <1>1, <1>2

\* looksLikeRoleContainer: nodes are told by their reports.
LEMMA RoleContainers ==
    ASSUME NEW tree, TreeInv(tree), NEW g, g \notin Reserved, NEW m, NEW n
    PROVE  View!RoleContainer(tree, Container(g, m, n)) <=> \E r : Shows(tree, g, m, n, r)
<1>1. PICK key : key = Container(g, m, n)
  OBVIOUS
<1>2. key \in Seq({g, m, n})
  <2>1. <<g, m>> \in Seq({g, m, n}) /\ <<g, m, n>> \in Seq({g, m, n})
    OBVIOUS
  <2> QED BY <1>1, <2>1 DEF Container
<1>3. ASSUME NEW r, NEW kind \in Kinds
      PROVE  /\ key \o <<r, kind>> = RoleReport(g, m, n, r, kind)
             /\ key \o <<r, kind>> \in DOMAIN tree <=> View!Get(tree, RoleReport(g, m, n, r, kind)) # {}
             /\ key \o <<r, kind>> \in DOMAIN tree =>
                    r \in View!ListChildren(tree, key) \ View!ManagementSystemKeys
  <2>1. Append(key, r) \in DOMAIN tree => r \in View!ListChildren(tree, key)
    BY <1>2, Children
  <2>2. r \notin Reserved => r \notin View!ManagementSystemKeys
    BY DEF Reserved, View!ManagementSystemKeys
  <2>3. /\ Container(g, m, n) \o <<r, kind>> = RoleReport(g, m, n, r, kind)
        /\ RoleReport(g, m, n, r, kind) \in DOMAIN tree <=>
                View!Get(tree, RoleReport(g, m, n, r, kind)) # {}
        /\ RoleReport(g, m, n, r, kind) \in DOMAIN tree =>
                {m, n, r} \cap Reserved = {} /\ Append(Container(g, m, n), r) \in DOMAIN tree
    BY ReportsOf
  <2> QED BY <1>1, <2>1, <2>2, <2>3
<1>4. View!RoleContainer(tree, key) <=>
        \E r \in View!ListChildren(tree, key) \ View!ManagementSystemKeys :
            \E kind \in Kinds : key \o <<r, kind>> \in DOMAIN tree
  BY DEF View!RoleContainer, View!Has, Kinds
<1>5. View!RoleContainer(tree, key) => \E r : Shows(tree, g, m, n, r)
  BY <1>3, <1>4 DEF Shows
<1>6. (\E r : Shows(tree, g, m, n, r)) => View!RoleContainer(tree, key)
  BY <1>3, <1>4 DEF Shows
<1> QED BY <1>1, <1>5, <1>6

\* A node named like its group has no level of its own.
LEMMA NoDoubleLevel ==
    ASSUME NEW tree, TreeInv(tree), NEW g, g \notin Reserved, NEW m
    PROVE  ~View!RoleContainer(tree, <<g, m, m>>)
<1>1. ASSUME NEW r, NEW kind \in Kinds, <<g, m, m>> \o <<r, kind>> \in DOMAIN tree PROVE FALSE
  <2>1. PICK q : q = <<g, m, m, r, kind>>
    OBVIOUS
  <2>2. q \in DOMAIN tree
    <3>1. <<g, m, m>> \o <<r, kind>> = <<g, m, m, r, kind>>
      BY LongerPaths
    <3> QED BY <1>1, <2>1, <3>1, Zenon
  <2>3. Len(q) = 5 /\ q[1] = g /\ q[2] = m /\ q[3] = m /\ q[5] = kind
    BY <2>1
  <2>4. IsReport(q)
    BY <2>2, <2>3, ReportNodes
  <2> QED BY <2>3, <2>4 DEF IsReport
<1> QED BY <1>1 DEF View!RoleContainer, View!Has, Kinds

\* buildManagementGroup
LEMMA NodesShown ==
    ASSUME NEW tree, TreeInv(tree), NEW g, g \notin Reserved, NEW m,
           NEW nodes, nodes = View!ManagementGroupView(tree, g, m).nodes, NEW n
    PROVE  /\ n \in DOMAIN nodes <=> \E r : Shows(tree, g, m, n, r)
           /\ n \in DOMAIN nodes => nodes[n] = View!NodeView(tree, Container(g, m, n), n)
<1> DEFINE below == {x \in View!ListChildren(tree, <<g, m>>) \ View!ManagementSystemKeys :
                        View!RoleContainer(tree, Append(<<g, m>>, x))}
           own == IF View!RoleContainer(tree, <<g, m>>) THEN {m} ELSE {}
<1>1. nodes = [x \in below \cup own |->
                  View!NodeView(tree, IF x \in own THEN <<g, m>> ELSE Append(<<g, m>>, x), x)]
  BY DEF View!ManagementGroupView, View!ManagementGroup
<1>2. Append(<<g, m>>, n) = <<g, m, n>>
  BY LongerPaths
<1>3. n \in own <=> n = m /\ \E r : Shows(tree, g, m, n, r)
  <2>1. Container(g, m, m) = <<g, m>>
    BY DEF Container
  <2> QED BY <2>1, RoleContainers
<1>4. n \in below <=> n # m /\ \E r : Shows(tree, g, m, n, r)
  <2>1. n \in below => n # m /\ Container(g, m, n) = <<g, m, n>>
    BY <1>2, NoDoubleLevel DEF Container
  <2>2. n \in below => \E r : Shows(tree, g, m, n, r)
    BY <1>2, <2>1, RoleContainers
  <2>3. ASSUME n # m, NEW r, Shows(tree, g, m, n, r) PROVE n \in below
    <3>1. Container(g, m, n) = <<g, m, n>>
      BY <2>3 DEF Container
    <3>2. View!RoleContainer(tree, <<g, m, n>>)
      BY <2>3, <3>1, RoleContainers
    <3>3. PICK kind \in Kinds : View!Get(tree, RoleReport(g, m, n, r, kind)) # {}
      BY <2>3 DEF Shows
    <3>4. {m, n, r} \cap Reserved = {} /\ Append(<<g, m, n>>, r) \in DOMAIN tree
      BY <3>1, <3>3, ReportsOf
    <3>5. <<g, m, n>> \in DOMAIN tree
      <4>1. Append(<<g, m, n>>, r) = <<g, m, n, r>>
        BY LongerPaths
      <4>2. IsNode(<<g, m, n>>) /\ Agrees(<<g, m, n>>, <<g, m, n, r>>)
        BY DEF IsNode, IsPath, Agrees
      <4> QED BY <3>4, <4>1, <4>2, NodesAbove
    <3>6. n \in View!ListChildren(tree, <<g, m>>)
      BY <3>5, ChildrenOf
    <3>7. n \notin View!ManagementSystemKeys
      BY <3>4 DEF Reserved, View!ManagementSystemKeys
    <3> QED BY <1>2, <3>2, <3>6, <3>7
  <2> QED BY <2>1, <2>2, <2>3
<1>5. n \in below \cup own <=> \E r : Shows(tree, g, m, n, r)
  <2> HIDE DEF below, own
  <2> QED BY <1>3, <1>4
<1>6. (IF n \in own THEN <<g, m>> ELSE Append(<<g, m>>, n)) = Container(g, m, n)
        \/ n \notin below \cup own
  <2> HIDE DEF below, own
  <2> QED BY <1>2, <1>3, <1>4 DEF Container
<1> HIDE DEF below, own
<1> QED BY <1>1, <1>5, <1>6

\* buildNode
LEMMA RolesShown ==
    ASSUME NEW tree, TreeInv(tree), NEW g, g \notin Reserved, NEW m, NEW n,
           NEW roles, roles = View!NodeView(tree, Container(g, m, n), n).roles, NEW r
    PROVE  /\ r \in DOMAIN roles <=> Shows(tree, g, m, n, r)
           /\ r \in DOMAIN roles =>
                /\ roles[r].name = View!NameOrID(tree, View!ConfigRole(r))
                /\ roles[r].actual = View!Get(tree, RoleReport(g, m, n, r, "actual"))
                /\ roles[r].health = View!Get(tree, RoleReport(g, m, n, r, "health"))
<1>1. PICK key : key = Container(g, m, n)
  OBVIOUS
<1>2. key \in Seq({g, m, n})
  <2>1. <<g, m>> \in Seq({g, m, n}) /\ <<g, m, n>> \in Seq({g, m, n})
    OBVIOUS
  <2> QED BY <1>1, <2>1 DEF Container
<1> DEFINE shown == {x \in View!ListChildren(tree, key) \ View!ManagementSystemKeys :
                        \/ View!Get(tree, key \o <<x, "actual">>) # {}
                        \/ View!Get(tree, key \o <<x, "health">>) # {}}
<1>3. roles = [x \in shown |-> [name   |-> View!NameOrID(tree, View!ConfigRole(x)),
                                actual |-> View!Get(tree, key \o <<x, "actual">>),
                                health |-> View!Get(tree, key \o <<x, "health">>)]]
  BY <1>1 DEF View!NodeView, View!NoValue
<1>4. ASSUME NEW kind \in Kinds
      PROVE  /\ key \o <<r, kind>> = RoleReport(g, m, n, r, kind)
             /\ View!Get(tree, RoleReport(g, m, n, r, kind)) # {} =>
                    r \in View!ListChildren(tree, key) \ View!ManagementSystemKeys
  <2>1. Append(key, r) \in DOMAIN tree => r \in View!ListChildren(tree, key)
    BY <1>2, Children
  <2>2. r \notin Reserved => r \notin View!ManagementSystemKeys
    BY DEF Reserved, View!ManagementSystemKeys
  <2>3. /\ Container(g, m, n) \o <<r, kind>> = RoleReport(g, m, n, r, kind)
        /\ RoleReport(g, m, n, r, kind) \in DOMAIN tree <=>
                View!Get(tree, RoleReport(g, m, n, r, kind)) # {}
        /\ RoleReport(g, m, n, r, kind) \in DOMAIN tree =>
                {m, n, r} \cap Reserved = {} /\ Append(Container(g, m, n), r) \in DOMAIN tree
    BY ReportsOf
  <2> QED BY <1>1, <2>1, <2>2, <2>3
<1>5. key \o <<r, "actual">> = RoleReport(g, m, n, r, "actual")
  BY <1>4 DEF Kinds
<1>6. key \o <<r, "health">> = RoleReport(g, m, n, r, "health")
  BY <1>4 DEF Kinds
<1>7. r \in shown <=> Shows(tree, g, m, n, r)
  BY <1>4, <1>5, <1>6 DEF Shows, Kinds
<1> HIDE DEF shown
<1>8. r \in DOMAIN roles <=> r \in shown
  BY <1>3
<1>9. r \in shown =>
        /\ roles[r].name = View!NameOrID(tree, View!ConfigRole(r))
        /\ roles[r].actual = View!Get(tree, key \o <<r, "actual">>)
        /\ roles[r].health = View!Get(tree, key \o <<r, "health">>)
  BY <1>3
<1> QED BY <1>5, <1>6, <1>7, <1>8, <1>9

\* A management group of the view, and the nodes that it shows.
ViewNodes(groups, g, m) == groups[g].management_groups[m].nodes

Places(groups) ==
    UNION {UNION {{<<g, m, n>> : n \in DOMAIN ViewNodes(groups, g, m)} :
                    m \in DOMAIN groups[g].management_groups} : g \in DOMAIN groups}

\* The reports that it shows of a node.
ShownReports(groups, g, m, n) ==
    LET roles == ViewNodes(groups, g, m)[n].roles
    IN  {<<RoleReport(g, m, n, r, "actual"), roles[r].actual>> : r \in DOMAIN roles}
        \cup {<<RoleReport(g, m, n, r, "health"), roles[r].health>> : r \in DOMAIN roles}

\* What it shows of a management group.
SubgroupShown(tree, groups, g, m) ==
    /\ m \in DOMAIN groups[g].management_groups <=> <<g, m>> \in DOMAIN tree
    /\ m \in DOMAIN groups[g].management_groups =>
        ViewNodes(groups, g, m) = View!ManagementGroupView(tree, g, m).nodes

\* buildClusterGroup
LEMMA GroupsShown ==
    ASSUME NEW tree, TreeInv(tree), NEW ready, NEW number,
           NEW groups, groups = View!BuildStateView(ready, number, tree).groups, NEW g
    PROVE  /\ g \in DOMAIN groups <=> g \notin Reserved /\ <<g>> \in DOMAIN tree
           /\ g \in DOMAIN groups => \A m : SubgroupShown(tree, groups, g, m)
<1>1. groups = [x \in View!ListChildren(tree, <<>>) \ View!RootSystemKeys |-> View!ClusterGroupView(tree, x)]
  BY DEF View!BuildStateView
<1>2. g \in DOMAIN groups <=> g \notin Reserved /\ <<g>> \in DOMAIN tree
  <2>1. g \in View!ListChildren(tree, <<>>) <=> <<g>> \in DOMAIN tree
    BY ChildrenOf
  <2>2. /\ <<g>> \in DOMAIN tree /\ g \notin View!RootSystemKeys => g \notin Reserved
        /\ g \notin Reserved => g \notin View!RootSystemKeys
    BY GroupNames
  <2> QED BY <1>1, <2>1, <2>2
<1>3. ASSUME g \in DOMAIN groups, NEW m
      PROVE  SubgroupShown(tree, groups, g, m)
  <2>1. groups[g].management_groups =
            [x \in View!ListChildren(tree, <<g>>) \ View!ManagementSystemKeys |->
                View!ManagementGroupView(tree, g, x)]
    BY <1>1, <1>3 DEF View!ClusterGroupView
  <2>2. m \in View!ListChildren(tree, <<g>>) <=> <<g, m>> \in DOMAIN tree
    BY ChildrenOf
  <2>3. <<g, m>> \in DOMAIN tree => m \notin Reserved
    BY <1>2, <1>3, GroupNames
  <2>4. m \notin Reserved => m \notin View!ManagementSystemKeys
    BY DEF Reserved, View!ManagementSystemKeys
  <2>5. m \in DOMAIN groups[g].management_groups <=> <<g, m>> \in DOMAIN tree
    BY <2>1, <2>2, <2>3, <2>4
  <2>6. m \in DOMAIN groups[g].management_groups =>
            groups[g].management_groups[m] = View!ManagementGroupView(tree, g, m)
    BY <2>1
  <2> QED BY <2>5, <2>6 DEF SubgroupShown, ViewNodes
<1> QED BY <1>2, <1>3

\* A node is shown where one of its roles has reported.
LEMMA PlacesShown ==
    ASSUME NEW tree, TreeInv(tree), NEW ready, NEW number,
           NEW groups, groups = View!BuildStateView(ready, number, tree).groups
    PROVE  /\ \A p \in Places(groups) : p = <<p[1], p[2], p[3]>>
           /\ \A g, m, n :
                /\ <<g, m, n>> \in Places(groups) <=> g \notin Reserved /\ \E r : Shows(tree, g, m, n, r)
                /\ <<g, m, n>> \in Places(groups) =>
                    ViewNodes(groups, g, m)[n] = View!NodeView(tree, Container(g, m, n), n)
<1>1. \A p \in Places(groups) : p = <<p[1], p[2], p[3]>>
  BY DEF Places
<1>2. ASSUME NEW g, NEW m, NEW n
      PROVE  <<g, m, n>> \in Places(groups) <=>
                /\ g \in DOMAIN groups
                /\ m \in DOMAIN groups[g].management_groups
                /\ n \in DOMAIN ViewNodes(groups, g, m)
  BY DEF Places
<1>3. ASSUME NEW g, NEW m, NEW n, <<g, m, n>> \in Places(groups)
      PROVE  /\ g \notin Reserved /\ \E r : Shows(tree, g, m, n, r)
             /\ ViewNodes(groups, g, m)[n] = View!NodeView(tree, Container(g, m, n), n)
  <2>1. /\ g \in DOMAIN groups
        /\ m \in DOMAIN groups[g].management_groups
        /\ n \in DOMAIN ViewNodes(groups, g, m)
    BY <1>2, <1>3
  <2>2. g \notin Reserved
    BY <2>1, GroupsShown
  <2>3. ViewNodes(groups, g, m) = View!ManagementGroupView(tree, g, m).nodes
    <3>1. \A x : SubgroupShown(tree, groups, g, x)
      BY <2>1, GroupsShown
    <3>2. SubgroupShown(tree, groups, g, m)
      BY <3>1
    <3> QED BY <2>1, <3>2 DEF SubgroupShown
  <2> QED BY <2>1, <2>2, <2>3, NodesShown
<1>4. ASSUME NEW g, NEW m, NEW n, g \notin Reserved, NEW r, Shows(tree, g, m, n, r)
      PROVE  <<g, m, n>> \in Places(groups)
  <2>1. PICK kind \in Kinds : View!Get(tree, RoleReport(g, m, n, r, kind)) # {}
    BY <1>4 DEF Shows
  <2>2. RoleReport(g, m, n, r, kind) \in DOMAIN tree
    BY <2>1 DEF View!Get, View!NoValue
  <2>3. /\ IsNode(<<g>>) /\ Agrees(<<g>>, RoleReport(g, m, n, r, kind))
        /\ IsNode(<<g, m>>) /\ Agrees(<<g, m>>, RoleReport(g, m, n, r, kind))
    <3>1. CASE m = n
      BY <3>1 DEF IsNode, IsPath, Agrees, RoleReport
    <3>2. CASE m # n
      BY <3>2 DEF IsNode, IsPath, Agrees, RoleReport
    <3> QED BY <3>1, <3>2
  <2>4. <<g>> \in DOMAIN tree /\ <<g, m>> \in DOMAIN tree
    BY <2>2, <2>3, NodesAbove
  <2>5. /\ g \in DOMAIN groups
        /\ m \in DOMAIN groups[g].management_groups
        /\ ViewNodes(groups, g, m) = View!ManagementGroupView(tree, g, m).nodes
    <3>1. g \in DOMAIN groups
      BY <1>4, <2>4, GroupsShown
    <3>2. \A x : SubgroupShown(tree, groups, g, x)
      BY <3>1, GroupsShown
    <3>3. SubgroupShown(tree, groups, g, m)
      BY <3>2
    <3> QED BY <2>4, <3>1, <3>3 DEF SubgroupShown
  <2>6. n \in DOMAIN ViewNodes(groups, g, m)
    BY <1>4, <2>5, NodesShown
  <2> QED BY <1>2, <2>5, <2>6
<1> QED BY <1>1, <1>3, <1>4

\* Items is what Get finds.
LEMMA ItemsOf ==
    ASSUME NEW tree, TreeInv(tree), NEW items, items = View!Items(tree), NEW k
    PROVE  /\ k \in DOMAIN items <=> View!Get(tree, k) # {}
           /\ k \in DOMAIN items => k \in Keys /\ View!Get(tree, k) = {items[k]}
<1>1. /\ DOMAIN items = {p \in DOMAIN tree : tree[p] # {}}
      /\ \A p \in DOMAIN items : items[p] = CHOOSE doc \in tree[p] : TRUE
  BY DEF View!Items, View!NoValue
<1>2. k \in DOMAIN items <=> View!Get(tree, k) # {}
  BY <1>1 DEF View!Get, View!NoValue
<1>3. ASSUME k \in DOMAIN items PROVE k \in Keys /\ View!Get(tree, k) = {items[k]}
  <2>1. k \in Keys /\ \E doc : tree[k] = {doc}
    BY <1>1, <1>3 DEF TreeInv
  <2>2. PICK doc : tree[k] = {doc}
    BY <2>1
  <2>3. items[k] = doc
    BY <1>1, <1>3, <2>2
  <2> QED BY <1>1, <1>3, <2>1, <2>2, <2>3 DEF View!Get
<1> QED BY <1>2, <1>3

\* The keys that end like a report's are reports'.
LEMMA ReportEnds ==
    ASSUME NEW k \in Keys, Last(k) \in Kinds
    PROVE  k[1] \notin Reserved /\ \E m, n, r : \E kind \in Kinds : k = RoleReport(k[1], m, n, r, kind)
<1>1. IsPath(k)
  BY KeyPaths
<1>2. k # Desired(k[1], k[2])
  <2>1. Last(Desired(k[1], k[2])) = "desired"
    BY LastOfThree DEF Desired
  <2> QED BY <2>1 DEF Kinds
<1>3. IsReport(k)
  BY <1>2, KeyShapes
<1>4. k[1] \notin Reserved
  BY <1>3 DEF IsReport
<1>5. CASE Len(k) = 4 /\ k[4] \in Kinds
  <2>1. k = <<k[1], k[2], k[3], k[4]>>
    BY <1>1, <1>5 DEF IsPath
  <2>2. k = RoleReport(k[1], k[2], k[2], k[3], k[4])
    BY <2>1 DEF RoleReport
  <2> QED BY <1>4, <1>5, <2>2
<1>6. CASE Len(k) = 5 /\ k[5] \in Kinds /\ k[2] # k[3]
  <2>1. k = <<k[1], k[2], k[3], k[4], k[5]>>
    BY <1>1, <1>6 DEF IsPath
  <2>2. k = RoleReport(k[1], k[2], k[3], k[4], k[5])
    BY <1>6, <2>1 DEF RoleReport
  <2> QED BY <1>4, <1>6, <2>2
<1> QED BY <1>3, <1>5, <1>6 DEF IsReport

\* The roles of a node that is shown, and what it shows of them.
LEMMA PlaceShows ==
    ASSUME NEW tree, TreeInv(tree), NEW ready, NEW number,
           NEW groups, groups = View!BuildStateView(ready, number, tree).groups,
           NEW g, NEW m, NEW n, <<g, m, n>> \in Places(groups)
    PROVE  /\ ViewNodes(groups, g, m)[n].roles # <<>>
           /\ \A x : x \in ShownReports(groups, g, m, n) <=>
                \E r : \E kind \in Kinds :
                    /\ Shows(tree, g, m, n, r)
                    /\ x = <<RoleReport(g, m, n, r, kind), View!Get(tree, RoleReport(g, m, n, r, kind))>>
<1>1. /\ g \notin Reserved /\ \E r : Shows(tree, g, m, n, r)
      /\ ViewNodes(groups, g, m)[n] = View!NodeView(tree, Container(g, m, n), n)
  BY PlacesShown
<1>2. PICK roles : roles = ViewNodes(groups, g, m)[n].roles
  OBVIOUS
<1>3. roles = View!NodeView(tree, Container(g, m, n), n).roles
  BY <1>1, <1>2
<1>4. ASSUME NEW r
      PROVE  /\ r \in DOMAIN roles <=> Shows(tree, g, m, n, r)
             /\ r \in DOMAIN roles =>
                  /\ roles[r].actual = View!Get(tree, RoleReport(g, m, n, r, "actual"))
                  /\ roles[r].health = View!Get(tree, RoleReport(g, m, n, r, "health"))
  BY <1>1, <1>3, RolesShown
<1>5. roles # <<>>
  <2>1. DOMAIN roles # {}
    BY <1>1, <1>4
  <2>2. DOMAIN <<>> = {}
    OBVIOUS
  <2> QED BY <2>1, <2>2
<1>6. ShownReports(groups, g, m, n) =
        {<<RoleReport(g, m, n, r, "actual"), roles[r].actual>> : r \in DOMAIN roles}
        \cup {<<RoleReport(g, m, n, r, "health"), roles[r].health>> : r \in DOMAIN roles}
  BY <1>2 DEF ShownReports
<1>7. ASSUME NEW x \in ShownReports(groups, g, m, n)
      PROVE  \E r : \E kind \in Kinds :
                /\ Shows(tree, g, m, n, r)
                /\ x = <<RoleReport(g, m, n, r, kind), View!Get(tree, RoleReport(g, m, n, r, kind))>>
  BY <1>4, <1>6, <1>7 DEF Kinds
<1>8. ASSUME NEW r, NEW kind \in Kinds, Shows(tree, g, m, n, r)
      PROVE  <<RoleReport(g, m, n, r, kind), View!Get(tree, RoleReport(g, m, n, r, kind))>>
                \in ShownReports(groups, g, m, n)
  BY <1>4, <1>6, <1>8 DEF Kinds
<1> QED BY <1>2, <1>5, <1>7, <1>8

\* All reports that there are, and no place without one.
ShowsAll(groups, items) ==
    /\ \A p \in Places(groups) : ViewNodes(groups, p[1], p[2])[p[3]].roles # <<>>
    /\ {x \in UNION {ShownReports(groups, p[1], p[2], p[3]) : p \in Places(groups)} : x[2] # {}}
        = {<<k, {items[k]}>> : k \in {key \in DOMAIN items : Last(key) \in {"actual", "health"}}}

\* The view has what the tree has.
LEMMA TreeIsShown ==
    ASSUME NEW tree, TreeInv(tree), NEW ready, NEW number,
           NEW groups, groups = View!BuildStateView(ready, number, tree).groups,
           NEW items, items = View!Items(tree)
    PROVE  ShowsAll(groups, items)
<1>1. \A p \in Places(groups) : <<p[1], p[2], p[3]>> \in Places(groups)
  BY PlacesShown
<1>2. ASSUME NEW p \in Places(groups) PROVE ViewNodes(groups, p[1], p[2])[p[3]].roles # <<>>
  <2>1. PICK g, m, n : g = p[1] /\ m = p[2] /\ n = p[3]
    OBVIOUS
  <2>2. <<g, m, n>> \in Places(groups)
    BY <1>1, <2>1
  <2>3. ViewNodes(groups, g, m)[n].roles # <<>>
    BY <2>2, PlaceShows
  <2> QED BY <2>1, <2>3
<1>3. ASSUME NEW x, NEW p \in Places(groups), x \in ShownReports(groups, p[1], p[2], p[3]), x[2] # {}
      PROVE  \E k \in DOMAIN items : Last(k) \in Kinds /\ x = <<k, {items[k]}>>
  <2>1. PICK g, m, n : g = p[1] /\ m = p[2] /\ n = p[3]
    OBVIOUS
  <2>2. <<g, m, n>> \in Places(groups) /\ x \in ShownReports(groups, g, m, n)
    BY <1>1, <1>3, <2>1
  <2>3. PICK r : \E kind \in Kinds :
            x = <<RoleReport(g, m, n, r, kind), View!Get(tree, RoleReport(g, m, n, r, kind))>>
    BY <2>2, PlaceShows
  <2>4. PICK kind \in Kinds :
            x = <<RoleReport(g, m, n, r, kind), View!Get(tree, RoleReport(g, m, n, r, kind))>>
    BY <2>3
  <2>5. PICK k : k = RoleReport(g, m, n, r, kind)
    OBVIOUS
  <2>6. x = <<k, View!Get(tree, k)>> /\ View!Get(tree, k) # {}
    BY <1>3, <2>4, <2>5
  <2>7. k \in DOMAIN items /\ View!Get(tree, k) = {items[k]}
    BY <2>6, ItemsOf
  <2>8. Last(k) = kind
    BY <2>5, ReportKey
  <2> QED BY <2>6, <2>7, <2>8
<1>4. ASSUME NEW k \in DOMAIN items, Last(k) \in Kinds
      PROVE  /\ \E p \in Places(groups) : <<k, {items[k]}>> \in ShownReports(groups, p[1], p[2], p[3])
             /\ {items[k]} # {}
  <2>1. k \in Keys /\ View!Get(tree, k) = {items[k]}
    BY ItemsOf
  <2>2. k[1] \notin Reserved /\ \E m, n, r : \E kind \in Kinds : k = RoleReport(k[1], m, n, r, kind)
    BY <1>4, <2>1, ReportEnds
  <2>3. PICK m, n, r : \E kind \in Kinds : k = RoleReport(k[1], m, n, r, kind)
    BY <2>2
  <2>4. PICK kind \in Kinds : k = RoleReport(k[1], m, n, r, kind)
    BY <2>3
  <2>5. PICK g : g = k[1] /\ k = RoleReport(g, m, n, r, kind)
    BY <2>4
  <2>6. Shows(tree, g, m, n, r)
    BY <2>1, <2>5 DEF Shows
  <2>7. <<g, m, n>> \in Places(groups)
    BY <2>2, <2>5, <2>6, PlacesShown
  <2>8. <<k, {items[k]}>> \in ShownReports(groups, g, m, n)
    <3>1. PICK x : x = <<k, {items[k]}>>
      OBVIOUS
    <3>2. x = <<RoleReport(g, m, n, r, kind), View!Get(tree, RoleReport(g, m, n, r, kind))>>
      BY <2>1, <2>5, <3>1
    <3>3. x \in ShownReports(groups, g, m, n)
      BY <2>6, <2>7, <3>2, PlaceShows
    <3> QED BY <3>1, <3>3
  <2>9. PICK p : p = <<g, m, n>>
    OBVIOUS
  <2> QED BY <2>7, <2>8, <2>9
<1>5. {x \in UNION {ShownReports(groups, p[1], p[2], p[3]) : p \in Places(groups)} : x[2] # {}}
        = {<<k, {items[k]}>> : k \in {key \in DOMAIN items : Last(key) \in Kinds}}
  BY <1>3, <1>4
<1> QED BY <1>2, <1>5 DEF ShowsAll, Kinds

\* view.go:372: whatever was put and deleted, and whatever the deletions left
\* in the tree, the view shows the reports that the copy has, under their node
\* and role, and no node whose reports are all gone.
THEOREM ViewShowsReportsAlways == Spec => []ViewShowsReports
<1>1. ViewInv => ViewShowsReports
  <2> SUFFICES ASSUME ViewInv PROVE ViewShowsReports
    OBVIOUS
  <2>1. PICK tree, groups, items :
          /\ tree = store.tree
          /\ groups = View!BuildStateView(store.ready, store.revision, tree).groups
          /\ items = View!Items(tree)
    OBVIOUS
  <2>2. ShowsAll(groups, items)
    BY <2>1, TreeIsShown DEF ViewInv
  <2>3. ShowsAll(View!BuildStateView(store.ready, store.revision, store.tree).groups,
                 View!Items(store.tree))
    BY <2>1, <2>2
  <2> QED BY <2>3 DEF ViewShowsReports, ShowsAll, Places, ShownReports, ViewNodes
<1> QED BY <1>1, ViewInvariant, PTL

(***************************************************************************)
(* Trees that show the same                                                *)
(***************************************************************************)
\* A node is shown only where the tree cannot have kept it for a key that is
\* gone: in the config, or as a group.
Shown(p) == p # <<>> /\ (p[1] = "config" \/ (p[1] \notin Reserved /\ Len(p) <= 2))

\* It is there for a document that etcd has.
LEMMA ShownNodes ==
    ASSUME NEW one, NEW other, NEW keys, TreeInv(one), TreeInv(other), Rooted(one, keys),
           \A k : k \in keys \/ View!Get(one, k) # {} => View!Get(other, k) # {},
           NEW p \in DOMAIN one, Shown(p)
    PROVE  p \in DOMAIN other
<1>1. PICK k \in Keys :
        /\ p \in View!Prefixes(k)
        /\ View!Get(one, k) # {} \/ Leased(k)
        /\ Grounded(k, keys)
  BY DEF Rooted
<1>2. IsPath(k) /\ IsNode(k) /\ IsNode(p) /\ Agrees(p, k)
  BY <1>1, KeyPaths, PrefixIsNode DEF IsNode
<1>3. Len(p) \in 0..5 /\ (Len(p) = 0 => p = <<>>)
  BY <1>2, NodeForms
<1>4. Len(p) \in 1..5
  BY <1>3 DEF Shown
<1>5. p[1] = k[1]
  BY <1>2, <1>4 DEF Agrees
<1>6. ASSUME NEW q, View!Get(other, q) # {}, Agrees(p, q) PROVE p \in DOMAIN other
  <2>1. q \in DOMAIN other
    BY <1>6 DEF View!Get, View!NoValue
  <2> QED BY <1>2, <1>6, <2>1, NodesAbove
<1>7. CASE p[1] = "config"
  <2>1. k[1] = "config" /\ "config" \in Reserved /\ "config" # "session"
    BY <1>5, <1>7 DEF Reserved
  <2>2. ~Leased(k)
    BY <2>1, LeasedShapes DEF Leased, IsReport
  <2>3. View!Get(other, k) # {}
    BY <1>1, <2>2
  <2> QED BY <1>2, <1>6, <2>3
<1>8. CASE p[1] \notin Reserved /\ Len(p) <= 2
  <2>1. Desired(k[1], k[2]) \in keys
    BY <1>1, <1>5, <1>8 DEF Grounded
  <2>2. View!Get(other, Desired(k[1], k[2])) # {}
    BY <2>1
  <2>3. Agrees(p, <<k[1], k[2], "desired">>)
    <3>1. Len(p) = 1 \/ Len(p) = 2
      <4>1. \A l \in 1..5 : l <= 2 => l = 1 \/ l = 2
        OBVIOUS
      <4> QED BY <1>4, <1>8, <4>1
    <3>2. \A i \in 1..Len(p) : p[i] = k[i]
      BY <1>2 DEF Agrees
    <3> QED BY <3>1, <3>2 DEF Agrees
  <2> QED BY <1>6, <2>2, <2>3 DEF Desired
<1> QED BY <1>7, <1>8 DEF Shown

\* The same documents, and the same nodes of those that are shown.
SameTrees(one, other) ==
    /\ TreeInv(one) /\ TreeInv(other)
    /\ \A k : View!Get(one, k) = View!Get(other, k)
    /\ \A p : Shown(p) => (p \in DOMAIN one <=> p \in DOMAIN other)

LEMMA SameDocuments ==
    ASSUME NEW one, NEW other, NEW keys, TreeInv(one), TreeInv(other),
           Rooted(one, keys), Rooted(other, keys),
           \A k : View!Get(one, k) = View!Get(other, k),
           \A k \in keys : View!Get(one, k) # {}
    PROVE  SameTrees(one, other)
<1>1. \A k : k \in keys \/ View!Get(one, k) # {} => View!Get(other, k) # {}
  OBVIOUS
<1>2. \A k : k \in keys \/ View!Get(other, k) # {} => View!Get(one, k) # {}
  OBVIOUS
<1>3. \A p : Shown(p) /\ p \in DOMAIN one => p \in DOMAIN other
  BY <1>1, ShownNodes
<1>4. \A p : Shown(p) /\ p \in DOMAIN other => p \in DOMAIN one
  BY <1>2, ShownNodes
<1> QED BY <1>3, <1>4 DEF SameTrees

\* Names, and the values in a row.
LEMMA SameValues ==
    ASSUME NEW one, NEW other, SameTrees(one, other)
    PROVE  /\ \A key : View!NameOrID(one, key) = View!NameOrID(other, key)
           /\ \A a : View!FlatValueMap(one, <<a>>) = View!FlatValueMap(other, <<a>>)
<1>1. TreeInv(one) /\ TreeInv(other) /\ \A k : View!Get(one, k) = View!Get(other, k)
  BY DEF SameTrees
<1>2. ASSUME NEW key PROVE View!NameOrID(one, key) = View!NameOrID(other, key)
  <2>1. PICK d : d = View!Get(one, key)
    OBVIOUS
  <2>2. d = View!Get(other, key)
    BY <1>1, <2>1
  <2>3. PICK name : name = IF d = {} THEN 0 ELSE CHOOSE x \in {doc.name : doc \in d} : TRUE
    OBVIOUS
  <2>4. View!NameOrID(one, key) = name
    BY <2>1, <2>3, Zenon DEF View!NameOrID, View!NoValue
  <2>5. View!NameOrID(other, key) = name
    BY <2>2, <2>3, Zenon DEF View!NameOrID, View!NoValue
  <2> QED BY <2>4, <2>5
<1>3. ASSUME NEW a PROVE View!FlatValueMap(one, <<a>>) = View!FlatValueMap(other, <<a>>)
  <2> DEFINE S(tree) == {name \in View!ListChildren(tree, <<a>>) :
                            View!Get(tree, Append(<<a>>, name)) # {}}
  <2>1. ASSUME NEW tree, TreeInv(tree), NEW x
        PROVE  x \in S(tree) <=> View!Get(tree, <<a, x>>) # {}
    <3>1. x \in View!ListChildren(tree, <<a>>) <=> <<a, x>> \in DOMAIN tree
      BY <2>1, ChildrenOf
    <3>2. Append(<<a>>, x) = <<a, x>>
      BY LongerPaths
    <3> QED BY <3>1, <3>2 DEF View!Get, View!NoValue
  <2>2. S(one) = S(other)
    <3>1. \A x : x \in S(one) <=> View!Get(one, <<a, x>>) # {}
      BY <1>1, <2>1
    <3>2. \A x : x \in S(other) <=> View!Get(other, <<a, x>>) # {}
      BY <1>1, <2>1
    <3> HIDE DEF S
    <3> QED BY <1>1, <3>1, <3>2
  <2>3. /\ View!FlatValueMap(one, <<a>>) = [x \in S(one) |-> View!Get(one, Append(<<a>>, x))]
        /\ View!FlatValueMap(other, <<a>>) = [x \in S(other) |-> View!Get(other, Append(<<a>>, x))]
    BY DEF View!FlatValueMap, View!NoValue
  <2> HIDE DEF S
  <2> QED BY <1>1, <2>2, <2>3
<1> QED BY <1>2, <1>3

\* buildConfig
LEMMA SameConfig ==
    ASSUME NEW one, NEW other, SameTrees(one, other)
    PROVE  View!BuildConfig(one) = View!BuildConfig(other)
<1> DEFINE G(tree) == View!ListChildren(tree, <<"config", "cluster_groups">>)
           M(tree, g) == View!ListChildren(tree, Append(<<"config", "cluster_groups">>, g)) \ {"_meta"}
<1>1. TreeInv(one) /\ TreeInv(other) /\ \A k : View!Get(one, k) = View!Get(other, k)
  BY DEF SameTrees
<1>2. G(one) = G(other)
  <2>1. ASSUME NEW x PROVE x \in G(one) <=> x \in G(other)
    <3>1. Shown(<<"config", "cluster_groups", x>>)
      BY DEF Shown
    <3>2. x \in G(one) <=> <<"config", "cluster_groups", x>> \in DOMAIN one
      BY <1>1, ChildrenOf
    <3>3. x \in G(other) <=> <<"config", "cluster_groups", x>> \in DOMAIN other
      BY <1>1, ChildrenOf
    <3> QED BY <3>1, <3>2, <3>3 DEF SameTrees
  <2> HIDE DEF G
  <2> QED BY <2>1
<1>3. ASSUME NEW g PROVE M(one, g) = M(other, g)
  <2> DEFINE L(tree) == View!ListChildren(tree, <<"config", "cluster_groups", g>>)
  <2>1. ASSUME NEW x PROVE x \in L(one) <=> x \in L(other)
    <3>1. Shown(<<"config", "cluster_groups", g, x>>)
      BY DEF Shown
    <3>2. x \in L(one) <=> <<"config", "cluster_groups", g, x>> \in DOMAIN one
      BY <1>1, ChildrenOf
    <3>3. x \in L(other) <=> <<"config", "cluster_groups", g, x>> \in DOMAIN other
      BY <1>1, ChildrenOf
    <3> QED BY <3>1, <3>2, <3>3 DEF SameTrees
  <2>2. Append(<<"config", "cluster_groups">>, g) = <<"config", "cluster_groups", g>>
    BY LongerPaths
  <2>3. M(one, g) = L(one) \ {"_meta"} /\ M(other, g) = L(other) \ {"_meta"}
    BY <2>2
  <2> HIDE DEF L, M
  <2> QED BY <2>1, <2>3
<1>4. ASSUME NEW tree
      PROVE  View!BuildConfig(tree) =
                [g \in {g \in G(tree) : M(tree, g) # {}} |->
                    [m \in M(tree, g) |-> View!Get(tree, View!ManagementGroupConfig(g, m))]]
  BY DEF View!BuildConfig
<1> HIDE DEF G, M
<1> QED BY <1>1, <1>2, <1>3, <1>4

\* buildNode
LEMMA SameNode ==
    ASSUME NEW one, NEW other, SameTrees(one, other), NEW g, g \notin Reserved, NEW m, NEW n
    PROVE  View!NodeView(one, Container(g, m, n), n) = View!NodeView(other, Container(g, m, n), n)
<1>1. TreeInv(one) /\ TreeInv(other) /\ \A k : View!Get(one, k) = View!Get(other, k)
  BY DEF SameTrees
<1>2. PICK key : key = Container(g, m, n)
  OBVIOUS
<1> DEFINE S(tree) == {r \in View!ListChildren(tree, key) \ View!ManagementSystemKeys :
                          \/ View!Get(tree, key \o <<r, "actual">>) # {}
                          \/ View!Get(tree, key \o <<r, "health">>) # {}}
           Role(tree, r) == [name   |-> View!NameOrID(tree, View!ConfigRole(r)),
                             actual |-> View!Get(tree, key \o <<r, "actual">>),
                             health |-> View!Get(tree, key \o <<r, "health">>)]
<1>3. ASSUME NEW tree
      PROVE  View!NodeView(tree, key, n) =
                [name  |-> View!NameOrID(tree, View!ConfigNode(n)),
                 roles |-> [r \in S(tree) |-> Role(tree, r)]]
  BY DEF View!NodeView, View!NoValue
<1>4. \A r : Role(one, r) = Role(other, r)
  BY <1>1, SameValues
<1>5. ASSUME NEW tree, TreeInv(tree), NEW r PROVE r \in S(tree) <=> Shows(tree, g, m, n, r)
  <2>1. PICK roles : roles = View!NodeView(tree, Container(g, m, n), n).roles
    OBVIOUS
  <2>2. r \in DOMAIN roles <=> Shows(tree, g, m, n, r)
    BY <1>5, <2>1, RolesShown
  <2>3. roles = [x \in S(tree) |-> Role(tree, x)]
    <3> HIDE DEF S, Role
    <3> QED BY <1>2, <1>3, <2>1
  <2> HIDE DEF S, Role
  <2> QED BY <2>2, <2>3
<1>6. \A r : Shows(one, g, m, n, r) <=> Shows(other, g, m, n, r)
  BY <1>1 DEF Shows
<1> HIDE DEF S, Role
<1>7. S(one) = S(other)
  <2>1. \A r : r \in S(one) <=> Shows(one, g, m, n, r)
    BY <1>1, <1>5
  <2>2. \A r : r \in S(other) <=> Shows(other, g, m, n, r)
    BY <1>1, <1>5
  <2>3. \A r : r \in S(one) => r \in S(other)
    BY <1>6, <2>1, <2>2
  <2>4. \A r : r \in S(other) => r \in S(one)
    BY <1>6, <2>1, <2>2
  <2> QED BY <2>3, <2>4 DEF S
<1>8. View!NameOrID(one, View!ConfigNode(n)) = View!NameOrID(other, View!ConfigNode(n))
  BY SameValues
<1> QED BY <1>2, <1>3, <1>4, <1>7, <1>8

\* buildManagementGroup
LEMMA SameSubgroup ==
    ASSUME NEW one, NEW other, SameTrees(one, other), NEW g, g \notin Reserved, NEW m
    PROVE  View!ManagementGroupView(one, g, m) = View!ManagementGroupView(other, g, m)
<1>1. TreeInv(one) /\ TreeInv(other) /\ \A k : View!Get(one, k) = View!Get(other, k)
  BY DEF SameTrees
<1> DEFINE Key == View!ManagementGroup(g, m)
           Inside(tree) == View!ManagementGroupView(tree, g, m).nodes
<1>2. ASSUME NEW tree
      PROVE  /\ View!ManagementGroupView(tree, g, m) =
                    [config  |-> View!Get(tree, View!ManagementGroupConfig(g, m)),
                     desired |-> View!Get(tree, Append(Key, "desired")),
                     actual  |-> View!Get(tree, Append(Key, "actual")),
                     health  |-> View!Get(tree, Append(Key, "health")),
                     nodes   |-> Inside(tree)]
             /\ Inside(tree) = [n \in DOMAIN Inside(tree) |-> Inside(tree)[n]]
  BY DEF View!ManagementGroupView
<1>3. ASSUME NEW tree, TreeInv(tree), NEW n
      PROVE  /\ n \in DOMAIN Inside(tree) <=> \E r : Shows(tree, g, m, n, r)
             /\ n \in DOMAIN Inside(tree) => Inside(tree)[n] = View!NodeView(tree, Container(g, m, n), n)
  <2>1. PICK nodes : nodes = Inside(tree)
    OBVIOUS
  <2>2. n \in DOMAIN nodes <=> \E r : Shows(tree, g, m, n, r)
    BY <1>3, <2>1, NodesShown
  <2>3. n \in DOMAIN nodes => nodes[n] = View!NodeView(tree, Container(g, m, n), n)
    BY <1>3, <2>1, NodesShown
  <2> QED BY <2>1, <2>2, <2>3
<1> HIDE DEF Inside
<1>4. \A n, r : Shows(one, g, m, n, r) <=> Shows(other, g, m, n, r)
  BY <1>1 DEF Shows
<1>5. \A n : n \in DOMAIN Inside(one) <=> n \in DOMAIN Inside(other)
  BY <1>1, <1>3, <1>4
<1>6. \A n : n \in DOMAIN Inside(one) => Inside(one)[n] = Inside(other)[n]
  BY <1>1, <1>3, <1>5, SameNode
<1>7. Inside(one) = Inside(other)
  <2>1. PICK a, b : a = Inside(one) /\ b = Inside(other)
    OBVIOUS
  <2>2. a = [n \in DOMAIN a |-> a[n]] /\ b = [n \in DOMAIN b |-> b[n]]
    BY <1>2, <2>1
  <2>3. DOMAIN a = DOMAIN b /\ \A n \in DOMAIN a : a[n] = b[n]
    BY <1>5, <1>6, <2>1
  <2> QED BY <2>1, <2>2, <2>3
<1> HIDE DEF Key
<1> QED BY <1>1, <1>2, <1>7

\* buildClusterGroup
LEMMA SameGroup ==
    ASSUME NEW one, NEW other, SameTrees(one, other), NEW g, g \notin Reserved
    PROVE  View!ClusterGroupView(one, g) = View!ClusterGroupView(other, g)
<1>1. TreeInv(one) /\ TreeInv(other)
  BY DEF SameTrees
<1> DEFINE M(tree) == View!ListChildren(tree, <<g>>) \ View!ManagementSystemKeys
<1>2. M(one) = M(other)
  <2> DEFINE L(tree) == View!ListChildren(tree, <<g>>)
  <2>1. ASSUME NEW x PROVE x \in L(one) <=> x \in L(other)
    <3>1. Shown(<<g, x>>)
      BY DEF Shown
    <3>2. x \in L(one) <=> <<g, x>> \in DOMAIN one
      BY <1>1, ChildrenOf
    <3>3. x \in L(other) <=> <<g, x>> \in DOMAIN other
      BY <1>1, ChildrenOf
    <3> QED BY <3>1, <3>2, <3>3 DEF SameTrees
  <2>2. M(one) = L(one) \ View!ManagementSystemKeys /\ M(other) = L(other) \ View!ManagementSystemKeys
    OBVIOUS
  <2> HIDE DEF L, M
  <2> QED BY <2>1, <2>2
<1>3. ASSUME NEW tree
      PROVE  View!ClusterGroupView(tree, g) =
                [name |-> View!NameOrID(tree, View!ConfigClusterGroupMeta(g)),
                 management_groups |-> [m \in M(tree) |-> View!ManagementGroupView(tree, g, m)]]
  BY DEF View!ClusterGroupView
<1>4. View!NameOrID(one, View!ConfigClusterGroupMeta(g)) = View!NameOrID(other, View!ConfigClusterGroupMeta(g))
  BY SameValues
<1>5. \A m : View!ManagementGroupView(one, g, m) = View!ManagementGroupView(other, g, m)
  BY SameSubgroup
<1> HIDE DEF M
<1>6. [m \in M(one) |-> View!ManagementGroupView(one, g, m)]
        = [m \in M(other) |-> View!ManagementGroupView(other, g, m)]
  BY <1>2, <1>5
<1> QED BY <1>3, <1>4, <1>6

\* BuildStateView
LEMMA SameView ==
    ASSUME NEW one, NEW other, SameTrees(one, other), NEW ready, NEW number
    PROVE  View!BuildStateView(ready, number, one) = View!BuildStateView(ready, number, other)
<1>1. TreeInv(one) /\ TreeInv(other) /\ \A k : View!Get(one, k) = View!Get(other, k)
  BY DEF SameTrees
<1> DEFINE G(tree) == View!ListChildren(tree, <<>>) \ View!RootSystemKeys
<1>2. ASSUME NEW tree, TreeInv(tree), NEW g
      PROVE  g \in G(tree) <=> g \notin Reserved /\ <<g>> \in DOMAIN tree
  <2>1. g \in View!ListChildren(tree, <<>>) <=> <<g>> \in DOMAIN tree
    BY <1>2, ChildrenOf
  <2>2. /\ <<g>> \in DOMAIN tree /\ g \notin View!RootSystemKeys => g \notin Reserved
        /\ g \notin Reserved => g \notin View!RootSystemKeys
    BY <1>2, GroupNames
  <2> QED BY <2>1, <2>2
<1>3. ASSUME NEW tree
      PROVE  View!BuildStateView(ready, number, tree) =
                [ready    |-> ready,
                 revision |-> number,
                 name     |-> View!NameOrID(tree, View!ConfigMeta),
                 leader   |-> View!Get(tree, <<"leadership">>),
                 config   |-> View!BuildConfig(tree),
                 registry |-> View!FlatValueMap(tree, <<"registry">>),
                 session  |-> View!FlatValueMap(tree, <<"session">>),
                 groups   |-> [g \in G(tree) |-> View!ClusterGroupView(tree, g)]]
  BY DEF View!BuildStateView
<1> HIDE DEF G
<1>4. \A g : g \in G(one) <=> g \in G(other)
  <2>1. ASSUME NEW g, g \notin Reserved PROVE <<g>> \in DOMAIN one <=> <<g>> \in DOMAIN other
    <3>1. Shown(<<g>>)
      BY <2>1 DEF Shown
    <3> QED BY <3>1 DEF SameTrees
  <2> QED BY <1>1, <1>2, <2>1
<1>5. G(one) = G(other)
  BY <1>4 DEF G
<1>6. \A g \in G(one) : View!ClusterGroupView(one, g) = View!ClusterGroupView(other, g)
  BY <1>1, <1>2, SameGroup
<1>7. [g \in G(one) |-> View!ClusterGroupView(one, g)] = [g \in G(other) |-> View!ClusterGroupView(other, g)]
  BY <1>5, <1>6
<1>8. View!NameOrID(one, View!ConfigMeta) = View!NameOrID(other, View!ConfigMeta)
  BY SameValues
<1>9. /\ View!FlatValueMap(one, <<"registry">>) = View!FlatValueMap(other, <<"registry">>)
      /\ View!FlatValueMap(one, <<"session">>) = View!FlatValueMap(other, <<"session">>)
  BY SameValues
<1>10. View!BuildConfig(one) = View!BuildConfig(other)
  BY SameConfig
<1> QED BY <1>1, <1>3, <1>7, <1>8, <1>9, <1>10

(***************************************************************************)
(* The stream                                                              *)
(***************************************************************************)
\* The last event says the present revision; without one, the copy does.
StampInv ==
    phase[Me] \in {"ensure", "run"} =>
        /\ store.ready = TRUE
        /\ IF watch = <<>> THEN store.revision = revision
           ELSE watch[Len(watch)].revision = revision

\* The others' steps stamp what they change.
LEMMA CommitKeepsStamp ==
    ASSUME KnownKeys, KnownKeys', WatchIsSeq, TypeOK, StampInv, UNCHANGED store,
           revision' = (IF Changed = {} THEN revision ELSE revision + 1),
           watch' = watch \o EventsOfChange,
           phase[Me] \in {"ensure", "run"}
    PROVE  StampInv'
<1>1. PICK events, batch : events = watch /\ batch = EventsOfChange
  OBVIOUS
<1>2. PICK V : events \in Seq(V)
  BY <1>1 DEF WatchIsSeq
<1> DEFINE W == {EventOf(k) : k \in Changed}
<1>3. batch \in Seq(W) /\ \A k \in Changed : \E i \in 1..Len(batch) : batch[i] = EventOf(k)
  BY <1>1, ChangeEvents
<1>4. CASE Changed = {}
  <2>1. batch = <<>>
    <3>1. Len(batch) = 0
      <4>1. ~\E i \in 1..Len(batch) : TRUE
        BY <1>3, <1>4
      <4> HIDE DEF W
      <4>2. Len(batch) \in Nat
        BY <1>3
      <4>3. Len(batch) # 0 => 1 \in 1..Len(batch)
        BY <4>2
      <4> QED BY <4>1, <4>3
    <3> HIDE DEF W
    <3> QED BY <1>3, <3>1
  <2>2. watch' = watch
    BY <1>1, <1>2, <2>1
  <2> QED BY <1>4, <2>2 DEF StampInv
<1>5. CASE Changed # {}
  <2>1. PICK i \in 1..Len(batch) : TRUE
    BY <1>3, <1>5
  <2>2. \A event \in W : event.revision = revision + 1
    BY DEF EventOf
  <2> HIDE DEF W
  <2>3. Len(batch) \in Nat /\ Len(events) \in Nat /\ Len(batch) > 0
    BY <1>2, <1>3, <2>1
  <2>4. batch[Len(batch)] \in W
    BY <1>3, <2>3
  <2>5. PICK both : both = events \o batch
    OBVIOUS
  <2>6. Len(both) = Len(events) + Len(batch) /\ both[Len(both)] = batch[Len(batch)]
    <3>1. events \in Seq(V \cup W) /\ batch \in Seq(V \cup W)
      BY <1>2, <1>3
    <3> QED BY <2>3, <2>5, <3>1
  <2>7. both # <<>>
    BY <2>3, <2>6
  <2>8. both[Len(both)].revision = revision + 1
    BY <2>2, <2>4, <2>6
  <2>9. watch' = both /\ revision' = revision + 1
    BY <1>1, <1>5, <2>5
  <2>10. watch' # <<>> /\ watch'[Len(watch')].revision = revision'
    BY <2>7, <2>8, <2>9
  <2> QED BY <2>10 DEF StampInv
<1> QED BY <1>4, <1>5

\* Every step keeps the stamps.
LEMMA StampKept ==
    ASSUME JInv, JInv', CopyInv, CopyTypes, StampInv, [Next]_vars
    PROVE  StampInv'
<1>1. CASE OthersStep
  <2>1. CASE phase[Me] \in {"ensure", "run"}
    <3>1. /\ UNCHANGED store
          /\ revision' = (IF Changed = {} THEN revision ELSE revision + 1)
          /\ watch' = watch \o EventsOfChange
      BY <1>1, <2>1 DEF OthersStep, Commit
    <3> QED BY <2>1, <3>1, CommitKeepsStamp DEF JInv, CopyInv, CopyTypes
  <2>2. CASE phase[Me] \notin {"ensure", "run"}
    <3>1. phase'[Me] \notin {"ensure", "run"}
      BY <1>1, <2>2 DEF OthersStep
    <3> QED BY <3>1 DEF StampInv
  <2> QED BY <2>1, <2>2
<1>2. CASE LoadSnapshot
  <2>1. watch = <<>> /\ UNCHANGED <<watch, revision>>
    BY <1>2 DEF LoadSnapshot, Connect, CopyInv
  <2>2. store'.ready = TRUE /\ store'.revision = revision
    BY <1>2 DEF LoadSnapshot
  <2> QED BY <2>1, <2>2 DEF StampInv
<1>3. CASE RunMe
  <2>1. UNCHANGED <<store, watch, revision>> /\ phase[Me] = "ensure"
    BY <1>3 DEF RunMe, Run, storeVars
  <2> QED BY <2>1 DEF StampInv
<1>4. CASE DieMe
  <2>1. phase'[Me] = "down"
    BY <1>4, StartupAssumption DEF DieMe, Die, CopyInv
  <2> QED BY <2>1 DEF StampInv
<1>5. CASE Apply
  <2>1. /\ phase[Me] = "run" /\ watch # <<>> /\ watch' = Tail(watch)
        /\ UNCHANGED <<phase, revision>>
        /\ store' = [store EXCEPT !.revision = Head(watch).revision, !.tree = ApplyTo(@, Head(watch))]
    BY <1>5 DEF Apply, bootVars
  <2>2. store'.ready = store.ready /\ store'.revision = Head(watch).revision
    BY <2>1 DEF CopyTypes
  <2>3. PICK V : watch \in Seq(V)
    BY DEF CopyInv, WatchIsSeq
  <2>4. PICK events, rest : events = watch /\ rest = Tail(watch)
    OBVIOUS
  <2>5. /\ events \in Seq(V) /\ events # <<>>
        /\ rest \in Seq(V) /\ Len(rest) = Len(events) - 1 /\ Len(events) \in Nat \ {0}
    BY <2>1, <2>3, <2>4
  <2>6. rest = <<>> => Head(events) = events[Len(events)]
    <3>1. rest = <<>> => Len(events) = 1
      BY <2>5
    <3>2. Head(events) = events[1]
      BY <2>5
    <3> QED BY <3>1, <3>2
  <2>7. rest # <<>> => rest[Len(rest)] = events[Len(events)]
    BY <2>4, <2>5
  <2>8. events[Len(events)].revision = revision /\ store.ready = TRUE
    BY <2>1, <2>4 DEF StampInv
  <2>9. watch' = rest /\ store'.ready = TRUE
    BY <2>1, <2>2, <2>4, <2>8
  <2>10. IF rest = <<>> THEN store'.revision = revision' ELSE rest[Len(rest)].revision = revision'
    BY <2>1, <2>2, <2>4, <2>6, <2>7, <2>8
  <2> QED BY <2>9, <2>10 DEF StampInv
<1>6. CASE StreamStep
  BY <1>6 DEF StreamStep, bootVars, storeVars, StampInv
<1> QED BY <1>1, <1>2, <1>3, <1>4, <1>5, <1>6, NextSteps DEF CopyTypes

\* Browsers connect one at a time.
OneClient == \A s \in Scenes : \A c, d \in s.clients : c = d

\* What a client's handler has read, and what it has sent, is of the present
\* copy, or a signal is in the slot.
UpToDate(c) ==
    ~notify =>
        /\ stream[c] \in {"revision", "tree"} => held[c].ready = store.ready
        /\ stream[c] = "tree" => held[c].revision = store.revision
        /\ stream[c] = "wait" =>
            page[c] = View!BuildStateView(store.ready, store.revision, store.tree)

StreamInv ==
    /\ scene \in Scenes
    /\ held = [c \in Clients |-> [ready |-> held[c].ready, revision |-> held[c].revision]]
    /\ page = [c \in Clients |-> page[c]]
    /\ \A c \in Clients : stream[c] # "off" => c \in scene.clients
    /\ OneClient => \A c \in Clients : UpToDate(c)

\* One client's handler goes on.
StreamOf(c) == Open(c) \/ ReadReady(c) \/ ReadRevision(c) \/ Send(c) \/ Wake(c)

\* Only that client's part of the stream changes.
LEMMA StreamShape ==
    ASSUME TypeOK, StreamInv, NEW c \in Clients, StreamOf(c)
    PROVE  /\ UNCHANGED <<scene, store>>
           /\ c \in scene.clients
           /\ held' = [d \in Clients |-> [ready |-> held'[d].ready, revision |-> held'[d].revision]]
           /\ page' = [d \in Clients |-> page'[d]]
           /\ \A d \in Clients : d # c => stream'[d] = stream[d]
<1> USE DEF Quiet, bootVars, storeVars
<1>1. CASE Open(c)
  BY <1>1 DEF Open, StreamInv, TypeOK
<1>2. CASE ReadReady(c)
  BY <1>2 DEF ReadReady, StreamInv, TypeOK
<1>3. CASE ReadRevision(c)
  BY <1>3 DEF ReadRevision, StreamInv, TypeOK
<1>4. CASE Send(c)
  BY <1>4 DEF Send, StreamInv, TypeOK
<1>5. CASE Wake(c)
  BY <1>5 DEF Wake, StreamInv, TypeOK
<1> QED BY <1>1, <1>2, <1>3, <1>4, <1>5 DEF StreamOf

\* Its handler reads what is there, and takes the signal that is its own.
LEMMA StreamKeeps ==
    ASSUME TypeOK, StreamInv, NEW c \in Clients, StreamOf(c), UpToDate(c)
    PROVE  UpToDate(c)'
<1> USE DEF Quiet, storeVars
<1>1. CASE Open(c)
  <2>1. stream'[c] = "ready"
    BY <1>1 DEF Open, TypeOK
  <2> QED BY <2>1 DEF UpToDate
<1>2. CASE ReadReady(c)
  <2>1. stream'[c] = "revision" /\ UNCHANGED <<notify, store>> /\ held'[c].ready = store.ready
    BY <1>2 DEF ReadReady, TypeOK, StreamInv
  <2> QED BY <2>1 DEF UpToDate
<1>3. CASE ReadRevision(c)
  <2>1. /\ stream[c] = "revision" /\ stream'[c] = "tree" /\ UNCHANGED <<notify, store>>
        /\ held'[c].ready = held[c].ready /\ held'[c].revision = store.revision
    BY <1>3 DEF ReadRevision, TypeOK, StreamInv
  <2> QED BY <2>1 DEF UpToDate
<1>4. CASE Send(c)
  <2>1. /\ stream[c] = "tree" /\ stream'[c] = "wait" /\ UNCHANGED <<notify, store>>
        /\ page'[c] = View!BuildStateView(held[c].ready, held[c].revision, store.tree)
    BY <1>4 DEF Send, TypeOK, StreamInv
  <2>2. ~notify => held[c].ready = store.ready /\ held[c].revision = store.revision
    BY <2>1 DEF UpToDate
  <2>3. ~notify => page'[c] = View!BuildStateView(store.ready, store.revision, store.tree)
    BY <2>1, <2>2
  <2> QED BY <2>1, <2>3 DEF UpToDate
<1>5. CASE Wake(c)
  <2>1. stream'[c] = "ready"
    BY <1>5 DEF Wake, TypeOK
  <2> QED BY <2>1 DEF UpToDate
<1> QED BY <1>1, <1>2, <1>3, <1>4, <1>5 DEF StreamOf

\* The steps that leave the stream and the copy alone.
LEMMA StreamLeft ==
    ASSUME StreamInv, UNCHANGED <<scene, store, notify, streamVars>>
    PROVE  StreamInv'
<1>1. \A c \in Clients : UpToDate(c) => UpToDate(c)'
  BY DEF streamVars, UpToDate
<1> QED BY <1>1 DEF streamVars, StreamInv

\* Every step keeps the stream.
LEMMA StreamKept ==
    ASSUME TypeOK, StreamInv, [Next]_vars
    PROVE  StreamInv'
<1>1. UNCHANGED scene
  <2>1. BootStep
    BY NextBoots
  <2> QED BY <2>1 DEF BootStep, bootVars, Start, Connect, Run, Die, Ensure, Report, Expire, Operate, Prioritize
<1>2. CASE OthersStep \/ RunMe
  <2>1. UNCHANGED <<store, notify, streamVars>>
    BY <1>2 DEF OthersStep, Commit, RunMe, storeVars
  <2> QED BY <1>1, <2>1, StreamLeft
<1>3. CASE LoadSnapshot \/ Apply
  <2>1. notify' = TRUE /\ UNCHANGED streamVars
    BY <1>3 DEF LoadSnapshot, Apply
  <2>2. \A c \in Clients : UpToDate(c)'
    BY <2>1 DEF UpToDate
  <2> QED BY <1>1, <2>1, <2>2 DEF StreamInv, streamVars
<1>4. CASE DieMe
  <2>1. /\ stream' = [c \in Clients |-> "off"]
        /\ held' = [c \in Clients |-> [ready |-> FALSE, revision |-> 0]]
        /\ page' = [c \in Clients |-> NoPage]
    BY <1>4 DEF DieMe
  <2>2. \A c \in Clients : UpToDate(c)'
    BY <2>1 DEF UpToDate
  <2> QED BY <1>1, <2>1, <2>2 DEF StreamInv
<1>5. ASSUME NEW c \in Clients, StreamOf(c) PROVE StreamInv'
  <2>1. /\ UNCHANGED <<scene, store>>
        /\ c \in scene.clients
        /\ held' = [d \in Clients |-> [ready |-> held'[d].ready, revision |-> held'[d].revision]]
        /\ page' = [d \in Clients |-> page'[d]]
        /\ \A d \in Clients : d # c => stream'[d] = stream[d]
    BY <1>5, StreamShape
  <2>2. \A d \in Clients : stream'[d] # "off" => d \in scene'.clients
    BY <2>1 DEF StreamInv
  <2>3. ASSUME OneClient, NEW d \in Clients PROVE UpToDate(d)'
    <3>1. CASE d = c
      <4>1. UpToDate(c)'
        BY <1>5, <2>3, StreamKeeps DEF StreamInv
      <4> QED BY <3>1, <4>1
    <3>2. CASE d # c
      <4>1. d \notin scene.clients
        BY <2>1, <2>3, <3>2 DEF OneClient, StreamInv
      <4>2. stream'[d] = "off"
        BY <2>1, <2>2, <4>1
      <4> QED BY <4>2 DEF UpToDate
    <3> QED BY <3>1, <3>2
  <2> QED BY <2>1, <2>2, <2>3 DEF StreamInv
<1>6. CASE UNCHANGED vars
  BY <1>6, StreamLeft DEF vars, bootVars, storeVars
<1>7. OthersStep \/ LoadSnapshot \/ RunMe \/ DieMe \/ Apply
        \/ (\E c \in Clients : StreamOf(c)) \/ UNCHANGED vars
  BY NextOthers DEF StreamOf
<1> QED BY <1>2, <1>3, <1>4, <1>5, <1>6, <1>7

\* At first nobody is connected.
LEMMA StreamInit == Init => StreamInv /\ StampInv
<1> SUFFICES ASSUME Init PROVE StreamInv /\ StampInv
  OBVIOUS
<1>1. /\ scene \in Scenes /\ phase = [n \in Nodes |-> "down"]
      /\ stream = [c \in Clients |-> "off"]
      /\ held = [c \in Clients |-> [ready |-> FALSE, revision |-> 0]]
      /\ page = [c \in Clients |-> NoPage]
  BY DEF Init, BootInit
<1>2. \A c \in Clients : UpToDate(c)
  BY <1>1 DEF UpToDate
<1>3. phase[Me] = "down"
  BY <1>1, StartupAssumption
<1> QED BY <1>1, <1>2, <1>3 DEF StreamInv, StampInv

\* A page is torn, or skipped, only while a signal is still to come.
THEOREM StreamInvariant == Spec => [](StampInv /\ StreamInv)
<1>1. JInv /\ JInv' /\ CopyInv /\ CopyTypes /\ StampInv /\ [Next]_vars => StampInv'
  BY StampKept
<1>2. CopyTypes /\ StreamInv /\ [Next]_vars => StreamInv'
  BY StreamKept DEF CopyTypes
<1> QED BY <1>1, <1>2, StreamInit, SeedingInvariant, CopyInvariant, PTL DEF Spec

\* What is in the copy when nothing is on its way.
LEMMA CopyIsCurrent ==
    ASSUME CopyInv, phase[Me] = "run", watch = <<>>
    PROVE  View!Items(store.tree) = etcd
<1>1. PICK last : Reaches(store.tree, watch, last) /\ View!Items(last) = etcd
  BY DEF CopyInv, InStep
<1>2. PICK tree : tree = store.tree
  OBVIOUS
<1>3. Reaches(tree, <<>>, last)
  BY <1>1, <1>2
<1>4. last = tree
  BY <1>3 DEF Reaches, IsRun
<1> QED BY <1>1, <1>2, <1>4

\* The documents of a tree with these items.
LEMMA GetOfItems ==
    ASSUME NEW tree, TreeInv(tree), NEW items, items = View!Items(tree), NEW k
    PROVE  View!Get(tree, k) = IF k \in DOMAIN items THEN {items[k]} ELSE {}
BY ItemsOf

\* api/README.md:7: with one client, what it shows when nothing is on its way
\* is etcd: no signal is lost between the three reads of a page, and the nodes
\* that deletions left in the tree are not shown.
THEOREM QuietPageIsCurrentAlways == Spec => [](OneClient => QuietPageIsCurrent)
<1>1. JInv /\ CopyInv /\ ViewInv /\ StampInv /\ StreamInv => (OneClient => QuietPageIsCurrent)
  <2> SUFFICES ASSUME JInv, CopyInv, ViewInv, StampInv, StreamInv, OneClient, NEW c \in Clients,
                      phase[Me] = "run", watch = <<>>, stream[c] = "wait", ~notify
               PROVE  page[c] = View!BuildStateView(TRUE, revision, View!LoadSnapshot(etcd))
    BY DEF QuietPageIsCurrent
  <2>1. page[c] = View!BuildStateView(store.ready, store.revision, store.tree)
    BY DEF StreamInv, UpToDate
  <2>2. store.ready = TRUE /\ store.revision = revision
    BY DEF StampInv
  <2>3. page[c] = View!BuildStateView(TRUE, revision, store.tree)
    BY <2>1, <2>2
  <2>4. PICK tree, items, loaded : tree = store.tree /\ items = etcd /\ loaded = View!LoadSnapshot(items)
    OBVIOUS
  <2>5. items = View!Items(tree)
    BY <2>4, CopyIsCurrent
  <2>6. TreeInv(tree) /\ Rooted(tree, DOMAIN items)
    BY <2>4 DEF ViewInv
  <2>7. DOMAIN items \subseteq Keys /\ \A k \in DOMAIN items : Grounded(k, DOMAIN items)
    BY <2>4 DEF ViewInv, GroundedInv, JInv, KnownKeys
  <2>8. TreeInv(loaded)
    BY <2>4, <2>7, LoadTree
  <2>9. Rooted(loaded, DOMAIN items)
    BY <2>4, <2>7, LoadTree
  <2>10. items = View!Items(loaded)
    <3>1. items = [k \in DOMAIN items |-> items[k]]
      BY <2>4 DEF CopyInv, EtcdIsMap
    <3>2. \A k \in DOMAIN items : IsPath(k)
      BY <2>7, KeyPaths
    <3> QED BY <2>4, <3>1, <3>2, SnapshotItems
  <2>11. \A k : View!Get(tree, k) = View!Get(loaded, k)
    BY <2>5, <2>6, <2>8, <2>10, GetOfItems
  <2>12. \A k \in DOMAIN items : View!Get(tree, k) # {}
    BY <2>5, <2>6, GetOfItems
  <2>13. SameTrees(tree, loaded)
    BY <2>6, <2>8, <2>9, <2>11, <2>12, SameDocuments
  <2>14. View!BuildStateView(TRUE, revision, tree) = View!BuildStateView(TRUE, revision, loaded)
    BY <2>13, SameView
  <2> QED BY <2>3, <2>4, <2>14
<1> QED BY <1>1, SeedingInvariant, CopyInvariant, ViewInvariant, StreamInvariant, PTL

=============================================================================
