---------------------------- MODULE StartupProofs ----------------------------
(***************************************************************************)
(* Proofs about the seeding of etcd (Bootstrap, Startup), for any nodes    *)
(* and files whose names the layout of the keys does not use, any number   *)
(* of starts and writes, and deaths anywhere.                              *)
(***************************************************************************)
EXTENDS Startup, FiniteSetTheorems, TLAPS

USE BootstrapAssumption, NamesAssumption

\* The config document of a management group.
IsGroupConfig(k) == Len(k) = 4 /\ k[1] = "config" /\ k[2] = "cluster_groups" /\ k[4] # "_meta"
IsDesired(k) == Last(k) = "desired"

(***************************************************************************)
(* Keys                                                                    *)
(***************************************************************************)
\* The last name of a key.
LEMMA LastOfPair == \A a, b : Last(<<a, b>>) = b
BY DEF Last

\* The same of longer keys.
LEMMA LastOfThree == \A a, b, c : Last(<<a, b, c>>) = c
BY DEF Last

\* The same of the keys of groups.
LEMMA LastOfFour == \A a, b, c, d : Last(<<a, b, c, d>>) = d
BY DEF Last

\* Of the config keys only a management group's is one, and none is a desired
\* key if the names are proper.
LEMMA ConfigKinds ==
    /\ ~IsGroupConfig(ConfigMeta) /\ ~IsDesired(ConfigMeta)
    /\ \A g : ~IsGroupConfig(ConfigClusterGroupMeta(g)) /\ ~IsDesired(ConfigClusterGroupMeta(g))
    /\ \A r : ~IsGroupConfig(ConfigRole(r)) /\ (r \notin Reserved => ~IsDesired(ConfigRole(r)))
    /\ \A n : ~IsGroupConfig(ConfigNode(n)) /\ (n \notin Reserved => ~IsDesired(ConfigNode(n)))
    /\ \A g, m :
          /\ m # "_meta" => IsGroupConfig(ManagementGroupConfig(g, m))
          /\ m \notin Reserved => ~IsDesired(ManagementGroupConfig(g, m))
    /\ \A g, m : ~IsGroupConfig(Desired(g, m)) /\ IsDesired(Desired(g, m))
BY LastOfPair, LastOfThree, LastOfFour
   DEF IsGroupConfig, IsDesired, Reserved, ConfigMeta, ConfigClusterGroupMeta, ConfigRole,
       ConfigNode, ManagementGroupConfig, Desired

\* The key of a report begins with its group's name and ends with its kind.
LEMMA ReportKey ==
    ASSUME NEW g, NEW m, NEW n, NEW r, NEW kind
    PROVE  RoleReport(g, m, n, r, kind)[1] = g /\ Last(RoleReport(g, m, n, r, kind)) = kind
BY LastOfFour DEF RoleReport, Last

\* What a node may have put under a lease is neither a config document nor a
\* desired one.
LEMMA LeasedKinds ==
    ASSUME NEW n \in Nodes, NEW k \in LeasedKeys[n]
    PROVE  k[1] # "config" /\ ~IsDesired(k) /\ ~IsGroupConfig(k)
<1>1. ASSUME NEW c, Proper(c), k \in ReportKeys(n, c)
      PROVE  k[1] # "config" /\ ~IsDesired(k)
  <2>1. PICK at \in Memberships(c) :
          \E r \in c.management_groups[at].roles, kind \in {"actual", "health"} :
              k = RoleReport(at[1], at[2], n, r, kind)
    BY <1>1 DEF ReportKeys
  <2>2. at[1] \notin Reserved
    BY <1>1 DEF Proper
  <2> QED BY <2>1, <2>2, ReportKey DEF IsDesired, Reserved
<1>2. CASE k = Session(n)
  BY <1>2, LastOfPair DEF Session, IsDesired, IsGroupConfig, Reserved
<1>3. CASE k # Session(n)
  <2>1. PICK file \in Files[n] : k \in ReportKeys(n, LoadConfig(file))
    BY <1>3 DEF LeasedKeys
  <2> QED BY <1>1, <2>1 DEF IsGroupConfig
<1> QED BY <1>2, <1>3

\* Nor is a node's registration.
LEMMA RegistryKind == ASSUME NEW n \in Nodes PROVE ~IsDesired(Registry(n)) /\ ~IsGroupConfig(Registry(n))
BY LastOfPair DEF Registry, IsDesired, IsGroupConfig, Reserved

(***************************************************************************)
(* The order of the seeds                                                  *)
(***************************************************************************)
Configs(n) == {LoadConfig(file) : file \in Files[n]}

\* The seeds of a node.
Seeds(c, n) ==
    {ConfigMeta, ConfigNode(n)}
    \cup {ConfigClusterGroupMeta(g) : g \in DOMAIN c.groups}
    \cup {ConfigRole(r) : r \in DOMAIN c.roles}
    \cup {ManagementGroupConfig(at[1], at[2]) : at \in Memberships(c)}
    \cup {Desired(at[1], at[2]) : at \in Memberships(c)}

\* The key is there when stage i is put, if no stage is left out.
Sown(t, i, k) == Has(k) \/ \E j \in 1..i - 1 : k \in t[j]

\* Roles before the groups that name them, a group's config before its desired.
Ordered(c, n, t) ==
    /\ t \in Seq(SUBSET Seeds(c, n))
    /\ \A i \in 1..Len(t), at \in Memberships(c) :
        /\ ManagementGroupConfig(at[1], at[2]) \in t[i] =>
                \A r \in c.management_groups[at].roles : Sown(t, i, ConfigRole(r))
        /\ Desired(at[1], at[2]) \in t[i] => Sown(t, i, ManagementGroupConfig(at[1], at[2]))

\* A file is valid and proper.
LEMMA ConfigFacts ==
    ASSUME NEW n \in Nodes, NEW c \in Configs(n)
    PROVE  Valid(c) /\ Proper(c)
BY DEF Configs

\* A membership's config has the index before its desired.
LEMMA EvenIndex ==
    ASSUME NEW len \in Nat, NEW j \in 1..2 * len, j % 2 # 1
    PROVE  j - 1 \in 1..2 * len /\ (j - 1) % 2 = 1 /\ ((j - 1) + 1) \div 2 = (j + 1) \div 2
OBVIOUS

\* Ensure's first stages, for the whole cluster and the node, and the rest.
FirstStages(c, n) ==
    <<{ConfigMeta}, {ConfigClusterGroupMeta(g) : g \in DOMAIN c.groups},
      {ConfigRole(r) : r \in DOMAIN c.roles}, {ConfigNode(n)}>>

MembershipStages(ms) ==
    [i \in 1..2 * Len(ms) |->
        {IF i % 2 = 1 THEN ManagementGroupConfig(ms[(i + 1) \div 2][1], ms[(i + 1) \div 2][2])
         ELSE Desired(ms[(i + 1) \div 2][1], ms[(i + 1) \div 2][2])}]

Joined(t, first, own, len) ==
    /\ Len(t) = 4 + 2 * len
    /\ \A i \in 1..4 : t[i] = first[i]
    /\ \A i \in 5..4 + 2 * len : t[i] = own[i - 4]

\* These are its stages.
LEMMA StagesShape ==
    ASSUME NEW n \in Nodes, NEW c \in Configs(n), NEW ms, ms = c.node.memberships,
           NEW t, t = Stages(c, n)
    PROVE  /\ ms \in Seq(Memberships(c)) /\ Len(ms) \in Nat
           /\ \A i \in 1..2 * Len(ms) : ms[(i + 1) \div 2] \in Memberships(c)
           /\ t \in Seq(SUBSET Seeds(c, n))
           /\ Joined(t, FirstStages(c, n), MembershipStages(ms), Len(ms))
<1> DEFINE mem(i) == ms[(i + 1) \div 2]
           S == SUBSET Seeds(c, n)
           first == FirstStages(c, n)
           own == MembershipStages(ms)
<1>1. /\ ms \in Seq(Memberships(c)) /\ Len(ms) \in Nat
      /\ \A i \in 1..2 * Len(ms) : mem(i) \in Memberships(c)
  <2>1. ms \in Seq(Memberships(c))
    BY ConfigFacts DEF Proper
  <2>2. \A i \in 1..2 * Len(ms) : (i + 1) \div 2 \in 1..Len(ms)
    BY <2>1
  <2> QED BY <2>1, <2>2
<1>2. first \in Seq(S) /\ Len(first) = 4
  BY DEF Seeds, FirstStages
<1>3. own \in Seq(S) /\ Len(own) = 2 * Len(ms)
  <2>1. \A i \in 1..2 * Len(ms) : own[i] \in S
    BY <1>1 DEF Seeds, MembershipStages
  <2> HIDE DEF S, own
  <2>2. own = [i \in 1..2 * Len(ms) |-> own[i]] /\ 2 * Len(ms) \in Nat
    BY <1>1 DEF own, MembershipStages
  <2> QED BY <2>1, <2>2
<1>4. t = first \o own
  BY DEF Stages, FirstStages, MembershipStages
<1>5. /\ t \in Seq(S) /\ Len(t) = 4 + 2 * Len(ms)
      /\ \A i \in 1..4 : t[i] = first[i]
      /\ \A i \in 5..4 + 2 * Len(ms) : t[i] = own[i - 4]
  <2> HIDE DEF first, own, S
  <2>1. first \in Seq(S) /\ own \in Seq(S) /\ t = first \o own
    BY <1>2, <1>3, <1>4
  <2>2. t \in Seq(S) /\ Len(t) = Len(first) + Len(own)
    BY <2>1
  <2>3. \A i \in 1..Len(first) : t[i] = first[i]
    BY <2>1
  <2>4. \A i \in Len(first) + 1..Len(first) + Len(own) : t[i] = own[i - Len(first)]
    BY <2>1
  <2>5. Len(first) = 4 /\ Len(own) = 2 * Len(ms) /\ Len(ms) \in Nat
    BY <1>1, <1>2, <1>3
  <2>6. t \in Seq(S) /\ Len(t) = 4 + 2 * Len(ms)
    BY <2>2, <2>5
  <2>7. \A i \in 1..4 : t[i] = first[i]
    BY <2>3, <2>5
  <2>8. \A i \in 5..4 + 2 * Len(ms) : t[i] = own[i - 4]
    <3>1. Len(first) + 1 = 5 /\ Len(first) + Len(own) = 4 + 2 * Len(ms)
      BY <2>5
    <3> QED BY <2>4, <2>5, <3>1
  <2> QED BY <2>6, <2>7, <2>8
<1>6. Joined(t, first, own, Len(ms))
  <2> HIDE DEF first, own
  <2> QED BY <1>5 DEF Joined
<1> QED BY <1>1, <1>5, <1>6

\* They are in this order.
LEMMA OrderedStages ==
    ASSUME NEW n \in Nodes, NEW c \in Configs(n)
    PROVE  Ordered(c, n, Stages(c, n))
<1> SUFFICES ASSUME NEW ms, ms = c.node.memberships, NEW t, t = Stages(c, n)
             PROVE  Ordered(c, n, t)
  OBVIOUS
<1> DEFINE mem(i) == ms[(i + 1) \div 2]
           S == SUBSET Seeds(c, n)
           first == FirstStages(c, n)
           own == MembershipStages(ms)
<1>1. /\ ms \in Seq(Memberships(c)) /\ Len(ms) \in Nat
      /\ \A i \in 1..2 * Len(ms) : mem(i) \in Memberships(c)
  BY StagesShape
<1>2. /\ t \in Seq(S) /\ Len(t) = 4 + 2 * Len(ms)
      /\ \A i \in 1..4 : t[i] = first[i]
      /\ \A i \in 5..4 + 2 * Len(ms) : t[i] = own[i - 4]
  <2>1. t \in Seq(S) /\ Joined(t, first, own, Len(ms))
    BY StagesShape
  <2> HIDE DEF first, own
  <2> QED BY <2>1 DEF Joined
<1>3. ASSUME NEW i \in 1..4, NEW k \in t[i] PROVE ~IsGroupConfig(k) /\ ~IsDesired(k)
  <2>1. DOMAIN c.roles \cap Reserved = {} /\ n \notin Reserved
    BY ConfigFacts DEF Proper
  <2>2. k \in first[i]
    BY <1>2, <1>3
  <2>3. \/ k = ConfigMeta
        \/ \E g : k = ConfigClusterGroupMeta(g)
        \/ \E r \in DOMAIN c.roles : k = ConfigRole(r)
        \/ k = ConfigNode(n)
    BY <2>2 DEF FirstStages
  <2> QED BY <2>1, <2>3, ConfigKinds
<1>4. ASSUME NEW at \in Memberships(c)
      PROVE  /\ IsGroupConfig(ManagementGroupConfig(at[1], at[2]))
             /\ ~IsDesired(ManagementGroupConfig(at[1], at[2]))
             /\ IsDesired(Desired(at[1], at[2]))
             /\ c.management_groups[at].roles \subseteq DOMAIN c.roles
  <2>1. at[2] \notin Reserved /\ at[2] # "_meta" /\ at = <<at[1], at[2]>>
    <3>1. at[2] \notin Reserved /\ at = <<at[1], at[2]>>
      BY ConfigFacts DEF Proper
    <3>2. "_meta" \in Reserved
      BY DEF Reserved
    <3> QED BY <3>1, <3>2
  <2>2. ValidMembership(c, at[1], at[2])
    BY ConfigFacts DEF Valid
  <2> QED BY <2>1, <2>2, ConfigKinds DEF ValidMembership
<1>5. ASSUME NEW i \in 1..Len(t), NEW at \in Memberships(c),
             ManagementGroupConfig(at[1], at[2]) \in t[i],
             NEW r \in c.management_groups[at].roles
      PROVE  Sown(t, i, ConfigRole(r))
  <2>1. i \notin 1..4
    BY <1>3, <1>4, <1>5
  <2>2. t[3] = {ConfigRole(q) : q \in DOMAIN c.roles}
    BY <1>2 DEF FirstStages
  <2>3. ConfigRole(r) \in t[3]
    BY <1>4, <2>2
  <2>4. 3 \in 1..i - 1
    BY <1>1, <1>2, <1>5, <2>1
  <2> QED BY <2>3, <2>4 DEF Sown
<1>6. ASSUME NEW i \in 1..Len(t), NEW at \in Memberships(c),
             Desired(at[1], at[2]) \in t[i]
      PROVE  Sown(t, i, ManagementGroupConfig(at[1], at[2]))
  <2> DEFINE j == i - 4
  <2>1. i \notin 1..4
    BY <1>3, <1>4, <1>6
  <2>2. i \in 5..4 + 2 * Len(ms) /\ j \in 1..2 * Len(ms) /\ t[i] = own[j]
    <3> HIDE DEF own
    <3>1. Len(t) = 4 + 2 * Len(ms) /\ Len(ms) \in Nat
      BY <1>1, <1>2
    <3>2. i \in 5..4 + 2 * Len(ms) /\ j \in 1..2 * Len(ms)
      BY <2>1, <3>1
    <3>3. t[i] = own[i - 4]
      BY <1>2, <3>2
    <3> QED BY <3>2, <3>3
  <2>3. j % 2 # 1
    <3>1. CASE j % 2 = 1
      <4>1. Desired(at[1], at[2]) = ManagementGroupConfig(mem(j)[1], mem(j)[2])
        BY <1>6, <2>2, <3>1 DEF MembershipStages
      <4> QED BY <1>1, <1>4, <2>2, <4>1
    <3> QED BY <3>1
  <2>4. Desired(at[1], at[2]) = Desired(mem(j)[1], mem(j)[2])
    BY <1>6, <2>2, <2>3 DEF MembershipStages
  <2>5. at[1] = mem(j)[1] /\ at[2] = mem(j)[2]
    <3> HIDE DEF mem
    <3> QED BY <2>4 DEF Desired
  <2>6. /\ i - 1 \in 5..4 + 2 * Len(ms) /\ (i - 1) - 4 = j - 1 /\ j - 1 \in 1..2 * Len(ms)
        /\ (j - 1) % 2 = 1 /\ ((j - 1) + 1) \div 2 = (j + 1) \div 2
    <3> HIDE DEF own
    <3>1. Len(ms) \in Nat /\ i \in Int
      BY <1>1, <2>2
    <3>2. j - 1 \in 1..2 * Len(ms) /\ (j - 1) % 2 = 1 /\ ((j - 1) + 1) \div 2 = (j + 1) \div 2
      BY <2>2, <2>3, <3>1, EvenIndex
    <3>3. i - 1 \in 5..4 + 2 * Len(ms) /\ (i - 1) - 4 = j - 1
      <4>1. j - 1 \in 1..2 * Len(ms)
        BY <3>2
      <4> QED BY <3>1, <4>1
    <3> QED BY <3>2, <3>3
  <2>7. t[i - 1] = own[j - 1] /\ own[j - 1] = {ManagementGroupConfig(mem(j - 1)[1], mem(j - 1)[2])}
    BY <1>2, <2>6 DEF MembershipStages
  <2>8. mem(j - 1) = mem(j)
    BY <2>6
  <2>9. ManagementGroupConfig(at[1], at[2]) \in t[i - 1]
    BY <2>5, <2>7, <2>8
  <2>10. i - 1 \in 1..i - 1
    BY <2>2
  <2> QED BY <2>9, <2>10 DEF Sown
<1> QED BY <1>2, <1>5, <1>6 DEF Ordered

\* Config documents are never removed.
Stay == \A k \in DOMAIN etcd : k[1] = "config" => k \in DOMAIN etcd'

\* What was there, or to come, still is.
LEMMA OrderedStays ==
    ASSUME NEW c, NEW n, NEW t, Ordered(c, n, t), Stay
    PROVE  Ordered(c, n, t)'
<1>1. \A k : k[1] = "config" /\ Has(k) => Has(k)'
  BY DEF Stay, Has
<1>2. ASSUME NEW i \in 1..Len(t), NEW k, k[1] = "config", Sown(t, i, k) PROVE Sown(t, i, k)'
  BY <1>1, <1>2 DEF Sown
<1>3. \A r : ConfigRole(r)[1] = "config"
  BY DEF ConfigRole
<1>4. \A g, m : ManagementGroupConfig(g, m)[1] = "config"
  BY DEF ManagementGroupConfig
<1> QED BY <1>2, <1>3, <1>4 DEF Ordered

\* A seed of the first stage is put, or was there already.
LEMMA OrderedPop ==
    ASSUME NEW c, NEW n, NEW t, Ordered(c, n, t), Stay, t # <<>>,
           NEW key \in Head(t), Has(key)',
           NEW u, u = IF Head(t) = {key} THEN Tail(t) ELSE <<Head(t) \ {key}>> \o Tail(t)
    PROVE  Ordered(c, n, u)'
<1> DEFINE S == SUBSET Seeds(c, n)
<1>1. t \in Seq(S) /\ Ordered(c, n, t)'
  BY OrderedStays DEF Ordered
<1>2. CASE Head(t) = {key}
  <2>1. u \in Seq(S) /\ Len(u) = Len(t) - 1 /\ \A i \in 1..Len(u) : i + 1 \in 1..Len(t) /\ u[i] = t[i + 1]
    <3> HIDE DEF S
    <3> QED BY <1>1, <1>2
  <2>2. t[1] = {key} /\ Len(t) \in Nat
    BY <1>1, <1>2
  <2>3. ASSUME NEW i \in 1..Len(u), NEW k, Sown(t, i + 1, k)' PROVE Sown(u, i, k)'
    <3>1. CASE Has(k)'
      BY <3>1 DEF Sown
    <3>2. CASE \E j \in 1..i : k \in t[j]
      <4>1. PICK j \in 1..i : k \in t[j]
        BY <3>2
      <4>2. CASE j = 1
        BY <2>2, <4>1, <4>2 DEF Sown
      <4>3. CASE j # 1
        <5>1. j - 1 \in 1..Len(u) /\ j - 1 \in 1..i - 1 /\ u[j - 1] = t[j]
          BY <2>1, <2>2, <4>3
        <5> QED BY <4>1, <5>1 DEF Sown
      <4> QED BY <4>2, <4>3
    <3>3. (i + 1) - 1 = i
      OBVIOUS
    <3> QED BY <2>3, <3>1, <3>2, <3>3 DEF Sown
  <2> QED BY <1>1, <2>1, <2>3 DEF Ordered
<1>3. CASE Head(t) # {key}
  <2>1. <<Head(t) \ {key}>> \in Seq(S) /\ Tail(t) \in Seq(S) /\ Len(t) \in Nat \ {0}
    BY <1>1
  <2>2. u = <<Head(t) \ {key}>> \o Tail(t)
    BY <1>3
  <2>3. u \in Seq(S) /\ Len(u) = Len(t)
    <3> HIDE DEF S
    <3> QED BY <1>1, <2>1, <2>2
  <2>4. u[1] = t[1] \ {key} /\ \A i \in 2..Len(t) : u[i] = t[i]
    <3> HIDE DEF S
    <3> QED BY <1>1, <2>1, <2>2
  <2>5. ASSUME NEW i \in 1..Len(u), NEW k, Sown(t, i, k)' PROVE Sown(u, i, k)'
    <3>1. CASE Has(k)'
      BY <3>1 DEF Sown
    <3>2. ASSUME NEW j \in 1..i - 1, k \in t[j], ~Has(k)' PROVE k \in u[j]
      BY <2>3, <2>4, <3>2
    <3> QED BY <2>5, <3>1, <3>2 DEF Sown
  <2>6. \A i \in 1..Len(u) : u[i] \subseteq t[i]
    BY <2>3, <2>4
  <2> QED BY <1>1, <2>3, <2>5, <2>6 DEF Ordered
<1> QED BY <1>2, <1>3

(***************************************************************************)
(* The documents                                                           *)
(***************************************************************************)
\* Every desired document's group has its config.
DesiredDocs ==
    \A k \in DOMAIN etcd : IsDesired(k) =>
        /\ k[1] # "config" /\ k[2] # "_meta"
        /\ Has(ManagementGroupConfig(k[1], k[2]))

\* Every group's roles have theirs.
GroupDocs ==
    \A k \in DOMAIN etcd : IsGroupConfig(k) =>
        /\ etcd[k] = [priority |-> etcd[k].priority, roles |-> etcd[k].roles]
        /\ \A r \in etcd[k].roles : Has(ConfigRole(r))

\* A put of a document that finds what it needs.
LEMMA PutKeeps ==
    ASSUME DesiredDocs, GroupDocs, NEW key, NEW doc, etcd' = Put(key, doc),
           IsDesired(key) => /\ key[1] # "config" /\ key[2] # "_meta"
                             /\ Has(ManagementGroupConfig(key[1], key[2])),
           IsGroupConfig(key) => /\ doc = [priority |-> doc.priority, roles |-> doc.roles]
                                 /\ \A r \in doc.roles : Has(ConfigRole(r))
    PROVE  DesiredDocs' /\ GroupDocs' /\ Stay /\ Has(key)'
<1>1. /\ DOMAIN etcd' = {key} \cup DOMAIN etcd
      /\ \A k \in DOMAIN etcd' : etcd'[k] = IF k = key THEN doc ELSE etcd[k]
  BY DEF Put
<1>2. \A k : Has(k) => Has(k)'
  BY <1>1 DEF Has
<1>3. DesiredDocs'
  BY <1>1, <1>2 DEF DesiredDocs
<1>4. GroupDocs'
  <2> SUFFICES ASSUME NEW k \in DOMAIN etcd', IsGroupConfig(k)
               PROVE  /\ etcd'[k] = [priority |-> etcd'[k].priority, roles |-> etcd'[k].roles]
                      /\ \A r \in etcd'[k].roles : Has(ConfigRole(r))'
    BY DEF GroupDocs
  <2>1. CASE k = key
    BY <1>1, <1>2, <2>1
  <2>2. CASE k # key
    BY <1>1, <1>2, <2>2 DEF GroupDocs
  <2> QED BY <2>1, <2>2
<1> QED BY <1>1, <1>3, <1>4 DEF Stay, Has

\* Nothing but leased keys is gone.
LEMMA ExpireKeeps ==
    ASSUME DesiredDocs, GroupDocs, NEW n \in Nodes, Expire(n)
    PROVE  DesiredDocs' /\ GroupDocs' /\ Stay
<1>1. PICK gone \in SUBSET LeasedKeys[n] : etcd' = Restrict(etcd, DOMAIN etcd \ gone)
  BY DEF Expire
<1>2. /\ DOMAIN etcd' = DOMAIN etcd \ gone
      /\ \A k \in DOMAIN etcd' : etcd'[k] = etcd[k]
  BY <1>1 DEF Restrict
<1>3. \A k : k[1] = "config" /\ Has(k) => Has(k)'
  BY <1>1, <1>2, LeasedKinds DEF Has
<1>4. (\A r : ConfigRole(r)[1] = "config") /\ \A g, m : ManagementGroupConfig(g, m)[1] = "config"
  BY DEF ConfigRole, ManagementGroupConfig
<1>5. DesiredDocs'
  BY <1>2, <1>3, <1>4 DEF DesiredDocs
<1>6. GroupDocs'
  BY <1>2, <1>3, <1>4 DEF GroupDocs
<1> QED BY <1>3, <1>5, <1>6 DEF Stay, Has

\* What a node seeds.
LEMMA SeedFacts ==
    ASSUME NEW n \in Nodes, NEW c \in Configs(n), NEW at \in Memberships(c)
    PROVE  /\ Seed(c, n, ManagementGroupConfig(at[1], at[2])) = c.management_groups[at]
           /\ LET group == c.management_groups[at]
              IN  group = [priority |-> group.priority, roles |-> group.roles]
<1> DEFINE key == ManagementGroupConfig(at[1], at[2])
<1>1. /\ at = <<at[1], at[2]>> /\ at[2] \notin Reserved
      /\ LET group == c.management_groups[at]
         IN  group = [priority |-> group.priority, roles |-> group.roles]
  BY ConfigFacts DEF Proper
<1>2. at[2] # "_meta"
  BY <1>1 DEF Reserved
<1>3. /\ key # ConfigMeta /\ key # ConfigNode(n) /\ key[1] = "config"
      /\ key[2] # "roles" /\ key[4] # "_meta" /\ key[3] = at[1] /\ key[4] = at[2]
  BY <1>2 DEF ManagementGroupConfig, ConfigMeta, ConfigNode
<1> QED BY <1>1, <1>3 DEF Seed

\* Every process has loaded one of its files and, while it seeds, has the rest
\* of its stages in their order.
Loaded ==
    /\ config = [n \in Nodes |-> config[n]]
    /\ \A n \in Nodes : config[n] \in Configs(n)
    /\ phase = [n \in Nodes |-> phase[n]]
    /\ todo = [n \in Nodes |-> todo[n]]

Order == \A n \in Nodes : phase[n] = "ensure" => Ordered(config[n], n, todo[n])

IInv == Loaded /\ Order /\ DesiredDocs /\ GroupDocs

\* A put that leaves the processes alone.
LEMMA WriteKeeps ==
    ASSUME IInv, UNCHANGED <<phase, config, todo>>, DesiredDocs', GroupDocs', Stay
    PROVE  IInv'
BY OrderedStays DEF IInv, Loaded, Order

\* A step of a process that leaves etcd alone.
LEMMA ProcessKeeps ==
    ASSUME IInv, etcd' = etcd, Loaded',
           \A n \in Nodes : phase'[n] = "ensure" =>
                \/ phase[n] = "ensure" /\ config'[n] = config[n] /\ todo'[n] = todo[n]
                \/ Ordered(config'[n], n, todo'[n])
    PROVE  IInv'
<1>1. DesiredDocs' /\ GroupDocs' /\ Stay
  BY DEF IInv, DesiredDocs, GroupDocs, Stay, Has
<1>2. ASSUME NEW c, NEW n, NEW t, Ordered(c, n, t) PROVE Ordered(c, n, t)'
  BY <1>1, <1>2, OrderedStays
<1>3. ASSUME NEW n \in Nodes, phase'[n] = "ensure", NEW c, c = config'[n], NEW t, t = todo'[n]
      PROVE  Ordered(c, n, t)'
  <2>1. Ordered(c, n, t)
    BY <1>3 DEF IInv, Order
  <2> QED BY <1>2, <2>1
<1>4. Order'
  BY <1>3 DEF Order
<1> QED BY <1>1, <1>4 DEF IInv

\* Ensure puts the next seed, unless another node has.
LEMMA EnsureKeeps == ASSUME IInv, NEW n \in Nodes, Ensure(n) PROVE IInv'
<1> SUFFICES ASSUME NEW c, c = config[n], NEW t, t = todo[n] PROVE IInv'
  OBVIOUS
<1>1. PICK key \in Head(t) :
        /\ etcd' = PutIfAbsent(n, key)
        /\ todo' = [todo EXCEPT ![n] = IF Head(@) = {key} THEN Tail(@)
                                       ELSE <<Head(@) \ {key}>> \o Tail(@)]
  BY DEF Ensure
<1>2. /\ c \in Configs(n) /\ Ordered(c, n, t) /\ t # <<>> /\ UNCHANGED <<phase, config>>
      /\ t \in Seq(SUBSET Seeds(c, n))
  BY DEF Ensure, IInv, Loaded, Order, Ordered
<1>3. 1 \in 1..Len(t) /\ t[1] = Head(t) /\ key \in Seeds(c, n)
  BY <1>2
<1>4. \A k : Sown(t, 1, k) => Has(k)
  BY DEF Sown
<1>5. n \notin Reserved /\ DOMAIN c.roles \cap Reserved = {}
  BY <1>2, ConfigFacts DEF Proper
<1>6. ASSUME NEW at \in Memberships(c), key = Desired(at[1], at[2])
      PROVE  /\ ~IsGroupConfig(key) /\ key[1] # "config" /\ key[2] # "_meta"
             /\ Has(ManagementGroupConfig(key[1], key[2]))
  <2>1. at[1] \notin Reserved /\ at[2] \notin Reserved
    BY <1>2, ConfigFacts DEF Proper
  <2>2. Has(ManagementGroupConfig(at[1], at[2]))
    BY <1>1, <1>2, <1>3, <1>4, <1>6 DEF Ordered
  <2> QED BY <1>6, <2>1, <2>2, ConfigKinds DEF Desired, Reserved
<1>7. ASSUME NEW at \in Memberships(c), key = ManagementGroupConfig(at[1], at[2])
      PROVE  LET doc == Seed(c, n, key)
             IN  /\ ~IsDesired(key)
                 /\ doc = [priority |-> doc.priority, roles |-> doc.roles]
                 /\ \A r \in doc.roles : Has(ConfigRole(r))
  <2>1. at[2] \notin Reserved
    BY <1>2, ConfigFacts DEF Proper
  <2>2. \A r \in c.management_groups[at].roles : Has(ConfigRole(r))
    BY <1>1, <1>2, <1>3, <1>4, <1>7 DEF Ordered
  <2>3. Seed(c, n, ManagementGroupConfig(at[1], at[2])) = c.management_groups[at]
    BY <1>2, SeedFacts
  <2>4. LET group == c.management_groups[at]
        IN  group = [priority |-> group.priority, roles |-> group.roles]
    BY <1>2, SeedFacts
  <2> QED BY <1>7, <2>1, <2>2, <2>3, <2>4, ConfigKinds
<1>8. DesiredDocs' /\ GroupDocs' /\ Stay /\ Has(key)'
  <2>1. CASE etcd' = etcd /\ Has(key)
    BY <2>1 DEF IInv, DesiredDocs, GroupDocs, Stay, Has
  <2>2. CASE etcd' = Put(key, Seed(c, n, key))
    <3> DEFINE doc == Seed(c, n, key)
    <3>1. /\ IsDesired(key) => /\ key[1] # "config" /\ key[2] # "_meta"
                               /\ Has(ManagementGroupConfig(key[1], key[2]))
          /\ IsGroupConfig(key) => /\ doc = [priority |-> doc.priority, roles |-> doc.roles]
                                   /\ \A r \in doc.roles : Has(ConfigRole(r))
      <4>1. CASE \E at \in Memberships(c) : key = Desired(at[1], at[2])
        BY <1>6, <4>1
      <4>2. CASE \E at \in Memberships(c) : key = ManagementGroupConfig(at[1], at[2])
        BY <1>7, <4>2
      <4>3. CASE \/ key = ConfigMeta \/ key = ConfigNode(n)
                 \/ \E g : key = ConfigClusterGroupMeta(g)
                 \/ \E r \in DOMAIN c.roles : key = ConfigRole(r)
        BY <1>5, <4>3, ConfigKinds
      <4> QED BY <1>3, <4>1, <4>2, <4>3 DEF Seeds
    <3> HIDE DEF doc
    <3>2. etcd' = Put(key, doc)
      BY <2>2 DEF doc
    <3> QED BY <3>1, <3>2, PutKeeps DEF IInv
  <2> QED BY <1>1, <2>1, <2>2 DEF PutIfAbsent
<1>9. ASSUME NEW m \in Nodes, phase[m] = "ensure", NEW d, d = config[m], NEW u, u = todo'[m]
      PROVE  Ordered(d, m, u)'
  <2>1. CASE m = n
    <3>1. d = c /\ u = IF Head(t) = {key} THEN Tail(t) ELSE <<Head(t) \ {key}>> \o Tail(t)
      BY <1>1, <1>9, <2>1 DEF IInv, Loaded
    <3> QED BY <1>1, <1>2, <1>8, <2>1, <3>1, OrderedPop
  <2>2. CASE m # n
    <3>1. u = todo[m] /\ Ordered(d, m, u)
      BY <1>1, <1>9, <2>2 DEF IInv, Loaded, Order
    <3> QED BY <1>8, <3>1, OrderedStays
  <2> QED BY <2>1, <2>2
<1>10. Loaded' /\ Order'
  BY <1>1, <1>2, <1>9 DEF IInv, Loaded, Order
<1> QED BY <1>8, <1>10 DEF IInv

\* A step of the bootstrap or of those who write to etcd, whoever makes it.
BootStep ==
    \/ \E n \in Nodes :
        Start(n) \/ Connect(n) \/ Run(n) \/ Die(n) \/ Ensure(n) \/ Report(n) \/ Expire(n)
    \/ Operate \/ Prioritize
    \/ UNCHANGED bootVars

\* What the copy and the stream do is none of them.
LEMMA NextBoots == [Next]_vars => BootStep
<1> SUFFICES ASSUME [Next]_vars PROVE BootStep
  OBVIOUS
<1>1. CASE Apply \/ \E c \in Clients : Open(c) \/ ReadReady(c) \/ ReadRevision(c) \/ Send(c) \/ Wake(c)
  BY <1>1 DEF Apply, Open, ReadReady, ReadRevision, Send, Wake, Quiet, BootStep
<1>2. CASE LoadSnapshot \/ RunMe \/ DieMe
  BY <1>2, StartupAssumption DEF LoadSnapshot, RunMe, DieMe, BootStep
<1>3. CASE UNCHANGED vars
  BY <1>3 DEF vars, BootStep
<1> QED BY <1>1, <1>2, <1>3 DEF Next, BootStep

\* Operators write only what enables a group, or changes a priority.
LEMMA OperateKeeps == ASSUME IInv, Operate \/ Prioritize PROVE IInv'
<1>1. UNCHANGED <<phase, config, todo>>
  BY DEF Operate, Prioritize
<1>2. CASE Operate
  <2>1. PICK key \in DOMAIN etcd :
          IsDesired(key) /\ etcd' = Put(key, [state |-> "active", managed |-> TRUE])
    BY <1>2 DEF Operate, IsDesired
  <2>2. /\ key[1] # "config" /\ key[2] # "_meta"
        /\ Has(ManagementGroupConfig(key[1], key[2])) /\ ~IsGroupConfig(key)
    BY <2>1 DEF IInv, DesiredDocs, IsGroupConfig
  <2>3. DesiredDocs' /\ GroupDocs' /\ Stay
    BY <2>1, <2>2, PutKeeps DEF IInv
  <2> QED BY <1>1, <2>3, WriteKeeps
<1>3. CASE Prioritize
  <2>1. PICK key \in DOMAIN etcd : etcd' = Put(key, [etcd[key] EXCEPT !.priority = @ + 1])
    BY <1>3 DEF Prioritize
  <2> DEFINE doc == [etcd[key] EXCEPT !.priority = @ + 1]
  <2>2. IsDesired(key) => /\ key[1] # "config" /\ key[2] # "_meta"
                          /\ Has(ManagementGroupConfig(key[1], key[2]))
    BY DEF IInv, DesiredDocs
  <2>3. IsGroupConfig(key) => /\ doc = [priority |-> doc.priority, roles |-> doc.roles]
                              /\ \A r \in doc.roles : Has(ConfigRole(r))
    <3> SUFFICES ASSUME IsGroupConfig(key)
                 PROVE  /\ doc = [priority |-> doc.priority, roles |-> doc.roles]
                        /\ \A r \in doc.roles : Has(ConfigRole(r))
      OBVIOUS
    <3>1. /\ etcd[key] = [priority |-> etcd[key].priority, roles |-> etcd[key].roles]
          /\ \A r \in etcd[key].roles : Has(ConfigRole(r))
      BY DEF IInv, GroupDocs
    <3>2. doc = [priority |-> etcd[key].priority + 1, roles |-> etcd[key].roles]
      BY <3>1
    <3> QED BY <3>1, <3>2
  <2>4. DesiredDocs' /\ GroupDocs' /\ Stay
    <3> HIDE DEF doc
    <3>1. etcd' = Put(key, doc)
      BY <2>1 DEF doc
    <3> QED BY <2>2, <2>3, <3>1, PutKeeps DEF IInv
  <2> QED BY <1>1, <2>4, WriteKeeps
<1> QED BY <1>2, <1>3

\* Every step keeps the order.
LEMMA BootKeeps == IInv /\ BootStep => IInv'
<1> SUFFICES ASSUME IInv, BootStep PROVE IInv'
  OBVIOUS
<1>1. ASSUME NEW n \in Nodes, Start(n) PROVE IInv'
  <2>1. Loaded'
    BY <1>1 DEF Start, IInv, Loaded, Configs
  <2> QED BY <1>1, <2>1, ProcessKeeps DEF Start, IInv, Loaded
<1>2. ASSUME NEW n \in Nodes, Connect(n) PROVE IInv'
  <2>1. Loaded'
    BY <1>2 DEF Connect, IInv, Loaded
  <2>2. config[n] \in Configs(n) /\ config'[n] = config[n] /\ todo'[n] = Stages(config[n], n)
    BY <1>2 DEF Connect, IInv, Loaded
  <2>3. Ordered(config'[n], n, todo'[n])
    BY <2>2, OrderedStages
  <2> QED BY <1>2, <2>1, <2>3, ProcessKeeps DEF Connect, IInv, Loaded
<1>3. ASSUME NEW n \in Nodes, Run(n) \/ Die(n) PROVE IInv'
  <2>1. Loaded'
    BY <1>3 DEF Run, Die, IInv, Loaded
  <2> QED BY <1>3, <2>1, ProcessKeeps DEF Run, Die, IInv, Loaded
<1>4. ASSUME NEW n \in Nodes, Ensure(n) PROVE IInv'
  BY <1>4, EnsureKeeps
<1>5. ASSUME NEW n \in Nodes, Report(n) PROVE IInv'
  <2>1. PICK key \in {Registry(n)} \cup LeasedKeys[n] : etcd' = Put(key, [status |-> "passive"])
    BY <1>5 DEF Report, LeasedKeys, IInv, Loaded, Configs
  <2>2. ~IsDesired(key) /\ ~IsGroupConfig(key)
    BY <2>1, LeasedKinds, RegistryKind
  <2>3. DesiredDocs' /\ GroupDocs' /\ Stay
    BY <2>1, <2>2, PutKeeps DEF IInv
  <2> QED BY <1>5, <2>3, WriteKeeps DEF Report
<1>6. ASSUME NEW n \in Nodes, Expire(n) PROVE IInv'
  BY <1>6, ExpireKeeps, WriteKeeps DEF IInv, Expire
<1>7. CASE UNCHANGED bootVars
  <2>1. Loaded'
    BY <1>7 DEF bootVars, IInv, Loaded
  <2> QED BY <1>7, <2>1, ProcessKeeps DEF bootVars
<1> QED BY <1>1, <1>2, <1>3, <1>4, <1>5, <1>6, <1>7, OperateKeeps DEF BootStep

\* At the start there is nothing, and nobody runs.
LEMMA BootInitKeeps == Init => IInv
<1> SUFFICES ASSUME Init PROVE IInv
  OBVIOUS
<1>1. \A n \in Nodes : LoadConfig(CHOOSE file \in Files[n] : TRUE) \in Configs(n)
  BY DEF Configs
<1>2. Loaded /\ Order
  BY <1>1 DEF Init, BootInit, Loaded, Order
<1>3. DOMAIN etcd = {}
  BY DEF Init, BootInit
<1> QED BY <1>2, <1>3 DEF IInv, DesiredDocs, GroupDocs

\* Whoever seeds what, and wherever it dies, etcd never has a desired document
\* of a group without the group's config, nor a group's config without the
\* configs of its roles.
THEOREM GroupsAreCompleteAlways == Spec => []GroupsAreComplete
<1>1. IInv => GroupsAreComplete
  <2> SUFFICES ASSUME IInv, NEW k \in DOMAIN etcd, IsDesired(k)
               PROVE  /\ Has(ManagementGroupConfig(k[1], k[2]))
                      /\ \A r \in etcd[ManagementGroupConfig(k[1], k[2])].roles : Has(ConfigRole(r))
    BY DEF GroupsAreComplete, IsDesired
  <2>1. k[2] # "_meta" /\ Has(ManagementGroupConfig(k[1], k[2]))
    BY DEF IInv, DesiredDocs
  <2>2. IsGroupConfig(ManagementGroupConfig(k[1], k[2]))
    BY <2>1, ConfigKinds
  <2> QED BY <2>1, <2>2 DEF IInv, GroupDocs, Has
<1>2. IInv /\ [Next]_vars => IInv'
  BY NextBoots, BootKeeps
<1> QED BY <1>1, <1>2, BootInitKeeps, PTL DEF Spec

(***************************************************************************)
(* What operators have enabled                                             *)
(***************************************************************************)
\* Each group that is enabled will be after the step.
EnabledKept ==
    \A k \in DOMAIN etcd : IsDesired(k) /\ etcd[k].managed
        => k \in DOMAIN etcd' /\ etcd'[k].managed

\* A put of another document, or of one that enables, takes nothing back.
LEMMA PutEnabled ==
    ASSUME NEW key, NEW doc, etcd' = Put(key, doc),
           \/ ~Has(key) \/ ~IsDesired(key) \/ doc.managed
    PROVE  EnabledKept
<1>1. /\ DOMAIN etcd' = {key} \cup DOMAIN etcd
      /\ \A k \in DOMAIN etcd' : etcd'[k] = IF k = key THEN doc ELSE etcd[k]
  BY DEF Put
<1> QED BY <1>1 DEF EnabledKept, Has

\* No step of the bootstrap takes it back, nor one of those who write: Ensure
\* puts what is not there, and over what is there only the node's document.
LEMMA BootEnables == IInv /\ BootStep => EnabledKept
<1> SUFFICES ASSUME IInv, BootStep PROVE EnabledKept
  OBVIOUS
<1>1. CASE UNCHANGED etcd
  BY <1>1 DEF EnabledKept
<1>2. ASSUME NEW n \in Nodes, Ensure(n) PROVE EnabledKept
  <2>1. PICK key : etcd' = PutIfAbsent(n, key)
    BY <1>2 DEF Ensure
  <2>2. CASE etcd' = etcd
    BY <2>2, <1>1
  <2>3. CASE etcd' = Put(key, Seed(config[n], n, key)) /\ (~Has(key) \/ key = ConfigNode(n))
    <3>1. ~IsDesired(ConfigNode(n))
      BY ConfigKinds
    <3> QED BY <2>3, <3>1, PutEnabled
  <2> QED BY <2>1, <2>2, <2>3 DEF PutIfAbsent
<1>3. ASSUME NEW n \in Nodes, Report(n) PROVE EnabledKept
  BY <1>3, PutEnabled DEF Report
<1>4. ASSUME NEW n \in Nodes, Expire(n) PROVE EnabledKept
  <2>1. PICK gone \in SUBSET LeasedKeys[n] : etcd' = Restrict(etcd, DOMAIN etcd \ gone)
    BY <1>4 DEF Expire
  <2>2. /\ DOMAIN etcd' = DOMAIN etcd \ gone
        /\ \A k \in DOMAIN etcd' : etcd'[k] = etcd[k]
    BY <2>1 DEF Restrict
  <2> QED BY <2>2, LeasedKinds DEF EnabledKept
<1>5. CASE Operate
  <2>1. PICK key : etcd' = Put(key, [state |-> "active", managed |-> TRUE])
    BY <1>5 DEF Operate
  <2> QED BY <2>1, PutEnabled
<1>6. CASE Prioritize
  <2>1. PICK key \in DOMAIN etcd :
          key[1] = "config" /\ etcd' = Put(key, [etcd[key] EXCEPT !.priority = @ + 1])
    BY <1>6 DEF Prioritize
  <2>2. ~IsDesired(key)
    BY <2>1 DEF IInv, DesiredDocs
  <2> QED BY <2>1, <2>2, PutEnabled
<1> QED BY <1>1, <1>2, <1>3, <1>4, <1>5, <1>6
        DEF BootStep, Start, Connect, Run, Die, bootVars

\* Agents that start later, again or at the same time never take a group back
\* that an operator has enabled.
THEOREM EnabledStaysAlways == Spec => EnabledStays
<1>1. IInv /\ [Next]_vars => IInv'
  BY NextBoots, BootKeeps
<1>2. IInv /\ [Next]_vars =>
        [\A k \in DOMAIN etcd : Last(k) = "desired" /\ etcd[k].managed
            => k \in DOMAIN etcd' /\ etcd'[k].managed]_vars
  BY NextBoots, BootEnables DEF EnabledKept, IsDesired
<1> QED BY <1>1, <1>2, BootInitKeeps, PTL DEF Spec, EnabledStays

(***************************************************************************)
(* The shapes of the keys                                                  *)
(***************************************************************************)
\* A key is a sequence of at most five names.
IsPath(k) ==
    \/ Len(k) = 2 /\ k = <<k[1], k[2]>>
    \/ Len(k) = 3 /\ k = <<k[1], k[2], k[3]>>
    \/ Len(k) = 4 /\ k = <<k[1], k[2], k[3], k[4]>>
    \/ Len(k) = 5 /\ k = <<k[1], k[2], k[3], k[4], k[5]>>

\* The keys of a node's reports are.
LEMMA ReportPaths ==
    ASSUME NEW n, NEW c, NEW k \in ReportKeys(n, c)
    PROVE  IsPath(k)
<1>1. PICK g, m, r, kind : k = RoleReport(g, m, n, r, kind)
  BY DEF ReportKeys
<1> QED BY <1>1 DEF RoleReport, IsPath

\* What a node may have put under a lease is.
LEMMA LeasedPaths ==
    ASSUME NEW n \in Nodes, NEW k \in LeasedKeys[n]
    PROVE  IsPath(k)
<1>1. CASE k = Session(n)
  BY <1>1 DEF Session, IsPath
<1>2. CASE k # Session(n)
  <2>1. PICK file \in Files[n] : k \in ReportKeys(n, LoadConfig(file))
    BY <1>2 DEF LeasedKeys
  <2> QED BY <2>1, ReportPaths
<1> QED BY <1>1, <1>2

\* The seeds are.
LEMMA SeedPaths ==
    ASSUME NEW n, NEW c, NEW k \in Seeds(c, n)
    PROVE  IsPath(k)
BY DEF Seeds, IsPath, ConfigMeta, ConfigNode, ConfigRole, ConfigClusterGroupMeta,
       ManagementGroupConfig, Desired

\* No seed is under a lease: it is a config document or a desired one.
LEMMA SeedsUnleased ==
    ASSUME NEW n, NEW c, NEW k \in Seeds(c, n), NEW m \in Nodes
    PROVE  k \notin LeasedKeys[m]
<1>1. k[1] = "config" \/ IsDesired(k)
  BY LastOfThree DEF Seeds, IsDesired, ConfigMeta, ConfigNode, ConfigRole, ConfigClusterGroupMeta,
                     ManagementGroupConfig, Desired
<1> QED BY <1>1, LeasedKinds

\* The documents that a node seeds for the whole cluster, and its own.
LEMMA SeedDocs ==
    ASSUME NEW n \in Nodes, NEW c
    PROVE  /\ Seed(c, n, ConfigMeta) = c.cluster
           /\ Seed(c, n, ConfigNode(n)) = c.node
           /\ \A r : Seed(c, n, ConfigRole(r)) = c.roles[r]
           /\ \A g : Seed(c, n, ConfigClusterGroupMeta(g)) = c.groups[g]
<1>1. Seed(c, n, ConfigMeta) = c.cluster
  BY DEF Seed, ConfigMeta, ConfigNode
<1>2. Seed(c, n, ConfigNode(n)) = c.node
  BY DEF Seed, ConfigNode, ConfigMeta
<1>3. ASSUME NEW r PROVE Seed(c, n, ConfigRole(r)) = c.roles[r]
  BY DEF Seed, ConfigNode, ConfigMeta, ConfigRole
<1>4. ASSUME NEW g PROVE Seed(c, n, ConfigClusterGroupMeta(g)) = c.groups[g]
  BY DEF Seed, ConfigNode, ConfigMeta, ConfigClusterGroupMeta
<1> QED BY <1>1, <1>2, <1>3, <1>4

\* Every seed is in one of Ensure's stages.
LEMMA StagesSow ==
    ASSUME NEW n \in Nodes, NEW c \in Configs(n), NEW k \in Seeds(c, n)
    PROVE  \E i \in 1..Len(Stages(c, n)) : k \in Stages(c, n)[i]
<1> SUFFICES ASSUME NEW ms, ms = c.node.memberships, NEW t, t = Stages(c, n)
             PROVE  \E i \in 1..Len(t) : k \in t[i]
  OBVIOUS
<1> DEFINE mem(i) == ms[(i + 1) \div 2]
           first == FirstStages(c, n)
           own == MembershipStages(ms)
<1>1. ms \in Seq(Memberships(c)) /\ Len(ms) \in Nat /\ Memberships(c) = {ms[i] : i \in 1..Len(ms)}
  <2>1. Memberships(c) = {ms[i] : i \in DOMAIN ms}
    BY DEF Memberships, Range
  <2>2. ms \in Seq(Memberships(c))
    BY StagesShape
  <2> QED BY <2>1, <2>2
<1>2. /\ Len(t) = 4 + 2 * Len(ms)
      /\ \A i \in 1..4 : t[i] = first[i]
      /\ \A i \in 1..2 * Len(ms) : t[i + 4] = own[i]
  <2> HIDE DEF first, own
  <2>1. /\ Len(t) = 4 + 2 * Len(ms)
        /\ \A i \in 1..4 : t[i] = first[i]
        /\ \A i \in 5..4 + 2 * Len(ms) : t[i] = own[i - 4]
    <3>1. Joined(t, first, own, Len(ms))
      BY StagesShape DEF first, own
    <3> QED BY <3>1 DEF Joined
  <2>2. ASSUME NEW i \in 1..2 * Len(ms) PROVE t[i + 4] = own[i]
    <3>1. i + 4 \in 5..4 + 2 * Len(ms) /\ (i + 4) - 4 = i
      BY <1>1
    <3> QED BY <2>1, <3>1
  <2> QED BY <2>1, <2>2
<1>3. CASE \/ k = ConfigMeta \/ \E g \in DOMAIN c.groups : k = ConfigClusterGroupMeta(g)
           \/ \E r \in DOMAIN c.roles : k = ConfigRole(r)
           \/ k = ConfigNode(n)
  <2>1. \E i \in 1..4 : k \in first[i]
    BY <1>3 DEF FirstStages
  <2>2. \A i \in 1..4 : i \in 1..Len(t)
    BY <1>1, <1>2
  <2> HIDE DEF first
  <2> QED BY <1>2, <2>1, <2>2
<1>4. ASSUME NEW at \in Memberships(c),
             k = ManagementGroupConfig(at[1], at[2]) \/ k = Desired(at[1], at[2])
      PROVE  \E i \in 1..Len(t) : k \in t[i]
  <2>1. PICK i \in 1..Len(ms) : at = ms[i]
    BY <1>1
  <2>2. /\ 2 * i - 1 \in 1..2 * Len(ms) /\ (2 * i - 1) % 2 = 1 /\ ((2 * i - 1) + 1) \div 2 = i
        /\ 2 * i \in 1..2 * Len(ms) /\ (2 * i) % 2 # 1 /\ (2 * i + 1) \div 2 = i
    <3>1. i \in Nat /\ i >= 1 /\ i <= Len(ms)
      BY <1>1
    <3>2. 2 * i - 1 \in 1..2 * Len(ms) /\ 2 * i \in 1..2 * Len(ms)
      <4>1. \A x, l \in Nat : 1 <= x /\ x <= l => 2 * x - 1 \in 1..2 * l /\ 2 * x \in 1..2 * l
        OBVIOUS
      <4>2. Len(ms) \in Nat
        BY <1>1
      <4> QED BY <3>1, <4>1, <4>2
    <3>3. (2 * i - 1) % 2 = 1 /\ (2 * i) % 2 # 1
      <4>1. \A x \in Nat : (2 * x + 1) % 2 = 1
        OBVIOUS
      <4>2. \A x \in Nat : (2 * x) % 2 # 1
        OBVIOUS
      <4>3. i - 1 \in Nat /\ 2 * i - 1 = 2 * (i - 1) + 1
        BY <3>1
      <4> QED BY <3>1, <4>1, <4>2, <4>3
    <3>4. ((2 * i - 1) + 1) \div 2 = i /\ (2 * i + 1) \div 2 = i
      BY <3>1
    <3> QED BY <3>2, <3>3, <3>4
  <2>3. PICK j \in 1..2 * Len(ms) : k \in own[j]
    <3>1. mem(2 * i - 1) = at /\ mem(2 * i) = at
      BY <2>1, <2>2
    <3>2. /\ own[2 * i - 1] = {ManagementGroupConfig(mem(2 * i - 1)[1], mem(2 * i - 1)[2])}
          /\ own[2 * i] = {Desired(mem(2 * i)[1], mem(2 * i)[2])}
      BY <2>2 DEF MembershipStages
    <3> HIDE DEF own, mem
    <3> QED BY <1>4, <2>2, <3>1, <3>2
  <2>4. j + 4 \in 1..Len(t)
    <3> HIDE DEF own
    <3> QED BY <1>1, <1>2
  <2>5. k \in t[j + 4]
    <3> HIDE DEF own
    <3> QED BY <1>2, <2>3
  <2> QED BY <2>4, <2>5
<1> QED BY <1>3, <1>4 DEF Seeds

(***************************************************************************)
(* What a running node finds in etcd                                       *)
(***************************************************************************)
\* The config keys of different things are different.
LEMMA KeysApart ==
    /\ \A r, g, n : ConfigMeta \notin {ConfigRole(r), ConfigClusterGroupMeta(g), ConfigNode(n)}
    /\ \A r, g, n : ConfigRole(r) \notin {ConfigClusterGroupMeta(g), ConfigNode(n)}
    /\ \A g, n : ConfigClusterGroupMeta(g) # ConfigNode(n)
    /\ \A g, m, r, n : ManagementGroupConfig(g, m) \notin {ConfigMeta, ConfigRole(r), ConfigNode(n)}
    /\ \A g, m, h : m # "_meta" => ManagementGroupConfig(g, m) # ConfigClusterGroupMeta(h)
    /\ \A r, s : ConfigRole(r) = ConfigRole(s) => r = s
    /\ \A g, h : ConfigClusterGroupMeta(g) = ConfigClusterGroupMeta(h) => g = h
    /\ \A n, m : ConfigNode(n) = ConfigNode(m) => n = m
    /\ ConfigMeta[1] = "config"
    /\ \A r : ConfigRole(r)[1] = "config"
    /\ \A g : ConfigClusterGroupMeta(g)[1] = "config"
    /\ \A n : ConfigNode(n)[1] = "config"
    /\ \A g, m : ManagementGroupConfig(g, m)[1] = "config"
BY DEF ConfigMeta, ConfigRole, ConfigClusterGroupMeta, ConfigNode, ManagementGroupConfig

\* The kinds of a node's seeds.
LEMMA SeedKinds ==
    ASSUME NEW n \in Nodes, NEW c \in Configs(n), NEW k \in Seeds(c, n)
    PROVE  /\ k[1] = "config" \/ IsDesired(k)
           /\ k[1] = "config" =>
                \/ k = ConfigMeta
                \/ k = ConfigNode(n)
                \/ \E g \in DOMAIN c.groups : k = ConfigClusterGroupMeta(g)
                \/ \E r \in DOMAIN c.roles : k = ConfigRole(r)
                \/ \E at \in Memberships(c) :
                      /\ k = ManagementGroupConfig(at[1], at[2])
                      /\ IsGroupConfig(k)
                      /\ ValidMembership(c, at[1], at[2])
                      /\ c.management_groups[at].priority \in Int
                      /\ at = <<at[1], at[2]>>
<1>1. ASSUME NEW at \in Memberships(c)
      PROVE  /\ Desired(at[1], at[2])[1] # "config"
             /\ IsDesired(Desired(at[1], at[2]))
             /\ IsGroupConfig(ManagementGroupConfig(at[1], at[2]))
             /\ ValidMembership(c, at[1], at[2])
             /\ c.management_groups[at].priority \in Int
             /\ at = <<at[1], at[2]>>
  <2>1. Valid(c) /\ at[1] \notin Reserved /\ at[2] \notin Reserved
    BY ConfigFacts DEF Proper
  <2>2. at[2] # "_meta" /\ at[1] # "config"
    BY <2>1 DEF Reserved
  <2>3. c.management_groups[at].priority \in Int /\ at = <<at[1], at[2]>>
    BY ConfigFacts DEF Proper
  <2> QED BY <2>1, <2>2, <2>3, ConfigKinds DEF Valid, Desired
<1> QED BY <1>1, KeysApart DEF Seeds

\* A seed of one of the stages.
Pending(t, k) == \E i \in 1..Len(t) : k \in t[i]

\* Those that are not the next one remain.
LEMMA PopPending ==
    ASSUME NEW S, NEW t \in Seq(SUBSET S), t # <<>>, NEW key \in Head(t), NEW k, k # key, Pending(t, k),
           NEW u, u = IF Head(t) = {key} THEN Tail(t) ELSE <<Head(t) \ {key}>> \o Tail(t)
    PROVE  Pending(u, k)
<1>1. PICK i \in 1..Len(t) : k \in t[i]
  BY DEF Pending
<1>2. CASE Head(t) = {key}
  <2>1. i # 1 /\ u = Tail(t)
    BY <1>1, <1>2
  <2>2. i - 1 \in 1..Len(u) /\ u[i - 1] = t[i]
    BY <1>1, <2>1
  <2> QED BY <1>1, <2>2 DEF Pending
<1>3. CASE Head(t) # {key}
  <2>1. <<Head(t) \ {key}>> \in Seq(SUBSET S) /\ Tail(t) \in Seq(SUBSET S) /\ Len(t) \in Nat \ {0}
    OBVIOUS
  <2>2. u = <<Head(t) \ {key}>> \o Tail(t)
    BY <1>3
  <2>3. Len(u) = Len(t) /\ u[1] = Head(t) \ {key} /\ \A j \in 2..Len(t) : u[j] = t[j]
    <3> SUFFICES ASSUME NEW V, V = SUBSET S
                 PROVE  Len(u) = Len(t) /\ u[1] = Head(t) \ {key} /\ \A j \in 2..Len(t) : u[j] = t[j]
      OBVIOUS
    <3>1. <<Head(t) \ {key}>> \in Seq(V) /\ Tail(t) \in Seq(V) /\ t \in Seq(V)
      BY <2>1
    <3> QED BY <3>1, <2>1, <2>2
  <2>4. k \in u[i]
    BY <1>1, <2>3
  <2> QED BY <1>1, <2>3, <2>4 DEF Pending
<1> QED BY <1>2, <1>3

\* The keys there are, finitely many.
KnownKeys == DOMAIN etcd \subseteq Keys /\ IsFiniteSet(DOMAIN etcd)

\* Of a node that is past its start every seed is there or to come, and if its
\* own document is not to come it says what the file says.
Sowing ==
    \A n \in Nodes :
        /\ phase[n] = "run" => todo[n] = <<>>
        /\ phase[n] \in {"ensure", "run"} =>
            /\ \A k \in Seeds(config[n], n) : Has(k) \/ Pending(todo[n], k)
            /\ \/ Pending(todo[n], ConfigNode(n))
               \/ Has(ConfigNode(n)) /\ etcd[ConfigNode(n)] = config[n].node

\* The cluster's documents are those of files, and groups keep a priority
\* and roles.
FileDocs ==
    /\ Has(ConfigMeta) =>
        \E n \in Nodes : \E c \in Configs(n) : etcd[ConfigMeta] = c.cluster
    /\ \A g : Has(ConfigClusterGroupMeta(g)) =>
        \E n \in Nodes : \E c \in Configs(n) :
            g \in DOMAIN c.groups /\ etcd[ConfigClusterGroupMeta(g)] = c.groups[g]
    /\ \A r : Has(ConfigRole(r)) =>
        \E n \in Nodes : \E c \in Configs(n) :
            r \in DOMAIN c.roles /\ etcd[ConfigRole(r)] = c.roles[r]
    /\ \A k \in DOMAIN etcd : IsGroupConfig(k) =>
        etcd[k].priority \in Nat \ {0} /\ etcd[k].roles # {}

JInv == IInv /\ KnownKeys /\ Sowing /\ FileDocs

(***************************************************************************)
(* The steps                                                               *)
(***************************************************************************)
\* A step that is not a put of a seed: of the config documents only a group's
\* priority changes, and no seed is removed.
ConfigKept ==
    /\ \A k : Has(k) /\ (k[1] = "config" \/ IsDesired(k)) => Has(k)'
    /\ \A k : k[1] = "config" /\ Has(k)' => Has(k)
    /\ \A k : k[1] = "config" /\ Has(k) =>
        \/ etcd'[k] = etcd[k]
        \/ IsGroupConfig(k) /\ etcd'[k] = [etcd[k] EXCEPT !.priority = @ + 1]

\* Puts of other keys than config documents are such steps.
LEMMA PutConfigKept ==
    ASSUME NEW key, NEW doc, etcd' = Put(key, doc),
           key[1] = "config" => /\ Has(key) /\ IsGroupConfig(key)
                                /\ doc = [etcd[key] EXCEPT !.priority = @ + 1]
    PROVE  ConfigKept
<1>1. /\ DOMAIN etcd' = {key} \cup DOMAIN etcd
      /\ \A k \in DOMAIN etcd' : etcd'[k] = IF k = key THEN doc ELSE etcd[k]
  BY DEF Put
<1> QED BY <1>1 DEF ConfigKept, Has

\* So are all steps but Ensure's.
LEMMA OthersKeepConfig ==
    ASSUME IInv, BootStep, \A n \in Nodes : ~Ensure(n)
    PROVE  ConfigKept
<1>1. CASE UNCHANGED etcd
  BY <1>1 DEF ConfigKept, Has
<1>2. ASSUME NEW n \in Nodes, Report(n) PROVE ConfigKept
  <2>1. PICK key \in {Registry(n)} \cup LeasedKeys[n] : etcd' = Put(key, [status |-> "passive"])
    BY <1>2 DEF Report, LeasedKeys, IInv, Loaded, Configs
  <2>2. key[1] # "config"
    BY <2>1, LeasedKinds DEF Registry
  <2> QED BY <2>1, <2>2, PutConfigKept
<1>3. ASSUME NEW n \in Nodes, Expire(n) PROVE ConfigKept
  <2>1. PICK gone \in SUBSET LeasedKeys[n] : etcd' = Restrict(etcd, DOMAIN etcd \ gone)
    BY <1>3 DEF Expire
  <2>2. /\ DOMAIN etcd' = DOMAIN etcd \ gone
        /\ \A k \in DOMAIN etcd' : etcd'[k] = etcd[k]
    BY <2>1 DEF Restrict
  <2> QED BY <2>2, LeasedKinds DEF ConfigKept, Has
<1>4. CASE Operate
  <2>1. PICK key \in DOMAIN etcd :
          IsDesired(key) /\ etcd' = Put(key, [state |-> "active", managed |-> TRUE])
    BY <1>4 DEF Operate, IsDesired
  <2>2. key[1] # "config"
    BY <2>1 DEF IInv, DesiredDocs
  <2> QED BY <2>1, <2>2, PutConfigKept
<1>5. CASE Prioritize
  <2>1. PICK key \in DOMAIN etcd :
          IsGroupConfig(key) /\ etcd' = Put(key, [etcd[key] EXCEPT !.priority = @ + 1])
    BY <1>5 DEF Prioritize, IsGroupConfig
  <2> DEFINE doc == [etcd[key] EXCEPT !.priority = @ + 1]
  <2>2. etcd' = Put(key, doc) /\ Has(key)
    BY <2>1 DEF Has
  <2> HIDE DEF doc
  <2>3. doc = [etcd[key] EXCEPT !.priority = @ + 1]
    BY DEF doc
  <2> QED BY <2>1, <2>2, <2>3, PutConfigKept
<1> QED BY <1>1, <1>2, <1>3, <1>4, <1>5 DEF BootStep, Start, Connect, Run, Die, bootVars

\* A put of a node's seed, its own or one that is not there.
SeedPut(n, key) ==
    /\ etcd' = Put(key, Seed(config[n], n, key))
    /\ ~Has(key) \/ key = ConfigNode(n)

\* Ensure takes the next seed off its stages and puts it, if it must.
LEMMA EnsureSeeds ==
    ASSUME IInv, NEW n \in Nodes, Ensure(n)
    PROVE  /\ phase[n] = "ensure" /\ UNCHANGED <<phase, config>>
           /\ todo[n] \in Seq(SUBSET Seeds(config[n], n)) /\ todo[n] # <<>>
           /\ \E key \in Head(todo[n]) :
                /\ key \in Seeds(config[n], n)
                /\ todo' = [todo EXCEPT ![n] = IF Head(@) = {key} THEN Tail(@)
                                               ELSE <<Head(@) \ {key}>> \o Tail(@)]
                /\ \/ UNCHANGED etcd /\ Has(key) /\ key # ConfigNode(n)
                   \/ SeedPut(n, key)
<1>1. /\ todo[n] \in Seq(SUBSET Seeds(config[n], n)) /\ todo[n] # <<>> /\ phase[n] = "ensure"
      /\ UNCHANGED <<phase, config>>
  BY DEF Ensure, IInv, Order, Ordered
<1>2. PICK key \in Head(todo[n]) :
        /\ etcd' = PutIfAbsent(n, key)
        /\ todo' = [todo EXCEPT ![n] = IF Head(@) = {key} THEN Tail(@)
                                       ELSE <<Head(@) \ {key}>> \o Tail(@)]
  BY DEF Ensure
<1>3. key \in Seeds(config[n], n)
  <2> SUFFICES ASSUME NEW S, S = Seeds(config[n], n) PROVE key \in S
    OBVIOUS
  <2>1. Head(todo[n]) \in SUBSET S
    BY <1>1
  <2> QED BY <1>2, <2>1
<1> QED BY <1>1, <1>2, <1>3 DEF PutIfAbsent, SeedPut

\* The three kinds of keys.
LEMMA KeySets ==
    \A k : k \in Keys <=>
        \/ k \in {Registry(n) : n \in Nodes}
        \/ k \in UNION Range(LeasedKeys)
        \/ k \in UNION {UNION {UNION Range(Stages(LoadConfig(file), n)) : file \in Files[n]} :
                            n \in Nodes}
BY DEF Keys

\* The keys that are written.
LEMMA KeysWritten ==
    ASSUME NEW n \in Nodes
    PROVE  /\ Registry(n) \in Keys /\ LeasedKeys[n] \subseteq Keys
           /\ \A c \in Configs(n) : Seeds(c, n) \subseteq Keys
<1>1. Registry(n) \in Keys
  BY KeySets
<1>2. LeasedKeys[n] \subseteq Keys
  <2>1. LeasedKeys[n] \in Range(LeasedKeys)
    BY DEF LeasedKeys, Range
  <2> QED BY <2>1, KeySets
<1>3. ASSUME NEW c \in Configs(n), NEW k \in Seeds(c, n) PROVE k \in Keys
  <2>1. PICK file \in Files[n] : c = LoadConfig(file)
    BY DEF Configs
  <2>2. PICK i \in 1..Len(Stages(c, n)) : k \in Stages(c, n)[i]
    BY StagesSow
  <2>3. Stages(c, n)[i] \in Range(Stages(c, n))
    <3> SUFFICES ASSUME NEW t, t = Stages(c, n) PROVE t[i] \in Range(t)
      OBVIOUS
    <3>1. DOMAIN t = 1..Len(t)
      BY StagesShape
    <3> QED BY <2>2, <3>1 DEF Range
  <2>4. k \in UNION Range(Stages(LoadConfig(file), n))
    BY <2>1, <2>2, <2>3
  <2> DEFINE of(f, m) == UNION Range(Stages(LoadConfig(f), m))
             all(m) == UNION {of(f, m) : f \in Files[m]}
  <2>5. k \in all(n)
    <3>1. k \in of(file, n)
      BY <2>4
    <3> HIDE DEF of
    <3> QED BY <3>1
  <2>6. k \in UNION {all(m) : m \in Nodes}
    <3> HIDE DEF all
    <3> QED BY <2>5
  <2> QED BY <2>6, KeySets
<1> QED BY <1>1, <1>2, <1>3

\* Every key is a node's registration, one of its leased keys, or a seed of
\* one of its files.
LEMMA KeyCases ==
    ASSUME NEW k \in Keys
    PROVE  \E n \in Nodes :
            k = Registry(n) \/ k \in LeasedKeys[n] \/ \E c \in Configs(n) : k \in Seeds(c, n)
<1>1. CASE k \in UNION Range(LeasedKeys)
  <2>1. PICK n \in Nodes : k \in LeasedKeys[n]
    BY <1>1 DEF Range, LeasedKeys
  <2> QED BY <2>1
<1>2. ASSUME NEW n \in Nodes, NEW file \in Files[n], k \in UNION Range(Stages(LoadConfig(file), n))
      PROVE  \E c \in Configs(n) : k \in Seeds(c, n)
  <2>1. PICK c \in Configs(n) : c = LoadConfig(file)
    BY DEF Configs
  <2> SUFFICES ASSUME NEW t, t = Stages(c, n) PROVE k \in Seeds(c, n)
    OBVIOUS
  <2>2. PICK i \in DOMAIN t : k \in t[i]
    BY <1>2, <2>1 DEF Range
  <2>3. t \in Seq(SUBSET Seeds(c, n))
    BY StagesShape
  <2>4. t[i] \in SUBSET Seeds(c, n)
    <3> SUFFICES ASSUME NEW S, S = SUBSET Seeds(c, n) PROVE t[i] \in S
      OBVIOUS
    <3> QED BY <2>2, <2>3
  <2> QED BY <2>2, <2>4
<1>3. CASE k \in UNION {UNION {UNION Range(Stages(LoadConfig(file), n)) : file \in Files[n]} : n \in Nodes}
  <2> DEFINE of(f, m) == UNION Range(Stages(LoadConfig(f), m))
             all(m) == UNION {of(f, m) : f \in Files[m]}
  <2>1. PICK n \in Nodes : k \in all(n)
    <3>1. k \in UNION {all(n) : n \in Nodes}
      BY <1>3
    <3> HIDE DEF all
    <3> QED BY <3>1
  <2>2. PICK file \in Files[n] : k \in of(file, n)
    <3> HIDE DEF of
    <3> QED BY <2>1
  <2> QED BY <1>2, <2>2
<1> QED BY <1>1, <1>3, KeySets

\* Every key is a path.
LEMMA KeyPaths == \A k \in Keys : IsPath(k)
<1> SUFFICES ASSUME NEW k \in Keys PROVE IsPath(k)
  OBVIOUS
<1>1. \A n : IsPath(Registry(n))
  BY DEF Registry, IsPath
<1> QED BY <1>1, KeyCases, LeasedPaths, SeedPaths

\* A put of one of them.
LEMMA PutKnown ==
    ASSUME KnownKeys, NEW key \in Keys, NEW doc, etcd' = Put(key, doc)
    PROVE  KnownKeys'
<1>1. DOMAIN etcd' = DOMAIN etcd \cup {key}
  BY DEF Put
<1>2. IsFiniteSet(DOMAIN etcd \cup {key})
  BY FS_AddElement DEF KnownKeys
<1> QED BY <1>1, <1>2 DEF KnownKeys

\* No step writes another key.
LEMMA KnownKept == ASSUME IInv, KnownKeys, BootStep PROVE KnownKeys'
<1>1. CASE UNCHANGED etcd
  BY <1>1 DEF KnownKeys
<1>2. ASSUME NEW n \in Nodes, Ensure(n) PROVE KnownKeys'
  <2>1. PICK key \in Seeds(config[n], n) : UNCHANGED etcd \/ SeedPut(n, key)
    BY <1>2, EnsureSeeds
  <2>2. key \in Keys
    BY <2>1, KeysWritten DEF IInv, Loaded
  <2>3. CASE SeedPut(n, key)
    <3>1. PICK doc : etcd' = Put(key, doc)
      BY <2>3 DEF SeedPut
    <3> QED BY <2>2, <3>1, PutKnown
  <2> QED BY <1>1, <2>1, <2>3
<1>3. ASSUME NEW n \in Nodes, Report(n) PROVE KnownKeys'
  <2>1. PICK key \in {Registry(n)} \cup LeasedKeys[n] : etcd' = Put(key, [status |-> "passive"])
    BY <1>3 DEF Report, LeasedKeys, IInv, Loaded, Configs
  <2> QED BY <2>1, KeysWritten, PutKnown
<1>4. ASSUME NEW n \in Nodes, Expire(n) PROVE KnownKeys'
  <2>1. PICK gone \in SUBSET LeasedKeys[n] : etcd' = Restrict(etcd, DOMAIN etcd \ gone)
    BY <1>4 DEF Expire
  <2>2. DOMAIN etcd' = DOMAIN etcd \ gone
    BY <2>1 DEF Restrict
  <2> QED BY <2>2, FS_Subset DEF KnownKeys
<1>5. CASE Operate \/ Prioritize
  <2>1. PICK key \in DOMAIN etcd : \E doc : etcd' = Put(key, doc)
    <3>1. CASE Operate
      BY <3>1 DEF Operate
    <3>2. CASE Prioritize
      BY <3>2 DEF Prioritize
    <3> QED BY <1>5, <3>1, <3>2
  <2>2. PICK doc : etcd' = Put(key, doc)
    BY <2>1
  <2>3. key \in Keys
    BY DEF KnownKeys
  <2> QED BY <2>2, <2>3, PutKnown
<1> QED BY <1>1, <1>2, <1>3, <1>4, <1>5 DEF BootStep, Start, Connect, Run, Die, bootVars

\* A node's seeds stay there, or to come, until it runs.
LEMMA SowingKept == ASSUME IInv, Sowing, BootStep PROVE Sowing'
<1>1. ASSUME NEW n \in Nodes, Ensure(n) PROVE Sowing'
  <2> SUFFICES ASSUME NEW c, c = config[n], NEW t, t = todo[n] PROVE Sowing'
    OBVIOUS
  <2>1. /\ phase[n] = "ensure" /\ UNCHANGED <<phase, config>> /\ c \in Configs(n)
        /\ t \in Seq(SUBSET Seeds(c, n)) /\ t # <<>>
    BY <1>1, EnsureSeeds DEF IInv, Loaded
  <2>2. PICK key \in Head(t) :
          /\ key \in Seeds(c, n)
          /\ todo' = [todo EXCEPT ![n] = IF Head(@) = {key} THEN Tail(@)
                                         ELSE <<Head(@) \ {key}>> \o Tail(@)]
          /\ \/ UNCHANGED etcd /\ Has(key) /\ key # ConfigNode(n)
             \/ SeedPut(n, key)
    BY <1>1, EnsureSeeds
  <2>3. PICK u : u = IF Head(t) = {key} THEN Tail(t) ELSE <<Head(t) \ {key}>> \o Tail(t)
    OBVIOUS
  <2>4. todo'[n] = u /\ \A m \in Nodes \ {n} : todo'[m] = todo[m]
    BY <2>2, <2>3 DEF IInv, Loaded
  <2>5. /\ \A k : Has(k) => Has(k)'
        /\ Has(key)'
        /\ \A k : Has(k) /\ k # key => etcd'[k] = etcd[k]
        /\ SeedPut(n, key) => etcd'[key] = Seed(c, n, key)
    <3>1. CASE UNCHANGED etcd /\ ~SeedPut(n, key)
      BY <2>2, <3>1 DEF Has
    <3>2. CASE SeedPut(n, key)
      <4> DEFINE doc == Seed(config[n], n, key)
      <4>1. etcd' = Put(key, doc)
        BY <3>2 DEF SeedPut
      <4>2. /\ DOMAIN etcd' = {key} \cup DOMAIN etcd
            /\ \A k \in DOMAIN etcd' : etcd'[k] = IF k = key THEN doc ELSE etcd[k]
        <5> HIDE DEF doc
        <5> QED BY <4>1 DEF Put
      <4> QED BY <4>2 DEF Has
    <3> QED BY <2>2, <3>1, <3>2
  <2>6. ASSUME NEW k, k # key, Pending(t, k) PROVE Pending(u, k)
    BY <2>1, <2>3, <2>6, PopPending
  <2>7. ASSUME NEW k \in Seeds(c, n) PROVE Has(k)' \/ Pending(u, k)
    <3>1. Has(k) \/ Pending(t, k)
      BY <2>1 DEF Sowing
    <3> QED BY <2>5, <2>6, <3>1
  <2>8. \/ Pending(u, ConfigNode(n))
        \/ Has(ConfigNode(n))' /\ etcd'[ConfigNode(n)] = c.node
    <3>1. CASE key = ConfigNode(n)
      BY <2>2, <2>5, <3>1, SeedDocs
    <3>2. CASE key # ConfigNode(n)
      BY <2>1, <2>5, <2>6, <3>2 DEF Sowing
    <3> QED BY <3>1, <3>2
  <2>9. ASSUME NEW m \in Nodes \ {n} PROVE key # ConfigNode(m)
    <3>1. key[1] = "config" =>
            \/ key \in {ConfigMeta, ConfigNode(n)}
            \/ \E g : key = ConfigClusterGroupMeta(g)
            \/ \E r : key = ConfigRole(r)
            \/ \E g, k : key = ManagementGroupConfig(g, k)
      BY <2>1, <2>2, SeedKinds
    <3> QED BY <2>9, <3>1, KeysApart
  <2>10. ASSUME NEW m \in Nodes, NEW d, d = config[m], NEW v, v = todo'[m]
         PROVE  /\ phase[m] = "run" => v = <<>>
                /\ phase[m] \in {"ensure", "run"} =>
                    /\ \A k \in Seeds(d, m) : Has(k)' \/ Pending(v, k)
                    /\ \/ Pending(v, ConfigNode(m))
                       \/ Has(ConfigNode(m))' /\ etcd'[ConfigNode(m)] = d.node
    <3>1. CASE m = n
      BY <2>1, <2>4, <2>7, <2>8, <2>10, <3>1
    <3>2. CASE m # n
      <4>1. v = todo[m]
        BY <2>4, <2>10, <3>2
      <4> QED BY <2>5, <2>9, <2>10, <3>2, <4>1 DEF Sowing
    <3> QED BY <3>1, <3>2
  <2> QED BY <2>1, <2>10 DEF Sowing, Pending, Has
<1>2. CASE \A n \in Nodes : ~Ensure(n)
  <2>1. ConfigKept
    BY <1>2, OthersKeepConfig
  <2>2. ASSUME NEW n \in Nodes, phase'[n] \in {"ensure", "run"}
        PROVE  /\ config'[n] = config[n]
               /\ \/ /\ phase[n] \in {"ensure", "run"} /\ todo'[n] = todo[n]
                     /\ phase'[n] = "run" => todo[n] = <<>>
                  \/ phase'[n] = "ensure" /\ todo'[n] = Stages(config[n], n)
    <3>1. ASSUME NEW m \in Nodes, Start(m) PROVE n # m /\ UNCHANGED <<phase[n], config[n], todo[n]>>
      BY <2>2, <3>1 DEF Start, IInv, Loaded
    <3>2. ASSUME NEW m \in Nodes, Connect(m), n # m PROVE UNCHANGED <<phase[n], config[n], todo[n]>>
      BY <3>2 DEF Connect, IInv, Loaded
    <3>3. ASSUME Connect(n)
          PROVE  phase'[n] = "ensure" /\ config'[n] = config[n] /\ todo'[n] = Stages(config[n], n)
      BY <3>3 DEF Connect, IInv, Loaded
    <3>4. ASSUME NEW m \in Nodes, Run(m), n # m PROVE UNCHANGED <<phase[n], config[n], todo[n]>>
      BY <3>4 DEF Run, IInv, Loaded
    <3>5. ASSUME Run(n)
          PROVE  phase[n] = "ensure" /\ UNCHANGED <<config[n], todo[n]>> /\ todo[n] = <<>>
      BY <3>5 DEF Run, IInv, Loaded
    <3>6. ASSUME NEW m \in Nodes, Die(m) PROVE n # m /\ UNCHANGED <<phase[n], config[n], todo[n]>>
      BY <2>2, <3>6 DEF Die, IInv, Loaded
    <3>7. ASSUME \/ \E m \in Nodes : Report(m) \/ Expire(m)
                 \/ Operate \/ Prioritize \/ UNCHANGED bootVars
          PROVE  UNCHANGED <<phase[n], config[n], todo[n]>>
      BY <3>7 DEF Report, Expire, Operate, Prioritize, bootVars
    <3>8. UNCHANGED <<phase[n], config[n], todo[n]>> \/ Connect(n) \/ Run(n)
      BY <1>2, <3>1, <3>2, <3>4, <3>6, <3>7 DEF BootStep
    <3>9. CASE UNCHANGED <<phase[n], config[n], todo[n]>>
      BY <2>2, <3>9 DEF Sowing
    <3> QED BY <3>3, <3>5, <3>8, <3>9
  <2>3. ASSUME NEW n \in Nodes, NEW c, c = config[n], NEW t, t = todo'[n],
               phase'[n] \in {"ensure", "run"}
        PROVE  /\ \A k \in Seeds(c, n) : Has(k)' \/ Pending(t, k)
               /\ \/ Pending(t, ConfigNode(n))
                  \/ Has(ConfigNode(n))' /\ etcd'[ConfigNode(n)] = c.node
    <3>1. c \in Configs(n)
      BY <2>3 DEF IInv, Loaded
    <3>2. CASE phase[n] \in {"ensure", "run"} /\ t = todo[n]
      <4>1. /\ \A k \in Seeds(c, n) : Has(k) \/ Pending(t, k)
            /\ \/ Pending(t, ConfigNode(n))
               \/ Has(ConfigNode(n)) /\ etcd[ConfigNode(n)] = c.node
        BY <2>3, <3>2 DEF Sowing
      <4>2. \A k \in Seeds(c, n) : Has(k) => Has(k)'
        BY <2>1, <3>1, SeedKinds DEF ConfigKept
      <4>3. Has(ConfigNode(n)) => Has(ConfigNode(n))' /\ etcd'[ConfigNode(n)] = etcd[ConfigNode(n)]
        BY <2>1, KeysApart, ConfigKinds DEF ConfigKept
      <4> QED BY <4>1, <4>2, <4>3
    <3>3. CASE t = Stages(c, n)
      <4>1. \A k \in Seeds(c, n) : Pending(t, k)
        BY <3>1, <3>3, StagesSow DEF Pending
      <4>2. ConfigNode(n) \in Seeds(c, n)
        BY DEF Seeds
      <4> QED BY <4>1, <4>2
    <3> QED BY <2>2, <2>3, <3>2, <3>3
  <2>4. ASSUME NEW n \in Nodes, phase'[n] = "run" PROVE todo'[n] = <<>>
    BY <2>2, <2>4
  <2>5. ASSUME NEW n \in Nodes, phase'[n] \in {"ensure", "run"}, NEW c, c = config'[n], NEW t, t = todo'[n]
        PROVE  /\ \A k \in Seeds(c, n) : Has(k)' \/ Pending(t, k)
               /\ \/ Pending(t, ConfigNode(n))
                  \/ Has(ConfigNode(n))' /\ etcd'[ConfigNode(n)] = c.node
    BY <2>2, <2>3, <2>5
  <2> QED BY <2>4, <2>5 DEF Sowing, Pending, Has
<1> QED BY <1>1, <1>2

\* A put of a seed that was not there, or of the node's own document.
LEMMA SeedFileDocs ==
    ASSUME FileDocs, NEW n \in Nodes, NEW c \in Configs(n), c = config[n], NEW key \in Seeds(c, n),
           SeedPut(n, key)
    PROVE  FileDocs'
<1>1. PICK doc : doc = Seed(c, n, key) /\ etcd' = Put(key, doc)
  BY DEF SeedPut
<1>2. /\ DOMAIN etcd' = {key} \cup DOMAIN etcd
      /\ \A k \in DOMAIN etcd' : etcd'[k] = IF k = key THEN doc ELSE etcd[k]
  BY <1>1 DEF Put
<1>3. \A k : k # key => (Has(k)' <=> Has(k)) /\ (Has(k) => etcd'[k] = etcd[k])
  BY <1>2 DEF Has
<1>4. etcd'[key] = Seed(c, n, key)
  BY <1>1, <1>2
<1>5. Has(ConfigMeta)' =>
        \E m \in Nodes : \E d \in Configs(m) : etcd'[ConfigMeta] = d.cluster
  <2>1. CASE key = ConfigMeta
    BY <1>4, <2>1, SeedDocs
  <2> QED BY <1>3, <2>1 DEF FileDocs
<1>6. key[1] # "config" \/ key \in {ConfigMeta, ConfigNode(n)}
      \/ (\E g \in DOMAIN c.groups : key = ConfigClusterGroupMeta(g))
      \/ (\E r \in DOMAIN c.roles : key = ConfigRole(r))
      \/ IsGroupConfig(key)
  BY SeedKinds
<1>7. ASSUME NEW g, Has(ConfigClusterGroupMeta(g))'
      PROVE  \E m \in Nodes : \E d \in Configs(m) :
                g \in DOMAIN d.groups /\ etcd'[ConfigClusterGroupMeta(g)] = d.groups[g]
  <2>1. CASE key = ConfigClusterGroupMeta(g)
    <3>1. g \in DOMAIN c.groups
      BY <1>6, <2>1, KeysApart, ConfigKinds
    <3> QED BY <1>4, <2>1, <3>1, SeedDocs
  <2> QED BY <1>3, <1>7, <2>1 DEF FileDocs
<1>8. ASSUME NEW r, Has(ConfigRole(r))'
      PROVE  \E m \in Nodes : \E d \in Configs(m) :
                r \in DOMAIN d.roles /\ etcd'[ConfigRole(r)] = d.roles[r]
  <2>1. CASE key = ConfigRole(r)
    <3>1. r \in DOMAIN c.roles
      BY <1>6, <2>1, KeysApart, ConfigKinds
    <3> QED BY <1>4, <2>1, <3>1, SeedDocs
  <2> QED BY <1>3, <1>8, <2>1 DEF FileDocs
<1>9. ASSUME NEW k \in DOMAIN etcd', IsGroupConfig(k)
      PROVE  etcd'[k].priority \in Nat \ {0} /\ etcd'[k].roles # {}
  <2>1. CASE k = key
    <3>1. key[1] = "config"
      BY <1>9, <2>1 DEF IsGroupConfig
    <3>2. PICK at \in Memberships(c) :
            /\ key = ManagementGroupConfig(at[1], at[2])
            /\ ValidMembership(c, at[1], at[2])
            /\ c.management_groups[at].priority \in Int
            /\ at = <<at[1], at[2]>>
      <4>1. \A g, r : key \notin {ConfigMeta, ConfigNode(n), ConfigClusterGroupMeta(g), ConfigRole(r)}
        BY <1>9, <2>1, ConfigKinds
      <4> QED BY <3>1, <4>1, SeedKinds
    <3>3. Seed(c, n, key) = c.management_groups[at]
      BY <3>2, SeedFacts
    <3> QED BY <1>4, <2>1, <3>2, <3>3 DEF ValidMembership
  <2>2. CASE k # key
    BY <1>2, <1>9, <2>2 DEF FileDocs
  <2> QED BY <2>1, <2>2
<1> QED BY <1>5, <1>7, <1>8, <1>9 DEF FileDocs

\* The documents stay those of files.
LEMMA FileDocsKept == ASSUME IInv, FileDocs, BootStep PROVE FileDocs'
<1>1. ASSUME NEW n \in Nodes, Ensure(n) PROVE FileDocs'
  <2>1. PICK key \in Seeds(config[n], n) : UNCHANGED etcd \/ SeedPut(n, key)
    BY <1>1, EnsureSeeds
  <2>2. CASE UNCHANGED etcd
    BY <2>2 DEF FileDocs, Has
  <2>3. config[n] \in Configs(n)
    BY DEF IInv, Loaded
  <2> QED BY <2>1, <2>2, <2>3, SeedFileDocs
<1>2. CASE \A n \in Nodes : ~Ensure(n)
  <2>1. ConfigKept
    BY <1>2, OthersKeepConfig
  <2>2. ASSUME NEW k, k[1] = "config", Has(k)', ~IsGroupConfig(k)
        PROVE  Has(k) /\ etcd'[k] = etcd[k]
    BY <2>1, <2>2 DEF ConfigKept
  <2>3. ASSUME NEW k \in DOMAIN etcd', IsGroupConfig(k)
        PROVE  etcd'[k].priority \in Nat \ {0} /\ etcd'[k].roles # {}
    <3>1. k[1] = "config" /\ Has(k)
      BY <2>1, <2>3 DEF ConfigKept, IsGroupConfig, Has
    <3>2. etcd[k].priority \in Nat \ {0} /\ etcd[k].roles # {}
      BY <2>3, <3>1 DEF FileDocs, Has
    <3>3. CASE etcd'[k] = etcd[k]
      BY <3>2, <3>3
    <3>4. CASE etcd'[k] = [etcd[k] EXCEPT !.priority = @ + 1]
      <4>1. etcd[k] = [priority |-> etcd[k].priority, roles |-> etcd[k].roles]
        BY <2>3, <3>1 DEF IInv, GroupDocs, Has
      <4>2. etcd'[k] = [priority |-> etcd[k].priority + 1, roles |-> etcd[k].roles]
        BY <3>4, <4>1
      <4> QED BY <3>2, <4>2
    <3> QED BY <2>1, <3>1, <3>3, <3>4 DEF ConfigKept
  <2>4. Has(ConfigMeta)' => Has(ConfigMeta) /\ etcd'[ConfigMeta] = etcd[ConfigMeta]
    BY <2>2, KeysApart, ConfigKinds
  <2>5. ASSUME NEW g, Has(ConfigClusterGroupMeta(g))'
        PROVE  Has(ConfigClusterGroupMeta(g))
               /\ etcd'[ConfigClusterGroupMeta(g)] = etcd[ConfigClusterGroupMeta(g)]
    BY <2>2, <2>5, KeysApart, ConfigKinds
  <2>6. ASSUME NEW r, Has(ConfigRole(r))'
        PROVE  Has(ConfigRole(r)) /\ etcd'[ConfigRole(r)] = etcd[ConfigRole(r)]
    BY <2>2, <2>6, KeysApart, ConfigKinds
  <2> QED BY <2>3, <2>4, <2>5, <2>6 DEF FileDocs
<1> QED BY <1>1, <1>2

\* Every behaviour has the invariant.
THEOREM SeedingInvariant == Spec => []JInv
<1>1. Init => JInv
  <2> SUFFICES ASSUME Init PROVE JInv
    OBVIOUS
  <2>1. etcd = <<>> /\ DOMAIN etcd = {} /\ \A n \in Nodes : phase[n] = "down"
    BY DEF Init, BootInit
  <2>2. KnownKeys
    BY <2>1, FS_EmptySet DEF KnownKeys
  <2>3. Sowing
    BY <2>1 DEF Sowing
  <2>4. FileDocs
    BY <2>1 DEF FileDocs, Has
  <2> QED BY <2>2, <2>3, <2>4, BootInitKeeps DEF JInv
<1>2. JInv /\ [Next]_vars => JInv'
  BY NextBoots, BootKeeps, KnownKept, SowingKept, FileDocsKept DEF JInv
<1> QED BY <1>1, <1>2, PTL DEF Spec

(***************************************************************************)
(* The configuration that a running node uses                              *)
(***************************************************************************)
\* The documents under the keys of the kinds that a configuration is of.
IsSnapshot(snap, n) ==
    /\ snap.cluster = IF Has(ConfigMeta) THEN {etcd[ConfigMeta]} ELSE {}
    /\ snap.node = IF Has(ConfigNode(n)) THEN {etcd[ConfigNode(n)]} ELSE {}
    /\ \A g : g \in DOMAIN snap.groups <=> Has(ConfigClusterGroupMeta(g))
    /\ \A g \in DOMAIN snap.groups : snap.groups[g] = etcd[ConfigClusterGroupMeta(g)]
    /\ \A r : r \in DOMAIN snap.roles <=> Has(ConfigRole(r))
    /\ \A r \in DOMAIN snap.roles : snap.roles[r] = etcd[ConfigRole(r)]
    /\ \A g, m : <<g, m>> \in DOMAIN snap.management_groups
                     <=> m # "_meta" /\ Has(ManagementGroupConfig(g, m))
    /\ \A g, m : <<g, m>> \in DOMAIN snap.management_groups =>
         snap.management_groups[<<g, m>>] = etcd[ManagementGroupConfig(g, m)]

\* The config watcher finds these.
LEMMA SnapshotFacts ==
    ASSUME KnownKeys, NEW n \in Nodes, NEW snap, snap = EtcdSnapshot(etcd, n)
    PROVE  IsSnapshot(snap, n)
<1> DEFINE shaped(length, name) ==
               {k \in DOMAIN etcd : Len(k) = length /\ k[1] = "config" /\ k[2] = name}
           groupKeys == shaped(4, "cluster_groups")
           these(keys) == {etcd[k] : k \in keys \cap DOMAIN etcd}
           gs == {k[3] : k \in {key \in groupKeys : key[4] = "_meta"}}
           rs == {k[3] : k \in shaped(3, "roles")}
           ms == {<<k[3], k[4]>> : k \in {key \in groupKeys : key[4] # "_meta"}}
<1>1. /\ snap.cluster = these({ConfigMeta})
      /\ snap.node = these({ConfigNode(n)})
      /\ snap.groups = [g \in gs |-> etcd[ConfigClusterGroupMeta(g)]]
      /\ snap.roles = [r \in rs |-> etcd[ConfigRole(r)]]
      /\ snap.management_groups = [at \in ms |-> etcd[ManagementGroupConfig(at[1], at[2])]]
  BY DEF EtcdSnapshot
<1>2. /\ these({ConfigMeta}) = IF Has(ConfigMeta) THEN {etcd[ConfigMeta]} ELSE {}
      /\ these({ConfigNode(n)}) = IF Has(ConfigNode(n)) THEN {etcd[ConfigNode(n)]} ELSE {}
  BY DEF Has
<1>3. \A k \in DOMAIN etcd : IsPath(k)
  BY KeyPaths DEF KnownKeys
<1>4. ASSUME NEW g PROVE g \in gs <=> Has(ConfigClusterGroupMeta(g))
  <2>1. ASSUME Has(ConfigClusterGroupMeta(g)) PROVE g \in gs
    <3>1. /\ Len(ConfigClusterGroupMeta(g)) = 4 /\ ConfigClusterGroupMeta(g)[1] = "config"
          /\ ConfigClusterGroupMeta(g)[2] = "cluster_groups"
          /\ ConfigClusterGroupMeta(g)[3] = g /\ ConfigClusterGroupMeta(g)[4] = "_meta"
      BY DEF ConfigClusterGroupMeta
    <3> QED BY <2>1, <3>1 DEF Has
  <2>2. ASSUME g \in gs PROVE Has(ConfigClusterGroupMeta(g))
    <3>1. PICK k \in DOMAIN etcd : /\ Len(k) = 4 /\ k[1] = "config" /\ k[2] = "cluster_groups"
                                   /\ k[4] = "_meta" /\ k[3] = g
      BY <2>2
    <3>2. k = <<k[1], k[2], k[3], k[4]>>
      BY <1>3, <3>1 DEF IsPath
    <3> QED BY <3>1, <3>2 DEF Has, ConfigClusterGroupMeta
  <2> QED BY <2>1, <2>2
<1>5. ASSUME NEW r PROVE r \in rs <=> Has(ConfigRole(r))
  <2>1. ASSUME Has(ConfigRole(r)) PROVE r \in rs
    <3>1. /\ Len(ConfigRole(r)) = 3 /\ ConfigRole(r)[1] = "config"
          /\ ConfigRole(r)[2] = "roles" /\ ConfigRole(r)[3] = r
      BY DEF ConfigRole
    <3> QED BY <2>1, <3>1 DEF Has
  <2>2. ASSUME r \in rs PROVE Has(ConfigRole(r))
    <3>1. PICK k \in DOMAIN etcd : Len(k) = 3 /\ k[1] = "config" /\ k[2] = "roles" /\ k[3] = r
      BY <2>2
    <3>2. k = <<k[1], k[2], k[3]>>
      BY <1>3, <3>1 DEF IsPath
    <3> QED BY <3>1, <3>2 DEF Has, ConfigRole
  <2> QED BY <2>1, <2>2
<1>6. ASSUME NEW g, NEW m
      PROVE  <<g, m>> \in ms <=> m # "_meta" /\ Has(ManagementGroupConfig(g, m))
  <2>1. ASSUME m # "_meta", Has(ManagementGroupConfig(g, m)) PROVE <<g, m>> \in ms
    <3>1. /\ Len(ManagementGroupConfig(g, m)) = 4 /\ ManagementGroupConfig(g, m)[1] = "config"
          /\ ManagementGroupConfig(g, m)[2] = "cluster_groups"
          /\ ManagementGroupConfig(g, m)[3] = g /\ ManagementGroupConfig(g, m)[4] = m
      BY DEF ManagementGroupConfig
    <3> QED BY <2>1, <3>1 DEF Has
  <2>2. ASSUME <<g, m>> \in ms PROVE m # "_meta" /\ Has(ManagementGroupConfig(g, m))
    <3>1. PICK k \in DOMAIN etcd : /\ Len(k) = 4 /\ k[1] = "config" /\ k[2] = "cluster_groups"
                                   /\ k[4] # "_meta" /\ k[3] = g /\ k[4] = m
      BY <2>2
    <3>2. k = <<k[1], k[2], k[3], k[4]>>
      BY <1>3, <3>1 DEF IsPath
    <3> QED BY <3>1, <3>2 DEF Has, ManagementGroupConfig
  <2> QED BY <2>1, <2>2
<1> HIDE DEF gs, rs, ms, these
<1>7. /\ DOMAIN snap.groups = gs /\ \A g \in gs : snap.groups[g] = etcd[ConfigClusterGroupMeta(g)]
      /\ DOMAIN snap.roles = rs /\ \A r \in rs : snap.roles[r] = etcd[ConfigRole(r)]
      /\ DOMAIN snap.management_groups = ms
      /\ \A at \in ms : snap.management_groups[at] = etcd[ManagementGroupConfig(at[1], at[2])]
  BY <1>1
<1> QED BY <1>1, <1>2, <1>4, <1>5, <1>6, <1>7 DEF IsSnapshot

\* A running node's seeds are there, its own document as its file has it.
LEMMA RunningSeeds ==
    ASSUME JInv, NEW n \in Running
    PROVE  /\ n \in Nodes /\ config[n] \in Configs(n)
           /\ \A k \in Seeds(config[n], n) : Has(k)
           /\ Has(ConfigNode(n)) /\ etcd[ConfigNode(n)] = config[n].node
<1>1. n \in Nodes /\ phase[n] = "run" /\ todo[n] = <<>>
  BY DEF Running, JInv, Sowing
<1>2. \A k : ~Pending(todo[n], k)
  BY <1>1 DEF Pending
<1> QED BY <1>1, <1>2 DEF JInv, Sowing, IInv, Loaded

\* What it takes for its own node is what its file says.
LEMMA OwnNode == JInv => OwnNodeIsLocal
<1> SUFFICES ASSUME JInv, NEW n \in Running PROVE Rebuilt(n).node = config[n].node
  BY DEF OwnNodeIsLocal
<1>1. PICK c : c = config[n]
  OBVIOUS
<1>2. PICK snap : snap = EtcdSnapshot(etcd, n)
  OBVIOUS
<1>3. snap.node = {c.node}
  BY <1>1, <1>2, RunningSeeds, SnapshotFacts DEF JInv, IsSnapshot
<1>4. c.node = [name |-> c.node.name, memberships |-> c.node.memberships]
  BY <1>1, RunningSeeds, ConfigFacts DEF Proper
<1>5. OverlayNode(c.node, c.node) = c.node
  BY <1>4 DEF OverlayNode
<1>6. Rebuilt(n).node = OverlayNode(c.node, CHOOSE doc \in snap.node : TRUE)
  BY <1>1, <1>2, <1>3 DEF Rebuilt, Merge
<1> QED BY <1>1, <1>3, <1>5, <1>6

\* A running node takes for its own name and memberships what the file says
\* that its process was started with, whatever etcd had from another file.
THEOREM OwnNodeIsLocalAlways == Spec => []OwnNodeIsLocal
BY SeedingInvariant, OwnNode, PTL

\* A configuration with etcd's entries, and the file's where etcd has none.
IsMerge(m, local, snap) ==
    /\ DOMAIN m.groups = {g \in DOMAIN snap.groups : snap.groups[g].name # 0}
                             \cup DOMAIN local.groups
    /\ DOMAIN m.roles = DOMAIN snap.roles \cup DOMAIN local.roles
    /\ DOMAIN m.management_groups =
         DOMAIN snap.management_groups \cup DOMAIN local.management_groups
    /\ \A at \in DOMAIN m.management_groups :
         m.management_groups[at] =
             IF at \in DOMAIN snap.management_groups
             THEN OverlayGroup(Or(local.management_groups, at, NoManagementGroup),
                               snap.management_groups[at])
             ELSE local.management_groups[at]

\* Merge makes one.
LEMMA MergedMaps == ASSUME NEW local, NEW snap PROVE IsMerge(Merge(local, snap), local, snap)
<1> SUFFICES ASSUME NEW m, m = Merge(local, snap) PROVE IsMerge(m, local, snap)
  OBVIOUS
<1> DEFINE mgs == [at \in DOMAIN snap.management_groups |->
                      OverlayGroup(Or(local.management_groups, at, NoManagementGroup),
                                   snap.management_groups[at])]
           gs == [g \in {h \in DOMAIN snap.groups : snap.groups[h].name # 0} |-> snap.groups[g]]
           rs == [r \in DOMAIN snap.roles |->
                    Overlay(Or(local.roles, r, NoRole), snap.roles[r])]
<1>1. /\ m.groups = WithEntries(local.groups, gs)
      /\ m.roles = WithEntries(local.roles, rs)
      /\ m.management_groups = WithEntries(local.management_groups, mgs)
  BY DEF Merge
<1>2. /\ DOMAIN gs = {h \in DOMAIN snap.groups : snap.groups[h].name # 0}
      /\ DOMAIN rs = DOMAIN snap.roles
      /\ DOMAIN mgs = DOMAIN snap.management_groups
      /\ \A at \in DOMAIN mgs :
            mgs[at] = OverlayGroup(Or(local.management_groups, at, NoManagementGroup),
                                   snap.management_groups[at])
  OBVIOUS
<1> HIDE DEF gs, rs, mgs
<1> QED BY <1>1, <1>2 DEF WithEntries, IsMerge

\* What a running node merges passes the validation.
LEMMA MergedPasses == JInv => MergedIsValid
<1> SUFFICES ASSUME JInv, NEW n \in Running PROVE Valid(Rebuilt(n))
  BY DEF MergedIsValid
<1> SUFFICES ASSUME NEW c, c = config[n], NEW snap, snap = EtcdSnapshot(etcd, n),
                    NEW m, m = Merge(c, snap), m = Rebuilt(n)
             PROVE  Valid(m)
  BY DEF Rebuilt
<1>1. n \in Nodes /\ c \in Configs(n) /\ Valid(c) /\ Proper(c) /\ KnownKeys
  BY RunningSeeds, ConfigFacts DEF JInv
<1>2. IsMerge(m, c, snap) /\ IsSnapshot(snap, n)
  BY <1>1, MergedMaps, SnapshotFacts
<1>3. m.node = c.node
  BY OwnNode DEF OwnNodeIsLocal
<1>4. DOMAIN m.groups # {} /\ m.node.memberships # <<>> /\ Memberships(m) = Memberships(c)
  BY <1>1, <1>2, <1>3 DEF Valid, Memberships, IsMerge
<1>5. ASSUME NEW at \in Memberships(c) PROVE ValidMembership(m, at[1], at[2])
  <2> SUFFICES ASSUME NEW g, NEW gm, at = <<g, gm>>, g = at[1], gm = at[2]
               PROVE  ValidMembership(m, g, gm)
    BY <1>1 DEF Proper
  <2>1. ValidMembership(c, g, gm) /\ gm # "_meta"
    BY <1>1 DEF Valid, Proper, Reserved
  <2>2. /\ g \in DOMAIN c.groups /\ <<g, gm>> \in DOMAIN c.management_groups
        /\ c.management_groups[<<g, gm>>].priority > 0
        /\ c.management_groups[<<g, gm>>].roles # {}
        /\ c.management_groups[<<g, gm>>].roles \subseteq DOMAIN c.roles
    BY <2>1 DEF ValidMembership
  <2>3. /\ g \in DOMAIN m.groups /\ <<g, gm>> \in DOMAIN m.management_groups
        /\ DOMAIN c.roles \subseteq DOMAIN m.roles
    BY <1>2, <2>2 DEF IsMerge
  <2>4. PICK group : group = m.management_groups[<<g, gm>>]
    OBVIOUS
  <2>5. CASE <<g, gm>> \in DOMAIN snap.management_groups
    <3>1. PICK doc : doc = snap.management_groups[<<g, gm>>]
      OBVIOUS
    <3>2. group = OverlayGroup(c.management_groups[<<g, gm>>], doc)
      BY <1>2, <2>2, <2>3, <2>4, <2>5, <3>1 DEF Or, IsMerge
    <3>3. Has(ManagementGroupConfig(g, gm)) /\ doc = etcd[ManagementGroupConfig(g, gm)]
      BY <1>2, <2>5, <3>1 DEF IsSnapshot
    <3>4. IsGroupConfig(ManagementGroupConfig(g, gm))
      BY <2>1, ConfigKinds
    <3>5. /\ doc.priority > 0 /\ doc.roles # {}
          /\ \A r \in doc.roles : Has(ConfigRole(r))
      BY <3>3, <3>4 DEF JInv, FileDocs, IInv, GroupDocs, Has
    <3>6. group.priority = doc.priority /\ group.roles = doc.roles
      BY <3>2, <3>5 DEF OverlayGroup
    <3>7. doc.roles \subseteq DOMAIN m.roles
      BY <1>2, <3>5 DEF IsSnapshot, IsMerge
    <3> QED BY <2>3, <2>4, <3>5, <3>6, <3>7 DEF ValidMembership
  <2>6. CASE <<g, gm>> \notin DOMAIN snap.management_groups
    <3>1. group = c.management_groups[<<g, gm>>]
      BY <1>2, <2>3, <2>4, <2>6 DEF IsMerge
    <3> QED BY <2>2, <2>3, <2>4, <3>1 DEF ValidMembership
  <2> QED BY <2>5, <2>6
<1> QED BY <1>4, <1>5 DEF Valid

\* The configuration that a running node makes of its file and etcd's
\* documents always passes the validation that the file alone had to pass: its
\* memberships' groups are there, with a priority and roles, and the roles, too,
\* though other nodes, with other files, seeded them and operators changed them.
THEOREM MergedIsValidAlways == Spec => []MergedIsValid
BY SeedingInvariant, MergedPasses, PTL

(***************************************************************************)
(* What the config watchers rebuild is one configuration of the cluster    *)
(***************************************************************************)
\* The files leave no field to each node: once the defaults are filled in every
\* field counts in a merge (no duration is negative), or no file sets it.
\* The code does not ask this of a file.  Without it RebuildsAgree does not
\* hold: etcd's document of the node that came first does not override what it
\* does not set.
FilesDecide ==
    \A n \in Nodes : \A c \in Configs(n) :
        /\ DOMAIN c.cluster = ClusterFields /\ \A f \in ClusterFields : c.cluster[f] > 0
        /\ \A g \in DOMAIN c.groups : c.groups[g].name # 0
        /\ \A r \in DOMAIN c.roles, f \in RoleFields :
            \/ c.roles[r][f] > 0
            \/ \A m \in Nodes : \A d \in Configs(m) : r \in DOMAIN d.roles => d.roles[r][f] = 0

\* A role of a loaded file has the fields of a role.
LEMMA RolesOfFiles ==
    ASSUME NEW n \in Nodes, NEW c \in Configs(n), NEW r \in DOMAIN c.roles
    PROVE  DOMAIN c.roles[r] = RoleFields
<1>1. PICK file \in Files[n] : c = LoadConfig(file)
  BY DEF Configs
<1>2. DOMAIN Roles(file)[r] = RoleFields
  BY <1>1 DEF LoadConfig, Roles, ApplyRoleDefaults
<1>3. c.roles = [q \in DOMAIN file.roles |-> Fill(DefaultedFields, Roles(file)[q])]
  BY <1>1 DEF LoadConfig
<1> QED BY <1>2, <1>3 DEF Fill

\* What the nodes share of a configuration is etcd's.
IsShared(m) ==
    /\ m.cluster = [f \in ClusterFields |-> etcd[ConfigMeta][f]]
    /\ \A g : g \in DOMAIN m.groups <=> Has(ConfigClusterGroupMeta(g))
    /\ m.groups = [g \in DOMAIN m.groups |-> etcd[ConfigClusterGroupMeta(g)]]
    /\ \A r : r \in DOMAIN m.roles <=> Has(ConfigRole(r))
    /\ m.roles = [r \in DOMAIN m.roles |->
                    [f \in RoleFields |->
                        IF etcd[ConfigRole(r)][f] > 0 THEN etcd[ConfigRole(r)][f] ELSE 0]]
    /\ \A g, gm : gm # "_meta" /\ Has(ManagementGroupConfig(g, gm)) =>
        m.management_groups[<<g, gm>>] =
            [priority |-> etcd[ManagementGroupConfig(g, gm)].priority,
             roles |-> etcd[ManagementGroupConfig(g, gm)].roles]

\* A running node has seeded all that its file could add.
LEMMA RebuiltIsShared ==
    ASSUME FilesDecide, JInv, NEW n \in Running
    PROVE  IsShared(Rebuilt(n))
<1> SUFFICES ASSUME NEW c, c = config[n], NEW snap, snap = EtcdSnapshot(etcd, n),
                    NEW m, m = Merge(c, snap)
             PROVE  IsShared(m)
  BY DEF Rebuilt
<1>1. /\ n \in Nodes /\ c \in Configs(n)
      /\ \A k \in Seeds(c, n) : Has(k)
      /\ IsSnapshot(snap, n) /\ IsMerge(m, c, snap)
  BY RunningSeeds, SnapshotFacts, MergedMaps DEF JInv
<1>2. m.cluster = [f \in ClusterFields |-> etcd[ConfigMeta][f]]
  <2>1. Has(ConfigMeta)
    BY <1>1 DEF Seeds
  <2>2. PICK doc : doc = etcd[ConfigMeta]
    OBVIOUS
  <2>3. snap.cluster = {doc}
    BY <1>1, <2>1, <2>2 DEF IsSnapshot
  <2>4. \A f \in ClusterFields : doc[f] > 0
    BY <2>1, <2>2 DEF JInv, FileDocs, FilesDecide
  <2>5. DOMAIN c.cluster = ClusterFields
    BY <1>1 DEF FilesDecide
  <2>6. m.cluster = Overlay(c.cluster, CHOOSE d \in snap.cluster : TRUE)
    BY <2>3 DEF Merge
  <2>7. (CHOOSE d \in snap.cluster : TRUE) = doc
    BY <2>3
  <2> QED BY <2>2, <2>4, <2>5, <2>6, <2>7 DEF Overlay
<1>3. /\ \A g : g \in DOMAIN m.groups <=> Has(ConfigClusterGroupMeta(g))
      /\ m.groups = [g \in DOMAIN m.groups |-> etcd[ConfigClusterGroupMeta(g)]]
  <2> DEFINE gs == [g \in {h \in DOMAIN snap.groups : snap.groups[h].name # 0} |-> snap.groups[g]]
  <2>1. \A g \in DOMAIN c.groups : Has(ConfigClusterGroupMeta(g))
    BY <1>1 DEF Seeds
  <2>2. \A g : g \in DOMAIN snap.groups <=> Has(ConfigClusterGroupMeta(g))
    BY <1>1 DEF IsSnapshot
  <2>3. \A g \in DOMAIN snap.groups : snap.groups[g] = etcd[ConfigClusterGroupMeta(g)]
    BY <1>1 DEF IsSnapshot
  <2>4. \A g \in DOMAIN snap.groups : snap.groups[g].name # 0
    BY <2>2, <2>3 DEF JInv, FileDocs, FilesDecide
  <2>5. DOMAIN gs = DOMAIN snap.groups /\ \A g \in DOMAIN snap.groups : gs[g] = snap.groups[g]
    BY <2>4
  <2>6. m.groups = WithEntries(c.groups, gs)
    BY DEF Merge
  <2> HIDE DEF gs
  <2>7. m.groups = [g \in DOMAIN snap.groups |-> etcd[ConfigClusterGroupMeta(g)]]
    <3>1. DOMAIN c.groups \cup DOMAIN gs = DOMAIN snap.groups
      BY <2>1, <2>2, <2>5
    <3> QED BY <2>3, <2>5, <2>6, <3>1 DEF WithEntries
  <2> QED BY <2>2, <2>7
<1>4. /\ \A r : r \in DOMAIN m.roles <=> Has(ConfigRole(r))
      /\ m.roles = [r \in DOMAIN m.roles |->
                      [f \in RoleFields |->
                          IF etcd[ConfigRole(r)][f] > 0 THEN etcd[ConfigRole(r)][f] ELSE 0]]
  <2> DEFINE rs == [r \in DOMAIN snap.roles |-> Overlay(Or(c.roles, r, NoRole), snap.roles[r])]
             role(r) == [f \in RoleFields |->
                            IF etcd[ConfigRole(r)][f] > 0 THEN etcd[ConfigRole(r)][f] ELSE 0]
  <2>1. \A r \in DOMAIN c.roles : Has(ConfigRole(r))
    BY <1>1 DEF Seeds
  <2>2. \A r : r \in DOMAIN snap.roles <=> Has(ConfigRole(r))
    BY <1>1 DEF IsSnapshot
  <2>3. \A r \in DOMAIN snap.roles : snap.roles[r] = etcd[ConfigRole(r)]
    BY <1>1 DEF IsSnapshot
  <2>4. ASSUME NEW r \in DOMAIN snap.roles PROVE rs[r] = role(r)
    <3>1. PICK doc : doc = etcd[ConfigRole(r)]
      OBVIOUS
    <3>2. PICK local : local = Or(c.roles, r, NoRole)
      OBVIOUS
    <3>3. DOMAIN local = RoleFields
      BY <1>1, <3>2, RolesOfFiles DEF Or, NoRole
    <3>4. PICK p \in Nodes : \E d \in Configs(p) : r \in DOMAIN d.roles /\ doc = d.roles[r]
      BY <2>2, <2>4, <3>1 DEF JInv, FileDocs
    <3>5. PICK d \in Configs(p) : r \in DOMAIN d.roles /\ doc = d.roles[r]
      BY <3>4
    <3>6. ASSUME NEW f \in RoleFields, ~(doc[f] > 0) PROVE local[f] = 0
      <4>1. r \in DOMAIN c.roles => c.roles[r][f] = 0
        BY <1>1, <3>5, <3>6 DEF FilesDecide
      <4> QED BY <3>2, <4>1 DEF Or, NoRole
    <3>7. rs[r] = Overlay(local, doc)
      BY <2>3, <3>1, <3>2
    <3>8. Overlay(local, doc) = [f \in RoleFields |-> IF doc[f] > 0 THEN doc[f] ELSE local[f]]
      BY <3>3 DEF Overlay
    <3> QED BY <3>1, <3>6, <3>7, <3>8
  <2>5. m.roles = WithEntries(c.roles, rs)
    BY DEF Merge
  <2>6. DOMAIN rs = DOMAIN snap.roles
    OBVIOUS
  <2> HIDE DEF rs, role
  <2>7. m.roles = [r \in DOMAIN snap.roles |-> role(r)]
    <3>1. DOMAIN c.roles \cup DOMAIN rs = DOMAIN snap.roles
      BY <2>1, <2>2, <2>6
    <3> QED BY <2>4, <2>5, <2>6, <3>1 DEF WithEntries
  <2>8. m.roles = [r \in DOMAIN m.roles |-> role(r)] /\ DOMAIN m.roles = DOMAIN snap.roles
    BY <2>7
  <2> USE DEF role
  <2> QED BY <2>2, <2>8
<1>5. ASSUME NEW g, NEW gm, gm # "_meta", Has(ManagementGroupConfig(g, gm))
      PROVE  m.management_groups[<<g, gm>>] =
                 [priority |-> etcd[ManagementGroupConfig(g, gm)].priority,
                  roles |-> etcd[ManagementGroupConfig(g, gm)].roles]
  <2>1. PICK doc : doc = etcd[ManagementGroupConfig(g, gm)]
    OBVIOUS
  <2>2. doc.priority > 0 /\ doc.roles # {}
    BY <1>5, <2>1, ConfigKinds DEF JInv, FileDocs, Has
  <2>3. <<g, gm>> \in DOMAIN snap.management_groups /\ snap.management_groups[<<g, gm>>] = doc
    BY <1>1, <1>5, <2>1 DEF IsSnapshot
  <2>4. PICK local : m.management_groups[<<g, gm>>] = OverlayGroup(local, doc)
    BY <1>1, <2>3 DEF IsMerge
  <2> QED BY <2>1, <2>2, <2>4 DEF OverlayGroup
<1> QED BY <1>2, <1>3, <1>4, <1>5 DEF IsShared

\* The config watchers of all running nodes rebuild, and throw away, the same
\* configuration of the cluster, whatever each file says and whoever seeded
\* what, if the files decide every field.  What the nodes run with is their
\* files (watcher.go:62), of which the theorem says nothing.
THEOREM RebuildsAgreeAlways == ASSUME FilesDecide PROVE Spec => []RebuildsAgree
<1>1. JInv => RebuildsAgree
  <2> SUFFICES ASSUME JInv, NEW n1 \in Running, NEW n2 \in Running,
                      NEW c1, c1 = Rebuilt(n1), NEW c2, c2 = Rebuilt(n2)
               PROVE  /\ c1.cluster = c2.cluster
                      /\ c1.groups = c2.groups
                      /\ c1.roles = c2.roles
                      /\ \A at \in Memberships(c1) :
                            c1.management_groups[at] = c2.management_groups[at]
    BY DEF RebuildsAgree
  <2>1. IsShared(c1) /\ IsShared(c2)
    BY RebuiltIsShared
  <2>2. c1.cluster = c2.cluster
    BY <2>1 DEF IsShared
  <2>3. DOMAIN c1.groups = DOMAIN c2.groups /\ DOMAIN c1.roles = DOMAIN c2.roles
    BY <2>1 DEF IsShared
  <2>4. c1.groups = c2.groups
    BY <2>1, <2>3 DEF IsShared
  <2>5. c1.roles = c2.roles
    BY <2>1, <2>3 DEF IsShared
  <2>6. ASSUME NEW at \in Memberships(c1)
        PROVE  c1.management_groups[at] = c2.management_groups[at]
    <3>1. /\ n1 \in Nodes /\ config[n1] \in Configs(n1)
          /\ \A k \in Seeds(config[n1], n1) : Has(k)
      BY RunningSeeds
    <3>2. at \in Memberships(config[n1])
      BY <2>6, OwnNode DEF OwnNodeIsLocal, Memberships
    <3>3. at = <<at[1], at[2]>> /\ at[2] # "_meta"
      <4>1. Proper(config[n1])
        BY <3>1, ConfigFacts
      <4> QED BY <3>2, <4>1 DEF Proper, Reserved
    <3>4. Has(ManagementGroupConfig(at[1], at[2]))
      BY <3>1, <3>2 DEF Seeds
    <3>5. PICK g, gm : g = at[1] /\ gm = at[2]
      OBVIOUS
    <3>6. gm # "_meta" /\ Has(ManagementGroupConfig(g, gm)) /\ at = <<g, gm>>
      BY <3>3, <3>4, <3>5
    <3>7. ASSUME NEW c, IsShared(c)
          PROVE  c.management_groups[<<g, gm>>] =
                    [priority |-> etcd[ManagementGroupConfig(g, gm)].priority,
                     roles |-> etcd[ManagementGroupConfig(g, gm)].roles]
      BY <3>6, <3>7 DEF IsShared
    <3> QED BY <2>1, <3>6, <3>7
  <2> QED BY <2>2, <2>4, <2>5, <2>6
<1> QED BY <1>1, SeedingInvariant, PTL

=============================================================================
