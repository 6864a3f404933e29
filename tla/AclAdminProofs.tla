--------------------------- MODULE AclAdminProofs ---------------------------
(***************************************************************************)
(* Proofs about AclAdmin and AclEngine, for any configurations, rules and  *)
(* queries, any number of requests and watcher tasks, and any number of    *)
(* edits by hand and failing file operations.                              *)
(***************************************************************************)
EXTENDS AclAdmin, SequenceTheorems, WellFoundedInduction, TLAPS

Data == AclConfigs \union {Unreadable}

RequestPCs == {"idle", "backup", "write", "writing", "read", "rename", "cleanup", "restore",
               "restoring", "reload"}
Places == {"none", "temp", "file", "gone"}
WatchPCs == {"idle", "compare", "load", "apply", "store"}

Temps == {NoFile} \union [data : Data, stamp : Nat]
Requests == [pc : RequestPCs, config : Data, found : Data, second : 0..MaxClock, fd : Places,
             alone : BOOLEAN]
Reloads == [pc : WatchPCs, fp : Nat, config : Data]

\* The types of the variables.
Types ==
  /\ file \in [data : Data, stamp : Nat]
  /\ backup \in Data \union {NoFile}
  /\ temp \in [0..MaxClock -> Temps]
  /\ engine \in AclConfigs /\ enforced \in AclConfigs
  /\ req \in [Clients -> Requests]
  /\ watch \in [Watchers -> Reloads]
  /\ stored \in Nat /\ nextStamp \in Nat
  /\ clock \in 0..MaxClock
  /\ edits \in 0..MaxEdits /\ writes \in 0..MaxWrites /\ faults \in 0..MaxFaults
  /\ raced \in BOOLEAN

\* A request that has a temporary file open finds it under its name.
OpenInv == \A c \in Clients : req[c].fd = "temp" => temp[req[c].second] # NoFile

\* Whatever reaches the engine was validated on the way.
EngineInv ==
  /\ Validate(engine) /\ Compiles(engine) /\ Validate(enforced)
  /\ \A c \in Clients :
       ~(req[c].pc \in {"idle", "restoring"}) =>
         req[c].config \in AclConfigs /\ Validate(req[c].config)
  /\ \A w \in Watchers :
       watch[w].pc = "apply" => watch[w].config \in AclConfigs /\ Validate(watch[w].config)

\* A stamp a temporary file carries was handed out, and nobody has seen it yet.
Unseen(t) ==
  /\ 0 < t.stamp /\ t.stamp < nextStamp
  /\ t.stamp # file.stamp /\ t.stamp # stored
  /\ \A w \in Watchers : watch[w].fp # t.stamp

\* Every stamp was handed out, and no two files share one.
StampInv ==
  /\ file.stamp < nextStamp /\ stored < nextStamp
  /\ \A w \in Watchers : watch[w].fp < nextStamp
  /\ \A s \in 0..MaxClock : temp[s] # NoFile => Unseen(temp[s])
  /\ \A r, s \in 0..MaxClock :
       r # s /\ temp[r] # NoFile /\ temp[s] # NoFile => temp[r].stamp # temp[s].stamp

\* The engine and the sessions are in step with a file that can be used.
InStep == Usable(file.data) => engine = file.data /\ enforced = file.data

\* A task that is about to store the stamp of an older file sends the watcher back
\* to the file.
NoStaleStore == \A w \in Watchers : watch[w].pc = "store" => watch[w].fp = file.stamp

\* Unless a stale configuration was installed behind its back, the watcher is, or
\* is about to be, content with the stamp of a file the engine is in step with.
RaceInv ==
  /\ \A w \in Watchers :
       watch[w].pc = "apply" /\ watch[w].fp = file.stamp => watch[w].config = file.data
  /\ ~raced => \A w \in Watchers : AboutToStore(w) => InStep
  /\ ~raced /\ stored = file.stamp /\ NoStaleStore => InStep

\* Where a request that runs alone has got to, the file, the backup and its
\* temporary file hold what it left there.
Sequential(c) ==
  LET r == req[c]
  IN /\ r.pc \in {"backup", "write", "writing", "read", "rename", "restore"} => file.data = r.found
     /\ r.pc \in {"write", "writing", "read", "rename", "restore", "restoring"} => backup = r.found
     /\ r.pc = "writing" => r.fd = "temp" /\ temp[r.second].data = EmptyConfig
     /\ r.pc \in {"read", "rename"} => temp[r.second] # NoFile /\ temp[r.second].data = r.config
     /\ r.pc \in {"cleanup", "reload"} => file.data = r.config
     /\ r.pc = "restoring" => r.config = r.found /\ r.fd = "file" /\ file.data = EmptyConfig

AloneInv ==
  /\ \A c, d \in Clients : c # d /\ req[c].pc # "idle" /\ req[c].alone => req[d].pc = "idle"
  /\ \A c \in Clients : req[c].alone => Sequential(c)

AdminInv == Types /\ OpenInv /\ EngineInv /\ StampInv /\ RaceInv /\ AloneInv

-----------------------------------------------------------------------------
(* Sequences and indices.                                                  *)

\* A non-empty set of naturals has a least element.
LEMMA LeastNatural ==
  ASSUME NEW T, T \subseteq Nat, T # {} PROVE \E x \in T : \A y \in T : x <= y
<1>1. IsWellFoundedOn(OpToRel(<, Nat), Nat)
  BY NatLessThanWellFounded
<1>2. PICK x \in T : \A y \in T : ~(<<y, x>> \in OpToRel(<, Nat))
  BY <1>1, WFMin
<1>3. \A y \in T : ~(y < x)
  BY <1>2 DEF OpToRel
<1> QED
  BY <1>3

\* Min picks an element of a non-empty set of indices.
LEMMA MinIndex ==
  ASSUME NEW T, T \subseteq Nat, T # {} PROVE Min(T) \in T
BY LeastNatural DEF Min

\* Max picks the greatest element of a non-empty set of indices.
LEMMA MaxBounded ==
  ASSUME NEW n \in Nat, NEW I, I \subseteq 1 .. n, I # {}
  PROVE  Max(I) \in I /\ \A y \in I : y <= Max(I)
<1> DEFINE T == {k \in Nat : n - k \in I}
<1>1. T \subseteq Nat /\ T # {}
  <2>1. PICK i \in I : TRUE
    OBVIOUS
  <2>2. n - i \in Nat /\ n - (n - i) = i
    OBVIOUS
  <2> QED
    BY <2>2
<1> HIDE DEF T
<1>2. PICK x \in T : \A y \in T : x <= y
  BY <1>1, LeastNatural
<1>3. x \in Nat /\ n - x \in I
  BY DEF T
<1>4. ASSUME NEW y \in I PROVE n - x >= y
  <2>1. n - y \in Nat /\ n - (n - y) = y
    OBVIOUS
  <2>2. n - y \in T
    BY <2>1 DEF T
  <2>3. x <= n - y
    BY <1>2, <2>2
  <2> QED
    BY <1>3, <2>1, <2>3
<1> QED
  BY <1>3, <1>4 DEF Max

\* Removing an element of a sequence leaves a sequence.
LEMMA RemoveAtType ==
  ASSUME NEW S, NEW s \in Seq(S), NEW i \in 1..Len(s) PROVE RemoveAt(s, i) \in Seq(S)
<1>1. Len(s) \in Nat /\ \A j \in 1..Len(s) : s[j] \in S
  OBVIOUS
<1>2. SubSeq(s, 1, i - 1) \in Seq(S)
  BY <1>1, SubSeqProperties
<1>3. SubSeq(s, i + 1, Len(s)) \in Seq(S)
  BY <1>1, SubSeqProperties
<1> QED
  BY <1>2, <1>3 DEF RemoveAt

\* So does removing the first occurrence of a value.
LEMMA RemoveFirstType ==
  ASSUME NEW S, NEW s \in Seq(S), NEW e PROVE RemoveFirst(s, e) \in Seq(S)
<1> DEFINE I == {i \in 1..Len(s) : s[i] = e}
<1>1. SelectInSeq(s, LAMBDA v : v = e) = IF I # {} THEN Min(I) ELSE 0
  BY DEF SelectInSeq
<1>2. I \subseteq Nat /\ I \subseteq 1..Len(s)
  OBVIOUS
<1>3. I # {} => Min(I) \in I
  BY <1>2, MinIndex
<1>4. ASSUME I # {} PROVE RemoveAt(s, Min(I)) \in Seq(S)
  <2>1. Min(I) \in 1..Len(s)
    BY <1>2, <1>3, <1>4
  <2> QED
    BY <2>1, RemoveAtType
<1> QED
  BY <1>1, <1>4 DEF RemoveFirst

\* The recursive function in FlattenSeq exists, and its values are sequences, up
\* to every length: a least length where it fails could be reached from the one
\* before.
LEMMA FlattenSteps ==
  ASSUME NEW S, NEW ss \in Seq(Seq(S))
  PROVE  \E f : /\ FlattenSeq(ss) = IF Len(ss) = 0 THEN ss ELSE f[Len(ss)]
                /\ \A i \in 1..Len(ss) : f[i] = IF i = 1 THEN ss[i] ELSE f[i - 1] \o ss[i]
                /\ \A i \in 1..Len(ss) : f[i] \in Seq(S)
<1> DEFINE Step(f, n) == [i \in 1..n |-> IF i = 1 THEN ss[i] ELSE f[i - 1] \o ss[i]]
           Good(f, n) == f = Step(f, n) /\ \A i \in 1..n : f[i] \in Seq(S)
           Bad == {n \in Nat : n <= Len(ss) /\ ~\E f : Good(f, n)}
<1>1. Len(ss) \in Nat /\ \A i \in 1..Len(ss) : ss[i] \in Seq(S)
  OBVIOUS
<1>2. Bad = {}
  <2> SUFFICES ASSUME Bad # {} PROVE FALSE
    OBVIOUS
  <2>1. PICK n \in Bad : \A m \in Bad : n <= m
    BY LeastNatural
  <2>2. n # 0
    <3>1. Good(<<>>, 0)
      OBVIOUS
    <3> QED
      BY <3>1
  <2>3. n - 1 \in Nat /\ ~(n - 1 \in Bad) /\ n - 1 <= Len(ss)
    <3>1. n - 1 \in Nat /\ n - 1 <= Len(ss) /\ ~(n <= n - 1)
      BY <2>1, <2>2, <1>1
    <3> QED
      BY <2>1, <3>1
  <2>4. PICK f : Good(f, n - 1)
    BY <2>3
  <2> DEFINE v == IF n = 1 THEN ss[n] ELSE f[n - 1] \o ss[n]
             g == [i \in 1..n |-> IF i = n THEN v ELSE f[i]]
  <2>5. v \in Seq(S)
    <3>1. ss[n] \in Seq(S)
      BY <1>1, <2>1, <2>2
    <3>2. n # 1 => f[n - 1] \in Seq(S)
      BY <2>3, <2>4
    <3> QED
      BY <3>1, <3>2
  <2> HIDE DEF v
  <2>6. \A i \in 1..n : g[i] \in Seq(S)
    BY <2>3, <2>4, <2>5
  <2>7. ASSUME NEW i \in 1..n PROVE g[i] = IF i = 1 THEN ss[i] ELSE g[i - 1] \o ss[i]
    <3>1. CASE i = n
      <4>1. i # 1 => g[i - 1] = f[n - 1]
        BY <3>1, <2>3
      <4> QED
        BY <3>1, <4>1 DEF v
    <3>2. CASE i # n
      <4>1. i \in 1..(n - 1) /\ g[i] = f[i] /\ (i # 1 => g[i - 1] = f[i - 1])
        BY <3>2, <2>3
      <4>2. f[i] = IF i = 1 THEN ss[i] ELSE f[i - 1] \o ss[i]
        BY <4>1, <2>4
      <4> QED
        BY <4>1, <4>2
    <3> QED
      BY <3>1, <3>2
  <2>8. g = Step(g, n)
    BY <2>7
  <2>9. Good(g, n)
    BY <2>6, <2>8
  <2> QED
    BY <2>1, <2>9
<1>3. \E f : Good(f, Len(ss))
  <2>1. Len(ss) <= Len(ss)
    BY <1>1
  <2> QED
    BY <1>1, <1>2, <2>1
<1> DEFINE flatten == CHOOSE f : f = Step(f, Len(ss))
<1>4. FlattenSeq(ss) = IF Len(ss) = 0 THEN ss ELSE flatten[Len(ss)]
  BY Zenon DEF FlattenSeq
<1>5. flatten = Step(flatten, Len(ss))
  BY <1>3, Zenon
<1> HIDE DEF flatten
<1>6. \A i \in 1..Len(ss) : flatten[i] \in Seq(S)
  <2> DEFINE Odd == {i \in 1..Len(ss) : ~(flatten[i] \in Seq(S))}
  <2> SUFFICES ASSUME Odd # {} PROVE FALSE
    OBVIOUS
  <2>1. Odd \subseteq Nat
    OBVIOUS
  <2>2. PICK i \in Odd : \A j \in Odd : i <= j
    BY <2>1, LeastNatural
  <2>3. i \in 1..Len(ss) /\ flatten[i] = IF i = 1 THEN ss[i] ELSE flatten[i - 1] \o ss[i]
    BY <1>5
  <2>4. i # 1 => i - 1 \in 1..Len(ss) /\ ~(i <= i - 1)
    BY <1>1
  <2>5. i # 1 => flatten[i - 1] \in Seq(S)
    BY <2>2, <2>4
  <2>6. flatten[i] \in Seq(S)
    BY <1>1, <2>3, <2>5
  <2> QED
    BY <2>2, <2>6
<1>7. \A i \in 1..Len(ss) : flatten[i] = IF i = 1 THEN ss[i] ELSE flatten[i - 1] \o ss[i]
  BY <1>5
<1> QED
  BY <1>4, <1>6, <1>7

\* Flattening a sequence of sequences gives a sequence.
LEMMA FlattenType ==
  ASSUME NEW S, NEW ss \in Seq(Seq(S)) PROVE FlattenSeq(ss) \in Seq(S)
<1>1. PICK f : /\ FlattenSeq(ss) = IF Len(ss) = 0 THEN ss ELSE f[Len(ss)]
               /\ \A i \in 1..Len(ss) : f[i] \in Seq(S)
  BY FlattenSteps
<1>2. Len(ss) \in Nat
  OBVIOUS
<1>3. CASE Len(ss) = 0
  <2>1. ss = <<>>
    BY <1>3
  <2> QED
    BY <1>1, <1>3, <2>1
<1>4. CASE Len(ss) # 0
  BY <1>1, <1>2, <1>4
<1> QED
  BY <1>3, <1>4

\* The elements of a concatenation.
LEMMA ConcatContains ==
  ASSUME NEW S, NEW s \in Seq(S), NEW t \in Seq(S), NEW x
  PROVE  Contains(s \o t, x) <=> Contains(s, x) \/ Contains(t, x)
<1>1. /\ Len(s) \in Nat /\ Len(t) \in Nat /\ Len(s \o t) = Len(s) + Len(t)
      /\ \A i \in 1..Len(s) : (s \o t)[i] = s[i]
      /\ \A i \in 1..Len(t) : (s \o t)[Len(s) + i] = t[i]
  OBVIOUS
<1>2. ASSUME Contains(s, x) PROVE Contains(s \o t, x)
  <2>1. PICK i \in 1..Len(s) : s[i] = x
    BY <1>2 DEF Contains
  <2>2. i \in 1..Len(s \o t) /\ (s \o t)[i] = x
    BY <1>1, <2>1
  <2> QED
    BY <2>2 DEF Contains
<1>3. ASSUME Contains(t, x) PROVE Contains(s \o t, x)
  <2>1. PICK i \in 1..Len(t) : t[i] = x
    BY <1>3 DEF Contains
  <2>2. Len(s) + i \in 1..Len(s \o t) /\ (s \o t)[Len(s) + i] = x
    BY <1>1, <2>1
  <2> QED
    BY <2>2 DEF Contains
<1>4. ASSUME Contains(s \o t, x) PROVE Contains(s, x) \/ Contains(t, x)
  <2>1. PICK i \in 1..Len(s \o t) : (s \o t)[i] = x
    BY <1>4 DEF Contains
  <2>2. CASE i <= Len(s)
    <3>1. i \in 1..Len(s) /\ s[i] = x
      BY <1>1, <2>1, <2>2
    <3> QED
      BY <3>1 DEF Contains
  <2>3. CASE i > Len(s)
    <3>1. i - Len(s) \in 1..Len(t) /\ Len(s) + (i - Len(s)) = i
      BY <1>1, <2>1, <2>3
    <3>2. t[i - Len(s)] = x
      BY <1>1, <2>1, <3>1
    <3> QED
      BY <3>1, <3>2 DEF Contains
  <2> QED
    BY <1>1, <2>1, <2>2, <2>3
<1> QED
  BY <1>2, <1>3, <1>4

\* A flattened sequence holds what its parts hold.
LEMMA FlattenContains ==
  ASSUME NEW S, NEW ss \in Seq(Seq(S)), NEW x
  PROVE  Contains(FlattenSeq(ss), x) <=> \E i \in 1..Len(ss) : Contains(ss[i], x)
<1>1. PICK f : /\ FlattenSeq(ss) = IF Len(ss) = 0 THEN ss ELSE f[Len(ss)]
               /\ \A i \in 1..Len(ss) : f[i] = IF i = 1 THEN ss[i] ELSE f[i - 1] \o ss[i]
               /\ \A i \in 1..Len(ss) : f[i] \in Seq(S)
  BY FlattenSteps
<1>2. Len(ss) \in Nat /\ \A i \in 1..Len(ss) : ss[i] \in Seq(S)
  OBVIOUS
<1> DEFINE Same(n) == Contains(f[n], x) <=> \E i \in 1..n : Contains(ss[i], x)
           Bad == {n \in 1..Len(ss) : ~Same(n)}
<1>3. Bad = {}
  <2> SUFFICES ASSUME Bad # {} PROVE FALSE
    OBVIOUS
  <2>1. Bad \subseteq Nat
    BY <1>2
  <2>2. PICK n \in Bad : \A m \in Bad : n <= m
    BY <2>1, LeastNatural
  <2>3. CASE n = 1
    <3>1. f[1] = ss[1] /\ \A i : i \in 1..1 <=> i = 1
      BY <1>1, <2>2, <2>3
    <3>2. Same(1)
      BY <3>1
    <3> QED
      BY <2>2, <2>3, <3>2
  <2>4. CASE n # 1
    <3>1. n - 1 \in 1..Len(ss) /\ ~(n <= n - 1) /\ n \in 1..Len(ss)
      BY <1>2, <2>2, <2>4
    <3>2. Same(n - 1)
      BY <2>2, <3>1
    <3>3. f[n] = f[n - 1] \o ss[n]
      BY <1>1, <2>2, <2>4
    <3>4. Contains(f[n], x) <=> Contains(f[n - 1], x) \/ Contains(ss[n], x)
      BY SMTT(60), <1>1, <1>2, <3>1, <3>3, ConcatContains
    <3>5. \A i : i \in 1..n <=> i \in 1..(n - 1) \/ i = n
      BY <3>1
    <3>6. Same(n)
      BY <3>2, <3>4, <3>5
    <3> QED
      BY <2>2, <3>6
  <2> QED
    BY <2>3, <2>4
<1>4. CASE Len(ss) = 0
  <2>1. FlattenSeq(ss) = ss
    BY <1>1, <1>4
  <2>2. ~\E i : i \in 1..Len(ss)
    BY <1>4
  <2> QED
    BY <2>1, <2>2 DEF Contains
<1>5. CASE Len(ss) # 0
  <2>1. Len(ss) \in 1..Len(ss) /\ FlattenSeq(ss) = f[Len(ss)]
    BY <1>1, <1>2, <1>5
  <2>2. Same(Len(ss))
    BY <1>3, <2>1
  <2> QED
    BY <2>1, <2>2
<1> QED
  BY <1>4, <1>5

-----------------------------------------------------------------------------
(* The edits of acl/crud.rs keep a configuration a configuration.          *)

\* The index the finders return is 0 or the index of an element.
LEMMA FindersInRange ==
  ASSUME NEW config \in AclConfigs, NEW name, NEW rules \in Seq(AclRules), NEW id
  PROVE  /\ FindGroup(config, name) \in 0..Len(config.groups)
         /\ FindUser(config, name) \in 0..Len(config.users)
         /\ FindRule(rules, id) \in 0..Len(rules)
<1>1. /\ Len(config.groups) \in Nat /\ Len(config.users) \in Nat /\ Len(rules) \in Nat
  BY DEF AclConfigs
<1> DEFINE G == {i \in 1..Len(config.groups) : config.groups[i].name = name}
           U == {i \in 1..Len(config.users) : config.users[i].username = name}
           R == {i \in 1..Len(rules) : IdentifierMatches(id, rules[i])}
<1>3. /\ FindGroup(config, name) = IF G # {} THEN Min(G) ELSE 0
      /\ FindUser(config, name) = IF U # {} THEN Min(U) ELSE 0
      /\ FindRule(rules, id) = IF R # {} THEN Min(R) ELSE 0
  BY DEF FindGroup, FindUser, FindRule, SelectInSeq
<1> HIDE DEF G, U, R
<1>4. /\ G \subseteq 1..Len(config.groups)
      /\ U \subseteq 1..Len(config.users)
      /\ R \subseteq 1..Len(rules)
  BY DEF G, U, R
<1>5. G \subseteq Nat /\ U \subseteq Nat /\ R \subseteq Nat
  BY <1>1, <1>4
<1>6. G # {} => Min(G) \in G
  BY <1>5, MinIndex
<1>7. U # {} => Min(U) \in U
  BY <1>5, MinIndex
<1>8. R # {} => Min(R) \in R
  BY <1>5, MinIndex
<1>9. 0 \in 0..Len(config.groups) /\ 0 \in 0..Len(config.users) /\ 0 \in 0..Len(rules)
  BY <1>1
<1>10. /\ 1..Len(config.groups) \subseteq 0..Len(config.groups)
       /\ 1..Len(config.users) \subseteq 0..Len(config.users)
       /\ 1..Len(rules) \subseteq 0..Len(rules)
  BY <1>1
<1> QED
  BY <1>3, <1>4, <1>6, <1>7, <1>8, <1>9, <1>10

\* Replacing a part of a configuration by one of the same type.
LEMMA ReplaceParts ==
  ASSUME NEW config \in AclConfigs
  PROVE  /\ \A gs \in Seq(GroupEntries) : [config EXCEPT !.groups = gs] \in AclConfigs
         /\ \A us \in Seq(UserEntries) : [config EXCEPT !.users = us] \in AclConfigs
         /\ \A p \in Actions : [config EXCEPT !.default_policy = p] \in AclConfigs
         /\ \A g \in 1..Len(config.groups), rs \in Seq(AclRules) :
              [config EXCEPT !.groups[g].rules = rs] \in AclConfigs
         /\ \A u \in 1..Len(config.users), rs \in Seq(AclRules) :
              [config EXCEPT !.users[u].rules = rs] \in AclConfigs
         /\ \A u \in 1..Len(config.users), ns \in Seq(STRING) :
              [config EXCEPT !.users[u].groups = ns] \in AclConfigs
<1>1. \A gs \in Seq(GroupEntries) : [config EXCEPT !.groups = gs] \in AclConfigs
  BY DEF AclConfigs
<1>2. \A us \in Seq(UserEntries) : [config EXCEPT !.users = us] \in AclConfigs
  BY DEF AclConfigs
<1>3. \A p \in Actions : [config EXCEPT !.default_policy = p] \in AclConfigs
  BY DEF AclConfigs
<1>4. ASSUME NEW g \in 1..Len(config.groups), NEW rs \in Seq(AclRules)
      PROVE  [config EXCEPT !.groups[g].rules = rs] \in AclConfigs
  <2>1. config.groups \in Seq(GroupEntries) /\ config.groups[g] \in GroupEntries
    BY DEF AclConfigs
  <2>2. [config.groups[g] EXCEPT !.rules = rs] \in GroupEntries
    BY <2>1 DEF GroupEntries
  <2>3. [config.groups EXCEPT ![g] = [config.groups[g] EXCEPT !.rules = rs]] \in Seq(GroupEntries)
    BY <2>1, <2>2
  <2>4. [config EXCEPT !.groups = [config.groups EXCEPT ![g] =
                                     [config.groups[g] EXCEPT !.rules = rs]]] \in AclConfigs
    BY <1>1, <2>3
  <2> QED
    BY <2>4
<1>5. ASSUME NEW u \in 1..Len(config.users), NEW rs \in Seq(AclRules)
      PROVE  [config EXCEPT !.users[u].rules = rs] \in AclConfigs
  <2>1. config.users \in Seq(UserEntries) /\ config.users[u] \in UserEntries
    BY DEF AclConfigs
  <2>2. [config.users[u] EXCEPT !.rules = rs] \in UserEntries
    BY <2>1 DEF UserEntries
  <2>3. [config.users EXCEPT ![u] = [config.users[u] EXCEPT !.rules = rs]] \in Seq(UserEntries)
    BY <2>1, <2>2
  <2>4. [config EXCEPT !.users = [config.users EXCEPT ![u] =
                                    [config.users[u] EXCEPT !.rules = rs]]] \in AclConfigs
    BY <1>2, <2>3
  <2> QED
    BY <2>4
<1>6. ASSUME NEW u \in 1..Len(config.users), NEW ns \in Seq(STRING)
      PROVE  [config EXCEPT !.users[u].groups = ns] \in AclConfigs
  <2>1. config.users \in Seq(UserEntries) /\ config.users[u] \in UserEntries
    BY DEF AclConfigs
  <2>2. [config.users[u] EXCEPT !.groups = ns] \in UserEntries
    BY <2>1 DEF UserEntries
  <2>3. [config.users EXCEPT ![u] = [config.users[u] EXCEPT !.groups = ns]] \in Seq(UserEntries)
    BY <2>1, <2>2
  <2>4. [config EXCEPT !.users = [config.users EXCEPT ![u] =
                                    [config.users[u] EXCEPT !.groups = ns]]] \in AclConfigs
    BY <1>2, <2>3
  <2> QED
    BY <2>4
<1> QED
  BY <1>1, <1>2, <1>3, <1>4, <1>5, <1>6

\* The edits of a group.
LEMMA GroupEdits ==
  ASSUME NEW config \in AclConfigs, NEW g \in STRING
  PROVE  /\ \A r \in AclRules : add_group_rule(config, g, r) \in AclConfigs \union {Failed}
         /\ \A id : \A r \in AclRules :
              update_group_rule(config, g, id, r) \in AclConfigs \union {Failed}
         /\ \A id : delete_group_rule(config, g, id) \in AclConfigs \union {Failed}
         /\ create_group(config, g) \in AclConfigs \union {Failed}
         /\ delete_group(config, g) \in AclConfigs \union {Failed}
<1> DEFINE k == FindGroup(config, g)
<1>1. k \in 0..Len(config.groups)
  <2>1. <<>> \in Seq(AclRules)
    OBVIOUS
  <2> QED
    BY <2>1, FindersInRange
<1>2. config.groups \in Seq(GroupEntries) /\ Len(config.groups) \in Nat
  BY DEF AclConfigs
<1> HIDE DEF k
<1> DEFINE rules == config.groups[k].rules
<1>3. k # 0 => k \in 1..Len(config.groups) /\ rules \in Seq(AclRules)
  <2> SUFFICES ASSUME k # 0 PROVE k \in 1..Len(config.groups) /\ rules \in Seq(AclRules)
    OBVIOUS
  <2>1. k \in 1..Len(config.groups)
    BY <1>1, <1>2
  <2>2. config.groups[k] \in GroupEntries
    BY <1>2, <2>1
  <2> QED
    BY <2>1, <2>2 DEF GroupEntries
<1> HIDE DEF rules
<1>4. ASSUME NEW r \in AclRules PROVE add_group_rule(config, g, r) \in AclConfigs \union {Failed}
  <2>1. [name |-> g, rules |-> <<r>>] \in GroupEntries
    BY DEF GroupEntries
  <2>2. Append(config.groups, [name |-> g, rules |-> <<r>>]) \in Seq(GroupEntries)
    BY <1>2, <2>1
  <2>3. [config EXCEPT !.groups = Append(config.groups, [name |-> g, rules |-> <<r>>])]
          \in AclConfigs
    BY <2>2, ReplaceParts
  <2>4. k # 0 => Append(rules, r) \in Seq(AclRules)
    BY <1>3
  <2>5. k # 0 => [config EXCEPT !.groups[k].rules = Append(rules, r)] \in AclConfigs
    BY <1>3, <2>4, ReplaceParts
  <2> QED
    BY <2>3, <2>5 DEF add_group_rule, k, rules
<1>5. ASSUME NEW id PROVE k # 0 => FindRule(rules, id) \in 0..Len(rules) /\ Len(rules) \in Nat
  <2>1. ASSUME NEW rs \in Seq(AclRules) PROVE FindRule(rs, id) \in 0..Len(rs)
    BY FindersInRange
  <2>2. \A rs \in Seq(AclRules) : Len(rs) \in Nat
    OBVIOUS
  <2> QED
    BY <1>3, <2>1, <2>2
<1>6. ASSUME NEW id, NEW r \in AclRules
      PROVE  update_group_rule(config, g, id, r) \in AclConfigs \union {Failed}
  <2>1. ASSUME k # 0, FindRule(rules, id) # 0
        PROVE  [config EXCEPT !.groups[k].rules = [rules EXCEPT ![FindRule(rules, id)] = r]]
                 \in AclConfigs
    <3>1. [rules EXCEPT ![FindRule(rules, id)] = r] \in Seq(AclRules)
      BY <1>3, <1>5, <2>1, ExceptSeq
    <3> QED
      BY <1>3, <2>1, <3>1, ReplaceParts
  <2> QED
    BY <2>1 DEF update_group_rule, k, rules
<1>7. ASSUME NEW id PROVE delete_group_rule(config, g, id) \in AclConfigs \union {Failed}
  <2>1. ASSUME k # 0, FindRule(rules, id) # 0
        PROVE  [config EXCEPT !.groups[k].rules = RemoveAt(rules, FindRule(rules, id))]
                 \in AclConfigs
    <3>1. FindRule(rules, id) \in 1..Len(rules)
      BY <1>5, <2>1
    <3>2. RemoveAt(rules, FindRule(rules, id)) \in Seq(AclRules)
      BY <1>3, <2>1, <3>1, RemoveAtType
    <3> QED
      BY <1>3, <2>1, <3>2, ReplaceParts
  <2> QED
    BY <2>1 DEF delete_group_rule, k, rules
<1>8. create_group(config, g) \in AclConfigs \union {Failed}
  <2>1. [name |-> g, rules |-> <<>>] \in GroupEntries
    BY DEF GroupEntries
  <2>2. Append(config.groups, [name |-> g, rules |-> <<>>]) \in Seq(GroupEntries)
    BY <1>2, <2>1
  <2>3. [config EXCEPT !.groups = Append(config.groups, [name |-> g, rules |-> <<>>])]
          \in AclConfigs
    BY <2>2, ReplaceParts
  <2> QED
    BY <2>3 DEF create_group
<1>9. delete_group(config, g) \in AclConfigs \union {Failed}
  <2>1. k # 0 => RemoveAt(config.groups, k) \in Seq(GroupEntries)
    BY <1>2, <1>3, RemoveAtType
  <2>2. k # 0 => [config EXCEPT !.groups = RemoveAt(config.groups, k)] \in AclConfigs
    BY <2>1, ReplaceParts
  <2> QED
    BY <2>2 DEF delete_group, k
<1> QED
  BY <1>4, <1>6, <1>7, <1>8, <1>9

\* The edits of a user.
LEMMA UserEdits ==
  ASSUME NEW config \in AclConfigs, NEW u \in STRING
  PROVE  /\ \A r \in AclRules : add_user_rule(config, u, r) \in AclConfigs \union {Failed}
         /\ \A id : \A r \in AclRules :
              update_user_rule(config, u, id, r) \in AclConfigs \union {Failed}
         /\ \A id : delete_user_rule(config, u, id) \in AclConfigs \union {Failed}
         /\ create_user(config, u) \in AclConfigs \union {Failed}
         /\ delete_user(config, u) \in AclConfigs \union {Failed}
         /\ \A g \in STRING : remove_user_from_group(config, u, g) \in AclConfigs \union {Failed}
<1> DEFINE k == FindUser(config, u)
<1>1. k \in 0..Len(config.users)
  <2>1. <<>> \in Seq(AclRules)
    OBVIOUS
  <2> QED
    BY <2>1, FindersInRange
<1>2. config.users \in Seq(UserEntries) /\ Len(config.users) \in Nat
  BY DEF AclConfigs
<1> HIDE DEF k
<1> DEFINE rules == config.users[k].rules
           groups == config.users[k].groups
<1>3. k # 0 => k \in 1..Len(config.users) /\ rules \in Seq(AclRules) /\ groups \in Seq(STRING)
  <2> SUFFICES ASSUME k # 0
               PROVE  /\ k \in 1..Len(config.users)
                      /\ rules \in Seq(AclRules) /\ groups \in Seq(STRING)
    OBVIOUS
  <2>1. k \in 1..Len(config.users)
    BY <1>1, <1>2
  <2>2. config.users[k] \in UserEntries
    BY <1>2, <2>1
  <2> QED
    BY <2>1, <2>2 DEF UserEntries
<1> HIDE DEF rules, groups
<1>4. ASSUME NEW r \in AclRules PROVE add_user_rule(config, u, r) \in AclConfigs \union {Failed}
  <2>1. NewUser(u, <<r>>) \in UserEntries
    BY DEF UserEntries, NewUser
  <2>2. Append(config.users, NewUser(u, <<r>>)) \in Seq(UserEntries)
    BY <1>2, <2>1
  <2>3. [config EXCEPT !.users = Append(config.users, NewUser(u, <<r>>))] \in AclConfigs
    BY <2>2, ReplaceParts
  <2>4. k # 0 => Append(rules, r) \in Seq(AclRules)
    BY <1>3
  <2>5. k # 0 => [config EXCEPT !.users[k].rules = Append(rules, r)] \in AclConfigs
    BY <1>3, <2>4, ReplaceParts
  <2> QED
    BY <2>3, <2>5 DEF add_user_rule, k, rules
<1>5. ASSUME NEW id PROVE k # 0 => FindRule(rules, id) \in 0..Len(rules) /\ Len(rules) \in Nat
  <2>1. ASSUME NEW rs \in Seq(AclRules) PROVE FindRule(rs, id) \in 0..Len(rs)
    BY FindersInRange
  <2>2. \A rs \in Seq(AclRules) : Len(rs) \in Nat
    OBVIOUS
  <2> QED
    BY <1>3, <2>1, <2>2
<1>6. ASSUME NEW id, NEW r \in AclRules
      PROVE  update_user_rule(config, u, id, r) \in AclConfigs \union {Failed}
  <2>1. ASSUME k # 0, FindRule(rules, id) # 0
        PROVE  [config EXCEPT !.users[k].rules = [rules EXCEPT ![FindRule(rules, id)] = r]]
                 \in AclConfigs
    <3>1. [rules EXCEPT ![FindRule(rules, id)] = r] \in Seq(AclRules)
      BY <1>3, <1>5, <2>1, ExceptSeq
    <3> QED
      BY <1>3, <2>1, <3>1, ReplaceParts
  <2> QED
    BY <2>1 DEF update_user_rule, k, rules
<1>7. ASSUME NEW id PROVE delete_user_rule(config, u, id) \in AclConfigs \union {Failed}
  <2>1. ASSUME k # 0, FindRule(rules, id) # 0
        PROVE  [config EXCEPT !.users[k].rules = RemoveAt(rules, FindRule(rules, id))]
                 \in AclConfigs
    <3>1. FindRule(rules, id) \in 1..Len(rules)
      BY <1>5, <2>1
    <3>2. RemoveAt(rules, FindRule(rules, id)) \in Seq(AclRules)
      BY <1>3, <2>1, <3>1, RemoveAtType
    <3> QED
      BY <1>3, <2>1, <3>2, ReplaceParts
  <2> QED
    BY <2>1 DEF delete_user_rule, k, rules
<1>8. create_user(config, u) \in AclConfigs \union {Failed}
  <2>1. NewUser(u, <<>>) \in UserEntries
    BY DEF UserEntries, NewUser
  <2>2. Append(config.users, NewUser(u, <<>>)) \in Seq(UserEntries)
    BY <1>2, <2>1
  <2>3. [config EXCEPT !.users = Append(config.users, NewUser(u, <<>>))] \in AclConfigs
    BY <2>2, ReplaceParts
  <2> QED
    BY <2>3 DEF create_user
<1>9. delete_user(config, u) \in AclConfigs \union {Failed}
  <2>1. k # 0 => RemoveAt(config.users, k) \in Seq(UserEntries)
    BY <1>2, <1>3, RemoveAtType
  <2>2. k # 0 => [config EXCEPT !.users = RemoveAt(config.users, k)] \in AclConfigs
    BY <2>1, ReplaceParts
  <2> QED
    BY <2>2 DEF delete_user, k
<1>10. ASSUME NEW g \in STRING
       PROVE  remove_user_from_group(config, u, g) \in AclConfigs \union {Failed}
  <2>1. k # 0 => RemoveFirst(groups, g) \in Seq(STRING)
    BY <1>3, RemoveFirstType
  <2>2. k # 0 => [config EXCEPT !.users[k].groups = RemoveFirst(groups, g)] \in AclConfigs
    BY <1>3, <2>1, ReplaceParts
  <2> QED
    BY <2>2 DEF remove_user_from_group, k, groups
<1> QED
  BY <1>4, <1>6, <1>7, <1>8, <1>9, <1>10

\* Adding a member creates the user first when there is none.
LEMMA MemberEdit ==
  ASSUME NEW config \in AclConfigs, NEW u \in STRING, NEW g \in STRING
  PROVE  add_user_to_group(config, u, g) \in AclConfigs \union {Failed}
<1> DEFINE more == [config EXCEPT !.users = Append(config.users, NewUser(u, <<>>))]
           with == IF FindUser(config, u) # 0 THEN config ELSE more
           k == FindUser(with, u)
<1>1. config.users \in Seq(UserEntries)
  BY DEF AclConfigs
<1>2. NewUser(u, <<>>) \in UserEntries
  BY DEF UserEntries, NewUser
<1>3. Append(config.users, NewUser(u, <<>>)) \in Seq(UserEntries)
  BY <1>1, <1>2
<1>4. more \in AclConfigs
  BY <1>3, ReplaceParts
<1>5. with \in AclConfigs
  BY <1>4
<1>6. /\ more.users = Append(config.users, NewUser(u, <<>>))
      /\ with.users \in Seq(UserEntries)
  BY <1>5 DEF AclConfigs
<1>7. k \in 0..Len(with.users)
  <2> HIDE DEF with
  <2>1. <<>> \in Seq(AclRules)
    OBVIOUS
  <2> QED
    BY <1>5, <2>1, FindersInRange
<1>8. k # 0
  <2>1. CASE FindUser(config, u) # 0
    BY <2>1
  <2>2. CASE FindUser(config, u) = 0
    <3> DEFINE U == {i \in 1..Len(more.users) : more.users[i].username = u}
    <3>1. Len(config.users) \in Nat /\ Len(more.users) = Len(config.users) + 1
      BY <1>1, <1>2, <1>6, AppendProperties
    <3>2. more.users[Len(more.users)] = NewUser(u, <<>>)
      BY <1>1, <1>2, <1>6, <3>1, AppendProperties
    <3>3. Len(more.users) \in U
      BY <3>1, <3>2 DEF NewUser
    <3>4. U # {} /\ U \subseteq Nat /\ ~(0 \in U)
      BY <3>3
    <3>5. Min(U) \in U
      BY <3>4, MinIndex
    <3>6. FindUser(more, u) = IF U # {} THEN Min(U) ELSE 0
      BY DEF FindUser, SelectInSeq
    <3> HIDE DEF U, more
    <3>7. FindUser(more, u) # 0
      BY <3>4, <3>5, <3>6
    <3> QED
      BY <2>2, <3>7
  <2> QED
    BY <2>1, <2>2
<1> HIDE DEF more, with, k
<1>9. k \in 1..Len(with.users) /\ with.users[k].groups \in Seq(STRING)
  <2>1. k \in 1..Len(with.users)
    BY <1>6, <1>7, <1>8
  <2>2. with.users[k] \in UserEntries
    BY <1>6, <2>1
  <2> QED
    BY <2>1, <2>2 DEF UserEntries
<1>10. Append(with.users[k].groups, g) \in Seq(STRING)
  BY <1>9
<1>11. [with EXCEPT !.users[k].groups = Append(with.users[k].groups, g)] \in AclConfigs
  BY <1>5, <1>9, <1>10, ReplaceParts
<1> QED
  BY <1>11 DEF add_user_to_group, more, with, k

-----------------------------------------------------------------------------
(* The decision of the engine.                                             *)

\* What is found for a user or a group, along either path, are rules.
LEMMA CollectedParts ==
  ASSUME NEW config \in AclConfigs, NEW u
  PROVE  /\ StaticGroups(config, u) \in Seq(STRING) /\ UserRules(config, u) \in Seq(AclRules)
         /\ \A n : GroupRules(config, n) \in Seq(AclRules)
         /\ \A n : GroupRulesByLowercase(config, n) \in Seq(AclRules)
<1>1. /\ config.users \in Seq(UserEntries) /\ config.groups \in Seq(GroupEntries)
      /\ Len(config.users) \in Nat /\ Len(config.groups) \in Nat
      /\ DOMAIN config.users = 1..Len(config.users)
      /\ DOMAIN config.groups = 1..Len(config.groups)
  BY DEF AclConfigs
<1>2. /\ \A i \in 1..Len(config.users) : /\ config.users[i].rules \in Seq(AclRules)
                                         /\ config.users[i].groups \in Seq(STRING)
      /\ \A i \in 1..Len(config.groups) : config.groups[i].rules \in Seq(AclRules)
  <2>1. \A i \in 1..Len(config.users) : config.users[i] \in UserEntries
    BY <1>1
  <2>2. \A i \in 1..Len(config.groups) : config.groups[i] \in GroupEntries
    BY <1>1
  <2> QED
    BY <2>1, <2>2 DEF UserEntries, GroupEntries
<1>3. UserRules(config, u) \in Seq(AclRules) /\ StaticGroups(config, u) \in Seq(STRING)
  <2>1. UserAcl(config, u) \subseteq 1..Len(config.users)
    BY <1>1 DEF UserAcl
  <2>2. UserAcl(config, u) # {} => Max(UserAcl(config, u)) \in 1..Len(config.users)
    BY <1>1, <2>1, MaxBounded
  <2>3. <<>> \in Seq(AclRules) /\ <<>> \in Seq(STRING)
    OBVIOUS
  <2> QED
    BY <1>2, <2>2, <2>3, Zenon DEF UserRules, StaticGroups
<1>4. ASSUME NEW n PROVE GroupRules(config, n) \in Seq(AclRules)
  <2> DEFINE found == {i \in DOMAIN config.groups : config.groups[i].name = n}
  <2>1. found \subseteq 1..Len(config.groups)
    BY <1>1
  <2>2. found # {} => Max(found) \in 1..Len(config.groups)
    BY <1>1, <2>1, MaxBounded
  <2>3. <<>> \in Seq(AclRules)
    OBVIOUS
  <2> QED
    BY <1>2, <2>2, <2>3, Zenon DEF GroupRules
<1>5. ASSUME NEW n PROVE GroupRulesByLowercase(config, n) \in Seq(AclRules)
  <2> DEFINE found == {i \in DOMAIN config.groups : Lower[config.groups[i].name] = Lower[n]}
  <2>1. found \subseteq 1..Len(config.groups)
    BY <1>1
  <2>2. found # {} => Max(found) \in 1..Len(config.groups)
    BY <1>1, <2>1, MaxBounded
  <2>3. <<>> \in Seq(AclRules)
    OBVIOUS
  <2> QED
    BY <1>2, <2>2, <2>3, Zenon DEF GroupRulesByLowercase
<1> QED
  BY <1>3, <1>4, <1>5

\* The rules collected for a user, along either path, are rules.
LEMMA CollectedRules ==
  ASSUME NEW config \in AclConfigs, NEW u, NEW gs \in Seq(STRING)
  PROVE  /\ StaticGroups(config, u) \in Seq(STRING)
         /\ collect_rules(config, u) \in Seq(AclRules)
         /\ collect_rules_from_groups(config, u, gs) \in Seq(AclRules)
<1>3. UserRules(config, u) \in Seq(AclRules) /\ StaticGroups(config, u) \in Seq(STRING)
  BY CollectedParts
<1>4. \A n : GroupRules(config, n) \in Seq(AclRules)
  BY CollectedParts
<1>5. \A n : GroupRulesByLowercase(config, n) \in Seq(AclRules)
  BY CollectedParts
<1>6. collect_rules(config, u) \in Seq(AclRules)
  <2> DEFINE ns == StaticGroups(config, u)
             ss == [i \in DOMAIN ns |-> GroupRules(config, ns[i])]
  <2>1. Len(ns) \in Nat /\ DOMAIN ns = 1..Len(ns)
    BY <1>3
  <2>2. ss \in Seq(Seq(AclRules))
    BY <1>4, <2>1
  <2>3. FlattenSeq(ss) \in Seq(AclRules)
    BY <2>2, FlattenType
  <2> QED
    BY <1>3, <2>3 DEF collect_rules
<1>7. collect_rules_from_groups(config, u, gs) \in Seq(AclRules)
  <2> DEFINE ss == [i \in DOMAIN gs |-> GroupRulesByLowercase(config, gs[i])]
  <2>1. Len(gs) \in Nat /\ DOMAIN gs = 1..Len(gs)
    OBVIOUS
  <2>2. ss \in Seq(Seq(AclRules))
    BY <1>5, <2>1
  <2>3. FlattenSeq(ss) \in Seq(AclRules)
    BY <2>2, FlattenType
  <2> QED
    BY <1>3, <2>3 DEF collect_rules_from_groups
<1> QED
  BY <1>3, <1>6, <1>7

\* The first match, in any order the sort may leave, is the answer the reference
\* gives: no matching rule is before it in the list, so none may precede it in the
\* order, and a list without a match leaves the default policy.
LEMMA FirstMatchIsReference ==
  ASSUME NEW rules \in Seq(AclRules), NEW policy, NEW q, NEW r \in EvaluateRules(rules, policy, q)
  PROVE  /\ r.decision = Reference(rules, policy, q)
         /\ r.rule \in BestRules(rules, policy, q)
<1> DEFINE D == DOMAIN rules
           Hit(i) == RuleMatches(rules[i], q)
<1>1. /\ D \subseteq Nat
      /\ \A i \in D : rules[i].action \in Actions /\ rules[i].priority \in Nat
  <2>1. D = 1..Len(rules) /\ Len(rules) \in Nat /\ \A i \in D : rules[i] \in AclRules
    OBVIOUS
  <2> QED
    BY <2>1 DEF AclRules
<1>2. PICK t \in SortedOrders(rules) :
        LET hits == {i \in DOMAIN t : FirstMatch(t, q, i)}
        IN r \in IF hits = {} THEN {[decision |-> policy, rule |-> DefaultRule]}
                 ELSE {[decision |-> t[i].action, rule |-> t[i].description] : i \in hits}
  BY DEF EvaluateRules
<1>3. PICK p \in Bijection(D, D) : t = [k \in D |-> rules[p[k]]]
  BY DEF SortedOrders
<1>4. InOrder(t)
  BY DEF SortedOrders
<1>5. /\ p \in [D -> D] /\ \A y \in D : \E x \in D : p[x] = y
  BY DEF Bijection, Surjection
<1>6. DOMAIN t = D /\ \A k \in D : t[k] = rules[p[k]] /\ p[k] \in D
  BY <1>3, <1>5
<1> DEFINE hits == {i \in DOMAIN t : FirstMatch(t, q, i)}
<1>7. CASE hits = {}
  <2>1. \A i \in D : ~RuleMatches(t[i], q)
    <3> DEFINE M == {i \in D : RuleMatches(t[i], q)}
    <3> SUFFICES ASSUME M # {} PROVE FALSE
      OBVIOUS
    <3>1. PICK i \in M : \A j \in M : i <= j
      BY <1>1, LeastNatural
    <3>2. \A j \in D : j < i => ~RuleMatches(t[j], q)
      BY <1>1, <3>1
    <3>3. FirstMatch(t, q, i)
      BY <1>6, <3>1, <3>2 DEF FirstMatch
    <3> QED
      BY <1>6, <1>7, <3>3
  <2>2. \A i \in D : ~Hit(i)
    BY <1>5, <1>6, <2>1
  <2>3. r = [decision |-> policy, rule |-> DefaultRule]
    BY <1>2, <1>7
  <2>4. Reference(rules, policy, q) = policy
    BY <2>2 DEF Reference
  <2>5. BestRules(rules, policy, q) = {DefaultRule}
    BY <2>2 DEF BestRules
  <2> QED
    BY <2>3, <2>4, <2>5
<1>8. CASE hits # {}
  <2>1. PICK i \in hits : r = [decision |-> t[i].action, rule |-> t[i].description]
    BY <1>2, <1>8
  <2> DEFINE b == p[i]
  <2>2. i \in D /\ b \in D /\ t[i] = rules[b] /\ Hit(b)
    BY <1>6, <2>1 DEF FirstMatch
  <2>3. ASSUME NEW j \in D, Hit(j) PROVE ~Before(rules[j], rules[b])
    <3>1. PICK k \in D : p[k] = j
      BY <1>5
    <3>2. t[k] = rules[j]
      BY <1>6, <3>1
    <3>3. ~(k < i)
      BY <1>6, <2>1, <2>3, <3>2 DEF FirstMatch
    <3>4. CASE k = i
      BY <1>1, <2>2, <3>1, <3>2, <3>4 DEF Before, Actions
    <3>5. CASE i < k
      BY <1>4, <1>6, <2>2, <3>2, <3>5 DEF InOrder
    <3> QED
      BY <1>1, <2>2, <3>3, <3>4, <3>5
  <2>4. rules[b].action = Reference(rules, policy, q)
    <3>1. CASE rules[b].action = "block"
      BY <2>2, <3>1 DEF Reference
    <3>2. CASE rules[b].action = "allow"
      <4>1. \A j \in D : Hit(j) => rules[j].action # "block"
        BY <2>3, <3>2 DEF Before
      <4> QED
        BY <2>2, <3>2, <4>1 DEF Reference
    <3> QED
      BY <1>1, <2>2, <3>1, <3>2 DEF Actions
  <2> DEFINE same == {j \in D : rules[j].action = Reference(rules, policy, q) /\ Hit(j)}
  <2>5. b \in same /\ \A j \in same : rules[j].priority <= rules[b].priority
    <3>1. b \in same
      BY <2>2, <2>4
    <3>2. ASSUME NEW j \in same PROVE rules[j].priority <= rules[b].priority
      <4>1. ~Before(rules[j], rules[b]) /\ rules[j].action = rules[b].action /\ j \in D
        BY <2>3, <2>4
      <4> QED
        BY <1>1, <2>2, <4>1 DEF Before
    <3> QED
      BY <3>1, <3>2
  <2>6. rules[b].description \in BestRules(rules, policy, q)
    BY <2>5 DEF BestRules
  <2> QED
    BY <2>1, <2>2, <2>4, <2>6
<1> QED
  BY <1>7, <1>8

\* What a TCP session is re-evaluated about differs from what was asked in the
\* form of the address only.
LEMMA StoredFields ==
  ASSUME NEW q \in AclQueries, q.protocol = "tcp"
  PROVE  /\ StoredQuery(q).addr = StoredAddress(q.addr)
         /\ StoredQuery(q).port = q.port /\ StoredQuery(q).protocol = q.protocol
         /\ q.addr \in Addresses
<1>1. StoredQuery(q) = [q EXCEPT !.addr = StoredAddress(q.addr)]
  BY DEF StoredQuery
<1> QED
  BY <1>1 DEF AclQueries

\* An ip sent as such matches the same rules once it is stored as text: only the
\* patterns for names tell the two apart, and they match neither.
LEMMA StoredMatchesSame ==
  ASSUME NEW rule \in AclRules, NEW q \in AclQueries, q.protocol = "tcp",
         q.addr.form = "domain" => q.addr.ip = NoIp
  PROVE  RuleMatches(rule, StoredQuery(q)) = RuleMatches(rule, q)
<1> DEFINE qs == StoredQuery(q)
<1>1. /\ qs.addr = StoredAddress(q.addr) /\ qs.port = q.port /\ qs.protocol = q.protocol
      /\ q.addr \in Addresses
  BY StoredFields
<1> HIDE DEF qs
<1>2. CASE q.addr.ip = NoIp
  BY <1>1, <1>2 DEF StoredAddress, RuleMatches, qs
<1>3. CASE q.addr.ip # NoIp
  <2>1. q.addr.form = "ip"
    BY <1>1, <1>3 DEF Addresses
  <2>2. qs.addr.form = "ip" /\ qs.addr.ip = q.addr.ip
    BY <1>1, <1>3 DEF StoredAddress, IpAddress
  <2>3. ASSUME NEW d \in Destinations
        PROVE  DestinationMatches(d, qs.addr) = DestinationMatches(d, q.addr)
    <3>1. d.kind \in {"all", "ip", "cidr", "domain", "wildcard"}
      BY DEF Destinations
    <3> QED
      BY <2>1, <2>2, <3>1 DEF DestinationMatches
  <2>4. \A i \in DOMAIN rule.destinations : rule.destinations[i] \in Destinations
    BY DEF AclRules
  <2> QED
    BY <1>1, <2>3, <2>4 DEF RuleMatches, qs
<1> QED
  BY <1>2, <1>3

\* An ip sent as a name may lose a match once it is stored, and never gains one.
LEMMA StoredMatchesLess ==
  ASSUME NEW rule \in AclRules, NEW q \in AclQueries, q.protocol = "tcp",
         RuleMatches(rule, StoredQuery(q))
  PROVE  RuleMatches(rule, q)
<1> DEFINE qs == StoredQuery(q)
<1>1. /\ qs.addr = StoredAddress(q.addr) /\ qs.port = q.port /\ qs.protocol = q.protocol
  BY StoredFields
<1> HIDE DEF qs
<1>2. CASE q.addr.ip = NoIp
  BY <1>1, <1>2 DEF StoredAddress, RuleMatches, qs
<1>3. CASE q.addr.ip # NoIp
  <2>1. qs.addr.form = "ip" /\ qs.addr.ip = q.addr.ip
    BY <1>1, <1>3 DEF StoredAddress, IpAddress
  <2>2. ASSUME NEW d \in Destinations, DestinationMatches(d, qs.addr)
        PROVE  DestinationMatches(d, q.addr)
    <3>1. d.kind \in {"all", "ip", "cidr", "domain", "wildcard"}
      BY DEF Destinations
    <3> QED
      BY <2>1, <2>2, <3>1 DEF DestinationMatches
  <2>3. \A i \in DOMAIN rule.destinations : rule.destinations[i] \in Destinations
    BY DEF AclRules
  <2> QED
    BY <1>1, <2>2, <2>3 DEF RuleMatches, qs
<1> QED
  BY <1>2, <1>3

\* In a valid configuration whose group names differ by more than letter case, a
\* group is found by its name and by its lower case alike.
LEMMA GroupFoundAlike ==
  ASSUME NEW config \in AclConfigs, NEW k \in DOMAIN config.groups,
         \A i, j \in DOMAIN config.groups :
           Lower[config.groups[i].name] = Lower[config.groups[j].name] => i = j
  PROVE  GroupRules(config, config.groups[k].name)
           = GroupRulesByLowercase(config, config.groups[k].name)
<1> DEFINE n == config.groups[k].name
           exact == {i \in DOMAIN config.groups : config.groups[i].name = n}
           lower == {i \in DOMAIN config.groups : Lower[config.groups[i].name] = Lower[n]}
<1>1. exact = {k}
  OBVIOUS
<1>2. lower = {k}
  OBVIOUS
<1> QED
  BY <1>1, <1>2 DEF GroupRules, GroupRulesByLowercase

\* The groups of a user in a valid configuration exist.
LEMMA StaticGroupsExist ==
  ASSUME NEW config \in AclConfigs, Validate(config), NEW u,
         NEW i \in DOMAIN StaticGroups(config, u)
  PROVE  \E k \in DOMAIN config.groups : config.groups[k].name = StaticGroups(config, u)[i]
<1>1. Len(config.users) \in Nat /\ DOMAIN config.users = 1..Len(config.users)
  BY DEF AclConfigs
<1>2. UserAcl(config, u) # {}
  <2>1. ~\E j : j \in DOMAIN <<>>
    OBVIOUS
  <2> QED
    BY <2>1 DEF StaticGroups
<1>3. UserAcl(config, u) \subseteq 1..Len(config.users)
  BY <1>1 DEF UserAcl
<1>4. Max(UserAcl(config, u)) \in DOMAIN config.users
  BY <1>1, <1>2, <1>3, MaxBounded
<1>5. StaticGroups(config, u) = config.users[Max(UserAcl(config, u))].groups
  BY <1>2 DEF StaticGroups
<1> QED
  BY <1>4, <1>5 DEF Validate

\* The two evaluations of a connection agree.
LEMMA SameDecisions ==
  ASSUME NEW u, NEW q \in AclQueries, engine \in AclConfigs, Validate(engine), NoCaseVariants,
         q.protocol = "tcp", q.addr.form = "domain" => q.addr.ip = NoIp
  PROVE  HandlerDecisions(engine, u, StaticGroups(engine, u), q) = EnforcedDecisions(engine, u, q)
<1> DEFINE gs == StaticGroups(engine, u)
           rules == collect_rules(engine, u)
           qs == StoredQuery(q)
<1>1. [i \in DOMAIN gs |-> GroupRules(engine, gs[i])]
        = [i \in DOMAIN gs |-> GroupRulesByLowercase(engine, gs[i])]
  <2>1. ASSUME NEW i \in DOMAIN gs
        PROVE  GroupRules(engine, gs[i]) = GroupRulesByLowercase(engine, gs[i])
    <3>1. PICK k \in DOMAIN engine.groups : engine.groups[k].name = gs[i]
      BY StaticGroupsExist
    <3>2. \A m, j \in DOMAIN engine.groups :
            Lower[engine.groups[m].name] = Lower[engine.groups[j].name] => m = j
      BY DEF NoCaseVariants
    <3>3. GroupRules(engine, engine.groups[k].name)
            = GroupRulesByLowercase(engine, engine.groups[k].name)
      BY <3>2, GroupFoundAlike
    <3> QED
      BY <3>1, <3>3
  <2> QED
    BY <2>1
<1>2. collect_rules_from_groups(engine, u, gs) = rules
  BY <1>1 DEF collect_rules_from_groups, collect_rules
<1>3. rules \in Seq(AclRules)
  <2>1. <<>> \in Seq(STRING)
    OBVIOUS
  <2> QED
    BY <2>1, CollectedRules
<1> HIDE DEF rules, qs
<1>4. ASSUME NEW t \in SortedOrders(rules), NEW i
      PROVE  FirstMatch(t, qs, i) = FirstMatch(t, q, i)
  <2>1. PICK p \in Bijection(DOMAIN rules, DOMAIN rules) : t = [k \in DOMAIN rules |-> rules[p[k]]]
    BY DEF SortedOrders
  <2>2. \A k \in DOMAIN rules : p[k] \in DOMAIN rules
    BY <2>1 DEF Bijection, Surjection
  <2>3. \A k \in DOMAIN rules : rules[k] \in AclRules
    BY <1>3
  <2>4. \A k \in DOMAIN t : t[k] \in AclRules
    BY <2>1, <2>2, <2>3
  <2>5. \A k \in DOMAIN t : RuleMatches(t[k], qs) = RuleMatches(t[k], q)
    BY <2>4, StoredMatchesSame DEF qs
  <2> QED
    BY <2>5 DEF FirstMatch
<1>5. EvaluateRules(rules, engine.default_policy, qs)
        = EvaluateRules(rules, engine.default_policy, q)
  <2> DEFINE Hits(t, x) == {i \in DOMAIN t : FirstMatch(t, x, i)}
             Out(t, x) == IF Hits(t, x) = {}
                          THEN {[decision |-> engine.default_policy, rule |-> DefaultRule]}
                          ELSE {[decision |-> t[i].action, rule |-> t[i].description] :
                                  i \in Hits(t, x)}
  <2>1. \A t \in SortedOrders(rules) : Hits(t, qs) = Hits(t, q)
    BY <1>4
  <2>2. \A t \in SortedOrders(rules) : Out(t, qs) = Out(t, q)
    BY <2>1
  <2>3. \A x : EvaluateRules(rules, engine.default_policy, x)
                 = UNION {Out(t, x) : t \in SortedOrders(rules)}
    BY Zenon DEF EvaluateRules
  <2> HIDE DEF Out
  <2>4. {Out(t, qs) : t \in SortedOrders(rules)} = {Out(t, q) : t \in SortedOrders(rules)}
    BY <2>2
  <2> QED
    BY <2>3, <2>4
<1> QED
  BY <1>2, <1>5 DEF evaluate_with_groups, evaluate, HandlerDecisions, EnforcedDecisions, rules, qs

\* A rule enforce_acl collects from the file's groups is collected by the handler
\* too, when these are among the groups reported.
LEMMA CollectedByBoth ==
  ASSUME NEW u, NEW gs \in Seq(STRING), engine \in AclConfigs, Validate(engine), NoCaseVariants,
         Reports(gs, u), NEW x, Contains(collect_rules(engine, u), x)
  PROVE  Contains(collect_rules_from_groups(engine, u, gs), x)
<1> DEFINE ns == StaticGroups(engine, u)
           own == UserRules(engine, u)
           file_ == [i \in DOMAIN ns |-> GroupRules(engine, ns[i])]
           sent == [i \in DOMAIN gs |-> GroupRulesByLowercase(engine, gs[i])]
<1>1. /\ ns \in Seq(STRING) /\ own \in Seq(AclRules)
      /\ \A n : GroupRules(engine, n) \in Seq(AclRules)
      /\ \A n : GroupRulesByLowercase(engine, n) \in Seq(AclRules)
  BY CollectedParts
<1>2. /\ Len(ns) \in Nat /\ DOMAIN ns = 1..Len(ns) /\ Len(gs) \in Nat /\ DOMAIN gs = 1..Len(gs)
  BY <1>1
<1>3. file_ \in Seq(Seq(AclRules)) /\ Len(file_) = Len(ns)
  BY <1>1, <1>2
<1>4. sent \in Seq(Seq(AclRules)) /\ Len(sent) = Len(gs)
  BY <1>1, <1>2
<1>5. FlattenSeq(file_) \in Seq(AclRules) /\ FlattenSeq(sent) \in Seq(AclRules)
  BY <1>3, <1>4, FlattenType
<1>6. collect_rules(engine, u) = own \o FlattenSeq(file_)
  BY DEF collect_rules
<1>7. collect_rules_from_groups(engine, u, gs) = own \o FlattenSeq(sent)
  BY DEF collect_rules_from_groups
<1>8. ASSUME NEW i \in DOMAIN ns, NEW j \in DOMAIN gs, Lower[gs[j]] = Lower[ns[i]]
      PROVE  sent[j] = file_[i]
  <2>1. PICK k \in DOMAIN engine.groups : engine.groups[k].name = ns[i]
    BY StaticGroupsExist
  <2>2. \A m, l \in DOMAIN engine.groups :
          Lower[engine.groups[m].name] = Lower[engine.groups[l].name] => m = l
    BY DEF NoCaseVariants
  <2>3. GroupRules(engine, ns[i]) = GroupRulesByLowercase(engine, ns[i])
    BY <2>1, <2>2, GroupFoundAlike
  <2>4. GroupRulesByLowercase(engine, gs[j]) = GroupRulesByLowercase(engine, ns[i])
    BY <1>8 DEF GroupRulesByLowercase
  <2> QED
    BY <2>3, <2>4
<1> HIDE DEF ns, own, file_, sent
<1>9. Contains(own, x) \/ Contains(FlattenSeq(file_), x)
  BY <1>1, <1>5, <1>6, ConcatContains
<1>10. ASSUME Contains(FlattenSeq(file_), x) PROVE Contains(FlattenSeq(sent), x)
  <2>1. PICK i \in 1..Len(file_) : Contains(file_[i], x)
    BY <1>3, <1>10, FlattenContains
  <2>2. PICK j \in DOMAIN gs : Lower[gs[j]] = Lower[ns[i]]
    BY <1>2, <1>3 DEF Reports, ns
  <2>3. sent[j] = file_[i]
    BY <1>2, <1>3, <1>8, <2>2
  <2>4. j \in 1..Len(sent) /\ Contains(sent[j], x)
    BY <1>2, <1>4, <2>1, <2>2, <2>3
  <2> QED
    BY <1>4, <2>4, FlattenContains
<1> QED
  BY <1>1, <1>5, <1>7, <1>9, <1>10, ConcatContains

\* No rule ends a TCP session that the handler would allow.
LEMMA NeverByRule ==
  ASSUME NEW u, NEW q \in AclQueries, NEW gs \in Seq(STRING), engine \in AclConfigs,
         Validate(engine), NoCaseVariants, q.protocol = "tcp", Reports(gs, u),
         "allow" \in HandlerDecisions(engine, u, gs, q),
         "block" \in EnforcedDecisions(engine, u, q)
  PROVE  /\ engine.default_policy = "block"
         /\ \A i \in DOMAIN collect_rules(engine, u) :
              ~RuleMatches(collect_rules(engine, u)[i], StoredQuery(q))
<1> DEFINE mine == collect_rules(engine, u)
           theirs == collect_rules_from_groups(engine, u, gs)
           qs == StoredQuery(q)
           policy == engine.default_policy
<1>1. mine \in Seq(AclRules) /\ theirs \in Seq(AclRules)
  BY CollectedRules
<1>2. /\ DOMAIN mine = 1..Len(mine) /\ DOMAIN theirs = 1..Len(theirs)
      /\ \A i \in DOMAIN mine : mine[i] \in AclRules /\ mine[i].action \in Actions
  <2>1. DOMAIN mine = 1..Len(mine) /\ DOMAIN theirs = 1..Len(theirs)
    BY <1>1
  <2>2. \A i \in DOMAIN mine : mine[i] \in AclRules
    BY <1>1
  <2> QED
    BY <2>1, <2>2 DEF AclRules
<1>3. Reference(theirs, policy, q) = "allow"
  <2>1. PICK r \in evaluate_with_groups(engine, u, gs, q) : r.decision = "allow"
    BY DEF HandlerDecisions
  <2> QED
    BY <1>1, <2>1, FirstMatchIsReference DEF evaluate_with_groups
<1>4. Reference(mine, policy, qs) = "block"
  <2>1. PICK r \in evaluate(engine, u, qs) : r.decision = "block"
    BY DEF EnforcedDecisions
  <2> QED
    BY <1>1, <2>1, FirstMatchIsReference DEF evaluate
<1>5. ASSUME NEW i \in DOMAIN mine, RuleMatches(mine[i], qs) PROVE mine[i].action = "allow"
  <2> SUFFICES ASSUME mine[i].action = "block" PROVE FALSE
    BY <1>2 DEF Actions
  <2>1. RuleMatches(mine[i], q)
    BY <1>2, <1>5, StoredMatchesLess
  <2>2. Contains(mine, mine[i])
    BY <1>2 DEF Contains
  <2>5. Contains(theirs, mine[i])
    BY <2>2, CollectedByBoth
  <2>3. PICK j \in 1..Len(theirs) : theirs[j] = mine[i]
    BY <2>5 DEF Contains
  <2>4. Reference(theirs, policy, q) = "block"
    BY <1>2, <2>1, <2>3 DEF Reference
  <2> QED
    BY <1>3, <2>4
<1> HIDE DEF mine, theirs, qs, policy
<1>6. ASSUME NEW i \in DOMAIN mine, RuleMatches(mine[i], qs) PROVE FALSE
  <2>1. \A j \in DOMAIN mine : RuleMatches(mine[j], qs) => mine[j].action # "block"
    BY <1>5
  <2>2. Reference(mine, policy, qs) = "allow"
    BY <1>5, <1>6, <2>1 DEF Reference
  <2> QED
    BY <1>4, <2>2
<1>7. Reference(mine, policy, qs) = policy
  BY <1>6 DEF Reference
<1> QED
  BY <1>4, <1>6, <1>7 DEF mine, qs, policy

-----------------------------------------------------------------------------
(* The invariant.                                                          *)

\* Every endpoint serves an edit that is a configuration.
LEMMA EndpointServes ==
  ASSUME Types, NEW c \in Clients, Endpoint(c)
  PROVE  \E e \in AclConfigs : Serve(c, e)
<1>1. ASSUME NEW e, Serve(c, e) PROVE file.data \in AclConfigs /\ e # Failed
  BY <1>1 DEF Serve, Loads, Types, Data
<1>2. /\ \A r \in Requestable : r \in AclRules
      /\ \A u \in Users : u \in STRING
      /\ \A g \in Groups : g \in STRING
  BY DataAssumption DEF Requestable
<1>3. CASE AddGroupRule(c)
  <2>1. PICK g \in Groups, r \in Requestable :
          Serve(c, add_group_rule(file.data, g, r))
    BY <1>3 DEF AddGroupRule
  <2>2. add_group_rule(file.data, g, r) \in AclConfigs \union {Failed}
    BY <1>1, <1>2, <2>1, GroupEdits
  <2> QED
    BY <1>1, <2>1, <2>2
<1>4. CASE UpdateGroupRule(c)
  <2>1. PICK g \in Groups, id \in Identifiers, r \in Requestable :
          Serve(c, update_group_rule(file.data, g, id, r))
    BY <1>4 DEF UpdateGroupRule
  <2>2. update_group_rule(file.data, g, id, r) \in AclConfigs \union {Failed}
    BY <1>1, <1>2, <2>1, GroupEdits
  <2> QED
    BY <1>1, <2>1, <2>2
<1>5. CASE DeleteGroupRule(c)
  <2>1. PICK g \in Groups, id \in Identifiers :
          Serve(c, delete_group_rule(file.data, g, id))
    BY <1>5 DEF DeleteGroupRule
  <2>2. delete_group_rule(file.data, g, id) \in AclConfigs \union {Failed}
    BY <1>1, <1>2, <2>1, GroupEdits
  <2> QED
    BY <1>1, <2>1, <2>2
<1>6. CASE CreateGroup(c)
  <2>1. PICK g \in Groups :
          Serve(c, create_group(file.data, g))
    BY <1>6 DEF CreateGroup
  <2>2. create_group(file.data, g) \in AclConfigs \union {Failed}
    BY <1>1, <1>2, <2>1, GroupEdits
  <2> QED
    BY <1>1, <2>1, <2>2
<1>7. CASE DeleteGroup(c)
  <2>1. PICK g \in Groups :
          Serve(c, delete_group(file.data, g))
    BY <1>7 DEF DeleteGroup
  <2>2. delete_group(file.data, g) \in AclConfigs \union {Failed}
    BY <1>1, <1>2, <2>1, GroupEdits
  <2> QED
    BY <1>1, <2>1, <2>2
<1>8. CASE AddUserRule(c)
  <2>1. PICK u \in Users, r \in Requestable :
          Serve(c, add_user_rule(file.data, u, r))
    BY <1>8 DEF AddUserRule
  <2>2. add_user_rule(file.data, u, r) \in AclConfigs \union {Failed}
    BY <1>1, <1>2, <2>1, UserEdits
  <2> QED
    BY <1>1, <2>1, <2>2
<1>9. CASE UpdateUserRule(c)
  <2>1. PICK u \in Users, id \in Identifiers, r \in Requestable :
          Serve(c, update_user_rule(file.data, u, id, r))
    BY <1>9 DEF UpdateUserRule
  <2>2. update_user_rule(file.data, u, id, r) \in AclConfigs \union {Failed}
    BY <1>1, <1>2, <2>1, UserEdits
  <2> QED
    BY <1>1, <2>1, <2>2
<1>10. CASE DeleteUserRule(c)
  <2>1. PICK u \in Users, id \in Identifiers :
          Serve(c, delete_user_rule(file.data, u, id))
    BY <1>10 DEF DeleteUserRule
  <2>2. delete_user_rule(file.data, u, id) \in AclConfigs \union {Failed}
    BY <1>1, <1>2, <2>1, UserEdits
  <2> QED
    BY <1>1, <2>1, <2>2
<1>11. CASE UpdateGlobalSettings(c)
  <2>1. PICK p \in Actions :
          Serve(c, update_default_policy(file.data, p))
    BY <1>11 DEF UpdateGlobalSettings
  <2>2. update_default_policy(file.data, p) \in AclConfigs \union {Failed}
    BY <1>1, <1>2, <2>1, ReplaceParts DEF update_default_policy
  <2> QED
    BY <1>1, <2>1, <2>2
<1>12. CASE CreateUser(c)
  <2>1. PICK u \in Users :
          Serve(c, create_user(file.data, u))
    BY <1>12 DEF CreateUser
  <2>2. create_user(file.data, u) \in AclConfigs \union {Failed}
    BY <1>1, <1>2, <2>1, UserEdits
  <2> QED
    BY <1>1, <2>1, <2>2
<1>13. CASE DeleteUser(c)
  <2>1. PICK u \in Users :
          Serve(c, delete_user(file.data, u))
    BY <1>13 DEF DeleteUser
  <2>2. delete_user(file.data, u) \in AclConfigs \union {Failed}
    BY <1>1, <1>2, <2>1, UserEdits
  <2> QED
    BY <1>1, <2>1, <2>2
<1>14. CASE AddUserToGroup(c)
  <2>1. PICK u \in Users, g \in Groups :
          Serve(c, add_user_to_group(file.data, u, g))
    BY <1>14 DEF AddUserToGroup
  <2>2. add_user_to_group(file.data, u, g) \in AclConfigs \union {Failed}
    BY <1>1, <1>2, <2>1, MemberEdit
  <2> QED
    BY <1>1, <2>1, <2>2
<1>15. CASE RemoveUserFromGroup(c)
  <2>1. PICK u \in Users, g \in Groups :
          Serve(c, remove_user_from_group(file.data, u, g))
    BY <1>15 DEF RemoveUserFromGroup
  <2>2. remove_user_from_group(file.data, u, g) \in AclConfigs \union {Failed}
    BY <1>1, <1>2, <2>1, UserEdits
  <2> QED
    BY <1>1, <2>1, <2>2
<1> QED
  BY <1>3, <1>4, <1>5, <1>6, <1>7, <1>8, <1>9, <1>10, <1>11, <1>12, <1>13, <1>14, <1>15
  DEF Endpoint

\* The updates of a request keep its type.
LEMMA RequestUpdates ==
  ASSUME Types, NEW c \in Clients
  PROVE  /\ [req EXCEPT ![c] = Idle] \in [Clients -> Requests]
         /\ \A pc \in RequestPCs : [req EXCEPT ![c].pc = pc] \in [Clients -> Requests]
         /\ \A s \in 0..MaxClock :
              [req EXCEPT ![c].pc = "writing", ![c].second = s, ![c].fd = "temp"]
                \in [Clients -> Requests]
         /\ \A pc \in RequestPCs :
              [req EXCEPT ![c].pc = pc, ![c].fd = "none"] \in [Clients -> Requests]
         /\ \A d \in Data :
              [req EXCEPT ![c].pc = "restoring", ![c].config = d, ![c].fd = "file"]
                \in [Clients -> Requests]
         /\ [d \in Clients |-> [req[d] EXCEPT !.alone = FALSE]] \in [Clients -> Requests]
         /\ \A e \in AclConfigs : \A a \in BOOLEAN :
              Crowd([req EXCEPT ![c] = [Idle EXCEPT !.pc = "backup", !.config = e,
                                                    !.found = file.data, !.alone = a]], c)
                \in [Clients -> Requests]
<1>1. req \in [Clients -> Requests] /\ file.data \in Data
  BY DEF Types
<1>2. Idle \in Requests
  BY BoundsAssumption DEF Idle, Requests, RequestPCs, Places, Data, EmptyConfig, AclConfigs, Actions
<1>3. [req EXCEPT ![c] = Idle] \in [Clients -> Requests]
  BY <1>1, <1>2
<1>4. ASSUME NEW pc \in RequestPCs PROVE [req EXCEPT ![c].pc = pc] \in [Clients -> Requests]
  BY <1>1 DEF Requests
<1>5. ASSUME NEW s \in 0..MaxClock
      PROVE  [req EXCEPT ![c].pc = "writing", ![c].second = s, ![c].fd = "temp"]
               \in [Clients -> Requests]
  BY ZenonT(60), <1>1 DEF Requests, RequestPCs, Places
<1>6. ASSUME NEW d \in Data
      PROVE  [req EXCEPT ![c].pc = "restoring", ![c].config = d, ![c].fd = "file"]
               \in [Clients -> Requests]
  BY ZenonT(60), <1>1 DEF Requests, RequestPCs, Places
<1>7. \A r \in Requests : [r EXCEPT !.alone = FALSE] \in Requests
  BY DEF Requests
<1>8. [d \in Clients |-> [req[d] EXCEPT !.alone = FALSE]] \in [Clients -> Requests]
  BY <1>1, <1>7
<1>9. ASSUME NEW e \in AclConfigs, NEW a \in BOOLEAN
      PROVE  Crowd([req EXCEPT ![c] = [Idle EXCEPT !.pc = "backup", !.config = e,
                                                   !.found = file.data, !.alone = a]], c)
               \in [Clients -> Requests]
  <2> DEFINE n == [Idle EXCEPT !.pc = "backup", !.config = e, !.found = file.data, !.alone = a]
  <2>1. n \in Requests
    BY <1>1, <1>2 DEF Requests, RequestPCs, Data
  <2> HIDE DEF n
  <2>2. [req EXCEPT ![c] = n] \in [Clients -> Requests]
    BY <1>1, <2>1
  <2>3. Crowd([req EXCEPT ![c] = n], c) \in [Clients -> Requests]
    BY <1>7, <2>2 DEF Crowd
  <2> QED
    BY <2>3 DEF n
<1>10. ASSUME NEW pc \in RequestPCs
       PROVE  [req EXCEPT ![c].pc = pc, ![c].fd = "none"] \in [Clients -> Requests]
  BY <1>1 DEF Requests, Places
<1> QED
  BY <1>3, <1>4, <1>5, <1>6, <1>8, <1>9, <1>10

\* When a temporary file loses its name, requests that have it open change in
\* that alone.
LEMMA CarriedRequests ==
  ASSUME Types, NEW c \in Clients, NEW s \in 0..MaxClock, NEW place \in {"file", "gone"},
         NEW pc \in RequestPCs, req' = [Carried(s, place) EXCEPT ![c].pc = pc]
  PROVE  /\ req' \in [Clients -> Requests]
         /\ req'[c].pc = pc
         /\ \A d \in Clients : d # c => req'[d].pc = req[d].pc
         /\ \A d \in Clients : /\ req'[d].config = req[d].config /\ req'[d].found = req[d].found
                               /\ req'[d].second = req[d].second /\ req'[d].alone = req[d].alone
                               /\ req'[d].fd = "temp" => req[d].fd = "temp" /\ req[d].second # s
<1>1. req \in [Clients -> Requests]
  BY DEF Types
<1>2. PICK f \in [Clients -> Places] :
        /\ Carried(s, place) = [d \in Clients |-> [req[d] EXCEPT !.fd = f[d]]]
        /\ \A d \in Clients : f[d] = "temp" => req[d].fd = "temp" /\ req[d].second # s
  <2> DEFINE f == [d \in Clients |-> CASE req[d].fd = "temp" /\ req[d].second = s -> place
                                       [] req[d].fd = "file" /\ place = "file" -> "gone"
                                       [] OTHER -> req[d].fd]
  <2>1. ASSUME NEW d \in Clients
        PROVE  f[d] \in Places /\ (f[d] = "temp" => req[d].fd = "temp" /\ req[d].second # s)
    BY <1>1 DEF Requests, Places
  <2>2. Carried(s, place) = [d \in Clients |-> [req[d] EXCEPT !.fd = f[d]]]
    BY DEF Carried
  <2>3. f \in [Clients -> Places]
    BY <2>1
  <2> HIDE DEF f
  <2> QED
    BY <2>1, <2>2, <2>3
<1>3. ASSUME NEW d \in Clients
      PROVE  /\ [req[d] EXCEPT !.fd = f[d]] \in Requests
             /\ [[req[d] EXCEPT !.fd = f[d]] EXCEPT !.pc = pc] \in Requests
  BY <1>1 DEF Requests
<1>4. \A d \in Clients : req'[d] = IF d = c THEN [[req[d] EXCEPT !.fd = f[d]] EXCEPT !.pc = pc]
                                   ELSE [req[d] EXCEPT !.fd = f[d]]
  BY <1>2
<1>5. req' \in [Clients -> Requests]
  BY <1>2, <1>3
<1>6. ASSUME NEW d \in Clients
      PROVE  /\ req'[d].pc = IF d = c THEN pc ELSE req[d].pc
             /\ req'[d].config = req[d].config /\ req'[d].found = req[d].found
             /\ req'[d].second = req[d].second /\ req'[d].alone = req[d].alone
             /\ req'[d].fd = f[d]
  <2>1. req[d] \in Requests
    BY <1>1
  <2> DEFINE r == [req[d] EXCEPT !.fd = f[d]]
  <2>2. /\ r.pc = req[d].pc /\ r.config = req[d].config /\ r.found = req[d].found
        /\ r.second = req[d].second /\ r.alone = req[d].alone /\ r.fd = f[d]
    BY <2>1 DEF Requests
  <2>3. r \in Requests
    BY <1>3
  <2> HIDE DEF r
  <2>4. CASE d = c
    <3>1. req'[d] = [r EXCEPT !.pc = pc]
      BY <1>4, <2>4 DEF r
    <3> QED
      BY <2>2, <2>3, <2>4, <3>1 DEF Requests
  <2>5. CASE d # c
    <3>1. req'[d] = r
      BY <1>4, <2>5 DEF r
    <3> QED
      BY <2>2, <2>5, <3>1
  <2> QED
    BY <2>4, <2>5
<1>7. req'[c].pc = pc /\ (\A d \in Clients : d # c => req'[d].pc = req[d].pc)
  BY ONLY c \in Clients, <1>6
<1>8. ASSUME NEW d \in Clients
      PROVE  /\ req'[d].config = req[d].config /\ req'[d].found = req[d].found
             /\ req'[d].second = req[d].second /\ req'[d].alone = req[d].alone
             /\ req'[d].fd = "temp" => req[d].fd = "temp" /\ req[d].second # s
  <2>1. f[d] = "temp" => req[d].fd = "temp" /\ req[d].second # s
    BY <1>2
  <2> QED
    BY ONLY <2>1, <1>6, d \in Clients
<1> QED
  BY ONLY <1>5, <1>7, <1>8

\* What a request can leave in its open file is data.
LEMMA OpenFiles ==
  ASSUME Types, OpenInv, NEW c \in Clients
  PROVE  Holds(c) \in Data /\ Whole(c) \subseteq Data /\ CutOff(c) \subseteq Data
<1>1. req[c].second \in 0..MaxClock /\ req[c].config \in Data
  BY DEF Types, Requests
<1>2. EmptyConfig \in Data /\ Unreadable \in Data /\ file.data \in Data
  BY DEF EmptyConfig, AclConfigs, Actions, Data, Types
<1>3. temp[req[c].second] # NoFile => temp[req[c].second].data \in Data
  BY <1>1 DEF Types, Temps
<1>4. Holds(c) \in Data
  BY <1>2, <1>3 DEF Holds, OpenInv
<1> QED
  BY <1>1, <1>2, <1>4 DEF Whole, CutOff

\* Data written through an open file.
LEMMA WrittenTypes ==
  ASSUME Types, NEW c \in Clients, NEW d \in Data, Written(c, d)
  PROVE  /\ temp' \in [0..MaxClock -> Temps] /\ file' \in [data : Data, stamp : Nat]
         /\ nextStamp' \in Nat
         /\ \A s \in 0..MaxClock : temp[s] # NoFile => temp'[s] # NoFile
<1> DEFINE new == [data |-> d, stamp |-> nextStamp]
<1>1. new \in [data : Data, stamp : Nat] /\ nextStamp + 1 \in Nat
  BY DEF Types
<1>2. new \in Temps /\ new # NoFile
  BY <1>1, DataAssumption DEF Temps, Data
<1>3. /\ temp' = IF req[c].fd = "temp" THEN [temp EXCEPT ![req[c].second] = new] ELSE temp
      /\ file' = IF req[c].fd = "file" THEN new ELSE file
      /\ nextStamp' = nextStamp + 1
  BY DEF Written
<1> HIDE DEF new
<1>4. req[c].second \in 0..MaxClock
  BY DEF Types, Requests
<1> QED
  BY <1>1, <1>2, <1>3, <1>4 DEF Types

\* So do the updates of a watcher task.
LEMMA ReloadUpdates ==
  ASSUME Types, NEW w \in Watchers
  PROVE  /\ \A pc \in WatchPCs : [watch EXCEPT ![w].pc = pc] \in [Watchers -> Reloads]
         /\ \A pc \in WatchPCs, f \in Nat :
              [watch EXCEPT ![w] = [@ EXCEPT !.pc = pc, !.fp = f]] \in [Watchers -> Reloads]
         /\ \A pc \in WatchPCs, d \in Data :
              [watch EXCEPT ![w] = [@ EXCEPT !.pc = pc, !.config = d]] \in [Watchers -> Reloads]
         /\ [watch EXCEPT ![w] = [pc |-> "idle", fp |-> 0, config |-> Unreadable]]
              \in [Watchers -> Reloads]
<1>1. watch \in [Watchers -> Reloads]
  BY DEF Types
<1>2. ASSUME NEW pc \in WatchPCs PROVE [watch EXCEPT ![w].pc = pc] \in [Watchers -> Reloads]
  BY <1>1 DEF Reloads
<1>3. ASSUME NEW pc \in WatchPCs, NEW f \in Nat
      PROVE  [watch EXCEPT ![w] = [@ EXCEPT !.pc = pc, !.fp = f]] \in [Watchers -> Reloads]
  BY <1>1 DEF Reloads
<1>4. ASSUME NEW pc \in WatchPCs, NEW d \in Data
      PROVE  [watch EXCEPT ![w] = [@ EXCEPT !.pc = pc, !.config = d]] \in [Watchers -> Reloads]
  BY <1>1 DEF Reloads
<1>5. [watch EXCEPT ![w] = [pc |-> "idle", fp |-> 0, config |-> Unreadable]]
        \in [Watchers -> Reloads]
  BY <1>1 DEF Reloads, WatchPCs, Data
<1> QED
  BY <1>2, <1>3, <1>4, <1>5

\* The types are kept by every step.
LEMMA TypesStep ==
  ASSUME Types, OpenInv, EngineInv, [Next]_vars PROVE Types'
<1> USE BoundsAssumption DEF Types
<1>1. EmptyConfig \in AclConfigs /\ AclConfigs \subseteq Data
  BY DEF EmptyConfig, AclConfigs, Actions, Data
<1>2. \A d \in Data, t \in Nat : [data |-> d, stamp |-> t] \in [data : Data, stamp : Nat]
  OBVIOUS
<1>3. \A d \in Data, t \in Nat : [data |-> d, stamp |-> t] \in Temps
  BY DEF Temps
<1>4. NoFile \in Temps /\ \A s \in 0..MaxClock : temp[s] \in Temps
  BY DEF Temps
<1>5. \A s \in 0..MaxClock, t \in Temps : [temp EXCEPT ![s] = t] \in [0..MaxClock -> Temps]
  OBVIOUS
<1>6. \A t \in Temps : t # NoFile => t \in [data : Data, stamp : Nat]
  BY <1>1 DEF Temps
<1>7. {"backup", "write", "writing", "read", "rename", "cleanup", "restore", "restoring", "reload"}
        \subseteq RequestPCs
  BY DEF RequestPCs
<1>8. {"idle", "compare", "load", "apply", "store"} \subseteq WatchPCs
  BY DEF WatchPCs
<1>9. /\ \A c \in Clients : req[c].config \in Data /\ req[c].second \in 0..MaxClock
      /\ \A w \in Watchers : watch[w].config \in Data /\ watch[w].fp \in Nat
  BY DEF Requests, Reloads
<1>10. ASSUME Fault PROVE faults' \in 0..MaxFaults
  BY SMTT(60), <1>10 DEF Fault
<1>goto. ASSUME NEW c \in Clients, NEW pc \in RequestPCs, Goto(c, pc)
       PROVE  req' \in [Clients -> Requests]
  BY ZenonT(60), <1>goto, RequestUpdates DEF Goto
<1>answer. ASSUME NEW c \in Clients, Answer(c) PROVE req' \in [Clients -> Requests]
  BY <1>answer, RequestUpdates DEF Answer
<1>11. ASSUME NEW c \in Clients, NEW e \in AclConfigs, Serve(c, e) PROVE Types'
  <2>1. req' \in [Clients -> Requests]
    BY <1>11, RequestUpdates DEF Serve
  <2>2. edits' \in 0..MaxEdits
    BY <1>11 DEF Serve
  <2> QED
    BY ZenonT(60), <1>11, <2>1, <2>2 DEF Serve
<1>12. ASSUME NEW c \in Clients, CreateBackup(c) PROVE Types'
  <2>1. req' \in [Clients -> Requests]
    BY <1>7, <1>12, <1>goto, <1>answer DEF CreateBackup
  <2>2. backup' \in Data \union {NoFile} /\ faults' \in 0..MaxFaults
    BY <1>1, <1>10, <1>12 DEF CreateBackup, NoFault, Data
  <2> QED
    BY <1>12, <2>1, <2>2 DEF CreateBackup
<1>discard. ASSUME NEW c \in Clients, Discard(c, req[c].second)
       PROVE  req' \in [Clients -> Requests] /\ temp' \in [0..MaxClock -> Temps]
  <2>1. req' \in [Clients -> Requests]
    BY <1>7, <1>9, <1>discard, CarriedRequests DEF Discard
  <2> QED
    BY <1>4, <1>5, <1>9, <1>discard, <2>1 DEF Discard
<1>13. ASSUME NEW c \in Clients, WriteTemp(c) PROVE Types'
  <2>1. req' \in [Clients -> Requests]
    <3>1. [req EXCEPT ![c].pc = "writing", ![c].second = clock, ![c].fd = "temp"]
            \in [Clients -> Requests]
      BY RequestUpdates
    <3> QED
      BY <1>7, <1>13, <1>goto, <3>1 DEF WriteTemp
  <2>2. temp' \in [0..MaxClock -> Temps]
    <3> DEFINE new == [data |-> EmptyConfig, stamp |-> nextStamp]
    <3>1. new \in Temps
      BY <1>1, <1>3
    <3>2. temp' = [temp EXCEPT ![clock] = new] \/ temp' = temp
      BY <1>13 DEF WriteTemp
    <3> HIDE DEF new
    <3> QED
      BY <1>5, <3>1, <3>2
  <2>3. nextStamp' \in Nat /\ faults' \in 0..MaxFaults
    BY <1>10, <1>13 DEF WriteTemp, NoFault
  <2> QED
    BY <1>13, <2>1, <2>2, <2>3 DEF WriteTemp
<1>writing. ASSUME NEW c \in Clients, WriteTempEnd(c) PROVE Types'
  <2>1. PICK d \in Data : Written(c, d)
    BY <1>writing, OpenFiles DEF WriteTempEnd
  <2>2. temp' \in [0..MaxClock -> Temps] /\ file' \in [data : Data, stamp : Nat] /\ nextStamp' \in Nat
    BY <2>1, WrittenTypes
  <2>3. req' \in [Clients -> Requests]
    <3>1. /\ [req EXCEPT ![c].pc = "read", ![c].fd = "none"] \in [Clients -> Requests]
          /\ [req EXCEPT ![c].pc = "restore", ![c].fd = "none"] \in [Clients -> Requests]
      BY <1>7, RequestUpdates
    <3>2. \/ req' = [req EXCEPT ![c].pc = "read", ![c].fd = "none"]
          \/ req' = [req EXCEPT ![c].pc = "restore", ![c].fd = "none"]
      BY <1>writing DEF WriteTempEnd
    <3> QED
      BY <3>1, <3>2
  <2>4. faults' \in 0..MaxFaults
    BY <1>10, <1>writing DEF WriteTempEnd, NoFault
  <2> QED
    BY <1>writing, <2>2, <2>3, <2>4 DEF WriteTempEnd
<1>14. ASSUME NEW c \in Clients, ReadBack(c) PROVE Types'
  <2>1. req' \in [Clients -> Requests] /\ temp' \in [0..MaxClock -> Temps]
    BY <1>7, <1>14, <1>goto, <1>discard DEF ReadBack
  <2>2. faults' \in 0..MaxFaults
    BY <1>10, <1>14 DEF ReadBack, NoFault
  <2> QED
    BY <1>14, <2>1, <2>2 DEF ReadBack
<1>15. ASSUME NEW c \in Clients, Rename(c) PROVE Types'
  <2>1. CASE Discard(c, req[c].second) /\ UNCHANGED file
    <3>1. faults' \in 0..MaxFaults
      BY <1>10, <1>15 DEF Rename, NoFault
    <3> QED
      BY <1>15, <1>discard, <2>1, <3>1 DEF Rename
  <2>2. CASE /\ NoFault /\ temp[req[c].second] # NoFile
             /\ file' = temp[req[c].second]
             /\ temp' = [temp EXCEPT ![req[c].second] = NoFile]
             /\ req' = [Carried(req[c].second, "file") EXCEPT ![c].pc = "cleanup"]
    <3>1. req' \in [Clients -> Requests]
      BY <1>7, <1>9, <2>2, CarriedRequests
    <3>2. temp' \in [0..MaxClock -> Temps] /\ file' \in [data : Data, stamp : Nat]
      BY <1>4, <1>5, <1>6, <1>9, <2>2
    <3> QED
      BY <1>15, <2>2, <3>1, <3>2 DEF Rename, NoFault
  <2> QED
    BY <1>15, <2>1, <2>2 DEF Rename
<1>16. ASSUME NEW c \in Clients, Cleanup(c) PROVE Types'
  <2>1. req' \in [Clients -> Requests]
    BY <1>7, <1>16, <1>goto DEF Cleanup
  <2>2. backup' \in Data \union {NoFile} /\ faults' \in 0..MaxFaults
    BY <1>10, <1>16 DEF Cleanup, NoFault
  <2> QED
    BY <1>16, <2>1, <2>2 DEF Cleanup
<1>17. ASSUME NEW c \in Clients, RestoreBegin(c) PROVE Types'
  <2>1. req' \in [Clients -> Requests]
    <3>1. backup # NoFile =>
            [req EXCEPT ![c].pc = "restoring", ![c].config = backup, ![c].fd = "file"]
              \in [Clients -> Requests]
      BY RequestUpdates
    <3> QED
      BY <1>17, <1>answer, <3>1 DEF RestoreBegin
  <2>2. file' \in [data : Data, stamp : Nat] /\ nextStamp' \in Nat /\ faults' \in 0..MaxFaults
    BY <1>1, <1>2, <1>10, <1>17 DEF RestoreBegin, NoFault
  <2> QED
    BY <1>17, <2>1, <2>2 DEF RestoreBegin
<1>18. ASSUME NEW c \in Clients, RestoreEnd(c) PROVE Types'
  <2>1. PICK d \in Data : Written(c, d)
    BY <1>18, OpenFiles DEF RestoreEnd
  <2>2. temp' \in [0..MaxClock -> Temps] /\ file' \in [data : Data, stamp : Nat] /\ nextStamp' \in Nat
    BY <2>1, WrittenTypes
  <2>3. req' \in [Clients -> Requests]
    BY <1>18, <1>answer DEF RestoreEnd
  <2>4. faults' \in 0..MaxFaults
    BY <1>10, <1>18 DEF RestoreEnd, NoFault
  <2> QED
    BY <1>18, <2>2, <2>3, <2>4 DEF RestoreEnd
<1>19. ASSUME NEW c \in Clients, Reload(c) PROVE Types'
  <2>1. req' \in [Clients -> Requests]
    BY <1>19, <1>answer DEF Reload
  <2>2. engine' \in AclConfigs
    BY <1>19 DEF Reload, At, EngineInv
  <2>3. raced' \in BOOLEAN
    BY <1>19 DEF Reload
  <2> QED
    BY <1>19, <2>1, <2>2, <2>3 DEF Reload
<1>20. ASSUME NEW w \in Watchers, Capture(w) PROVE Types'
  <2>1. watch' \in [Watchers -> Reloads]
    BY <1>8, <1>20, ReloadUpdates DEF Capture
  <2> QED
    BY <1>20, <2>1 DEF Capture
<1>21. ASSUME NEW w \in Watchers, Compare(w) PROVE Types'
  <2>1. watch' \in [Watchers -> Reloads]
    BY <1>8, <1>21, ReloadUpdates DEF Compare
  <2> QED
    BY <1>21, <2>1 DEF Compare
<1>22. ASSUME NEW w \in Watchers, Load(w) PROVE Types'
  <2>1. watch' \in [Watchers -> Reloads]
    BY <1>8, <1>22, ReloadUpdates DEF Load
  <2> QED
    BY <1>22, <2>1 DEF Load
<1>23. ASSUME NEW w \in Watchers, Apply(w) PROVE Types'
  <2>1. watch' \in [Watchers -> Reloads]
    BY <1>8, <1>23, ReloadUpdates DEF Apply
  <2>2. engine' \in AclConfigs /\ enforced' \in AclConfigs
    BY <1>23 DEF Apply, WatchAt, EngineInv
  <2>3. raced' \in BOOLEAN
    BY <1>23 DEF Apply
  <2> QED
    BY <1>23, <2>1, <2>2, <2>3 DEF Apply
<1>24. ASSUME NEW w \in Watchers, Store(w) PROVE Types'
  <2>1. watch' \in [Watchers -> Reloads]
    BY <1>24, ReloadUpdates DEF Store
  <2> QED
    BY <1>9, <1>24, <2>1 DEF Store
<1>25. CASE EditByHand
  <2>1. req' \in [Clients -> Requests]
    <3>1. \A r \in Requests : [r EXCEPT !.alone = FALSE] \in Requests
      BY DEF Requests
    <3> QED
      BY <1>25, <3>1 DEF EditByHand
  <2>2. file' \in [data : Data, stamp : Nat] /\ nextStamp' \in Nat
    BY <1>2, <1>25, DataAssumption DEF EditByHand, Data
  <2>3. writes' \in 0..MaxWrites
    BY <1>25 DEF EditByHand
  <2> QED
    BY <1>25, <2>1, <2>2, <2>3 DEF EditByHand
<1>26. CASE Tick
  BY <1>26 DEF Tick
<1>27. CASE UNCHANGED vars
  BY <1>27 DEF vars
<1> QED
  BY <1>11, <1>12, <1>13, <1>writing, <1>14, <1>15, <1>16, <1>17, <1>18, <1>19, <1>20, <1>21,
     <1>22, <1>23, <1>24, <1>25, <1>26, <1>27, EndpointServes
  DEF Next, Save, MaybeReload

\* The request that read back or renamed in vain removes its temporary file.
LEMMA Discarded ==
  ASSUME Types, NEW c \in Clients, Discard(c, req[c].second)
  PROVE  /\ req'[c].pc = "restore"
         /\ \A d \in Clients : d # c => req'[d].pc = req[d].pc
         /\ \A d \in Clients : /\ req'[d].config = req[d].config /\ req'[d].found = req[d].found
                               /\ req'[d].second = req[d].second /\ req'[d].alone = req[d].alone
                               /\ req'[d].fd = "temp" =>
                                    req[d].fd = "temp" /\ req[d].second # req[c].second
         /\ \A s \in 0..MaxClock : s # req[c].second => temp'[s] = temp[s]
         /\ temp'[req[c].second] = NoFile
<1>1. req[c].second \in 0..MaxClock /\ "restore" \in RequestPCs
  BY DEF Types, Requests, RequestPCs
<1>2. req' = [Carried(req[c].second, "gone") EXCEPT ![c].pc = "restore"]
  BY DEF Discard
<1>3. temp' = [temp EXCEPT ![req[c].second] = NoFile]
  BY DEF Discard
<1>4. /\ \A s \in 0..MaxClock : s # req[c].second => temp'[s] = temp[s]
      /\ temp'[req[c].second] = NoFile
  BY <1>1, <1>3 DEF Types
<1> QED
  BY <1>1, <1>2, <1>4, CarriedRequests

\* The request that renames its temporary file into place.
LEMMA Renamed ==
  ASSUME Types, NEW c \in Clients, Rename(c), ~Discard(c, req[c].second)
  PROVE  /\ req'[c].pc = "cleanup"
         /\ \A d \in Clients : d # c => req'[d].pc = req[d].pc
         /\ \A d \in Clients : /\ req'[d].config = req[d].config /\ req'[d].found = req[d].found
                               /\ req'[d].second = req[d].second /\ req'[d].alone = req[d].alone
                               /\ req'[d].fd = "temp" =>
                                    req[d].fd = "temp" /\ req[d].second # req[c].second
         /\ \A s \in 0..MaxClock : s # req[c].second => temp'[s] = temp[s]
         /\ temp'[req[c].second] = NoFile
         /\ temp[req[c].second] # NoFile /\ file' = temp[req[c].second]
<1>1. req[c].second \in 0..MaxClock /\ "cleanup" \in RequestPCs
  BY DEF Types, Requests, RequestPCs
<1>2. /\ req' = [Carried(req[c].second, "file") EXCEPT ![c].pc = "cleanup"]
      /\ temp' = [temp EXCEPT ![req[c].second] = NoFile]
      /\ temp[req[c].second] # NoFile /\ file' = temp[req[c].second]
  BY DEF Rename
<1>4. /\ \A s \in 0..MaxClock : s # req[c].second => temp'[s] = temp[s]
      /\ temp'[req[c].second] = NoFile
  BY <1>1, <1>2 DEF Types
<1> QED
  BY <1>1, <1>2, <1>4, CarriedRequests

\* A step of a save leaves the other requests where they were.
LEMMA SaveFrame ==
  ASSUME Types, NEW c \in Clients, Save(c), NEW d \in Clients, d # c
  PROVE  /\ req'[d].pc = req[d].pc /\ req'[d].config = req[d].config
         /\ req'[d].alone = req[d].alone /\ req'[d].second = req[d].second
         /\ req'[d].fd = "temp" => req[d].fd = "temp"
<1>1. CASE \/ CreateBackup(c) \/ WriteTemp(c) \/ WriteTempEnd(c) \/ Cleanup(c)
           \/ RestoreBegin(c) \/ RestoreEnd(c) \/ Reload(c)
  <2>1. req'[d] = req[d]
    <3> USE DEF Goto, Answer
    <3>1. CASE CreateBackup(c)
      BY <3>1 DEF CreateBackup, Types
    <3>2. CASE WriteTemp(c)
      BY <3>2 DEF WriteTemp, Types
    <3>3. CASE WriteTempEnd(c)
      BY <3>3 DEF WriteTempEnd, Types
    <3>4. CASE Cleanup(c)
      BY <3>4 DEF Cleanup, Types
    <3>5. CASE RestoreBegin(c)
      BY <3>5 DEF RestoreBegin, Types
    <3>6. CASE RestoreEnd(c)
      BY <3>6 DEF RestoreEnd, Types
    <3>7. CASE Reload(c)
      BY <3>7 DEF Reload, Types
    <3> QED
      BY <1>1, <3>1, <3>2, <3>3, <3>4, <3>5, <3>6, <3>7
  <2> QED
    BY <2>1
<1>2. CASE ReadBack(c)
  <2>1. CASE Discard(c, req[c].second)
    BY <2>1, Discarded
  <2>2. CASE Goto(c, "rename")
    BY <2>2 DEF Goto, Types
  <2> QED
    BY <1>2, <2>1, <2>2 DEF ReadBack
<1>3. CASE Rename(c)
  <2>1. CASE Discard(c, req[c].second)
    BY <2>1, Discarded
  <2>2. CASE ~Discard(c, req[c].second)
    BY <1>3, <2>2, Renamed
  <2> QED
    BY <2>1, <2>2
<1> QED
  BY <1>1, <1>2, <1>3 DEF Save

\* An open temporary file is truncated, written, renamed and removed under the
\* name it was opened by.
LEMMA OpenStep ==
  ASSUME Types, OpenInv, [Next]_vars PROVE OpenInv'
<1>1. /\ req \in [Clients -> Requests] /\ clock \in 0..MaxClock
      /\ \A c \in Clients : req[c].second \in 0..MaxClock
  BY DEF Types, Requests
<1>2. ASSUME NEW c \in Clients, NEW e, Serve(c, e) PROVE OpenInv'
  <2>1. \A d \in Clients : req'[d].fd \in {"none", req[d].fd} /\ (d # c => req'[d].second = req[d].second)
    BY <1>2 DEF Serve, Crowd, Idle, Types, Requests
  <2>2. req'[c].fd = "none"
    BY <1>2 DEF Serve, Crowd, Idle, Types, Requests
  <2> QED
    BY <1>2, <2>1, <2>2 DEF Serve, OpenInv
<1>3. ASSUME NEW c \in Clients,
             CreateBackup(c) \/ Cleanup(c) \/ RestoreBegin(c) \/ Reload(c)
      PROVE  OpenInv'
  <2>1. req'[c].fd = "temp" => req[c].fd = "temp" /\ req'[c].second = req[c].second
    <3> USE DEF Goto, Answer, Idle, Types, Requests
    <3>1. CASE CreateBackup(c)
      BY <3>1 DEF CreateBackup
    <3>2. CASE Cleanup(c)
      BY <3>2 DEF Cleanup
    <3>3. CASE RestoreBegin(c)
      BY <3>3 DEF RestoreBegin
    <3>4. CASE Reload(c)
      BY <3>4 DEF Reload
    <3> QED
      BY <1>3, <3>1, <3>2, <3>3, <3>4
  <2>2. UNCHANGED temp
    BY <1>3 DEF CreateBackup, Cleanup, RestoreBegin, Reload
  <2>3. Save(c)
    BY <1>3 DEF Save
  <2> QED
    BY <2>1, <2>2, <2>3, SaveFrame DEF OpenInv
<1>4. ASSUME NEW c \in Clients, WriteTemp(c) PROVE OpenInv'
  <2> DEFINE new == [data |-> EmptyConfig, stamp |-> nextStamp]
  <2>1. new # NoFile
    <3>1. new \in [data : AclConfigs \union {Unreadable}, stamp : Nat]
      BY DEF EmptyConfig, AclConfigs, Actions, Types
    <3> QED
      BY <3>1, DataAssumption
  <2>2. \/ /\ temp' = [temp EXCEPT ![clock] = new]
           /\ req' = [req EXCEPT ![c].pc = "writing", ![c].second = clock, ![c].fd = "temp"]
        \/ temp' = temp /\ req' = [req EXCEPT ![c].pc = "restore"]
    BY <1>4 DEF WriteTemp, Goto
  <2> HIDE DEF new
  <2>3. \A s \in 0..MaxClock : temp[s] # NoFile => temp'[s] # NoFile
    BY <1>1, <2>1, <2>2 DEF Types
  <2>4. req'[c].fd = "temp" => temp'[req'[c].second] # NoFile
    <3>1. CASE /\ temp' = [temp EXCEPT ![clock] = new]
               /\ req' = [req EXCEPT ![c].pc = "writing", ![c].second = clock, ![c].fd = "temp"]
      <4>1. req'[c].second = clock /\ temp'[clock] = new
        BY <1>1, <3>1 DEF Types, Requests
      <4> QED
        BY <2>1, <4>1
    <3>2. CASE temp' = temp /\ req' = [req EXCEPT ![c].pc = "restore"]
      <4>1. req'[c].fd = req[c].fd /\ req'[c].second = req[c].second
        BY <1>1, <3>2 DEF Requests
      <4> QED
        BY <3>2, <4>1 DEF OpenInv
    <3> QED
      BY <2>2, <3>1, <3>2
  <2>5. Save(c)
    BY <1>4 DEF Save
  <2> QED
    BY <1>1, <2>3, <2>4, <2>5, SaveFrame DEF OpenInv
<1>5. ASSUME NEW c \in Clients, WriteTempEnd(c) \/ RestoreEnd(c) PROVE OpenInv'
  <2>1. PICK d \in Data : Written(c, d)
    BY <1>5, OpenFiles DEF WriteTempEnd, RestoreEnd
  <2>2. \A s \in 0..MaxClock : temp[s] # NoFile => temp'[s] # NoFile
    BY <2>1, WrittenTypes
  <2>3. req'[c].fd = "none"
    <3>1. CASE WriteTempEnd(c)
      BY <1>1, <3>1 DEF WriteTempEnd, Requests
    <3>2. CASE RestoreEnd(c)
      BY <1>1, <3>2 DEF RestoreEnd, Answer, Idle
    <3> QED
      BY <1>5, <3>1, <3>2
  <2>4. Save(c)
    BY <1>5 DEF Save
  <2> QED
    BY <1>1, <2>2, <2>3, <2>4, SaveFrame DEF OpenInv
<1>6. ASSUME NEW c \in Clients, Discard(c, req[c].second) PROVE OpenInv'
  BY <1>1, <1>6, Discarded DEF OpenInv
<1>7. ASSUME NEW c \in Clients, Rename(c), ~Discard(c, req[c].second) PROVE OpenInv'
  BY <1>1, <1>7, Renamed DEF OpenInv
<1>8. ASSUME NEW c \in Clients, Goto(c, "rename"), UNCHANGED temp PROVE OpenInv'
  <2>1. \A d \in Clients : req'[d].fd = req[d].fd /\ req'[d].second = req[d].second
    BY <1>1, <1>8 DEF Goto, Requests
  <2> QED
    BY <1>8, <2>1 DEF OpenInv
<1>9. ASSUME NEW c \in Clients, Save(c) PROVE OpenInv'
  BY <1>3, <1>4, <1>5, <1>6, <1>7, <1>8, <1>9 DEF Save, ReadBack
<1>10. ASSUME NEW w \in Watchers, MaybeReload(w) PROVE OpenInv'
  BY <1>10 DEF MaybeReload, Capture, Compare, Load, Apply, Store, OpenInv
<1>11. CASE EditByHand
  <2>1. \A d \in Clients : req'[d].fd = req[d].fd /\ req'[d].second = req[d].second
    BY <1>1, <1>11 DEF EditByHand, Requests
  <2> QED
    BY <1>11, <2>1 DEF EditByHand, OpenInv
<1>12. CASE Tick \/ UNCHANGED vars
  BY <1>12 DEF Tick, vars, OpenInv
<1> QED
  BY <1>2, <1>9, <1>10, <1>11, <1>12, EndpointServes DEF Next

\* Only what was validated, and compiles, reaches the engine.
LEMMA EngineStep ==
  ASSUME Types, EngineInv, [Next]_vars PROVE EngineInv'
<1> USE DEF EngineInv
<1>1. ASSUME NEW c \in Clients, NEW e \in AclConfigs, Serve(c, e) PROVE EngineInv'
  <2>1. /\ req'[c].config = e
        /\ \A d \in Clients : d # c => /\ req'[d].pc = req[d].pc
                                       /\ req'[d].config = req[d].config
    BY <1>1 DEF Serve, Crowd, Idle, Types, Requests
  <2> QED
    BY <1>1, <2>1 DEF Serve
<1>2. ASSUME NEW c \in Clients, Save(c), ~Reload(c) PROVE EngineInv'
  <2>1. \/ req'[c].pc \in {"idle", "restoring"}
        \/ ~(req[c].pc \in {"idle", "restoring"}) /\ req'[c].config = req[c].config
    <3> USE DEF Types, Requests, At, Goto, Answer, Idle
    <3>1. CASE CreateBackup(c)
      BY <3>1 DEF CreateBackup
    <3>2. CASE WriteTemp(c)
      BY <3>2 DEF WriteTemp
    <3>8. CASE WriteTempEnd(c)
      BY <3>8 DEF WriteTempEnd
    <3>3. CASE ReadBack(c)
      <4>1. CASE Discard(c, req[c].second)
        BY <3>3, <4>1, Discarded DEF ReadBack
      <4>2. CASE Goto(c, "rename")
        BY <3>3, <4>2 DEF ReadBack
      <4> QED
        BY <3>3, <4>1, <4>2 DEF ReadBack
    <3>4. CASE Rename(c)
      <4>1. CASE Discard(c, req[c].second)
        BY <3>4, <4>1, Discarded DEF Rename
      <4>2. CASE ~Discard(c, req[c].second)
        BY <3>4, <4>2, Renamed DEF Rename
      <4> QED
        BY <4>1, <4>2
    <3>5. CASE Cleanup(c)
      BY <3>5 DEF Cleanup
    <3>6. CASE RestoreBegin(c)
      BY <3>6 DEF RestoreBegin
    <3>7. CASE RestoreEnd(c)
      BY <3>7 DEF RestoreEnd
    <3> QED
      BY <1>2, <3>1, <3>2, <3>3, <3>4, <3>5, <3>6, <3>7, <3>8 DEF Save
  <2>2. UNCHANGED <<engine, enforced, watch>>
    BY <1>2 DEF Save, CreateBackup, WriteTemp, WriteTempEnd, ReadBack, Rename, Cleanup,
                RestoreBegin, RestoreEnd
  <2>3. \A d \in Clients : d # c => req'[d].pc = req[d].pc /\ req'[d].config = req[d].config
    BY <1>2, SaveFrame
  <2> QED
    BY <2>1, <2>2, <2>3
<1>3. ASSUME NEW c \in Clients, Reload(c) PROVE EngineInv'
  <2>1. req'[c].pc = "idle" /\ \A d \in Clients : d # c => req'[d] = req[d]
    BY <1>3 DEF Reload, Answer, Idle, Types
  <2>2. UNCHANGED <<enforced, watch>> /\ Validate(engine') /\ Compiles(engine')
    BY <1>3 DEF Reload, At
  <2> QED
    BY <2>1, <2>2
<1>4. ASSUME NEW w \in Watchers, MaybeReload(w) PROVE EngineInv'
  <2>1. /\ watch'[w].pc = "apply" => watch'[w].config \in AclConfigs /\ Validate(watch'[w].config)
        /\ \A v \in Watchers : v # w => watch'[v] = watch[v]
    <3> USE DEF Types, Reloads, WatchAt
    <3>1. CASE Capture(w)
      BY <3>1 DEF Capture
    <3>2. CASE Compare(w)
      BY <3>2 DEF Compare
    <3>3. CASE Load(w)
      BY <3>3 DEF Load, Loads, Data
    <3>4. CASE Apply(w)
      BY <3>4 DEF Apply
    <3>5. CASE Store(w)
      BY <3>5 DEF Store
    <3> QED
      BY <1>4, <3>1, <3>2, <3>3, <3>4, <3>5 DEF MaybeReload
  <2>2. UNCHANGED req /\ Validate(engine') /\ Compiles(engine') /\ Validate(enforced')
    BY <1>4 DEF MaybeReload, Capture, Compare, Load, Apply, Store, WatchAt
  <2> QED
    BY <2>1, <2>2
<1>5. CASE EditByHand
  <2>1. \A d \in Clients : req'[d].pc = req[d].pc /\ req'[d].config = req[d].config
    BY <1>5 DEF EditByHand, Types, Requests
  <2> QED
    BY <1>5, <2>1 DEF EditByHand
<1>6. CASE Tick \/ UNCHANGED vars
  BY <1>6 DEF Tick, vars
<1> QED
  BY <1>1, <1>2, <1>3, <1>4, <1>5, <1>6, EndpointServes DEF Next

\* Nothing that carries a stamp changes.
LEMMA StampsUntouched ==
  ASSUME StampInv, UNCHANGED <<file, temp, stored, nextStamp>>,
         \A w \in Watchers : watch'[w].fp = watch[w].fp
  PROVE  StampInv'
BY DEF StampInv, Unseen

\* The file is written with a new stamp.
LEMMA FileWritten ==
  ASSUME Types, StampInv, file'.stamp = nextStamp, nextStamp' = nextStamp + 1,
         UNCHANGED <<temp, stored, watch>>
  PROVE  StampInv'
<1>1. nextStamp \in Nat /\ stored \in Nat /\ \A w \in Watchers : watch[w].fp \in Nat
  BY DEF Types, Reloads
<1>2. \A s \in 0..MaxClock : temp[s] # NoFile => temp[s].stamp \in Nat
  BY DEF Types, Temps
<1> QED
  BY <1>1, <1>2 DEF StampInv, Unseen

\* Temporary files are written with a new stamp, or go.
LEMMA TempsChanged ==
  ASSUME Types, StampInv, NEW n \in 0..MaxClock, nextStamp' \in {nextStamp, nextStamp + 1},
         UNCHANGED <<file, stored, watch>>,
         \A s \in 0..MaxClock : s # n => temp'[s] = temp[s],
         \/ temp'[n] \in {NoFile, temp[n]}
         \/ temp'[n].stamp = nextStamp /\ nextStamp' = nextStamp + 1
  PROVE  StampInv'
<1>1. /\ nextStamp \in Nat /\ stored \in Nat /\ file.stamp \in Nat
      /\ \A w \in Watchers : watch[w].fp \in Nat
  BY DEF Types, Reloads
<1>2. \A s \in 0..MaxClock : temp[s] # NoFile => temp[s].stamp \in Nat
  BY DEF Types, Temps
<1>3. ASSUME NEW s \in 0..MaxClock, temp'[s] # NoFile PROVE Unseen(temp[s])'
  <2>1. CASE temp'[s] = temp[s]
    BY <1>1, <1>2, <1>3, <2>1 DEF StampInv, Unseen
  <2>2. CASE s = n /\ temp'[n].stamp = nextStamp /\ nextStamp' = nextStamp + 1
    BY <1>1, <2>2 DEF StampInv, Unseen
  <2> QED
    BY <1>3, <2>1, <2>2
<1>4. ASSUME NEW r \in 0..MaxClock, NEW s \in 0..MaxClock,
             r # s, temp'[r] # NoFile, temp'[s] # NoFile
      PROVE  temp'[r].stamp # temp'[s].stamp
  <2>1. CASE temp'[r] = temp[r] /\ temp'[s] = temp[s]
    BY <1>4, <2>1 DEF StampInv
  <2>2. CASE r = n /\ temp'[r].stamp = nextStamp
    BY <1>1, <1>2, <1>4, <2>2 DEF StampInv, Unseen
  <2>3. CASE s = n /\ temp'[s].stamp = nextStamp
    BY <1>1, <1>2, <1>4, <2>3 DEF StampInv, Unseen
  <2> QED
    BY <1>4, <2>1, <2>2, <2>3
<1>5. /\ file'.stamp < nextStamp' /\ stored' < nextStamp'
      /\ \A w \in Watchers : watch'[w].fp < nextStamp'
  BY <1>1 DEF StampInv
<1> QED
  BY <1>3, <1>4, <1>5 DEF StampInv

\* Data written through an open file gets a new stamp, wherever it lands.
LEMMA DataWritten ==
  ASSUME Types, StampInv, NEW c \in Clients, NEW d, Written(c, d), UNCHANGED <<stored, watch>>
  PROVE  StampInv'
<1> DEFINE n == req[c].second
           new == [data |-> d, stamp |-> nextStamp]
<1>1. n \in 0..MaxClock /\ new.stamp = nextStamp
  BY DEF Types, Requests
<1>2. /\ temp' = IF req[c].fd = "temp" THEN [temp EXCEPT ![n] = new] ELSE temp
      /\ file' = IF req[c].fd = "file" THEN new ELSE file
      /\ nextStamp' = nextStamp + 1
  BY DEF Written
<1> HIDE DEF n, new
<1>3. CASE req[c].fd = "temp"
  <2>1. /\ \A s \in 0..MaxClock : s # n => temp'[s] = temp[s]
        /\ temp'[n].stamp = nextStamp
    BY <1>1, <1>2, <1>3 DEF Types
  <2> QED
    BY <1>1, <1>2, <1>3, <2>1, TempsChanged
<1>4. CASE req[c].fd = "file"
  BY <1>1, <1>2, <1>4, FileWritten
<1>5. CASE ~(req[c].fd \in {"temp", "file"})
  BY <1>1, <1>2, <1>5, TempsChanged
<1> QED
  BY <1>3, <1>4, <1>5

\* A stamp is handed out once, and moves from a temporary file to the file.
LEMMA StampStep ==
  ASSUME Types, StampInv, [Next]_vars PROVE StampInv'
<1>1. /\ nextStamp \in Nat /\ stored \in Nat /\ file.stamp \in Nat /\ clock \in 0..MaxClock
      /\ \A w \in Watchers : watch[w].fp \in Nat
      /\ \A c \in Clients : req[c].second \in 0..MaxClock
  BY DEF Types, Reloads, Requests
<1>2. \A s \in 0..MaxClock : temp[s] # NoFile => temp[s].stamp \in Nat
  BY DEF Types, Temps
<1>3. ASSUME NEW c \in Clients, NEW e, Serve(c, e) PROVE StampInv'
  BY <1>3, StampsUntouched DEF Serve
<1>4. ASSUME NEW c \in Clients, CreateBackup(c) \/ Cleanup(c) \/ Reload(c) PROVE StampInv'
  BY <1>4, StampsUntouched DEF CreateBackup, Cleanup, Reload
<1>discard. ASSUME NEW c \in Clients, Discard(c, req[c].second),
                   UNCHANGED <<file, stored, watch, nextStamp>>
            PROVE  StampInv'
  BY <1>1, <1>discard, Discarded, TempsChanged
<1>5. ASSUME NEW c \in Clients, WriteTemp(c) PROVE StampInv'
  <2>1. \A s \in 0..MaxClock : s # clock => temp'[s] = temp[s]
    BY <1>5 DEF WriteTemp, Types
  <2>2. \/ temp'[clock] = temp[clock] /\ nextStamp' = nextStamp
        \/ temp'[clock].stamp = nextStamp /\ nextStamp' = nextStamp + 1
    <3> DEFINE new == [data |-> EmptyConfig, stamp |-> nextStamp]
    <3>1. \/ temp' = [temp EXCEPT ![clock] = new] /\ nextStamp' = nextStamp + 1
          \/ UNCHANGED <<temp, nextStamp>>
      BY <1>5 DEF WriteTemp
    <3>2. new.stamp = nextStamp
      OBVIOUS
    <3> HIDE DEF new
    <3>3. temp' = [temp EXCEPT ![clock] = new] => temp'[clock] = new
      BY <1>1 DEF Types
    <3> QED
      BY <3>1, <3>2, <3>3
  <2>3. UNCHANGED <<file, stored, watch>>
    BY <1>5 DEF WriteTemp
  <2> QED
    BY <1>1, <2>1, <2>2, <2>3, TempsChanged
<1>writing. ASSUME NEW c \in Clients, WriteTempEnd(c) \/ RestoreEnd(c) PROVE StampInv'
  BY <1>writing, DataWritten DEF WriteTempEnd, RestoreEnd
<1>6. ASSUME NEW c \in Clients, ReadBack(c) PROVE StampInv'
  <2>1. UNCHANGED <<file, stored, watch, nextStamp>>
    BY <1>6 DEF ReadBack
  <2>2. CASE UNCHANGED temp
    BY <2>1, <2>2, StampsUntouched
  <2> QED
    BY <1>6, <1>discard, <2>1, <2>2 DEF ReadBack
<1>7. ASSUME NEW c \in Clients, Rename(c) PROVE StampInv'
  <2> DEFINE n == req[c].second
  <2>1. UNCHANGED <<stored, watch, nextStamp>>
    BY <1>7 DEF Rename
  <2>2. CASE Discard(c, n)
    <3>2. CASE UNCHANGED file
      BY <1>discard, <2>1, <2>2, <3>2
    <3>3. CASE temp[n] # NoFile /\ file' = temp[n]
      <4>1. /\ \A s \in 0..MaxClock : s # n => temp'[s] = temp[s]
            /\ temp'[n] = NoFile
        BY <2>2, Discarded
      <4>2. ASSUME NEW s \in 0..MaxClock, temp'[s] # NoFile PROVE s # n /\ Unseen(temp[s])'
        BY <1>1, <2>1, <3>3, <4>1, <4>2 DEF StampInv, Unseen
      <4> QED
        BY <1>1, <2>1, <3>3, <4>1, <4>2 DEF StampInv, Unseen
    <3> QED
      BY <1>7, <3>2, <3>3 DEF Rename
  <2>3. CASE ~Discard(c, n)
    <3>1. /\ \A s \in 0..MaxClock : s # n => temp'[s] = temp[s]
          /\ temp'[n] = NoFile /\ temp[n] # NoFile /\ file' = temp[n]
      BY <1>7, <2>3, Renamed
    <3>2. ASSUME NEW s \in 0..MaxClock, temp'[s] # NoFile PROVE s # n /\ Unseen(temp[s])'
      BY <1>1, <2>1, <3>1, <3>2 DEF StampInv, Unseen
    <3> QED
      BY <1>1, <2>1, <3>1, <3>2 DEF StampInv, Unseen
  <2> QED
    BY <2>2, <2>3
<1>8. ASSUME NEW c \in Clients, RestoreBegin(c) PROVE StampInv'
  BY <1>8, StampsUntouched, FileWritten DEF RestoreBegin
<1>10. ASSUME NEW w \in Watchers, Capture(w) PROVE StampInv'
  <2>1. watch'[w].fp = file.stamp /\ \A v \in Watchers : v # w => watch'[v] = watch[v]
    BY <1>10 DEF Capture, Types, Reloads
  <2> QED
    BY <1>1, <1>2, <1>10, <2>1 DEF Capture, StampInv, Unseen
<1>11. ASSUME NEW w \in Watchers, Compare(w) \/ Load(w) \/ Apply(w) PROVE StampInv'
  <2>1. \A v \in Watchers : watch'[v].fp = watch[v].fp
    <3>1. CASE Compare(w)
      BY <3>1 DEF Compare, Types, Reloads
    <3>2. CASE Load(w)
      BY <3>2 DEF Load, Types, Reloads
    <3>3. CASE Apply(w)
      BY <3>3 DEF Apply, Types, Reloads
    <3> QED
      BY <1>11, <3>1, <3>2, <3>3
  <2> QED
    BY <1>11, <2>1, StampsUntouched DEF Compare, Load, Apply
<1>12. ASSUME NEW w \in Watchers, Store(w) PROVE StampInv'
  <2>1. watch'[w].fp = 0 /\ \A v \in Watchers : v # w => watch'[v] = watch[v]
    BY <1>12 DEF Store, Types, Reloads
  <2> QED
    BY <1>1, <1>2, <1>12, <2>1 DEF Store, StampInv, Unseen
<1>13. CASE EditByHand
  BY <1>13, FileWritten DEF EditByHand
<1>14. CASE Tick \/ UNCHANGED vars
  BY <1>14, StampsUntouched DEF Tick, vars
<1> QED
  BY <1>3, <1>4, <1>5, <1>writing, <1>6, <1>7, <1>8, <1>10, <1>11, <1>12, <1>13, <1>14,
     EndpointServes
  DEF Next, Save, MaybeReload

\* Neither the file nor what the watcher and the engine know of it changes.
LEMMA RaceUntouched ==
  ASSUME RaceInv, UNCHANGED <<file, engine, enforced, watch, stored, raced>> PROVE RaceInv'
BY DEF RaceInv, AboutToStore, InStep, NoStaleStore

\* The file gets a stamp no one has captured or stored.
LEMMA FileReplaced ==
  ASSUME UNCHANGED <<watch, stored>>, stored # file'.stamp,
         \A w \in Watchers : watch[w].fp # file'.stamp
  PROVE  RaceInv'
BY DEF RaceInv, AboutToStore

\* Every way the engine can fall behind the file is marked as a race, or sends the
\* watcher back to the file.
LEMMA RaceStep ==
  ASSUME Types, EngineInv, StampInv, RaceInv, [Next]_vars PROVE RaceInv'
<1>1. /\ nextStamp \in Nat /\ stored \in Nat /\ file.stamp \in Nat /\ clock \in 0..MaxClock
      /\ \A w \in Watchers : watch[w].fp \in Nat
      /\ \A c \in Clients : req[c].second \in 0..MaxClock
  BY DEF Types, Reloads, Requests
<1>2. stored # nextStamp /\ \A w \in Watchers : watch[w].fp # nextStamp
  BY <1>1 DEF StampInv
<1>3. ASSUME NEW c \in Clients, NEW e, Serve(c, e) PROVE RaceInv'
  BY <1>3, RaceUntouched DEF Serve
<1>4. ASSUME NEW c \in Clients,
             CreateBackup(c) \/ WriteTemp(c) \/ ReadBack(c) \/ Cleanup(c)
      PROVE  RaceInv'
  BY <1>4, RaceUntouched DEF CreateBackup, WriteTemp, ReadBack, Cleanup
<1>5. ASSUME NEW c \in Clients, Rename(c) PROVE RaceInv'
  <2>1. CASE UNCHANGED file
    BY <1>5, <2>1, RaceUntouched DEF Rename
  <2>2. CASE temp[req[c].second] # NoFile /\ file' = temp[req[c].second]
    <3>1. stored # file'.stamp /\ \A w \in Watchers : watch[w].fp # file'.stamp
      BY <1>1, <2>2 DEF StampInv, Unseen
    <3> QED
      BY <1>5, <3>1, FileReplaced DEF Rename
  <2> QED
    BY <1>5, <2>1, <2>2 DEF Rename
<1>6. ASSUME NEW c \in Clients, RestoreBegin(c) PROVE RaceInv'
  <2>1. CASE UNCHANGED file
    BY <1>6, <2>1, RaceUntouched DEF RestoreBegin
  <2>2. CASE file' = [data |-> EmptyConfig, stamp |-> nextStamp]
    BY <1>2, <1>6, <2>2, FileReplaced DEF RestoreBegin
  <2> QED
    BY <1>6, <2>1, <2>2 DEF RestoreBegin
<1>7. ASSUME NEW c \in Clients, WriteTempEnd(c) \/ RestoreEnd(c) PROVE RaceInv'
  <2>1. PICK d : Written(c, d)
    BY <1>7 DEF WriteTempEnd, RestoreEnd
  <2>2. UNCHANGED file \/ file'.stamp = nextStamp
    BY <2>1 DEF Written
  <2>3. UNCHANGED <<engine, enforced, watch, stored, raced>>
    BY <1>7 DEF WriteTempEnd, RestoreEnd
  <2>4. CASE UNCHANGED file
    BY <2>3, <2>4, RaceUntouched
  <2>5. CASE file'.stamp = nextStamp
    BY <1>2, <2>3, <2>5, FileReplaced
  <2> QED
    BY <2>2, <2>4, <2>5
<1>8. ASSUME NEW c \in Clients, Reload(c) PROVE RaceInv'
  <2>1. CASE ~Compiles(req[c].config)
    BY <1>8, <2>1, RaceUntouched DEF Reload
  <2>2. CASE Compiles(req[c].config)
    <3> DEFINE config == req[c].config
               Content == stored = file.stamp \/ \E w \in Watchers : AboutToStore(w)
    <3>1. /\ engine' = config /\ UNCHANGED <<file, watch, stored, enforced>>
          /\ raced' = (raced \/ (config # file.data /\ Content))
      BY <1>8, <2>2 DEF Reload
    <3>2. config \in AclConfigs /\ Validate(config)
      BY <1>8 DEF Reload, At, EngineInv
    <3>3. config = file.data => Usable(file.data)
      BY <2>2, <3>2, DataAssumption DEF Usable, Loads
    <3>4. ASSUME InStep, config = file.data PROVE InStep'
      BY <3>1, <3>3, <3>4 DEF InStep
    <3>5. ~raced' /\ Content => ~raced /\ config = file.data
      BY <3>1
    <3>6. ASSUME ~raced', NEW w \in Watchers, AboutToStore(w)' PROVE InStep'
      <4>1. AboutToStore(w)
        BY <3>1, <3>6 DEF AboutToStore
      <4>2. ~raced /\ config = file.data
        BY <3>5, <3>6, <4>1
      <4>3. InStep
        BY <4>1, <4>2 DEF RaceInv
      <4> QED
        BY <3>4, <4>2, <4>3
    <3>7. ASSUME ~raced', stored' = file'.stamp, NoStaleStore' PROVE InStep'
      <4>1. stored = file.stamp /\ NoStaleStore
        BY <3>1, <3>7 DEF NoStaleStore
      <4>2. ~raced /\ config = file.data
        BY <3>5, <3>7, <4>1
      <4>3. InStep
        BY <4>1, <4>2 DEF RaceInv
      <4> QED
        BY <3>4, <4>2, <4>3
    <3>8. \A w \in Watchers : watch'[w].pc = "apply" /\ watch'[w].fp = file'.stamp
                                => watch'[w].config = file'.data
      BY <3>1 DEF RaceInv
    <3> QED
      BY <3>6, <3>7, <3>8 DEF RaceInv
  <2> QED
    BY <2>1, <2>2
<1>9. ASSUME NEW w \in Watchers, Capture(w) \/ Compare(w) PROVE RaceInv'
  <2>1. /\ UNCHANGED <<file, stored, engine, enforced, raced>>
        /\ watch[w].pc \in {"idle", "compare"} /\ watch'[w].pc \in {"idle", "compare", "load"}
        /\ \A v \in Watchers : v # w => watch'[v] = watch[v]
    <3>1. CASE Capture(w)
      BY <3>1 DEF Capture, WatchAt, Types, Reloads
    <3>2. CASE Compare(w)
      BY <3>2 DEF Compare, WatchAt, Types, Reloads
    <3> QED
      BY <1>9, <3>1, <3>2
  <2> QED
    BY <2>1 DEF RaceInv, AboutToStore, InStep, NoStaleStore
<1>10. ASSUME NEW w \in Watchers, Load(w) PROVE RaceInv'
  <2>1. /\ UNCHANGED <<file, stored, engine, enforced, raced>>
        /\ watch[w].pc = "load" /\ watch'[w].fp = watch[w].fp /\ watch'[w].config = file.data
        /\ watch'[w].pc = IF Loads(file.data) THEN "apply" ELSE "store"
        /\ \A v \in Watchers : v # w => watch'[v] = watch[v]
    BY <1>10 DEF Load, WatchAt, Types, Reloads
  <2>2. CASE Loads(file.data)
    BY <2>1, <2>2 DEF RaceInv, AboutToStore, InStep, NoStaleStore
  <2>3. CASE ~Loads(file.data)
    <3>1. InStep'
      BY <2>1, <2>3 DEF InStep, Usable, Loads
    <3> QED
      BY <2>1, <2>3, <3>1 DEF RaceInv
  <2> QED
    BY <2>2, <2>3
<1>11. ASSUME NEW w \in Watchers, Apply(w) PROVE RaceInv'
  <2> DEFINE config == watch[w].config
  <2>1. /\ UNCHANGED <<file, stored>>
        /\ watch[w].pc = "apply" /\ watch'[w].pc = "store" /\ watch'[w].fp = watch[w].fp
        /\ \A v \in Watchers : v # w => watch'[v] = watch[v]
    BY <1>11 DEF Apply, WatchAt, Types, Reloads
  <2>2. watch[w].fp = file.stamp => config = file.data
    BY <2>1 DEF RaceInv
  <2>3. \A v \in Watchers : watch'[v].pc = "apply" /\ watch'[v].fp = file'.stamp
                              => watch'[v].config = file'.data
    BY <2>1 DEF RaceInv
  <2>4. \A v \in Watchers : v # w => AboutToStore(v)' = AboutToStore(v)
    BY <2>1 DEF AboutToStore
  <2>5. AboutToStore(w)' => watch[w].fp = file.stamp
    BY <2>1 DEF AboutToStore
  <2>6. NoStaleStore' => NoStaleStore /\ watch[w].fp = file.stamp
    BY <2>1 DEF NoStaleStore
  <2>7. CASE ~Compiles(config)
    <3>1. UNCHANGED <<engine, enforced, raced>>
      BY <1>11, <2>7 DEF Apply
    <3>2. watch[w].fp = file.stamp => InStep'
      BY <2>1, <2>2, <2>7 DEF InStep, Usable
    <3>3. InStep => InStep'
      BY <2>1, <3>1 DEF InStep
    <3> QED
      BY <2>3, <2>4, <2>5, <2>6, <3>1, <3>2, <3>3 DEF RaceInv
  <2>8. CASE Compiles(config)
    <3>1. /\ engine' = config /\ enforced' = config
          /\ raced' = (config # file.data /\ (raced \/ \E v \in Watchers \ {w} : AboutToStore(v)))
      BY <1>11, <2>8 DEF Apply
    <3>2. config = file.data => InStep'
      BY <2>1, <3>1 DEF InStep
    <3>3. ASSUME config # file.data, ~raced', NEW v \in Watchers PROVE ~AboutToStore(v)'
      <4>1. CASE v = w
        BY <2>2, <2>5, <3>3, <4>1
      <4>2. CASE v # w
        BY <2>4, <3>1, <3>3, <4>2
      <4> QED
        BY <4>1, <4>2
    <3>4. config # file.data => ~NoStaleStore'
      BY <2>2, <2>6
    <3> QED
      BY <2>3, <3>2, <3>3, <3>4 DEF RaceInv
  <2> QED
    BY <2>7, <2>8
<1>12. ASSUME NEW w \in Watchers, Store(w) PROVE RaceInv'
  <2>1. /\ UNCHANGED <<file, engine, enforced, raced>> /\ stored' = watch[w].fp
        /\ watch[w].pc = "store" /\ watch'[w].pc = "idle"
        /\ \A v \in Watchers : v # w => watch'[v] = watch[v]
    BY <1>12 DEF Store, WatchAt, Types, Reloads
  <2>2. stored' = file'.stamp => AboutToStore(w)
    BY <2>1 DEF AboutToStore
  <2>3. InStep => InStep'
    BY <2>1 DEF InStep
  <2>4. \A v \in Watchers : AboutToStore(v)' => AboutToStore(v)
    BY <2>1 DEF AboutToStore
  <2>5. \A v \in Watchers : watch'[v].pc = "apply" /\ watch'[v].fp = file'.stamp
                              => watch'[v].config = file'.data
    BY <2>1 DEF RaceInv
  <2> QED
    BY <2>1, <2>2, <2>3, <2>4, <2>5 DEF RaceInv
<1>13. CASE EditByHand
  BY <1>2, <1>13, FileReplaced DEF EditByHand
<1>14. CASE Tick \/ UNCHANGED vars
  BY <1>14, RaceUntouched DEF Tick, vars
<1> QED
  BY <1>3, <1>4, <1>5, <1>6, <1>7, <1>8, <1>9, <1>10, <1>11, <1>12, <1>13, <1>14, EndpointServes
  DEF Next, Save, MaybeReload

\* A step of a request disturbs no request that runs alone: there is none besides.
LEMMA OwnStep ==
  ASSUME AloneInv, NEW c \in Clients, req[c].pc # "idle",
         \A d \in Clients : d # c => req'[d].pc = req[d].pc /\ req'[d].alone = req[d].alone,
         req'[c].alone => req[c].alone \/ req'[c].pc = "idle",
         req'[c].alone /\ req'[c].pc # "idle" => Sequential(c)'
  PROVE  AloneInv'
<1>1. ASSUME NEW d \in Clients, NEW e \in Clients, d # e, req'[d].pc # "idle", req'[d].alone
      PROVE  req'[e].pc = "idle"
  BY <1>1 DEF AloneInv
<1>2. ASSUME NEW d \in Clients, req'[d].pc = "idle" PROVE Sequential(d)'
  BY <1>2 DEF Sequential
<1>3. ASSUME NEW d \in Clients, req'[d].alone, req'[d].pc # "idle" PROVE Sequential(d)'
  <2>1. d = c
    BY <1>3 DEF AloneInv
  <2> QED
    BY <1>3, <2>1
<1> QED
  BY <1>1, <1>2, <1>3 DEF AloneInv

\* Nothing a request relies on changes.
LEMMA AloneUntouched ==
  ASSUME AloneInv, UNCHANGED <<req, file, backup, temp>> PROVE AloneInv'
BY DEF AloneInv, Sequential

\* A request that runs alone finds the files as it left them.
LEMMA AloneStep ==
  ASSUME Types, EngineInv, AloneInv, [Next]_vars PROVE AloneInv'
<1> USE DEF Types, Requests
<1>1. ASSUME NEW c \in Clients, NEW e \in AclConfigs, Serve(c, e) PROVE AloneInv'
  <2>1. /\ \A d \in Clients : d # c => ~req'[d].alone /\ req'[d].pc = req[d].pc
        /\ req'[c].pc = "backup" /\ req'[c].found = file.data
        /\ req'[c].alone => Serving = {}
    BY <1>1 DEF Serve, Crowd, Idle
  <2>2. req'[c].alone => \A d \in Clients : req[d].pc = "idle"
    BY <2>1 DEF Serving
  <2>3. Sequential(c)'
    BY <1>1, <2>1 DEF Serve, Sequential
  <2> QED
    BY <2>1, <2>2, <2>3 DEF AloneInv
<1>2. ASSUME NEW c \in Clients, req[c].alone, req[c].pc # "idle" PROVE Sequential(c)
  BY <1>2 DEF AloneInv
<1>own. ASSUME NEW c \in Clients, Save(c), req[c].pc # "idle",
               req'[c].alone => req[c].alone \/ req'[c].pc = "idle",
               req'[c].alone /\ req'[c].pc # "idle" => Sequential(c)'
        PROVE  AloneInv'
  <2>1. \A d \in Clients : d # c => req'[d].pc = req[d].pc /\ req'[d].alone = req[d].alone
    BY <1>own, SaveFrame
  <2> QED
    BY <1>own, <2>1, OwnStep
<1>3. ASSUME NEW c \in Clients, CreateBackup(c) PROVE AloneInv'
  <2>1. /\ req[c].pc = "backup"
        /\ \/ req'[c].pc = "idle"
           \/ /\ req'[c].pc = "write" /\ req'[c].alone = req[c].alone
              /\ req'[c].found = req[c].found /\ backup' = file.data
        /\ UNCHANGED file
    BY <1>3 DEF CreateBackup, At, Goto, Answer, Idle
  <2>2. ASSUME req'[c].alone, req'[c].pc # "idle" PROVE Sequential(c)'
    BY <1>2, <2>1, <2>2 DEF Sequential
  <2> QED
    BY <1>3, <1>own, <2>1, <2>2 DEF Save
<1>4. ASSUME NEW c \in Clients, WriteTemp(c) PROVE AloneInv'
  <2>1. /\ req[c].pc = "write"
        /\ req'[c].alone = req[c].alone /\ req'[c].found = req[c].found
        /\ UNCHANGED <<file, backup>>
    BY <1>4 DEF WriteTemp, At, Goto
  <2> DEFINE new == [data |-> EmptyConfig, stamp |-> nextStamp]
  <2>2. \/ /\ req'[c].pc = "writing" /\ req'[c].second = clock /\ req'[c].fd = "temp"
           /\ temp' = [temp EXCEPT ![clock] = new]
        \/ req'[c].pc = "restore"
    <3>1. CASE Goto(c, "restore")
      BY <3>1 DEF Goto
    <3>2. CASE /\ temp' = [temp EXCEPT ![clock] = new]
               /\ req' = [req EXCEPT ![c].pc = "writing", ![c].second = clock, ![c].fd = "temp"]
      BY <3>2
    <3> QED
      BY <1>4, <3>1, <3>2 DEF WriteTemp
  <2>3. new.data = EmptyConfig
    OBVIOUS
  <2> HIDE DEF new
  <2>4. temp' = [temp EXCEPT ![clock] = new] => temp'[clock] = new
    OBVIOUS
  <2>5. ASSUME req'[c].alone, req'[c].pc # "idle" PROVE Sequential(c)'
    BY <1>2, <2>1, <2>2, <2>3, <2>4, <2>5 DEF Sequential
  <2> QED
    BY <1>4, <1>own, <2>1, <2>5 DEF Save
<1>writing. ASSUME NEW c \in Clients, WriteTempEnd(c) PROVE AloneInv'
  <2>1. /\ req[c].pc = "writing" /\ req'[c].pc \in {"read", "restore"}
        /\ req'[c].alone = req[c].alone /\ req'[c].found = req[c].found
        /\ req'[c].config = req[c].config /\ req'[c].second = req[c].second
        /\ req'[c].pc = "read" => \E d \in Whole(c) : Written(c, d)
        /\ \E d : Written(c, d)
        /\ UNCHANGED backup
    BY <1>writing DEF WriteTempEnd, At
  <2>2. ASSUME req'[c].alone PROVE Sequential(c)'
    <3>1. /\ file.data = req[c].found /\ backup = req[c].found /\ req[c].fd = "temp"
          /\ temp[req[c].second].data = EmptyConfig
      BY <1>2, <2>1, <2>2 DEF Sequential
    <3>2. UNCHANGED file
      BY <2>1, <3>1 DEF Written
    <3>3. ASSUME req'[c].pc = "read"
          PROVE  temp'[req[c].second] # NoFile /\ temp'[req[c].second].data = req[c].config
      <4>1. Whole(c) = {req[c].config}
        BY <3>1 DEF Whole, Holds
      <4>2. Written(c, req[c].config)
        BY <2>1, <3>3, <4>1
      <4> DEFINE new == [data |-> req[c].config, stamp |-> nextStamp]
      <4>3. new # NoFile /\ new.data = req[c].config
        <5>1. new \in [data : AclConfigs \union {Unreadable}, stamp : Nat]
          BY DEF Data
        <5> QED
          BY <5>1, DataAssumption
      <4>4. temp' = [temp EXCEPT ![req[c].second] = new]
        BY <3>1, <4>2 DEF Written
      <4> HIDE DEF new
      <4>5. temp'[req[c].second] = new
        BY <4>4
      <4> QED
        BY <4>3, <4>5
    <3> QED
      BY <2>1, <3>1, <3>2, <3>3 DEF Sequential
  <2> QED
    BY <1>writing, <1>own, <2>1, <2>2 DEF Save
<1>discard. ASSUME NEW c \in Clients, req[c].pc \in {"read", "rename"},
                   Discard(c, req[c].second), req'[c].alone, UNCHANGED <<file, backup>>
            PROVE  Sequential(c)'
  <2>1. req'[c].pc = "restore" /\ req'[c].found = req[c].found /\ req[c].alone
    BY <1>discard, Discarded
  <2> QED
    BY <1>2, <1>discard, <2>1 DEF Sequential
<1>5. ASSUME NEW c \in Clients, ReadBack(c) PROVE AloneInv'
  <2>1. req[c].pc = "read" /\ UNCHANGED <<file, backup>>
    BY <1>5 DEF ReadBack, At
  <2>2. CASE Discard(c, req[c].second)
    <3>1. req'[c].alone = req[c].alone
      BY <2>2, Discarded
    <3> QED
      BY <1>5, <1>own, <1>discard, <2>1, <2>2, <3>1 DEF Save
  <2>3. CASE Goto(c, "rename") /\ UNCHANGED temp
    <3>1. /\ req'[c].pc = "rename"
          /\ req'[c].alone = req[c].alone /\ req'[c].found = req[c].found
          /\ req'[c].config = req[c].config /\ req'[c].second = req[c].second
      BY <2>3 DEF Goto
    <3>2. ASSUME req'[c].alone PROVE Sequential(c)'
      BY <1>2, <2>1, <2>3, <3>1, <3>2 DEF Sequential
    <3> QED
      BY <1>5, <1>own, <2>1, <3>1, <3>2 DEF Save
  <2> QED
    BY <1>5, <2>2, <2>3 DEF ReadBack
<1>6. ASSUME NEW c \in Clients, Rename(c) PROVE AloneInv'
  <2>1. req[c].pc = "rename" /\ UNCHANGED backup
    BY <1>6 DEF Rename, At
  <2>2. CASE Discard(c, req[c].second) /\ UNCHANGED file
    <3>1. req'[c].alone = req[c].alone
      BY <2>2, Discarded
    <3> QED
      BY <1>6, <1>own, <1>discard, <2>1, <2>2, <3>1 DEF Save
  <2>3. CASE ~Discard(c, req[c].second)
    <3>1. /\ req'[c].pc = "cleanup" /\ req'[c].alone = req[c].alone
          /\ req'[c].config = req[c].config /\ file' = temp[req[c].second]
      BY <1>6, <2>3, Renamed
    <3>2. ASSUME req'[c].alone PROVE Sequential(c)'
      BY <1>2, <2>1, <3>1, <3>2 DEF Sequential
    <3> QED
      BY <1>6, <1>own, <2>1, <3>1, <3>2 DEF Save
  <2>4. CASE Discard(c, req[c].second) /\ ~UNCHANGED file
    <3>1. req'[c].pc = "restore"
      BY <2>4, Discarded
    <3>2. req' = [Carried(req[c].second, "file") EXCEPT ![c].pc = "cleanup"]
      BY SMTT(60), <1>6, <2>4 DEF Rename
    <3>3. req'[c].pc = "cleanup"
      BY <3>2, CarriedRequests DEF RequestPCs
    <3> QED
      BY <3>1, <3>3
  <2> QED
    BY <2>2, <2>3, <2>4
<1>7. ASSUME NEW c \in Clients, Cleanup(c) PROVE AloneInv'
  <2>1. /\ req[c].pc = "cleanup"
        /\ req'[c].alone = req[c].alone /\ req'[c].config = req[c].config
        /\ req'[c].pc = "reload" /\ UNCHANGED file
    BY <1>7 DEF Cleanup, At, Goto
  <2>2. ASSUME req'[c].alone, req'[c].pc # "idle" PROVE Sequential(c)'
    BY <1>2, <2>1, <2>2 DEF Sequential
  <2> QED
    BY <1>7, <1>own, <2>1, <2>2 DEF Save
<1>8. ASSUME NEW c \in Clients, RestoreBegin(c) PROVE AloneInv'
  <2>1. /\ req[c].pc = "restore" /\ UNCHANGED backup
        /\ \/ req'[c].pc = "idle"
           \/ /\ req'[c].pc = "restoring" /\ req'[c].alone = req[c].alone
              /\ req'[c].found = req[c].found /\ req'[c].config = backup /\ req'[c].fd = "file"
              /\ file'.data = EmptyConfig
    <3>1. CASE Answer(c)
      BY <1>8, <3>1 DEF RestoreBegin, At, Answer, Idle
    <3>2. CASE ~Answer(c)
      <4>1. /\ req' = [req EXCEPT ![c].pc = "restoring", ![c].config = backup, ![c].fd = "file"]
            /\ file' = [data |-> EmptyConfig, stamp |-> nextStamp]
            /\ req[c].pc = "restore" /\ UNCHANGED backup
        BY <1>8, <3>2 DEF RestoreBegin, At
      <4>2. file'.data = EmptyConfig
        BY <4>1
      <4> QED
        BY <4>1, <4>2
    <3> QED
      BY <3>1, <3>2
  <2>2. ASSUME req'[c].alone, req'[c].pc # "idle" PROVE Sequential(c)'
    BY <1>2, <2>1, <2>2 DEF Sequential
  <2> QED
    BY <1>8, <1>own, <2>1, <2>2 DEF Save
<1>9. ASSUME NEW c \in Clients, RestoreEnd(c) \/ Reload(c) PROVE AloneInv'
  <2>1. req[c].pc # "idle" /\ req'[c].pc = "idle"
    BY <1>9 DEF RestoreEnd, Reload, At, Answer, Idle
  <2> QED
    BY <1>9, <1>own, <2>1 DEF Save
<1>10. ASSUME NEW w \in Watchers, MaybeReload(w) PROVE AloneInv'
  BY <1>10, AloneUntouched DEF MaybeReload, Capture, Compare, Load, Apply, Store
<1>11. CASE EditByHand
  <2>1. \A c \in Clients : ~req'[c].alone
    BY <1>11 DEF EditByHand
  <2> QED
    BY <2>1 DEF AloneInv
<1>12. CASE Tick \/ UNCHANGED vars
  BY <1>12, AloneUntouched DEF Tick, vars
<1> QED
  BY <1>1, <1>3, <1>4, <1>writing, <1>5, <1>6, <1>7, <1>8, <1>9, <1>10, <1>11, <1>12, EndpointServes
  DEF Next, Save

\* The invariant holds initially.
LEMMA InitInv ==
  ASSUME Init PROVE AdminInv
<1> USE InitialFileAssumption, DataAssumption, BoundsAssumption DEF Init
<1>1. Idle \in Requests
  BY DEF Idle, Requests, RequestPCs, Places, Data, EmptyConfig, AclConfigs, Actions
<1>2. [pc |-> "idle", fp |-> 0, config |-> Unreadable] \in Reloads
  BY DEF Reloads, WatchPCs, Data
<1>3. Types
  <2>1. file \in [data : Data, stamp : Nat]
    BY DEF Data
  <2>2. temp \in [0..MaxClock -> Temps]
    BY DEF Temps
  <2>3. req \in [Clients -> Requests] /\ watch \in [Watchers -> Reloads]
    BY <1>1, <1>2
  <2>4. backup \in Data \union {NoFile} /\ engine \in AclConfigs /\ enforced \in AclConfigs
    OBVIOUS
  <2>5. /\ stored \in Nat /\ nextStamp \in Nat /\ clock \in 0..MaxClock
        /\ edits \in 0..MaxEdits /\ writes \in 0..MaxWrites /\ faults \in 0..MaxFaults
    OBVIOUS
  <2>6. raced \in BOOLEAN
    OBVIOUS
  <2> QED
    BY <2>1, <2>2, <2>3, <2>4, <2>5, <2>6, Zenon DEF Types
<1>4. /\ \A c \in Clients : req[c].pc = "idle"
      /\ \A w \in Watchers : watch[w].pc = "idle" /\ watch[w].fp = 0
  BY DEF Idle
<1>5. EngineInv
  BY <1>4 DEF EngineInv
<1>6. StampInv
  BY <1>4 DEF StampInv
<1>7. RaceInv
  BY <1>4 DEF RaceInv, AboutToStore, InStep
<1>8. AloneInv
  BY <1>4 DEF AloneInv, Sequential
<1>9. OpenInv
  BY DEF OpenInv, Idle
<1> QED
  BY <1>3, <1>5, <1>6, <1>7, <1>8, <1>9 DEF AdminInv

\* The inductive invariant of the ACL's administration: what is in flight is a
\* valid configuration, stamps are unique, and the engine falls behind the file
\* only by a marked race (acl_management.rs, persistence.rs, watcher.rs).
THEOREM AdminAlways == Spec => []AdminInv
<1>1. Init => AdminInv
  BY InitInv
<1>2. AdminInv /\ [Next]_vars => AdminInv'
  BY TypesStep, OpenStep, EngineStep, StampStep, RaceStep, AloneStep DEF AdminInv
<1> QED
  BY <1>1, <1>2, PTL DEF Spec

\* Type correctness: in particular the engine never holds a configuration that
\* reload would have refused (engine.rs:314).
THEOREM EngineAlwaysValid == Spec => []TypeOK
<1>1. AdminInv => TypeOK
  <2> SUFFICES ASSUME AdminInv PROVE TypeOK
    OBVIOUS
  <2> USE DEF AdminInv
  <2>1. file.stamp \in 0..(nextStamp - 1) /\ stored \in 0..(nextStamp - 1)
    BY DEF Types, StampInv
  <2>2. backup \in {NoFile, Unreadable} \/ backup.default_policy \in Actions
    BY DEF Types, Data, AclConfigs
  <2>3. \A s \in 0..MaxClock : temp[s] = NoFile \/ temp[s].stamp < nextStamp
    BY DEF StampInv, Unseen
  <2>4. \A c \in Clients :
          /\ req[c].pc \in {"idle", "backup", "write", "writing", "read", "rename", "cleanup",
                            "restore", "restoring", "reload"}
          /\ req[c].alone \in BOOLEAN /\ req[c].second \in 0..MaxClock
          /\ req[c].fd = "temp" => temp[req[c].second] # NoFile
    BY DEF Types, Requests, RequestPCs, OpenInv
  <2>5. \A w \in Watchers : /\ watch[w].pc \in {"idle", "compare", "load", "apply", "store"}
                            /\ watch[w].fp < nextStamp
    BY DEF Types, Reloads, WatchPCs, StampInv
  <2> QED
    BY <2>1, <2>2, <2>3, <2>4, <2>5 DEF TypeOK, Types, EngineInv
<1> QED
  BY <1>1, AdminAlways, PTL

\* When nothing is in flight and the watcher is content with the file, the engine
\* and the sessions are in step with it, unless a race was marked
\* (watcher.rs:203).
THEOREM StaleOnlyByRaces == Spec => []StaleOnlyByRace
<1>1. AdminInv => StaleOnlyByRace
  <2> SUFFICES ASSUME AdminInv, Quiet, stored = file.stamp, ~raced
               PROVE  Current /\ (engine = file.data => enforced = engine)
    BY DEF StaleOnlyByRace
  <2>1. NoStaleStore
    BY DEF Quiet, WatchAt, NoStaleStore
  <2>2. InStep
    BY <2>1 DEF AdminInv, RaceInv
  <2>3. Current
    BY <2>2 DEF InStep, Usable, Current
  <2>4. engine = file.data => Usable(file.data)
    BY DataAssumption DEF AdminInv, Types, EngineInv, Usable, Loads
  <2> QED
    BY <2>2, <2>3, <2>4 DEF InStep
<1> QED
  BY <1>1, AdminAlways, PTL

\* A request that nothing overlapped is atomic: after "ok" the file and the engine
\* hold its edit; after an error the file is what it found, and so is the engine
\* once the watcher has looked, except for a rule that only compile refuses and
\* for a restore that fails too, which leaves what was found in the backup
\* (persistence.rs:37-78).
THEOREM EditsAreAtomic == Spec => EditAlone
<1> DEFINE Atomic(c) ==
      req[c].pc # "idle" /\ req'[c].pc = "idle" /\ req[c].alone =>
        /\ Succeeds(c) => file'.data = req[c].config /\ engine' = req[c].config
        /\ Refused(c) => file'.data = req[c].config /\ engine' = engine
        /\ ~Succeeds(c) /\ ~Refused(c) =>
             \/ /\ file'.data = req[c].found
                /\ Usable(req[c].found) => engine' = req[c].found \/ Unsettled'
             \/ At(c, "restoring") /\ faults' # faults /\ backup' = req[c].found
<1>1. AdminInv /\ AdminInv' /\ [Next]_vars => [\A c \in Clients : Atomic(c)]_vars
  <2> SUFFICES ASSUME AdminInv, AdminInv', [Next]_vars, NEW c \in Clients,
                      req[c].pc # "idle", req'[c].pc = "idle", req[c].alone
               PROVE  /\ Succeeds(c) => file'.data = req[c].config /\ engine' = req[c].config
                      /\ Refused(c) => file'.data = req[c].config /\ engine' = engine
                      /\ ~Succeeds(c) /\ ~Refused(c) =>
                           \/ /\ file'.data = req[c].found
                              /\ Usable(req[c].found) => engine' = req[c].found \/ Unsettled'
                           \/ At(c, "restoring") /\ faults' # faults /\ backup' = req[c].found
    OBVIOUS
  <2>1. Sequential(c) /\ Types
    BY DEF AdminInv, AloneInv
  <2>settled. file'.data = req[c].found /\ Usable(req[c].found) => engine' = req[c].found \/ Unsettled'
    <3>1. ~Unsettled' => ~raced' /\ stored' = file'.stamp /\ NoStaleStore'
      BY DEF Unsettled, NoStaleStore, WatchAt
    <3>2. ~Unsettled' => InStep'
      BY <3>1 DEF AdminInv, RaceInv
    <3>3. file'.data = req[c].found /\ Usable(req[c].found) => Usable(file.data)'
      BY DEF Usable, Loads
    <3> QED
      BY <3>2, <3>3 DEF InStep
  <2> USE DEF At
  <2>2. ASSUME NEW d \in Clients, NEW e, Serve(d, e) PROVE FALSE
    BY <2>1, <2>2 DEF Serve, Crowd, Idle, Types, Requests
  <2>3. ASSUME NEW d \in Clients, d # c PROVE ~Save(d)
    <3>1. req[d].pc = "idle"
      BY <2>3 DEF AdminInv, AloneInv
    <3> QED
      BY <3>1 DEF Save, CreateBackup, WriteTemp, WriteTempEnd, ReadBack, Rename, Cleanup,
                  RestoreBegin, RestoreEnd, Reload
  <2>4. CASE CreateBackup(c) \/ RestoreBegin(c)
    <3>1. req[c].pc \in {"backup", "restore"} /\ UNCHANGED file
      BY <2>1, <2>4 DEF CreateBackup, RestoreBegin, Goto, Types, Requests
    <3>2. file'.data = req[c].found
      BY <2>1, <3>1 DEF Sequential
    <3> QED
      BY <2>settled, <3>1, <3>2 DEF Succeeds, Refused
  <2>5. CASE WriteTemp(c) \/ WriteTempEnd(c) \/ ReadBack(c) \/ Rename(c) \/ Cleanup(c)
    <3>1. req'[c].pc # "idle"
      <4>1. CASE WriteTemp(c) \/ WriteTempEnd(c) \/ Cleanup(c)
        BY <2>1, <4>1 DEF WriteTemp, WriteTempEnd, Cleanup, Goto, Types, Requests
      <4>2. CASE ReadBack(c)
        BY <2>1, <4>2, Discarded DEF ReadBack, Goto, Types, Requests
      <4>3. CASE Rename(c)
        <5>1. CASE Discard(c, req[c].second)
          BY <2>1, <5>1, Discarded
        <5>2. CASE ~Discard(c, req[c].second)
          BY <2>1, <4>3, <5>2, Renamed
        <5> QED
          BY <5>1, <5>2
      <4> QED
        BY <2>5, <4>1, <4>2, <4>3
    <3> QED
      BY <3>1
  <2>6. CASE RestoreEnd(c)
    <3>1. /\ req[c].pc = "restoring" /\ UNCHANGED backup
          /\ req[c].config = req[c].found /\ backup = req[c].found
          /\ req[c].fd = "file" /\ file.data = EmptyConfig
      BY <2>1, <2>6 DEF RestoreEnd, Sequential
    <3>2. CASE NoFault
      <4>1. Whole(c) = {req[c].config}
        BY <3>1 DEF Whole, Holds
      <4>2. \E d \in Whole(c) : Written(c, d)
        BY <2>1, <2>6, <3>2 DEF RestoreEnd, NoFault, Fault, Types
      <4>3. Written(c, req[c].config)
        BY <4>1, <4>2
      <4>4. file'.data = req[c].found
        BY <3>1, <4>3 DEF Written
      <4> QED
        BY <2>settled, <3>1, <4>4 DEF Succeeds, Refused
    <3>3. CASE Fault
      <4>1. faults' # faults
        BY <2>1, <3>3 DEF Fault, Types
      <4> QED
        BY <3>1, <4>1 DEF Succeeds, Refused
    <3> QED
      BY <2>6, <3>2, <3>3 DEF RestoreEnd
  <2>7. CASE Reload(c)
    BY <2>1, <2>7 DEF Reload, Sequential, Succeeds, Refused
  <2>8. CASE UNCHANGED req
    BY <2>8
  <2>9. ASSUME NEW w \in Watchers, MaybeReload(w) PROVE UNCHANGED req
    BY <2>9 DEF MaybeReload, Capture, Compare, Load, Apply, Store
  <2>10. CASE EditByHand
    BY <2>1, <2>10 DEF EditByHand, Types, Requests
  <2>11. CASE Tick \/ UNCHANGED vars
    BY <2>8, <2>11 DEF Tick, vars
  <2> QED
    BY <2>1, <2>2, <2>3, <2>4, <2>5, <2>6, <2>7, <2>8, <2>9, <2>10, <2>11, EndpointServes
    DEF Next, Save
<1> QED
  BY <1>1, AdminAlways, PTL DEF Spec, EditAlone

\* For every configuration the engine can come to hold, every user, groups and
\* query, the answer does not depend on the order sort_unstable_by leaves: it is
\* the reference's, and names a rule of the highest priority (engine.rs:163-208).
THEOREM AnswersAlwaysReference == Spec => []AnswersAreReference
<1>1. AdminInv => AnswersAreReference
  <2> SUFFICES ASSUME AdminInv, NEW u \in Users, NEW gs \in LdapGroups, NEW q \in Queries,
                      NEW r \in evaluate_with_groups(engine, u, gs, q)
               PROVE  /\ r.decision = Reference(collect_rules_from_groups(engine, u, gs),
                                                engine.default_policy, q)
                      /\ r.rule \in BestRules(collect_rules_from_groups(engine, u, gs),
                                              engine.default_policy, q)
    BY DEF AnswersAreReference
  <2>1. engine \in AclConfigs /\ gs \in Seq(STRING)
    BY DataAssumption DEF AdminInv, Types
  <2>2. collect_rules_from_groups(engine, u, gs) \in Seq(AclRules)
    BY <2>1, CollectedRules
  <2> QED
    BY <2>2, FirstMatchIsReference DEF evaluate_with_groups
<1> QED
  BY <1>1, AdminAlways, PTL

\* The handler's decision about a TCP session and the one enforce_acl takes later
\* agree when the reported groups are the file's and no ip was sent as a name;
\* and otherwise no rule ends a session the handler would allow, as long as the
\* file's groups are among those reported (manager.rs:522).
THEOREM PathsAlwaysAgree == Spec => []PathsAgree
<1>1. AdminInv => PathsAgree
  <2> SUFFICES ASSUME AdminInv, NEW u \in Users, NEW q \in Queries, NoCaseVariants,
                      q.protocol = "tcp"
               PROVE  /\ (q.addr.form = "domain" => q.addr.ip = NoIp) =>
                           HandlerDecisions(engine, u, StaticGroups(engine, u), q)
                             = EnforcedDecisions(engine, u, q)
                      /\ \A gs \in LdapGroups :
                           /\ Reports(gs, u)
                           /\ "allow" \in HandlerDecisions(engine, u, gs, q)
                           /\ "block" \in EnforcedDecisions(engine, u, q)
                           => /\ engine.default_policy = "block"
                              /\ \A i \in DOMAIN collect_rules(engine, u) :
                                   ~RuleMatches(collect_rules(engine, u)[i], StoredQuery(q))
    BY DEF PathsAgree
  <2>1. engine \in AclConfigs /\ Validate(engine) /\ q \in AclQueries
    BY DataAssumption DEF AdminInv, Types, EngineInv
  <2>2. \A gs \in LdapGroups : gs \in Seq(STRING)
    BY DataAssumption
  <2> QED
    BY <2>1, <2>2, SameDecisions, NeverByRule
<1> QED
  BY <1>1, AdminAlways, PTL

=============================================================================
