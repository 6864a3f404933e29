------------------------ MODULE ConnectionPoolProofs ------------------------
(***************************************************************************)
(* Proofs about ConnectionPool, for every set of addresses and tasks and   *)
(* every configuration.                                                    *)
(***************************************************************************)
EXTENDS ConnectionPool, FiniteSetTheorems, SequenceTheorems, NaturalsInduction,
        WellFoundedInduction, TLAPS

-----------------------------------------------------------------------------
(* Arithmetic of the word counters                                         *)

\* fetch_add and fetch_sub on an AtomicUsize stay within the word.
LEMMA WordOps ==
  ASSUME NEW x \in Words, NEW n \in Nat
  PROVE  Add(x, n) \in Words /\ Sub(x, n) \in Words
<1>1. Wrap \in Nat /\ Wrap > 1
  BY PoolConstants
<1>2. \A y \in Int : y % Wrap \in 0 .. (Wrap - 1)
  BY <1>1
<1>3. x \in Int /\ x + n \in Int /\ Wrap * n \in Int
  BY <1>1 DEF Words
<1>4. x + Wrap * n - n \in Int
  BY <1>3
<1>5. n <= x => x - n \in Words
  BY <1>1 DEF Words
<1> QED
  BY <1>2, <1>3, <1>4, <1>5 DEF Add, Sub, Words

\* Updating one entry of a map of counters leaves it a map of counters, also
\* when the key is not in the map.
LEMMA CounterUpdate ==
  ASSUME NEW f \in [Addr -> Nat], NEW a
  PROVE  /\ [f EXCEPT ![a] = @ + 1] \in [Addr -> Nat]
         /\ [f EXCEPT ![a] = Monus(@)] \in [Addr -> Nat]
<1>1. ASSUME NEW x \in Addr
      PROVE  [f EXCEPT ![a] = @ + 1][x] \in Nat /\ [f EXCEPT ![a] = Monus(@)][x] \in Nat
  BY DEF Monus
<1> QED BY <1>1

\* The same for a map of words.
LEMMA WordUpdate ==
  ASSUME NEW f \in [Addr -> Words], NEW a
  PROVE  /\ [f EXCEPT ![a] = Add(@, 1)] \in [Addr -> Words]
         /\ [f EXCEPT ![a] = Sub(@, 1)] \in [Addr -> Words]
<1>1. ASSUME NEW x \in Addr
      PROVE  [f EXCEPT ![a] = Add(@, 1)][x] \in Words /\ [f EXCEPT ![a] = Sub(@, 1)][x] \in Words
  BY WordOps
<1> QED BY <1>1

\* A function on 1 .. n is a sequence of length n.
LEMMA FunctionIsSeq ==
  ASSUME NEW S, NEW n \in Nat, NEW f \in [1 .. n -> S]
  PROVE  f \in Seq(S) /\ Len(f) = n
<1>1. f \in Seq(S)
  BY SeqDef
<1> QED BY <1>1

-----------------------------------------------------------------------------
(* Type correctness                                                        *)

\* pending_creates counts the tasks inside connect_new.
PendingExact == pending = Cardinality(Connecting)

\* The connecting tasks can be counted.
LEMMA ConnectingFinite == IsFiniteSet(Connecting) /\ Cardinality(Connecting) \in Nat
  BY PoolConstants, FS_Subset, FS_CardinalityType DEF Connecting

ConnectPCs == {"connecting", "ref_connect"}

\* A step of task t changes the number of connecting tasks by t at most.
ConnectingMoves(t) ==
  /\ Cardinality(Connecting') \in Nat
  /\ (pc[t] \in ConnectPCs) = (pc'[t] \in ConnectPCs)
       => Cardinality(Connecting') = Cardinality(Connecting)
  /\ pc[t] \notin ConnectPCs /\ pc'[t] \in ConnectPCs
       => Cardinality(Connecting') = Cardinality(Connecting) + 1
  /\ pc[t] \in ConnectPCs /\ pc'[t] \notin ConnectPCs
       => Cardinality(Connecting') = Cardinality(Connecting) - 1

\* A step that moves only task t changes the connecting tasks in t at most.
LEMMA ConnectingMove ==
  ASSUME NEW t \in Tasks, \A u \in Tasks : u # t => pc'[u] = pc[u]
  PROVE  ConnectingMoves(t)
<1>1. IsFiniteSet(Connecting) /\ Cardinality(Connecting) \in Nat
  BY ConnectingFinite
<1>3. CASE (pc[t] \in ConnectPCs) = (pc'[t] \in ConnectPCs)
  <2>1. Connecting' = Connecting
    BY <1>3 DEF Connecting, ConnectPCs
  <2> QED BY <2>1, <1>1, <1>3 DEF ConnectingMoves
<1>4. CASE pc[t] \notin ConnectPCs /\ pc'[t] \in ConnectPCs
  <2>1. Connecting' = Connecting \union {t} /\ t \notin Connecting
    BY <1>4 DEF Connecting, ConnectPCs
  <2>2. Cardinality(Connecting') = Cardinality(Connecting) + 1
    BY <2>1, <1>1, FS_AddElement
  <2> QED BY <2>2, <1>1, <1>4 DEF ConnectingMoves
<1>5. CASE pc[t] \in ConnectPCs /\ pc'[t] \notin ConnectPCs
  <2>1. Connecting' = Connecting \ {t} /\ t \in Connecting
    BY <1>5 DEF Connecting, ConnectPCs
  <2>2. Cardinality(Connecting') = Cardinality(Connecting) - 1
    BY <2>1, <1>1, FS_RemoveElement
  <2>3. IsFiniteSet(Connecting')
    BY <2>1, <1>1, FS_Subset
  <2> QED BY <2>2, <2>3, <1>5, FS_CardinalityType DEF ConnectingMoves
<1> QED BY <1>3, <1>4, <1>5

\* One step keeps pending_creates equal to the number of tasks inside
\* connect_new; so its decrements never take it below zero.
LEMMA PendingStep ==
  ASSUME TypeOK, PendingExact, [Next]_vars
  PROVE  PendingExact' /\ pending' \in Nat
<1> USE DEF PendingExact
<1>1. Cardinality(Connecting) \in Nat
  BY ConnectingFinite
<1>2. ASSUME pc' = pc, pending' = pending PROVE PendingExact' /\ pending' \in Nat
  BY <1>1, <1>2 DEF PendingExact, Connecting
<1>3. ASSUME NEW t \in Tasks, Step(t) PROVE PendingExact' /\ pending' \in Nat
  <2>0. (\A u \in Tasks : u # t => pc'[u] = pc[u]) => ConnectingMoves(t)
    BY ConnectingMove
  <2>1. CASE GetRemove(t)
    BY <2>1, <2>0, <1>1 DEF GetRemove, Goto, Return, CheckOut, useVars, ConnectingMoves, ConnectPCs, TypeOK
  <2>2. CASE GetCount(t)
    BY <2>2, <2>0, <1>1 DEF GetCount, Goto, Return, CheckOut, useVars, ConnectingMoves, ConnectPCs, TypeOK
  <2>3. CASE GetHit(t)
    BY <2>3, <2>0, <1>1 DEF GetHit, Goto, Return, CheckOut, useVars, ConnectingMoves, ConnectPCs, TypeOK
  <2>4. CASE GetConnected(t)
    BY <2>4, <2>0, <1>1 DEF GetConnected, Goto, Return, CheckOut, useVars, ConnectingMoves, ConnectPCs, TypeOK
  <2>5. CASE GetFailed(t)
    BY <2>5, <2>0, <1>1 DEF GetFailed, Goto, Return, CheckOut, useVars, ConnectingMoves, ConnectPCs, TypeOK
  <2>6. CASE DirectConnect(t)
    BY <2>6, <2>0, <1>1 DEF DirectConnect, Goto, Return, CheckOut, useVars, ConnectingMoves, ConnectPCs, TypeOK
  <2>7. CASE InsertCheck(t)
    BY <2>7, <2>0, <1>1 DEF InsertCheck, Goto, Return, CheckOut, useVars, ConnectingMoves, ConnectPCs, TypeOK
  <2>8. CASE InsertLoad(t)
    BY <2>8, <2>0, <1>1 DEF InsertLoad, Goto, Return, CheckOut, useVars, ConnectingMoves, ConnectPCs, TypeOK
  <2>9. CASE EvictChosen(t)
    BY <2>9, <2>0, <1>1 DEF EvictChosen, Goto, Return, CheckOut, useVars, ConnectingMoves, ConnectPCs, TypeOK
  <2>10. CASE EvictRemove(t)
    BY <2>10, <2>0, <1>1 DEF EvictRemove, Goto, Return, CheckOut, useVars, ConnectingMoves, ConnectPCs, TypeOK
  <2>11. CASE EvictPanic(t)
    BY <2>11, <2>0, <1>1 DEF EvictPanic, Goto, Return, CheckOut, useVars, ConnectingMoves, ConnectPCs, TypeOK
  <2>12. CASE EvictDrop(t)
    BY <2>12, <2>0, <1>1 DEF EvictDrop, Goto, Return, CheckOut, useVars, ConnectingMoves, ConnectPCs, TypeOK
  <2>13. CASE InsertPush(t)
    BY <2>13, <2>0, <1>1 DEF InsertPush, Goto, Return, CheckOut, useVars, ConnectingMoves, ConnectPCs, TypeOK
  <2>14. CASE InsertCount(t)
    BY <2>14, <2>0, <1>1 DEF InsertCount, Goto, Return, CheckOut, useVars, ConnectingMoves, ConnectPCs, TypeOK
  <2>15. CASE PutRecord(t)
    BY <2>15, <2>0, <1>1 DEF PutRecord, Goto, Return, CheckOut, useVars, ConnectingMoves, ConnectPCs, TypeOK
  <2>16. CASE DecrementActive(t)
    BY <2>16, <2>0, <1>1 DEF DecrementActive, Goto, Return, CheckOut, useVars, ConnectingMoves, ConnectPCs, TypeOK
  <2>17. CASE RemoveActive(t)
    BY <2>17, <2>0, <1>1 DEF RemoveActive, Goto, Return, CheckOut, useVars, ConnectingMoves, ConnectPCs, TypeOK
  <2>18. CASE PutDone(t)
    BY <2>18, <2>0, <1>1 DEF PutDone, Goto, Return, CheckOut, useVars, ConnectingMoves, ConnectPCs, TypeOK
  <2>19. CASE SpawnRefresh(t)
    BY <2>19, <2>0, <1>1 DEF SpawnRefresh, Goto, Return, CheckOut, useVars, ConnectingMoves, ConnectPCs, TypeOK
  <2>20. CASE RefreshStart(t)
    BY <2>20, <2>0, <1>1 DEF RefreshStart, Goto, Return, CheckOut, useVars, ConnectingMoves, ConnectPCs, TypeOK
  <2>21. CASE RefreshConnected(t)
    BY <2>21, <2>0, <1>1 DEF RefreshConnected, Goto, Return, CheckOut, useVars, ConnectingMoves, ConnectPCs, TypeOK
  <2>22. CASE RefreshFailed(t)
    BY <2>22, <2>0, <1>1 DEF RefreshFailed, Goto, Return, CheckOut, useVars, ConnectingMoves, ConnectPCs, TypeOK
  <2>23. CASE RefreshRecord(t)
    BY <2>23, <2>0, <1>1 DEF RefreshRecord, Goto, Return, CheckOut, useVars, ConnectingMoves, ConnectPCs, TypeOK
  <2>24. CASE \E a \in Addr : EvictScan(t, a)
    BY <2>24, <1>2 DEF EvictScan, useVars
  <2> QED BY <1>3, <2>1, <2>2, <2>3, <2>4, <2>5, <2>6, <2>7, <2>8, <2>9, <2>10, <2>11, <2>12, <2>13, <2>14, <2>15, <2>16, <2>17, <2>18, <2>19, <2>20, <2>21, <2>22, <2>23, <2>24 DEF Step
<1>4. ASSUME NEW t \in Tasks, NEW a \in Addr,
             \/ GetDisabled(t, a) \/ GetPop(t, a) \/ GetAbsent(t, a)
             \/ PutDisabled(t, a) \/ PutReuse(t, a)
             \/ \E kind \in {"renew", "discard"} : Release(t, a, kind)
      PROVE  PendingExact' /\ pending' \in Nat
  <2>0. (\A u \in Tasks : u # t => pc'[u] = pc[u]) => ConnectingMoves(t)
    BY ConnectingMove
  <2>1. CASE GetDisabled(t, a)
    BY <2>1, <2>0, <1>1, <1>2 DEF GetDisabled, Goto, TakeBack, useVars, ConnectingMoves, ConnectPCs, TypeOK
  <2>2. CASE GetPop(t, a)
    BY <2>2, <2>0, <1>1, <1>2 DEF GetPop, Goto, TakeBack, useVars, ConnectingMoves, ConnectPCs, TypeOK
  <2>3. CASE GetAbsent(t, a)
    BY <2>3, <2>0, <1>1, <1>2 DEF GetAbsent, Goto, TakeBack, useVars, ConnectingMoves, ConnectPCs, TypeOK
  <2>4. CASE PutDisabled(t, a)
    BY <2>4, <2>0, <1>1, <1>2 DEF PutDisabled, Goto, TakeBack, useVars, ConnectingMoves, ConnectPCs, TypeOK
  <2>5. CASE PutReuse(t, a)
    BY <2>5, <2>0, <1>1, <1>2 DEF PutReuse, Goto, TakeBack, useVars, ConnectingMoves, ConnectPCs, TypeOK
  <2>6. CASE \E kind \in {"renew", "discard"} : Release(t, a, kind)
    BY <2>6, <2>0, <1>1, <1>2 DEF Release, Goto, TakeBack, useVars, ConnectingMoves, ConnectPCs, TypeOK
  <2> QED BY <1>4, <2>1, <2>2, <2>3, <2>4, <2>5, <2>6
<1>5. ASSUME NEW a \in Addr, Cleanup(a) PROVE PendingExact' /\ pending' \in Nat
  BY <1>5, <1>2 DEF Cleanup, useVars
<1>6. CASE Tick
  BY <1>6, <1>2 DEF Tick, useVars
<1>7. CASE UNCHANGED vars
  BY <1>7, <1>2 DEF vars, useVars
<1> QED BY <1>3, <1>4, <1>5, <1>6, <1>7 DEF Next, Call

\* What a put or release does to the streams, whoever got them.
LEMMA TakeBackTypes ==
  ASSUME held \in [Addr -> Nat], strays \in [Addr -> Nat], NEW t \in Tasks, NEW a \in Addr,
         TakeBack(t, a)
  PROVE  /\ held' \in [Addr -> Nat] /\ strays' \in [Addr -> Nat] /\ raced' = raced
         /\ \/ /\ held[a] > 0 /\ held' = [held EXCEPT ![a] = @ - 1] /\ strays' = strays
            \/ held' = held /\ strays' = [strays EXCEPT ![a] = @ + 1]
BY DEF TakeBack

\* Every step keeps the types.
LEMMA TypeStep ==
  ASSUME TypeOK, pending' \in Nat, [Next]_vars
  PROVE  TypeOK'
<1> USE DEF TypeOK, idleVars, useVars, activeVars, getVars, evictVars
<1>1. 0 \in Ages /\ Wrap \in Nat /\ 0 \in Words
  BY PoolConstants DEF Ages, MaxAge, Words
<1>2. \A x \in Words, n \in Nat : Add(x, n) \in Words /\ Sub(x, n) \in Words
  BY WordOps
<1>a. /\ << >> \in Seq(Ages)
      /\ \A s \in Seq(Ages) : Append(s, 0) \in Seq(Ages)
      /\ \A s \in Seq(Ages) : s # << >> => Tail(s) \in Seq(Ages)
  BY <1>1
<1>3. ASSUME NEW t \in Tasks, Step(t) PROVE TypeOK'
  <2>1. CASE GetRemove(t)
    <3>1. pools' \in [Addr -> Seq(Ages)]
      BY <2>1, <1>a DEF GetRemove, RemoveEntry
    <3> QED BY <2>1, <3>1 DEF GetRemove, Goto, RemoveEntry, PCs
  <2>2. CASE GetCount(t)
    <3>1. total_idle' \in Words
      BY <2>2, <1>2, expired[t] + 1 \in Nat, expired[t] + 0 \in Nat DEF GetCount
    <3> QED BY <2>2, <3>1 DEF GetCount, Goto, PCs
  <2>3. CASE GetHit(t)
    <3>0. addr[t] \in Addr
      BY <2>3 DEF GetHit
    <3>1. held' \in [Addr -> Nat] /\ dest_in_use' \in [Addr -> Nat] /\ in_use' \in Nat
      BY <2>3, <3>0 DEF GetHit, CheckOut
    <3>2. active' \in [Addr -> Words]
      BY <2>3, WordUpdate DEF GetHit, CheckOut
    <3>3. actives' \subseteq Addr /\ raced' \subseteq Addr
      BY <2>3, <3>0 DEF GetHit, CheckOut
    <3> QED BY <2>3, <1>1, <3>1, <3>2, <3>3 DEF GetHit, Return, PCs, Jobs
  <2>4. CASE GetConnected(t)
    <3>0. addr[t] \in Addr
      BY <2>4 DEF GetConnected
    <3>1. held' \in [Addr -> Nat] /\ dest_in_use' \in [Addr -> Nat] /\ in_use' \in Nat
      BY <2>4, <3>0 DEF GetConnected, CheckOut
    <3>2. active' \in [Addr -> Words]
      BY <2>4, WordUpdate DEF GetConnected, CheckOut
    <3>3. actives' \subseteq Addr /\ raced' \subseteq Addr
      BY <2>4, <3>0 DEF GetConnected, CheckOut
    <3> QED BY <2>4, <1>1, <3>1, <3>2, <3>3 DEF GetConnected, Return, PCs, Jobs
  <2>5. CASE GetFailed(t)
    BY <2>5, <1>1, <1>2 DEF GetFailed, Goto, Return, CheckOut, RemoveEntry, Monus, PCs, Jobs
  <2>6. CASE DirectConnect(t)
    <3>1. held' \in [Addr -> Nat]
      <4>1. addr[t] \in Addr
        BY <2>6 DEF DirectConnect
      <4>2. [held EXCEPT ![addr[t]] = @ + 1] \in [Addr -> Nat]
        BY <4>1
      <4> QED BY <2>6, <4>2 DEF DirectConnect
    <3> QED BY <2>6, <1>1, <3>1 DEF DirectConnect, Return, PCs, Jobs
  <2>7. CASE InsertCheck(t)
    BY <2>7, <1>1, <1>2 DEF InsertCheck, Goto, Return, CheckOut, RemoveEntry, Monus, PCs, Jobs
  <2>8. CASE InsertLoad(t)
    BY <2>8, <1>1, <1>2 DEF InsertLoad, Goto, Return, CheckOut, RemoveEntry, Monus, PCs, Jobs
  <2>9. CASE EvictChosen(t)
    BY <2>9, <1>1, <1>2 DEF EvictChosen, Goto, Return, CheckOut, RemoveEntry, Monus, PCs, Jobs
  <2>10. CASE EvictRemove(t)
    <3>1. pools' \in [Addr -> Seq(Ages)]
      BY <2>10, <1>a DEF EvictRemove
    <3> QED BY <2>10, <3>1 DEF EvictRemove, Goto, PCs
  <2>11. CASE EvictPanic(t)
    BY <2>11, <1>1, <1>2 DEF EvictPanic, Goto, Return, CheckOut, RemoveEntry, Monus, PCs, Jobs
  <2>12. CASE EvictDrop(t)
    <3>1. pools' \in [Addr -> Seq(Ages)]
      BY <2>12, <1>a DEF EvictDrop, RemoveEntry
    <3> QED BY <2>12, <3>1 DEF EvictDrop, Goto, RemoveEntry, PCs
  <2>13. CASE InsertPush(t)
    <3>1. pools' \in [Addr -> Seq(Ages)]
      BY <2>13, <1>a DEF InsertPush, RemoveEntry
    <3> QED BY <2>13, <3>1 DEF InsertPush, Goto, RemoveEntry, PCs
  <2>14. CASE InsertCount(t)
    BY <2>14, <1>1, <1>2 DEF InsertCount, Goto, Return, CheckOut, RemoveEntry, Monus, PCs, Jobs
  <2>15. CASE PutRecord(t)
    <3>1. dest_in_use' \in [Addr -> Nat]
      BY <2>15, CounterUpdate DEF PutRecord
    <3>2. total_idle' \in Words
      BY <2>15, <1>2 DEF PutRecord
    <3> QED BY <2>15, <3>1, <3>2 DEF PutRecord, Goto, PCs
  <2>16. CASE DecrementActive(t)
    BY <2>16, <1>1, <1>2 DEF DecrementActive, Goto, Return, CheckOut, RemoveEntry, Monus, PCs, Jobs
  <2>17. CASE RemoveActive(t)
    BY <2>17, <1>1, <1>2 DEF RemoveActive, Goto, Return, CheckOut, RemoveEntry, Monus, PCs, Jobs
  <2>18. CASE PutDone(t)
    BY <2>18, <1>1, <1>2 DEF PutDone, Goto, Return, CheckOut, RemoveEntry, Monus, PCs, Jobs
  <2>19. CASE SpawnRefresh(t)
    BY <2>19, <1>1, <1>2 DEF SpawnRefresh, Goto, Return, CheckOut, RemoveEntry, Monus, PCs, Jobs
  <2>20. CASE RefreshStart(t)
    BY <2>20, <1>1, <1>2 DEF RefreshStart, Goto, Return, CheckOut, RemoveEntry, Monus, PCs, Jobs
  <2>21. CASE RefreshConnected(t)
    BY <2>21, <1>1, <1>2 DEF RefreshConnected, Goto, Return, CheckOut, RemoveEntry, Monus, PCs, Jobs
  <2>22. CASE RefreshFailed(t)
    BY <2>22, <1>1, <1>2 DEF RefreshFailed, Goto, Return, CheckOut, RemoveEntry, Monus, PCs, Jobs
  <2>23. CASE RefreshRecord(t)
    BY <2>23, <1>1, <1>2 DEF RefreshRecord, Goto, Return, CheckOut, RemoveEntry, Monus, PCs, Jobs
  <2>24. CASE \E a \in Addr : EvictScan(t, a)
    BY <2>24, <1>1 DEF EvictScan
  <2> QED BY <1>3, <2>1, <2>2, <2>3, <2>4, <2>5, <2>6, <2>7, <2>8, <2>9, <2>10, <2>11, <2>12, <2>13, <2>14, <2>15, <2>16, <2>17, <2>18, <2>19, <2>20, <2>21, <2>22, <2>23, <2>24 DEF Step
<1>4. ASSUME NEW t \in Tasks, NEW a \in Addr,
             \/ GetDisabled(t, a) \/ GetPop(t, a) \/ GetAbsent(t, a)
             \/ PutDisabled(t, a) \/ PutReuse(t, a)
             \/ \E kind \in {"renew", "discard"} : Release(t, a, kind)
      PROVE  TypeOK'
  <2>1. CASE GetDisabled(t, a)
    BY <2>1 DEF GetDisabled, Goto, TakeBack, Monus, PCs, Jobs
  <2>2. CASE GetPop(t, a)
    <3>1. PICK k \in 0 .. Len(pools[a]) :
            /\ Goto(t, "idle", IF k <= 1 THEN "get_remove" ELSE "get_count")
            /\ pools' = [pools EXCEPT ![a] = SubSeq(@, 1, IF k = 0 THEN 0 ELSE k - 1)]
            /\ popped' = [popped EXCEPT ![t] = k > 0]
            /\ expired' = [expired EXCEPT ![t] = Len(pools[a]) - k]
      BY <2>2 DEF GetPop
    <3>2. SubSeq(pools[a], 1, IF k = 0 THEN 0 ELSE k - 1) \in Seq(Ages)
      <4>1. \A i \in 1 .. (IF k = 0 THEN 0 ELSE k - 1) : pools[a][i] \in Ages
        OBVIOUS
      <4> QED BY <4>1, SubSeqProperties
    <3>3. pools' \in [Addr -> Seq(Ages)]
      BY <3>1, <3>2
    <3>4. popped' \in [Tasks -> BOOLEAN]
      <4>1. (k > 0) \in BOOLEAN
        OBVIOUS
      <4> QED BY <3>1, <4>1, Zenon
    <3>5. expired' \in [Tasks -> Nat]
      BY <3>1
    <3>6. pc' \in [Tasks -> PCs]
      BY <3>1 DEF Goto, PCs
    <3>7. addr' \in [Tasks -> Addr \union {None}] /\ job' \in [Tasks -> Jobs]
      BY <2>2 DEF GetPop, Jobs
    <3>8. \A u \in Tasks : pc'[u] # "idle" => addr'[u] \in Addr
      BY <2>2, <3>1 DEF GetPop, Goto
    <3> QED BY <2>2, <3>3, <3>4, <3>5, <3>6, <3>7, <3>8 DEF GetPop
  <2>3. CASE GetAbsent(t, a)
    BY <2>3 DEF GetAbsent, Goto, TakeBack, Monus, PCs, Jobs
  <2>4. CASE PutDisabled(t, a)
    BY <2>4, TakeBackTypes DEF PutDisabled
  <2>5. CASE PutReuse(t, a)
    <3>1. held' \in [Addr -> Nat] /\ strays' \in [Addr -> Nat] /\ raced' = raced
      BY <2>5, TakeBackTypes DEF PutReuse, TypeOK
    <3> QED BY <2>5, <3>1 DEF PutReuse, Goto, Monus, PCs, Jobs
  <2>6. CASE \E kind \in {"renew", "discard"} : Release(t, a, kind)
    <3>1. PICK kind \in {"renew", "discard"} : Release(t, a, kind)
      BY <2>6
    <3>2. /\ in_use' \in Nat /\ dest_in_use' \in [Addr -> Nat]
          /\ held' \in [Addr -> Nat] /\ strays' \in [Addr -> Nat] /\ raced' = raced
      BY <3>1, TakeBackTypes DEF Release, Monus, TypeOK
    <3>3. /\ pc' \in [Tasks -> PCs]
          /\ addr' \in [Tasks -> Addr \union {None}]
          /\ job' \in [Tasks -> Jobs]
      BY <3>1 DEF Release, Goto, PCs, Jobs
    <3>4. \A u \in Tasks : pc'[u] # "idle" => addr'[u] \in Addr
      BY <3>1 DEF Release, Goto
    <3> QED BY <3>1, <3>2, <3>3, <3>4 DEF Release
  <2> QED BY <1>4, <2>1, <2>2, <2>3, <2>4, <2>5, <2>6
<1>5. ASSUME NEW a \in Addr, Cleanup(a) PROVE TypeOK'
  <2>0. PICK m \in 0 .. Len(pools[a]) : \E f \in [1 .. m -> DOMAIN pools[a]] :
          /\ pools' = [pools EXCEPT ![a] = [i \in 1 .. m |-> @[f[i]]]]
          /\ entries' = IF m = 0 THEN entries \ {a} ELSE entries
          /\ total_idle' = Sub(total_idle, Len(pools[a]) - m)
    BY <1>5 DEF Cleanup
  <2>1. PICK f \in [1 .. m -> DOMAIN pools[a]] :
          /\ pools' = [pools EXCEPT ![a] = [i \in 1 .. m |-> @[f[i]]]]
          /\ entries' = IF m = 0 THEN entries \ {a} ELSE entries
          /\ total_idle' = Sub(total_idle, Len(pools[a]) - m)
    BY <2>0
  <2>2. [i \in 1 .. m |-> pools[a][f[i]]] \in Seq(Ages)
    BY <2>1, FunctionIsSeq
  <2>3. Len(pools[a]) - m \in Nat
    BY <2>1
  <2> QED BY <1>5, <1>2, <2>1, <2>2, <2>3 DEF Cleanup
<1>6. CASE Tick
  <2>1. \A age \in Ages : Older(age) \in Ages
    BY PoolConstants DEF Ages, MaxAge, Older
  <2>2. ASSUME NEW a \in Addr
        PROVE  [i \in DOMAIN pools[a] |-> Older(pools[a][i])] \in Seq(Ages)
    <3>1. Len(pools[a]) \in Nat /\ DOMAIN pools[a] = 1 .. Len(pools[a])
      OBVIOUS
    <3>2. [i \in 1 .. Len(pools[a]) |-> Older(pools[a][i])] \in [1 .. Len(pools[a]) -> Ages]
      BY <2>1
    <3> QED BY <3>1, <3>2, FunctionIsSeq
  <2> QED BY <1>6, <2>1, <2>2 DEF Tick
<1>7. CASE UNCHANGED vars
  BY <1>7 DEF vars
<1> QED BY <1>3, <1>4, <1>5, <1>6, <1>7 DEF Next, Call

\* The pool's state keeps its types in every interleaving; pending_creates is
\* the number of tasks inside connect_new, so it never wraps below zero.
THEOREM PoolTypeCorrect == Spec => [](TypeOK /\ PendingExact)
<1>1. Init => TypeOK /\ PendingExact
  <2>1. ASSUME Init PROVE TypeOK
    BY <2>1, PoolConstants DEF Init, TypeOK, Ages, MaxAge, Words, PCs, Jobs
  <2>2. ASSUME Init PROVE PendingExact
    <3>1. Connecting = {}
      BY <2>2 DEF Init, Connecting
    <3> QED BY <2>2, <3>1, FS_EmptySet DEF Init, PendingExact
  <2> QED BY <2>1, <2>2
<1>2. TypeOK /\ PendingExact /\ [Next]_vars => (TypeOK /\ PendingExact)'
  BY PendingStep, TypeStep
<1> QED BY <1>1, <1>2, PTL DEF Spec

-----------------------------------------------------------------------------
(* The per-destination limit under concurrency                             *)

\* An address without an entry has no idle connection.
AbsentEmpty == \A a \in Addr : a \notin entries => pools[a] = << >>

\* The tasks that have passed the limit check for an address and not yet pushed
\* are counted as if their connection were in the vector already.
OvershootInv ==
  \A a \in Addr : Len(pools[a]) + Cardinality(Inserters(a)) <= PerDestBound

\* What a step of task t does to the inserters of an address.
InsertersMoves(t, a) ==
  /\ Cardinality(Inserters(a)) \in Nat
  /\ Cardinality(Inserters(a)') \in Nat
  /\ Cardinality(Inserters(a)') <= Cardinality(Tasks)
  /\ t \in Inserters(a) \/ t \notin Inserters(a)'
       => Cardinality(Inserters(a)') <= Cardinality(Inserters(a))
  /\ t \in Inserters(a) /\ t \notin Inserters(a)'
       => Cardinality(Inserters(a)') = Cardinality(Inserters(a)) - 1

\* A step that moves only task t changes the inserters of a destination in t at
\* most.
LEMMA InsertersMove ==
  ASSUME NEW t \in Tasks, NEW a \in Addr,
         \A u \in Tasks : u # t => pc'[u] = pc[u] /\ addr'[u] = addr[u]
  PROVE  InsertersMoves(t, a)
<1> DEFINE I == Inserters(a)
           J == Inserters(a)'
<1>1. I \subseteq Tasks /\ J \subseteq Tasks
  BY DEF Inserters
<1>2. IsFiniteSet(I) /\ IsFiniteSet(J) /\ Cardinality(J) <= Cardinality(Tasks)
  BY <1>1, FS_Subset, PoolConstants
<1>3. Cardinality(I) \in Nat /\ Cardinality(J) \in Nat
  BY <1>2, FS_CardinalityType
<1>4. J \ {t} = I \ {t}
  BY DEF Inserters
<1>5. ASSUME t \in I \/ t \notin J PROVE Cardinality(J) <= Cardinality(I)
  <2>1. J \subseteq I
    BY <1>4, <1>5
  <2> QED BY <2>1, <1>2, FS_Subset
<1>6. ASSUME t \in I, t \notin J PROVE Cardinality(J) = Cardinality(I) - 1
  <2>1. J = I \ {t}
    BY <1>4, <1>6
  <2> QED BY <2>1, <1>2, <1>6, FS_RemoveElement
<1> QED BY <1>2, <1>3, <1>5, <1>6 DEF InsertersMoves

\* Every step keeps the vectors of absent entries empty.
LEMMA AbsentEmptyStep ==
  ASSUME TypeOK, AbsentEmpty, [Next]_vars
  PROVE  AbsentEmpty'
<1> USE DEF AbsentEmpty, TypeOK
<1>1. ASSUME entries' = entries, pools' = pools PROVE AbsentEmpty'
  BY <1>1
<1>2. ASSUME NEW t \in Tasks, Step(t) PROVE AbsentEmpty'
  <2>1. CASE GetRemove(t)
    BY <2>1 DEF GetRemove, RemoveEntry
  <2>2. CASE EvictRemove(t)
    BY <2>2 DEF EvictRemove
  <2>3. CASE EvictDrop(t)
    BY <2>3 DEF EvictDrop, RemoveEntry
  <2>4. CASE InsertPush(t)
    BY <2>4 DEF InsertPush
  <2>5. CASE UNCHANGED <<entries, pools>>
    BY <2>5
  <2> QED BY <1>2, <2>1, <2>2, <2>3, <2>4, <2>5
       DEF Step, idleVars, GetCount, GetHit, GetConnected, GetFailed, DirectConnect,
           InsertCheck, InsertLoad, EvictChosen, EvictPanic, InsertCount, PutRecord,
           DecrementActive, RemoveActive, PutDone, SpawnRefresh, RefreshStart,
           RefreshConnected, RefreshFailed, RefreshRecord, EvictScan
<1>3. ASSUME NEW t \in Tasks, Call(t) PROVE AbsentEmpty'
  <2>1. ASSUME NEW a \in Addr, GetPop(t, a) PROVE AbsentEmpty'
    BY <2>1 DEF GetPop
  <2> QED BY <1>3, <2>1, <1>1
       DEF Call, idleVars, GetDisabled, GetAbsent, PutDisabled, PutReuse, Release
<1>4. ASSUME NEW a \in Addr, Cleanup(a) PROVE AbsentEmpty'
  <2>1. PICK m \in 0 .. Len(pools[a]) : \E f \in [1 .. m -> DOMAIN pools[a]] :
          /\ pools' = [pools EXCEPT ![a] = [i \in 1 .. m |-> @[f[i]]]]
          /\ entries' = IF m = 0 THEN entries \ {a} ELSE entries
    BY <1>4 DEF Cleanup
  <2>2. \A b \in Addr : b # a => pools'[b] = pools[b]
    BY <2>1
  <2>3. m = 0 => pools'[a] = << >>
    BY <2>1
  <2>4. a \in entries
    BY <1>4 DEF Cleanup
  <2> QED BY <2>1, <2>2, <2>3, <2>4
<1>5. CASE Tick
  BY <1>5 DEF Tick
<1>6. CASE UNCHANGED vars
  BY <1>6, <1>1 DEF vars, idleVars
<1> QED BY <1>2, <1>3, <1>4, <1>5, <1>6 DEF Next

\* Every step keeps room for the inserters under way.
LEMMA OvershootStep ==
  ASSUME TypeOK, AbsentEmpty, OvershootInv, [Next]_vars
  PROVE  OvershootInv'
<1> USE DEF TypeOK, idleVars
<1>1. Cardinality(Tasks) \in Nat /\ RoomBelowLimit \in Nat /\ PerDestBound \in Nat
  BY PoolConstants, FS_CardinalityType DEF RoomBelowLimit, PerDestBound
<1> SUFFICES ASSUME NEW a \in Addr
             PROVE  Len(pools'[a]) + Cardinality(Inserters(a)') <= PerDestBound
  BY DEF OvershootInv
<1>2. Len(pools[a]) \in Nat /\ Cardinality(Inserters(a)) \in Nat
  <2>1. IsFiniteSet(Inserters(a))
    BY FS_Subset, PoolConstants DEF Inserters
  <2> QED BY <2>1, FS_CardinalityType
<1>3. Len(pools[a]) + Cardinality(Inserters(a)) <= PerDestBound
  BY DEF OvershootInv
<1>4. ASSUME pc' = pc, addr' = addr, Len(pools'[a]) \in Nat, Len(pools'[a]) <= Len(pools[a])
      PROVE  Len(pools'[a]) + Cardinality(Inserters(a)') <= PerDestBound
  <2>1. Inserters(a)' = Inserters(a)
    BY <1>4 DEF Inserters
  <2> QED BY <2>1, <1>1, <1>2, <1>3, <1>4
<1>5. ASSUME NEW t \in Tasks, Step(t)
      PROVE  Len(pools'[a]) + Cardinality(Inserters(a)') <= PerDestBound
  <2>0. (\A u \in Tasks : u # t => pc'[u] = pc[u] /\ addr'[u] = addr[u])
          => InsertersMoves(t, a)
    BY InsertersMove
  \* A step that does not lengthen the vector and does not make t an inserter.
  <2>a. ASSUME \A u \in Tasks : u # t => pc'[u] = pc[u] /\ addr'[u] = addr[u],
               Len(pools'[a]) \in Nat, Len(pools'[a]) <= Len(pools[a]),
               t \in Inserters(a) \/ t \notin Inserters(a)'
        PROVE  Len(pools'[a]) + Cardinality(Inserters(a)') <= PerDestBound
    BY <2>0, <2>a, <1>1, <1>2, <1>3 DEF InsertersMoves
  <2>1. CASE GetCount(t)
    BY <2>1, <2>a, <1>2 DEF GetCount, Goto, Return, Inserters, InserterPCs
  <2>2. CASE GetHit(t)
    BY <2>2, <2>a, <1>2 DEF GetHit, Goto, Return, Inserters, InserterPCs
  <2>3. CASE GetConnected(t)
    BY <2>3, <2>a, <1>2 DEF GetConnected, Goto, Return, Inserters, InserterPCs
  <2>4. CASE GetFailed(t)
    BY <2>4, <2>a, <1>2 DEF GetFailed, Goto, Return, Inserters, InserterPCs
  <2>5. CASE DirectConnect(t)
    BY <2>5, <2>a, <1>2 DEF DirectConnect, Goto, Return, Inserters, InserterPCs
  <2>6. CASE InsertLoad(t)
    BY <2>6, <2>a, <1>2 DEF InsertLoad, Goto, Return, Inserters, InserterPCs
  <2>7. CASE EvictChosen(t)
    BY <2>7, <2>a, <1>2 DEF EvictChosen, Goto, Return, Inserters, InserterPCs
  <2>8. CASE EvictPanic(t)
    BY <2>8, <2>a, <1>2 DEF EvictPanic, Goto, Return, Inserters, InserterPCs
  <2>9. CASE InsertCount(t)
    BY <2>9, <2>a, <1>2 DEF InsertCount, Goto, Return, Inserters, InserterPCs
  <2>10. CASE PutRecord(t)
    BY <2>10, <2>a, <1>2 DEF PutRecord, Goto, Return, Inserters, InserterPCs
  <2>11. CASE DecrementActive(t)
    BY <2>11, <2>a, <1>2 DEF DecrementActive, Goto, Return, Inserters, InserterPCs
  <2>12. CASE RemoveActive(t)
    BY <2>12, <2>a, <1>2 DEF RemoveActive, Goto, Return, Inserters, InserterPCs
  <2>13. CASE PutDone(t)
    BY <2>13, <2>a, <1>2 DEF PutDone, Goto, Return, Inserters, InserterPCs
  <2>14. CASE SpawnRefresh(t)
    BY <2>14, <2>a, <1>2 DEF SpawnRefresh, Goto, Return, Inserters, InserterPCs
  <2>15. CASE RefreshStart(t)
    BY <2>15, <2>a, <1>2 DEF RefreshStart, Goto, Return, Inserters, InserterPCs
  <2>16. CASE RefreshConnected(t)
    BY <2>16, <2>a, <1>2 DEF RefreshConnected, Goto, Return, Inserters, InserterPCs
  <2>17. CASE RefreshFailed(t)
    BY <2>17, <2>a, <1>2 DEF RefreshFailed, Goto, Return, Inserters, InserterPCs
  <2>18. CASE RefreshRecord(t)
    BY <2>18, <2>a, <1>2 DEF RefreshRecord, Goto, Return, Inserters, InserterPCs
  <2>19. CASE \E b \in Addr : EvictScan(t, b)
    BY <2>19, <1>4, <1>2 DEF EvictScan
  <2>20. CASE GetRemove(t)
    <3>1. Len(pools'[a]) \in Nat /\ Len(pools'[a]) <= Len(pools[a])
      BY <2>20, <1>2 DEF GetRemove, RemoveEntry
    <3> QED BY <2>20, <3>1, <2>a DEF GetRemove, Goto, Inserters, InserterPCs
  <2>21. CASE EvictDrop(t)
    <3>1. Len(pools'[a]) \in Nat /\ Len(pools'[a]) <= Len(pools[a])
      BY <2>21, <1>2 DEF EvictDrop, RemoveEntry
    <3> QED BY <2>21, <3>1, <2>a DEF EvictDrop, Goto, Inserters, InserterPCs
  <2>22. CASE EvictRemove(t)
    <3>1. best[t] \in entries => pools[best[t]] # << >>
      BY <2>22 DEF EvictRemove
    <3>2. Len(pools'[a]) \in Nat /\ Len(pools'[a]) <= Len(pools[a])
      <4>1. CASE a = best[t] /\ a \in entries
        <5>1. pools'[a] = Tail(pools[a]) /\ pools[a] # << >>
          BY <2>22, <3>1, <4>1 DEF EvictRemove
        <5> QED BY <5>1, <1>2
      <4>2. CASE ~(a = best[t] /\ a \in entries)
        BY <2>22, <4>2, <1>2 DEF EvictRemove
      <4> QED BY <4>1, <4>2
    <3> QED BY <2>22, <3>2, <2>a DEF EvictRemove, Goto, Inserters, InserterPCs
  \* The only step that makes t an inserter: the vector was below the limit.
  <2>23. CASE InsertCheck(t)
    <3>1. pools' = pools
      BY <2>23 DEF InsertCheck
    <3>2. CASE addr[t] = a /\ pc'[t] = "ins_load"
      <4>1. ~(a \in entries /\ Len(pools[a]) >= MaxIdlePerDest)
        BY <2>23, <3>2 DEF InsertCheck, Goto
      <4>2. Len(pools[a]) <= RoomBelowLimit
        BY <4>1, <1>2, PoolConstants DEF AbsentEmpty, RoomBelowLimit
      <4>3. Cardinality(Inserters(a)') \in Nat /\ Cardinality(Inserters(a)') <= Cardinality(Tasks)
        BY <2>23, <2>0 DEF InsertCheck, Goto, InsertersMoves
      <4> QED BY <3>1, <4>2, <4>3, <1>1, <1>2 DEF PerDestBound
    <3>3. CASE ~(addr[t] = a /\ pc'[t] = "ins_load")
      BY <2>23, <3>1, <3>3, <2>a, <1>2 DEF InsertCheck, Goto, Inserters, InserterPCs
    <3> QED BY <3>2, <3>3
  \* The push: t stops being an inserter as the vector grows by one.
  <2>24. CASE InsertPush(t)
    <3>1. CASE addr[t] = a
      <4>1. Len(pools'[a]) = Len(pools[a]) + 1
        BY <2>24, <3>1 DEF InsertPush
      <4>2. Cardinality(Inserters(a)') = Cardinality(Inserters(a)) - 1
        BY <2>24, <3>1, <2>0 DEF InsertPush, Goto, Inserters, InserterPCs, InsertersMoves
      <4> QED BY <4>1, <4>2, <1>1, <1>2, <1>3
    <3>2. CASE addr[t] # a
      <4>1. pools'[a] = pools[a]
        BY <2>24, <3>2 DEF InsertPush
      <4> QED BY <2>24, <3>2, <4>1, <2>a, <1>2 DEF InsertPush, Goto, Inserters, InserterPCs
    <3> QED BY <3>1, <3>2
  <2> QED BY <1>5, <2>1, <2>2, <2>3, <2>4, <2>5, <2>6, <2>7, <2>8, <2>9, <2>10, <2>11, <2>12, <2>13, <2>14, <2>15, <2>16, <2>17, <2>18, <2>19, <2>20, <2>21, <2>22, <2>23, <2>24 DEF Step
<1>6. ASSUME NEW t \in Tasks, NEW b \in Addr,
             \/ GetDisabled(t, b) \/ GetPop(t, b) \/ GetAbsent(t, b)
             \/ PutDisabled(t, b) \/ PutReuse(t, b)
             \/ \E kind \in {"renew", "discard"} : Release(t, b, kind)
      PROVE  Len(pools'[a]) + Cardinality(Inserters(a)') <= PerDestBound
  <2>0. (\A u \in Tasks : u # t => pc'[u] = pc[u] /\ addr'[u] = addr[u])
          => InsertersMoves(t, a)
    BY InsertersMove
  <2>a. ASSUME \A u \in Tasks : u # t => pc'[u] = pc[u] /\ addr'[u] = addr[u],
               Len(pools'[a]) \in Nat, Len(pools'[a]) <= Len(pools[a]),
               t \notin Inserters(a)'
        PROVE  Len(pools'[a]) + Cardinality(Inserters(a)') <= PerDestBound
    BY <2>0, <2>a, <1>1, <1>2, <1>3 DEF InsertersMoves
  <2>1. CASE GetPop(t, b)
    <3>1. PICK k \in 0 .. Len(pools[b]) :
            /\ pc' = [pc EXCEPT ![t] = IF k <= 1 THEN "get_remove" ELSE "get_count"]
            /\ pools' = [pools EXCEPT ![b] = SubSeq(@, 1, IF k = 0 THEN 0 ELSE k - 1)]
      BY <2>1 DEF GetPop, Goto
    <3>2. Len(SubSeq(pools[b], 1, IF k = 0 THEN 0 ELSE k - 1)) = IF k = 0 THEN 0 ELSE k - 1
      <4>1. \A i \in 1 .. (IF k = 0 THEN 0 ELSE k - 1) : pools[b][i] \in Ages
        OBVIOUS
      <4> QED BY <4>1, SubSeqProperties
    <3>3. Len(pools'[a]) \in Nat /\ Len(pools'[a]) <= Len(pools[a])
      BY <3>1, <3>2, <1>2
    <3>4. \A u \in Tasks : u # t => pc'[u] = pc[u] /\ addr'[u] = addr[u]
      BY <2>1, <3>1 DEF GetPop
    <3>5. t \notin Inserters(a)'
      BY <3>1 DEF Inserters, InserterPCs
    <3> QED BY <3>3, <3>4, <3>5, <2>a
  <2>2. CASE PutDisabled(t, b)
    BY <2>2, <1>4, <1>2 DEF PutDisabled
  <2>3. CASE GetDisabled(t, b) \/ GetAbsent(t, b) \/ PutReuse(t, b)
    BY <2>3, <2>a, <1>2 DEF GetDisabled, GetAbsent, PutReuse, Goto, Inserters, InserterPCs
  <2>4. CASE \E kind \in {"renew", "discard"} : Release(t, b, kind)
    BY <2>4, <2>a, <1>2 DEF Release, Goto, Inserters, InserterPCs
  <2> QED BY <1>6, <2>1, <2>2, <2>3, <2>4
<1>7. ASSUME NEW b \in Addr, Cleanup(b)
      PROVE  Len(pools'[a]) + Cardinality(Inserters(a)') <= PerDestBound
  <2>1. PICK m \in 0 .. Len(pools[b]) : \E f \in [1 .. m -> DOMAIN pools[b]] :
          pools' = [pools EXCEPT ![b] = [i \in 1 .. m |-> @[f[i]]]]
    BY <1>7 DEF Cleanup
  <2>2. Len(pools'[a]) \in Nat /\ Len(pools'[a]) <= Len(pools[a])
    BY <2>1, <1>2
  <2> QED BY <1>7, <2>2, <1>4 DEF Cleanup
<1>8. CASE Tick
  <2>1. Len(pools'[a]) = Len(pools[a])
    BY <1>8, <1>2 DEF Tick
  <2> QED BY <1>8, <2>1, <1>2, <1>4 DEF Tick
<1>9. CASE UNCHANGED vars
  BY <1>9, <1>2, <1>4 DEF vars
<1> QED BY <1>5, <1>6, <1>7, <1>8, <1>9 DEF Next, Call

\* However many puts and refreshes run at once, the vector of a destination
\* never exceeds max_idle_per_dest by more than one connection per further
\* task inside the pool.
THEOREM PoolOvershootBounded == Spec => []OvershootBounded
<1>1. Init => AbsentEmpty /\ OvershootInv
  <2> SUFFICES ASSUME Init PROVE AbsentEmpty /\ OvershootInv
    OBVIOUS
  <2>1. \A a \in Addr : Inserters(a) = {} /\ pools[a] = << >>
    BY DEF Init, Inserters, InserterPCs
  <2>2. PerDestBound \in Nat
    BY PoolConstants, FS_CardinalityType DEF RoomBelowLimit, PerDestBound
  <2>3. Cardinality({}) = 0 /\ Len(<< >>) = 0
    BY FS_EmptySet
  <2>4. ASSUME NEW a \in Addr
        PROVE  Len(pools[a]) + Cardinality(Inserters(a)) <= PerDestBound
    <3>1. Len(pools[a]) = 0 /\ Cardinality(Inserters(a)) = 0
      BY <2>1, <2>3
    <3> QED BY <3>1, <2>2
  <2> QED BY <2>1, <2>4 DEF AbsentEmpty, OvershootInv
<1>2. TypeOK /\ AbsentEmpty /\ OvershootInv /\ [Next]_vars => (AbsentEmpty /\ OvershootInv)'
  BY AbsentEmptyStep, OvershootStep
<1>3. TypeOK /\ OvershootInv => OvershootBounded
  <2> SUFFICES ASSUME TypeOK, OvershootInv, NEW a \in Addr
               PROVE  Len(pools[a]) <= PerDestBound
    BY DEF OvershootBounded
  <2>1. Cardinality(Inserters(a)) \in Nat
    BY FS_Subset, FS_CardinalityType, PoolConstants DEF Inserters
  <2>2. Len(pools[a]) \in Nat /\ PerDestBound \in Nat
    BY PoolConstants, FS_CardinalityType DEF TypeOK, RoomBelowLimit, PerDestBound
  <2> QED BY <2>1, <2>2 DEF OvershootInv
<1> QED BY <1>1, <1>2, <1>3, PoolTypeCorrect, PTL DEF Spec

-----------------------------------------------------------------------------
(* The order of the idle vectors                                           *)

\* Every step keeps the vectors ordered.
LEMMA OldestFirstStep ==
  ASSUME TypeOK, OldestFirst, [Next]_vars
  PROVE  OldestFirst'
<1> USE DEF TypeOK, idleVars
<1> DEFINE Ordered(s) == \A i, j \in DOMAIN s : i < j => s[i] >= s[j]
<1>1. \A a \in Addr : pools[a] \in Seq(Ages) /\ Ordered(pools[a])
  BY DEF OldestFirst
<1>2. \A age \in Ages : age \in Nat /\ Older(age) \in Nat
  BY PoolConstants DEF Ages, MaxAge, Older
<1> SUFFICES ASSUME NEW a \in Addr PROVE Ordered(pools'[a])
  BY DEF OldestFirst
<1>3. ASSUME pools'[a] = pools[a] PROVE Ordered(pools'[a])
  BY <1>1, <1>3
<1>4. ASSUME pools'[a] = << >> PROVE Ordered(pools'[a])
  BY <1>4
<1>5. ASSUME NEW t \in Tasks, Step(t) PROVE Ordered(pools'[a])
  <2>1. CASE GetRemove(t)
    BY <2>1, <1>3, <1>4 DEF GetRemove, RemoveEntry
  <2>2. CASE EvictDrop(t)
    BY <2>2, <1>3, <1>4 DEF EvictDrop, RemoveEntry
  <2>3. CASE EvictRemove(t)
    <3>1. CASE a = best[t] /\ a \in entries
      <4>1. pools'[a] = Tail(pools[a]) /\ pools[a] # << >>
        BY <2>3, <3>1 DEF EvictRemove
      <4>2. /\ DOMAIN Tail(pools[a]) = 1 .. (Len(pools[a]) - 1)
            /\ \A i \in 1 .. (Len(pools[a]) - 1) : Tail(pools[a])[i] = pools[a][i + 1]
        BY <4>1, <1>1
      <4> QED BY <4>1, <4>2, <1>1
    <3>2. CASE ~(a = best[t] /\ a \in entries)
      BY <2>3, <3>2, <1>3 DEF EvictRemove
    <3> QED BY <3>1, <3>2
  <2>4. CASE InsertPush(t)
    <3>1. CASE addr[t] = a
      <4>1. pools'[a] = Append(pools[a], 0)
        BY <2>4, <3>1 DEF InsertPush
      <4>2. /\ DOMAIN Append(pools[a], 0) = 1 .. (Len(pools[a]) + 1)
            /\ \A i \in 1 .. Len(pools[a]) : Append(pools[a], 0)[i] = pools[a][i]
            /\ Append(pools[a], 0)[Len(pools[a]) + 1] = 0
        BY <1>1
      <4>3. \A i \in 1 .. Len(pools[a]) : pools[a][i] >= 0
        BY <1>1, <1>2
      <4> QED BY <4>1, <4>2, <4>3, <1>1
    <3>2. CASE addr[t] # a
      BY <2>4, <3>2, <1>3 DEF InsertPush
    <3> QED BY <3>1, <3>2
  <2> QED BY <1>5, <1>3, <2>1, <2>2, <2>3, <2>4
       DEF Step, GetCount, GetHit, GetConnected, GetFailed, DirectConnect,
           InsertCheck, InsertLoad, EvictChosen, EvictPanic, InsertCount, PutRecord,
           DecrementActive, RemoveActive, PutDone, SpawnRefresh, RefreshStart,
           RefreshConnected, RefreshFailed, RefreshRecord, EvictScan
<1>6. ASSUME NEW t \in Tasks, Call(t) PROVE Ordered(pools'[a])
  <2>1. ASSUME NEW b \in Addr, GetPop(t, b) PROVE Ordered(pools'[a])
    <3>1. PICK k \in 0 .. Len(pools[b]) :
            pools' = [pools EXCEPT ![b] = SubSeq(@, 1, IF k = 0 THEN 0 ELSE k - 1)]
      BY <2>1 DEF GetPop
    <3>2. CASE b = a
      <4>1. pools'[a] = SubSeq(pools[a], 1, IF k = 0 THEN 0 ELSE k - 1)
        BY <3>1, <3>2
      <4>2. /\ DOMAIN pools'[a] = 1 .. (IF k = 0 THEN 0 ELSE k - 1)
            /\ \A i \in DOMAIN pools'[a] : pools'[a][i] = pools[a][i] /\ i \in DOMAIN pools[a]
        BY <4>1, <1>1, <3>2
      <4> QED BY <4>2, <1>1
    <3>3. CASE b # a
      BY <3>1, <3>3, <1>3
    <3> QED BY <3>2, <3>3
  <2> QED BY <1>6, <1>3, <2>1
       DEF Call, GetDisabled, GetAbsent, PutDisabled, PutReuse, Release
<1>7. ASSUME NEW b \in Addr, Cleanup(b) PROVE Ordered(pools'[a])
  <2>1. PICK m \in 0 .. Len(pools[b]) : \E f \in [1 .. m -> DOMAIN pools[b]] :
          /\ Retains(f, m, Fresh(b))
          /\ pools' = [pools EXCEPT ![b] = [i \in 1 .. m |-> @[f[i]]]]
    BY <1>7 DEF Cleanup
  <2>2. PICK f \in [1 .. m -> DOMAIN pools[b]] :
          /\ \A i, j \in 1 .. m : i < j => f[i] < f[j]
          /\ pools' = [pools EXCEPT ![b] = [i \in 1 .. m |-> @[f[i]]]]
    BY <2>1 DEF Retains
  <2>3. CASE a = b
    <3>1. pools'[a] = [i \in 1 .. m |-> pools[a][f[i]]]
      BY <2>2, <2>3
    <3> QED BY <3>1, <2>2, <2>3, <1>1
  <2>4. CASE a # b
    BY <2>2, <2>4, <1>3
  <2> QED BY <2>3, <2>4
<1>8. CASE Tick
  <2>1. pools'[a] = [i \in DOMAIN pools[a] |-> Older(pools[a][i])]
    BY <1>8 DEF Tick
  <2>2. \A x, y \in Ages : x >= y => Older(x) >= Older(y)
    BY PoolConstants DEF Ages, MaxAge, Older
  <2>3. \A i \in DOMAIN pools[a] : pools[a][i] \in Ages
    BY <1>1
  <2> QED BY <2>1, <2>2, <2>3, <1>1
<1>9. CASE UNCHANGED vars
  BY <1>9, <1>3 DEF vars
<1> QED BY <1>5, <1>6, <1>7, <1>8, <1>9 DEF Next

\* Every idle vector stays ordered oldest first, which is what makes reading
\* only its first element in evict_oldest, and popping its last in
\* try_get_from_pool, right.
THEOREM PoolOldestFirst == Spec => []OldestFirst
<1>1. Init => OldestFirst
  BY DEF Init, OldestFirst
<1>2. TypeOK /\ OldestFirst /\ [Next]_vars => OldestFirst'
  BY OldestFirstStep
<1> QED BY <1>1, <1>2, PoolTypeCorrect, PTL DEF Spec

-----------------------------------------------------------------------------
(* Sums and cardinalities                                                  *)

\* A non-empty set of naturals has a least element.
LEMMA LeastNatural ==
  ASSUME NEW T, T \subseteq Nat, T # {} PROVE \E x \in T : \A y \in T : x <= y
<1>1. IsWellFoundedOn(OpToRel(<, Nat), Nat)
  BY NatLessThanWellFounded
<1>2. PICK x \in T : \A y \in T : ~(<<y, x>> \in OpToRel(<, Nat))
  BY <1>1, WFMin
<1>3. \A y \in T : ~(y < x)
  BY <1>2 DEF OpToRel
<1> QED
  BY <1>3

Pick(s) == CHOOSE x \in s : TRUE

\* Adding or removing the picked element: the cardinalities.
LEMMA PickOne ==
  ASSUME NEW S, IsFiniteSet(S), NEW s \in SUBSET S
  PROVE  /\ IsFiniteSet(s) /\ Cardinality(s) \in Nat /\ Cardinality(s) <= Cardinality(S)
         /\ s = {} <=> Cardinality(s) = 0
         /\ s # {} => /\ Pick(s) \in s /\ s \ {Pick(s)} \in SUBSET S
                      /\ Cardinality(s \ {Pick(s)}) = Cardinality(s) - 1
<1>1. IsFiniteSet(s) /\ Cardinality(s) <= Cardinality(S)
  BY FS_Subset
<1>2. Cardinality(s) \in Nat /\ (s = {} <=> Cardinality(s) = 0)
  BY <1>1, FS_CardinalityType, FS_EmptySet
<1>3. s # {} => Pick(s) \in s
  BY Zenon DEF Pick
<1>4. s # {} => Cardinality(s \ {Pick(s)}) = Cardinality(s) - 1
  BY <1>1, <1>3, FS_RemoveElement
<1> QED
  BY <1>1, <1>2, <1>3, <1>4

\* A set of subsets that has the empty one, and any other once it has that one
\* without its picked element, has all of them: take a least one it lacks.
LEMMA SubsetInduction ==
  ASSUME NEW S, IsFiniteSet(S), NEW G, {} \in G,
         \A s \in SUBSET S : s # {} /\ s \ {Pick(s)} \in G => s \in G
  PROVE  \A s \in SUBSET S : s \in G
<1> DEFINE Bad == {n \in Nat : \E s \in SUBSET S : s \notin G /\ Cardinality(s) = n}
<1> SUFFICES ASSUME NEW s0 \in SUBSET S, s0 \notin G PROVE FALSE
  OBVIOUS
<1>1. Bad # {} /\ Bad \subseteq Nat
  <2>1. Cardinality(s0) \in Bad
    BY PickOne
  <2> QED
    BY <2>1
<1>2. PICK n \in Bad : \A m \in Bad : n <= m
  BY <1>1, LeastNatural
<1>3. PICK s \in SUBSET S : s \notin G /\ Cardinality(s) = n
  BY <1>2
<1>4. s # {}
  BY <1>3
<1>5. s \ {Pick(s)} \in SUBSET S /\ Cardinality(s \ {Pick(s)}) = n - 1 /\ n \in Nat /\ n # 0
  BY <1>3, <1>4, PickOne
<1>6. s \ {Pick(s)} \in G
  <2> SUFFICES ASSUME s \ {Pick(s)} \notin G PROVE FALSE
    OBVIOUS
  <2>1. n - 1 \in Bad
    BY <1>5
  <2> QED
    BY <1>2, <1>5, <2>1
<1> QED
  BY <1>3, <1>4, <1>6

\* The sums of a function over the subsets of its domain, each from the one
\* without its picked element.
Sums(f, S, it) ==
  /\ it \in [SUBSET S -> Nat] /\ it[{}] = 0
  /\ \A s \in SUBSET S : s # {} => it[s] = f[Pick(s)] + it[s \ {Pick(s)}]

\* SumFunction is the last of these sums.  Its recursive function exists up to every
\* cardinality: a least one where it does not could be reached from the one before.
LEMMA SumUnfolds ==
  ASSUME NEW S, IsFiniteSet(S), NEW f \in [S -> Nat]
  PROVE  \E it : Sums(f, S, it) /\ SumFunction(f) = it[S]
<1> DEFINE Upto(n) == {s \in SUBSET S : Cardinality(s) <= n}
           Unfold(it, s) == IF s = {} THEN 0 ELSE f[Pick(s)] + it[s \ {Pick(s)}]
           Good(it, n) == it \in [Upto(n) -> Nat] /\ \A s \in Upto(n) : it[s] = Unfold(it, s)
           Bad == {n \in Nat : ~\E it : Good(it, n)}
<1>1. Bad = {}
  <2> SUFFICES ASSUME Bad # {} PROVE FALSE
    OBVIOUS
  <2>1. PICK n \in Bad : \A m \in Bad : n <= m
    BY LeastNatural
  <2>2. n # 0
    <3> DEFINE z == [s \in Upto(0) |-> 0]
    <3>1. \A s \in Upto(0) : s = {}
      <4>1. ASSUME NEW s \in SUBSET S, Cardinality(s) <= 0 PROVE s = {}
        <5>1. Cardinality(s) \in Nat /\ (s = {} <=> Cardinality(s) = 0)
          BY PickOne
        <5> QED
          BY <4>1, <5>1
      <4> QED
        BY <4>1
    <3>2. Good(z, 0)
      BY <3>1
    <3> HIDE DEF Good
    <3>3. 0 \notin Bad
      BY <3>2
    <3> QED
      BY <3>3, <2>1
  <2>3. n \in Nat /\ n - 1 \in Nat /\ ~(n - 1 \in Bad)
    <3>1. n \in Nat /\ n - 1 \in Nat /\ ~(n <= n - 1)
      BY <2>1, <2>2
    <3> HIDE DEF Bad
    <3> QED
      BY <2>1, <3>1
  <2>4. PICK h : Good(h, n - 1)
    BY <2>3
  <2> DEFINE g == [s \in Upto(n) |-> Unfold(h, s)]
  <2>5. ASSUME NEW s \in Upto(n), s # {}
        PROVE  /\ s \ {Pick(s)} \in Upto(n - 1) /\ s \ {Pick(s)} \in Upto(n)
               /\ h[s \ {Pick(s)}] \in Nat /\ f[Pick(s)] \in Nat
    <3>1. s \ {Pick(s)} \in SUBSET S /\ Cardinality(s \ {Pick(s)}) = Cardinality(s) - 1
      BY <2>5, PickOne
    <3>2. Cardinality(s) \in Nat /\ Cardinality(s) <= n /\ Pick(s) \in S
      BY <2>5, PickOne
    <3>3. s \ {Pick(s)} \in Upto(n - 1) /\ s \ {Pick(s)} \in Upto(n)
      BY <3>1, <3>2, <2>3
    <3> QED
      BY <3>2, <3>3, <2>4
  <2>6. g \in [Upto(n) -> Nat]
    BY <2>5
  <2>7. ASSUME NEW s \in Upto(n - 1) PROVE s \in Upto(n) /\ g[s] = h[s]
    <3>1. Cardinality(s) \in Nat /\ Cardinality(s) <= n - 1 /\ s \in SUBSET S
      BY PickOne
    <3>2. s \in Upto(n)
      BY <3>1, <2>3
    <3> QED
      BY <3>2, <2>4
  <2>8. ASSUME NEW s \in Upto(n) PROVE g[s] = Unfold(g, s)
    <3>1. s # {} => g[s \ {Pick(s)}] = h[s \ {Pick(s)}]
      BY <2>5, <2>7
    <3> QED
      BY <3>1
  <2> QED
    BY <2>1, <2>6, <2>8
<1> DEFINE Card == Cardinality(S)
<1>2. Upto(Card) = SUBSET S
  BY PickOne
<1>3. PICK it : Good(it, Card)
  <2>1. Card \in Nat
    BY FS_CardinalityType
  <2> QED
    BY <1>1, <2>1
<1> DEFINE Rec(i) == i = [s \in SUBSET S |-> Unfold(i, s)]
           sum == CHOOSE i : Rec(i)
<1>4. SumFunction(f) = sum[S]
  BY DEF SumFunction, SumFunctionOnSet, FoldFunctionOnSet, MapThenFoldSet, Pick
<1>5. Rec(it)
  BY <1>2, <1>3
<1>6. Rec(sum)
  BY <1>5, Zenon
<1> HIDE DEF sum
<1>7. \A s \in SUBSET S : sum[s] = Unfold(sum, s)
  BY <1>6
<1>8. \A s \in SUBSET S : s \in {u \in SUBSET S : sum[u] \in Nat}
  <2>1. sum[{}] = 0
    BY <1>7
  <2>2. ASSUME NEW s \in SUBSET S, s # {}, sum[s \ {Pick(s)}] \in Nat PROVE sum[s] \in Nat
    <3>1. sum[s] = f[Pick(s)] + sum[s \ {Pick(s)}]
      BY <1>7, <2>2
    <3>2. f[Pick(s)] \in Nat
      BY <2>2, PickOne
    <3> QED
      BY <3>1, <3>2, <2>2
  <2> DEFINE G == {u \in SUBSET S : sum[u] \in Nat}
  <2>3. {} \in G
    BY <2>1
  <2>4. \A s \in SUBSET S : s # {} /\ s \ {Pick(s)} \in G => s \in G
    BY <2>2
  <2> HIDE DEF G
  <2>5. \A s \in SUBSET S : s \in G
    BY <2>3, <2>4, SubsetInduction
  <2> QED
    BY <2>5 DEF G
<1>9. Sums(f, S, sum)
  <2>1. sum \in [SUBSET S -> Nat]
    BY <1>6, <1>8
  <2>2. sum[{}] = 0
    BY <1>7
  <2>3. \A s \in SUBSET S : s # {} => sum[s] = f[Pick(s)] + sum[s \ {Pick(s)}]
    BY <1>7
  <2> QED
    BY <2>1, <2>2, <2>3 DEF Sums
<1> QED
  BY <1>4, <1>9

\* A sum of zeros is zero.
LEMMA SumZero ==
  ASSUME NEW S, IsFiniteSet(S), NEW f \in [S -> Nat], \A x \in S : f[x] = 0
  PROVE  SumFunctionOnSet(f, S) = 0
<1>1. PICK F : Sums(f, S, F) /\ SumFunction(f) = F[S]
  BY SumUnfolds
<1> DEFINE G == {s \in SUBSET S : F[s] = 0}
<1>2. {} \in G
  BY <1>1 DEF Sums
<1>3. ASSUME NEW s \in SUBSET S, s # {}, s \ {Pick(s)} \in G PROVE s \in G
  <2>1. Pick(s) \in S
    BY <1>3, PickOne
  <2>2. F[s] = f[Pick(s)] + F[s \ {Pick(s)}]
    BY <1>1, <1>3 DEF Sums
  <2> QED
    BY <2>1, <2>2, <1>3
<1> HIDE DEF G
<1>4. S \in G
  BY <1>2, <1>3, SubsetInduction
<1> QED
  BY <1>1, <1>4 DEF G, SumFunction

\* A sum of natural numbers is one.
LEMMA SumNatural ==
  ASSUME NEW S, IsFiniteSet(S), NEW f \in [S -> Nat]
  PROVE  SumFunctionOnSet(f, S) \in Nat
<1>1. PICK F : Sums(f, S, F) /\ SumFunction(f) = F[S]
  BY SumUnfolds
<1> QED BY <1>1 DEF Sums, SumFunction

\* Raising one summand by one raises the sum by one.
LEMMA SumMove ==
  ASSUME NEW S, IsFiniteSet(S), NEW f \in [S -> Nat], NEW g \in [S -> Nat], NEW b \in S,
         g = [f EXCEPT ![b] = @ + 1]
  PROVE  SumFunctionOnSet(f, S) \in Nat /\ SumFunctionOnSet(g, S) = SumFunctionOnSet(f, S) + 1
<1>1. PICK F : Sums(f, S, F) /\ SumFunction(f) = F[S]
  BY SumUnfolds
<1>2. PICK D : Sums(g, S, D) /\ SumFunction(g) = D[S]
  BY SumUnfolds
<1> DEFINE G == {s \in SUBSET S : D[s] = F[s] + (IF b \in s THEN 1 ELSE 0)}
<1>3. {} \in G
  BY <1>1, <1>2 DEF Sums
<1>4. ASSUME NEW s \in SUBSET S, s # {}, s \ {Pick(s)} \in G PROVE s \in G
  <2> DEFINE x == Pick(s)
             r == s \ {x}
  <2>1. r \in SUBSET S /\ x \in s
    BY <1>4, PickOne
  <2>2. F[s] = f[x] + F[r] /\ D[s] = g[x] + D[r]
    BY <1>1, <1>2, <1>4 DEF Sums
  <2>3. F[r] \in Nat /\ D[r] \in Nat /\ f[x] \in Nat /\ g[x] \in Nat
    BY <1>1, <1>2, <2>1 DEF Sums
  <2>4. D[r] = F[r] + (IF b \in r THEN 1 ELSE 0) /\ (b \in s <=> b \in r \/ b = x)
    BY <1>4, <2>1
  <2>5. g[x] = f[x] + (IF b = x THEN 1 ELSE 0) /\ x \notin r
    BY <2>1
  <2> HIDE DEF x, r
  <2>6. D[s] = F[s] + (IF b \in s THEN 1 ELSE 0)
    BY <2>2, <2>3, <2>4, <2>5
  <2> QED
    BY <2>6
<1> HIDE DEF G
<1>5. S \in G
  BY <1>3, <1>4, SubsetInduction
<1>6. F[S] \in Nat /\ D[S] = F[S] + 1
  BY <1>1, <1>2, <1>5 DEF Sums, G
<1> QED
  BY <1>1, <1>2, <1>6 DEF SumFunction

\* Two sets of tasks that differ in t at most: their cardinalities.
LEMMA CardinalityMove ==
  ASSUME NEW S, IsFiniteSet(S), NEW A \in SUBSET S, NEW B \in SUBSET S, NEW t,
         \A u \in S : u # t => (u \in A <=> u \in B)
  PROVE  /\ Cardinality(A) \in Nat /\ Cardinality(B) \in Nat
         /\ (t \in A <=> t \in B) => A = B
         /\ t \notin A /\ t \in B => Cardinality(B) = Cardinality(A) + 1
         /\ t \in A /\ t \notin B => Cardinality(B) = Cardinality(A) - 1
<1>1. IsFiniteSet(A) /\ IsFiniteSet(B) /\ Cardinality(A) \in Nat /\ Cardinality(B) \in Nat
  BY FS_Subset, FS_CardinalityType
<1>2. (t \in A <=> t \in B) => A = B
  OBVIOUS
<1>3. ASSUME t \notin A, t \in B PROVE Cardinality(B) = Cardinality(A) + 1
  <2>1. B = A \union {t}
    BY <1>3
  <2> QED
    BY <1>1, <1>3, <2>1, FS_AddElement
<1>4. ASSUME t \in A, t \notin B PROVE Cardinality(B) = Cardinality(A) - 1
  <2>1. B = A \ {t}
    BY <1>4
  <2> QED
    BY <1>1, <1>4, <2>1, FS_RemoveElement
<1> QED
  BY <1>1, <1>2, <1>3, <1>4

-----------------------------------------------------------------------------
(* The counters of what is checked out                                     *)

\* Only a disabled pool connects directly, and only refresh tasks refresh.
JobInv ==
  \A t \in Tasks : /\ pc[t] = "direct" => ~enabled
                   /\ pc[t] \in {"ref_start", "ref_connect"} => job[t] = "refresh"

\* The operations that have taken a stream back from the caller and have not
\* come to its decrement_active.
Owed(a) == Owing(a) \union {t \in Tasks : addr[t] = a /\ pc[t] = "dec_sub"}
Claims(a) == held[a] + Cardinality(Owed(a))

\* The pool-wide and the destination's in_use.
InUseInv ==
  enabled => /\ in_use <= SumFunctionOnSet(held, Addr)
             /\ SumFunctionOnSet(held, Addr) <= in_use + SumFunctionOnSet(strays, Addr)
DestInv(a) ==
  enabled => /\ dest_in_use[a] <= held[a] + Cardinality(Owing(a))
             /\ held[a] + Cardinality(Owing(a)) <= dest_in_use[a] + strays[a]

\* The active counter.  While a task is about to remove it, it may have any value,
\* wrapped below zero too; the removal makes it zero.  Otherwise it is at most what is
\* claimed, and an entry that is zero has come there by wrapping upwards.
ActiveInv(a) ==
  enabled => /\ a \notin actives => active[a] = 0
             /\ Removers(a) = {} => /\ active[a] <= Claims(a)
                                    /\ a \in actives /\ active[a] = 0 => Claims(a) >= Wrap

\* While no increment was lost and no stray stream was given back, it is what is
\* claimed, and a task removes it, or has removed it, only when nothing is.
ExactInv(a) ==
  enabled /\ a \notin raced /\ strays[a] = 0 =>
    /\ active[a] = Claims(a)
    /\ Removers(a) # {} \/ a \notin actives => Claims(a) = 0

CountInv == InUseInv /\ \A a \in Addr : DestInv(a) /\ ActiveInv(a) /\ ExactInv(a)

\* All tasks but t are where they were.
OnlyMoves(t) ==
  \A u \in Tasks : u # t => pc'[u] = pc[u] /\ addr'[u] = addr[u] /\ job'[u] = job[u]

countVars == <<enabled, held, strays, raced, in_use, dest_in_use, active, actives>>

\* The next state of JobInv.
LEMMA JobStep ==
  ASSUME TypeOK, JobInv, [Next]_vars
  PROVE  JobInv'
<1> USE DEF JobInv
<1>1. ASSUME NEW t \in Tasks, NEW v \in Tasks, Step(t)
      PROVE  /\ pc'[v] = "direct" => ~enabled'
             /\ pc'[v] \in {"ref_start", "ref_connect"} => job'[v] = "refresh"
  <2>1. CASE GetRemove(t) \/ GetCount(t) \/ InsertCheck(t) \/ InsertLoad(t) \/ EvictChosen(t)
             \/ EvictRemove(t) \/ EvictDrop(t) \/ InsertPush(t) \/ InsertCount(t)
    BY <2>1 DEF TypeOK, GetRemove, GetCount, InsertCheck, InsertLoad, EvictChosen, EvictRemove,
                EvictDrop, InsertPush, InsertCount, Goto
  <2>2. CASE GetHit(t) \/ GetConnected(t) \/ GetFailed(t) \/ DirectConnect(t) \/ EvictPanic(t)
             \/ PutDone(t) \/ RefreshFailed(t) \/ RefreshRecord(t)
    <3>1. /\ enabled' = enabled /\ pc'[t] \in {"idle", "panicked"}
          /\ v # t => pc'[v] = pc[v] /\ job'[v] = job[v]
      BY <2>2 DEF TypeOK, GetHit, GetConnected, GetFailed, DirectConnect, EvictPanic, PutDone,
                  RefreshFailed, RefreshRecord, Return
    <3> QED BY <3>1
  <2>3. CASE PutRecord(t) \/ DecrementActive(t) \/ RemoveActive(t) \/ SpawnRefresh(t)
             \/ RefreshStart(t) \/ RefreshConnected(t)
    BY <2>3 DEF TypeOK, PutRecord, DecrementActive, RemoveActive, SpawnRefresh, RefreshStart,
                RefreshConnected, Goto
  <2>4. CASE \E a \in Addr : EvictScan(t, a)
    BY <2>4 DEF EvictScan
  <2> QED BY <1>1, <2>1, <2>2, <2>3, <2>4 DEF Step
<1>2. ASSUME NEW t \in Tasks, NEW v \in Tasks, Call(t)
      PROVE  /\ pc'[v] = "direct" => ~enabled'
             /\ pc'[v] \in {"ref_start", "ref_connect"} => job'[v] = "refresh"
  <2>0. PICK a \in Addr : \/ GetDisabled(t, a) \/ GetPop(t, a) \/ GetAbsent(t, a)
                          \/ PutDisabled(t, a) \/ PutReuse(t, a)
                          \/ \E kind \in {"renew", "discard"} : Release(t, a, kind)
    BY <1>2 DEF Call
  <2>1. CASE GetDisabled(t, a)
    BY <2>1 DEF TypeOK, GetDisabled, Goto
  <2>2. CASE GetPop(t, a)
    <3>1. /\ enabled' = enabled /\ pc'[t] \in {"get_remove", "get_count"}
          /\ v # t => pc'[v] = pc[v] /\ job'[v] = job[v]
      BY <2>2 DEF TypeOK, GetPop, Goto
    <3> QED BY <3>1
  <2>3. CASE GetAbsent(t, a) \/ PutReuse(t, a)
    BY <2>3 DEF TypeOK, GetAbsent, PutReuse, Goto
  <2>4. CASE PutDisabled(t, a)
    BY <2>4 DEF PutDisabled
  <2>5. CASE \E kind \in {"renew", "discard"} : Release(t, a, kind)
    BY <2>5 DEF TypeOK, Release, Goto
  <2> QED BY <2>0, <2>1, <2>2, <2>3, <2>4, <2>5
<1>3. CASE \E a \in Addr : Cleanup(a)
  BY <1>3 DEF Cleanup
<1>4. CASE Tick
  BY <1>4 DEF Tick
<1>5. CASE UNCHANGED vars
  BY <1>5 DEF vars
<1> QED BY <1>1, <1>2, <1>3, <1>4, <1>5 DEF Next

\* What a step of t does to the sets of tasks, by whether t enters or leaves.
LEMMA ClaimMove ==
  ASSUME NEW t \in Tasks, NEW a \in Addr, OnlyMoves(t)
  PROVE  /\ Cardinality(Owing(a)) \in Nat /\ Cardinality(Owing(a)') \in Nat
         /\ Cardinality(Owed(a)) \in Nat /\ Cardinality(Owed(a)') \in Nat
         /\ (t \in Owing(a) <=> t \in Owing(a)') => Owing(a)' = Owing(a)
         /\ (t \in Owed(a) <=> t \in Owed(a)') => Owed(a)' = Owed(a)
         /\ (t \in Removers(a) <=> t \in Removers(a)') => Removers(a)' = Removers(a)
         /\ t \notin Owing(a) /\ t \in Owing(a)'
              => Cardinality(Owing(a)') = Cardinality(Owing(a)) + 1
         /\ t \in Owing(a) /\ t \notin Owing(a)'
              => Cardinality(Owing(a)') = Cardinality(Owing(a)) - 1
         /\ t \notin Owed(a) /\ t \in Owed(a)'
              => Cardinality(Owed(a)') = Cardinality(Owed(a)) + 1
         /\ t \in Owed(a) /\ t \notin Owed(a)'
              => Cardinality(Owed(a)') = Cardinality(Owed(a)) - 1
<1>1. /\ Owing(a) \in SUBSET Tasks /\ Owing(a)' \in SUBSET Tasks
      /\ Owed(a) \in SUBSET Tasks /\ Owed(a)' \in SUBSET Tasks
      /\ Removers(a) \in SUBSET Tasks /\ Removers(a)' \in SUBSET Tasks
  BY DEF Owing, Owed, Removers
<1>2. \A u \in Tasks : u # t => /\ u \in Owing(a) <=> u \in Owing(a)'
                                /\ u \in Owed(a) <=> u \in Owed(a)'
                                /\ u \in Removers(a) <=> u \in Removers(a)'
  BY DEF OnlyMoves, Owing, Owed, Removers
<1>3. ASSUME NEW A \in SUBSET Tasks, NEW B \in SUBSET Tasks,
             \A u \in Tasks : u # t => (u \in A <=> u \in B)
      PROVE  /\ Cardinality(A) \in Nat /\ Cardinality(B) \in Nat
             /\ (t \in A <=> t \in B) => B = A
             /\ t \notin A /\ t \in B => Cardinality(B) = Cardinality(A) + 1
             /\ t \in A /\ t \notin B => Cardinality(B) = Cardinality(A) - 1
  BY <1>3, PoolConstants, CardinalityMove
<1>4. /\ Cardinality(Owing(a)) \in Nat /\ Cardinality(Owing(a)') \in Nat
      /\ (t \in Owing(a) <=> t \in Owing(a)') => Owing(a)' = Owing(a)
      /\ t \notin Owing(a) /\ t \in Owing(a)'
           => Cardinality(Owing(a)') = Cardinality(Owing(a)) + 1
      /\ t \in Owing(a) /\ t \notin Owing(a)'
           => Cardinality(Owing(a)') = Cardinality(Owing(a)) - 1
  BY <1>1, <1>2, <1>3, Zenon
<1>5. /\ Cardinality(Owed(a)) \in Nat /\ Cardinality(Owed(a)') \in Nat
      /\ (t \in Owed(a) <=> t \in Owed(a)') => Owed(a)' = Owed(a)
      /\ t \notin Owed(a) /\ t \in Owed(a)'
           => Cardinality(Owed(a)') = Cardinality(Owed(a)) + 1
      /\ t \in Owed(a) /\ t \notin Owed(a)'
           => Cardinality(Owed(a)') = Cardinality(Owed(a)) - 1
  BY <1>1, <1>2, <1>3, Zenon
<1>6. (t \in Removers(a) <=> t \in Removers(a)') => Removers(a)' = Removers(a)
  BY <1>1, <1>2
<1> QED BY <1>4, <1>5, <1>6

\* A step that touches none of the counters, and does not change what its task owes.
LEMMA NeutralStep ==
  ASSUME CountInv, NEW t \in Tasks, OnlyMoves(t), UNCHANGED countVars,
         \A a \in Addr : /\ t \in Owing(a) <=> t \in Owing(a)'
                         /\ t \in Owed(a) <=> t \in Owed(a)'
                         /\ t \in Removers(a) <=> t \in Removers(a)'
  PROVE  CountInv'
<1>1. InUseInv'
  BY DEF CountInv, InUseInv, countVars
<1>2. ASSUME NEW a \in Addr PROVE DestInv(a)' /\ ActiveInv(a)' /\ ExactInv(a)'
  <2>1. Owing(a)' = Owing(a) /\ Owed(a)' = Owed(a) /\ Removers(a)' = Removers(a)
    BY ClaimMove
  <2> QED BY <2>1 DEF CountInv, DestInv, ActiveInv, ExactInv, Claims, countVars
<1> QED BY <1>1, <1>2 DEF CountInv

\* A destination that the step does not concern.
LEMMA ElsewhereStep ==
  ASSUME CountInv, NEW t \in Tasks, NEW a \in Addr, OnlyMoves(t), addr[t] # a, addr'[t] # a,
         enabled' = enabled, held'[a] = held[a], dest_in_use'[a] = dest_in_use[a],
         strays'[a] = strays[a], a \in raced <=> a \in raced',
         active'[a] = active[a], a \in actives <=> a \in actives'
  PROVE  DestInv(a)' /\ ActiveInv(a)' /\ ExactInv(a)'
<1>1. /\ t \notin Owing(a) /\ t \notin Owed(a) /\ t \notin Removers(a)
      /\ t \notin Owing(a)' /\ t \notin Owed(a)' /\ t \notin Removers(a)'
  BY DEF Owing, Owed, Removers
<1>2. Owing(a)' = Owing(a) /\ Owed(a)' = Owed(a) /\ Removers(a)' = Removers(a)
  BY <1>1, ClaimMove
<1> QED BY <1>2 DEF CountInv, DestInv, ActiveInv, ExactInv, Claims

\* get hands a stream to the caller.
LEMMA CheckOutStep ==
  ASSUME TypeOK, CountInv, NEW t \in Tasks, GetHit(t) \/ GetConnected(t)
  PROVE  CountInv'
<1>1. PICK b \in Addr : b = addr[t]
  BY DEF TypeOK, GetHit, GetConnected
<1>2. /\ CheckOut(b) /\ enabled' = enabled /\ strays' = strays /\ pc[t] \in {"get_hit", "connecting"}
      /\ pc'[t] = "idle" /\ addr'[t] = None /\ OnlyMoves(t)
  BY <1>1 DEF TypeOK, GetHit, GetConnected, Return, OnlyMoves
<1>3. InUseInv'
  <2>1. held' = [held EXCEPT ![b] = @ + 1] /\ held' \in [Addr -> Nat] /\ held \in [Addr -> Nat]
    BY <1>2 DEF CheckOut, TypeOK
  <2>2. SumFunctionOnSet(held', Addr) = SumFunctionOnSet(held, Addr) + 1
    BY <2>1, SumMove, PoolConstants
  <2>3. SumFunctionOnSet(held, Addr) \in Nat /\ SumFunctionOnSet(strays, Addr) \in Nat
    BY SumNatural, PoolConstants DEF TypeOK
  <2> QED BY <2>2, <2>3, <1>2 DEF CountInv, InUseInv, CheckOut, TypeOK
<1>4. ASSUME NEW a \in Addr PROVE DestInv(a)' /\ ActiveInv(a)' /\ ExactInv(a)'
  <2>1. CASE a # b
    <3>1. /\ held'[a] = held[a] /\ dest_in_use'[a] = dest_in_use[a] /\ active'[a] = active[a]
          /\ (a \in actives <=> a \in actives') /\ (a \in raced <=> a \in raced')
      BY <2>1, <1>2 DEF CheckOut, TypeOK
    <3>2. addr[t] # a /\ addr'[t] # a
      BY <1>1, <1>2, <2>1, PoolConstants
    <3> QED BY <3>1, <3>2, <1>2, ElsewhereStep
  <2>2. CASE a = b
    <3>1. /\ held'[a] = held[a] + 1 /\ dest_in_use'[a] = dest_in_use[a] + 1
          /\ active'[a] = Add(active[a], 1) /\ a \in actives'
      BY <2>2, <1>2 DEF CheckOut, TypeOK
    <3>2. /\ t \notin Owing(a) /\ t \notin Owed(a) /\ t \notin Removers(a)
          /\ t \notin Owing(a)' /\ t \notin Owed(a)' /\ t \notin Removers(a)'
      BY <1>2 DEF Owing, Owed, Removers, BeforePutRecord, InserterPCs
    <3>3. /\ Owing(a)' = Owing(a) /\ Owed(a)' = Owed(a) /\ Removers(a)' = Removers(a)
          /\ Cardinality(Owing(a)) \in Nat /\ Cardinality(Owed(a)) \in Nat
      BY <3>2, <1>2, ClaimMove
    <3>4. DestInv(a)'
      BY <3>1, <3>3, <1>2 DEF CountInv, DestInv, TypeOK
    <3>5. held[a] \in Nat /\ active[a] \in 0 .. (Wrap - 1) /\ Wrap \in Nat /\ Wrap > 1
      BY PoolConstants DEF TypeOK, Words
    <3>6. active'[a] = IF active[a] = Wrap - 1 THEN 0 ELSE active[a] + 1
      BY <3>1, <3>5 DEF Add
    <3>7. Claims(a)' = Claims(a) + 1 /\ Claims(a) \in Nat
      BY <3>1, <3>3, <3>5 DEF Claims
    <3>8. ActiveInv(a)'
      BY <3>1, <3>3, <3>5, <3>6, <3>7, <1>2 DEF CountInv, ActiveInv
    <3>9. ExactInv(a)'
      <4>1. a \notin raced' => a \notin raced /\ Removers(a) = {} /\ active[a] # Wrap - 1
        BY <1>2, <2>2 DEF CheckOut
      <4> QED BY <4>1, <3>1, <3>3, <3>5, <3>6, <3>7, <1>2 DEF CountInv, ExactInv
    <3> QED BY <3>4, <3>8, <3>9
  <2> QED BY <2>1, <2>2
<1> QED BY <1>3, <1>4 DEF CountInv

\* put and release take a stream back.
LEMMA TakeBackStep ==
  ASSUME TypeOK, CountInv, NEW t \in Tasks, NEW b \in Addr,
         PutReuse(t, b) \/ \E kind \in {"renew", "discard"} : Release(t, b, kind)
  PROVE  CountInv'
<1>1. /\ enabled /\ enabled' = enabled /\ TakeBack(t, b)
      /\ in_use' = Monus(in_use) /\ active' = active /\ actives' = actives /\ OnlyMoves(t)
      /\ pc[t] = "idle" /\ addr'[t] = b
      /\ \/ pc'[t] = "ins_check" /\ job'[t] = "put" /\ dest_in_use' = dest_in_use
         \/ /\ pc'[t] = "dec_sub" /\ job'[t] # "put"
            /\ dest_in_use' = [dest_in_use EXCEPT ![b] = Monus(@)]
  BY DEF TypeOK, PutReuse, Release, Goto, OnlyMoves, activeVars
<1>2. /\ held \in [Addr -> Nat] /\ held' \in [Addr -> Nat] /\ in_use \in Nat
      /\ strays \in [Addr -> Nat] /\ strays' \in [Addr -> Nat] /\ raced' = raced
      /\ \/ /\ held[b] > 0 /\ held' = [held EXCEPT ![b] = @ - 1] /\ strays' = strays
         \/ held' = held /\ strays' = [strays EXCEPT ![b] = @ + 1]
  BY <1>1, TakeBackTypes DEF TypeOK
<1>3. InUseInv'
  <2>0. /\ SumFunctionOnSet(held, Addr) \in Nat /\ SumFunctionOnSet(strays, Addr) \in Nat
        /\ SumFunctionOnSet(held', Addr) \in Nat /\ SumFunctionOnSet(strays', Addr) \in Nat
    BY <1>2, SumNatural, PoolConstants
  <2>1. CASE held[b] > 0 /\ held' = [held EXCEPT ![b] = @ - 1] /\ strays' = strays
    <3>1. held = [held' EXCEPT ![b] = @ + 1]
      <4>1. \A a \in Addr : held[a] = [held' EXCEPT ![b] = @ + 1][a]
        BY <2>1, <1>2
      <4> QED BY <1>2, <4>1
    <3>2. SumFunctionOnSet(held, Addr) = SumFunctionOnSet(held', Addr) + 1
      BY <3>1, <1>2, SumMove, PoolConstants
    <3> QED BY <3>2, <2>0, <2>1, <1>1, <1>2 DEF CountInv, InUseInv, Monus
  <2>2. CASE held' = held /\ strays' = [strays EXCEPT ![b] = @ + 1]
    <3>1. SumFunctionOnSet(strays', Addr) = SumFunctionOnSet(strays, Addr) + 1
      BY <2>2, <1>2, SumMove, PoolConstants
    <3> QED BY <3>1, <2>0, <2>2, <1>1, <1>2 DEF CountInv, InUseInv, Monus
  <2> QED BY <2>1, <2>2, <1>2
<1>4. ASSUME NEW a \in Addr PROVE DestInv(a)' /\ ActiveInv(a)' /\ ExactInv(a)'
  <2>0. t \notin Owing(a) /\ t \notin Owed(a) /\ t \notin Removers(a) /\ t \notin Removers(a)'
    BY <1>1 DEF Owing, Owed, Removers, BeforePutRecord, InserterPCs
  <2>1. CASE a # b
    <3>1. /\ held'[a] = held[a] /\ dest_in_use'[a] = dest_in_use[a] /\ active'[a] = active[a]
          /\ strays'[a] = strays[a] /\ (a \in actives <=> a \in actives')
      BY <2>1, <1>1, <1>2 DEF TypeOK
    <3>2. t \notin Owing(a)' /\ t \notin Owed(a)'
      BY <1>1, <2>1 DEF Owing, Owed
    <3>3. Owing(a)' = Owing(a) /\ Owed(a)' = Owed(a) /\ Removers(a)' = Removers(a)
      BY <2>0, <3>2, <1>1, ClaimMove
    <3> QED BY <3>1, <3>3, <1>1, <1>2 DEF CountInv, DestInv, ActiveInv, ExactInv, Claims
  <2>2. CASE a = b
    <3>1. t \in Owed(a)' /\ (t \in Owing(a)' <=> pc'[t] = "ins_check")
      BY <1>1, <2>2 DEF Owing, Owed, BeforePutRecord, InserterPCs
    <3>2. /\ Cardinality(Owing(a)) \in Nat /\ Cardinality(Owed(a)) \in Nat
          /\ Cardinality(Owed(a)') = Cardinality(Owed(a)) + 1 /\ Removers(a)' = Removers(a)
          /\ pc'[t] = "ins_check" => Cardinality(Owing(a)') = Cardinality(Owing(a)) + 1
          /\ pc'[t] # "ins_check" => Owing(a)' = Owing(a)
      BY <3>1, <2>0, <1>1, ClaimMove
    <3>3. /\ held[a] \in Nat /\ strays[a] \in Nat /\ dest_in_use[a] \in Nat
          /\ \/ held[a] > 0 /\ held'[a] = held[a] - 1 /\ strays'[a] = strays[a]
             \/ held'[a] = held[a] /\ strays'[a] = strays[a] + 1
      BY <1>2, <2>2 DEF TypeOK
    <3>4. /\ dest_in_use[a] <= held[a] + Cardinality(Owing(a))
          /\ held[a] + Cardinality(Owing(a)) <= dest_in_use[a] + strays[a]
      BY <1>1 DEF CountInv, DestInv
    <3>5. DestInv(a)'
      <4>1. CASE pc'[t] = "ins_check"
        <5>1. dest_in_use'[a] = dest_in_use[a]
          BY <4>1, <1>1
        <5> QED BY <5>1, <4>1, <3>2, <3>3, <3>4 DEF DestInv
      <4>2. CASE pc'[t] # "ins_check"
        <5>1. dest_in_use'[a] = Monus(dest_in_use[a])
          BY <4>2, <1>1, <2>2 DEF TypeOK
        <5> QED BY <5>1, <4>2, <3>2, <3>3, <3>4 DEF DestInv, Monus
      <4> QED BY <4>1, <4>2
    <3>6. /\ Claims(a) \in Nat
          /\ \/ Claims(a)' = Claims(a) /\ held[a] > 0 /\ strays'[a] = strays[a]
             \/ Claims(a)' = Claims(a) + 1 /\ strays'[a] > 0
      BY <3>2, <3>3 DEF Claims
    <3>7. ActiveInv(a)'
      <4>1. active[a] \in Nat /\ Wrap \in Nat
        BY PoolConstants DEF TypeOK, Words
      <4> QED BY <4>1, <3>2, <3>6, <1>1 DEF CountInv, ActiveInv
    <3>8. ExactInv(a)'
      BY <3>2, <3>3, <3>6, <1>1, <1>2 DEF CountInv, ExactInv
    <3> QED BY <3>5, <3>7, <3>8
  <2> QED BY <2>1, <2>2
<1> QED BY <1>3, <1>4 DEF CountInv

\* put lowers the destination's in_use.
LEMMA PutRecordStep ==
  ASSUME TypeOK, CountInv, NEW t \in Tasks, PutRecord(t)
  PROVE  CountInv'
<1>1. PICK b \in Addr : b = addr[t]
  BY DEF TypeOK, PutRecord, Goto
<1>2. /\ enabled' = enabled /\ held' = held /\ strays' = strays /\ raced' = raced
      /\ in_use' = in_use /\ active' = active
      /\ actives' = actives /\ dest_in_use' = [dest_in_use EXCEPT ![b] = Monus(@)]
      /\ job[t] = "put" /\ job' = job /\ addr' = addr
      /\ pc[t] = "put_record" /\ pc'[t] = "dec_sub" /\ OnlyMoves(t)
  BY <1>1 DEF TypeOK, PutRecord, Goto, OnlyMoves, activeVars
<1>3. InUseInv'
  BY <1>2 DEF CountInv, InUseInv
<1>4. ASSUME NEW a \in Addr PROVE DestInv(a)' /\ ActiveInv(a)' /\ ExactInv(a)'
  <2>1. CASE a # b
    <3>1. dest_in_use'[a] = dest_in_use[a] /\ addr[t] # a /\ addr'[t] # a
      BY <2>1, <1>1, <1>2 DEF TypeOK
    <3> QED BY <3>1, <1>2, ElsewhereStep
  <2>2. CASE a = b
    <3>1. /\ t \in Owing(a) /\ t \notin Owing(a)' /\ t \in Owed(a) /\ t \in Owed(a)'
          /\ t \notin Removers(a) /\ t \notin Removers(a)'
      BY <1>1, <1>2, <2>2 DEF Owing, Owed, Removers, BeforePutRecord, InserterPCs
    <3>2. /\ Cardinality(Owing(a)) \in Nat /\ Cardinality(Owing(a)') \in Nat
          /\ Cardinality(Owing(a)') = Cardinality(Owing(a)) - 1
          /\ Owed(a)' = Owed(a) /\ Removers(a)' = Removers(a)
      BY <3>1, <1>2, ClaimMove
    <3>3. /\ held[a] \in Nat /\ strays[a] \in Nat /\ dest_in_use[a] \in Nat
          /\ dest_in_use'[a] = Monus(dest_in_use[a])
      BY <1>2, <2>2 DEF TypeOK
    <3>4. DestInv(a)'
      BY <3>2, <3>3, <1>2 DEF CountInv, DestInv, Monus
    <3>5. ActiveInv(a)' /\ ExactInv(a)'
      BY <3>2, <1>2 DEF CountInv, ActiveInv, ExactInv, Claims
    <3> QED BY <3>4, <3>5
  <2> QED BY <2>1, <2>2
<1> QED BY <1>3, <1>4 DEF CountInv

\* decrement_active's fetch_sub.
LEMMA DecrementStep ==
  ASSUME TypeOK, CountInv, NEW t \in Tasks, DecrementActive(t)
  PROVE  CountInv'
<1>1. PICK b \in Addr : b = addr[t]
  BY DEF TypeOK, DecrementActive, Goto
<1>2. /\ enabled' = enabled /\ held' = held /\ strays' = strays /\ raced' = raced
      /\ in_use' = in_use /\ dest_in_use' = dest_in_use
      /\ active' = [active EXCEPT ![b] = IF b \in actives THEN Sub(@, 1) ELSE @]
      /\ actives' = actives /\ job' = job /\ addr' = addr /\ OnlyMoves(t)
      /\ pc[t] = "dec_sub"
      /\ pc'[t] = IF b \in actives /\ active[b] = 1 THEN "dec_remove" ELSE "after_dec"
  BY <1>1 DEF TypeOK, DecrementActive, Goto, OnlyMoves, useVars
<1>3. InUseInv'
  BY <1>2 DEF CountInv, InUseInv
<1>4. ASSUME NEW a \in Addr PROVE DestInv(a)' /\ ActiveInv(a)' /\ ExactInv(a)'
  <2>1. CASE a # b
    <3>1. active'[a] = active[a] /\ addr[t] # a /\ addr'[t] # a
      BY <2>1, <1>1, <1>2 DEF TypeOK
    <3> QED BY <3>1, <1>2, ElsewhereStep
  <2>2. CASE a = b
    <3>1. /\ t \notin Owing(a) /\ t \notin Owing(a)' /\ t \in Owed(a) /\ t \notin Owed(a)'
          /\ t \notin Removers(a) /\ (t \in Removers(a)' <=> pc'[t] = "dec_remove")
      BY <1>1, <1>2, <2>2 DEF Owing, Owed, Removers, BeforePutRecord, InserterPCs
    <3>2. /\ Owing(a)' = Owing(a) /\ Cardinality(Owed(a)') = Cardinality(Owed(a)) - 1
          /\ Cardinality(Owed(a)) \in Nat /\ Cardinality(Owed(a)') \in Nat
          /\ pc'[t] # "dec_remove" => Removers(a)' = Removers(a)
      BY <3>1, <1>2, ClaimMove
    <3>3. DestInv(a)'
      BY <3>2, <1>2 DEF CountInv, DestInv
    <3>4. /\ held[a] \in Nat /\ active[a] \in 0 .. (Wrap - 1) /\ Wrap \in Nat /\ Wrap > 1
          /\ active'[a] = IF a \in actives THEN Sub(active[a], 1) ELSE active[a]
      BY <1>2, <2>2, PoolConstants DEF TypeOK, Words
    <3>5. Claims(a)' = Claims(a) - 1 /\ Claims(a)' \in Nat /\ Claims(a) \in Nat
      BY <3>2, <3>4, <1>2 DEF Claims
    <3>6. Sub(active[a], 1) = IF active[a] = 0 THEN Wrap - 1 ELSE active[a] - 1
      <4>1. (0 + Wrap * 1 - 1) % Wrap = Wrap - 1
        BY <3>4
      <4> QED BY <4>1, <3>4 DEF Sub
    <3>7. ActiveInv(a)'
      <4>1. CASE pc'[t] = "dec_remove"
        <5>1. Removers(a)' # {} /\ a \in actives'
          BY <3>1, <4>1, <1>2, <2>2
        <5> QED BY <5>1 DEF ActiveInv
      <4>2. CASE pc'[t] # "dec_remove"
        <5>1. ~(a \in actives /\ active[a] = 1) /\ Removers(a)' = Removers(a)
          BY <4>2, <1>2, <2>2, <3>2
        <5> QED BY <5>1, <3>4, <3>5, <3>6, <1>2 DEF CountInv, ActiveInv
      <4> QED BY <4>1, <4>2
    <3>8. ExactInv(a)'
      <4>1. ASSUME enabled, a \notin raced, strays[a] = 0
            PROVE  Removers(a) = {} /\ a \in actives /\ active[a] = Claims(a) /\ active[a] > 0
        BY <4>1, <3>4, <3>5 DEF CountInv, ExactInv
      <4>2. ASSUME enabled, a \notin raced, strays[a] = 0
            PROVE  /\ active'[a] = Claims(a)' /\ a \in actives'
                   /\ Removers(a)' # {} => Claims(a)' = 0
        BY <4>2, <4>1, <3>2, <3>4, <3>5, <3>6, <1>2, <2>2
      <4> QED BY <4>2, <1>2 DEF ExactInv
    <3> QED BY <3>3, <3>7, <3>8
  <2> QED BY <2>1, <2>2
<1> QED BY <1>3, <1>4 DEF CountInv

\* decrement_active's removal, whatever has happened to the counter since.
LEMMA RemoveActiveStep ==
  ASSUME TypeOK, CountInv, NEW t \in Tasks, RemoveActive(t)
  PROVE  CountInv'
<1>1. PICK b \in Addr : b = addr[t]
  BY DEF TypeOK, RemoveActive, Goto
<1>2. /\ enabled' = enabled /\ held' = held /\ strays' = strays /\ raced' = raced
      /\ in_use' = in_use /\ dest_in_use' = dest_in_use
      /\ active' = [active EXCEPT ![b] = 0] /\ actives' = actives \ {b}
      /\ job' = job /\ addr' = addr /\ OnlyMoves(t)
      /\ pc[t] = "dec_remove" /\ pc'[t] = "after_dec"
  BY <1>1 DEF TypeOK, RemoveActive, Goto, OnlyMoves, useVars
<1>3. InUseInv'
  BY <1>2 DEF CountInv, InUseInv
<1>4. ASSUME NEW a \in Addr PROVE DestInv(a)' /\ ActiveInv(a)' /\ ExactInv(a)'
  <2>1. CASE a # b
    <3>1. /\ active'[a] = active[a] /\ (a \in actives <=> a \in actives')
          /\ addr[t] # a /\ addr'[t] # a
      BY <2>1, <1>1, <1>2 DEF TypeOK
    <3> QED BY <3>1, <1>2, ElsewhereStep
  <2>2. CASE a = b
    <3>1. /\ t \notin Owing(a) /\ t \notin Owing(a)' /\ t \notin Owed(a) /\ t \notin Owed(a)'
          /\ t \in Removers(a)
      BY <1>1, <1>2, <2>2 DEF Owing, Owed, Removers, BeforePutRecord, InserterPCs
    <3>2. Owing(a)' = Owing(a) /\ Owed(a)' = Owed(a) /\ Cardinality(Owed(a)') \in Nat
      BY <3>1, <1>2, ClaimMove
    <3>3. DestInv(a)'
      BY <3>2, <1>2 DEF CountInv, DestInv
    <3>4. active'[a] = 0 /\ a \notin actives' /\ held'[a] \in Nat
      BY <1>2, <2>2 DEF TypeOK
    <3>5. Claims(a)' \in Nat
      BY <3>2, <3>4 DEF Claims
    <3>6. ActiveInv(a)'
      BY <3>4, <3>5 DEF ActiveInv
    <3>7. ExactInv(a)'
      <4>1. enabled /\ a \notin raced /\ strays[a] = 0 => Claims(a) = 0
        BY <3>1 DEF CountInv, ExactInv
      <4>2. Claims(a)' = Claims(a)
        BY <3>2, <1>2 DEF Claims
      <4> QED BY <4>1, <4>2, <3>4, <1>2 DEF ExactInv
    <3> QED BY <3>3, <3>6, <3>7
  <2> QED BY <2>1, <2>2
<1> QED BY <1>3, <1>4 DEF CountInv

\* Every step keeps the counters exact, or at most what is claimed.
LEMMA CountStep ==
  ASSUME TypeOK, JobInv, CountInv, [Next]_vars
  PROVE  CountInv'
<1>1. ASSUME enabled' = enabled, ~enabled PROVE CountInv'
  BY <1>1 DEF CountInv, InUseInv, DestInv, ActiveInv, ExactInv
<1>2. ASSUME NEW t \in Tasks, OnlyMoves(t), UNCHANGED countVars, addr' = addr, job' = job,
             job[t] = "put" => (pc[t] \in BeforePutRecord <=> pc'[t] \in BeforePutRecord),
             pc[t] \notin {"dec_sub", "dec_remove"}, pc'[t] \notin {"dec_sub", "dec_remove"}
      PROVE  CountInv'
  <2>1. \A a \in Addr : /\ t \in Owing(a) <=> t \in Owing(a)'
                        /\ t \in Owed(a) <=> t \in Owed(a)'
                        /\ t \in Removers(a) <=> t \in Removers(a)'
    BY <1>2 DEF Owing, Owed, Removers
  <2> QED BY <1>2, <2>1, NeutralStep
<1>3. ASSUME NEW t \in Tasks, OnlyMoves(t), UNCHANGED countVars,
             job[t] # "put" \/ pc[t] \notin BeforePutRecord,
             job'[t] # "put" \/ pc'[t] \notin BeforePutRecord,
             pc[t] \notin {"dec_sub", "dec_remove"}, pc'[t] \notin {"dec_sub", "dec_remove"}
      PROVE  CountInv'
  <2>1. \A a \in Addr : /\ t \in Owing(a) <=> t \in Owing(a)'
                        /\ t \in Owed(a) <=> t \in Owed(a)'
                        /\ t \in Removers(a) <=> t \in Removers(a)'
    BY <1>3 DEF Owing, Owed, Removers
  <2> QED BY <1>3, <2>1, NeutralStep
<1>4. ASSUME UNCHANGED countVars, pc' = pc, addr' = addr, job' = job PROVE CountInv'
  BY <1>4 DEF CountInv, InUseInv, DestInv, ActiveInv, ExactInv, Claims, Owing, Owed, Removers, countVars
<1>5. ASSUME NEW t \in Tasks, Step(t) PROVE CountInv'
  <2>1. CASE GetHit(t) \/ GetConnected(t)
    BY <2>1, CheckOutStep
  <2>2. CASE DirectConnect(t)
    BY <2>2, <1>1 DEF DirectConnect, JobInv
  <2>3. CASE PutRecord(t)
    BY <2>3, PutRecordStep
  <2>4. CASE DecrementActive(t)
    BY <2>4, DecrementStep
  <2>5. CASE RemoveActive(t)
    BY <2>5, RemoveActiveStep
  <2>6. CASE InsertCheck(t) \/ InsertLoad(t) \/ EvictChosen(t) \/ EvictRemove(t) \/ EvictDrop(t)
             \/ InsertPush(t) \/ InsertCount(t) \/ GetRemove(t) \/ GetCount(t)
    <3>1. /\ OnlyMoves(t) /\ UNCHANGED countVars /\ addr' = addr /\ job' = job
          /\ \/ pc[t] \in BeforePutRecord /\ pc'[t] \in BeforePutRecord
             \/ pc[t] \notin BeforePutRecord /\ pc'[t] \notin BeforePutRecord
          /\ pc[t] \notin {"dec_sub", "dec_remove"} /\ pc'[t] \notin {"dec_sub", "dec_remove"}
      BY <2>6 DEF TypeOK, InsertCheck, InsertLoad, EvictChosen, EvictRemove, EvictDrop, InsertPush,
                  InsertCount, GetRemove, GetCount, Goto, OnlyMoves, countVars, useVars,
                  activeVars, BeforePutRecord, InserterPCs
    <3> QED BY <3>1, <1>2
  <2>7. CASE EvictPanic(t)
    <3>1. /\ OnlyMoves(t) /\ UNCHANGED countVars /\ addr' = addr /\ job' = job
          /\ pc[t] = "evict_remove" /\ pc'[t] = "panicked"
      BY <2>7 DEF TypeOK, EvictPanic, Return, OnlyMoves, countVars, useVars, activeVars
    <3> QED BY <3>1, <1>2 DEF BeforePutRecord, InserterPCs
  <2>8. CASE GetFailed(t) \/ PutDone(t) \/ RefreshFailed(t) \/ RefreshRecord(t)
    <3>1. /\ OnlyMoves(t) /\ UNCHANGED countVars /\ pc'[t] = "idle"
          /\ \/ pc[t] \in {"connecting", "after_dec", "ref_connect"}
             \/ pc[t] = "put_record" /\ job[t] = "refresh"
      BY <2>8 DEF TypeOK, GetFailed, PutDone, RefreshFailed, RefreshRecord, Return, OnlyMoves,
                  countVars, useVars, activeVars
    <3> QED BY <3>1, <1>3 DEF BeforePutRecord, InserterPCs
  <2>9. CASE SpawnRefresh(t) \/ RefreshStart(t) \/ RefreshConnected(t)
    <3>1. /\ OnlyMoves(t) /\ UNCHANGED countVars /\ job'[t] = "refresh"
          /\ pc[t] \in {"after_dec", "ref_start", "ref_connect"}
          /\ pc'[t] \in {"ref_start", "ref_connect", "ins_check"}
      BY <2>9 DEF TypeOK, JobInv, SpawnRefresh, RefreshStart, RefreshConnected, Goto, OnlyMoves,
                  countVars, useVars, activeVars
    <3> QED BY <3>1, <1>3 DEF BeforePutRecord, InserterPCs
  <2>10. CASE \E a \in Addr : EvictScan(t, a)
    BY <2>10, <1>4 DEF EvictScan, countVars, useVars, activeVars
  <2> QED BY <1>5, <2>1, <2>2, <2>3, <2>4, <2>5, <2>6, <2>7, <2>8, <2>9, <2>10 DEF Step
<1>6. ASSUME NEW t \in Tasks, NEW b \in Addr,
             \/ GetDisabled(t, b) \/ GetPop(t, b) \/ GetAbsent(t, b)
             \/ PutDisabled(t, b) \/ PutReuse(t, b)
             \/ \E kind \in {"renew", "discard"} : Release(t, b, kind)
      PROVE  CountInv'
  <2>1. CASE GetDisabled(t, b) \/ PutDisabled(t, b)
    BY <2>1, <1>1 DEF GetDisabled, PutDisabled
  <2>2. CASE PutReuse(t, b) \/ \E kind \in {"renew", "discard"} : Release(t, b, kind)
    BY <2>2, TakeBackStep
  <2>3. CASE GetPop(t, b) \/ GetAbsent(t, b)
    <3>1. /\ OnlyMoves(t) /\ UNCHANGED countVars /\ job'[t] = "get" /\ pc[t] = "idle"
          /\ pc'[t] \in {"get_remove", "get_count", "connecting"}
      BY <2>3 DEF TypeOK, GetPop, GetAbsent, Goto, OnlyMoves, countVars, useVars, activeVars
    <3> QED BY <3>1, <1>3 DEF BeforePutRecord, InserterPCs
  <2> QED BY <1>6, <2>1, <2>2, <2>3
<1>7. CASE \E a \in Addr : Cleanup(a)
  BY <1>7, <1>4 DEF Cleanup, countVars, useVars, activeVars
<1>8. CASE Tick
  BY <1>8, <1>4 DEF Tick, countVars, useVars, activeVars
<1>9. CASE UNCHANGED vars
  BY <1>9, <1>4 DEF vars, countVars, useVars, activeVars
<1> QED BY <1>5, <1>6, <1>7, <1>8, <1>9 DEF Next, Call

\* At the start nothing is checked out.
LEMMA CountInit == Init => JobInv /\ CountInv
<1> SUFFICES ASSUME Init PROVE JobInv /\ CountInv
  OBVIOUS
<1>1. JobInv
  BY DEF Init, JobInv
<1>2. InUseInv
  <2>1. held \in [Addr -> Nat] /\ \A a \in Addr : held[a] = 0
    BY DEF Init
  <2>2. SumFunctionOnSet(held, Addr) = 0
    BY <2>1, SumZero, PoolConstants
  <2>3. SumFunctionOnSet(strays, Addr) \in Nat
    BY SumNatural, PoolConstants DEF Init
  <2> QED BY <2>2, <2>3 DEF Init, InUseInv
<1>3. ASSUME NEW a \in Addr PROVE DestInv(a) /\ ActiveInv(a) /\ ExactInv(a)
  <2>1. Owing(a) = {} /\ Owed(a) = {} /\ Cardinality({}) = 0
    BY FS_EmptySet DEF Init, Owing, Owed, BeforePutRecord, InserterPCs
  <2>2. held[a] = 0 /\ strays[a] = 0 /\ dest_in_use[a] = 0 /\ active[a] = 0 /\ a \notin actives
    BY DEF Init
  <2> QED BY <2>1, <2>2 DEF DestInv, ActiveInv, ExactInv, Claims
<1> QED BY <1>1, <1>2, <1>3 DEF CountInv

\* The inductive invariant holds in every reachable state.
LEMMA CountAlways == Spec => [](TypeOK /\ PendingExact /\ JobInv /\ CountInv)
<1>1. TypeOK /\ JobInv /\ CountInv /\ [Next]_vars => (JobInv /\ CountInv)'
  BY JobStep, CountStep
<1> QED BY <1>1, CountInit, PoolTypeCorrect, PTL DEF Spec

\* However operations interleave, pending_creates is exactly the connects under way,
\* and in_use of the pool and of every destination the streams that are checked out,
\* short by at most one for each stream that put or release was given and get never
\* handed out: no other decrement of get, put, release or refresh is lost or doubled.
THEOREM PoolCountersExact == Spec => []DestCountersExact
<1>1. PendingExact /\ CountInv => DestCountersExact
  BY DEF PendingExact, CountInv, InUseInv, DestInv, DestCountersExact
<1> QED BY <1>1, CountAlways, PTL

\* Whenever no operation is under way the count of active connections that
\* stats() reports is at most the streams checked out and those of puts that
\* panicked, exactly that where no increment raced a removal and no stray stream came
\* back, and there is no entry where there is neither; whichever way the counter has
\* wrapped in between.
THEOREM PoolActiveReported == Spec => []ActiveReported
<1>1. TypeOK /\ CountInv => ActiveReported
  <2> SUFFICES ASSUME TypeOK, CountInv, enabled, Settled, NEW a \in Addr
               PROVE  LET out == held[a] + Cardinality(Abandoned(a)) IN
                      /\ active[a] <= out
                      /\ a \in actives => out > 0
                      /\ a \notin raced /\ strays[a] = 0 => active[a] = out
    BY DEF ActiveReported
  <2>1. Removers(a) = {} /\ Owed(a) = Abandoned(a)
    BY DEF Settled, Quiet, Removers, Owed, Owing, Abandoned, BeforePutRecord, InserterPCs
  <2>2. Claims(a) = held[a] + Cardinality(Abandoned(a))
    BY <2>1 DEF Claims
  <2>3. active[a] \in Nat /\ Wrap \in Nat /\ Wrap > 1 /\ Claims(a) \in Nat
    <3>1. IsFiniteSet(Abandoned(a))
      BY PoolConstants, FS_Subset, Abandoned(a) \subseteq Tasks DEF Abandoned
    <3> QED BY <3>1, <2>2, FS_CardinalityType, PoolConstants DEF TypeOK, Words
  <2> QED BY <2>1, <2>2, <2>3 DEF CountInv, ActiveInv, ExactInv
<1> QED BY <1>1, CountAlways, PTL
=============================================================================
