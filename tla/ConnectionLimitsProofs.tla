----------------------- MODULE ConnectionLimitsProofs -----------------------
(***************************************************************************)
(* Proofs about ConnectionLimits, for every number of users, handlers and  *)
(* threads and every pair of limits.                                       *)
(***************************************************************************)
EXTENDS ConnectionLimits, FiniteSetTheorems, TLAPS

-----------------------------------------------------------------------------
(* The inductive invariant                                                 *)

\* Handlers that have passed a check and have not raised its counter yet.
PassedUser(u) == {c \in Conns : pc[c] = "inc_user" /\ user[c] = u}
PassedGlobal  == {c \in Conns : pc[c] \in {"check_user", "inc_user", "inc_total"}}

\* Handlers that still have to report a first or a last connection.
Activating   == {c \in Conns : pc[c] = "activate" \/ (pc[c] = "inc_total" /\ edge[c])}
Deactivating == {c \in Conns : pc[c] = "deactivate" \/ (pc[c] = "dec_total" /\ edge[c])}

\* No more handlers are inside the counters than there are threads.
ThreadsBound == Cardinality(Inside) <= Threads

\* A counter and the handlers about to raise it stay within the overshoot.
UserRoom ==
  \A u \in Users :
    user_connections[u] + Cardinality(PassedUser(u)) <= Overshoot(MaxPerUser)
GlobalRoom == total_connections + Cardinality(PassedGlobal) <= Overshoot(MaxGlobal)

\* The gauge lags behind the active users by exactly the reports still to come.
GaugeLags ==
  gauge + Cardinality(Activating) = Cardinality(ActiveUsers) + Cardinality(Deactivating)

\* Two handlers never report the same user's first connection at a time.
OneActivation == \A c, d \in Activating : user[c] = user[d] => c = d

IInv ==
  /\ TypeOK /\ ThreadsBound /\ UserRoom /\ GlobalRoom
  /\ CountersExact /\ GaugeLags /\ OneActivation

-----------------------------------------------------------------------------
(* Counting a set that a step changes in one element                       *)

Num(b) == IF b THEN 1 ELSE 0

\* T is S but for one element, which was in S iff before and is in T iff after.
Delta(S, T, before, after) ==
  /\ Cardinality(S) \in Nat /\ Cardinality(T) \in Nat
  /\ Cardinality(T) + Num(before) = Cardinality(S) + Num(after)

\* Sets that agree outside c differ in size by c's membership only.
LEMMA OneElement ==
  ASSUME NEW S, NEW T, NEW c, IsFiniteSet(S), IsFiniteSet(T), S \ {c} = T \ {c}
  PROVE  Delta(S, T, c \in S, c \in T)
<1>1. Cardinality(S) \in Nat /\ Cardinality(T) \in Nat
  BY FS_CardinalityType
<1>2. Cardinality(S \ {c}) = IF c \in S THEN Cardinality(S) - 1 ELSE Cardinality(S)
  BY FS_RemoveElement
<1>3. Cardinality(T \ {c}) = IF c \in T THEN Cardinality(T) - 1 ELSE Cardinality(T)
  BY FS_RemoveElement
<1> QED BY <1>1, <1>2, <1>3 DEF Delta, Num

\* The sizes of all the sets of handlers after a step of handler c.
Counts(c) ==
  /\ Delta(Inside, Inside', pc[c] \in Entering \union Leaving, pc'[c] \in Entering \union Leaving)
  /\ Delta(PassedGlobal, PassedGlobal', pc[c] \in {"check_user", "inc_user", "inc_total"},
                                        pc'[c] \in {"check_user", "inc_user", "inc_total"})
  /\ Delta(HeldInTotal, HeldInTotal', pc[c] \in {"activate", "open", "dec_total"},
                                      pc'[c] \in {"activate", "open", "dec_total"})
  /\ Delta(Activating, Activating', pc[c] = "activate" \/ (pc[c] = "inc_total" /\ edge[c]),
                                    pc'[c] = "activate" \/ (pc'[c] = "inc_total" /\ edge'[c]))
  /\ Delta(Deactivating, Deactivating', pc[c] = "deactivate" \/ (pc[c] = "dec_total" /\ edge[c]),
                                        pc'[c] = "deactivate" \/ (pc'[c] = "dec_total" /\ edge'[c]))

\* ... and of the sets that are kept per user.
UserCounts(c, u) ==
  /\ Delta(PassedUser(u), PassedUser(u)', pc[c] = "inc_user" /\ user[c] = u,
                                          pc'[c] = "inc_user" /\ user'[c] = u)
  /\ Delta(HeldByUser(u), HeldByUser(u)',
           pc[c] \in {"inc_total", "activate", "open"} /\ user[c] = u,
           pc'[c] \in {"inc_total", "activate", "open"} /\ user'[c] = u)

\* Subsets of the handlers are finite.
LEMMA ConnsFinite == ASSUME NEW S \in SUBSET Conns PROVE IsFiniteSet(S)
  BY LimitsConstants, FS_Subset

\* A step of handler c leaves every other handler where it is.
Frame(c) ==
  \A d \in Conns \ {c} : pc'[d] = pc[d] /\ user'[d] = user[d] /\ edge'[d] = edge[d]

\* Such a step changes every set of handlers in c at most.
LEMMA Counting ==
  ASSUME NEW c \in Conns, Frame(c)
  PROVE  Counts(c) /\ \A u \in Users : UserCounts(c, u)
<1>1. Delta(Inside, Inside', c \in Inside, c \in Inside')
  <2>1. Inside \ {c} = Inside' \ {c}
    BY DEF Frame, Inside
  <2>2. IsFiniteSet(Inside) /\ IsFiniteSet(Inside')
    BY ConnsFinite DEF Inside
  <2> QED BY <2>1, <2>2, OneElement
<1>2. Delta(PassedGlobal, PassedGlobal', c \in PassedGlobal, c \in PassedGlobal')
  <2>1. PassedGlobal \ {c} = PassedGlobal' \ {c}
    BY DEF Frame, PassedGlobal
  <2>2. IsFiniteSet(PassedGlobal) /\ IsFiniteSet(PassedGlobal')
    BY ConnsFinite DEF PassedGlobal
  <2> QED BY <2>1, <2>2, OneElement
<1>3. Delta(HeldInTotal, HeldInTotal', c \in HeldInTotal, c \in HeldInTotal')
  <2>1. HeldInTotal \ {c} = HeldInTotal' \ {c}
    BY DEF Frame, HeldInTotal
  <2>2. IsFiniteSet(HeldInTotal) /\ IsFiniteSet(HeldInTotal')
    BY ConnsFinite DEF HeldInTotal
  <2> QED BY <2>1, <2>2, OneElement
<1>4. Delta(Activating, Activating', c \in Activating, c \in Activating')
  <2>1. Activating \ {c} = Activating' \ {c}
    BY DEF Frame, Activating
  <2>2. IsFiniteSet(Activating) /\ IsFiniteSet(Activating')
    BY ConnsFinite DEF Activating
  <2> QED BY <2>1, <2>2, OneElement
<1>5. Delta(Deactivating, Deactivating', c \in Deactivating, c \in Deactivating')
  <2>1. Deactivating \ {c} = Deactivating' \ {c}
    BY DEF Frame, Deactivating
  <2>2. IsFiniteSet(Deactivating) /\ IsFiniteSet(Deactivating')
    BY ConnsFinite DEF Deactivating
  <2> QED BY <2>1, <2>2, OneElement
<1>6. Counts(c)
  <2>1. (c \in Inside) = (pc[c] \in Entering \union Leaving)
        /\ (c \in Inside') = (pc'[c] \in Entering \union Leaving)
    BY DEF Inside
  <2>2. (c \in PassedGlobal) = (pc[c] \in {"check_user", "inc_user", "inc_total"})
        /\ (c \in PassedGlobal') = (pc'[c] \in {"check_user", "inc_user", "inc_total"})
    BY DEF PassedGlobal
  <2>3. (c \in HeldInTotal) = (pc[c] \in {"activate", "open", "dec_total"})
        /\ (c \in HeldInTotal') = (pc'[c] \in {"activate", "open", "dec_total"})
    BY DEF HeldInTotal
  <2>4. (c \in Activating) = (pc[c] = "activate" \/ (pc[c] = "inc_total" /\ edge[c]))
        /\ (c \in Activating') = (pc'[c] = "activate" \/ (pc'[c] = "inc_total" /\ edge'[c]))
    BY DEF Activating
  <2>5. (c \in Deactivating) = (pc[c] = "deactivate" \/ (pc[c] = "dec_total" /\ edge[c]))
        /\ (c \in Deactivating') = (pc'[c] = "deactivate" \/ (pc'[c] = "dec_total" /\ edge'[c]))
    BY DEF Deactivating
  <2> QED BY <1>1, <1>2, <1>3, <1>4, <1>5, <2>1, <2>2, <2>3, <2>4, <2>5 DEF Counts
<1>7. ASSUME NEW u \in Users PROVE UserCounts(c, u)
  <2>1. PassedUser(u) \ {c} = PassedUser(u)' \ {c} /\ HeldByUser(u) \ {c} = HeldByUser(u)' \ {c}
    BY DEF Frame, PassedUser, HeldByUser
  <2>2. IsFiniteSet(PassedUser(u)) /\ IsFiniteSet(PassedUser(u)')
        /\ IsFiniteSet(HeldByUser(u)) /\ IsFiniteSet(HeldByUser(u)')
    BY ConnsFinite DEF PassedUser, HeldByUser
  <2>3. /\ Delta(PassedUser(u), PassedUser(u)', c \in PassedUser(u), c \in PassedUser(u)')
        /\ Delta(HeldByUser(u), HeldByUser(u)', c \in HeldByUser(u), c \in HeldByUser(u)')
    BY <2>1, <2>2, OneElement
  <2>4. (c \in PassedUser(u)) = (pc[c] = "inc_user" /\ user[c] = u)
        /\ (c \in PassedUser(u)') = (pc'[c] = "inc_user" /\ user'[c] = u)
    BY DEF PassedUser
  <2>5. (c \in HeldByUser(u)) = (pc[c] \in {"inc_total", "activate", "open"} /\ user[c] = u)
        /\ (c \in HeldByUser(u)') = (pc'[c] \in {"inc_total", "activate", "open"} /\ user'[c] = u)
    BY DEF HeldByUser
  <2> QED BY <2>3, <2>4, <2>5 DEF UserCounts
<1> QED BY <1>6, <1>7

-----------------------------------------------------------------------------
(* One step                                                                *)

\* What handler c may do.
Act(c) ==
  \/ \E u \in Users : CheckGlobal(c, u)
  \/ CheckUser(c) \/ Refuse(c) \/ IncUser(c) \/ IncTotal(c) \/ Activate(c)
  \/ DecUser(c) \/ DecTotal(c) \/ Deactivate(c)

\* Each action is a step of one handler.
LEMMA ActFrames ==
  ASSUME NEW c \in Conns, TypeOK, Act(c)
  PROVE  Frame(c)
  BY DEF Act, Frame, TypeOK, Goto, CheckGlobal, CheckUser, Refuse, IncUser, IncTotal, Activate,
         DecUser, DecTotal, Deactivate

\* A holder keeps its counters above zero.
LEMMA HolderCounted ==
  ASSUME TypeOK, CountersExact, NEW c \in Conns
  PROVE  /\ pc[c] \in {"inc_total", "activate", "open"} => user_connections[user[c]] > 0
         /\ pc[c] \in {"activate", "open", "dec_total"} => total_connections > 0
<1>1. IsFiniteSet(HeldByUser(user[c])) /\ IsFiniteSet(HeldInTotal)
  BY ConnsFinite DEF HeldByUser, HeldInTotal
<1>2. user[c] \in Users /\ user_connections[user[c]] \in Nat /\ total_connections \in Nat
  BY DEF TypeOK
<1>3. ASSUME pc[c] \in {"inc_total", "activate", "open"} PROVE user_connections[user[c]] > 0
  <2>1. HeldByUser(user[c]) # {}
    BY <1>3 DEF HeldByUser
  <2>2. Cardinality(HeldByUser(user[c])) # 0
    BY <1>1, <2>1, FS_EmptySet
  <2> QED BY <1>2, <2>2 DEF CountersExact
<1>4. ASSUME pc[c] \in {"activate", "open", "dec_total"} PROVE total_connections > 0
  <2>1. HeldInTotal # {}
    BY <1>4 DEF HeldInTotal
  <2>2. Cardinality(HeldInTotal) # 0
    BY <1>1, <2>1, FS_EmptySet
  <2> QED BY <1>2, <2>2 DEF CountersExact
<1> QED BY <1>3, <1>4

\* The counters stay natural numbers: whoever gives a connection back holds one.
LEMMA TypeStep ==
  ASSUME TypeOK, CountersExact, NEW c \in Conns, Act(c)
  PROVE  TypeOK'
<1>1. /\ pc[c] = "open" => user_connections[user[c]] > 0
      /\ pc[c] = "dec_total" => total_connections > 0
  BY HolderCounted
<1>2. pc' \in [Conns -> PCs] /\ user' \in [Conns -> Users] /\ gauge' \in Int
  BY DEF Act, TypeOK, Goto, CheckGlobal, CheckUser, Refuse, IncUser, IncTotal, Activate,
         DecUser, DecTotal, Deactivate, PCs, Entering, Leaving
<1>3. user_connections' \in [Users -> Nat] /\ total_connections' \in Nat
  BY <1>1 DEF Act, TypeOK, Goto, CheckGlobal, CheckUser, Refuse, IncUser, IncTotal, Activate,
         DecUser, DecTotal, Deactivate
<1>4. edge' \in [Conns -> BOOLEAN]
  <2>1. CASE edge' = edge
    BY <2>1 DEF TypeOK
  <2>2. CASE \E b \in BOOLEAN : edge' = [edge EXCEPT ![c] = b]
    BY <2>2, Zenon DEF TypeOK
  <2>3. (user_connections[user[c]] + 1 = 1) \in BOOLEAN /\ (user_connections[user[c]] <= 1) \in BOOLEAN
    OBVIOUS
  <2> QED
    BY <2>1, <2>2, <2>3, Zenon DEF Act, CheckGlobal, CheckUser, Refuse, IncUser, IncTotal,
         Activate, DecUser, DecTotal, Deactivate
<1> QED BY <1>2, <1>3, <1>4 DEF TypeOK

\* A handler enters the counters only while a thread is free.
LEMMA ThreadsStep ==
  ASSUME TypeOK, ThreadsBound, NEW c \in Conns, Act(c)
  PROVE  ThreadsBound'
<1>1. Counts(c)
  BY ActFrames, Counting
<1>2. pc[c] \in PCs /\ Threads \in Nat
  BY LimitsConstants DEF TypeOK
<1>5. ASSUME NEW u \in Users, CheckGlobal(c, u) PROVE ThreadsBound'
  BY <1>5, <1>1, <1>2 DEF CheckGlobal, Goto, Counts, Delta, Num, ThreadsBound, TypeOK, Entering, Leaving
<1>6. CASE CheckUser(c)
  BY <1>6, <1>1, <1>2 DEF CheckUser, Goto, Counts, Delta, Num, ThreadsBound, TypeOK, Entering, Leaving
<1>7. CASE Refuse(c)
  BY <1>7, <1>1, <1>2 DEF Refuse, Goto, Counts, Delta, Num, ThreadsBound, TypeOK, Entering, Leaving
<1>8. CASE IncUser(c)
  BY <1>8, <1>1, <1>2 DEF IncUser, Goto, Counts, Delta, Num, ThreadsBound, TypeOK, Entering, Leaving
<1>9. CASE IncTotal(c)
  BY <1>9, <1>1, <1>2 DEF IncTotal, Goto, Counts, Delta, Num, ThreadsBound, TypeOK, Entering, Leaving
<1>10. CASE Activate(c)
  BY <1>10, <1>1, <1>2 DEF Activate, Goto, Counts, Delta, Num, ThreadsBound, TypeOK, Entering, Leaving
<1>11. CASE DecUser(c)
  BY <1>11, <1>1, <1>2 DEF DecUser, Goto, Counts, Delta, Num, ThreadsBound, TypeOK, Entering, Leaving
<1>12. CASE DecTotal(c)
  BY <1>12, <1>1, <1>2 DEF DecTotal, Goto, Counts, Delta, Num, ThreadsBound, TypeOK, Entering, Leaving
<1>13. CASE Deactivate(c)
  BY <1>13, <1>1, <1>2 DEF Deactivate, Goto, Counts, Delta, Num, ThreadsBound, TypeOK, Entering, Leaving
<1> QED BY <1>5, <1>6, <1>7, <1>8, <1>9, <1>10, <1>11, <1>12, <1>13 DEF Act

\* The counters count the handlers that hold them.
LEMMA CountersStep ==
  ASSUME TypeOK, CountersExact, NEW c \in Conns, Act(c)
  PROVE  CountersExact'
<1>1. Counts(c) /\ \A u \in Users : UserCounts(c, u)
  BY ActFrames, Counting
<1>2. user[c] \in Users
  BY DEF TypeOK
<1>3. total_connections' = Cardinality(HeldInTotal')
  BY <1>1 DEF Act, Goto, CheckGlobal, CheckUser, Refuse, IncUser, IncTotal, Activate, DecUser,
     DecTotal, Deactivate, Counts, Delta, Num, CountersExact, TypeOK
<1>4. ASSUME NEW u \in Users PROVE user_connections'[u] = Cardinality(HeldByUser(u)')
  <2>1. UserCounts(c, u) /\ user_connections[u] = Cardinality(HeldByUser(u))
    BY <1>1 DEF CountersExact
  <2> QED
    BY <2>1, <1>2 DEF Act, Goto, CheckGlobal, CheckUser, Refuse, IncUser, IncTotal, Activate,
       DecUser, DecTotal, Deactivate, UserCounts, Delta, Num, TypeOK
<1> QED BY <1>3, <1>4 DEF CountersExact

\* Passing a check leaves room for one connection per thread at the most.
LEMMA RoomStep ==
  ASSUME TypeOK, ThreadsBound', UserRoom, GlobalRoom, NEW c \in Conns, Act(c)
  PROVE  UserRoom' /\ GlobalRoom'
<1>1. Counts(c) /\ \A u \in Users : UserCounts(c, u)
  BY ActFrames, Counting
<1>2. user[c] \in Users /\ MaxPerUser \in Nat /\ MaxGlobal \in Nat /\ Threads \in Nat
  BY LimitsConstants DEF TypeOK
<1>3. IsFiniteSet(Inside')
  BY ConnsFinite DEF Inside
<1>4. Cardinality(PassedGlobal') <= Threads
  <2>1. PassedGlobal' \subseteq Inside'
    BY DEF PassedGlobal, Inside, Entering
  <2>2. Cardinality(PassedGlobal') <= Cardinality(Inside')
    BY <2>1, <1>3, FS_Subset
  <2> QED BY <1>1, <1>2, <2>2 DEF ThreadsBound, Counts, Delta
<1>5. ASSUME NEW u \in Users PROVE Cardinality(PassedUser(u)') <= Threads
  <2>1. PassedUser(u)' \subseteq Inside'
    BY DEF PassedUser, Inside, Entering
  <2>2. Cardinality(PassedUser(u)') <= Cardinality(Inside')
    BY <2>1, <1>3, FS_Subset
  <2> QED BY <1>1, <1>2, <2>2 DEF ThreadsBound, Counts, UserCounts, Delta
<1>6. GlobalRoom'
  BY <1>1, <1>2, <1>4 DEF Act, Goto, CheckGlobal, CheckUser, Refuse, IncUser, IncTotal, Activate,
     DecUser, DecTotal, Deactivate, Counts, Delta, Num, GlobalRoom, Overshoot, TypeOK
<1>7. ASSUME NEW u \in Users
      PROVE  user_connections'[u] + Cardinality(PassedUser(u)') <= Overshoot(MaxPerUser)
  <2>1. UserCounts(c, u) /\ user_connections[u] \in Nat
        /\ user_connections[u] + Cardinality(PassedUser(u)) <= Overshoot(MaxPerUser)
    BY <1>1 DEF UserRoom, TypeOK
  <2>2. Cardinality(PassedUser(u)') <= Threads
    BY <1>5
  <2> QED
    BY <2>1, <2>2, <1>2 DEF Act, Goto, CheckGlobal, CheckUser, Refuse, IncUser, IncTotal,
       Activate, DecUser, DecTotal, Deactivate, UserCounts, Delta, Num, Overshoot, TypeOK
<1> QED BY <1>6, <1>7 DEF UserRoom

\* The gauge moves with the reports, and a report is due exactly when a count
\* has become 1 or 0.
LEMMA GaugeStep ==
  ASSUME TypeOK, CountersExact, GaugeLags, NEW c \in Conns, Act(c)
  PROVE  GaugeLags'
<1> DEFINE u == user[c]
<1>1. Counts(c)
  BY ActFrames, Counting
<1>2. u \in Users /\ user_connections[u] \in Nat /\ gauge \in Int /\ edge[c] \in BOOLEAN
  BY DEF TypeOK
<1>3. pc[c] = "open" => user_connections[u] > 0
  BY HolderCounted
<1>4. \A v \in Users \ {u} : user_connections'[v] = user_connections[v]
  BY <1>2 DEF Act, Goto, CheckGlobal, CheckUser, Refuse, IncUser, IncTotal, Activate,
     DecUser, DecTotal, Deactivate, TypeOK
<1>5. Delta(ActiveUsers, ActiveUsers', user_connections[u] > 0, user_connections'[u] > 0)
  <2>1. IsFiniteSet(ActiveUsers) /\ IsFiniteSet(ActiveUsers')
    BY LimitsConstants, FS_Subset DEF ActiveUsers
  <2>2. ActiveUsers \ {u} = ActiveUsers' \ {u}
    BY <1>4 DEF ActiveUsers
  <2>3. Delta(ActiveUsers, ActiveUsers', u \in ActiveUsers, u \in ActiveUsers')
    BY <2>1, <2>2, OneElement
  <2>4. (u \in ActiveUsers) = (user_connections[u] > 0)
        /\ (u \in ActiveUsers') = (user_connections'[u] > 0)
    BY <1>2 DEF ActiveUsers
  <2> QED BY <2>3, <2>4
<1>6. CASE IncUser(c) \/ DecUser(c)
  <2>1. Delta(Activating, Activating', FALSE, pc'[c] = "inc_total" /\ edge'[c])
    BY <1>1, <1>6 DEF IncUser, DecUser, Goto, Counts, TypeOK
  <2>2. Delta(Deactivating, Deactivating', FALSE, pc'[c] = "dec_total" /\ edge'[c])
    BY <1>1, <1>6 DEF IncUser, DecUser, Goto, Counts, TypeOK
  <2>3. CASE IncUser(c)
    <3>1. pc'[c] = "inc_total" /\ gauge' = gauge /\ user_connections'[u] = user_connections[u] + 1
      BY <2>3, <1>2 DEF IncUser, Goto, TypeOK
    <3>2. edge'[c] <=> user_connections[u] + 1 = 1
      BY <2>3, Zenon DEF IncUser, TypeOK
    <3> QED BY <2>1, <2>2, <3>1, <3>2, <1>2, <1>5 DEF Delta, Num, GaugeLags
  <2>4. CASE DecUser(c)
    <3>1. /\ pc[c] = "open" /\ pc'[c] = "dec_total" /\ gauge' = gauge
          /\ user_connections'[u] = user_connections[u] - 1
      BY <2>4, <1>2 DEF DecUser, Goto, TypeOK
    <3>2. edge'[c] <=> user_connections[u] <= 1
      BY <2>4, Zenon DEF DecUser, TypeOK
    <3> QED BY <2>1, <2>2, <3>1, <3>2, <1>2, <1>3, <1>5 DEF Delta, Num, GaugeLags
  <2> QED BY <1>6, <2>3, <2>4
<1>7. CASE ~(IncUser(c) \/ DecUser(c))
  <2>1. user_connections' = user_connections /\ edge' = edge
    BY <1>7 DEF Act, Goto, CheckGlobal, CheckUser, Refuse, IncUser, IncTotal, Activate,
     DecUser, DecTotal, Deactivate
  <2>2. Cardinality(ActiveUsers) \in Nat /\ Cardinality(ActiveUsers') = Cardinality(ActiveUsers)
    BY <2>1, <1>5 DEF Delta, Num
  <2>3. ASSUME NEW v \in Users, CheckGlobal(c, v) PROVE GaugeLags'
    BY <2>1, <2>2, <2>3, <1>1, <1>2 DEF CheckGlobal, Goto, Counts, Delta, Num, GaugeLags, TypeOK
  <2>4. CASE CheckUser(c)
    BY <2>4, <2>1, <2>2, <1>1, <1>2 DEF CheckUser, Goto, Counts, Delta, Num, GaugeLags, TypeOK
  <2>5. CASE Refuse(c)
    BY <2>5, <2>1, <2>2, <1>1, <1>2 DEF Refuse, Goto, Counts, Delta, Num, GaugeLags, TypeOK
  <2>6. CASE IncTotal(c)
    BY <2>6, <2>1, <2>2, <1>1, <1>2 DEF IncTotal, Goto, Counts, Delta, Num, GaugeLags, TypeOK
  <2>7. CASE Activate(c)
    BY <2>7, <2>1, <2>2, <1>1, <1>2 DEF Activate, Goto, Counts, Delta, Num, GaugeLags, TypeOK
  <2>8. CASE DecTotal(c)
    BY <2>8, <2>1, <2>2, <1>1, <1>2 DEF DecTotal, Goto, Counts, Delta, Num, GaugeLags, TypeOK
  <2>9. CASE Deactivate(c)
    <3>1. pc[c] = "deactivate" /\ pc'[c] = "idle" /\ gauge' = gauge - 1
      BY <2>9 DEF Deactivate, Goto, TypeOK
    <3>2. Delta(Activating, Activating', FALSE, FALSE)
      BY <3>1, <1>1 DEF Counts
    <3>3. Delta(Deactivating, Deactivating', TRUE, FALSE)
      BY <3>1, <1>1 DEF Counts
    <3> QED BY <3>1, <3>2, <3>3, <2>2, <1>2 DEF Delta, Num, GaugeLags
  <2> QED BY <1>7, <2>3, <2>4, <2>5, <2>6, <2>7, <2>8, <2>9 DEF Act
<1> QED BY <1>6, <1>7

\* A second first connection of a user would need a count of zero, which the
\* handler that reports the first one rules out.
LEMMA ActivationStep ==
  ASSUME TypeOK, CountersExact, OneActivation, NEW c \in Conns, Act(c)
  PROVE  OneActivation'
<1>1. Frame(c)
  BY ActFrames
<1>2. \A d \in Activating : user_connections[user[d]] > 0
  BY HolderCounted DEF Activating
<1>3. ASSUME NEW d \in Conns \ {c}
      PROVE  (d \in Activating') = (d \in Activating) /\ user'[d] = user[d]
  BY <1>1 DEF Frame, Activating
<1>4. ASSUME c \in Activating'
      PROVE  user'[c] = user[c] /\ (c \in Activating \/ user_connections[user[c]] = 0)
  <2>1. pc'[c] = "activate" \/ (pc'[c] = "inc_total" /\ edge'[c])
    BY <1>4 DEF Activating
  <2>2. pc \in [Conns -> PCs] /\ user_connections[user[c]] \in Nat
    BY DEF TypeOK
  <2>3. CASE IncUser(c)
    <3>1. edge'[c] <=> user_connections[user[c]] + 1 = 1
      BY <2>3, Zenon DEF IncUser, TypeOK
    <3>2. pc'[c] = "inc_total" /\ user' = user
      BY <2>2, <2>3 DEF IncUser, Goto
    <3> QED BY <2>1, <2>2, <3>1, <3>2
  <2>4. CASE IncTotal(c)
    BY <2>1, <2>2, <2>4 DEF IncTotal, Goto, Activating
  <2>5. CASE ~IncUser(c) /\ ~IncTotal(c)
    BY <2>1, <2>2, <2>5 DEF Act, Goto, CheckGlobal, CheckUser, Refuse, Activate, DecUser, DecTotal,
       Deactivate
  <2> QED BY <2>3, <2>4, <2>5
<1>5. ASSUME NEW d \in Activating', d # c, c \in Activating', user'[d] = user'[c]
      PROVE  FALSE
  <2>1. d \in Activating /\ user[d] = user[c] /\ user_connections[user[d]] > 0
    BY <1>2, <1>3, <1>4, <1>5 DEF Activating
  <2>2. user[c] \in Users /\ user_connections[user[c]] \in Nat
    BY DEF TypeOK
  <2> QED BY <2>1, <2>2, <1>4, <1>5 DEF OneActivation
<1>6. ASSUME NEW d \in Activating', NEW e \in Activating', user'[d] = user'[e]
      PROVE  d = e
  <2>1. d \in Conns /\ e \in Conns
    BY DEF Activating
  <2>2. CASE d # c /\ e # c
    BY <2>1, <2>2, <1>3, <1>6 DEF OneActivation
  <2>3. CASE d = c \/ e = c
    BY <2>3, <1>5, <1>6
  <2> QED BY <2>2, <2>3
<1> QED BY <1>6 DEF OneActivation

-----------------------------------------------------------------------------
(* The theorems                                                            *)

\* No handler is inside, so nothing is counted and nothing is due.
LEMMA InitInv == Init => IInv
<1> SUFFICES ASSUME Init PROVE IInv
  OBVIOUS
<1>1. TypeOK
  BY DEF Init, TypeOK, PCs
<1>2. Inside = {} /\ PassedGlobal = {} /\ HeldInTotal = {} /\ Activating = {} /\ Deactivating = {}
      /\ ActiveUsers = {}
  BY DEF Init, Inside, PassedGlobal, HeldInTotal, Activating, Deactivating, ActiveUsers, Entering,
     Leaving
<1>3. \A u \in Users : PassedUser(u) = {} /\ HeldByUser(u) = {}
  BY DEF Init, PassedUser, HeldByUser
<1>4. Cardinality({}) = 0
  BY FS_EmptySet
<1>5. Overshoot(MaxPerUser) \in Nat /\ Overshoot(MaxGlobal) \in Nat /\ Threads \in Nat
  BY LimitsConstants DEF Overshoot
<1>6. total_connections = 0 /\ gauge = 0 /\ \A u \in Users : user_connections[u] = 0
  BY DEF Init
<1>7. ThreadsBound /\ UserRoom /\ GlobalRoom
  BY <1>2, <1>3, <1>4, <1>5, <1>6 DEF ThreadsBound, UserRoom, GlobalRoom
<1>8. CountersExact
  BY <1>2, <1>3, <1>4, <1>6 DEF CountersExact
<1>9. GaugeLags /\ OneActivation
  BY <1>2, <1>4, <1>6 DEF GaugeLags, OneActivation
<1> QED BY <1>1, <1>7, <1>8, <1>9 DEF IInv

\* The counters are consistent with the handlers' positions in every state.
THEOREM LimitsInvariant == Spec => []IInv
<1>1. IInv /\ [Next]_vars => IInv'
  <2> SUFFICES ASSUME IInv, [Next]_vars PROVE IInv'
    OBVIOUS
  <2>1. ASSUME NEW c \in Conns, Act(c) PROVE IInv'
    <3>1. TypeOK' /\ ThreadsBound' /\ CountersExact'
      BY <2>1, TypeStep, ThreadsStep, CountersStep DEF IInv
    <3>2. UserRoom' /\ GlobalRoom'
      BY <2>1, <3>1, RoomStep DEF IInv
    <3>3. GaugeLags' /\ OneActivation'
      BY <2>1, GaugeStep, ActivationStep DEF IInv
    <3> QED BY <3>1, <3>2, <3>3 DEF IInv
  <2>2. CASE UNCHANGED vars
    BY <2>2 DEF vars, IInv, TypeOK, ThreadsBound, Inside, UserRoom, PassedUser, GlobalRoom,
       PassedGlobal, CountersExact, HeldByUser, HeldInTotal, GaugeLags, Activating, ActiveUsers,
       Deactivating, OneActivation
  <2>3. Next => \E c \in Conns : Act(c)
    BY DEF Next, Act
  <2> QED BY <2>1, <2>2, <2>3
<1> QED BY InitInv, <1>1, PTL DEF Spec

\* The variables keep their types; the counters never wrap below zero.
THEOREM LimitsTypeCorrect == Spec => []TypeOK
<1>1. IInv => TypeOK
  BY DEF IInv
<1> QED BY LimitsInvariant, <1>1, PTL

\* However many handlers race through the checks, a limit is exceeded by fewer
\* connections than there are worker threads.
THEOREM LimitsBounded == Spec => []LimitsOvershoot
<1>1. IInv => LimitsOvershoot
  <2> SUFFICES ASSUME IInv PROVE LimitsOvershoot
    OBVIOUS
  <2>1. Cardinality(PassedGlobal) \in Nat /\ \A u \in Users : Cardinality(PassedUser(u)) \in Nat
    BY ConnsFinite, FS_CardinalityType DEF PassedGlobal, PassedUser
  <2>2. Overshoot(MaxPerUser) \in Nat /\ Overshoot(MaxGlobal) \in Nat
    BY LimitsConstants DEF Overshoot
  <2> QED BY <2>1, <2>2 DEF IInv, TypeOK, UserRoom, GlobalRoom, LimitsOvershoot
<1> QED BY LimitsInvariant, <1>1, PTL

\* No path through check, increment and guard leaks or doubles a count.
THEOREM LimitsCountersExact == Spec => []CountersExact
<1>1. IInv => CountersExact
  BY DEF IInv
<1> QED BY LimitsInvariant, <1>1, PTL

\* The gauge of active users is never negative and is exact when it is at rest.
THEOREM LimitsGaugeExact == Spec => []GaugeExact
<1>1. IInv => GaugeExact
  <2> SUFFICES ASSUME IInv PROVE GaugeExact
    OBVIOUS
  <2>1. IsFiniteSet(Activating) /\ IsFiniteSet(Deactivating)
    BY ConnsFinite DEF Activating, Deactivating
  <2>2. IsFiniteSet(ActiveUsers)
    BY LimitsConstants, FS_Subset DEF ActiveUsers
  <2>3. /\ Cardinality(Activating) \in Nat /\ Cardinality(Deactivating) \in Nat
        /\ Cardinality(ActiveUsers) \in Nat
    BY <2>1, <2>2, FS_CardinalityType
  <2>4. Cardinality(Activating) <= Cardinality(ActiveUsers)
    <3> DEFINE f == [c \in Activating |-> user[c]]
    <3>1. \A c \in Activating : user[c] \in ActiveUsers
      BY HolderCounted DEF IInv, Activating, ActiveUsers, TypeOK
    <3>2. f \in Injection(Activating, ActiveUsers)
      BY <3>1 DEF IInv, OneActivation, Injection, IsInjective
    <3> QED BY <3>2, <2>2, FS_Injection
  <2>5. gauge >= 0
    BY <2>3, <2>4 DEF IInv, TypeOK, GaugeLags
  <2>6. ASSUME Inside = {} PROVE gauge = Cardinality(ActiveUsers)
    <3>1. Activating = {} /\ Deactivating = {}
      BY <2>6 DEF Activating, Deactivating, Inside, Entering, Leaving
    <3>2. Cardinality({}) = 0
      BY FS_EmptySet
    <3> QED BY <3>1, <3>2, <2>3 DEF IInv, TypeOK, GaugeLags
  <2> QED BY <2>5, <2>6 DEF GaugeExact
<1> QED BY LimitsInvariant, <1>1, PTL
=============================================================================
