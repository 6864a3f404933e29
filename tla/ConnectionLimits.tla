-------------------------- MODULE ConnectionLimits --------------------------
(***************************************************************************)
(* The connection limits of the QoS engine: check_and_inc_connection_arc   *)
(* and dec_user_connection_arc of qos/mod.rs with the counters of          *)
(* qos/htb.rs, as every SOCKS4 and SOCKS5 handler calls them.              *)
(*                                                                         *)
(* The counters are separate atomics, read, compared and changed one after *)
(* the other; each access is a step.  There is no await between the first  *)
(* check and the guard, nor in the guard's drop, so a handler that is      *)
(* inside either occupies a worker thread of the runtime.                  *)
(***************************************************************************)
EXTENDS Integers, FiniteSets

CONSTANTS
  Users,
  Conns,      \* the handlers; one serves many connections, one after the other
  Threads,    \* worker threads of the runtime
  MaxPerUser, \* ConnectionLimits.max_connections_per_user
  MaxGlobal   \* ConnectionLimits.max_connections_global

ASSUME LimitsConstants ==
  /\ Users # {} /\ IsFiniteSet(Users) /\ IsFiniteSet(Conns)
  /\ Threads \in Nat \ {0} /\ MaxPerUser \in Nat /\ MaxGlobal \in Nat

VARIABLES
  user_connections,   \* per user: UserBucket.active_connections
  total_connections,  \* HtbQos.total_connections
  gauge,              \* ACTIVE_QOS_USERS
  pc, user,           \* per handler: control, and the user it authenticated
  edge                \* per handler: the count it was returned is 1, or 0 on the way out

vars == <<user_connections, total_connections, gauge, pc, user, edge>>

\* The steps between two awaits, which occupy a thread.
Entering == {"check_user", "inc_user", "inc_total", "activate"}
Leaving  == {"dec_total", "deactivate"}
PCs      == {"idle", "refused", "open"} \union Entering \union Leaving

Inside == {c \in Conns : pc[c] \in Entering \union Leaving}

Init ==
  /\ user_connections = [u \in Users |-> 0]
  /\ total_connections = 0
  /\ gauge = 0
  /\ pc = [c \in Conns |-> "idle"]
  /\ user \in [Conns -> Users]
  /\ edge = [c \in Conns |-> FALSE]

-----------------------------------------------------------------------------
(* check_and_inc_connection_arc                                            *)

Goto(c, from, to) == pc[c] = from /\ pc' = [pc EXCEPT ![c] = to]

\* A request of user u has been authenticated.
CheckGlobal(c, u) ==
  /\ Cardinality(Inside) < Threads
  /\ Goto(c, "idle", IF total_connections >= MaxGlobal THEN "refused" ELSE "check_user")
  /\ user' = [user EXCEPT ![c] = u]
  /\ UNCHANGED <<user_connections, total_connections, gauge, edge>>

\* Mutant of CheckUser: one connection too many is let through.
CheckUserOffByOne(c) ==
  /\ Goto(c, "check_user",
          IF user_connections[user[c]] > MaxPerUser THEN "refused" ELSE "inc_user")
  /\ UNCHANGED <<user_connections, total_connections, gauge, user, edge>>

CheckUser(c) ==
  /\ Goto(c, "check_user",
          IF user_connections[user[c]] >= MaxPerUser THEN "refused" ELSE "inc_user")
  /\ UNCHANGED <<user_connections, total_connections, gauge, user, edge>>

\* The reply ConnectionNotAllowed is sent and the handler returns the error.
Refuse(c) ==
  /\ Goto(c, "refused", "idle")
  /\ UNCHANGED <<user_connections, total_connections, gauge, user, edge>>

\* UserBucket::inc_connections, one fetch_add; the handler keeps its result.
IncUser(c) ==
  /\ Goto(c, "inc_user", "inc_total")
  /\ user_connections' = [user_connections EXCEPT ![user[c]] = @ + 1]
  /\ edge' = [edge EXCEPT ![c] = (user_connections[user[c]] + 1 = 1)]
  /\ UNCHANGED <<total_connections, gauge, user>>

IncTotal(c) ==
  /\ Goto(c, "inc_total", IF edge[c] THEN "activate" ELSE "open")
  /\ total_connections' = total_connections + 1
  /\ UNCHANGED <<user_connections, gauge, user, edge>>

\* The user's first connection: QosMetrics::user_activated.
Activate(c) ==
  /\ Goto(c, "activate", "open")
  /\ gauge' = gauge + 1
  /\ UNCHANGED <<user_connections, total_connections, user, edge>>

-----------------------------------------------------------------------------
(* The drop of ConnectionGuard, however the handler ended                  *)

\* Mutant of DecUser: the value before the subtraction is taken for the rest.
DecUserBefore(c) ==
  /\ Cardinality(Inside) < Threads
  /\ Goto(c, "open", "dec_total")
  /\ user_connections' = [user_connections EXCEPT ![user[c]] = @ - 1]
  /\ edge' = [edge EXCEPT ![c] = (user_connections[user[c]] = 0)]
  /\ UNCHANGED <<total_connections, gauge, user>>

\* UserBucket::dec_connections; its saturating_sub is of the returned value only.
DecUser(c) ==
  /\ Cardinality(Inside) < Threads
  /\ Goto(c, "open", "dec_total")
  /\ user_connections' = [user_connections EXCEPT ![user[c]] = @ - 1]
  /\ edge' = [edge EXCEPT ![c] = (user_connections[user[c]] <= 1)]
  /\ UNCHANGED <<total_connections, gauge, user>>

\* Mutant of DecTotal: a last connection gives two back.
DecTotalTwice(c) ==
  /\ Goto(c, "dec_total", IF edge[c] THEN "deactivate" ELSE "idle")
  /\ total_connections' = IF edge[c] THEN total_connections - 2 ELSE total_connections - 1
  /\ UNCHANGED <<user_connections, gauge, user, edge>>

\* Mutant of DecTotal: only a last connection is given back.
DecTotalLastOnly(c) ==
  /\ Goto(c, "dec_total", IF edge[c] THEN "deactivate" ELSE "idle")
  /\ total_connections' = IF edge[c] THEN total_connections - 1 ELSE total_connections
  /\ UNCHANGED <<user_connections, gauge, user, edge>>

DecTotal(c) ==
  /\ Goto(c, "dec_total", IF edge[c] THEN "deactivate" ELSE "idle")
  /\ total_connections' = total_connections - 1
  /\ UNCHANGED <<user_connections, gauge, user, edge>>

\* The user's last connection: QosMetrics::user_deactivated.
Deactivate(c) ==
  /\ Goto(c, "deactivate", "idle")
  /\ gauge' = gauge - 1
  /\ UNCHANGED <<user_connections, total_connections, user, edge>>

-----------------------------------------------------------------------------
Next ==
  \E c \in Conns :
    \/ \E u \in Users : CheckGlobal(c, u)
    \/ CheckUser(c) \/ Refuse(c) \/ IncUser(c) \/ IncTotal(c) \/ Activate(c)
    \/ DecUser(c) \/ DecTotal(c) \/ Deactivate(c)

Spec == Init /\ [][Next]_vars

-----------------------------------------------------------------------------
(* Properties                                                              *)

\* Every variable has its type: no counter ever goes below zero.
TypeOK ==
  /\ user_connections \in [Users -> Nat] /\ total_connections \in Nat /\ gauge \in Int
  /\ pc \in [Conns -> PCs] /\ user \in [Conns -> Users] /\ edge \in [Conns -> BOOLEAN]

\* A limit is checked before it is used, so handlers on different threads pass
\* it together; the most it can be exceeded by is one connection for each
\* further thread, however many handlers there are.
Overshoot(max) == IF max = 0 THEN 0 ELSE max - 1 + Threads

\* Neither limit is ever exceeded by more than the other threads' connections;
\* a limit of zero admits nobody.
LimitsOvershoot ==
  /\ \A u \in Users : user_connections[u] <= Overshoot(MaxPerUser)
  /\ total_connections <= Overshoot(MaxGlobal)

\* The handlers that a counter counts.
HeldByUser(u) == {c \in Conns : pc[c] \in {"inc_total", "activate", "open"} /\ user[c] = u}
HeldInTotal   == {c \in Conns : pc[c] \in {"activate", "open", "dec_total"}}

\* No connection is counted twice or forgotten, on any path through the checks:
\* the counters are the connections that hold them, so a limit never shuts out
\* a user for connections that are gone.
CountersExact ==
  /\ \A u \in Users : user_connections[u] = Cardinality(HeldByUser(u))
  /\ total_connections = Cardinality(HeldInTotal)

ActiveUsers == {u \in Users : user_connections[u] > 0}

\* The gauge of active users is exact whenever no handler is inside the counters,
\* though it is changed by whoever saw a count become 1 or 0, at any time later;
\* and it never shows fewer than no users, since a first connection is reported
\* before it can be given back.
GaugeExact ==
  /\ gauge >= 0
  /\ Inside = {} => gauge = Cardinality(ActiveUsers)
=============================================================================
