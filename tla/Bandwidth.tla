----------------------------- MODULE Bandwidth -----------------------------
(***************************************************************************)
(* Bandwidth of the QoS engine: the token buckets of qos/token_bucket.rs,  *)
(* allocate_bandwidth and the rebalancing task of qos/htb.rs, and the end  *)
(* of that task in qos/mod.rs.                                             *)
(*                                                                         *)
(* The actors are the relay tasks, each of which asks for bandwidth before *)
(* it writes what it has read, and the rebalancing task.  Time passes in   *)
(* ticks; a rate is in bytes per second.  A refill holds the bucket's      *)
(* mutex from the reading of the clock to the addition, a consumption is   *)
(* one compare_exchange and needs no lock.                                 *)
(***************************************************************************)
EXTENDS Integers, FiniteSets, Functions

CONSTANTS
  Users,
  Tasks, UserOf, \* the relay tasks and the user each of them works for
  Nobody,        \* the owner of the global bucket
  Configs,       \* HtbConfig [global, guaranteed, max, burst] with, as reads, the
                 \* numbers of bytes each relay task may read and, as memory,
                 \* a bound on the time buckets remember: enough to fill any
  Second         \* ticks in a second

ASSUME BandwidthConstants ==
  /\ Second \in Nat \ {0} /\ IsFiniteSet(Users) /\ Nobody \notin Users
  /\ UserOf \in [Tasks -> Users]
  /\ \A c \in Configs :
       /\ {c.global, c.guaranteed, c.max, c.burst, c.memory} \subseteq Nat
       /\ \A t \in Tasks : c.reads[t] \subseteq Nat
       /\ \A r \in {c.global, c.max, IF c.guaranteed = 0 THEN 1 ELSE c.guaranteed} : r * c.memory >= c.burst * Second

Global == <<"global", Nobody>>
Guaranteed(u) == <<"guaranteed", u>>
Maximum(u) == <<"maximum", u>>

\* A user's buckets are made, full, when its first connection is admitted, which is
\* before any of its relays asks for bandwidth.
Buckets == {Global} \union {Guaranteed(u) : u \in Users} \union {Maximum(u) : u \in Users}

VARIABLES
  config,
  bucket,     \* bucket -> [tokens, since, locked]; since: ticks since last_refill
  rate,       \* user -> refill_rate of the maximum bucket
  stale,      \* user -> the rate before the last set_refill_rate
  task,       \* relay task -> [pc, at, amount, add]
  rebalancer, \* "idle", "applying" or "stopped"
  shares,     \* user -> the rate to be set
  demands,    \* user -> the demand its share was computed from
  ideal       \* history: an ideal bucket's tokens * Second, for Nobody (the global
              \* bucket) and for each user (its two buckets as one)

vars == <<config, bucket, rate, stale, task, rebalancer, shares, demands, ideal>>

None == [u \in {} |-> 0]
Full(c) == [tokens |-> c.burst, since |-> 0, locked |-> FALSE]

Init ==
  /\ config \in Configs
  /\ bucket = [b \in Buckets |-> Full(config)]
  /\ rate = [u \in Users |-> config.max] /\ stale = rate
  /\ task = [t \in Tasks |-> [pc |-> "idle", at |-> Global, amount |-> 0, add |-> 0]]
  /\ rebalancer = "idle" /\ shares = None /\ demands = None
  /\ ideal = [o \in Users \union {Nobody} |-> IF o = Nobody THEN config.burst * Second ELSE 2 * config.burst * Second]

-----------------------------------------------------------------------------
(* TokenBucket                                                             *)

Least(a, b) == IF a <= b THEN a ELSE b

\* A read of refill_rate that races with set_refill_rate may see either value.
Rates(b) ==
  CASE b[1] = "global" -> {config.global}
    [] b[1] = "guaranteed" -> {config.guaranteed}
    [] b[1] = "maximum" -> {rate[b[2]], stale[b[2]]}

\* tokens_to_add, truncated.
Credit(b, r) == (bucket[b].since * r) \div Second

\* Mutant of Filled: the bucket is filled below its capacity only.
FilledBelow(b, amount) == Least(bucket[b].tokens + amount, config.burst - 1)

\* add_tokens, capped.
Filled(b, amount) == Least(bucket[b].tokens + amount, config.burst)

Step(t, pc) == task' = [task EXCEPT ![t].pc = pc]

\* Mutant of RefillBegin: last_refill is not moved on.
RefillBeginAgain(t) ==
  LET b == task[t].at
  IN /\ task[t].pc = "refill"
     /\ IF bucket[b].locked THEN Step(t, "take") /\ UNCHANGED bucket
        ELSE \E r \in Rates(b) :
               IF Credit(b, r) = 0 THEN Step(t, "take") /\ UNCHANGED bucket
               ELSE /\ task' = [task EXCEPT ![t].pc = "add", ![t].add = Credit(b, r)]
                    /\ bucket' = [bucket EXCEPT ![b].locked = TRUE]
     /\ UNCHANGED <<config, rate, stale, rebalancer, shares, demands, ideal>>

\* refill_sync up to add_tokens.  Who finds the mutex taken goes on without.
\* The time is accounted for here, for nobody reads it under the lock.
RefillBegin(t) ==
  LET b == task[t].at
  IN /\ task[t].pc = "refill"
     /\ IF bucket[b].locked THEN Step(t, "take") /\ UNCHANGED bucket
        ELSE \E r \in Rates(b) :
               IF Credit(b, r) = 0 THEN Step(t, "take") /\ UNCHANGED bucket
               ELSE /\ task' = [task EXCEPT ![t].pc = "add", ![t].add = Credit(b, r)]
                    /\ bucket' = [bucket EXCEPT ![b].since = 0, ![b].locked = TRUE]
     /\ UNCHANGED <<config, rate, stale, rebalancer, shares, demands, ideal>>

RefillEnd(t) ==
  LET b == task[t].at
  IN /\ task[t].pc = "add"
     /\ bucket' = [bucket EXCEPT ![b].tokens = Filled(b, task[t].add), ![b].locked = FALSE]
     /\ task' = [task EXCEPT ![t].pc = "take", ![t].add = 0]
     /\ UNCHANGED <<config, rate, stale, rebalancer, shares, demands, ideal>>

-----------------------------------------------------------------------------
(* allocate_bandwidth_impl                                                 *)

\* A relay has read and asks for as many bytes, the global bucket first.
Allocate(t) ==
  /\ task[t].pc = "idle"
  /\ \E n \in config.reads[t] :
       task' = [task EXCEPT ![t] = [pc |-> "refill", at |-> Global, amount |-> n, add |-> 0]]
  /\ UNCHANGED <<config, bucket, rate, stale, rebalancer, shares, demands, ideal>>

\* The user's buckets come after the global one; either of them is enough.
Taken(t) ==
  IF task[t].at = Global THEN [task[t] EXCEPT !.pc = "refill", !.at = Guaranteed(UserOf[t])]
  ELSE [task[t] EXCEPT !.pc = "idle", !.at = Global, !.amount = 0]
Owner(t) == task[t].at[2]

\* try_consume succeeds.
Consume(t) ==
  LET b == task[t].at
  IN /\ task[t].pc = "take" /\ bucket[b].tokens >= task[t].amount
     /\ bucket' = [bucket EXCEPT ![b].tokens = @ - task[t].amount]
     /\ ideal' = [ideal EXCEPT ![Owner(t)] = @ - task[t].amount * Second]
     /\ task' = [task EXCEPT ![t] = Taken(t)]
     /\ UNCHANGED <<config, rate, stale, rebalancer, shares, demands>>

\* The guaranteed bucket is not waited for: the maximum bucket is tried next.  The
\* others make the task sleep for as long as the deficit takes, and refill.
Short(t) ==
  LET b == task[t].at
  IN /\ task[t].pc = "take" /\ bucket[b].tokens < task[t].amount
     /\ IF b[1] = "guaranteed"
        THEN task' = [task EXCEPT ![t].pc = "refill", ![t].at = Maximum(UserOf[t])]
        ELSE Step(t, "refill")
     /\ UNCHANGED <<config, bucket, rate, stale, rebalancer, shares, demands, ideal>>

-----------------------------------------------------------------------------
(* Rebalancing                                                             *)

\* available_tokens, with the refill it makes.
Available(b, r) == IF bucket[b].locked THEN bucket[b].tokens ELSE Filled(b, Credit(b, r))
Refilled(b, r) ==
  IF bucket[b].locked \/ Credit(b, r) = 0 THEN bucket[b]
  ELSE [bucket[b] EXCEPT !.tokens = Filled(b, Credit(b, r)), !.since = 0]

estimate_user_demand(u) ==
  LET low == config.burst \div 4
  IN IF Available(Guaranteed(u), config.guaranteed) < low \/ Available(Maximum(u), rate[u]) < low
     THEN config.max ELSE config.guaranteed

\* Mutant of Proportional: every user is given what it asks for.
ProportionalAsked(demand, total, remaining) == {demand}

\* The share of an oversubscribed link.  The quotient is a double: a result that
\* should be whole may come out below it and lose one when it is truncated.
Proportional(demand, total, remaining) ==
  LET exact == (demand * remaining) \div total
  IN IF (demand * remaining) % total = 0 /\ exact > 0 THEN {exact, exact - 1} ELSE {exact}

\* The subtraction is unchecked: it wraps when the maximum is the smaller one.
Headroom == IF config.max >= config.guaranteed THEN config.max - config.guaranteed ELSE config.global

\* calculate_fair_shares, for the demands d of the active users.
calculate_fair_shares(d) ==
  LET active == DOMAIN d
      reserved == Cardinality(active) * config.guaranteed
      remaining == IF reserved >= config.global THEN 0 ELSE config.global - reserved
      total == SumFunction(d)
      share(u) == IF total = 0 THEN {remaining \div Cardinality(active)}
                  ELSE IF total > remaining THEN Proportional(d[u], total, remaining)
                  ELSE {d[u]}
      rates(u) == IF remaining = 0 THEN {config.guaranteed}
                  ELSE {config.guaranteed + Least(s, Headroom) : s \in share(u)}
  IN {f \in [active -> UNION {rates(u) : u \in active}] : \A u \in active : f[u] \in rates(u)}

\* A turn of rebalance_bandwidth: the users that have a connection and were active
\* within the idle timeout, whichever these are.
Collect ==
  /\ rebalancer = "idle"
  /\ \E active \in (SUBSET Users) \ {{}} :
       /\ demands' = [u \in active |-> estimate_user_demand(u)]
       /\ bucket' = [b \in Buckets |->
                       IF b[2] \in active
                       THEN Refilled(b, IF b[1] = "guaranteed" THEN config.guaranteed ELSE rate[b[2]])
                       ELSE bucket[b]]
       /\ shares' \in calculate_fair_shares([u \in active |-> estimate_user_demand(u)])
  /\ rebalancer' = "applying"
  /\ UNCHANGED <<config, rate, stale, task, ideal>>

\* set_refill_rate writes through a cast pointer, while allocations read.
Apply(u) ==
  /\ rebalancer = "applying" /\ u \in DOMAIN shares
  /\ rate' = [rate EXCEPT ![u] = shares[u]]
  /\ stale' = [stale EXCEPT ![u] = rate[u]]
  /\ shares' = [v \in DOMAIN shares \ {u} |-> shares[v]]
  /\ UNCHANGED <<config, bucket, task, rebalancer, demands, ideal>>

\* The end of the turn; by then the writes have reached everybody.
Applied ==
  /\ rebalancer = "applying" /\ shares = None
  /\ rebalancer' = "idle" /\ demands' = None /\ stale' = rate
  /\ UNCHANGED <<config, bucket, rate, task, shares, ideal>>

\* A connection ends and drops its clone of the engine, stop() is spawned, and the
\* abort reaches the rebalancing task where it waits, for its ticker.
DropClone(t) ==
  /\ task[t].pc = "idle"
  /\ rebalancer = "idle" /\ rebalancer' = "stopped"
  /\ UNCHANGED <<config, bucket, rate, stale, task, shares, demands, ideal>>

-----------------------------------------------------------------------------
\* The ideal buckets get their rate with every tick and never overflow.
IdealTick(o) ==
  IF o = Nobody THEN Least(ideal[o] + config.global, config.burst * Second)
  ELSE Least(ideal[o] + config.guaranteed + config.max, 2 * config.burst * Second)

Tick ==
  /\ bucket' = [b \in Buckets |-> [bucket[b] EXCEPT !.since = Least(@ + 1, config.memory)]]
  /\ ideal' = [o \in DOMAIN ideal |-> IdealTick(o)]
  /\ UNCHANGED <<config, rate, stale, task, rebalancer, shares, demands>>

Allocation(t) == RefillBegin(t) \/ RefillEnd(t) \/ Consume(t) \/ Short(t)
Rebalance == Collect \/ (\E u \in Users : Apply(u)) \/ Applied

Next ==
  \/ \E t \in Tasks : Allocate(t) \/ Allocation(t) \/ DropClone(t)
  \/ Rebalance
  \/ Tick

Spec == Init /\ [][Next]_vars

\* Time passes, and a task that can run is run.  Relays need not read anything.
FairSpec ==
  /\ Spec
  /\ WF_vars(Tick)
  /\ \A t \in Tasks : WF_vars(Allocation(t))
  /\ \A u \in Users : WF_vars(Apply(u))
  /\ WF_vars(Applied)

-----------------------------------------------------------------------------
(* Properties                                                              *)

\* No bucket hands out more than an ideal bucket of its rate would, but for two
\* bursts: a task that finds the mutex taken (token_bucket.rs:100) consumes what is
\* there while the refill it did not wait for is still to come, and the time that
\* refill takes is credited once more.  A user draws from two buckets
\* (htb.rs:183-199), so what bounds it is the sum of the guaranteed and the maximum
\* rate, and two bursts of each.  With a maximum below the guarantee the wrapped
\* subtraction (htb.rs:434) gives the maximum bucket more than its rate, and only
\* the global bucket bounds the user.
RatesRespected ==
  /\ ideal[Nobody] >= -(2 * config.burst * Second)
  /\ config.max >= config.guaranteed =>
       \A u \in Users : ideal[u] >= -(4 * config.burst * Second)

\* The rates of a turn (htb.rs:398) fit the link when the guarantees do, keep every
\* user's guarantee, stay below the maximum when that is the larger one, and users
\* of equal demand differ by no more than a truncated double.
SharesFit ==
  rebalancer = "applying" /\ DOMAIN shares = DOMAIN demands =>
    LET active == DOMAIN shares
    IN /\ Cardinality(active) * config.guaranteed <= config.global =>
            SumFunction(shares) <= config.global
       /\ \A u \in active :
            /\ shares[u] >= config.guaranteed
            /\ config.max >= config.guaranteed => shares[u] <= config.max
            /\ \A v \in active : demands[u] = demands[v] => shares[u] - shares[v] \in -1..1

\* An allocation that some bucket can hold: it is no larger than the burst, and the
\* link and the guarantee are not zero.
Waiting(t) ==
  task[t].pc # "idle" /\ task[t].amount <= config.burst /\ config.global > 0 /\ config.guaranteed > 0

\* An allocation that fits a bucket ends (token_bucket.rs:80), however the rates are
\* changed meanwhile, unless other tasks go on for ever taking what is refilled:
\* consume has no queue, so only they can keep it waiting.
AllocationEnds ==
  \A t \in Tasks :
    (Waiting(t) ~> task[t].pc = "idle") \/ []<><<\E u \in Tasks \ {t} : Consume(u)>>_vars

\* What README.md:399 promises, "HTB algorithm ensures no user starves others": an
\* allocation ends whatever the other users do.  The code does not: the global
\* bucket (htb.rs:169) comes before the guaranteed one and belongs to who is first.
NoUserStarves == \A t \in Tasks : Waiting(t) ~> task[t].pc = "idle"
=============================================================================
