--------------------------- MODULE ConnectionPool ---------------------------
(***************************************************************************)
(* The upstream connection pool of server/pool.rs.  Tokio tasks run get,   *)
(* put, release and the spawned refresh concurrently on a multi-threaded   *)
(* runtime.  The pool has no lock of its own: `pools` and `active_counts`  *)
(* are DashMaps, so a step of this model is what one task does under one   *)
(* DashMap guard, or one operation on a shared atomic that another task's  *)
(* decision reads.  Everything else (statistics that no code reads back)   *)
(* is folded into the neighbouring step.                                   *)
(*                                                                         *)
(* A pooled connection is represented by its age: PooledConnection::new    *)
(* stamps created_at and last_used with the same instant, and neither      *)
(* changes while the connection is idle.                                   *)
(***************************************************************************)
EXTENDS Integers, Sequences, FiniteSets, Functions

CONSTANTS
  Addr,            \* upstream socket addresses
  Tasks,           \* the tasks that may be inside a pool operation at once
  MaxIdlePerDest,  \* PoolConfig.max_idle_per_dest (0 is accepted by the config)
  MaxTotalIdle,    \* PoolConfig.max_total_idle
  IdleTimeout,     \* PoolConfig.idle_timeout_secs, in clock ticks
  MaxHeld,         \* bound: no get starts while this many connections are checked out or stray
  MaxStrays,       \* bound: puts and releases of streams the pool never handed out
  Wrap,            \* 2^w: the AtomicUsize counters are words of w bits
  None             \* no address

ASSUME PoolConstants ==
  /\ IsFiniteSet(Tasks)
  /\ IsFiniteSet(Addr)
  /\ MaxIdlePerDest \in Nat
  /\ MaxTotalIdle \in Nat
  /\ IdleTimeout \in Nat
  /\ MaxHeld \in Nat
  /\ MaxStrays \in Nat
  /\ Wrap \in Nat \ {0, 1}
  /\ None \notin Addr

VARIABLES
  enabled,      \* PoolConfig.enabled, fixed when the pool is built
  held,         \* [Addr -> Nat]: streams that get returned and no put or release took back
  strays,       \* history, [Addr -> Nat]: streams put or released that get never returned
  raced,        \* history: the addresses of which an increment of active_counts was lost
  pools,        \* [Addr -> Seq(age)], oldest first; << >> where there is no entry
  entries,      \* the addresses that have an entry in the `pools` DashMap
  total_idle,   \* PoolMetrics.total_idle
  in_use,       \* PoolMetrics.connections_in_use
  pending,      \* PoolMetrics.pending_creates
  dest_in_use,  \* DestinationMetrics.in_use
  active,       \* active_counts: the counter of an address
  actives,      \* the addresses that have an entry in `active_counts`
  pc, addr, job,        \* per task: control, its destination, which operation
  popped, expired,      \* locals of try_get_from_pool
  scan, best, bestAge   \* locals of evict_oldest; best is also evicted_addr

idleVars   == <<pools, entries, total_idle>>
useVars    == <<in_use, pending, dest_in_use>>
activeVars == <<active, actives>>
evictVars  == <<scan, best, bestAge>>
getVars    == <<popped, expired>>
vars == <<enabled, held, strays, raced, idleVars, useVars, activeVars, pc, addr, job, getVars, evictVars>>

MaxAge  == IdleTimeout + 1            \* ages saturate once a connection is expired
Ages    == 0 .. MaxAge
Words   == 0 .. (Wrap - 1)
Add(x, n) == (x + n) % Wrap
Sub(x, n) == IF n <= x THEN x - n ELSE (x + Wrap * n - n) % Wrap
Monus(x)  == IF x = 0 THEN 0 ELSE x - 1    \* saturating_sub(1), decrement_in_use

\* PooledConnection::is_expired
IsExpired(age) == age > IdleTimeout

PCs == {"idle", "connecting", "direct", "panicked",
        "get_remove", "get_count", "get_hit",
        "ins_check", "ins_load", "evict_scan", "evict_remove", "evict_drop",
        "ins_push", "ins_count", "put_record", "ref_start", "ref_connect",
        "dec_sub", "dec_remove", "after_dec"}
Jobs == {"none", "get", "put", "renew", "discard", "refresh"}

Init ==
  /\ enabled \in BOOLEAN
  /\ held = [a \in Addr |-> 0]
  /\ strays = [a \in Addr |-> 0]
  /\ raced = {}
  /\ pools = [a \in Addr |-> << >>]
  /\ entries = {}
  /\ total_idle = 0
  /\ in_use = 0
  /\ pending = 0
  /\ dest_in_use = [a \in Addr |-> 0]
  /\ active = [a \in Addr |-> 0]
  /\ actives = {}
  /\ pc = [t \in Tasks |-> "idle"]
  /\ addr = [t \in Tasks |-> None]
  /\ job = [t \in Tasks |-> "none"]
  /\ popped = [t \in Tasks |-> FALSE]
  /\ expired = [t \in Tasks |-> 0]
  /\ scan = [t \in Tasks |-> {}]
  /\ best = [t \in Tasks |-> None]
  /\ bestAge = [t \in Tasks |-> 0]

Goto(t, from, to) == pc[t] = from /\ pc' = [pc EXCEPT ![t] = to]

\* The task leaves the operation; its locals go out of scope.
Return(t, to) ==
  /\ pc' = [pc EXCEPT ![t] = to]
  /\ addr' = [addr EXCEPT ![t] = IF to = "panicked" THEN @ ELSE None]
  /\ job' = [job EXCEPT ![t] = IF to = "panicked" THEN @ ELSE "none"]
  /\ popped' = [popped EXCEPT ![t] = FALSE]
  /\ expired' = [expired EXCEPT ![t] = 0]
  /\ scan' = [scan EXCEPT ![t] = {}]
  /\ best' = [best EXCEPT ![t] = None]
  /\ bestAge' = [bestAge EXCEPT ![t] = 0]

\* DashMap::remove: whatever the entry holds at that moment goes with it.
RemoveEntry(a) ==
  /\ entries' = entries \ {a}
  /\ pools' = [pools EXCEPT ![a] = << >>]

-----------------------------------------------------------------------------
(* get                                                                     *)

Fresh(a) == {i \in DOMAIN pools[a] : ~IsExpired(pools[a][i])}

\* try_get_from_pool pops from the end until a connection is not expired: the
\* loop stops at position k, or at 0 when every connection was expired.
PopStopsAt(a, k) ==
  /\ \A i \in Fresh(a) : i <= k
  /\ k = 0 \/ k \in Fresh(a)

MayGet == SumFunctionOnSet(held, Addr) + SumFunctionOnSet(strays, Addr) < MaxHeld

\* get on a disabled pool: a connection that no counter ever sees.
GetDisabled(t, a) ==
  /\ MayGet
  /\ ~enabled
  /\ Goto(t, "idle", "direct")
  /\ addr' = [addr EXCEPT ![t] = a]
  /\ UNCHANGED <<enabled, held, strays, raced, idleVars, useVars, activeVars, job, getVars, evictVars>>

\* try_get_from_pool while it holds the get_mut guard of an existing entry.
GetPop(t, a) ==
  /\ MayGet
  /\ enabled
  /\ a \in entries
  /\ \E k \in 0 .. Len(pools[a]) :
       /\ PopStopsAt(a, k)
       /\ Goto(t, "idle", IF k <= 1 THEN "get_remove" ELSE "get_count")
       /\ pools' = [pools EXCEPT ![a] = SubSeq(@, 1, IF k = 0 THEN 0 ELSE k - 1)]
       /\ popped' = [popped EXCEPT ![t] = k > 0]
       /\ expired' = [expired EXCEPT ![t] = Len(pools[a]) - k]
  /\ addr' = [addr EXCEPT ![t] = a]
  /\ job' = [job EXCEPT ![t] = "get"]
  /\ UNCHANGED <<enabled, held, strays, raced, entries, total_idle, useVars, activeVars, evictVars>>

\* pools.get_mut returns None: nothing to pop, the miss is recorded directly.
GetAbsent(t, a) ==
  /\ MayGet
  /\ enabled
  /\ a \notin entries
  /\ Goto(t, "idle", "connecting")
  /\ pending' = pending + 1
  /\ addr' = [addr EXCEPT ![t] = a]
  /\ job' = [job EXCEPT ![t] = "get"]
  /\ UNCHANGED <<enabled, held, strays, raced, idleVars, in_use, dest_in_use, activeVars, getVars, evictVars>>

\* The guard was dropped when the vector was seen empty; only now is the entry
\* removed.
GetRemove(t) ==
  /\ Goto(t, "get_remove", "get_count")
  /\ RemoveEntry(addr[t])
  /\ UNCHANGED <<enabled, held, strays, raced, total_idle, useVars, activeVars, addr, job, getVars, evictVars>>

\* Mutant of GetCount: the expired connections are dropped and not counted.
GetCountForgetsExpired(t) ==
  /\ Goto(t, "get_count", IF popped[t] THEN "get_hit" ELSE "connecting")
  /\ total_idle' = Sub(total_idle, IF popped[t] THEN 1 ELSE 0)
  /\ pending' = IF popped[t] THEN pending ELSE pending + 1
  /\ UNCHANGED <<enabled, held, strays, raced, pools, entries, in_use, dest_in_use, activeVars,
                 addr, job, getVars, evictVars>>

\* The total_idle decrements of try_get_from_pool and record_expired, then the
\* hit or the miss.
GetCount(t) ==
  /\ Goto(t, "get_count", IF popped[t] THEN "get_hit" ELSE "connecting")
  /\ total_idle' = Sub(total_idle, expired[t] + (IF popped[t] THEN 1 ELSE 0))
  /\ pending' = IF popped[t] THEN pending ELSE pending + 1
  /\ UNCHANGED <<enabled, held, strays, raced, pools, entries, in_use, dest_in_use, activeVars,
                 addr, job, getVars, evictVars>>

\* The tasks between the fetch_sub and the removal of decrement_active.
Removers(a) == {t \in Tasks : addr[t] = a /\ pc[t] = "dec_remove"}

\* The bookkeeping of a connection that is handed to the caller, ending with
\* increment_active.  An increment of a counter another task is about to remove is
\* lost with it, and one of a full word wraps.
CheckOut(a) ==
  /\ held' = [held EXCEPT ![a] = @ + 1]
  /\ raced' = IF Removers(a) # {} \/ active[a] = Wrap - 1 THEN raced \union {a} ELSE raced
  /\ in_use' = in_use + 1
  /\ dest_in_use' = [dest_in_use EXCEPT ![a] = @ + 1]
  /\ active' = [active EXCEPT ![a] = Add(@, 1)]
  /\ actives' = actives \union {a}

GetHit(t) ==
  /\ pc[t] = "get_hit"
  /\ Return(t, "idle")
  /\ CheckOut(addr[t])
  /\ UNCHANGED <<enabled, strays, idleVars, pending>>

\* connect_new succeeded within connect_timeout_ms.
GetConnected(t) ==
  /\ pc[t] = "connecting"
  /\ Return(t, "idle")
  /\ CheckOut(addr[t])
  /\ pending' = pending - 1
  /\ UNCHANGED <<enabled, strays, idleVars>>

\* connect_new failed or timed out.
GetFailed(t) ==
  /\ pc[t] = "connecting"
  /\ Return(t, "idle")
  /\ pending' = pending - 1
  /\ UNCHANGED <<enabled, held, strays, raced, idleVars, in_use, dest_in_use, activeVars>>

DirectConnect(t) ==
  /\ pc[t] = "direct"
  /\ Return(t, "idle")
  /\ \E ok \in BOOLEAN :
       held' = IF ok THEN [held EXCEPT ![addr[t]] = @ + 1] ELSE held
  /\ UNCHANGED <<enabled, strays, raced, idleVars, useVars, activeVars>>

-----------------------------------------------------------------------------
(* put and release                                                         *)

\* A put or release takes the stream over from the caller.  Neither asks where the
\* stream came from: handle_bind puts and releases the peer it accepted, which no get
\* returned.
TakeBack(t, a) ==
  /\ pc[t] = "idle"
  /\ raced' = raced
  /\ \/ /\ held[a] > 0
        /\ held' = [held EXCEPT ![a] = @ - 1]
        /\ strays' = strays
     \/ /\ SumFunctionOnSet(strays, Addr) < MaxStrays
        /\ strays' = [strays EXCEPT ![a] = @ + 1]
        /\ held' = held

\* put and release on a disabled pool only drop the stream.
PutDisabled(t, a) ==
  /\ ~enabled
  /\ TakeBack(t, a)
  /\ UNCHANGED <<enabled, idleVars, useVars, activeVars, pc, addr, job, getVars, evictVars>>

\* put(.., Reuse): decrement_in_use, then insert_stream.
PutReuse(t, a) ==
  /\ enabled
  /\ TakeBack(t, a)
  /\ Goto(t, "idle", "ins_check")
  /\ addr' = [addr EXCEPT ![t] = a]
  /\ job' = [job EXCEPT ![t] = "put"]
  /\ in_use' = Monus(in_use)
  /\ UNCHANGED <<enabled, idleVars, pending, dest_in_use, activeVars, getVars, evictVars>>

\* put(.., Refresh) and release(..): the stream is closed and only the counters
\* change; with Refresh (kind "renew") a refresh_connection is spawned at the
\* end.
Release(t, a, kind) ==
  /\ enabled
  /\ TakeBack(t, a)
  /\ Goto(t, "idle", "dec_sub")
  /\ addr' = [addr EXCEPT ![t] = a]
  /\ job' = [job EXCEPT ![t] = kind]
  /\ in_use' = Monus(in_use)
  /\ dest_in_use' = [dest_in_use EXCEPT ![a] = Monus(@)]
  /\ UNCHANGED <<enabled, idleVars, pending, activeVars, getVars, evictVars>>

-----------------------------------------------------------------------------
(* insert_stream and evict_oldest, called by put and by refresh_connection *)

\* Mutant of InsertCheck: the limit compared with > instead of >=.
InsertCheckOffByOne(t) ==
  LET full == addr[t] \in entries /\ Len(pools[addr[t]]) > MaxIdlePerDest IN
  /\ Goto(t, "ins_check", IF full THEN "put_record" ELSE "ins_load")
  /\ UNCHANGED <<enabled, held, strays, raced, idleVars, useVars, activeVars, addr, job, getVars, evictVars>>

\* The per-destination limit, under a read guard that is dropped again.  An
\* absent entry always passes, whatever the limit.
InsertCheck(t) ==
  LET full == addr[t] \in entries /\ Len(pools[addr[t]]) >= MaxIdlePerDest IN
  /\ Goto(t, "ins_check", IF full THEN "put_record" ELSE "ins_load")
  /\ UNCHANGED <<enabled, held, strays, raced, idleVars, useVars, activeVars, addr, job, getVars, evictVars>>

\* The global limit, from the atomic counter.
InsertLoad(t) ==
  LET over == total_idle >= MaxTotalIdle IN
  /\ Goto(t, "ins_load", IF over THEN "evict_scan" ELSE "ins_push")
  /\ scan' = [scan EXCEPT ![t] = IF over THEN Addr ELSE {}]
  /\ UNCHANGED <<enabled, held, strays, raced, idleVars, useVars, activeVars, addr, job, getVars, best, bestAge>>

\* evict_oldest visits the shards one after the other and remembers the oldest
\* head; the candidates are collected under guards that are dropped again.
EvictScan(t, a) ==
  LET older == /\ pools[a] # << >>
               /\ best[t] = None \/ Head(pools[a]) > bestAge[t]
  IN
  /\ pc[t] = "evict_scan"
  /\ a \in scan[t]
  /\ scan' = [scan EXCEPT ![t] = @ \ {a}]
  /\ best' = [best EXCEPT ![t] = IF older THEN a ELSE @]
  /\ bestAge' = [bestAge EXCEPT ![t] = IF older THEN Head(pools[a]) ELSE @]
  /\ UNCHANGED <<enabled, held, strays, raced, idleVars, useVars, activeVars, pc, addr, job, getVars>>

EvictChosen(t) ==
  /\ scan[t] = {}
  /\ Goto(t, "evict_scan", IF best[t] = None THEN "ins_push" ELSE "evict_remove")
  /\ UNCHANGED <<enabled, held, strays, raced, idleVars, useVars, activeVars, addr, job, getVars, evictVars>>

\* pool.remove(0) under the get_mut guard.  If the entry has gone nothing is
\* removed, and the address is reported as evicted all the same.
EvictRemove(t) ==
  LET a == best[t] IN
  /\ ~(a \in entries /\ pools[a] = << >>)
  /\ Goto(t, "evict_remove",
          IF a \in entries /\ Len(pools[a]) = 1 THEN "evict_drop" ELSE "ins_push")
  /\ pools' = [pools EXCEPT ![a] = IF a \in entries THEN Tail(@) ELSE @]
  /\ UNCHANGED <<enabled, held, strays, raced, entries, total_idle, useVars, activeVars, addr, job,
                 getVars, evictVars>>

\* Vec::remove(0) on an empty vector panics: the tokio task dies where it is.
EvictPanic(t) ==
  /\ pc[t] = "evict_remove"
  /\ best[t] \in entries
  /\ pools[best[t]] = << >>
  /\ Return(t, "panicked")
  /\ UNCHANGED <<enabled, held, strays, raced, idleVars, useVars, activeVars>>

\* As in get, the emptied entry is removed after its guard was dropped.
EvictDrop(t) ==
  /\ Goto(t, "evict_drop", "ins_push")
  /\ RemoveEntry(best[t])
  /\ UNCHANGED <<enabled, held, strays, raced, total_idle, useVars, activeVars, addr, job, getVars, evictVars>>

\* Mutant of InsertPush: the connection goes to the front of the vector.
InsertPushFront(t) ==
  /\ Goto(t, "ins_push", "ins_count")
  /\ pools' = [pools EXCEPT ![addr[t]] = <<0>> \o @]
  /\ entries' = entries \union {addr[t]}
  /\ UNCHANGED <<enabled, held, strays, raced, total_idle, useVars, activeVars, addr, job, getVars, evictVars>>

InsertPush(t) ==
  /\ Goto(t, "ins_push", "ins_count")
  /\ pools' = [pools EXCEPT ![addr[t]] = Append(@, 0)]
  /\ entries' = entries \union {addr[t]}
  /\ UNCHANGED <<enabled, held, strays, raced, total_idle, useVars, activeVars, addr, job, getVars, evictVars>>

InsertCount(t) ==
  /\ Goto(t, "ins_count", "put_record")
  /\ total_idle' = Add(total_idle, 1)
  /\ UNCHANGED <<enabled, held, strays, raced, pools, entries, useVars, activeVars, addr, job, getVars, evictVars>>

\* Mutant of PutRecord: decrement_active skipped.
PutRecordNoDecrement(t) ==
  /\ job[t] = "put"
  /\ Goto(t, "put_record", "after_dec")
  /\ dest_in_use' = [dest_in_use EXCEPT ![addr[t]] = Monus(@)]
  /\ total_idle' = IF best[t] = None THEN total_idle ELSE Sub(total_idle, 1)
  /\ UNCHANGED <<enabled, held, strays, raced, pools, entries, in_use, pending, activeVars, addr, job,
                 getVars, evictVars>>

\* What put does after insert_stream: the per-destination in_use, then
\* record_evicted.
PutRecord(t) ==
  /\ job[t] = "put"
  /\ Goto(t, "put_record", "dec_sub")
  /\ dest_in_use' = [dest_in_use EXCEPT ![addr[t]] = Monus(@)]
  /\ total_idle' = IF best[t] = None THEN total_idle ELSE Sub(total_idle, 1)
  /\ UNCHANGED <<enabled, held, strays, raced, pools, entries, in_use, pending, activeVars, addr, job,
                 getVars, evictVars>>

\* decrement_active: the fetch_sub under the guard of an existing entry.
DecrementActive(t) ==
  LET a == addr[t] IN
  /\ Goto(t, "dec_sub", IF a \in actives /\ active[a] = 1 THEN "dec_remove" ELSE "after_dec")
  /\ active' = [active EXCEPT ![a] = IF a \in actives THEN Sub(@, 1) ELSE @]
  /\ UNCHANGED <<enabled, held, strays, raced, idleVars, useVars, actives, addr, job, getVars, evictVars>>

\* ... and the removal, after the guard was dropped.
RemoveActive(t) ==
  /\ Goto(t, "dec_remove", "after_dec")
  /\ active' = [active EXCEPT ![addr[t]] = 0]
  /\ actives' = actives \ {addr[t]}
  /\ UNCHANGED <<enabled, held, strays, raced, idleVars, useVars, addr, job, getVars, evictVars>>

\* put and release return to the caller.
PutDone(t) ==
  /\ pc[t] = "after_dec"
  /\ job[t] # "renew"
  /\ Return(t, "idle")
  /\ UNCHANGED <<enabled, held, strays, raced, idleVars, useVars, activeVars>>

\* With Refresh a new task is spawned; it takes the place of the caller in
\* Tasks, and the caller's own task goes on as any other idle one.
SpawnRefresh(t) ==
  /\ job[t] = "renew"
  /\ Goto(t, "after_dec", "ref_start")
  /\ job' = [job EXCEPT ![t] = "refresh"]
  /\ UNCHANGED <<enabled, held, strays, raced, idleVars, useVars, activeVars, addr, getVars, evictVars>>

-----------------------------------------------------------------------------
(* refresh_connection                                                      *)

RefreshStart(t) ==
  /\ Goto(t, "ref_start", "ref_connect")
  /\ pending' = pending + 1
  /\ UNCHANGED <<enabled, held, strays, raced, idleVars, in_use, dest_in_use, activeVars, addr, job, getVars, evictVars>>

RefreshConnected(t) ==
  /\ Goto(t, "ref_connect", "ins_check")
  /\ pending' = pending - 1
  /\ UNCHANGED <<enabled, held, strays, raced, idleVars, in_use, dest_in_use, activeVars, addr, job, getVars, evictVars>>

\* Mutant of RefreshFailed: the ? that propagates the error comes before the
\* fetch_sub.
RefreshFailedKeepsPending(t) ==
  /\ pc[t] = "ref_connect"
  /\ Return(t, "idle")
  /\ UNCHANGED <<enabled, held, strays, raced, idleVars, in_use, pending, dest_in_use, activeVars>>

RefreshFailed(t) ==
  /\ pc[t] = "ref_connect"
  /\ Return(t, "idle")
  /\ pending' = pending - 1
  /\ UNCHANGED <<enabled, held, strays, raced, idleVars, in_use, dest_in_use, activeVars>>

\* After insert_stream a refresh only records the eviction.
RefreshRecord(t) ==
  /\ job[t] = "refresh"
  /\ pc[t] = "put_record"
  /\ Return(t, "idle")
  /\ total_idle' = IF best[t] = None THEN total_idle ELSE Sub(total_idle, 1)
  /\ UNCHANGED <<enabled, held, strays, raced, pools, entries, useVars, activeVars>>

-----------------------------------------------------------------------------
(* The clean-up task and the clock                                         *)

\* Vec::retain keeps the positions S, in order: f lists them.
Retains(f, m, S) ==
  /\ \A i, j \in 1 .. m : i < j => f[i] < f[j]
  /\ {f[i] : i \in 1 .. m} = S

\* Mutant of Cleanup: retains connections past the timeout.
CleanupLate(a) ==
  /\ enabled
  /\ a \in entries
  /\ \E m \in 0 .. Len(pools[a]) : \E f \in [1 .. m -> DOMAIN pools[a]] :
       /\ Retains(f, m, DOMAIN pools[a])
       /\ pools' = [pools EXCEPT ![a] = [i \in 1 .. m |-> @[f[i]]]]
       /\ entries' = IF m = 0 THEN entries \ {a} ELSE entries
       /\ total_idle' = Sub(total_idle, Len(pools[a]) - m)
  /\ UNCHANGED <<enabled, held, strays, raced, useVars, activeVars, pc, addr, job, getVars, evictVars>>

\* pools.retain for one address, under the write lock of its shard.  The
\* total_idle decrement is made inside that lock; no task can see the vector in
\* between, so a load of the old total orders before this step.
Cleanup(a) ==
  /\ enabled
  /\ a \in entries
  /\ \E m \in 0 .. Len(pools[a]) : \E f \in [1 .. m -> DOMAIN pools[a]] :
       /\ Retains(f, m, Fresh(a))
       /\ pools' = [pools EXCEPT ![a] = [i \in 1 .. m |-> @[f[i]]]]
       /\ entries' = IF m = 0 THEN entries \ {a} ELSE entries
       /\ total_idle' = Sub(total_idle, Len(pools[a]) - m)
  /\ UNCHANGED <<enabled, held, strays, raced, useVars, activeVars, pc, addr, job, getVars, evictVars>>

Older(age) == IF age < MaxAge THEN age + 1 ELSE age

Tick ==
  /\ pools' = [a \in Addr |-> [i \in DOMAIN pools[a] |-> Older(pools[a][i])]]
  /\ bestAge' = [t \in Tasks |-> IF best[t] = None THEN bestAge[t] ELSE Older(bestAge[t])]
  /\ UNCHANGED <<enabled, held, strays, raced, entries, total_idle, useVars, activeVars, pc, addr, job,
                 getVars, scan, best>>

-----------------------------------------------------------------------------

\* The steps of an operation that is already under way.
Step(t) ==
  \/ GetRemove(t) \/ GetCount(t) \/ GetHit(t) \/ GetConnected(t) \/ GetFailed(t)
  \/ DirectConnect(t)
  \/ InsertCheck(t) \/ InsertLoad(t) \/ EvictChosen(t) \/ EvictRemove(t)
  \/ EvictPanic(t) \/ EvictDrop(t) \/ InsertPush(t) \/ InsertCount(t)
  \/ PutRecord(t) \/ DecrementActive(t) \/ RemoveActive(t) \/ PutDone(t) \/ SpawnRefresh(t)
  \/ RefreshStart(t) \/ RefreshConnected(t) \/ RefreshFailed(t) \/ RefreshRecord(t)
  \/ \E a \in Addr : EvictScan(t, a)

\* What a client task may start.
Call(t) ==
  \E a \in Addr :
    \/ GetDisabled(t, a) \/ GetPop(t, a) \/ GetAbsent(t, a)
    \/ PutDisabled(t, a) \/ PutReuse(t, a)
    \/ \E kind \in {"renew", "discard"} : Release(t, a, kind)

Next ==
  \/ \E t \in Tasks : Call(t) \/ Step(t)
  \/ \E a \in Addr : Cleanup(a)
  \/ Tick

Spec == Init /\ [][Next]_vars

\* Every task is polled until its operation ends (connect_new has a timeout),
\* and the interval timer keeps firing the clean-up.
Fairness ==
  /\ \A t \in Tasks : WF_vars(Step(t))
  /\ \A a \in Addr : WF_vars(Cleanup(a))

FairSpec == Spec /\ Fairness
-----------------------------------------------------------------------------
(* Properties                                                              *)

\* The variables keep their types: the word counters stay words, the counters
\* that only atomic additions touch stay natural numbers.
TypeOK ==
  /\ enabled \in BOOLEAN
  /\ held \in [Addr -> Nat]
  /\ strays \in [Addr -> Nat]
  /\ raced \subseteq Addr
  /\ pools \in [Addr -> Seq(Ages)]
  /\ entries \subseteq Addr
  /\ total_idle \in Words
  /\ in_use \in Nat
  /\ pending \in Nat
  /\ dest_in_use \in [Addr -> Nat]
  /\ active \in [Addr -> Words]
  /\ actives \subseteq Addr
  /\ pc \in [Tasks -> PCs]
  /\ addr \in [Tasks -> Addr \union {None}]
  /\ \A t \in Tasks : pc[t] # "idle" => addr[t] \in Addr
  /\ job \in [Tasks -> Jobs]
  /\ popped \in [Tasks -> BOOLEAN]
  /\ expired \in [Tasks -> Nat]
  /\ scan \in [Tasks -> SUBSET Addr]
  /\ best \in [Tasks -> Addr \union {None}]
  /\ bestAge \in [Tasks -> Ages]

Quiet == {"idle", "panicked"}
Settled == \A t \in Tasks : pc[t] \in Quiet

InserterPCs == {"ins_load", "evict_scan", "evict_remove", "evict_drop", "ins_push"}
Inserters(a) == {t \in Tasks : addr[t] = a /\ pc[t] \in InserterPCs}
RoomBelowLimit == IF MaxIdlePerDest = 0 THEN 0 ELSE MaxIdlePerDest - 1
PerDestBound == RoomBelowLimit + Cardinality(Tasks)

\* insert_stream checks max_idle_per_dest under one guard and pushes under
\* another, so concurrent puts and refreshes can pass the limit together; but
\* never by more than one connection for each further task inside the pool.
\* With a single task this is the configured limit itself.
OvershootBounded == \A a \in Addr : Len(pools[a]) <= PerDestBound

\* evict_oldest looks only at the first connection of each vector, and
\* try_get_from_pool pops from the end: both rely on every vector being ordered
\* oldest first, across push, pop, remove(0) and the retain of the clean-up.
OldestFirst ==
  \A a \in Addr : \A i, j \in DOMAIN pools[a] : i < j => pools[a][i] >= pools[a][j]

\* put lowers the destination's in_use only after insert_stream; a task that
\* panicked inside insert_stream never does.
BeforePutRecord == {"ins_check", "put_record", "ins_count", "panicked"} \union InserterPCs
Owing(a) == {t \in Tasks : addr[t] = a /\ job[t] = "put" /\ pc[t] \in BeforePutRecord}
Connecting == {t \in Tasks : pc[t] \in {"connecting", "ref_connect"}}

\* pending_creates is the number of connects under way.  The pool-wide in_use and the
\* destination's are what is checked out (and, of the destination's, what a put has not
\* recorded yet), never more, and less by at most one for each stream that was given
\* back without having been handed out: a saturated decrement does not make up for one
\* that hit another caller's stream.  Without such streams they are exact.
DestCountersExact ==
  enabled =>
    /\ pending = Cardinality(Connecting)
    /\ in_use <= SumFunctionOnSet(held, Addr)
    /\ SumFunctionOnSet(held, Addr) <= in_use + SumFunctionOnSet(strays, Addr)
    /\ \A a \in Addr :
         LET out == held[a] + Cardinality(Owing(a)) IN
         dest_in_use[a] <= out /\ out <= dest_in_use[a] + strays[a]

\* The puts that died in evict_oldest before their decrement_active.
Abandoned(a) == {t \in Tasks : addr[t] = a /\ job[t] = "put" /\ pc[t] = "panicked"}

\* The count that stats() reports as connections_in_use comes from active_counts.
\* When no operation is under way it is exactly the streams checked out, and those of
\* puts that panicked, unless an increment raced the removal of the counter or a stream
\* was given back that was never handed out; then it may be too small.  It is never too
\* large, and no entry is left behind for a destination nobody uses.
ActiveReported ==
  enabled /\ Settled =>
    \A a \in Addr :
      LET out == held[a] + Cardinality(Abandoned(a)) IN
      /\ active[a] <= out
      /\ a \in actives => out > 0
      /\ a \notin raced /\ strays[a] = 0 => active[a] = out

\* What a task has taken out of the vectors and not yet subtracted from total_idle, and
\* what it has pushed and not yet added.
AfterEviction == {"evict_drop", "ins_push", "ins_count", "put_record"}
Unsubtracted(t) ==
  CASE pc[t] \in {"get_remove", "get_count"} -> expired[t] + (IF popped[t] THEN 1 ELSE 0)
    [] pc[t] \in AfterEviction /\ best[t] # None -> 1
    [] OTHER -> 0
Unadded(t) == IF pc[t] = "ins_count" THEN 1 ELSE 0

\* By how much total_idle, once every task has done its part, differs from the number
\* of pooled connections; a word.
Drift ==
  ( total_idle + SumFunctionOnSet([t \in Tasks |-> Unadded(t) - Unsubtracted(t)], Tasks)
    - SumFunctionOnSet([a \in Addr |-> Len(pools[a])], Addr) ) % Wrap

\* The connections pushed into a vector between the drop of its guard and the removal
\* of its entry: they go with it and stay counted.
Leaked(t) ==
  CASE pc[t] = "get_remove" -> Len(pools[addr[t]])
    [] pc[t] = "evict_drop" -> Len(pools[best[t]])
    [] OTHER -> 0

\* An eviction whose candidate has gone removes nothing and is counted.
Phantom(t) == IF pc[t] = "evict_remove" /\ best[t] \notin entries THEN 1 ELSE 0

\* total_idle is what the global limit is decided on.  It drifts from the pooled
\* connections in exactly two ways, upwards by the connections that go with an entry
\* removed after its guard was dropped, downwards (wrapping below zero) by an eviction
\* that found its entry gone; no other interleaving of push, pop, expiry, eviction and
\* clean-up moves it by one.
IdleDrift ==
  [][ Drift' = ( Drift + SumFunctionOnSet([t \in Tasks |->
                           IF pc'[t] = pc[t] THEN 0 ELSE Leaked(t) - Phantom(t)], Tasks) )
               % Wrap ]_vars

\* The clean-up task removes every expired connection from its vector.
ExpiredCleared ==
  \A a \in Addr :
    (\E i \in DOMAIN pools[a] : IsExpired(pools[a][i]))
      ~> (\A i \in DOMAIN pools[a] : ~IsExpired(pools[a][i]))

-----------------------------------------------------------------------------
(* What a comment says and the code does not do                            *)

\* evict_oldest: "Remove the oldest connection (now safe - no conflicting locks)".
EvictionSafe == \A t \in Tasks : pc[t] # "panicked"
=============================================================================
