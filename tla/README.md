# A TLA+ model of RustSocks

RustSocks is a SOCKS4/SOCKS5 proxy: an asynchronous (tokio) server that
authenticates clients, filters requests with an ACL that can be reloaded while
the server runs, tracks every connection as a *session* that is written to a
database in batches, shapes bandwidth (QoS), and pools upstream connections. An
HTTP API lists and terminates sessions, edits the ACL and the configuration file, and
restarts the server.

This directory models the parts of that program whose correctness depends on the
order in which tasks run, on what fails between two steps, or on a case analysis too
large to test: modules in TLA+, TLC configurations that check them on
small instances, and TLAPS proofs that hold for every instance. Paths such as
`session/manager.rs` are below `src/src/`.

    tlc -config pool.cfg MCConnectionPool      model-check one configuration
    tlapm ConnectionPoolProofs.tla             check the proofs of one module

`PROJECT.json` maps every definition to the lines it translates, lists the runs,
the mutations each property was shown to catch, the hazards and the theorems.

## 1. Inventory

| component | state it keeps | operations | what makes it correct |
|---|---|---|---|
| connection pool, `server/pool.rs` | `DashMap` of idle vectors per address, `total_idle`, in-use and pending counters, per-destination metrics, `active_counts` | `get`, `put`, `release`, spawned refresh, eviction, clean-up task | limits respected up to the race the code has; vectors oldest first; counters leave what is pooled or checked out only in known ways; expired connections go away |
| session manager, `session/manager.rs` | `active_sessions`, `session_controls`, `closed_sessions`, `rejected_sessions`, traffic channel | `new_session_with_control`, `update_traffic`, `queue_traffic_update`, `close_session`, `terminate_session`, `track_rejected_session`, `enforce_acl`, `close_all_active`, `shutdown` | recorded exactly once; always cancellable while active; traffic exact; blocked sessions ended |
| batch writer, `session/batch.rs` | queue, two `Notify`, worker | `enqueue`, `flush`, `shutdown` | the last record of a session reaches the table and stays |
| session store, `session/store.rs` | the sessions table | `save_batch`, `close_all_active_sessions`, queries, retention clean-up | rows that say active belong to the running process |
| CONNECT and relays, `server/handler.rs`, `server/proxy.rs` | per request: session, upstream connection, token, two relay tasks | `handle_connect`, `proxy_data`, `proxy_upload`, `proxy_download` | every packet credited once; one side's end ends the other; connection and session given back |
| QoS, `qos/` | per-user and global token buckets, connection counters, gauge, rebalancing task | limit check, allocation, rebalance, guard drop | limits hold up to the race; no count leaked; granted bytes bounded; an allocation ends unless others starve it |
| ACL hot reload, `acl/watcher.rs`, `acl/engine.rs`, `acl/loader.rs` | engine's configuration, fingerprint, two watcher tasks | event, poll, `maybe_reload` | the engine ends up with the file's last content; the old one is kept when the new one is bad |
| ACL evaluation, `acl/matcher.rs`, `acl/engine.rs` | compiled rules | `evaluate`, `evaluate_with_groups` | BLOCK before ALLOW, priorities, default policy |
| ACL management, `acl/crud.rs`, `acl/persistence.rs`, `api/handlers/acl_management.rs` | the file and the engine | add, update, delete rules and groups, `save_and_reload` | file and engine agree after every edit; a failed save leaves what it found in the file or in the back-up |
| handshake, `server/handler.rs`, `protocol/` | per connection | negotiate, authenticate, parse, dispatch | no request is served before its authentication |
| BIND and UDP, `server/bind.rs`, `server/udp.rs` | listener, relay sockets, client address map | accept with timeout, relay loops, control connection | control connection and relay end together |
| authentication, `auth/` | backends built from the configuration | method choice, user and password, PAM, GSSAPI exchange, group lookup | a session only for the user that was proved, under the check that was configured |
| listener and process, `server/listener.rs`, `main.rs` | the wiring of all parts | start-up, accept loop, shutdown, restart | table swept before the first connection; what was closed is saved; a validated configuration starts |
| configuration, `config/mod.rs`, `api/handlers/management.rs` | the file, the start-up snapshot | read, validate, `write_to_file`, `update_config_file`, `update_runtime_config`, `schedule_restart` | the file holds a document the next start accepts but for the ways the code has to lose it; a restart ends with a server |
| SQLite file, `session/store.rs` | database, log, back-ups, quarantined files | `connect`: preflight, create, back-up, migrate, journal mode, integrity check | no committed row lost by connecting but by a quarantine |
| API login, statistics, telemetry, metrics, dashboard | | | see "Not modelled" |

How they interact: the listener spawns one handler task per connection. A handler
negotiates, passes the QoS connection limits, asks the ACL, takes an upstream
connection from the pool, registers a session, replies, and joins two relay tasks.
The relays ask QoS for bandwidth and report traffic to the session manager. The
session manager enqueues snapshots to the batch writer, whose worker saves them in
transactions. API, ACL enforcement and shutdown terminate sessions by cancelling a
token that the relays watch. All shared state is in `DashMap`s, atomics, or behind
small locks, each released before the next is taken; there are few compound atomic
operations, and that is where the hazards are.

Hard behaviours: check-then-act across two guards (pool limits, eviction, connection
limits); snapshots handed over after their lock was released (session writer);
several tasks ending the same session; stale collections (`enforce_acl`, the traffic
worker's copy, the ACL watcher's fingerprint, the API's start-up snapshot); files of the
same name written by two requests; early returns between two registrations
(`handle_connect`); awaits that do not watch the token (`write_all`, bandwidth); a crash
or exit with batches in flight. `PROJECT.json` lists those a property is about, line by
line.

## 2. Plan

Built, in this order: the pool; the session manager with writer and store; the CONNECT
request with its relays; the connection limits; ACL evaluation, editing and hot reload;
the client connection from handshake to BIND and UDP ASSOCIATE; bandwidth; the abstract
life cycle of a session and the refinement to it; the life of the process with its
configuration and database files. To come:

1. Proofs: every safety property that a run checks is proved, the refinement and the
   action properties included, but for `IdleDrift`. What else remains are lemmas of
   independent interest, such as the edits of AclCrud keeping a valid configuration
   valid.
2. What the pool's global limit still means once `total_idle` has drifted
   (`IdleDrift` says in which two ways it does).
3. The login sessions of the API (`api/auth.rs`) and the trimming of the in-memory
   histories.
4. Composition: the calls ProxyRelay and SocksHandler make on the pool and the session
   manager replaced by those modules' interfaces.

## 3. The models

### ConnectionPool (MCConnectionPool, ConnectionPoolProofs)

A step is one section under a `DashMap` guard or one atomic access of a task inside
`get`, `put`, `release`, the refresh it spawns, `insert_stream`, `evict_oldest` or
`try_get_from_pool`; `Cleanup` is the timer task, one destination at a time, `Tick`
is time. An idle connection is its age, capped one above the idle timeout (`MaxAge`),
since only the order of ages and their being expired is ever looked at. `pools[a]` is
the vector of address `a`, `entries` the addresses that have a map entry (an empty
vector with an entry is what `Vec::remove(0)` panics on). `total_idle` and
`active_counts` wrap at `Wrap`, as their `fetch_sub` does; `in_use` uses the
saturating compare-exchange loop of the code. `held[a]` counts the connections that
clients have checked out. `put` and `release` do not ask where a stream came from, and
`handle_bind` calls them for the peer it accepted (`bind.rs:103-144`), which no `get`
returned: `TakeBack` may take such a stream, counted in the history `strays` and bounded
by `MaxStrays`. The history `raced` has the addresses of which an increment of
`active_counts` fell between the `fetch_sub` and the `remove` of `decrement_active` and was
lost with the entry.

### SessionManager (SessionManagerProofs)

`memVars` are the four maps and lists of the manager and the cancelled tokens, `rec` is
the content of each `Arc<RwLock<Session>>`: its status and the number of updates
applied. `pc`/`target`/`snap` give each task's place in `close_session`,
`terminate_session`, the sweep of `enforce_acl` or `close_all_active`. Relays have a
control of their own (`rpc`), because their snapshot (`rsnap`) leaves the session's
lock before it enters the queue. The writer is `queue`, `permit` (the stored permit of
`flush_notify`), `signal` (the worker was waiting when `notify_waiters` was called) and
`wpc`. `Save` commits or fails as a whole. `ProcessEnds` stops every task where it
stands, whether `main` returned or the process was killed; `Restart` starts with fresh
memory and the table's sweep, which may fail and is then only logged.

`start_traffic_worker` clones the `DashMap` by value, so `WorkerSessions` is the empty
set it held at construction; this is the code's behaviour and not a simplification.

### ProxyRelay (ProxyRelayProofs)

One request from name resolution to `close_session`. Every early return of
`handle_connect` is an action (`ConnectFails`, `ReplyFails`). A relay is `read` (the
`select!` with the token), `allocate`, `write`, `update` (flush after
`packet_interval` packets), then `final` (last flush, cancel the token) or `fail` (last
flush only). `Outcome` is the table by which `proxy_data` joins two results. The
session manager and the pool are the calls this code makes on them.

### SessionLifecycle

The abstract specification of the tracker: a session is opened once or rejected,
cancelled only while it is open, taken by one closer, recorded once and never reopened;
the end of the process forgets all. `SessionManager!LifeSpec` instantiates it with the
process flag, the cancelled tokens and, as stage of a session, which of the manager's
maps and lists it is in and how far its closer has come.

### AclEngine, AclCrud, AclAdmin (MCAclAdmin, AclAdminProofs)

`AclEngine` is `acl/matcher.rs` and `acl/engine.rs` as operators: when a rule compiles,
matches, what the two `collect_rules` functions return and what the two `evaluate`
functions answer. `StoredQuery` is what the session manager keeps of a request and
`enforce_acl` decides on: the text of a TCP destination, and `0.0.0.0` port 0 for every UDP
ASSOCIATE. `sort_unstable_by` is every order its comparison allows, so an
evaluation is the *set* of answers the code may give. A domain is its sequence of labels;
what the regular expression made of a label with a `*` inside accepts is a table
(`StarLabels`), because the code turns `prod-*` into `prod-` repeated.

`AclCrud` holds the edits of `acl/crud.rs`, each returning the new configuration or
`Failed`. `AclAdmin` runs them: a request loads the file, edits, makes the back-up, writes
and reads back a temporary file named after the second, renames it, deletes the back-up
and reloads, one action per file operation, with the restore on each failure. Every file
operation may fail, the copy of `restore_backup` too, whose error the code drops. Writing the
temporary file and restoring the ACL file are two steps each, the truncation and the text, and
a text goes to the file that was opened, whatever its name is by then (`fd`): requests of the
same second share a temporary file, and one may rename what another is writing. A text that
is cut off, or mixed with another one's, is taken as unreadable or empty. The copy to the
back-up file, which only requests read, is one step, and the removal of a temporary file is
taken to succeed. The event
task and the poll task of the watcher capture the fingerprint, load, apply and store it.
Nothing holds a lock across these steps, in the code or here. A history variable `raced`
says that a request or a second watcher task installed what it had read before the last
change, after the watcher had looked: the one way the engine can stay behind the file.

### SocksAuth, SocksHandler (MCSocksHandler, SocksHandlerProofs)

One client connection: `handle_client`, `handle_socks5`, `handle_socks4`, the exchange of
each authentication method, `handle_connect` up to `proxy_data` (whose inside is
ProxyRelay), `handle_bind`, and `handle_udp_associate` with the relay task it spawns, its
two address maps, its idle timer and the broadcast channel that shuts it down. The
parsers appear as the sets of what they may return (`Greetings`, `Requests5`,
`Requests4`, `ParsesAsUdp`), refusals included; PAM, Kerberos, the resolver and the
group database answer as they like. `setup` is chosen in `Init` from every combination of
backends. Each write to the client may fail (`broken`), and every `?` on it returns.

### Bandwidth (MCBandwidth, BandwidthProofs)

A `TokenBucket` is its tokens, the time since `last_refill` and its mutex; `consume` is
the refill under the mutex (skipped when another task holds it) and the compare-exchange,
in steps. `allocate_bandwidth` takes the amount from the global bucket, then from the
guaranteed or the maximum one. The rebalancing task computes the shares and sets them one
user at a time; `set_refill_rate` writes through a cast pointer without the lock, so a
refill reads the old or the new rate (`stale`). `ideal` is the history the bound is about:
what an exact bucket of the same rate would hold. For a user the bound is stated of
configurations whose maximum is at least the guarantee: otherwise the subtraction of
`htb.rs:434` wraps (in a build without overflow checks), the user's maximum bucket is filled
at the guarantee and more, and only the global bucket bounds the user.

### ServerConfig, ServerLife (MCServerLife, ServerLifeProofs)

`ServerConfig` is `Config::validate` section by section, the defaults, and how a runtime
update is laid over the start-up snapshot. `ServerLife` is the process: `main` and
`SocksServer::new` step by step (`proc[p].pc` names the part being built), each with the
error or the failing `expect` the code has there; `SessionStore::connect` with one action
per file operation, so that a crash can fall between any two; the API's two
configuration requests with every step of `write_to_file`; the restart, in which the old
process lives on while the new one starts. Ports are held by the processes that have
bound them. The temporary, back-up and quarantine names hold the second (`clock`), and a
handler keeps writing to the file it opened under whatever name that file has by then.
`damaged`, `lost` and `excuses` are histories. The database is the set of rows in the
file and the set in the log. A process is started by hand only when none runs, and every
configuration names the same ports and an SQLite file (or a URL that is not one).

### ConnectionLimits (MCConnectionLimits, ConnectionLimitsProofs)

`check_and_inc_connection_arc` step by step: read the total, read the user's count,
raise the user's count, raise the total, move the gauge; the guard's drop undoes it.
Neither contains an await, so a handler inside them occupies a worker thread:
`Threads` bounds how many can be inside at a time. Loads are taken to return the
current value; `Ordering::Relaxed` would also allow a slightly older one.

## 4. Runs

| run | instance | shows |
|---|---|---|
| `pool` | 2 tasks, 1 address, limits 2 and 1, 2 streams out, 1 stray one, word size 4 | overshoot bounded, vectors oldest first, in-use counters off by the stray streams at most, reported active count exact unless an increment was lost, `total_idle` drifts in two ways only, expired connections leave |
| `pool_evict_panic` (violation) | 2 tasks, 2 addresses, limits 1 and 1 | `remove(0)` on an emptied vector: the comment "now safe - no conflicting locks" does not hold |
| `session` | 1 TCP session, 2 relays, 1 API task, shutdown, batch size 2, 2 packets | recorded once, termination cancels, traffic exact, closing record persists |
| `session_process` | 1 UDP session, 1 enforcement, 1 reload, shutdown, 1 failing transaction, 1 crash | enforcement complete, active rows belong to the running process, the tracker implements SessionLifecycle |
| `proxy` | packet interval 2, 3 packets per direction | traffic counted, no verbatim reuse, an end of stream or a termination ends the request |
| `limits` | 4 handlers, 2 users, 2 threads, limits 1 and 2 | overshoot below the number of threads, counters and gauge exact |
| `acl_rules` | 1 request of every kind, 1 edit by hand, 2 failing file operations, the poll task; 4 rules, 2 users, 2 groups that differ in case | answers equal the reference, enforcement decides like the handler or ends a session only by the default policy, a request alone is atomic or leaves what it found in the back-up, the engine converges to the file |
| `acl_admin` | 2 requests, both watcher tasks, 2 seconds | the engine never holds what reload refuses; it stays behind the file only through the race named above |
| `acl_rollback` (violation) | 1 request, 1 failing file operation | the watcher loads the file that a restore has truncated |
| `socks` | every pair of backends, 2 users, 3 names, 2 UDP ports, 3 datagrams, an administrator | who is served and what is answered; what is left behind; answers go to ports that asked; terminations end session and UDP relay, and the handler when peers read; the idle timer ends what is left |
| `bandwidth` | 4 configurations, 2 users, relays that read for ever | granted bytes bounded, shares fit the link, an allocation that fits a bucket ends unless another task consumes for ever |
| `server` | 4 groups of settings: 3 faults, failing steps included, around a store with 2 rows; 2 concurrent edits; 10 documents on 3 hosts with and without file and `--bind`; a restart while rows are written | files kept, no panic, a restart ends with a server |

Bounds. Two tasks suffice for each race between a check and its use; that no third
task makes the pool's or the limits' overshoot worse than stated is what the proofs
add. Limits of 1 make every second connection hit them (of the pool's two limits the global one is the
smaller, so that an insert evicts its own destination's oldest connection), and the four handlers of
`limits` are more than either bound, so the bound is not met by lack of handlers (both
bounds are reached). Word size 4 lets the wrapping counters wrap. A stray stream
lets a decrement hit another caller's stream and another saturate; with one address every
race of push, pop, eviction and removal of an entry is met, and the proofs add any number of
them (`IdleDrift`, not proved, is checked for one). One session has all its closers at once. `BatchSize` 2 lets both the permit
and the ticker start a flush, and a session's opening, traffic and closing records
spread over two batches. Two packets for two relays give two snapshots in flight with
the closing record; `PacketInterval` 2 with 3 packets makes one flush full and leaves one packet for
the last flush. One crash is enough to put one row of a dead process into the table.
The rules of `acl_rules` cover each kind of destination, port and protocol, equal priorities
and both actions; one request of each kind on them, followed by a hand-written file, brings
the engine through some hundred configurations, in each of which all queries are compared.
Two faults let a restore fail after the failure it is for.
`acl_admin` has one rule that validates and does not compile, enough for a reload to be
refused. Three datagrams let two client ports and a destination alternate on one address.
The bandwidth configurations are chosen for their cases (two users in a link too narrow for
both, no guarantee with a read above the burst, guarantee above the maximum, demands that the
link cannot meet); a relay
reads again as often as it likes, so that consumption by others never runs out; `memory` bounds the time a bucket
remembers by what fills it. In `server` three faults allow a power loss that damages the
file, a crash or a failing step inside the recovery, and one more; two rows tell the log from the file;
two seconds let names clash or differ. Symmetry is used where no liveness is checked: for
addresses and tasks of `pool_evict_panic`, users and handlers, requests and watcher tasks.
The other runs may stop (everything closed, edits used up, process ended), so they do
not check deadlock; the pool and limits runs do.

Fairness. tokio polls every task that is ready: an operation that was started goes on
(weak fairness of a task's own steps), `connect_new` has a timeout, the interval timers
of the clean-up and of the writer keep firing. `select!` polls its branches in random
order, so a token that stays cancelled is seen even when data is always ready (strong
fairness of `ReadCancelled`). The poll task of the ACL watcher looks at the file again
and again, and a request that has begun goes on with its file operations. Time passes
(`Tick` of Bandwidth), so `consume`'s sleep ends. The UDP relay's idle timer fires once no
datagram comes, and datagrams are bounded by `MaxPackets`; BIND's accept has its timeout. A
process goes on with its start-up, and one that spawned its successor exits. No fairness is
given to clients, API calls, edits, reloads, spawns or crashes. `DrainingSpec`
of ProxyRelay also assumes peers that take what is written to them or close;
under `FairSpec` alone `TerminationEndsRequest` fails, because `write_all` is outside
the `select!`: a peer that stops reading keeps a terminated request alive. SocksHandler
says the same of its two cases: without an assumption on the peers a termination ends
the session, the UDP relay and every handler that is not inside `proxy_data`; with
peers that read (`Draining`, an antecedent in the property and not part of `FairSpec`) the
handler too. The fairness of Bandwidth makes no promise about whose `consume` wins a refill,
for `consume` has no queue.

## 5. Proofs

`ConnectionPoolProofs`, for any tasks, addresses and limits:

- `PoolTypeCorrect`: TypeOK. `pending` is decremented without a check, so it stays a
  natural number only because it equals the number of tasks inside `connect_new`
  (`PendingExact`), which is the strengthening.
- `PoolOvershootBounded`: `Len(pools[a])` plus the inserters past the check is at most
  the limit less one plus the number of tasks. Also needed: an address without an entry
  has an empty vector.
- `PoolOldestFirst`: ages never grow along a vector; every operation takes a
  subsequence or appends an age of 0, and time keeps the order.
- `PoolCountersExact`: `in_use` lies between the sum of `held` less the stray streams and
  that sum, a destination's likewise between `held[a]` with the puts that have not come to
  their record (`Owing`) less its own stray streams, and that. A decrement by a stray stream
  either lowers the counter by one or finds it at zero; no other decrement saturates
  without one. Also needed: only refresh tasks come from `ref_connect` to the insert, and
  only a disabled pool connects directly (`JobInv`).
- `PoolActiveReported`: `ActiveInv` and `ExactInv`. Between the `fetch_sub` that leaves zero and
  the removal of the entry the counter may have any value, wrapped below zero too, since another
  task's decrement may find the zero; the removal makes it zero whatever happened.
  While nobody is about to remove it, it is at most the streams checked out and the
  decrements still to come, and an entry that is zero got there by wrapping upwards,
  when at least `Wrap` streams are out. For an address no increment of which was lost and
  no stray stream was given back, the counter equals those claims throughout, and it is
  removed only when there are none.

`ProxyRelayProofs`, for any `packet_interval` and any amount of traffic:
`ProxyTypeCorrect`, `ProxyTrafficCounted`, `ProxyNeverReuses`. The inductive invariant
`IInv` adds which places handler and relays can be in together (`Phases`), that the
session is active as long as nobody terminated it and the relays run (`SessionLives`),
that counted plus pending is the total (`Accounted`), and that a relay past an error-free
end has seen its end of stream. The last one is why a connection is never reused as it
is: the download returns Ok only after the upstream closed.

`ConnectionLimitsProofs`, for any users, handlers, threads and limits:
`LimitsTypeCorrect`, `LimitsBounded`, `LimitsCountersExact`, `LimitsGaugeExact`. The
invariant counts each counter together with the handlers that passed its check
(`UserRoom`, `GlobalRoom`), bounded by the threads that can be inside
(`ThreadsBound`); the gauge lags behind the active users by exactly the reports still
to be made (`GaugeLags`), and two handlers never report the same user's first connection
at a time (`OneActivation`), which is why it cannot go below zero.

`SessionManagerProofs`, for any sessions, relays, administrative tasks, crashes and failing
transactions:

- `CoreAlways`: `CoreInv`, per session what the maps say given where its handler is
  (`SessionOk`), per task and session what a task at work on it may rely on (`TaskOk`), and
  that the removal from `active_sessions` has one winner (`OneWinner`). From it follow
  `SessionsRecordedOnce` and `TerminationsCancel`: a task that took a session out of the
  map came past its control entry, so the token is cancelled, or the handler was first.
- `EnforcementsComplete`: what an enforcement owes is blocked, was inserted before, and is
  still to be scanned, on its list, being terminated by it, or active no more
  (`EnforceInv`); a session past its insertion is never inserted again.
- `ActiveRowsOurs`: what is in the queue, in a batch or about to be queued is of a session
  that the running process created (`RowsInv`), so that saving a batch, the last record
  of each session in it, keeps the table's rows ours.
- `TrafficAlwaysExact`: the updates issued are the count of the record and the relays between
  their issue and their count; none is there when the session is marked closed (`TrafficInv`).
- `TrackerImplementsLife`: each step of the manager is a step of SessionLifecycle or a
  stutter, action by action, from `CoreInv`.

`SocksHandlerProofs`, for any users, groups, destinations, ACL and number of datagrams:
`HandlerAlways`, and from it `HandshakesSound`, `SessionsAlwaysSettled` and
`AnswersAlwaysInvited`. `HandlerInv` says for every place of the handler how far the
authentication has come (`Identified`, `Proven`) and that the ACL has allowed what is past
it (`AuthInv`), which command is being served and what was sent (`ReplyInv`), and what is
held of the pool, the session manager and the relay (`SettleInv`). `RouteInv` is about the
relay's reverse map: it names a port only after that port wrote to the address.

`ServerLifeProofs`, for any documents, hosts, rows, processes, handlers, requests and faults:
`LifeAlways`, `NeverPanics`, `FilesAlwaysKept`. A process has a configuration whose parts the
`expect`s rely on passed `validate`, through defaulting and normalising too, and one
process at a time is more than waiting for its end (`ProcInv`). What is not lost is in the
file, the log or a quarantined file, and each step of `connect`, those that fail included,
knows what the file is and that only a damaged or unread one is being put aside (`StoreInv`). While no rename failed and no two handlers shared a temporary file, a handler
is alone with its file and renames what it was asked to write; what the disk may have of the
configuration is one of the files it was, or torn, and then power was lost (`WriteInv`).

`AclAdminProofs`, for any rules, queries, requests, watcher tasks, edits and failing file
operations: `AdminAlways`, `EngineAlwaysValid`, `StaleOnlyByRaces`, the action property
`EditsAreAtomic`, and about the operators `AnswersAlwaysReference` and `PathsAlwaysAgree`.
`AdminInv` says that what is on its way to the engine was validated (`EngineInv`), that a
content of the file has a stamp of its own which no watcher can hold before the rename
(`StampInv`), that a watcher stores a stamp only of what the engine has unless the
race was recorded (`RaceInv`), that a temporary file somebody has open exists (`OpenInv`),
and what a request that runs alone has left in file, back-up
and temporary file so far, whichever operation failed (`AloneInv`). The two theorems on evaluation rest on the
comparison being a total order up to equal rules and on the first match of a sorted sequence
being a match no other precedes. `PathsAlwaysAgree` also needs that the stored text of a TCP
destination matches what the address matches, or less when an ip was sent as a name, and that
every rule `enforce_acl` collects from the file's groups is among those the handler collected
from the reported ones.

`BandwidthProofs`, for any users, tasks, reads, configurations and timing: `BandwidthAlways`,
`RatesAlwaysRespected`, `SharesAlwaysFit`. The bound on what was handed out is not
inductive, because tokens are also in a refill under way and in time not yet credited.
`WorthInv` bounds all three together: tokens, the refill a task is about to add and the
time since the last refill, each capped at a burst as the code caps it, are
worth at most what the ideal bucket holds and two bursts. `LockInv` (one refill of a bucket
at a time) keeps the second to one burst, `TurnInv` bounds the rates while they change. The
shares are sums over the active users, bounded by the sum of the demands they are
proportional to.

Induction over data: the provers cannot instantiate an induction rule with a predicate, so
where a proof needs one (the sum in `SumFunction`, the last record of a session in a batch,
the first match in a sorted sequence) it goes by the least counterexample, over a set
(`LeastNatural`, `SubsetInduction`). `SumUnfolds` shows that the recursive function inside
`SumFunction` exists; the other lemmas on sums follow from it. Each proof module stands
on its own, so these lemmas appear in every module that uses them.

The assumptions are those named in the modules. `PoolConstants`, `LimitsConstants`,
`BandwidthConstants`, `SessionConstants`: finite and disjoint sets, natural limits, a word
of at least two values, a number of threads and a packet interval (`RelayConstants`) that
are not zero. `DataAssumption` and `InitialFileAssumption` of AclAdmin: rules and
configurations are of their types, and the server started with a file that validates and
compiles. `BandwidthConstants` also says that the remembered time fills every bucket.
`DocumentsAssumption` of ServerLife: documents are configurations. `BoundsAssumption` of
either: bounds are natural numbers. SocksHandler needs none.

Only model-checked: the liveness properties (ExpiredCleared,
HandlerClosePersists, EofEndsRequest, TerminationEndsRequest, AllocationEnds, Converges,
TerminationEnds, LeftBehindReaped, RestartServes), for the prover has no rules for
fairness; and `IdleDrift`, an action property whose proof is still to come.

## 6. Where code and documents disagree

Two violation runs, quoted in `PROJECT.json`, show a sentence of the repository that the
code does not keep:

- `pool_evict_panic`: "now safe - no conflicting locks" (`pool.rs:664`), but an eviction can
  call `remove(0)` on an emptied vector and panic.
- `acl_rollback`: "Atomic writes" and "Rollback capability on errors" (`persistence.rs:4-6`), but
  the rollback truncates the live file, which the failed save had not touched; the watcher may
  load the empty configuration and end the sessions it blocks. If the copy fails too, the file
  stays empty and what it held is in the back-up only (`EditAlone` names the case).

Seven more sentences are stated as formulas of the modules. Each is violated within seconds when
it stands in place of the properties in the cfg given with it:

- `ReturnedForReuse` (ProxyRelay, `proxy.cfg`): "the upstream TCP connection is returned to the
  pool" (`src/README.md:333`, `docs/technical/connection-pool.md:114`), but a used connection
  never is: the first relay to end cancels the other, `proxy_data` returns `ConnectionClosed` and
  the connection is dropped, or the upstream has closed and the hint is to dial a new one. The
  Reuse branch is never taken (`NoVerbatimReuse`).
- `AnswersAsDocumented` (AclAdmin, `acl_rules.cfg`): `docs/guides/active-directory.md:1316-1318`,
  `docker/configs/acl.toml:137-140` and `config/examples/acl-ad-example.toml:11` order rules by
  priority and let BLOCK break ties, and the first two say that user rules come before group
  rules (`active-directory.md:1279`); the code, `docs/technical/architecture.md:28` and
  `tests/acl_unit.rs:1135` put every BLOCK first and mix user and group rules.
  `AnswersAreReference` is about the code's order.
- `EnforcementFollows` (AclAdmin, `acl_rules.cfg`): `enforce_acl` is to "terminate those that are
  no longer allowed" (`manager.rs:518`), but a UDP session is stored as `0.0.0.0` port 0
  (`handler.rs:840`, `849-850`), so that rules about addresses or ports never reach it, and groups
  only the system reports are not looked at.
- `NoUserStarves` (Bandwidth, `bandwidth.cfg`): "HTB algorithm ensures no user starves others"
  (`src/README.md:399`), but who polls first after each refill of the global bucket gets it.
- `RowsSurvive` (ServerLife, `server.cfg`): start-up "cannot silently destroy `sessions.db`"
  (`docs/technical/session-management.md:103`), but a quarantine removes the log with the rows
  that were only there (`store.rs:923`), and a second one within the second replaces the first
  file.
- `OnlyBrokenAside` (ServerLife, `server.cfg`): "If the file looks corrupt, it is quarantined"
  (`session-management.md:98`), but any error in reading the header (`store.rs:848`) or in running
  the check (`store.rs:111`) puts an intact database aside.
- `ConfigAtomic` (ServerLife, `server.cfg`): "Persist the configuration atomically"
  (`config/mod.rs:627`, `docs/guides/web-dashboard.md:133`), but the temporary file is never
  synced, is shared by requests of one second, and the old file is removed when the rename fails
  (`config/mod.rs:643-679`).

Modelling also met these, which the same modules show when the stronger property is stated:

- A relay's older snapshot that reaches the queue after the closing record makes a closed
  row active again (`manager.rs:409`); `terminate_session` promises "recording closure"
  (`manager.rs:445`).
- The UDP traffic worker works on a copy of `active_sessions` and counts nothing
  (`manager.rs:84`).
- A `?` on a failed reply leaves the session active (`handler.rs:727`).
- `docs/guides/web-dashboard.md:133` says the runtime editor validates "exactly like process
  startup". `validate` looks neither at the QoS algorithm, the key password nor the form of the
  database URL, all of which stop the next start.
- `schedule_restart` spawns the new process before the old one has released its ports; if the
  new one comes to bind first it gives up, and none is left (`management.rs:468`).
- `update_runtime_config` starts from the configuration of the start-up and so undoes an
  earlier edit of the file that did not restart (`management.rs:317`).
- A process that is still serving while its successor quarantines the database goes on
  committing to files that no longer have a name.
- `close_all_active_sessions` uses `julianday`, which MariaDB lacks: there the sweep fails and is
  only logged (`store.rs:157`).
- `validate` refuses `socks_method = "gssapi"` (`config/mod.rs:712`), so that backend is reachable
  only through `AuthManager::new`; SocksHandler models it nevertheless.
- `AclConfig::validate` warns that a rule without matchers "will match all", while the matcher
  lets it match nothing.
- Dropping any clone of the QoS engine stops the rebalancing of all (`qos/mod.rs:192`); its
  settings are not validated: a maximum below the guarantee is accepted, and the subtraction
  of the two wraps (`htb.rs:434`), so that the user's buckets are filled faster than either.
- An ACL request that fails to compile after its rename leaves the rule in the file and the old
  rules in the engine.
- `total_idle` drifts: `evict_oldest` reports an eviction when the entry was already
  gone (676), and removing an emptied entry after its guard was dropped (517) discards
  connections pushed in between. `tests/pool_concurrency.rs:168` asserts
  `total_idle <= max_total_idle` after concurrent operations.
- BIND puts or releases a stream it never took from the pool (`bind.rs:103-144`): the counts
  of connections in use fall below the true ones, by one for each (`DestCountersExact`).
- A SOCKS4 client, which a server without authentication serves, is the user it says it is
  (`handler.rs:428`), for ACL, sessions and limits alike.
- `active_counts` loses an increment that falls between `fetch_sub` and `remove` (212).
- Updates that reach the session manager after a termination are dropped, so the last
  flush of a cancelled relay is not counted (`manager.rs:384`).
- A request admitted under the old ACL that registers its session after the enforcement
  has ended is never re-evaluated.
- `BatchWriter::shutdown` does not wait for a batch that the worker is saving.
- The early returns of `handle_connect` also leave the connection counted as in use.

## 7. Not modelled

Panics of relay tasks; `get_stats`, searches and the other listings (they only read); the
retention clean-up of the tables and the metrics table; MariaDB (an external server);
telemetry, in-memory histories and Prometheus output; the login sessions of the API; PAM,
Kerberos and TLS themselves (external); the contents of streams and datagrams; the
dashboard, the load-test example and the build files. Disabled features (`QosEngine::None`)
have no state; the disabled pool is modelled. `PROJECT.json` gives the status of every part.

Some hazards are met by a property that names the bad case instead of forbidding it, because
the code has it and no document denies it: a failed write between `new_session` and
`proxy_data` leaves the session active (`SessionsSettled`, `broken`); a relay inside
`write_all` outlives its termination (`TerminationEnds`, `TerminationEndsRequest`); an
older snapshot of a session that was *terminated* may be saved after its closing record
(`HandlerClosePersists` is about sessions their handler closed); the answer to a UDP port may
go to another port of the client that asked the same address since (`AnswersInvited`); a
successor that cannot start, or that finds the ports taken, leaves no server
(`RestartServes`). These properties show that nothing else leads there.

Hazards of this code that no property is about:

- pool: the global limit is read before the insert that raises it (`pool.rs:556`), so it is
  exceeded by an insert per task, and by more once `total_idle` has drifted downwards;
- sessions: the traffic worker's copy of the map stays empty (`manager.rs:84`); a batch
  being saved is lost at exit (`batch.rs:119`); `enforce_acl` and `get_active_sessions` hold
  a shard guard across an await (`manager.rs:523`), which the model's atomic sections hide;
  `get_stats` counts a session that moves between two reads twice or not at all
  (`manager.rs:205`); the retention clean-up deletes rows of active sessions too
  (`store.rs:589`);
- relays: an IO error in one direction leaves the other waiting for its peer
  (`proxy.rs:295`); `into_inner` drops what was read behind a request (`handler.rs:308`);
- UDP: the relay's IPv4 socket is given an IPv6 address when there is one (`udp.rs:216`);
  a destination on the client's own host is taken for the client (`udp.rs:129`);
- QoS: dropping any clone of the engine stops the rebalancing task (`qos/mod.rs:192`),
  an action of Bandwidth under which its properties hold;
- process: the sweep of active rows precedes the binding of the ports
  (`listener.rs:288`), so that a second instance closes the first one's rows; a runtime
  update is laid over the start-up configuration (`management.rs:317`).
