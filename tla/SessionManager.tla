--------------------------- MODULE SessionManager ---------------------------
(***************************************************************************)
(* The session tracker of session/manager.rs together with the batch       *)
(* writer of session/batch.rs and the sessions table of session/store.rs.  *)
(*                                                                         *)
(* The actors are tokio tasks: the handler of each connection (called by   *)
(* the name of its session), the relay tasks of a session, the API, the    *)
(* ACL enforcement task, the server's main task during shutdown, the batch *)
(* writer's worker and the traffic worker.  A step is what a task does     *)
(* between two awaits that matter: one operation on a DashMap, one section *)
(* under the session's RwLock or the queue's Mutex, or one transaction.    *)
(*                                                                         *)
(* A session's user, addresses and times are left out; its traffic         *)
(* counters are one number, the updates applied.                           *)
(***************************************************************************)
EXTENDS Naturals, Sequences, FiniteSets, FiniteSetsExt

CONSTANTS
  Sess,         \* session ids; also the names of the handler tasks
  Udp,          \* the sessions of UDP ASSOCIATE
  Relays,       \* the relay tasks of a session
  Apis,         \* API tasks that terminate a session
  Enforcers,    \* tasks that run enforce_acl after the ACL changed
  Main,         \* the task that runs SocksServer::shutdown
  Worker,       \* the task BatchWriter::start spawns
  BatchSize,    \* BatchConfig.batch_size
  MaxPackets,   \* bound: traffic updates issued for a session
  MaxFailures,  \* bound: transactions that fail
  MaxReloads,   \* bound: changes of the ACL
  MaxCrashes,   \* bound: times the process ends and is started again
  MaxShutdowns  \* bound: 0 where no shutdown happens, else 1

Admins   == Apis \union Enforcers \union {Main}
Tasks    == Sess \union Admins
Flushers == {Worker, Main}

ASSUME SessionConstants ==
  /\ IsFiniteSet(Sess) /\ IsFiniteSet(Admins) /\ IsFiniteSet(Relays)
  /\ Udp \subseteq Sess
  /\ Apis \intersect Enforcers = {} /\ Main \notin Apis \union Enforcers
  /\ Worker \notin Tasks
  /\ Admins \intersect Sess = {}
  /\ BatchSize \in Nat /\ MaxPackets \in Nat /\ MaxFailures \in Nat
  /\ MaxReloads \in Nat /\ MaxCrashes \in Nat /\ MaxShutdowns \in 0 .. 1

VARIABLES
  alive,        \* the process runs
  policy,       \* the sessions the current ACL allows
  controls,     \* session_controls
  active,       \* active_sessions
  rec,          \* the Session each Arc<RwLock<Session>> holds
  cancelled,    \* the sessions whose CancellationToken is cancelled
  closed,       \* closed_sessions, per session
  rejected,     \* rejected_sessions, per session
  pc, target, snap,   \* per task: control, the session it works on, its snapshot
  scan, todo,   \* per task: ids still to visit, ids collected to terminate
  rpc, rsnap,   \* per relay: control and snapshot
  channel,      \* the queue of traffic_tx
  queue,        \* BatchWriter.queue
  permit,       \* flush_notify holds a permit
  signal,       \* the waiting worker was woken by shutdown_notify
  wpc,          \* the worker's control
  batch,        \* per flusher: the batch it is saving
  db,           \* the sessions table
  issued,       \* history: traffic updates issued per session
  owed,         \* history: per enforcer, the sessions it has to end
  lost,         \* history: a batch was dropped or the process ended
  swept,        \* history: close_all_active_sessions succeeded at start-up
  failures, reloads, crashes   \* counters of the bounds

memVars   == <<controls, active, rec, cancelled, closed, rejected>>
taskVars  == <<pc, target, snap, scan, todo>>
relayVars == <<rpc, rsnap, channel, issued>>
queueVars == <<queue, permit>>
saveVars  == <<signal, wpc, batch, db, lost, failures>>
aclVars   == <<policy, owed, reloads>>
lifeVars  == <<alive, swept, crashes>>
vars == <<memVars, taskVars, relayVars, queueVars, saveVars, aclVars, lifeVars>>

\* What is known of a session that does not exist yet, and of one just opened.
Blank    == [status |-> "none", bytes |-> 0]
Opened   == [status |-> "active", bytes |-> 0]

\* What a fresh process has in memory.  Ids are never used twice: a session an
\* earlier process created stays "done".
FreshMemory ==
  /\ controls' = {} /\ active' = {} /\ cancelled' = {}
  /\ rec' = [s \in Sess |-> Blank]
  /\ closed' = [s \in Sess |-> << >>] /\ rejected' = [s \in Sess |-> << >>]
  /\ pc' = [t \in Tasks |-> IF t \in Sess /\ pc[t] # "idle" THEN "done" ELSE "idle"]
  /\ target' = [t \in Tasks |-> IF t \in Sess THEN {t} ELSE {}]
  /\ snap' = [t \in Tasks |-> Blank]
  /\ scan' = [t \in Tasks |-> {}] /\ todo' = [t \in Tasks |-> {}]
  /\ rpc' = [s \in Sess |-> [r \in Relays |-> "idle"]]
  /\ rsnap' = [s \in Sess |-> [r \in Relays |-> Blank]]
  /\ channel' = << >> /\ queue' = << >>
  /\ permit' = FALSE /\ signal' = FALSE /\ wpc' = "select"
  /\ batch' = [f \in Flushers |-> << >>]
  /\ issued' = [s \in Sess |-> 0]
  /\ owed' = [e \in Enforcers |-> {}]

Init ==
  /\ alive = TRUE /\ swept = TRUE /\ crashes = 0
  /\ policy \in SUBSET Sess /\ owed = [e \in Enforcers |-> {}] /\ reloads = 0
  /\ controls = {} /\ active = {} /\ cancelled = {}
  /\ rec = [s \in Sess |-> Blank]
  /\ closed = [s \in Sess |-> << >>] /\ rejected = [s \in Sess |-> << >>]
  /\ pc = [t \in Tasks |-> "idle"]
  /\ target = [t \in Tasks |-> IF t \in Sess THEN {t} ELSE {}]
  /\ snap = [t \in Tasks |-> Blank]
  /\ scan = [t \in Tasks |-> {}] /\ todo = [t \in Tasks |-> {}]
  /\ rpc = [s \in Sess |-> [r \in Relays |-> "idle"]]
  /\ rsnap = [s \in Sess |-> [r \in Relays |-> Blank]]
  /\ channel = << >> /\ queue = << >> /\ permit = FALSE
  /\ signal = FALSE /\ wpc = "select" /\ batch = [f \in Flushers |-> << >>]
  /\ db = [s \in Sess |-> Blank] /\ lost = FALSE /\ failures = 0
  /\ issued = [s \in Sess |-> 0]

Goto(t, from, to) == pc[t] = from /\ pc' = [pc EXCEPT ![t] = to]

\* BatchWriter::enqueue, under the queue's lock.
Enqueue(s, r) ==
  /\ queue' = Append(queue, [id |-> s, rec |-> r])
  /\ permit' = (permit \/ Len(queue) + 1 >= BatchSize)

-----------------------------------------------------------------------------
(* The handler of a connection                                             *)

\* The ACL lets the request through; the upstream connect follows, and only
\* then new_session_with_control, whose first effect is the control entry.
Admit(s) ==
  /\ s \in policy
  /\ Goto(s, "idle", "controls")
  /\ UNCHANGED <<memVars, target, snap, scan, todo, relayVars, queueVars, saveVars, aclVars>>

\* The ACL blocks the request: track_rejected_session builds a closed record.
Refuse(s) ==
  /\ s \notin policy
  /\ Goto(s, "idle", "reject")
  /\ rec' = [rec EXCEPT ![s] = [status |-> "rejected", bytes |-> 0]]
  /\ UNCHANGED <<controls, active, cancelled, closed, rejected, target, snap, scan, todo,
                 relayVars, queueVars, saveVars, aclVars>>

TrackRejected(s) ==
  /\ Goto(s, "reject", "note")
  /\ Enqueue(s, rec[s])
  /\ UNCHANGED <<memVars, target, snap, scan, todo, relayVars, saveVars, aclVars>>

PushRejected(s) ==
  /\ Goto(s, "note", "refused")
  /\ rejected' = [rejected EXCEPT ![s] = Append(@, rec[s])]
  /\ UNCHANGED <<controls, active, rec, cancelled, closed, target, snap, scan, todo,
                 relayVars, queueVars, saveVars, aclVars>>

\* new_session_with_control: control entry, snapshot to the writer, active entry.
NewControl(s) ==
  /\ Goto(s, "controls", "enqueue")
  /\ controls' = controls \union {s}
  /\ rec' = [rec EXCEPT ![s] = Opened]
  /\ UNCHANGED <<active, cancelled, closed, rejected, target, snap, scan, todo,
                 relayVars, queueVars, saveVars, aclVars>>

NewEnqueue(s) ==
  /\ Goto(s, "enqueue", "insert")
  /\ Enqueue(s, rec[s])
  /\ UNCHANGED <<memVars, target, snap, scan, todo, relayVars, saveVars, aclVars>>

NewInsert(s) ==
  /\ Goto(s, "insert", "running")
  /\ active' = active \union {s}
  /\ UNCHANGED <<controls, rec, cancelled, closed, rejected, target, snap, scan, todo,
                 relayVars, queueVars, saveVars, aclVars>>

\* Mutant of HandlerClose: select! in the place of join!.
HandlerCloseNoJoin(s) ==
  /\ \E r \in Relays : rpc[s][r] = "stopped"
  /\ Goto(s, "running", "close")
  /\ UNCHANGED <<memVars, target, snap, scan, todo, relayVars, queueVars, saveVars, aclVars>>

\* proxy_data joins both relays before the handler closes its session; the
\* handler of a UDP session closes when the control connection does.
HandlerClose(s) ==
  /\ s \in Udp \/ \A r \in Relays : rpc[s][r] = "stopped"
  /\ Goto(s, "running", "close")
  /\ UNCHANGED <<memVars, target, snap, scan, todo, relayVars, queueVars, saveVars, aclVars>>

-----------------------------------------------------------------------------
(* Relays: update_traffic and queue_traffic_update                         *)

\* apply_traffic_update looks the session up; the update of a session that is
\* no longer there is dropped.
UpdateTraffic(s, r) ==
  /\ s \notin Udp
  /\ pc[s] = "running" /\ rpc[s][r] = "idle" /\ issued[s] < MaxPackets
  /\ issued' = [issued EXCEPT ![s] = @ + 1]
  /\ rpc' = [rpc EXCEPT ![s][r] = IF s \in active THEN "write" ELSE "idle"]
  /\ UNCHANGED <<memVars, taskVars, rsnap, channel, queueVars, saveVars, aclVars>>

\* The write-locked part: count, and take the snapshot.
ApplyUpdate(s, r) ==
  /\ rpc[s][r] = "write"
  /\ rec' = [rec EXCEPT ![s].bytes = @ + 1]
  /\ rsnap' = [rsnap EXCEPT ![s][r] = rec'[s]]
  /\ rpc' = [rpc EXCEPT ![s][r] = "enqueue"]
  /\ UNCHANGED <<controls, active, cancelled, closed, rejected, taskVars, channel, issued,
                 queueVars, saveVars, aclVars>>

\* ... and, with the session unlocked, hand the snapshot to the writer.
EnqueueUpdate(s, r) ==
  /\ rpc[s][r] = "enqueue"
  /\ Enqueue(s, rsnap[s][r])
  /\ rpc' = [rpc EXCEPT ![s][r] = "idle"]
  /\ rsnap' = [rsnap EXCEPT ![s][r] = Blank]
  /\ UNCHANGED <<memVars, taskVars, channel, issued, saveVars, aclVars>>

\* The relay ends: EOF, an error or the cancelled token, after its last flush.
RelayStops(s, r) ==
  /\ pc[s] = "running" /\ rpc[s][r] = "idle"
  /\ rpc' = [rpc EXCEPT ![s][r] = "stopped"]
  /\ UNCHANGED <<memVars, taskVars, rsnap, channel, issued, queueVars, saveVars, aclVars>>

\* The UDP relay only posts its updates on the channel of the traffic worker.
QueueUpdate(s, r) ==
  /\ s \in Udp
  /\ pc[s] = "running" /\ rpc[s][r] = "idle" /\ issued[s] < MaxPackets
  /\ issued' = [issued EXCEPT ![s] = @ + 1]
  /\ channel' = Append(channel, s)
  /\ UNCHANGED <<memVars, taskVars, rpc, rsnap, queueVars, saveVars, aclVars>>

\* start_traffic_worker clones the DashMap, which copies it: the worker keeps
\* the sessions that were active when the manager was built, none.
WorkerSessions == {}

\* The traffic worker applies an update to its own copy of active_sessions.
TrafficWorker ==
  /\ channel # << >>
  /\ channel' = Tail(channel)
  /\ IF Head(channel) \in WorkerSessions
     THEN rec' = [rec EXCEPT ![Head(channel)].bytes = @ + 1]
     ELSE rec' = rec
  /\ UNCHANGED <<controls, active, cancelled, closed, rejected, taskVars, rpc, rsnap, issued,
                 queueVars, saveVars, aclVars>>

-----------------------------------------------------------------------------
(* terminate_session and close_session                                     *)

\* The API checks the id against get_active_sessions, then terminates it.
ApiTerminate(t, s) ==
  /\ s \in active
  /\ Goto(t, "idle", "cancel")
  /\ target' = [target EXCEPT ![t] = {s}]
  /\ UNCHANGED <<memVars, snap, scan, todo, relayVars, queueVars, saveVars, aclVars>>

\* Mutant of TerminateCancel: the token is not cancelled.
TerminateCancelSkips(t, s) ==
  /\ target[t] = {s}
  /\ Goto(t, "cancel", "close")
  /\ UNCHANGED <<memVars, target, snap, scan, todo, relayVars, queueVars, saveVars, aclVars>>

\* terminate_session cancels the IO of a session that still has its control.
TerminateCancel(t, s) ==
  /\ target[t] = {s}
  /\ Goto(t, "cancel", "close")
  /\ cancelled' = cancelled \union ({s} \intersect controls)
  /\ UNCHANGED <<controls, active, rec, closed, rejected, target, snap, scan, todo,
                 relayVars, queueVars, saveVars, aclVars>>

CloseControls(t, s) ==
  /\ target[t] = {s}
  /\ Goto(t, "close", "remove")
  /\ controls' = controls \ {s}
  /\ UNCHANGED <<active, rec, cancelled, closed, rejected, target, snap, scan, todo,
                 relayVars, queueVars, saveVars, aclVars>>

\* Where a task goes when its close_session returns.
Resume(t) == IF t \in Apis THEN "idle" ELSE IF t \in Sess THEN "done" ELSE "todo"
Release(t) == IF t \in Sess THEN target ELSE [target EXCEPT ![t] = {}]

\* Mutant of CloseRemove: the caller goes on with an Arc it looked up earlier.
CloseRemoveAlways(t, s) ==
  /\ target[t] = {s}
  /\ Goto(t, "remove", "mark")
  /\ active' = active \ {s}
  /\ UNCHANGED <<controls, rec, cancelled, closed, rejected, target, snap, scan, todo,
                 relayVars, queueVars, saveVars, aclVars>>

\* Only the caller that gets the active entry out of the map goes on.
CloseRemove(t, s) ==
  /\ target[t] = {s}
  /\ Goto(t, "remove", IF s \in active THEN "mark" ELSE Resume(t))
  /\ active' = active \ {s}
  /\ target' = IF s \in active THEN target ELSE Release(t)
  /\ UNCHANGED <<controls, rec, cancelled, closed, rejected, snap, scan, todo,
                 relayVars, queueVars, saveVars, aclVars>>

CloseStatus(t) ==
  IF t \in Sess THEN {"closed", "failed"} ELSE IF t \in Apis THEN {"closed"} ELSE {"failed"}

\* Session::close under the write lock, and the snapshot.
CloseMark(t, s) ==
  /\ target[t] = {s}
  /\ Goto(t, "mark", "push")
  /\ \E st \in CloseStatus(t) : rec' = [rec EXCEPT ![s].status = st]
  /\ snap' = [snap EXCEPT ![t] = rec'[s]]
  /\ UNCHANGED <<controls, active, cancelled, closed, rejected, target, scan, todo,
                 relayVars, queueVars, saveVars, aclVars>>

ClosePush(t, s) ==
  /\ target[t] = {s}
  /\ Goto(t, "push", "record")
  /\ closed' = [closed EXCEPT ![s] = Append(@, snap[t])]
  /\ UNCHANGED <<controls, active, rec, cancelled, rejected, target, snap, scan, todo,
                 relayVars, queueVars, saveVars, aclVars>>

CloseEnqueue(t, s) ==
  /\ target[t] = {s}
  /\ Goto(t, "record", Resume(t))
  /\ Enqueue(s, snap[t])
  /\ snap' = [snap EXCEPT ![t] = Blank]
  /\ target' = Release(t)
  /\ UNCHANGED <<memVars, scan, todo, relayVars, saveVars, aclVars>>

-----------------------------------------------------------------------------
(* enforce_acl and close_all_active                                        *)

\* A new ACL; what an enforcer still owes shrinks to what it blocks as well.
ChangeAcl(p) ==
  /\ reloads < MaxReloads
  /\ reloads' = reloads + 1
  /\ policy' = p

\* AclWatcher::handle_reload_event: swap the ACL, spawn enforce_acl.
Reload(t) ==
  /\ Goto(t, "idle", "scan")
  /\ \E p \in SUBSET Sess \ {policy} :
       /\ ChangeAcl(p)
       /\ owed' = [e \in Enforcers |-> (IF e = t THEN active ELSE owed[e]) \ p]
  /\ scan' = [scan EXCEPT ![t] = Sess]
  /\ UNCHANGED <<memVars, target, snap, todo, relayVars, queueVars, saveVars>>

\* Mutant of ScanVisit: an entry that is locked at the moment is passed over.
ScanVisitTries(t, s) ==
  /\ pc[t] = "scan" /\ s \in scan[t]
  /\ scan' = [scan EXCEPT ![t] = @ \ {s}]
  /\ \/ todo' = [todo EXCEPT ![t] = @ \union {x \in {s} \intersect active : t = Main \/ x \notin policy}]
     \/ UNCHANGED todo
  /\ UNCHANGED <<memVars, pc, target, snap, relayVars, queueVars, saveVars, aclVars>>

\* An entry of the DashMap iteration.  enforce_acl evaluates the session under
\* the current ACL and collects it when blocked; close_all_active collects all.
ScanVisit(t, s) ==
  /\ pc[t] = "scan" /\ s \in scan[t]
  /\ scan' = [scan EXCEPT ![t] = @ \ {s}]
  /\ todo' = [todo EXCEPT ![t] = @ \union
                {x \in {s} \intersect active : t = Main \/ x \notin policy}]
  /\ UNCHANGED <<memVars, pc, target, snap, relayVars, queueVars, saveVars, aclVars>>

ScanEnd(t) ==
  /\ scan[t] = {}
  /\ Goto(t, "scan", "todo")
  /\ UNCHANGED <<memVars, target, snap, scan, todo, relayVars, queueVars, saveVars, aclVars>>

TerminateNext(t, s) ==
  /\ s \in todo[t]
  /\ Goto(t, "todo", "cancel")
  /\ todo' = [todo EXCEPT ![t] = @ \ {s}]
  /\ target' = [target EXCEPT ![t] = {s}]
  /\ UNCHANGED <<memVars, snap, scan, relayVars, queueVars, saveVars, aclVars>>

TerminateEnd(t) ==
  /\ todo[t] = {}
  /\ Goto(t, "todo", IF t = Main THEN "signal" ELSE "idle")
  /\ UNCHANGED <<memVars, target, snap, scan, todo, relayVars, queueVars, saveVars, aclVars>>

-----------------------------------------------------------------------------
(* The batch writer and the store                                          *)

\* Mutant of SaveBatch: ON CONFLICT DO NOTHING.
SaveBatchKeeps(b) ==
  [s \in Sess |->
     LET I == {i \in DOMAIN b : b[i].id = s}
     IN  IF I = {} \/ db[s] # Blank THEN db[s] ELSE b[Min(I)].rec]

\* The upserts of one transaction, in order: the last row of a session wins.
SaveBatch(b) ==
  [s \in Sess |->
     LET I == {i \in DOMAIN b : b[i].id = s}
     IN  IF I = {} THEN db[s] ELSE b[Max(I)].rec]

TakeBatch(f) ==
  /\ batch' = [batch EXCEPT ![f] = queue]
  /\ queue' = << >>

\* The ticker's branch of select!, which drops the other branches' futures.
WorkerTick ==
  /\ wpc = "select" /\ (queue # << >> \/ signal)
  /\ TakeBatch(Worker)
  /\ wpc' = IF queue = << >> THEN "select" ELSE "save"
  /\ signal' = FALSE
  /\ UNCHANGED <<memVars, taskVars, relayVars, permit, db, lost, failures, aclVars>>

WorkerNotified ==
  /\ wpc = "select" /\ permit
  /\ permit' = FALSE
  /\ TakeBatch(Worker)
  /\ wpc' = IF queue = << >> THEN "select" ELSE "save"
  /\ signal' = FALSE
  /\ UNCHANGED <<memVars, taskVars, relayVars, db, lost, failures, aclVars>>

WorkerStop ==
  /\ wpc = "select" /\ signal
  /\ TakeBatch(Worker)
  /\ wpc' = IF queue = << >> THEN "stopped" ELSE "last_save"
  /\ signal' = FALSE
  /\ UNCHANGED <<memVars, taskVars, relayVars, permit, db, lost, failures, aclVars>>

\* save_batch by flusher f: the transaction commits, or the batch is dropped
\* (its error is only logged).
Save(f) ==
  /\ batch' = [batch EXCEPT ![f] = << >>]
  /\ \/ db' = SaveBatch(batch[f]) /\ UNCHANGED <<lost, failures>>
     \/ /\ failures < MaxFailures
        /\ failures' = failures + 1
        /\ lost' = TRUE
        /\ UNCHANGED db

WorkerSave ==
  /\ wpc \in {"save", "last_save"}
  /\ wpc' = IF wpc = "save" THEN "select" ELSE "stopped"
  /\ Save(Worker)
  /\ UNCHANGED <<memVars, taskVars, relayVars, queueVars, signal, aclVars>>

-----------------------------------------------------------------------------
(* Shutdown, crash and restart                                             *)

\* SessionManager::shutdown begins with close_all_active.
Shutdown ==
  /\ MaxShutdowns > 0
  /\ Goto(Main, "idle", "scan")
  /\ scan' = [scan EXCEPT ![Main] = Sess]
  /\ UNCHANGED <<memVars, target, snap, todo, relayVars, queueVars, saveVars, aclVars>>

\* BatchWriter::shutdown: notify_waiters reaches the worker only while it waits.
ShutdownSignal ==
  /\ Goto(Main, "signal", "flush")
  /\ signal' = (signal \/ wpc = "select")
  /\ UNCHANGED <<memVars, target, snap, scan, todo, relayVars, queueVars, wpc, batch, db,
                 lost, failures, aclVars>>

ShutdownFlush ==
  /\ Goto(Main, "flush", IF queue = << >> THEN "done" ELSE "save")
  /\ TakeBatch(Main)
  /\ UNCHANGED <<memVars, target, snap, scan, todo, relayVars, permit, signal, wpc, db,
                 lost, failures, aclVars>>

ShutdownSave ==
  /\ Goto(Main, "save", "done")
  /\ Save(Main)
  /\ UNCHANGED <<memVars, target, snap, scan, todo, relayVars, queueVars, signal, wpc, aclVars>>

\* main returns, or the process is killed: every task ends where it stands.  A
\* transaction the worker has begun commits or does not.
ProcessEnds ==
  /\ alive
  /\ pc[Main] = "done" \/ crashes < MaxCrashes
  /\ alive' = FALSE
  /\ lost' = TRUE
  /\ db' \in {db, SaveBatch(batch[Worker])}
  /\ batch' = [f \in Flushers |-> << >>]
  /\ UNCHANGED <<memVars, taskVars, relayVars, queueVars, signal, wpc, failures, aclVars,
                 swept, crashes>>

\* Mutant of Restart: the table is left as the last process wrote it.
RestartNoSweep ==
  /\ ~alive /\ crashes < MaxCrashes
  /\ crashes' = crashes + 1
  /\ alive' = TRUE
  /\ FreshMemory
  /\ swept' = TRUE
  /\ UNCHANGED <<db, failures, policy, reloads, lost>>

\* SocksServer::new: close_all_active_sessions on the table, whose failure is
\* only logged, before the first connection is accepted.
Restart ==
  /\ ~alive /\ crashes < MaxCrashes
  /\ crashes' = crashes + 1
  /\ alive' = TRUE
  /\ FreshMemory
  /\ \/ /\ db' = [s \in Sess |-> IF db[s].status = "active"
                                 THEN [db[s] EXCEPT !.status = "closed"] ELSE db[s]]
        /\ swept' = TRUE
        /\ UNCHANGED failures
     \/ /\ failures < MaxFailures
        /\ failures' = failures + 1
        /\ swept' = FALSE
        /\ UNCHANGED db
  /\ UNCHANGED <<policy, reloads, lost>>

-----------------------------------------------------------------------------
Handler(s) ==
  \/ Admit(s) \/ Refuse(s) \/ TrackRejected(s) \/ PushRejected(s)
  \/ NewControl(s) \/ NewEnqueue(s) \/ NewInsert(s) \/ HandlerClose(s)

Relay(s, r) ==
  \/ UpdateTraffic(s, r) \/ ApplyUpdate(s, r) \/ EnqueueUpdate(s, r)
  \/ RelayStops(s, r) \/ QueueUpdate(s, r)

Close(t, s) ==
  \/ TerminateCancel(t, s) \/ CloseControls(t, s) \/ CloseRemove(t, s)
  \/ CloseMark(t, s) \/ ClosePush(t, s) \/ CloseEnqueue(t, s)

Sweep(t) ==
  \/ \E s \in Sess : ScanVisit(t, s) \/ TerminateNext(t, s)
  \/ ScanEnd(t) \/ TerminateEnd(t)

BatchWorker == WorkerTick \/ WorkerNotified \/ WorkerStop \/ WorkerSave

Stopping == Shutdown \/ ShutdownSignal \/ ShutdownFlush \/ ShutdownSave

Running ==
  \/ \E s \in Sess : Handler(s) \/ \E r \in Relays : Relay(s, r)
  \/ \E t \in Tasks, s \in Sess : Close(t, s)
  \/ \E t \in Apis, s \in Sess : ApiTerminate(t, s)
  \/ \E t \in Enforcers : Reload(t)
  \/ \E t \in Admins : Sweep(t)
  \/ TrafficWorker \/ BatchWorker \/ Stopping

Next ==
  \/ alive /\ Running /\ UNCHANGED lifeVars
  \/ ProcessEnds
  \/ Restart

Spec == Init /\ [][Next]_vars

\* tokio polls every task that is ready and the ticker never stops, so each
\* task goes on once it is inside an operation and the worker keeps flushing.
Fairness ==
  /\ \A s \in Sess : WF_vars(alive /\ UNCHANGED lifeVars /\
                              (TrackRejected(s) \/ PushRejected(s) \/ NewControl(s)
                               \/ NewEnqueue(s) \/ NewInsert(s)))
  /\ \A s \in Sess, r \in Relays : WF_vars(alive /\ UNCHANGED lifeVars /\
                              (ApplyUpdate(s, r) \/ EnqueueUpdate(s, r)))
  /\ \A t \in Tasks : WF_vars(alive /\ UNCHANGED lifeVars /\ \E s \in Sess : Close(t, s))
  /\ \A t \in Admins : WF_vars(alive /\ UNCHANGED lifeVars /\ Sweep(t))
  /\ WF_vars(alive /\ UNCHANGED lifeVars /\ BatchWorker)
  /\ WF_vars(alive /\ UNCHANGED lifeVars /\ TrafficWorker)

FairSpec == Spec /\ Fairness

-----------------------------------------------------------------------------
(* Properties                                                              *)

\* A session is recorded as closed at most once, whoever of its handler, the
\* API, an enforcement and the shutdown calls close_session on it at the same
\* time; a recorded session is not active any more and was never rejected.
RecordedOnce ==
  \A s \in Sess :
    /\ Len(closed[s]) + Len(rejected[s]) <= 1
    /\ closed[s] # << >> => s \notin active

\* terminate_session stops the IO: when an API, enforcement or shutdown task
\* takes a session out of active_sessions, the session's token is cancelled, or
\* its own handler is closing it anyway.
TerminationCancels ==
  \A t \in Admins, s \in Sess :
    pc[t] \in {"mark", "push", "record"} /\ target[t] = {s}
      => s \in cancelled \/ pc[s] \in {"remove", "done"}

\* Traffic accounting is exact for a session nobody terminated: proxy_data joins
\* the relays, so the closing snapshot counts every update issued.
TrafficExact ==
  \A s \in Sess \ Udp :
    \A i \in DOMAIN closed[s] : s \in cancelled \/ closed[s][i].bytes = issued[s]

\* When enforce_acl returns, no session that was active when the ACL changed and
\* that the ACL has blocked ever since is still active.
EnforcementComplete ==
  \A e \in Enforcers : pc[e] = "idle" => owed[e] \intersect active = {}

\* After a start-up whose close_all_active_sessions succeeded, a row that says
\* active belongs to a session of the running process.
ActiveRowsAreOurs ==
  \A s \in Sess :
    alive /\ swept /\ db[s].status = "active" => rec[s].status # "none"

\* The closing record of a session that its own handler closed reaches the table
\* and stays there, however the worker's flushes and the relays' snapshots were
\* ordered, unless a batch was dropped or the server shuts down.
HandlerClosePersists ==
  \A s \in Sess :
    <>[](closed[s] # << >> /\ s \notin cancelled /\ pc[Main] = "idle" /\ ~lost
           => db[s] = closed[s][1])

-----------------------------------------------------------------------------
(* Refinement                                                              *)

\* Where a session is in its life, as session_controls, active_sessions,
\* closed_sessions and the tasks inside close_session show it.
Stage(s) ==
  CASE s \in active -> "open"
    [] \E t \in Tasks : pc[t] \in {"mark", "push"} /\ target[t] = {s} -> "closing"
    [] closed[s] # << >> -> "closed"
    [] rejected[s] # << >> -> "rejected"
    [] pc[s] = "done" /\ rec[s] = Blank -> "gone"
    [] OTHER -> "none"

Life == INSTANCE SessionLifecycle WITH up <- alive, stage <- [s \in Sess |-> Stage(s)]

\* The tracker implements the life cycle: with its handler, an enforcement, the
\* shutdown and a new process at work on a session, it is opened once, cancelled
\* only while open, taken by one closer, recorded once and never reopened.
LifeSpec == Life!Spec
=============================================================================
