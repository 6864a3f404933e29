----------------------------- MODULE ServerLife -----------------------------
(***************************************************************************)
(* The life of the server process, and what it does to the files that      *)
(* outlive it: main, SocksServer::new, run and shutdown, the connection to *)
(* the SQLite session store with its back-up and quarantine, the           *)
(* configuration file as the management API rewrites it, and the restart   *)
(* the API schedules, in which two processes overlap.                      *)
(*                                                                         *)
(* The actors are the processes, the request handlers of their API and the *)
(* restart timer; the operator, the power supply and the file system are   *)
(* the environment.  Every process is started with the same command line   *)
(* and every configuration names the same two ports.  SQLite is external:  *)
(* a commit reaches the log or the database file and stays there.          *)
(***************************************************************************)
EXTENDS ServerConfig, FiniteSets

CONSTANTS
  Settings,   \* [works, path, bind, docs, starts, requests, rows, faults]: what works on
              \* the host ("auth", "acl", "tls", "watch", "wal"), the command line, the
              \* documents in use, and bounds on the processes started, the requests
              \* for another configuration, the rows committed and the faults
  Processes,  \* bound: processes that run at a time
  Tasks,      \* bound: requests handled at a time
  NoFile,     \* there is no configuration file
  Torn,       \* the file holds part of a document, or no document
  MaxClock    \* bound: seconds

ASSUME BoundsAssumption == Processes \in Nat /\ Tasks \in Nat /\ MaxClock \in Nat

\* Documents are parsed text, which the absence of a file and a torn one are not.
ASSUME DocumentsAssumption ==
  /\ NoFile \notin Configs /\ Torn \notin Configs
  /\ \A s \in Settings : s.docs \subseteq Configs /\ s.bind \in Binds \union {"none"}

Procs == 1..Processes
Handlers == 1..Tasks

VARIABLES
  setting,    \* the member of Settings this behaviour is about
  conf,       \* the configuration file
  disk,       \* what a power loss may leave of it: write_to_file never syncs
  first,      \* history: what the file held at first
  temp,       \* second -> the temporary file with that second in its name
  proc,       \* process -> [pc, config, reset, next, aside]; aside: the database it
              \* has open was put aside by another process
  req,        \* handler -> [pc, proc, config, restart, second, file]
  timers,     \* process -> restarts scheduled
  db,         \* [file, main, wal, mode]: the database, the rows in file and log
  backup,     \* second -> rows in the back-up made in that second
  corrupt,    \* second -> rows in the file quarantined in that second
  clock,
  starts, requests, faults,
  committed,  \* history: the rows committed
  damaged,    \* history: the database was damaged
  lost,       \* history: rows that were only in a log that was discarded or in
              \* a quarantined file that another one replaced
  excuses     \* history: what went wrong: "fault", "store", "misread", "io", "clash",
              \* "power", "ports", "stopped"

dbVars == <<db, backup, corrupt, committed, damaged, lost>>
confVars == <<conf, disk, temp, req>>
fixed == <<setting, first>>
vars == <<fixed, confVars, proc, timers, dbVars, clock, starts, requests, faults, excuses>>

Off == [pc |-> "off", config |-> default_config, reset |-> TRUE, next |-> "off",
        aside |-> FALSE]
Quiet == [pc |-> "idle", proc |-> 0, config |-> default_config,
          restart |-> FALSE, second |-> 0, file |-> "none"]
Seconds == 0..MaxClock
NoDatabase == [file |-> "absent", main |-> {}, wal |-> {}, mode |-> "delete"]

Init ==
  /\ setting \in Settings
  /\ conf \in IF setting.path THEN setting.docs \union {NoFile, Torn} ELSE {NoFile}
  /\ first = conf /\ disk = {conf}
  /\ temp = [s \in Seconds |-> NoFile]
  /\ proc = [p \in Procs |-> Off]
  /\ req = [h \in Handlers |-> Quiet]
  /\ timers = [p \in Procs |-> 0]
  /\ db = NoDatabase
  /\ backup = [s \in Seconds |-> {}] /\ corrupt = [s \in Seconds |-> {}]
  /\ clock = 0 /\ starts = 0 /\ requests = 0 /\ faults = 0
  /\ committed = {} /\ damaged = FALSE /\ lost = {} /\ excuses = {}

-----------------------------------------------------------------------------
At(p, c) == proc[p].pc = c
Config(p) == proc[p].config
Running(p) == proc[p].pc \notin {"off", "panicked"}

\* Control of p passes to c.  An error ends the process ("off"), as a failing expect
\* does ("panicked"): its handlers and its timers go with it.
Leave(p, c) ==
  /\ proc' = [proc EXCEPT ![p] = [Off EXCEPT !.pc = c]]
  /\ req' = [h \in Handlers |-> IF req[h].proc = p THEN Quiet ELSE req[h]]
  /\ timers' = [timers EXCEPT ![p] = 0]
Go(p, c) ==
  IF c \in {"off", "panicked"} THEN Leave(p, c)
  ELSE proc' = [proc EXCEPT ![p].pc = c] /\ UNCHANGED <<req, timers>>

\* A process that has bound a port holds it until it is gone; a shutdown has
\* already dropped the listener and aborted the API's accept loop.
HoldsApi(p) == proc[p].pc \in {"qos", "bind", "serving", "exiting"} /\ Config(p).server.api
Serving(p) == At(p, "serving")
HoldsSocks(p) == proc[p].pc \in {"serving", "exiting"}

Excuse(e) == excuses' = excuses \union {e}
Fault(e) == faults < setting.faults /\ faults' = faults + 1 /\ Excuse(e)

UnchangedBoot == UNCHANGED <<fixed, conf, disk, temp, clock, starts, requests>>
UnchangedStart == UnchangedBoot /\ UNCHANGED faults
Works == UNCHANGED <<faults, excuses>>

-----------------------------------------------------------------------------
(* Start-up: main and SocksServer::new                                     *)

from_toml_str(doc) == doc \notin {NoFile, Torn} /\ validate(doc)

\* The operator, or a supervisor, starts the server when none is running.
Start(p) ==
  /\ \A q \in Procs : ~Running(q)
  /\ p = 1 /\ At(p, "off") /\ starts < setting.starts /\ starts' = starts + 1
  /\ proc' = [proc EXCEPT ![p] = [Off EXCEPT !.pc = "load"]]
  /\ UNCHANGED <<fixed, confVars, timers, dbVars, clock, requests, faults, excuses>>

\* Config::from_file reads, parses and validates; without a file the default is used.
Load(p) ==
  /\ At(p, "load")
  /\ IF setting.path /\ ~from_toml_str(conf) THEN Leave(p, "off")
     ELSE LET read == IF setting.path THEN normalize(conf) ELSE default_config IN
          /\ proc' = [proc EXCEPT ![p].pc = "auth",
                                  ![p].config = apply_override(read, setting.bind)]
          /\ UNCHANGED <<req, timers>>
  /\ UnchangedStart /\ UNCHANGED <<dbVars, excuses>>

\* AuthManager::new fails if PAM is not to be had.
auth_built(a) == "auth" \in setting.works \/ {a.client, a.socks} \subseteq {"none", "userpass"}
InitAuth(p) ==
  /\ At(p, "auth")
  /\ Go(p, IF auth_built(Config(p).auth) THEN "acl" ELSE "off")
  /\ UnchangedStart /\ UNCHANGED <<dbVars, excuses>>

\* resolve_acl_path, load_acl_config_sync and AclEngine::new.
InitAcl(p) ==
  LET acl == Config(p).acl IN
  /\ At(p, "acl")
  /\ Go(p, CASE ~acl.enabled -> "tls"
             [] acl.enabled /\ acl.file = "none" -> "panicked"
             [] OTHER -> IF "acl" \in setting.works /\ acl.file = "set" THEN "tls" ELSE "off")
  /\ UnchangedStart /\ UNCHANGED <<dbVars, excuses>>

\* load_certificates, load_private_key and build_client_root_store: what a path
\* that is set leads to can be read on this host.
load_certificates(t) == "tls" \in setting.works /\ t.certificate = "set"
load_private_key(t) == "tls" \in setting.works /\ t.key = "set"
build_client_root_store(t) == "tls" \in setting.works /\ t.ca = "set"

\* Where create_tls_acceptor leads.
create_tls_acceptor(t) ==
  IF t.keyPassword THEN "off"
  ELSE IF "none" \in {t.certificate, t.key} THEN "panicked"
  ELSE IF ~load_certificates(t) \/ ~load_private_key(t) THEN "off"
  ELSE IF t.clientAuth /\ t.ca = "none" THEN "panicked"
  ELSE IF t.clientAuth /\ ~build_client_root_store(t) THEN "off"
  ELSE "store"

InitTls(p) ==
  /\ At(p, "tls")
  /\ Go(p, IF Config(p).tls.enabled THEN create_tls_acceptor(Config(p).tls) ELSE "store")
  /\ UnchangedStart /\ UNCHANGED <<dbVars, excuses>>

-----------------------------------------------------------------------------
(* SessionStore::connect                                                   *)

\* The URL is unwrapped, then DatabaseFlavor::from_url reads it.
from_url(url) == CASE url = "none" -> "panicked" [] url = "set" -> "preflight" [] OTHER -> "off"
Connect(p) ==
  /\ At(p, "store")
  /\ Go(p, IF wants_store(Config(p)) THEN from_url(Config(p).sessions.url) ELSE "watcher")
  /\ UnchangedStart /\ UNCHANGED <<dbVars, excuses>>

\* The file is put aside, and p goes on with n.
PutAside(p, n) ==
  /\ proc' = [proc EXCEPT ![p].pc = "quarantine", ![p].next = n, ![p].reset = @ /\ n = "create"]
  /\ UNCHANGED <<req, timers>>

\* preflight_database_file: a file that is too small or has the wrong header is
\* put aside, and so is one whose header cannot be read, whatever it holds.
preflight_database_file(p) ==
  /\ At(p, "preflight")
  /\ \/ /\ IF db.file \in {"empty", "badheader"} THEN PutAside(p, "create") ELSE Go(p, "create")
        /\ Works
     \/ db.file \notin {"absent", "empty"} /\ PutAside(p, "create") /\ Fault("misread")
  /\ UnchangedBoot /\ UNCHANGED dbVars

\* quarantine_database_file, first half: the file gets a name made of the second,
\* in place of a file of that name.  Whoever has it open keeps the renamed file.
quarantine_database_file(p) ==
  /\ At(p, "quarantine")
  /\ \/ db.file = "absent" /\ Go(p, proc[p].next) /\ UNCHANGED <<db, corrupt, lost>>
     \/ /\ db.file # "absent"
        /\ corrupt' = [corrupt EXCEPT ![clock] = db.main]
        /\ lost' = lost \union db.wal \union corrupt[clock]
        /\ db' = [db EXCEPT !.file = "absent", !.main = {}]
        /\ proc' = [q \in Procs |-> IF q = p THEN [proc[p] EXCEPT !.pc = "droplog"]
                                   ELSE [proc[q] EXCEPT !.aside = Running(q)]]
        /\ UNCHANGED <<req, timers>>
  /\ UnchangedStart /\ UNCHANGED <<backup, committed, damaged, excuses>>

\* Second half: the log of the file is removed, or stays.
DropLog(p) ==
  /\ At(p, "droplog")
  /\ \/ db' = [db EXCEPT !.wal = {}] /\ Works
     \/ UNCHANGED db /\ Fault("store")
  /\ Go(p, proc[p].next)
  /\ UnchangedBoot /\ UNCHANGED <<backup, corrupt, committed, damaged, lost>>

\* Mutant of CreateFile: File::create, which truncates, without the look at the file.
CreateAlways(p) ==
  /\ At(p, "create")
  /\ db' = [db EXCEPT !.file = "empty", !.main = {}, !.mode = "delete"]
  /\ Go(p, "backup")
  /\ UnchangedStart /\ UNCHANGED <<backup, corrupt, committed, damaged, lost, excuses>>

\* File::create, if there is no file.
CreateFile(p) ==
  /\ At(p, "create")
  /\ db' = IF db.file = "absent" THEN [db EXCEPT !.file = "empty", !.mode = "delete"] ELSE db
  /\ Go(p, "backup")
  /\ UnchangedStart /\ UNCHANGED <<backup, corrupt, committed, damaged, lost, excuses>>

\* create_database_backup copies the database file, not its log.
create_database_backup(p) ==
  /\ At(p, "backup")
  /\ backup' = IF db.file = "empty" THEN backup ELSE [backup EXCEPT ![clock] = db.main]
  /\ Go(p, "open")
  /\ UnchangedStart /\ UNCHANGED <<db, corrupt, committed, damaged, lost, excuses>>

\* The pool connects and the migrations run.  SQLite deletes a log it finds beside
\* an empty file; damaged pages may or may not be in its way.
Open(p) ==
  /\ At(p, "open")
  /\ \/ /\ db' = IF db.file = "empty" THEN [db EXCEPT !.file = "ok", !.wal = {}] ELSE db
        /\ Go(p, "journal")
     \/ db.file = "badpages" /\ Go(p, "off") /\ UNCHANGED db
  /\ UnchangedStart /\ UNCHANGED <<backup, corrupt, committed, damaged, lost, excuses>>

\* configure_journal_mode: WAL if the file system carries it and the statement and
\* the probe succeed, else DELETE, for which SQLite first moves the log into the file.
configure_journal_mode(p) ==
  /\ At(p, "journal")
  /\ \/ "wal" \in setting.works /\ db' = [db EXCEPT !.mode = "wal"] /\ Works
     \/ /\ db' = [db EXCEPT !.mode = "delete", !.main = @ \union db.wal, !.wal = {}]
        /\ IF "wal" \in setting.works THEN Fault("store") ELSE Works
  /\ Go(p, "verify")
  /\ UnchangedBoot /\ UNCHANGED <<backup, corrupt, committed, damaged, lost>>

\* verify_integrity finds damaged pages, or its query fails, whatever the file holds:
\* the pool is closed, which moves the log into the file if it can, the file is put
\* aside and connect_attempt runs once more.
verify_integrity(p) ==
  /\ At(p, "verify")
  /\ \/ db.file = "ok" /\ Go(p, "sweep") /\ Works /\ UNCHANGED db
     \/ /\ IF db.file = "ok" THEN Fault("misread") ELSE Works
        /\ \/ ~proc[p].reset /\ Go(p, "off") /\ UNCHANGED db
           \/ /\ proc[p].reset /\ PutAside(p, "preflight")
              /\ \/ UNCHANGED db
                 \/ db' = [db EXCEPT !.main = @ \union db.wal, !.wal = {}]
  /\ UnchangedBoot /\ UNCHANGED <<backup, corrupt, committed, damaged, lost>>

\* One of connect's steps fails and ends the process: metadata, open, rename, create,
\* copy, which may leave an empty back-up, connect, migrate or a PRAGMA.
ConnectFails(p) ==
  /\ proc[p].pc \in {"preflight", "quarantine", "create", "backup", "open", "journal"}
  /\ Leave(p, "off") /\ Fault("store")
  /\ \/ UNCHANGED backup
     \/ At(p, "backup") /\ backup' = [backup EXCEPT ![clock] = {}]
  /\ UnchangedBoot /\ UNCHANGED <<db, corrupt, committed, damaged, lost>>

\* close_all_active_sessions: the sweep, whose failure is only logged; set_store
\* and spawn_cleanup follow.
Sweep(p) ==
  /\ At(p, "sweep") /\ Go(p, "watcher")
  /\ UnchangedStart /\ UNCHANGED <<dbVars, excuses>>

-----------------------------------------------------------------------------
(* The rest of SocksServer::new, run and shutdown                          *)

\* AclWatcher::start, if the ACL is watched.
StartWatcher(p) ==
  LET acl == Config(p).acl IN
  /\ At(p, "watcher")
  /\ Go(p, IF acl.enabled /\ acl.watch /\ "watch" \notin setting.works THEN "off" ELSE "api")
  /\ UnchangedStart /\ UNCHANGED <<dbVars, excuses>>

\* The metrics history is sized by a division, then the API's port is bound.
api_port_taken == \E q \in Procs : HoldsApi(q)
StartApi(p) ==
  LET c == Config(p) IN
  /\ At(p, "api")
  /\ Go(p, CASE ~c.server.api -> "qos"
             [] c.server.api /\ c.metrics.enabled /\ c.metrics.collectionSecs = 0 -> "panicked"
             [] OTHER -> IF c.server.apiAddress = "set" /\ ~api_port_taken THEN "qos" ELSE "off")
  /\ excuses' = IF c.server.api /\ api_port_taken THEN excuses \union {"ports"} ELSE excuses
  /\ UnchangedStart /\ UNCHANGED dbVars

\* QosEngine::from_config knows one algorithm.
from_config(q) == q.enabled => q.algorithm = "htb"
InitQos(p) ==
  /\ At(p, "qos")
  /\ Go(p, IF from_config(Config(p).qos) THEN "bind" ELSE "off")
  /\ UnchangedStart /\ UNCHANGED <<dbVars, excuses>>

\* run binds the SOCKS port; a name given with --bind may not resolve.
Bind(p) ==
  LET taken == \E q \in Procs : HoldsSocks(q) IN
  /\ At(p, "bind")
  /\ \/ ~taken /\ Go(p, "serving") /\ UNCHANGED excuses
     \/ (taken \/ Config(p).server.bind = "name") /\ Go(p, "off") /\ Excuse("ports")
  /\ UnchangedStart /\ UNCHANGED dbVars

\* Ctrl+C ends run; before the handler is installed, it ends the process (Kill).
Stop(p) ==
  /\ Serving(p) /\ Go(p, "shutdown") /\ Excuse("stopped")
  /\ UnchangedStart /\ UNCHANGED dbVars

\* SocksServer::shutdown: the watcher, the API's accept loop, the batch writer.
Shutdown(p) ==
  /\ At(p, "shutdown") /\ Leave(p, "off")
  /\ UnchangedStart /\ UNCHANGED <<dbVars, excuses>>

StartStep(p) ==
  \/ Load(p) \/ InitAuth(p) \/ InitAcl(p) \/ InitTls(p)
  \/ Connect(p) \/ preflight_database_file(p) \/ quarantine_database_file(p) \/ DropLog(p)
  \/ CreateFile(p) \/ create_database_backup(p) \/ Open(p) \/ configure_journal_mode(p)
  \/ verify_integrity(p) \/ Sweep(p) \/ StartWatcher(p) \/ StartApi(p) \/ InitQos(p) \/ Bind(p)

-----------------------------------------------------------------------------
(* The configuration file, rewritten through the API                       *)

UnchangedRequest == UNCHANGED <<fixed, proc, dbVars, clock, starts>>
Answer(h) == req' = [req EXCEPT ![h] = Quiet]

\* A handler has a configuration that passed its checks and writes it.
Accept(h, p, c, restart) ==
  /\ HoldsApi(p) /\ setting.path
  /\ req[h].pc = "idle" /\ \A g \in 1..(h - 1) : req[g].pc # "idle"
  /\ requests < setting.requests /\ requests' = requests + 1
  /\ req' = [req EXCEPT ![h] =
                [Quiet EXCEPT !.pc = "create", !.proc = p, !.config = c, !.restart = restart]]
  /\ UnchangedRequest /\ UNCHANGED <<conf, disk, temp, timers, faults, excuses>>

\* PUT config-file: the text is checked like the file at start-up.
update_config_file(h, p) ==
  \E doc \in setting.docs, restart \in BOOLEAN :
    from_toml_str(doc) /\ Accept(h, p, normalize(doc), restart)

\* PUT runtime-config: its sections are laid over the start-up configuration.
update_runtime_config(h, p) ==
  \E doc \in setting.docs, restart \in BOOLEAN :
    LET c == apply_runtime(Config(p), doc) IN validate(c) /\ Accept(h, p, c, restart)

\* write_to_file.  The temporary file's name holds the second: two handlers of the
\* same second share it.  What a handler writes goes to the file it opened, under
\* whatever name that file has by now ("temp", "conf", or "none" when it is gone).
Writing(h, s) == req[h].pc \notin {"idle", "create"} /\ req[h].second = s
CreateTemp(h) ==
  /\ req[h].pc = "create"
  /\ temp' = [temp EXCEPT ![clock] = Torn]
  /\ req' = [req EXCEPT ![h].pc = "fill", ![h].second = clock, ![h].file = "temp"]
  /\ excuses' = excuses \union {e \in {"clash"} : \E g \in Handlers \ {h} : Writing(g, clock)}
  /\ UnchangedRequest /\ UNCHANGED <<conf, disk, timers, requests, faults>>

FillTemp(h) ==
  /\ req[h].pc = "fill"
  /\ temp' = IF req[h].file = "temp" THEN [temp EXCEPT ![req[h].second] = req[h].config] ELSE temp
  /\ IF req[h].file = "conf"
     THEN conf' = req[h].config /\ disk' = disk \union {Torn, req[h].config}
     ELSE UNCHANGED <<conf, disk>>
  /\ req' = [req EXCEPT ![h].pc = "rename", ![h].file = "none"]
  /\ UnchangedRequest /\ UNCHANGED <<timers, requests, faults, excuses>>

\* create_dir_all, File::create or write_all fails: a torn temporary file may stay.
WriteFails(h) ==
  /\ req[h].pc \in {"create", "fill"} /\ Answer(h) /\ Fault("fault")
  /\ UnchangedRequest /\ UNCHANGED <<conf, disk, temp, timers, requests>>

\* The temporary file takes the name of the configuration file; handlers that have
\* it open now write to that one, those that had the old file open to nothing.
Replace(h) ==
  LET s == req[h].second
      moved(r) == [r EXCEPT !.file = CASE @ = "temp" /\ r.second = s -> "conf"
                                       [] @ = "conf" -> "none" [] OTHER -> @] IN
  /\ temp[s] # NoFile
  /\ conf' = temp[s] /\ disk' = disk \union {Torn, temp[s]}
  /\ temp' = [temp EXCEPT ![s] = NoFile]
  /\ req' = [g \in Handlers |-> IF g = h THEN Quiet ELSE moved(req[g])]
  /\ timers' = IF req[h].restart THEN [timers EXCEPT ![req[h].proc] = @ + 1] ELSE timers

Rename(h) ==
  /\ req[h].pc = "rename"
  /\ \/ Replace(h) /\ UNCHANGED <<faults, excuses>>
     \/ /\ IF temp[req[h].second] = NoFile THEN UNCHANGED <<faults, excuses>> ELSE Fault("io")
        /\ req' = [req EXCEPT ![h].pc = IF conf = NoFile THEN "again" ELSE "remove"]
        /\ UNCHANGED <<conf, disk, temp, timers>>
  /\ UnchangedRequest /\ UNCHANGED requests

\* The old file is removed, or cannot be.
RemoveOld(h) ==
  /\ req[h].pc = "remove"
  /\ \/ /\ conf # NoFile /\ conf' = NoFile /\ disk' = disk \union {NoFile}
        /\ req' = [g \in Handlers |->
                     IF g = h THEN [req[h] EXCEPT !.pc = "again"]
                     ELSE IF req[g].file = "conf" THEN [req[g] EXCEPT !.file = "none"] ELSE req[g]]
        /\ UNCHANGED <<faults, excuses>>
     \/ /\ IF conf = NoFile THEN UNCHANGED <<faults, excuses>> ELSE Fault("io")
        /\ Answer(h) /\ UNCHANGED <<conf, disk>>
  /\ UnchangedRequest /\ UNCHANGED <<temp, timers, requests>>

RenameAgain(h) ==
  /\ req[h].pc = "again"
  /\ \/ Replace(h) /\ UNCHANGED <<faults, excuses>>
     \/ /\ IF temp[req[h].second] = NoFile THEN UNCHANGED <<faults, excuses>> ELSE Fault("io")
        /\ Answer(h) /\ UNCHANGED <<conf, disk, temp, timers>>
  /\ UnchangedRequest /\ UNCHANGED requests

WriteStep(h) == CreateTemp(h) \/ FillTemp(h) \/ Rename(h) \/ RemoveOld(h) \/ RenameAgain(h)

\* The timer's task runs until shutdown is done.  A process that has spawned its
\* successor has still to end, with its ports ("exiting") or without them ("leaving").
TimerRuns(p) == timers[p] > 0 /\ proc[p].pc \in {"qos", "bind", "serving", "shutdown"}
Last(p) == [proc[p] EXCEPT !.pc = IF @ = "shutdown" THEN "leaving" ELSE "exiting"]

\* Mutant of schedule_restart: the process ends whether the spawn succeeded or not.
schedule_restart_anyway(p, q) ==
  /\ TimerRuns(p) /\ At(q, "off")
  /\ \/ /\ starts < setting.starts /\ starts' = starts + 1
        /\ proc' = [proc EXCEPT ![p] = Last(p), ![q] = [Off EXCEPT !.pc = "load"]]
     \/ proc' = [proc EXCEPT ![p] = Last(p)] /\ UNCHANGED starts
  /\ timers' = [timers EXCEPT ![p] = 0]
  /\ UNCHANGED <<fixed, confVars, dbVars, clock, requests, faults, excuses>>

\* schedule_restart, a second later: the same command line is spawned, and the
\* process ends; if the spawn fails it goes on.
schedule_restart(p, q) ==
  /\ TimerRuns(p) /\ At(q, "off")
  /\ \/ /\ starts < setting.starts /\ starts' = starts + 1
        /\ proc' = [proc EXCEPT ![p] = Last(p), ![q] = [Off EXCEPT !.pc = "load"]]
        /\ timers' = [timers EXCEPT ![p] = 0]
     \/ timers' = [timers EXCEPT ![p] = @ - 1] /\ UNCHANGED <<proc, starts>>
  /\ UNCHANGED <<fixed, confVars, dbVars, clock, requests, faults, excuses>>

\* process::exit: no shutdown, no destructor.
Exit(p) ==
  /\ proc[p].pc \in {"exiting", "leaving"} /\ Leave(p, "off")
  /\ UnchangedStart /\ UNCHANGED <<dbVars, excuses>>

-----------------------------------------------------------------------------
(* The store at work, and the environment                                  *)

StoreOpen(p) ==
  proc[p].pc \in {"serving", "shutdown", "exiting", "leaving"} /\ wants_store(Config(p))

\* The batch writer commits a row; FULL synchronisation makes it durable.  A process
\* whose database was put aside still writes the log it has open, which has no name
\* any more; without a log SQLite notices that the file moved and refuses.
Commit(p) ==
  LET row == Cardinality(committed) + 1 IN
  /\ StoreOpen(p) /\ Cardinality(committed) < setting.rows
  /\ committed' = committed \union {row}
  /\ IF proc[p].aside THEN /\ "wal" \in setting.works
                          /\ lost' = lost \union {row} /\ UNCHANGED db
     ELSE /\ db' = IF db.mode = "wal" THEN [db EXCEPT !.wal = @ \union {row}]
                   ELSE [db EXCEPT !.main = @ \union {row}]
          /\ UNCHANGED lost
  /\ UNCHANGED <<fixed, confVars, proc, timers, clock, starts, requests, faults, excuses>>
  /\ UNCHANGED <<backup, corrupt, damaged>>

Checkpoint(p) ==
  /\ StoreOpen(p) /\ ~proc[p].aside /\ db.wal # {}
  /\ db' = [db EXCEPT !.main = @ \union db.wal, !.wal = {}]
  /\ UNCHANGED <<fixed, confVars, proc, timers, clock, starts, requests, faults, excuses>>
  /\ UNCHANGED <<backup, corrupt, committed, damaged, lost>>

Kill(p) ==
  /\ Running(p) /\ Fault("fault") /\ Leave(p, "off")
  /\ UNCHANGED <<fixed, conf, disk, temp, dbVars, clock, starts, requests>>

\* Every process ends, the configuration file is what the disk has of it, and once
\* the database file may come back damaged.
PowerLoss ==
  /\ \E p \in Procs : Running(p)
  /\ faults < setting.faults /\ faults' = faults + 1
  /\ \E c \in disk :
       /\ conf' = c /\ disk' = {c}
       /\ excuses' = excuses \union {"fault"} \union {e \in {"power"} : c = Torn /\ conf # Torn}
  /\ proc' = [p \in Procs |-> Off]
  /\ req' = [h \in Handlers |-> Quiet] /\ timers' = [p \in Procs |-> 0]
  /\ \/ UNCHANGED <<db, damaged>>
     \/ /\ ~damaged /\ db.file = "ok" /\ damaged' = TRUE
        /\ \E f \in {"badheader", "badpages"} : db' = [db EXCEPT !.file = f]
  /\ UNCHANGED <<fixed, temp, backup, corrupt, committed, lost, clock, starts, requests>>

Tick ==
  /\ clock < MaxClock /\ clock' = clock + 1
  /\ UNCHANGED <<fixed, confVars, proc, timers, dbVars, starts, requests, faults, excuses>>

Next ==
  \/ \E p \in Procs : Start(p) \/ StartStep(p) \/ Stop(p) \/ Shutdown(p) \/ Exit(p)
                        \/ Commit(p) \/ Checkpoint(p) \/ Kill(p) \/ ConnectFails(p)
  \/ \E p, q \in Procs : schedule_restart(p, q)
  \/ \E h \in Handlers, p \in Procs : update_config_file(h, p) \/ update_runtime_config(h, p)
  \/ \E h \in Handlers : WriteStep(h) \/ WriteFails(h)
  \/ PowerLoss \/ Tick

Spec == Init /\ [][Next]_vars

\* A process goes on with its start-up, a handler with its write, and a process
\* that has spawned its successor ends.
FairSpec ==
  /\ Spec
  /\ \A p \in Procs : WF_vars(StartStep(p)) /\ WF_vars(Exit(p)) /\ WF_vars(Shutdown(p))
  /\ \A h \in Handlers : WF_vars(WriteStep(h))

-----------------------------------------------------------------------------
(* Properties                                                              *)

\* The rows that can still be found.
Copies == UNION {backup[s] \union corrupt[s] : s \in Seconds}

\* SessionStore::connect never costs rows by itself: whatever step of it fails and
\* whatever crash separates two, a database that was never damaged and whose header
\* and integrity could always be read keeps every committed row, and the rows of any
\* other remain in it, in a back-up or in a quarantined file, unless they were only
\* in a log the quarantine discards or in a quarantined file that one of the same
\* second replaced.
DatabaseKept ==
  /\ ~damaged /\ "misread" \notin excuses => committed \subseteq db.main \union db.wal
  /\ committed \ lost \subseteq db.main \union db.wal \union Copies

\* What the API leaves as configuration file is a document the next start accepts:
\* the file is unusable only if it was at first, if a rename failed (write_to_file
\* then removes it), if two handlers wrote in the same second, or if power was lost
\* before the file, which is never synced, had reached the disk.
ConfigKept ==
  ~from_toml_str(conf) => conf = first \/ excuses \intersect {"io", "clash", "power"} # {}

\* Neither file is lost to a crash, a restart or a failed write.
FilesKept == DatabaseKept /\ ConfigKept

\* The quarantine and the back-up of SessionStore::connect keep every committed row
\* somewhere: "a hostile environment (read-only mounts, sudden power loss, partial
\* writes) cannot silently destroy `sessions.db`" (session-management.md).
RowsSurvive == committed \subseteq db.main \union db.wal \union Copies

\* Only an invalid, truncated or corrupt database is put aside (preflight_database_file
\* and verify_integrity): one that was never damaged stays the store.
OnlyBrokenAside == ~damaged => committed \subseteq db.main \union db.wal

\* write_to_file persists the configuration atomically: at every moment, and after
\* every crash, the file is what it was at first or a document that was accepted.
ConfigAtomic == ~from_toml_str(conf) => conf = first

\* A validated configuration, or the default one, never reaches an expect("validated:
\* ...") that fails, nor the division by a zero collection interval.
NoPanic == \A p \in Procs : ~At(p, "panicked")

\* The configuration starts on this host.
Bootable(c) ==
  /\ auth_built(c.auth)
  /\ c.acl.enabled => "acl" \in setting.works /\ (c.acl.watch => "watch" \in setting.works)
  /\ c.tls.enabled => create_tls_acceptor(c.tls) = "store"
  /\ wants_store(c) => c.sessions.url = "set"
  /\ from_config(c.qos)

\* A process that ends for a restart has a successor that serves: only a failure, an
\* operator, a clash of two writers, a port the old process still holds, or what
\* validate does not look at (the files named, the key's password, the QoS
\* algorithm, the URL) can prevent it.
RestartServes ==
  \A p \in Procs :
    At(p, "exiting") ~> \/ \E q \in Procs : Serving(q)
                        \/ excuses # {}
                        \/ from_toml_str(conf) /\ ~Bootable(conf)
=============================================================================
