-------------------------- MODULE ServerLifeProofs --------------------------
(***************************************************************************)
(* Proofs about ServerLife: no configuration the program accepts makes it  *)
(* panic, and neither the database nor the configuration file is lost to   *)
(* crashes, restarts and failed writes, for every set of documents, any    *)
(* number of processes and handlers, and any number of faults.             *)
(***************************************************************************)
EXTENDS ServerLife, TLAPS

PCs == {"off", "panicked", "load", "auth", "acl", "tls", "store", "preflight", "quarantine",
        "droplog", "create", "backup", "open", "journal", "verify", "sweep", "watcher", "api",
        "qos", "bind", "serving", "shutdown", "exiting", "leaving"}
Files == {"absent", "empty", "ok", "badheader", "badpages"}

ProcRecords == [pc : PCs, config : Configs, reset : BOOLEAN,
                next : {"off", "create", "preflight"}, aside : BOOLEAN]
ProcType == [Procs -> ProcRecords]
Requests == [pc : {"idle", "create", "fill", "rename", "remove", "again"},
             proc : 0 .. Processes, config : Configs, restart : BOOLEAN,
             second : Seconds, file : {"none", "temp", "conf"}]
ReqType == [Handlers -> Requests]

\* What the expects of SocksServer::new rely on.
Sound(c) == tls_valid(c.tls) /\ acl_valid(c.acl) /\ sessions_valid(c.sessions)
              /\ metrics_valid(c.metrics)

\* A process that neither starts, serves nor shuts down.
Idle(p) == proc[p].pc \in {"off", "panicked", "exiting", "leaving"}

\* Every process has a configuration that was checked, none has panicked, and only
\* one at a time is more than waiting for its end: a successor is spawned by the
\* process that then only exits.
ProcInv ==
  /\ setting \in Settings
  /\ proc \in ProcType
  /\ \A p \in Procs : proc[p].pc # "panicked" /\ Sound(proc[p].config)
  /\ \A p, q \in Procs : p # q => Idle(p) \/ Idle(q)

\* The process has the session store open.
StoreUser(p) ==
  \/ proc[p].pc = "sweep"
  \/ /\ proc[p].pc \in {"watcher", "api", "qos", "bind", "serving", "shutdown", "exiting", "leaving"}
     /\ wants_store(proc[p].config)

\* The database was never damaged, and its header and integrity could always be read.
Intact == ~damaged /\ "misread" \notin excuses

\* What a process knows of the file: only one that waits for its end can have had
\* its database put aside, and if it writes rows, then something was misread.
StoreOk(p) ==
  /\ proc[p].pc = "quarantine" => db.file # "ok" \/ ~Intact
  /\ proc[p].pc = "droplog" => db.file = "absent"
  /\ proc[p].pc \in {"backup", "open"} => db.file # "absent"
  /\ proc[p].pc \in {"journal", "verify"} => db.file \notin {"absent", "empty"}
  /\ StoreUser(p) /\ ~proc[p].aside => db.file = "ok"
  /\ proc[p].aside => Idle(p) /\ (StoreUser(p) => ~Intact)

\* Where the rows are.
RowsInv ==
  /\ db = [file |-> db.file, main |-> db.main, wal |-> db.wal, mode |-> db.mode]
  /\ db.file \in Files
  /\ corrupt = [s \in Seconds |-> corrupt[s]]
  /\ clock \in Seconds
  /\ db.file \in {"absent", "empty"} => db.main = {} /\ db.wal \subseteq lost
  /\ Intact => /\ db.file \in {"absent", "empty", "ok"}
               /\ db.file # "ok" => committed = {}
               /\ committed \subseteq db.main \union db.wal
  /\ committed \ lost \subseteq db.main \union db.wal \union UNION {corrupt[s] : s \in Seconds}

StoreInv == RowsInv /\ \A p \in Procs : StoreOk(p)

\* A document the next start accepts.
Usable(c) == c \in Configs /\ from_toml_str(c)

\* Unless a rename failed, two handlers shared a temporary file or a power loss tore
\* the file, a handler is the only one that has its file, and what it renames is what
\* it was asked to write.
Undisturbed == excuses \intersect {"io", "clash", "power"} = {}
FileTypes ==
  /\ disk \subseteq Configs \union {NoFile, Torn} /\ conf \in disk
  /\ temp \in [Seconds -> Configs \union {NoFile, Torn}]
  /\ req \in ReqType
  /\ clock \in Seconds
  /\ \A h \in Handlers : req[h].pc # "idle" => Usable(req[h].config)

\* What a handler and its temporary file have to do with each other.
OwnFile(h) ==
  /\ req[h].pc \in {"idle", "create", "fill", "rename"}
  /\ req[h].file = IF req[h].pc = "fill" THEN "temp" ELSE "none"
  /\ req[h].pc = "rename" => temp[req[h].second] = req[h].config
Apart(g, h) ==
  req[g].pc \in {"fill", "rename"} /\ req[h].pc \in {"fill", "rename"}
    => req[g].second # req[h].second

OrderInv ==
  /\ conf = first \/ Usable(conf)
  /\ \A c \in disk : c = first \/ Usable(c) \/ c = Torn
  /\ \A h \in Handlers : OwnFile(h)
  /\ \A g, h \in Handlers : g # h => Apart(g, h)

WriteInv == FileTypes /\ (Undisturbed => OrderInv)

LifeInv == ProcInv /\ StoreInv /\ WriteInv

-----------------------------------------------------------------------------
(* Configurations                                                          *)

\* Normalising a document changes its base path only, and keeps it valid.
LEMMA NormalizeKeeps ==
  ASSUME NEW c \in Configs
  PROVE  normalize(c) \in Configs /\ (validate(c) => validate(normalize(c)))
<1> DEFINE n == normalize(c)
           s == [c.sessions EXCEPT !.basePath = normalized_base_path(@)]
<1>1. /\ c.sessions \in SessionSections /\ c.auth \in AuthSections /\ c.tls \in TlsSections
      /\ c.acl \in AclSections /\ c.qos \in QosSections /\ c.server \in ServerSections
      /\ c.dashboard \in DashboardSections /\ c.metrics \in MetricsSections
  BY DEF Configs
<1>2. normalized_base_path(c.sessions.basePath) \in Texts \union {"raw"}
  BY <1>1 DEF SessionSections, Texts, normalized_base_path
<1>3. /\ s \in SessionSections
      /\ (sessions_valid(c.sessions) => sessions_valid(s))
  <2>1. /\ s \in SessionSections /\ s.storage = c.sessions.storage
        /\ s.enabled = c.sessions.enabled /\ s.url = c.sessions.url
        /\ s.cleanupHours = c.sessions.cleanupHours
        /\ s.packetInterval = c.sessions.packetInterval
        /\ s.windowHours = c.sessions.windowHours
        /\ s.basePath = normalized_base_path(c.sessions.basePath)
    BY <1>1, <1>2 DEF SessionSections
  <2> HIDE DEF s
  <2> QED  BY <2>1 DEF sessions_valid, normalized_base_path
<1>4. n = [c EXCEPT !.sessions = s]
  BY DEF normalize
<1> HIDE DEF s, n
<1>5. /\ n \in Configs /\ n.sessions = s /\ n.auth = c.auth /\ n.tls = c.tls /\ n.acl = c.acl
      /\ n.server = c.server /\ n.dashboard = c.dashboard /\ n.metrics = c.metrics
  BY <1>3, <1>4 DEF Configs
<1>6. validate(c) => validate(n)
  BY <1>3, <1>5 DEF validate
<1> QED  BY <1>5, <1>6 DEF n

\* A valid document has what the expects rely on.
LEMMA ValidSound == ASSUME NEW c, validate(c) PROVE Sound(c)
BY DEF validate, Sound

\* So has the default configuration, which main does not validate.
LEMMA DefaultSound == default_config \in Configs /\ Sound(default_config)
<1>1. default_config \in Configs
  <2>1. default_config.auth \in AuthSections
    BY DEF default_config, AuthSections, Texts, Methods
  <2>2. default_config.tls \in TlsSections
    BY DEF default_config, TlsSections, Texts
  <2>3. default_config.acl \in AclSections /\ default_config.qos \in QosSections
    BY DEF default_config, AclSections, QosSections, Texts
  <2>4. default_config.server \in ServerSections
    BY DEF default_config, ServerSections, Texts, Binds
  <2>5. default_config.sessions \in SessionSections
    BY DEF default_config, SessionSections, Texts, SqlStorage
  <2>6. default_config.dashboard \in DashboardSections
    BY DEF default_config, DashboardSections
  <2>7. default_config.metrics \in MetricsSections
    BY DEF default_config, MetricsSections
  <2>8. default_config = [auth |-> default_config.auth, tls |-> default_config.tls,
          acl |-> default_config.acl, qos |-> default_config.qos,
          server |-> default_config.server, sessions |-> default_config.sessions,
          dashboard |-> default_config.dashboard, metrics |-> default_config.metrics]
    BY DEF default_config
  <2> QED  BY <2>1, <2>2, <2>3, <2>4, <2>5, <2>6, <2>7, <2>8 DEF Configs
<1>2. Sound(default_config)
  BY DEF default_config, Sound, tls_valid, acl_valid, sessions_valid, metrics_valid, SqlStorage
<1> QED  BY <1>1, <1>2

\* The command line is laid over the configuration after the checks.
LEMMA OverrideKeeps ==
  ASSUME NEW c \in Configs, Sound(c), NEW bind \in Binds \union {"none"}
  PROVE  apply_override(c, bind) \in Configs /\ Sound(apply_override(c, bind))
<1> DEFINE b == [c.server EXCEPT !.bind = bind]
           o == [c EXCEPT !.server = b]
<1>1. CASE bind = "none"
  BY <1>1 DEF apply_override
<1>2. CASE bind \in Binds
  <2>1. b \in ServerSections
    BY <1>2 DEF Configs, ServerSections
  <2> HIDE DEF b
  <2>2. /\ o \in Configs /\ o.tls = c.tls /\ o.acl = c.acl /\ o.sessions = c.sessions
        /\ o.metrics = c.metrics
    BY <2>1 DEF Configs
  <2>3. apply_override(c, bind) = o
    BY <1>2 DEF apply_override, Binds, b
  <2> HIDE DEF o
  <2>4. Sound(o)
    BY <2>2 DEF Sound
  <2> QED  BY <2>2, <2>3, <2>4
<1> QED  BY <1>1, <1>2

\* A runtime update laid over a configuration is a document.
LEMMA RuntimeKeeps ==
  ASSUME NEW c \in Configs, NEW doc \in Configs
  PROVE  apply_runtime(c, doc) \in Configs
<1> DEFINE o == [c EXCEPT !.server = doc.server, !.sessions = doc.sessions,
                          !.metrics = doc.metrics]
<1>1. o \in Configs
  BY DEF Configs
<1>2. apply_runtime(c, doc) = normalize(o)
  BY DEF apply_runtime
<1> HIDE DEF o
<1> QED  BY <1>1, <1>2, NormalizeKeeps

-----------------------------------------------------------------------------
(* Processes                                                               *)

\* Control of a process moves, and nothing else of it unless it ends.
LEMMA GoMoves ==
  ASSUME proc \in ProcType, NEW p \in Procs, NEW c \in PCs, Go(p, c)
  PROVE  /\ proc' \in ProcType /\ proc'[p].pc = c
         /\ \A q \in Procs \ {p} : proc'[q] = proc[q]
         /\ \/ /\ c \in {"off", "panicked"} /\ proc'[p].config = default_config
               /\ proc'[p].aside = FALSE
            \/ /\ c \notin {"off", "panicked"} /\ proc'[p].config = proc[p].config
               /\ proc'[p].reset = proc[p].reset /\ proc'[p].next = proc[p].next
               /\ proc'[p].aside = proc[p].aside
<1> USE DefaultSound DEF ProcType, ProcRecords
<1>1. CASE c \in {"off", "panicked"}
  <2>1. proc' = [proc EXCEPT ![p] = [Off EXCEPT !.pc = c]]
    BY <1>1 DEF Go, Leave
  <2>2. /\ [Off EXCEPT !.pc = c] \in ProcRecords /\ ~[Off EXCEPT !.pc = c].aside
        /\ [Off EXCEPT !.pc = c].pc = c /\ [Off EXCEPT !.pc = c].config = default_config
    BY DEF Off
  <2> QED  BY <1>1, <2>1, <2>2
<1>2. CASE c \notin {"off", "panicked"}
  <2>1. proc' = [proc EXCEPT ![p].pc = c]
    BY <1>2 DEF Go
  <2> QED  BY <1>2, <2>1
<1> QED  BY <1>1, <1>2

\* A handler that has answered.
LEMMA QuietIdle == Quiet \in Requests /\ Quiet.pc = "idle" /\ Quiet.file = "none"
BY DefaultSound, BoundsAssumption DEF Quiet, Seconds, Requests

\* What a step does to the handlers when a process ends.
LEMMA GoKeepsRequests ==
  ASSUME req \in ReqType, NEW p \in Procs, NEW c, Go(p, c) \/ Leave(p, c)
  PROVE  req' \in ReqType /\ \A h \in Handlers : req'[h] = req[h] \/ req'[h] = Quiet
<1>1. Quiet \in Requests
  BY QuietIdle
<1>2. req' = req \/ req' = [h \in Handlers |-> IF req[h].proc = p THEN Quiet ELSE req[h]]
  BY DEF Go, Leave
<1> QED  BY <1>1, <1>2 DEF ReqType

\* A busy process that moves anywhere but into a panic keeps the invariant.
LEMMA MoveSafe ==
  ASSUME ProcInv, NEW p \in Procs, NEW c \in PCs \ {"panicked"}, Go(p, c), UNCHANGED setting,
         ~Idle(p) \/ c \in {"off", "exiting", "leaving"}
  PROVE  ProcInv'
<1>1. /\ proc' \in ProcType /\ proc'[p].pc = c
      /\ \A q \in Procs \ {p} : proc'[q] = proc[q]
      /\ proc'[p].config = default_config \/ proc'[p].config = proc[p].config
  BY GoMoves DEF ProcInv
<1>2. \A q \in Procs : proc'[q].pc # "panicked" /\ Sound(proc'[q].config)
  BY <1>1, DefaultSound DEF ProcInv
<1>3. \A q, r \in Procs : q # r => Idle(q)' \/ Idle(r)'
  BY <1>1 DEF ProcInv, Idle
<1> QED  BY <1>1, <1>2, <1>3 DEF ProcInv

\* The expects of create_tls_acceptor hold of a section that passed validate.
LEMMA TlsNoPanic ==
  ASSUME NEW t, t.enabled, tls_valid(t)
  PROVE  create_tls_acceptor(t) \in {"off", "store"}
BY DEF tls_valid, create_tls_acceptor, Present

\* main and SocksServer::new up to the store: every early return and every expect.
LEMMA FirstStepsSafe ==
  ASSUME LifeInv, NEW p \in Procs, Load(p) \/ InitAuth(p) \/ InitAcl(p) \/ InitTls(p)
  PROVE  ProcInv'
<1> USE DEF PCs, At, Idle, UnchangedStart, UnchangedBoot, fixed
<1>0. /\ ProcInv /\ conf \in Configs \union {NoFile, Torn}
      /\ Sound(proc[p].config) /\ proc \in ProcType
  BY DEF LifeInv, ProcInv, WriteInv, FileTypes
<1>1. CASE Load(p)
  <2>1. CASE Leave(p, "off")
    <3>1. Go(p, "off")
      BY <2>1 DEF Go
    <3> QED  BY <1>0, <1>1, <3>1, MoveSafe DEF Load
  <2>2. CASE ~(setting.path /\ ~from_toml_str(conf))
    <3> DEFINE read == IF setting.path THEN normalize(conf) ELSE default_config
               new == apply_override(read, setting.bind)
    <3>1. read \in Configs /\ Sound(read)
      <4>1. CASE setting.path
        <5>1. conf \in Configs /\ validate(conf)
          BY <1>0, <2>2, <4>1 DEF from_toml_str
        <5> QED  BY <4>1, <5>1, NormalizeKeeps, ValidSound
      <4>2. CASE ~setting.path
        BY <4>2, DefaultSound
      <4> QED  BY <4>1, <4>2
    <3> HIDE DEF read
    <3>2. setting.bind \in Binds \union {"none"}
      BY <1>0, DocumentsAssumption DEF ProcInv
    <3>3. new \in Configs /\ Sound(new)
      BY <3>1, <3>2, OverrideKeeps
    <3>4. /\ proc[p].pc = "load" /\ UNCHANGED setting
          /\ proc' = [proc EXCEPT ![p].pc = "auth", ![p].config = new]
      BY <1>1, <2>2 DEF Load, new, read
    <3> HIDE DEF new
    <3>5. /\ proc' \in ProcType /\ proc'[p].pc = "auth" /\ proc'[p].config = new
          /\ \A q \in Procs \ {p} : proc'[q] = proc[q]
      BY ZenonT(60), <1>0, <3>3, <3>4 DEF ProcType, ProcRecords
    <3> QED  BY <1>0, <3>3, <3>4, <3>5 DEF ProcInv
  <2> QED  BY <1>1, <2>1, <2>2 DEF Load
<1>2. CASE InitAuth(p)
  BY <1>0, <1>2, MoveSafe DEF InitAuth
<1>3. CASE InitAcl(p)
  <2>1. Config(p).acl.enabled => Config(p).acl.file # "none"
    BY <1>0 DEF Sound, acl_valid, Present, Config
  <2>2. Go(p, "tls") \/ Go(p, "off")
    BY <1>3, <2>1 DEF InitAcl
  <2> QED  BY <1>0, <1>3, <2>2, MoveSafe DEF InitAcl
<1>4. CASE InitTls(p)
  <2>1. Go(p, "store") \/ Go(p, "off")
    BY <1>0, <1>4, TlsNoPanic DEF InitTls, Sound, Config
  <2> QED  BY <1>0, <1>4, <2>1, MoveSafe DEF InitTls
<1> QED  BY <1>1, <1>2, <1>3, <1>4

\* SessionStore::connect, whose URL validate has looked for.
LEMMA StoreStepsSafe ==
  ASSUME LifeInv, NEW p \in Procs,
         \/ Connect(p) \/ preflight_database_file(p) \/ quarantine_database_file(p)
         \/ DropLog(p) \/ CreateFile(p) \/ create_database_backup(p) \/ Open(p)
         \/ configure_journal_mode(p) \/ verify_integrity(p) \/ Sweep(p) \/ ConnectFails(p)
  PROVE  ProcInv'
<1> USE DEF PCs, At, Idle, UnchangedStart, UnchangedBoot, fixed
<1>0. ProcInv /\ Sound(proc[p].config) /\ proc \in ProcType
  BY DEF LifeInv, ProcInv
<1>1. CASE Connect(p)
  <2>1. wants_store(Config(p)) => Config(p).sessions.url # "none"
    BY <1>0 DEF Sound, sessions_valid, wants_store, Config
  <2>2. Go(p, "preflight") \/ Go(p, "off") \/ Go(p, "watcher")
    BY <1>1, <2>1 DEF Connect, from_url
  <2> QED  BY <1>0, <1>1, <2>2, MoveSafe DEF Connect
<1>2. ASSUME NEW n \in {"create", "preflight"}, PutAside(p, n), ~Idle(p), UNCHANGED setting
      PROVE  ProcInv'
  <2>1. /\ proc' \in ProcType /\ proc'[p].pc = "quarantine"
        /\ proc'[p].config = proc[p].config
        /\ \A q \in Procs \ {p} : proc'[q] = proc[q]
    <3>1. PICK b \in BOOLEAN :
            proc' = [proc EXCEPT ![p].pc = "quarantine", ![p].next = n, ![p].reset = b]
      BY <1>2, Zenon DEF PutAside
    <3>2. proc'[p] = [proc[p] EXCEPT !.pc = "quarantine", !.next = n, !.reset = b]
      BY <1>0, <3>1 DEF ProcType
    <3>3. proc[p] \in ProcRecords
      BY <1>0 DEF ProcType
    <3>4. proc'[p] \in ProcRecords /\ proc'[p].pc = "quarantine" /\ proc'[p].config = proc[p].config
      BY <3>2, <3>3 DEF ProcRecords
    <3> QED  BY <1>0, <3>1, <3>4 DEF ProcType
  <2> QED  BY <1>0, <1>2, <2>1 DEF ProcInv
<1>3. CASE preflight_database_file(p)
  <2>1. CASE Go(p, "create")
    BY <1>0, <1>3, <2>1, MoveSafe DEF preflight_database_file
  <2>2. CASE PutAside(p, "create")
    BY <1>2, <1>3, <2>2 DEF preflight_database_file
  <2> QED  BY <1>3, <2>1, <2>2 DEF preflight_database_file
<1>4. CASE quarantine_database_file(p)
  <2>1. proc[p].next \in PCs \ {"panicked"} /\ ~Idle(p) /\ UNCHANGED setting
    BY <1>0, <1>4 DEF ProcType, ProcRecords, quarantine_database_file
  <2>2. CASE Go(p, proc[p].next)
    BY <1>0, <2>1, <2>2, MoveSafe
  <2>3. CASE proc' = [q \in Procs |-> IF q = p THEN [proc[p] EXCEPT !.pc = "droplog"]
                                     ELSE [proc[q] EXCEPT !.aside = Running(q)]]
    <3>1. proc' \in ProcType
      <4>1. \A q \in Procs : Running(q) \in BOOLEAN
        BY DEF Running
      <4> QED  BY <1>0, <2>3, <4>1 DEF ProcType, ProcRecords
    <3>2. /\ proc'[p].pc = "droplog"
          /\ \A q \in Procs : proc'[q].config = proc[q].config
          /\ \A q \in Procs \ {p} : proc'[q].pc = proc[q].pc
      BY <1>0, <2>3 DEF ProcType, ProcRecords
    <3>3. \A q \in Procs : proc'[q].pc # "panicked" /\ Sound(proc'[q].config)
      BY <1>0, <3>2 DEF ProcInv
    <3>4. \A q, r \in Procs : q # r => Idle(q)' \/ Idle(r)'
      BY <1>0, <2>1, <3>2 DEF ProcInv
    <3> QED  BY <1>0, <2>1, <3>1, <3>3, <3>4 DEF ProcInv
  <2> QED  BY <1>4, <2>2, <2>3 DEF quarantine_database_file
<1>5. CASE DropLog(p)
  <2>1. proc[p].next \in PCs \ {"panicked"}
    BY <1>0 DEF ProcType, ProcRecords
  <2> QED  BY <1>0, <1>5, <2>1, MoveSafe DEF DropLog
<1>6. CASE CreateFile(p)
  BY <1>0, <1>6, MoveSafe DEF CreateFile
<1>7. CASE create_database_backup(p)
  BY <1>0, <1>7, MoveSafe DEF create_database_backup
<1>8. CASE Open(p)
  BY <1>0, <1>8, MoveSafe DEF Open
<1>9. CASE configure_journal_mode(p)
  BY <1>0, <1>9, MoveSafe DEF configure_journal_mode
<1>10. CASE verify_integrity(p)
  <2>1. CASE Go(p, "sweep") \/ Go(p, "off")
    BY <1>0, <1>10, <2>1, MoveSafe DEF verify_integrity
  <2>2. CASE PutAside(p, "preflight")
    BY <1>2, <1>10, <2>2 DEF verify_integrity
  <2> QED  BY <1>10, <2>1, <2>2 DEF verify_integrity
<1>11. CASE Sweep(p)
  BY <1>0, <1>11, MoveSafe DEF Sweep
<1>12. CASE ConnectFails(p)
  <2>1. Go(p, "off") /\ UNCHANGED setting
    BY <1>12 DEF ConnectFails, Go
  <2> QED  BY <1>0, <2>1, MoveSafe
<1> QED  BY <1>1, <1>3, <1>4, <1>5, <1>6, <1>7, <1>8, <1>9, <1>10, <1>11, <1>12

\* The rest of the process's life; the metrics interval divides by a checked value.
LEMMA LastStepsSafe ==
  ASSUME LifeInv, NEW p \in Procs,
         \/ StartWatcher(p) \/ StartApi(p) \/ InitQos(p) \/ Bind(p)
         \/ Stop(p) \/ Shutdown(p) \/ Exit(p) \/ Kill(p)
  PROVE  ProcInv'
<1> USE DEF PCs, At, Idle, UnchangedStart, UnchangedBoot, fixed
<1>0. ProcInv /\ Sound(proc[p].config) /\ proc \in ProcType
  BY DEF LifeInv, ProcInv
<1>1. CASE StartWatcher(p)
  BY <1>0, <1>1, MoveSafe DEF StartWatcher
<1>2. CASE StartApi(p)
  <2>1. Config(p).metrics.collectionSecs # 0
    BY <1>0 DEF Sound, metrics_valid, Config
  <2>2. Go(p, "qos") \/ Go(p, "off")
    BY <1>2, <2>1 DEF StartApi
  <2> QED  BY <1>0, <1>2, <2>2, MoveSafe DEF StartApi
<1>3. CASE InitQos(p)
  BY <1>0, <1>3, MoveSafe DEF InitQos
<1>4. CASE Bind(p)
  BY <1>0, <1>4, MoveSafe DEF Bind
<1>5. CASE Stop(p)
  BY <1>0, <1>5, MoveSafe DEF Stop, Serving
<1>6. CASE Shutdown(p) \/ Exit(p) \/ Kill(p)
  <2>1. Go(p, "off") /\ UNCHANGED setting
    BY <1>6 DEF Shutdown, Exit, Kill, Go
  <2> QED  BY <1>0, <2>1, MoveSafe
<1> QED  BY <1>1, <1>2, <1>3, <1>4, <1>5, <1>6

\* The steps that start processes, or end all of them.
LEMMA SpawnSafe ==
  ASSUME LifeInv, (\E p \in Procs : Start(p)) \/ (\E p, q \in Procs : schedule_restart(p, q))
                    \/ PowerLoss
  PROVE  ProcInv'
<1> USE DEF PCs, At, Idle, fixed
<1> DEFINE fresh == [Off EXCEPT !.pc = "load"]
<1>0. ProcInv /\ proc \in ProcType
  BY DEF LifeInv, ProcInv
<1>1. /\ Off \in ProcRecords /\ ~Off.aside
      /\ Off.pc = "off" /\ Off.config = default_config
  BY DefaultSound DEF Off, ProcRecords
<1>2. /\ fresh \in ProcRecords
      /\ fresh.pc = "load" /\ fresh.config = default_config
  BY <1>1 DEF ProcRecords
<1> HIDE DEF fresh
<1>3. ASSUME NEW p \in Procs, Start(p) PROVE ProcInv'
  <2>1. /\ proc' = [proc EXCEPT ![p] = fresh] /\ UNCHANGED setting
        /\ \A q \in Procs : proc[q].pc \in {"off", "panicked"}
    BY <1>3 DEF Start, Running, fresh
  <2>2. /\ proc' \in ProcType /\ proc'[p] = fresh
        /\ \A q \in Procs \ {p} : proc'[q] = proc[q]
    BY <1>0, <1>2, <2>1 DEF ProcType, ProcRecords
  <2> QED  BY <1>0, <1>2, <2>1, <2>2, DefaultSound DEF ProcInv
<1>4. ASSUME NEW p \in Procs, NEW q \in Procs, schedule_restart(p, q) PROVE ProcInv'
  <2>1. CASE UNCHANGED proc
    BY <1>0, <1>4, <2>1 DEF schedule_restart, ProcInv
  <2>2. CASE proc' = [proc EXCEPT ![p] = Last(p), ![q] = [Off EXCEPT !.pc = "load"]]
    <3>1. /\ proc[p].pc \in {"qos", "bind", "serving", "shutdown"} /\ proc[q].pc = "off"
          /\ UNCHANGED setting
      BY <1>4 DEF schedule_restart, TimerRuns
    <3>2. proc' = [proc EXCEPT ![p] = Last(p), ![q] = fresh]
      BY <2>2 DEF fresh
    <3>3. /\ proc' \in ProcType /\ proc'[q] = fresh /\ p # q
          /\ proc'[p].pc \in {"exiting", "leaving"} /\ proc'[p].config = proc[p].config
          /\ \A r \in Procs \ {p, q} : proc'[r] = proc[r]
      BY <1>0, <1>2, <3>1, <3>2 DEF ProcType, ProcRecords, Last
    <3>4. \A r \in Procs : proc'[r].pc # "panicked" /\ Sound(proc'[r].config)
      BY <1>0, <1>2, <3>3, DefaultSound DEF ProcInv
    <3>5. \A r \in Procs \ {q} : Idle(r)'
      BY <1>0, <3>1, <3>3 DEF ProcInv
    <3> QED  BY <1>0, <3>1, <3>3, <3>4, <3>5 DEF ProcInv
  <2> QED  BY <1>4, <2>1, <2>2 DEF schedule_restart
<1>5. CASE PowerLoss
  <2>1. proc' = [p \in Procs |-> Off] /\ UNCHANGED setting
    BY <1>5 DEF PowerLoss
  <2>2. proc' \in ProcType /\ \A p \in Procs : proc'[p] = Off
    BY <1>1, <2>1 DEF ProcType, ProcRecords
  <2> QED  BY <1>0, <1>1, <2>1, <2>2, DefaultSound DEF ProcInv
<1> QED  BY <1>3, <1>4, <1>5

\* Every step keeps what is known of the processes.
LEMMA ProcStep == ASSUME LifeInv, [Next]_vars PROVE ProcInv'
<1>1. CASE UNCHANGED <<setting, proc>>
  BY <1>1 DEF LifeInv, ProcInv, Idle
<1>2. ASSUME NEW h \in Handlers, WriteStep(h) \/ WriteFails(h) PROVE UNCHANGED <<setting, proc>>
  BY <1>2 DEF WriteStep, WriteFails, CreateTemp, FillTemp, Rename, RemoveOld, RenameAgain,
              UnchangedRequest, fixed
<1>3. ASSUME NEW h \in Handlers, NEW p \in Procs,
             update_config_file(h, p) \/ update_runtime_config(h, p)
      PROVE  UNCHANGED <<setting, proc>>
  BY <1>3 DEF update_config_file, update_runtime_config, Accept, UnchangedRequest, fixed
<1>4. ASSUME NEW p \in Procs, Commit(p) \/ Checkpoint(p) PROVE UNCHANGED <<setting, proc>>
  BY <1>4 DEF Commit, Checkpoint, fixed
<1>5. Tick \/ UNCHANGED vars => UNCHANGED <<setting, proc>>
  BY DEF Tick, vars, fixed
<1> QED  BY <1>1, <1>2, <1>3, <1>4, <1>5, FirstStepsSafe, StoreStepsSafe, LastStepsSafe, SpawnSafe
         DEF Next, StartStep

-----------------------------------------------------------------------------
(* The configuration file                                                  *)

\* Steps that leave the files alone and end handlers at most.
LEMMA WriteQuiet ==
  ASSUME WriteInv, UNCHANGED <<conf, disk, temp, first>>, excuses \subseteq excuses',
         clock' \in Seconds,
         req' \in ReqType, \A h \in Handlers : req'[h] = req[h] \/ req'[h] = Quiet
  PROVE  WriteInv'
<1>1. FileTypes'
  BY QuietIdle DEF WriteInv, FileTypes
<1>2. ASSUME Undisturbed' PROVE OrderInv'
  <2>1. OrderInv
    BY <1>2 DEF WriteInv, Undisturbed
  <2>2. /\ conf' = first' \/ Usable(conf')
        /\ \A c \in disk' : c = first' \/ Usable(c) \/ c = Torn
    BY <2>1 DEF OrderInv
  <2>3. \A h \in Handlers : OwnFile(h)'
    BY <2>1, QuietIdle DEF OrderInv, OwnFile
  <2>4. \A g, h \in Handlers : g # h => Apart(g, h)'
    BY <2>1, QuietIdle DEF OrderInv, Apart
  <2> QED  BY <2>2, <2>3, <2>4 DEF OrderInv
<1> QED  BY <1>1, <1>2 DEF WriteInv

\* A request that was accepted carries a usable document.
LEMMA AcceptSafe ==
  ASSUME WriteInv, NEW h \in Handlers, NEW p \in Procs, NEW c, Usable(c),
         NEW restart \in BOOLEAN, Accept(h, p, c, restart)
  PROVE  WriteInv'
<1> DEFINE r == [Quiet EXCEPT !.pc = "create", !.proc = p, !.config = c, !.restart = restart]
<1>0. /\ UNCHANGED <<conf, disk, temp, first, clock, excuses>> /\ req' = [req EXCEPT ![h] = r]
      /\ c \in Configs
  BY DEF Accept, UnchangedRequest, fixed, Usable
<1>1. r \in Requests /\ r.pc = "create" /\ r.config = c /\ r.file = "none"
  <2>1. p \in 0 .. Processes
    BY BoundsAssumption DEF Procs
  <2> QED  BY <1>0, <2>1, QuietIdle DEF Requests
<1> HIDE DEF r
<1>2. req' \in ReqType /\ req'[h] = r /\ \A g \in Handlers \ {h} : req'[g] = req[g]
  BY <1>0, <1>1 DEF WriteInv, FileTypes, ReqType
<1>3. FileTypes'
  BY <1>0, <1>1, <1>2 DEF WriteInv, FileTypes
<1>4. ASSUME Undisturbed' PROVE OrderInv'
  <2>1. OrderInv
    BY <1>0, <1>4 DEF WriteInv, Undisturbed
  <2>2. \A g \in Handlers : OwnFile(g)'
    BY <1>0, <1>1, <1>2, <2>1 DEF OrderInv, OwnFile
  <2>3. \A f, g \in Handlers : f # g => Apart(f, g)'
    BY <1>1, <1>2, <2>1 DEF OrderInv, Apart
  <2> QED  BY <1>0, <2>1, <2>2, <2>3 DEF OrderInv
<1> QED  BY <1>3, <1>4 DEF WriteInv

\* update_config_file and update_runtime_config write what passed validate.
LEMMA UpdatesSafe ==
  ASSUME LifeInv, NEW h \in Handlers, NEW p \in Procs,
         update_config_file(h, p) \/ update_runtime_config(h, p)
  PROVE  WriteInv'
<1>0. WriteInv /\ setting.docs \subseteq Configs /\ proc[p].config \in Configs
  BY DocumentsAssumption DEF LifeInv, ProcInv, ProcType, ProcRecords
<1>1. ASSUME NEW c \in Configs, validate(c) PROVE Usable(c)
  BY <1>1, DocumentsAssumption DEF Usable, from_toml_str
<1>2. CASE update_config_file(h, p)
  <2>1. PICK doc \in setting.docs, restart \in BOOLEAN :
          from_toml_str(doc) /\ Accept(h, p, normalize(doc), restart)
    BY <1>2 DEF update_config_file
  <2>2. Usable(normalize(doc))
    BY <1>0, <1>1, <2>1, NormalizeKeeps DEF from_toml_str
  <2> QED  BY <1>0, <2>1, <2>2, AcceptSafe
<1>3. CASE update_runtime_config(h, p)
  <2>1. PICK doc \in setting.docs, restart \in BOOLEAN :
          /\ validate(apply_runtime(proc[p].config, doc))
          /\ Accept(h, p, apply_runtime(proc[p].config, doc), restart)
    BY <1>3 DEF update_runtime_config, Config
  <2>2. Usable(apply_runtime(proc[p].config, doc))
    BY <1>0, <1>1, <2>1, RuntimeKeeps
  <2> QED  BY <1>0, <2>1, <2>2, AcceptSafe
<1> QED  BY <1>2, <1>3

\* File::create: a second handler of the same second is a clash.
LEMMA CreateTempSafe ==
  ASSUME WriteInv, NEW h \in Handlers, CreateTemp(h)
  PROVE  WriteInv'
<1>0. /\ req[h].pc = "create" /\ temp' = [temp EXCEPT ![clock] = Torn]
      /\ req' = [req EXCEPT ![h].pc = "fill", ![h].second = clock, ![h].file = "temp"]
      /\ UNCHANGED <<conf, disk, first, clock>> /\ req \in ReqType /\ clock \in Seconds
  BY DEF CreateTemp, UnchangedRequest, fixed, WriteInv, FileTypes
<1>1. /\ req' \in ReqType /\ req'[h].pc = "fill" /\ req'[h].second = clock
      /\ req'[h].file = "temp" /\ req'[h].config = req[h].config
      /\ \A g \in Handlers \ {h} : req'[g] = req[g]
  BY ZenonT(60), <1>0 DEF ReqType, Requests
<1>2. FileTypes'
  BY <1>0, <1>1 DEF WriteInv, FileTypes
<1>3. ASSUME Undisturbed' PROVE OrderInv'
  <2>1. /\ \A g \in Handlers \ {h} : ~Writing(g, clock) /\ excuses \subseteq excuses'
    BY <1>3 DEF CreateTemp, Undisturbed
  <2>2. OrderInv
    BY <1>3, <2>1 DEF CreateTemp, WriteInv, Undisturbed
  <2>3. \A g \in Handlers \ {h} : req[g].pc \in {"fill", "rename"} => req[g].second # clock
    BY <2>1 DEF Writing
  <2>4. \A g \in Handlers : OwnFile(g)'
    <3>1. OwnFile(h)'
      BY <1>1 DEF OwnFile
    <3>2. ASSUME NEW g \in Handlers \ {h} PROVE OwnFile(g)'
      <4>1. temp \in [Seconds -> Configs \union {NoFile, Torn}] /\ OwnFile(g) /\ req'[g] = req[g]
        BY <1>1, <2>2, <3>2 DEF OrderInv, WriteInv, FileTypes
      <4>2. req[g].pc = "rename" => temp'[req[g].second] = temp[req[g].second]
        BY <1>0, <2>3, <3>2, <4>1 DEF ReqType, Requests
      <4> QED  BY <4>1, <4>2 DEF OwnFile
    <3> QED  BY <3>1, <3>2
  <2>5. \A f, g \in Handlers : f # g => Apart(f, g)'
    BY <1>1, <2>2, <2>3 DEF OrderInv, Apart
  <2> QED  BY <1>0, <2>2, <2>4, <2>5 DEF OrderInv
<1> QED  BY <1>2, <1>3 DEF WriteInv

\* write_all: the document goes to the file that was opened.
LEMMA FillTempSafe ==
  ASSUME WriteInv, NEW h \in Handlers, FillTemp(h)
  PROVE  WriteInv'
<1>0. /\ req[h].pc = "fill"
      /\ req' = [req EXCEPT ![h].pc = "rename", ![h].file = "none"]
      /\ UNCHANGED <<first, clock, excuses>> /\ req \in ReqType
      /\ Usable(req[h].config) /\ req[h].config \in Configs /\ req[h].second \in Seconds
  BY DEF FillTemp, UnchangedRequest, fixed, WriteInv, FileTypes, ReqType, Requests
<1>1. /\ req' \in ReqType /\ req'[h].pc = "rename" /\ req'[h].second = req[h].second
      /\ req'[h].file = "none" /\ req'[h].config = req[h].config
      /\ \A g \in Handlers \ {h} : req'[g] = req[g]
  BY <1>0 DEF ReqType, Requests
<1>2. FileTypes'
  <2>1. disk' \subseteq Configs \union {NoFile, Torn} /\ conf' \in disk'
    BY <1>0 DEF WriteInv, FileTypes, FillTemp
  <2>2. temp' \in [Seconds -> Configs \union {NoFile, Torn}]
    BY <1>0 DEF WriteInv, FileTypes, FillTemp
  <2> QED  BY <1>0, <1>1, <2>1, <2>2 DEF WriteInv, FileTypes
<1>3. ASSUME Undisturbed' PROVE OrderInv'
  <2>1. OrderInv /\ req[h].file = "temp"
    BY <1>0, <1>3 DEF WriteInv, Undisturbed, OrderInv, OwnFile
  <2>2. UNCHANGED <<conf, disk>> /\ temp' = [temp EXCEPT ![req[h].second] = req[h].config]
    BY <2>1 DEF FillTemp
  <2>3. \A g \in Handlers \ {h} : req[g].pc = "rename" => req[g].second # req[h].second
    BY <1>0, <2>1 DEF OrderInv, Apart
  <2>4. \A g \in Handlers : OwnFile(g)'
    <3>0. temp \in [Seconds -> Configs \union {NoFile, Torn}]
      BY DEF WriteInv, FileTypes
    <3>1. OwnFile(h)'
      <4>1. temp'[req[h].second] = req[h].config
        BY <1>0, <2>2, <3>0
      <4> QED  BY <1>1, <4>1 DEF OwnFile
    <3>2. ASSUME NEW g \in Handlers \ {h} PROVE OwnFile(g)'
      <4>1. OwnFile(g) /\ req'[g] = req[g]
        BY <1>1, <2>1, <3>2 DEF OrderInv
      <4>2. req[g].pc = "rename" => temp'[req[g].second] = temp[req[g].second]
        BY <1>0, <2>2, <2>3, <3>0, <3>2 DEF ReqType, Requests
      <4> QED  BY <4>1, <4>2 DEF OwnFile
    <3> QED  BY <3>1, <3>2
  <2>5. ASSUME NEW f \in Handlers, NEW g \in Handlers, f # g PROVE Apart(f, g)'
    <3>1. Apart(f, g)
      BY <2>1, <2>5 DEF OrderInv
    <3>2. /\ (req'[f].pc \in {"fill", "rename"} => req[f].pc \in {"fill", "rename"})
          /\ (req'[g].pc \in {"fill", "rename"} => req[g].pc \in {"fill", "rename"})
          /\ req'[f].second = req[f].second /\ req'[g].second = req[g].second
      BY <1>0, <1>1
    <3> QED  BY <3>1, <3>2 DEF Apart
  <2> QED  BY <1>0, <2>1, <2>2, <2>4, <2>5 DEF OrderInv
<1> QED  BY <1>2, <1>3 DEF WriteInv

\* An answer ends a handler.
LEMMA AnswerQuiet ==
  ASSUME req \in ReqType, NEW h \in Handlers, Answer(h)
  PROVE  req' \in ReqType /\ \A g \in Handlers : req'[g] = req[g] \/ req'[g] = Quiet
BY QuietIdle DEF Answer, ReqType

\* The rename replaces the configuration file by the document of its handler.
LEMMA ReplaceSafe ==
  ASSUME WriteInv, NEW h \in Handlers, Replace(h), req[h].pc \in {"rename", "again"},
         UNCHANGED <<first, clock, excuses>>
  PROVE  WriteInv'
<1> DEFINE s == req[h].second
           moved(r) == [r EXCEPT !.file = CASE @ = "temp" /\ r.second = s -> "conf"
                                            [] @ = "conf" -> "none" [] OTHER -> @]
<1>0. /\ conf' = temp[s] /\ disk' = disk \union {Torn, temp[s]} /\ temp' = [temp EXCEPT ![s] = NoFile] /\ temp[s] # NoFile
      /\ req' = [g \in Handlers |-> IF g = h THEN Quiet ELSE moved(req[g])]
      /\ req \in ReqType /\ s \in Seconds /\ temp \in [Seconds -> Configs \union {NoFile, Torn}]
  BY DEF Replace, WriteInv, FileTypes, ReqType, Requests
<1>1. ASSUME NEW g \in Handlers \ {h}
      PROVE  /\ req'[g] \in Requests /\ req'[g].pc = req[g].pc
             /\ req'[g].second = req[g].second /\ req'[g].config = req[g].config
             /\ req'[g].file = CASE req[g].file = "temp" /\ req[g].second = s -> "conf"
                                 [] req[g].file = "conf" -> "none" [] OTHER -> req[g].file
  <2>1. req'[g] = moved(req[g]) /\ req[g] \in Requests
    BY <1>0, <1>1 DEF ReqType
  <2> QED  BY <2>1 DEF Requests
<1>2. req'[h] = Quiet /\ req' \in ReqType
  <2>1. \A g \in Handlers : req'[g] \in Requests
    BY <1>0, <1>1, QuietIdle
  <2> QED  BY <1>0, <2>1 DEF ReqType
<1>3. FileTypes'
  BY <1>0, <1>1, <1>2, QuietIdle DEF WriteInv, FileTypes
<1>4. ASSUME Undisturbed' PROVE OrderInv'
  <2>1. OrderInv
    BY <1>4 DEF WriteInv, Undisturbed
  <2>2. req[h].pc = "rename" /\ temp[s] = req[h].config /\ Usable(req[h].config)
    BY <2>1 DEF OrderInv, OwnFile, WriteInv, FileTypes
  <2>3. \A g \in Handlers \ {h} :
          /\ req[g].pc \in {"fill", "rename"} => req[g].second # s
          /\ req'[g].file = req[g].file
    BY <1>1, <2>1, <2>2 DEF OrderInv, OwnFile, Apart
  <2>4. \A g \in Handlers : OwnFile(g)'
    BY <1>0, <1>1, <1>2, <2>1, <2>3, QuietIdle DEF OrderInv, OwnFile
  <2>5. \A f, g \in Handlers : f # g => Apart(f, g)'
    BY <1>1, <1>2, <2>1, QuietIdle DEF OrderInv, Apart
  <2>6. Usable(conf')
    BY <1>0, <2>2
  <2>7. \A c \in disk' : c = first' \/ Usable(c) \/ c = Torn
    BY <1>0, <2>1, <2>6 DEF OrderInv
  <2> QED  BY <2>4, <2>5, <2>6, <2>7 DEF OrderInv
<1> QED  BY <1>3, <1>4 DEF WriteInv

\* The steps of write_to_file after its first half: a rename that fails leaves the
\* handler to remove the old file, which only an I/O error or a clash brings about.
LEMMA RenamesSafe ==
  ASSUME WriteInv, NEW h \in Handlers,
         Rename(h) \/ RemoveOld(h) \/ RenameAgain(h) \/ WriteFails(h)
  PROVE  WriteInv'
<1>0. /\ UNCHANGED <<first, clock>> /\ req \in ReqType /\ clock \in Seconds
      /\ conf \in Configs \union {NoFile, Torn}
  BY DEF Rename, RemoveOld, RenameAgain, WriteFails, UnchangedRequest, fixed, WriteInv, FileTypes
<1>1. ASSUME Undisturbed
      PROVE  /\ req[h].pc \notin {"remove", "again"}
             /\ req[h].pc = "rename" => temp[req[h].second] # NoFile
  <2>1. OwnFile(h) /\ (req[h].pc # "idle" => Usable(req[h].config))
    BY <1>1 DEF WriteInv, FileTypes, OrderInv
  <2> QED  BY <2>1 DEF OwnFile, Usable, from_toml_str
<1>2. CASE Answer(h) /\ UNCHANGED <<conf, disk, temp>> /\ excuses \subseteq excuses'
  BY <1>0, <1>2, AnswerQuiet, WriteQuiet
<1>3. CASE Replace(h) /\ UNCHANGED excuses /\ req[h].pc \in {"rename", "again"}
  BY <1>0, <1>3, ReplaceSafe
<1>4. CASE Rename(h)
  <2>1. CASE Replace(h) /\ UNCHANGED excuses
    BY <1>3, <1>4, <2>1 DEF Rename
  <2>2. CASE /\ IF temp[req[h].second] = NoFile THEN UNCHANGED <<faults, excuses>> ELSE Fault("io")
             /\ req' = [req EXCEPT ![h].pc = IF conf = NoFile THEN "again" ELSE "remove"]
             /\ UNCHANGED <<conf, disk, temp, timers>>
    <3>1. /\ req' \in ReqType /\ req'[h].pc # "idle" /\ req'[h].config = req[h].config
          /\ \A g \in Handlers \ {h} : req'[g] = req[g]
      BY <1>0, <2>2 DEF ReqType, Requests
    <3>2. req[h].pc = "rename"
      BY <1>4 DEF Rename
    <3>3. FileTypes'
      BY <1>0, <2>2, <3>1, <3>2 DEF WriteInv, FileTypes
    <3>4. ~Undisturbed'
      BY <1>1, <2>2, <3>2 DEF Undisturbed, Fault, Excuse
    <3> QED  BY <3>3, <3>4 DEF WriteInv
  <2> QED  BY <1>4, <2>1, <2>2 DEF Rename
<1>5. CASE RemoveOld(h)
  <2>1. CASE Answer(h) /\ UNCHANGED <<conf, disk>> /\ excuses \subseteq excuses'
    BY <1>2, <1>5, <2>1 DEF RemoveOld
  <2>2. CASE /\ conf' = NoFile /\ disk' = disk \union {NoFile}
             /\ req' = [g \in Handlers |->
                          IF g = h THEN [req[h] EXCEPT !.pc = "again"]
                          ELSE IF req[g].file = "conf" THEN [req[g] EXCEPT !.file = "none"]
                          ELSE req[g]]
             /\ UNCHANGED <<faults, excuses>>
    <3>1. \A g \in Handlers : /\ req'[g] \in Requests /\ req'[g].config = req[g].config
                              /\ req'[g].pc # "idle" => req[g].pc # "idle"
      BY <1>0, <1>5, <2>2 DEF ReqType, Requests, RemoveOld
    <3>2. req' \in ReqType
      BY <2>2, <3>1 DEF ReqType
    <3>3. FileTypes'
      BY <1>0, <1>5, <2>2, <3>1, <3>2 DEF WriteInv, FileTypes, RemoveOld
    <3>4. ~Undisturbed'
      BY <1>1, <1>5, <2>2 DEF Undisturbed, RemoveOld
    <3> QED  BY <3>3, <3>4 DEF WriteInv
  <2> QED  BY <1>5, <2>1, <2>2 DEF RemoveOld, Fault, Excuse
<1>6. CASE RenameAgain(h)
  BY <1>2, <1>3, <1>6 DEF RenameAgain, Fault, Excuse
<1>7. CASE WriteFails(h)
  BY <1>2, <1>7 DEF WriteFails, Fault, Excuse
<1> QED  BY <1>4, <1>5, <1>6, <1>7

\* Every step keeps the files and their writers in order.
LEMMA WriteStepSafe == ASSUME LifeInv, [Next]_vars PROVE WriteInv'
<1>0. WriteInv /\ req \in ReqType /\ clock \in Seconds
  BY DEF LifeInv, WriteInv, FileTypes
<1>1. ASSUME UNCHANGED <<conf, disk, temp, first, clock, req>>, excuses \subseteq excuses'
      PROVE  WriteInv'
  BY <1>0, <1>1, WriteQuiet
<1>2. ASSUME UNCHANGED <<conf, disk, temp, first, clock>>, excuses \subseteq excuses',
             NEW p \in Procs, NEW c, Go(p, c) \/ Leave(p, c)
      PROVE  WriteInv'
  BY <1>0, <1>2, WriteQuiet, GoKeepsRequests
<1>3. ASSUME NEW p \in Procs, Start(p) PROVE WriteInv'
  BY <1>1, <1>3 DEF Start, fixed, confVars
<1>4. ASSUME NEW p \in Procs, StartStep(p) PROVE WriteInv'
  <2>1. UNCHANGED <<conf, disk, temp, first, clock>> /\ excuses \subseteq excuses'
    BY <1>4 DEF StartStep, UnchangedStart, UnchangedBoot, Works, Fault, fixed, Excuse, Load, InitAuth, InitAcl, InitTls, Connect,
         preflight_database_file, quarantine_database_file, DropLog, CreateFile,
         create_database_backup, Open, configure_journal_mode, verify_integrity, Sweep,
         StartWatcher, StartApi, InitQos, Bind
  <2>2. UNCHANGED req \/ (\E c : Go(p, c) \/ Leave(p, c))
    BY <1>4 DEF StartStep, PutAside, Load, InitAuth, InitAcl, InitTls, Connect,
         preflight_database_file, quarantine_database_file, DropLog, CreateFile,
         create_database_backup, Open, configure_journal_mode, verify_integrity, Sweep,
         StartWatcher, StartApi, InitQos, Bind
  <2> QED  BY <1>1, <1>2, <2>1, <2>2
<1>5. ASSUME NEW p \in Procs, Stop(p) \/ Shutdown(p) \/ Exit(p) \/ Kill(p) \/ ConnectFails(p)
      PROVE  WriteInv'
  BY <1>2, <1>5 DEF Stop, Shutdown, Exit, Kill, ConnectFails, UnchangedStart, UnchangedBoot, fixed,
                    Excuse, Fault
<1>6. ASSUME NEW p \in Procs, Commit(p) \/ Checkpoint(p) PROVE WriteInv'
  BY <1>1, <1>6 DEF Commit, Checkpoint, fixed, confVars
<1>7. ASSUME NEW p \in Procs, NEW q \in Procs, schedule_restart(p, q) PROVE WriteInv'
  BY <1>1, <1>7 DEF schedule_restart, fixed, confVars
<1>8. ASSUME NEW h \in Handlers, WriteStep(h) \/ WriteFails(h) PROVE WriteInv'
  BY <1>0, <1>8, CreateTempSafe, FillTempSafe, RenamesSafe DEF WriteStep
<1>9. CASE PowerLoss
  <2>1. PICK c \in disk :
          /\ conf' = c /\ disk' = {c}
          /\ excuses' = excuses \union {"fault"} \union {e \in {"power"} : c = Torn /\ conf # Torn}
    BY <1>9 DEF PowerLoss
  <2>2. UNCHANGED <<temp, first, clock>> /\ req' = [h \in Handlers |-> Quiet]
    BY <1>9 DEF PowerLoss, fixed
  <2>3. req' \in ReqType /\ \A h \in Handlers : req'[h] = Quiet
    BY <2>2, QuietIdle DEF ReqType
  <2>4. FileTypes'
    BY <1>0, <2>1, <2>2, <2>3, QuietIdle DEF WriteInv, FileTypes
  <2>5. ASSUME Undisturbed' PROVE OrderInv'
    <3>1. OrderInv /\ (c = Torn => conf = Torn)
      BY <1>0, <2>1, <2>5 DEF WriteInv, Undisturbed
    <3>2. c = first \/ Usable(c)
      BY <2>1, <3>1 DEF OrderInv
    <3> QED  BY <2>1, <2>2, <2>3, <3>2, QuietIdle DEF OrderInv, OwnFile, Apart
  <2> QED  BY <2>4, <2>5 DEF WriteInv
<1>10. CASE Tick
  <2>1. clock' \in Seconds /\ UNCHANGED <<conf, disk, temp, first, excuses, req>>
    BY <1>0, <1>10, BoundsAssumption DEF Tick, fixed, confVars, Seconds
  <2> QED  BY <1>0, <2>1, WriteQuiet
<1>11. CASE UNCHANGED vars
  BY <1>1, <1>11 DEF vars, fixed, confVars
<1> QED  BY <1>3, <1>4, <1>5, <1>6, <1>7, <1>8, <1>9, <1>10, <1>11, UpdatesSafe DEF Next

-----------------------------------------------------------------------------
(* The database                                                            *)

\* What may have gone wrong does not come right again.
LEMMA IntactOnly ==
  ASSUME excuses \subseteq excuses', damaged => damaged', Intact' PROVE Intact
BY DEF Intact

\* Every step but those that commit or damage leaves the history of faults as it is,
\* or adds to it.
LEMMA RowsStay ==
  ASSUME RowsInv, UNCHANGED <<db, corrupt, committed, damaged, lost>>, clock' \in Seconds,
         excuses \subseteq excuses'
  PROVE  RowsInv'
<1>1. Intact' => Intact
  BY IntactOnly
<1> QED  BY <1>1 DEF RowsInv

\* Steps that leave the database alone: of the processes, one may have moved.
LEMMA StoreMove ==
  ASSUME LifeInv, UNCHANGED <<db, corrupt, committed, damaged, lost>>, clock' \in Seconds,
         excuses \subseteq excuses',
         NEW p \in Procs, \A q \in Procs \ {p} : proc'[q] = proc[q], StoreOk(p)'
  PROVE  StoreInv'
<1>1. RowsInv'
  BY RowsStay DEF LifeInv, StoreInv
<1>2. \A q \in Procs \ {p} : StoreOk(q)'
  <2>1. Intact' => Intact
    BY IntactOnly
  <2> QED  BY <2>1 DEF LifeInv, StoreInv, StoreOk, StoreUser, Idle
<1> QED  BY <1>1, <1>2 DEF StoreInv

\* A process that ends has nothing to do with the database any more.
LEMMA StoreEnds ==
  ASSUME LifeInv, NEW p \in Procs, Go(p, "off"), excuses \subseteq excuses',
         UNCHANGED <<db, corrupt, committed, damaged, lost, clock>>
  PROVE  StoreInv'
<1>1. proc'[p].pc = "off" /\ ~proc'[p].aside /\ \A q \in Procs \ {p} : proc'[q] = proc[q]
  BY GoMoves DEF LifeInv, ProcInv, PCs
<1>2. StoreOk(p)' /\ clock' \in Seconds
  BY <1>1 DEF StoreOk, StoreUser, LifeInv, StoreInv, RowsInv
<1> QED  BY <1>1, <1>2, StoreMove

\* Start-up outside SessionStore::connect.
LEMMA StoreOutside ==
  ASSUME LifeInv, NEW p \in Procs,
         \/ InitAuth(p) \/ InitAcl(p) \/ InitTls(p) \/ Connect(p) \/ Sweep(p)
         \/ StartWatcher(p) \/ StartApi(p) \/ InitQos(p) \/ Bind(p) \/ Stop(p)
  PROVE  StoreInv'
<1> USE DEF PCs, At, Serving
<1>0. /\ proc \in ProcType /\ StoreOk(p) /\ clock \in Seconds
  BY DEF LifeInv, ProcInv, StoreInv, RowsInv
<1>1. /\ UNCHANGED <<db, corrupt, committed, damaged, lost, clock>> /\ excuses \subseteq excuses'
      /\ ~Idle(p)
  BY DEF InitAuth, InitAcl, InitTls, Connect, Sweep, StartWatcher, StartApi, InitQos, Bind, Stop,
         UnchangedStart, UnchangedBoot, dbVars, Excuse, Idle
<1>2. \/ Go(p, "off") \/ Go(p, "panicked")
      \/ \E c \in {"acl", "tls", "store", "preflight"} : Go(p, c)
      \/ proc[p].pc = "store" /\ ~wants_store(Config(p)) /\ Go(p, "watcher")
      \/ proc[p].pc = "sweep" /\ Go(p, "watcher")
      \/ /\ proc[p].pc \in {"watcher", "api", "qos", "bind", "serving"}
         /\ \E c \in {"api", "qos", "bind", "serving", "shutdown"} : Go(p, c)
  <2>1. CASE InitAuth(p) \/ InitAcl(p) \/ InitTls(p)
    BY <2>1 DEF InitAuth, InitAcl, InitTls, create_tls_acceptor
  <2>2. CASE Connect(p) \/ Sweep(p)
    BY <2>2 DEF Connect, Sweep, from_url
  <2>3. CASE StartWatcher(p) \/ StartApi(p) \/ InitQos(p) \/ Bind(p) \/ Stop(p)
    BY <2>3 DEF StartWatcher, StartApi, InitQos, Bind, Stop
  <2> QED  BY <2>1, <2>2, <2>3
<1>3. ASSUME NEW c \in PCs, Go(p, c),
             \/ c \in {"off", "panicked", "acl", "tls", "store", "preflight"}
             \/ /\ c \in {"watcher", "api", "qos", "bind", "serving", "shutdown"}
                /\ ~wants_store(proc[p].config) \/ StoreUser(p)
      PROVE  StoreInv'
  <2>1. /\ proc'[p].pc = c /\ \A q \in Procs \ {p} : proc'[q] = proc[q]
        /\ c \notin {"off", "panicked"} => proc'[p].config = proc[p].config
        /\ proc'[p].aside = FALSE \/ proc'[p].aside = proc[p].aside
    BY <1>0, <1>3, GoMoves
  <2>2. ~proc[p].aside
    BY <1>0, <1>1 DEF StoreOk
  <2>3. StoreOk(p)'
    BY <1>0, <1>1, <1>3, <2>1, <2>2 DEF StoreOk, StoreUser
  <2> QED  BY <1>0, <1>1, <2>1, <2>3, StoreMove
<1>4. CASE Go(p, "off") \/ Go(p, "panicked")
  BY <1>3, <1>4
<1>5. CASE \E c \in {"acl", "tls", "store", "preflight"} : Go(p, c)
  BY <1>3, <1>5
<1>6. CASE proc[p].pc = "store" /\ ~wants_store(Config(p)) /\ Go(p, "watcher")
  BY <1>3, <1>6 DEF Config
<1>7. CASE proc[p].pc = "sweep" /\ Go(p, "watcher")
  BY <1>3, <1>7 DEF StoreUser
<1>8. CASE /\ proc[p].pc \in {"watcher", "api", "qos", "bind", "serving"}
           /\ \E c \in {"api", "qos", "bind", "serving", "shutdown"} : Go(p, c)
  BY <1>3, <1>8 DEF StoreUser
<1> QED  BY <1>2, <1>4, <1>5, <1>6, <1>7, <1>8

\* A step of SessionStore::connect on the database: the other processes are idle,
\* and one that is exiting with the store open has its file in order.
LEMMA StoreChange ==
  ASSUME LifeInv, NEW p \in Procs, ~Idle(p), \A q \in Procs \ {p} : proc'[q] = proc[q],
         RowsInv', StoreOk(p)', db.file = "ok" => db'.file = "ok", Intact' => Intact
  PROVE  StoreInv'
<1>1. \A q \in Procs \ {p} : Idle(q) /\ StoreOk(q)
  BY DEF LifeInv, ProcInv, StoreInv
<1>2. \A q \in Procs \ {p} : StoreOk(q)'
  BY <1>1 DEF Idle, StoreOk, StoreUser
<1> QED  BY <1>1, <1>2 DEF StoreInv

\* A file is put aside if it is no database or if something could not be read.
LEMMA PutAsideMoves ==
  ASSUME proc \in ProcType, NEW p \in Procs, NEW n, PutAside(p, n)
  PROVE  /\ proc'[p].pc = "quarantine" /\ proc'[p].aside = proc[p].aside
         /\ \A q \in Procs \ {p} : proc'[q] = proc[q]
BY DEF PutAside, ProcType, ProcRecords

\* preflight_database_file puts aside what is no database, or what it cannot read.
LEMMA PreflightSafe ==
  ASSUME LifeInv, NEW p \in Procs, preflight_database_file(p)
  PROVE  StoreInv'
<1> USE DEF PCs, At
<1>0. /\ proc \in ProcType /\ StoreOk(p) /\ RowsInv /\ clock \in Seconds
  BY DEF LifeInv, ProcInv, StoreInv, RowsInv
<1>1. /\ UNCHANGED <<db, corrupt, committed, damaged, lost, clock>> /\ excuses \subseteq excuses'
      /\ proc[p].pc = "preflight"
  BY DEF preflight_database_file, UnchangedBoot, dbVars, Works, Fault, Excuse
<1>2. ~proc[p].aside
  BY <1>0, <1>1 DEF StoreOk, Idle
<1>3. CASE PutAside(p, "create") /\ (db.file # "ok" \/ "misread" \in excuses')
  <2>1. /\ proc'[p].pc = "quarantine" /\ ~proc'[p].aside
        /\ \A q \in Procs \ {p} : proc'[q] = proc[q]
    BY <1>0, <1>2, <1>3, PutAsideMoves
  <2>2. StoreOk(p)'
    BY <1>1, <1>3, <2>1 DEF StoreOk, StoreUser, Intact
  <2> QED  BY <1>0, <1>1, <2>1, <2>2, StoreMove
<1>4. CASE Go(p, "create")
  <2>1. /\ proc'[p].pc = "create" /\ ~proc'[p].aside
        /\ \A q \in Procs \ {p} : proc'[q] = proc[q]
    BY <1>0, <1>2, <1>4, GoMoves
  <2>2. StoreOk(p)'
    BY <2>1 DEF StoreOk, StoreUser
  <2> QED  BY <1>0, <1>1, <2>1, <2>2, StoreMove
<1> QED  BY <1>3, <1>4 DEF preflight_database_file, Fault, Excuse

\* quarantine_database_file moves the rows of the file, and gives up those of its log
\* and of an earlier file of the same second.
LEMMA QuarantineSafe ==
  ASSUME LifeInv, NEW p \in Procs, quarantine_database_file(p)
  PROVE  StoreInv'
<1> USE DEF PCs, At
<1>0. /\ proc \in ProcType /\ StoreOk(p) /\ RowsInv
      /\ \A q \in Procs \ {p} : StoreOk(q) /\ Idle(q)
  <2>1. proc[p].pc = "quarantine"
    BY DEF quarantine_database_file
  <2> QED  BY <2>1 DEF LifeInv, ProcInv, StoreInv, Idle
<1>1. /\ proc[p].pc = "quarantine" /\ UNCHANGED <<backup, committed, damaged, clock, excuses>>
  BY DEF quarantine_database_file, UnchangedStart, UnchangedBoot
<1>2. (db.file # "ok" \/ ~Intact) /\ ~proc[p].aside /\ (Intact' <=> Intact)
  BY <1>0, <1>1 DEF StoreOk, Idle, Intact
<1>3. CASE db.file = "absent" /\ Go(p, proc[p].next) /\ UNCHANGED <<db, corrupt, lost>>
  <2>1. proc[p].next \in {"off", "create", "preflight"}
    BY <1>0 DEF ProcType, ProcRecords
  <2>2. /\ proc'[p].pc \in {"off", "create", "preflight"} /\ ~proc'[p].aside
        /\ \A q \in Procs \ {p} : proc'[q] = proc[q]
    BY <1>0, <1>2, <1>3, <2>1, GoMoves
  <2>3. StoreOk(p)' /\ clock' \in Seconds
    BY <1>0, <1>1, <2>2 DEF StoreOk, StoreUser, RowsInv
  <2> QED  BY <1>1, <1>3, <2>2, <2>3, StoreMove
<1>4. CASE /\ corrupt' = [corrupt EXCEPT ![clock] = db.main]
           /\ lost' = lost \union db.wal \union corrupt[clock]
           /\ db' = [db EXCEPT !.file = "absent", !.main = {}]
           /\ proc' = [q \in Procs |-> IF q = p THEN [proc[p] EXCEPT !.pc = "droplog"]
                                      ELSE [proc[q] EXCEPT !.aside = Running(q)]]
  <2>1. /\ db' = [file |-> db'.file, main |-> db'.main, wal |-> db'.wal, mode |-> db'.mode]
        /\ db'.file = "absent" /\ db'.main = {} /\ db'.wal = db.wal
    BY <1>0, <1>4 DEF RowsInv
  <2>2. /\ corrupt' = [s \in Seconds |-> corrupt'[s]] /\ corrupt'[clock] = db.main
        /\ \A s \in Seconds \ {clock} : corrupt'[s] = corrupt[s]
        /\ clock \in Seconds
    BY <1>0, <1>4 DEF RowsInv
  <2>3. Intact => committed = {}
    BY <1>0, <1>2 DEF RowsInv
  <2>4. committed' \ lost'
          \subseteq db'.main \union db'.wal \union UNION {corrupt'[s] : s \in Seconds}
    <3> SUFFICES ASSUME NEW r \in committed', r \notin lost'
                 PROVE  r \in UNION {corrupt'[s] : s \in Seconds}
      OBVIOUS
    <3>1. r \in db.main \/ \E s \in Seconds : r \in corrupt[s]
      BY <1>0, <1>1, <1>4 DEF RowsInv
    <3>2. \E s \in Seconds : r \in corrupt'[s]
      BY <1>4, <2>2, <3>1
    <3> QED  BY <3>2
  <2>5. RowsInv'
    BY <1>1, <1>2, <1>4, <2>1, <2>2, <2>3, <2>4 DEF RowsInv, Files
  <2>6. /\ proc'[p].pc = "droplog" /\ ~proc'[p].aside
        /\ \A q \in Procs \ {p} : /\ proc'[q].pc = proc[q].pc /\ proc'[q].config = proc[q].config
                                  /\ proc'[q].aside = Running(q)
    BY <1>0, <1>2, <1>4 DEF ProcType, ProcRecords, Running
  <2>7. StoreOk(p)'
    BY <2>1, <2>6 DEF StoreOk, StoreUser
  <2>8. ASSUME NEW q \in Procs \ {p} PROVE StoreOk(q)'
    <3>1. StoreUser(q)' <=> StoreUser(q)
      BY <2>6, <2>8 DEF StoreUser
    <3>2. StoreUser(q) => Running(q) /\ ~Intact
      BY <1>0, <1>2, <2>8 DEF StoreOk, StoreUser, Running
    <3>3. Idle(q)' /\ Idle(q) /\ proc'[q].pc = proc[q].pc /\ proc'[q].aside = Running(q)
      BY <1>0, <2>6, <2>8 DEF Idle
    <3> QED  BY <1>2, <3>1, <3>2, <3>3 DEF StoreOk, Idle
  <2> QED  BY <2>5, <2>7, <2>8 DEF StoreInv
<1> QED  BY <1>3, <1>4 DEF quarantine_database_file

\* The log goes after its file: what was in it has been given up already.
LEMMA DropLogSafe ==
  ASSUME LifeInv, NEW p \in Procs, DropLog(p)
  PROVE  StoreInv'
<1> USE DEF PCs, At
<1>0. /\ proc \in ProcType /\ StoreOk(p) /\ RowsInv
  BY DEF LifeInv, ProcInv, StoreInv
<1>1. /\ proc[p].pc = "droplog" /\ Go(p, proc[p].next)
      /\ db' = [db EXCEPT !.wal = {}] \/ UNCHANGED db
      /\ UNCHANGED <<backup, corrupt, committed, damaged, lost, clock>>
      /\ excuses \subseteq excuses'
  BY DEF DropLog, UnchangedBoot, Works, Fault, Excuse
<1>2. /\ proc'[p].pc \in {"off", "create", "preflight"} /\ ~proc'[p].aside
      /\ \A q \in Procs \ {p} : proc'[q] = proc[q]
  <2>1. proc[p].next \in {"off", "create", "preflight"} /\ ~proc[p].aside
    BY <1>0, <1>1 DEF ProcType, ProcRecords, StoreOk, Idle
  <2> QED  BY <1>0, <1>1, <2>1, GoMoves
<1>3. db.file = "absent" /\ ~Idle(p) /\ db.wal \subseteq lost /\ (Intact' => Intact)
  BY <1>0, <1>1, IntactOnly DEF StoreOk, Idle, RowsInv
<1>4. /\ db' = [file |-> db'.file, main |-> db'.main, wal |-> db'.wal, mode |-> db'.mode]
      /\ db'.file = db.file /\ db'.main = db.main /\ db'.wal \in {{}, db.wal}
  BY <1>0, <1>1 DEF RowsInv
<1>5. RowsInv'
  BY <1>0, <1>1, <1>3, <1>4 DEF RowsInv
<1>6. StoreOk(p)'
  BY <1>2 DEF StoreOk, StoreUser
<1> QED  BY <1>2, <1>3, <1>5, <1>6, StoreChange

\* File::create only where there is no file, and the copy of what is there.
LEMMA CreateSafe ==
  ASSUME LifeInv, NEW p \in Procs, CreateFile(p) \/ create_database_backup(p)
  PROVE  StoreInv'
<1> USE DEF PCs, At
<1>0. /\ proc \in ProcType /\ StoreOk(p) /\ RowsInv
      /\ \A q \in Procs \ {p} : StoreOk(q)
  BY DEF LifeInv, ProcInv, StoreInv
<1>1. /\ proc[p].pc \in {"create", "backup"} /\ ~Idle(p)
      /\ Go(p, IF proc[p].pc = "create" THEN "backup" ELSE "open")
      /\ UNCHANGED <<corrupt, committed, damaged, lost, clock, excuses>>
      /\ \/ UNCHANGED db /\ db.file # "absent"
         \/ db.file = "absent" /\ db' = [db EXCEPT !.file = "empty", !.mode = "delete"]
  <2>1. proc[p].pc = "backup" => db.file # "absent"
    BY <1>0 DEF StoreOk
  <2> QED  BY <2>1 DEF CreateFile, create_database_backup, UnchangedStart, UnchangedBoot, Idle
<1>2. /\ proc'[p].pc \in {"backup", "open"} /\ \A q \in Procs \ {p} : proc'[q] = proc[q]
      /\ ~proc'[p].aside /\ (Intact' <=> Intact)
  <2>1. ~proc[p].aside
    BY <1>0, <1>1 DEF StoreOk
  <2> QED  BY <1>0, <1>1, <2>1, GoMoves DEF Intact
<1>3. CASE UNCHANGED db /\ db.file # "absent"
  <2>1. RowsInv' /\ StoreOk(p)'
    BY <1>0, <1>1, <1>2, <1>3 DEF RowsInv, StoreOk, StoreUser
  <2> QED  BY <1>1, <1>2, <1>3, <2>1, StoreChange
<1>4. CASE db.file = "absent" /\ db' = [db EXCEPT !.file = "empty", !.mode = "delete"]
  <2>1. /\ db' = [file |-> db'.file, main |-> db'.main, wal |-> db'.wal, mode |-> db'.mode]
        /\ db'.file = "empty" /\ db'.main = db.main /\ db'.wal = db.wal
    BY <1>0, <1>4 DEF RowsInv
  <2>2. RowsInv'
    BY <1>0, <1>1, <1>2, <1>4, <2>1 DEF RowsInv, Files
  <2>3. StoreOk(p)'
    BY <1>2, <2>1 DEF StoreOk, StoreUser
  <2> QED  BY <1>1, <1>2, <1>4, <2>2, <2>3, StoreChange
<1> QED  BY <1>1, <1>3, <1>4

\* The pool connects: an empty file becomes a database without rows.
LEMMA OpenSafe ==
  ASSUME LifeInv, NEW p \in Procs, Open(p)
  PROVE  StoreInv'
<1> USE DEF PCs, At
<1>0. /\ proc \in ProcType /\ StoreOk(p) /\ RowsInv
      /\ \A q \in Procs \ {p} : StoreOk(q)
  BY DEF LifeInv, ProcInv, StoreInv
<1>1. /\ proc[p].pc = "open" /\ ~Idle(p) /\ db.file # "absent" /\ ~proc[p].aside
      /\ UNCHANGED <<backup, corrupt, committed, damaged, lost, clock, excuses>>
      /\ (Intact' <=> Intact)
  BY <1>0 DEF Open, UnchangedStart, UnchangedBoot, Idle, StoreOk, Intact
<1>2. CASE Go(p, "off") /\ UNCHANGED db
  BY <1>1, <1>2, StoreEnds
<1>3. CASE /\ db' = IF db.file = "empty" THEN [db EXCEPT !.file = "ok", !.wal = {}] ELSE db
           /\ Go(p, "journal")
  <2>1. /\ proc'[p].pc = "journal" /\ ~proc'[p].aside
        /\ \A q \in Procs \ {p} : proc'[q] = proc[q]
    BY <1>0, <1>1, <1>3, GoMoves
  <2>2. CASE db.file # "empty"
    <3>1. RowsInv' /\ StoreOk(p)'
      BY <1>0, <1>1, <1>3, <2>1, <2>2 DEF RowsInv, StoreOk, StoreUser
    <3> QED  BY <1>1, <1>3, <2>1, <2>2, <3>1, StoreChange
  <2>3. CASE db.file = "empty"
    <3>1. /\ db' = [file |-> db'.file, main |-> db'.main, wal |-> db'.wal, mode |-> db'.mode]
          /\ db'.file = "ok" /\ db'.main = db.main /\ db'.wal = {}
      BY <1>0, <1>3, <2>3 DEF RowsInv
    <3>2. RowsInv'
      BY <1>0, <1>1, <2>3, <3>1 DEF RowsInv, Files
    <3>3. StoreOk(p)'
      BY <2>1, <3>1 DEF StoreOk, StoreUser
    <3> QED  BY <1>1, <2>1, <3>1, <3>2, <3>3, StoreChange
  <2> QED  BY <2>2, <2>3
<1> QED  BY <1>2, <1>3 DEF Open

\* The log may move into the file, or not.
LEMMA LogMoves ==
  ASSUME RowsInv, UNCHANGED <<corrupt, committed, damaged, lost, clock>>, Intact' => Intact,
         db.file \notin {"absent", "empty"},
         \/ UNCHANGED db
         \/ db' = [db EXCEPT !.mode = "wal"]
         \/ db' = [db EXCEPT !.main = @ \union db.wal, !.wal = {}]
         \/ db' = [db EXCEPT !.mode = "delete", !.main = @ \union db.wal, !.wal = {}]
  PROVE  RowsInv' /\ db'.file = db.file
<1>1. /\ db' = [file |-> db'.file, main |-> db'.main, wal |-> db'.wal, mode |-> db'.mode]
      /\ db'.file = db.file
      /\ \/ db'.main = db.main /\ db'.wal = db.wal
         \/ db'.main = db.main \union db.wal /\ db'.wal = {}
  BY DEF RowsInv
<1>2. db'.main \union db'.wal = db.main \union db.wal
  BY <1>1
<1> QED  BY <1>1, <1>2 DEF RowsInv

\* configure_journal_mode and verify_integrity, which may send the file aside once.
LEMMA VerifySafe ==
  ASSUME LifeInv, NEW p \in Procs, configure_journal_mode(p) \/ verify_integrity(p)
  PROVE  StoreInv'
<1> USE DEF PCs, At
<1>0. /\ proc \in ProcType /\ StoreOk(p) /\ RowsInv
      /\ \A q \in Procs \ {p} : StoreOk(q)
  BY DEF LifeInv, ProcInv, StoreInv
<1>1. /\ proc[p].pc \in {"journal", "verify"} /\ ~Idle(p) /\ db.file \notin {"absent", "empty"}
      /\ UNCHANGED <<backup, corrupt, committed, damaged, lost, clock>>
      /\ excuses \subseteq excuses' /\ ~proc[p].aside
  BY <1>0 DEF configure_journal_mode, verify_integrity, UnchangedBoot, Works, Fault, Excuse, Idle,
              StoreOk
<1>5. Intact' => Intact
  BY <1>1, IntactOnly
<1>2. RowsInv' /\ db'.file = db.file
  <2>1. \/ UNCHANGED db
        \/ db' = [db EXCEPT !.mode = "wal"]
        \/ db' = [db EXCEPT !.main = @ \union db.wal, !.wal = {}]
        \/ db' = [db EXCEPT !.mode = "delete", !.main = @ \union db.wal, !.wal = {}]
    BY DEF configure_journal_mode, verify_integrity
  <2> QED  BY <1>0, <1>1, <1>5, <2>1, LogMoves
<1>3. /\ \/ proc'[p].pc \in {"verify", "off"}
         \/ proc'[p].pc = "sweep" /\ db.file = "ok"
         \/ proc'[p].pc = "quarantine" /\ (db.file # "ok" \/ "misread" \in excuses')
      /\ ~proc'[p].aside
      /\ \A q \in Procs \ {p} : proc'[q] = proc[q]
  <2>1. CASE Go(p, "verify") \/ Go(p, "off") \/ (Go(p, "sweep") /\ db.file = "ok")
    BY <1>0, <1>1, <2>1, GoMoves
  <2>2. CASE PutAside(p, "preflight") /\ (db.file # "ok" \/ "misread" \in excuses')
    BY <1>0, <1>1, <2>2, PutAsideMoves
  <2> QED  BY <2>1, <2>2 DEF configure_journal_mode, verify_integrity, Fault, Excuse
<1>4. StoreOk(p)'
  BY <1>1, <1>2, <1>3 DEF StoreOk, StoreUser, Intact
<1> QED  BY <1>1, <1>2, <1>3, <1>4, <1>5, StoreChange

\* The batch writer commits only to a file that is in order, or to one that was put
\* aside, and then the row is known to be lost.
LEMMA CommitSafe ==
  ASSUME LifeInv, NEW p \in Procs, Commit(p) \/ Checkpoint(p)
  PROVE  StoreInv'
<1> USE DEF PCs, At
<1>0. /\ proc \in ProcType /\ StoreOk(p) /\ RowsInv
      /\ \A q \in Procs \ {p} : StoreOk(q)
  BY DEF LifeInv, ProcInv, StoreInv
<1>1. /\ UNCHANGED <<proc, corrupt, damaged, clock, excuses>> /\ StoreUser(p)
      /\ (Intact' <=> Intact)
  BY <1>0 DEF Commit, Checkpoint, StoreOpen, StoreUser, Config, Intact
<1>2. RowsInv' /\ db'.file = db.file
  <2>1. CASE Checkpoint(p)
    <3>1. /\ UNCHANGED <<committed, lost>> /\ db' = [db EXCEPT !.main = @ \union db.wal, !.wal = {}]
          /\ ~proc[p].aside
      BY <2>1 DEF Checkpoint
    <3>2. db.file = "ok"
      BY <1>0, <1>1, <3>1 DEF StoreOk
    <3> QED  BY <1>0, <1>1, <3>1, <3>2, LogMoves
  <2>2. CASE Commit(p)
    <3>1. PICK row :
            /\ committed' = committed \union {row}
            /\ \/ proc[p].aside /\ lost' = lost \union {row} /\ UNCHANGED db
               \/ /\ ~proc[p].aside /\ UNCHANGED lost
                  /\ db' = IF db.mode = "wal" THEN [db EXCEPT !.wal = @ \union {row}]
                           ELSE [db EXCEPT !.main = @ \union {row}]
      BY <2>2 DEF Commit
    <3>2. CASE proc[p].aside /\ lost' = lost \union {row} /\ UNCHANGED db
      <4>1. ~Intact
        BY <1>0, <1>1, <3>2 DEF StoreOk
      <4> QED  BY <1>0, <1>1, <3>1, <3>2, <4>1 DEF RowsInv
    <3>3. CASE /\ ~proc[p].aside /\ UNCHANGED lost
               /\ db' = IF db.mode = "wal" THEN [db EXCEPT !.wal = @ \union {row}]
                        ELSE [db EXCEPT !.main = @ \union {row}]
      <4>1. db.file = "ok"
        BY <1>0, <1>1, <3>3 DEF StoreOk
      <4>2. /\ db' = [file |-> db'.file, main |-> db'.main, wal |-> db'.wal, mode |-> db'.mode]
            /\ db'.file = "ok"
            /\ \/ db'.main = db.main /\ db'.wal = db.wal \union {row}
               \/ db'.main = db.main \union {row} /\ db'.wal = db.wal
        BY <1>0, <3>3, <4>1 DEF RowsInv
      <4>3. db'.main \union db'.wal = db.main \union db.wal \union {row}
        BY <4>2
      <4> QED  BY <1>0, <1>1, <3>1, <3>3, <4>1, <4>2, <4>3 DEF RowsInv
    <3> QED  BY <3>1, <3>2, <3>3
  <2> QED  BY <2>1, <2>2
<1>3. \A q \in Procs : StoreOk(q)'
  BY <1>0, <1>1, <1>2 DEF StoreOk, StoreUser, Idle
<1> QED  BY <1>2, <1>3 DEF StoreInv

\* Every step keeps what is known of the database.
LEMMA StoreStep == ASSUME LifeInv, [Next]_vars PROVE StoreInv'
<1> USE DEF PCs, At
<1>0. /\ proc \in ProcType /\ clock \in Seconds /\ RowsInv
      /\ \A q \in Procs : StoreOk(q)
  BY DEF LifeInv, ProcInv, StoreInv, RowsInv
<1>1. ASSUME UNCHANGED <<db, corrupt, committed, damaged, lost>>, clock' \in Seconds,
             excuses \subseteq excuses',
             \A q \in Procs : \/ proc'[q] = proc[q]
                              \/ proc'[q].pc \in {"off", "load", "auth"} /\ ~proc'[q].aside
                              \/ /\ proc[q].pc \in {"qos", "bind", "serving", "shutdown"}
                                 /\ proc'[q].pc \in {"exiting", "leaving"}
                                 /\ proc'[q].config = proc[q].config
                                 /\ proc'[q].aside = proc[q].aside
      PROVE  StoreInv'
  <2>1. RowsInv' /\ (Intact' => Intact)
    BY <1>0, <1>1, RowsStay, IntactOnly
  <2>2. \A q \in Procs : StoreOk(q)'
    BY <1>0, <1>1, <2>1 DEF StoreOk, StoreUser, Idle
  <2> QED  BY <2>1, <2>2 DEF StoreInv
<1>2. CASE UNCHANGED <<proc, dbVars, clock>> /\ excuses \subseteq excuses'
  BY <1>0, <1>1, <1>2 DEF dbVars
<1>3. ASSUME NEW p \in Procs, Start(p) PROVE StoreInv'
  <2>1. /\ proc' = [proc EXCEPT ![p] = [Off EXCEPT !.pc = "load"]]
        /\ UNCHANGED <<dbVars, clock, excuses>>
    BY <1>3 DEF Start
  <2>2. [Off EXCEPT !.pc = "load"].pc = "load" /\ ~[Off EXCEPT !.pc = "load"].aside
    BY DEF Off
  <2> QED  BY <1>0, <1>1, <2>1, <2>2 DEF ProcType, dbVars
<1>4. ASSUME NEW p \in Procs, Load(p) PROVE StoreInv'
  <2>1. UNCHANGED <<db, corrupt, committed, damaged, lost, clock, excuses>> /\ ~proc[p].aside
    BY <1>0, <1>4 DEF Load, UnchangedStart, UnchangedBoot, dbVars, StoreOk, Idle
  <2>2. CASE Leave(p, "off")
    BY <2>1, <2>2, StoreEnds DEF Go
  <2>3. CASE ~Leave(p, "off")
    <3>1. /\ proc'[p].pc = "auth" /\ ~proc'[p].aside
          /\ \A q \in Procs \ {p} : proc'[q] = proc[q]
      BY <1>0, <1>4, <2>1, <2>3 DEF Load, ProcType, ProcRecords
    <3> QED  BY <1>0, <1>1, <2>1, <3>1
  <2> QED  BY <2>2, <2>3
<1>5. ASSUME NEW p \in Procs, Shutdown(p) \/ Exit(p) \/ Kill(p) \/ ConnectFails(p) PROVE StoreInv'
  <2>1. /\ Go(p, "off") /\ UNCHANGED <<db, corrupt, committed, damaged, lost, clock>>
        /\ excuses \subseteq excuses'
    BY <1>5 DEF Shutdown, Exit, Kill, ConnectFails, UnchangedStart, UnchangedBoot, dbVars, Go, Fault,
                Excuse
  <2> QED  BY <2>1, StoreEnds
<1>6. ASSUME NEW p \in Procs, NEW q \in Procs, schedule_restart(p, q) PROVE StoreInv'
  <2>1. /\ UNCHANGED <<dbVars, clock, excuses>> /\ proc[q].pc = "off"
        /\ proc[p].pc \in {"qos", "bind", "serving", "shutdown"}
    BY <1>6 DEF schedule_restart, TimerRuns
  <2>2. CASE UNCHANGED proc
    BY <1>2, <2>1, <2>2
  <2>3. CASE proc' = [proc EXCEPT ![p] = Last(p), ![q] = [Off EXCEPT !.pc = "load"]]
    <3>1. [Off EXCEPT !.pc = "load"].pc = "load" /\ ~[Off EXCEPT !.pc = "load"].aside
      BY DEF Off
    <3>2. /\ proc'[q].pc = "load" /\ ~proc'[q].aside /\ proc'[p].pc \in {"exiting", "leaving"}
          /\ proc'[p].config = proc[p].config /\ proc'[p].aside = proc[p].aside
          /\ \A r \in Procs \ {p, q} : proc'[r] = proc[r]
      BY <1>0, <2>1, <2>3, <3>1 DEF ProcType, ProcRecords, Last
    <3> QED  BY <1>0, <1>1, <2>1, <3>2 DEF dbVars
  <2> QED  BY <1>6, <2>2, <2>3 DEF schedule_restart
<1>7. CASE PowerLoss
  <2>1. /\ \A p \in Procs : proc'[p].pc = "off" /\ ~proc'[p].aside
        /\ UNCHANGED <<backup, corrupt, committed, lost, clock>>
    BY <1>7 DEF PowerLoss, Off
  <2>2. \A p \in Procs : StoreOk(p)'
    BY <2>1 DEF StoreOk, StoreUser
  <2>5. excuses \subseteq excuses'
    BY <1>7 DEF PowerLoss
  <2>3. CASE UNCHANGED <<db, damaged>>
    <3>1. RowsInv'
      BY <1>0, <2>1, <2>3, <2>5, RowsStay
    <3> QED  BY <2>2, <3>1 DEF StoreInv
  <2>4. ASSUME NEW f \in {"badheader", "badpages"}, damaged' = TRUE, db.file = "ok",
               db' = [db EXCEPT !.file = f]
        PROVE  StoreInv'
    <3>1. /\ db' = [file |-> db'.file, main |-> db'.main, wal |-> db'.wal, mode |-> db'.mode]
          /\ db'.file = f /\ db'.main = db.main /\ db'.wal = db.wal
      BY <1>0, <2>4 DEF RowsInv
    <3>2. RowsInv'
      BY <1>0, <2>1, <2>4, <3>1 DEF RowsInv, Files, Intact
    <3> QED  BY <2>2, <3>2 DEF StoreInv
  <2> QED  BY <1>7, <2>3, <2>4 DEF PowerLoss
<1>8. CASE Tick
  <2>1. UNCHANGED <<proc, dbVars, excuses>> /\ clock' \in Seconds
    BY <1>0, <1>8, BoundsAssumption DEF Tick, Seconds
  <2> QED  BY <1>1, <2>1 DEF dbVars
<1>9. ASSUME NEW h \in Handlers, WriteStep(h) \/ WriteFails(h) PROVE StoreInv'
  <2>1. UNCHANGED <<proc, dbVars, clock>>
    BY <1>9 DEF WriteStep, WriteFails, CreateTemp, FillTemp, Rename, RemoveOld, RenameAgain,
                UnchangedRequest
  <2>2. excuses \subseteq excuses'
    BY <1>9 DEF WriteStep, WriteFails, CreateTemp, FillTemp, Rename, RemoveOld, RenameAgain, Fault,
                Excuse
  <2> QED  BY <1>2, <2>1, <2>2
<1>10. ASSUME NEW h \in Handlers, NEW p \in Procs,
              update_config_file(h, p) \/ update_runtime_config(h, p)
       PROVE  StoreInv'
  BY <1>2, <1>10 DEF update_config_file, update_runtime_config, Accept, UnchangedRequest
<1>11. CASE UNCHANGED vars
  BY <1>2, <1>11 DEF vars
<1>12. ASSUME NEW p \in Procs, StartStep(p) PROVE StoreInv'
  BY <1>4, <1>12, StoreOutside, PreflightSafe, QuarantineSafe, DropLogSafe, CreateSafe, OpenSafe,
     VerifySafe DEF StartStep
<1> QED
    BY <1>3, <1>5, <1>6, <1>7, <1>8, <1>9, <1>10, <1>11, <1>12, StoreOutside, CommitSafe
    DEF Next

-----------------------------------------------------------------------------
(* The invariant and the properties                                        *)

\* It holds before the first process is started.
LEMMA InitInv == ASSUME Init PROVE LifeInv
<1>0. /\ setting \in Settings /\ conf \in Configs \union {NoFile, Torn} /\ disk = {conf}
  BY DocumentsAssumption DEF Init
<1>1. /\ Off \in ProcRecords /\ ~Off.aside
      /\ Off.pc = "off" /\ Off.config = default_config
  BY DefaultSound DEF Off, PCs, ProcRecords
<1>2. proc \in ProcType /\ \A p \in Procs : proc[p] = Off
  BY <1>1 DEF Init, ProcType
<1>3. ProcInv
  BY <1>0, <1>1, <1>2, DefaultSound DEF ProcInv, Idle
<1>4. req \in ReqType /\ \A h \in Handlers : req[h] = Quiet
  BY QuietIdle DEF Init, ReqType
<1>5. clock \in Seconds
  BY BoundsAssumption DEF Init, Seconds
<1>6. WriteInv
  <2>1. FileTypes
    BY <1>0, <1>4, <1>5, QuietIdle DEF FileTypes, Init
  <2>2. OrderInv
    BY <1>4, QuietIdle DEF OrderInv, OwnFile, Apart, Init
  <2> QED  BY <2>1, <2>2 DEF WriteInv
<1>7. RowsInv
  <2>1. /\ db = [file |-> db.file, main |-> db.main, wal |-> db.wal, mode |-> db.mode]
        /\ db.file = "absent" /\ db.main = {} /\ db.wal = {}
    BY DEF Init, NoDatabase
  <2> QED  BY <1>5, <2>1 DEF RowsInv, Files, Init
<1>8. \A p \in Procs : StoreOk(p)
  BY <1>1, <1>2 DEF StoreOk, StoreUser
<1> QED  BY <1>3, <1>6, <1>7, <1>8 DEF LifeInv, StoreInv

\* The inductive invariant of the server's processes, its database and its files.
THEOREM LifeAlways == Spec => []LifeInv
<1>1. Init => LifeInv
  BY InitInv
<1>2. LifeInv /\ [Next]_vars => LifeInv'
  BY ProcStep, StoreStep, WriteStepSafe DEF LifeInv
<1> QED  BY <1>1, <1>2, PTL DEF Spec

\* Whatever the documents and the command line, no expect("validated: ...") of
\* SocksServer::new fails and the metrics interval is never zero (listener.rs:54).
THEOREM NeverPanics == Spec => []NoPanic
<1>1. LifeInv => NoPanic
  BY DEF LifeInv, ProcInv, NoPanic, At
<1> QED  BY <1>1, LifeAlways, PTL

\* Whatever crashes, restarts and failures separate the steps of connect_attempt and
\* of write_to_file, a database that was never damaged nor misread keeps every
\* committed row, any other leaves them in a copy unless they were in a log or a file
\* that is known to be given up, and the configuration file stays a document the next
\* start accepts unless a rename failed, two handlers clashed or a power loss tore it.
THEOREM FilesAlwaysKept == Spec => []FilesKept
<1>1. LifeInv => DatabaseKept
  <2> SUFFICES ASSUME LifeInv PROVE DatabaseKept
    OBVIOUS
  <2>1. UNION {corrupt[s] : s \in Seconds} \subseteq Copies
    BY DEF Copies
  <2>2. Intact => committed \subseteq db.main \union db.wal
    BY DEF LifeInv, StoreInv, RowsInv
  <2>3. committed \ lost \subseteq db.main \union db.wal \union Copies
    BY <2>1 DEF LifeInv, StoreInv, RowsInv
  <2> QED  BY <2>2, <2>3 DEF Intact, DatabaseKept
<1>2. LifeInv => ConfigKept
  BY DEF LifeInv, WriteInv, Undisturbed, OrderInv, Usable, ConfigKept
<1>3. LifeInv => FilesKept
  BY <1>1, <1>2 DEF FilesKept
<1> QED  BY <1>3, LifeAlways, PTL

=============================================================================
