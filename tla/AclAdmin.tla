------------------------------ MODULE AclAdmin ------------------------------
(***************************************************************************)
(* Changing the ACL of a running server: the endpoints of                  *)
(* api/handlers/acl_management.rs, which load the file, edit it            *)
(* (acl/crud.rs), save it (acl/persistence.rs) and reload the engine; the  *)
(* hot-reload tasks of acl/watcher.rs, which compare the file's            *)
(* fingerprint with the one they stored and load what they find; and an    *)
(* administrator who edits the file by hand.                               *)
(*                                                                         *)
(* The actors are the clients (one API request each at a time), the        *)
(* watcher's event task and poll task, and the administrator.  A step is   *)
(* one file operation, one critical section or one swap of the engine's    *)
(* configuration: the requests hold no lock across them.                   *)
(*                                                                         *)
(* The fingerprint (modification time, length) is a stamp that every write *)
(* of the file renews; a rename keeps the stamp of the temporary file.     *)
(* Writing a file truncates it in one step and fills it in another, and    *)
(* what is written goes to the file that was opened, whatever it is called *)
(* by then.  A text that is cut off or mixed with another either does not  *)
(* parse or is taken to be empty.                                          *)
(***************************************************************************)
EXTENDS AclCrud

CONSTANTS
  Clients,     \* API requests served at the same time
  Watchers,    \* the tasks of AclWatcher::start that run maybe_reload
  Users, Groups, Rules, \* the names and the rules requests are made of
  Files,       \* what the administrator may write
  InitialFile, \* the configuration the server was started with
  MaxEdits,    \* bound: API requests
  MaxWrites,   \* bound: edits by hand
  MaxFaults,   \* bound: file operations that fail
  MaxClock,    \* bound: seconds that pass, for the names of temporary files
  Unreadable,  \* the data of a file that does not parse
  NoFile,      \* the data of a file that does not exist
  Queries,     \* connections the decisions are compared on
  LdapGroups   \* lists of groups the system may report for a user

\* What an empty file parses to.
EmptyConfig == [default_policy |-> "block", users |-> <<>>, groups |-> <<>>]

ASSUME InitialFileAssumption ==
  InitialFile \in AclConfigs /\ Validate(InitialFile) /\ Compiles(InitialFile)

\* Requests and edits by hand are made of texts that parse, or of one that does not.
ASSUME DataAssumption ==
  /\ Users \subseteq STRING /\ Groups \subseteq STRING /\ LdapGroups \subseteq Seq(STRING)
  /\ Rules \subseteq AclRules /\ Queries \subseteq AclQueries
  /\ Files \subseteq AclConfigs \union {Unreadable}
  /\ Unreadable \notin AclConfigs
  /\ NoFile \notin AclConfigs \union {Unreadable}
                   \union [data : AclConfigs \union {Unreadable}, stamp : Nat]

ASSUME BoundsAssumption ==
  MaxEdits \in Nat /\ MaxWrites \in Nat /\ MaxFaults \in Nat /\ MaxClock \in Nat

VARIABLES
  file,      \* [data, stamp]: the ACL file
  backup,    \* the data of the .backup file, or NoFile
  temp,      \* second -> [data, stamp] of the .tmp file named after it, or NoFile
  engine,    \* the configuration AclEngine evaluates with
  enforced,  \* the configuration the last enforce_acl was started for
  req,       \* client -> its request
  watch,     \* watcher task -> its maybe_reload
  stored,    \* last_fingerprint
  clock, nextStamp, edits, writes, faults,
  raced      \* history: a stale configuration was installed behind the watcher's back

vars == <<file, backup, temp, engine, enforced, req, watch, stored,
          clock, nextStamp, edits, writes, faults, raced>>

\* A request: the configuration it edited, the one it found, the second that
\* names its temporary file, what the file it has open for writing is by now
\* (that temporary file, the ACL file, one without a name) and, as history,
\* whether nothing overlapped it.
Idle == [pc |-> "idle", config |-> EmptyConfig, found |-> EmptyConfig,
         second |-> 0, fd |-> "none", alone |-> TRUE]

Init ==
  /\ file = [data |-> InitialFile, stamp |-> 0]
  /\ backup = NoFile
  /\ temp = [s \in 0..MaxClock |-> NoFile]
  /\ engine = InitialFile
  /\ enforced = InitialFile
  /\ req = [c \in Clients |-> Idle]
  /\ watch = [w \in Watchers |-> [pc |-> "idle", fp |-> 0, config |-> Unreadable]]
  /\ stored = 0
  /\ clock = 0 /\ nextStamp = 1 /\ edits = 0 /\ writes = 0 /\ faults = 0
  /\ raced = FALSE

\* persistence::load_config and loader::load_acl_config_sync.
Loads(data) == IF data = Unreadable THEN FALSE ELSE Validate(data)

\* What the engine would take.
Usable(data) == Loads(data) /\ Compiles(data)

Serving == {c \in Clients : req[c].pc # "idle"}

\* Requests that overlap another one, or an edit by hand, no longer run alone.
Crowd(r, except) == [c \in Clients |-> IF c = except THEN r[c] ELSE [r[c] EXCEPT !.alone = FALSE]]

\* A stale configuration stays in the engine when nothing will look at the
\* file again: the watcher has stored its present stamp, or is about to.
AboutToStore(w) == watch[w].pc = "store" /\ watch[w].fp = file.stamp

-----------------------------------------------------------------------------
(* The endpoints.  Each one loads the file, edits the configuration and    *)
(* hands it to save_and_reload.  A file that does not load, an edit that   *)
(* fails and a result that does not validate are answered at once and      *)
(* change nothing: such requests are no steps.                             *)

\* load_current_config, the edit and the validate of save_and_reload; `edited' is
\* what the edit makes of the file, or Failed.
Serve(c, edited) ==
  /\ req[c].pc = "idle"
  /\ edits < MaxEdits
  /\ Loads(file.data)
  /\ edited # Failed
  /\ Validate(edited)
  /\ edits' = edits + 1
  /\ req' = Crowd([req EXCEPT ![c] = [Idle EXCEPT !.pc = "backup", !.config = edited,
                                                  !.found = file.data,
                                                  !.alone = (Serving = {})]], c)
  /\ UNCHANGED <<file, backup, temp, engine, enforced, watch, stored, clock, nextStamp, writes,
                 faults, raced>>

\* request_to_rule refuses a rule without destinations or without ports.
Requestable == {r \in Rules : Len(r.destinations) > 0 /\ Len(r.ports) > 0}
Identifiers == {IdentifierOf(r) : r \in Rules} \union {[IdentifierOf(r) EXCEPT !.ports = AnyPorts] : r \in Rules}

AddGroupRule(c) ==
  \E g \in Groups, r \in Requestable : Serve(c, add_group_rule(file.data, g, r))
UpdateGroupRule(c) ==
  \E g \in Groups, id \in Identifiers, r \in Requestable : Serve(c, update_group_rule(file.data, g, id, r))
DeleteGroupRule(c) ==
  \E g \in Groups, id \in Identifiers : Serve(c, delete_group_rule(file.data, g, id))
CreateGroup(c) == \E g \in Groups : Serve(c, create_group(file.data, g))
DeleteGroup(c) == \E g \in Groups : Serve(c, delete_group(file.data, g))
AddUserRule(c) ==
  \E u \in Users, r \in Requestable : Serve(c, add_user_rule(file.data, u, r))
UpdateUserRule(c) ==
  \E u \in Users, id \in Identifiers, r \in Requestable : Serve(c, update_user_rule(file.data, u, id, r))
DeleteUserRule(c) ==
  \E u \in Users, id \in Identifiers : Serve(c, delete_user_rule(file.data, u, id))
UpdateGlobalSettings(c) == \E p \in Actions : Serve(c, update_default_policy(file.data, p))
CreateUser(c) == \E u \in Users : Serve(c, create_user(file.data, u))
DeleteUser(c) == \E u \in Users : Serve(c, delete_user(file.data, u))
AddUserToGroup(c) ==
  \E u \in Users, g \in Groups : Serve(c, add_user_to_group(file.data, u, g))
RemoveUserFromGroup(c) ==
  \E u \in Users, g \in Groups : Serve(c, remove_user_from_group(file.data, u, g))

Endpoint(c) ==
  \/ AddGroupRule(c) \/ UpdateGroupRule(c) \/ DeleteGroupRule(c) \/ CreateGroup(c) \/ DeleteGroup(c)
  \/ AddUserRule(c) \/ UpdateUserRule(c) \/ DeleteUserRule(c) \/ UpdateGlobalSettings(c)
  \/ CreateUser(c) \/ DeleteUser(c) \/ AddUserToGroup(c) \/ RemoveUserFromGroup(c)

-----------------------------------------------------------------------------
(* save_config and the end of save_and_reload.                             *)

At(c, pc) == req[c].pc = pc
Goto(c, pc) == req' = [req EXCEPT ![c].pc = pc]
Answer(c) == req' = [req EXCEPT ![c] = Idle]

Fault == faults < MaxFaults /\ faults' = faults + 1
NoFault == UNCHANGED faults

\* The texts c can leave in its open file: its own, unless somebody else has
\* written there since it was truncated.
Holds(c) ==
  CASE req[c].fd = "temp" -> temp[req[c].second].data
    [] req[c].fd = "file" -> file.data
    [] OTHER -> EmptyConfig
Whole(c) ==
  {req[c].config} \union IF Holds(c) \in {EmptyConfig, req[c].config} THEN {} ELSE {Unreadable}
CutOff(c) == {Holds(c), Unreadable}

Written(c, data) ==
  LET new == [data |-> data, stamp |-> nextStamp]
  IN /\ temp' = IF req[c].fd = "temp" THEN [temp EXCEPT ![req[c].second] = new] ELSE temp
     /\ file' = IF req[c].fd = "file" THEN new ELSE file
     /\ nextStamp' = nextStamp + 1

\* The name of the temporary file of second s goes, by a rename onto the ACL file
\* ("file") or by a removal ("gone"): the requests that have it open keep it.
Carried(s, place) ==
  [d \in Clients |->
     [req[d] EXCEPT !.fd = CASE @ = "temp" /\ req[d].second = s -> place
                             [] @ = "file" /\ place = "file" -> "gone"
                             [] OTHER -> @]]

Discard(c, s) ==
  /\ temp' = [temp EXCEPT ![s] = NoFile]
  /\ req' = [Carried(s, "gone") EXCEPT ![c].pc = "restore"]

\* Mutant of CreateBackup: the edited configuration is backed up.
CreateBackupEdited(c) ==
  /\ At(c, "backup")
  /\ \/ NoFault /\ backup' = req[c].config /\ Goto(c, "write")
     \/ Fault /\ Answer(c) /\ backup' \in {backup, EmptyConfig, Unreadable}
  /\ UNCHANGED <<file, temp, engine, enforced, watch, stored, clock, nextStamp, edits, writes, raced>>

\* create_backup: every request uses the same backup file.  A copy that fails may
\* leave it cut off.
CreateBackup(c) ==
  /\ At(c, "backup")
  /\ \/ NoFault /\ backup' = file.data /\ Goto(c, "write")
     \/ Fault /\ Answer(c) /\ backup' \in {backup, EmptyConfig, Unreadable}
  /\ UNCHANGED <<file, temp, engine, enforced, watch, stored, clock, nextStamp, edits, writes, raced>>

\* fs::write opens and truncates the temporary file, named after the second ...
WriteTemp(c) ==
  /\ At(c, "write")
  /\ \/ /\ NoFault
        /\ temp' = [temp EXCEPT ![clock] = [data |-> EmptyConfig, stamp |-> nextStamp]]
        /\ nextStamp' = nextStamp + 1
        /\ req' = [req EXCEPT ![c].pc = "writing", ![c].second = clock, ![c].fd = "temp"]
     \/ Fault /\ Goto(c, "restore") /\ UNCHANGED <<temp, nextStamp>>
  /\ UNCHANGED <<file, backup, engine, enforced, watch, stored, clock, edits, writes, raced>>

\* ... and writes the text to it, or a part.
WriteTempEnd(c) ==
  /\ At(c, "writing")
  /\ \/ /\ NoFault
        /\ \E d \in Whole(c) : Written(c, d)
        /\ req' = [req EXCEPT ![c].pc = "read", ![c].fd = "none"]
     \/ /\ Fault
        /\ \E d \in CutOff(c) : Written(c, d)
        /\ req' = [req EXCEPT ![c].pc = "restore", ![c].fd = "none"]
  /\ UNCHANGED <<backup, engine, enforced, watch, stored, clock, edits, writes, raced>>

\* What was written is read back and parsed; it may be another request's.
ReadBack(c) ==
  LET t == temp[req[c].second]
      parses == t # NoFile /\ t.data # Unreadable
  IN /\ At(c, "read")
     /\ \/ NoFault /\ parses /\ Goto(c, "rename") /\ UNCHANGED temp
        \/ NoFault /\ ~parses /\ Discard(c, req[c].second)
        \/ Fault /\ Discard(c, req[c].second)
     /\ UNCHANGED <<file, backup, engine, enforced, watch, stored, clock, nextStamp, edits, writes, raced>>

Rename(c) ==
  LET s == req[c].second
  IN /\ At(c, "rename")
     /\ \/ /\ NoFault /\ temp[s] # NoFile
           /\ file' = temp[s]
           /\ temp' = [temp EXCEPT ![s] = NoFile]
           /\ req' = [Carried(s, "file") EXCEPT ![c].pc = "cleanup"]
        \/ NoFault /\ temp[s] = NoFile /\ Discard(c, s) /\ UNCHANGED file
        \/ Fault /\ Discard(c, s) /\ UNCHANGED file
     /\ UNCHANGED <<backup, engine, enforced, watch, stored, clock, nextStamp, edits, writes, raced>>

\* A failure to delete the backup is only logged.
Cleanup(c) ==
  /\ At(c, "cleanup")
  /\ \/ NoFault /\ backup' = NoFile
     \/ Fault /\ UNCHANGED backup
  /\ Goto(c, "reload")
  /\ UNCHANGED <<file, temp, engine, enforced, watch, stored, clock, nextStamp, edits, writes, raced>>

\* restore_backup copies onto the file: it is empty until the copy is done.  An
\* error is dropped, one to open the backup before the file was touched ...
RestoreBegin(c) ==
  /\ At(c, "restore")
  /\ \/ /\ NoFault /\ backup # NoFile
        /\ file' = [data |-> EmptyConfig, stamp |-> nextStamp]
        /\ nextStamp' = nextStamp + 1
        /\ req' = [req EXCEPT ![c].pc = "restoring", ![c].config = backup, ![c].fd = "file"]
     \/ NoFault /\ backup = NoFile /\ Answer(c) /\ UNCHANGED <<file, nextStamp>>
     \/ Fault /\ Answer(c) /\ UNCHANGED <<file, nextStamp>>
  /\ UNCHANGED <<backup, temp, engine, enforced, watch, stored, clock, edits, writes, raced>>

\* ... and one of the copy itself as well, which leaves the file cut off.
RestoreEnd(c) ==
  /\ At(c, "restoring")
  /\ \/ NoFault /\ \E d \in Whole(c) : Written(c, d)
     \/ Fault /\ \E d \in CutOff(c) : Written(c, d)
  /\ Answer(c)
  /\ UNCHANGED <<backup, engine, enforced, watch, stored, clock, edits, writes, raced>>

\* AclEngine::reload by the request: no enforce_acl follows here.
Reload(c) ==
  /\ At(c, "reload")
  /\ IF Compiles(req[c].config)
     THEN /\ engine' = req[c].config
          /\ raced' = (raced \/ (req[c].config # file.data
                                /\ (stored = file.stamp \/ \E w \in Watchers : AboutToStore(w))))
          /\ Answer(c)
     ELSE Answer(c) /\ UNCHANGED <<engine, raced>>
  /\ UNCHANGED <<file, backup, temp, enforced, watch, stored, clock, nextStamp, edits, writes, faults>>

-----------------------------------------------------------------------------
(* AclWatcher: maybe_reload, run by the event task and by the poll task.   *)

WatchAt(w, pc) == watch[w].pc = pc

\* FileFingerprint::capture.
Capture(w) ==
  /\ WatchAt(w, "idle")
  /\ watch' = [watch EXCEPT ![w] = [@ EXCEPT !.pc = "compare", !.fp = file.stamp]]
  /\ UNCHANGED <<file, backup, temp, engine, enforced, req, stored, clock, nextStamp, edits, writes, faults, raced>>

Compare(w) ==
  /\ WatchAt(w, "compare")
  /\ watch' = [watch EXCEPT ![w].pc = IF stored = watch[w].fp THEN "idle" ELSE "load"]
  /\ UNCHANGED <<file, backup, temp, engine, enforced, req, stored, clock, nextStamp, edits, writes, faults, raced>>

\* handle_reload_event, step 1: a file that does not load keeps the engine.
Load(w) ==
  /\ WatchAt(w, "load")
  /\ watch' = [watch EXCEPT ![w] = [@ EXCEPT !.pc = IF Loads(file.data) THEN "apply" ELSE "store",
                                             !.config = file.data]]
  /\ UNCHANGED <<file, backup, temp, engine, enforced, req, stored, clock, nextStamp, edits, writes, faults, raced>>

\* Mutant of Apply: the configuration is swapped in before it compiles.
ApplyUnchecked(w) ==
  /\ WatchAt(w, "apply")
  /\ engine' = watch[w].config /\ enforced' = watch[w].config
  /\ raced' = /\ watch[w].config # file.data
              /\ raced \/ \E v \in Watchers \ {w} : AboutToStore(v)
  /\ watch' = [watch EXCEPT ![w].pc = "store"]
  /\ UNCHANGED <<file, backup, temp, req, stored, clock, nextStamp, edits, writes, faults>>

\* Step 3: reload compiles and swaps, then enforce_acl is spawned.
Apply(w) ==
  /\ WatchAt(w, "apply")
  /\ IF Compiles(watch[w].config)
     THEN /\ engine' = watch[w].config
          /\ raced' = /\ watch[w].config # file.data
                      /\ raced \/ \E v \in Watchers \ {w} : AboutToStore(v)
          /\ enforced' = watch[w].config
     ELSE UNCHANGED <<engine, enforced, raced>>
  /\ watch' = [watch EXCEPT ![w].pc = "store"]
  /\ UNCHANGED <<file, backup, temp, req, stored, clock, nextStamp, edits, writes, faults>>

\* Mutant of Store: the fingerprint is captured after the file was read.
StoreLatest(w) ==
  /\ WatchAt(w, "store")
  /\ stored' = file.stamp
  /\ watch' = [watch EXCEPT ![w] = [pc |-> "idle", fp |-> 0, config |-> Unreadable]]
  /\ UNCHANGED <<file, backup, temp, engine, enforced, req, clock, nextStamp, edits, writes, faults, raced>>

\* The fingerprint stored is the one captured before the file was read.
Store(w) ==
  /\ WatchAt(w, "store")
  /\ stored' = watch[w].fp
  /\ watch' = [watch EXCEPT ![w] = [pc |-> "idle", fp |-> 0, config |-> Unreadable]]
  /\ UNCHANGED <<file, backup, temp, engine, enforced, req, clock, nextStamp, edits, writes, faults, raced>>

MaybeReload(w) == Capture(w) \/ Compare(w) \/ Load(w) \/ Apply(w) \/ Store(w)

-----------------------------------------------------------------------------
(* The surroundings.                                                       *)

EditByHand ==
  /\ writes < MaxWrites
  /\ writes' = writes + 1
  /\ \E d \in Files : file' = [data |-> d, stamp |-> nextStamp]
  /\ nextStamp' = nextStamp + 1
  /\ req' = [c \in Clients |-> [req[c] EXCEPT !.alone = FALSE]]
  /\ UNCHANGED <<backup, temp, engine, enforced, watch, stored, clock, edits, faults, raced>>

Tick ==
  /\ clock < MaxClock
  /\ clock' = clock + 1
  /\ UNCHANGED <<file, backup, temp, engine, enforced, req, watch, stored, nextStamp, edits, writes, faults, raced>>

Save(c) ==
  CreateBackup(c) \/ WriteTemp(c) \/ WriteTempEnd(c) \/ ReadBack(c) \/ Rename(c) \/ Cleanup(c)
    \/ RestoreBegin(c) \/ RestoreEnd(c) \/ Reload(c)

Next ==
  \/ \E c \in Clients : Endpoint(c) \/ Save(c)
  \/ \E w \in Watchers : MaybeReload(w)
  \/ EditByHand
  \/ Tick

Spec == Init /\ [][Next]_vars

\* The poll task runs every second and a request is a task that keeps running.
FairSpec ==
  /\ Spec
  /\ \A c \in Clients : WF_vars(Save(c))
  /\ \A w \in Watchers : WF_vars(MaybeReload(w))

-----------------------------------------------------------------------------
(* Properties.                                                             *)

\* The variables have their types, every stamp was handed out, and the engine
\* never holds a configuration that reload would have refused (engine.rs:314).
TypeOK ==
  /\ file.stamp \in 0..(nextStamp - 1) /\ stored \in 0..(nextStamp - 1)
  /\ Validate(engine) /\ Compiles(engine) /\ Validate(enforced)
  /\ backup \in {NoFile, Unreadable} \/ backup.default_policy \in Actions
  /\ \A s \in 0..MaxClock : temp[s] = NoFile \/ temp[s].stamp < nextStamp
  /\ \A c \in Clients :
       /\ req[c].pc \in {"idle", "backup", "write", "writing", "read", "rename", "cleanup", "restore", "restoring", "reload"}
       /\ req[c].alone \in BOOLEAN /\ req[c].second \in 0..MaxClock
       /\ req[c].fd = "temp" => temp[req[c].second] # NoFile
  /\ \A w \in Watchers :
       /\ watch[w].pc \in {"idle", "compare", "load", "apply", "store"}
       /\ watch[w].fp < nextStamp
  /\ clock \in 0..MaxClock /\ edits \in 0..MaxEdits /\ writes \in 0..MaxWrites /\ faults \in 0..MaxFaults
  /\ raced \in BOOLEAN

\* Nothing is in flight.
Quiet == Serving = {} /\ \A w \in Watchers : WatchAt(w, "idle")

\* The engine holds the file, unless the file cannot be used.
Current == Loads(file.data) => (Compiles(file.data) => engine = file.data)

\* Once nothing is in flight and the watcher is content with the file's
\* fingerprint, the engine evaluates with the file and the sessions were
\* re-evaluated against it.  The fingerprint is captured before the file is
\* read (watcher.rs:203), so a write in between is noticed; only a request or a
\* second task that installs what it read before the last change, after the
\* watcher looked, can leave the engine behind.
StaleOnlyByRace ==
  Quiet /\ stored = file.stamp /\ ~raced =>
    /\ Current
    /\ engine = file.data => enforced = engine

\* The two answers save_and_reload may give after the file was renamed.
Succeeds(c) == At(c, "reload") /\ Compiles(req[c].config)
Refused(c) == At(c, "reload") /\ ~Compiles(req[c].config)

\* The watcher has yet to look at the file, or the race above has happened.
Unsettled == raced \/ stored # file.stamp \/ \E w \in Watchers : ~WatchAt(w, "idle")

\* A request that no other request and no edit by hand overlapped is atomic: after
\* "ok" the file and the engine hold its edit; after an error the file is what the
\* request found and the engine holds that too once the watcher has looked
\* (persistence.rs:37-78).  Two exceptions: a rule that validate accepts and compile
\* refuses stays in the file, and when the copy of restore_backup fails as well
\* what was found is left in the backup file only.
EditAlone ==
  [][\A c \in Clients :
       req[c].pc # "idle" /\ req'[c].pc = "idle" /\ req[c].alone =>
         /\ Succeeds(c) => file'.data = req[c].config /\ engine' = req[c].config
         /\ Refused(c) => file'.data = req[c].config /\ engine' = engine
         /\ ~Succeeds(c) /\ ~Refused(c) =>
              \/ /\ file'.data = req[c].found
                 /\ Usable(req[c].found) => engine' = req[c].found \/ Unsettled'
              \/ At(c, "restoring") /\ faults' # faults /\ backup' = req[c].found]_vars

\* What persistence.rs:4-6 promises of a save, "atomic writes" and "rollback
\* capability on errors": whatever the watcher reads of the present file while a
\* request runs alone is what the request found or what it writes.
ReadersSeeWhole ==
  \A c \in Clients, w \in Watchers :
    /\ req[c].pc # "idle" /\ req[c].alone
    /\ WatchAt(w, "apply") /\ watch[w].fp = file.stamp
    => watch[w].config \in {req[c].found, req[c].config}

\* The polling fallback (watcher.rs:122): when the edits are over the engine
\* comes to hold the file and keeps it, unless the race above left it behind.
Converges == <>[](Current \/ raced)

\* The answer does not depend on the order sort_unstable_by leaves equal rules
\* in, nor on the order rules and groups were collected: it is BLOCK when a rule
\* that matches blocks, else ALLOW when one allows, else the default policy, and
\* the rule it names has the highest priority among those (engine.rs:163-208).
AnswersAreReference ==
  \A u \in Users, gs \in LdapGroups, q \in Queries :
    LET rules == collect_rules_from_groups(engine, u, gs)
    IN \A r \in evaluate_with_groups(engine, u, gs, q) :
         /\ r.decision = Reference(rules, engine.default_policy, q)
         /\ r.rule \in BestRules(rules, engine.default_policy, q)

\* No two groups of the engine differ in letter case only.
NoCaseVariants ==
  \A i, j \in DOMAIN engine.groups :
    Lower[engine.groups[i].name] = Lower[engine.groups[j].name] => i = j

\* The system reports every group the file gives the user, and perhaps others.
Reports(gs, u) ==
  \A i \in DOMAIN StaticGroups(engine, u) :
    \E j \in DOMAIN gs : Lower[gs[j]] = Lower[StaticGroups(engine, u)[i]]

\* enforce_acl (manager.rs:522) decides by the groups of the file and the stored
\* text of the destination, the handler by the reported groups and the address it
\* was sent.  For a TCP session, and groups that differ by more than letter case,
\* they agree when the reported groups are the file's and no ip was sent as a
\* name.  When more is reported, or an ip was sent as a name, which a wildcard may
\* match, a session the handler would allow is never ended by a rule, only by a
\* default policy that applies because no rule does.
PathsAgree ==
  \A u \in Users, q \in Queries :
    NoCaseVariants /\ q.protocol = "tcp" =>
      /\ (q.addr.form = "domain" => q.addr.ip = NoIp) =>
           HandlerDecisions(engine, u, StaticGroups(engine, u), q) = EnforcedDecisions(engine, u, q)
      /\ \A gs \in LdapGroups :
           /\ Reports(gs, u)
           /\ "allow" \in HandlerDecisions(engine, u, gs, q)
           /\ "block" \in EnforcedDecisions(engine, u, q)
           => /\ engine.default_policy = "block"
              /\ LET rules == collect_rules(engine, u)
                 IN \A i \in DOMAIN rules : ~RuleMatches(rules[i], StoredQuery(q))

\* What the guides say of the order (active-directory.md:1315-1318, acl.toml:137).
AnswersAsDocumented ==
  \A u \in Users, gs \in LdapGroups, q \in Queries :
    HandlerDecisions(engine, u, gs, q)
      = {Documented(collect_rules_from_groups(engine, u, gs), engine.default_policy, q)}

\* What manager.rs:518 says of a reload: enforce_acl ends the sessions "that are
\* no longer allowed".
EnforcementFollows ==
  [][\A w \in Watchers : Apply(w) =>
       \A u \in Users, gs \in LdapGroups, q \in Queries :
         /\ HandlerDecisions(engine, u, gs, q) = {"allow"}
         /\ HandlerDecisions(engine', u, gs, q) = {"block"}
         => EnforcedDecisions(engine', u, q) = {"block"}]_vars
=============================================================================
