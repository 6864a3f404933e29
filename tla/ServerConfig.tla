---------------------------- MODULE ServerConfig ----------------------------
(***************************************************************************)
(* The configuration document (config/mod.rs): its sections, what          *)
(* Config::validate accepts, Config::default(), and how a runtime update   *)
(* of the management API is laid over a configuration.                     *)
(*                                                                         *)
(* A text setting is "none" (absent), "blank" (only white space), "bad"    *)
(* (not of the form required) or "set"; a base path is also "raw"          *)
(* (acceptable, not normalised).  Settings that no check and no start-up   *)
(* step looks at (logging, telemetry, pool sizes, limits) are left out.    *)
(***************************************************************************)
EXTENDS Naturals, Sequences

Methods == {"none", "userpass", "pam.address", "pam.username"}
ClientMethods == {"none", "pam.address"}
SqlStorage == {"sqlite", "mariadb", "mysql"}

\* The sections of a document that was parsed; whether their values make sense is
\* for validate to say.
Texts == {"none", "blank", "bad", "set"}
AuthSections == [client : Methods \union {"gssapi", "bad"},
                 socks : Methods \union {"gssapi", "bad"},
                 users : Nat, usernameService : Texts, addressService : Texts]
TlsSections == [enabled : BOOLEAN, certificate : Texts, key : Texts, keyPassword : BOOLEAN,
                clientAuth : BOOLEAN, ca : Texts, minVersion : Texts]
AclSections == [enabled : BOOLEAN, file : Texts, watch : BOOLEAN]
QosSections == [enabled : BOOLEAN, algorithm : {"htb", "bad"}]
Binds == {"literal", "name"}
ServerSections == [bind : Binds, api : BOOLEAN, apiAddress : Texts]
SessionSections == [enabled : BOOLEAN, storage : SqlStorage \union {"memory", "bad"}, url : Texts,
                    cleanupHours : Nat, packetInterval : Nat, windowHours : Nat,
                    basePath : Texts \union {"raw"}]
DashboardSections == [enabled : BOOLEAN, users : Seq(Texts)]
MetricsSections == [enabled : BOOLEAN, storage : {"memory", "sqlite", "bad"},
                    cleanupHours : Nat, collectionSecs : Nat]
Configs == [auth : AuthSections, tls : TlsSections, acl : AclSections, qos : QosSections,
            server : ServerSections, sessions : SessionSections, dashboard : DashboardSections,
            metrics : MetricsSections]

Present(text) == text \notin {"none", "blank"}

auth_valid(a) ==
  /\ a.client \in ClientMethods
  /\ a.socks \in Methods
  /\ a.socks = "userpass" => a.users > 0
  /\ a.socks = "pam.username" => Present(a.usernameService)
  /\ "pam.address" \in {a.socks, a.client} => Present(a.addressService)

tls_valid(t) ==
  t.enabled => /\ Present(t.certificate) /\ Present(t.key)
               /\ t.clientAuth => Present(t.ca)
               /\ t.minVersion \in {"none", "set"}

acl_valid(a) == a.enabled => Present(a.file)

sessions_valid(s) ==
  /\ s.storage \in SqlStorage \union {"memory"}
  /\ s.enabled /\ s.storage \in SqlStorage => s.url # "none"
  /\ s.cleanupHours > 0 /\ s.packetInterval > 0 /\ s.windowHours > 0
  /\ s.basePath \notin {"blank", "bad"}

server_valid(s) == s.bind # "name" /\ (s.api => s.apiAddress \notin {"blank", "bad"})

dashboard_valid(d) ==
  d.enabled => d.users # << >> /\ \A i \in DOMAIN d.users : d.users[i] # "blank"

metrics_valid(m) == m.storage \in {"memory", "sqlite"} /\ m.cleanupHours > 0 /\ m.collectionSecs > 0

\* Mutant of validate: the metrics section is not checked.
validate_unmetered(c) ==
  /\ auth_valid(c.auth) /\ tls_valid(c.tls) /\ acl_valid(c.acl) /\ sessions_valid(c.sessions)
  /\ server_valid(c.server) /\ dashboard_valid(c.dashboard)

\* Config::validate, also behind validate_effective.
validate(c) ==
  /\ auth_valid(c.auth) /\ tls_valid(c.tls) /\ acl_valid(c.acl) /\ sessions_valid(c.sessions)
  /\ server_valid(c.server) /\ dashboard_valid(c.dashboard) /\ metrics_valid(c.metrics)

\* Config::default(), which main uses when it is given no file.
default_config ==
  [auth |-> [client |-> "none", socks |-> "none", users |-> 0,
             usernameService |-> "set", addressService |-> "set"],
   tls |-> [enabled |-> FALSE, certificate |-> "none", key |-> "none", keyPassword |-> FALSE,
            clientAuth |-> FALSE, ca |-> "none", minVersion |-> "none"],
   acl |-> [enabled |-> FALSE, file |-> "none", watch |-> FALSE],
   qos |-> [enabled |-> FALSE, algorithm |-> "htb"],
   server |-> [bind |-> "literal", api |-> FALSE, apiAddress |-> "set"],
   sessions |-> [enabled |-> FALSE, storage |-> "memory", url |-> "none", cleanupHours |-> 24,
                 packetInterval |-> 10, windowHours |-> 24, basePath |-> "set"],
   dashboard |-> [enabled |-> FALSE, users |-> << >>],
   metrics |-> [enabled |-> TRUE, storage |-> "memory", cleanupHours |-> 6, collectionSecs |-> 5]]

\* The sections a runtime update carries replace those of the configuration the
\* process started with; the others stay what they were then.
normalized_base_path(b) == IF b \in {"blank", "raw"} THEN "set" ELSE b
normalize(c) == [c EXCEPT !.sessions.basePath = normalized_base_path(@)]
apply_runtime(snapshot, update) ==
  normalize([snapshot EXCEPT !.server = update.server, !.sessions = update.sessions,
                             !.metrics = update.metrics])

\* main's --bind is laid over the configuration after it was validated.
apply_override(c, bind) == IF bind = "none" THEN c ELSE [c EXCEPT !.server.bind = bind]

\* SocksServer::new asks for a store.
wants_store(c) == c.sessions.enabled /\ c.sessions.storage \in SqlStorage
=============================================================================
