---------------------------- MODULE MCServerLife ----------------------------
EXTENDS ServerLife

\* A server with the API and a store.
Good == [default_config EXCEPT !.server.api = TRUE, !.sessions.enabled = TRUE,
                               !.sessions.storage = "sqlite", !.sessions.url = "set"]
\* Without a store, with everything else on.
Full == [default_config EXCEPT
  !.server.api = TRUE, !.acl = [enabled |-> TRUE, file |-> "set", watch |-> TRUE],
  !.auth.socks = "pam.username", !.qos.enabled = TRUE, !.sessions.basePath = "raw",
  !.tls = [@ EXCEPT !.enabled = TRUE, !.certificate = "set", !.key = "set",
                    !.clientAuth = TRUE, !.ca = "set"]]

\* What validate lets through and start-up refuses.
Unchecked == {[Full EXCEPT !.qos.algorithm = "bad"], [Full EXCEPT !.tls.keyPassword = TRUE],
              [Good EXCEPT !.sessions.url = "bad"]}
\* What validate refuses.
Refused == {[Good EXCEPT !.sessions.url = "none"], [Good EXCEPT !.metrics.collectionSecs = 0],
            [Full EXCEPT !.tls.ca = "none"], [Full EXCEPT !.acl.file = "none"],
            [Good EXCEPT !.auth.socks = "gssapi"]}

Everything == {"auth", "acl", "tls", "watch", "wal"}
Plain == [works |-> Everything, path |-> TRUE, bind |-> "none", docs |-> {Good},
          starts |-> 2, requests |-> 0, rows |-> 0, faults |-> 0]

MCSettings ==
  \* crashes and damage around SessionStore::connect
  {[Plain EXCEPT !.starts = 4, !.rows = 2, !.faults = 3],
   [Plain EXCEPT !.works = {"auth"}, !.starts = 4, !.rows = 2, !.faults = 2]}
  \* two edits of the configuration file at once
  \union {[Plain EXCEPT !.docs = {Full} \union Refused, !.requests = 2, !.faults = 1]}
  \* restarts with every document, on several hosts
  \union {[Plain EXCEPT !.docs = {Good, Full} \union Unchecked \union Refused, !.works = w,
                        !.requests = 1, !.bind = b, !.path = f] :
            w \in {Everything, {"wal", "tls"}, {"auth", "acl"}},
            b \in {"none", "name"}, f \in BOOLEAN}
  \* a restart while rows are written
  \union {[Plain EXCEPT !.starts = 3, !.requests = 1, !.rows = 1, !.faults = 1]}
=============================================================================
