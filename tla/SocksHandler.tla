---------------------------- MODULE SocksHandler ----------------------------
(***************************************************************************)
(* One client connection from accept to its end: handle_client,            *)
(* handle_socks5 and handle_socks4 of server/handler.rs with the           *)
(* authentication of auth/, BIND (server/bind.rs) and UDP ASSOCIATE with   *)
(* its relay task (server/udp.rs).                                         *)
(*                                                                         *)
(* The actors are the handler task, the UDP relay task and the             *)
(* administrator; the client, the destinations, PAM, Kerberos, the name    *)
(* service and the other connections are the environment.  The session     *)
(* manager, the connection limits, the ACL engine and the relays of        *)
(* proxy_data appear as the calls made on them (SessionManager,            *)
(* ConnectionLimits, AclEngine and ProxyRelay model their inside).         *)
(*                                                                         *)
(* A step ends where the task waits.  A write to the client may fail.      *)
(***************************************************************************)
EXTENDS SocksAuth, Integers

CONSTANTS
  Users,       \* names a client may give
  Known,       \* the users of the userpass backend whose password is right
  Anonymous,   \* acl.anonymous_user
  GroupsOf,    \* user -> the groups the system reports
  Allowed,     \* <<user, groups, protocol>> the ACL allows
  Ports,       \* the UDP ports of the client's host
  NoPort,      \* an address without an entry in the reverse map
  MaxPackets   \* bound: datagrams the relay reads

Dests == DOMAIN Lookup
Addrs == UNION {{Lookup[d][i] : i \in DOMAIN Lookup[d]} : d \in Dests}

VARIABLES
  setup,      \* [client, socks, acl, level]: the server's configuration
  pc,         \* control of the handler
  conn,       \* what the handler knows of the connection
  candidates, \* addresses handle_connect has still to try
  replies,    \* replies the client was sent after its request
  broken,     \* history: a write to the client or local_addr failed
  silent,     \* history: the handler gave up without a reply for another reason
  session,    \* "none", "rejected", "active" or "ended"
  token,      \* the CancellationToken is cancelled
  admin,      \* terminate_session: "idle", "closing" or "done"
  held,       \* connections taken from the pool and not given back
  relay,      \* the UDP relay task: "off", "running", "stopping" or "ended"
  shutdown,   \* a message waits in the relay's broadcast channel
  route,      \* UdpSessionMap.reverse
  packets,    \* datagrams read
  asked,      \* history: <<port, address>>: the client's datagrams
  given       \* history: <<port, address>>: answers sent to the client

udpVars == <<relay, shutdown, route, packets, asked, given>>
vars == <<setup, pc, conn, candidates, replies, broken, silent, session, token, admin, held, udpVars>>

Unknown == [version |-> "none", method |-> "none", user |-> Anonymous, groups |-> {}, command |-> "none",
            dest |-> "none", counted |-> FALSE, addressOk |-> FALSE, proved |-> Anonymous, level |-> "none"]

Init ==
  /\ setup \in [client : ClientBackends, socks : SocksBackends, acl : BOOLEAN, level : ProtectionLevels]
  /\ setup.socks # "gssapi" => setup.level = "integrity"
  /\ pc = "accepted" /\ conn = Unknown /\ candidates = << >> /\ replies = << >>
  /\ broken = FALSE /\ silent = FALSE
  /\ session = "none" /\ token = FALSE /\ admin = "idle" /\ held = 0
  /\ relay = "off" /\ shutdown = FALSE /\ route = [a \in Addrs |-> NoPort]
  /\ packets = 0 /\ asked = {} /\ given = {}

-----------------------------------------------------------------------------
At(p) == pc = p
Goto(p) == pc' = p

\* Every return drops the ConnectionGuard, if the handler has come that far.
Return(c) == pc' = "done" /\ conn' = [c EXCEPT !.counted = FALSE]

\* A reply is written, or the write fails.
Write(code) == replies' = Append(replies, ReplyFor(conn.version, code)) /\ UNCHANGED broken
WriteFails  == broken' = TRUE /\ UNCHANGED replies

\* A reply after which the handler returns, whether it could be written or not.
Last(code) == Return(conn) /\ (Write(code) \/ WriteFails)

\* close_session: the caller that finds the session active ends it.
Closed == IF session = "active" THEN "ended" ELSE session

-----------------------------------------------------------------------------
(* The handshake                                                           *)

\* What PAM may say of the client's address, and of a user's password: the modules
\* of the service decide, and an error is a refusal.
authenticate_address == BOOLEAN
authenticate_username == BOOLEAN

\* authenticate_client.
AuthenticateClient ==
  /\ At("accepted")
  /\ \/ setup.client = "none" /\ Goto("version") /\ UNCHANGED conn
     \/ /\ setup.client = "pam.address"
        /\ \E ok \in authenticate_address :
             IF ok THEN Goto("version") /\ conn' = [conn EXCEPT !.addressOk = TRUE] ELSE Return(conn)
  /\ UNCHANGED <<setup, candidates, replies, broken, silent, session, token, admin, held, udpVars>>

\* The client goes away, or sends what a parser refuses: no reply.
Reading == {"version", "greeting", "credentials", "gss", "protection", "request"}
Unreadable ==
  /\ pc \in Reading
  /\ Return(conn)
  /\ UNCHANGED <<setup, candidates, replies, broken, silent, session, token, admin, held, udpVars>>

ReadVersion5 ==
  /\ At("version") /\ Goto("greeting")
  /\ conn' = [conn EXCEPT !.version = "V5"]
  /\ UNCHANGED <<setup, candidates, replies, broken, silent, session, token, admin, held, udpVars>>

\* handle_socks4 serves only a server that asks for no authentication.
ReadVersion4 ==
  LET v4 == [conn EXCEPT !.version = "V4", !.method = "NoAuth"]
  IN /\ At("version")
     /\ IF supports(setup.socks, "NoAuth")
        THEN Goto("noauth") /\ conn' = v4 /\ UNCHANGED <<replies, broken>>
        ELSE /\ Return(v4)
             /\ \/ replies' = Append(replies, "Rejected") /\ UNCHANGED broken
                \/ WriteFails
     /\ UNCHANGED <<setup, candidates, silent, session, token, admin, held, udpVars>>

\* Where authenticate starts for a method.
FirstStep(method) ==
  CASE method = "NoAuth" -> "noauth" [] method = "UserPass" -> "credentials" [] method = "Gssapi" -> "gss"

\* What parse_socks5_client_greeting returns: at least one method.
Greetings == SUBSET AuthMethods \ {{}}

\* The greeting and the server's choice, which may not reach the client.
Greeting ==
  /\ At("greeting")
  /\ \E offered \in Greetings :
       LET method == SelectMethod(setup.socks, offered)
       IN IF method = "NoAcceptable" THEN Return(conn)
          ELSE \/ Goto(FirstStep(method)) /\ conn' = [conn EXCEPT !.method = method]
               \/ Return(conn)
  /\ UNCHANGED <<setup, candidates, replies, broken, silent, session, token, admin, held, udpVars>>

\* The limits of a SOCKS5 user are checked before the request is read, the ones
\* of a SOCKS4 user after it, for the request names the user.
AfterAuth == IF conn.version = "V5" THEN "limits" ELSE "request"

\* Mutant of AuthenticateNone: the error of authenticate_address is not returned.
AuthenticateNoneAnyway ==
  /\ At("noauth")
  /\ \/ setup.socks = "none" /\ UNCHANGED conn
     \/ /\ setup.socks = "pam.address"
        /\ \E ok \in authenticate_address : conn' = [conn EXCEPT !.addressOk = @ \/ ok]
  /\ Goto(AfterAuth)
  /\ UNCHANGED <<setup, candidates, replies, broken, silent, session, token, admin, held, udpVars>>

\* authenticate with NoAuth; its arm for a method the backend does not serve is
\* never taken, for both callers asked supports first.
AuthenticateNone ==
  /\ At("noauth")
  /\ \/ setup.socks = "none" /\ Goto(AfterAuth) /\ UNCHANGED conn
     \/ /\ setup.socks = "pam.address"
        /\ \E ok \in authenticate_address :
             IF ok THEN Goto(AfterAuth) /\ conn' = [conn EXCEPT !.addressOk = TRUE] ELSE Return(conn)
  /\ UNCHANGED <<setup, candidates, replies, broken, silent, session, token, admin, held, udpVars>>

\* A user whose groups cannot be found has none.
Groups(u) == {GroupsOf[u], {}}

\* The password is looked up in the table of users, or PAM is asked.
Verdicts(u) == IF setup.socks = "userpass" THEN {u \in Known} ELSE authenticate_username

\* The credentials of the client and the verdict it is told, which may not reach it.
AuthenticateUser ==
  /\ At("credentials")
  /\ \E u \in Users, ok \in BOOLEAN :
       /\ ok \in Verdicts(u)
       /\ \/ /\ ok /\ Goto(AfterAuth)
             /\ \E gs \in Groups(u) : conn' = [conn EXCEPT !.user = u, !.proved = u, !.groups = gs]
          \/ Return(conn)
  /\ UNCHANGED <<setup, candidates, replies, broken, silent, session, token, admin, held, udpVars>>

\* A token of the client: the context needs another, is complete, or refuses it.
GssToken ==
  /\ At("gss")
  /\ \/ Goto("gss") /\ UNCHANGED conn
     \/ \E u \in Users : Goto("protection") /\ conn' = [conn EXCEPT !.proved = u]
     \/ Return(conn)
  /\ UNCHANGED <<setup, candidates, replies, broken, silent, session, token, admin, held, udpVars>>

GssProtection ==
  /\ At("protection")
  /\ \E wish \in ProtectionLevels, gs \in Groups(conn.proved) :
       conn' = [conn EXCEPT !.level = ProtectionLevel(wish, setup.level), !.user = conn.proved, !.groups = gs]
  /\ Goto(AfterAuth)
  /\ UNCHANGED <<setup, candidates, replies, broken, silent, session, token, admin, held, udpVars>>

\* check_and_inc_connection_arc; other connections may have filled the limits.
CheckLimits ==
  /\ At("limits")
  /\ \/ /\ Goto(IF conn.version = "V5" THEN "request" ELSE "acl")
        /\ conn' = [conn EXCEPT !.counted = TRUE]
        /\ UNCHANGED <<replies, broken>>
     \/ Last("ConnectionNotAllowed")
  /\ UNCHANGED <<setup, candidates, silent, session, token, admin, held, udpVars>>

\* parse_socks5_request, and parse_socks4_request whose user id is taken as it is.
Requests5 == [command : Commands, dest : Dests]
Requests4 == [command : Commands, dest : Dests, user : Users \union {Anonymous}]

ReadRequest ==
  /\ At("request")
  /\ \/ /\ conn.version = "V5" /\ Goto("acl")
        /\ \E r \in Requests5 : conn' = [conn EXCEPT !.command = r.command, !.dest = r.dest]
     \/ /\ conn.version = "V4" /\ Goto("limits")
        /\ \E r \in Requests4 : conn' = [conn EXCEPT !.command = r.command, !.dest = r.dest, !.user = r.user]
  /\ UNCHANGED <<setup, candidates, replies, broken, silent, session, token, admin, held, udpVars>>

Transport == IF conn.version = "V5" /\ conn.command = "udp" THEN "udp" ELSE "tcp"
AclAllows == ~setup.acl \/ <<conn.user, conn.groups, Transport>> \in Allowed

\* evaluate_with_groups; a blocked request is tracked and refused, a SOCKS4
\* client may only connect.
AclBlock ==
  /\ At("acl") /\ ~AclAllows
  /\ session' = "rejected"
  /\ Last("ConnectionNotAllowed")
  /\ UNCHANGED <<setup, candidates, silent, token, admin, held, udpVars>>

Dispatch ==
  /\ At("acl") /\ AclAllows
  /\ IF conn.version = "V4" /\ conn.command # "connect"
     THEN Last("CommandNotSupported")
     ELSE Goto(conn.command) /\ UNCHANGED <<conn, replies, broken>>
  /\ UNCHANGED <<setup, candidates, silent, session, token, admin, held, udpVars>>

-----------------------------------------------------------------------------
(* CONNECT                                                                 *)

Resolve ==
  LET found == Candidates(conn.version, conn.dest)
  IN /\ At("connect")
     /\ IF found = << >> THEN Last("HostUnreachable") /\ UNCHANGED candidates
        ELSE Goto("dial") /\ candidates' = found /\ UNCHANGED <<conn, replies, broken>>
     /\ UNCHANGED <<setup, silent, session, token, admin, held, udpVars>>

\* connection_pool.get for one candidate after the other.
Dial ==
  /\ At("dial")
  /\ candidates' = Tail(candidates)
  /\ \/ Goto("open") /\ held' = held + 1 /\ UNCHANGED <<conn, replies, broken>>
     \/ Len(candidates) > 1 /\ Goto("dial") /\ UNCHANGED <<conn, replies, broken, held>>
     \/ Len(candidates) = 1 /\ Last("HostUnreachable") /\ UNCHANGED held
  /\ UNCHANGED <<setup, silent, session, token, admin, udpVars>>

\* new_session_with_control, in CONNECT, in BIND and in UDP ASSOCIATE.
OpenSession ==
  /\ pc \in {"open", "bind_open", "udp"}
  /\ session' = "active"
  /\ Goto(CASE pc = "open" -> "reply" [] pc = "bind_open" -> "accept" [] pc = "udp" -> "udp_start")
  /\ UNCHANGED <<setup, conn, candidates, replies, broken, silent, token, admin, held, udpVars>>

\* local_addr and the reply.
ReplyConnect ==
  /\ At("reply")
  /\ \/ Write("Succeeded") /\ Goto("relaying") /\ UNCHANGED conn
     \/ WriteFails /\ Return(conn)
  /\ UNCHANGED <<setup, candidates, silent, session, token, admin, held, udpVars>>

\* proxy_data returns: a peer closed, an error, or the token was cancelled.
RelayingEnds ==
  /\ At("relaying") /\ Goto("settle")
  /\ UNCHANGED <<setup, conn, candidates, replies, broken, silent, session, token, admin, held, udpVars>>

\* put or release, of a connection BIND never took from the pool as well; then
\* close_session.
Settle ==
  /\ At("settle")
  /\ held' = held - 1
  /\ session' = Closed
  /\ Return(conn)
  /\ UNCHANGED <<setup, candidates, replies, broken, silent, token, admin, udpVars>>

-----------------------------------------------------------------------------
(* BIND                                                                    *)

\* The listener, then the first reply, then the session.
BindListen ==
  /\ At("bind")
  /\ \/ Write("Succeeded") /\ Goto("bind_open") /\ UNCHANGED <<conn, silent>>
     \/ WriteFails /\ Return(conn) /\ UNCHANGED silent
     \/ silent' = TRUE /\ Return(conn) /\ UNCHANGED <<replies, broken>>
  /\ UNCHANGED <<setup, candidates, session, token, admin, held, udpVars>>

BindAccept ==
  /\ At("accept")
  /\ \/ Write("Succeeded") /\ Goto("relaying") /\ UNCHANGED conn
     \/ WriteFails /\ Return(conn)
  /\ UNCHANGED <<setup, candidates, silent, session, token, admin, held, udpVars>>

\* accept fails, or BIND_ACCEPT_TIMEOUT has passed: nobody looks at the token
\* before.  The session is closed only if the reply could be written.
BindGivesUp ==
  /\ At("accept")
  /\ \/ Write("GeneralFailure") /\ session' = Closed
     \/ WriteFails /\ UNCHANGED session
  /\ Return(conn)
  /\ UNCHANGED <<setup, candidates, silent, token, admin, held, udpVars>>

-----------------------------------------------------------------------------
(* UDP ASSOCIATE: the handler                                              *)

UdpStart ==
  /\ At("udp_start")
  /\ relay' = "running" /\ Goto("udp_reply")
  /\ UNCHANGED <<setup, conn, candidates, replies, broken, silent, session, token, admin, held,
                 shutdown, route, packets, asked, given>>

UdpStartFails ==
  /\ At("udp_start")
  /\ \/ Write("GeneralFailure") /\ session' = Closed
     \/ WriteFails /\ UNCHANGED session
  /\ Return(conn)
  /\ UNCHANGED <<setup, candidates, silent, token, admin, held, udpVars>>

UdpReply ==
  /\ At("udp_reply")
  /\ \/ Write("Succeeded") /\ Goto("control") /\ UNCHANGED conn
     \/ WriteFails /\ Return(conn)
  /\ UNCHANGED <<setup, candidates, silent, session, token, admin, held, udpVars>>

\* The control connection is closed: the relay is told, the session closed.
ControlClosed ==
  /\ At("control") /\ Goto("udp_close")
  /\ shutdown' = (shutdown \/ relay = "running")
  /\ UNCHANGED <<setup, conn, candidates, replies, broken, silent, session, token, admin, held,
                 relay, route, packets, asked, given>>

UdpClose ==
  /\ At("udp_close")
  /\ session' = Closed
  /\ Return(conn)
  /\ UNCHANGED <<setup, candidates, replies, broken, silent, token, admin, held, udpVars>>

\* Data on the control connection ends the handler and nothing else.
ControlData ==
  /\ At("control") /\ Return(conn)
  /\ UNCHANGED <<setup, candidates, replies, broken, silent, session, token, admin, held, udpVars>>

ControlCancelled ==
  /\ At("control") /\ token /\ Return(conn)
  /\ UNCHANGED <<setup, candidates, replies, broken, silent, session, token, admin, held, udpVars>>

-----------------------------------------------------------------------------
(* UDP ASSOCIATE: the relay task                                           *)

hVars == <<setup, pc, conn, candidates, replies, broken, silent, token, admin, held>>

Datagram == relay = "running" /\ packets < MaxPackets /\ packets' = packets + 1

\* handle_client_packet, for any port of the client's host.  The first address
\* is tried, over an IPv4 socket, after the maps were written.
ClientPacket ==
  /\ Datagram
  /\ \E p \in Ports, form \in {"whole", "cut"}, frag \in 0..1, d \in Dests :
       LET found == resolve_address(d)
       IN IF ParsesAsUdp([form |-> form, frag |-> frag]) /\ found # << >>
          THEN /\ route' = [route EXCEPT ![found[1]] = p]
               /\ asked' = asked \union {<<p, found[1]>>}
          ELSE UNCHANGED <<route, asked>>
  /\ UNCHANGED <<hVars, session, relay, shutdown, given>>

\* Mutant of DestinationPacket: the answer goes to any port that was ever used.
DestinationPacketAnyPort ==
  /\ Datagram
  /\ \E a \in Addrs, b \in Addrs :
       IF route[b] # NoPort THEN given' = given \union {<<route[b], a>>} ELSE UNCHANGED given
  /\ UNCHANGED <<hVars, session, relay, shutdown, route, asked>>

\* handle_destination_packet: only an address with an entry is answered for.
DestinationPacket ==
  /\ Datagram
  /\ \E a \in Addrs :
       IF route[a] # NoPort THEN given' = given \union {<<route[a], a>>} ELSE UNCHANGED given
  /\ UNCHANGED <<hVars, session, relay, shutdown, route, asked>>

\* The shutdown message, or no sender left: the handler's was dropped with it,
\* the control's with the session.
RelayShutdown ==
  /\ relay = "running"
  /\ shutdown \/ (At("done") /\ session # "active")
  /\ relay' = "stopping" /\ shutdown' = FALSE
  /\ UNCHANGED <<hVars, session, route, packets, asked, given>>

\* Mutant of RelayIdle: the timeout only logs and waits again.
RelayIdleWaits == relay = "running" /\ UNCHANGED vars

\* 120 seconds without a datagram, or an error of the socket.
RelayIdle ==
  /\ relay = "running" /\ relay' = "stopping"
  /\ UNCHANGED <<hVars, session, shutdown, route, packets, asked, given>>

\* Mutant of RelayEnds: the relay leaves the session to the handler.
RelayEndsOnly ==
  /\ relay = "stopping" /\ relay' = "ended"
  /\ UNCHANGED <<hVars, session, shutdown, route, packets, asked, given>>

\* Every way out of the relay closes the session.  The token is not cancelled.
RelayEnds ==
  /\ relay = "stopping" /\ relay' = "ended"
  /\ session' = Closed
  /\ UNCHANGED <<hVars, shutdown, route, packets, asked, given>>

-----------------------------------------------------------------------------
(* terminate_session, by the API, an ACL update or the shutdown            *)

\* Mutant of TerminateCancel: only the UDP relay is told.
TerminateCancelUdp ==
  /\ session = "active" /\ admin = "idle" /\ admin' = "closing"
  /\ shutdown' = (shutdown \/ relay = "running" \/ pc = "udp_start")
  /\ UNCHANGED <<setup, pc, conn, candidates, replies, broken, silent, session, token, held,
                 relay, route, packets, asked, given>>

TerminateCancel ==
  /\ session = "active" /\ admin = "idle" /\ admin' = "closing"
  /\ token' = TRUE
  /\ shutdown' = (shutdown \/ relay = "running" \/ pc = "udp_start")
  /\ UNCHANGED <<setup, pc, conn, candidates, replies, broken, silent, session, held,
                 relay, route, packets, asked, given>>

TerminateClose ==
  /\ admin = "closing" /\ admin' = "done"
  /\ session' = Closed
  /\ UNCHANGED <<setup, pc, conn, candidates, replies, broken, silent, token, held, udpVars>>

-----------------------------------------------------------------------------
Handshake ==
  \/ AuthenticateClient \/ Unreadable \/ ReadVersion5 \/ ReadVersion4 \/ Greeting
  \/ AuthenticateNone \/ AuthenticateUser \/ GssToken \/ GssProtection
  \/ CheckLimits \/ ReadRequest \/ AclBlock \/ Dispatch

Connect == Resolve \/ Dial \/ OpenSession \/ ReplyConnect \/ RelayingEnds \/ Settle
Bind == BindListen \/ BindAccept \/ BindGivesUp
Associate == UdpStart \/ UdpStartFails \/ UdpReply \/ ControlClosed \/ UdpClose \/ ControlData \/ ControlCancelled
UdpRelay == ClientPacket \/ DestinationPacket \/ RelayShutdown \/ RelayIdle \/ RelayEnds
Terminate == TerminateCancel \/ TerminateClose

Next == Handshake \/ Connect \/ Bind \/ Associate \/ UdpRelay \/ Terminate

Spec == Init /\ [][Next]_vars

\* Once a service has begun, the handler goes on by itself: replies are a few
\* bytes, accept has a timeout, the relay's timer fires once no datagram comes any
\* more (there are MaxPackets).  What the client does on its connection, and an
\* administrator, are under no obligation, and proxy_data need not return: a relay
\* inside write_all (proxy.rs:455) does not see the token.
Fairness ==
  /\ WF_vars(OpenSession) /\ WF_vars(ReplyConnect) /\ WF_vars(Settle)
  /\ WF_vars(BindAccept \/ BindGivesUp)
  /\ WF_vars(UdpStart \/ UdpStartFails) /\ WF_vars(UdpReply) /\ WF_vars(UdpClose) /\ WF_vars(ControlCancelled)
  /\ WF_vars(RelayShutdown) /\ WF_vars(RelayIdle) /\ WF_vars(RelayEnds) /\ WF_vars(TerminateClose)

FairSpec == Spec /\ Fairness

\* An assumption on the peers, not on the code: they read what they are sent, so
\* that the relays come back to their select and find the token cancelled.
Draining == WF_vars(token /\ RelayingEnds)

-----------------------------------------------------------------------------
(* Properties                                                              *)

\* A session is opened only for a client that passed the check of its address, if
\* there is one, as the user whose credentials were accepted - nobody's, if the
\* server asks for none - after the ACL allowed that user and those groups, and
\* the connection counts against the limits until the handler returns.  A SOCKS4
\* client, which only a server without authentication serves, is the user it
\* claims to be (handler.rs:428): the formula says nothing of its name.
Entitled ==
  session \in {"active", "ended"} =>
    /\ "pam.address" \in {setup.client, setup.socks} => conn.addressOk
    /\ get_method(setup.socks) # "NoAuth" => conn.version = "V5" /\ conn.user = conn.proved /\ conn.user \in Users
    /\ get_method(setup.socks) = "NoAuth" /\ conn.version = "V5" => conn.user = Anonymous
    /\ setup.socks = "gssapi" => conn.level # "none"
    /\ AclAllows
    /\ ~At("done") => conn.counted

\* A client whose request was read gets an answer, unless it could not be written
\* or BIND found no listener; BIND alone answers twice, and only after a success.
Answered ==
  /\ At("done") /\ conn.command # "none" => replies # << >> \/ broken \/ silent
  /\ Len(replies) > 1 => Len(replies) = 2 /\ conn.command = "bind" /\ IsSuccess(replies[1])
  /\ At("relaying") \/ At("control") => IsSuccess(replies[Len(replies)])

\* The handshake of handler.rs: whom it serves and what it answers, for every
\* combination of backends.
HandshakeSound == Entitled /\ Answered

\* When the handler and the relay are gone the session is closed and the pool has
\* its connection back, but for the returns by `?` between the two (handler.rs:727,
\* handler.rs:882, bind.rs:85, bind.rs:170), all of which a write or local_addr that
\* failed brings about; and BIND gives the pool a connection it never took.
SessionsSettled ==
  At("done") /\ relay \in {"off", "ended"} =>
    /\ session = "active" => broken
    /\ held = 1 => broken
    /\ held = -1 => conn.command = "bind"

\* The relay hands an answer of an address only to a port of the client that wrote
\* to that address (udp.rs:246).
AnswersInvited == given \subseteq asked

\* terminate_session (manager.rs:446) ends the session, the UDP relay and the handler,
\* which BIND lets wait for its timeout.  Only proxy_data may outlive it, inside a
\* write_all to a peer that stopped reading; with peers that read it ends as well.
Terminated == relay \in {"off", "ended"} /\ session # "active"
TerminationEnds ==
  /\ (admin = "closing") ~> (Terminated /\ (At("done") \/ At("relaying")))
  /\ Draining => ((admin = "closing") ~> (Terminated /\ At("done")))

\* A UDP relay whose handler is gone, after data on the control connection
\* (handler.rs:931) or a reply that could not be written, is ended by its idle
\* timer and takes the session with it.
LeftBehindReaped ==
  (At("done") /\ relay = "running") ~> (relay = "ended" /\ session # "active")
=============================================================================
