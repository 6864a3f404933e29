------------------------- MODULE SocksHandlerProofs -------------------------
(***************************************************************************)
(* Proofs about SocksHandler: whom the handshake serves, what it answers,  *)
(* what is left when the handler is gone and whom the UDP relay answers,   *)
(* for every set of users, groups and destinations, every ACL and any      *)
(* number of datagrams.                                                    *)
(***************************************************************************)
EXTENDS SocksHandler, TLAPS

\* Where the handler is: before the client is authenticated, after it, after the
\* ACL allowed the request, after the session was opened.
Fresh   == {"accepted", "version", "greeting", "noauth", "credentials", "gss", "protection"}
Served  == {"reply", "relaying", "settle", "accept", "udp_start", "udp_reply", "control",
            "udp_close"}
Cleared == {"connect", "dial", "open", "bind", "bind_open", "udp"} \union Served
Behind  == {"limits", "request", "acl"} \union Cleared

Names == Users \union {Anonymous}
GroupSets == {{}} \union {GroupsOf[u] : u \in Users}
Conns == [version : {"none", "V4", "V5"}, method : AuthMethods \union {"none"}, user : Names,
          groups : GroupSets, command : Commands \union {"none"}, dest : Dests \union {"none"},
          counted : BOOLEAN, addressOk : BOOLEAN, proved : Names,
          level : ProtectionLevels \union {"none"}]
Codes == {"Succeeded", "GeneralFailure", "ConnectionNotAllowed", "HostUnreachable",
          "CommandNotSupported", "Granted", "Rejected"}

Types ==
  /\ setup \in [client : ClientBackends, socks : SocksBackends, acl : BOOLEAN,
                level : ProtectionLevels]
  /\ pc \in Fresh \union Behind \union {"done"}
  /\ conn \in Conns
  /\ replies \in Seq(Codes)
  /\ broken \in BOOLEAN /\ silent \in BOOLEAN /\ token \in BOOLEAN /\ shutdown \in BOOLEAN
  /\ session \in {"none", "rejected", "active", "ended"}
  /\ held \in Int
  /\ relay \in {"off", "running", "stopping", "ended"}

\* What the authentication established, and keeps true of the connection.
Proven ==
  /\ conn.version \in {"V4", "V5"}
  /\ "pam.address" \in {setup.client, setup.socks} => conn.addressOk
  /\ get_method(setup.socks) # "NoAuth"
       => conn.version = "V5" /\ conn.user = conn.proved /\ conn.user \in Users
  /\ get_method(setup.socks) = "NoAuth" /\ conn.version = "V5" => conn.user = Anonymous
  /\ setup.socks = "gssapi" => conn.level # "none"

\* How far the authentication has come, given where the handler is.
Identified ==
  /\ pc \notin {"accepted", "done"} /\ setup.client = "pam.address" => conn.addressOk
  /\ pc \in Fresh => conn.user = Anonymous
  /\ pc \in {"greeting", "credentials", "gss", "protection"} => conn.version = "V5"
  /\ pc = "noauth" => conn.version \in {"V4", "V5"} /\ get_method(setup.socks) = "NoAuth"
  /\ pc = "credentials" => get_method(setup.socks) = "UserPass"
  /\ pc \in {"gss", "protection"} => get_method(setup.socks) = "Gssapi"
  /\ pc = "protection" => conn.proved \in Users
  /\ pc \in Behind => Proven
  /\ pc \in {"acl"} \union Cleared \/ (pc = "request" /\ conn.version = "V5") => conn.counted

\* Only an identified client the ACL allows comes further.
AuthInv ==
  /\ Identified
  /\ pc \in Cleared => AclAllows
  /\ session \in {"active", "ended"} => pc \in Served \union {"done"} /\ Proven /\ AclAllows

\* One reply was sent, a success; or, by BIND, two.
OneSuccess == Len(replies) = 1 /\ IsSuccess(replies[1])
TwoSuccesses == Len(replies) = 2 /\ IsSuccess(replies[1]) /\ IsSuccess(replies[2])

\* Which command is being served, and what its client was told.
ReplyInv ==
  /\ pc \in Fresh \union {"request"} => conn.command = "none"
  /\ pc = "limits" => (conn.version = "V5" <=> conn.command = "none")
  /\ pc \in {"connect", "dial", "open", "reply"} => conn.command = "connect"
  /\ pc \in {"bind", "bind_open", "accept"} => conn.command = "bind"
  /\ pc \in {"udp", "udp_start", "udp_reply", "control", "udp_close"} => conn.command = "udp"
  /\ pc \in {"acl", "relaying", "settle"} => conn.command # "none"
  /\ pc \in (Fresh \union Behind)
              \ {"bind_open", "accept", "relaying", "settle", "control", "udp_close"}
       => replies = << >>
  /\ pc \in {"bind_open", "accept", "control", "udp_close"} => OneSuccess
  /\ pc \in {"relaying", "settle"} => OneSuccess \/ (conn.command = "bind" /\ TwoSuccesses)
  /\ pc \in {"relaying", "settle"} => conn.command \in {"connect", "bind"}
  /\ pc = "done" => /\ conn.command # "none" => replies # << >> \/ broken \/ silent
                    /\ \/ Len(replies) <= 1
                       \/ Len(replies) = 2 /\ conn.command = "bind" /\ IsSuccess(replies[1])

\* What the handler has of the pool, of the session manager and of the relay.
SettleInv ==
  /\ pc \in {"open", "reply"} => held = 1
  /\ pc \in {"relaying", "settle"} => held = IF conn.command = "connect" THEN 1 ELSE 0
  /\ pc \in (Fresh \union Behind) \ {"open", "reply", "relaying", "settle"} => held = 0
  /\ pc = "done" => held \in -1 .. 1 /\ (held = 1 => broken) /\ (held = -1 => conn.command = "bind")
  /\ relay # "off" => pc \in {"udp_reply", "control", "udp_close", "done"}
  /\ pc \in {"udp_reply", "control", "udp_close"} => relay # "off"
  /\ relay = "ended" => session # "active"
  /\ pc = "done" /\ relay = "off" /\ session = "active" => broken
  /\ pc \in (Fresh \union Behind) \ Served => session = "none"

HandlerInv == Types /\ AuthInv /\ ReplyInv /\ SettleInv

\* The reverse map sends the answers of an address to a port that wrote to it.
RouteInv ==
  /\ route \in [Addrs -> Ports \union {NoPort}]
  /\ \A a \in Addrs : route[a] # NoPort => <<route[a], a>> \in asked
  /\ given \subseteq asked

-----------------------------------------------------------------------------
(* What the handler's own steps do to the connection and to the replies    *)

\* A return only gives the counted connection back (Drop of ConnectionGuard).
LEMMA ReturnKeeps ==
  ASSUME conn \in Conns, Return(conn)
  PROVE  /\ pc' = "done" /\ conn' \in Conns
         /\ conn'.version = conn.version /\ conn'.user = conn.user
         /\ conn'.groups = conn.groups /\ conn'.command = conn.command
         /\ conn'.addressOk = conn.addressOk /\ conn'.proved = conn.proved
         /\ conn'.level = conn.level
BY DEF Return, Conns

\* What was established of a client holds while nothing it rests on changes.
LEMMA IdentityKept ==
  ASSUME UNCHANGED setup, conn'.version = conn.version, conn'.user = conn.user,
         conn'.groups = conn.groups, conn'.command = conn.command,
         conn'.addressOk = conn.addressOk, conn'.proved = conn.proved, conn'.level = conn.level
  PROVE  (Proven <=> Proven') /\ (AclAllows <=> AclAllows')
BY DEF Proven, AclAllows, Transport

\* send_socks_response appends one reply, in the words of the client's version.
LEMMA WriteAppends ==
  ASSUME Types, NEW code \in {"Succeeded", "GeneralFailure", "ConnectionNotAllowed",
                              "HostUnreachable", "CommandNotSupported"}, Write(code)
  PROVE  /\ replies' \in Seq(Codes) /\ Len(replies') = Len(replies) + 1
         /\ \A i \in 1 .. Len(replies) : replies'[i] = replies[i]
         /\ code = "Succeeded" => IsSuccess(replies'[Len(replies) + 1])
         /\ broken' = broken
<1>1. ReplyFor(conn.version, code) \in Codes
  BY DEF ReplyFor, Codes
<1>2. code = "Succeeded" => IsSuccess(ReplyFor(conn.version, code))
  BY DEF ReplyFor, IsSuccess
<1> QED  BY <1>1, <1>2 DEF Types, Write

\* A refusal is the only reply, or is lost.
LEMMA LastAnswers ==
  ASSUME Types, NEW code \in {"GeneralFailure", "ConnectionNotAllowed",
                              "HostUnreachable", "CommandNotSupported"},
         Last(code), replies = << >>
  PROVE  /\ Return(conn) /\ replies' \in Seq(Codes) /\ broken' \in BOOLEAN
         /\ Len(replies') <= 1 /\ (replies' # << >> \/ broken')
         /\ broken => broken'
<1>1. Return(conn) /\ (Write(code) \/ WriteFails)
  BY DEF Last
<1>2. CASE Write(code)
  <2>1. replies' \in Seq(Codes) /\ Len(replies') = Len(replies) + 1 /\ broken' = broken
    BY <1>2, WriteAppends
  <2> QED  BY <1>1, <2>1 DEF Types
<1>3. CASE WriteFails
  BY <1>1, <1>3 DEF WriteFails, Types
<1> QED  BY <1>1, <1>2, <1>3

\* Whatever ends the handler keeps the invariant, if the client was told what it
\* had to be told and the books of the pool and the session are in order.
LEMMA ReturnSafe ==
  ASSUME HandlerInv, Return(conn), UNCHANGED <<setup, token, relay, shutdown>>,
         replies' \in Seq(Codes), broken' \in BOOLEAN, silent' \in BOOLEAN, held' \in Int,
         session' = session \/ session' = Closed \/ session' = "rejected",
         conn.command # "none" => replies' # << >> \/ broken' \/ silent',
         \/ Len(replies') <= 1
         \/ Len(replies') = 2 /\ conn.command = "bind" /\ IsSuccess(replies'[1]),
         held' \in -1 .. 1, held' = 1 => broken', held' = -1 => conn.command = "bind",
         relay = "off" /\ session' = "active" => broken'
  PROVE  HandlerInv'
<1>1. /\ pc' = "done" /\ conn' \in Conns
      /\ conn'.command = conn.command
      /\ (Proven <=> Proven') /\ (AclAllows <=> AclAllows')
  BY ReturnKeeps, IdentityKept DEF HandlerInv, Types
<1>2. Types'
  BY <1>1 DEF HandlerInv, Types, Closed
<1>3. AuthInv'
  BY <1>1 DEF HandlerInv, AuthInv, Identified, Closed, Fresh, Behind, Cleared, Served
<1>4. ReplyInv'
  BY <1>1 DEF ReplyInv, Fresh, Behind, Cleared, Served
<1>5. SettleInv'
  BY <1>1 DEF HandlerInv, SettleInv, Closed, Fresh, Behind, Cleared, Served
<1> QED  BY <1>2, <1>3, <1>4, <1>5 DEF HandlerInv

\* A step of the handshake after which the handler goes on.
Early == Fresh \union {"limits", "request", "acl"}
LEMMA EarlySafe ==
  ASSUME HandlerInv, pc \in Early, pc' \in Early, conn' \in Conns, Identified',
         UNCHANGED <<setup, replies, broken, silent, session, token, held, relay, shutdown>>,
         pc' \in Fresh \union {"request"} => conn'.command = "none",
         pc' = "limits" => (conn'.version = "V5" <=> conn'.command = "none"),
         pc' = "acl" => conn'.command # "none"
  PROVE  HandlerInv'
<1> USE DEF Early, Fresh, Behind, Cleared, Served
<1>1. session = "none" /\ replies = << >> /\ held = 0 /\ relay = "off"
  BY DEF HandlerInv, Types, ReplyInv, SettleInv
<1>2. Types'
  BY DEF HandlerInv, Types
<1>3. AuthInv'
  BY <1>1 DEF AuthInv
<1>4. ReplyInv'
  BY <1>1 DEF ReplyInv
<1>5. SettleInv'
  BY <1>1 DEF SettleInv
<1> QED  BY <1>2, <1>3, <1>4, <1>5 DEF HandlerInv

\* A handshake that ends without a reply had read no request.
LEMMA EarlyReturn ==
  ASSUME HandlerInv, pc \in Fresh \union {"request"}, Return(conn),
         UNCHANGED <<setup, replies, broken, silent, session, token, held, relay, shutdown>>
  PROVE  HandlerInv'
<1>1. /\ session = "none" /\ replies = << >> /\ held = 0 /\ relay = "off"
      /\ conn.command = "none"
  BY DEF HandlerInv, Types, ReplyInv, SettleInv, Fresh, Behind, Cleared, Served
<1>2. Len(replies') <= 1
  BY <1>1
<1> QED  BY <1>1, <1>2, ReturnSafe DEF HandlerInv, Types

-----------------------------------------------------------------------------
(* The handshake                                                           *)

\* authenticate_client lets a client pass whose address it accepted.
LEMMA AuthenticateClientSafe == ASSUME HandlerInv, AuthenticateClient PROVE HandlerInv'
<1> USE DEF Fresh, Early
<1>0. /\ pc = "accepted" /\ conn \in Conns /\ conn.command = "none" /\ conn.user = Anonymous
      /\ UNCHANGED <<setup, replies, broken, silent, session, token, held, relay, shutdown>>
  BY DEF AuthenticateClient, At, HandlerInv, Types, ReplyInv, AuthInv, Identified, udpVars
<1>1. CASE Return(conn)
  BY <1>0, <1>1, EarlyReturn
<1>2. CASE setup.client = "none" /\ pc' = "version" /\ conn' = conn
  <2>1. Identified'
    BY <1>0, <1>2 DEF Identified, Behind, Cleared, Served
  <2> QED  BY <1>0, <1>2, <2>1, EarlySafe
<1>3. CASE pc' = "version" /\ conn' = [conn EXCEPT !.addressOk = TRUE]
  <2>1. /\ conn' \in Conns /\ conn'.command = "none" /\ conn'.user = Anonymous
        /\ conn'.addressOk
    BY <1>0, <1>3 DEF Conns
  <2>2. Identified'
    BY <1>0, <1>3, <2>1 DEF Identified, Behind, Cleared, Served
  <2> QED  BY <1>0, <1>3, <2>1, <2>2, EarlySafe
<1> QED  BY <1>1, <1>2, <1>3 DEF AuthenticateClient, Goto

\* A client that goes away or sends what no parser accepts.
LEMMA UnreadableSafe == ASSUME HandlerInv, Unreadable PROVE HandlerInv'
BY EarlyReturn DEF Unreadable, Reading, Fresh, udpVars

\* The first byte, of SOCKS5.
LEMMA ReadVersion5Safe == ASSUME HandlerInv, ReadVersion5 PROVE HandlerInv'
<1> USE DEF Fresh, Early
<1>0. /\ pc = "version" /\ pc' = "greeting" /\ conn \in Conns /\ conn.command = "none"
      /\ conn.user = Anonymous /\ (setup.client = "pam.address" => conn.addressOk)
      /\ conn' = [conn EXCEPT !.version = "V5"]
      /\ UNCHANGED <<setup, replies, broken, silent, session, token, held, relay, shutdown>>
  BY DEF ReadVersion5, At, Goto, HandlerInv, Types, ReplyInv, AuthInv, Identified, udpVars
<1>1. /\ conn' \in Conns /\ conn'.command = "none" /\ conn'.user = Anonymous
      /\ conn'.version = "V5" /\ conn'.addressOk = conn.addressOk
  BY <1>0 DEF Conns
<1>2. Identified'
  BY <1>0, <1>1 DEF Identified, Behind, Cleared, Served
<1> QED  BY <1>0, <1>1, <1>2, EarlySafe

\* The first byte, of SOCKS4: served without authentication or not at all.
LEMMA ReadVersion4Safe == ASSUME HandlerInv, ReadVersion4 PROVE HandlerInv'
<1> USE DEF Fresh, Early
<1> DEFINE v4 == [conn EXCEPT !.version = "V4", !.method = "NoAuth"]
<1>0. /\ pc = "version" /\ conn \in Conns /\ conn.command = "none" /\ replies = << >>
      /\ conn.user = Anonymous /\ (setup.client = "pam.address" => conn.addressOk)
      /\ UNCHANGED <<setup, silent, session, token, held, relay, shutdown>>
  BY DEF ReadVersion4, At, HandlerInv, Types, ReplyInv, AuthInv, Identified, udpVars
<1>1. /\ v4 \in Conns /\ v4.command = "none" /\ v4.user = Anonymous
      /\ v4.version = "V4" /\ v4.addressOk = conn.addressOk
  BY <1>0 DEF Conns, AuthMethods
<1>2. CASE /\ supports(setup.socks, "NoAuth") /\ pc' = "noauth" /\ conn' = v4
           /\ UNCHANGED <<replies, broken>>
  <2>1. get_method(setup.socks) = "NoAuth"
    BY <1>2 DEF supports, get_method
  <2>2. Identified'
    BY <1>0, <1>1, <1>2, <2>1 DEF Identified, Behind, Cleared, Served
  <2> HIDE DEF v4
  <2> QED  BY <1>0, <1>1, <1>2, <2>2, EarlySafe
<1>3. CASE /\ Return(v4)
           /\ \/ replies' = Append(replies, "Rejected") /\ UNCHANGED broken
              \/ WriteFails
  <2>1. pc' = "done" /\ conn' \in Conns /\ conn'.command = "none"
    BY <1>1, <1>3 DEF Return, Conns
  <2>2. replies' \in Seq(Codes) /\ Len(replies') <= 1 /\ broken' \in BOOLEAN
    <3>1. "Rejected" \in Codes /\ replies \in Seq(Codes) /\ broken \in BOOLEAN
      BY DEF Codes, HandlerInv, Types
    <3>2. CASE replies' = Append(replies, "Rejected") /\ UNCHANGED broken
      BY <1>0, <3>1, <3>2
    <3>3. CASE WriteFails
      BY <1>0, <3>1, <3>3 DEF WriteFails
    <3> QED  BY <1>3, <3>2, <3>3
  <2>3. session = "none" /\ held = 0 /\ relay = "off"
    BY <1>0 DEF HandlerInv, SettleInv, Types, Behind, Cleared, Served
  <2>4. Types'
    BY <1>0, <2>1, <2>2 DEF HandlerInv, Types
  <2>5. AuthInv'
    BY <1>0, <2>1, <2>3 DEF AuthInv, Identified, Behind, Cleared, Served
  <2>6. ReplyInv'
    BY <2>1, <2>2 DEF ReplyInv, Behind, Cleared, Served
  <2>7. SettleInv'
    BY <1>0, <2>1, <2>3 DEF SettleInv, Behind, Cleared, Served
  <2> QED  BY <2>4, <2>5, <2>6, <2>7 DEF HandlerInv
<1> QED  BY <1>2, <1>3 DEF ReadVersion4, Goto

\* The method handle_socks5 selects is the backend's own, or none.
LEMMA SelectsOwn ==
  ASSUME NEW backend \in SocksBackends, NEW offered \in Greetings,
         SelectMethod(backend, offered) # "NoAcceptable"
  PROVE  SelectMethod(backend, offered) = get_method(backend)
BY DEF SelectMethod, supports, get_method, SocksBackends

\* The greeting leads to the authentication the server asks for.
LEMMA GreetingSafe == ASSUME HandlerInv, Greeting PROVE HandlerInv'
<1> USE DEF Fresh, Early
<1>0. /\ pc = "greeting" /\ conn \in Conns /\ conn.command = "none" /\ conn.version = "V5"
      /\ conn.user = Anonymous /\ (setup.client = "pam.address" => conn.addressOk)
      /\ setup.socks \in SocksBackends
      /\ UNCHANGED <<setup, replies, broken, silent, session, token, held, relay, shutdown>>
  BY DEF Greeting, At, HandlerInv, Types, ReplyInv, AuthInv, Identified, udpVars
<1>1. CASE Return(conn)
  BY <1>0, <1>1, EarlyReturn
<1>2. ASSUME NEW offered \in Greetings, SelectMethod(setup.socks, offered) # "NoAcceptable",
             pc' = FirstStep(SelectMethod(setup.socks, offered)),
             conn' = [conn EXCEPT !.method = SelectMethod(setup.socks, offered)]
      PROVE  HandlerInv'
  <2> DEFINE method == get_method(setup.socks)
  <2>1. pc' = FirstStep(method) /\ conn' = [conn EXCEPT !.method = method]
    BY <1>0, <1>2, SelectsOwn
  <2>2. method \in {"NoAuth", "UserPass", "Gssapi"}
    BY <1>0 DEF get_method, SocksBackends
  <2> HIDE DEF method
  <2>3. /\ conn' \in Conns /\ conn'.command = "none" /\ conn'.user = Anonymous
        /\ conn'.version = "V5" /\ conn'.addressOk = conn.addressOk
    BY <1>0, <2>1, <2>2 DEF Conns, AuthMethods
  <2>4. \/ pc' = "noauth" /\ method = "NoAuth"
        \/ pc' = "credentials" /\ method = "UserPass"
        \/ pc' = "gss" /\ method = "Gssapi"
    BY <2>1, <2>2 DEF FirstStep
  <2>5. get_method(setup'.socks) = method
    BY <1>0 DEF method
  <2>6. Identified'
    BY <1>0, <2>3, <2>4, <2>5 DEF Identified, Behind, Cleared, Served
  <2> QED  BY <1>0, <2>3, <2>4, <2>6, EarlySafe
<1> QED  BY <1>1, <1>2 DEF Greeting, Goto

\* NoAuth: the address may still have to be accepted.
LEMMA AuthenticateNoneSafe == ASSUME HandlerInv, AuthenticateNone PROVE HandlerInv'
<1> USE DEF Fresh, Early
<1>0. /\ pc = "noauth" /\ conn \in Conns /\ conn.command = "none"
      /\ conn.version \in {"V4", "V5"} /\ conn.user = Anonymous
      /\ (setup.client = "pam.address" => conn.addressOk)
      /\ get_method(setup.socks) = "NoAuth"
      /\ UNCHANGED <<setup, replies, broken, silent, session, token, held, relay, shutdown>>
  BY DEF AuthenticateNone, At, HandlerInv, Types, ReplyInv, AuthInv, Identified, udpVars
<1>1. CASE Return(conn)
  BY <1>0, <1>1, EarlyReturn
<1>2. CASE /\ pc' = AfterAuth
           /\ \/ setup.socks = "none" /\ conn' = conn
              \/ setup.socks = "pam.address" /\ conn' = [conn EXCEPT !.addressOk = TRUE]
  <2>1. /\ conn' \in Conns /\ conn'.command = "none" /\ conn'.user = Anonymous
        /\ conn'.version = conn.version
    BY <1>0, <1>2 DEF Conns
  <2>2. (setup.client = "pam.address" \/ setup.socks = "pam.address") => conn'.addressOk
    BY <1>0, <1>2 DEF Conns
  <2>3. /\ pc' \in {"limits", "request"} /\ (pc' = "limits" <=> conn'.version = "V5")
        /\ setup.socks \in {"none", "pam.address"}
    BY <1>0, <1>2, <2>1 DEF AfterAuth
  <2>4. get_method(setup'.socks) = "NoAuth"
    BY <1>0
  <2>5. Proven'
    BY <1>0, <2>1, <2>2, <2>3, <2>4 DEF Proven
  <2>6. Identified'
    BY <1>0, <2>1, <2>2, <2>3, <2>5 DEF Identified, Behind, Cleared, Served
  <2> QED  BY <1>0, <2>1, <2>3, <2>6, EarlySafe
<1> QED  BY <1>1, <1>2 DEF AuthenticateNone, Goto

\* UserPass: the user whose password was accepted is the user of the connection.
LEMMA AuthenticateUserSafe == ASSUME HandlerInv, AuthenticateUser PROVE HandlerInv'
<1> USE DEF Fresh, Early
<1>0. /\ pc = "credentials" /\ conn \in Conns /\ conn.command = "none" /\ conn.version = "V5"
      /\ (setup.client = "pam.address" => conn.addressOk)
      /\ get_method(setup.socks) = "UserPass"
      /\ UNCHANGED <<setup, replies, broken, silent, session, token, held, relay, shutdown>>
  BY DEF AuthenticateUser, At, HandlerInv, Types, ReplyInv, AuthInv, Identified, udpVars
<1>1. CASE Return(conn)
  BY <1>0, <1>1, EarlyReturn
<1>2. ASSUME NEW u \in Users, NEW gs \in Groups(u), pc' = AfterAuth,
             conn' = [conn EXCEPT !.user = u, !.proved = u, !.groups = gs]
      PROVE  HandlerInv'
  <2>1. u \in Names /\ gs \in GroupSets
    BY <1>2 DEF Names, GroupSets, Groups
  <2>2. /\ conn' \in Conns /\ conn'.command = "none" /\ conn'.user = u /\ conn'.proved = u
        /\ conn'.version = "V5" /\ conn'.addressOk = conn.addressOk /\ pc' = "limits"
    BY <1>0, <1>2, <2>1 DEF Conns, AfterAuth
  <2>3. setup.socks # "pam.address" /\ setup.socks # "gssapi"
    BY <1>0 DEF get_method
  <2>4. get_method(setup'.socks) = "UserPass"
    BY <1>0
  <2>5. Proven'
    BY <1>0, <1>2, <2>2, <2>3, <2>4 DEF Proven
  <2>6. Identified'
    BY <1>0, <2>2, <2>5 DEF Identified, Behind, Cleared, Served
  <2> QED  BY <1>0, <2>2, <2>6, EarlySafe
<1> QED  BY <1>1, <1>2 DEF AuthenticateUser, Goto

\* A GSS-API token: the context names the principal only when it is complete.
LEMMA GssTokenSafe == ASSUME HandlerInv, GssToken PROVE HandlerInv'
<1> USE DEF Fresh, Early
<1>0. /\ pc = "gss" /\ conn \in Conns /\ conn.command = "none" /\ conn.version = "V5"
      /\ conn.user = Anonymous /\ (setup.client = "pam.address" => conn.addressOk)
      /\ get_method(setup.socks) = "Gssapi"
      /\ UNCHANGED <<setup, replies, broken, silent, session, token, held, relay, shutdown>>
  BY DEF GssToken, At, HandlerInv, Types, ReplyInv, AuthInv, Identified, udpVars
<1>1. CASE Return(conn)
  BY <1>0, <1>1, EarlyReturn
<1>2. CASE pc' = "gss" /\ conn' = conn
  <2>1. Identified'
    BY <1>0, <1>2 DEF Identified, Behind, Cleared, Served
  <2> QED  BY <1>0, <1>2, <2>1, EarlySafe
<1>3. ASSUME NEW u \in Users, pc' = "protection", conn' = [conn EXCEPT !.proved = u]
      PROVE  HandlerInv'
  <2>1. /\ conn' \in Conns /\ conn'.command = "none" /\ conn'.user = Anonymous
        /\ conn'.version = "V5" /\ conn'.addressOk = conn.addressOk /\ conn'.proved = u
    BY <1>0, <1>3 DEF Conns, Names
  <2>2. Identified'
    BY <1>0, <1>3, <2>1 DEF Identified, Behind, Cleared, Served
  <2> QED  BY <1>0, <1>3, <2>1, <2>2, EarlySafe
<1> QED  BY <1>1, <1>2, <1>3 DEF GssToken, Goto

\* The protection level is agreed on before the principal becomes the user.
LEMMA GssProtectionSafe == ASSUME HandlerInv, GssProtection PROVE HandlerInv'
<1> USE DEF Fresh, Early
<1>0. /\ pc = "protection" /\ conn \in Conns /\ conn.command = "none" /\ conn.version = "V5"
      /\ conn.proved \in Users /\ (setup.client = "pam.address" => conn.addressOk)
      /\ get_method(setup.socks) = "Gssapi" /\ pc' = "limits"
      /\ UNCHANGED <<setup, replies, broken, silent, session, token, held, relay, shutdown>>
  BY DEF GssProtection, At, Goto, AfterAuth, HandlerInv, Types, ReplyInv, AuthInv, Identified,
         udpVars
<1>1. PICK wish \in ProtectionLevels, gs \in Groups(conn.proved) :
        conn' = [conn EXCEPT !.level = ProtectionLevel(wish, setup.level),
                             !.user = conn.proved, !.groups = gs]
  BY DEF GssProtection
<1>2. gs \in GroupSets /\ conn.proved \in Names
  BY <1>0 DEF Groups, GroupSets, Names
<1>3. ProtectionLevel(wish, setup.level) \in ProtectionLevels
  BY DEF ProtectionLevel, ProtectionLevels
<1>4. /\ conn' \in Conns /\ conn'.command = "none" /\ conn'.user = conn.proved
      /\ conn'.proved = conn.proved /\ conn'.version = "V5"
      /\ conn'.addressOk = conn.addressOk
  BY <1>0, <1>1, <1>2, <1>3 DEF Conns
<1>5. conn'.level # "none"
  <2>1. conn'.level = ProtectionLevel(wish, setup.level)
    BY <1>0, <1>1 DEF Conns
  <2> QED  BY <2>1 DEF ProtectionLevel
<1>6. setup.socks # "pam.address" /\ get_method(setup'.socks) = "Gssapi"
  BY <1>0 DEF get_method
<1>7. Proven'
  BY <1>0, <1>4, <1>5, <1>6 DEF Proven
<1>8. Identified'
  BY <1>0, <1>4, <1>7 DEF Identified, Behind, Cleared, Served
<1> QED  BY <1>0, <1>4, <1>8, EarlySafe

\* A refusal before anything was reserved ends the handler.
LEMMA EarlyRefusal ==
  ASSUME HandlerInv, pc \in Early \union {"connect", "dial"},
         NEW code \in {"ConnectionNotAllowed", "HostUnreachable", "CommandNotSupported"},
         Last(code), session' = session \/ session' = "rejected",
         UNCHANGED <<setup, silent, token, held, relay, shutdown>>
  PROVE  HandlerInv'
<1>1. session = "none" /\ replies = << >> /\ held = 0 /\ relay = "off"
  BY DEF HandlerInv, Types, ReplyInv, SettleInv, Early, Fresh, Behind, Cleared, Served
<1>2. /\ Return(conn) /\ replies' \in Seq(Codes) /\ broken' \in BOOLEAN
      /\ Len(replies') <= 1 /\ (replies' # << >> \/ broken')
  BY <1>1, LastAnswers DEF HandlerInv
<1> QED  BY <1>1, <1>2, ReturnSafe DEF HandlerInv, Types

\* The limits of the user, checked before the request of a SOCKS5 client and after
\* the one of a SOCKS4 client.
LEMMA CheckLimitsSafe == ASSUME HandlerInv, CheckLimits PROVE HandlerInv'
<1> USE DEF Fresh, Early
<1>0. /\ pc = "limits" /\ conn \in Conns /\ Proven
      /\ (conn.version = "V5" <=> conn.command = "none")
      /\ UNCHANGED <<setup, silent, session, token, held, relay, shutdown>>
  BY DEF CheckLimits, At, HandlerInv, Types, ReplyInv, AuthInv, Identified, Behind, udpVars
<1>1. CASE Last("ConnectionNotAllowed")
  BY <1>0, <1>1, EarlyRefusal
<1>2. CASE /\ pc' = IF conn.version = "V5" THEN "request" ELSE "acl"
           /\ conn' = [conn EXCEPT !.counted = TRUE] /\ UNCHANGED <<replies, broken>>
  <2>1. /\ conn' \in Conns /\ conn'.version = conn.version /\ conn'.user = conn.user
        /\ conn'.groups = conn.groups /\ conn'.command = conn.command
        /\ conn'.addressOk = conn.addressOk /\ conn'.proved = conn.proved
        /\ conn'.level = conn.level /\ conn'.counted
    BY <1>0, <1>2 DEF Conns
  <2>2. Proven'
    BY <1>0, <2>1, IdentityKept
  <2>3. Identified'
    BY <1>0, <1>2, <2>1, <2>2 DEF Identified, Proven, Behind, Cleared, Served
  <2> QED  BY <1>0, <1>2, <2>1, <2>3, EarlySafe DEF Proven
<1> QED  BY <1>1, <1>2 DEF CheckLimits, Goto

\* The request; a SOCKS4 client names its user in it.
LEMMA ReadRequestSafe == ASSUME HandlerInv, ReadRequest PROVE HandlerInv'
<1> USE DEF Fresh, Early
<1>0. /\ pc = "request" /\ conn \in Conns /\ Proven /\ (conn.version = "V5" => conn.counted)
      /\ UNCHANGED <<setup, replies, broken, silent, session, token, held, relay, shutdown>>
  BY DEF ReadRequest, At, HandlerInv, Types, ReplyInv, AuthInv, Identified, Behind, udpVars
<1>1. ASSUME NEW r \in Requests5, conn.version = "V5", pc' = "acl",
             conn' = [conn EXCEPT !.command = r.command, !.dest = r.dest]
      PROVE  HandlerInv'
  <2>1. r.command \in Commands /\ r.command # "none" /\ r.dest \in Dests
    BY <1>1 DEF Requests5, Commands
  <2>2. /\ conn' \in Conns /\ conn'.version = conn.version /\ conn'.user = conn.user
        /\ conn'.command = r.command /\ conn'.addressOk = conn.addressOk
        /\ conn'.proved = conn.proved /\ conn'.level = conn.level
        /\ conn'.counted = conn.counted
    BY <1>0, <1>1, <2>1 DEF Conns
  <2>3. Proven'
    BY <1>0, <2>2 DEF Proven
  <2>4. Identified'
    BY <1>0, <1>1, <2>2, <2>3 DEF Identified, Proven, Behind, Cleared, Served
  <2> QED  BY <1>0, <1>1, <2>1, <2>2, <2>4, EarlySafe
<1>2. ASSUME NEW r \in Requests4, conn.version = "V4", pc' = "limits",
             conn' = [conn EXCEPT !.command = r.command, !.dest = r.dest, !.user = r.user]
      PROVE  HandlerInv'
  <2>1. r.command \in Commands /\ r.command # "none" /\ r.dest \in Dests /\ r.user \in Names
    BY <1>2 DEF Requests4, Commands, Names
  <2>2. /\ conn' \in Conns /\ conn'.version = "V4" /\ conn'.command = r.command
        /\ conn'.addressOk = conn.addressOk /\ conn'.proved = conn.proved
        /\ conn'.level = conn.level
    BY <1>0, <1>2, <2>1 DEF Conns
  <2>3. Proven'
    BY <1>0, <1>2, <2>2 DEF Proven
  <2>4. Identified'
    BY <1>0, <1>2, <2>2, <2>3 DEF Identified, Proven, Behind, Cleared, Served
  <2> QED  BY <1>0, <1>2, <2>1, <2>2, <2>4, EarlySafe
<1> QED  BY <1>1, <1>2 DEF ReadRequest, Goto

\* A request the ACL blocks is recorded and refused.
LEMMA AclBlockSafe == ASSUME HandlerInv, AclBlock PROVE HandlerInv'
BY EarlyRefusal DEF AclBlock, At, Early, udpVars

\* A request the ACL allows goes to the handler of its command.
LEMMA DispatchSafe == ASSUME HandlerInv, Dispatch PROVE HandlerInv'
<1>0. /\ pc = "acl" /\ AclAllows /\ conn \in Conns /\ conn.command # "none"
      /\ UNCHANGED <<setup, silent, session, token, held, relay, shutdown>>
  BY DEF Dispatch, At, HandlerInv, Types, ReplyInv, udpVars
<1>1. CASE Last("CommandNotSupported")
  BY <1>0, <1>1, EarlyRefusal DEF Early
<1>2. CASE pc' = conn.command /\ UNCHANGED <<conn, replies, broken>>
  <2>1. pc' \in {"connect", "bind", "udp"}
    BY <1>0, <1>2 DEF Conns, Commands
  <2>2. /\ session = "none" /\ replies = << >> /\ held = 0 /\ relay = "off"
        /\ Proven /\ conn.counted /\ (setup.client = "pam.address" => conn.addressOk)
    BY <1>0 DEF HandlerInv, Types, ReplyInv, SettleInv, AuthInv, Identified, Fresh, Behind,
                Cleared, Served
  <2>3. (Proven <=> Proven') /\ (AclAllows <=> AclAllows')
    BY <1>0, <1>2, IdentityKept
  <2>4. Types'
    BY <1>0, <1>2, <2>1 DEF HandlerInv, Types, Behind, Cleared
  <2>5. AuthInv'
    BY <1>0, <1>2, <2>1, <2>2, <2>3 DEF AuthInv, Identified, Fresh, Behind, Cleared, Served
  <2>6. ReplyInv'
    BY <1>0, <1>2, <2>1, <2>2 DEF ReplyInv, Fresh, Behind, Cleared, Served
  <2>7. SettleInv'
    BY <1>0, <1>2, <2>1, <2>2 DEF SettleInv, Fresh, Behind, Cleared, Served
  <2> QED  BY <2>4, <2>5, <2>6, <2>7 DEF HandlerInv
<1> QED  BY <1>1, <1>2 DEF Dispatch, Goto

-----------------------------------------------------------------------------
(* The commands                                                            *)

\* A step of a command after which the handler goes on, the connection as it was.
LEMMA ServiceSafe ==
  ASSUME HandlerInv, pc \in Cleared, pc' \in Cleared, UNCHANGED <<setup, conn, silent, token>>,
         session' = session \/ session' = Closed \/ (session' = "active" /\ pc' \in Served),
         session' = "none" \/ pc' \in Served, session' # "rejected" \/ session = "rejected",
         replies' \in Seq(Codes), broken' \in BOOLEAN, shutdown' \in BOOLEAN, held' \in Int,
         relay' \in {"off", "running", "stopping", "ended"},
         ReplyInv', SettleInv'
  PROVE  HandlerInv'
<1> USE DEF Fresh, Behind, Cleared, Served
<1>1. (Proven <=> Proven') /\ (AclAllows <=> AclAllows')
  BY IdentityKept
<1>2. Types'
  BY DEF HandlerInv, Types, Closed
<1>3. AuthInv'
  BY <1>1 DEF HandlerInv, AuthInv, Identified, Types, Closed
<1> QED  BY <1>2, <1>3 DEF HandlerInv

\* The candidates of CONNECT are looked up.
LEMMA ResolveSafe == ASSUME HandlerInv, Resolve PROVE HandlerInv'
<1>1. /\ pc = "connect" /\ UNCHANGED <<setup, silent, session, token, held, relay, shutdown>>
      /\ \/ Last("HostUnreachable")
         \/ pc' = "dial" /\ UNCHANGED <<conn, replies, broken>>
  BY DEF Resolve, At, Goto, udpVars
<1>2. CASE Last("HostUnreachable")
  BY <1>1, <1>2, EarlyRefusal
<1>3. CASE pc' = "dial" /\ UNCHANGED <<conn, replies, broken>>
  <2>1. ReplyInv' /\ SettleInv'
    BY <1>1, <1>3 DEF HandlerInv, ReplyInv, SettleInv, Fresh, Behind, Cleared, Served
  <2>2. session = "none" /\ Types
    BY <1>1 DEF HandlerInv, SettleInv, Types, Behind, Cleared, Served
  <2> QED  BY <1>1, <1>3, <2>1, <2>2, ServiceSafe DEF Types, Cleared
<1> QED  BY <1>1, <1>2, <1>3

\* connection_pool.get: a connection, the next candidate, or no more of them.
LEMMA DialSafe == ASSUME HandlerInv, Dial PROVE HandlerInv'
<1> USE DEF Fresh, Behind, Cleared, Served
<1>1. /\ pc = "dial" /\ UNCHANGED <<setup, silent, session, token, relay, shutdown>>
      /\ \/ pc' = "open" /\ held' = held + 1 /\ UNCHANGED <<conn, replies, broken>>
         \/ pc' = "dial" /\ UNCHANGED <<conn, replies, broken, held>>
         \/ Last("HostUnreachable") /\ UNCHANGED held
  BY DEF Dial, At, Goto, udpVars
<1>2. CASE Last("HostUnreachable") /\ UNCHANGED held
  BY <1>1, <1>2, EarlyRefusal
<1>3. CASE /\ UNCHANGED <<conn, replies, broken>>
           /\ \/ pc' = "open" /\ held' = held + 1
              \/ pc' = "dial" /\ UNCHANGED held
  <2>1. ReplyInv' /\ SettleInv'
    BY <1>1, <1>3 DEF HandlerInv, ReplyInv, SettleInv
  <2>2. session = "none" /\ Types
    BY <1>1 DEF HandlerInv, SettleInv
  <2> QED  BY <1>1, <1>3, <2>1, <2>2, ServiceSafe DEF Types
<1> QED  BY <1>1, <1>2, <1>3

\* new_session_with_control, in each of the three commands.
LEMMA OpenSessionSafe == ASSUME HandlerInv, OpenSession PROVE HandlerInv'
<1> USE DEF Fresh, Behind, Cleared, Served
<1>1. /\ \/ pc = "open" /\ pc' = "reply"
         \/ pc = "bind_open" /\ pc' = "accept"
         \/ pc = "udp" /\ pc' = "udp_start"
      /\ session' = "active"
      /\ UNCHANGED <<setup, conn, replies, broken, silent, token, held, relay, shutdown>>
  BY DEF OpenSession, Goto, udpVars
<1>2. ReplyInv'
  BY <1>1 DEF HandlerInv, ReplyInv, OneSuccess
<1>3. SettleInv'
  BY <1>1 DEF HandlerInv, SettleInv
<1> QED  BY <1>1, <1>2, <1>3, ServiceSafe DEF HandlerInv, Types

\* local_addr and the reply to CONNECT, or the return by `?` that leaves both open.
LEMMA ReplyConnectSafe == ASSUME HandlerInv, ReplyConnect PROVE HandlerInv'
<1> USE DEF Fresh, Behind, Cleared, Served
<1>1. /\ pc = "reply" /\ UNCHANGED <<setup, silent, session, token, held, relay, shutdown>>
      /\ \/ Write("Succeeded") /\ pc' = "relaying" /\ conn' = conn
         \/ WriteFails /\ Return(conn)
  BY DEF ReplyConnect, At, Goto, udpVars
<1>2. CASE WriteFails /\ Return(conn)
  <2>1. broken' = TRUE /\ replies' = replies /\ Types
    BY <1>2 DEF WriteFails, HandlerInv
  <2>2. held \in -1 .. 1 /\ held # -1 /\ Len(replies) <= 1
    BY <1>1 DEF HandlerInv, SettleInv, ReplyInv, OneSuccess
  <2> QED  BY <1>1, <1>2, <2>1, <2>2, ReturnSafe DEF Types
<1>3. CASE Write("Succeeded") /\ pc' = "relaying" /\ conn' = conn
  <2>1. /\ replies' \in Seq(Codes) /\ Len(replies') = Len(replies) + 1 /\ broken' = broken
        /\ \A i \in 1 .. Len(replies) : replies'[i] = replies[i]
        /\ IsSuccess(replies'[Len(replies) + 1])
    BY <1>3, WriteAppends DEF HandlerInv
  <2>2. ReplyInv'
    BY <1>1, <1>3, <2>1 DEF HandlerInv, ReplyInv, OneSuccess, TwoSuccesses
  <2>3. SettleInv'
    BY <1>1, <1>3 DEF HandlerInv, SettleInv, ReplyInv
  <2> QED  BY <1>1, <1>3, <2>1, <2>2, <2>3, ServiceSafe DEF HandlerInv, Types
<1> QED  BY <1>1, <1>2, <1>3

\* proxy_data returns.
LEMMA RelayingEndsSafe == ASSUME HandlerInv, RelayingEnds PROVE HandlerInv'
<1> USE DEF Fresh, Behind, Cleared, Served
<1>1. /\ pc = "relaying" /\ pc' = "settle"
      /\ UNCHANGED <<setup, conn, replies, broken, silent, session, token, held, relay, shutdown>>
  BY DEF RelayingEnds, At, Goto, udpVars
<1>2. ReplyInv'
  BY <1>1 DEF HandlerInv, ReplyInv, OneSuccess, TwoSuccesses
<1>3. SettleInv'
  BY <1>1 DEF HandlerInv, SettleInv
<1> QED  BY <1>1, <1>2, <1>3, ServiceSafe DEF HandlerInv, Types

\* put or release, then close_session.
LEMMA SettleSafe == ASSUME HandlerInv, Settle PROVE HandlerInv'
<1> USE DEF Fresh, Behind, Cleared, Served
<1>1. /\ pc = "settle" /\ held' = held - 1 /\ session' = Closed /\ Return(conn)
      /\ UNCHANGED <<setup, replies, broken, silent, token, relay, shutdown>>
  BY DEF Settle, At, udpVars
<1>2. /\ Types /\ conn.command \in {"connect", "bind"}
      /\ held = IF conn.command = "connect" THEN 1 ELSE 0
      /\ OneSuccess \/ (conn.command = "bind" /\ TwoSuccesses)
  BY <1>1 DEF HandlerInv, SettleInv, ReplyInv
<1>3. /\ replies # << >>
      /\ Len(replies) <= 1 \/ (Len(replies) = 2 /\ conn.command = "bind" /\ IsSuccess(replies[1]))
  BY <1>2 DEF OneSuccess, TwoSuccesses
<1>4. held' \in -1 .. 1 /\ held' # 1 /\ (held' = -1 => conn.command = "bind")
  BY <1>1, <1>2
<1>5. session' # "active"
  BY <1>1 DEF Closed
<1> QED  BY <1>1, <1>2, <1>3, <1>4, <1>5, ReturnSafe DEF Types

\* BIND: the listener and the first reply, or nothing is said at all.
LEMMA BindListenSafe == ASSUME HandlerInv, BindListen PROVE HandlerInv'
<1> USE DEF Fresh, Behind, Cleared, Served
<1>1. /\ pc = "bind" /\ UNCHANGED <<setup, session, token, held, relay, shutdown>>
      /\ \/ Write("Succeeded") /\ pc' = "bind_open" /\ UNCHANGED <<conn, silent>>
         \/ WriteFails /\ Return(conn) /\ UNCHANGED silent
         \/ silent' = TRUE /\ Return(conn) /\ UNCHANGED <<replies, broken>>
  BY DEF BindListen, At, Goto, udpVars
<1>2. Types /\ replies = << >> /\ held = 0 /\ session = "none"
  BY <1>1 DEF HandlerInv, ReplyInv, SettleInv
<1>3. CASE WriteFails /\ Return(conn) /\ UNCHANGED silent
  BY <1>1, <1>2, <1>3, ReturnSafe DEF WriteFails, Types
<1>4. CASE silent' = TRUE /\ Return(conn) /\ UNCHANGED <<replies, broken>>
  BY <1>1, <1>2, <1>4, ReturnSafe DEF Types
<1>5. CASE Write("Succeeded") /\ pc' = "bind_open" /\ UNCHANGED <<conn, silent>>
  <2>1. /\ replies' \in Seq(Codes) /\ Len(replies') = 1 /\ broken' = broken
        /\ IsSuccess(replies'[1])
    BY <1>2, <1>5, WriteAppends
  <2>2. ReplyInv'
    BY <1>1, <1>5, <2>1 DEF HandlerInv, ReplyInv, OneSuccess
  <2>3. SettleInv'
    BY <1>1, <1>5 DEF HandlerInv, SettleInv
  <2> QED  BY <1>1, <1>2, <1>5, <2>1, <2>2, <2>3, ServiceSafe DEF Types
<1> QED  BY <1>1, <1>3, <1>4, <1>5

\* The peer of BIND and the second reply.
LEMMA BindAcceptSafe == ASSUME HandlerInv, BindAccept PROVE HandlerInv'
<1> USE DEF Fresh, Behind, Cleared, Served
<1>1. /\ pc = "accept" /\ UNCHANGED <<setup, silent, session, token, held, relay, shutdown>>
      /\ \/ Write("Succeeded") /\ pc' = "relaying" /\ conn' = conn
         \/ WriteFails /\ Return(conn)
  BY DEF BindAccept, At, Goto, udpVars
<1>2. Types /\ held = 0 /\ conn.command = "bind" /\ OneSuccess
  BY <1>1 DEF HandlerInv, SettleInv, ReplyInv
<1>3. CASE WriteFails /\ Return(conn)
  <2>1. broken' = TRUE /\ replies' = replies /\ Types
    BY <1>2, <1>3 DEF WriteFails
  <2>2. Len(replies) <= 1
    BY <1>2 DEF OneSuccess
  <2> QED  BY <1>1, <1>2, <1>3, <2>1, <2>2, ReturnSafe DEF Types
<1>4. CASE Write("Succeeded") /\ pc' = "relaying" /\ conn' = conn
  <2>1. /\ replies' \in Seq(Codes) /\ Len(replies') = Len(replies) + 1 /\ broken' = broken
        /\ \A i \in 1 .. Len(replies) : replies'[i] = replies[i]
        /\ IsSuccess(replies'[Len(replies) + 1])
    BY <1>4, WriteAppends DEF HandlerInv
  <2>2. TwoSuccesses'
    BY <1>2, <2>1 DEF OneSuccess, TwoSuccesses
  <2>3. ReplyInv'
    BY <1>2, <1>4, <2>2 DEF ReplyInv
  <2>4. SettleInv'
    BY <1>1, <1>2, <1>4 DEF HandlerInv, SettleInv
  <2> QED  BY <1>1, <1>2, <1>4, <2>1, <2>3, <2>4, ServiceSafe DEF Types
<1> QED  BY <1>1, <1>3, <1>4

\* No peer came: the session stays open if that cannot be said.
LEMMA BindGivesUpSafe == ASSUME HandlerInv, BindGivesUp PROVE HandlerInv'
<1> USE DEF Fresh, Behind, Cleared, Served
<1>1. /\ pc = "accept" /\ Return(conn) /\ UNCHANGED <<setup, silent, token, held, relay, shutdown>>
      /\ \/ Write("GeneralFailure") /\ session' = Closed
         \/ WriteFails /\ UNCHANGED session
  BY DEF BindGivesUp, At, udpVars
<1>2. /\ Types /\ held = 0
      /\ \/ Len(replies) = 0
         \/ Len(replies) = 1 /\ IsSuccess(replies[1]) /\ conn.command = "bind"
  BY <1>1 DEF HandlerInv, SettleInv, ReplyInv, OneSuccess
<1>3. CASE WriteFails /\ UNCHANGED session
  <2>1. broken' = TRUE /\ replies' = replies
    BY <1>3 DEF WriteFails
  <2>2. Len(replies) <= 1
    BY <1>2 DEF IsSuccess
  <2> QED  BY <1>1, <1>2, <1>3, <2>1, <2>2, ReturnSafe DEF Types
<1>4. CASE Write("GeneralFailure") /\ session' = Closed
  <2>1. /\ replies' \in Seq(Codes) /\ Len(replies') = Len(replies) + 1 /\ broken' = broken
        /\ \A i \in 1 .. Len(replies) : replies'[i] = replies[i]
    BY <1>2, <1>4, WriteAppends
  <2>2. /\ replies' # << >>
        /\ \/ Len(replies') = 1
           \/ Len(replies') = 2 /\ IsSuccess(replies'[1]) /\ conn.command = "bind"
    BY <1>2, <2>1
  <2>3. session' # "active"
    BY <1>4 DEF Closed
  <2> QED  BY <1>1, <1>2, <1>4, <2>1, <2>2, <2>3, ReturnSafe DEF Types
<1> QED  BY <1>1, <1>3, <1>4

\* The UDP relay task is spawned.
LEMMA UdpStartSafe == ASSUME HandlerInv, UdpStart PROVE HandlerInv'
<1> USE DEF Fresh, Behind, Cleared, Served
<1>1. /\ pc = "udp_start" /\ pc' = "udp_reply" /\ relay' = "running"
      /\ UNCHANGED <<setup, conn, replies, broken, silent, session, token, held, shutdown>>
  BY DEF UdpStart, At, Goto
<1>2. ReplyInv'
  BY <1>1 DEF HandlerInv, ReplyInv
<1>3. SettleInv'
  BY <1>1 DEF HandlerInv, SettleInv
<1> QED  BY <1>1, <1>2, <1>3, ServiceSafe DEF HandlerInv, Types

\* The UDP socket cannot be bound.
LEMMA UdpStartFailsSafe == ASSUME HandlerInv, UdpStartFails PROVE HandlerInv'
<1> USE DEF Fresh, Behind, Cleared, Served
<1>1. /\ pc = "udp_start" /\ Return(conn)
      /\ UNCHANGED <<setup, silent, token, held, relay, shutdown>>
      /\ \/ Write("GeneralFailure") /\ session' = Closed
         \/ WriteFails /\ UNCHANGED session
  BY DEF UdpStartFails, At, udpVars
<1>2. /\ Types /\ held = 0
      /\ \/ Len(replies) = 0
         \/ Len(replies) = 1 /\ IsSuccess(replies[1]) /\ conn.command = "bind"
  BY <1>1 DEF HandlerInv, SettleInv, ReplyInv, OneSuccess
<1>3. CASE WriteFails /\ UNCHANGED session
  <2>1. broken' = TRUE /\ replies' = replies
    BY <1>3 DEF WriteFails
  <2>2. Len(replies) <= 1
    BY <1>2
  <2> QED  BY <1>1, <1>2, <1>3, <2>1, <2>2, ReturnSafe DEF Types
<1>4. CASE Write("GeneralFailure") /\ session' = Closed
  <2>1. /\ replies' \in Seq(Codes) /\ Len(replies') = Len(replies) + 1 /\ broken' = broken
        /\ \A i \in 1 .. Len(replies) : replies'[i] = replies[i]
    BY <1>2, <1>4, WriteAppends
  <2>2. /\ replies' # << >>
        /\ \/ Len(replies') = 1
           \/ Len(replies') = 2 /\ IsSuccess(replies'[1]) /\ conn.command = "bind"
    BY <1>2, <2>1
  <2>3. session' # "active"
    BY <1>4 DEF Closed
  <2> QED  BY <1>1, <1>2, <1>4, <2>1, <2>2, <2>3, ReturnSafe DEF Types
<1> QED  BY <1>1, <1>3, <1>4

\* The reply to UDP ASSOCIATE; if it is lost the relay is left behind.
LEMMA UdpReplySafe == ASSUME HandlerInv, UdpReply PROVE HandlerInv'
<1> USE DEF Fresh, Behind, Cleared, Served
<1>1. /\ pc = "udp_reply" /\ UNCHANGED <<setup, silent, session, token, held, relay, shutdown>>
      /\ \/ Write("Succeeded") /\ pc' = "control" /\ conn' = conn
         \/ WriteFails /\ Return(conn)
  BY DEF UdpReply, At, Goto, udpVars
<1>2. CASE WriteFails /\ Return(conn)
  <2>1. broken' = TRUE /\ replies' = replies /\ Types
    BY <1>2 DEF WriteFails, HandlerInv
  <2>2. held \in -1 .. 1 /\ held # -1 /\ Len(replies) <= 1
    BY <1>1 DEF HandlerInv, SettleInv, ReplyInv, OneSuccess
  <2> QED  BY <1>1, <1>2, <2>1, <2>2, ReturnSafe DEF Types
<1>3. CASE Write("Succeeded") /\ pc' = "control" /\ conn' = conn
  <2>1. /\ replies' \in Seq(Codes) /\ Len(replies') = Len(replies) + 1 /\ broken' = broken
        /\ \A i \in 1 .. Len(replies) : replies'[i] = replies[i]
        /\ IsSuccess(replies'[Len(replies) + 1])
    BY <1>3, WriteAppends DEF HandlerInv
  <2>2. ReplyInv'
    BY <1>1, <1>3, <2>1 DEF HandlerInv, ReplyInv, OneSuccess, TwoSuccesses
  <2>3. SettleInv'
    BY <1>1, <1>3 DEF HandlerInv, SettleInv, ReplyInv
  <2> QED  BY <1>1, <1>3, <2>1, <2>2, <2>3, ServiceSafe DEF HandlerInv, Types
<1> QED  BY <1>1, <1>2, <1>3

\* The control connection is closed.
LEMMA ControlClosedSafe == ASSUME HandlerInv, ControlClosed PROVE HandlerInv'
<1> USE DEF Fresh, Behind, Cleared, Served
<1>1. /\ pc = "control" /\ pc' = "udp_close" /\ shutdown' \in BOOLEAN
      /\ UNCHANGED <<setup, conn, replies, broken, silent, session, token, held, relay>>
  BY DEF ControlClosed, At, Goto, HandlerInv, Types
<1>2. ReplyInv'
  BY <1>1 DEF HandlerInv, ReplyInv, OneSuccess
<1>3. SettleInv'
  BY <1>1 DEF HandlerInv, SettleInv
<1> QED  BY <1>1, <1>2, <1>3, ServiceSafe DEF HandlerInv, Types

\* The ways the handler of a UDP association ends: with the session closed, or
\* leaving it to the relay.
LEMMA AssociateEnds ==
  ASSUME HandlerInv, UdpClose \/ ControlData \/ ControlCancelled
  PROVE  HandlerInv'
<1> USE DEF Fresh, Behind, Cleared, Served
<1>1. /\ pc \in {"control", "udp_close"} /\ Return(conn)
      /\ session' = session \/ session' = Closed
      /\ UNCHANGED <<setup, replies, broken, silent, token, held, relay, shutdown>>
  BY DEF UdpClose, ControlData, ControlCancelled, At, udpVars
<1>2. Types /\ OneSuccess /\ held = 0 /\ relay # "off"
  BY <1>1 DEF HandlerInv, SettleInv, ReplyInv
<1>3. replies # << >> /\ Len(replies) <= 1
  BY <1>2 DEF OneSuccess
<1> QED  BY <1>1, <1>2, <1>3, ReturnSafe DEF Types

-----------------------------------------------------------------------------
(* The relay task and the administrator                                    *)

\* What happens beside the handler changes neither what it knows nor what it said;
\* the session can only be closed, and is when the relay has ended.
LEMMA AsideSafe ==
  ASSUME HandlerInv,
         UNCHANGED <<setup, pc, conn, replies, broken, silent, held>>,
         token' \in BOOLEAN, shutdown' \in BOOLEAN,
         session' = session \/ session' = Closed,
         relay' = relay \/ (relay = "running" /\ relay' = "stopping")
           \/ (relay = "stopping" /\ relay' = "ended" /\ session' = Closed)
  PROVE  HandlerInv'
<1>1. (Proven <=> Proven') /\ (AclAllows <=> AclAllows')
  BY IdentityKept
<1>2. Types'
  BY DEF HandlerInv, Types, Closed
<1>3. AuthInv'
  BY <1>1 DEF HandlerInv, AuthInv, Identified, Closed
<1>4. ReplyInv'
  BY DEF HandlerInv, ReplyInv, OneSuccess, TwoSuccesses
<1>5. SettleInv'
  BY DEF HandlerInv, SettleInv, Closed
<1> QED  BY <1>2, <1>3, <1>4, <1>5 DEF HandlerInv

\* Each step of the relay task and of terminate_session is such a step.
LEMMA AsideSteps ==
  ASSUME HandlerInv, UdpRelay \/ Terminate \/ UNCHANGED vars
  PROVE  HandlerInv'
<1> USE AsideSafe DEF hVars, udpVars
<1>0. Types
  BY DEF HandlerInv
<1>1. CASE ClientPacket
  BY <1>0, <1>1 DEF ClientPacket, Types
<1>2. CASE DestinationPacket
  BY <1>0, <1>2 DEF DestinationPacket, Types
<1>3. CASE RelayShutdown
  BY <1>0, <1>3 DEF RelayShutdown, Types
<1>4. CASE RelayIdle
  BY <1>0, <1>4 DEF RelayIdle, Types
<1>5. CASE RelayEnds
  BY <1>0, <1>5 DEF RelayEnds, Types
<1>6. CASE TerminateCancel
  <2>1. shutdown' \in BOOLEAN
    BY <1>0, <1>6 DEF TerminateCancel, Types
  <2> QED  BY <1>0, <1>6, <2>1 DEF TerminateCancel, Types
<1>7. CASE TerminateClose
  BY <1>0, <1>7 DEF TerminateClose, Types
<1>8. CASE UNCHANGED vars
  BY <1>0, <1>8 DEF vars, Types
<1> QED  BY <1>1, <1>2, <1>3, <1>4, <1>5, <1>6, <1>7, <1>8 DEF UdpRelay, Terminate

-----------------------------------------------------------------------------
(* The invariant and the properties                                        *)

\* It holds when the connection has been accepted.
LEMMA InitInv == ASSUME Init PROVE HandlerInv
<1> USE DEF Init, Fresh, Behind, Cleared, Served
<1>1. /\ conn \in Conns /\ conn.user = Anonymous /\ conn.command = "none"
  BY DEF Unknown, Conns, Names, GroupSets
<1>2. Types
  <2>1. replies \in Seq(Codes) /\ held \in Int
    OBVIOUS
  <2> QED  BY <1>1, <2>1 DEF Types
<1>3. AuthInv
  BY <1>1 DEF AuthInv, Identified
<1>4. ReplyInv
  BY <1>1 DEF ReplyInv
<1>5. SettleInv
  BY <1>1 DEF SettleInv
<1> QED  BY <1>2, <1>3, <1>4, <1>5 DEF HandlerInv

\* Every step keeps it.
LEMMA NextInv == ASSUME HandlerInv, [Next]_vars PROVE HandlerInv'
<1>1. CASE Handshake
  BY <1>1, AuthenticateClientSafe, UnreadableSafe, ReadVersion5Safe, ReadVersion4Safe,
     GreetingSafe, AuthenticateNoneSafe, AuthenticateUserSafe, GssTokenSafe, GssProtectionSafe,
     CheckLimitsSafe, ReadRequestSafe, AclBlockSafe, DispatchSafe DEF Handshake
<1>2. CASE Connect
  BY <1>2, ResolveSafe, DialSafe, OpenSessionSafe, ReplyConnectSafe, RelayingEndsSafe, SettleSafe
     DEF Connect
<1>3. CASE Bind
  BY <1>3, BindListenSafe, BindAcceptSafe, BindGivesUpSafe DEF Bind
<1>4. CASE Associate
  BY <1>4, UdpStartSafe, UdpStartFailsSafe, UdpReplySafe, ControlClosedSafe, AssociateEnds
     DEF Associate
<1>5. CASE UdpRelay \/ Terminate \/ UNCHANGED vars
  BY <1>5, AsideSteps
<1> QED  BY <1>1, <1>2, <1>3, <1>4, <1>5 DEF Next

\* The inductive invariant: what the handler knows, said and holds, at each place
\* of handle_client, handle_socks5, handle_socks4 and the three commands.
THEOREM HandlerAlways == Spec => []HandlerInv
<1>1. Init => HandlerInv
  BY InitInv
<1>2. HandlerInv /\ [Next]_vars => HandlerInv'
  BY NextInv
<1> QED  BY <1>1, <1>2, PTL DEF Spec

\* Whatever backends the server runs with and whatever its clients send, a session
\* is opened only for a client that proved who it is and that the ACL allows, and a
\* client is answered as its command requires (handler.rs).
THEOREM HandshakesSound == Spec => []HandshakeSound
<1>1. HandlerInv => Entitled
  <2> SUFFICES ASSUME HandlerInv, session \in {"active", "ended"} PROVE Entitled
    BY DEF Entitled
  <2>1. /\ Proven /\ AclAllows /\ (pc = "done" \/ conn.counted)
    BY DEF HandlerInv, AuthInv, Identified, Served, Cleared, Behind
  <2> QED  BY <2>1 DEF Entitled, Proven, At
<1>2. HandlerInv => Answered
  <2> SUFFICES ASSUME HandlerInv PROVE Answered
    OBVIOUS
  <2> USE DEF Fresh, Behind, Cleared, Served
  <2>0. Types /\ ReplyInv
    BY DEF HandlerInv
  <2>1. At("done") /\ conn.command # "none" => replies # << >> \/ broken \/ silent
    BY <2>0 DEF ReplyInv, At
  <2>2. \/ Len(replies) <= 1
        \/ Len(replies) = 2 /\ conn.command = "bind" /\ IsSuccess(replies[1])
    <3>1. CASE pc = "done"
      BY <2>0, <3>1 DEF ReplyInv
    <3>2. CASE replies = << >>
      BY <3>2
    <3>3. CASE OneSuccess \/ (conn.command = "bind" /\ TwoSuccesses)
      <4>1. CASE OneSuccess
        BY <4>1 DEF OneSuccess
      <4>2. CASE conn.command = "bind" /\ TwoSuccesses
        BY <4>2 DEF TwoSuccesses
      <4> QED  BY <3>3, <4>1, <4>2
    <3> QED  BY <2>0, <3>1, <3>2, <3>3 DEF ReplyInv, Types
  <2>3. At("relaying") \/ At("control") => IsSuccess(replies[Len(replies)])
    BY <2>0 DEF ReplyInv, At, OneSuccess, TwoSuccesses
  <2>4. Len(replies) \in Nat
    BY <2>0 DEF Types
  <2> QED  BY <2>1, <2>2, <2>3, <2>4 DEF Answered
<1>3. HandlerInv => HandshakeSound
  BY <1>1, <1>2 DEF HandshakeSound
<1> QED  BY <1>3, HandlerAlways, PTL

\* When the handler and its relay are gone, only a failed write can have left the
\* session open or a connection with the handler, and only BIND gives the pool a
\* connection it never took (handler.rs:727, bind.rs:170).
THEOREM SessionsAlwaysSettled == Spec => []SessionsSettled
<1>1. HandlerInv => SessionsSettled
  BY DEF HandlerInv, SettleInv, SessionsSettled, At
<1> QED  BY <1>1, HandlerAlways, PTL

-----------------------------------------------------------------------------
(* The reverse map of the UDP relay                                        *)

\* An entry of the map is written with the datagram that asks for it, and an answer
\* is only sent by an entry: whatever the names resolve to and whatever the order of
\* the datagrams, the relay answers a port of the client only for an address that
\* port wrote to (udp.rs:246).
THEOREM AnswersAlwaysInvited == Spec => []AnswersInvited
<1>1. Init => RouteInv
  BY DEF Init, RouteInv
<1>2. ASSUME RouteInv, [Next]_vars PROVE RouteInv'
  <2>1. CASE ClientPacket
    <3>1. CASE UNCHANGED <<route, asked>>
      BY <1>2, <2>1, <3>1 DEF ClientPacket, RouteInv
    <3>2. ASSUME NEW p \in Ports, NEW a,
                 route' = [route EXCEPT ![a] = p], asked' = asked \union {<<p, a>>}
          PROVE  RouteInv'
      BY <1>2, <2>1, <3>2 DEF ClientPacket, RouteInv
    <3> QED  BY <2>1, <3>1, <3>2 DEF ClientPacket
  <2>2. CASE DestinationPacket
    BY <1>2, <2>2 DEF DestinationPacket, RouteInv
  <2>3. CASE UNCHANGED <<route, asked, given>>
    BY <1>2, <2>3 DEF RouteInv
  <2>4. Handshake => UNCHANGED <<route, asked, given>>
    BY DEF Handshake, AuthenticateClient, Unreadable, ReadVersion5, ReadVersion4, Greeting,
           AuthenticateNone, AuthenticateUser, GssToken, GssProtection, CheckLimits,
           ReadRequest, AclBlock, Dispatch, udpVars
  <2>5. Connect \/ Bind => UNCHANGED <<route, asked, given>>
    BY DEF Connect, Resolve, Dial, OpenSession, ReplyConnect, RelayingEnds, Settle,
           Bind, BindListen, BindAccept, BindGivesUp, udpVars
  <2>6. Associate => UNCHANGED <<route, asked, given>>
    BY DEF Associate, UdpStart, UdpStartFails, UdpReply, ControlClosed, UdpClose, ControlData,
           ControlCancelled, udpVars
  <2>7. RelayShutdown \/ RelayIdle \/ RelayEnds \/ Terminate => UNCHANGED <<route, asked, given>>
    BY DEF RelayShutdown, RelayIdle, RelayEnds, Terminate, TerminateCancel, TerminateClose, udpVars
  <2>8. UNCHANGED vars => UNCHANGED <<route, asked, given>>
    BY DEF vars, udpVars
  <2> QED  BY <1>2, <2>1, <2>2, <2>3, <2>4, <2>5, <2>6, <2>7, <2>8 DEF Next, UdpRelay
<1>3. RouteInv => AnswersInvited
  BY DEF RouteInv, AnswersInvited
<1> QED  BY <1>1, <1>2, <1>3, PTL DEF Spec

=============================================================================
