----------------------------- MODULE ProxyRelay -----------------------------
(***************************************************************************)
(* One CONNECT request after the ACL has allowed it: handle_connect of     *)
(* server/handler.rs and the two relay tasks that proxy_data of            *)
(* server/proxy.rs spawns and joins.  The session manager and the pool     *)
(* appear as the calls this code makes on them (ConnectionPool and         *)
(* SessionManager model their inside); the client, the upstream server and *)
(* an administrator who terminates the session are the environment.        *)
(*                                                                         *)
(* Packets are counted, their contents are not modelled.                   *)
(***************************************************************************)
EXTENDS Naturals

CONSTANTS
  PacketInterval,  \* TrafficUpdateConfig.packet_interval
  MaxPackets       \* bound: packets read in one direction

ASSUME RelayConstants ==
  /\ PacketInterval \in Nat \ {0}     \* TrafficUpdateConfig::new replaces 0 by 1
  /\ MaxPackets \in Nat

Dir == {"up", "down"}

VARIABLES
  hpc,         \* control of handle_connect
  session,     \* "none", "active" or "closed" in the session manager
  upstream,    \* "none", "out" (checked out of the pool) or "returned"
  outcome,     \* what proxy_data returned
  token,       \* the CancellationToken is cancelled
  admin,       \* the administrator's terminate_session: "idle", "closing", "done"
  dpc,         \* per direction: control of the relay task
  eof,         \* client_closed (up) and remote_closed (down)
  result,      \* what the relay task returned
  total,       \* totals.packets
  pending,     \* pending_packets
  counted      \* packets the session has been credited with

relayVars == <<dpc, eof, result, total, pending, counted>>
vars == <<hpc, session, upstream, outcome, token, admin, relayVars>>

HandlerPCs == {"start", "connected", "reply", "relaying", "settle", "close", "done"}
RelayPCs   == {"off", "read", "allocate", "write", "update", "final", "fail", "ended"}
Outcomes   == {"none", "reuse", "refresh", "closed", "error"}

Init ==
  /\ hpc = "start" /\ session = "none" /\ upstream = "none" /\ outcome = "none"
  /\ token = FALSE /\ admin = "idle"
  /\ dpc = [d \in Dir |-> "off"]
  /\ eof = [d \in Dir |-> FALSE]
  /\ result = [d \in Dir |-> "none"]
  /\ total = [d \in Dir |-> 0]
  /\ pending = [d \in Dir |-> 0]
  /\ counted = [d \in Dir |-> 0]

-----------------------------------------------------------------------------
(* handle_connect                                                          *)

\* Resolution fails, no candidate has the right family, or every pool.get does.
ConnectFails ==
  /\ hpc = "start" /\ hpc' = "done"
  /\ UNCHANGED <<session, upstream, outcome, token, admin, relayVars>>

\* pool.get hands out a connection for one of the candidates.
Connected ==
  /\ hpc = "start" /\ hpc' = "connected"
  /\ upstream' = "out"
  /\ UNCHANGED <<session, outcome, token, admin, relayVars>>

NewSession ==
  /\ hpc = "connected" /\ hpc' = "reply"
  /\ session' = "active"
  /\ UNCHANGED <<upstream, outcome, token, admin, relayVars>>

\* local_addr fails, the bind address does not suit SOCKS4, or the reply cannot
\* be written: handle_connect returns there and then.
ReplyFails ==
  /\ hpc = "reply" /\ hpc' = "done"
  /\ UNCHANGED <<session, upstream, outcome, token, admin, relayVars>>

\* The reply is sent; proxy_data spawns both relays.
StartRelays ==
  /\ hpc = "reply" /\ hpc' = "relaying"
  /\ dpc' = [d \in Dir |-> "read"]
  /\ UNCHANGED <<session, upstream, outcome, token, admin, eof, result, total, pending, counted>>

\* What proxy_data makes of the two results.  Reuse needs a client that closed,
\* an upstream that did not, and no traffic at all.
Outcome ==
  LET errors == {d \in Dir : result[d] # "ok"}
  IN  IF errors = {}
      THEN IF eof["up"] /\ ~eof["down"] /\ total["up"] = 0 /\ total["down"] = 0
           THEN "reuse" ELSE "refresh"
      ELSE IF \E d \in errors : result[d] = "closed" THEN "closed" ELSE "error"

Join ==
  /\ hpc = "relaying" /\ \A d \in Dir : dpc[d] = "ended"
  /\ hpc' = "settle"
  /\ outcome' = Outcome
  /\ UNCHANGED <<session, upstream, token, admin, relayVars>>

\* put or release, whatever the outcome was.
Settle ==
  /\ hpc = "settle" /\ hpc' = "close"
  /\ upstream' = "returned"
  /\ UNCHANGED <<session, outcome, token, admin, relayVars>>

CloseSession ==
  /\ hpc = "close" /\ hpc' = "done"
  /\ session' = "closed"
  /\ UNCHANGED <<upstream, outcome, token, admin, relayVars>>

-----------------------------------------------------------------------------
(* terminate_session by the API, an ACL update or the shutdown             *)

\* Mutant of TerminateCancel: the token is not cancelled.
TerminateCancelSkips ==
  /\ session = "active" /\ admin = "idle" /\ admin' = "closing"
  /\ UNCHANGED <<hpc, session, upstream, outcome, token, relayVars>>

TerminateCancel ==
  /\ session = "active" /\ admin = "idle" /\ admin' = "closing"
  /\ token' = TRUE
  /\ UNCHANGED <<hpc, session, upstream, outcome, relayVars>>

TerminateClose ==
  /\ admin = "closing" /\ admin' = "done"
  /\ session' = "closed"
  /\ UNCHANGED <<hpc, upstream, outcome, token, relayVars>>

-----------------------------------------------------------------------------
(* proxy_upload and proxy_download                                         *)

Move(d, from, to) == dpc[d] = from /\ dpc' = [dpc EXCEPT ![d] = to]

\* select! takes either branch when both are ready.
ReadPacket(d) ==
  /\ total[d] < MaxPackets
  /\ Move(d, "read", "allocate")
  /\ UNCHANGED <<hpc, session, upstream, outcome, token, admin, eof, result, total, pending, counted>>

\* Mutant of ReadEof: only the client's end of stream is noted.
ReadEofUploadOnly(d) ==
  /\ Move(d, "read", "final")
  /\ eof' = [eof EXCEPT ![d] = (d = "up")]
  /\ result' = [result EXCEPT ![d] = "ok"]
  /\ UNCHANGED <<hpc, session, upstream, outcome, token, admin, total, pending, counted>>

\* End of stream, or an error that is treated as one.
ReadEof(d) ==
  /\ Move(d, "read", "final")
  /\ eof' = [eof EXCEPT ![d] = TRUE]
  /\ result' = [result EXCEPT ![d] = "ok"]
  /\ UNCHANGED <<hpc, session, upstream, outcome, token, admin, total, pending, counted>>

ReadError(d) ==
  /\ Move(d, "read", "fail")
  /\ UNCHANGED <<hpc, session, upstream, outcome, token, admin, eof, result, total, pending, counted>>

ReadCancelled(d) ==
  /\ token
  /\ Move(d, "read", "final")
  /\ result' = [result EXCEPT ![d] = "closed"]
  /\ UNCHANGED <<hpc, session, upstream, outcome, token, admin, eof, total, pending, counted>>

\* allocate_bandwidth_arc: may sleep, never fails, and does not look at the token.
Allocate(d) ==
  /\ Move(d, "allocate", "write")
  /\ UNCHANGED <<hpc, session, upstream, outcome, token, admin, eof, result, total, pending, counted>>

\* Mutant of WriteOk: a packet too many is taken to be pending.
WriteOkCountsTwice(d) ==
  /\ total' = [total EXCEPT ![d] = @ + 1]
  /\ pending' = [pending EXCEPT ![d] = @ + 2]
  /\ Move(d, "write", IF pending'[d] >= PacketInterval THEN "update" ELSE "read")
  /\ UNCHANGED <<hpc, session, upstream, outcome, token, admin, eof, result, counted>>

\* write_all is outside the select!: it waits for the peer and nothing else.
WriteOk(d) ==
  /\ total' = [total EXCEPT ![d] = @ + 1]
  /\ pending' = [pending EXCEPT ![d] = @ + 1]
  /\ Move(d, "write", IF pending'[d] >= PacketInterval THEN "update" ELSE "read")
  /\ UNCHANGED <<hpc, session, upstream, outcome, token, admin, eof, result, counted>>

WriteClosed(d) ==
  /\ Move(d, "write", "final")
  /\ eof' = [eof EXCEPT ![d] = TRUE]
  /\ result' = [result EXCEPT ![d] = "ok"]
  /\ UNCHANGED <<hpc, session, upstream, outcome, token, admin, total, pending, counted>>

WriteError(d) ==
  /\ Move(d, "write", "fail")
  /\ UNCHANGED <<hpc, session, upstream, outcome, token, admin, eof, result, total, pending, counted>>

\* update_traffic with what is pending; it finds an active session only.
Flush(d) ==
  /\ counted' = [counted EXCEPT ![d] = IF session = "active" THEN @ + pending[d] ELSE @]
  /\ pending' = [pending EXCEPT ![d] = 0]

Update(d) ==
  /\ Move(d, "update", "read")
  /\ Flush(d)
  /\ UNCHANGED <<hpc, session, upstream, outcome, token, admin, eof, result, total>>

\* Mutant of Final: the last flush is forgotten.
FinalNoFlush(d) ==
  /\ Move(d, "final", "ended")
  /\ token' = TRUE
  /\ UNCHANGED <<hpc, session, upstream, outcome, admin, eof, result, total, pending, counted>>

\* Mutant of Final: the other direction is not cancelled.
FinalNoCancel(d) ==
  /\ Move(d, "final", "ended")
  /\ Flush(d)
  /\ UNCHANGED <<hpc, session, upstream, outcome, token, admin, eof, result, total>>

\* After the loop: flush, then cancel the token for the other direction.
Final(d) ==
  /\ Move(d, "final", "ended")
  /\ Flush(d)
  /\ token' = TRUE
  /\ UNCHANGED <<hpc, session, upstream, outcome, admin, eof, result, total>>

\* A real IO error: flush and return; the token stays as it is.
Fail(d) ==
  /\ Move(d, "fail", "ended")
  /\ Flush(d)
  /\ result' = [result EXCEPT ![d] = "io"]
  /\ UNCHANGED <<hpc, session, upstream, outcome, token, admin, eof, total>>

-----------------------------------------------------------------------------
Write(d) == WriteOk(d) \/ WriteClosed(d) \/ WriteError(d)
Inner(d) == Allocate(d) \/ Update(d) \/ Final(d) \/ Fail(d)
Handler  == Connected \/ ConnectFails \/ NewSession \/ ReplyFails \/ StartRelays
            \/ Join \/ Settle \/ CloseSession
Admin    == TerminateCancel \/ TerminateClose

Next ==
  \/ Handler \/ Admin
  \/ \E d \in Dir : \/ ReadPacket(d) \/ ReadEof(d) \/ ReadError(d) \/ ReadCancelled(d)
                    \/ Write(d) \/ Inner(d)

Spec == Init /\ [][Next]_vars

\* What tokio itself guarantees: a ready task runs, and select! polls its
\* branches in random order, so a cancelled token is seen sooner or later.
\* Neither peer has to send anything or to take what is written to it.
Fairness ==
  /\ WF_vars(Handler)
  /\ WF_vars(TerminateClose)
  /\ \A d \in Dir : WF_vars(Inner(d)) /\ SF_vars(ReadCancelled(d))

FairSpec == Spec /\ Fairness

\* ... and peers that read what they are sent, or close.
DrainingSpec == FairSpec /\ \A d \in Dir : WF_vars(Write(d))

-----------------------------------------------------------------------------
(* Properties                                                              *)

\* Every variable has its type.
TypeOK ==
  /\ hpc \in HandlerPCs /\ session \in {"none", "active", "closed"}
  /\ upstream \in {"none", "out", "returned"} /\ outcome \in Outcomes
  /\ token \in BOOLEAN /\ admin \in {"idle", "closing", "done"}
  /\ dpc \in [Dir -> RelayPCs] /\ eof \in [Dir -> BOOLEAN]
  /\ result \in [Dir -> {"none", "ok", "closed", "io"}]
  /\ total \in [Dir -> 0 .. MaxPackets] /\ counted \in [Dir -> 0 .. MaxPackets]
  /\ pending \in [Dir -> 0 .. PacketInterval]

\* proxy_data never hands a used connection back for reuse: a direction ends
\* without an error only at its own end of stream, so the download that returns
\* Ok has seen the upstream close: the Reuse branch of proxy_data is dead, and the pool
\* is only ever refilled by refreshes.  The documents say otherwise (ReturnedForReuse).
NoVerbatimReuse == outcome # "reuse"

\* Accounting: when proxy_data returns and nobody terminated the session, the
\* session has been credited with every packet that was written.
TrafficCounted ==
  hpc \in {"settle", "close"} /\ admin = "idle" => \A d \in Dir : counted[d] = total[d]

\* End of stream in one direction ends the other one, and the request with it:
\* the connection goes back to the pool and the session is closed.
EofEndsRequest ==
  \A d \in Dir : eof[d] ~> (hpc = "done" /\ upstream = "returned" /\ session = "closed")

\* manager.rs: terminate_session works "by cancelling underlying IO".  A request
\* whose session was terminated ends.  True of peers that read what they are
\* sent (DrainingSpec); a relay inside write_all does not see the token, so a
\* peer that stops reading keeps the request alive (FairSpec).
TerminationEndsRequest == (admin = "done") ~> (hpc = "done")

-----------------------------------------------------------------------------
(* What the documents say and the code does not do                         *)

\* README.md: "After completing a SOCKS5 connection, the upstream TCP connection is
\* returned to the pool", and the next connection to the destination reuses it.  Here of
\* the case most in its favour: the client closed, the upstream did not, nobody
\* terminated the session and no IO error occurred.
ReturnedForReuse ==
  /\ hpc = "close" /\ admin = "idle"
  /\ eof["up"] /\ ~eof["down"] /\ \A d \in Dir : result[d] # "io"
  => outcome = "reuse"
=============================================================================
