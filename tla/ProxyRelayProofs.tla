-------------------------- MODULE ProxyRelayProofs --------------------------
(***************************************************************************)
(* Proofs about ProxyRelay for every PacketInterval and MaxPackets.        *)
(***************************************************************************)
EXTENDS ProxyRelay, TLAPS

\* While nobody terminates the session it is active from new_session to
\* close_session, so that every flush is credited.
SessionLives ==
  admin = "idle" /\ hpc \in {"reply", "relaying", "settle", "close"} => session = "active"

\* Where the relays are, given where the handler is.
Phases ==
  \A d \in Dir :
    /\ hpc \in {"start", "connected", "reply"} => dpc[d] = "off"
    /\ hpc = "relaying" => dpc[d] # "off"
    /\ hpc \in {"settle", "close"} => dpc[d] = "ended"
    /\ hpc = "done" => dpc[d] \in {"off", "ended"}

\* What was written is credited or pending, and a relay that has ended left
\* nothing pending.
Accounted ==
  \A d \in Dir :
    /\ dpc[d] \in {"off", "ended"} => pending[d] = 0
    /\ admin = "idle" => counted[d] + pending[d] = total[d]

\* How far the pending packets can get.  Only a relay that goes on reading has
\* fewer than PacketInterval of them.
PendingBounded ==
  \A d \in Dir :
    /\ pending[d] <= PacketInterval
    /\ dpc[d] \notin {"update", "final", "fail"} => pending[d] < PacketInterval
    /\ counted[d] + pending[d] <= total[d]
    /\ total[d] <= MaxPackets
    /\ dpc[d] \in {"allocate", "write"} => total[d] < MaxPackets

\* The inductive invariant behind NoVerbatimReuse: a relay that returns Ok, or is
\* about to, has seen its end of stream.
OkHasEof == \A d \in Dir : result[d] = "ok" => eof[d]

\* The types, the Boolean-valued function apart.
Shape ==
  /\ hpc \in HandlerPCs /\ session \in {"none", "active", "closed"}
  /\ upstream \in {"none", "out", "returned"} /\ outcome \in Outcomes
  /\ token \in BOOLEAN /\ admin \in {"idle", "closing", "done"}
  /\ dpc \in [Dir -> RelayPCs]
  /\ result \in [Dir -> {"none", "ok", "closed", "io"}]
  /\ total \in [Dir -> Nat] /\ counted \in [Dir -> Nat] /\ pending \in [Dir -> Nat]

\* client_closed and remote_closed are Booleans in every step.
LEMMA EofStep ==
  ASSUME eof \in [Dir -> BOOLEAN], [Next]_vars
  PROVE  eof' \in [Dir -> BOOLEAN]
<1>1. CASE Handler
  BY <1>1 DEF Handler, Connected, ConnectFails, NewSession, ReplyFails, StartRelays, Join,
              Settle, CloseSession, relayVars
<1>2. CASE Admin
  BY <1>2 DEF Admin, TerminateCancel, TerminateClose, relayVars
<1>3. ASSUME NEW d \in Dir, ReadPacket(d) \/ ReadError(d) \/ ReadCancelled(d) \/ Inner(d)
      PROVE  eof' \in [Dir -> BOOLEAN]
  BY <1>3 DEF ReadPacket, ReadError, ReadCancelled, Inner, Allocate, Update, Final, Fail
<1>4. ASSUME NEW d \in Dir, ReadEof(d) \/ Write(d) PROVE eof' \in [Dir -> BOOLEAN]
  <2>1. eof' = eof \/ eof' = [eof EXCEPT ![d] = TRUE]
    BY <1>4 DEF ReadEof, Write, WriteOk, WriteClosed, WriteError
  <2> QED
    BY <2>1, Zenon
<1>5. CASE UNCHANGED vars
  BY <1>5 DEF vars, relayVars
<1> QED
  BY <1>1, <1>2, <1>3, <1>4, <1>5 DEF Next

\* The handler and the administrator do not touch the relays' counters.
LEMMA CallerStep ==
  ASSUME Shape, PendingBounded, Phases, Handler \/ Admin \/ UNCHANGED vars
  PROVE  Shape' /\ PendingBounded'
<1> USE DEF Shape, HandlerPCs, RelayPCs, Outcomes
<1>1. CASE StartRelays
  <2>1. Shape'
    BY <1>1 DEF StartRelays
  <2>2. PendingBounded'
    BY <1>1, RelayConstants DEF StartRelays, PendingBounded, Phases
  <2> QED
    BY <2>1, <2>2
<1>2. CASE UNCHANGED relayVars
  <2>1. PendingBounded'
    BY <1>2 DEF relayVars, PendingBounded
  <2>2. CASE Handler
    BY <1>2, <2>2, <2>1 DEF relayVars, Handler, Connected, ConnectFails, NewSession, ReplyFails,
                      StartRelays, Join, Outcome, Settle, CloseSession
  <2>3. CASE Admin \/ UNCHANGED vars
    BY <1>2, <2>3, <2>1 DEF relayVars, vars, Admin, TerminateCancel, TerminateClose
  <2> QED
    BY <2>2, <2>3
<1> QED
  BY <1>1, <1>2 DEF Handler, Connected, ConnectFails, NewSession, ReplyFails, Join, Settle,
                    CloseSession, Admin, TerminateCancel, TerminateClose, vars

\* A step of relay d keeps the types and the bounds of its counters.
LEMMA RelayStep ==
  ASSUME Shape, PendingBounded, NEW d \in Dir,
         \/ ReadPacket(d) \/ ReadEof(d) \/ ReadError(d) \/ ReadCancelled(d)
         \/ Write(d) \/ Inner(d)
  PROVE  Shape' /\ PendingBounded'
<1> USE RelayConstants DEF Shape, PendingBounded, RelayPCs, Move
<1>1. CASE ReadPacket(d)
  BY <1>1 DEF ReadPacket
<1>7. CASE ReadEof(d) \/ ReadError(d) \/ ReadCancelled(d)
  BY <1>7 DEF ReadEof, ReadError, ReadCancelled
<1>2. CASE WriteOk(d)
  BY <1>2 DEF WriteOk
<1>3. CASE WriteClosed(d) \/ WriteError(d)
  BY <1>3 DEF WriteClosed, WriteError
<1>4. CASE Allocate(d)
  BY <1>4 DEF Allocate
<1>5. CASE Update(d)
  BY <1>5 DEF Update, Flush
<1>6. CASE Final(d) \/ Fail(d)
  <2>1. /\ counted'[d] \in Nat /\ counted'[d] <= counted[d] + pending[d]
        /\ pending'[d] = 0 /\ total' = total
        /\ \A e \in Dir \ {d} : /\ counted'[e] = counted[e] /\ pending'[e] = pending[e]
                               /\ dpc'[e] = dpc[e]
    BY <1>6 DEF Final, Fail, Flush
  <2>2. /\ dpc' \in [Dir -> RelayPCs] /\ dpc'[d] = "ended"
        /\ counted' \in [Dir -> Nat] /\ pending' \in [Dir -> Nat] /\ total' \in [Dir -> Nat]
    BY <1>6 DEF Final, Fail, Flush
  <2>3. token' \in BOOLEAN /\ result' \in [Dir -> {"none", "ok", "closed", "io"}]
    BY <1>6 DEF Final, Fail
  <2> QED
    BY <1>6, <2>1, <2>2, <2>3 DEF Final, Fail
<1> QED
  BY <1>1, <1>2, <1>3, <1>4, <1>5, <1>6, <1>7 DEF Write, Inner

\* The control of handle_connect and of the relays stays in phase.
LEMMA PhasesStep ==
  ASSUME Shape, Phases, [Next]_vars
  PROVE  Phases'
<1> USE DEF Shape, Phases
<1>1. CASE Handler
  BY <1>1 DEF Handler, Connected, ConnectFails, NewSession, ReplyFails, StartRelays, Join,
              Settle, CloseSession, relayVars
<1>2. CASE Admin \/ UNCHANGED vars
  BY <1>2 DEF Admin, TerminateCancel, TerminateClose, vars, relayVars
<1>3. ASSUME NEW d \in Dir, ReadPacket(d) \/ ReadEof(d) \/ ReadError(d) \/ ReadCancelled(d)
      PROVE  Phases'
  BY <1>3 DEF ReadPacket, ReadEof, ReadError, ReadCancelled, Move
<1>4. ASSUME NEW d \in Dir, Write(d) PROVE Phases'
  BY <1>4 DEF Write, WriteOk, WriteClosed, WriteError, Move
<1>5. ASSUME NEW d \in Dir, Inner(d) PROVE Phases'
  BY <1>5 DEF Inner, Allocate, Update, Final, Fail, Move
<1> QED
  BY <1>1, <1>2, <1>3, <1>4, <1>5 DEF Next

\* Nobody but close_session and terminate_session takes the session away.
LEMMA SessionLivesStep ==
  ASSUME SessionLives, [Next]_vars
  PROVE  SessionLives'
<1> USE DEF SessionLives
<1>1. CASE Handler
  BY <1>1 DEF Handler, Connected, ConnectFails, NewSession, ReplyFails, StartRelays, Join,
              Settle, CloseSession
<1>2. CASE Admin \/ UNCHANGED vars
  BY <1>2 DEF Admin, TerminateCancel, TerminateClose, vars
<1>3. ASSUME NEW d \in Dir, ReadPacket(d) \/ ReadEof(d) \/ ReadError(d) \/ ReadCancelled(d)
      PROVE  SessionLives'
  BY <1>3 DEF ReadPacket, ReadEof, ReadError, ReadCancelled
<1>4. ASSUME NEW d \in Dir, Write(d) \/ Inner(d) PROVE SessionLives'
  BY <1>4 DEF Write, WriteOk, WriteClosed, WriteError, Inner, Allocate, Update, Final, Fail
<1> QED
  BY <1>1, <1>2, <1>3, <1>4 DEF Next

\* No packet is dropped from the accounts, or entered twice.
LEMMA AccountedStep ==
  ASSUME Shape, Phases, SessionLives, Accounted, [Next]_vars
  PROVE  Accounted'
<1> USE DEF Shape, Accounted
<1>1. CASE Handler
  BY <1>1 DEF Handler, Connected, ConnectFails, NewSession, ReplyFails, StartRelays, Join,
              Settle, CloseSession, relayVars
<1>2. CASE Admin \/ UNCHANGED vars
  BY <1>2 DEF Admin, TerminateCancel, TerminateClose, vars, relayVars
<1>3. ASSUME NEW d \in Dir, ReadPacket(d) \/ ReadEof(d) \/ ReadError(d) \/ ReadCancelled(d)
      PROVE  Accounted'
  BY <1>3 DEF ReadPacket, ReadEof, ReadError, ReadCancelled, Move
<1>4. ASSUME NEW d \in Dir, WriteClosed(d) \/ WriteError(d) \/ Allocate(d)
      PROVE  Accounted'
  BY <1>4 DEF WriteClosed, WriteError, Allocate, Move
<1>5. ASSUME NEW d \in Dir, WriteOk(d) PROVE Accounted'
  BY <1>5 DEF WriteOk, Move
<1>6. ASSUME NEW d \in Dir, Update(d) \/ Final(d) \/ Fail(d) PROVE Accounted'
  <2>1. admin = "idle" => session = "active"
    BY <1>6 DEF Phases, SessionLives, HandlerPCs, Update, Final, Fail, Move
  <2> QED
    BY <1>6, <2>1 DEF Update, Final, Fail, Flush, Move
<1> QED
  BY <1>1, <1>2, <1>3, <1>4, <1>5, <1>6 DEF Next, Write, Inner

\* The inductive invariant.
IInv ==
  /\ Shape /\ eof \in [Dir -> BOOLEAN]
  /\ PendingBounded /\ Phases /\ SessionLives /\ Accounted

\* The specification keeps the inductive invariant.
THEOREM ProxyInvariant == Spec => []IInv
<1>1. Init => IInv
  <2> SUFFICES ASSUME Init PROVE IInv
    OBVIOUS
  <2>1. Shape
    BY DEF Init, Shape, HandlerPCs, RelayPCs, Outcomes
  <2>2. PendingBounded
    BY RelayConstants DEF Init, PendingBounded
  <2>3. eof \in [Dir -> BOOLEAN]
    BY Zenon DEF Init
  <2>4. Phases /\ SessionLives /\ Accounted
    BY DEF Init, Phases, SessionLives, Accounted
  <2> QED
    BY <2>1, <2>2, <2>3, <2>4 DEF IInv
<1>2. IInv /\ [Next]_vars => IInv'
  <2> SUFFICES ASSUME IInv, [Next]_vars PROVE IInv'
    OBVIOUS
  <2> USE DEF IInv
  <2>1. Shape' /\ PendingBounded'
    BY CallerStep, RelayStep DEF Next
  <2> QED
    BY <2>1, EofStep, PhasesStep, SessionLivesStep, AccountedStep
<1> QED
  BY <1>1, <1>2, PTL DEF Spec

\* Every variable keeps its type and a relay never has more than PacketInterval
\* packets pending, whatever the update interval and the traffic are.
THEOREM ProxyTypeCorrect == Spec => []TypeOK
<1>1. IInv => TypeOK
  <2> SUFFICES ASSUME IInv PROVE TypeOK
    OBVIOUS
  <2>1. \A d \in Dir : /\ total[d] \in 0 .. MaxPackets /\ counted[d] \in 0 .. MaxPackets
                       /\ pending[d] \in 0 .. PacketInterval
    BY RelayConstants DEF IInv, Shape, PendingBounded
  <2> QED
    BY <2>1 DEF IInv, Shape, TypeOK
<1> QED
  BY <1>1, ProxyInvariant, PTL

\* The flushes of proxy_upload and proxy_download lose nothing: for every update
\* interval and any number of packets, a session nobody terminated is credited
\* with all the traffic by the time proxy_data returns.
THEOREM ProxyTrafficCounted == Spec => []TrafficCounted
<1>1. IInv => TrafficCounted
  BY DEF IInv, Shape, Phases, Accounted, TrafficCounted
<1> QED
  BY <1>1, ProxyInvariant, PTL

\* proxy_data never returns ReuseHint::Reuse: for every update interval and any
\* number of packets, no connection that carried a request is pooled as it is.
THEOREM ProxyNeverReuses == Spec => []NoVerbatimReuse
<1> DEFINE Inv == OkHasEof /\ NoVerbatimReuse /\ result \in [Dir -> {"none", "ok", "closed", "io"}]
                  /\ eof \in [Dir -> BOOLEAN]
<1>1. Init => Inv
  BY DEF Init, OkHasEof, NoVerbatimReuse
<1>2. Inv /\ [Next]_vars => Inv'
  <2> SUFFICES ASSUME Inv, [Next]_vars PROVE Inv'
    OBVIOUS
  <2> USE DEF OkHasEof, NoVerbatimReuse
  <2>1. CASE Join
    <3>1. Outcome # "reuse"
      BY DEF Outcome, Dir
    <3> QED
      BY <2>1, <3>1 DEF Join, relayVars
  <2>2. CASE Connected \/ ConnectFails \/ NewSession \/ ReplyFails \/ StartRelays
             \/ Settle \/ CloseSession \/ Admin \/ UNCHANGED vars
    BY <2>2 DEF Connected, ConnectFails, NewSession, ReplyFails, StartRelays, Settle,
                CloseSession, Admin, TerminateCancel, TerminateClose, vars, relayVars
  <2>3. ASSUME NEW d \in Dir, ReadPacket(d) \/ ReadEof(d) \/ ReadError(d) \/ ReadCancelled(d)
        PROVE  Inv'
    BY <2>3 DEF ReadPacket, ReadEof, ReadError, ReadCancelled
  <2>4. ASSUME NEW d \in Dir, Write(d) PROVE Inv'
    BY <2>4 DEF Write, WriteOk, WriteClosed, WriteError
  <2>5. ASSUME NEW d \in Dir, Inner(d) PROVE Inv'
    BY <2>5 DEF Inner, Allocate, Update, Final, Fail
  <2> QED
    BY <2>1, <2>2, <2>3, <2>4, <2>5 DEF Next, Handler
<1> QED
  BY <1>1, <1>2, PTL DEF Spec
=============================================================================
