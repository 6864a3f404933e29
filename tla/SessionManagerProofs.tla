------------------------ MODULE SessionManagerProofs ------------------------
(***************************************************************************)
(* Proofs about SessionManager, for any number of sessions, relays and     *)
(* administrative tasks, and any number of crashes and failed batches.     *)
(***************************************************************************)
EXTENDS SessionManager, FiniteSetTheorems, WellFoundedInduction, TLAPS

Records == [status : {"none", "active", "closed", "failed", "rejected"}, bytes : Nat]

\* Where a handler and an administrative task can be.
Early   == {"idle", "controls", "enqueue", "insert", "reject", "note", "refused"}
Closing == {"mark", "push", "record"}
Leaving == {"remove", "mark", "push", "record", "done"}
Late    == {"running", "close"} \union Leaving
AdminPCs == {"idle", "scan", "todo", "cancel", "close", "remove", "signal", "flush", "save",
             "done"} \union Closing

\* The types of the variables the invariants speak of.
Types ==
  /\ policy \subseteq Sess /\ controls \subseteq Sess /\ active \subseteq Sess
  /\ cancelled \subseteq Sess
  /\ rec \in [Sess -> Records]
  /\ closed \in [Sess -> Seq(Records)] /\ rejected \in [Sess -> Seq(Records)]
  /\ pc \in [Tasks -> Early \union Late \union AdminPCs]
  /\ \A s \in Sess : pc[s] \in Early \union Late /\ target[s] = {s}
  /\ \A t \in Admins : pc[t] \in AdminPCs
  /\ target \in [Tasks -> SUBSET Sess]
  /\ snap \in [Tasks -> Records]
  /\ scan \in [Tasks -> SUBSET Sess] /\ todo \in [Tasks -> SUBSET Sess]
  /\ rpc \in [Sess -> [Relays -> {"idle", "write", "enqueue", "stopped"}]]
  /\ rsnap \in [Sess -> [Relays -> Records]]
  /\ issued \in [Sess -> Nat]
  /\ owed \in [Enforcers -> SUBSET Sess]

\* The tasks that took session s out of active_sessions and still work on it.
Holds(t, s) == pc[t] \in Closing /\ target[t] = {s}

\* What the maps say of a session, given where its handler is: it is in
\* active_sessions only between its insertion and the handler's own removal, it
\* has no record until somebody closes it, and session_controls has its entry
\* before active_sessions has and loses it first.
SessionOk(s) ==
  /\ s \in active => pc[s] \in {"running", "close", "remove"} /\ closed[s] = << >>
  /\ pc[s] \in Early => closed[s] = << >>
  /\ pc[s] # "refused" => rejected[s] = << >>
  /\ Len(closed[s]) <= 1 /\ Len(rejected[s]) <= 1
  /\ s \in controls => pc[s] \in {"enqueue", "insert"} \/ s \in active
  /\ pc[s] \in {"enqueue", "insert"} => s \in controls
  /\ pc[s] \in Late => s \in controls \/ s \in cancelled \/ pc[s] \in Leaving

\* What a task at work on a session may rely on: the session was inserted before;
\* one that took it out of the map is about to write its only record; past the
\* control entry, a task that terminates it has cancelled its token or came
\* after the handler.
TaskOk(t, s) ==
  /\ t \in Admins /\ s \in target[t] \union todo[t] => pc[s] \in Late
  /\ Holds(t, s) => s \notin active /\ pc[s] \in Late
  /\ Holds(t, s) /\ pc[t] \in {"mark", "push"} => closed[s] = << >>
  /\ Holds(t, s) /\ pc[t] = "record" => closed[s] # << >>
  /\ target[t] = {s} /\ pc[t] = "remove" => s \notin controls
  /\ t \in Admins /\ target[t] = {s} /\ pc[t] \in {"close", "remove"} \union Closing
       => s \in cancelled \/ pc[s] \in Leaving

\* close_session has one winner.
OneWinner == \A t, u \in Tasks, s \in Sess : Holds(t, s) /\ Holds(u, s) => t = u

CoreInv ==
  /\ \A s \in Sess : SessionOk(s)
  /\ \A t \in Tasks, s \in Sess : TaskOk(t, s)
  /\ OneWinner

\* A record stays one when it is counted up ...
LEMMA CountedRecord == \A x \in Records : [x EXCEPT !.bytes = @ + 1] \in Records
  BY DEF Records
\* ... and when it is marked.
LEMMA MarkedRecord ==
  \A x \in Records, st \in {"closed", "failed"} : [x EXCEPT !.status = st] \in Records
  BY DEF Records

\* Every step keeps the types.
LEMMA TypesStep == Types /\ [Next]_vars => Types'
<1> SUFFICES ASSUME Types, [Next]_vars PROVE Types'
  OBVIOUS
<1> USE SessionConstants DEF Types, memVars, taskVars, relayVars, queueVars, saveVars, aclVars,
        Tasks, Admins, Early, Late, Leaving, Closing, AdminPCs, Goto, Blank, Opened
<1>0. /\ \A st \in {"none", "active", "rejected"} : [status |-> st, bytes |-> 0] \in Records
  BY DEF Records
<1>1. ASSUME NEW s \in Sess, Handler(s) PROVE Types'
  <2>1. CASE Admit(s)
    BY <2>1 DEF Admit
  <2>2. CASE Refuse(s)
    BY <1>0, <2>2 DEF Refuse
  <2>3. CASE TrackRejected(s)
    BY <2>3 DEF TrackRejected
  <2>4. CASE PushRejected(s)
    BY <2>4 DEF PushRejected
  <2>5. CASE NewControl(s)
    BY <1>0, <2>5 DEF NewControl
  <2>6. CASE NewEnqueue(s)
    BY <2>6 DEF NewEnqueue
  <2>7. CASE NewInsert(s)
    BY <2>7 DEF NewInsert
  <2>8. CASE HandlerClose(s)
    BY <2>8 DEF HandlerClose
  <2> QED
    BY <1>1, <2>1, <2>2, <2>3, <2>4, <2>5, <2>6, <2>7, <2>8 DEF Handler
<1>2. ASSUME NEW s \in Sess, NEW r \in Relays, Relay(s, r) PROVE Types'
  <2>1. CASE UpdateTraffic(s, r)
    BY <2>1 DEF UpdateTraffic
  <2>2. CASE ApplyUpdate(s, r)
    <3>1. [rec[s] EXCEPT !.bytes = @ + 1] \in Records
      BY CountedRecord
    <3>2. rec' \in [Sess -> Records] /\ rec'[s] \in Records
      BY <2>2, <3>1 DEF ApplyUpdate
    <3>3. rsnap' \in [Sess -> [Relays -> Records]]
      BY <2>2, <3>2 DEF ApplyUpdate
    <3> QED
      BY <2>2, <3>2, <3>3 DEF ApplyUpdate
  <2>3. CASE EnqueueUpdate(s, r)
    BY <1>0, <2>3 DEF EnqueueUpdate
  <2>4. CASE RelayStops(s, r)
    BY <2>4 DEF RelayStops
  <2>5. CASE QueueUpdate(s, r)
    BY <2>5 DEF QueueUpdate
  <2> QED
    BY <1>2, <2>1, <2>2, <2>3, <2>4, <2>5 DEF Relay
<1>3. ASSUME NEW t \in Tasks, NEW s \in Sess, Close(t, s) PROVE Types'
  <2>1. CASE TerminateCancel(t, s)
    BY <2>1 DEF TerminateCancel
  <2>2. CASE CloseControls(t, s)
    BY <2>2 DEF CloseControls
  <2>3. CASE CloseRemove(t, s)
    <3>1. target' \in [Tasks -> SUBSET Sess] /\ \A x \in Sess : target'[x] = {x}
      BY <2>3 DEF CloseRemove, Release
    <3>2. /\ pc' \in [Tasks -> Early \union Late \union AdminPCs]
          /\ \A x \in Sess : pc'[x] \in Early \union Late
          /\ \A x \in Admins : pc'[x] \in AdminPCs
      BY <2>3 DEF CloseRemove, Resume
    <3> QED
      BY <2>3, <3>1, <3>2 DEF CloseRemove
  <2>4. CASE CloseMark(t, s)
    <3>1. PICK st \in {"closed", "failed"} :
            rec' = [rec EXCEPT ![s] = [rec[s] EXCEPT !.status = st]]
      BY <2>4 DEF CloseMark, CloseStatus
    <3>2. rec' \in [Sess -> Records] /\ rec'[s] \in Records
      BY ZenonT(60), <3>1, MarkedRecord
    <3> QED
      BY <2>4, <3>2 DEF CloseMark
  <2>5. CASE ClosePush(t, s)
    BY <2>5 DEF ClosePush
  <2>6. CASE CloseEnqueue(t, s)
    BY <1>0, <2>6 DEF CloseEnqueue, Resume, Release
  <2> QED
    BY <1>3, <2>1, <2>2, <2>3, <2>4, <2>5, <2>6 DEF Close
<1>4. ASSUME NEW t \in Apis, NEW s \in Sess, ApiTerminate(t, s) PROVE Types'
  BY <1>4 DEF ApiTerminate
<1>5. ASSUME NEW t \in Enforcers, Reload(t) PROVE Types'
  BY <1>5 DEF Reload, ChangeAcl
<1>6. ASSUME NEW t \in Admins, Sweep(t) PROVE Types'
  <2>1. ASSUME NEW s \in Sess, ScanVisit(t, s) PROVE Types'
    BY <2>1 DEF ScanVisit
  <2>2. ASSUME NEW s \in Sess, TerminateNext(t, s) PROVE Types'
    BY <2>2 DEF TerminateNext
  <2>3. CASE ScanEnd(t) \/ TerminateEnd(t)
    BY ZenonT(60), <2>3 DEF ScanEnd, TerminateEnd
  <2> QED
    BY <1>6, <2>1, <2>2, <2>3 DEF Sweep
<1>7. CASE TrafficWorker
  BY <1>7 DEF TrafficWorker, WorkerSessions
<1>8. CASE BatchWorker \/ Stopping
  BY <1>8 DEF BatchWorker, WorkerTick, WorkerNotified, WorkerStop, WorkerSave, Stopping,
              Shutdown, ShutdownSignal, ShutdownFlush, ShutdownSave
<1>9. CASE ProcessEnds
  BY <1>9 DEF ProcessEnds
<1>10. CASE Restart
  BY <1>0, <1>10 DEF Restart, FreshMemory
<1>11. CASE UNCHANGED vars
  BY <1>11 DEF vars
<1> QED
  BY <1>1, <1>2, <1>3, <1>4, <1>5, <1>6, <1>7, <1>8, <1>9, <1>10, <1>11 DEF Next, Running

\* Handlers and administrative tasks are apart; a handler works on its own session.
LEMMA TaskKinds ==
  /\ \A x : x \in Tasks <=> x \in Sess \/ x \in Admins
  /\ \A x \in Sess : x \notin Admins
  BY SessionConstants DEF Tasks

\* A handler works on its own session only.
LEMMA OwnTarget ==
  ASSUME Types, NEW t \in Tasks, NEW s \in Sess, target[t] = {s} PROVE t \in Admins \/ t = s
<1>1. t \in Sess => target[t] = {t}
  BY DEF Types
<1> QED
  BY <1>1, TaskKinds

\* What Goto does to the control of every task.
LEMMA GotoMoves ==
  ASSUME Types, NEW t \in Tasks, NEW a, NEW b, Goto(t, a, b)
  PROVE  pc[t] = a /\ \A u \in Tasks : pc'[u] = IF u = t THEN b ELSE pc[u]
  BY DEF Types, Goto

\* The handler's steps move one session forward; no task holds it before its record.
LEMMA HandlerCore == ASSUME Types, CoreInv, NEW s \in Sess, Handler(s) PROVE CoreInv'
<1> USE TaskKinds DEF memVars
<1>0. /\ \A x \in Sess : SessionOk(x)
      /\ \A t \in Tasks, x \in Sess : TaskOk(t, x)
      /\ OneWinner
  BY DEF CoreInv
<1>1. /\ UNCHANGED <<target, todo, closed, cancelled>>
      /\ \A x \in Tasks \ {s} : pc'[x] = pc[x]
      /\ \A x \in Sess \ {s} : rejected'[x] = rejected[x] /\ (x \in active' <=> x \in active)
                               /\ (x \in controls' <=> x \in controls)
  BY GotoMoves DEF Types, Handler, Admit, Refuse, TrackRejected, PushRejected, NewControl,
       NewEnqueue, NewInsert, HandlerClose
<1>2. \/ /\ pc[s] \in Early \ {"refused", "enqueue", "insert"}
         /\ pc'[s] \in Early \ {"refused", "enqueue", "insert"}
         /\ UNCHANGED <<active, controls, rejected>>
      \/ /\ pc[s] = "note" /\ pc'[s] = "refused"
         /\ UNCHANGED <<active, controls>> /\ rejected'[s] = Append(rejected[s], rec[s])
      \/ /\ pc[s] = "controls" /\ pc'[s] = "enqueue"
         /\ UNCHANGED <<active, rejected>> /\ s \in controls'
      \/ /\ pc[s] = "enqueue" /\ pc'[s] = "insert"
         /\ UNCHANGED <<active, controls, rejected>>
      \/ /\ pc[s] = "insert" /\ pc'[s] = "running"
         /\ UNCHANGED <<controls, rejected>> /\ s \in active'
      \/ /\ pc[s] = "running" /\ pc'[s] = "close"
         /\ UNCHANGED <<active, controls, rejected>>
  BY GotoMoves DEF Types, Handler, Admit, Refuse, TrackRejected, PushRejected, NewControl,
       NewEnqueue, NewInsert, HandlerClose, Early
<1>3. SessionOk(s)'
  <2>1. SessionOk(s) /\ rejected[s] \in Seq(Records) /\ rec[s] \in Records
    BY <1>0 DEF Types
  <2> QED
    BY <1>1, <1>2, <2>1 DEF SessionOk, Early, Late, Leaving, Closing
<1>4. ASSUME NEW x \in Sess \ {s} PROVE SessionOk(x)'
  <2>1. SessionOk(x) /\ pc'[x] = pc[x]
    BY <1>0, <1>1
  <2> QED
    BY <1>1, <2>1 DEF SessionOk
<1>5. /\ pc[s] \notin Closing \union Leaving /\ pc'[s] \notin Closing \union {"remove"}
      /\ pc[s] \in Late => /\ pc'[s] \in Late
                           /\ (s \in active' <=> s \in active) /\ UNCHANGED controls
  BY <1>2 DEF Early, Late, Leaving, Closing
<1>6. ASSUME NEW t \in Tasks, NEW x \in Sess PROVE TaskOk(t, x)'
  <2>1. TaskOk(t, x) /\ target'[t] = target[t] /\ todo'[t] = todo[t]
    BY <1>0, <1>1
  <2>2. CASE t = s
    <3>1. t \notin Admins /\ (target[t] = {x} => x = s)
      BY <2>2, OwnTarget
    <3> QED
      BY <1>5, <2>1, <2>2, <3>1 DEF TaskOk, Holds
  <2>3. CASE t # s /\ x = s
    <3>1. pc'[t] = pc[t] /\ (target[t] = {x} => t \in Admins /\ x \in target[t])
      BY <1>1, <2>3, OwnTarget
    <3> QED
      BY <1>1, <1>5, <2>1, <2>3, <3>1 DEF TaskOk, Holds
  <2>4. CASE t # s /\ x # s
    <3>1. pc'[t] = pc[t] /\ pc'[x] = pc[x] /\ (x \in controls' <=> x \in controls)
          /\ (x \in active' <=> x \in active)
      BY <1>1, <2>4
    <3> QED
      BY <1>1, <2>1, <3>1 DEF TaskOk, Holds
  <2> QED
    BY <2>2, <2>3, <2>4
<1>7. OneWinner'
  BY <1>0, <1>1, <1>5 DEF OneWinner, Holds
<1> QED
  BY <1>3, <1>4, <1>6, <1>7 DEF CoreInv

\* terminate_session and close_session touch the one session the task works on;
\* only the task that finds it active goes on to record it.
LEMMA CloseCore ==
  ASSUME Types, CoreInv, NEW t \in Tasks, NEW s \in Sess, Close(t, s) PROVE CoreInv'
<1> USE TaskKinds DEF memVars
<1>0. /\ \A x \in Sess : SessionOk(x)
      /\ \A u \in Tasks, x \in Sess : TaskOk(u, x)
      /\ OneWinner
  BY DEF CoreInv
<1>1. /\ target[t] = {s} /\ todo' = todo /\ rejected' = rejected
      /\ \A x \in Tasks \ {t} : pc'[x] = pc[x] /\ target'[x] = target[x]
      /\ \A x \in Sess \ {s} : /\ closed'[x] = closed[x] /\ (x \in active' <=> x \in active)
                               /\ (x \in controls' <=> x \in controls)
                               /\ (x \in cancelled' <=> x \in cancelled)
      /\ active' \subseteq active /\ controls' \subseteq controls /\ cancelled \subseteq cancelled'
  BY GotoMoves DEF Types, Close, TerminateCancel, CloseControls, CloseRemove, Release, CloseMark,
       ClosePush, CloseEnqueue
<1>2. target'[t] \subseteq {s} /\ (t \in Sess => target'[t] = {s} /\ t = s)
  BY OwnTarget DEF Types, Close, TerminateCancel, CloseControls, CloseRemove, Release, CloseMark,
       ClosePush, CloseEnqueue
<1>3. \/ /\ pc[t] = "cancel" /\ pc'[t] = "close" /\ target' = target
         /\ UNCHANGED <<active, controls, closed>> /\ (s \in controls => s \in cancelled')
      \/ /\ pc[t] = "close" /\ pc'[t] = "remove" /\ target' = target
         /\ UNCHANGED <<active, cancelled, closed>> /\ s \notin controls'
      \/ /\ pc[t] = "remove" /\ pc'[t] = "mark" /\ target' = target
         /\ UNCHANGED <<controls, cancelled, closed>> /\ s \in active /\ s \notin active'
      \/ /\ pc[t] = "remove" /\ pc'[t] = Resume(t)
         /\ UNCHANGED <<controls, cancelled, closed>> /\ s \notin active /\ s \notin active'
      \/ /\ pc[t] = "mark" /\ pc'[t] = "push" /\ target' = target
         /\ UNCHANGED <<active, controls, cancelled, closed>>
      \/ /\ pc[t] = "push" /\ pc'[t] = "record" /\ target' = target
         /\ UNCHANGED <<active, controls, cancelled>> /\ closed'[s] = Append(closed[s], snap[t])
      \/ /\ pc[t] = "record" /\ pc'[t] = Resume(t)
         /\ UNCHANGED <<active, controls, cancelled, closed>>
  BY GotoMoves DEF Types, Close, TerminateCancel, CloseControls, CloseRemove, CloseMark,
       ClosePush, CloseEnqueue
<1>4. /\ pc[s] \in Late /\ pc'[s] \in Late
      /\ pc[s] \in Leaving => pc'[s] \in Leaving
      /\ t = s \/ (pc'[s] = pc[s] /\ t \in Admins /\ t \notin Sess)
  <2>1. CASE t = s
    <3>1. pc[t] # "cancel"
      BY <2>1 DEF Types, Early, Late, Leaving, Closing
    <3>2. pc[t] \in Late /\ pc'[t] \in Leaving
      BY <1>3, <2>1, <3>1, SessionConstants DEF Late, Leaving, Closing, Resume, Admins
    <3> QED
      BY <2>1, <3>2 DEF Late
  <2>2. CASE t # s
    <3>1. t \in Admins /\ pc'[s] = pc[s]
      BY <1>1, <1>2, <2>2
    <3>2. s \in target[t] /\ TaskOk(t, s)
      BY <1>0, <1>1
    <3> QED
      BY <2>2, <3>1, <3>2 DEF TaskOk
  <2> QED
    BY <2>1, <2>2
<1>5. /\ SessionOk(s) /\ TaskOk(t, s)
      /\ pc[t] \in Closing => Holds(t, s)
      /\ closed[s] = << >> => Len(Append(closed[s], snap[t])) = 1
      /\ Append(closed[s], snap[t]) # << >>
  <2>1. closed[s] \in Seq(Records) /\ snap[t] \in Records
    BY DEF Types
  <2>2. Len(Append(closed[s], snap[t])) = Len(closed[s]) + 1 /\ Append(closed[s], snap[t]) # << >>
    BY <2>1
  <2> QED
    BY <1>0, <1>1, <2>1, <2>2 DEF Holds
<1>6. SessionOk(s)' /\ TaskOk(t, s)'
  <2>1. CASE /\ pc[t] = "cancel" /\ pc'[t] = "close" /\ target' = target
             /\ UNCHANGED <<active, controls, closed>> /\ (s \in controls => s \in cancelled')
    BY <1>1, <1>4, <1>5, <2>1 DEF SessionOk, TaskOk, Holds, Closing, Late, Leaving, Early
  <2>2. CASE /\ pc[t] = "close" /\ pc'[t] = "remove" /\ target' = target
             /\ UNCHANGED <<active, cancelled, closed>> /\ s \notin controls'
    BY <1>1, <1>4, <1>5, <2>2 DEF SessionOk, TaskOk, Holds, Closing, Late, Leaving, Early
  <2>3. CASE /\ pc[t] = "remove" /\ pc'[t] = "mark" /\ target' = target
             /\ UNCHANGED <<controls, cancelled, closed>> /\ s \in active /\ s \notin active'
    BY <1>1, <1>4, <1>5, <2>3 DEF SessionOk, TaskOk, Holds, Closing, Late, Leaving, Early
  <2>4. CASE /\ pc[t] = "remove" /\ pc'[t] = Resume(t)
             /\ UNCHANGED <<controls, cancelled, closed>> /\ s \notin active /\ s \notin active'
    <3>1. pc'[t] \in {"idle", "done", "todo"} /\ (t \in Sess => pc'[t] = "done")
      BY <2>4, SessionConstants DEF Resume, Admins
    <3>2. SessionOk(s)'
      BY <1>1, <1>4, <1>5, <2>4, <3>1 DEF SessionOk, Late, Leaving, Early, Closing
    <3>3. TaskOk(t, s)'
      BY <1>1, <1>2, <1>4, <1>5, <2>4, <3>1 DEF TaskOk, Holds, Closing
    <3> QED
      BY <3>2, <3>3
  <2>5. CASE /\ pc[t] = "mark" /\ pc'[t] = "push" /\ target' = target
             /\ UNCHANGED <<active, controls, cancelled, closed>>
    BY <1>1, <1>4, <1>5, <2>5 DEF SessionOk, TaskOk, Holds, Closing, Late, Leaving, Early
  <2>6. CASE /\ pc[t] = "push" /\ pc'[t] = "record" /\ target' = target
             /\ UNCHANGED <<active, controls, cancelled>>
             /\ closed'[s] = Append(closed[s], snap[t])
    BY <1>1, <1>4, <1>5, <2>6 DEF SessionOk, TaskOk, Holds, Closing, Late, Leaving, Early
  <2>7. CASE /\ pc[t] = "record" /\ pc'[t] = Resume(t)
             /\ UNCHANGED <<active, controls, cancelled, closed>>
    <3>1. pc'[t] \in {"idle", "done", "todo"} /\ (t \in Sess => pc'[t] = "done")
      BY <2>7, SessionConstants DEF Resume, Admins
    <3>2. SessionOk(s)'
      BY <1>1, <1>4, <1>5, <2>7, <3>1 DEF SessionOk, Late, Leaving, Early, Closing
    <3>3. TaskOk(t, s)'
      BY <1>1, <1>2, <1>4, <1>5, <2>7, <3>1 DEF TaskOk, Holds, Closing
    <3> QED
      BY <3>2, <3>3
  <2> QED
    BY <1>3, <2>1, <2>2, <2>3, <2>4, <2>5, <2>6, <2>7
<1>7. ASSUME NEW x \in Sess \ {s} PROVE SessionOk(x)'
  <2>1. SessionOk(x) /\ pc'[x] = pc[x]
    BY <1>0, <1>1, <1>2
  <2> QED
    BY <1>1, <2>1 DEF SessionOk
<1>8. ASSUME NEW u \in Tasks, NEW x \in Sess \ {s} PROVE TaskOk(u, x)'
  <2>1. TaskOk(u, x) /\ pc'[x] = pc[x] /\ todo'[u] = todo[u]
    BY <1>0, <1>1, <1>2
  <2>2. CASE u = t
    <3>1. target'[u] # {x} /\ x \notin target'[u]
      BY <1>2, <2>2
    <3> QED
      BY <2>1, <3>1 DEF TaskOk, Holds
  <2>3. CASE u # t
    <3>1. target'[u] = target[u] /\ pc'[u] = pc[u]
      BY <1>1, <2>3
    <3> QED
      BY <1>1, <2>1, <3>1 DEF TaskOk, Holds
  <2> QED
    BY <2>2, <2>3
<1>9. ASSUME NEW u \in Tasks \ {t} PROVE TaskOk(u, s)'
  <2>1. TaskOk(u, s) /\ target'[u] = target[u] /\ pc'[u] = pc[u] /\ todo'[u] = todo[u]
    BY <1>0, <1>1
  <2>2. Holds(u, s) => closed'[s] = closed[s]
    BY <1>0, <1>1, <1>3 DEF OneWinner, Holds, Closing
  <2> QED
    BY <1>1, <1>4, <2>1, <2>2 DEF TaskOk, Holds
<1>10. OneWinner'
  <2>1. ASSUME NEW u \in Tasks, NEW x \in Sess, Holds(u, x)'
        PROVE  Holds(u, x) \/ (u = t /\ x = s /\ s \in active)
    <3>1. CASE u # t
      BY <1>1, <2>1, <3>1 DEF Holds
    <3>2. CASE u = t
      <4>1. x = s /\ pc'[t] \in Closing
        BY <1>2, <2>1, <3>2 DEF Holds
      <4>2. pc[t] \in Closing \/ s \in active
        BY <1>3, <4>1 DEF Closing, Resume
      <4> QED
        BY <1>1, <3>2, <4>1, <4>2 DEF Holds
    <3> QED
      BY <3>1, <3>2
  <2>2. \A u \in Tasks : Holds(u, s) => s \notin active
    BY <1>0 DEF TaskOk
  <2> QED
    BY <1>0, <2>1, <2>2 DEF OneWinner
<1> QED
  BY <1>6, <1>7, <1>8, <1>9, <1>10 DEF CoreInv

\* An administrative task that only picks sessions picks them from active_sessions.
LEMMA AdminCore ==
  ASSUME Types, CoreInv, NEW t \in Admins,
         UNCHANGED <<active, controls, cancelled, closed, rejected>>,
         \A u \in Tasks \ {t} : pc'[u] = pc[u] /\ target'[u] = target[u] /\ todo'[u] = todo[u],
         pc'[t] \notin Closing \union {"close", "remove"},
         target'[t] \union todo'[t] \subseteq target[t] \union todo[t] \union active
  PROVE  CoreInv'
<1> USE TaskKinds
<1>0. /\ \A x \in Sess : SessionOk(x)
      /\ \A u \in Tasks, x \in Sess : TaskOk(u, x)
      /\ OneWinner
  BY DEF CoreInv
<1>1. ASSUME NEW x \in Sess PROVE SessionOk(x)'
  <2>1. SessionOk(x) /\ pc'[x] = pc[x]
    BY <1>0
  <2> QED
    BY <2>1 DEF SessionOk
<1>2. ASSUME NEW u \in Tasks \ {t}, NEW x \in Sess PROVE TaskOk(u, x)'
  <2>1. /\ TaskOk(u, x) /\ pc'[x] = pc[x]
        /\ pc'[u] = pc[u] /\ target'[u] = target[u] /\ todo'[u] = todo[u]
    BY <1>0
  <2> QED
    BY <2>1 DEF TaskOk, Holds
<1>3. ASSUME NEW x \in Sess PROVE TaskOk(t, x)'
  <2>1. TaskOk(t, x) /\ SessionOk(x) /\ pc'[x] = pc[x]
    BY <1>0
  <2>2. x \in active => pc[x] \in Late
    BY <2>1 DEF SessionOk, Late, Leaving
  <2> QED
    BY <2>1, <2>2 DEF TaskOk, Holds
<1>4. OneWinner'
  <2>1. \A u \in Tasks, x \in Sess : Holds(u, x)' => Holds(u, x)
    BY DEF Holds
  <2> QED
    BY <1>0, <2>1 DEF OneWinner
<1> QED
  BY <1>1, <1>2, <1>3, <1>4 DEF CoreInv

\* A step that leaves the maps and the tasks alone keeps the invariant.
LEMMA CoreFrame ==
  ASSUME CoreInv, UNCHANGED <<active, controls, cancelled, closed, rejected, pc, target, todo>>
  PROVE  CoreInv'
  BY DEF CoreInv, SessionOk, TaskOk, OneWinner, Holds

\* A fresh process starts with empty maps; no session of an earlier one comes back.
LEMMA RestartCore == ASSUME Types, CoreInv, Restart PROVE CoreInv'
<1> USE TaskKinds
<1>0. \A x \in Sess : SessionOk(x)
  BY DEF CoreInv
<1>1. /\ active' = {} /\ controls' = {} /\ cancelled' = {}
      /\ \A x \in Sess : closed'[x] = << >> /\ rejected'[x] = << >> /\ pc'[x] \in {"idle", "done"}
      /\ \A t \in Admins : pc'[t] = "idle" /\ target'[t] = {} /\ todo'[t] = {}
  BY DEF Restart, FreshMemory
<1>2. \A x \in Sess : SessionOk(x)'
  BY <1>1 DEF SessionOk, Early, Late, Leaving, Closing
<1>3. \A t \in Tasks : pc'[t] \notin Closing \union {"close", "remove"}
  BY <1>1 DEF Closing
<1>4. \A t \in Tasks, x \in Sess : TaskOk(t, x)'
  BY <1>1, <1>3 DEF TaskOk, Holds
<1>5. OneWinner'
  BY <1>3 DEF OneWinner, Holds
<1> QED
  BY <1>2, <1>4, <1>5 DEF CoreInv

\* Every step keeps the maps together and the closer of a session single.
LEMMA CoreStep == Types /\ CoreInv /\ [Next]_vars => CoreInv'
<1> SUFFICES ASSUME Types, CoreInv, [Next]_vars PROVE CoreInv'
  OBVIOUS
<1> USE TaskKinds DEF memVars
<1>1. ASSUME NEW t \in Apis, NEW s \in Sess, ApiTerminate(t, s) PROVE CoreInv'
  <2>1. t \in Admins /\ t \in Tasks
    BY DEF Admins
  <2>2. /\ UNCHANGED <<active, controls, cancelled, closed, rejected>>
        /\ \A u \in Tasks \ {t} : pc'[u] = pc[u] /\ target'[u] = target[u] /\ todo'[u] = todo[u]
        /\ pc'[t] = "cancel" /\ target'[t] = {s} /\ s \in active /\ todo'[t] = todo[t]
    BY <1>1, <2>1, GotoMoves DEF ApiTerminate, Types
  <2> QED
    BY <2>1, <2>2, AdminCore DEF Closing
<1>2. ASSUME NEW t \in Enforcers, Reload(t) PROVE CoreInv'
  <2>1. t \in Admins /\ t \in Tasks
    BY DEF Admins
  <2>2. /\ UNCHANGED <<active, controls, cancelled, closed, rejected, target, todo>>
        /\ \A u \in Tasks \ {t} : pc'[u] = pc[u]
        /\ pc'[t] = "scan"
    BY <1>2, <2>1, GotoMoves DEF Reload
  <2> QED
    BY <2>1, <2>2, AdminCore DEF Closing
<1>3. ASSUME NEW t \in Admins, Sweep(t) PROVE CoreInv'
  <2>1. /\ UNCHANGED <<active, controls, cancelled, closed, rejected>>
        /\ \A u \in Tasks \ {t} : pc'[u] = pc[u] /\ target'[u] = target[u] /\ todo'[u] = todo[u]
        /\ pc'[t] \in {"scan", "todo", "cancel", "signal", "idle"}
        /\ target'[t] \union todo'[t] \subseteq target[t] \union todo[t] \union active
    BY <1>3, GotoMoves DEF Sweep, ScanVisit, TerminateNext, ScanEnd, TerminateEnd, Types
  <2> QED
    BY <2>1, AdminCore DEF Closing
<1>4. CASE Stopping
  <2>1. Main \in Admins
    BY DEF Admins
  <2>2. /\ UNCHANGED <<active, controls, cancelled, closed, rejected, target, todo>>
        /\ \A u \in Tasks \ {Main} : pc'[u] = pc[u]
        /\ pc'[Main] \in {"scan", "flush", "done", "save"}
    BY <1>4, <2>1, GotoMoves DEF Stopping, Shutdown, ShutdownSignal, ShutdownFlush, ShutdownSave
  <2> QED
    BY <2>1, <2>2, AdminCore DEF Closing
<1>5. ASSUME NEW s \in Sess, NEW r \in Relays, Relay(s, r) PROVE CoreInv'
  BY <1>5, CoreFrame DEF Relay, UpdateTraffic, ApplyUpdate, EnqueueUpdate, RelayStops, QueueUpdate,
       taskVars
<1>6. CASE TrafficWorker \/ BatchWorker \/ ProcessEnds \/ UNCHANGED vars
  BY <1>6, CoreFrame DEF TrafficWorker, BatchWorker, WorkerTick, WorkerNotified, WorkerStop,
       WorkerSave, ProcessEnds, vars, taskVars
<1> QED
  BY <1>1, <1>2, <1>3, <1>4, <1>5, <1>6, HandlerCore, CloseCore, RestartCore DEF Next, Running

\* It holds when the process starts.
LEMMA CoreInit == Init => Types /\ CoreInv
<1> SUFFICES ASSUME Init PROVE Types /\ CoreInv
  OBVIOUS
<1> USE TaskKinds, SessionConstants
<1>1. Types
  BY DEF Init, Types, Blank, Records, AdminPCs, Early
<1>2. /\ active = {} /\ controls = {} /\ \A t \in Tasks : pc[t] = "idle" /\ todo[t] = {}
      /\ \A t \in Admins : target[t] = {}
      /\ \A s \in Sess : closed[s] = << >> /\ rejected[s] = << >>
  BY DEF Init
<1>3. \A s \in Sess : SessionOk(s)
  BY <1>2 DEF SessionOk, Late, Leaving, Closing
<1>4. \A t \in Tasks, s \in Sess : TaskOk(t, s)
  BY <1>2 DEF TaskOk, Holds, Closing
<1>5. OneWinner
  BY <1>2 DEF OneWinner, Holds, Closing
<1> QED
  BY <1>1, <1>3, <1>4, <1>5 DEF CoreInv

\* The tracker's maps and tasks stay typed, and in every state the maps fit
\* together and a session has at most one closer.
THEOREM CoreAlways == Spec => [](Types /\ CoreInv)
<1>1. Types /\ CoreInv /\ [Next]_vars => (Types /\ CoreInv)'
  BY TypesStep, CoreStep
<1> QED
  BY CoreInit, <1>1, PTL DEF Spec

\* A session is recorded as closed at most once, is not active once recorded,
\* and is never both closed and rejected: the DashMap removal in close_session
\* picks the one task that records.
THEOREM SessionsRecordedOnce == Spec => []RecordedOnce
<1>1. Types /\ CoreInv => RecordedOnce
  <2> SUFFICES ASSUME Types, CoreInv, NEW s \in Sess
               PROVE  /\ Len(closed[s]) + Len(rejected[s]) <= 1
                      /\ closed[s] # << >> => s \notin active
    BY DEF RecordedOnce
  <2>1. SessionOk(s) /\ Len(closed[s]) \in Nat /\ Len(rejected[s]) \in Nat
    BY DEF CoreInv, Types
  <2>2. /\ closed[s] = << >> => Len(closed[s]) = 0
        /\ rejected[s] = << >> => Len(rejected[s]) = 0
    OBVIOUS
  <2>3. \A m, n \in Nat : m <= 1 /\ n <= 1 /\ (m = 0 \/ n = 0) => m + n <= 1
    OBVIOUS
  <2>4. closed[s] = << >> \/ rejected[s] = << >>
    BY <2>1 DEF SessionOk, Early
  <2>5. Len(closed[s]) <= 1 /\ Len(rejected[s]) <= 1 /\ (closed[s] # << >> => s \notin active)
    BY <2>1 DEF SessionOk
  <2> QED
    BY <2>1, <2>2, <2>3, <2>4, <2>5
<1> QED
  BY CoreAlways, <1>1, PTL

\* terminate_session stops the session's IO: an API, enforcement or shutdown task
\* that won the removal has cancelled the token, or the handler is leaving.
THEOREM TerminationsCancel == Spec => []TerminationCancels
<1>1. Types /\ CoreInv => TerminationCancels
  <2> SUFFICES ASSUME Types, CoreInv, NEW t \in Admins, NEW s \in Sess,
                      pc[t] \in Closing, target[t] = {s}
               PROVE  s \in cancelled \/ pc[s] \in {"remove", "done"}
    BY DEF TerminationCancels, Closing
  <2>1. t \in Tasks /\ s \in Tasks /\ t # s /\ TaskOk(t, s) /\ OneWinner
    BY TaskKinds DEF CoreInv
  <2>2. s \in cancelled \/ pc[s] \in Leaving
    BY <2>1 DEF TaskOk
  <2>3. pc[s] \notin Closing
    BY <2>1 DEF OneWinner, Holds, Types
  <2> QED
    BY <2>2, <2>3 DEF Leaving, Closing
<1> QED
  BY CoreAlways, <1>1, PTL

-----------------------------------------------------------------------------
(* Enforcement                                                             *)

\* What an enforcer still owes is ahead of it: to be visited, collected, or in
\* its hands, and blocked by the ACL of the moment.
EnforceOk(e) ==
  /\ \A s \in owed[e] :
       /\ pc[s] \in Late /\ s \notin policy
       /\ s \in active => \/ s \in scan[e] \union todo[e]
                          \/ pc[e] \in {"cancel", "close", "remove"} /\ s \in target[e]
  /\ pc[e] # "scan" => scan[e] = {}
  /\ pc[e] = "idle" => todo[e] = {}

EnforceInv == \A e \in Enforcers : EnforceOk(e)

\* A session that reached its running phase stays past it while the process runs,
\* and does not get into active_sessions again.
LEMMA Onward ==
  ASSUME Types, CoreInv, Running \/ ProcessEnds \/ UNCHANGED vars, NEW x \in Sess, pc[x] \in Late
  PROVE  pc'[x] \in Late /\ (x \in active' => x \in active)
<1> USE TaskKinds DEF memVars, taskVars
<1>1. ASSUME NEW s \in Sess, Handler(s) PROVE pc'[x] \in Late /\ (x \in active' => x \in active)
  <2>1. CASE x = s
    BY <1>1, <2>1, GotoMoves DEF Handler, Admit, Refuse, TrackRejected, PushRejected, NewControl,
         NewEnqueue, NewInsert, HandlerClose, Late, Leaving
  <2>2. CASE x # s
    BY <1>1, <2>2, GotoMoves DEF Handler, Admit, Refuse, TrackRejected, PushRejected, NewControl,
         NewEnqueue, NewInsert, HandlerClose
  <2> QED
    BY <2>1, <2>2
<1>2. ASSUME NEW t \in Tasks, NEW s \in Sess, Close(t, s)
      PROVE  pc'[x] \in Late /\ (x \in active' => x \in active)
  <2>1. active' \subseteq active
    BY <1>2 DEF Close, TerminateCancel, CloseControls, CloseRemove, CloseMark, ClosePush,
         CloseEnqueue
  <2>2. t = x \/ pc'[x] = pc[x]
    BY <1>2, GotoMoves DEF Close, TerminateCancel, CloseControls, CloseRemove, CloseMark, ClosePush,
         CloseEnqueue
  <2>3. pc'[t] \in Late \union {Resume(t)}
    BY <1>2, GotoMoves DEF Close, TerminateCancel, CloseControls, CloseRemove, CloseMark, ClosePush,
         CloseEnqueue, Late, Leaving
  <2>4. t = x => Resume(t) = "done"
    BY SessionConstants DEF Resume, Admins
  <2> QED
    BY <2>1, <2>2, <2>3, <2>4 DEF Late, Leaving
<1>3. ASSUME NEW t \in Apis, NEW s \in Sess, ApiTerminate(t, s)
      PROVE  pc'[x] = pc[x] /\ active' = active
  BY <1>3, GotoMoves DEF ApiTerminate, Admins
<1>4. ASSUME NEW t \in Enforcers, Reload(t) PROVE pc'[x] = pc[x] /\ active' = active
  BY <1>4, GotoMoves DEF Reload, Admins
<1>5. ASSUME NEW t \in Admins, Sweep(t) PROVE pc'[x] = pc[x] /\ active' = active
  BY <1>5, GotoMoves DEF Sweep, ScanVisit, TerminateNext, ScanEnd, TerminateEnd
<1>6. CASE Stopping
  BY <1>6, GotoMoves DEF Stopping, Shutdown, ShutdownSignal, ShutdownFlush, ShutdownSave, Admins
<1>7. ASSUME NEW s \in Sess, NEW r \in Relays, Relay(s, r) PROVE pc' = pc /\ active' = active
  BY <1>7 DEF Relay, UpdateTraffic, ApplyUpdate, EnqueueUpdate, RelayStops, QueueUpdate
<1>8. CASE TrafficWorker \/ BatchWorker \/ ProcessEnds \/ UNCHANGED vars
  BY <1>8 DEF TrafficWorker, BatchWorker, WorkerTick, WorkerNotified, WorkerStop,
       WorkerSave, ProcessEnds, vars
<1> QED
  BY <1>1, <1>2, <1>3, <1>4, <1>5, <1>6, <1>7, <1>8 DEF Running

\* No step, of whatever task, takes from an enforcer what it owes without ending it.
LEMMA EnforceStep ==
  Types /\ CoreInv /\ EnforceInv /\ [Next]_vars => EnforceInv'
<1> SUFFICES ASSUME Types, CoreInv, EnforceInv, [Next]_vars, NEW e \in Enforcers
             PROVE  EnforceOk(e)'
  BY DEF EnforceInv
<1> USE TaskKinds DEF memVars, taskVars, aclVars
<1>0. EnforceOk(e) /\ e \in Admins /\ e \in Tasks /\ owed[e] \subseteq Sess
  BY DEF EnforceInv, Admins, Types
<1>1. CASE Restart
  <2>1. owed'[e] = {} /\ scan'[e] = {} /\ todo'[e] = {}
    BY <1>0, <1>1 DEF Restart, FreshMemory
  <2> QED
    BY <2>1 DEF EnforceOk
<1>2. CASE ~Restart
  <2>1. \A x \in owed[e] : pc'[x] \in Late /\ (x \in active' => x \in active)
    BY <1>0, <1>2, Onward DEF Next, EnforceOk
  <2>2. ASSUME UNCHANGED <<owed, policy>>, pc'[e] = pc[e], target'[e] = target[e],
               scan'[e] = scan[e], todo'[e] = todo[e]
        PROVE  EnforceOk(e)'
    BY <1>0, <2>1, <2>2 DEF EnforceOk
  <2>3. ASSUME NEW t \in Tasks, NEW s \in Sess, Close(t, s) PROVE EnforceOk(e)'
    <3>1. CASE t # e
      <4>1. UNCHANGED <<owed, policy, scan, todo>> /\ pc'[e] = pc[e]
        BY <1>0, <2>3, <3>1, GotoMoves DEF Close, TerminateCancel, CloseControls, CloseRemove,
             CloseMark, ClosePush, CloseEnqueue
      <4>2. target'[e] = target[e]
        BY <1>0, <2>3, <3>1 DEF Close, TerminateCancel, CloseControls, CloseRemove, Release,
             CloseMark, ClosePush, CloseEnqueue, Types
      <4> QED
        BY <2>2, <4>1, <4>2
    <3>2. CASE t = e
      <4>1. /\ UNCHANGED <<owed, policy, scan, todo>> /\ target[e] = {s}
            /\ pc[e] # "scan"
            /\ pc'[e] \notin {"scan", "idle"}
            /\ \/ /\ pc[e] \in {"cancel", "close"} /\ pc'[e] \in {"close", "remove"}
                  /\ target' = target
               \/ pc[e] = "remove" /\ s \notin active'
               \/ pc[e] \in Closing
        BY <1>0, <2>3, <3>2, GotoMoves, SessionConstants DEF Close, TerminateCancel, CloseControls,
             CloseRemove, CloseMark, ClosePush, CloseEnqueue, Resume, Closing
      <4> QED
        BY <1>0, <2>1, <4>1 DEF EnforceOk, Closing
    <3> QED
      BY <3>1, <3>2
  <2>4. ASSUME NEW t \in Enforcers, Reload(t) PROVE EnforceOk(e)'
    <3>1. t \in Tasks
      BY DEF Admins
    <3>2. PICK p \in SUBSET Sess :
            /\ policy' = p
            /\ owed' = [x \in Enforcers |-> (IF x = t THEN active ELSE owed[x]) \ p]
      BY <2>4 DEF Reload, ChangeAcl
    <3>3. CASE t = e
      <4>1. /\ pc'[e] = "scan" /\ scan'[e] = Sess /\ owed'[e] = active \ p
            /\ active' = active /\ \A x \in Sess : pc'[x] = pc[x]
        BY <1>0, <2>4, <3>1, <3>2, <3>3, GotoMoves DEF Reload, Types
      <4>2. \A x \in active : x \in Sess /\ pc[x] \in Late
        BY DEF CoreInv, SessionOk, Types, Late, Leaving
      <4> QED
        BY <3>2, <4>1, <4>2 DEF EnforceOk
    <3>4. CASE t # e
      <4>1. /\ pc'[e] = pc[e] /\ scan'[e] = scan[e] /\ owed'[e] = owed[e] \ p
            /\ UNCHANGED <<active, todo, target>>
        BY <1>0, <2>4, <3>1, <3>2, <3>4, GotoMoves DEF Reload, Types
      <4> QED
        BY <1>0, <2>1, <3>2, <4>1 DEF EnforceOk
    <3> QED
      BY <3>3, <3>4
  <2>5. ASSUME NEW t \in Admins, Sweep(t) PROVE EnforceOk(e)'
    <3>1. UNCHANGED <<owed, policy, active>>
      BY <2>5 DEF Sweep, ScanVisit, TerminateNext, ScanEnd, TerminateEnd
    <3>2. CASE t # e
      <4>1. /\ pc'[e] = pc[e] /\ target'[e] = target[e]
            /\ scan'[e] = scan[e] /\ todo'[e] = todo[e]
        BY <1>0, <2>5, <3>2, GotoMoves DEF Sweep, ScanVisit, TerminateNext, ScanEnd,
             TerminateEnd, Types
      <4> QED
        BY <2>2, <3>1, <4>1
    <3>3. ASSUME t = e, NEW s \in Sess, ScanVisit(t, s) PROVE EnforceOk(e)'
      <4>1. /\ pc'[e] = pc[e] /\ pc[e] = "scan" /\ scan'[e] = scan[e] \ {s}
            /\ todo[e] \subseteq todo'[e]
            /\ s \in active /\ s \notin policy => s \in todo'[e]
        BY <1>0, <3>3 DEF ScanVisit, Types
      <4> QED
        BY <1>0, <2>1, <3>1, <4>1 DEF EnforceOk
    <3>4. ASSUME t = e, NEW s \in Sess, TerminateNext(t, s) PROVE EnforceOk(e)'
      <4>1. /\ pc'[e] = "cancel" /\ pc[e] = "todo" /\ scan'[e] = scan[e]
            /\ todo'[e] = todo[e] \ {s} /\ target'[e] = {s}
        BY <1>0, <3>4, GotoMoves DEF TerminateNext, Types
      <4> QED
        BY <1>0, <2>1, <3>1, <4>1 DEF EnforceOk
    <3>5. ASSUME t = e, ScanEnd(t) \/ TerminateEnd(t) PROVE EnforceOk(e)'
      <4>1. /\ UNCHANGED <<scan, todo>> /\ pc[e] \in {"scan", "todo"}
            /\ \/ scan[e] = {} /\ pc'[e] = "todo"
               \/ pc[e] = "todo" /\ todo[e] = {} /\ pc'[e] # "scan"
        BY <1>0, <3>5, GotoMoves DEF ScanEnd, TerminateEnd
      <4> QED
        BY <1>0, <2>1, <3>1, <4>1 DEF EnforceOk
    <3> QED
      BY <2>5, <3>2, <3>3, <3>4, <3>5 DEF Sweep
  <2>6. ASSUME NEW t \in Apis, NEW s \in Sess, ApiTerminate(t, s) PROVE EnforceOk(e)'
    <3>1. t # e /\ t \in Tasks
      BY SessionConstants DEF Admins
    <3>2. /\ UNCHANGED <<owed, policy, scan, todo>>
          /\ pc'[e] = pc[e] /\ target'[e] = target[e]
      BY <1>0, <2>6, <3>1, GotoMoves DEF ApiTerminate, Types
    <3> QED
      BY <2>2, <3>2
  <2>7. CASE Stopping
    <3>1. Main # e /\ Main \in Tasks
      BY SessionConstants DEF Admins
    <3>2. /\ UNCHANGED <<owed, policy, target, todo>>
          /\ pc'[e] = pc[e] /\ scan'[e] = scan[e]
      BY <1>0, <2>7, <3>1, GotoMoves DEF Stopping, Shutdown, ShutdownSignal, ShutdownFlush,
           ShutdownSave, Types
    <3> QED
      BY <2>2, <3>2
  <2>8. ASSUME NEW s \in Sess, Handler(s) PROVE EnforceOk(e)'
    BY <1>0, <2>2, <2>8, GotoMoves DEF Handler, Admit, Refuse, TrackRejected, PushRejected,
         NewControl, NewEnqueue, NewInsert, HandlerClose
  <2>9. ASSUME NEW s \in Sess, NEW r \in Relays, Relay(s, r) PROVE EnforceOk(e)'
    BY <2>2, <2>9 DEF Relay, UpdateTraffic, ApplyUpdate, EnqueueUpdate, RelayStops, QueueUpdate
  <2>10. CASE TrafficWorker \/ BatchWorker \/ ProcessEnds \/ UNCHANGED vars
    BY <2>2, <2>10 DEF TrafficWorker, BatchWorker, WorkerTick, WorkerNotified, WorkerStop,
         WorkerSave, ProcessEnds, vars
  <2> QED
    BY <1>2, <2>3, <2>4, <2>5, <2>6, <2>7, <2>8, <2>9, <2>10 DEF Next, Running
<1> QED
  BY <1>1, <1>2

\* When enforce_acl returns, nothing that was active when the ACL changed and that
\* the ACL blocked ever since is active still, whatever sessions were opened,
\* closed and terminated, and whatever other ACL was loaded, during its scan.
THEOREM EnforcementsComplete == Spec => []EnforcementComplete
<1>1. Init => EnforceInv
  BY TaskKinds DEF Init, EnforceInv, EnforceOk, Admins
<1>2. EnforceInv => EnforcementComplete
  BY DEF EnforceInv, EnforceOk, EnforcementComplete
<1> QED
  BY <1>1, <1>2, CoreAlways, EnforceStep, PTL DEF Spec

-----------------------------------------------------------------------------
(* Rows and records                                                        *)

Rows == [id : Sess, rec : Records]

\* The session was created, or rejected, by the running process.
Known(s) == rec[s].status # "none"

RowsKnown(q) == q \in Seq(Rows) /\ \A i \in DOMAIN q : Known(q[i].id)

\* Whatever is on its way to the table is of a session of the running process.
RowsInv ==
  /\ \A s \in Sess : pc[s] \notin {"idle", "controls", "done"} => Known(s)
  /\ \A t \in Tasks, s \in Sess : Holds(t, s) => Known(s)
  /\ \A s \in Sess : closed[s] # << >> => Known(s)
  /\ \A s \in Sess, r \in Relays : rpc[s][r] \in {"write", "enqueue"} => Known(s)
  /\ batch \in [Flushers -> Seq(Rows)] /\ db \in [Sess -> Records]
  /\ RowsKnown(queue) /\ \A f \in Flushers : RowsKnown(batch[f])
  /\ ActiveRowsAreOurs

\* The relays of a session that have counted nothing yet of the update they apply.
Writers(s) == {r \in Relays : rpc[s][r] = "write"}

\* Every update of a session that was not terminated is counted or about to be,
\* and none is under way once somebody closes it.
TrafficOk(s) ==
  /\ \A r \in Relays : rpc[s][r] \in {"write", "enqueue"} => pc[s] = "running"
  /\ pc[s] \in Early => issued[s] = 0
  /\ s \in cancelled \/ issued[s] = rec[s].bytes + Cardinality(Writers(s))
  /\ \A t \in Tasks : Holds(t, s) /\ pc[t] \in {"push", "record"}
                        => s \in cancelled \/ snap[t].bytes = issued[s]
  /\ \A i \in DOMAIN closed[s] : s \in cancelled \/ closed[s][i].bytes = issued[s]

TrafficInv == \A s \in Sess \ Udp : TrafficOk(s)

\* A session of the process stays one; a session is taken out of the active ones.
LEMMA KnownStays ==
  ASSUME Types, CoreInv, Running \/ ProcessEnds \/ UNCHANGED vars
  PROVE  /\ \A x \in Sess : Known(x) => Known(x)'
         /\ \A t \in Tasks, x \in Sess : Holds(t, x)' => Holds(t, x) \/ x \in active
<1> USE TaskKinds DEF memVars, taskVars
<1> DEFINE K == \A x \in Sess : Known(x) => Known(x)'
           H == \A t \in Tasks, x \in Sess : Holds(t, x)' => Holds(t, x) \/ x \in active
<1>0. \A x \in Sess : rec[x] \in Records
  BY DEF Types
<1>1. ASSUME NEW s \in Sess, Handler(s) PROVE K /\ H
  <2>1. K
    BY <1>0, <1>1 DEF Handler, Admit, Refuse, TrackRejected, PushRejected, NewControl,
         NewEnqueue, NewInsert, HandlerClose, Known, Opened, Types
  <2>2. /\ pc'[s] \notin Closing /\ target' = target
        /\ \A u \in Tasks \ {s} : pc'[u] = pc[u]
    BY <1>1, GotoMoves DEF Handler, Admit, Refuse, TrackRejected, PushRejected, NewControl,
         NewEnqueue, NewInsert, HandlerClose, Closing
  <2> QED
    BY <2>1, <2>2 DEF Holds
<1>2. ASSUME NEW t \in Tasks, NEW s \in Sess, Close(t, s) PROVE K /\ H
  <2>1. ASSUME rec' = rec PROVE K
    BY <2>1 DEF Known
  <2>2. ASSUME CloseMark(t, s) PROVE K
    <3>1. PICK st \in {"closed", "failed"} :
            rec' = [rec EXCEPT ![s] = [rec[s] EXCEPT !.status = st]]
      BY <2>2 DEF CloseMark, CloseStatus
    <3>2. rec'[s].status = st /\ \A x \in Sess \ {s} : rec'[x] = rec[x]
      BY <1>0, <3>1 DEF Types, Records
    <3> QED
      BY <3>2 DEF Known
  <2>3. K
    BY <1>2, <2>1, <2>2 DEF Close, TerminateCancel, CloseControls, CloseRemove, ClosePush,
         CloseEnqueue
  <2>4. /\ target[t] = {s} /\ target'[t] \subseteq {s}
        /\ \A u \in Tasks \ {t} : pc'[u] = pc[u] /\ target'[u] = target[u]
    BY <1>2, GotoMoves DEF Types, Close, TerminateCancel, CloseControls, CloseRemove, Release,
         CloseMark, ClosePush, CloseEnqueue
  <2>5. pc'[t] \in Closing => pc[t] \in Closing \/ s \in active
    BY <1>2, GotoMoves DEF Close, TerminateCancel, CloseControls, CloseRemove, Resume,
         CloseMark, ClosePush, CloseEnqueue, Closing
  <2>6. H
    BY <2>4, <2>5 DEF Holds
  <2> QED
    BY <2>3, <2>6
<1>3. ASSUME NEW t \in Admins, UNCHANGED rec, pc'[t] \notin Closing,
             \A u \in Tasks \ {t} : pc'[u] = pc[u] /\ target'[u] = target[u]
      PROVE  K /\ H
  BY <1>3 DEF Known, Holds
<1>4. ASSUME NEW t \in Apis, NEW s \in Sess, ApiTerminate(t, s) PROVE K /\ H
  <2>1. t \in Admins
    BY DEF Admins
  <2>2. /\ UNCHANGED rec /\ pc'[t] \notin Closing
        /\ \A u \in Tasks \ {t} : pc'[u] = pc[u] /\ target'[u] = target[u]
    BY <1>4, <2>1, GotoMoves DEF ApiTerminate, Closing, Types
  <2> QED
    BY <1>3, <2>1, <2>2
<1>5. ASSUME NEW t \in Enforcers, Reload(t) PROVE K /\ H
  <2>1. t \in Admins
    BY DEF Admins
  <2>2. /\ UNCHANGED <<rec, target>> /\ pc'[t] \notin Closing
        /\ \A u \in Tasks \ {t} : pc'[u] = pc[u]
    BY <1>5, <2>1, GotoMoves DEF Reload, Closing
  <2> QED
    BY <1>3, <2>1, <2>2
<1>6. ASSUME NEW t \in Admins, Sweep(t) PROVE K /\ H
  <2>1. /\ UNCHANGED rec /\ pc'[t] \notin Closing
        /\ \A u \in Tasks \ {t} : pc'[u] = pc[u] /\ target'[u] = target[u]
    BY <1>6, GotoMoves DEF Sweep, ScanVisit, TerminateNext, ScanEnd, TerminateEnd, Closing, Types
  <2> QED
    BY <1>3, <2>1
<1>7. CASE Stopping
  <2>1. Main \in Admins
    BY DEF Admins
  <2>2. /\ UNCHANGED <<rec, target>> /\ pc'[Main] \notin Closing
        /\ \A u \in Tasks \ {Main} : pc'[u] = pc[u]
    BY <1>7, <2>1, GotoMoves DEF Stopping, Shutdown, ShutdownSignal, ShutdownFlush, ShutdownSave,
         Closing
  <2> QED
    BY <1>3, <2>1, <2>2
<1>8. ASSUME NEW s \in Sess, NEW r \in Relays, Relay(s, r) PROVE K /\ H
  <2>1. UNCHANGED <<pc, target>>
    BY <1>8 DEF Relay, UpdateTraffic, ApplyUpdate, EnqueueUpdate, RelayStops, QueueUpdate
  <2>2. \A x \in Sess : rec'[x].status = rec[x].status
    <3>1. CASE ApplyUpdate(s, r)
      <4>1. rec' = [rec EXCEPT ![s] = [rec[s] EXCEPT !.bytes = @ + 1]]
        BY <3>1 DEF ApplyUpdate
      <4> QED
        BY <1>0, <4>1 DEF Types, Records
    <3>2. CASE rec' = rec
      BY <3>2
    <3> QED
      BY <1>8, <3>1, <3>2 DEF Relay, UpdateTraffic, EnqueueUpdate, RelayStops, QueueUpdate
  <2> QED
    BY <2>1, <2>2 DEF Known, Holds
<1>9. CASE TrafficWorker \/ BatchWorker \/ ProcessEnds \/ UNCHANGED vars
  <2>1. UNCHANGED <<pc, target, rec>>
    BY <1>9 DEF TrafficWorker, WorkerSessions, BatchWorker, WorkerTick, WorkerNotified, WorkerStop,
         WorkerSave, ProcessEnds, vars
  <2> QED
    BY <2>1 DEF Known, Holds
<1> QED
  BY <1>1, <1>2, <1>4, <1>5, <1>6, <1>7, <1>8, <1>9 DEF Running

\* enqueue appends a row of a known session.
LEMMA EnqueueKnown ==
  ASSUME RowsKnown(queue), \A x \in Sess : Known(x) => Known(x)',
         NEW s \in Sess, Known(s), NEW r \in Records, Enqueue(s, r)
  PROVE  RowsKnown(queue)'
<1>1. [id |-> s, rec |-> r] \in Rows
  BY DEF Rows
<1>2. /\ queue' \in Seq(Rows) /\ DOMAIN queue' = 1 .. Len(queue) + 1
      /\ queue'[Len(queue) + 1].id = s
      /\ \A i \in 1 .. Len(queue) : queue'[i] = queue[i] /\ queue[i] \in Rows
  BY <1>1 DEF Enqueue, RowsKnown
<1>3. ASSUME NEW i \in DOMAIN queue' PROVE rec'[queue'[i].id].status # "none"
  <2>1. CASE i = Len(queue) + 1
    BY <1>2, <2>1 DEF Known
  <2>2. CASE i \in 1 .. Len(queue)
    <3>1. queue[i].id \in Sess /\ Known(queue[i].id) /\ queue'[i] = queue[i]
      BY <1>2, <2>2 DEF RowsKnown, Rows
    <3> QED
      BY <3>1 DEF Known
  <2> QED
    BY <1>2, <2>1, <2>2 DEF RowsKnown
<1> QED
  BY <1>2, <1>3 DEF RowsKnown, Known

\* Rows of known sessions stay rows of known sessions.
LEMMA RowsFrame ==
  ASSUME NEW q, RowsKnown(q), \A x \in Sess : Known(x) => Known(x)'
  PROVE  q \in Seq(Rows) /\ \A i \in DOMAIN q : rec'[q[i].id].status # "none"
<1>1. ASSUME NEW i \in DOMAIN q PROVE rec'[q[i].id].status # "none"
  <2>1. q[i] \in Rows
    BY DEF RowsKnown
  <2>2. q[i].id \in Sess /\ Known(q[i].id)
    BY <2>1 DEF RowsKnown, Rows
  <2> QED
    BY <2>2 DEF Known
<1> QED
  BY <1>1 DEF RowsKnown

\* A non-empty set of naturals has a least element.
LEMMA LeastNatural ==
  ASSUME NEW T, T \subseteq Nat, T # {} PROVE \E x \in T : \A y \in T : x <= y
<1>1. IsWellFoundedOn(OpToRel(<, Nat), Nat)
  BY NatLessThanWellFounded
<1>2. PICK x \in T : \A y \in T : ~(<<y, x>> \in OpToRel(<, Nat))
  BY <1>1, WFMin
<1>3. \A y \in T : ~(y < x)
  BY <1>2 DEF OpToRel
<1> QED
  BY <1>3

\* Max picks the greatest element of a non-empty set of indices.
LEMMA MaxBounded ==
  ASSUME NEW n \in Nat, NEW I, I \subseteq 1 .. n, I # {}
  PROVE  Max(I) \in I /\ \A y \in I : y <= Max(I)
<1> DEFINE T == {k \in Nat : n - k \in I}
<1>1. T \subseteq Nat /\ T # {}
  <2>1. PICK i \in I : TRUE
    OBVIOUS
  <2>2. n - i \in Nat /\ n - (n - i) = i
    OBVIOUS
  <2> QED
    BY <2>2
<1> HIDE DEF T
<1>2. PICK x \in T : \A y \in T : x <= y
  BY <1>1, LeastNatural
<1>3. x \in Nat /\ n - x \in I
  BY DEF T
<1>4. ASSUME NEW y \in I PROVE n - x >= y
  <2>1. n - y \in Nat /\ n - (n - y) = y
    OBVIOUS
  <2>2. n - y \in T
    BY <2>1 DEF T
  <2>3. x <= n - y
    BY <1>2, <2>2
  <2> QED
    BY <1>3, <2>1, <2>3
<1> QED
  BY <1>3, <1>4 DEF Max

\* Saving a batch of known rows writes rows of known sessions only.
LEMMA SaveKnown ==
  ASSUME NEW b, RowsKnown(b), db \in [Sess -> Records]
  PROVE  /\ SaveBatch(b) \in [Sess -> Records]
         /\ \A s \in Sess : Known(s) \/ SaveBatch(b)[s] = db[s]
<1> DEFINE I(s) == {i \in DOMAIN b : b[i].id = s}
<1>1. SaveBatch(b) = [s \in Sess |-> IF I(s) = {} THEN db[s] ELSE b[Max(I(s))].rec]
  BY DEF SaveBatch
<1>2. ASSUME NEW s \in Sess, I(s) # {} PROVE Known(s) /\ b[Max(I(s))].rec \in Records
  <2>1. Len(b) \in Nat /\ I(s) \subseteq 1 .. Len(b)
    BY DEF RowsKnown
  <2>2. Max(I(s)) \in I(s)
    BY <1>2, <2>1, MaxBounded
  <2>3. b[Max(I(s))] \in Rows /\ b[Max(I(s))].id = s /\ Known(b[Max(I(s))].id)
    BY <2>2 DEF RowsKnown
  <2> QED
    BY <2>3 DEF Rows
<1> HIDE DEF I
<1> QED
  BY <1>1, <1>2

\* Every step hands the writer and the table rows of known sessions only.
LEMMA RowsStep == Types /\ CoreInv /\ RowsInv /\ [Next]_vars => RowsInv'
<1> SUFFICES ASSUME Types, CoreInv, RowsInv, [Next]_vars PROVE RowsInv'
  OBVIOUS
<1> USE TaskKinds DEF memVars, taskVars, relayVars, queueVars, saveVars, lifeVars
<1>1. CASE Restart
  <2>1. /\ \A x \in Sess : /\ pc'[x] \in {"idle", "done"} /\ closed'[x] = << >>
                           /\ \A r \in Relays : rpc'[x][r] = "idle"
    BY <1>1 DEF Restart, FreshMemory
  <2>2. \A t \in Tasks : pc'[t] \notin Closing
    BY <1>1 DEF Restart, FreshMemory, Closing
  <2>3. queue' = << >> /\ batch' = [f \in Flushers |-> << >>]
    BY <1>1 DEF Restart, FreshMemory
  <2>4. << >> \in Seq(Rows) /\ DOMAIN << >> = {}
    OBVIOUS
  <2>5. RowsKnown(queue)' /\ batch' \in [Flushers -> Seq(Rows)]
        /\ \A f \in Flushers : RowsKnown(batch[f])'
    BY <2>3, <2>4 DEF RowsKnown
  <2>6. ASSUME NEW x \in Sess
        PROVE  /\ [db[x] EXCEPT !.status = "closed"] \in Records
               /\ [db[x] EXCEPT !.status = "closed"].status # "active"
    BY MarkedRecord DEF RowsInv, Records
  <2>7. db' \in [Sess -> Records] /\ (swept' => \A x \in Sess : db'[x].status # "active")
    <3>1. CASE db' = db /\ swept' = FALSE
      BY <3>1 DEF RowsInv
    <3>2. CASE db' = [x \in Sess |-> IF db[x].status = "active"
                                     THEN [db[x] EXCEPT !.status = "closed"] ELSE db[x]]
      BY <2>6, <3>2 DEF RowsInv
    <3> QED
      BY <1>1, <3>1, <3>2 DEF Restart
  <2> QED
    BY <2>1, <2>2, <2>5, <2>7 DEF RowsInv, ActiveRowsAreOurs, Holds
<1>2. CASE ~Restart
  <2>0. Running \/ ProcessEnds \/ UNCHANGED vars
    BY <1>2 DEF Next
  <2>1. /\ \A x \in Sess : Known(x) => Known(x)'
        /\ \A t \in Tasks, x \in Sess : Holds(t, x)' => Holds(t, x) \/ x \in active
    BY <2>0, KnownStays
  <2>2. \A x \in active : x \in Sess /\ Known(x)
    BY DEF CoreInv, SessionOk, Types, RowsInv
  <2>3. \A t \in Tasks, x \in Sess : Holds(t, x)' => Known(x)'
    BY <2>1, <2>2 DEF RowsInv
  <2>4. /\ \A q : RowsKnown(q) =>
             q \in Seq(Rows) /\ \A i \in DOMAIN q : rec'[q[i].id].status # "none"
    BY <2>1, RowsFrame
  <2>5. \A q : queue' = q /\ RowsKnown(q) => RowsKnown(queue)'
    BY <2>4 DEF RowsKnown, Known
  <2>6. ASSUME UNCHANGED batch
        PROVE  (batch \in [Flushers -> Seq(Rows)] /\ \A f \in Flushers : RowsKnown(batch[f]))'
    BY <2>4, <2>6 DEF RowsInv, RowsKnown, Known
  <2>7. ASSUME UNCHANGED <<db, alive, swept>>
        PROVE  ActiveRowsAreOurs' /\ db' \in [Sess -> Records]
    BY <2>1, <2>7 DEF RowsInv, ActiveRowsAreOurs, Known
  <2>8. ASSUME NEW s \in Sess, Handler(s), UNCHANGED lifeVars PROVE RowsInv'
    <3>1. UNCHANGED <<rpc, batch, db, alive, swept, closed>>
      BY <2>8 DEF Handler, Admit, Refuse, TrackRejected, PushRejected, NewControl, NewEnqueue,
           NewInsert, HandlerClose
    <3>2. ASSUME NEW x \in Sess, pc'[x] \notin {"idle", "controls", "done"} PROVE Known(x)'
      <4>1. CASE x # s
        BY <2>1, <2>8, <3>2, <4>1, GotoMoves DEF RowsInv, Handler, Admit, Refuse, TrackRejected,
             PushRejected, NewControl, NewEnqueue, NewInsert, HandlerClose
      <4>2. CASE x = s
        <5>1. pc[s] \notin {"idle", "controls", "done"} \/ Refuse(s) \/ NewControl(s)
          BY <2>8, <3>2, <4>2, GotoMoves DEF Handler, Admit, TrackRejected, PushRejected,
               NewEnqueue, NewInsert, HandlerClose
        <5>2. Refuse(s) \/ NewControl(s) => Known(s)'
          BY DEF Refuse, NewControl, Opened, Known, Types
        <5> QED
          BY <2>1, <4>2, <5>1, <5>2 DEF RowsInv
      <4> QED
        BY <4>1, <4>2
    <3>3. RowsKnown(queue)'
      <4>1. queue' = queue \/ (pc[s] \in {"reject", "enqueue"} /\ Enqueue(s, rec[s]))
        BY <2>8, GotoMoves DEF Handler, Admit, Refuse, TrackRejected, PushRejected, NewControl,
             NewEnqueue, NewInsert, HandlerClose, Enqueue
      <4>2. pc[s] \in {"reject", "enqueue"} => Known(s)
        BY DEF RowsInv
      <4>3. RowsKnown(queue) /\ rec[s] \in Records
        BY DEF RowsInv, Types
      <4> QED
        BY <2>1, <2>5, <4>1, <4>2, <4>3, EnqueueKnown
    <3> QED
      BY <2>1, <2>3, <2>6, <2>7, <3>1, <3>2, <3>3 DEF RowsInv
  <2>9. ASSUME NEW t \in Tasks, NEW s \in Sess, Close(t, s), UNCHANGED lifeVars PROVE RowsInv'
    <3>1. UNCHANGED <<rpc, batch, db, alive, swept>>
      BY <2>9 DEF Close, TerminateCancel, CloseControls, CloseRemove, CloseMark, ClosePush,
           CloseEnqueue
    <3>2. ASSUME NEW x \in Sess, pc'[x] \notin {"idle", "controls", "done"} PROVE Known(x)'
      <4>1. \/ pc'[x] = pc[x]
            \/ t = x /\ pc[x] \in {"cancel", "close", "remove", "mark", "push", "record"}
        BY <2>9, GotoMoves DEF Close, TerminateCancel, CloseControls, CloseRemove, CloseMark,
             ClosePush, CloseEnqueue
      <4> QED
        BY <2>1, <3>2, <4>1 DEF RowsInv
    <3>3. ASSUME NEW x \in Sess, closed'[x] # << >> PROVE Known(x)'
      <4>1. closed'[x] = closed[x] \/ (x = s /\ Holds(t, s))
        BY <2>9, GotoMoves DEF Close, TerminateCancel, CloseControls, CloseRemove, CloseMark,
             ClosePush, CloseEnqueue, Holds, Closing, Types
      <4> QED
        BY <2>1, <3>3, <4>1 DEF RowsInv
    <3>4. RowsKnown(queue)'
      <4>1. queue' = queue \/ (Holds(t, s) /\ Enqueue(s, snap[t]))
        BY <2>9, GotoMoves DEF Close, TerminateCancel, CloseControls, CloseRemove, CloseMark,
             ClosePush, CloseEnqueue, Holds, Closing, Enqueue
      <4>2. RowsKnown(queue) /\ snap[t] \in Records /\ (Holds(t, s) => Known(s))
        BY DEF RowsInv, Types
      <4> QED
        BY <2>1, <2>5, <4>1, <4>2, EnqueueKnown
    <3> QED
      BY <2>1, <2>3, <2>6, <2>7, <3>1, <3>2, <3>3, <3>4 DEF RowsInv
  <2>10. ASSUME NEW s \in Sess, NEW r \in Relays, Relay(s, r), UNCHANGED lifeVars PROVE RowsInv'
    <3>1. UNCHANGED <<pc, batch, db, alive, swept, closed>>
      BY <2>10 DEF Relay, UpdateTraffic, ApplyUpdate, EnqueueUpdate, RelayStops, QueueUpdate
    <3>2. ASSUME NEW x \in Sess, NEW y \in Relays, rpc'[x][y] \in {"write", "enqueue"}
          PROVE  Known(x)'
      <4>1. \/ rpc'[x][y] = rpc[x][y]
            \/ x = s /\ (pc[s] = "running" \/ rpc[s][r] \in {"write", "enqueue"})
        BY <2>10 DEF Relay, UpdateTraffic, ApplyUpdate, EnqueueUpdate, RelayStops, QueueUpdate,
             Types
      <4> QED
        BY <2>1, <3>2, <4>1 DEF RowsInv
    <3>3. RowsKnown(queue)'
      <4>1. queue' = queue \/ (rpc[s][r] = "enqueue" /\ Enqueue(s, rsnap[s][r]))
        BY <2>10 DEF Relay, UpdateTraffic, ApplyUpdate, EnqueueUpdate, RelayStops, QueueUpdate,
             Enqueue
      <4>2. RowsKnown(queue) /\ rsnap[s][r] \in Records /\ (rpc[s][r] = "enqueue" => Known(s))
        BY DEF RowsInv, Types
      <4> QED
        BY <2>1, <2>5, <4>1, <4>2, EnqueueKnown
    <3> QED
      BY <2>1, <2>3, <2>6, <2>7, <3>1, <3>2, <3>3 DEF RowsInv
  <2>11. ASSUME UNCHANGED <<rpc, closed>>, RowsKnown(queue)', ActiveRowsAreOurs',
                \A x \in Sess : pc'[x] = pc[x],
                db' \in [Sess -> Records],
                (batch \in [Flushers -> Seq(Rows)] /\ \A f \in Flushers : RowsKnown(batch[f]))'
         PROVE  RowsInv'
    BY <2>1, <2>3, <2>11 DEF RowsInv
  <2>12. CASE UNCHANGED lifeVars /\ (BatchWorker \/ Stopping)
    <3>1. UNCHANGED <<rpc, closed, alive, swept, rec>> /\ \A x \in Sess : pc'[x] = pc[x]
      BY <2>12, GotoMoves DEF BatchWorker, WorkerTick, WorkerNotified, WorkerStop, WorkerSave,
           Stopping, Shutdown, ShutdownSignal, ShutdownFlush, ShutdownSave, Admins
    <3>2. RowsKnown(<< >>)
      BY DEF RowsKnown
    <3>3. /\ queue' \in {queue, << >>}
          /\ \/ batch' = batch
             \/ \E f \in Flushers : batch' = [batch EXCEPT ![f] = queue]
             \/ \E f \in Flushers : batch' = [batch EXCEPT ![f] = << >>]
          /\ db' = db \/ \E f \in Flushers : db' = SaveBatch(batch[f])
      BY <2>12 DEF BatchWorker, WorkerTick, WorkerNotified, WorkerStop, WorkerSave, Save, Flushers,
           Stopping, Shutdown, ShutdownSignal, ShutdownFlush, ShutdownSave, TakeBatch
    <3>4. RowsKnown(queue)'
      BY <2>5, <3>2, <3>3 DEF RowsInv
    <3>5. (batch \in [Flushers -> Seq(Rows)] /\ \A f \in Flushers : RowsKnown(batch[f]))'
      <4>1. \A f \in Flushers : RowsKnown(batch'[f])
        BY <3>2, <3>3 DEF RowsInv
      <4>2. batch' \in [Flushers -> Seq(Rows)]
        BY <3>2, <3>3 DEF RowsInv, RowsKnown
      <4> QED
        BY <3>1, <4>1, <4>2 DEF RowsKnown, Known
    <3>6. ActiveRowsAreOurs' /\ db' \in [Sess -> Records]
      <4>1. /\ db' \in [Sess -> Records]
            /\ \A x \in Sess : Known(x) \/ db'[x] = db[x]
        BY <3>3, SaveKnown DEF RowsInv
      <4> QED
        BY <3>1, <4>1 DEF RowsInv, ActiveRowsAreOurs, Known
    <3> QED
      BY <2>11, <3>1, <3>4, <3>5, <3>6
  <2>13. CASE ProcessEnds
    <3>1. /\ UNCHANGED <<rpc, closed, pc, queue>> /\ alive' = FALSE
          /\ batch' = [f \in Flushers |-> << >>]
      BY <2>13 DEF ProcessEnds
    <3>2. (batch \in [Flushers -> Seq(Rows)] /\ \A f \in Flushers : RowsKnown(batch[f]))'
      BY <3>1 DEF RowsKnown
    <3>3. db' \in [Sess -> Records] /\ RowsKnown(queue)'
      BY <2>5, <2>13, <3>1, SaveKnown DEF ProcessEnds, RowsInv, Flushers
    <3> QED
      BY <2>11, <3>1, <3>2, <3>3 DEF ActiveRowsAreOurs
  <2>14. ASSUME UNCHANGED <<rpc, closed, queue, batch, db, alive, swept>>,
                \A x \in Sess : pc'[x] = pc[x]
         PROVE  RowsInv'
    BY <2>5, <2>6, <2>7, <2>11, <2>14 DEF RowsInv
  <2>15. ASSUME NEW t \in Apis, NEW s \in Sess, ApiTerminate(t, s), UNCHANGED lifeVars
         PROVE  RowsInv'
    BY <2>14, <2>15, GotoMoves DEF ApiTerminate, Admins
  <2>16. ASSUME NEW t \in Enforcers, Reload(t), UNCHANGED lifeVars PROVE RowsInv'
    BY <2>14, <2>16, GotoMoves DEF Reload, Admins
  <2>17. ASSUME NEW t \in Admins, Sweep(t), UNCHANGED lifeVars PROVE RowsInv'
    BY <2>14, <2>17, GotoMoves DEF Sweep, ScanVisit, TerminateNext, ScanEnd, TerminateEnd
  <2>18. CASE (TrafficWorker /\ UNCHANGED lifeVars) \/ UNCHANGED vars
    BY <2>14, <2>18 DEF TrafficWorker, vars
  <2> QED
    BY <1>2, <2>8, <2>9, <2>10, <2>12, <2>13, <2>15, <2>16, <2>17, <2>18 DEF Next, Running
<1> QED
  BY <1>1, <1>2

\* After a start-up sweep that succeeded, a row that says active is of a session of
\* the running process: no queue, batch or late snapshot of an old process and no
\* transaction it had begun can bring one back.
THEOREM ActiveRowsOurs == Spec => []ActiveRowsAreOurs
<1>1. Init => RowsInv
  BY TaskKinds DEF Init, RowsInv, RowsKnown, ActiveRowsAreOurs, Blank, Records, Holds, Closing
<1>2. RowsInv => ActiveRowsAreOurs
  BY DEF RowsInv
<1> QED
  BY <1>1, <1>2, CoreAlways, RowsStep, PTL DEF Spec

\* The relays at work are counted: one more, one less, none.
LEMMA WritersCount ==
  ASSUME NEW s \in Sess
  PROVE  /\ IsFiniteSet(Writers(s)) /\ Cardinality(Writers(s)) \in Nat
         /\ Writers(s) = {} => Cardinality(Writers(s)) = 0
         /\ \A r \in Relays \ Writers(s) :
              Cardinality(Writers(s) \union {r}) = Cardinality(Writers(s)) + 1
         /\ \A r \in Writers(s) : Cardinality(Writers(s) \ {r}) = Cardinality(Writers(s)) - 1
<1>1. IsFiniteSet(Writers(s))
  <2>1. Writers(s) \subseteq Relays
    BY DEF Writers
  <2> QED
    BY <2>1, SessionConstants, FS_Subset
<1> QED
  BY <1>1, FS_CardinalityType, FS_EmptySet, FS_AddElement, FS_RemoveElement

\* Every step keeps the count of the updates exact.
LEMMA TrafficStep ==
  Types /\ CoreInv /\ TrafficInv /\ [Next]_vars => TrafficInv'
<1> SUFFICES ASSUME Types, CoreInv, TrafficInv, [Next]_vars, NEW s \in Sess \ Udp
             PROVE  TrafficOk(s)'
  BY DEF TrafficInv
<1> USE TaskKinds DEF memVars, taskVars, relayVars
<1>0. /\ TrafficOk(s) /\ SessionOk(s) /\ s \in Tasks
      /\ rec[s] \in Records /\ issued[s] \in Nat /\ rec[s].bytes \in Nat
      /\ \A t \in Tasks : TaskOk(t, s)
  BY DEF CoreInv, TrafficInv, Types, Records
<1>1. pc[s] \in {"running", "close"} => s \in cancelled \/ s \in active
  BY <1>0 DEF SessionOk, Late, Leaving, Closing
<1>2. s \notin cancelled /\ (s \in active \/ pc[s] = "running")
        => closed[s] = << >> /\ \A t \in Tasks : ~Holds(t, s)
  BY <1>0, <1>1 DEF SessionOk, TaskOk
<1>3. CASE Restart
  <2>1. /\ \A r \in Relays : rpc'[s][r] = "idle"
        /\ issued'[s] = 0 /\ rec'[s].bytes = 0 /\ closed'[s] = << >>
        /\ \A t \in Tasks : pc'[t] \in {"idle", "done"}
    BY <1>3 DEF Restart, FreshMemory, Blank
  <2>2. Writers(s)' = {}
    BY <2>1 DEF Writers
  <2>3. Cardinality(Writers(s)') = 0
    BY <2>2, FS_EmptySet
  <2> QED
    BY <1>0, <2>1, <2>3 DEF TrafficOk, Holds
<1>4. ASSUME rpc'[s] = rpc[s], issued'[s] = issued[s], rec'[s].bytes = rec[s].bytes,
             closed'[s] = closed[s], pc'[s] = pc[s], cancelled \subseteq cancelled',
             \A t \in Tasks : Holds(t, s)' /\ pc'[t] \in {"push", "record"}
               => Holds(t, s) /\ pc[t] \in {"push", "record"} /\ snap'[t] = snap[t]
      PROVE  TrafficOk(s)'
  <2>1. Writers(s)' = Writers(s)
    BY <1>4 DEF Writers
  <2>2. Cardinality(Writers(s))' = Cardinality(Writers(s))
    BY <2>1
  <2> QED
    BY <1>0, <1>4, <2>2 DEF TrafficOk
<1>5. CASE Handler(s)
  <2>1. /\ UNCHANGED <<rpc, issued, closed, cancelled, snap, target>>
        /\ \A t \in Tasks \ {s} : pc'[t] = pc[t]
    BY <1>5, GotoMoves DEF Handler, Admit, Refuse, TrackRejected, PushRejected, NewControl,
         NewEnqueue, NewInsert, HandlerClose
  <2>2. \/ /\ pc[s] \in Early /\ (pc'[s] \in Early \/ pc'[s] = "running")
           /\ (rec'[s].bytes = rec[s].bytes \/ rec'[s].bytes = 0)
        \/ /\ pc[s] = "running" /\ pc'[s] = "close" /\ \A r \in Relays : rpc[s][r] = "stopped"
           /\ rec' = rec
    BY <1>0, <1>5, GotoMoves DEF Handler, Admit, Refuse, TrackRejected, PushRejected, NewControl,
         NewEnqueue, NewInsert, HandlerClose, Early, Opened, Types
  <2>3. Cardinality(Writers(s))' = Cardinality(Writers(s)) /\ Cardinality(Writers(s)) \in Nat
    BY <2>1, WritersCount DEF Writers
  <2>4. pc[s] \in Early => Cardinality(Writers(s)) = 0
    <3>1. pc[s] \in Early => Writers(s) = {}
      BY <1>0 DEF Writers, TrafficOk, Early
    <3> QED
      BY <3>1, WritersCount
  <2>5. s \in cancelled' \/ issued'[s] = rec'[s].bytes + Cardinality(Writers(s))'
    BY <1>0, <2>1, <2>2, <2>3, <2>4 DEF TrafficOk
  <2>6. \A t \in Tasks : Holds(t, s)' /\ pc'[t] \in {"push", "record"}
          => Holds(t, s) /\ pc[t] \in {"push", "record"} /\ snap'[t] = snap[t]
    BY <2>1, <2>2 DEF Holds, Early
  <2>7. /\ \A r \in Relays : rpc'[s][r] \in {"write", "enqueue"} => pc'[s] = "running"
        /\ pc'[s] \in Early => issued'[s] = 0
    BY <1>0, <2>1, <2>2 DEF TrafficOk, Early
  <2> QED
    BY <1>0, <2>1, <2>5, <2>6, <2>7 DEF TrafficOk
<1>6. ASSUME NEW r \in Relays, Relay(s, r) PROVE TrafficOk(s)'
  <2>1. UNCHANGED <<closed, cancelled, snap, target, pc>>
    BY <1>6 DEF Relay, UpdateTraffic, ApplyUpdate, EnqueueUpdate, RelayStops, QueueUpdate
  <2>2. ~QueueUpdate(s, r)
    BY DEF QueueUpdate
  <2>3. CASE UpdateTraffic(s, r)
    <3>1. /\ pc[s] = "running" /\ rpc[s][r] = "idle" /\ issued'[s] = issued[s] + 1 /\ rec' = rec
          /\ \A x \in Relays : rpc'[s][x] = IF x # r THEN rpc[s][x]
                                            ELSE IF s \in active THEN "write" ELSE "idle"
      BY <2>3 DEF UpdateTraffic, Types
    <3>2. s \in active => Writers(s)' = Writers(s) \union {r} /\ r \notin Writers(s)
      BY <3>1 DEF Writers
    <3>3. s \in active => Cardinality(Writers(s)') = Cardinality(Writers(s)) + 1
      BY <3>2, WritersCount
    <3>4. s \in cancelled' \/ issued'[s] = rec'[s].bytes + Cardinality(Writers(s))'
      BY <1>0, <1>1, <2>1, <3>1, <3>3, WritersCount DEF TrafficOk
    <3>5. s \in cancelled \/ (closed[s] = << >> /\ \A t \in Tasks : ~Holds(t, s))
      BY <1>2, <3>1
    <3>6. \A t \in Tasks : Holds(t, s)' => Holds(t, s)
      BY <2>1 DEF Holds
    <3>7. closed[s] = << >> => DOMAIN closed[s] = {}
      OBVIOUS
    <3> QED
      BY <2>1, <3>1, <3>4, <3>5, <3>6, <3>7 DEF TrafficOk, Early
  <2>4. CASE ApplyUpdate(s, r)
    <3>1. /\ rpc[s][r] = "write" /\ issued' = issued /\ rec'[s].bytes = rec[s].bytes + 1
          /\ \A x \in Relays : rpc'[s][x] = IF x # r THEN rpc[s][x] ELSE "enqueue"
      <4>1. rec' = [rec EXCEPT ![s] = [rec[s] EXCEPT !.bytes = @ + 1]]
        BY <2>4 DEF ApplyUpdate
      <4>2. rec'[s].bytes = rec[s].bytes + 1
        BY <1>0, <4>1 DEF Types, Records
      <4> QED
        BY <2>4, <4>2 DEF ApplyUpdate, Types
    <3>2. Writers(s)' = Writers(s) \ {r} /\ r \in Writers(s)
      BY <3>1 DEF Writers
    <3>3. Cardinality(Writers(s)') = Cardinality(Writers(s)) - 1
      BY <3>2, WritersCount
    <3>4. s \in cancelled' \/ issued'[s] = rec'[s].bytes + Cardinality(Writers(s))'
      BY <1>0, <2>1, <3>1, <3>3, WritersCount DEF TrafficOk
    <3> QED
      BY <1>0, <2>1, <3>1, <3>4 DEF TrafficOk, Holds
  <2>5. CASE EnqueueUpdate(s, r) \/ RelayStops(s, r)
    <3>1. /\ rpc[s][r] # "write" /\ UNCHANGED <<issued, rec>>
          /\ \E v \in {"idle", "stopped"} :
               \A x \in Relays : rpc'[s][x] = IF x # r THEN rpc[s][x] ELSE v
      BY <2>5 DEF EnqueueUpdate, RelayStops, Types
    <3>2. Writers(s)' = Writers(s)
      BY <3>1 DEF Writers
    <3>3. Cardinality(Writers(s))' = Cardinality(Writers(s))
      BY <3>2
    <3> QED
      BY <1>0, <2>1, <3>1, <3>3 DEF TrafficOk, Holds
  <2> QED
    BY <1>6, <2>2, <2>3, <2>4, <2>5 DEF Relay
<1>7. ASSUME NEW t \in Tasks, Close(t, s) PROVE TrafficOk(s)'
  <2>1. /\ UNCHANGED <<rpc, issued>> /\ cancelled \subseteq cancelled' /\ target[t] = {s}
        /\ \A u \in Tasks \ {t} : pc'[u] = pc[u] /\ target'[u] = target[u] /\ snap'[u] = snap[u]
        /\ rec'[s].bytes = rec[s].bytes
    <3>1. CASE CloseMark(t, s)
      <4>1. PICK st \in {"closed", "failed"} :
              rec' = [rec EXCEPT ![s] = [rec[s] EXCEPT !.status = st]]
        BY <3>1 DEF CloseMark, CloseStatus
      <4>2. rec'[s].bytes = rec[s].bytes
        BY <1>0, <4>1 DEF Types, Records
      <4> QED
        BY <3>1, <4>2, GotoMoves DEF CloseMark, Types
    <3>2. CASE ~CloseMark(t, s)
      BY <1>7, <3>2, GotoMoves DEF Close, TerminateCancel, CloseControls, CloseRemove, Release,
           ClosePush, CloseEnqueue, Types
    <3> QED
      BY <3>1, <3>2
  <2>2. Cardinality(Writers(s))' = Cardinality(Writers(s))
    BY <2>1 DEF Writers
  <2>3. s \in cancelled' \/ issued'[s] = rec'[s].bytes + Cardinality(Writers(s))'
    BY <1>0, <2>1, <2>2 DEF TrafficOk
  <2>4. pc'[s] = pc[s] \/ (pc[s] # "running" /\ pc'[s] \notin Early)
    <3>1. CASE t # s
      BY <1>0, <2>1, <3>1
    <3>2. CASE t = s
      BY <1>7, <3>2, GotoMoves, SessionConstants DEF Close, TerminateCancel, CloseControls,
           CloseRemove, CloseMark, ClosePush, CloseEnqueue, Resume, Admins, Early
    <3> QED
      BY <3>1, <3>2
  <2>5. /\ \A r \in Relays : rpc'[s][r] \in {"write", "enqueue"} => pc'[s] = "running"
        /\ pc'[s] \in Early => issued'[s] = 0
    BY <1>0, <2>1, <2>4 DEF TrafficOk
  <2>6. pc[t] \in Closing => s \in cancelled \/ Cardinality(Writers(s)) = 0
    <3>1. ASSUME pc[t] \in Closing, s \notin cancelled PROVE Writers(s) = {}
      <4>1. s \notin active
        BY <1>0, <2>1, <3>1 DEF TaskOk, Holds
      <4> QED
        BY <1>0, <1>1, <3>1, <4>1 DEF TrafficOk, Writers
    <3> QED
      BY <3>1, WritersCount
  <2>7. ASSUME NEW u \in Tasks, Holds(u, s)', pc'[u] \in {"push", "record"}
        PROVE  s \in cancelled' \/ snap'[u].bytes = issued'[s]
    <3>1. CASE u # t
      BY <1>0, <2>1, <2>7, <3>1 DEF TrafficOk, Holds
    <3>2. CASE u = t /\ pc[t] = "push" /\ snap' = snap
      BY <1>0, <2>1, <2>7, <3>2 DEF TrafficOk, Holds, Closing
    <3>3. CASE u = t /\ pc[t] = "mark" /\ snap'[t] = rec'[s]
      <4>1. s \in cancelled \/ Cardinality(Writers(s)) = 0
        BY <2>6, <3>3 DEF Closing
      <4> QED
        BY <1>0, <2>1, <3>3, <4>1 DEF TrafficOk
    <3>4. u = t => (pc[t] = "push" /\ snap' = snap) \/ (pc[t] = "mark" /\ snap'[t] = rec'[s])
      BY <1>7, <2>7, GotoMoves DEF Close, TerminateCancel, CloseControls, CloseRemove, CloseMark,
           ClosePush, CloseEnqueue, Resume, Types
    <3> QED
      BY <3>1, <3>2, <3>3, <3>4
  <2>8. ASSUME NEW i \in DOMAIN closed'[s]
        PROVE  s \in cancelled' \/ closed'[s][i].bytes = issued'[s]
    <3>1. CASE ~ClosePush(t, s)
      <4>1. closed' = closed
        BY <1>7, <3>1 DEF Close, TerminateCancel, CloseControls, CloseRemove, CloseMark,
             CloseEnqueue
      <4> QED
        BY <1>0, <2>1, <2>8, <4>1 DEF TrafficOk
    <3>2. CASE ClosePush(t, s)
      <4>1. /\ pc[t] = "push" /\ closed'[s] = Append(closed[s], snap[t])
            /\ snap[t] \in Records
        BY <3>2, GotoMoves DEF ClosePush, Types
      <4>2. Holds(t, s) /\ closed[s] = << >>
        BY <1>0, <2>1, <4>1 DEF TaskOk, Holds, Closing
      <4>3. closed'[s] = <<snap[t]>>
        BY <4>1, <4>2
      <4>4. closed'[s][i] = snap[t]
        BY <2>8, <4>3
      <4> QED
        BY <1>0, <2>1, <4>1, <4>2, <4>4 DEF TrafficOk
    <3> QED
      BY <3>1, <3>2
  <2> QED
    BY <2>3, <2>5, <2>7, <2>8 DEF TrafficOk
<1>8. CASE UNCHANGED <<rpc, issued, rec, closed, cancelled, pc, target, snap>>
  BY <1>4, <1>8 DEF Holds
<1>9. ASSUME NEW x \in Sess \ {s}, Handler(x) PROVE TrafficOk(s)'
  <2>1. /\ UNCHANGED <<rpc, issued, closed, cancelled, target, snap>>
        /\ rec'[s] = rec[s] /\ pc'[s] = pc[s] /\ \A t \in Tasks \ {x} : pc'[t] = pc[t]
        /\ pc'[x] \notin Closing
    BY <1>9, GotoMoves DEF Handler, Admit, Refuse, TrackRejected, PushRejected, NewControl,
         NewEnqueue, NewInsert, HandlerClose, Closing, Types
  <2> QED
    BY <1>4, <2>1 DEF Holds
<1>10. ASSUME NEW x \in Sess \ {s}, NEW r \in Relays, Relay(x, r) PROVE TrafficOk(s)'
  <2>1. /\ UNCHANGED <<closed, cancelled, target, snap, pc>>
        /\ rec'[s] = rec[s] /\ rpc'[s] = rpc[s] /\ issued'[s] = issued[s]
    BY <1>10 DEF Relay, UpdateTraffic, ApplyUpdate, EnqueueUpdate, RelayStops, QueueUpdate, Types
  <2> QED
    BY <1>4, <2>1 DEF Holds
<1>11. ASSUME NEW t \in Tasks, NEW x \in Sess \ {s}, Close(t, x) PROVE TrafficOk(s)'
  <2>1. UNCHANGED <<rpc, issued>> /\ cancelled \subseteq cancelled' /\ target[t] = {x}
    BY <1>11 DEF Close, TerminateCancel, CloseControls, CloseRemove, CloseMark, ClosePush,
         CloseEnqueue
  <2>2. rec'[s] = rec[s] /\ closed'[s] = closed[s]
    BY <1>11 DEF Close, TerminateCancel, CloseControls, CloseRemove, CloseMark, ClosePush,
         CloseEnqueue, Types
  <2>3. target' \in {target, [target EXCEPT ![t] = {}]}
    BY <1>11 DEF Close, TerminateCancel, CloseControls, CloseRemove, Release, CloseMark, ClosePush,
         CloseEnqueue
  <2>4. target'[t] # {s} /\ \A u \in Tasks \ {t} : target'[u] = target[u]
    BY ZenonT(60), <2>1, <2>3 DEF Types
  <2>5. \A u \in Tasks \ {t} : pc'[u] = pc[u] /\ snap'[u] = snap[u]
    BY <1>11, GotoMoves DEF Close, TerminateCancel, CloseControls, CloseRemove, CloseMark,
         ClosePush, CloseEnqueue, Types
  <2>6. t # s
    BY <2>1, OwnTarget
  <2> QED
    BY <1>0, <1>4, <2>1, <2>2, <2>4, <2>5, <2>6 DEF Holds
<1>12. ASSUME NEW t \in Admins, UNCHANGED <<rpc, issued, rec, closed, cancelled, snap>>,
              pc'[t] \notin Closing,
              \A u \in Tasks \ {t} : pc'[u] = pc[u] /\ target'[u] = target[u]
       PROVE  TrafficOk(s)'
  BY <1>0, <1>4, <1>12 DEF Holds
<1>13. ASSUME NEW t \in Apis, NEW x \in Sess, ApiTerminate(t, x) PROVE TrafficOk(s)'
  <2>1. t \in Admins
    BY DEF Admins
  <2>2. /\ UNCHANGED <<rpc, issued, rec, closed, cancelled, snap>> /\ pc'[t] \notin Closing
        /\ \A u \in Tasks \ {t} : pc'[u] = pc[u] /\ target'[u] = target[u]
    BY <1>13, <2>1, GotoMoves DEF ApiTerminate, Closing, Types
  <2> QED
    BY <1>12, <2>1, <2>2
<1>14. ASSUME NEW t \in Enforcers, Reload(t) PROVE TrafficOk(s)'
  <2>1. t \in Admins
    BY DEF Admins
  <2>2. /\ UNCHANGED <<rpc, issued, rec, closed, cancelled, snap, target>> /\ pc'[t] \notin Closing
        /\ \A u \in Tasks \ {t} : pc'[u] = pc[u]
    BY <1>14, <2>1, GotoMoves DEF Reload, Closing
  <2> QED
    BY <1>12, <2>1, <2>2
<1>15. ASSUME NEW t \in Admins, Sweep(t) PROVE TrafficOk(s)'
  <2>1. /\ UNCHANGED <<rpc, issued, rec, closed, cancelled, snap>> /\ pc'[t] \notin Closing
        /\ \A u \in Tasks \ {t} : pc'[u] = pc[u] /\ target'[u] = target[u]
    BY <1>15, GotoMoves DEF Sweep, ScanVisit, TerminateNext, ScanEnd, TerminateEnd, Closing, Types
  <2> QED
    BY <1>12, <2>1
<1>16. CASE Stopping
  <2>1. Main \in Admins
    BY DEF Admins
  <2>2. /\ UNCHANGED <<rpc, issued, rec, closed, cancelled, snap, target>>
        /\ pc'[Main] \notin Closing /\ \A u \in Tasks \ {Main} : pc'[u] = pc[u]
    BY <1>16, <2>1, GotoMoves DEF Stopping, Shutdown, ShutdownSignal, ShutdownFlush, ShutdownSave,
         Closing
  <2> QED
    BY <1>12, <2>1, <2>2
<1>17. CASE TrafficWorker \/ BatchWorker \/ ProcessEnds \/ UNCHANGED vars
  BY <1>8, <1>17 DEF TrafficWorker, WorkerSessions, BatchWorker, WorkerTick, WorkerNotified,
       WorkerStop, WorkerSave, ProcessEnds, vars
<1> QED
  BY <1>3, <1>5, <1>6, <1>7, <1>9, <1>10, <1>11, <1>13, <1>14, <1>15, <1>16, <1>17
     DEF Next, Running

\* The closing record of a session nobody terminated counts every update its
\* relays issued: no relay is between its lookup and its count when any task,
\* the handler, the API, the enforcement or the shutdown, marks the session closed.
THEOREM TrafficAlwaysExact == Spec => []TrafficExact
<1>1. Init => TrafficInv
  <2> SUFFICES ASSUME Init, NEW s \in Sess PROVE TrafficOk(s)
    BY DEF TrafficInv
  <2>1. /\ \A r \in Relays : rpc[s][r] = "idle"
        /\ issued[s] = 0 /\ rec[s].bytes = 0 /\ closed[s] = << >>
        /\ \A t \in Tasks : pc[t] = "idle"
    BY DEF Init, Blank
  <2>2. Writers(s) = {}
    BY <2>1 DEF Writers
  <2>3. Cardinality(Writers(s)) = 0
    BY <2>2, FS_EmptySet
  <2> QED
    BY <2>1, <2>3 DEF TrafficOk, Holds, Closing
<1>2. TrafficInv => TrafficExact
  BY DEF TrafficInv, TrafficOk, TrafficExact
<1> QED
  BY <1>1, <1>2, CoreAlways, TrafficStep, PTL DEF Spec

-----------------------------------------------------------------------------
(* Refinement of the life cycle                                            *)

\* Somebody took the session out of active_sessions and has not recorded it yet.
Taken(s) == \E t \in Tasks : pc[t] \in {"mark", "push"} /\ target[t] = {s}
\* The session was begun by an earlier process.
Gone(s)  == pc[s] = "done" /\ rec[s] = Blank

\* The arms of Stage exclude each other.
LEMMA StageApart ==
  ASSUME Types, CoreInv, RowsInv, NEW s \in Sess
  PROVE  /\ s \in active => ~Taken(s) /\ closed[s] = << >> /\ rejected[s] = << >> /\ ~Gone(s)
         /\ Taken(s) => closed[s] = << >> /\ rejected[s] = << >> /\ ~Gone(s)
         /\ closed[s] # << >> => rejected[s] = << >> /\ ~Gone(s)
         /\ rejected[s] # << >> => ~Gone(s)
         /\ s \in active \/ Taken(s) \/ closed[s] # << >> \/ rejected[s] # << >> \/ Gone(s)
              => pc[s] # "idle"
<1>1. SessionOk(s) /\ (Known(s) => rec[s] # Blank) /\ (closed[s] # << >> => Known(s))
  BY DEF CoreInv, RowsInv, Known, Blank
<1>2. Taken(s) => s \notin active /\ pc[s] \in Late /\ closed[s] = << >> /\ Known(s)
  <2> SUFFICES ASSUME NEW t \in Tasks, pc[t] \in {"mark", "push"}, target[t] = {s}
               PROVE  s \notin active /\ pc[s] \in Late /\ closed[s] = << >> /\ Known(s)
    BY DEF Taken
  <2>1. Holds(t, s) /\ TaskOk(t, s)
    BY DEF Holds, Closing, CoreInv
  <2> QED
    BY <2>1 DEF TaskOk, RowsInv
<1> QED
  BY <1>1, <1>2 DEF SessionOk, Gone, Late, Leaving, Early, Closing

\* A step that changes none of the guards of Stage leaves the stage alone.
LEMMA StageSame ==
  ASSUME NEW s \in Sess, s \in active' <=> s \in active, Taken(s)' <=> Taken(s),
         closed'[s] # << >> <=> closed[s] # << >>, rejected'[s] # << >> <=> rejected[s] # << >>,
         Gone(s)' <=> Gone(s)
  PROVE  Stage(s)' = Stage(s)
  BY DEF Stage, Taken, Gone

\* What each guard of Stage says of the stage.
LEMMA StageValue ==
  ASSUME Types, CoreInv, RowsInv, NEW s \in Sess
  PROVE  /\ s \in active => Stage(s) = "open"
         /\ Taken(s) => Stage(s) = "closing"
         /\ closed[s] # << >> => Stage(s) = "closed"
         /\ rejected[s] # << >> => Stage(s) = "rejected"
         /\ Gone(s) => Stage(s) = "gone"
         /\ ~(s \in active \/ Taken(s) \/ closed[s] # << >> \/ rejected[s] # << >> \/ Gone(s))
              => Stage(s) = "none"
         /\ Stage(s) = "none" \/ pc[s] # "idle"
<1>1. /\ s \in active => ~Taken(s) /\ closed[s] = << >> /\ rejected[s] = << >> /\ ~Gone(s)
      /\ Taken(s) => closed[s] = << >> /\ rejected[s] = << >> /\ ~Gone(s)
      /\ closed[s] # << >> => rejected[s] = << >> /\ ~Gone(s)
      /\ rejected[s] # << >> => ~Gone(s)
      /\ s \in active \/ Taken(s) \/ closed[s] # << >> \/ rejected[s] # << >> \/ Gone(s)
           => pc[s] # "idle"
  BY StageApart
<1> QED
  BY <1>1 DEF Stage, Taken, Gone

\* The same of the state a step leads to.
LEMMA StageNext ==
  ASSUME Types', CoreInv', RowsInv', NEW s \in Sess
  PROVE  /\ (s \in active => Stage(s) = "open")'
         /\ (Taken(s) => Stage(s) = "closing")'
         /\ (closed[s] # << >> => Stage(s) = "closed")'
         /\ (rejected[s] # << >> => Stage(s) = "rejected")'
         /\ (Gone(s) => Stage(s) = "gone")'
         /\ (~(s \in active \/ Taken(s) \/ closed[s] # << >> \/ rejected[s] # << >> \/ Gone(s))
              => Stage(s) = "none")'
  BY StageValue, PTL

\* Every step of the tracker is a step of the life cycle, or changes nothing in it.
LEMMA LifeStep ==
  ASSUME Types, CoreInv, RowsInv, Types', CoreInv', RowsInv', [Next]_vars
  PROVE  [Life!Next]_(Life!vars)
<1> USE TaskKinds DEF memVars, taskVars, lifeVars
<1>1. ASSUME \A x \in Sess : Stage(x)' = Stage(x), UNCHANGED <<alive, cancelled>>
      PROVE  UNCHANGED Life!vars
  BY <1>1 DEF Life!vars
<1>2. ASSUME NEW s \in Sess, \A x \in Sess \ {s} : Stage(x)' = Stage(x), alive,
             UNCHANGED <<alive, cancelled>>,
             \/ Stage(s) = "none" /\ Stage(s)' \in {"open", "rejected"}
             \/ Stage(s) = "open" /\ Stage(s)' = "closing"
             \/ Stage(s) = "closing" /\ Stage(s)' = "closed"
      PROVE  Life!Next
  <2>1. [x \in Sess |-> Stage(x)]' = [[x \in Sess |-> Stage(x)] EXCEPT ![s] = Stage(s)']
    BY <1>2
  <2> QED
    BY <1>2, <2>1 DEF Life!Next, Life!Open, Life!Reject, Life!Take, Life!Record, Life!Move
<1>3. ASSUME alive, UNCHANGED lifeVars, NEW s \in Sess, Handler(s) PROVE [Life!Next]_(Life!vars)
  <2>1. /\ UNCHANGED <<closed, cancelled, target>>
        /\ pc'[s] \notin {"done", "mark", "push"}
        /\ \A x \in Tasks \ {s} : pc'[x] = pc[x]
        /\ \A x \in Sess \ {s} : /\ rejected'[x] = rejected[x] /\ (x \in active' <=> x \in active)
                                 /\ rec'[x] = rec[x]
    BY <1>3, GotoMoves DEF Types, Handler, Admit, Refuse, TrackRejected, PushRejected, NewControl,
         NewEnqueue, NewInsert, HandlerClose
  <2>2. pc[s] \in Early \union {"running"} /\ pc[s] # "refused"
    BY <1>3, GotoMoves DEF Handler, Admit, Refuse, TrackRejected, PushRejected, NewControl,
         NewEnqueue, NewInsert, HandlerClose, Early
  <2>3. pc[s] \notin {"done", "mark", "push"}
    BY <2>2 DEF Early
  <2>4. \A x \in Sess : Taken(x)' <=> Taken(x)
    BY <2>1, <2>3 DEF Taken
  <2>5. ~Gone(s) /\ ~Gone(s)' /\ \A x \in Sess \ {s} : Gone(x)' <=> Gone(x)
    BY <2>1, <2>3 DEF Gone
  <2>6. \A x \in Sess \ {s} : Stage(x)' = Stage(x)
    BY <2>1, <2>4, <2>5, StageSame
  <2>7. pc[s] \in Early => Stage(s) = "none"
    <3>1. ASSUME pc[s] \in Early
          PROVE  s \notin active /\ ~Taken(s) /\ closed[s] = << >> /\ rejected[s] = << >>
      <4>1. SessionOk(s) /\ \A t \in Tasks : TaskOk(t, s)
        BY DEF CoreInv
      <4>2. pc[s] \notin Late
        BY <3>1 DEF Early, Late, Leaving, Closing
      <4>3. ~Taken(s)
        BY <4>1, <4>2 DEF Taken, TaskOk, Holds, Closing
      <4> QED
        BY <2>2, <3>1, <4>1, <4>3 DEF SessionOk, Early
    <3> QED
      BY <2>5, <3>1, StageValue
  <2>8. CASE NewInsert(s)
    <3>1. s \in active' /\ pc[s] \in Early
      BY <2>8, GotoMoves DEF NewInsert, Early
    <3>2. Stage(s)' = "open"
      BY <3>1, StageNext
    <3> QED
      BY <1>2, <1>3, <2>1, <2>6, <2>7, <3>1, <3>2
  <2>9. CASE PushRejected(s)
    <3>1. rejected'[s] # << >> /\ pc[s] \in Early
      <4>1. rejected'[s] = Append(rejected[s], rec[s]) /\ pc[s] = "note"
        BY <2>9, GotoMoves DEF PushRejected, Types
      <4>2. rejected[s] \in Seq(Records) /\ rec[s] \in Records
        BY DEF Types
      <4> QED
        BY <4>1, <4>2 DEF Early
    <3>2. Stage(s)' = "rejected"
      BY <3>1, StageNext
    <3> QED
      BY <1>2, <1>3, <2>1, <2>6, <2>7, <3>1, <3>2
  <2>10. CASE active' = active /\ rejected' = rejected
    <3>1. Stage(s)' = Stage(s)
      BY <2>1, <2>4, <2>5, <2>10, StageSame
    <3> QED
      BY <1>1, <1>3, <2>1, <2>6, <3>1
  <2> QED
    BY <1>3, <2>8, <2>9, <2>10 DEF Handler, Admit, Refuse, TrackRejected, NewControl,
         NewEnqueue, HandlerClose
<1>4. ASSUME alive, UNCHANGED lifeVars, NEW t \in Tasks, NEW s \in Sess, Close(t, s)
      PROVE [Life!Next]_(Life!vars)
  <2>1. /\ target[t] = {s} /\ rejected' = rejected
        /\ \A x \in Tasks \ {t} : pc'[x] = pc[x]
        /\ \A x \in Sess \ {s} : /\ closed'[x] = closed[x] /\ (x \in active' <=> x \in active)
                                 /\ rec'[x] = rec[x]
    BY <1>4, GotoMoves DEF Types, Close, TerminateCancel, CloseControls, CloseRemove, CloseMark,
       ClosePush, CloseEnqueue
  <2>2. target' \in {target, [target EXCEPT ![t] = {}]}
    BY <1>4 DEF Close, TerminateCancel, CloseControls, CloseRemove, Release, CloseMark, ClosePush,
         CloseEnqueue
  <2>3. /\ \A x \in Tasks \ {t} : target'[x] = target[x]
        /\ \A x \in Sess \ {s} : target[t] # {x} /\ target'[t] # {x}
        /\ t \in Admins \/ t = s
    BY ZenonT(60), <2>1, <2>2, OwnTarget DEF Types
  <2>4. \A x \in Sess \ {s} : (Taken(x)' <=> Taken(x)) /\ (Gone(x)' <=> Gone(x))
    BY <2>1, <2>3 DEF Taken, Gone
  <2>5. \A x \in Sess \ {s} : Stage(x)' = Stage(x)
    BY <2>1, <2>4, StageSame
  <2>6. ASSUME pc[t] \notin {"mark", "push"}, pc'[t] \notin {"mark", "push"}
        PROVE  Taken(s)' <=> Taken(s)
    BY <2>1, <2>3, <2>6 DEF Taken
  <2>7. CASE TerminateCancel(t, s)
    <3>1. /\ pc[t] = "cancel" /\ pc'[t] = "close" /\ UNCHANGED <<active, closed, rec>>
          /\ cancelled' = cancelled \union ({s} \intersect controls)
      BY <2>7, GotoMoves DEF TerminateCancel
    <3>2. t # s
      BY <3>1 DEF Types, Early, Late, Leaving, Closing
    <3>3. Gone(s)' <=> Gone(s)
      BY <2>1, <3>1, <3>2 DEF Gone
    <3>4. Stage(s)' = Stage(s)
      BY <2>1, <2>6, <3>1, <3>3, StageSame
    <3>5. CASE s \notin controls
      <4>1. cancelled' = cancelled
        BY <3>1, <3>5
      <4> QED
        BY <1>1, <1>4, <2>5, <3>4, <4>1
    <3>6. CASE s \in controls
      <4>1. SessionOk(s) /\ TaskOk(t, s) /\ s \in target[t] /\ t \in Admins
        BY <2>1, <2>3, <3>2 DEF CoreInv
      <4>2. s \in active
        BY <3>6, <4>1 DEF SessionOk, TaskOk, Late, Leaving, Closing
      <4>3. Stage(s) = "open"
        BY <4>2, StageValue
      <4>4. [x \in Sess |-> Stage(x)]' = [x \in Sess |-> Stage(x)]
        BY <2>5, <3>4
      <4>5. cancelled' = cancelled \union {s}
        BY <3>1, <3>6
      <4> QED
        BY <1>4, <4>3, <4>4, <4>5 DEF Life!Next, Life!Cancel
    <3> QED
      BY <3>5, <3>6
  <2>8. CASE CloseControls(t, s)
    <3>1. /\ pc[t] = "close" /\ pc'[t] = "remove" /\ UNCHANGED <<active, closed, rec, cancelled>>
      BY <2>8, GotoMoves DEF CloseControls
    <3>2. Gone(s)' <=> Gone(s)
      BY <2>1, <3>1 DEF Gone
    <3>3. Stage(s)' = Stage(s)
      BY <2>1, <2>6, <3>1, <3>2, StageSame
    <3> QED
      BY <1>1, <1>4, <2>5, <3>1, <3>3
  <2>9. CASE CloseRemove(t, s) /\ s \in active
    <3>1. /\ pc'[t] = "mark" /\ UNCHANGED <<target, cancelled>>
      BY <2>9, GotoMoves DEF CloseRemove
    <3>2. Taken(s)'
      BY <2>1, <3>1 DEF Taken
    <3>3. Stage(s)' = "closing" /\ Stage(s) = "open"
      BY <2>9, <3>2, StageNext, StageValue
    <3> QED
      BY <1>2, <1>4, <2>5, <3>1, <3>3
  <2>10. CASE CloseRemove(t, s) /\ s \notin active
    <3>1. /\ pc[t] = "remove" /\ pc'[t] = Resume(t) /\ active' = active
          /\ UNCHANGED <<closed, rec, cancelled>>
      BY <2>10, GotoMoves DEF CloseRemove
    <3>2. Gone(s)' <=> Gone(s)
      <4>1. CASE t = s
        BY <2>1, <3>1, <4>1 DEF Gone, RowsInv, Known, Blank
      <4>2. CASE t # s
        BY <2>1, <3>1, <4>2 DEF Gone
      <4> QED
        BY <4>1, <4>2
    <3>3. Stage(s)' = Stage(s)
      BY <2>1, <2>6, <3>1, <3>2, StageSame DEF Resume
    <3> QED
      BY <1>1, <1>4, <2>5, <3>1, <3>3
  <2>11. CASE CloseMark(t, s)
    <3>1. /\ pc[t] = "mark" /\ pc'[t] = "push" /\ UNCHANGED <<active, target, closed, cancelled>>
      BY <2>11, GotoMoves DEF CloseMark
    <3>2. Taken(s) /\ Taken(s)'
      BY <2>1, <3>1 DEF Taken
    <3>3. Stage(s)' = Stage(s)
      BY <3>2, StageNext, StageValue
    <3> QED
      BY <1>1, <1>4, <2>5, <3>1, <3>3
  <2>12. CASE ClosePush(t, s)
    <3>1. /\ pc[t] = "push" /\ cancelled' = cancelled
          /\ closed'[s] = Append(closed[s], snap[t]) /\ closed[s] \in Seq(Records)
          /\ snap[t] \in Records
      BY <2>12, GotoMoves DEF ClosePush, Types
    <3>2. Taken(s) /\ closed'[s] # << >>
      BY <2>1, <3>1 DEF Taken
    <3>3. Stage(s)' = "closed" /\ Stage(s) = "closing"
      BY <3>2, StageNext, StageValue
    <3> QED
      BY <1>2, <1>4, <2>5, <3>1, <3>3
  <2>13. CASE CloseEnqueue(t, s)
    <3>1. pc[t] = "record" /\ UNCHANGED <<closed, cancelled>>
      BY <2>13, GotoMoves DEF CloseEnqueue
    <3>2. closed[s] # << >>
      <4>1. TaskOk(t, s)
        BY DEF CoreInv
      <4> QED
        BY <2>1, <3>1, <4>1 DEF TaskOk, Holds, Closing
    <3>3. Stage(s)' = Stage(s)
      BY <3>1, <3>2, StageNext, StageValue
    <3> QED
      BY <1>1, <1>4, <2>5, <3>1, <3>3
  <2> QED
    BY <1>4, <2>7, <2>8, <2>9, <2>10, <2>11, <2>12, <2>13 DEF Close
<1>5. ASSUME alive, UNCHANGED lifeVars, NEW s \in Sess, NEW r \in Relays, Relay(s, r)
      PROVE UNCHANGED Life!vars
  <2>1. /\ UNCHANGED <<active, closed, rejected, cancelled, pc, target>>
        /\ \A x \in Sess \ {s} : rec'[x] = rec[x]
        /\ rec' = rec \/ rpc[s][r] = "write"
    BY <1>5 DEF Relay, UpdateTraffic, ApplyUpdate, EnqueueUpdate, RelayStops, QueueUpdate, Types
  <2>2. rpc[s][r] = "write" => Known(s) /\ Known(s)'
    <3>1. Running
      BY <1>5 DEF Running
    <3> QED
      BY <3>1, KnownStays DEF RowsInv
  <2>3. \A x \in Sess : (Taken(x)' <=> Taken(x)) /\ (Gone(x)' <=> Gone(x))
    BY <2>1, <2>2 DEF Taken, Gone, Known, Blank
  <2> QED
    BY <1>1, <1>5, <2>1, <2>3, StageSame
<1>6. ASSUME NEW t \in Admins, UNCHANGED <<active, closed, rejected, rec>>,
             pc[t] \notin {"mark", "push"}, pc'[t] \notin {"mark", "push"},
             \A u \in Tasks \ {t} : pc'[u] = pc[u] /\ target'[u] = target[u]
      PROVE  \A x \in Sess : Stage(x)' = Stage(x)
  <2>1. \A x \in Sess : (Taken(x)' <=> Taken(x)) /\ (Gone(x)' <=> Gone(x))
    BY <1>6 DEF Taken, Gone
  <2> QED
    BY <1>6, <2>1, StageSame
<1>7. ASSUME alive, UNCHANGED lifeVars, NEW t \in Apis, NEW s \in Sess, ApiTerminate(t, s)
      PROVE  UNCHANGED Life!vars
  <2>1. t \in Admins
    BY DEF Admins
  <2>2. /\ UNCHANGED <<active, closed, rejected, rec, cancelled>>
        /\ pc[t] = "idle" /\ pc'[t] = "cancel"
        /\ \A u \in Tasks \ {t} : pc'[u] = pc[u] /\ target'[u] = target[u]
    BY <1>7, <2>1, GotoMoves DEF ApiTerminate, Types
  <2> QED
    BY <1>1, <1>6, <1>7, <2>1, <2>2
<1>8. ASSUME alive, UNCHANGED lifeVars, NEW t \in Enforcers, Reload(t) PROVE UNCHANGED Life!vars
  <2>1. t \in Admins
    BY DEF Admins
  <2>2. /\ UNCHANGED <<active, closed, rejected, rec, cancelled, target>>
        /\ pc[t] = "idle" /\ pc'[t] = "scan" /\ \A u \in Tasks \ {t} : pc'[u] = pc[u]
    BY <1>8, <2>1, GotoMoves DEF Reload
  <2> QED
    BY <1>1, <1>6, <1>8, <2>1, <2>2
<1>9. ASSUME alive, UNCHANGED lifeVars, NEW t \in Admins, Sweep(t) PROVE UNCHANGED Life!vars
  <2>1. /\ UNCHANGED <<active, closed, rejected, rec, cancelled>>
        /\ pc[t] \in {"scan", "todo"} /\ pc'[t] \in {"scan", "todo", "cancel", "signal", "idle"}
        /\ \A u \in Tasks \ {t} : pc'[u] = pc[u] /\ target'[u] = target[u]
    BY <1>9, GotoMoves DEF Sweep, ScanVisit, TerminateNext, ScanEnd, TerminateEnd, Types
  <2> QED
    BY <1>1, <1>6, <1>9, <2>1
<1>10. ASSUME alive, UNCHANGED lifeVars, Stopping PROVE UNCHANGED Life!vars
  <2>1. Main \in Admins
    BY DEF Admins
  <2>2. /\ UNCHANGED <<active, closed, rejected, rec, cancelled, target>>
        /\ pc[Main] \notin {"mark", "push"} /\ pc'[Main] \notin {"mark", "push"}
        /\ \A u \in Tasks \ {Main} : pc'[u] = pc[u]
    BY <1>10, <2>1, GotoMoves DEF Stopping, Shutdown, ShutdownSignal, ShutdownFlush, ShutdownSave
  <2> QED
    BY <1>1, <1>6, <1>10, <2>1, <2>2
<1>11. ASSUME TrafficWorker \/ BatchWorker \/ ProcessEnds \/ UNCHANGED vars
       PROVE  cancelled' = cancelled /\ \A x \in Sess : Stage(x)' = Stage(x)
  <2>1. UNCHANGED <<active, closed, rejected, rec, cancelled, pc, target>>
    BY <1>11 DEF TrafficWorker, WorkerSessions, BatchWorker, WorkerTick, WorkerNotified,
         WorkerStop, WorkerSave, ProcessEnds, vars
  <2>2. \A x \in Sess : (Taken(x)' <=> Taken(x)) /\ (Gone(x)' <=> Gone(x))
    BY <2>1 DEF Taken, Gone
  <2> QED
    BY <2>1, <2>2, StageSame
<1>12. ASSUME alive, UNCHANGED lifeVars, TrafficWorker \/ BatchWorker PROVE UNCHANGED Life!vars
  BY <1>1, <1>11, <1>12
<1>13. ASSUME UNCHANGED vars PROVE UNCHANGED Life!vars
  BY <1>1, <1>11, <1>13 DEF vars
<1>14. ASSUME ProcessEnds PROVE Life!Next
  <2>1. alive /\ alive' = FALSE /\ cancelled' = cancelled
        /\ [x \in Sess |-> Stage(x)]' = [x \in Sess |-> Stage(x)]
    BY <1>11, <1>14 DEF ProcessEnds
  <2> QED
    BY <2>1 DEF Life!Next, Life!Stop
<1>15. ASSUME Restart PROVE Life!Next
  <2>1. /\ ~alive /\ alive' = TRUE /\ cancelled' = {} /\ active' = {}
        /\ \A x \in Sess : /\ closed'[x] = << >> /\ rejected'[x] = << >> /\ rec'[x] = Blank
                           /\ pc'[x] = IF pc[x] # "idle" THEN "done" ELSE "idle"
        /\ \A t \in Tasks : pc'[t] \in {"idle", "done"}
    BY <1>15 DEF Restart, FreshMemory
  <2>2. \A x \in Sess : ~Taken(x)' /\ (Gone(x)' <=> pc[x] # "idle")
    BY <2>1 DEF Taken, Gone
  <2>3. \A x \in Sess : Stage(x)' = IF pc[x] # "idle" THEN "gone" ELSE "none"
    BY <2>1, <2>2, StageNext
  <2>4. \A x \in Sess : Stage(x) = "none" \/ pc[x] # "idle"
    BY StageValue
  <2> DEFINE begun == {x \in Sess : Stage(x) = "none" /\ pc[x] # "idle"}
  <2>5. begun \in SUBSET {x \in Sess : [y \in Sess |-> Stage(y)][x] = "none"}
    OBVIOUS
  <2>6. [x \in Sess |-> Stage(x)]' =
          [x \in Sess |-> IF [y \in Sess |-> Stage(y)][x] = "none" /\ x \notin begun
                          THEN "none" ELSE "gone"]
    BY <2>3, <2>4
  <2> QED
    BY <2>1, <2>5, <2>6 DEF Life!Next, Life!Start
<1> QED
  BY <1>3, <1>4, <1>5, <1>7, <1>8, <1>9, <1>10, <1>12, <1>13, <1>14, <1>15 DEF Next, Running

\* The tracker implements the life cycle of a session: with its handler, the API,
\* enforcements, the shutdown and new processes at work on it, a session is opened
\* once, cancelled only while open, taken by one closer, recorded once and never
\* opened again.
THEOREM TrackerImplementsLife == Spec => LifeSpec
<1>1. Init => Life!Init
  <2> SUFFICES ASSUME Init PROVE Life!Init
    OBVIOUS
  <2>1. ASSUME NEW s \in Sess PROVE Stage(s) = "none"
    BY TaskKinds DEF Init, Stage
  <2> QED
    BY <2>1 DEF Init, Life!Init
<1>2. Init => RowsInv
  BY TaskKinds DEF Init, RowsInv, RowsKnown, ActiveRowsAreOurs, Blank, Records, Holds, Closing
<1>3. Types /\ CoreInv /\ RowsInv /\ (Types /\ CoreInv /\ RowsInv)' /\ [Next]_vars
        => [Life!Next]_(Life!vars)
  BY LifeStep
<1> QED
  BY <1>1, <1>2, <1>3, CoreAlways, RowsStep, PTL DEF Spec, LifeSpec, Life!Spec
=============================================================================
