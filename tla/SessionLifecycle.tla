-------------------------- MODULE SessionLifecycle --------------------------
(***************************************************************************)
(* What the session tracker promises about a session, whoever opens,       *)
(* terminates and closes it: it is opened once or rejected, cancelled only *)
(* while it is open, taken from the open ones by a single closer, recorded *)
(* once, and never comes back.  A process that ends takes its memory with  *)
(* it: the next one starts without any of the old sessions.                *)
(***************************************************************************)
CONSTANT Sess

VARIABLES
  up,        \* the process runs
  stage,     \* session -> where it is in its life
  cancelled  \* the sessions that were cancelled

vars == <<up, stage, cancelled>>

Stages == {"none", "open", "closing", "closed", "rejected", "gone"}

Init == up = TRUE /\ stage = [s \in Sess |-> "none"] /\ cancelled = {}

Move(s, from, to) == up /\ stage[s] = from /\ stage' = [stage EXCEPT ![s] = to] /\ UNCHANGED <<up, cancelled>>

Open(s)   == Move(s, "none", "open")
Reject(s) == Move(s, "none", "rejected")
Take(s)   == Move(s, "open", "closing")
Record(s) == Move(s, "closing", "closed")

Cancel(s) ==
  /\ up /\ stage[s] = "open"
  /\ cancelled' = cancelled \union {s}
  /\ UNCHANGED <<up, stage>>

Stop == up /\ up' = FALSE /\ UNCHANGED <<stage, cancelled>>

\* A session the old process was about to open is lost or, if nothing of it was
\* begun, still to come.
Start ==
  /\ ~up /\ up' = TRUE
  /\ cancelled' = {}
  /\ \E begun \in SUBSET {s \in Sess : stage[s] = "none"} :
       stage' = [s \in Sess |-> IF stage[s] = "none" /\ s \notin begun THEN "none" ELSE "gone"]

Next ==
  \/ \E s \in Sess : Open(s) \/ Reject(s) \/ Take(s) \/ Record(s) \/ Cancel(s)
  \/ Stop
  \/ Start

Spec == Init /\ [][Next]_vars
=============================================================================
