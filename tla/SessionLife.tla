----------------------------- MODULE SessionLife -----------------------------
(***************************************************************************)
(* The life of one P2PSession as the code that owns it sees it: connect()  *)
(* is awaited and returns True or False, `connected' is read at any time,  *)
(* and the session may be dropped (END from the station, heartbeat         *)
(* timeout, disconnect()) at any time after it was established, also       *)
(* before connect() has returned.  P2PSession implements this.             *)
(***************************************************************************)
VARIABLES
  outcome,        \* of connect(): "pending", "true" or "false"
  established,    \* connect() has passed the lookup phase
  connected       \* the property of that name

vars == <<outcome, established, connected>>

Init ==
  /\ outcome = "pending"
  /\ established = FALSE
  /\ connected = FALSE

\* A station has answered: connect() goes on to negotiate encryption.
Establish ==
  /\ outcome = "pending" /\ ~established
  /\ established' = TRUE
  /\ connected' = TRUE
  /\ UNCHANGED outcome

Fail ==
  /\ outcome = "pending" /\ ~established
  /\ outcome' = "false"
  /\ UNCHANGED <<established, connected>>

\* connect() returns True without looking at `connected' again.
Succeed ==
  /\ outcome = "pending" /\ established
  /\ outcome' = "true"
  /\ UNCHANGED <<established, connected>>

Drop ==
  /\ connected
  /\ connected' = FALSE
  /\ UNCHANGED <<outcome, established>>

Next == Establish \/ Fail \/ Succeed \/ Drop

Spec == Init /\ [][Next]_vars
=============================================================================
