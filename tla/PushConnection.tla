----------------------------- MODULE PushConnection ----------------------------
(***************************************************************************)
(* MCSClient (lib/push/mcs.py): run_forever connects to Google's push      *)
(* server, logs in with the ids of the messages it has received, waits for *)
(* its receive task and connects again.  Whoever shuts the client down     *)
(* cancels the task of run_forever and calls disconnect() (PushLife).      *)
(*                                                                         *)
(* The server is external: it keeps a message until a login acknowledges   *)
(* it, and sends on every connection what it still has, in order.          *)
(*                                                                         *)
(* Heartbeats, the waiting times between connections and the framing of    *)
(* messages are left out; every message has a persistent_id.               *)
(***************************************************************************)
EXTENDS Integers, SequencesExt

CONSTANTS
  Keep,         \* _received_persistent_ids keeps this many (100)
  MaxMessages,  \* bound: messages
  MaxFailures   \* bound: connections that fail or break

ASSUME PushAssumption == Keep \in Nat \ {0} /\ MaxMessages \in Nat /\ MaxFailures \in Nat

VARIABLES
  run,        \* where the task of run_forever is
  cancelled,  \* it will find a CancelledError where it waits
  recv,       \* _recv_task: "none", "running", "cancelled" or "done"
  ids,        \* _received_persistent_ids
  transit,    \* messages on their way through the connection
  sent,       \* server: the number of messages so far; their ids are 1..sent
  stored,     \* server: the messages that no login has acknowledged
  pushed,     \* server: the messages sent on this connection
  handled,    \* history: how often _on_message has returned, per message
  raised,     \* history: messages for which it has raised an exception
  forgotten,  \* history: ids that the list had no room for
  failures    \* for the bound

clientVars == <<run, cancelled, recv, ids>>
serverVars == <<transit, sent, stored, pushed>>
historyVars == <<handled, raised, forgotten>>
pushVars == <<clientVars, serverVars, historyVars, failures>>

Messages == 1..MaxMessages

PushInit ==
  /\ run = "none" /\ cancelled = FALSE /\ recv = "none" /\ ids = <<>>
  /\ transit = <<>> /\ sent = 0 /\ stored = {} /\ pushed = {}
  /\ handled = [m \in Messages |-> 0] /\ raised = {} /\ forgotten = {}
  /\ failures = 0

Goes(from, to) == run \in from /\ run' = to
Fails == failures < MaxFailures /\ failures' = failures + 1

-----------------------------------------------------------------------------
(* connect(). *)

Opened ==
  /\ Goes({"opening"}, "login")
  /\ ~cancelled
  /\ UNCHANGED <<cancelled, recv, ids, serverVars, historyVars, failures>>

\* External: the server takes the login, and forgets what it acknowledges.
LoginServed ==
  /\ Goes({"login"}, "answered")
  /\ stored' = stored \ ToSet(ids)
  /\ pushed' = {} /\ transit' = <<>>
  /\ UNCHANGED <<cancelled, recv, ids, sent, historyVars, failures>>

Connected ==
  /\ Goes({"answered"}, "receiving")
  /\ ~cancelled
  /\ recv' = "running"
  /\ UNCHANGED <<cancelled, ids, serverVars, historyVars, failures>>

Connecting == {"opening", "login", "answered"}

\* Mutant: an error ends run_forever.
MutantConnectFails ==
  /\ Goes(Connecting, "ended")
  /\ ~cancelled
  /\ Fails
  /\ UNCHANGED <<cancelled, recv, ids, serverVars, historyVars>>

\* Any exception but CancelledError.
ConnectFails ==
  /\ Goes(Connecting, "backoff")
  /\ ~cancelled
  /\ Fails
  /\ UNCHANGED <<cancelled, recv, ids, serverVars, historyVars>>

-----------------------------------------------------------------------------
(* _receive_loop. *)

\* Mutant: what has no room in the list is not handed over either.
MutantHandleDataMessage(m) ==
  /\ ids' = IF Len(ids) < Keep THEN Append(ids, m) ELSE Append(Tail(ids), m)
  /\ forgotten' = forgotten \cup (ToSet(ids) \ ToSet(ids'))
  /\ \/ /\ handled' = [handled EXCEPT ![m] = IF Len(ids) < Keep THEN @ + 1 ELSE @]
        /\ UNCHANGED <<raised, recv>>
     \/ raised' = raised \cup {m} /\ recv' = "done" /\ UNCHANGED handled

\* _handle_data_message: the id is recorded before _on_message, which may raise an
\* exception; that ends the receive task.
HandleDataMessage(m) ==
  /\ ids' = IF Len(ids) < Keep THEN Append(ids, m) ELSE Append(Tail(ids), m)
  /\ forgotten' = forgotten \cup (ToSet(ids) \ ToSet(ids'))
  /\ \/ handled' = [handled EXCEPT ![m] = @ + 1] /\ UNCHANGED <<raised, recv>>
     \/ raised' = raised \cup {m} /\ recv' = "done" /\ UNCHANGED handled

Receive ==
  /\ recv = "running"
  /\ transit # <<>>
  /\ HandleDataMessage(Head(transit))
  /\ transit' = Tail(transit)
  /\ UNCHANGED <<run, cancelled, sent, stored, pushed, failures>>

\* The connection breaks, or the server closes it.
LinkLost ==
  /\ recv = "running"
  /\ recv' = "done"
  /\ Fails
  /\ UNCHANGED <<run, cancelled, ids, serverVars, historyVars>>

\* The receive task swallows its CancelledError.
ReceiveCancelled ==
  /\ recv = "cancelled"
  /\ recv' = "done"
  /\ UNCHANGED <<run, cancelled, ids, serverVars, historyVars, failures>>

-----------------------------------------------------------------------------
(* run_forever. *)

\* The receive task has ended, and nothing tells why.
ReceiveDone ==
  /\ recv = "done"
  /\ Goes({"receiving"}, "backoff")
  /\ ~cancelled
  /\ UNCHANGED <<cancelled, recv, ids, serverVars, historyVars, failures>>

BackoffOver ==
  /\ Goes({"backoff"}, "opening")
  /\ ~cancelled
  /\ UNCHANGED <<cancelled, recv, ids, serverVars, historyVars, failures>>

\* The task ends: in connect() or at its receive task through disconnect(), in its
\* sleep because that is outside the try.
RunCancelled ==
  /\ cancelled
  /\ Goes({"backoff", "receiving"} \cup Connecting, "ended")
  /\ UNCHANGED <<cancelled, recv, ids, serverVars, historyVars, failures>>

\* Mutant: a cancellation counts as delivered while the task sleeps.
MutantStop ==
  /\ recv' = IF recv = "running" THEN "cancelled" ELSE recv
  /\ cancelled' = (cancelled \/ run \in Connecting \/ (run = "receiving" /\ recv = "done"))

\* cancel() and disconnect() from outside.  A task that waits for its receive task
\* passes the cancellation on to it, and will not see it.
Stop ==
  /\ recv' = IF recv = "running" THEN "cancelled" ELSE recv
  /\ cancelled' = (cancelled \/ run \in Connecting \cup {"backoff"}
                             \/ (run = "receiving" /\ recv = "done"))

-----------------------------------------------------------------------------
(* The server. *)

MessageSent ==
  /\ sent < MaxMessages
  /\ sent' = sent + 1
  /\ stored' = stored \cup {sent'}
  /\ UNCHANGED <<clientVars, transit, pushed, historyVars, failures>>

\* While the receive task runs the connection is there; the server sends in order.
Pushed(m) ==
  /\ recv = "running"
  /\ m \in stored \ pushed
  /\ \A n \in stored \ pushed : m <= n
  /\ pushed' = pushed \cup {m}
  /\ transit' = Append(transit, m)
  /\ UNCHANGED <<clientVars, sent, stored, historyVars, failures>>

-----------------------------------------------------------------------------
Client ==
  \/ Opened \/ Connected \/ Receive \/ ReceiveCancelled \/ ReceiveDone \/ BackoffOver
  \/ RunCancelled

Server == LoginServed \/ \E m \in Messages : Pushed(m)

PushNext == Client \/ Server \/ ConnectFails \/ LinkLost

\* The event loop goes on, and so does the server; failures are up to the network.
PushFairness == WF_pushVars(Client) /\ WF_pushVars(Server)

PushTypeOK ==
  /\ run \in {"none", "receiving", "backoff", "ended"} \cup Connecting
  /\ cancelled \in BOOLEAN
  /\ recv \in {"none", "running", "cancelled", "done"}
  /\ ids \in Seq(Messages) /\ Len(ids) <= Keep
  /\ transit \in Seq(Messages)
  /\ sent \in 0..MaxMessages /\ stored \subseteq Messages /\ pushed \subseteq Messages
  /\ handled \in [Messages -> Nat]
  /\ raised \subseteq Messages /\ forgotten \subseteq Messages
  /\ failures \in Nat

\* The server throws a message away only when it has been handled, or its handler
\* has raised an exception (_handle_data_message acknowledges it in both cases).
NotLost == \A m \in 1..sent : m \in stored \/ handled[m] > 0 \/ m \in raised

\* A message is handled a second time only if its id had to leave the list of those
\* acknowledged (the last 100), through any number of connections.
AtMostOnce == \A m \in Messages : handled[m] > 1 => m \in forgotten

\* A message is handled exactly once, with the exceptions named.
HandledOnce == NotLost /\ AtMostOnce
=============================================================================
