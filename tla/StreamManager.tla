----------------------------- MODULE StreamManager -----------------------------
(***************************************************************************)
(* PreemptiveStreamManager (stream_manager.py) and the livestream of a     *)
(* P2PSession (start_livestream, stop_livestream, _keepalive_loop and what *)
(* disconnect() ends, lib/p2p/session.py).                                 *)
(*                                                                         *)
(* Pushes start the stream of a device on a session of its own, a timer    *)
(* stops it, and so do a button, the camera's turn_off and the shutdown.   *)
(* The manager's tables have one entry per device, and its sessions are    *)
(* the device's own, so one device is modelled.  A start is a task, which  *)
(* makes at most one session; the session has the task's name.             *)
(***************************************************************************)
EXTENDS Integers, FiniteSets

CONSTANTS
  Starters,    \* the tasks of _start_stream, and the manager's sessions
  Others,      \* further sessions (the pool's), started and stopped elsewhere
  NoSession,
  Events,      \* what a push can be about
  StartOn,     \* the events that the options start a stream for
  MaxInputs    \* bound: pushes, stops that are asked for, sessions that end

ASSUME ManagerAssumption ==
  /\ Starters \cap Others = {}
  /\ NoSession \notin Starters \cup Others
  /\ StartOn \subseteq Events
  /\ MaxInputs \in Nat

Sessions == Starters \cup Others

VARIABLES
  connected,   \* sessions with _connected
  streaming,   \* sessions with _is_streaming
  keepalive,   \* sessions with a running _keepalive_task
  hung,        \* sessions whose disconnect() ran in the last step
  starter,     \* [Starters -> where the task is]
  current,     \* _active_sessions[sn]
  active,      \* _stream_active[sn]
  timer,       \* _stop_timers[sn]: "none", "armed" or "fired"
  autoStops,   \* tasks of _auto_stop that have not begun
  closing,     \* sessions whose clean-up waits for stop_livestream
  overlap,     \* history: a start began while another made its session
  inputs       \* for the bound

sessionVars == <<connected, streaming, keepalive, hung>>
tableVars == <<current, active, timer, closing>>
managerVars == <<sessionVars, starter, tableVars, autoStops, overlap, inputs>>

ManagerInit ==
  /\ connected = {} /\ streaming = {} /\ keepalive = {} /\ hung = {}
  /\ starter = [t \in Starters |-> "idle"]
  /\ current = NoSession /\ active = FALSE /\ timer = "none"
  /\ autoStops = 0 /\ closing = {} /\ overlap = FALSE
  /\ inputs = 0

At(t, where) == starter[t] = where
Go(t, where) == starter' = [starter EXCEPT ![t] = where]
Input == inputs < MaxInputs /\ inputs' = inputs + 1

-----------------------------------------------------------------------------
(* The session. *)

NoHang == hung' = {} /\ UNCHANGED <<connected, streaming, keepalive>>

\* disconnect(): the session ends, with its tasks, and calls _on_disconnect.
Hang(S) ==
  /\ connected' = connected \ S
  /\ streaming' = streaming \ S
  /\ keepalive' = keepalive \ S
  /\ hung' = S

\* start_livestream up to its command, on a session that connects with it when it
\* is in S; the command raises an exception when the session is not connected.
StartLivestream(s, S) ==
  /\ connected' = connected \cup S
  /\ streaming' = streaming \cup {s}
  /\ hung' = {}
  /\ UNCHANGED keepalive

\* Mutant: the keepalive task is created by start_livestream before its command.
MutantLivestreamStarted(s) == NoHang

\* The command has an answer, or none; a keepalive task is there or is created, and
\* ends at once when the session does not stream any more.
LivestreamStarted(s) ==
  /\ keepalive' = keepalive \cup ({s} \cap connected \cap streaming)
  /\ hung' = {}
  /\ UNCHANGED <<connected, streaming>>

\* stop_livestream up to its command.  The rest follows when the command ends, and
\* a disconnect() with it.
StopLivestream(S) ==
  /\ streaming' = streaming \ S
  /\ hung' = {}
  /\ UNCHANGED <<connected, keepalive>>

\* The station ends the session, or the heartbeat does.
SessionEnds(s) ==
  /\ s \in connected
  /\ Input
  /\ Hang({s})
  /\ UNCHANGED <<starter, tableVars, autoStops, overlap>>

\* _keepalive_loop wakes up and finds that the session does not stream.
KeepaliveEnds(s) ==
  /\ s \in keepalive \ streaming
  /\ keepalive' = keepalive \ {s}
  /\ hung' = {}
  /\ UNCHANGED <<connected, streaming, starter, tableVars, autoStops, overlap, inputs>>

-----------------------------------------------------------------------------
(* The manager. *)

RescheduleStop == timer' = "armed"

\* Mutant: a session that streams is stopped and not disconnected.
MutantCleanup ==
  /\ active' = FALSE /\ timer' = "none" /\ current' = NoSession
  /\ IF current \in streaming \cap connected
       THEN StopLivestream({current})
       ELSE Hang({current} \cap Sessions)
  /\ UNCHANGED closing

\* _cleanup_device up to the stop command: the session is ended when the command
\* ends (StopReturned).  A session that has ended is disconnected once more, at once.
Cleanup ==
  /\ active' = FALSE /\ timer' = "none" /\ current' = NoSession
  /\ IF current \in streaming \cap connected
       THEN closing' = closing \cup {current} /\ StopLivestream({current})
       ELSE Hang({current} \cap Sessions) /\ UNCHANGED closing

\* _on_push_message gives the push to handle_push_event.
PushEvent(event) ==
  /\ event \in StartOn
  /\ Input
  /\ \/ active /\ RescheduleStop /\ UNCHANGED starter
     \/ /\ ~active
        /\ \E t \in Starters : At(t, "idle") /\ Go(t, "scheduled")
        /\ UNCHANGED timer
  /\ NoHang
  /\ UNCHANGED <<current, active, autoStops, closing, overlap>>

\* _start_stream up to _create_session.
StartRuns(t) ==
  /\ At(t, "scheduled")
  /\ Go(t, IF active THEN "done" ELSE "creating")
  /\ overlap' = (overlap \/ (~active /\ \E u \in Starters : At(u, "creating")))
  /\ NoHang
  /\ UNCHANGED <<tableVars, autoStops, inputs>>

\* connect() returns True; start_livestream sends its command.
Created(t) ==
  /\ At(t, "creating")
  /\ Go(t, "starting")
  /\ current' = t /\ active' = TRUE
  /\ StartLivestream(t, {t})
  /\ UNCHANGED <<timer, closing, autoStops, overlap, inputs>>

\* connect() has returned False.
NotConnected(t) ==
  /\ At(t, "creating")
  /\ Go(t, "done")
  /\ NoHang
  /\ UNCHANGED <<tableVars, autoStops, overlap, inputs>>

\* An exception: the keys cannot be fetched; or the session has ended during its own
\* handshake, and start_livestream has raised (the table holds it only in between).
\* What is cleaned up is the stream of the device, whoever has started it.
CreateRaises(t) ==
  /\ At(t, "creating")
  /\ Go(t, "done")
  /\ \/ Cleanup
     \/ /\ active' = FALSE /\ timer' = "none" /\ current' = NoSession
        /\ NoHang
        /\ UNCHANGED closing
  /\ UNCHANGED <<autoStops, overlap, inputs>>

\* Mutant: the timer is left to the events that extend the stream.
MutantStarted(t) ==
  /\ At(t, "starting")
  /\ Go(t, "done")
  /\ LivestreamStarted(t)
  /\ UNCHANGED <<tableVars, autoStops, overlap, inputs>>

Started(t) ==
  /\ At(t, "starting")
  /\ Go(t, "done")
  /\ LivestreamStarted(t)
  /\ RescheduleStop
  /\ UNCHANGED <<current, active, closing, autoStops, overlap, inputs>>

TimerFires ==
  /\ timer = "armed"
  /\ timer' = "fired"
  /\ autoStops' = autoStops + 1
  /\ NoHang
  /\ UNCHANGED <<starter, current, active, closing, overlap, inputs>>

AutoStop ==
  /\ autoStops > 0
  /\ autoStops' = autoStops - 1
  /\ Cleanup
  /\ UNCHANGED <<starter, overlap, inputs>>

\* stop_livestream has returned: the keepalive task is cancelled and the session
\* disconnected, once more if it has ended by itself.
StopReturned(s) ==
  /\ s \in closing
  /\ closing' = closing \ {s}
  /\ Hang({s})
  /\ UNCHANGED <<starter, current, active, timer, autoStops, overlap, inputs>>

\* The stop button (stop_device).
StopDevice ==
  /\ active
  /\ Input
  /\ Cleanup
  /\ UNCHANGED <<starter, autoStops, overlap>>

\* async_shutdown (stop_all): only devices with a session in the table.
StopAll ==
  /\ current # NoSession
  /\ Input
  /\ Cleanup
  /\ UNCHANGED <<starter, autoStops, overlap>>

Start(t) == StartRuns(t) \/ Created(t) \/ NotConnected(t) \/ CreateRaises(t) \/ Started(t)

ManagerNext ==
  \/ \E e \in Events : PushEvent(e)
  \/ \E t \in Starters : Start(t) \/ StopReturned(t)
  \/ \E s \in Sessions : SessionEnds(s) \/ KeepaliveEnds(s)
  \/ TimerFires \/ AutoStop \/ StopDevice \/ StopAll

-----------------------------------------------------------------------------
ManagerTypeOK ==
  /\ connected \subseteq Sessions /\ streaming \subseteq Sessions
  /\ keepalive \subseteq Sessions /\ hung \subseteq Sessions
  /\ starter \in [Starters -> {"idle", "scheduled", "creating", "starting", "done"}]
  /\ current \in Starters \cup {NoSession}
  /\ active \in BOOLEAN /\ overlap \in BOOLEAN
  /\ timer \in {"none", "armed", "fired"}
  /\ closing \subseteq Starters
  /\ autoStops \in Nat /\ inputs \in Nat

\* A stream that counts as active will be stopped: its timer runs, or an auto-stop
\* is on its way, or a start will set a timer (_reschedule_stop and _cleanup_device
\* in any order, from overlapping starts, stops and events).
ActiveIsTimed ==
  active => \/ timer = "armed"
            \/ autoStops > 0
            \/ \E t \in Starters : At(t, "starting")

\* A session of the manager that is connected is the one in the table or is being
\* stopped, unless two starts overlapped: then the later one has taken the place
\* of the other in the table (_active_sessions in _start_stream).
SessionHeld ==
  overlap \/ \A s \in Starters \cap connected : s = current \/ s \in closing

\* "When a relevant event (doorbell press, person detection, motion) arrives via push
\* notification, the stream manager immediately starts the P2P livestream for that
\* camera." (stream_manager.py): after such an event there is a session or a start.
EventServed ==
  [][(\E e \in Events : PushEvent(e)) =>
       \/ current \in connected
       \/ \E t \in Starters : starter'[t] \in {"scheduled", "creating", "starting"}]_managerVars

\* "Stop all active preemptive streams (called on integration shutdown)."
\* (stream_manager.py, stop_all).
AllStopped == [][StopAll => Starters \cap connected' \subseteq closing']_managerVars
=============================================================================
