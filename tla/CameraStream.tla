----------------------------- MODULE CameraStream ------------------------------
(***************************************************************************)
(* A camera entity (camera.py) over the StreamManager and the session pool:*)
(* the ffmpeg pipeline between a P2P session and a TCP port, set up by     *)
(* turn_on (on a session of the pool) or by stream_source (on the          *)
(* manager's), and torn down by turn_off, by the end of the session        *)
(* (_on_disconnect) and by the end of ffmpeg (_forward_ffmpeg_output).     *)
(*                                                                         *)
(* All of them are tasks, and the fields of the entity are all they share. *)
(* A pipeline is named by a number; the TCP server, which is made with the *)
(* URL, and its clients are left out, and so are RTSP and still images.    *)
(* The session of the pool is the station's: another camera of the station *)
(* starts and stops streams on it, and a session has one slot for each     *)
(* callback, which the last camera has.  Of the other camera, all that the *)
(* two share is modelled, and its pipeline is left out.                    *)
(* External: ffmpeg, which exits when its input is closed, when it is told *)
(* to, or by itself; and the pool (P2PSessionPool), which has a connected  *)
(* session, makes one, or fails.                                           *)
(***************************************************************************)
EXTENDS StreamManager

CONSTANTS
  Tasks,     \* bound: the tasks of the cameras at one time
  MaxPipes   \* bound: pipelines (the calls count as inputs)

ASSUME CameraAssumption == MaxPipes \in Nat

VARIABLES
  task,      \* [Tasks -> what it does, where it is, with which session and pipeline]
  p2p,       \* _p2p_session
  theirs,    \* _p2p_session of the other camera
  bound,     \* sessions whose _on_disconnect is the camera's
  taken,     \* sessions whose _on_disconnect is the other camera's
  pipe,      \* _pipe_w: the pipeline that it belongs to, or 0
  process,   \* _ffmpeg_process, likewise
  forward,   \* _forward_task, likewise
  url,       \* _stream_url, likewise
  fds,       \* the pipelines whose write end is open
  running,   \* the pipelines whose ffmpeg runs
  forwards,  \* the pipelines whose _forward_ffmpeg_output runs
  ended,     \* _stop_stream tasks that have not begun
  cleanups,  \* _cleanup_ffmpeg tasks of _on_disconnect that have not begun
  made,      \* pipelines so far
  feed,      \* history: the session whose frames the URL stands for, if its callbacks
             \* were set
  late,      \* history: that session had ended before they were set
  lost,      \* history: sessions a camera forgot while they were connected
  crossed    \* history: a set-up began over what a failed one had left, or ran
             \* together with another or with a clean-up

fields == <<pipe, process, forward, url>>
system == <<fds, running, forwards, ended>>
shared == <<bound, taken, feed, late>>
held == <<p2p, theirs, shared, lost>>
cameraVars == <<task, held, fields, system, cleanups, made, crossed>>
vars == <<managerVars, cameraVars>>

Idle == [does |-> "nothing", at |-> "idle", on |-> NoSession, pipe |-> 0]

Init ==
  /\ ManagerInit
  /\ task = [t \in Tasks |-> Idle]
  /\ p2p = NoSession /\ theirs = NoSession /\ bound = {} /\ taken = {}
  /\ pipe = 0 /\ process = 0 /\ forward = 0 /\ url = 0
  /\ fds = {} /\ running = {} /\ forwards = {}
  /\ ended = 0 /\ cleanups = 0
  /\ made = 0 /\ feed = NoSession /\ late = FALSE /\ lost = {} /\ crossed = FALSE

In(t, where) == task[t].at = where
Put(t, does, where, s, n) ==
  task' = [task EXCEPT ![t] = [does |-> does, at |-> where, on |-> s, pipe |-> n]]
Move(t, where) == task' = [task EXCEPT ![t].at = where]
Finish(t) == task' = [task EXCEPT ![t] = Idle]

SettingUp(t) == task[t].at \in {"spawn", "listen"}
Reaping(t) == task[t].at = "reap"
Cross(B) == crossed' = (crossed \/ B)

uncalled == <<starter, tableVars, autoStops, overlap>>
unmanaged == <<uncalled, inputs>>

\* A session whose _on_disconnect is among S has its disconnect() run in this step.
Told(S) == hung' \cap S # {}

Forgets(p, q) ==
  /\ p2p' = IF Told(bound) THEN NoSession ELSE p
  /\ theirs' = IF Told(taken) THEN NoSession ELSE q
  /\ lost' = lost \cup {s \in connected' : (Told(bound) /\ s = p) \/ (Told(taken) /\ s = q)}

\* Mutant: the end of a session does not tear the pipeline down.
MutantOnDisconnect(p, q) == Forgets(p, q) /\ cleanups' = cleanups

\* _on_disconnect, of the camera and of the other one, for every session that calls
\* it in this step; p and q are what else the step makes of their _p2p_session.
OnDisconnect(p, q) ==
  /\ Forgets(p, q)
  /\ cleanups' = cleanups + Cardinality(hung' \cap bound)

-----------------------------------------------------------------------------
(* Setting a pipeline up. *)

unpiped == <<process, forward, url, running, forwards, ended>>

\* _setup_ffmpeg up to the process, when there is no pipeline.
SetupFfmpeg(t, does, s) ==
  /\ made < MaxPipes
  /\ made' = made + 1
  /\ pipe' = made' /\ fds' = fds \cup {made'}
  /\ Put(t, does, "spawn", s, made')
  /\ Cross(pipe # 0 \/ process # 0 \/ \E u \in Tasks : SettingUp(u) \/ Reaping(u))
  /\ UNCHANGED unpiped

\* async_turn_on up to the session: the camera's own, or the pool is asked for one.
TurnOn(t) ==
  /\ In(t, "idle")
  /\ url = 0
  /\ Input
  /\ IF p2p \in connected
       THEN SetupFfmpeg(t, "on", p2p)
       ELSE /\ Put(t, "on", "session", NoSession, 0)
            /\ UNCHANGED <<fields, system, made, crossed>>
  /\ NoHang
  /\ UNCHANGED <<uncalled, held, cleanups>>

New ==
  Others \ (bound \cup taken \cup connected \cup {p2p, theirs} \cup {task[t].on : t \in Tasks})

\* What get_session returns: a connected session if the pool has one; else a new one,
\* unless that fails.  A new one may have ended during its handshake.
Pooled == IF Others \cap connected # {} THEN Others \cap connected
                                        ELSE New \cup {NoSession}

\* The start button asks the pool by itself, and does not tell the camera.
PressStart(t) ==
  /\ In(t, "idle")
  /\ Input
  /\ Put(t, "button", "session", NoSession, 0)
  /\ NoHang
  /\ UNCHANGED <<uncalled, held, cleanups, fields, system, made, crossed>>

\* The session is there; a pipeline that has come up in the meantime is used, and
\* the button needs none.
SessionGot(t) ==
  /\ In(t, "session")
  /\ \E s \in Pooled : \E fresh \in SUBSET ({s} \cap Others) :
       /\ connected' = connected \cup fresh
       /\ p2p' = IF task[t].does = "on" THEN s ELSE p2p
       /\ IF s # NoSession /\ url = 0 /\ task[t].does = "on"
            THEN SetupFfmpeg(t, "on", s) /\ UNCHANGED streaming
            ELSE /\ IF s \in connected'
                      THEN /\ Put(t, task[t].does, "start", s, 0)
                           /\ streaming' = streaming \cup {s}
                      ELSE Finish(t) /\ UNCHANGED streaming
                 /\ UNCHANGED <<fields, system, made, crossed>>
  /\ hung' = {}
  /\ UNCHANGED <<keepalive, unmanaged, theirs, shared, lost, cleanups>>

\* stream_source: only on the manager's session.
StreamSource(t) ==
  /\ In(t, "idle")
  /\ url = 0
  /\ active /\ current \in connected
  /\ Input
  /\ SetupFfmpeg(t, "source", current)
  /\ NoHang
  /\ UNCHANGED <<uncalled, held, cleanups>>

Spawned(t) ==
  /\ In(t, "spawn")
  /\ process' = task[t].pipe
  /\ running' = running \cup {task[t].pipe}
  /\ Move(t, "listen")
  /\ NoHang
  /\ UNCHANGED <<unmanaged, held, pipe, forward, url, fds, forwards, ended,
                 cleanups, made, crossed>>

\* There is no ffmpeg, or no port: the exception goes to the caller, and what there
\* is of the pipeline stays in the fields.
SetupFails(t) ==
  /\ SettingUp(t)
  /\ Finish(t)
  /\ NoHang
  /\ UNCHANGED <<unmanaged, held, fields, system, cleanups, made, crossed>>

\* The server listens: the URL, the forward task, the callbacks; then, for turn_on,
\* start_livestream, which raises when the session has ended.  When a clean-up has
\* taken the process away, the exception comes before the callbacks.
Listening(t) ==
  /\ In(t, "listen")
  /\ url' = task[t].pipe
  /\ forward' = task[t].pipe
  /\ IF process = 0
       THEN /\ feed' = NoSession /\ late' = FALSE
            /\ Finish(t)
            /\ UNCHANGED <<bound, taken, forwards, streaming>>
       ELSE /\ feed' = task[t].on /\ late' = (task[t].on \notin connected)
            /\ bound' = bound \cup {task[t].on} /\ taken' = taken \ {task[t].on}
            /\ forwards' = forwards \cup {task[t].pipe}
            /\ IF task[t].does = "on" /\ task[t].on \in connected
                 THEN Move(t, "start") /\ streaming' = streaming \cup {task[t].on}
                 ELSE Finish(t) /\ UNCHANGED streaming
  /\ hung' = {}
  /\ UNCHANGED <<connected, keepalive, unmanaged, p2p, theirs, lost, pipe, process, fds,
                 running, ended, cleanups, made, crossed>>

StartedOn(t) ==
  /\ In(t, "start")
  /\ LivestreamStarted(task[t].on)
  /\ Finish(t)
  /\ UNCHANGED <<unmanaged, held, fields, system, cleanups, made, crossed>>

-----------------------------------------------------------------------------
(* Tearing it down. *)

\* Mutant: the pipe is forgotten and not closed.
MutantCleanupFfmpeg(t, does) ==
  /\ forwards' = forwards \ {forward}
  /\ ended' = ended + Cardinality(forwards \cap {forward})
  /\ forward' = 0
  /\ fds' = fds /\ pipe' = 0
  /\ IF process = 0 THEN url' = 0 /\ Finish(t)
                    ELSE url' = url /\ Put(t, does, "reap", NoSession, process)
  /\ Cross(\E u \in Tasks \ {t} : SettingUp(u))
  /\ UNCHANGED <<process, running, made>>

\* _cleanup_ffmpeg until ffmpeg has exited.  The forward task is cancelled, and its
\* last act is to have the stream stopped (_stop_stream).
CleanupFfmpeg(t, does) ==
  /\ forwards' = forwards \ {forward}
  /\ ended' = ended + Cardinality(forwards \cap {forward})
  /\ forward' = IF forward \in forwards THEN 0 ELSE forward
  /\ fds' = fds \ {pipe} /\ pipe' = 0
  /\ IF process = 0 THEN url' = 0 /\ Finish(t)
                    ELSE url' = url /\ Put(t, does, "reap", NoSession, process)
  /\ Cross(\E u \in Tasks \ {t} : SettingUp(u))
  /\ UNCHANGED <<process, running, made>>

\* ffmpeg has exited, or has not within 5 s: then the process in the field is killed.
Reaped(t) ==
  /\ Reaping(t)
  /\ \/ task[t].pipe \notin running /\ UNCHANGED running
     \/ task[t].pipe \in running /\ running' = running \ {process}
  /\ process' = 0 /\ url' = 0
  /\ Finish(t)
  /\ NoHang
  /\ UNCHANGED <<unmanaged, held, pipe, forward, fds, forwards, ended, cleanups,
                 made, crossed>>

\* The first lines of _stop_stream and turn_off: the camera's own session is stopped,
\* at once if it has ended.  The rest follows in LivestreamStopped.
StopSession(t, does) ==
  IF p2p \in connected
    THEN /\ Put(t, does, "stop", p2p, 0)
         /\ StopLivestream({p2p})
         /\ UNCHANGED <<p2p, theirs, lost, cleanups, fields, system, made, crossed>>
    ELSE /\ Hang({p2p} \ {NoSession})
         /\ OnDisconnect(NoSession, theirs)
         /\ CleanupFfmpeg(t, does)

\* async_turn_off: first the manager's stream, then the camera's own.
TurnOff(t) ==
  /\ In(t, "idle")
  /\ Input
  /\ IF active
       THEN /\ Cleanup
            /\ OnDisconnect(p2p, theirs)
            /\ Put(t, "off", "manager", current, 0)
            /\ UNCHANGED <<fields, system, made, crossed>>
       ELSE /\ task' = [task EXCEPT ![t] = [Idle EXCEPT !.does = "off", !.at = "own"]]
            /\ NoHang
            /\ UNCHANGED <<tableVars, p2p, theirs, lost, cleanups, fields, system, made,
                           crossed>>
  /\ UNCHANGED <<starter, autoStops, overlap, shared>>

StopOwn(t) ==
  /\ In(t, "own") \/ (In(t, "manager") /\ task[t].on \notin closing)
  /\ StopSession(t, task[t].does)
  /\ UNCHANGED <<unmanaged, shared>>

\* stop_livestream on session s has returned, and has cancelled the keepalive task;
\* what is disconnected next is _p2p_session of the camera that has stopped it, h.
StopEnds(s, h) ==
  LET S == {h} \ {NoSession} IN
  /\ connected' = connected \ S
  /\ streaming' = streaming \ S
  /\ keepalive' = keepalive \ (S \cup {s})
  /\ hung' = S

\* When _p2p_session is None by now, turn_off ends with an exception, and
\* _stop_stream goes on.
LivestreamStopped(t) ==
  /\ In(t, "stop")
  /\ StopEnds(task[t].on, p2p)
  /\ OnDisconnect(NoSession, theirs)
  /\ IF p2p = NoSession /\ task[t].does = "off"
       THEN Finish(t) /\ UNCHANGED <<fields, system, made, crossed>>
       ELSE CleanupFfmpeg(t, task[t].does)
  /\ UNCHANGED <<unmanaged, shared>>

\* _stop_stream, the task that the end of a forward task leaves behind.
StopStream(t) ==
  /\ In(t, "idle")
  /\ ended > 0
  /\ Put(t, "end", "own", NoSession, 0)
  /\ ended' = ended - 1
  /\ NoHang
  /\ UNCHANGED <<unmanaged, held, fields, fds, running, forwards, cleanups, made,
                 crossed>>

\* The task of _on_disconnect.
CleanupTask(t) ==
  /\ In(t, "idle")
  /\ cleanups > 0
  /\ cleanups' = cleanups - 1
  /\ CleanupFfmpeg(t, "clean")
  /\ NoHang
  /\ UNCHANGED <<unmanaged, held>>

\* _forward_ffmpeg_output comes to the end of ffmpeg's output.  It reads from the
\* process in the field, which need not be the one it was started for.
ForwardEnds(n) ==
  /\ n \in forwards
  /\ n \notin running \/ process # n
  /\ forwards' = forwards \ {n}
  /\ ended' = ended + 1
  /\ NoHang
  /\ UNCHANGED <<unmanaged, task, held, fields, fds, running, cleanups, made,
                 crossed>>

\* External.
FfmpegExits(n) ==
  /\ n \in running
  /\ running' = running \ {n}
  /\ NoHang
  /\ UNCHANGED <<unmanaged, task, held, fields, fds, forwards, ended, cleanups,
                 made, crossed>>

-----------------------------------------------------------------------------
(* Another camera of the station: the same code over the same session, with a  *)
(* pipeline of its own.  It may be turned on again while it is on, as a third   *)
(* camera would be.                                                            *)

unfielded == <<fields, system, made, crossed>>

\* async_turn_on as far as the session.
OtherTurnsOn(t) ==
  /\ In(t, "idle")
  /\ Input
  /\ \E s \in Pooled : \E fresh \in SUBSET ({s} \cap Others) :
       /\ connected' = connected \cup fresh
       /\ theirs' = s
       /\ IF s = NoSession THEN UNCHANGED task ELSE Put(t, "other", "setup", s, 0)
  /\ hung' = {}
  /\ UNCHANGED <<streaming, keepalive, uncalled, p2p, shared, lost, cleanups, unfielded>>

\* Its pipeline is there, and its callbacks take the place of whoever's they were.
OtherListening(t) ==
  /\ In(t, "setup")
  /\ bound' = bound \ {task[t].on} /\ taken' = taken \cup {task[t].on}
  /\ IF task[t].on \in connected
       THEN Move(t, "start") /\ streaming' = streaming \cup {task[t].on}
       ELSE Finish(t) /\ UNCHANGED streaming
  /\ hung' = {}
  /\ UNCHANGED <<connected, keepalive, unmanaged, p2p, theirs, feed, late, lost, cleanups,
                 unfielded>>

\* Its turn_off, or its _stop_stream.
OtherStops(t) ==
  /\ In(t, "idle")
  /\ theirs # NoSession
  /\ Input
  /\ IF theirs \in connected
       THEN /\ Put(t, "other", "stopping", theirs, 0)
            /\ StopLivestream({theirs})
            /\ UNCHANGED <<p2p, theirs, lost, cleanups>>
       ELSE UNCHANGED task /\ Hang({theirs}) /\ OnDisconnect(p2p, NoSession)
  /\ UNCHANGED <<uncalled, shared, unfielded>>

OtherStopped(t) ==
  /\ In(t, "stopping")
  /\ StopEnds(task[t].on, theirs)
  /\ OnDisconnect(p2p, NoSession)
  /\ Finish(t)
  /\ UNCHANGED <<unmanaged, shared, unfielded>>

-----------------------------------------------------------------------------
\* The manager makes a step, and the session it ends, if any, tells the camera.
ManagerStep ==
  /\ ManagerNext
  /\ OnDisconnect(p2p, theirs)
  /\ UNCHANGED <<task, shared, fields, system, made, crossed>>

SetUp(t) == SessionGot(t) \/ Spawned(t) \/ SetupFails(t) \/ Listening(t) \/ StartedOn(t)
TearDown(t) == StopOwn(t) \/ LivestreamStopped(t) \/ Reaped(t)
Begin(t) == StopStream(t) \/ CleanupTask(t)
Other(t) == OtherTurnsOn(t) \/ OtherListening(t) \/ OtherStops(t) \/ OtherStopped(t)

Next ==
  \/ ManagerStep
  \/ \E t \in Tasks : \/ TurnOn(t) \/ StreamSource(t) \/ PressStart(t) \/ TurnOff(t)
                     \/ SetUp(t) \/ TearDown(t) \/ Begin(t) \/ Other(t)
  \/ \E n \in 1..MaxPipes : ForwardEnds(n) \/ FfmpegExits(n)

Spec == Init /\ [][Next]_vars

-----------------------------------------------------------------------------
Pipes == 0..MaxPipes

TypeOK ==
  /\ ManagerTypeOK
  /\ task \in [Tasks -> [does : {"nothing", "on", "source", "button", "off", "end", "clean",
                                 "other"},
                         at : {"idle", "session", "spawn", "listen", "start", "manager",
                               "own", "stop", "reap", "setup", "stopping"},
                         on : Sessions \cup {NoSession}, pipe : Pipes]]
  /\ p2p \in Sessions \cup {NoSession} /\ theirs \in Sessions \cup {NoSession}
  /\ bound \subseteq Sessions /\ taken \subseteq Sessions
  /\ pipe \in Pipes /\ process \in Pipes /\ forward \in Pipes /\ url \in Pipes
  /\ fds \subseteq Pipes /\ running \subseteq Pipes
  /\ forwards \subseteq Pipes
  /\ ended \in Nat /\ cleanups \in Nat
  /\ feed \in Sessions \cup {NoSession} /\ late \in BOOLEAN /\ lost \subseteq Sessions
  /\ made \in Pipes /\ crossed \in BOOLEAN

\* A pipe that is open and an ffmpeg that runs are the ones in the fields, which are
\* the only way to close them, whatever set-up fails half-way, unless a set-up began
\* over what a failed one had left, or together with another or with a clean-up
\* (_setup_ffmpeg and _cleanup_ffmpeg, each with several awaits).
PipelineHeld ==
  crossed \/ (fds \subseteq {pipe} /\ running \subseteq {process})

\* A session that is connected and streams has its keepalive task, or a start that
\* will see to it is under way: stops and starts of one session cross, those of
\* another camera of the station too, and each stop cancels whatever task is there
\* when its command ends (stop_livestream).  Except for a session that
\* _on_disconnect of another one has made a camera forget.
StreamingPinged ==
  \A s \in (connected \cap streaming) \ lost :
    \/ s \in keepalive
    \/ s \in Starters /\ At(s, "starting")
    \/ \E t \in Tasks : In(t, "start") /\ task[t].on = s

\* The clean-up of _on_disconnect waits for its turn, or one waits for ffmpeg.
Withdrawing == cleanups > 0 \/ \E t \in Tasks : Reaping(t)

\* A URL whose session has ended is being withdrawn, whoever ended the session, the
\* other camera of the station included, unless the session had ended before the
\* camera set its callbacks, or the other camera has replaced them since
\* (_on_disconnect, set by _setup_ffmpeg in the session's only slot).
UrlWithdrawn ==
  (url # 0 /\ feed # NoSession /\ feed \notin connected)
     => late \/ feed \in taken \/ Withdrawing

\* "Include STREAM only when a live stream is available." (camera.py,
\* supported_features): the URL of a session that was connected when the URL was made
\* does not outlive it.
UrlServed ==
  (url # 0 /\ feed # NoSession /\ feed \notin connected) => late \/ Withdrawing

\* "Tear down ffmpeg, TCP server, and pipe." (camera.py, _cleanup_ffmpeg): once the
\* fields are empty and no set-up goes on, there is neither pipe nor ffmpeg.
TornDown ==
  pipe = 0 /\ process = 0 /\ (\A t \in Tasks : ~SettingUp(t)) => fds = {} /\ running = {}
=============================================================================
