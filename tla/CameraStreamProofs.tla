-------------------------- MODULE CameraStreamProofs ---------------------------
(***************************************************************************)
(* Theorems about CameraStream, and so about StreamManager inside it, for  *)
(* all values of the constants: any number of starts, tasks of the camera, *)
(* sessions and pipelines.                                                 *)
(***************************************************************************)
EXTENDS CameraStream, FiniteSetTheorems, TLAPS

-----------------------------------------------------------------------------
(* The manager. *)

\* The table holds a session while the device counts as active and only then; and
\* unless two starts overlapped, one that makes a session finds the table empty.
TableInv ==
  /\ active <=> current # NoSession
  /\ overlap \/ \A t \in Starters : At(t, "creating") =>
       /\ ~active
       /\ \A u \in Starters : At(u, "creating") => u = t

\* A session that streams is connected: disconnect() ends both.
StreamsInv == streaming \subseteq connected

ManagerInv ==
  /\ ManagerTypeOK /\ TableInv /\ StreamsInv
  /\ ActiveIsTimed /\ SessionHeld

Where == {"idle", "scheduled", "creating", "starting", "done"}

LEMMA SessionNames ==
  /\ NoSession \notin Sessions
  /\ \A s \in Starters : s \in Sessions /\ s \notin Others /\ s # NoSession
  /\ \A s \in Others : s \in Sessions /\ s \notin Starters /\ s # NoSession
  BY ManagerAssumption DEF Sessions

\* A task that moves, and nobody else.
LEMMA GoOK ==
  ASSUME ManagerTypeOK, NEW t \in Starters, NEW w \in Where, Go(t, w)
  PROVE  /\ starter' \in [Starters -> Where]
         /\ starter'[t] = w
         /\ \A u \in Starters \ {t} : starter'[u] = starter[u]
  BY DEF ManagerTypeOK, Go, Where

\* _cleanup_device, whoever calls it.
LEMMA CleanupInv ==
  ASSUME ManagerInv, Cleanup, UNCHANGED <<starter, overlap>>,
         autoStops' \in Nat, inputs' \in Nat
  PROVE  ManagerInv'
<1> USE SessionNames DEF ManagerInv
<1>1. connected' \subseteq connected /\ streaming' \subseteq connected'
  BY DEF Cleanup, StopLivestream, Hang, StreamsInv
<1>2. ManagerTypeOK'
  BY DEF Cleanup, StopLivestream, Hang, ManagerTypeOK, TableInv
<1>3. TableInv'
  BY DEF Cleanup, TableInv, At
<1>4. ActiveIsTimed'
  BY DEF Cleanup, ActiveIsTimed
<1>5. SessionHeld'
  BY DEF Cleanup, StopLivestream, Hang, SessionHeld, ManagerTypeOK
<1> QED
  BY <1>1, <1>2, <1>3, <1>4, <1>5 DEF StreamsInv

LEMMA ManagerStepInv ==
  ASSUME ManagerInv, ManagerNext
  PROVE  ManagerInv'
<1> USE SessionNames
<1>t. ManagerTypeOK /\ autoStops \in Nat /\ inputs \in Nat
  BY DEF ManagerInv, ManagerTypeOK
<1>1. ASSUME NEW e \in Events, PushEvent(e)
      PROVE  ManagerInv'
  <2>1. CASE active /\ RescheduleStop /\ UNCHANGED starter
    BY <1>1, <2>1 DEF PushEvent, RescheduleStop, NoHang, Input, ManagerInv, ManagerTypeOK,
                      TableInv, StreamsInv, ActiveIsTimed, SessionHeld, At
  <2>2. CASE ~active /\ \E t \in Starters : At(t, "idle") /\ Go(t, "scheduled") /\ timer' = timer
    <3>1. PICK t \in Starters : At(t, "idle") /\ Go(t, "scheduled") /\ timer' = timer
      BY <2>2
    <3>2. /\ starter' \in [Starters -> Where] /\ starter'[t] = "scheduled"
          /\ \A u \in Starters \ {t} : starter'[u] = starter[u]
      BY <1>t, <3>1, GoOK DEF Where
    <3> QED BY <1>1, <2>2, <3>1, <3>2
         DEF PushEvent, NoHang, Input, ManagerInv, ManagerTypeOK, TableInv, StreamsInv,
             ActiveIsTimed, SessionHeld, At, Where
  <2> QED BY <1>1, <2>1, <2>2 DEF PushEvent
<1>2. ASSUME NEW t \in Starters, StartRuns(t)
      PROVE  ManagerInv'
  <2>1. /\ starter' \in [Starters -> Where]
        /\ starter'[t] = IF active THEN "done" ELSE "creating"
        /\ \A u \in Starters \ {t} : starter'[u] = starter[u]
    BY <1>2, <1>t, GoOK DEF StartRuns, Where
  <2>2. starter[t] = "scheduled"
    BY <1>2 DEF StartRuns, At
  <2>3. TableInv'
    BY <1>2, <2>1, <2>2 DEF StartRuns, tableVars, ManagerInv, TableInv, At
  <2> QED BY <1>2, <2>1, <2>2, <2>3
       DEF StartRuns, tableVars, NoHang, ManagerInv, ManagerTypeOK, StreamsInv,
           ActiveIsTimed, SessionHeld, At, Where
<1>3. ASSUME NEW t \in Starters, Created(t)
      PROVE  ManagerInv'
  <2>1. /\ starter' \in [Starters -> Where] /\ starter'[t] = "starting"
        /\ \A u \in Starters \ {t} : starter'[u] = starter[u]
    BY <1>3, <1>t, GoOK DEF Created, Where
  <2>2. ManagerTypeOK'
    BY <1>3, <1>t, <2>1 DEF Created, StartLivestream, ManagerTypeOK, Where
  <2>3. TableInv'
    BY <1>3, <2>1 DEF Created, ManagerInv, TableInv, At
  <2>4. SessionHeld'
    BY <1>3 DEF Created, StartLivestream, ManagerInv, TableInv, SessionHeld, ManagerTypeOK, At
  <2> QED BY <1>3, <2>1, <2>2, <2>3, <2>4
       DEF Created, StartLivestream, ManagerInv, StreamsInv, ActiveIsTimed, At
<1>4. ASSUME NEW t \in Starters, NotConnected(t)
      PROVE  ManagerInv'
  <2>1. /\ starter' \in [Starters -> Where] /\ starter'[t] = "done"
        /\ \A u \in Starters \ {t} : starter'[u] = starter[u]
    BY <1>4, <1>t, GoOK DEF NotConnected, Where
  <2>2. starter[t] = "creating"
    BY <1>4 DEF NotConnected, At
  <2> QED BY <1>4, <2>1, <2>2
       DEF NotConnected, tableVars, NoHang, ManagerInv, ManagerTypeOK, TableInv, StreamsInv,
           ActiveIsTimed, SessionHeld, At, Where
<1>5. ASSUME NEW t \in Starters, CreateRaises(t)
      PROVE  ManagerInv'
  <2>1. /\ starter' \in [Starters -> Where] /\ starter'[t] = "done"
        /\ \A u \in Starters \ {t} : starter'[u] = starter[u]
    BY <1>5, <1>t, GoOK DEF CreateRaises, Where
  <2>2. starter[t] = "creating"
    BY <1>5 DEF CreateRaises, At
  <2>3. /\ active' = FALSE /\ current' = NoSession
        /\ UNCHANGED <<autoStops, overlap, inputs>>
    BY <1>5 DEF CreateRaises, Cleanup
  <2>4. TableInv'
    BY <2>1, <2>2, <2>3 DEF ManagerInv, TableInv, At
  <2>5. CASE Cleanup
    <3>1. ManagerTypeOK' /\ streaming' \subseteq connected'
      BY <2>1, <2>3, <2>5 DEF Cleanup, StopLivestream, Hang, ManagerInv, ManagerTypeOK,
                              StreamsInv, Where
    <3>2. SessionHeld'
      BY <2>3, <2>5 DEF Cleanup, StopLivestream, Hang, ManagerInv, SessionHeld, ManagerTypeOK
    <3> QED BY <2>3, <2>4, <3>1, <3>2 DEF ManagerInv, StreamsInv, ActiveIsTimed
  <2>6. CASE timer' = "none" /\ NoHang /\ UNCHANGED closing
    BY <2>1, <2>2, <2>3, <2>4, <2>6
       DEF NoHang, ManagerInv, ManagerTypeOK, TableInv, StreamsInv, ActiveIsTimed, SessionHeld,
           At, Where
  <2> QED BY <1>5, <2>5, <2>6 DEF CreateRaises
<1>6. ASSUME NEW t \in Starters, Started(t)
      PROVE  ManagerInv'
  <2>1. /\ starter' \in [Starters -> Where] /\ starter'[t] = "done"
        /\ \A u \in Starters \ {t} : starter'[u] = starter[u]
    BY <1>6, <1>t, GoOK DEF Started, Where
  <2> QED BY <1>6, <2>1
       DEF Started, LivestreamStarted, RescheduleStop, ManagerInv, ManagerTypeOK, TableInv,
           StreamsInv, ActiveIsTimed, SessionHeld, At, Where
<1>7. ASSUME NEW s \in Sessions, SessionEnds(s) \/ KeepaliveEnds(s)
      PROVE  ManagerInv'
  BY <1>7 DEF SessionEnds, KeepaliveEnds, Hang, Input, tableVars, ManagerInv, ManagerTypeOK,
              TableInv, StreamsInv, ActiveIsTimed, SessionHeld, At
<1>8. ASSUME NEW s \in Starters, StopReturned(s)
      PROVE  ManagerInv'
  BY <1>8 DEF StopReturned, Hang, ManagerInv, ManagerTypeOK,
              TableInv, StreamsInv, ActiveIsTimed, SessionHeld, At
<1>9. CASE TimerFires
  BY <1>9, <1>t DEF TimerFires, NoHang, ManagerInv, ManagerTypeOK,
              TableInv, StreamsInv, ActiveIsTimed, SessionHeld, At
<1>10. CASE AutoStop
  BY <1>10, <1>t, CleanupInv DEF AutoStop
<1>11. CASE StopDevice \/ StopAll
  BY <1>11, <1>t, CleanupInv DEF StopDevice, StopAll, Input
<1> QED
  BY <1>1, <1>2, <1>3, <1>4, <1>5, <1>6, <1>7, <1>8, <1>9, <1>10, <1>11
     DEF ManagerNext, Start


-----------------------------------------------------------------------------
(* The camera. *)

Does == {"nothing", "on", "source", "button", "off", "end", "clean", "other"}
Places ==
  {"idle", "session", "spawn", "listen", "start", "manager", "own", "stop", "reap", "setup",
   "stopping"}
TaskRecord == [does : Does, at : Places, on : Sessions \cup {NoSession}, pipe : Pipes]

\* A task that sets a pipeline up has a session for it.
OneTask == {r \in TaskRecord : r.at \in {"spawn", "listen", "setup"} => r.on \in Sessions}

TasksOK == task \in [Tasks -> OneTask]

CameraInv == TypeOK /\ ManagerInv /\ TasksOK

\* What the camera does to the sessions leaves the manager's invariant alone: it
\* connects no session of the manager.
LEMMA SessionsInv ==
  ASSUME ManagerInv, UNCHANGED uncalled, inputs' \in Nat,
         connected' \subseteq connected \cup Others,
         streaming' \subseteq connected', keepalive' \subseteq Sessions, hung' \subseteq Sessions
  PROVE  ManagerInv'
<1> USE SessionNames
<1>1. ManagerTypeOK'
  BY DEF ManagerInv, ManagerTypeOK, uncalled, tableVars, Sessions
<1>2. TableInv' /\ ActiveIsTimed' /\ StreamsInv'
  BY DEF ManagerInv, uncalled, tableVars, TableInv, ActiveIsTimed, StreamsInv, At
<1>3. SessionHeld'
  BY DEF ManagerInv, uncalled, tableVars, SessionHeld
<1> QED BY <1>1, <1>2, <1>3 DEF ManagerInv

LEMMA UnchangedInv ==
  ASSUME ManagerInv, UNCHANGED uncalled, inputs' \in Nat, NoHang
  PROVE  ManagerInv'
BY SessionsInv DEF ManagerInv, ManagerTypeOK, StreamsInv, NoHang

\* Counting what is at most one.
LEMMA AtMostOneCounts ==
  ASSUME NEW S, NEW x, S \subseteq {x}
  PROVE  Cardinality(S) \in Nat
<1>1. IsFiniteSet({x}) BY FS_Singleton
<1> QED BY <1>1, FS_Subset, FS_CardinalityType

LEMMA PutOK ==
  ASSUME TasksOK, NEW t \in Tasks, NEW d \in Does, NEW w \in Places,
         NEW s \in Sessions \cup {NoSession}, NEW n \in Pipes,
         w \in {"spawn", "listen", "setup"} => s \in Sessions, Put(t, d, w, s, n)
  PROVE  TasksOK'
<1>1. [does |-> d, at |-> w, on |-> s, pipe |-> n] \in OneTask
  BY DEF OneTask, TaskRecord
<1> QED BY <1>1 DEF Put, TasksOK

LEMMA OneTaskOK ==
  ASSUME TasksOK, NEW t \in Tasks
  PROVE  /\ task[t] \in OneTask /\ task[t].does \in Does /\ task[t].at \in Places
         /\ task[t].on \in Sessions \cup {NoSession} /\ task[t].pipe \in Pipes
         /\ task[t].at \in {"spawn", "listen", "setup"} => task[t].on \in Sessions
<1>1. task[t] \in OneTask
  BY DEF TasksOK
<1> QED BY <1>1 DEF OneTask, TaskRecord

LEMMA MoveOK ==
  ASSUME TasksOK, NEW t \in Tasks, NEW w \in Places, Move(t, w),
         w \in {"spawn", "listen", "setup"} => task[t].at \in {"spawn", "listen", "setup"}
  PROVE  TasksOK'
<1>1. task \in [Tasks -> OneTask] /\ task[t] \in OneTask
  BY DEF TasksOK
<1>2. [task[t] EXCEPT !.at = w] \in OneTask
  BY <1>1 DEF OneTask, TaskRecord
<1>3. task' = [task EXCEPT ![t] = [task[t] EXCEPT !.at = w]]
  BY <1>1 DEF Move
<1> QED BY <1>1, <1>2, <1>3 DEF TasksOK

LEMMA FinishOK ==
  ASSUME TasksOK, NEW t \in Tasks, Finish(t)
  PROVE  TasksOK'
<1>1. Idle \in OneTask
  BY CameraAssumption DEF Idle, OneTask, TaskRecord, Does, Places, Pipes
<1> QED BY <1>1 DEF Finish, TasksOK

\* The fields, the processes and the counters of the camera, in two parts.
FieldsOK ==
  /\ pipe \in Pipes /\ process \in Pipes /\ forward \in Pipes /\ url \in Pipes
  /\ fds \subseteq Pipes /\ running \subseteq Pipes
  /\ forwards \subseteq Pipes
  /\ ended \in Nat
  /\ made \in Pipes /\ crossed \in BOOLEAN

EndsOK ==
  /\ p2p \in Sessions \cup {NoSession} /\ theirs \in Sessions \cup {NoSession}
  /\ bound \subseteq Sessions /\ taken \subseteq Sessions
  /\ cleanups \in Nat
  /\ feed \in Sessions \cup {NoSession} /\ late \in BOOLEAN /\ lost \subseteq Sessions

LEMMA CameraParts ==
  ASSUME ManagerInv', TasksOK', FieldsOK', EndsOK'
  PROVE  CameraInv'
BY DEF CameraInv, TypeOK, ManagerInv, TasksOK, FieldsOK, EndsOK, OneTask, TaskRecord, Does, Places

LEMMA OnDisconnectOK ==
  ASSUME TypeOK, connected' \subseteq Sessions,
         NEW p \in Sessions \cup {NoSession}, NEW q \in Sessions \cup {NoSession},
         NEW x, hung' \subseteq {x}, OnDisconnect(p, q), UNCHANGED shared
  PROVE  EndsOK'
<1>1. Cardinality(hung' \cap bound) \in Nat
  BY AtMostOneCounts, hung' \cap bound \subseteq {x}
<1> QED BY <1>1 DEF OnDisconnect, Forgets, shared, EndsOK, TypeOK

LEMMA CleanupFfmpegOK ==
  ASSUME TypeOK, TasksOK, NEW t \in Tasks, NEW d \in Does, CleanupFfmpeg(t, d)
  PROVE  TasksOK' /\ FieldsOK'
<1>1. Cardinality(forwards \cap {forward}) \in Nat
  BY AtMostOneCounts, forwards \cap {forward} \subseteq {forward}
<1>2. 0 \in Pipes /\ process \in Pipes
  BY CameraAssumption DEF Pipes, TypeOK
<1>3. TasksOK'
  <2>1. CASE process = 0
    BY <2>1, FinishOK DEF CleanupFfmpeg
  <2>2. CASE process # 0
    <3>1. Put(t, d, "reap", NoSession, process) /\ "reap" \in Places
      BY <2>2 DEF CleanupFfmpeg, Places
    <3> QED BY <3>1, <1>2, PutOK
  <2> QED BY <2>1, <2>2
<1>4. FieldsOK'
  BY <1>1, <1>2 DEF CleanupFfmpeg, FieldsOK, TypeOK, Cross
<1> QED BY <1>3, <1>4

LEMMA SetupFfmpegOK ==
  ASSUME TypeOK, TasksOK, NEW t \in Tasks, NEW d \in Does, NEW s \in Sessions, SetupFfmpeg(t, d, s)
  PROVE  TasksOK' /\ FieldsOK'
<1>1. made' \in Pipes
  BY CameraAssumption DEF SetupFfmpeg, TypeOK, Pipes
<1>2. TasksOK'
  BY <1>1, PutOK DEF SetupFfmpeg, Places
<1>3. FieldsOK'
  BY <1>1 DEF SetupFfmpeg, unpiped, FieldsOK, TypeOK, Cross
<1> QED BY <1>2, <1>3

\* The first lines of _stop_stream and of turn_off.
LEMMA StopSessionInv ==
  ASSUME CameraInv, NEW t \in Tasks, NEW d \in Does, StopSession(t, d),
         UNCHANGED <<unmanaged, shared>>
  PROVE  CameraInv'
<1> USE SessionNames
<1>0. /\ p2p \in Sessions \cup {NoSession} /\ theirs \in Sessions \cup {NoSession}
      /\ NoSession \in Sessions \cup {NoSession}
  BY DEF CameraInv, TypeOK
<1>1. inputs' \in Nat /\ UNCHANGED uncalled
  BY DEF CameraInv, TypeOK, ManagerTypeOK, unmanaged
<1>2. CASE p2p \in connected
  <2>1. /\ Put(t, d, "stop", p2p, 0) /\ StopLivestream({p2p})
        /\ UNCHANGED <<p2p, theirs, lost, cleanups, fields, system, made, crossed>>
    BY <1>2 DEF StopSession
  <2>2. ManagerInv'
    BY <1>1, <2>1, SessionsInv DEF StopLivestream, CameraInv, ManagerInv, ManagerTypeOK, StreamsInv
  <2>3. "stop" \in Places /\ 0 \in Pipes
    BY CameraAssumption DEF Places, Pipes
  <2>4. TasksOK'
    BY <1>0, <2>1, <2>3, PutOK DEF CameraInv
  <2>5. FieldsOK' /\ EndsOK'
    BY <2>1 DEF FieldsOK, EndsOK, CameraInv, TypeOK, fields, system, shared
  <2> QED BY <2>2, <2>4, <2>5, CameraParts
<1>3. CASE p2p \notin connected
  <2>1. /\ Hang({p2p} \ {NoSession})
        /\ OnDisconnect(NoSession, theirs)
        /\ CleanupFfmpeg(t, d)
    BY <1>3 DEF StopSession
  <2>2. ManagerInv'
    BY <1>0, <1>1, <2>1, SessionsInv DEF Hang, CameraInv, ManagerInv, ManagerTypeOK, StreamsInv
  <2>3. connected' \subseteq Sessions /\ hung' \subseteq {p2p}
    BY <2>1 DEF Hang, CameraInv, ManagerInv, ManagerTypeOK
  <2>4. EndsOK'
    BY <1>0, <2>1, <2>3, OnDisconnectOK DEF CameraInv
  <2>5. FieldsOK' /\ TasksOK'
    BY <2>1, CleanupFfmpegOK DEF CameraInv
  <2> QED BY <2>2, <2>4, <2>5, CameraParts
<1> QED BY <1>2, <1>3

\* A step of the camera that leaves the sessions alone.
LEMMA QuietInv ==
  ASSUME CameraInv, NoHang, UNCHANGED uncalled, inputs' \in Nat,
         TasksOK', FieldsOK', EndsOK'
  PROVE  CameraInv'
<1>1. ManagerInv'
  BY UnchangedInv DEF CameraInv
<1> QED BY <1>1, CameraParts

\* Likewise, and the session of the camera and its callbacks too.
LEMMA SilentInv ==
  ASSUME CameraInv, NoHang, UNCHANGED <<uncalled, held>>, inputs' \in Nat,
         cleanups' \in Nat, TasksOK', FieldsOK'
  PROVE  CameraInv'
<1>1. EndsOK'
  BY DEF CameraInv, TypeOK, EndsOK, held, shared
<1> QED BY <1>1, QuietInv

LEMMA TurnOnInv ==
  ASSUME CameraInv, NEW t \in Tasks, TurnOn(t)
  PROVE  CameraInv'
<1>1. inputs' \in Nat /\ cleanups' \in Nat
  BY DEF TurnOn, Input, CameraInv, TypeOK, ManagerTypeOK
<1>2. TasksOK' /\ FieldsOK'
  <2>1. CASE p2p \in connected
    <3>1. p2p \in Sessions /\ "on" \in Does
      BY <2>1 DEF CameraInv, TypeOK, ManagerTypeOK, Does
    <3> QED BY <2>1, <3>1, SetupFfmpegOK DEF TurnOn, CameraInv
  <2>2. CASE p2p \notin connected
    <3>1. "on" \in Does /\ "session" \in Places /\ 0 \in Pipes
      BY CameraAssumption DEF Does, Places, Pipes
    <3>2. TasksOK'
      BY <2>2, <3>1, PutOK DEF TurnOn, CameraInv
    <3> QED BY <2>2, <3>2 DEF TurnOn, fields, system, FieldsOK, CameraInv, TypeOK
  <2> QED BY <2>1, <2>2
<1> QED BY <1>1, <1>2, SilentInv DEF TurnOn

LEMMA PressStartInv ==
  ASSUME CameraInv, NEW t \in Tasks, PressStart(t)
  PROVE  CameraInv'
<1>1. inputs' \in Nat /\ cleanups' \in Nat
  BY DEF PressStart, Input, CameraInv, TypeOK, ManagerTypeOK
<1>2. "button" \in Does /\ "session" \in Places /\ 0 \in Pipes
  BY CameraAssumption DEF Does, Places, Pipes
<1>3. TasksOK'
  BY <1>2, PutOK DEF PressStart, CameraInv
<1>4. FieldsOK'
  BY DEF PressStart, fields, system, FieldsOK, CameraInv, TypeOK
<1> QED BY <1>1, <1>3, <1>4, SilentInv DEF PressStart

LEMMA StreamSourceInv ==
  ASSUME CameraInv, NEW t \in Tasks, StreamSource(t)
  PROVE  CameraInv'
<1>1. inputs' \in Nat /\ cleanups' \in Nat
  BY DEF StreamSource, Input, CameraInv, TypeOK, ManagerTypeOK
<1>2. current \in Sessions /\ "source" \in Does
  BY DEF StreamSource, CameraInv, TypeOK, ManagerTypeOK, Does
<1>3. TasksOK' /\ FieldsOK'
  BY <1>2, SetupFfmpegOK DEF StreamSource, CameraInv
<1> QED BY <1>1, <1>3, SilentInv DEF StreamSource

LEMMA SessionGotInv ==
  ASSUME CameraInv, NEW t \in Tasks, SessionGot(t)
  PROVE  CameraInv'
<1> USE SessionNames
<1>0. TypeOK /\ TasksOK /\ task[t].does \in Does /\ NoSession \in Sessions \cup {NoSession}
  BY OneTaskOK DEF CameraInv
<1>p. PICK s \in Pooled : \E fresh \in SUBSET ({s} \cap Others) :
       /\ connected' = connected \cup fresh
       /\ p2p' = IF task[t].does = "on" THEN s ELSE p2p
       /\ IF s # NoSession /\ url = 0 /\ task[t].does = "on"
            THEN SetupFfmpeg(t, "on", s) /\ UNCHANGED streaming
            ELSE /\ IF s \in connected'
                      THEN /\ Put(t, task[t].does, "start", s, 0)
                           /\ streaming' = streaming \cup {s}
                      ELSE Finish(t) /\ UNCHANGED streaming
                 /\ UNCHANGED <<fields, system, made, crossed>>
  BY DEF SessionGot
<1>1. PICK fresh \in SUBSET ({s} \cap Others) :
       /\ connected' = connected \cup fresh
       /\ p2p' = IF task[t].does = "on" THEN s ELSE p2p
       /\ IF s # NoSession /\ url = 0 /\ task[t].does = "on"
            THEN SetupFfmpeg(t, "on", s) /\ UNCHANGED streaming
            ELSE /\ IF s \in connected'
                      THEN /\ Put(t, task[t].does, "start", s, 0)
                           /\ streaming' = streaming \cup {s}
                      ELSE Finish(t) /\ UNCHANGED streaming
                 /\ UNCHANGED <<fields, system, made, crossed>>
  BY <1>p
<1>2. s \in Sessions \cup {NoSession}
  BY DEF Pooled, New
<1>3. /\ connected' \subseteq connected \cup Others
      /\ streaming' \subseteq connected' /\ hung' = {} /\ UNCHANGED keepalive
      /\ UNCHANGED uncalled /\ inputs' \in Nat
  <2>1. UNCHANGED streaming \/ (s \in connected' /\ streaming' = streaming \cup {s})
    BY <1>1
  <2> QED BY <1>1, <2>1 DEF SessionGot, unmanaged, CameraInv, ManagerInv, ManagerTypeOK, StreamsInv
<1>4. ManagerInv'
  BY <1>3, SessionsInv DEF CameraInv, ManagerInv, ManagerTypeOK
<1>5. EndsOK'
  BY <1>0, <1>1, <1>2 DEF SessionGot, shared, EndsOK, TypeOK
<1>6. TasksOK' /\ FieldsOK'
  <2>1. CASE s # NoSession /\ url = 0 /\ task[t].does = "on"
    <3>1. s \in Sessions /\ "on" \in Does /\ SetupFfmpeg(t, "on", s)
      BY <1>1, <1>2, <2>1 DEF Does
    <3> QED BY <1>0, <3>1, SetupFfmpegOK
  <2>2. CASE ~(s # NoSession /\ url = 0 /\ task[t].does = "on")
    <3>1. FieldsOK'
      BY <1>0, <1>1, <2>2 DEF fields, system, FieldsOK, TypeOK
    <3>2. "start" \in Places /\ 0 \in Pipes
      BY CameraAssumption DEF Places, Pipes
    <3>3. Put(t, task[t].does, "start", s, 0) \/ Finish(t)
      BY <1>1, <2>2
    <3> QED BY <1>0, <1>2, <3>1, <3>2, <3>3, PutOK, FinishOK
  <2> QED BY <2>1, <2>2
<1> QED BY <1>4, <1>5, <1>6, CameraParts

\* The steps that change the pipeline and leave the sessions alone.
LEMMA PipelineStepInv ==
  ASSUME CameraInv, NEW t \in Tasks,
         Spawned(t) \/ SetupFails(t) \/ Reaped(t) \/ StopStream(t)
  PROVE  CameraInv'
<1>0. /\ TypeOK /\ TasksOK /\ task[t].pipe \in Pipes /\ cleanups \in Nat /\ inputs \in Nat
      /\ NoSession \in Sessions \cup {NoSession} /\ 0 \in Pipes
      /\ "listen" \in Places /\ "own" \in Places /\ "end" \in Does
  <2>1. TypeOK /\ TasksOK /\ cleanups \in Nat /\ inputs \in Nat
    BY DEF CameraInv, TypeOK, ManagerTypeOK
  <2>2. task[t].pipe \in Pipes
    BY <2>1, OneTaskOK
  <2>3. NoSession \in Sessions \cup {NoSession} /\ 0 \in Pipes
    BY CameraAssumption DEF Pipes
  <2>4. "listen" \in Places /\ "own" \in Places /\ "end" \in Does
    BY DEF Places, Does
  <2> QED BY <2>1, <2>2, <2>3, <2>4
<1>1. CASE Spawned(t)
  <2>1. TasksOK'
    BY <1>0, <1>1, MoveOK DEF Spawned, In
  <2>2. FieldsOK'
    BY <1>0, <1>1 DEF Spawned, FieldsOK, TypeOK
  <2> QED BY <1>0, <1>1, <2>1, <2>2, SilentInv DEF Spawned, unmanaged
<1>2. CASE SetupFails(t)
  <2>1. TasksOK'
    BY <1>0, <1>2, FinishOK DEF SetupFails
  <2>2. FieldsOK'
    BY <1>0, <1>2 DEF SetupFails, FieldsOK, TypeOK, fields, system
  <2> QED BY <1>0, <1>2, <2>1, <2>2, SilentInv DEF SetupFails, unmanaged
<1>3. CASE Reaped(t)
  <2>1. TasksOK'
    BY <1>0, <1>3, FinishOK DEF Reaped
  <2>2. FieldsOK'
    BY <1>0, <1>3 DEF Reaped, FieldsOK, TypeOK
  <2> QED BY <1>0, <1>3, <2>1, <2>2, SilentInv DEF Reaped, unmanaged
<1>4. CASE StopStream(t)
  <2>1. TasksOK'
    BY <1>0, <1>4, PutOK DEF StopStream
  <2>2. FieldsOK'
    BY <1>0, <1>4 DEF StopStream, FieldsOK, TypeOK, fields
  <2> QED BY <1>0, <1>4, <2>1, <2>2, SilentInv DEF StopStream, unmanaged
<1> QED BY <1>1, <1>2, <1>3, <1>4

LEMMA CleanupTaskInv ==
  ASSUME CameraInv, NEW t \in Tasks, CleanupTask(t)
  PROVE  CameraInv'
<1>1. cleanups' \in Nat /\ inputs' \in Nat /\ "clean" \in Does
  BY DEF CleanupTask, unmanaged, CameraInv, TypeOK, ManagerTypeOK, Does
<1>2. TasksOK' /\ FieldsOK'
  BY <1>1, CleanupFfmpegOK DEF CleanupTask, CameraInv
<1> QED BY <1>1, <1>2, SilentInv DEF CleanupTask, unmanaged

LEMMA ProcessStepInv ==
  ASSUME CameraInv, NEW n \in 1..MaxPipes, ForwardEnds(n) \/ FfmpegExits(n)
  PROVE  CameraInv'
<1>1. cleanups' \in Nat /\ inputs' \in Nat /\ TasksOK'
  BY DEF TasksOK, ForwardEnds, FfmpegExits, unmanaged, CameraInv, TypeOK, ManagerTypeOK
<1>2. FieldsOK'
  BY DEF ForwardEnds, FfmpegExits, FieldsOK, fields, CameraInv, TypeOK
<1> QED BY <1>1, <1>2, SilentInv DEF ForwardEnds, FfmpegExits, unmanaged

LEMMA ListeningInv ==
  ASSUME CameraInv, NEW t \in Tasks, Listening(t)
  PROVE  CameraInv'
<1> USE SessionNames
<1>0. /\ TypeOK /\ TasksOK /\ task[t].on \in Sessions \cup {NoSession} /\ task[t].pipe \in Pipes
      /\ "start" \in Places
      /\ task[t].on \in Sessions
  BY OneTaskOK DEF CameraInv, Places, Listening, In
<1>1. /\ UNCHANGED connected /\ streaming' \subseteq connected' /\ hung' = {}
      /\ UNCHANGED keepalive /\ UNCHANGED uncalled /\ inputs' \in Nat
  BY DEF Listening, unmanaged, CameraInv, ManagerInv, ManagerTypeOK, StreamsInv
<1>2. ManagerInv'
  BY <1>1, SessionsInv DEF CameraInv, ManagerInv, ManagerTypeOK
<1>3. Finish(t) \/ Move(t, "start")
  BY DEF Listening
<1>4. TasksOK'
  BY <1>0, <1>3, FinishOK, MoveOK
<1>5. FieldsOK'
  BY <1>0 DEF Listening, FieldsOK, TypeOK
<1>6. EndsOK'
  BY <1>0 DEF Listening, EndsOK, TypeOK
<1> QED BY <1>2, <1>4, <1>5, <1>6, CameraParts

LEMMA StartedOnInv ==
  ASSUME CameraInv, NEW t \in Tasks, StartedOn(t)
  PROVE  CameraInv'
<1>1. /\ UNCHANGED <<connected, streaming>> /\ keepalive' \subseteq Sessions /\ hung' = {}
      /\ UNCHANGED uncalled /\ inputs' \in Nat
  BY DEF StartedOn, LivestreamStarted, unmanaged, CameraInv, ManagerInv, ManagerTypeOK
<1>2. ManagerInv'
  BY <1>1, SessionsInv DEF CameraInv, ManagerInv, ManagerTypeOK, StreamsInv
<1>3. TasksOK'
  BY FinishOK DEF StartedOn, CameraInv
<1>4. FieldsOK' /\ EndsOK'
  BY DEF StartedOn, fields, system, held, shared, FieldsOK, EndsOK, CameraInv, TypeOK
<1> QED BY <1>2, <1>3, <1>4, CameraParts

LEMMA TurnOffInv ==
  ASSUME CameraInv, NEW t \in Tasks, TurnOff(t)
  PROVE  CameraInv'
<1> USE SessionNames
<1>1. /\ TypeOK /\ TasksOK /\ inputs' \in Nat /\ autoStops' \in Nat
      /\ current \in Sessions \cup {NoSession} /\ p2p \in Sessions \cup {NoSession}
      /\ theirs \in Sessions \cup {NoSession}
  BY DEF TurnOff, Input, CameraInv, TypeOK, ManagerTypeOK
<1>2. "off" \in Does /\ "manager" \in Places /\ "own" \in Places /\ 0 \in Pipes
  BY CameraAssumption DEF Does, Places, Pipes
<1>3. CASE active
  <2>1. /\ Cleanup /\ OnDisconnect(p2p, theirs) /\ Put(t, "off", "manager", current, 0)
        /\ UNCHANGED <<fields, system, made, crossed, starter, autoStops, overlap, shared>>
    BY <1>3 DEF TurnOff
  <2>2. ManagerInv'
    BY <1>1, <2>1, CleanupInv DEF CameraInv
  <2>3. connected' \subseteq Sessions /\ hung' \subseteq {current}
    BY <1>1, <2>1 DEF Cleanup, StopLivestream, Hang, TypeOK, ManagerTypeOK
  <2>4. EndsOK'
    BY <1>1, <2>1, <2>3, OnDisconnectOK
  <2>5. TasksOK'
    BY <1>1, <1>2, <2>1, PutOK
  <2>6. FieldsOK'
    BY <1>1, <2>1 DEF fields, system, FieldsOK, TypeOK
  <2> QED BY <2>2, <2>4, <2>5, <2>6, CameraParts
<1>4. CASE ~active
  <2>1. /\ task' = [task EXCEPT ![t] = [Idle EXCEPT !.does = "off", !.at = "own"]] /\ NoHang
        /\ UNCHANGED <<tableVars, p2p, theirs, lost, cleanups, fields, system, made, crossed>>
        /\ UNCHANGED <<starter, autoStops, overlap, shared>>
    BY <1>4 DEF TurnOff
  <2>2. [Idle EXCEPT !.does = "off", !.at = "own"] \in OneTask
    BY <1>2 DEF Idle, OneTask, TaskRecord
  <2>3. TasksOK'
    BY <1>1, <2>1, <2>2 DEF TasksOK
  <2>4. FieldsOK' /\ cleanups' \in Nat
    BY <1>1, <2>1 DEF fields, system, FieldsOK, TypeOK
  <2> QED BY <1>1, <2>1, <2>3, <2>4, SilentInv DEF uncalled, held
<1> QED BY <1>3, <1>4

LEMMA StopOwnInv ==
  ASSUME CameraInv, NEW t \in Tasks, StopOwn(t)
  PROVE  CameraInv'
<1>1. task[t].does \in Does
  BY OneTaskOK DEF CameraInv
<1> QED BY <1>1, StopSessionInv DEF StopOwn

LEMMA LivestreamStoppedInv ==
  ASSUME CameraInv, NEW t \in Tasks, LivestreamStopped(t)
  PROVE  CameraInv'
<1> USE SessionNames
<1>1. /\ TypeOK /\ TasksOK /\ inputs' \in Nat /\ UNCHANGED uncalled
      /\ NoSession \in Sessions \cup {NoSession} /\ theirs \in Sessions \cup {NoSession}
      /\ task[t].does \in Does
  BY OneTaskOK DEF LivestreamStopped, unmanaged, CameraInv, TypeOK, ManagerTypeOK
<1>2. /\ connected' \subseteq connected /\ streaming' \subseteq connected'
      /\ keepalive' \subseteq Sessions /\ hung' \subseteq {p2p} /\ hung' \subseteq Sessions
      /\ connected' \subseteq Sessions
  BY DEF LivestreamStopped, StopEnds, CameraInv, TypeOK, ManagerInv, ManagerTypeOK, StreamsInv
<1>3. ManagerInv'
  BY <1>1, <1>2, SessionsInv DEF CameraInv
<1>4. EndsOK'
  BY <1>1, <1>2, OnDisconnectOK DEF LivestreamStopped
<1>5. CASE Finish(t) /\ UNCHANGED <<fields, system, made, crossed>>
  <2>1. TasksOK'
    BY <1>1, <1>5, FinishOK
  <2>2. FieldsOK'
    BY <1>1, <1>5 DEF fields, system, FieldsOK, TypeOK
  <2> QED BY <1>3, <1>4, <2>1, <2>2, CameraParts
<1>6. CASE CleanupFfmpeg(t, task[t].does)
  BY <1>1, <1>3, <1>4, <1>6, CleanupFfmpegOK, CameraParts
<1> QED BY <1>5, <1>6 DEF LivestreamStopped

\* The other camera's steps leave the camera's pipeline alone.
LEMMA OtherTurnsOnInv ==
  ASSUME CameraInv, NEW t \in Tasks, OtherTurnsOn(t)
  PROVE  CameraInv'
<1> USE SessionNames
<1>p. PICK s \in Pooled : \E fresh \in SUBSET ({s} \cap Others) :
       /\ connected' = connected \cup fresh
       /\ theirs' = s
       /\ IF s = NoSession THEN UNCHANGED task ELSE Put(t, "other", "setup", s, 0)
  BY DEF OtherTurnsOn
<1>1. s \in Sessions \cup {NoSession} /\ connected' \subseteq connected \cup Others
  BY <1>p DEF Pooled, New
<1>2. /\ UNCHANGED <<streaming, keepalive, uncalled>> /\ hung' = {} /\ inputs' \in Nat
      /\ connected \subseteq connected'
  BY <1>p DEF OtherTurnsOn, Input, CameraInv, TypeOK, ManagerTypeOK
<1>3. ManagerInv'
  BY <1>1, <1>2, SessionsInv DEF CameraInv, ManagerInv, ManagerTypeOK, StreamsInv
<1>4. EndsOK' /\ FieldsOK'
  BY <1>p, <1>1 DEF OtherTurnsOn, shared, unfielded, fields, system, EndsOK, FieldsOK,
                    CameraInv, TypeOK
<1>5. "other" \in Does /\ "setup" \in Places /\ 0 \in Pipes
  BY CameraAssumption DEF Does, Places, Pipes
<1>6. TasksOK'
  <2>1. CASE s = NoSession
    BY <1>p, <2>1 DEF CameraInv, TasksOK
  <2>2. CASE s # NoSession
    BY <1>p, <1>1, <1>5, <2>2, PutOK DEF CameraInv
  <2> QED BY <2>1, <2>2
<1> QED BY <1>3, <1>4, <1>6, CameraParts

LEMMA OtherListeningInv ==
  ASSUME CameraInv, NEW t \in Tasks, OtherListening(t)
  PROVE  CameraInv'
<1> USE SessionNames
<1>0. TasksOK /\ task[t].on \in Sessions /\ "start" \in Places
  BY OneTaskOK DEF CameraInv, Places, OtherListening, In
<1>1. /\ UNCHANGED <<connected, keepalive, uncalled>> /\ streaming' \subseteq connected'
      /\ hung' = {} /\ inputs' \in Nat
  BY DEF OtherListening, unmanaged, CameraInv, ManagerInv, ManagerTypeOK, StreamsInv
<1>2. ManagerInv'
  BY <1>1, SessionsInv DEF CameraInv, ManagerInv, ManagerTypeOK
<1>3. Finish(t) \/ Move(t, "start")
  BY DEF OtherListening
<1>4. TasksOK'
  BY <1>0, <1>3, FinishOK, MoveOK
<1>5. EndsOK' /\ FieldsOK'
  BY <1>0 DEF OtherListening, unfielded, fields, system, EndsOK, FieldsOK, CameraInv, TypeOK
<1> QED BY <1>2, <1>4, <1>5, CameraParts

LEMMA OtherStopsInv ==
  ASSUME CameraInv, NEW t \in Tasks, OtherStops(t)
  PROVE  CameraInv'
<1> USE SessionNames
<1>1. /\ TypeOK /\ TasksOK /\ inputs' \in Nat /\ UNCHANGED <<uncalled, shared, unfielded>>
      /\ p2p \in Sessions \cup {NoSession} /\ theirs \in Sessions
      /\ NoSession \in Sessions \cup {NoSession}
  BY DEF OtherStops, Input, CameraInv, TypeOK, ManagerTypeOK
<1>2. FieldsOK'
  BY <1>1 DEF unfielded, fields, system, FieldsOK, TypeOK
<1>3. CASE theirs \in connected
  <2>1. /\ Put(t, "other", "stopping", theirs, 0) /\ StopLivestream({theirs})
        /\ UNCHANGED <<p2p, theirs, lost, cleanups>>
    BY <1>3 DEF OtherStops
  <2>2. ManagerInv'
    BY <1>1, <2>1, SessionsInv DEF StopLivestream, CameraInv, ManagerInv, ManagerTypeOK, StreamsInv
  <2>3. "other" \in Does /\ "stopping" \in Places /\ 0 \in Pipes
    BY CameraAssumption DEF Does, Places, Pipes
  <2>4. TasksOK'
    BY <1>1, <2>1, <2>3, PutOK
  <2>5. EndsOK'
    BY <1>1, <2>1 DEF EndsOK, TypeOK, shared
  <2> QED BY <1>2, <2>2, <2>4, <2>5, CameraParts
<1>4. CASE theirs \notin connected
  <2>1. UNCHANGED task /\ Hang({theirs}) /\ OnDisconnect(p2p, NoSession)
    BY <1>4 DEF OtherStops
  <2>2. ManagerInv'
    BY <1>1, <2>1, SessionsInv DEF Hang, CameraInv, ManagerInv, ManagerTypeOK, StreamsInv
  <2>3. connected' \subseteq Sessions /\ hung' \subseteq {theirs}
    BY <2>1 DEF Hang, CameraInv, ManagerInv, ManagerTypeOK
  <2>4. EndsOK'
    BY <1>1, <2>1, <2>3, OnDisconnectOK
  <2>5. TasksOK'
    BY <1>1, <2>1 DEF TasksOK
  <2> QED BY <1>2, <2>2, <2>4, <2>5, CameraParts
<1> QED BY <1>3, <1>4

LEMMA OtherStoppedInv ==
  ASSUME CameraInv, NEW t \in Tasks, OtherStopped(t)
  PROVE  CameraInv'
<1> USE SessionNames
<1>1. /\ TypeOK /\ TasksOK /\ inputs' \in Nat /\ UNCHANGED <<uncalled, shared, unfielded>>
      /\ p2p \in Sessions \cup {NoSession} /\ NoSession \in Sessions \cup {NoSession}
  BY DEF OtherStopped, unmanaged, CameraInv, TypeOK, ManagerTypeOK
<1>2. /\ connected' \subseteq connected /\ streaming' \subseteq connected'
      /\ keepalive' \subseteq Sessions /\ hung' \subseteq {theirs} /\ hung' \subseteq Sessions
      /\ connected' \subseteq Sessions
  BY DEF OtherStopped, StopEnds, CameraInv, TypeOK, ManagerInv, ManagerTypeOK, StreamsInv
<1>3. ManagerInv'
  BY <1>1, <1>2, SessionsInv DEF CameraInv
<1>4. EndsOK'
  BY <1>1, <1>2, OnDisconnectOK DEF OtherStopped
<1>5. TasksOK'
  BY <1>1, FinishOK DEF OtherStopped
<1>6. FieldsOK'
  BY <1>1 DEF unfielded, fields, system, FieldsOK, TypeOK
<1> QED BY <1>3, <1>4, <1>5, <1>6, CameraParts

\* What a step of the manager hangs up is at most one session.
LEMMA ManagerHangsOne ==
  ASSUME ManagerNext
  PROVE  \E x : hung' \subseteq {x}
<1>1. ASSUME NoHang \/ Cleanup
      PROVE  \E x : hung' \subseteq {x}
  <2>1. hung' \subseteq {current}
    BY <1>1 DEF NoHang, Cleanup, StopLivestream, Hang
  <2> QED BY <2>1
<1>2. ASSUME NEW s, Hang({s}) \/ hung' = {}
      PROVE  \E x : hung' \subseteq {x}
  <2>1. hung' \subseteq {s}
    BY <1>2 DEF Hang
  <2> QED BY <2>1
<1>3. ASSUME NEW e, PushEvent(e) PROVE NoHang
  BY <1>3 DEF PushEvent
<1>4. ASSUME NEW t, Start(t) PROVE NoHang \/ Cleanup \/ hung' = {}
  BY <1>4 DEF Start, StartRuns, Created, StartLivestream, NotConnected, CreateRaises, Started,
              LivestreamStarted
<1>5. ASSUME NEW s, StopReturned(s) \/ SessionEnds(s) \/ KeepaliveEnds(s)
      PROVE  Hang({s}) \/ hung' = {}
  BY <1>5 DEF StopReturned, SessionEnds, KeepaliveEnds
<1>6. ASSUME TimerFires \/ AutoStop \/ StopDevice \/ StopAll
      PROVE  NoHang \/ Cleanup
  BY <1>6 DEF TimerFires, AutoStop, StopDevice, StopAll
<1> QED BY <1>1, <1>2, <1>3, <1>4, <1>5, <1>6 DEF ManagerNext

LEMMA CameraManagerStepInv ==
  ASSUME CameraInv, ManagerStep
  PROVE  CameraInv'
<1>1. ManagerInv'
  BY ManagerStepInv DEF ManagerStep, CameraInv
<1>2. TasksOK' /\ FieldsOK'
  BY DEF ManagerStep, CameraInv, TypeOK, TasksOK, FieldsOK, fields, system
<1>3. PICK x : hung' \subseteq {x}
  BY ManagerHangsOne DEF ManagerStep
<1>4. /\ connected' \subseteq Sessions /\ TypeOK
      /\ p2p \in Sessions \cup {NoSession} /\ theirs \in Sessions \cup {NoSession}
  BY <1>1 DEF ManagerInv, ManagerTypeOK, CameraInv, TypeOK
<1>5. EndsOK'
  BY <1>3, <1>4, OnDisconnectOK DEF ManagerStep
<1> QED BY <1>1, <1>2, <1>5, CameraParts

LEMMA CameraInitInv == Init => CameraInv
<1> SUFFICES ASSUME Init PROVE CameraInv
  OBVIOUS
<1> USE SessionNames DEF Init, ManagerInit
<1>1. ManagerInv
  BY ManagerAssumption DEF ManagerInv, ManagerTypeOK, TableInv, StreamsInv, ActiveIsTimed, SessionHeld, At
<1>2. Idle \in OneTask
  BY CameraAssumption DEF Idle, OneTask, TaskRecord, Does, Places, Pipes
<1>3. TasksOK
  BY <1>2 DEF TasksOK
<1>4. 0 \in Pipes
  BY CameraAssumption DEF Pipes
<1>5. TypeOK
  BY <1>1, <1>3, <1>4 DEF TypeOK, ManagerInv, TasksOK, OneTask, TaskRecord, Does, Places
<1> QED BY <1>1, <1>3, <1>5 DEF CameraInv

LEMMA CameraStepInv == CameraInv /\ [Next]_vars => CameraInv'
<1> SUFFICES ASSUME CameraInv, [Next]_vars PROVE CameraInv'
  OBVIOUS
<1>1. ASSUME NEW t \in Tasks, SetUp(t) PROVE CameraInv'
  BY <1>1, SessionGotInv, PipelineStepInv, ListeningInv, StartedOnInv DEF SetUp
<1>2. ASSUME NEW t \in Tasks, TearDown(t) PROVE CameraInv'
  BY <1>2, StopOwnInv, LivestreamStoppedInv, PipelineStepInv DEF TearDown
<1>3. ASSUME NEW t \in Tasks, Begin(t) PROVE CameraInv'
  BY <1>3, PipelineStepInv, CleanupTaskInv DEF Begin
<1>4. ASSUME NEW t \in Tasks,
             TurnOn(t) \/ StreamSource(t) \/ PressStart(t) \/ TurnOff(t)
      PROVE  CameraInv'
  BY <1>4, TurnOnInv, StreamSourceInv, PressStartInv, TurnOffInv
<1>5. ASSUME NEW t \in Tasks, Other(t) PROVE CameraInv'
  BY <1>5, OtherTurnsOnInv, OtherListeningInv, OtherStopsInv, OtherStoppedInv DEF Other
<1>6. CASE UNCHANGED vars
  BY <1>6 DEF vars, managerVars, sessionVars, tableVars, cameraVars, held, shared, fields, system,
     CameraInv, TypeOK, ManagerInv, ManagerTypeOK, TasksOK, TableInv, StreamsInv, ActiveIsTimed,
     SessionHeld, At
<1> QED BY <1>1, <1>2, <1>3, <1>4, <1>5, <1>6, ProcessStepInv, CameraManagerStepInv DEF Next

\* A stream that counts as active will be stopped: whatever the order of pushes,
\* starts, timers and stops (_reschedule_stop, _cleanup_device).
THEOREM StreamTimed == Spec => []ActiveIsTimed
<1>1. CameraInv => ActiveIsTimed
  BY DEF CameraInv, ManagerInv
<1> QED BY <1>1, CameraInitInv, CameraStepInv, PTL DEF Spec

\* A connected session of the manager is in the table or is being stopped, unless
\* two starts overlapped (_start_stream, _cleanup_device).
THEOREM StreamHeld == Spec => []SessionHeld
<1>1. CameraInv => SessionHeld
  BY DEF CameraInv, ManagerInv
<1> QED BY <1>1, CameraInitInv, CameraStepInv, PTL DEF Spec

\* The variables of the manager and of the camera keep their types.
THEOREM StreamTypes == Spec => []TypeOK
<1>1. CameraInv => TypeOK
  BY DEF CameraInv
<1> QED BY <1>1, CameraInitInv, CameraStepInv, PTL DEF Spec

-----------------------------------------------------------------------------
(* Whoever streams is pinged. *)

\* The pool has one session at a time, and only its sessions become a camera's own;
\* a stop that waits stops its camera's own session, unless that one has ended or
\* has been forgotten.
OneOther == \A a, b \in Others \cap connected : a = b
OwnInv == p2p \in Others \cup {NoSession} /\ theirs \in Others \cup {NoSession}
StopInv ==
  \A t \in Tasks :
    /\ In(t, "stop") \/ In(t, "stopping") => task[t].on \in Others
    /\ In(t, "stop") /\ task[t].on \in connected \ lost => task[t].on = p2p
    /\ In(t, "stopping") /\ task[t].on \in connected \ lost => task[t].on = theirs

PingInv == OneOther /\ OwnInv /\ StopInv /\ StreamingPinged

\* The other tasks stay where they are.
OthersStay(t) == \A u \in Tasks \ {t} : task'[u] = task[u]

LEMMA PutFrame ==
  ASSUME TasksOK, NEW t \in Tasks, NEW d, NEW w, NEW s, NEW n, Put(t, d, w, s, n)
  PROVE  OthersStay(t) /\ task'[t].at = w /\ task'[t].on = s
BY DEF Put, TasksOK, OthersStay

LEMMA MoveFrame ==
  ASSUME TasksOK, NEW t \in Tasks, NEW w, Move(t, w)
  PROVE  OthersStay(t) /\ task'[t].at = w /\ task'[t].on = task[t].on
<1>1. task[t] \in TaskRecord
  BY DEF TasksOK, OneTask
<1>2. task' = [task EXCEPT ![t] = [task[t] EXCEPT !.at = w]]
  BY DEF Move
<1> QED BY <1>1, <1>2 DEF TasksOK, OthersStay, TaskRecord

LEMMA FinishFrame ==
  ASSUME TasksOK, NEW t \in Tasks, Finish(t)
  PROVE  OthersStay(t) /\ task'[t].at = "idle"
BY DEF Finish, TasksOK, OthersStay, Idle

LEMMA CleanupFrame ==
  ASSUME TasksOK, NEW t \in Tasks, NEW d, CleanupFfmpeg(t, d)
  PROVE  OthersStay(t) /\ task'[t].at \in {"idle", "reap"}
<1>1. Finish(t) \/ Put(t, d, "reap", NoSession, process)
  BY DEF CleanupFfmpeg
<1> QED BY <1>1, FinishFrame, PutFrame

\* The cameras keep their sessions, or forget those that end or that are lost.
OwnKept ==
  /\ lost \subseteq lost'
  /\ p2p' = p2p \/ (p2p' = NoSession /\ p2p \notin connected' \ lost')
  /\ theirs' = theirs \/ (theirs' = NoSession /\ theirs \notin connected' \ lost')

\* A step that connects no session and lets none stream that did not.
LEMMA PingKept ==
  ASSUME PingInv,
         connected' \subseteq connected, streaming' \subseteq streaming,
         \A s \in (connected' \cap streaming') \ lost' :
           /\ s \in keepalive => s \in keepalive'
           /\ s \in Starters /\ At(s, "starting") => At(s, "starting")' \/ s \in keepalive'
           /\ \A u \in Tasks : In(u, "start") /\ task[u].on = s =>
                task'[u] = task[u] \/ s \in keepalive',
         \A u \in Tasks :
           /\ In(u, "stop")' => task'[u] = task[u] \/ (task'[u].on = p2p /\ p2p \in Others)
           /\ In(u, "stopping")' =>
                task'[u] = task[u] \/ (task'[u].on = theirs /\ theirs \in Others),
         OwnKept
  PROVE  PingInv'
<1> USE SessionNames
<1>1. lost \subseteq lost'
  BY DEF OwnKept
<1>2. OneOther' /\ OwnInv'
  BY DEF PingInv, OneOther, OwnInv, OwnKept
<1>3. StopInv'
  <2> SUFFICES ASSUME NEW u \in Tasks
               PROVE  /\ In(u, "stop")' \/ In(u, "stopping")' => task'[u].on \in Others
                      /\ In(u, "stop")' /\ task'[u].on \in connected' \ lost' => task'[u].on = p2p'
                      /\ In(u, "stopping")' /\ task'[u].on \in connected' \ lost' =>
                           task'[u].on = theirs'
    BY DEF StopInv
  <2>1. CASE task'[u] = task[u]
    BY <2>1 DEF PingInv, StopInv, OwnKept, In
  <2>2. CASE task'[u] # task[u]
    BY <2>2 DEF OwnKept
  <2> QED BY <2>1, <2>2
<1>4. StreamingPinged'
  <2> SUFFICES ASSUME NEW s \in (connected' \cap streaming') \ lost', s \notin keepalive'
               PROVE  \/ s \in Starters /\ At(s, "starting")'
                      \/ \E t \in Tasks : In(t, "start")' /\ task'[t].on = s
    BY DEF StreamingPinged
  <2>1. s \in (connected \cap streaming) \ lost /\ s \notin keepalive
    BY <1>1
  <2>2. CASE s \in Starters /\ At(s, "starting")
    BY <2>2
  <2>3. CASE \E t \in Tasks : In(t, "start") /\ task[t].on = s
    BY <2>3 DEF In
  <2> QED BY <2>1, <2>2, <2>3 DEF PingInv, StreamingPinged
<1> QED BY <1>2, <1>3, <1>4 DEF PingInv

\* A step of a task that leaves the sessions alone and neither ends a start nor
\* begins a stop.
LEMMA PingQuiet ==
  ASSUME PingInv, NEW t \in Tasks, OthersStay(t), ~In(t, "start"), ~In(t, "stop")',
         ~In(t, "stopping")', NoHang, UNCHANGED <<starter, held>>
  PROVE  PingInv'
<1>1. \A u \in Tasks : In(u, "start") => task'[u] = task[u]
  BY DEF OthersStay, In
<1>2. \A u \in Tasks : In(u, "stop")' \/ In(u, "stopping")' => task'[u] = task[u]
  BY DEF OthersStay, In
<1>3. OwnKept
  BY DEF OwnKept, held
<1> QED BY <1>1, <1>2, <1>3, PingKept DEF NoHang, At

LEMMA PingSteps ==
  ASSUME PingInv, TasksOK, NEW t \in Tasks,
         \/ TurnOn(t) \/ StreamSource(t) \/ PressStart(t) \/ Spawned(t) \/ SetupFails(t)
         \/ Reaped(t) \/ StopStream(t) \/ CleanupTask(t)
  PROVE  PingInv'
<1>0. ASSUME UNCHANGED uncalled
      PROVE  UNCHANGED starter
  BY <1>0 DEF uncalled
<1>1. CASE TurnOn(t) \/ StreamSource(t) \/ PressStart(t)
  <2>1. PICK d, w, s, n : Put(t, d, w, s, n) /\ w \in {"spawn", "session"}
    BY <1>1 DEF TurnOn, StreamSource, PressStart, SetupFfmpeg
  <2> QED BY <1>0, <1>1, <2>1, PutFrame, PingQuiet DEF TurnOn, StreamSource, PressStart, In
<1>2. CASE Spawned(t)
  BY <1>0, <1>2, MoveFrame, PingQuiet DEF Spawned, unmanaged, In
<1>3. CASE SetupFails(t)
  BY <1>0, <1>3, FinishFrame, PingQuiet DEF SetupFails, SettingUp, unmanaged, In
<1>4. CASE Reaped(t)
  BY <1>0, <1>4, FinishFrame, PingQuiet DEF Reaped, Reaping, unmanaged, In
<1>5. CASE StopStream(t)
  BY <1>0, <1>5, PutFrame, PingQuiet DEF StopStream, unmanaged, In
<1>6. CASE CleanupTask(t)
  BY <1>0, <1>6, CleanupFrame, PingQuiet DEF CleanupTask, unmanaged, In
<1> QED BY <1>1, <1>2, <1>3, <1>4, <1>5, <1>6

LEMMA PingProcess ==
  ASSUME PingInv, NEW n \in 1..MaxPipes, ForwardEnds(n) \/ FfmpegExits(n)
  PROVE  PingInv'
BY PingKept DEF ForwardEnds, FfmpegExits, unmanaged, uncalled, NoHang, held, OwnKept, At

\* The session that the pool returns is the only one of the pool that is connected,
\* and no stop waits for one that it has connected now.
LEMMA PooledOne ==
  ASSUME OneOther, NEW s \in Pooled, NEW fresh \in SUBSET ({s} \cap Others),
         connected' = connected \cup fresh
  PROVE  /\ OneOther'
         /\ \A u \in Tasks : task[u].on \in Others \cap connected' =>
              task[u].on \in connected /\ task[u].on = s
<1>1. CASE Others \cap connected # {}
  BY <1>1 DEF Pooled, OneOther
<1>2. CASE Others \cap connected = {}
  <2>1. s \in New \cup {NoSession}
    BY <1>2 DEF Pooled
  <2>2. \A u \in Tasks : task[u].on \notin fresh
    BY <2>1, SessionNames DEF New
  <2> QED BY <1>2, <2>2 DEF OneOther
<1> QED BY <1>1, <1>2

LEMMA PingSessionGot ==
  ASSUME PingInv, CameraInv, NEW t \in Tasks, SessionGot(t)
  PROVE  PingInv'
<1> USE SessionNames
<1>0. TasksOK /\ streaming \subseteq connected
  BY DEF CameraInv, ManagerInv, StreamsInv
<1>p. PICK s \in Pooled : \E fresh \in SUBSET ({s} \cap Others) :
       /\ connected' = connected \cup fresh
       /\ p2p' = IF task[t].does = "on" THEN s ELSE p2p
       /\ IF s # NoSession /\ url = 0 /\ task[t].does = "on"
            THEN SetupFfmpeg(t, "on", s) /\ UNCHANGED streaming
            ELSE /\ IF s \in connected'
                      THEN /\ Put(t, task[t].does, "start", s, 0)
                           /\ streaming' = streaming \cup {s}
                      ELSE Finish(t) /\ UNCHANGED streaming
  BY DEF SessionGot
<1>1. PICK fresh \in SUBSET ({s} \cap Others) :
       /\ connected' = connected \cup fresh
       /\ p2p' = IF task[t].does = "on" THEN s ELSE p2p
       /\ IF s # NoSession /\ url = 0 /\ task[t].does = "on"
            THEN SetupFfmpeg(t, "on", s) /\ UNCHANGED streaming
            ELSE /\ IF s \in connected'
                      THEN /\ Put(t, task[t].does, "start", s, 0)
                           /\ streaming' = streaming \cup {s}
                      ELSE Finish(t) /\ UNCHANGED streaming
  BY <1>p
<1>2. /\ In(t, "session") /\ UNCHANGED <<keepalive, theirs, lost, starter>>
  BY DEF SessionGot, unmanaged, uncalled
<1>3. /\ OthersStay(t) /\ ~In(t, "stop")' /\ ~In(t, "stopping")'
      /\ \/ UNCHANGED streaming
         \/ streaming' = streaming \cup {s} /\ In(t, "start")' /\ task'[t].on = s
  <2>1. CASE SetupFfmpeg(t, "on", s) /\ UNCHANGED streaming
    BY <1>0, <2>1, PutFrame DEF SetupFfmpeg, In
  <2>2. CASE Put(t, task[t].does, "start", s, 0) /\ streaming' = streaming \cup {s}
    BY <1>0, <2>2, PutFrame DEF In
  <2>3. CASE Finish(t) /\ UNCHANGED streaming
    BY <1>0, <2>3, FinishFrame DEF In
  <2> QED BY <1>1, <2>1, <2>2, <2>3
<1>4. s \in Others \cup {NoSession}
  BY DEF Pooled, New
<1>5. OneOther' /\ OwnInv'
  BY <1>1, <1>2, <1>4, PooledOne DEF PingInv, OwnInv
<1>6. StopInv'
  <2> SUFFICES ASSUME NEW u \in Tasks, In(u, "stop") \/ In(u, "stopping"), task'[u] = task[u]
               PROVE  /\ task[u].on \in Others
                      /\ In(u, "stop") /\ task[u].on \in connected' \ lost => task[u].on = p2p'
                      /\ In(u, "stopping") /\ task[u].on \in connected' \ lost =>
                           task[u].on = theirs
    BY <1>2, <1>3 DEF StopInv, OthersStay, In
  <2>1. /\ task[u].on \in Others
        /\ In(u, "stop") /\ task[u].on \in connected \ lost => task[u].on = p2p
        /\ In(u, "stopping") /\ task[u].on \in connected \ lost => task[u].on = theirs
    BY DEF PingInv, StopInv
  <2>2. task[u].on \in connected' => task[u].on \in connected /\ task[u].on = s
    BY <1>1, <2>1, PooledOne DEF PingInv
  <2> QED BY <1>1, <2>1, <2>2
<1>7. StreamingPinged'
  <2> SUFFICES ASSUME NEW x \in (connected' \cap streaming') \ lost', x \notin keepalive'
               PROVE  \/ x \in Starters /\ At(x, "starting")'
                      \/ \E u \in Tasks : In(u, "start")' /\ task'[u].on = x
    BY DEF StreamingPinged
  <2>1. CASE x \in streaming
    <3>1. \/ x \in Starters /\ At(x, "starting")
          \/ \E u \in Tasks : In(u, "start") /\ task[u].on = x
      BY <1>0, <1>2, <2>1 DEF PingInv, StreamingPinged
    <3> QED BY <1>2, <1>3, <3>1 DEF OthersStay, In, At
  <2>2. CASE x \notin streaming
    BY <1>3, <2>2
  <2> QED BY <2>1, <2>2
<1> QED BY <1>5, <1>6, <1>7 DEF PingInv

LEMMA PingListening ==
  ASSUME PingInv, TasksOK, NEW t \in Tasks, Listening(t) \/ OtherListening(t)
  PROVE  PingInv'
<1>1. /\ ~In(t, "start") /\ UNCHANGED <<connected, keepalive, lost, p2p, theirs, starter>>
  BY DEF Listening, OtherListening, unmanaged, uncalled, In
<1>2. /\ OthersStay(t) /\ ~In(t, "stop")' /\ ~In(t, "stopping")'
      /\ \/ UNCHANGED streaming
         \/ /\ streaming' = streaming \cup {task[t].on}
            /\ In(t, "start")' /\ task'[t].on = task[t].on
  <2>1. CASE Finish(t) /\ UNCHANGED streaming
    BY <2>1, FinishFrame DEF In
  <2>2. CASE Move(t, "start") /\ streaming' = streaming \cup {task[t].on}
    BY <2>2, MoveFrame DEF In
  <2> QED BY <2>1, <2>2 DEF Listening, OtherListening
<1>3. OneOther' /\ OwnInv' /\ StopInv'
  BY <1>1, <1>2 DEF PingInv, OneOther, OwnInv, StopInv, OthersStay, In
<1>4. StreamingPinged'
  BY <1>1, <1>2 DEF PingInv, StreamingPinged, OthersStay, In, At
<1> QED BY <1>3, <1>4 DEF PingInv

LEMMA PingStartedOn ==
  ASSUME PingInv, TasksOK, NEW t \in Tasks, StartedOn(t)
  PROVE  PingInv'
<1>1. /\ UNCHANGED <<connected, streaming, starter>> /\ OwnKept
      /\ keepalive' = keepalive \cup ({task[t].on} \cap connected \cap streaming)
  BY DEF StartedOn, LivestreamStarted, unmanaged, uncalled, held, OwnKept
<1>2. OthersStay(t) /\ ~In(t, "stop")' /\ ~In(t, "stopping")'
  BY FinishFrame DEF StartedOn, In
<1>3. \A u \in Tasks : In(u, "stop")' \/ In(u, "stopping")' => task'[u] = task[u]
  BY <1>2 DEF OthersStay
<1>4. \A u \in Tasks : task'[u] = task[u] \/ task[u].on = task[t].on
  BY <1>2 DEF OthersStay
<1> QED BY <1>1, <1>3, <1>4, PingKept DEF At

\* What _cleanup_device does to the sessions.
LEMMA CleanupSessions ==
  ASSUME Cleanup
  PROVE  /\ connected' \subseteq connected /\ streaming' \subseteq streaming
         /\ \A s \in connected' : s \in keepalive => s \in keepalive'
  BY DEF Cleanup, StopLivestream, Hang

\* _on_disconnect forgets the session, and it is lost if it is still connected.
LEMMA DisconnectForgets ==
  ASSUME NEW p, NEW q, OnDisconnect(p, q),
         p = p2p \/ (p = NoSession /\ p2p \notin connected'),
         q = theirs \/ (q = NoSession /\ theirs \notin connected')
  PROVE  OwnKept
BY DEF OnDisconnect, Forgets, OwnKept

LEMMA PingTurnOff ==
  ASSUME PingInv, TasksOK, NEW t \in Tasks, TurnOff(t)
  PROVE  PingInv'
<1>1. UNCHANGED starter /\ ~In(t, "start")
  BY DEF TurnOff, In
<1>2. CASE active
  <2>1. Cleanup /\ OnDisconnect(p2p, theirs) /\ Put(t, "off", "manager", current, 0)
    BY <1>2 DEF TurnOff
  <2>2. OthersStay(t) /\ ~In(t, "stop")' /\ ~In(t, "stopping")'
    BY <2>1, PutFrame DEF In
  <2>3. /\ \A u \in Tasks : In(u, "start") => task'[u] = task[u]
        /\ \A u \in Tasks : In(u, "stop")' \/ In(u, "stopping")' => task'[u] = task[u]
    BY <1>1, <2>2 DEF OthersStay, In
  <2> QED BY <1>1, <2>1, <2>3, CleanupSessions, DisconnectForgets, PingKept DEF At
<1>3. CASE ~active
  <2>1. /\ task' = [task EXCEPT ![t] = [Idle EXCEPT !.does = "off", !.at = "own"]]
        /\ NoHang /\ UNCHANGED held
    BY <1>3 DEF TurnOff, held
  <2>2. [Idle EXCEPT !.does = "off", !.at = "own"].at = "own"
    BY DEF Idle
  <2>3. OthersStay(t) /\ ~In(t, "stop")' /\ ~In(t, "stopping")'
    BY <2>1, <2>2 DEF TasksOK, OthersStay, In
  <2> QED BY <1>1, <2>1, <2>3, PingQuiet
<1> QED BY <1>2, <1>3

LEMMA PingStopOwn ==
  ASSUME PingInv, TasksOK, NoSession \notin connected, NEW t \in Tasks, StopOwn(t)
  PROVE  PingInv'
<1> USE SessionNames
<1>1. ~In(t, "start") /\ UNCHANGED starter /\ StopSession(t, task[t].does)
  BY DEF StopOwn, unmanaged, uncalled, In
<1>2. CASE p2p \in connected
  <2>1. /\ Put(t, task[t].does, "stop", p2p, 0) /\ StopLivestream({p2p}) /\ OwnKept
    BY <1>1, <1>2 DEF StopSession, OwnKept
  <2>2. OthersStay(t) /\ task'[t].on = p2p /\ task'[t].at = "stop"
    BY <2>1, PutFrame
  <2>3. p2p = NoSession \/ p2p \in Others
    BY DEF PingInv, OwnInv
  <2>4. CASE p2p \in Others
    <3>1. /\ \A u \in Tasks : In(u, "start") => task'[u] = task[u]
          /\ \A u \in Tasks :
               task'[u] = task[u] \/ (task'[u].on = p2p /\ p2p \in Others /\ ~In(u, "stopping")')
      BY <1>1, <2>2, <2>4 DEF OthersStay, In
    <3> QED BY <1>1, <2>1, <3>1, PingKept DEF StopLivestream, At
  <2>5. CASE p2p = NoSession
    BY <1>2, <2>5
  <2> QED BY <2>3, <2>4, <2>5
<1>3. CASE p2p \notin connected
  <2>1. /\ Hang({p2p} \ {NoSession}) /\ OnDisconnect(NoSession, theirs) /\ CleanupFfmpeg(t, task[t].does)
    BY <1>1, <1>3 DEF StopSession
  <2>2. OthersStay(t) /\ task'[t].at \in {"idle", "reap"}
    BY <2>1, CleanupFrame
  <2>3. /\ \A u \in Tasks : In(u, "start") => task'[u] = task[u]
        /\ \A u \in Tasks : In(u, "stop")' \/ In(u, "stopping")' => task'[u] = task[u]
    BY <1>1, <2>2 DEF OthersStay, In
  <2>4. OwnKept
    BY <1>3, <2>1, DisconnectForgets DEF Hang
  <2>5. /\ connected' \subseteq connected /\ streaming' \subseteq streaming
        /\ \A s \in connected' : s \in keepalive => s \in keepalive'
    BY <1>3, <2>1 DEF Hang
  <2>6. \A s \in Starters : At(s, "starting") => At(s, "starting")'
    BY <1>1 DEF At
  <2> QED BY <2>3, <2>4, <2>5, <2>6, PingKept
<1> QED BY <1>2, <1>3

LEMMA PingLivestreamStopped ==
  ASSUME PingInv, CameraInv, NEW t \in Tasks, LivestreamStopped(t)
  PROVE  PingInv'
<1> USE SessionNames
<1>1. /\ In(t, "stop") /\ UNCHANGED starter /\ TasksOK /\ NoSession \notin connected
      /\ connected' = connected \ ({p2p} \ {NoSession})
      /\ streaming' = streaming \ ({p2p} \ {NoSession})
      /\ keepalive' = keepalive \ (({p2p} \ {NoSession}) \cup {task[t].on})
      /\ OnDisconnect(NoSession, theirs)
  BY DEF LivestreamStopped, StopEnds, unmanaged, uncalled, CameraInv, TypeOK, ManagerTypeOK
<1>2. p2p \notin connected' /\ OwnKept
  BY <1>1, DisconnectForgets
<1>3. OthersStay(t) /\ task'[t].at \in {"idle", "reap"}
  <2>1. Finish(t) \/ CleanupFfmpeg(t, task[t].does)
    BY DEF LivestreamStopped
  <2> QED BY <1>1, <2>1, FinishFrame, CleanupFrame
<1>4. /\ \A u \in Tasks : In(u, "start") => task'[u] = task[u]
      /\ \A u \in Tasks : In(u, "stop")' \/ In(u, "stopping")' => task'[u] = task[u]
  BY <1>1, <1>3 DEF OthersStay, In
<1>5. \A s \in connected' \ lost' : s # task[t].on /\ s # p2p
  BY <1>1, <1>2 DEF PingInv, StopInv, OwnKept
<1> QED BY <1>1, <1>2, <1>4, <1>5, PingKept DEF At

\* Likewise for the other camera.
LEMMA PingOtherTurnsOn ==
  ASSUME PingInv, CameraInv, NEW t \in Tasks, OtherTurnsOn(t)
  PROVE  PingInv'
<1> USE SessionNames
<1>0. TasksOK /\ streaming \subseteq connected
  BY DEF CameraInv, ManagerInv, StreamsInv
<1>p. PICK s \in Pooled : \E fresh \in SUBSET ({s} \cap Others) :
       /\ connected' = connected \cup fresh
       /\ theirs' = s
       /\ IF s = NoSession THEN UNCHANGED task ELSE Put(t, "other", "setup", s, 0)
  BY DEF OtherTurnsOn
<1>1. PICK fresh \in SUBSET ({s} \cap Others) :
       /\ connected' = connected \cup fresh
       /\ theirs' = s
       /\ IF s = NoSession THEN UNCHANGED task ELSE Put(t, "other", "setup", s, 0)
  BY <1>p
<1>2. In(t, "idle") /\ UNCHANGED <<streaming, keepalive, p2p, lost, starter>>
  BY DEF OtherTurnsOn, uncalled
<1>3. OthersStay(t) /\ ~In(t, "stop")' /\ ~In(t, "stopping")'
  <2>1. CASE UNCHANGED task
    BY <1>2, <2>1 DEF OthersStay, In
  <2>2. CASE Put(t, "other", "setup", s, 0)
    BY <1>0, <2>2, PutFrame DEF In
  <2> QED BY <1>1, <2>1, <2>2
<1>4. s \in Others \cup {NoSession}
  BY DEF Pooled, New
<1>5. OneOther' /\ OwnInv'
  BY <1>1, <1>2, <1>4, PooledOne DEF PingInv, OwnInv
<1>6. StopInv'
  <2> SUFFICES ASSUME NEW u \in Tasks, In(u, "stop") \/ In(u, "stopping"), task'[u] = task[u]
               PROVE  /\ task[u].on \in Others
                      /\ In(u, "stop") /\ task[u].on \in connected' \ lost => task[u].on = p2p
                      /\ In(u, "stopping") /\ task[u].on \in connected' \ lost =>
                           task[u].on = theirs'
    BY <1>2, <1>3 DEF StopInv, OthersStay, In
  <2>1. /\ task[u].on \in Others
        /\ In(u, "stop") /\ task[u].on \in connected \ lost => task[u].on = p2p
    BY DEF PingInv, StopInv
  <2>2. task[u].on \in connected' => task[u].on \in connected /\ task[u].on = s
    BY <1>1, <2>1, PooledOne DEF PingInv
  <2> QED BY <1>1, <2>1, <2>2
<1>7. StreamingPinged'
  <2> SUFFICES ASSUME NEW x \in (connected' \cap streaming') \ lost', x \notin keepalive'
               PROVE  \/ x \in Starters /\ At(x, "starting")'
                      \/ \E u \in Tasks : In(u, "start")' /\ task'[u].on = x
    BY DEF StreamingPinged
  <2>1. \/ x \in Starters /\ At(x, "starting")
        \/ \E u \in Tasks : In(u, "start") /\ task[u].on = x
    BY <1>0, <1>2 DEF PingInv, StreamingPinged
  <2> QED BY <1>2, <1>3, <2>1 DEF OthersStay, In, At
<1> QED BY <1>5, <1>6, <1>7 DEF PingInv

LEMMA PingOtherStops ==
  ASSUME PingInv, TasksOK, NEW t \in Tasks, OtherStops(t)
  PROVE  PingInv'
<1> USE SessionNames
<1>1. ~In(t, "start") /\ UNCHANGED starter /\ theirs \in Others
  BY DEF OtherStops, uncalled, In, PingInv, OwnInv
<1>2. CASE theirs \in connected
  <2>1. /\ Put(t, "other", "stopping", theirs, 0) /\ StopLivestream({theirs}) /\ OwnKept
    BY <1>2 DEF OtherStops, OwnKept
  <2>2. OthersStay(t) /\ task'[t].on = theirs /\ task'[t].at = "stopping"
    BY <2>1, PutFrame
  <2>3. /\ \A u \in Tasks : In(u, "start") => task'[u] = task[u]
        /\ \A u \in Tasks :
             task'[u] = task[u] \/ (task'[u].on = theirs /\ theirs \in Others /\ ~In(u, "stop")')
    BY <1>1, <2>2 DEF OthersStay, In
  <2> QED BY <1>1, <2>1, <2>3, PingKept DEF StopLivestream, At
<1>3. CASE theirs \notin connected
  <2>1. UNCHANGED task /\ Hang({theirs}) /\ OnDisconnect(p2p, NoSession)
    BY <1>3 DEF OtherStops
  <2>2. OwnKept
    BY <1>3, <2>1, DisconnectForgets DEF Hang
  <2>3. /\ connected' \subseteq connected /\ streaming' \subseteq streaming
        /\ \A s \in connected' : s \in keepalive => s \in keepalive'
    BY <1>3, <2>1 DEF Hang
  <2> QED BY <1>1, <2>1, <2>2, <2>3, PingKept DEF At
<1> QED BY <1>2, <1>3

LEMMA PingOtherStopped ==
  ASSUME PingInv, CameraInv, NEW t \in Tasks, OtherStopped(t)
  PROVE  PingInv'
<1> USE SessionNames
<1>1. /\ In(t, "stopping") /\ UNCHANGED starter /\ TasksOK /\ NoSession \notin connected
      /\ connected' = connected \ ({theirs} \ {NoSession})
      /\ streaming' = streaming \ ({theirs} \ {NoSession})
      /\ keepalive' = keepalive \ (({theirs} \ {NoSession}) \cup {task[t].on})
      /\ OnDisconnect(p2p, NoSession)
  BY DEF OtherStopped, StopEnds, unmanaged, uncalled, CameraInv, TypeOK, ManagerTypeOK
<1>2. theirs \notin connected' /\ OwnKept
  BY <1>1, DisconnectForgets
<1>3. OthersStay(t) /\ task'[t].at = "idle"
  BY <1>1, FinishFrame DEF OtherStopped
<1>4. /\ \A u \in Tasks : In(u, "start") => task'[u] = task[u]
      /\ \A u \in Tasks : In(u, "stop")' \/ In(u, "stopping")' => task'[u] = task[u]
  BY <1>1, <1>3 DEF OthersStay, In
<1>5. \A s \in connected' \ lost' : s # task[t].on /\ s # theirs
  BY <1>1, <1>2 DEF PingInv, StopInv, OwnKept
<1> QED BY <1>1, <1>2, <1>4, <1>5, PingKept DEF At

LEMMA PingManagerStep ==
  ASSUME PingInv, CameraInv, ManagerStep
  PROVE  PingInv'
<1> USE SessionNames
<1>0. ManagerTypeOK /\ StreamsInv /\ UNCHANGED task /\ OwnKept
  BY DisconnectForgets DEF ManagerStep, CameraInv, ManagerInv
<1>k. ASSUME connected' \subseteq connected, streaming' \subseteq streaming,
             \A s \in connected' \cap streaming' :
               /\ s \in keepalive => s \in keepalive'
               /\ s \in Starters /\ At(s, "starting") => At(s, "starting")' \/ s \in keepalive'
      PROVE  PingInv'
  BY <1>0, <1>k, PingKept
<1>1. ASSUME NEW e \in Events, PushEvent(e) PROVE PingInv'
  <2>1. \A s \in Starters : At(s, "starting") => At(s, "starting")'
    <3>1. CASE UNCHANGED starter
      BY <3>1 DEF At
    <3>2. CASE \E t \in Starters : At(t, "idle") /\ Go(t, "scheduled")
      <4>1. PICK t \in Starters : At(t, "idle") /\ Go(t, "scheduled")
        BY <3>2
      <4> QED BY <1>0, <4>1, GoOK DEF At, Where
    <3> QED BY <1>1, <3>1, <3>2 DEF PushEvent
  <2> QED BY <1>1, <1>k, <2>1 DEF PushEvent, NoHang
<1>2. ASSUME NEW t \in Starters, StartRuns(t) \/ NotConnected(t) \/ CreateRaises(t) PROVE PingInv'
  <2>1. PICK w \in Where : Go(t, w) /\ ~At(t, "starting")
    BY <1>2 DEF StartRuns, NotConnected, CreateRaises, Where, At
  <2>2. \A s \in Starters : At(s, "starting") => At(s, "starting")'
    BY <1>0, <2>1, GoOK DEF At
  <2>3. NoHang \/ Cleanup
    BY <1>2 DEF StartRuns, NotConnected, CreateRaises
  <2> QED BY <1>k, <2>2, <2>3, CleanupSessions DEF NoHang
<1>3. ASSUME NEW t \in Starters, Created(t) PROVE PingInv'
  <2>1. /\ Go(t, "starting") /\ connected' = connected \cup {t} /\ streaming' = streaming \cup {t}
        /\ UNCHANGED keepalive /\ hung' = {}
    BY <1>3 DEF Created, StartLivestream
  <2>2. /\ At(t, "starting")' /\ \A s \in Starters : At(s, "starting") => At(s, "starting")'
    BY <1>0, <2>1, GoOK DEF At, Where
  <2>3. UNCHANGED <<p2p, theirs, lost>>
    BY <2>1 DEF ManagerStep, OnDisconnect, Forgets, Told
  <2>4. OneOther' /\ OwnInv'
    BY <2>1, <2>3 DEF PingInv, OneOther, OwnInv
  <2>5. StopInv'
    BY <1>0, <2>1, <2>3 DEF PingInv, StopInv, In
  <2>6. StreamingPinged'
    <3> SUFFICES ASSUME NEW s \in (connected' \cap streaming') \ lost', s \notin keepalive', s # t
                 PROVE  \/ s \in Starters /\ At(s, "starting")'
                        \/ \E u \in Tasks : In(u, "start")' /\ task'[u].on = s
      BY <2>2 DEF StreamingPinged
    <3>1. \/ s \in Starters /\ At(s, "starting")
          \/ \E u \in Tasks : In(u, "start") /\ task[u].on = s
      BY <2>1, <2>3 DEF PingInv, StreamingPinged
    <3> QED BY <1>0, <2>2, <3>1 DEF In
  <2> QED BY <2>4, <2>5, <2>6 DEF PingInv
<1>4. ASSUME NEW t \in Starters, Started(t) PROVE PingInv'
  <2>1. Go(t, "done") /\ LivestreamStarted(t)
    BY <1>4 DEF Started
  <2>2. \A s \in Starters \ {t} : At(s, "starting") => At(s, "starting")'
    BY <1>0, <2>1, GoOK DEF At, Where
  <2> QED BY <1>k, <2>1, <2>2 DEF LivestreamStarted
<1>5. ASSUME NEW s \in Sessions, SessionEnds(s) \/ KeepaliveEnds(s) PROVE PingInv'
  BY <1>5, <1>k DEF SessionEnds, KeepaliveEnds, Hang, At
<1>6. ASSUME NEW s \in Starters, StopReturned(s) PROVE PingInv'
  BY <1>6, <1>k DEF StopReturned, Hang, At
<1>7. CASE TimerFires \/ AutoStop \/ StopDevice \/ StopAll
  <2>1. (NoHang \/ Cleanup) /\ UNCHANGED starter
    BY <1>7 DEF TimerFires, AutoStop, StopDevice, StopAll
  <2> QED BY <1>k, <2>1, CleanupSessions DEF NoHang, At
<1> QED BY <1>1, <1>2, <1>3, <1>4, <1>5, <1>6, <1>7 DEF ManagerStep, ManagerNext, Start

LEMMA PingInit == Init => PingInv
  BY DEF Init, ManagerInit, PingInv, OneOther, OwnInv, StopInv, StreamingPinged, In, Idle

LEMMA PingStep == CameraInv /\ PingInv /\ [Next]_vars => PingInv'
<1> SUFFICES ASSUME CameraInv, PingInv, [Next]_vars PROVE PingInv'
  OBVIOUS
<1>0. TasksOK /\ NoSession \notin connected
  BY SessionNames DEF CameraInv, TypeOK, ManagerTypeOK
<1>1. ASSUME NEW t \in Tasks, SetUp(t) PROVE PingInv'
  BY <1>0, <1>1, PingSessionGot, PingSteps, PingListening, PingStartedOn DEF SetUp
<1>2. ASSUME NEW t \in Tasks, TearDown(t) PROVE PingInv'
  BY <1>0, <1>2, PingStopOwn, PingLivestreamStopped, PingSteps DEF TearDown
<1>3. ASSUME NEW t \in Tasks, Begin(t) PROVE PingInv'
  BY <1>0, <1>3, PingSteps DEF Begin
<1>4. ASSUME NEW t \in Tasks,
             TurnOn(t) \/ StreamSource(t) \/ PressStart(t) \/ TurnOff(t)
      PROVE  PingInv'
  BY <1>0, <1>4, PingSteps, PingTurnOff
<1>5. ASSUME NEW t \in Tasks, Other(t) PROVE PingInv'
  BY <1>0, <1>5, PingOtherTurnsOn, PingListening, PingOtherStops, PingOtherStopped DEF Other
<1>6. CASE UNCHANGED vars
  BY <1>6, PingKept DEF vars, managerVars, sessionVars, cameraVars, held, OwnKept, At
<1> QED BY <1>1, <1>2, <1>3, <1>4, <1>5, <1>6, PingProcess, PingManagerStep DEF Next

\* A session that is connected and streams has its keepalive task or a start that will
\* see to it, unless a camera was made to forget it: stops and starts of one session
\* from the manager, the button and the cameras of the station in any order (start_livestream,
\* stop_livestream, _on_disconnect).
THEOREM StreamPinged == Spec => []StreamingPinged
<1>1. PingInv => StreamingPinged
  BY DEF PingInv
<1> QED BY <1>1, CameraInitInv, CameraStepInv, PingInit, PingStep, PTL DEF Spec

-----------------------------------------------------------------------------
(* A URL without a session is withdrawn. *)

\* The session that a URL stands for has the camera's _on_disconnect, or the other
\* camera's in its place.
UrlInv == (feed # NoSession => feed \in bound \cup taken) /\ UrlWithdrawn

\* What _on_disconnect counts.
LEMMA DisconnectCounts ==
  ASSUME CameraInv, NEW p, NEW q, NEW x, hung' \subseteq {x}, OnDisconnect(p, q)
  PROVE  /\ cleanups \in Nat /\ cleanups' \in Nat /\ cleanups' >= cleanups
         /\ hung' \cap bound # {} => cleanups' > 0
<1>1. cleanups \in Nat /\ cleanups' = cleanups + Cardinality(hung' \cap bound)
  BY DEF CameraInv, TypeOK, OnDisconnect
<1>2. Cardinality(hung' \cap bound) \in Nat
  BY AtMostOneCounts, hung' \cap bound \subseteq {x}
<1>3. ASSUME hung' \cap bound # {}
      PROVE  Cardinality(hung' \cap bound) = 1
  <2>1. hung' \cap bound = {x}
    BY <1>3
  <2> QED BY <2>1, FS_Singleton
<1> QED BY <1>1, <1>2, <1>3

\* A step that takes no clean-up and shows no new URL.
LEMMA UrlKept ==
  ASSUME UrlInv, CameraInv, UNCHANGED shared, url' \in {url, 0},
         \A u \in Tasks : Reaping(u) => task'[u] = task[u] \/ url' = 0,
         NEW x, hung' \subseteq {x}, connected \ connected' \subseteq hung',
         \/ hung' = {} /\ UNCHANGED cleanups
         \/ \E p, q : OnDisconnect(p, q)
  PROVE  UrlInv'
<1>1. /\ cleanups \in Nat /\ cleanups' \in Nat /\ cleanups' >= cleanups
      /\ hung' \cap bound # {} => cleanups' > 0
  <2>1. CASE hung' = {} /\ UNCHANGED cleanups
    BY <2>1 DEF CameraInv, TypeOK
  <2>2. CASE \E p, q : OnDisconnect(p, q)
    <3>1. PICK p, q : OnDisconnect(p, q)
      BY <2>2
    <3> QED BY <3>1, DisconnectCounts
  <2> QED BY <2>1, <2>2
<1>2. UrlWithdrawn'
  <2> SUFFICES ASSUME url' # 0, feed # NoSession, feed \notin connected', ~late, feed \notin taken
               PROVE  cleanups' > 0 \/ \E t \in Tasks : Reaping(t)'
    BY DEF UrlWithdrawn, Withdrawing, shared
  <2>1. CASE feed \in connected
    BY <1>1, <2>1 DEF UrlInv
  <2>2. CASE feed \notin connected
    <3>1. cleanups > 0 \/ \E t \in Tasks : Reaping(t)
      BY <2>2 DEF UrlInv, UrlWithdrawn, Withdrawing
    <3> QED BY <1>1, <3>1 DEF Reaping
  <2> QED BY <2>1, <2>2
<1> QED BY <1>2 DEF UrlInv, shared

\* Likewise for a step of one task that hangs nothing up.
LEMMA UrlQuiet ==
  ASSUME UrlInv, CameraInv, NEW t \in Tasks, OthersStay(t), ~Reaping(t),
         connected \subseteq connected', hung' = {},
         UNCHANGED <<shared, cleanups>>, url' \in {url, 0}
  PROVE  UrlInv'
<1>1. \A u \in Tasks : Reaping(u) => task'[u] = task[u]
  BY DEF OthersStay
<1> QED BY <1>1, UrlKept

LEMMA UrlSetUp ==
  ASSUME UrlInv, CameraInv, NEW t \in Tasks,
         \/ TurnOn(t) \/ StreamSource(t) \/ PressStart(t) \/ SessionGot(t) \/ Spawned(t)
         \/ SetupFails(t) \/ StartedOn(t) \/ StopStream(t)
  PROVE  UrlInv'
<1>0. TasksOK
  BY DEF CameraInv
<1>1. CASE TurnOn(t) \/ StreamSource(t) \/ PressStart(t)
  <2>1. PICK d, w, s, n : Put(t, d, w, s, n)
    BY <1>1 DEF TurnOn, StreamSource, PressStart, SetupFfmpeg
  <2>2. OthersStay(t) /\ ~Reaping(t)
    BY <1>0, <1>1, <2>1, PutFrame DEF TurnOn, StreamSource, PressStart, Reaping, In
  <2>3. UNCHANGED url
    BY <1>1 DEF TurnOn, StreamSource, PressStart, SetupFfmpeg, unpiped, fields
  <2> QED BY <1>1, <2>2, <2>3, UrlQuiet DEF TurnOn, StreamSource, PressStart, NoHang, held
<1>2. CASE SessionGot(t)
  <2>1. PICK s \in Pooled : \E fresh \in SUBSET ({s} \cap Others) :
       /\ connected' = connected \cup fresh
       /\ IF s # NoSession /\ url = 0 /\ task[t].does = "on"
            THEN SetupFfmpeg(t, "on", s)
            ELSE /\ Put(t, task[t].does, "start", s, 0) \/ Finish(t)
                 /\ UNCHANGED fields
    BY <1>2 DEF SessionGot
  <2>2. UNCHANGED url /\ OthersStay(t)
    <3>1. CASE SetupFfmpeg(t, "on", s)
      BY <1>0, <3>1, PutFrame DEF SetupFfmpeg, unpiped
    <3>2. CASE (Put(t, task[t].does, "start", s, 0) \/ Finish(t)) /\ UNCHANGED fields
      BY <1>0, <3>2, PutFrame, FinishFrame DEF fields
    <3> QED BY <2>1, <3>1, <3>2
  <2>3. connected \subseteq connected'
    BY <2>1
  <2> QED BY <1>2, <2>2, <2>3, UrlQuiet DEF SessionGot, Reaping, In
<1>3. CASE Spawned(t)
  BY <1>0, <1>3, MoveFrame, UrlQuiet DEF Spawned, NoHang, Reaping, In, held
<1>4. CASE SetupFails(t)
  BY <1>0, <1>4, FinishFrame, UrlQuiet DEF SetupFails, SettingUp, NoHang, Reaping, In, held, fields
<1>5. CASE StartedOn(t)
  BY <1>0, <1>5, FinishFrame, UrlQuiet DEF StartedOn, LivestreamStarted, Reaping, In, held, fields
<1>6. CASE StopStream(t)
  BY <1>0, <1>6, PutFrame, UrlQuiet DEF StopStream, NoHang, Reaping, In, held, fields
<1> QED BY <1>1, <1>2, <1>3, <1>4, <1>5, <1>6

\* A new URL stands for a session that has the callbacks, or for none; and what the
\* other camera's callbacks replace are those of a session that is taken from now on.
LEMMA UrlListening ==
  ASSUME UrlInv, CameraInv, NEW t \in Tasks, Listening(t) \/ OtherListening(t)
  PROVE  UrlInv'
<1>1. CASE Listening(t)
  BY <1>1 DEF Listening, UrlInv, UrlWithdrawn
<1>2. CASE OtherListening(t)
  <2>1. Finish(t) \/ Move(t, "start")
    BY <1>2 DEF OtherListening
  <2>2. \A u \in Tasks : Reaping(u) => Reaping(u)'
    BY <1>2, <2>1, FinishFrame, MoveFrame DEF OtherListening, CameraInv, OthersStay, Reaping, In
  <2>3. UNCHANGED <<connected, feed, late, url, cleanups>> /\ taken \subseteq taken'
    BY <1>2 DEF OtherListening, unfielded, fields
  <2>4. bound \cup taken \subseteq bound' \cup taken'
    BY <1>2 DEF OtherListening
  <2>5. UrlWithdrawn'
    BY <2>2, <2>3 DEF UrlInv, UrlWithdrawn, Withdrawing
  <2> QED BY <2>3, <2>4, <2>5 DEF UrlInv
<1> QED BY <1>1, <1>2

LEMMA UrlTearDown ==
  ASSUME UrlInv, CameraInv, NEW t \in Tasks,
         TurnOff(t) \/ StopOwn(t) \/ LivestreamStopped(t) \/ Reaped(t) \/ CleanupTask(t)
  PROVE  UrlInv'
<1>0. TasksOK
  BY DEF CameraInv
<1>1. CASE TurnOff(t)
  <2>0. ~Reaping(t) /\ UNCHANGED shared
    BY <1>1 DEF TurnOff, Reaping, In
  <2>1. CASE active
    <3>1. Cleanup /\ OnDisconnect(p2p, theirs) /\ Put(t, "off", "manager", current, 0) /\ UNCHANGED url
      BY <1>1, <2>1 DEF TurnOff, fields
    <3>2. hung' \subseteq {current} /\ connected \ connected' \subseteq hung'
      BY <3>1 DEF Cleanup, StopLivestream, Hang
    <3>3. \A u \in Tasks : Reaping(u) => task'[u] = task[u]
      BY <1>0, <2>0, <3>1, PutFrame DEF OthersStay
    <3> QED BY <2>0, <3>1, <3>2, <3>3, UrlKept
  <2>2. CASE ~active
    <3>1. /\ task' = [task EXCEPT ![t] = [Idle EXCEPT !.does = "off", !.at = "own"]]
          /\ NoHang /\ UNCHANGED <<url, cleanups>>
      BY <1>1, <2>2 DEF TurnOff, fields
    <3>2. OthersStay(t)
      BY <1>0, <3>1 DEF TasksOK, OthersStay
    <3> QED BY <2>0, <3>1, <3>2, UrlQuiet DEF NoHang
  <2> QED BY <2>1, <2>2
<1>2. CASE StopOwn(t)
  <2>0. ~Reaping(t) /\ UNCHANGED shared /\ StopSession(t, task[t].does)
    BY <1>2 DEF StopOwn, Reaping, In
  <2>1. CASE p2p \in connected
    <3>1. /\ Put(t, task[t].does, "stop", p2p, 0) /\ StopLivestream({p2p})
          /\ UNCHANGED <<cleanups, url>>
      BY <2>0, <2>1 DEF StopSession, fields
    <3> QED BY <1>0, <2>0, <3>1, PutFrame, UrlQuiet DEF StopLivestream
  <2>2. CASE p2p \notin connected
    <3>1. /\ Hang({p2p} \ {NoSession}) /\ OnDisconnect(NoSession, theirs)
          /\ CleanupFfmpeg(t, task[t].does)
      BY <2>0, <2>2 DEF StopSession
    <3>2. hung' \subseteq {p2p} /\ connected \ connected' \subseteq hung'
      BY <3>1 DEF Hang
    <3>3. url' \in {url, 0} /\ \A u \in Tasks : Reaping(u) => task'[u] = task[u]
      BY <1>0, <2>0, <3>1, CleanupFrame DEF CleanupFfmpeg, OthersStay
    <3> QED BY <2>0, <3>1, <3>2, <3>3, UrlKept
  <2> QED BY <2>1, <2>2
<1>3. CASE LivestreamStopped(t)
  <2>1. /\ ~Reaping(t) /\ UNCHANGED shared /\ OnDisconnect(NoSession, theirs)
        /\ hung' \subseteq {p2p} /\ connected \ connected' \subseteq hung'
    BY <1>3 DEF LivestreamStopped, StopEnds, Reaping, In
  <2>2. url' \in {url, 0} /\ OthersStay(t)
    <3>1. CASE Finish(t) /\ UNCHANGED fields
      BY <1>0, <3>1, FinishFrame DEF fields
    <3>2. CASE CleanupFfmpeg(t, task[t].does)
      BY <1>0, <3>2, CleanupFrame DEF CleanupFfmpeg
    <3> QED BY <1>3, <3>1, <3>2 DEF LivestreamStopped
  <2>3. \A u \in Tasks : Reaping(u) => task'[u] = task[u]
    BY <2>1, <2>2 DEF OthersStay
  <2> QED BY <2>1, <2>2, <2>3, UrlKept
<1>4. CASE Reaped(t)
  BY <1>4, UrlKept DEF Reaped, NoHang, held
<1>5. CASE CleanupTask(t)
  <2>1. CASE process = 0
    BY <1>5, <2>1 DEF CleanupTask, CleanupFfmpeg, UrlInv, UrlWithdrawn, held, shared
  <2>2. CASE process # 0
    <3>1. Put(t, "clean", "reap", NoSession, process)
      BY <1>5, <2>2 DEF CleanupTask, CleanupFfmpeg
    <3>2. Reaping(t)'
      BY <1>0, <3>1, PutFrame DEF Reaping
    <3> QED BY <1>5, <3>2 DEF CleanupTask, UrlInv, UrlWithdrawn, Withdrawing, held, shared
  <2> QED BY <2>1, <2>2
<1> QED BY <1>1, <1>2, <1>3, <1>4, <1>5

\* What leaves the connected sessions in a step of the manager has been hung up.
LEMMA ManagerHangs ==
  ASSUME ManagerNext
  PROVE  connected \ connected' \subseteq hung'
<1>1. ASSUME NoHang \/ Cleanup PROVE connected \ connected' \subseteq hung'
  BY <1>1 DEF NoHang, Cleanup, StopLivestream, Hang
<1>2. ASSUME NEW e, PushEvent(e) PROVE NoHang
  BY <1>2 DEF PushEvent
<1>3. ASSUME NEW t, Start(t) PROVE NoHang \/ Cleanup \/ connected \subseteq connected'
  BY <1>3 DEF Start, StartRuns, Created, StartLivestream, NotConnected, CreateRaises, Started,
              LivestreamStarted
<1>4. ASSUME NEW s, StopReturned(s) \/ SessionEnds(s) \/ KeepaliveEnds(s)
      PROVE  connected \ connected' \subseteq hung'
  BY <1>4 DEF StopReturned, SessionEnds, KeepaliveEnds, Hang
<1>5. ASSUME TimerFires \/ AutoStop \/ StopDevice \/ StopAll
      PROVE  NoHang \/ Cleanup
  BY <1>5 DEF TimerFires, AutoStop, StopDevice, StopAll
<1> QED BY <1>1, <1>2, <1>3, <1>4, <1>5 DEF ManagerNext

LEMMA UrlOther ==
  ASSUME UrlInv, CameraInv, NEW t \in Tasks, OtherTurnsOn(t) \/ OtherStops(t) \/ OtherStopped(t)
  PROVE  UrlInv'
<1>0. TasksOK /\ ~Reaping(t) /\ UNCHANGED <<shared, url>>
  BY DEF CameraInv, OtherTurnsOn, OtherStops, OtherStopped, unfielded, fields, Reaping, In
<1>k. ASSUME OthersStay(t) PROVE \A u \in Tasks : Reaping(u) => task'[u] = task[u]
  BY <1>0, <1>k DEF OthersStay
<1>1. CASE OtherTurnsOn(t)
  <2>1. PICK s : UNCHANGED task \/ Put(t, "other", "setup", s, 0)
    BY <1>1 DEF OtherTurnsOn
  <2>2. OthersStay(t)
    BY <1>0, <2>1, PutFrame DEF OthersStay
  <2> QED BY <1>0, <1>1, <2>2, UrlQuiet DEF OtherTurnsOn
<1>2. CASE OtherStops(t)
  <2>1. CASE theirs \in connected
    <3>1. Put(t, "other", "stopping", theirs, 0) /\ StopLivestream({theirs}) /\ UNCHANGED cleanups
      BY <1>2, <2>1 DEF OtherStops
    <3> QED BY <1>0, <3>1, PutFrame, UrlQuiet DEF StopLivestream
  <2>2. CASE theirs \notin connected
    <3>1. UNCHANGED task /\ Hang({theirs}) /\ OnDisconnect(p2p, NoSession)
      BY <1>2, <2>2 DEF OtherStops
    <3>2. hung' \subseteq {theirs} /\ connected \ connected' \subseteq hung'
      BY <3>1 DEF Hang
    <3> QED BY <1>0, <3>1, <3>2, UrlKept
  <2> QED BY <2>1, <2>2
<1>3. CASE OtherStopped(t)
  <2>1. /\ OnDisconnect(p2p, NoSession)
        /\ hung' \subseteq {theirs} /\ connected \ connected' \subseteq hung'
    BY <1>3 DEF OtherStopped, StopEnds
  <2>2. OthersStay(t)
    BY <1>0, <1>3, FinishFrame DEF OtherStopped
  <2> QED BY <1>0, <1>k, <2>1, <2>2, UrlKept
<1> QED BY <1>1, <1>2, <1>3

LEMMA UrlStep == CameraInv /\ UrlInv /\ [Next]_vars => UrlInv'
<1> SUFFICES ASSUME CameraInv, UrlInv, [Next]_vars PROVE UrlInv'
  OBVIOUS
<1>1. ASSUME NEW t \in Tasks, SetUp(t) PROVE UrlInv'
  BY <1>1, UrlSetUp, UrlListening DEF SetUp
<1>2. ASSUME NEW t \in Tasks, TearDown(t) \/ Begin(t) PROVE UrlInv'
  BY <1>2, UrlTearDown, UrlSetUp DEF TearDown, Begin
<1>3. ASSUME NEW t \in Tasks,
             TurnOn(t) \/ StreamSource(t) \/ PressStart(t) \/ TurnOff(t)
      PROVE  UrlInv'
  BY <1>3, UrlSetUp, UrlTearDown
<1>4. ASSUME NEW n \in 1..MaxPipes, ForwardEnds(n) \/ FfmpegExits(n) PROVE UrlInv'
  BY <1>4 DEF ForwardEnds, FfmpegExits, held, shared, fields, NoHang, UrlInv, UrlWithdrawn,
              Withdrawing, Reaping
<1>5. CASE ManagerStep
  <2>1. PICK x : hung' \subseteq {x}
    BY <1>5, ManagerHangsOne DEF ManagerStep
  <2> QED BY <1>5, <2>1, ManagerHangs, UrlKept DEF ManagerStep, fields
<1>6. ASSUME NEW t \in Tasks, Other(t) PROVE UrlInv'
  BY <1>6, UrlListening, UrlOther DEF Other
<1>7. CASE UNCHANGED vars
  BY <1>7 DEF vars, managerVars, sessionVars, cameraVars, held, shared, fields, UrlInv,
              UrlWithdrawn, Withdrawing, Reaping
<1> QED BY <1>1, <1>2, <1>3, <1>4, <1>5, <1>6, <1>7 DEF Next

\* A URL whose session has ended is being withdrawn, whoever ended the session and
\* whatever set-ups and clean-ups overlap, unless the session was dead when it got the
\* callbacks or the other camera has replaced them (_setup_ffmpeg, _on_disconnect).
THEOREM UrlIsWithdrawn == Spec => []UrlWithdrawn
<1>1. Init => UrlInv
  BY DEF Init, UrlInv, UrlWithdrawn
<1>2. UrlInv => UrlWithdrawn
  BY DEF UrlInv
<1> QED BY <1>1, <1>2, CameraInitInv, CameraStepInv, UrlStep, PTL DEF Spec

-----------------------------------------------------------------------------
(* The pipe and the process of a pipeline stay within reach. *)

\* One set-up at a time, and none while a clean-up waits for ffmpeg.
Alone ==
  \A t, u \in Tasks : SettingUp(t) => ~Reaping(u) /\ (SettingUp(u) => u = t)

\* What is left of the last pipeline, by what goes on: nothing runs before ffmpeg is
\* spawned, and a clean-up has closed the pipe and waits for the only ffmpeg.
Leftovers ==
  /\ \A t \in Tasks : In(t, "spawn") => running = {}
  /\ \A t \in Tasks : Reaping(t) => fds = {} /\ running \subseteq {task[t].pipe}

PipeInv ==
  /\ 0 \notin fds /\ 0 \notin running
  /\ \A t \in Tasks : SettingUp(t) => task[t].pipe # 0
  /\ PipelineHeld
  /\ crossed \/ (Alone /\ Leftovers)

LEMMA PutPipe ==
  ASSUME TasksOK, NEW t \in Tasks, NEW d, NEW w, NEW s, NEW n, Put(t, d, w, s, n)
  PROVE  OthersStay(t) /\ task'[t].at = w /\ task'[t].pipe = n
BY DEF Put, TasksOK, OthersStay

LEMMA MovePipe ==
  ASSUME TasksOK, NEW t \in Tasks, NEW w, Move(t, w)
  PROVE  OthersStay(t) /\ task'[t].at = w /\ task'[t].pipe = task[t].pipe
<1>1. task[t] \in TaskRecord
  BY DEF TasksOK, OneTask
<1>2. task' = [task EXCEPT ![t] = [task[t] EXCEPT !.at = w]]
  BY DEF Move
<1> QED BY <1>1, <1>2 DEF TasksOK, OthersStay, TaskRecord

unpipedVars == <<fds, running, pipe, process, crossed>>

\* A step of a task that neither sets up nor cleans up.
LEMMA PipeKept ==
  ASSUME PipeInv, NEW t \in Tasks, OthersStay(t), UNCHANGED unpipedVars,
         ~SettingUp(t), ~Reaping(t), ~SettingUp(t)', ~Reaping(t)'
  PROVE  PipeInv'
<1>1. /\ \A u \in Tasks : SettingUp(u)' <=> SettingUp(u)
      /\ \A u \in Tasks : Reaping(u)' <=> Reaping(u)
      /\ \A u \in Tasks : SettingUp(u) \/ Reaping(u) => task'[u] = task[u]
      /\ \A u \in Tasks : In(u, "spawn")' => In(u, "spawn")
  BY DEF OthersStay, SettingUp, Reaping, In
<1>2. Alone => Alone'
  BY <1>1 DEF Alone
<1>3. Leftovers => Leftovers'
  BY <1>1 DEF Leftovers, unpipedVars
<1> QED BY <1>1, <1>2, <1>3 DEF PipeInv, PipelineHeld, unpipedVars

LEMMA PipeSetUp ==
  ASSUME PipeInv, CameraInv, NEW t \in Tasks, NEW d, NEW s, SetupFfmpeg(t, d, s)
  PROVE  PipeInv'
<1>1. /\ OthersStay(t) /\ In(t, "spawn")' /\ task'[t].pipe = made'
  BY PutPipe DEF SetupFfmpeg, CameraInv, In
<1>2. made' # 0 /\ fds' = fds \cup {made'} /\ pipe' = made' /\ UNCHANGED <<running, process>>
  BY DEF SetupFfmpeg, unpiped, CameraInv, TypeOK, Pipes
<1>3. 0 \notin fds' /\ 0 \notin running' /\ \A u \in Tasks : SettingUp(u)' => task'[u].pipe # 0
  BY <1>1, <1>2 DEF PipeInv, OthersStay, SettingUp
<1>4. CASE crossed'
  BY <1>3, <1>4 DEF PipeInv, PipelineHeld
<1>5. CASE ~crossed'
  <2>1. ~crossed /\ pipe = 0 /\ process = 0 /\ \A u \in Tasks : ~SettingUp(u) /\ ~Reaping(u)
    BY <1>5 DEF SetupFfmpeg, Cross
  <2>2. fds = {} /\ running = {}
    BY <2>1 DEF PipeInv, PipelineHeld
  <2>3. /\ \A u \in Tasks : ~Reaping(u)' /\ (SettingUp(u)' => u = t)
        /\ SettingUp(t)'
    BY <1>1, <2>1 DEF OthersStay, SettingUp, Reaping, In
  <2>4. Alone'
    BY <2>3 DEF Alone
  <2>5. Leftovers'
    BY <1>2, <2>2, <2>3 DEF Leftovers
  <2>6. PipelineHeld'
    BY <1>2, <2>2 DEF PipelineHeld
  <2> QED BY <1>3, <2>4, <2>5, <2>6 DEF PipeInv
<1> QED BY <1>4, <1>5

LEMMA PipeCleanUp ==
  ASSUME PipeInv, CameraInv, NEW t \in Tasks, NEW d, ~SettingUp(t), ~Reaping(t),
         CleanupFfmpeg(t, d)
  PROVE  PipeInv'
<1>0. TasksOK
  BY DEF CameraInv
<1>1. /\ OthersStay(t) /\ ~SettingUp(t)' /\ fds' = fds \ {pipe} /\ pipe' = 0
      /\ UNCHANGED <<process, running>>
  BY <1>0, CleanupFrame DEF CleanupFfmpeg, SettingUp
<1>2. \/ /\ process # 0 /\ Reaping(t)' /\ task'[t].pipe = process
      \/ /\ process = 0 /\ ~Reaping(t)'
  <2>1. CASE process # 0
    BY <1>0, <2>1, PutPipe DEF CleanupFfmpeg, Reaping
  <2>2. CASE process = 0
    BY <1>0, <2>2, FinishFrame DEF CleanupFfmpeg, Reaping
  <2> QED BY <2>1, <2>2
<1>3. 0 \notin fds' /\ 0 \notin running' /\ \A u \in Tasks : SettingUp(u)' => task'[u].pipe # 0
  BY <1>1 DEF PipeInv, OthersStay, SettingUp
<1>4. CASE crossed'
  BY <1>3, <1>4 DEF PipeInv, PipelineHeld
<1>5. CASE ~crossed'
  <2>1. ~crossed /\ \A u \in Tasks \ {t} : ~SettingUp(u)
    BY <1>5 DEF CleanupFfmpeg, Cross
  <2>2. fds' = {} /\ running \subseteq {process} /\ Leftovers
    BY <1>1, <2>1 DEF PipeInv, PipelineHeld
  <2>3. \A u \in Tasks : ~SettingUp(u)' /\ ~In(u, "spawn")'
    BY <1>1, <2>1 DEF OthersStay, SettingUp, In
  <2>4. Alone'
    BY <2>3 DEF Alone
  <2>5. \A u \in Tasks : Reaping(u)' => running \subseteq {task'[u].pipe}
    BY <1>1, <1>2, <2>2 DEF Leftovers, OthersStay, Reaping
  <2>6. Leftovers'
    BY <1>1, <2>2, <2>3, <2>5 DEF Leftovers
  <2>7. PipelineHeld'
    BY <1>1, <2>2 DEF PipelineHeld
  <2> QED BY <1>3, <2>4, <2>6, <2>7 DEF PipeInv
<1> QED BY <1>4, <1>5

LEMMA PipeSpawned ==
  ASSUME PipeInv, CameraInv, NEW t \in Tasks, Spawned(t)
  PROVE  PipeInv'
<1>1. /\ OthersStay(t) /\ In(t, "listen")' /\ task'[t].pipe = task[t].pipe
      /\ In(t, "spawn") /\ SettingUp(t) /\ SettingUp(t)'
      /\ process' = task[t].pipe /\ running' = running \cup {task[t].pipe}
      /\ UNCHANGED <<fds, pipe, crossed>>
  BY MovePipe DEF Spawned, CameraInv, In, SettingUp
<1>2. 0 \notin fds' /\ 0 \notin running' /\ \A u \in Tasks : SettingUp(u)' => task'[u].pipe # 0
  BY <1>1 DEF PipeInv, OthersStay, SettingUp
<1>3. ASSUME ~crossed
      PROVE  PipelineHeld' /\ Alone' /\ Leftovers'
  <2>1. running' = {task[t].pipe}
    BY <1>1, <1>3 DEF PipeInv, Leftovers
  <2>2. \A u \in Tasks : ~Reaping(u)' /\ (SettingUp(u)' => u = t) /\ ~In(u, "spawn")'
    BY <1>1, <1>3 DEF PipeInv, Alone, OthersStay, SettingUp, Reaping, In
  <2> QED BY <1>1, <1>3, <2>1, <2>2 DEF PipeInv, PipelineHeld, Alone, Leftovers
<1> QED BY <1>1, <1>2, <1>3 DEF PipeInv, PipelineHeld

\* A set-up ends, well or not: what it has made is in the fields.
LEMMA PipeSetUpEnds ==
  ASSUME PipeInv, CameraInv, NEW t \in Tasks, Listening(t) \/ SetupFails(t)
  PROVE  PipeInv'
<1>1. /\ OthersStay(t) /\ task'[t].at \in {"idle", "start"}
      /\ UNCHANGED <<fds, running, pipe, process, crossed>>
  <2>1. Finish(t) \/ Move(t, "start")
    BY DEF Listening, SetupFails
  <2> QED BY <2>1, FinishFrame, MovePipe DEF Listening, SetupFails, CameraInv, fields, system
<1>2. /\ \A u \in Tasks : SettingUp(u)' => SettingUp(u) /\ task'[u] = task[u]
      /\ \A u \in Tasks : Reaping(u)' => Reaping(u) /\ task'[u] = task[u]
      /\ \A u \in Tasks : In(u, "spawn")' => In(u, "spawn")
  BY <1>1 DEF OthersStay, SettingUp, Reaping, In
<1>3. Alone => Alone'
  BY <1>2 DEF Alone
<1>4. Leftovers => Leftovers'
  BY <1>1, <1>2 DEF Leftovers
<1> QED BY <1>1, <1>2, <1>3, <1>4 DEF PipeInv, PipelineHeld

LEMMA PipeReaped ==
  ASSUME PipeInv, CameraInv, NEW t \in Tasks, Reaped(t)
  PROVE  PipeInv'
<1>1. /\ OthersStay(t) /\ task'[t].at = "idle" /\ Reaping(t) /\ process' = 0
      /\ \/ task[t].pipe \notin running /\ UNCHANGED running
         \/ running' = running \ {process}
      /\ UNCHANGED <<fds, pipe, crossed>>
  BY FinishFrame DEF Reaped, CameraInv
<1>2. 0 \notin fds' /\ 0 \notin running' /\ \A u \in Tasks : SettingUp(u)' => task'[u].pipe # 0
  BY <1>1 DEF PipeInv, OthersStay, SettingUp
<1>3. ASSUME ~crossed
      PROVE  PipelineHeld' /\ Alone' /\ Leftovers'
  <2>1. fds = {} /\ running' = {}
    BY <1>1, <1>3 DEF PipeInv, Leftovers, PipelineHeld
  <2>2. \A u \in Tasks : ~SettingUp(u)' /\ ~In(u, "spawn")'
    BY <1>1, <1>3 DEF PipeInv, Alone, OthersStay, SettingUp, In
  <2> QED BY <1>1, <2>1, <2>2 DEF PipelineHeld, Alone, Leftovers
<1> QED BY <1>1, <1>2, <1>3 DEF PipeInv, PipelineHeld

LEMMA PipeBegins ==
  ASSUME PipeInv, CameraInv, NEW t \in Tasks,
         \/ TurnOn(t) \/ StreamSource(t) \/ PressStart(t) \/ SessionGot(t) \/ StartedOn(t)
         \/ StopStream(t) \/ CleanupTask(t)
  PROVE  PipeInv'
<1>0. TasksOK /\ ~SettingUp(t) /\ ~Reaping(t)
  BY DEF CameraInv, TurnOn, StreamSource, PressStart, SessionGot, StartedOn, StopStream,
         CleanupTask, In, SettingUp, Reaping
<1>1. ASSUME NEW d, NEW w, NEW s, NEW n, Put(t, d, w, s, n) \/ Finish(t),
             w \notin {"spawn", "listen", "reap"}, UNCHANGED unpipedVars
      PROVE  PipeInv'
  <2>1. OthersStay(t) /\ ~SettingUp(t)' /\ ~Reaping(t)'
    BY <1>0, <1>1, PutFrame, FinishFrame DEF SettingUp, Reaping
  <2> QED BY <1>0, <1>1, <2>1, PipeKept
<1>2. CASE TurnOn(t)
  <2>1. CASE p2p \in connected
    BY <1>2, <2>1, PipeSetUp DEF TurnOn
  <2>2. CASE p2p \notin connected
    BY <1>1, <1>2, <2>2 DEF TurnOn, unpipedVars, fields, system
  <2> QED BY <2>1, <2>2
<1>3. CASE StreamSource(t)
  BY <1>3, PipeSetUp DEF StreamSource
<1>4. CASE PressStart(t)
  BY <1>1, <1>4 DEF PressStart, unpipedVars, fields, system
<1>5. CASE SessionGot(t)
  <2>1. PICK s \in Pooled : \E fresh \in SUBSET ({s} \cap Others) :
         IF s # NoSession /\ url = 0 /\ task[t].does = "on"
            THEN SetupFfmpeg(t, "on", s)
            ELSE /\ Put(t, task[t].does, "start", s, 0) \/ Finish(t)
                 /\ UNCHANGED <<fields, system, made, crossed>>
    BY <1>5 DEF SessionGot
  <2>2. CASE url = 0 /\ SetupFfmpeg(t, "on", s)
    BY <2>2, PipeSetUp
  <2>3. CASE /\ Put(t, task[t].does, "start", s, 0) \/ Finish(t)
             /\ UNCHANGED <<fields, system, made, crossed>>
    BY <1>1, <2>3 DEF unpipedVars, fields, system
  <2> QED BY <2>1, <2>2, <2>3
<1>6. CASE StartedOn(t)
  BY <1>1, <1>6 DEF StartedOn, unpipedVars, fields, system
<1>7. CASE StopStream(t)
  BY <1>1, <1>7 DEF StopStream, unpipedVars, fields
<1>8. CASE CleanupTask(t)
  BY <1>0, <1>8, PipeCleanUp DEF CleanupTask
<1> QED BY <1>2, <1>3, <1>4, <1>5, <1>6, <1>7, <1>8

LEMMA PipeStops ==
  ASSUME PipeInv, CameraInv, NEW t \in Tasks, TurnOff(t) \/ StopOwn(t) \/ LivestreamStopped(t)
  PROVE  PipeInv'
<1>0. TasksOK /\ ~SettingUp(t) /\ ~Reaping(t)
  BY DEF CameraInv, TurnOff, StopOwn, LivestreamStopped, In, SettingUp, Reaping
<1>1. ASSUME OthersStay(t), task'[t].at \in {"manager", "own", "stop", "idle"},
             UNCHANGED <<fields, system, made, crossed>>
      PROVE  PipeInv'
  BY <1>0, <1>1, PipeKept DEF unpipedVars, fields, system, SettingUp, Reaping
<1>2. CASE TurnOff(t)
  <2>1. CASE active
    BY <1>0, <1>1, <1>2, <2>1, PutFrame DEF TurnOff
  <2>2. CASE ~active
    <3>1. task' = [task EXCEPT ![t] = [Idle EXCEPT !.does = "off", !.at = "own"]]
      BY <1>2, <2>2 DEF TurnOff
    <3>2. [Idle EXCEPT !.does = "off", !.at = "own"].at = "own"
      BY DEF Idle
    <3>3. OthersStay(t) /\ task'[t].at = "own"
      BY <1>0, <3>1, <3>2 DEF TasksOK, OthersStay
    <3> QED BY <1>1, <1>2, <2>2, <3>3 DEF TurnOff
  <2> QED BY <2>1, <2>2
<1>3. CASE StopOwn(t)
  <2>1. CASE p2p \in connected
    <3>1. /\ Put(t, task[t].does, "stop", p2p, 0)
          /\ UNCHANGED <<fields, system, made, crossed>>
      BY <1>3, <2>1 DEF StopOwn, StopSession
    <3> QED BY <1>0, <1>1, <3>1, PutFrame
  <2>2. CASE p2p \notin connected
    BY <1>0, <1>3, <2>2, PipeCleanUp DEF StopOwn, StopSession
  <2> QED BY <2>1, <2>2
<1>4. CASE LivestreamStopped(t)
  <2>1. CASE Finish(t) /\ UNCHANGED <<fields, system, made, crossed>>
    BY <1>0, <1>1, <2>1, FinishFrame
  <2>2. CASE CleanupFfmpeg(t, task[t].does)
    BY <1>0, <2>2, PipeCleanUp
  <2> QED BY <1>4, <2>1, <2>2 DEF LivestreamStopped
<1> QED BY <1>2, <1>3, <1>4

\* The steps of ffmpeg, of its forward task and of the manager move no task.
LEMMA PipeAround ==
  ASSUME PipeInv, UNCHANGED <<task, pipe, process, fds, crossed>>, running' \subseteq running
  PROVE  PipeInv'
<1>1. (Alone => Alone') /\ (Leftovers => Leftovers')
  BY DEF Alone, Leftovers, SettingUp, Reaping, In
<1> QED BY <1>1 DEF PipeInv, PipelineHeld, SettingUp

LEMMA PipeOther ==
  ASSUME PipeInv, TasksOK, NEW t \in Tasks, Other(t)
  PROVE  PipeInv'
<1>1. ~SettingUp(t) /\ ~Reaping(t) /\ UNCHANGED unpipedVars
  BY DEF Other, OtherTurnsOn, OtherListening, OtherStops, OtherStopped, unfielded, fields, system,
         unpipedVars, SettingUp, Reaping, In
<1>2. CASE UNCHANGED task
  BY <1>1, <1>2, PipeKept DEF OthersStay, SettingUp, Reaping
<1>3. CASE Finish(t) \/ Move(t, "start")
  BY <1>1, <1>3, FinishFrame, MoveFrame, PipeKept DEF SettingUp, Reaping
<1>4. ASSUME NEW w \in {"setup", "stopping"}, NEW s, Put(t, "other", w, s, 0)
      PROVE  PipeInv'
  BY <1>1, <1>4, PutFrame, PipeKept DEF SettingUp, Reaping
<1> QED BY <1>2, <1>3, <1>4 DEF Other, OtherTurnsOn, OtherListening, OtherStops, OtherStopped

LEMMA PipeStep == CameraInv /\ PipeInv /\ [Next]_vars => PipeInv'
<1> SUFFICES ASSUME CameraInv, PipeInv, [Next]_vars PROVE PipeInv'
  OBVIOUS
<1>1. ASSUME NEW t \in Tasks, SetUp(t) PROVE PipeInv'
  BY <1>1, PipeBegins, PipeSpawned, PipeSetUpEnds DEF SetUp
<1>2. ASSUME NEW t \in Tasks, TearDown(t) PROVE PipeInv'
  BY <1>2, PipeStops, PipeReaped DEF TearDown
<1>3. ASSUME NEW t \in Tasks, Begin(t) PROVE PipeInv'
  BY <1>3, PipeBegins DEF Begin
<1>4. ASSUME NEW t \in Tasks,
             TurnOn(t) \/ StreamSource(t) \/ PressStart(t) \/ TurnOff(t)
      PROVE  PipeInv'
  BY <1>4, PipeBegins, PipeStops
<1>5. ASSUME NEW n \in 1..MaxPipes, ForwardEnds(n) \/ FfmpegExits(n) PROVE PipeInv'
  BY <1>5, PipeAround DEF ForwardEnds, FfmpegExits, fields
<1>6. CASE ManagerStep \/ UNCHANGED vars
  BY <1>6, PipeAround DEF ManagerStep, vars, cameraVars, fields, system
<1>7. ASSUME NEW t \in Tasks, Other(t) PROVE PipeInv'
  BY <1>7, PipeOther DEF CameraInv
<1> QED BY <1>1, <1>2, <1>3, <1>4, <1>5, <1>6, <1>7 DEF Next

\* The open pipe and the running ffmpeg are those in the entity's fields, whatever
\* set-up fails half-way, unless a set-up began over what a failed one had left or
\* overlapped with another or with a clean-up (_setup_ffmpeg, _cleanup_ffmpeg).
THEOREM PipelineIsHeld == Spec => []PipelineHeld
<1>1. Init => PipeInv
  BY DEF Init, Idle, PipeInv, PipelineHeld, Alone, Leftovers, SettingUp, Reaping, In
<1>2. PipeInv => PipelineHeld
  BY DEF PipeInv
<1> QED BY <1>1, <1>2, CameraInitInv, CameraStepInv, PipeStep, PTL DEF Spec

=============================================================================
