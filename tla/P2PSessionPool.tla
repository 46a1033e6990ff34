--------------------------- MODULE P2PSessionPool ---------------------------
(***************************************************************************)
(* P2PSessionPool (p2p_manager.py): one table of sessions, one asyncio     *)
(* lock per station, and the tasks that use it.  A session behaves as      *)
(* SessionLife says; its disconnect callback belongs to the pool until a   *)
(* camera takes it (camera.py, _setup_ffmpeg), and disconnect() calls it   *)
(* every time, also on a session that is closed already.                   *)
(***************************************************************************)
EXTENDS Integers, Sequences

CONSTANTS
  Stations,
  Getters,      \* tasks that call get_session and keep what it returns
  NoGetter,     \* no task
  wants,        \* the station a getter asks for
  MaxSessions   \* bound: so many P2PSession objects are created

ASSUME PoolAssumption ==
  /\ NoGetter \notin Getters
  /\ wants \in [Getters -> Stations]
  /\ MaxSessions \in Nat

Sessions == 1 .. MaxSessions    \* P2PSession objects, in the order of their creation
NoSession == 0                  \* None

VARIABLES
  shuttingDown,  \* _shutting_down
  table,         \* _sessions
  lock,          \* _locks: who holds a station's lock
  queue,         \* _locks: who waits for it, first come first served
  pc,            \* a getter: "idle", "queued", "dsk" (awaits the API) or "connecting"
  making,        \* the session it connects
  held,          \* what get_session returned to it
  outcome, established, connected,   \* SessionLife
  hook,          \* its disconnect callback: NoGetter is the pool, a getter a camera
  maker,         \* whom a session was made for, NoGetter before
  evicted,       \* history: sessions that another one's callback took out of the table
  late           \* history: getters inside get_session when shutdown() ran

getterVars == <<pc, making, lock, queue>>
sessionVars == <<outcome, established, connected, hook>>
vars == <<shuttingDown, table, getterVars, held, sessionVars, maker, evicted, late>>

Init ==
  /\ shuttingDown = FALSE
  /\ table = [st \in Stations |-> NoSession]
  /\ lock = [st \in Stations |-> NoGetter]
  /\ queue = [st \in Stations |-> <<>>]
  /\ pc = [g \in Getters |-> "idle"]
  /\ making = [g \in Getters |-> NoSession]
  /\ held = [g \in Getters |-> NoSession]
  /\ outcome = [s \in Sessions |-> "pending"]
  /\ established = [s \in Sessions |-> FALSE]
  /\ connected = [s \in Sessions |-> FALSE]
  /\ hook = [s \in Sessions |-> NoGetter]
  /\ maker = [s \in Sessions |-> NoGetter]
  /\ evicted = {} /\ late = {}

\* The station of a session that has been made.
of(s) == wants[maker[s]]

-----------------------------------------------------------------------------
(* get_session *)

\* The lock is held, or free and promised to the first in the queue.
Busy(st) == lock[st] # NoGetter \/ queue[st] # <<>>

\* The body of "async with", up to its first await.  Either a live session is
\* there, or the station is unknown to the coordinator, or a session is made.
Inside(g) ==
  LET st == wants[g]
      existing == table[st]
      live == existing # NoSession /\ connected[existing]
      Leave(s) == /\ pc' = [pc EXCEPT ![g] = "idle"]
                  /\ held' = [held EXCEPT ![g] = s]
                  /\ UNCHANGED lock
  IN \/ live /\ Leave(existing)
     \/ ~live /\ Leave(NoSession)
     \/ /\ ~live
        /\ pc' = [pc EXCEPT ![g] = "dsk"]
        /\ lock' = [lock EXCEPT ![st] = g]
        /\ UNCHANGED held

Refused(g) ==
  /\ pc[g] = "idle" /\ shuttingDown
  /\ held' = [held EXCEPT ![g] = NoSession]
  /\ UNCHANGED <<shuttingDown, table, getterVars, sessionVars, maker, evicted, late>>

\* Mutant: without the lock.
MutantUnlocked(g) ==
  /\ pc[g] = "idle" /\ ~shuttingDown
  /\ Inside(g)
  /\ UNCHANGED <<shuttingDown, table, making, queue, sessionVars, maker, evicted, late>>

Enter(g) ==
  /\ pc[g] = "idle" /\ ~shuttingDown
  /\ ~Busy(wants[g])
  /\ Inside(g)
  /\ UNCHANGED <<shuttingDown, table, making, queue, sessionVars, maker, evicted, late>>

Wait(g) ==
  /\ pc[g] = "idle" /\ ~shuttingDown
  /\ Busy(wants[g])
  /\ pc' = [pc EXCEPT ![g] = "queued"]
  /\ queue' = [queue EXCEPT ![wants[g]] = Append(@, g)]
  /\ UNCHANGED <<shuttingDown, table, making, held, lock, sessionVars, maker, evicted, late>>

\* _shutting_down is not looked at again.
Wake(g) ==
  LET st == wants[g]
  IN /\ pc[g] = "queued"
     /\ lock[st] = NoGetter
     /\ queue[st] # <<>> /\ Head(queue[st]) = g
     /\ queue' = [queue EXCEPT ![st] = Tail(@)]
     /\ Inside(g)
     /\ UNCHANGED <<shuttingDown, table, making, sessionVars, maker, evicted, late>>

-----------------------------------------------------------------------------
(* _create_session *)

Fresh(s) == maker[s] = NoGetter /\ \A t \in 1 .. s - 1 : maker[t] # NoGetter

DskReturns(g) ==
  /\ pc[g] = "dsk"
  /\ \E s \in Sessions :
       /\ Fresh(s)
       /\ making' = [making EXCEPT ![g] = s]
       /\ maker' = [maker EXCEPT ![s] = g]
  /\ pc' = [pc EXCEPT ![g] = "connecting"]
  /\ UNCHANGED <<shuttingDown, table, lock, queue, held, sessionVars, evicted, late>>

Release(g, result) ==
  /\ pc' = [pc EXCEPT ![g] = "idle"]
  /\ lock' = [lock EXCEPT ![wants[g]] = NoGetter]
  /\ making' = [making EXCEPT ![g] = NoSession]
  /\ held' = [held EXCEPT ![g] = result]
  /\ UNCHANGED queue

\* Mutant: the exception leaves the lock behind.
MutantLockKept(g) ==
  /\ pc[g] = "dsk"
  /\ pc' = [pc EXCEPT ![g] = "idle"]
  /\ held' = [held EXCEPT ![g] = NoSession]
  /\ UNCHANGED <<shuttingDown, table, making, lock, queue, sessionVars, maker, evicted, late>>

\* The API, the constructor or connect() itself raises: None.
CreateRaises(g) ==
  /\ pc[g] = "dsk"
  /\ Release(g, NoSession)
  /\ UNCHANGED <<shuttingDown, table, sessionVars, maker, evicted, late>>

\* A session's disconnect callback.  The pool's pops whatever is in the table
\* under the station; a camera's forgets the camera's session.
Callback(s, tab, hld) ==
  IF hook[s] = NoGetter
  THEN /\ table' = [tab EXCEPT ![of(s)] = NoSession]
       /\ held' = hld
       /\ evicted' = evicted \cup {t \in Sessions \ {s} : tab[of(s)] = t /\ connected[t]}
  ELSE /\ table' = tab
       /\ held' = [hld EXCEPT ![hook[s]] = NoSession]
       /\ UNCHANGED evicted

\* No station answered: disconnect() runs the pool's callback (the table has no live
\* session, see Inside), None is returned.
ConnectFails(g) ==
  LET s == making[g]
  IN /\ pc[g] = "connecting" /\ ~established[s]
     /\ outcome' = [outcome EXCEPT ![s] = "false"]
     /\ table' = [table EXCEPT ![of(s)] = NoSession]
     /\ Release(g, NoSession)
     /\ UNCHANGED <<shuttingDown, established, connected, hook, maker, evicted, late>>

\* Mutant: the session is not stored.
MutantNotStored(g) ==
  LET s == making[g]
  IN /\ pc[g] = "connecting" /\ established[s]
     /\ outcome' = [outcome EXCEPT ![s] = "true"]
     /\ Release(g, s)
     /\ UNCHANGED <<shuttingDown, table, established, connected, hook, maker, evicted, late>>

\* connect() returned True, though the session may have been dropped since.
ConnectSucceeds(g) ==
  LET s == making[g]
  IN /\ pc[g] = "connecting" /\ established[s]
     /\ outcome' = [outcome EXCEPT ![s] = "true"]
     /\ table' = [table EXCEPT ![of(s)] = s]
     /\ Release(g, s)
     /\ UNCHANGED <<shuttingDown, established, connected, hook, maker, evicted, late>>

-----------------------------------------------------------------------------
(* A session's own life *)

Connecting(s) == \E g \in Getters : making[g] = s

Establish(s) ==
  /\ Connecting(s) /\ ~established[s]
  /\ established' = [established EXCEPT ![s] = TRUE]
  /\ connected' = [connected EXCEPT ![s] = TRUE]
  /\ UNCHANGED <<shuttingDown, table, getterVars, held, outcome, hook, maker, evicted, late>>

\* END, or the heartbeat gives up; END may even come before connect() knows that
\* it is connected.
Ends(s) ==
  /\ connected[s] \/ (Connecting(s) /\ ~established[s])
  /\ connected' = [connected EXCEPT ![s] = FALSE]
  /\ Callback(s, table, held)
  /\ UNCHANGED <<shuttingDown, getterVars, outcome, established, hook, maker, late>>

-----------------------------------------------------------------------------
(* Those who hold a session, and the owner of the pool *)

\* camera.py: turn_off, _stop_stream and removal disconnect the session they keep,
\* whether it is still connected or not.
HolderDisconnects(g) ==
  LET s == held[g]
  IN /\ s # NoSession
     /\ connected' = [connected EXCEPT ![s] = FALSE]
     /\ Callback(s, table, [held EXCEPT ![g] = NoSession])
     /\ UNCHANGED <<shuttingDown, getterVars, outcome, established, hook, maker, late>>

\* camera.py, _setup_ffmpeg: set_disconnect_callback replaces the pool's.
CameraTakesCallback(g) ==
  /\ held[g] # NoSession
  /\ hook' = [hook EXCEPT ![held[g]] = g]
  /\ UNCHANGED <<shuttingDown, table, getterVars, held, outcome, established, connected,
                 maker, evicted, late>>

DisconnectStation(st) ==
  LET s == table[st]
  IN /\ s # NoSession
     /\ connected' = [connected EXCEPT ![s] = FALSE]
     /\ Callback(s, [table EXCEPT ![st] = NoSession], held)
     /\ UNCHANGED <<shuttingDown, getterVars, outcome, established, hook, maker, late>>

\* Mutant: the table is cleared before its sessions are disconnected.
MutantShutdown ==
  /\ ~shuttingDown
  /\ shuttingDown' = TRUE
  /\ table' = [st \in Stations |-> NoSession]
  /\ late' = {g \in Getters : pc[g] # "idle"}
  /\ UNCHANGED <<getterVars, held, sessionVars, maker, evicted>>

\* No session.disconnect() suspends: shutdown() is one step.
Shutdown ==
  LET all == {table[st] : st \in Stations} \ {NoSession}
  IN /\ ~shuttingDown
     /\ shuttingDown' = TRUE
     /\ connected' = [s \in Sessions |-> connected[s] /\ s \notin all]
     /\ table' = [st \in Stations |-> NoSession]
     /\ held' = [g \in Getters |-> IF \E s \in all : hook[s] = g THEN NoSession ELSE held[g]]
     /\ late' = {g \in Getters : pc[g] # "idle"}
     /\ UNCHANGED <<getterVars, outcome, established, hook, maker, evicted>>

Next ==
  \/ \E g \in Getters :
       \/ Refused(g) \/ Enter(g) \/ Wait(g) \/ Wake(g)
       \/ DskReturns(g) \/ CreateRaises(g) \/ ConnectFails(g) \/ ConnectSucceeds(g)
       \/ HolderDisconnects(g) \/ CameraTakesCallback(g)
  \/ \E s \in Sessions : Establish(s) \/ Ends(s)
  \/ \E st \in Stations : DisconnectStation(st)
  \/ Shutdown

Spec == Init /\ [][Next]_vars

\* asyncio wakes the first waiter of a free lock, the API answers or raises, and
\* connect() returns (P2PSession, ConnectReturns).
Fairness ==
  \A g \in Getters :
    /\ WF_vars(Wake(g))
    /\ WF_vars(DskReturns(g) \/ CreateRaises(g))
    /\ WF_vars(ConnectFails(g) \/ ConnectSucceeds(g))

FairSpec == Spec /\ Fairness

-----------------------------------------------------------------------------
\* The table holds only sessions that connect() has returned.
TypeOK ==
  /\ shuttingDown \in BOOLEAN
  /\ table \in [Stations -> {s \in Sessions : outcome[s] = "true"} \cup {NoSession}]
  /\ lock \in [Stations -> Getters \cup {NoGetter}]
  /\ queue \in [Stations -> Seq(Getters)]
  /\ pc \in [Getters -> {"idle", "queued", "dsk", "connecting"}]
  /\ making \in [Getters -> Sessions \cup {NoSession}]
  /\ held \in [Getters -> Sessions \cup {NoSession}]
  /\ outcome \in [Sessions -> {"pending", "true", "false"}]
  /\ established \in [Sessions -> BOOLEAN]
  /\ connected \in [Sessions -> BOOLEAN]
  /\ hook \in [Sessions -> Getters \cup {NoGetter}]
  /\ maker \in [Sessions -> Getters \cup {NoGetter}]
  /\ evicted \subseteq Sessions /\ late \subseteq Getters

\* Whoever makes a session holds the lock of its station, and nobody holds a lock
\* otherwise: a connect that fails or raises leaves no lock behind.
LockMeansMaking ==
  /\ \A g \in Getters : pc[g] \in {"dsk", "connecting"} => lock[wants[g]] = g
  /\ \A st \in Stations : lock[st] # NoGetter =>
       pc[lock[st]] \in {"dsk", "connecting"} /\ wants[lock[st]] = st

\* A session that connect() has returned and that is still connected is the one the
\* pool hands out, unless the callback of another session took it out of the table.
LiveIsInTable ==
  \A s \in Sessions :
    outcome[s] = "true" /\ connected[s] /\ s \notin evicted => table[of(s)] = s

\* After shutdown() a session is connected only if it had been taken out of the table
\* before, or if a getter that was inside get_session at that moment made it.
ShutdownDisconnects ==
  shuttingDown => \A s \in Sessions :
    connected[s] => s \in evicted \/ maker[s] \in late

\* The pool's docstring: one session per station.  The holder of a session that has
\* ended breaks it by disconnecting that session.
OneSessionPerStation ==
  \A s, t \in Sessions : connected[s] /\ connected[t] /\ of(s) = of(t) => s = t

\* The same, as far as the pool keeps its word: only evicted sessions are a second one.
OneSessionUnlessEvicted ==
  \A s, t \in Sessions \ evicted :
    connected[s] /\ connected[t] /\ of(s) = of(t) => s = t

\* Every get_session returns, whoever waits for the lock and however connects end,
\* and after shutdown() the last one does: the pool comes to rest.
GettersReturn ==
  /\ \A g \in Getters : pc[g] # "idle" ~> pc[g] = "idle"
  /\ shuttingDown ~> [](\A g \in Getters : pc[g] = "idle")

\* The docstring of get_session: "Get a connected P2P session".  A session that ended
\* between its handshake and the return of connect() breaks it: the pool stores it and
\* hands it out without looking at `connected'.
HandedOutConnected ==
  [][\A g \in Getters : held'[g] \notin {held[g], NoSession} => connected'[held'[g]]]_vars

-----------------------------------------------------------------------------
(* Why the above hold: the inductive invariant of P2PSessionPoolProofs. *)

\* A session is made by one getter, which awaits its connect() until that returns.
MakingInv ==
  \A g \in Getters :
    /\ pc[g] = "connecting" <=> making[g] # NoSession
    /\ making[g] # NoSession => maker[making[g]] = g /\ outcome[making[g]] = "pending"

FateInv ==
  \A s \in Sessions :
    /\ maker[s] = NoGetter => outcome[s] = "pending" /\ ~established[s]
    /\ maker[s] # NoGetter /\ outcome[s] = "pending" => making[maker[s]] = s
    /\ connected[s] => established[s]
    /\ established[s] => outcome[s] # "false"
    /\ outcome[s] = "true" => established[s]

HandedOutInv ==
  /\ \A st \in Stations : table[st] # NoSession => of(table[st]) = st
  /\ \A g \in Getters : held[g] # NoSession => outcome[held[g]] = "true"

\* While a station's lock is held, the table has no live session of that station.
LockedInv ==
  \A st \in Stations : lock[st] # NoGetter /\ table[st] # NoSession => ~connected[table[st]]

\* After shutdown() nobody enters get_session.
LateInv == shuttingDown => \A g \in Getters : pc[g] # "idle" => g \in late

IInv ==
  /\ TypeOK /\ LockMeansMaking
  /\ MakingInv /\ FateInv /\ HandedOutInv /\ LockedInv /\ LateInv
  /\ LiveIsInTable /\ ShutdownDisconnects
=============================================================================
