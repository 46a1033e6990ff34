------------------------------ MODULE P2PSession ------------------------------
(***************************************************************************)
(* The life cycle of one P2PSession (lib/p2p/session.py): connect() with   *)
(* its lookup tasks and the gateway handshake, the receive loop, the       *)
(* heartbeat and disconnect().  They are asyncio tasks of one event loop:  *)
(* each action is what a task does between two awaits, and the tasks       *)
(* interleave at the awaits.                                               *)
(*                                                                         *)
(* Time is external.  A timeout may fire at any moment, with two           *)
(* exceptions that stand for durations: a living station answers a PING    *)
(* before the next one, and a cloud call lasts at most CipherBeats         *)
(* heartbeats.                                                             *)
(***************************************************************************)
EXTENDS Integers

CONSTANTS
  MaxMiss,        \* HEARTBEAT_MAX_MISS
  CipherBeats,    \* external: heartbeats one call of get_cipher may last
  OnlyLocal       \* connection_mode is ONLY_LOCAL

ASSUME SessionAssumption ==
  /\ MaxMiss \in Nat \ {0}
  /\ CipherBeats \in Nat
  /\ CipherBeats + 1 < MaxMiss
  /\ OnlyLocal \in BOOLEAN

VARIABLES
  pc,            \* connect(): "new", "lookup", "gateway" or "returned"
  result,        \* what connect() returned: "pending", "true" or "false"
  sock,          \* _sock: "none" or "open"
  connected,     \* _connected
  closed,        \* history: disconnect() has run
  address,       \* _connect_address and _is_local: "none", "direct" or "relay"
  camEvent,      \* connected_event is set
  gatewayReady,  \* _gateway_ready is set
  level,         \* _encryption_level
  lookups,       \* the lookup tasks that run
  recv,          \* _recv_task: "none", "idle" (on the socket), "cipher" or "ended"
  heartbeat,     \* _heartbeat_task: "none", "running" or "ended"
  missed,        \* _missed_pongs
  inbox,         \* kinds of packet that are on the socket or on their way to it
  alive,         \* the station answers
  cipherBeats,   \* heartbeats since get_cipher was called
  cause          \* history: what ran disconnect() last

connectVars == <<pc, result, camEvent, lookups, address>>
keyVars == <<gatewayReady, level>>
stationVars == <<inbox, alive>>
vars == <<pc, result, sock, connected, closed, address, camEvent, gatewayReady, level,
          lookups, recv, heartbeat, missed, inbox, alive, cipherBeats, cause>>

LookupTasks == {"local"} \cup IF OnlyLocal THEN {} ELSE {"cloud", "cloud_v2"}

Packets == {"LOOKUP_ADDR", "CAM_ID", "TURN_SERVER_CAM_ID", "PONG", "GATEWAYINFO", "END"}

Init ==
  /\ pc = "new" /\ result = "pending"
  /\ sock = "none" /\ connected = FALSE /\ closed = FALSE
  /\ address = "none" /\ camEvent = FALSE
  /\ gatewayReady = FALSE /\ level = "NONE"
  /\ lookups = {} /\ recv = "none" /\ heartbeat = "none"
  /\ missed = 0 /\ cipherBeats = 0
  /\ inbox = {} /\ alive = TRUE
  /\ cause = "none"

-----------------------------------------------------------------------------
(* disconnect(): it never waits for anything, so it is one step of its     *)
(* caller.  The receive loop, the heartbeat and the socket are gone.       *)

\* Mutant: a receive loop that waits for the cloud is not cancelled.
MutantDisconnect(why) ==
  /\ connected' = FALSE
  /\ closed' = TRUE
  /\ sock' = "none"
  /\ recv' = IF recv = "idle" THEN "ended" ELSE recv
  /\ heartbeat' = IF heartbeat = "none" THEN "none" ELSE "ended"
  /\ cause' = why

Disconnect(why) ==
  /\ connected' = FALSE
  /\ closed' = TRUE
  /\ sock' = "none"
  /\ recv' = IF recv = "none" THEN "none" ELSE "ended"
  /\ heartbeat' = IF heartbeat = "none" THEN "none" ELSE "ended"
  /\ cause' = why

-----------------------------------------------------------------------------
(* connect() *)

StartConnect ==
  /\ pc = "new"
  /\ pc' = "lookup"
  /\ sock' = "open"
  /\ recv' = "idle"
  /\ lookups' = LookupTasks
  /\ UNCHANGED <<result, connected, closed, address, camEvent, keyVars, heartbeat,
                 missed, stationVars, cipherBeats, cause>>

\* Mutants: no "return False", no "finally", and the wrong result.
MutantTimeoutGoesOn ==
  /\ pc = "lookup"
  /\ connected' = TRUE /\ closed' = TRUE /\ sock' = "none" /\ recv' = "ended"
  /\ heartbeat' = "running" /\ cause' = "timeout"
  /\ lookups' = {} /\ pc' = "gateway" /\ gatewayReady' = FALSE
  /\ UNCHANGED <<result, address, camEvent, level, missed, stationVars, cipherBeats>>

MutantTimeoutKeepsLookups ==
  /\ pc = "lookup"
  /\ Disconnect("timeout")
  /\ pc' = "returned"
  /\ result' = "false"
  /\ UNCHANGED <<lookups, address, camEvent, keyVars, missed, stationVars, cipherBeats>>

MutantTimeoutTrue ==
  /\ pc = "lookup"
  /\ Disconnect("timeout")
  /\ lookups' = {}
  /\ pc' = "returned"
  /\ result' = "true"
  /\ UNCHANGED <<address, camEvent, keyVars, missed, stationVars, cipherBeats>>

\* wait_for gives up (also, in its last instant, when the event has been set).
LookupTimeout ==
  /\ pc = "lookup"
  /\ Disconnect("timeout")
  /\ lookups' = {}
  /\ pc' = "returned"
  /\ result' = "false"
  /\ UNCHANGED <<address, camEvent, keyVars, missed, stationVars, cipherBeats>>

\* connect() wakes up some time after the event was set, and does not look at
\* what has happened to the socket in between.
Connected ==
  /\ pc = "lookup"
  /\ camEvent
  /\ connected' = TRUE
  /\ gatewayReady' = FALSE
  /\ lookups' = {}
  /\ heartbeat' = "running"
  /\ pc' = "gateway"
  /\ UNCHANGED <<result, sock, closed, address, camEvent, level, recv, missed,
                 stationVars, cipherBeats, cause>>

\* Mutant: the handshake has no timeout.
MutantGatewayWaits ==
  /\ pc = "gateway" /\ gatewayReady
  /\ pc' = "returned"
  /\ result' = "true"
  /\ UNCHANGED <<sock, connected, closed, address, camEvent, keyVars, lookups, recv,
                 heartbeat, missed, stationVars, cipherBeats, cause>>

\* The handshake is complete, or ten seconds have passed: True either way.
GatewayDone ==
  /\ pc = "gateway"
  /\ gatewayReady' = TRUE
  /\ pc' = "returned"
  /\ result' = "true"
  /\ UNCHANGED <<sock, connected, closed, address, camEvent, level, lookups, recv,
                 heartbeat, missed, stationVars, cipherBeats, cause>>

-----------------------------------------------------------------------------
(* The receive loop takes one packet and awaits its handler. *)

Receive(kind) ==
  /\ sock = "open"
  /\ recv = "idle"
  /\ kind \in inbox
  /\ inbox' = inbox \ {kind}

\* A station answered CHECK_CAM; answers after connect() went on are ignored.
RecvCamId(kind) ==
  /\ Receive(kind)
  /\ IF connected
     THEN UNCHANGED <<address, camEvent>>
     ELSE /\ address' = IF kind = "CAM_ID" THEN "direct" ELSE "relay"
          /\ camEvent' = TRUE
  /\ UNCHANGED <<pc, result, sock, connected, closed, keyVars, lookups, recv, heartbeat,
                 missed, alive, cipherBeats, cause>>

\* A lookup server or the station names an address: CHECK_CAM goes there, and
\* the station may answer it, directly or through a relay.
RecvLookupAddr ==
  /\ sock = "open" /\ recv = "idle" /\ "LOOKUP_ADDR" \in inbox
  /\ \E answers \in SUBSET {"CAM_ID", "TURN_SERVER_CAM_ID"} :
       inbox' = (inbox \ {"LOOKUP_ADDR"}) \cup IF connected THEN {} ELSE answers
  /\ UNCHANGED <<connectVars, sock, connected, closed, keyVars, recv, heartbeat, missed,
                 alive, cipherBeats, cause>>

\* Mutant: a PONG does not reset the count.
MutantPong ==
  /\ Receive("PONG")
  /\ missed' = missed
  /\ UNCHANGED <<connectVars, sock, connected, closed, keyVars, recv, heartbeat, alive,
                 cipherBeats, cause>>

RecvPong ==
  /\ Receive("PONG")
  /\ missed' = 0
  /\ UNCHANGED <<connectVars, sock, connected, closed, keyVars, recv, heartbeat, alive,
                 cipherBeats, cause>>

RecvEnd ==
  /\ Receive("END")
  /\ Disconnect("end")
  /\ UNCHANGED <<connectVars, keyVars, missed, alive, cipherBeats>>

\* _handle_gateway_info: a cipher id makes the receive loop wait for the cloud;
\* without one the derived key is used, and a short answer means no encryption.
RecvGatewayInfo ==
  /\ Receive("GATEWAYINFO")
  /\ \/ /\ recv' = "cipher"
        /\ cipherBeats' = 0
        /\ UNCHANGED keyVars
     \/ /\ level' \in {"NONE", "LEVEL_1"}
        /\ gatewayReady' = TRUE
        /\ UNCHANGED <<recv, cipherBeats>>
  /\ UNCHANGED <<connectVars, sock, connected, closed, heartbeat, missed, alive, cause>>

\* get_cipher returns the key, or none, or raises: level 2, else level 1.
CipherReturns ==
  /\ recv = "cipher"
  /\ recv' = "idle"
  /\ level' \in {"LEVEL_2", "LEVEL_1", "NONE"}
  /\ gatewayReady' = TRUE
  /\ cipherBeats' = 0
  /\ UNCHANGED <<connectVars, sock, connected, closed, heartbeat, missed, stationVars,
                 cause>>

-----------------------------------------------------------------------------
(* The heartbeat. *)

\* A living station's answer has been taken before the next PING is due, unless
\* the receive loop is waiting for the cloud, which takes a bounded time.
BeatDue ==
  /\ alive /\ recv = "idle" => "PONG" \notin inbox
  /\ recv = "cipher" => cipherBeats < CipherBeats

\* Mutant: the count never grows.
MutantBeatUncounted ==
  /\ heartbeat = "running" /\ connected
  /\ BeatDue
  /\ inbox' = IF alive /\ sock = "open" THEN inbox \cup {"PONG"} ELSE inbox
  /\ cipherBeats' = IF recv = "cipher" THEN cipherBeats + 1 ELSE cipherBeats
  /\ UNCHANGED <<connectVars, keyVars, alive, missed, connected, closed, sock, recv,
                 heartbeat, cause>>

Beat ==
  /\ heartbeat = "running" /\ connected
  /\ BeatDue
  /\ missed' = missed + 1
  /\ inbox' = IF alive /\ sock = "open" THEN inbox \cup {"PONG"} ELSE inbox
  /\ cipherBeats' = IF recv = "cipher" THEN cipherBeats + 1 ELSE cipherBeats
  /\ IF missed + 1 >= MaxMiss
     THEN Disconnect("heartbeat")
     ELSE UNCHANGED <<connected, closed, sock, recv, heartbeat, cause>>
  /\ UNCHANGED <<connectVars, keyVars, alive>>

-----------------------------------------------------------------------------
(* The owner, the station and the network. *)

\* The owner has the session only after connect() returned.
OwnerDisconnect ==
  /\ pc = "returned"
  /\ ~closed \/ connected
  /\ Disconnect("owner")
  /\ UNCHANGED <<connectVars, keyVars, missed, stationVars, cipherBeats>>

\* A lookup is answered.
LookupAnswered ==
  /\ lookups # {} /\ sock = "open" /\ ~connected
  /\ inbox' = inbox \cup {"LOOKUP_ADDR"}
  /\ UNCHANGED <<connectVars, sock, connected, closed, keyVars, recv, heartbeat, missed,
                 alive, cipherBeats, cause>>

\* The station answers CMD_GATEWAYINFO, which is sent once.
GatewayAnswered ==
  /\ pc = "gateway" /\ sock = "open" /\ alive
  /\ ~gatewayReady /\ recv = "idle" /\ cipherBeats = 0
  /\ inbox' = inbox \cup {"GATEWAYINFO"}
  /\ UNCHANGED <<connectVars, sock, connected, closed, keyVars, recv, heartbeat, missed,
                 alive, cipherBeats, cause>>

\* A station that has answered may end the session at any time.
StationEnds ==
  /\ camEvent /\ sock = "open" /\ alive
  /\ inbox' = inbox \cup {"END"}
  /\ UNCHANGED <<connectVars, sock, connected, closed, keyVars, recv, heartbeat, missed,
                 alive, cipherBeats, cause>>

StationDies ==
  /\ alive
  /\ alive' = FALSE
  /\ UNCHANGED <<connectVars, sock, connected, closed, keyVars, recv, heartbeat, missed,
                 inbox, cipherBeats, cause>>

\* Packets are lost; a living station's PONGs are not, by the assumption above.
Lose(kind) ==
  /\ kind \in inbox \ {"PONG"}
  /\ inbox' = inbox \ {kind}
  /\ UNCHANGED <<connectVars, sock, connected, closed, keyVars, recv, heartbeat, missed,
                 alive, cipherBeats, cause>>

\* The session is over: nothing is left to run.
Over ==
  /\ pc = "returned" /\ closed /\ ~connected
  /\ UNCHANGED vars

ReceiveLoop ==
  \/ \E kind \in {"CAM_ID", "TURN_SERVER_CAM_ID"} : RecvCamId(kind)
  \/ RecvLookupAddr
  \/ RecvPong
  \/ RecvEnd
  \/ RecvGatewayInfo

Next ==
  \/ StartConnect \/ LookupTimeout \/ Connected \/ GatewayDone
  \/ ReceiveLoop \/ CipherReturns
  \/ Beat
  \/ OwnerDisconnect
  \/ LookupAnswered \/ GatewayAnswered \/ StationEnds \/ StationDies
  \/ \E kind \in Packets : Lose(kind)
  \/ Over

Spec == Init /\ [][Next]_vars

\* The event loop runs every task that is ready, timers fire, and a cloud call
\* ends.  Nothing is assumed of the station or the network.
Fairness ==
  /\ WF_vars(LookupTimeout \/ Connected)
  /\ WF_vars(GatewayDone)
  /\ WF_vars(ReceiveLoop)
  /\ WF_vars(CipherReturns)
  /\ WF_vars(Beat)

FairSpec == Spec /\ Fairness

-----------------------------------------------------------------------------
TypeOK ==
  /\ pc \in {"new", "lookup", "gateway", "returned"}
  /\ result \in {"pending", "true", "false"}
  /\ sock \in {"none", "open"}
  /\ connected \in BOOLEAN /\ closed \in BOOLEAN
  /\ address \in {"none", "direct", "relay"}
  /\ camEvent \in BOOLEAN /\ gatewayReady \in BOOLEAN /\ alive \in BOOLEAN
  /\ level \in {"NONE", "LEVEL_1", "LEVEL_2"}
  /\ lookups \subseteq {"local", "cloud", "cloud_v2"}
  /\ recv \in {"none", "idle", "cipher", "ended"}
  /\ heartbeat \in {"none", "running", "ended"}
  /\ missed \in 0 .. MaxMiss
  /\ inbox \subseteq Packets
  /\ cipherBeats \in 0 .. CipherBeats
  /\ cause \in {"none", "timeout", "end", "heartbeat", "owner"}

\* A session that says it is connected has no socket only when the station's END
\* overtook connect() between the answer to CHECK_CAM and connect()'s waking up;
\* no heartbeat, owner or timeout brings that about.
SocketlessOnlyByEarlyEnd ==
  connected /\ sock = "none" => cause = "end" /\ closed

\* A station that answers every PING is never given up by the heartbeat while
\* the session has its socket, even while the receive loop waits for the cloud
\* and PONGs pile up behind it.
AliveStationKept ==
  [][cause' = "heartbeat" /\ cause # "heartbeat" => ~alive \/ sock = "none"]_vars

\* A station that is gone is noticed: the session does not stay connected.
DeadStationNoticed == connected /\ ~alive ~> ~connected

\* After disconnect() everything the session started comes to an end, for good,
\* also when connect() was still under way and went on.
Quiet ==
  /\ ~connected /\ lookups = {}
  /\ recv \in {"none", "ended"} /\ heartbeat \in {"none", "ended"}
ClosedBecomesQuiet == closed ~> []Quiet

\* The same as a count, whatever the rest of the program does: as long as a session
\* is connected to a station that is gone its heartbeat runs, each beat brings the end
\* nearer and nothing puts it off, except the one PONG that was still on its way
\* (_heartbeat_loop, _missed_pongs).  So it takes at most 2 * MaxMiss beats.
BeatsLeft == MaxMiss - missed + IF "PONG" \in inbox THEN MaxMiss ELSE 0
DeadStationCounted ==
  [][connected /\ ~alive /\ connected' =>
       /\ heartbeat = "running"
       /\ 0 < BeatsLeft' /\ BeatsLeft' <= BeatsLeft
       /\ Beat => BeatsLeft' < BeatsLeft]_vars

\* After disconnect() what is left to run runs down: a connect() that goes on makes
\* the session connected once more, but without a socket its heartbeat counts to the
\* end, nothing starts the count again, and at its end nothing runs any more.  A cloud
\* call still in flight does not change the session's key (_handle_gateway_info).
StepsLeft ==
  IF pc = "lookup" THEN MaxMiss + 1 ELSE IF connected THEN MaxMiss - missed ELSE 0
ClosedRunsDown ==
  [][/\ closed' => (StepsLeft' = 0 <=> Quiet')
     /\ closed => level' = level /\ StepsLeft' <= StepsLeft
     /\ closed /\ (LookupTimeout \/ Connected \/ Beat) => StepsLeft' < StepsLeft]_vars

\* connect() returns.
ConnectReturns == pc = "lookup" ~> pc = "returned"

-----------------------------------------------------------------------------
(* Why the above hold: the inductive invariant of P2PSessionProofs. *)

\* Before connect() has found a station nothing but lookups and END has happened.
LookupInv ==
  /\ pc = "new" => recv = "none" /\ ~camEvent /\ ~closed /\ sock = "none"
  /\ pc \in {"new", "lookup"} =>
       /\ ~connected /\ heartbeat = "none" /\ missed = 0 /\ recv # "cipher"
       /\ inbox \cap {"PONG", "GATEWAYINFO"} = {}
  /\ pc = "lookup" /\ sock = "none" => closed /\ cause = "end"
  /\ pc = "returned" <=> result # "pending"

SocketInv ==
  /\ closed => sock = "none"
  /\ IF sock = "open" THEN recv \in {"idle", "cipher"} ELSE recv \in {"none", "ended"}

CountInv == heartbeat = "running" => missed < MaxMiss

\* GATEWAYINFO, and with it the one cloud call, may still come.
CipherAhead == "GATEWAYINFO" \in inbox \/ (pc = "gateway" /\ ~gatewayReady)

\* As long as the station lives and the socket is open, a PONG is on its way for the
\* oldest PING that counts, and only the one cloud call can hold it up.
PongInv ==
  alive /\ sock = "open" =>
    /\ "PONG" \notin inbox => missed = 0
    /\ recv = "idle" /\ CipherAhead => missed <= 1
    /\ recv = "cipher" => missed <= 1 + cipherBeats /\ "GATEWAYINFO" \notin inbox

IInv ==
  /\ TypeOK /\ LookupInv /\ SocketInv /\ CountInv /\ PongInv
  /\ SocketlessOnlyByEarlyEnd

-----------------------------------------------------------------------------
\* The owner of a session may rely on SessionLife, and on no more than that.
Life == INSTANCE SessionLife
  WITH outcome <- result, established <- (pc = "gateway" \/ result = "true"),
       connected <- connected
LifeSpec == Life!Spec
=============================================================================
