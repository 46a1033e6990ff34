--------------------------- MODULE P2PSessionProofs ---------------------------
(***************************************************************************)
(* Proofs about P2PSession, for every MaxMiss, CipherBeats and connection  *)
(* mode that SessionAssumption allows.  All of them rest on IInv, which is *)
(* inductive.                                                              *)
(***************************************************************************)
EXTENDS P2PSession, TLAPS

\* The Boolean variables, which the arithmetic of TypeOK is kept apart from.
Flags ==
  /\ connected \in BOOLEAN /\ closed \in BOOLEAN /\ camEvent \in BOOLEAN
  /\ gatewayReady \in BOOLEAN /\ alive \in BOOLEAN

LEMMA InvInit == Init => IInv
<1> SUFFICES ASSUME Init PROVE IInv
  OBVIOUS
<1>1. TypeOK
  <2>1. missed \in 0 .. MaxMiss /\ cipherBeats \in 0 .. CipherBeats
    BY SessionAssumption DEF Init
  <2>2. QED BY <2>1, Zenon DEF Init, TypeOK
<1>2. LookupInv /\ SocketInv /\ CountInv /\ SocketlessOnlyByEarlyEnd
  BY DEF Init, LookupInv, SocketInv, CountInv, SocketlessOnlyByEarlyEnd
<1>3. PongInv
  BY DEF Init, PongInv
<1>4. QED BY <1>1, <1>2, <1>3 DEF IInv

\* The count stays in its range: a heartbeat that runs has not given up yet.
LEMMA BeatType == TypeOK /\ CountInv /\ Beat => TypeOK'
<1> SUFFICES ASSUME TypeOK, CountInv, Beat PROVE TypeOK'
  OBVIOUS
<1>1. (missed \in 0 .. MaxMiss /\ cipherBeats \in 0 .. CipherBeats)'
  BY SessionAssumption DEF TypeOK, CountInv, Beat, BeatDue
<1>2. (inbox \subseteq Packets)'
  BY DEF TypeOK, Beat, Packets
<1>3. Disconnect("heartbeat") \/ UNCHANGED <<connected, closed, sock, recv, heartbeat, cause>>
  BY DEF Beat
<1>4. Flags'
  BY <1>3 DEF TypeOK, Flags, Beat, Disconnect, connectVars, keyVars
<1>5. (/\ sock \in {"none", "open"}
       /\ recv \in {"none", "idle", "cipher", "ended"}
       /\ heartbeat \in {"none", "running", "ended"}
       /\ cause \in {"none", "timeout", "end", "heartbeat", "owner"})'
  BY <1>3 DEF TypeOK, Disconnect
<1>6. QED
  BY <1>1, <1>2, <1>4, <1>5, Zenon DEF TypeOK, Flags, Beat, connectVars, keyVars

\* One step per action; the heartbeat's, which counts, is split by whether it gives up.
LEMMA InvStep == IInv /\ [Next]_vars => IInv'
<1> SUFFICES ASSUME IInv, [Next]_vars PROVE IInv'
  OBVIOUS
<1> USE SessionAssumption
    DEF IInv, TypeOK, LookupInv, SocketInv, CountInv, PongInv, CipherAhead,
        SocketlessOnlyByEarlyEnd, Packets, connectVars, keyVars, stationVars
<1>1. CASE StartConnect
  BY <1>1 DEF StartConnect, LookupTasks
<1>2. CASE LookupTimeout
  <2>1. TypeOK'
    <3>1. Flags'
      BY <1>2 DEF LookupTimeout, Disconnect, Flags
    <3>2. QED BY <1>2, <3>1 DEF LookupTimeout, Disconnect, Flags
  <2>2. LookupInv' /\ SocketInv' /\ CountInv'
    BY <1>2 DEF LookupTimeout, Disconnect
  <2>3. SocketlessOnlyByEarlyEnd' /\ PongInv'
    BY <1>2 DEF LookupTimeout, Disconnect
  <2>4. QED BY <2>1, <2>2, <2>3
<1>3. CASE Connected
  <2>1. TypeOK'
    BY <1>3 DEF Connected
  <2>2. LookupInv'
    BY <1>3 DEF Connected
  <2>3. SocketInv' /\ SocketlessOnlyByEarlyEnd'
    BY <1>3 DEF Connected
  <2>4. CountInv'
    BY <1>3 DEF Connected
  <2>5. PongInv'
    BY <1>3 DEF Connected
  <2>6. QED BY <2>1, <2>2, <2>3, <2>4, <2>5
<1>4. CASE GatewayDone
  BY <1>4 DEF GatewayDone
<1>5. ASSUME NEW kind \in {"CAM_ID", "TURN_SERVER_CAM_ID"}, RecvCamId(kind) PROVE IInv'
  <2>1. TypeOK'
    <3>1. Flags'
      BY <1>5 DEF RecvCamId, Receive, Flags
    <3>2. QED BY <1>5, <3>1 DEF RecvCamId, Receive, Flags
  <2>2. LookupInv'
    BY <1>5 DEF RecvCamId, Receive
  <2>3. SocketInv' /\ SocketlessOnlyByEarlyEnd'
    BY <1>5 DEF RecvCamId, Receive
  <2>4. CountInv'
    BY <1>5 DEF RecvCamId, Receive
  <2>5. PongInv'
    BY <1>5 DEF RecvCamId, Receive
  <2>6. QED BY <2>1, <2>2, <2>3, <2>4, <2>5
<1>6. CASE RecvLookupAddr
  BY <1>6 DEF RecvLookupAddr
<1>7. CASE RecvPong
  BY <1>7 DEF RecvPong, Receive
<1>8. CASE RecvEnd
  <2>1. TypeOK'
    <3>1. Flags'
      BY <1>8 DEF RecvEnd, Receive, Disconnect, Flags
    <3>2. QED BY <1>8, <3>1 DEF RecvEnd, Receive, Disconnect, Flags
  <2>2. LookupInv'
    BY <1>8 DEF RecvEnd, Receive, Disconnect
  <2>3. SocketInv' /\ SocketlessOnlyByEarlyEnd'
    BY <1>8 DEF RecvEnd, Receive, Disconnect
  <2>4. CountInv'
    BY <1>8 DEF RecvEnd, Receive, Disconnect
  <2>5. PongInv'
    BY <1>8 DEF RecvEnd, Receive, Disconnect
  <2>6. QED BY <2>1, <2>2, <2>3, <2>4, <2>5
<1>9. CASE RecvGatewayInfo
  <2>1. TypeOK'
    <3>1. Flags'
      BY <1>9 DEF RecvGatewayInfo, Receive, Flags
    <3>2. QED BY <1>9, <3>1 DEF RecvGatewayInfo, Receive, Flags
  <2>2. LookupInv'
    BY <1>9 DEF RecvGatewayInfo, Receive
  <2>3. SocketInv' /\ SocketlessOnlyByEarlyEnd'
    BY <1>9 DEF RecvGatewayInfo, Receive
  <2>4. CountInv'
    BY <1>9 DEF RecvGatewayInfo, Receive
  <2>5. PongInv'
    BY <1>9 DEF RecvGatewayInfo, Receive
  <2>6. QED BY <2>1, <2>2, <2>3, <2>4, <2>5
<1>10. CASE CipherReturns
  BY <1>10 DEF CipherReturns
<1>11. CASE Beat
  <2>1. missed < MaxMiss /\ missed' = missed + 1
    BY <1>11 DEF Beat
  <2>2. CASE missed + 1 >= MaxMiss
    <3>1. Disconnect("heartbeat")
      BY <1>11, <2>2 DEF Beat
    <3>2. TypeOK'
      BY <1>11, BeatType
    <3>3. LookupInv' /\ SocketInv' /\ SocketlessOnlyByEarlyEnd' /\ CountInv' /\ PongInv'
      BY <1>11, <3>1 DEF Beat, Disconnect
    <3>4. QED BY <3>2, <3>3
  <2>3. CASE ~(missed + 1 >= MaxMiss)
    <3>1. UNCHANGED <<connected, closed, sock, recv, heartbeat, cause>>
      BY <1>11, <2>3, Zenon DEF Beat
    <3>2. TypeOK'
      BY <1>11, BeatType
    <3>3. LookupInv' /\ SocketInv' /\ SocketlessOnlyByEarlyEnd' /\ CountInv'
      BY <1>11, <2>1, <2>3, <3>1 DEF Beat
    <3>4. PongInv'
      BY <1>11, <2>1, <3>1 DEF Beat, BeatDue
    <3>5. QED BY <3>2, <3>3, <3>4
  <2>4. QED BY <2>1, <2>2, <2>3
<1>12. CASE OwnerDisconnect
  <2>1. TypeOK'
    <3>1. Flags'
      BY <1>12 DEF OwnerDisconnect, Disconnect, Flags
    <3>2. QED BY <1>12, <3>1 DEF OwnerDisconnect, Disconnect, Flags
  <2>2. LookupInv'
    BY <1>12 DEF OwnerDisconnect, Disconnect
  <2>3. SocketInv' /\ SocketlessOnlyByEarlyEnd'
    BY <1>12 DEF OwnerDisconnect, Disconnect
  <2>4. CountInv'
    BY <1>12 DEF OwnerDisconnect, Disconnect
  <2>5. PongInv'
    BY <1>12 DEF OwnerDisconnect, Disconnect
  <2>6. QED BY <2>1, <2>2, <2>3, <2>4, <2>5
<1>13. CASE LookupAnswered
  BY <1>13 DEF LookupAnswered
<1>14. CASE GatewayAnswered
  BY <1>14 DEF GatewayAnswered
<1>15. CASE StationEnds
  BY <1>15 DEF StationEnds
<1>16. CASE StationDies
  <2>1. TypeOK'
    <3>1. Flags'
      BY <1>16 DEF StationDies, Flags
    <3>2. QED BY <1>16, <3>1 DEF StationDies, Flags
  <2>2. LookupInv'
    BY <1>16 DEF StationDies
  <2>3. SocketInv' /\ SocketlessOnlyByEarlyEnd'
    BY <1>16 DEF StationDies
  <2>4. CountInv'
    BY <1>16 DEF StationDies
  <2>5. PongInv'
    BY <1>16 DEF StationDies
  <2>6. QED BY <2>1, <2>2, <2>3, <2>4, <2>5
<1>17. ASSUME NEW kind \in Packets, Lose(kind) PROVE IInv'
  BY <1>17 DEF Lose
<1>18. CASE UNCHANGED vars
  BY <1>18 DEF vars
<1>19. QED
  BY <1>1, <1>2, <1>3, <1>4, <1>5, <1>6, <1>7, <1>8, <1>9, <1>10, <1>11, <1>12, <1>13,
     <1>14, <1>15, <1>16, <1>17, <1>18 DEF Next, ReceiveLoop, Over

LEMMA Invariance == Spec => []IInv
  BY InvInit, InvStep, PTL DEF Spec

\* Every variable keeps its type; the heartbeat never counts past its limit.
THEOREM TypeCorrect == Spec => []TypeOK
<1>1. IInv => TypeOK
  BY DEF IInv
<1>2. QED BY <1>1, Invariance, PTL

\* A connected session lacks its socket only if END overtook connect().
THEOREM EarlyEnd == Spec => []SocketlessOnlyByEarlyEnd
<1>1. IInv => SocketlessOnlyByEarlyEnd
  BY DEF IInv
<1>2. QED BY <1>1, Invariance, PTL

-----------------------------------------------------------------------------
(* What a step may never do. *)

\* The level changes only in the receive loop, and a closed session has none.
LEMMA KeyStep == IInv /\ [Next]_vars => (closed => level' = level)
<1> SUFFICES ASSUME IInv, [Next]_vars, closed PROVE level' = level
  OBVIOUS
<1>1. recv \notin {"idle", "cipher"} /\ sock = "none" /\ pc # "new"
  BY DEF IInv, SocketInv, LookupInv
<1>2. ~ReceiveLoop /\ ~CipherReturns
  BY <1>1 DEF ReceiveLoop, Receive, RecvCamId, RecvLookupAddr, RecvPong, RecvEnd,
              RecvGatewayInfo, CipherReturns
<1>3. CASE Next
  BY <1>1, <1>2, <1>3
     DEF Next, StartConnect, LookupTimeout, Connected, GatewayDone, Beat, OwnerDisconnect,
         LookupAnswered, GatewayAnswered, StationEnds, StationDies, Lose, Over, keyVars, vars
<1>4. CASE UNCHANGED vars
  BY <1>4 DEF vars
<1>5. QED BY <1>3, <1>4

\* Only the heartbeat gives a station up, and PongInv keeps the count of a living
\* station's heartbeat below the limit.
LEMMA AliveStep ==
  IInv /\ [Next]_vars =>
    (cause' = "heartbeat" /\ cause # "heartbeat" => ~alive \/ sock = "none")
<1> SUFFICES ASSUME IInv, [Next]_vars, cause' = "heartbeat", cause # "heartbeat",
                    alive, sock # "none"
             PROVE  FALSE
  OBVIOUS
<1>1. sock = "open" /\ missed \in Nat /\ cipherBeats \in Nat
  BY SessionAssumption DEF IInv, TypeOK
<1>2. CASE Beat
  <2>1. missed + 1 <= 1 + CipherBeats
    BY <1>1, <1>2, SessionAssumption DEF Beat, BeatDue, IInv, SocketInv, PongInv
  <2>2. missed + 1 >= MaxMiss
    BY <1>2 DEF Beat
  <2>3. QED BY <1>1, <2>1, <2>2, SessionAssumption
<1>3. CASE Next /\ ~Beat
  BY <1>3
     DEF Next, StartConnect, LookupTimeout, Connected, GatewayDone, OwnerDisconnect,
         ReceiveLoop, RecvCamId, RecvLookupAddr, RecvPong, RecvEnd, RecvGatewayInfo,
         CipherReturns, LookupAnswered, GatewayAnswered, StationEnds, StationDies, Lose,
         Over, Disconnect, vars
<1>4. CASE UNCHANGED vars
  BY <1>4 DEF vars
<1>5. QED BY <1>2, <1>3, <1>4

\* A station that answers every PING is not given up by the heartbeat, however many
\* PONGs wait behind the cloud call of the receive loop.
THEOREM AliveKept == Spec => AliveStationKept
<1>1. IInv /\ [Next]_vars =>
        [cause' = "heartbeat" /\ cause # "heartbeat" => ~alive \/ sock = "none"]_vars
  BY AliveStep
<1>2. QED BY <1>1, Invariance, PTL DEF Spec, AliveStationKept

-----------------------------------------------------------------------------
(* What ends, counted. *)

\* The heartbeat runs as long as the session is connected; lookups as long as
\* connect() waits for them.
RunInv ==
  /\ connected => heartbeat = "running"
  /\ pc # "lookup" => lookups = {}
  /\ ~connected => heartbeat # "running"
  /\ pc = "lookup" => lookups # {}

LEMMA RunInit == Init => RunInv
  BY DEF Init, RunInv

LEMMA RunStep == IInv /\ RunInv /\ [Next]_vars => RunInv'
<1> SUFFICES ASSUME IInv, RunInv, [Next]_vars PROVE RunInv'
  OBVIOUS
<1> USE DEF RunInv
<1>1. CASE StartConnect
  BY <1>1 DEF StartConnect, LookupTasks, IInv, LookupInv
<1>2. CASE LookupTimeout \/ Connected \/ GatewayDone
  BY <1>2 DEF LookupTimeout, Connected, GatewayDone, Disconnect, IInv, LookupInv
<1>3. CASE Beat
  BY <1>3 DEF Beat, Disconnect, connectVars
<1>4. CASE RecvEnd \/ OwnerDisconnect
  BY <1>4 DEF RecvEnd, OwnerDisconnect, Disconnect, connectVars
<1>5. CASE UNCHANGED <<pc, connected, heartbeat, lookups>>
  BY <1>5
<1> QED
  BY <1>1, <1>2, <1>3, <1>4, <1>5
     DEF Next, ReceiveLoop, RecvCamId, RecvLookupAddr, RecvPong, RecvGatewayInfo,
         CipherReturns, LookupAnswered, GatewayAnswered, StationEnds, StationDies, Lose,
         Over, connectVars, vars

LEMMA RunInvariance == Spec => []RunInv
  BY RunInit, RunStep, Invariance, PTL DEF Spec

\* Arithmetic of a count that has not reached its limit.
LEMMA Remaining ==
  \A n \in Nat :
    /\ MaxMiss - n < MaxMiss + 1
    /\ n < MaxMiss => 0 < MaxMiss - n + 0 /\ 0 < MaxMiss - n + MaxMiss /\ MaxMiss - n # 0
  BY SessionAssumption

\* No PONG comes from a station that is gone, and without one the count only rises.
LEMMA CountedStep ==
  IInv /\ IInv' /\ RunInv /\ RunInv' /\ [Next]_vars =>
    (connected /\ ~alive /\ connected' =>
       /\ heartbeat = "running"
       /\ 0 < BeatsLeft' /\ BeatsLeft' <= BeatsLeft
       /\ Beat => BeatsLeft' < BeatsLeft)
<1> SUFFICES ASSUME IInv, IInv', RunInv, RunInv', [Next]_vars, connected, ~alive, connected'
             PROVE  /\ heartbeat = "running"
                    /\ 0 < BeatsLeft' /\ BeatsLeft' <= BeatsLeft
                    /\ Beat => BeatsLeft' < BeatsLeft
  OBVIOUS
<1>1. /\ heartbeat = "running" /\ missed \in Nat /\ missed < MaxMiss /\ MaxMiss \in Nat
      /\ missed' \in Nat /\ missed' < MaxMiss
  BY SessionAssumption DEF RunInv, IInv, TypeOK, CountInv
<1>2. 0 < BeatsLeft'
  <2>1. CASE "PONG" \in inbox'
    <3>1. BeatsLeft' = MaxMiss - missed' + MaxMiss
      BY <2>1 DEF BeatsLeft
    <3> QED BY <1>1, <3>1, Remaining
  <2>2. CASE "PONG" \notin inbox'
    <3>1. BeatsLeft' = MaxMiss - missed' + 0
      BY <2>2 DEF BeatsLeft
    <3> QED BY <1>1, <3>1, Remaining
  <2> QED BY <2>1, <2>2
<1>3. CASE Beat
  <2>1. inbox' = inbox /\ missed' = missed + 1
    BY <1>3 DEF Beat
  <2> QED BY <1>1, <1>2, <2>1 DEF BeatsLeft
<1>4. CASE RecvPong
  <2>1. "PONG" \in inbox /\ "PONG" \notin inbox' /\ missed' = 0
    BY <1>4 DEF RecvPong, Receive
  <2> QED BY <1>1, <1>2, <1>3, <2>1 DEF BeatsLeft
<1>5. CASE missed' = missed /\ ("PONG" \in inbox' => "PONG" \in inbox)
  BY <1>1, <1>2, <1>3, <1>5 DEF BeatsLeft
<1> QED
  BY <1>1, <1>3, <1>4, <1>5
     DEF Next, StartConnect, LookupTimeout, Connected, GatewayDone, ReceiveLoop, RecvCamId,
         RecvLookupAddr, RecvEnd, RecvGatewayInfo, Receive, CipherReturns, OwnerDisconnect,
         LookupAnswered, GatewayAnswered, StationEnds, StationDies, Lose, Over,
         stationVars, vars

\* A session that is connected to a station that is gone is given up after at most
\* 2 * MaxMiss heartbeats, whatever else happens (_heartbeat_loop).
THEOREM DeadCounted == Spec => DeadStationCounted
<1>1. IInv /\ IInv' /\ RunInv /\ RunInv' /\ [Next]_vars =>
        [connected /\ ~alive /\ connected' =>
           /\ heartbeat = "running"
           /\ 0 < BeatsLeft' /\ BeatsLeft' <= BeatsLeft
           /\ Beat => BeatsLeft' < BeatsLeft]_vars
  BY CountedStep
<1> QED BY <1>1, Invariance, RunInvariance, PTL DEF Spec, DeadStationCounted

\* A closed session takes no packet, so nothing brings connect() or the count back.
LEMMA DownStep ==
  IInv /\ IInv' /\ RunInv /\ RunInv' /\ [Next]_vars =>
    /\ closed' => (StepsLeft' = 0 <=> Quiet')
    /\ closed => StepsLeft' <= StepsLeft
    /\ closed /\ (LookupTimeout \/ Connected \/ Beat) => StepsLeft' < StepsLeft
<1> SUFFICES ASSUME IInv, IInv', RunInv, RunInv', [Next]_vars
             PROVE  /\ closed' => (StepsLeft' = 0 <=> Quiet')
                    /\ closed => StepsLeft' <= StepsLeft
                    /\ closed /\ (LookupTimeout \/ Connected \/ Beat) =>
                         StepsLeft' < StepsLeft
  OBVIOUS
<1>1. MaxMiss \in Nat \ {0} /\ missed \in Nat /\ missed' \in Nat
  BY SessionAssumption DEF IInv, TypeOK
<1>2. (connected => missed < MaxMiss) /\ (connected' => missed' < MaxMiss)
  BY DEF RunInv, IInv, CountInv
<1>3. ASSUME closed' PROVE StepsLeft' = 0 <=> Quiet'
  <2>1. sock' = "none" /\ recv' \in {"none", "ended"}
    BY <1>3 DEF IInv, SocketInv
  <2>2. heartbeat' \in {"none", "running", "ended"}
    BY DEF IInv, TypeOK
  <2>3. CASE pc' = "lookup"
    <3>1. StepsLeft' = MaxMiss + 1 /\ ~Quiet'
      BY <2>3 DEF StepsLeft, Quiet, RunInv
    <3> QED BY <1>1, <3>1
  <2>4. CASE pc' # "lookup" /\ connected'
    <3>1. StepsLeft' = MaxMiss - missed'
      BY <2>4 DEF StepsLeft
    <3>3. ~Quiet'
      BY <2>4 DEF Quiet
    <3>2. missed' < MaxMiss
      BY <1>2, <2>4
    <3>4. StepsLeft' # 0
      BY <1>1, <3>1, <3>2, Remaining
    <3> QED BY <3>3, <3>4
  <2>5. CASE pc' # "lookup" /\ ~connected'
    BY <2>1, <2>2, <2>5 DEF StepsLeft, Quiet, RunInv
  <2> QED BY <2>3, <2>4, <2>5
<1>4. SUFFICES ASSUME closed
               PROVE  /\ StepsLeft' <= StepsLeft
                      /\ LookupTimeout \/ Connected \/ Beat => StepsLeft' < StepsLeft
  BY <1>3
<1>5. recv \notin {"idle", "cipher"} /\ sock = "none" /\ pc # "new"
  BY <1>4 DEF IInv, SocketInv, LookupInv
<1>6. ~ReceiveLoop /\ ~CipherReturns /\ ~StartConnect
  BY <1>5 DEF ReceiveLoop, Receive, RecvCamId, RecvLookupAddr, RecvPong, RecvEnd,
              RecvGatewayInfo, CipherReturns, StartConnect
<1>7. CASE LookupTimeout
  BY <1>1, <1>7 DEF LookupTimeout, Disconnect, StepsLeft
<1>8. CASE Connected
  <2>1. pc = "lookup" /\ pc' = "gateway" /\ connected'
    BY <1>8 DEF Connected
  <2>2. StepsLeft = MaxMiss + 1
    BY <2>1 DEF StepsLeft
  <2>3. StepsLeft' = MaxMiss - missed'
    BY <2>1 DEF StepsLeft
  <2>4. MaxMiss - missed' < MaxMiss + 1
    BY <1>1, Remaining
  <2>5. StepsLeft' < StepsLeft
    BY <2>2, <2>3, <2>4
  <2>6. StepsLeft' \in Int /\ StepsLeft \in Int
    BY <1>1, <2>2, <2>3
  <2> QED BY <2>5, <2>6
<1>9. CASE Beat
  <2>1. connected /\ pc' = pc /\ pc # "lookup" /\ missed' = missed + 1
    BY <1>9 DEF Beat, connectVars, IInv, LookupInv
  <2>2. StepsLeft = MaxMiss - missed
    BY <2>1 DEF StepsLeft
  <2>3. StepsLeft' = IF connected' THEN MaxMiss - missed' ELSE 0
    BY <2>1 DEF StepsLeft
  <2>4. CASE connected'
    BY <1>1, <2>1, <2>2, <2>3, <2>4
  <2>5. CASE ~connected'
    BY <1>1, <1>2, <2>1, <2>2, <2>3, <2>5
  <2> QED BY <2>4, <2>5
<1>10. CASE OwnerDisconnect
  <2>1. pc' = pc /\ ~connected' /\ pc = "returned"
    BY <1>10 DEF OwnerDisconnect, Disconnect, connectVars
  <2>2. StepsLeft' = 0 /\ ~LookupTimeout /\ ~Connected
    BY <2>1 DEF StepsLeft, LookupTimeout, Connected
  <2>3. StepsLeft = IF connected THEN MaxMiss - missed ELSE 0
    BY <2>1 DEF StepsLeft
  <2>4. 0 <= StepsLeft
    <3>1. CASE connected
      BY <1>1, <1>2, <2>3, <3>1
    <3>2. CASE ~connected
      BY <2>3, <3>2
    <3> QED BY <3>1, <3>2
  <2> QED BY <1>9, <2>2, <2>4
<1>11. CASE pc # "lookup" /\ pc' # "lookup" /\ UNCHANGED <<connected, missed>>
  BY <1>1, <1>2, <1>7, <1>8, <1>9, <1>11 DEF StepsLeft
<1>12. CASE UNCHANGED <<pc, connected, missed>>
  BY <1>1, <1>2, <1>7, <1>8, <1>9, <1>12 DEF StepsLeft
<1> QED
  BY <1>6, <1>7, <1>8, <1>9, <1>10, <1>11, <1>12
     DEF Next, GatewayDone, LookupAnswered, GatewayAnswered, StationEnds, StationDies, Lose,
         Over, connectVars, vars

\* What still runs after disconnect() comes to an end within MaxMiss heartbeats, and
\* then nothing runs any more, for good; and no cloud call that is still in flight
\* changes the key (disconnect, connect, _heartbeat_loop, _handle_gateway_info).
THEOREM RunsDown == Spec => ClosedRunsDown
<1>1. IInv /\ IInv' /\ RunInv /\ RunInv' /\ [Next]_vars =>
        [/\ closed' => (StepsLeft' = 0 <=> Quiet')
         /\ closed => level' = level /\ StepsLeft' <= StepsLeft
         /\ closed /\ (LookupTimeout \/ Connected \/ Beat) => StepsLeft' < StepsLeft]_vars
  BY KeyStep, DownStep
<1> QED BY <1>1, Invariance, RunInvariance, PTL DEF Spec, ClosedRunsDown

-----------------------------------------------------------------------------
(* Refinement: what the owner of a session may rely on. *)

LEMMA LifeStep == IInv /\ [Next]_vars => [Life!Next]_Life!vars
<1> SUFFICES ASSUME IInv, [Next]_vars PROVE [Life!Next]_Life!vars
  OBVIOUS
<1> USE DEF Life!vars
<1>1. CASE StartConnect
  BY <1>1 DEF StartConnect, IInv, LookupInv
<1>2. CASE LookupTimeout
  <2>1. UNCHANGED connected
    BY <1>2 DEF LookupTimeout, Disconnect, IInv, LookupInv, TypeOK
  <2>2. pc = "lookup" /\ pc' = "returned" /\ result = "pending" /\ result' = "false"
    BY <1>2 DEF LookupTimeout, IInv, TypeOK, LookupInv
  <2>3. Life!Fail
    BY <2>1, <2>2 DEF Life!Fail
  <2>4. QED BY <2>3 DEF Life!Next
<1>3. CASE Connected
  <2>1. Life!Establish
    BY <1>3 DEF Connected, IInv, LookupInv, Life!Establish
  <2>2. QED BY <2>1 DEF Life!Next
<1>4. CASE GatewayDone
  <2>1. Life!Succeed
    BY <1>4 DEF GatewayDone, IInv, LookupInv, Life!Succeed
  <2>2. QED BY <2>1 DEF Life!Next
<1>5. ASSUME NEW why \in {"end", "heartbeat", "owner"}, Disconnect(why), UNCHANGED connectVars
      PROVE  [Life!Next]_Life!vars
  <2>1. UNCHANGED <<pc, result>>
    BY <1>5 DEF connectVars
  <2>2. CASE connected
    BY <1>5, <2>1, <2>2 DEF Disconnect, Life!Drop, Life!Next
  <2>3. CASE ~connected
    BY <1>5, <2>1, <2>3 DEF Disconnect, IInv, TypeOK
  <2>4. QED BY <2>2, <2>3
<1>6. CASE RecvEnd \/ Beat \/ OwnerDisconnect
  <2>1. CASE Disconnect("end") \/ Disconnect("heartbeat") \/ Disconnect("owner")
    BY <1>5, <1>6, <2>1 DEF RecvEnd, Beat, OwnerDisconnect
  <2>2. CASE UNCHANGED <<pc, result, connected>>
    BY <2>2
  <2>3. QED
    BY <1>6, <2>1, <2>2 DEF RecvEnd, Beat, OwnerDisconnect, connectVars
<1>7. CASE UNCHANGED <<pc, result, connected>>
  BY <1>7
<1>8. QED
  BY <1>1, <1>2, <1>3, <1>4, <1>6, <1>7
     DEF Next, ReceiveLoop, RecvCamId, RecvLookupAddr, RecvPong, RecvGatewayInfo,
         CipherReturns, LookupAnswered, GatewayAnswered, StationEnds, StationDies, Lose,
         Over, connectVars, vars

\* The session implements SessionLife, on which its owner relies: initial states are
\* initial states of SessionLife, and every step is one of its steps or a stutter.
THEOREM ImplementsLife == Spec => LifeSpec
<1>1. Init => Life!Init
  BY DEF Init, Life!Init
<1>2. IInv /\ [Next]_vars => [Life!Next]_Life!vars
  BY LifeStep
<1>3. QED BY <1>1, <1>2, Invariance, PTL DEF Spec, LifeSpec, Life!Spec
=============================================================================
