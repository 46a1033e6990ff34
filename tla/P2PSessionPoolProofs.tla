------------------------ MODULE P2PSessionPoolProofs ------------------------
(***************************************************************************)
(* Proofs about P2PSessionPool, for every set of stations, of tasks and of *)
(* sessions.  IInv is inductive; there is one lemma per action, and one    *)
(* about the callback of a session, which three actions run.               *)
(***************************************************************************)
EXTENDS P2PSessionPool, TLAPS

LEMMA Numbers == NoSession \notin Sessions
  BY DEF NoSession, Sessions

LEMMA NoNobody == NoGetter \notin Getters /\ wants \in [Getters -> Stations]
  BY PoolAssumption

Slot == Sessions \cup {NoSession}

\* A getter leaves the lock with what the table has or with nothing, or makes a
\* session while no live one is in the table.
LEMMA InsideEffect ==
  ASSUME TypeOK, NEW g \in Getters, Inside(g)
  PROVE  \/ /\ pc' = [pc EXCEPT ![g] = "idle"]
            /\ UNCHANGED lock
            /\ \E s \in {NoSession, table[wants[g]]} : held' = [held EXCEPT ![g] = s]
         \/ /\ table[wants[g]] # NoSession => ~connected[table[wants[g]]]
            /\ pc' = [pc EXCEPT ![g] = "dsk"]
            /\ lock' = [lock EXCEPT ![wants[g]] = g]
            /\ UNCHANGED held
  BY DEF Inside

\* What a session's disconnect callback does to the tables, whoever owns it: an entry
\* it removes is the session's own, not live, or counted as evicted.
LEMMA CallbackEffect ==
  ASSUME TypeOK, NEW s \in Sessions, maker[s] \in Getters,
         NEW tab \in [Stations -> Slot], NEW hld \in [Getters -> Slot],
         Callback(s, tab, hld)
  PROVE  /\ table' \in [Stations -> Slot] /\ held' \in [Getters -> Slot]
         /\ evicted' \subseteq Sessions /\ evicted \subseteq evicted'
         /\ \A st \in Stations :
              \/ table'[st] = tab[st]
              \/ /\ st = of(s) /\ table'[st] = NoSession
                 /\ tab[st] \in {NoSession, s} \/ ~connected[tab[st]] \/ tab[st] \in evicted'
         /\ \A g \in Getters : held'[g] \in {NoSession, hld[g]}
<1> USE Numbers, NoNobody DEF TypeOK, Slot, of
<1>1. CASE hook[s] = NoGetter
  <2>1. table' = [tab EXCEPT ![of(s)] = NoSession] /\ held' = hld
    BY <1>1 DEF Callback
  <2>2. evicted' = evicted \cup {t \in Sessions \ {s} : tab[of(s)] = t /\ connected[t]}
    BY <1>1 DEF Callback
  <2>3. tab[of(s)] \in {NoSession, s} \/ ~connected[tab[of(s)]] \/ tab[of(s)] \in evicted'
    BY <2>2
  <2>4. table' \in [Stations -> Slot] /\ held' \in [Getters -> Slot]
        /\ evicted' \subseteq Sessions /\ evicted \subseteq evicted'
    BY <2>1, <2>2
  <2>5. \A st \in Stations : st # of(s) => table'[st] = tab[st]
    BY <2>1
  <2>6. table'[of(s)] = NoSession
    BY <2>1
  <2>7. QED BY <2>1, <2>3, <2>4, <2>5, <2>6
<1>2. CASE hook[s] # NoGetter
  BY <1>2 DEF Callback
<1>3. QED BY <1>1, <1>2

LEMMA RefusedPreserves ==
  ASSUME IInv, NEW g \in Getters, Refused(g)
  PROVE  IInv'
<1> USE Numbers, NoNobody DEF IInv, TypeOK, getterVars, sessionVars, of
<1>1. TypeOK'
  BY DEF Refused
<1>2. HandedOutInv'
  BY DEF Refused, HandedOutInv
<1>3. LockMeansMaking' /\ MakingInv' /\ FateInv' /\ LockedInv' /\ LateInv'
  BY DEF Refused, LockMeansMaking, MakingInv, FateInv, LockedInv, LateInv
<1>4. LiveIsInTable' /\ ShutdownDisconnects'
  BY DEF Refused, LiveIsInTable, ShutdownDisconnects
<1>5. QED BY <1>1, <1>2, <1>3, <1>4

\* Enter and Wake, which differ in the queue only.
LEMMA InsidePreserves ==
  ASSUME IInv, NEW g \in Getters, Inside(g),
         pc[g] \in {"idle", "queued"}, pc[g] = "idle" => ~shuttingDown,
         lock[wants[g]] = NoGetter, queue' \in [Stations -> Seq(Getters)],
         UNCHANGED <<shuttingDown, table, making, sessionVars, maker, evicted, late>>
  PROVE  IInv'
<1> USE Numbers, NoNobody DEF IInv, TypeOK, sessionVars, of
<1>1. CASE /\ pc' = [pc EXCEPT ![g] = "idle"]
           /\ UNCHANGED lock
           /\ \E s \in {NoSession, table[wants[g]]} : held' = [held EXCEPT ![g] = s]
  <2>0. PICK s \in {NoSession, table[wants[g]]} : held' = [held EXCEPT ![g] = s]
    BY <1>1
  <2>a. s \in Sessions => outcome[s] = "true"
    BY <2>0
  <2>1. TypeOK'
    BY <1>1, <2>0
  <2>2. LockMeansMaking'
    BY <1>1 DEF LockMeansMaking
  <2>3. MakingInv' /\ FateInv' /\ LockedInv' /\ LateInv'
    BY <1>1 DEF MakingInv, FateInv, LockedInv, LateInv
  <2>4. HandedOutInv'
    BY <2>0, <2>a DEF HandedOutInv
  <2>5. LiveIsInTable' /\ ShutdownDisconnects'
    BY DEF LiveIsInTable, ShutdownDisconnects
  <2>6. QED BY <2>1, <2>2, <2>3, <2>4, <2>5
<1>2. CASE /\ table[wants[g]] # NoSession => ~connected[table[wants[g]]]
           /\ pc' = [pc EXCEPT ![g] = "dsk"]
           /\ lock' = [lock EXCEPT ![wants[g]] = g]
           /\ UNCHANGED held
  <2>1. TypeOK'
    BY <1>2
  <2>2. LockMeansMaking'
    BY <1>2 DEF LockMeansMaking
  <2>3. MakingInv' /\ FateInv' /\ LockedInv' /\ LateInv'
    BY <1>2 DEF MakingInv, FateInv, LockedInv, LateInv
  <2>4. HandedOutInv'
    BY <1>2 DEF HandedOutInv
  <2>5. LiveIsInTable' /\ ShutdownDisconnects'
    BY DEF LiveIsInTable, ShutdownDisconnects
  <2>6. QED BY <2>1, <2>2, <2>3, <2>4, <2>5
<1>3. QED BY <1>1, <1>2, InsideEffect

LEMMA EnterPreserves ==
  ASSUME IInv, NEW g \in Getters, Enter(g)
  PROVE  IInv'
  BY InsidePreserves DEF Enter, Busy, IInv, TypeOK

LEMMA WaitPreserves ==
  ASSUME IInv, NEW g \in Getters, Wait(g)
  PROVE  IInv'
<1> USE Numbers, NoNobody DEF IInv, TypeOK, getterVars, sessionVars, of
<1>1. TypeOK'
  <2>1. queue' \in [Stations -> Seq(Getters)]
    <3>1. Append(queue[wants[g]], g) \in Seq(Getters)
      OBVIOUS
    <3>2. QED BY <3>1 DEF Wait
  <2>2. pc' \in [Getters -> {"idle", "queued", "dsk", "connecting"}]
    BY DEF Wait
  <2>3. QED BY <2>1, <2>2 DEF Wait
<1>2. LockMeansMaking'
  BY DEF Wait, LockMeansMaking
<1>3. MakingInv'
  BY DEF Wait, MakingInv, FateInv
<1>4. FateInv'
  BY DEF Wait, FateInv, MakingInv
<1>5. HandedOutInv'
  BY DEF Wait, HandedOutInv, MakingInv, FateInv
<1>6. LockedInv'
  BY DEF Wait, LockedInv, LockMeansMaking, MakingInv, FateInv, HandedOutInv
<1>7. LateInv'
  BY DEF Wait, LateInv
<1>8. LiveIsInTable'
  BY DEF Wait, LiveIsInTable, LockMeansMaking, MakingInv, FateInv, HandedOutInv, LockedInv
<1>9. ShutdownDisconnects'
  BY DEF Wait, ShutdownDisconnects, MakingInv, FateInv, HandedOutInv, LateInv,
       LiveIsInTable
<1>10. QED BY <1>1, <1>2, <1>3, <1>4, <1>5, <1>6, <1>7, <1>8, <1>9

LEMMA WakePreserves ==
  ASSUME IInv, NEW g \in Getters, Wake(g)
  PROVE  IInv'
<1>1. queue' \in [Stations -> Seq(Getters)]
  BY NoNobody DEF Wake, IInv, TypeOK
<1>2. QED BY <1>1, InsidePreserves DEF Wake

LEMMA DskReturnsPreserves ==
  ASSUME IInv, NEW g \in Getters, DskReturns(g)
  PROVE  IInv'
<1> USE Numbers, NoNobody DEF IInv, TypeOK, of
<1>1. PICK s \in Sessions :
        /\ maker[s] = NoGetter
        /\ making' = [making EXCEPT ![g] = s]
        /\ maker' = [maker EXCEPT ![s] = g]
  BY DEF DskReturns, Fresh
<1>2. /\ pc[g] = "dsk" /\ pc' = [pc EXCEPT ![g] = "connecting"]
      /\ UNCHANGED <<shuttingDown, table, lock, queue, held, outcome, established, connected,
                     hook, evicted, late>>
  BY DEF DskReturns, sessionVars
<1>3. /\ outcome[s] = "pending" /\ ~established[s] /\ ~connected[s] /\ making[g] = NoSession
      /\ \A r \in Sessions : outcome[r] = "true" => r # s /\ maker'[r] = maker[r]
  BY <1>1, <1>2 DEF FateInv, MakingInv
<1>4. TypeOK'
  BY <1>1, <1>2
<1>5. LockMeansMaking'
  BY <1>2 DEF LockMeansMaking
<1>6. MakingInv'
  <2> SUFFICES ASSUME NEW h \in Getters
               PROVE  /\ pc'[h] = "connecting" <=> making'[h] # NoSession
                      /\ making'[h] # NoSession =>
                           maker'[making'[h]] = h /\ outcome[making'[h]] = "pending"
    BY <1>2 DEF MakingInv
  <2>1. CASE h = g
    BY <1>1, <1>2, <1>3, <2>1
  <2>2. CASE h # g
    BY <1>1, <1>2, <2>2 DEF MakingInv
  <2>3. QED BY <2>1, <2>2
<1>7. FateInv'
  <2> SUFFICES ASSUME NEW r \in Sessions
               PROVE  /\ maker'[r] = NoGetter => outcome[r] = "pending" /\ ~established[r]
                      /\ maker'[r] # NoGetter /\ outcome[r] = "pending"
                           => making'[maker'[r]] = r
                      /\ connected[r] => established[r]
                      /\ established[r] => outcome[r] # "false"
                      /\ outcome[r] = "true" => established[r]
    BY <1>2 DEF FateInv
  <2>1. CASE r = s
    BY <1>1, <1>3, <2>1
  <2>2. CASE r # s
    <3>1. maker'[r] = maker[r]
      BY <1>1, <2>2
    <3>2. maker[r] # NoGetter /\ outcome[r] = "pending" => maker[r] # g
      BY <1>3 DEF FateInv
    <3>3. QED BY <1>1, <3>1, <3>2 DEF FateInv
  <2>3. QED BY <2>1, <2>2
<1>8. HandedOutInv' /\ LiveIsInTable'
  BY <1>2, <1>3 DEF HandedOutInv, LiveIsInTable
<1>9. LockedInv' /\ LateInv'
  BY <1>2 DEF LockedInv, LateInv
<1>10. ShutdownDisconnects'
  BY <1>1, <1>2, <1>3 DEF ShutdownDisconnects
<1>11. QED BY <1>4, <1>5, <1>6, <1>7, <1>8, <1>9, <1>10

LEMMA CreateRaisesPreserves ==
  ASSUME IInv, NEW g \in Getters, CreateRaises(g)
  PROVE  IInv'
<1> USE Numbers, NoNobody DEF IInv, TypeOK, getterVars, sessionVars, of
<1>1. TypeOK'
  BY DEF CreateRaises, Release
<1>2. LockMeansMaking'
  BY DEF CreateRaises, Release, LockMeansMaking
<1>3. MakingInv'
  BY DEF CreateRaises, Release, MakingInv, FateInv
<1>4. FateInv'
  BY DEF CreateRaises, Release, FateInv, MakingInv
<1>5. HandedOutInv'
  BY DEF CreateRaises, Release, HandedOutInv, MakingInv, FateInv
<1>6. LockedInv'
  BY DEF CreateRaises, Release, LockedInv, LockMeansMaking, MakingInv, FateInv,
       HandedOutInv
<1>7. LateInv'
  BY DEF CreateRaises, Release, LateInv
<1>8. LiveIsInTable'
  BY DEF CreateRaises, Release, LiveIsInTable, LockMeansMaking, MakingInv, FateInv,
       HandedOutInv, LockedInv
<1>9. ShutdownDisconnects'
  BY DEF CreateRaises, Release, ShutdownDisconnects, MakingInv, FateInv, HandedOutInv,
       LateInv, LiveIsInTable
<1>10. QED BY <1>1, <1>2, <1>3, <1>4, <1>5, <1>6, <1>7, <1>8, <1>9

LEMMA ConnectFailsPreserves ==
  ASSUME IInv, NEW g \in Getters, ConnectFails(g)
  PROVE  IInv'
<1> USE Numbers, NoNobody DEF IInv, TypeOK, getterVars, sessionVars, of
<1>1. TypeOK'
  <2> DEFINE s == making[g]
  <2>1. s \in Sessions /\ maker[s] = g /\ outcome[s] = "pending"
    BY DEF ConnectFails, MakingInv
  <2>2. /\ outcome' = [outcome EXCEPT ![s] = "false"]
        /\ table' = [table EXCEPT ![wants[g]] = NoSession]
    BY <2>1 DEF ConnectFails
  <2>3. table' \in [Stations -> {t \in Sessions : outcome'[t] = "true"} \cup {NoSession}]
    BY <2>1, <2>2
  <2>4. outcome' \in [Sessions -> {"pending", "true", "false"}]
    BY <2>2
  <2>5. /\ pc' \in [Getters -> {"idle", "queued", "dsk", "connecting"}]
        /\ lock' \in [Stations -> Getters \cup {NoGetter}]
        /\ making' \in [Getters -> Sessions \cup {NoSession}]
        /\ held' \in [Getters -> Sessions \cup {NoSession}]
    BY DEF ConnectFails, Release
  <2>6. QED BY <2>3, <2>4, <2>5 DEF ConnectFails, Release
<1>2. LockMeansMaking'
  BY DEF ConnectFails, Release, LockMeansMaking
<1>3. MakingInv'
  BY DEF ConnectFails, Release, MakingInv, FateInv
<1>4. FateInv'
  BY DEF ConnectFails, Release, FateInv, MakingInv
<1>5. HandedOutInv'
  BY DEF ConnectFails, Release, HandedOutInv, MakingInv, FateInv
<1>6. LockedInv'
  BY DEF ConnectFails, Release, LockedInv, LockMeansMaking, MakingInv, FateInv,
       HandedOutInv
<1>7. LateInv'
  BY DEF ConnectFails, Release, LateInv
<1>8. LiveIsInTable'
  BY DEF ConnectFails, Release, LiveIsInTable, LockMeansMaking, MakingInv, FateInv,
       HandedOutInv, LockedInv
<1>9. ShutdownDisconnects'
  BY DEF ConnectFails, Release, ShutdownDisconnects, MakingInv, FateInv, HandedOutInv,
       LateInv, LiveIsInTable
<1>10. QED BY <1>1, <1>2, <1>3, <1>4, <1>5, <1>6, <1>7, <1>8, <1>9

LEMMA ConnectSucceedsPreserves ==
  ASSUME IInv, NEW g \in Getters, ConnectSucceeds(g)
  PROVE  IInv'
<1> USE Numbers, NoNobody DEF IInv, TypeOK, getterVars, sessionVars, of
<1>1. TypeOK'
  BY DEF ConnectSucceeds, Release
<1>2. LockMeansMaking'
  BY DEF ConnectSucceeds, Release, LockMeansMaking
<1>3. MakingInv'
  BY DEF ConnectSucceeds, Release, MakingInv, FateInv
<1>4. FateInv'
  BY DEF ConnectSucceeds, Release, FateInv, MakingInv
<1>5. HandedOutInv'
  BY DEF ConnectSucceeds, Release, HandedOutInv, MakingInv, FateInv
<1>6. LockedInv'
  BY DEF ConnectSucceeds, Release, LockedInv, LockMeansMaking, MakingInv, FateInv,
       HandedOutInv
<1>7. LateInv'
  BY DEF ConnectSucceeds, Release, LateInv
<1>8. LiveIsInTable'
  <2> DEFINE s == making[g]
  <2>1. s \in Sessions /\ maker[s] = g /\ lock[wants[g]] = g
    BY DEF ConnectSucceeds, MakingInv, LockMeansMaking
  <2>2. SUFFICES ASSUME NEW t \in Sessions, outcome'[t] = "true", connected[t],
                        t \notin evicted
                 PROVE  table'[of(t)] = t
    BY DEF ConnectSucceeds, LiveIsInTable
  <2>3. table' = [table EXCEPT ![wants[g]] = s]
    BY <2>1 DEF ConnectSucceeds
  <2>4. CASE t = s
    BY <2>1, <2>3, <2>4
  <2>5. CASE t # s
    <3>1. table[of(t)] = t /\ of(t) \in Stations
      BY <2>2, <2>5 DEF ConnectSucceeds, LiveIsInTable, FateInv
    <3>2. lock[of(t)] = NoGetter
      BY <2>2, <3>1 DEF LockedInv
    <3>3. of(t) # wants[g]
      BY <2>1, <3>2
    <3>4. QED BY <2>3, <3>1, <3>3
  <2>6. QED BY <2>4, <2>5
<1>9. ShutdownDisconnects'
  BY DEF ConnectSucceeds, Release, ShutdownDisconnects, MakingInv, FateInv,
       HandedOutInv, LateInv, LiveIsInTable
<1>10. QED BY <1>1, <1>2, <1>3, <1>4, <1>5, <1>6, <1>7, <1>8, <1>9

LEMMA HolderDisconnectsPreserves ==
  ASSUME IInv, NEW g \in Getters, HolderDisconnects(g)
  PROVE  IInv'
<1> USE Numbers, NoNobody DEF IInv, TypeOK, getterVars, sessionVars, of
<1> DEFINE s == held[g]
<1> DEFINE tab == table
           hld == [held EXCEPT ![g] = NoSession]
<1>a. s \in Sessions /\ maker[s] \in Getters /\ Callback(s, tab, hld)
  BY DEF HolderDisconnects, Connecting, MakingInv, FateInv, HandedOutInv
<1>b. tab \in [Stations -> Slot] /\ hld \in [Getters -> Slot]
  BY DEF Slot
<1>c. /\ table' \in [Stations -> Slot] /\ held' \in [Getters -> Slot]
      /\ evicted' \subseteq Sessions /\ evicted \subseteq evicted'
      /\ \A i \in Stations :
           \/ table'[i] = tab[i]
           \/ /\ i = of(s) /\ table'[i] = NoSession
              /\ tab[i] \in {NoSession, s} \/ ~connected[tab[i]] \/ tab[i] \in evicted'
      /\ \A i \in Getters : held'[i] \in {NoSession, hld[i]}
  BY <1>a, <1>b, CallbackEffect
<1>d. connected' = [connected EXCEPT ![s] = FALSE]
  BY DEF HolderDisconnects
<1>1. TypeOK'
  BY <1>a, <1>c, <1>d DEF HolderDisconnects
<1>2. LockMeansMaking'
  BY <1>a, <1>c, <1>d DEF HolderDisconnects, LockMeansMaking
<1>3. MakingInv'
  BY <1>a, <1>c, <1>d DEF HolderDisconnects, MakingInv, FateInv
<1>4. FateInv'
  BY <1>a, <1>c, <1>d DEF HolderDisconnects, FateInv, MakingInv
<1>5. HandedOutInv'
  BY <1>a, <1>c, <1>d DEF HolderDisconnects, HandedOutInv, MakingInv, FateInv
<1>6. LockedInv'
  BY <1>a, <1>c, <1>d DEF HolderDisconnects, LockedInv, LockMeansMaking, MakingInv,
       FateInv, HandedOutInv
<1>7. LateInv'
  BY <1>a, <1>c, <1>d DEF HolderDisconnects, LateInv
<1>8. LiveIsInTable'
  BY <1>a, <1>c, <1>d DEF HolderDisconnects, LiveIsInTable, LockMeansMaking, MakingInv,
       FateInv, HandedOutInv, LockedInv
<1>9. ShutdownDisconnects'
  BY <1>a, <1>c, <1>d DEF HolderDisconnects, ShutdownDisconnects, MakingInv, FateInv,
       HandedOutInv, LateInv, LiveIsInTable
<1>10. QED BY <1>1, <1>2, <1>3, <1>4, <1>5, <1>6, <1>7, <1>8, <1>9

LEMMA CameraTakesCallbackPreserves ==
  ASSUME IInv, NEW g \in Getters, CameraTakesCallback(g)
  PROVE  IInv'
<1> USE Numbers, NoNobody DEF IInv, TypeOK, getterVars, sessionVars, of
<1>1. TypeOK'
  BY DEF CameraTakesCallback
<1>2. LockMeansMaking' /\ MakingInv' /\ FateInv' /\ HandedOutInv' /\ LockedInv' /\ LateInv'
  BY DEF CameraTakesCallback, LockMeansMaking, MakingInv, FateInv, HandedOutInv,
       LockedInv,
         LateInv
<1>3. LiveIsInTable' /\ ShutdownDisconnects'
  BY DEF CameraTakesCallback, LiveIsInTable, ShutdownDisconnects
<1>4. QED BY <1>1, <1>2, <1>3

LEMMA EstablishPreserves ==
  ASSUME IInv, NEW s \in Sessions, Establish(s)
  PROVE  IInv'
<1> USE Numbers, NoNobody DEF IInv, TypeOK, of
<1>1. /\ established' = [established EXCEPT ![s] = TRUE]
      /\ connected' = [connected EXCEPT ![s] = TRUE]
      /\ UNCHANGED <<shuttingDown, table, pc, making, lock, queue, held, outcome, hook, maker,
                     evicted, late>>
  BY DEF Establish, getterVars
<1>2. PICK g \in Getters : making[g] = s
  BY DEF Establish, Connecting
<1>3. maker[s] = g /\ outcome[s] = "pending" /\ pc[g] = "connecting"
  BY <1>2 DEF MakingInv
<1>4. TypeOK'
  BY <1>1
<1>5. LockMeansMaking' /\ MakingInv' /\ HandedOutInv' /\ LateInv'
  BY <1>1 DEF LockMeansMaking, MakingInv, HandedOutInv, LateInv
<1>6. FateInv'
  BY <1>1, <1>3 DEF FateInv
<1>7. LockedInv' /\ LiveIsInTable'
  BY <1>1, <1>3 DEF LockedInv, LiveIsInTable
<1>8. ShutdownDisconnects'
  BY <1>1, <1>3 DEF ShutdownDisconnects, LateInv
<1>9. QED BY <1>4, <1>5, <1>6, <1>7, <1>8

LEMMA EndsPreserves ==
  ASSUME IInv, NEW s \in Sessions, Ends(s)
  PROVE  IInv'
<1> USE Numbers, NoNobody DEF IInv, TypeOK, getterVars, sessionVars, of
<1> DEFINE tab == table
           hld == held
<1>a. s \in Sessions /\ maker[s] \in Getters /\ Callback(s, tab, hld)
  <2>1. CASE connected[s]
    BY <2>1 DEF Ends, FateInv
  <2>2. CASE Connecting(s)
    <3>1. PICK g \in Getters : making[g] = s
      BY <2>2 DEF Connecting
    <3>2. maker[s] = g
      BY <3>1 DEF MakingInv
    <3>3. QED BY <3>2 DEF Ends
  <2>3. QED BY <2>1, <2>2 DEF Ends
<1>b. tab \in [Stations -> Slot] /\ hld \in [Getters -> Slot]
  BY DEF Slot
<1>c. /\ table' \in [Stations -> Slot] /\ held' \in [Getters -> Slot]
      /\ evicted' \subseteq Sessions /\ evicted \subseteq evicted'
      /\ \A i \in Stations :
           \/ table'[i] = tab[i]
           \/ /\ i = of(s) /\ table'[i] = NoSession
              /\ tab[i] \in {NoSession, s} \/ ~connected[tab[i]] \/ tab[i] \in evicted'
      /\ \A i \in Getters : held'[i] \in {NoSession, hld[i]}
  BY <1>a, <1>b, CallbackEffect
<1>d. connected' = [connected EXCEPT ![s] = FALSE]
  BY DEF Ends
<1>1. TypeOK'
  BY <1>a, <1>c, <1>d DEF Ends, Connecting
<1>2. LockMeansMaking'
  BY <1>a, <1>c, <1>d DEF Ends, Connecting, LockMeansMaking
<1>3. MakingInv'
  BY <1>a, <1>c, <1>d DEF Ends, Connecting, MakingInv, FateInv
<1>4. FateInv'
  BY <1>a, <1>c, <1>d DEF Ends, Connecting, FateInv, MakingInv
<1>5. HandedOutInv'
  BY <1>a, <1>c, <1>d DEF Ends, Connecting, HandedOutInv, MakingInv, FateInv
<1>6. LockedInv'
  BY <1>a, <1>c, <1>d DEF Ends, Connecting, LockedInv, LockMeansMaking, MakingInv,
       FateInv, HandedOutInv
<1>7. LateInv'
  BY <1>a, <1>c, <1>d DEF Ends, Connecting, LateInv
<1>8. LiveIsInTable'
  BY <1>a, <1>c, <1>d DEF Ends, Connecting, LiveIsInTable, LockMeansMaking, MakingInv,
       FateInv, HandedOutInv, LockedInv
<1>9. ShutdownDisconnects'
  BY <1>a, <1>c, <1>d DEF Ends, Connecting, ShutdownDisconnects, MakingInv, FateInv,
       HandedOutInv, LateInv, LiveIsInTable
<1>10. QED BY <1>1, <1>2, <1>3, <1>4, <1>5, <1>6, <1>7, <1>8, <1>9

LEMMA DisconnectStationPreserves ==
  ASSUME IInv, NEW st \in Stations, DisconnectStation(st)
  PROVE  IInv'
<1> USE Numbers, NoNobody DEF IInv, TypeOK, getterVars, sessionVars, of
<1> DEFINE s == table[st]
<1> DEFINE tab == [table EXCEPT ![st] = NoSession]
           hld == held
<1>a. s \in Sessions /\ maker[s] \in Getters /\ Callback(s, tab, hld)
  BY DEF DisconnectStation, Connecting, MakingInv, FateInv, HandedOutInv
<1>b. tab \in [Stations -> Slot] /\ hld \in [Getters -> Slot]
  BY DEF Slot
<1>c. /\ table' \in [Stations -> Slot] /\ held' \in [Getters -> Slot]
      /\ evicted' \subseteq Sessions /\ evicted \subseteq evicted'
      /\ \A i \in Stations :
           \/ table'[i] = tab[i]
           \/ /\ i = of(s) /\ table'[i] = NoSession
              /\ tab[i] \in {NoSession, s} \/ ~connected[tab[i]] \/ tab[i] \in evicted'
      /\ \A i \in Getters : held'[i] \in {NoSession, hld[i]}
  BY <1>a, <1>b, CallbackEffect
<1>d. connected' = [connected EXCEPT ![s] = FALSE]
  BY DEF DisconnectStation
<1>1. TypeOK'
  BY <1>a, <1>c, <1>d DEF DisconnectStation
<1>2. LockMeansMaking'
  BY <1>a, <1>c, <1>d DEF DisconnectStation, LockMeansMaking
<1>3. MakingInv'
  BY <1>a, <1>c, <1>d DEF DisconnectStation, MakingInv, FateInv
<1>4. FateInv'
  BY <1>a, <1>c, <1>d DEF DisconnectStation, FateInv, MakingInv
<1>5. HandedOutInv'
  BY <1>a, <1>c, <1>d DEF DisconnectStation, HandedOutInv, MakingInv, FateInv
<1>6. LockedInv'
  BY <1>a, <1>c, <1>d DEF DisconnectStation, LockedInv, LockMeansMaking, MakingInv,
       FateInv, HandedOutInv
<1>7. LateInv'
  BY <1>a, <1>c, <1>d DEF DisconnectStation, LateInv
<1>8. LiveIsInTable'
  <2>1. of(s) = st
    BY DEF DisconnectStation, HandedOutInv
  <2>2. SUFFICES ASSUME NEW t \in Sessions, outcome'[t] = "true", connected'[t],
                        t \notin evicted'
                 PROVE  table'[of(t)] = t
    BY DEF DisconnectStation, LiveIsInTable
  <2>3. t # s /\ table[of(t)] = t /\ of(t) \in Stations
    BY <1>c, <1>d, <2>2 DEF DisconnectStation, LiveIsInTable, FateInv
  <2>4. QED BY <1>c, <2>1, <2>3
<1>9. ShutdownDisconnects'
  BY <1>a, <1>c, <1>d DEF DisconnectStation, ShutdownDisconnects, MakingInv, FateInv,
       HandedOutInv, LateInv, LiveIsInTable
<1>10. QED BY <1>1, <1>2, <1>3, <1>4, <1>5, <1>6, <1>7, <1>8, <1>9

LEMMA ShutdownPreserves ==
  ASSUME IInv, Shutdown
  PROVE  IInv'
<1> USE Numbers, NoNobody DEF IInv, TypeOK, getterVars, sessionVars, of
<1>1. TypeOK'
  BY DEF Shutdown
<1>2. LockMeansMaking'
  BY DEF Shutdown, LockMeansMaking
<1>3. MakingInv'
  BY DEF Shutdown, MakingInv, FateInv
<1>4. FateInv'
  BY DEF Shutdown, FateInv, MakingInv
<1>5. HandedOutInv'
  BY DEF Shutdown, HandedOutInv, MakingInv, FateInv
<1>6. LockedInv'
  BY DEF Shutdown, LockedInv, LockMeansMaking, MakingInv, FateInv, HandedOutInv
<1>7. LateInv'
  BY DEF Shutdown, LateInv
<1>8. LiveIsInTable'
  BY DEF Shutdown, LiveIsInTable, LockMeansMaking, MakingInv, FateInv, HandedOutInv,
       LockedInv
<1>9. ShutdownDisconnects'
  BY DEF Shutdown, ShutdownDisconnects, MakingInv, FateInv, HandedOutInv, LateInv,
       LiveIsInTable
<1>10. QED BY <1>1, <1>2, <1>3, <1>4, <1>5, <1>6, <1>7, <1>8, <1>9

-----------------------------------------------------------------------------
LEMMA InvInit == Init => IInv
<1> SUFFICES ASSUME Init PROVE IInv
  OBVIOUS
<1> USE Numbers, NoNobody
<1>1. TypeOK
  <2>1. queue \in [Stations -> Seq(Getters)]
    BY DEF Init
  <2>2. table \in [Stations -> {s \in Sessions : outcome[s] = "true"} \cup {NoSession}]
    BY DEF Init
  <2>3. QED BY <2>1, <2>2, Zenon DEF Init, TypeOK
<1>2. LockMeansMaking /\ MakingInv /\ FateInv
  BY DEF Init, LockMeansMaking, MakingInv, FateInv
<1>3. HandedOutInv /\ LockedInv /\ LateInv /\ LiveIsInTable /\ ShutdownDisconnects
  BY DEF Init, HandedOutInv, LockedInv, LateInv, LiveIsInTable, ShutdownDisconnects
<1>4. QED BY <1>1, <1>2, <1>3 DEF IInv

LEMMA InvStep == IInv /\ [Next]_vars => IInv'
<1> SUFFICES ASSUME IInv, [Next]_vars PROVE IInv'
  OBVIOUS
<1>1. CASE Next
  BY <1>1, RefusedPreserves, EnterPreserves, WaitPreserves, WakePreserves,
     DskReturnsPreserves, CreateRaisesPreserves, ConnectFailsPreserves,
     ConnectSucceedsPreserves, HolderDisconnectsPreserves, CameraTakesCallbackPreserves,
     EstablishPreserves, EndsPreserves, DisconnectStationPreserves, ShutdownPreserves
     DEF Next
<1>2. CASE UNCHANGED vars
  <2>1. TypeOK' /\ LockMeansMaking'
    BY <1>2 DEF vars, getterVars, sessionVars, IInv, TypeOK, LockMeansMaking
  <2>2. MakingInv' /\ FateInv' /\ HandedOutInv' /\ LockedInv' /\ LateInv'
    BY <1>2 DEF vars, getterVars, sessionVars, IInv, MakingInv, FateInv, HandedOutInv,
                LockedInv, LateInv, of
  <2>3. LiveIsInTable' /\ ShutdownDisconnects'
    BY <1>2 DEF vars, getterVars, sessionVars, IInv, LiveIsInTable, ShutdownDisconnects,
         of
  <2>4. QED BY <2>1, <2>2, <2>3 DEF IInv
<1>3. QED BY <1>1, <1>2

LEMMA Invariance == Spec => []IInv
  BY InvInit, InvStep, PTL DEF Spec

\* Every variable keeps its type, and the table holds only sessions that connect() has
\* returned.
THEOREM TypeCorrect == Spec => []TypeOK
<1>1. IInv => TypeOK
  BY DEF IInv
<1>2. QED BY <1>1, Invariance, PTL

\* No way out of get_session leaves a station's lock behind.
THEOREM LocksReleased == Spec => []LockMeansMaking
<1>1. IInv => LockMeansMaking
  BY DEF IInv
<1>2. QED BY <1>1, Invariance, PTL

\* A live session is the one the pool hands out, unless it was evicted.
THEOREM LiveInTable == Spec => []LiveIsInTable
<1>1. IInv => LiveIsInTable
  BY DEF IInv
<1>2. QED BY <1>1, Invariance, PTL

\* shutdown() leaves nothing connected but evicted sessions and those of late getters.
THEOREM ShutdownComplete == Spec => []ShutdownDisconnects
<1>1. IInv => ShutdownDisconnects
  BY DEF IInv
<1>2. QED BY <1>1, Invariance, PTL

-----------------------------------------------------------------------------
\* A connected session that connect() has not returned yet: its maker has the lock, so
\* the table has no live session of the station.
LEMMA PendingHasLock ==
  ASSUME IInv, NEW s \in Sessions, connected[s], outcome[s] # "true"
  PROVE  /\ maker[s] \in Getters /\ making[maker[s]] = s /\ lock[of(s)] = maker[s]
         /\ of(s) \in Stations
         /\ table[of(s)] # NoSession => ~connected[table[of(s)]]
<1> USE Numbers, NoNobody DEF IInv, TypeOK, of
<1>1. maker[s] \in Getters /\ making[maker[s]] = s
  BY DEF FateInv
<1>2. lock[of(s)] = maker[s] /\ of(s) \in Stations
  BY <1>1 DEF MakingInv, LockMeansMaking
<1>3. QED BY <1>1, <1>2 DEF LockedInv

LEMMA InvOneSession == IInv => OneSessionUnlessEvicted
<1> SUFFICES ASSUME IInv, NEW s \in Sessions \ evicted, NEW t \in Sessions \ evicted,
                    connected[s], connected[t], of(s) = of(t)
             PROVE  s = t
  BY DEF OneSessionUnlessEvicted
<1>1. \A r \in {s, t} : outcome[r] = "true" => table[of(r)] = r
  BY DEF IInv, LiveIsInTable
<1>2. CASE outcome[s] = "true" /\ outcome[t] = "true"
  BY <1>1, <1>2
<1>3. CASE outcome[s] = "true" /\ outcome[t] # "true"
  BY <1>1, <1>3, PendingHasLock, Numbers
<1>4. CASE outcome[s] # "true" /\ outcome[t] = "true"
  BY <1>1, <1>4, PendingHasLock, Numbers
<1>5. CASE outcome[s] # "true" /\ outcome[t] # "true"
  <2>1. maker[s] = maker[t]
    BY <1>5, PendingHasLock
  <2>2. QED BY <1>5, <2>1, PendingHasLock
<1>6. QED BY <1>2, <1>3, <1>4, <1>5

\* At most one session of a station is connected, of those not evicted: the lock, the
\* table and the callbacks together keep the pool's promise up to that point.
THEOREM OneSession == Spec => []OneSessionUnlessEvicted
  BY Invariance, InvOneSession, PTL

=============================================================================
