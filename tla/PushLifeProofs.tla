----------------------------- MODULE PushLifeProofs ----------------------------
(***************************************************************************)
(* Theorems about PushLife, and so about the push client inside it, for    *)
(* all values of the constants: any number of messages, connections and    *)
(* failures, and any length of the list of ids.                            *)
(***************************************************************************)
EXTENDS PushLife, SequenceTheorems, TLAPS

-----------------------------------------------------------------------------
(* Sequences. *)

LEMMA AppendSet ==
  ASSUME NEW S, NEW s \in Seq(S), NEW x \in S
  PROVE  Append(s, x) \in Seq(S) /\ ToSet(Append(s, x)) = ToSet(s) \cup {x}
  BY AppendProperties, LenProperties DEF ToSet

LEMMA TailSet ==
  ASSUME NEW S, NEW s \in Seq(S), s # <<>>
  PROVE  /\ Head(s) \in S /\ Head(s) \in ToSet(s)
         /\ Tail(s) \in Seq(S) /\ Len(Tail(s)) = Len(s) - 1
         /\ ToSet(Tail(s)) \subseteq ToSet(s)
  BY HeadTailProperties, LenProperties, EmptySeq DEF ToSet

Distinct(s) == \A i, j \in 1..Len(s) : s[i] = s[j] => i = j

LEMMA AppendDistinct ==
  ASSUME NEW S, NEW s \in Seq(S), NEW x \in S, Distinct(s), x \notin ToSet(s)
  PROVE  Distinct(Append(s, x))
<1> SUFFICES ASSUME NEW i \in 1..Len(Append(s, x)), NEW j \in 1..Len(Append(s, x)),
                    Append(s, x)[i] = Append(s, x)[j]
             PROVE  i = j
  BY DEF Distinct
<1>1. /\ Len(Append(s, x)) = Len(s) + 1 /\ Len(s) \in Nat
      /\ Append(s, x)[Len(s) + 1] = x
      /\ \A k \in 1..Len(s) : Append(s, x)[k] = s[k] /\ s[k] # x
  BY AppendProperties, LenProperties DEF ToSet
<1> QED BY <1>1 DEF Distinct

LEMMA TailDistinct ==
  ASSUME NEW S, NEW s \in Seq(S), s # <<>>, Distinct(s)
  PROVE  Distinct(Tail(s)) /\ Head(s) \notin ToSet(Tail(s))
<1>1. /\ Len(s) \in Nat \ {0} /\ Len(Tail(s)) = Len(s) - 1 /\ Head(s) = s[1]
      /\ \A k \in 1..Len(Tail(s)) : Tail(s)[k] = s[k + 1]
      /\ DOMAIN Tail(s) = 1..Len(Tail(s))
  BY HeadTailProperties, LenProperties, EmptySeq
<1>2. Distinct(Tail(s))
  BY <1>1 DEF Distinct
<1>3. Head(s) \notin ToSet(Tail(s))
  BY <1>1 DEF Distinct, ToSet
<1> QED BY <1>2, <1>3

-----------------------------------------------------------------------------
(* The push client. *)

\* The ids that exist, wherever they are; a connection carries a message once.
Known ==
  /\ ToSet(ids) \subseteq 1..sent /\ stored \subseteq 1..sent /\ pushed \subseteq 1..sent
  /\ ToSet(transit) \subseteq pushed
  /\ Distinct(transit)

\* What the list names has been handed to the handler; what has been handed over is
\* in the list, or has been forgotten.
Recorded ==
  /\ \A m \in ToSet(ids) : handled[m] > 0 \/ m \in raised
  /\ \A m \in Messages : handled[m] > 0 \/ m \in raised => m \in ToSet(ids) \cup forgotten

\* What this connection still carries, or will, is not in the list: the login has
\* named the whole list.
Fresh ==
  /\ \A m \in ToSet(transit) : m \notin ToSet(ids) \/ m \in forgotten
  /\ run = "answered" \/ recv = "running" =>
       \A m \in stored \ pushed : m \notin ToSet(ids) \/ m \in forgotten

PushInv == PushTypeOK /\ Known /\ Recorded /\ Fresh /\ NotLost /\ AtMostOnce

\* A step that moves tasks and leaves messages alone.
LEMMA PushQuiet ==
  ASSUME PushInv, UNCHANGED <<ids, serverVars, historyVars>>, failures' \in Nat,
         run' \in {"none", "receiving", "backoff", "ended"} \cup Connecting,
         cancelled' \in BOOLEAN, recv' \in {"none", "running", "cancelled", "done"},
         run' = "answered" \/ recv' = "running" => run = "answered" \/ recv = "running"
  PROVE  PushInv'
<1>1. PushTypeOK'
  BY DEF PushInv, PushTypeOK, serverVars, historyVars
<1>2. Known' /\ Recorded' /\ NotLost' /\ AtMostOnce'
  BY DEF PushInv, Known, Recorded, NotLost, AtMostOnce, serverVars, historyVars
<1>3. Fresh'
  BY DEF PushInv, Fresh, serverVars, historyVars
<1> QED BY <1>1, <1>2, <1>3 DEF PushInv

LEMMA PushMoves ==
  ASSUME PushInv,
         \/ Opened \/ Connected \/ ConnectFails \/ LinkLost \/ ReceiveCancelled
         \/ ReceiveDone \/ BackoffOver \/ RunCancelled
  PROVE  PushInv'
<1> USE DEF PushInv, PushTypeOK, Goes, Fails, Connecting
<1>1. CASE Opened \/ ReceiveDone \/ BackoffOver \/ RunCancelled
  BY <1>1, PushQuiet DEF Opened, ReceiveDone, BackoffOver, RunCancelled
<1>2. CASE Connected
  BY <1>2, PushQuiet DEF Connected
<1>3. CASE ConnectFails
  BY <1>3, PushQuiet DEF ConnectFails
<1>4. CASE LinkLost \/ ReceiveCancelled
  BY <1>4, PushQuiet DEF LinkLost, ReceiveCancelled
<1> QED BY <1>1, <1>2, <1>3, <1>4

LEMMA LoginServedInv ==
  ASSUME PushInv, LoginServed
  PROVE  PushInv'
<1>1. /\ stored' = stored \ ToSet(ids) /\ pushed' = {} /\ transit' = <<>>
      /\ UNCHANGED <<cancelled, recv, ids, sent, handled, raised, forgotten, failures>>
      /\ run' = "answered"
  BY DEF LoginServed, Goes, historyVars
<1>2. PushTypeOK'
  BY <1>1 DEF PushInv, PushTypeOK, Connecting
<1>3. ToSet(transit') = {} /\ Distinct(transit')
  BY <1>1 DEF ToSet, Distinct
<1>4. Known'
  BY <1>1, <1>3 DEF PushInv, Known
<1>5. Recorded' /\ Fresh' /\ NotLost' /\ AtMostOnce'
  BY <1>1, <1>3 DEF PushInv, Known, Recorded, Fresh, NotLost, AtMostOnce
<1> QED BY <1>2, <1>4, <1>5 DEF PushInv

LEMMA MessageSentInv ==
  ASSUME PushInv, MessageSent
  PROVE  PushInv'
<1>1. /\ sent < MaxMessages /\ sent' = sent + 1 /\ stored' = stored \cup {sent + 1}
      /\ UNCHANGED <<run, cancelled, recv, ids, transit, pushed, handled, raised, forgotten, failures>>
  BY DEF MessageSent, clientVars, historyVars
<1>2. sent \in 0..MaxMessages /\ MaxMessages \in Nat
  BY PushAssumption DEF PushInv, PushTypeOK
<1>3. 1..sent' = (1..sent) \cup {sent + 1} /\ sent + 1 \notin 1..sent
  BY <1>1, <1>2
<1>4. PushTypeOK'
  BY <1>1, <1>2 DEF PushInv, PushTypeOK, Messages
<1>5. Known' /\ NotLost'
  BY <1>1, <1>3 DEF PushInv, Known, NotLost
<1>6. Recorded' /\ AtMostOnce'
  BY <1>1 DEF PushInv, Recorded, AtMostOnce
<1>7. Fresh'
  BY <1>1, <1>3 DEF PushInv, Known, Fresh
<1> QED BY <1>4, <1>5, <1>6, <1>7 DEF PushInv

LEMMA PushedInv ==
  ASSUME PushInv, NEW m \in Messages, Pushed(m)
  PROVE  PushInv'
<1>1. /\ recv = "running" /\ m \in stored \ pushed
      /\ pushed' = pushed \cup {m} /\ transit' = Append(transit, m)
      /\ UNCHANGED <<run, cancelled, recv, ids, sent, stored, handled, raised, forgotten, failures>>
  BY DEF Pushed, clientVars, historyVars
<1>2. /\ transit' \in Seq(Messages) /\ ToSet(transit') = ToSet(transit) \cup {m}
      /\ Distinct(transit')
  BY <1>1, AppendSet, AppendDistinct DEF PushInv, PushTypeOK, Known
<1>3. PushTypeOK'
  BY <1>1, <1>2 DEF PushInv, PushTypeOK
<1>4. Known'
  BY <1>1, <1>2 DEF PushInv, Known
<1>5. Recorded' /\ NotLost' /\ AtMostOnce'
  BY <1>1 DEF PushInv, Recorded, NotLost, AtMostOnce
<1>6. Fresh'
  BY <1>1, <1>2 DEF PushInv, Fresh
<1> QED BY <1>3, <1>4, <1>5, <1>6 DEF PushInv

LEMMA ReceiveInv ==
  ASSUME PushInv, Receive
  PROVE  PushInv'
<1> DEFINE m == Head(transit)
           old == IF Len(ids) < Keep THEN ids ELSE Tail(ids)
<1>1. /\ transit # <<>> /\ transit' = Tail(transit) /\ recv = "running"
      /\ ids' = Append(old, m)
      /\ forgotten' = forgotten \cup (ToSet(ids) \ ToSet(ids'))
      /\ \/ handled' = [handled EXCEPT ![m] = @ + 1] /\ UNCHANGED <<raised, recv>>
         \/ raised' = raised \cup {m} /\ recv' = "done" /\ UNCHANGED handled
      /\ UNCHANGED <<run, cancelled, sent, stored, pushed, failures>>
  BY DEF Receive, HandleDataMessage
<1>2. /\ m \in Messages /\ m \in ToSet(transit) /\ transit' \in Seq(Messages)
      /\ ToSet(transit') \subseteq ToSet(transit)
      /\ Distinct(transit') /\ m \notin ToSet(transit')
  BY <1>1, TailSet, TailDistinct DEF PushInv, PushTypeOK, Known
<1>3. old \in Seq(Messages) /\ Len(old) < Keep /\ ToSet(old) \subseteq ToSet(ids)
  <2>0. Keep \in Nat \ {0} /\ ids \in Seq(Messages) /\ Len(ids) <= Keep /\ Len(ids) \in Nat
    BY PushAssumption, LenProperties DEF PushInv, PushTypeOK
  <2>1. CASE Len(ids) < Keep
    BY <2>0, <2>1
  <2>2. CASE ~(Len(ids) < Keep)
    <3>1. ids # <<>>
      BY <2>0, <2>2
    <3> QED BY <2>0, <2>2, <3>1, TailSet
  <2> QED BY <2>1, <2>2
<1> HIDE DEF old
<1>4. /\ ids' \in Seq(Messages) /\ Len(ids') <= Keep
      /\ ToSet(ids') \subseteq ToSet(ids) \cup {m} /\ m \in ToSet(ids')
      /\ ToSet(ids) \subseteq ToSet(ids') \cup forgotten'
  <2>1. ids' \in Seq(Messages) /\ ToSet(ids') = ToSet(old) \cup {m}
    BY <1>1, <1>2, <1>3, AppendSet
  <2>2. Len(ids') = Len(old) + 1 /\ Len(old) \in Nat
    BY <1>1, <1>2, <1>3, AppendProperties, LenProperties
  <2> QED BY <1>1, <1>3, <2>1, <2>2, PushAssumption
<1>5. ToSet(ids) \subseteq Messages /\ ToSet(ids') \subseteq Messages
  BY <1>2, <1>4, LenProperties, ElementOfSeq DEF PushInv, PushTypeOK, ToSet
<1>6. \A n \in Messages : n # m => handled'[n] = handled[n]
  BY <1>1 DEF PushInv, PushTypeOK
<1>7. /\ handled[m] \in Nat /\ handled'[m] \in {handled[m], handled[m] + 1}
      /\ handled'[m] > 0 \/ m \in raised'
      /\ raised \subseteq raised' /\ raised' \subseteq raised \cup {m}
      /\ forgotten \subseteq forgotten'
  BY <1>1, <1>2 DEF PushInv, PushTypeOK
<1>8. PushTypeOK'
  <2>1. handled' \in [Messages -> Nat]
    <3>1. handled \in [Messages -> Nat] /\ handled[m] + 1 \in Nat
      BY <1>7 DEF PushInv, PushTypeOK
    <3>2. \/ handled' = handled
          \/ handled' = [handled EXCEPT ![m] = handled[m] + 1]
      BY <1>1
    <3> QED BY <1>2, <3>1, <3>2
  <2>2. raised' \subseteq Messages /\ forgotten' \subseteq Messages
    BY <1>1, <1>2, <1>5 DEF PushInv, PushTypeOK
  <2>3. recv' \in {"none", "running", "cancelled", "done"}
    BY <1>1
  <2> QED BY <1>1, <1>2, <1>4, <2>1, <2>2, <2>3 DEF PushInv, PushTypeOK
<1>9. Known'
  BY <1>1, <1>2, <1>4 DEF PushInv, Known
<1>10. Recorded'
  BY <1>4, <1>5, <1>6, <1>7 DEF PushInv, Recorded
<1>11. Fresh'
  <2>1. \A n \in ToSet(transit') : n \notin ToSet(ids') \/ n \in forgotten'
    BY <1>2, <1>4, <1>7 DEF PushInv, Fresh
  <2>2. \A n \in stored' \ pushed' : n # m
    BY <1>1, <1>2 DEF PushInv, Known
  <2>3. \A n \in stored' \ pushed' : n \notin ToSet(ids') \/ n \in forgotten'
    BY <1>1, <1>4, <1>7, <2>2 DEF PushInv, Fresh
  <2> QED BY <2>1, <2>3 DEF Fresh
<1>12. NotLost'
  <2>1. 1..sent \subseteq Messages
    BY PushAssumption DEF PushInv, PushTypeOK, Messages
  <2>2. \A n \in 1..sent : n # m => handled'[n] = handled[n]
    BY <1>6, <2>1
  <2> QED BY <1>1, <1>7, <2>2 DEF PushInv, NotLost
<1>13. AtMostOnce'
  <2>1. handled[m] > 0 => m \in forgotten
    BY <1>2 DEF PushInv, Recorded, Fresh
  <2>2. handled'[m] > 1 => m \in forgotten'
    BY <1>7, <2>1
  <2> QED BY <1>6, <1>7, <2>2 DEF PushInv, AtMostOnce
<1> QED BY <1>8, <1>9, <1>10, <1>11, <1>12, <1>13 DEF PushInv

LEMMA PushInitInv == PushInit => PushInv
<1> SUFFICES ASSUME PushInit PROVE PushInv
  OBVIOUS
<1>1. ids = <<>> /\ transit = <<>> /\ ToSet(<<>>) = {} /\ Distinct(<<>>)
  BY DEF PushInit, ToSet, Distinct
<1>2. PushTypeOK
  <2>1. ids \in Seq(Messages) /\ Len(ids) <= Keep /\ transit \in Seq(Messages)
    BY <1>1, PushAssumption, EmptySeq
  <2>2. sent \in 0..MaxMessages /\ handled \in [Messages -> Nat]
    BY PushAssumption DEF PushInit
  <2> QED BY <2>1, <2>2 DEF PushInit, PushTypeOK
<1>3. Known
  BY <1>1 DEF PushInit, Known
<1>4. Recorded /\ Fresh /\ NotLost /\ AtMostOnce
  BY <1>1 DEF PushInit, Recorded, Fresh, NotLost, AtMostOnce
<1> QED BY <1>2, <1>3, <1>4 DEF PushInv

LEMMA PushStepInv ==
  ASSUME PushInv, PushNext
  PROVE  PushInv'
BY PushMoves, LoginServedInv, PushedInv, ReceiveInv DEF PushNext, Client, Server

-----------------------------------------------------------------------------
(* The entry. *)

\* The client is started by a registration that succeeds, once; and a shutdown that
\* missed nothing came when no registration was under way.
SetupInv ==
  /\ setup \in {"none"} \cup InFlight => run = "none"
  /\ setup # "none" => entry \in {"loaded", "unloading", "unloaded"}
  /\ entry = "unloaded" /\ missed = "no" => setup \notin InFlight

LifeTypeOK ==
  /\ entry \in {"user", "code", "trust", "captcha", "login", "lists", "failed",
               "loaded", "unloading", "unloaded"}
  /\ attempt \in Nat /\ again \in BOOLEAN
  /\ setup \in {"none", "done", "failed"} \cup InFlight
  /\ mqtt \in {"none", "connecting", "subscribed", "sleeping", "ended"}
  /\ mqttCancelled \in BOOLEAN
  /\ missed \in {"no", "set-up", "swallowed"}

LifeInv == PushInv /\ LifeTypeOK /\ SetupInv /\ QuietAfterUnload

LEMMA UnchangedPush ==
  ASSUME PushInv, UNCHANGED pushVars
  PROVE  PushInv'
<1>1. UNCHANGED <<run, cancelled, recv, ids, serverVars, historyVars, failures>>
  BY DEF pushVars, clientVars
<1> QED BY <1>1, PushQuiet DEF PushInv, PushTypeOK

LEMMA FlowInv ==
  ASSUME LifeInv, Flow
  PROVE  LifeInv'
<1>1. /\ UNCHANGED <<attempt, again, pushVars, setup, mqtt, mqttCancelled, missed>>
      /\ entry \in {"user", "code", "trust", "captcha"}
      /\ entry' \in {"code", "captcha", "trust", "lists", "login"}
  BY DEF Flow, UserStep, CaptchaStep, CodeStep, Demanded, Created, settingUp
<1>2. PushInv' /\ UNCHANGED <<run, cancelled>>
  BY <1>1, UnchangedPush DEF LifeInv, pushVars, clientVars
<1>3. LifeTypeOK'
  BY <1>1 DEF LifeInv, LifeTypeOK
<1>4. SetupInv' /\ QuietAfterUnload'
  BY <1>1, <1>2 DEF LifeInv, SetupInv, QuietAfterUnload
<1> QED BY <1>2, <1>3, <1>4 DEF LifeInv

LEMMA SetUpInv ==
  ASSUME LifeInv, SetUp
  PROVE  LifeInv'
<1>1. /\ UNCHANGED pushVars /\ UNCHANGED <<mqttCancelled, missed>>
      /\ entry \in {"login", "lists"} /\ entry' \in {"login", "lists", "failed", "loaded"}
      /\ attempt' \in Nat /\ again' \in BOOLEAN
      /\ \/ UNCHANGED <<setup, mqtt>>
         \/ entry' = "loaded" /\ setup' = "fid" /\ mqtt' \in {"connecting", "none"}
  <2>1. attempt \in Nat /\ again \in BOOLEAN
    BY DEF LifeInv, LifeTypeOK
  <2>2. CASE Loaded
    BY <2>1, <2>2 DEF Loaded
  <2>3. CASE LoginDone \/ LoginConflict
    BY <2>1, <2>3 DEF LoginDone, LoginConflict, settingUp
  <2>4. CASE SetupFails
    BY <2>1, <2>4 DEF SetupFails, settingUp
  <2>5. CASE ListsRefused
    BY <2>1, <2>5 DEF ListsRefused, settingUp
  <2> QED BY <2>2, <2>3, <2>4, <2>5 DEF SetUp
<1>2. PushInv' /\ UNCHANGED <<run, cancelled>>
  BY <1>1, UnchangedPush DEF LifeInv, pushVars, clientVars
<1>3. LifeTypeOK'
  BY <1>1 DEF LifeInv, LifeTypeOK, InFlight
<1>4. SetupInv' /\ QuietAfterUnload'
  BY <1>1, <1>2 DEF LifeInv, LifeTypeOK, SetupInv, QuietAfterUnload
<1> QED BY <1>2, <1>3, <1>4 DEF LifeInv

LEMMA RegisterInv ==
  ASSUME LifeInv, Register
  PROVE  LifeInv'
<1>1. CASE ~ClientStarted
  <2>1. /\ UNCHANGED <<pushVars, entry, again, mqtt, mqttCancelled, missed>>
        /\ attempt' \in Nat /\ setup \in InFlight /\ setup' \in InFlight \cup {"failed"}
    BY <1>1 DEF Register, RegisterFid, GoogleCheckin, RegisterGcm, GcmError, RegistrationFails,
                unregistered, InFlight, LifeInv, LifeTypeOK
  <2>2. PushInv' /\ UNCHANGED <<run, cancelled>>
    BY <2>1, UnchangedPush DEF LifeInv, pushVars, clientVars
  <2>3. LifeTypeOK'
    BY <2>1 DEF LifeInv, LifeTypeOK
  <2>4. SetupInv' /\ QuietAfterUnload'
    BY <2>1, <2>2 DEF LifeInv, SetupInv, QuietAfterUnload, InFlight
  <2> QED BY <2>2, <2>3, <2>4 DEF LifeInv
<1>2. CASE ClientStarted
  <2>1. /\ setup = "token" /\ setup' = "done" /\ run' = "opening"
        /\ UNCHANGED <<cancelled, recv, ids, serverVars, historyVars, failures, entry, attempt,
                       again, mqtt, mqttCancelled, missed>>
    BY <1>2 DEF ClientStarted
  <2>2. PushInv'
    BY <2>1, PushQuiet DEF LifeInv, PushInv, PushTypeOK, Connecting
  <2>3. LifeTypeOK'
    BY <2>1 DEF LifeInv, LifeTypeOK
  <2>4. SetupInv' /\ QuietAfterUnload'
    BY <2>1 DEF LifeInv, SetupInv, QuietAfterUnload, InFlight
  <2> QED BY <2>2, <2>3, <2>4 DEF LifeInv
<1> QED BY <1>1, <1>2

LEMMA MqttInv ==
  ASSUME LifeInv, Mqtt
  PROVE  LifeInv'
<1>1. /\ UNCHANGED <<pushVars, entry, attempt, again, setup, mqttCancelled, missed>>
      /\ \/ ~mqttCancelled /\ mqtt \in {"connecting", "subscribed", "sleeping"}
            /\ mqtt' \in {"connecting", "subscribed", "sleeping"}
         \/ mqttCancelled /\ mqtt' = "ended"
  BY DEF Mqtt, MqttStep, MqttEnds, unbrokered
<1>2. PushInv' /\ UNCHANGED <<run, cancelled>>
  BY <1>1, UnchangedPush DEF LifeInv, pushVars, clientVars
<1>3. LifeTypeOK'
  BY <1>1 DEF LifeInv, LifeTypeOK
<1>4. SetupInv' /\ QuietAfterUnload'
  BY <1>1, <1>2 DEF LifeInv, SetupInv, QuietAfterUnload
<1> QED BY <1>2, <1>3, <1>4 DEF LifeInv

\* The cases in which a shutdown reaches the push client, and those in which it says
\* why it does not.
LEMMA UnloadInv ==
  ASSUME LifeInv, Unload
  PROVE  LifeInv'
<1>1. /\ Shutdown
      /\ \/ entry = "loaded" /\ entry' = "unloading"
         \/ entry = "unloading" /\ entry' = "unloaded"
  BY DEF Unload
<1>2. /\ UNCHANGED <<run, ids, serverVars, historyVars, failures, attempt, again, setup, mqtt>>
      /\ mqttCancelled' = (mqttCancelled \/ mqtt \notin {"none", "ended"})
      /\ missed' = IF setup \in InFlight THEN "set-up"
                   ELSE IF run = "receiving" /\ recv # "done" THEN "swallowed"
                   ELSE "no"
  BY <1>1 DEF Shutdown
<1>3. PushTypeOK /\ LifeTypeOK /\ run \in {"none", "receiving", "backoff", "ended"} \cup Connecting
  BY DEF LifeInv, PushInv, PushTypeOK
<1>4. /\ cancelled' \in BOOLEAN /\ recv' \in {"none", "running", "cancelled", "done"}
      /\ recv' = "running" => recv = "running"
  BY <1>1, <1>3 DEF Shutdown, Stop, PushTypeOK
<1>5. PushInv'
  BY <1>2, <1>3, <1>4, PushQuiet DEF LifeInv, PushTypeOK
<1>6. LifeTypeOK'
  BY <1>1, <1>2, <1>3 DEF LifeTypeOK
<1>7. SetupInv'
  BY <1>1, <1>2, <1>3 DEF LifeInv, SetupInv
<1>8. mqtt' \in {"none", "ended"} \/ mqttCancelled'
  BY <1>2
<1>9. run' \in {"none", "ended"} \/ cancelled' \/ missed' # "no"
  BY <1>1, <1>2, <1>3 DEF Shutdown, Stop
<1> QED BY <1>5, <1>6, <1>7, <1>8, <1>9 DEF LifeInv, QuietAfterUnload

\* The client starts and stops itself only where it has been started.
LEMMA PushPart ==
  ASSUME LifeInv, Push
  PROVE  LifeInv'
<1>1. UNCHANGED <<entry, attempt, again, setup, mqtt, mqttCancelled, missed>>
  BY DEF Push, lifeVars
<1>2. PushInv'
  BY PushStepInv, MessageSentInv DEF Push, LifeInv
<1>3. LifeTypeOK'
  BY <1>1 DEF LifeInv, LifeTypeOK
<1>4. UNCHANGED cancelled /\ (run \in {"none", "ended"} => UNCHANGED run)
  BY DEF Push, PushNext, Client, Server, Opened, Connected, Receive, ReceiveCancelled, ReceiveDone,
         BackoffOver, RunCancelled, LoginServed, Pushed, ConnectFails, LinkLost, MessageSent,
         Goes, Connecting, clientVars
<1>5. SetupInv' /\ QuietAfterUnload'
  BY <1>1, <1>4 DEF LifeInv, SetupInv, QuietAfterUnload
<1> QED BY <1>2, <1>3, <1>5 DEF LifeInv

LEMMA LifeInitInv == Init => LifeInv
<1> SUFFICES ASSUME Init PROVE LifeInv
  OBVIOUS
<1>1. PushInv
  BY PushInitInv DEF Init
<1>2. LifeTypeOK /\ SetupInv /\ QuietAfterUnload
  BY DEF Init, PushInit, LifeTypeOK, SetupInv, QuietAfterUnload, InFlight
<1> QED BY <1>1, <1>2 DEF LifeInv

LEMMA LifeStepInv == LifeInv /\ [Next]_vars => LifeInv'
<1> SUFFICES ASSUME LifeInv, [Next]_vars PROVE LifeInv'
  OBVIOUS
<1>1. CASE UNCHANGED vars
  <2>1. UNCHANGED pushVars /\ UNCHANGED <<entry, attempt, again, setup, mqtt, mqttCancelled, missed>>
    BY <1>1 DEF vars, lifeVars
  <2>2. PushInv' /\ UNCHANGED <<run, cancelled>>
    BY <2>1, UnchangedPush DEF LifeInv, pushVars, clientVars
  <2>3. LifeTypeOK' /\ SetupInv' /\ QuietAfterUnload'
    BY <2>1, <2>2 DEF LifeInv, LifeTypeOK, SetupInv, QuietAfterUnload
  <2> QED BY <2>2, <2>3 DEF LifeInv
<1> QED BY <1>1, FlowInv, SetUpInv, RegisterInv, MqttInv, UnloadInv, PushPart DEF Next

\* No message is thrown away unhandled, and none is handled twice unless its id had to
\* leave the list (_received_persistent_ids), through any number of connections.
THEOREM PushHandledOnce == Spec => []HandledOnce
<1>1. LifeInv => HandledOnce
  BY DEF LifeInv, PushInv, HandledOnce
<1> QED BY <1>1, LifeInitInv, LifeStepInv, PTL DEF Spec

\* After the unload the clients have ended or are about to, but for the two cases in
\* which the shutdown misses the push client (async_shutdown, run_forever).
THEOREM PushQuietAfterUnload == Spec => []QuietAfterUnload
<1>1. LifeInv => QuietAfterUnload
  BY DEF LifeInv
<1> QED BY <1>1, LifeInitInv, LifeStepInv, PTL DEF Spec

\* The variables of the push client and of the entry keep their types.
THEOREM PushTypes == Spec => []TypeOK
<1>1. LifeInv => TypeOK
  BY DEF LifeInv, PushInv, LifeTypeOK, TypeOK
<1> QED BY <1>1, LifeInitInv, LifeStepInv, PTL DEF Spec

=============================================================================
