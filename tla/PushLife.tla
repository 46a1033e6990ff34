-------------------------------- MODULE PushLife -------------------------------
(***************************************************************************)
(* The life of the integration's entry, from the forms of the config flow  *)
(* (config_flow.py) through async_setup to async_shutdown (coordinator.py, *)
(* __init__.py), as far as it starts and stops what receives events: the   *)
(* registration with FCM (lib/push/fcm.py), the client of PushConnection,  *)
(* and the MQTT client (lib/mqtt/client.py).                               *)
(*                                                                         *)
(* An unload shuts the coordinator down twice: async_unload_entry does,    *)
(* and so does the callback of entry.async_on_unload, when the platforms   *)
(* have been unloaded.  The parts that async_shutdown stops first have     *)
(* modules of their own (StreamManager, P2PSessionPool).                   *)
(***************************************************************************)
EXTENDS PushConnection

CONSTANTS
  LoginAttempts,   \* _login_with_retry: 3
  GcmAttempts,     \* _register_gcm: 5
  Locks            \* whether there is a lock, which is what MQTT is for

ASSUME LifeAssumption ==
  /\ LoginAttempts \in Nat \ {0} /\ GcmAttempts \in Nat \ {0}
  /\ Locks \in BOOLEAN

VARIABLES
  entry,     \* the form the user sees, or where async_setup_entry or the unload is
  attempt,   \* attempts of the login, or of the GCM registration, so far
  again,     \* the lists are asked for after a second login
  setup,     \* where the task _setup_push_background is
  mqtt,      \* where the task of the MQTT client is
  mqttCancelled,
  missed     \* history: why the last shutdown did not reach the push client: "no",
             \* "set-up" (not there yet) or "swallowed" (by the receive task)

lifeVars == <<entry, attempt, again, setup, mqtt, mqttCancelled, missed>>
vars == <<pushVars, lifeVars>>

Init ==
  /\ PushInit
  /\ entry = "user"
  /\ attempt = 0 /\ again = FALSE
  /\ setup = "none"
  /\ mqtt = "none" /\ mqttCancelled = FALSE
  /\ missed = "no"

-----------------------------------------------------------------------------
(* The config flow.  A form that is sent with an error is shown again.  *)

settingUp == <<pushVars, setup, mqtt, mqttCancelled, missed>>

\* The login asks for something more.
Demanded(form) == entry = form /\ entry' \in {"code", "captcha"}

\* _async_create_entry, whatever becomes of the lists it asks for, and async_setup
\* up to its first wait: it goes to the lists if the entry holds a session.
Created == entry' \in {"lists", "login"}

UserStep ==
  /\ entry = "user"
  /\ Demanded("user") \/ Created
  /\ UNCHANGED <<attempt, again, settingUp>>

CaptchaStep ==
  /\ entry = "captcha"
  /\ Demanded("captcha") \/ Created
  /\ UNCHANGED <<attempt, again, settingUp>>

\* With the code the login is done first and the device is trusted afterwards.
CodeStep ==
  /\ \/ Demanded("code")
     \/ entry = "code" /\ entry' = "trust"
     \/ entry = "trust" /\ entry' = "code"
     \/ entry = "trust" /\ Created
  /\ UNCHANGED <<attempt, again, settingUp>>

-----------------------------------------------------------------------------
(* async_setup. *)

LoginDone ==
  /\ entry = "login"
  /\ entry' = "lists" /\ attempt' = 0
  /\ UNCHANGED <<again, settingUp>>

\* Another app has taken the session: once more, three times in all.
LoginConflict ==
  /\ entry = "login"
  /\ attempt' = attempt + 1
  /\ entry' = IF attempt' < LoginAttempts THEN "login" ELSE "failed"
  /\ UNCHANGED <<again, settingUp>>

\* Any other answer, or 30 s; the lists may also fail with a timeout.
SetupFails ==
  /\ entry \in {"login", "lists"}
  /\ entry' = "failed"
  /\ UNCHANGED <<attempt, again, settingUp>>

\* The cloud refuses the lists: a second login, once.
ListsRefused ==
  /\ entry = "lists"
  /\ ~again
  /\ entry' = "login" /\ again' = TRUE
  /\ attempt' = 0
  /\ UNCHANGED settingUp

\* The two tasks in the background are created.
Loaded ==
  /\ entry = "lists"
  /\ entry' = "loaded"
  /\ setup' = "fid"
  /\ mqtt' = IF Locks THEN "connecting" ELSE "none"
  /\ attempt' = 0
  /\ UNCHANGED <<pushVars, again, mqttCancelled, missed>>

-----------------------------------------------------------------------------
(* _setup_push: three phases of FCMRegistration.register, and the token.  *)

InFlight == {"fid", "checkin", "gcm", "token"}

unregistered == <<pushVars, entry, again, mqtt, mqttCancelled, missed>>

RegisterFid ==
  /\ setup = "fid"
  /\ setup' = "checkin"
  /\ UNCHANGED <<attempt, unregistered>>

GoogleCheckin ==
  /\ setup = "checkin"
  /\ setup' = "gcm"
  /\ UNCHANGED <<attempt, unregistered>>

RegisterGcm ==
  /\ setup = "gcm"
  /\ setup' = "token"
  /\ UNCHANGED <<attempt, unregistered>>

\* "Error=": once more, after a pause that grows, five times in all.
GcmError ==
  /\ setup = "gcm"
  /\ attempt' = attempt + 1
  /\ setup' = IF attempt' < GcmAttempts THEN "gcm" ELSE "failed"
  /\ UNCHANGED unregistered

\* An exception, or the 60 s of _setup_push_background.  There is no other attempt.
RegistrationFails ==
  /\ setup \in InFlight
  /\ setup' = "failed"
  /\ UNCHANGED <<attempt, unregistered>>

\* register_push_token has answered, whatever it is; the client is started.  The
\* entry may have been unloaded in the meantime.
ClientStarted ==
  /\ setup = "token"
  /\ setup' = "done"
  /\ run' = "opening"
  /\ UNCHANGED <<cancelled, recv, ids, serverVars, historyVars, failures, entry, attempt,
                 again, mqtt, mqttCancelled, missed>>

-----------------------------------------------------------------------------
(* The MQTT client: _run. *)

unbrokered == <<pushVars, entry, attempt, again, setup, mqttCancelled, missed>>

\* Subscribed; the stream of messages ends; an error; 30 s later.
MqttStep ==
  /\ ~mqttCancelled
  /\ \/ mqtt = "connecting" /\ mqtt' \in {"subscribed", "sleeping"}
     \/ mqtt = "subscribed" /\ mqtt' \in {"connecting", "sleeping"}
     \/ mqtt = "sleeping" /\ mqtt' = "connecting"
  /\ UNCHANGED unbrokered

\* A CancelledError ends the task wherever it waits.
MqttEnds ==
  /\ mqttCancelled
  /\ mqtt \notin {"none", "ended"}
  /\ mqtt' = "ended"
  /\ UNCHANGED unbrokered

-----------------------------------------------------------------------------
(* The unload. *)

\* async_shutdown, when the streams and the pool have been stopped.
Shutdown ==
  /\ IF run \in {"none", "ended"} THEN UNCHANGED <<cancelled, recv>> ELSE Stop
  /\ mqttCancelled' = (mqttCancelled \/ mqtt \notin {"none", "ended"})
  /\ missed' = IF setup \in InFlight THEN "set-up"
               ELSE IF run = "receiving" /\ recv # "done" THEN "swallowed"
               ELSE "no"
  /\ UNCHANGED <<run, ids, serverVars, historyVars, failures, attempt, again, setup, mqtt>>

\* async_unload_entry, and the callback of async_on_unload.  Between the two the
\* platforms are unloaded, and a receive task that was cancelled has long run.
Unload ==
  \/ entry = "loaded" /\ entry' = "unloading" /\ Shutdown
  \/ entry = "unloading" /\ recv # "cancelled" /\ entry' = "unloaded" /\ Shutdown

-----------------------------------------------------------------------------
Flow == UserStep \/ CaptchaStep \/ CodeStep
SetUp == LoginDone \/ LoginConflict \/ SetupFails \/ ListsRefused \/ Loaded
Register ==
  \/ RegisterFid \/ GoogleCheckin \/ RegisterGcm \/ GcmError
  \/ RegistrationFails \/ ClientStarted
Mqtt == MqttStep \/ MqttEnds

\* Messages come when the token is known.
Push ==
  /\ PushNext \/ (setup = "done" /\ MessageSent)
  /\ UNCHANGED lifeVars

Next == Flow \/ SetUp \/ Register \/ Mqtt \/ Unload \/ Push

Fairness == PushFairness /\ WF_vars(Register)

Spec == Init /\ [][Next]_vars /\ Fairness

-----------------------------------------------------------------------------
TypeOK ==
  /\ PushTypeOK
  /\ entry \in {"user", "code", "trust", "captcha", "login", "lists", "failed",
               "loaded", "unloading", "unloaded"}
  /\ attempt \in Nat /\ again \in BOOLEAN
  /\ setup \in {"none", "done", "failed"} \cup InFlight
  /\ mqtt \in {"none", "connecting", "subscribed", "sleeping", "ended"}
  /\ mqttCancelled \in BOOLEAN
  /\ missed \in {"no", "set-up", "swallowed"}

\* When the entry is unloaded, its clients have ended or are about to, unless the
\* second shutdown came while the registration was under way, or while the push
\* client received (still, or again since the first): then nothing ends it, because
\* a cancelled receive task looks like a broken connection to run_forever.
QuietAfterUnload ==
  entry = "unloaded" =>
    /\ mqtt \in {"none", "ended"} \/ mqttCancelled
    /\ run \in {"none", "ended"} \/ cancelled \/ missed # "no"

\* "Clean up all resources." (coordinator.py, async_shutdown): a push client that both
\* shutdowns met while it received (it connects again in between) does not connect
\* once more.
NotReopened ==
  entry = "unloaded" /\ missed = "swallowed" => run # "opening" \/ cancelled

\* "Clean up all resources.": no push client is started when both shutdowns are over.
NotStarted ==
  entry = "unloaded" /\ missed = "set-up" => run # "opening" \/ cancelled

\* A message is handled, or its handler raises, however often connections fail
\* before, unless the entry is unloaded.
Delivered ==
  \A m \in Messages :
    (m \in stored) ~> (handled[m] > 0 \/ m \in raised \/ entry # "loaded")
=============================================================================
