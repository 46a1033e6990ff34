----------------------------- MODULE DeviceState -----------------------------
(***************************************************************************)
(* The state of devices and stations that the entities of Home Assistant   *)
(* show, and everything that writes it (coordinator.py and the entities):  *)
(*   pushes (_on_push_message) and MQTT lock events (_on_lock_event),      *)
(*   the poll (_async_update_data), which asks the cloud for two lists,    *)
(*   commands: a parameter of a device or the guard mode, through the      *)
(*   cloud, and a lock, through P2P (P2PCommand),                          *)
(*   the timers that clear a detection (_AutoClearMixin).                  *)
(*                                                                         *)
(* One station and one device.  The coordinator's dictionaries are the     *)
(* client's own (self.devices = self._api.devices), and every list that    *)
(* the cloud sends puts new objects into them: `device' is the object in   *)
(* the dictionary, device.made tells it from its predecessors, and a       *)
(* command that waits holds the one it started with.                       *)
(***************************************************************************)
EXTENDS CloudApi

CONSTANTS
  Setters,      \* the tasks of commands: switches, selects, numbers, panel, lock
  MaxInputs,    \* bound: pushes, lock events, polls, commands, another app's changes,
                \* sessions opened
  MaxTimers     \* bound: timers running at once

ASSUME StateAssumption ==
  /\ Setters \subseteq Tasks \ {POLL}
  /\ MaxInputs \in Nat
  /\ MaxTimers \in Nat

VARIABLES
  cloud,      \* external: the settings the cloud keeps, a parameter and the guard mode
  device,     \* devices[sn]: made, is_locked, motion_detected, params
  guard,      \* stations[sn]: guard_mode, current_mode
  timers,     \* number of call_later(_DETECTION_CLEAR_DELAY, _clear) not yet fired
  poll,       \* the poll: its stage; the setting in the answer under way; (history)
              \* whether the cloud still has that setting
  setting,    \* commands through the cloud: what each sets, on which object, and
              \* (history) whether the cloud has taken it over, and kept it
  locking,    \* lock commands through P2P: lock or unlock, and on which object
  behind,     \* history: why a setting shown may differ from the cloud's
  inputs      \* for the bound

vars == <<cloudVars, cloud, device, guard, timers, poll, setting, locking, behind, inputs>>

None == [kind |-> "none"]
NoPoll == [stage |-> "none", answer |-> 0, fresh |-> FALSE]
PollIn(stage) == [NoPoll EXCEPT !.stage = stage]

Kinds == {"param", "guard"}
Values == {0, 1}

\* get_device_list: a new DeviceData has defaults for what the cloud does not send.
NewDevice(n, param) ==
  [made |-> n, is_locked |-> TRUE, motion |-> FALSE, param |-> param]

Init ==
  /\ CloudInit
  /\ cloud = [k \in Kinds |-> 0]
  /\ device = NewDevice(0, 0)
  /\ guard = 0
  /\ timers = 0
  /\ poll = NoPoll
  /\ setting = [t \in Setters |-> None]
  /\ locking = [t \in Setters |-> None]
  /\ behind = [k \in Kinds |-> FALSE]
  /\ inputs = 0

\* Listeners: _handle_coordinator_update of an _AutoClearMixin starts a timer when
\* its detection is on; nothing stops the timers that are running.
MutantListeners(d) == timers' = timers
Listeners(d) == timers' = IF d.motion THEN timers + 1 ELSE timers

TimerRoom == timers < MaxTimers
Input == inputs < MaxInputs /\ inputs' = inputs + 1

\* A session that the cloud opens is an input, too.
LoginInput == IF session' = session THEN UNCHANGED inputs ELSE Input

-----------------------------------------------------------------------------
(* Pushes, lock events, timers. *)

\* What _apply_push_to_device and _apply_lock_push make of an event.
Event == {[kind |-> "detection"], [kind |-> "other"]}
           \cup [kind : {"lock"}, value : BOOLEAN] \cup [kind : {"guard"}, value : Values]

ApplyPushToDevice(d, m) ==
  CASE m.kind = "detection" -> [d EXCEPT !.motion = TRUE]
    [] m.kind = "lock" -> [d EXCEPT !.is_locked = m.value]
    [] OTHER -> d

\* A push may be late, so the guard mode it brings need not be the cloud's.
OnPushMessage(m) ==
  /\ Input
  /\ TimerRoom
  /\ device' = ApplyPushToDevice(device, m)
  /\ guard' = IF m.kind = "guard" THEN m.value ELSE guard
  /\ behind' = [behind EXCEPT !["guard"] = @ \/ m.kind = "guard"]
  /\ Listeners(device')
  /\ UNCHANGED <<cloudVars, cloud, poll, setting, locking>>

OnLockEvent(locked) ==
  /\ Input
  /\ TimerRoom
  /\ device' = [device EXCEPT !.is_locked = locked]
  /\ Listeners(device')
  /\ UNCHANGED <<cloudVars, cloud, guard, poll, setting, locking, behind>>

\* _clear: any of the timers, whichever detection it was started for.
ClearDetection ==
  /\ timers > 0
  /\ timers' = timers - 1
  /\ device' = [device EXCEPT !.motion = FALSE]
  /\ UNCHANGED <<cloudVars, cloud, guard, poll, setting, locking, behind, inputs>>

-----------------------------------------------------------------------------
(* The poll: refresh_data asks for the stations, then for the devices. *)

unpolled == <<cloud, device, guard, timers, setting, locking, behind>>

PollStart ==
  /\ poll.stage = "none"
  /\ Input
  /\ poll' = PollIn("stations")
  /\ BeginLogin \/ Begin(POLL)
  /\ UNCHANGED unpolled

\* After the first list the poll goes on at once to the second.
PollDevices ==
  /\ poll.stage = "devices"
  /\ Begin(POLL)
  /\ UNCHANGED <<poll, unpolled, inputs>>

\* The setting that the answer of the present stage brings.
Polled == IF poll.stage = "stations" THEN "guard" ELSE "param"

\* An answer under way is outdated when the cloud's setting changes.
Outdated(k) == poll' = [poll EXCEPT !.fresh = @ /\ Polled # k]

\* The cloud answers with the settings it has now.
PollServed ==
  /\ \E a \in {"ok", "refused", "401"} : Serve(POLL, a)
  /\ poll' = [poll EXCEPT !.answer = cloud[Polled], !.fresh = TRUE]
  /\ UNCHANGED <<unpolled, inputs>>

\* get_station_list: a new StationData under the old name.
PollStations ==
  /\ poll.stage = "stations"
  /\ Received(POLL)
  /\ guard' = poll.answer
  /\ behind' = [behind EXCEPT !["guard"] = @ /\ ~poll.fresh]
  /\ poll' = PollIn("devices")
  /\ UNCHANGED <<cloud, device, timers, setting, locking, inputs>>

\* Mutant: what the cloud sends does not replace a parameter that is known
\* (params.setdefault in _async_update_data, on an object of its own).
MutantPollReceived ==
  /\ poll.stage = "devices"
  /\ Received(POLL)
  /\ TimerRoom
  /\ behind' = [behind EXCEPT !["param"] = @ /\ ~poll.fresh]
  /\ poll' = NoPoll
  /\ Listeners(device)
  /\ UNCHANGED <<cloud, device, guard, setting, locking, inputs>>

\* get_device_list: a new DeviceData under the old name.  The merge that follows in
\* _async_update_data compares every object with itself and changes nothing.
PollReceived ==
  /\ poll.stage = "devices"
  /\ Received(POLL)
  /\ TimerRoom
  /\ device' = NewDevice(device.made + 1, poll.answer)
  /\ behind' = [behind EXCEPT !["param"] = @ /\ ~poll.fresh]
  /\ poll' = NoPoll
  /\ Listeners(device')
  /\ UNCHANGED <<cloud, guard, setting, locking, inputs>>

\* A list that cannot be decrypted counts as empty: the poll goes on, and succeeds.
PollGarbled ==
  /\ poll.stage # "none"
  /\ Garbled(POLL)
  /\ TimerRoom
  /\ poll' = IF poll.stage = "stations" THEN PollIn("devices") ELSE NoPoll
  /\ IF poll.stage = "devices" THEN Listeners(device) ELSE UNCHANGED timers
  /\ UNCHANGED <<cloud, device, guard, setting, locking, behind, inputs>>

\* The poll's call makes a step; when that ends the call, the poll is over, and
\* the listeners hear of it (UpdateFailed; or a login that was made good).
PollCall ==
  /\ poll.stage # "none"
  /\ TimerRoom
  /\ \/ Wake(POLL) \/ Send(POLL) \/ Lost(POLL) \/ Retry(POLL) \/ Unauthorized(POLL)
     \/ Fail(POLL) \/ LoginServe(POLL) \/ LoginReceive(POLL) \/ LoginRefused(POLL)
     \/ LoginLost(POLL) \/ Relogin
  /\ IF At(POLL, "idle")' THEN poll' = NoPoll /\ Listeners(device)
                          ELSE UNCHANGED <<poll, timers>>
  /\ LoginInput
  /\ UNCHANGED <<cloud, device, guard, setting, locking, behind>>

-----------------------------------------------------------------------------
(* Commands through the cloud: _ParamSwitch, the selects and the numbers take  *)
(* the device object first and write to it at the end; the alarm panel looks   *)
(* the station up again (set_guard_mode and EufyAlarmPanel).                    *)

unset == <<device, guard, timers, locking>>

\* No command waits for another one: those of one setting overlap as well.
Free(t) == setting[t] = None /\ locking[t] = None

SetStart(t, k, v) ==
  /\ Free(t)
  /\ Input
  /\ setting' = [setting EXCEPT ![t] =
                   [kind |-> k, value |-> v, on |-> device.made, cloud |-> "before"]]
  /\ Begin(t)
  /\ UNCHANGED <<cloud, poll, behind, unset>>

\* A poll has replaced the object the command is going to write to.
Forgotten(s) == s.kind = "param" /\ s.on # device.made

\* Command s when the cloud gets another value for setting k.
Overruled(s, k) == IF s.kind = k /\ s.cloud = "set" THEN [s EXCEPT !.cloud = "changed"] ELSE s

\* Command t is going to write what the cloud has.
Writes(t, k) == setting[t].kind = k /\ setting[t].cloud = "set" /\ ~Forgotten(setting[t])

\* Command t is going to write what the cloud no longer has, and none that is still
\* awaited will correct it.
Overwrites(t) ==
  /\ setting[t].cloud = "changed" /\ ~Forgotten(setting[t])
  /\ \A u \in Setters : ~Writes(u, setting[t].kind)

\* The cloud takes the setting over.  An answer to the poll that is under way is
\* outdated, and so is what that poll is about to put in place of the device.
SetServed(t) ==
  /\ setting[t] # None
  /\ \E a \in {"ok", "refused", "401"} :
       /\ Serve(t, a)
       /\ IF a = "ok"
            THEN LET k == setting[t].kind IN
                 /\ cloud' = [cloud EXCEPT ![k] = setting[t].value]
                 /\ Outdated(k)
                 /\ setting' = [u \in Setters |->
                                  IF u = t THEN [setting[t] EXCEPT !.cloud = "set"]
                                           ELSE Overruled(setting[u], k)]
                 /\ behind' = [behind EXCEPT ![k] =
                                 @ \/ poll.stage # "none" \/ Forgotten(setting[t])]
            ELSE UNCHANGED <<cloud, poll, setting, behind>>
  /\ UNCHANGED <<inputs, unset>>

\* set_device_params returns: update_param, or the two modes of the station.  The
\* answer's data is not looked at, so it does not matter how it was encrypted.
SetDone(t) ==
  LET s == setting[t]
  IN /\ s # None
     /\ Received(t) \/ Garbled(t)
     /\ device' = IF s.kind = "param" /\ ~Forgotten(s)
                    THEN [device EXCEPT !.param = s.value] ELSE device
     /\ guard' = IF s.kind = "guard" THEN s.value ELSE guard
     /\ setting' = [setting EXCEPT ![t] = None]
     /\ behind' = [behind EXCEPT ![s.kind] = @ \/ Overwrites(t)]
     /\ UNCHANGED <<cloud, timers, poll, locking, inputs>>

\* The call makes a step; when that ends it the command has raised an exception,
\* although the cloud may have taken the setting over.
SetCall(t) ==
  /\ setting[t] # None
  /\ \/ Wake(t) \/ Send(t) \/ Lost(t) \/ Retry(t) \/ Unauthorized(t) \/ Fail(t)
     \/ LoginServe(t) \/ LoginReceive(t) \/ LoginRefused(t) \/ LoginLost(t)
  /\ IF At(t, "idle")'
       THEN /\ setting' = [setting EXCEPT ![t] = None]
            /\ behind' = [behind EXCEPT ![setting[t].kind] =
                            @ \/ Writes(t, setting[t].kind)]
       ELSE UNCHANGED <<setting, behind>>
  /\ LoginInput
  /\ UNCHANGED <<cloud, poll, unset>>

\* Another app changes a setting.
ChangedElsewhere(k, v) ==
  /\ Input
  /\ cloud[k] # v
  /\ cloud' = [cloud EXCEPT ![k] = v]
  /\ Outdated(k)
  /\ behind' = [behind EXCEPT ![k] = TRUE]
  /\ setting' = [t \in Setters |-> Overruled(setting[t], k)]
  /\ UNCHANGED <<cloudVars, device, guard, timers, locking>>

-----------------------------------------------------------------------------
(* _send_lock_command: the state is set on the object it began with, whatever   *)
(* the station answered (a command without a result is no exception).           *)

LockStart(t, lock) ==
  /\ Free(t)
  /\ Input
  /\ locking' = [locking EXCEPT ![t] =
                   [kind |-> "lock", value |-> lock, on |-> device.made]]
  /\ UNCHANGED <<cloudVars, cloud, device, guard, timers, poll, setting, behind>>

LockDone(t) ==
  /\ locking[t] # None
  /\ device' = IF locking[t].on = device.made
                 THEN [device EXCEPT !.is_locked = locking[t].value] ELSE device
  /\ locking' = [locking EXCEPT ![t] = None]
  /\ UNCHANGED <<cloudVars, cloud, guard, timers, poll, setting, behind, inputs>>

\* No session, or an exception.
LockFailed(t) ==
  /\ locking[t] # None
  /\ locking' = [locking EXCEPT ![t] = None]
  /\ UNCHANGED <<cloudVars, cloud, device, guard, timers, poll, setting, behind, inputs>>

KickedOut == Kicked /\ LoginInput /\ UNCHANGED <<poll, unpolled>>

-----------------------------------------------------------------------------
Poll == PollStart \/ PollDevices \/ PollServed \/ PollStations \/ PollReceived
          \/ PollGarbled \/ PollCall
Command(t) ==
  \/ \E k \in Kinds, v \in Values : SetStart(t, k, v)
  \/ SetServed(t) \/ SetDone(t) \/ SetCall(t)
  \/ \E b \in BOOLEAN : LockStart(t, b)
  \/ LockDone(t) \/ LockFailed(t)

Next ==
  \/ \E m \in Event : OnPushMessage(m)
  \/ \E b \in BOOLEAN : OnLockEvent(b)
  \/ \E k \in Kinds, v \in Values : ChangedElsewhere(k, v)
  \/ ClearDetection
  \/ Poll
  \/ \E t \in Setters : Command(t)
  \/ KickedOut

Spec == Init /\ [][Next]_vars

-----------------------------------------------------------------------------
DeviceType == [made : Nat, is_locked : BOOLEAN, motion : BOOLEAN, param : Values]
PollType == [stage : {"none", "stations", "devices"}, answer : Values, fresh : BOOLEAN]
SettingType ==
  [kind : Kinds, value : Values, on : Nat, cloud : {"before", "set", "changed"}]
LockingType == [kind : {"lock"}, value : BOOLEAN, on : Nat]

StateTypeOK ==
  /\ cloud \in [Kinds -> Values]
  /\ device \in DeviceType
  /\ guard \in Values
  /\ timers \in Nat
  /\ poll \in PollType
  /\ setting \in [Setters -> {None} \cup SettingType]
  /\ locking \in [Setters -> {None} \cup LockingType]
  /\ behind \in [Kinds -> BOOLEAN]
  /\ inputs \in Nat

TypeOK == CloudTypeOK /\ StateTypeOK

Shown(k) == IF k = "param" THEN device.param ELSE guard

\* What an entity shows of a setting is what the cloud has, however many commands on
\* it overlap with one another, with polls, pushes and other apps, except: while a
\* command that will write it is between the cloud and its end; and, until a poll has
\* brought an answer that is not outdated, after a change in another app (or a push
\* about one), a command that failed after the cloud had taken it over, a command
\* that the cloud took over during or after a poll that had not seen it, or commands
\* answered in another order than the cloud took them over (switch.py, turn_on and
\* turn_off: nothing serialises them).
SettingShown ==
  \A k \in Kinds :
    \/ behind[k]
    \/ \E t \in Setters : Writes(t, k)
    \/ Shown(k) = cloud[k]

\* A detection that is on has a timer that will clear it, although timers belong
\* to no detection, fire for one another and outlive the object they were
\* started for (_AutoClearMixin and the poll's new objects).
DetectionTimed == device.motion => timers > 0

\* "Merge cloud data without overwriting push-driven state."
\* (coordinator.py, _async_update_data): a poll leaves alone what only pushes,
\* lock events, timers and lock commands set.
PushStateKept ==
  [][Poll => /\ device'.is_locked = device.is_locked
             /\ device'.motion = device.motion]_vars
=============================================================================
