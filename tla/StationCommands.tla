---------------------------- MODULE StationCommands ----------------------------
(***************************************************************************)
(* The operations of a P2PSession on its station and devices, as far as    *)
(* P2PCommand tells them apart: by the command type that each gives to     *)
(* send_command, which is all that a result is found by.  The commands     *)
(* proper are in the payload (JSON, integers, for some locks encrypted),   *)
(* and most of them are wrapped in CMD_SET_PAYLOAD.                        *)
(***************************************************************************)

SetGuardMode == {"CMD_SET_PAYLOAD"}
TriggerStationAlarm == {"CMD_SET_PAYLOAD"}       \* and reset_station_alarm
TriggerDeviceAlarm == {"CMD_SET_DEVS_TONE_FILE"} \* and reset_device_alarm

\* Video locks, BLE locks and smart locks differ in their payload.
LockDevice == {"CMD_SET_PAYLOAD"}
LockDeviceBle == {"CMD_SET_PAYLOAD"}
LockDeviceSmart == {"CMD_SET_PAYLOAD"}

EnableRtsp == {"CMD_NAS_SWITCH"}
RtspStream == {"CMD_NAS_TEST"}                   \* start and stop

StartTalkback(use_doorbell_cmd) ==
  {IF use_doorbell_cmd THEN "CMD_DOORBELL_SET_PAYLOAD" ELSE "CMD_START_TALKBACK"}
StopTalkback(use_doorbell_cmd) ==
  {IF use_doorbell_cmd THEN "CMD_DOORBELL_SET_PAYLOAD" ELSE "CMD_STOP_TALKBACK"}

PanTilt == {"CMD_SET_PAYLOAD"}

StartLivestream == {"CMD_SET_PAYLOAD"}
StopLivestream == {"CMD_STOP_REALTIME_MEDIA"}

-----------------------------------------------------------------------------
(* The tasks that call them, over all their operations. *)

\* _send_lock_command chooses by the type of the lock.
LockEntity == LockDevice \cup LockDeviceBle \cup LockDeviceSmart

CameraEntity == StartLivestream \cup StopLivestream

\* services.py, and the buttons that are not about streams.
Services == PanTilt \cup TriggerStationAlarm \cup TriggerDeviceAlarm
              \cup UNION {StartTalkback(b) \cup StopTalkback(b) : b \in BOOLEAN}
=============================================================================
