---- MODULE MCP2PCommand ----
(* P2PCommand with two concurrent callers: the entity of a lock and the one  *)
(* of a camera, which sends two types, one of them the lock's.  Sequence     *)
(* numbers modulo 2, three attempts per packet.                              *)
EXTENDS P2PCommand, StationCommands
CONSTANTS lock_call, stream_call
MCUses == [c \in {lock_call, stream_call} |->
             IF c = lock_call THEN LockEntity ELSE CameraEntity]
MCTypes == LockEntity \cup CameraEntity
====
