---- MODULE MCP2PSessionPool ----
(* P2PSessionPool with one station, two tasks that use it and three sessions: *)
(* one that has ended, the one that replaced it, and one that is made when    *)
(* the pool has lost sight of the second.                                     *)
EXTENDS P2PSessionPool
CONSTANTS home, lock_task, camera_task
MCWants == [g \in {lock_task, camera_task} |-> home]
====
