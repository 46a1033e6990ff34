---- MODULE MCPushLife ----
(* PushLife on a small instance. *)
EXTENDS PushLife
====
