---- MODULE MCP2PSession ----
(* P2PSession with a small heartbeat limit: 4 missed PONGs instead of 10. *)
EXTENDS P2PSession
====
