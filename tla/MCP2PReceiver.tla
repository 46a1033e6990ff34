---- MODULE MCP2PReceiver ----
(* P2PReceiver on small instances; the constants are given by the .cfg files. *)
EXTENDS P2PReceiver


====
