---- MODULE MCP2PReassembly ----
(* P2PReassembly on a small instance: the station's first stream is H265 and
   the one it sends after a restart is H264. *)
EXTENDS P2PReassembly

CONSTANTS H264, H265
MCCodec == <<H265, H264>>
====
