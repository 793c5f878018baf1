---------------------------- MODULE MCMcpServers ----------------------------
(* Small instance of McpServers for TLC: two runs and one request of the     *)
(* user share a server.                                                      *)
EXTENDS McpServers

CONSTANTS r1, r2, u1
=============================================================================
