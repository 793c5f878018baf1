----------------------------- MODULE MCToolEffects -----------------------------
(* Small instances of ToolEffects for TLC. *)
EXTENDS ToolEffects

ThreeKinds == <<"file", "mcp", "external">>
================================================================================
