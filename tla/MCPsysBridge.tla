---------------------------- MODULE MCPsysBridge ----------------------------
(* The front bridge with the constants its configurations give.           *)
EXTENDS PsysBridge
=============================================================================
