------------------------------ MODULE MCPmTick ------------------------------
(***************************************************************************)
(* Two issues: a has a repository, b has none, is listed before a and      *)
(* fills every quota of a tick it gets into.                               *)
(***************************************************************************)
EXTENDS PmTick
CONSTANTS a, b
BThenA == <<b, a>>
=============================================================================
