--------------------------- MODULE MCPublicCalls ---------------------------
(***************************************************************************)
(* Small instances of PublicCalls for TLC, on the queries of               *)
(* MCQueryManager.                                                         *)
(***************************************************************************)
EXTENDS PublicCalls, MCQueryManager
=============================================================================
