---------------------------- MODULE MCSyncQuery ----------------------------
(***************************************************************************)
(* Small instances of SyncQuery for TLC, on the queries of MCQueryManager. *)
(***************************************************************************)
EXTENDS SyncQuery, MCQueryManager
=============================================================================
