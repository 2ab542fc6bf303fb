----------------------------- MODULE MCSyncScan -----------------------------
(* Small instance of SyncScan for TLC. *)
EXTENDS SyncScan
=============================================================================
