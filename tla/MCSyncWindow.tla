----------------------------- MODULE MCSyncWindow -----------------------------
(* Instances of SyncWindow for TLC; each .cfg picks its sizes.             *)
EXTENDS SyncWindow
=============================================================================
