------------------------------ MODULE MCSyncCI ------------------------------
(* TLC instances of SyncCI. *)
EXTENDS SyncCI, TLC

=============================================================================
