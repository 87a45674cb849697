----------------------------- MODULE MCSyncRuns -----------------------------
(***************************************************************************)
(* A small instance of SyncRuns for TLC.                                   *)
(***************************************************************************)
EXTENDS SyncRuns

=============================================================================
