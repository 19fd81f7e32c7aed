------------------------------ MODULE MCSyncRun ------------------------------
(* An instance of SyncRun with one hook of each kind. *)
EXTENDS SyncRun

HookList == <<"log", "zfs", "btrfs", "exec">>
=============================================================================
