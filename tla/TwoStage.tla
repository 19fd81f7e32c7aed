------------------------------ MODULE TwoStage ------------------------------
(***************************************************************************)
(* The provider for two-stage rsync (worker/two_stage_rsync_provider.go):  *)
(* one call runs two processes, and gives the mutex up only while it waits *)
(* for one of them.                                                        *)
(***************************************************************************)
EXTENDS SyncRun

\* twoStageRsyncProvider.Run between its stages: p.Lock(), the second stage if
\* the first went well
Relock(c) ==
  /\ call[c].pc = "relock"
  /\ lock = "free"
  /\ lock' = c
  /\ \/ call' = [call EXCEPT ![c].pc = IF call[c].stage = 1 THEN "open" ELSE "rest", ![c].stage = 2]
     \/ call' = [call EXCEPT ![c].pc = "fail"]
  /\ UNCHANGED <<restVars, run, isRunning, cmd, ps, sig, fd, term, hookVars>>

TwoStageNext ==
  \/ Next
  \/ ~crashed /\ \E c \in Calls : Relock(c)

TwoStageSpec == Init /\ [][TwoStageNext]_vars
=============================================================================
