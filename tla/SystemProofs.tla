---------------------------- MODULE SystemProofs ----------------------------
(***************************************************************************)
(* Theorems about the manager and the worker together: whatever the worker *)
(* sends, loses or repeats, the manager does only what Manager says, so    *)
(* that its theorems hold, and the two mutexes are held where they should. *)
(***************************************************************************)
EXTENDS MirrorSystem, ManagerProofs

\* The requests served, in time or late, are steps of the manager.
LEMMA ServeStep ==
  ASSUME NEW r, Serve(r)
  PROVE  ManagerNext \/ UNCHANGED managerVars
  BY DEF Serve, ManagerNext, Requests

\* Every step of the system is one of the manager or leaves it alone.
LEMMA SystemStep ==
  ASSUME [Next]_vars
  PROVE  [ManagerNext]_managerVars
<1>1. CASE Worker
  BY <1>1 DEF Worker, Boot, fetchJobStatus, updateStatus, RunEnds, Fire, Control, HttpLock, HttpSend, HaltLock, HaltSend,
              ManagerNext
<1>2. CASE Reply \/ ServeLate
  BY <1>2, ServeStep DEF Reply, ServeLate
<1>3. CASE GiveUp \/ Crash
  BY <1>3 DEF GiveUp, Crash
<1>4. CASE Command
  BY <1>4 DEF Command, ManagerNext
<1>5. CASE Sync \/ Dashboard \/ PostReturns
  BY <1>5 DEF ManagerNext
<1>6. CASE UNCHANGED vars
  BY <1>6 DEF vars
<1> QED
  BY <1>1, <1>2, <1>3, <1>4, <1>5, <1>6 DEF Next

\* The composition implements the manager, with lost and late requests,
\* restarts of the pod and commands to a worker that is not there.
THEOREM SystemImplementsManager == Spec => ManagerSpec
<1>1. Init => ManagerInit
  BY DEF Init
<1> QED
  BY <1>1, SystemStep, PTL DEF Spec, ManagerSpec

\* In the whole system the times of a job stay in order and do not go back,
\* even when reports are served after later ones: TimesOrdered.
THEOREM SystemKeepsTimes == Spec => []TimesOrdered /\ TimesMonotone
  BY SystemImplementsManager, ManagerKeepsTimes, PTL

\* Nor does the worker, with late and repeated reports, erase a size in the
\* manager, or make mirrorz.json contradict itself.
THEOREM SystemKeepsData == Spec => SizeKept /\ []MirrorZSane
  BY SystemImplementsManager, SizeKeptHolds, MirrorZSaneHolds, PTL

-----------------------------------------------------------------------------
(* The mutexes                                                             *)

\* rwmu is held by a stop command under way.
LockInv == rwmu = "cmd" <=> post = "Stop"

\* The worker's part of SystemTypeOK.
WorkerInv ==
  /\ sp \in {"down", "register", "lock", "fetch", "patch", "post", "loop"}
  /\ L = "start" <=> sp = "fetch"
  /\ L = "http" => cmd # "none"
  /\ state \in {"None", "Ready", "Paused", "Disabled", "Halting"}
  /\ said \in DOMAIN Follows /\ late \subseteq {"register", "schedule"} \cup Reports

LEMMA SaidSet == DOMAIN Follows = {"start", "PreSyncing", "Syncing", "Success", "Failed", "idle"}
  BY DEF Follows

LEMMA LockStep ==
  ASSUME LockInv, [ManagerNext]_managerVars
  PROVE  LockInv'
<1>1. CASE UNCHANGED <<rwmu, post>>
  BY <1>1 DEF LockInv
<1>2. CASE PostReturns
  BY <1>2 DEF PostReturns, LockInv
<1>3. ASSUME NEW c \in Commands, handleClientCmd(c) PROVE LockInv'
  BY <1>3 DEF handleClientCmd, LockInv
<1> QED
  BY <1>1, <1>2, <1>3 DEF ManagerNext, managerVars, requestVars, Requests, Dashboard, registerMirror,
     updateSchedule, updateJob, updateMirrorSize, enableJob, disableJob, createJob, deleteJob,
     ReconcileStatus, Answer, Handle, Sync

\* the worker goes on after a request
LEMMA ContinueStep ==
  ASSUME WorkerInv, NEW status, Continue(status)
  PROVE  /\ sp' \in {"lock", "post", "loop"} /\ L' # "start"
         /\ L' = "http" => cmd # "none"
         /\ state' \in {"None", "Ready", "Paused", "Disabled", "Halting"}
  BY DEF WorkerInv, Continue, StoredState

LEMMA AbandonStep ==
  ASSUME WorkerInv, NEW r, Abandon(r)
  PROVE  late' \subseteq {"register", "schedule"} \cup Reports
  BY DEF WorkerInv, Abandon

LEMMA WorkerStep ==
  ASSUME WorkerInv, [Next]_vars
  PROVE  WorkerInv'
<1> USE SaidSet DEF WorkerInv
<1>1. CASE Boot \/ fetchJobStatus
  BY <1>1 DEF Boot, fetchJobStatus
<1>2. CASE updateStatus
  <2>1. said' \in Reports
    BY <1>2 DEF updateStatus
  <2> QED
    BY <1>2, <2>1 DEF updateStatus, Reports
<1>3. CASE RunEnds \/ Fire
  BY <1>3 DEF RunEnds, Fire
<1>4. CASE Control
  BY <1>4 DEF Control
<1>5. CASE HttpLock \/ HttpSend \/ HaltLock \/ HaltSend
  BY <1>5 DEF HttpLock, HttpSend, HaltLock, HaltSend
<1>6. CASE Reply
  BY <1>6, ContinueStep DEF Reply
<1>7. CASE GiveUp
  <2>1. late' \subseteq {"register", "schedule"} \cup Reports
    BY <1>7, AbandonStep DEF GiveUp
  <2> QED
    BY <1>7, <2>1, ContinueStep DEF GiveUp
<1>8. CASE ServeLate
  BY <1>8 DEF ServeLate
<1>9. CASE Crash
  <2>1. late' \subseteq {"register", "schedule"} \cup Reports
    BY <1>9, AbandonStep DEF Crash
  <2> QED
    BY <1>9, <2>1 DEF Crash
<1>10. CASE Command
  BY <1>10 DEF Command
<1>11. CASE UNCHANGED workerVars
  BY <1>11 DEF workerVars
<1> QED
  BY <1>1, <1>2, <1>3, <1>4, <1>5, <1>6, <1>7, <1>8, <1>9, <1>10, <1>11 DEF Next, Worker, vars

\* The manager holds rwmu exactly during a stop command, and the worker w.L
\* during start-up exactly while it waits for the status: SystemTypeOK.
THEOREM SystemTypeCorrect == Spec => []SystemTypeOK
<1>1. Init => LockInv /\ WorkerInv
  BY SaidSet DEF Init, ManagerInit, LockInv, WorkerInv
<1>2. LockInv /\ WorkerInv /\ [Next]_vars => LockInv' /\ WorkerInv'
  BY LockStep, WorkerStep, SystemStep
<1>3. LockInv /\ WorkerInv /\ Coherent => SystemTypeOK
  BY DEF LockInv, WorkerInv, Coherent, SystemTypeOK
<1> QED
  BY <1>1, <1>2, <1>3, SystemImplementsManager, CacheCoherent, PTL DEF Spec
=============================================================================
