---------------------------- MODULE MirrorSystem ----------------------------
(***************************************************************************)
(* The manager and the worker of one mirror, over an unreliable network.   *)
(* Of the worker (modelled in detail in Worker) this module keeps what the *)
(* manager takes part in: registration, the status fetched at start-up     *)
(* with w.L held, the reports of runSchedule, the commands, and restarts   *)
(* of the pod.  A request that the worker gives up may be lost, or be      *)
(* served later, after requests that were sent after it.                   *)
(***************************************************************************)
EXTENDS Manager, FiniteSets

CONSTANT MaxLate   \* bound: the requests given up that are still under way

VARIABLES
  sp,      \* where Worker.Run is, or "down" when there is no pod
  L,       \* who holds w.L: "free", "start", "http", or Halt before ("halt") and after
           \* ("wait") it has sent its message
  state,   \* the state of the mirror job
  said,    \* the last message of the current run, "start" before it, or "idle"
  ctrl,    \* ctrlChan, or "none"
  req,     \* the request to the manager that runSchedule waits for, or "none"
  late,    \* requests given up that the manager will still serve
  cmd      \* the command in the handler of POST /, or "none"

workerVars == <<sp, L, state, said, ctrl, req, late, cmd>>
vars == <<managerVars, workerVars>>

Init ==
  /\ ManagerInit
  /\ sp = "down" /\ L = "free" /\ state = "None" /\ said = "idle"
  /\ ctrl = "none" /\ req = "none" /\ late = {} /\ cmd = "none"

\* The messages that may follow one in a run of the job, "idle" for its end.  A
\* run whose process cannot be terminated ends without a message.
Follows ==
  [start |-> {"PreSyncing"}, PreSyncing |-> {"Syncing", "Failed"}, Syncing |-> {"Success", "Failed", "idle"},
   Success |-> {"idle"}, Failed |-> {"Syncing", "Failed", "idle"}, idle |-> {}]

\* the handler that serves request r; a read changes nothing
Serve(r) ==
  \/ r = "register" /\ registerMirror
  \/ r = "schedule" /\ updateSchedule
  \/ r \in Reports /\ updateJob(r)
  \/ r = "get" /\ rwmu = "free" /\ UNCHANGED managerVars

-----------------------------------------------------------------------------
(* The worker                                                              *)

\* a pod starts, and Run begins with registerWorker
Boot ==
  /\ sp = "down"
  /\ job # NoJob
  /\ sp' = "register" /\ req' = "register"
  /\ UNCHANGED <<managerVars, L, state, said, ctrl, late, cmd>>

fetchUnlocked ==
  /\ sp = "lock"
  /\ sp' = "fetch" /\ req' = "get"
  /\ UNCHANGED <<managerVars, L, state, said, ctrl, late, cmd>>

\* runSchedule locks w.L and asks for the status: fetchJobStatus
fetchJobStatus ==
  /\ sp = "lock"
  /\ L = "free"
  /\ L' = "start" /\ sp' = "fetch" /\ req' = "get"
  /\ UNCHANGED <<managerVars, state, said, ctrl, late, cmd>>

\* the state that runSchedule gives the job for the status it got; none for an error
StoredState(status) == IF status \in {"Paused", "Disabled"} THEN status ELSE "None"

\* The worker goes on after the request it waited for.  status is the one
\* fetched; HandleRequest does not look at the answer of the others.
Continue(status) ==
  \/ /\ sp = "register"
     /\ sp' = "lock" /\ req' = "none"
     /\ UNCHANGED <<L, state>>
  \/ /\ sp = "fetch"
     /\ state' = StoredState(status)
     /\ L' = "free" /\ sp' = "post" /\ req' = "schedule"
  \/ /\ sp = "patch"
     /\ sp' = "post" /\ req' = "schedule"
     /\ UNCHANGED <<L, state>>
  \/ /\ sp = "post"
     /\ sp' = "loop" /\ req' = "none"
     /\ UNCHANGED <<L, state>>

Reply ==
  /\ Serve(req)
  /\ Continue(GetJob.status.status)
  /\ UNCHANGED <<said, ctrl, late, cmd>>

Abandon(r) ==
  late' \in {late} \cup {late \cup {q} : q \in {r} \cap ({"register", "schedule"} \cup Reports)}

\* no answer within 5 seconds, or no connection; registerWorker tries again
GiveUp ==
  /\ req # "none"
  /\ Abandon(req) /\ Cardinality(late') <= MaxLate
  /\ \/ Continue("")
     \/ sp = "register" /\ UNCHANGED <<sp, L, state, req>>
  /\ UNCHANGED <<managerVars, said, ctrl, cmd>>

ServeLate ==
  \E r \in late : /\ Serve(r)
                  /\ late' = late \ {r}
                  /\ UNCHANGED <<sp, L, state, said, ctrl, req, cmd>>

\* runSchedule takes a message of the job, checks the state and sends a report
updateStatus ==
  /\ sp = "loop"
  /\ state \in {"Ready", "Halting"}
  /\ \E m \in Follows[said] \cap Reports : said' = m /\ req' = m
  /\ sp' = "patch"
  /\ UNCHANGED <<managerVars, L, state, ctrl, late, cmd>>

RunEnds ==
  /\ "idle" \in Follows[said]
  /\ said' = "idle"
  /\ UNCHANGED <<managerVars, sp, L, state, ctrl, req, late, cmd>>

\* the planned run is due
Fire ==
  /\ sp = "loop"
  /\ state \in {"None", "Ready"} /\ said = "idle" /\ ctrl = "none"
  /\ ctrl' = "Start"
  /\ UNCHANGED <<managerVars, sp, L, state, said, req, late, cmd>>

\* mirrorJob.Run takes a control message: a stop ends the run, and what it
\* still says is ignored.  After Halt, which only changes the state of a job
\* that is running, Run has returned.
Control ==
  /\ sp \in {"loop", "patch", "post"}
  /\ ctrl # "none" /\ (L = "wait" => ctrl = "Halt")
  /\ ctrl' = "none"
  /\ \/ ctrl = "Stop" /\ state' = "Paused" /\ said' = "idle"
     \/ ctrl \notin {"Stop", "Halt"} /\ state' = "Ready" /\ said' = IF said = "idle" THEN "start" ELSE said
     \/ ctrl = "Halt" /\ state' = (IF said = "idle" THEN state ELSE "Halting") /\ UNCHANGED said
  /\ UNCHANGED <<managerVars, sp, L, req, late, cmd>>

\* the handler of POST /
HttpLock ==
  /\ cmd # "none"
  /\ L = "free"
  /\ L' = "http"
  /\ UNCHANGED <<managerVars, sp, state, said, ctrl, req, late, cmd>>

HttpSend ==
  /\ L = "http"
  /\ \/ cmd = "Stop" /\ state = "Disabled" /\ UNCHANGED ctrl
     \/ ~(cmd = "Stop" /\ state = "Disabled") /\ ctrl = "none" /\ ctrl' = cmd
  /\ L' = "free" /\ cmd' = "none"
  /\ Answer
  /\ UNCHANGED <<sp, state, said, req, late>>

\* Halt, on a signal
HaltLock ==
  /\ sp # "down"
  /\ L = "free"
  /\ L' = "halt"
  /\ UNCHANGED <<managerVars, sp, state, said, ctrl, req, late, cmd>>

HaltSend ==
  /\ L = "halt"
  /\ \/ state = "Disabled" /\ UNCHANGED ctrl
     \/ state # "Disabled" /\ ctrl = "none" /\ ctrl' = "Halt"
  /\ L' = "wait"
  /\ UNCHANGED <<managerVars, sp, state, said, req, late, cmd>>

\* the pod goes away, after Halt or without it
Crash ==
  /\ sp # "down"
  /\ sp' = "down" /\ L' = "free" /\ state' = "None" /\ said' = "idle"
  /\ ctrl' = "none" /\ req' = "none" /\ cmd' = "none"
  /\ Abandon(req) /\ Cardinality(late') <= MaxLate
  /\ UNCHANGED managerVars

\* a command reaches the worker if its server is up
Command ==
  /\ cmd = "none"
  /\ \E c \in Commands : /\ handleClientCmd(c)
                         /\ cmd' = IF sp \in {"down", "register"} THEN "none" ELSE post'
  /\ UNCHANGED <<sp, L, state, said, ctrl, req, late>>

Worker ==
  \/ Boot \/ fetchJobStatus \/ updateStatus \/ RunEnds \/ Fire \/ Control
  \/ HttpLock \/ HttpSend \/ HaltLock \/ HaltSend

Next ==
  \/ Worker \/ Reply \/ GiveUp \/ ServeLate \/ Crash \/ Command
  \/ (Sync \/ Dashboard \/ PostReturns) /\ UNCHANGED workerVars

Spec == Init /\ [][Next]_vars

\* The goroutines of the worker run on and the manager's calls return; rwmu is
\* handed to those who wait for it.  Nothing makes the worker give up.
Fairness ==
  /\ WF_vars(PostReturns /\ UNCHANGED workerVars)
  /\ SF_vars(Reply)
  /\ WF_vars(fetchJobStatus) /\ WF_vars(Control) /\ SF_vars(HttpLock) /\ WF_vars(HttpSend)

FairSpec == Spec /\ Fairness

-----------------------------------------------------------------------------
(* Properties                                                              *)

\* The variables have their types; w.L is held by start-up exactly while it
\* waits for the status, and rwmu exactly while a stop command is under way.
SystemTypeOK ==
  /\ RegisterTypeOK
  /\ sp \in {"down", "register", "lock", "fetch", "patch", "post", "loop"}
  /\ L = "start" <=> sp = "fetch"
  /\ L = "http" => cmd # "none"
  /\ rwmu = "cmd" <=> post = "Stop"
  /\ state \in {"None", "Ready", "Paused", "Disabled", "Halting"}
  /\ said \in DOMAIN Follows /\ late \subseteq {"register", "schedule"} \cup Reports

\* The manager never keeps rwmu: a stop command that calls a worker whose
\* start-up waits for rwmu, with the mutex that the command needs, ends.
LockReleased == rwmu = "cmd" ~> rwmu = "free"

\* Start-up does not wait for ever with w.L held.
StartupCompletes == sp = "fetch" ~> sp # "fetch"

\* A job that the manager stores as Paused and the worker has paused is not
\* reported as failed: the failure signal of a paused job is ignored.
PauseKept ==
  [][state = "Paused" /\ job.status.status = "Paused" /\ job' # NoJob
       => job'.status.status # "Failed"]_vars
=============================================================================
