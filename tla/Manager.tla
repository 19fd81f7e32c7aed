------------------------------- MODULE Manager -------------------------------
(***************************************************************************)
(* The manager (manager/server.go) and the Job object of one mirror.  The  *)
(* handlers read the object from a cache that follows the API server with  *)
(* a delay and write their copy back; the API server refuses a copy that   *)
(* is out of date.  A handler holds rwmu from its read to its write, and   *)
(* nothing but the API server can come in between, so each is one step,    *)
(* except the stop command, which holds rwmu while it calls the worker.    *)
(***************************************************************************)
EXTENDS JobRegister

CONSTANT Commands   \* the commands that clients send to the worker

VARIABLES
  cache,     \* the manager's copy of the job
  rwmu,      \* "free", or "cmd" while the stop command calls the worker
  post,      \* the command being posted to the worker, or "none"
  answered   \* the worker has answered it

requestVars == <<rwmu, post, answered>>
managerVars == <<registerVars, cache, requestVars>>

ManagerInit ==
  /\ RegisterInit
  /\ cache = NoJob
  /\ rwmu = "free"
  /\ post = "none"
  /\ answered = FALSE

\* the cache catches up with the API server
Sync ==
  /\ cache # job
  /\ cache' = job
  /\ UNCHANGED <<registerVars, requestVars>>

\* Without a job GetJob returns an error and there is nothing to update; the
\* handlers that go on nevertheless panic on the nil job, which gin recovers.
GetJob == cache

Handle(status) ==
  /\ rwmu = "free"
  /\ Update(GetJob, status)
  /\ UNCHANGED <<cache, requestVars>>

registerMirror == \E now \in Now : clock' = now /\ Handle(Registered(GetJob.status, now))

updateSchedule == \E now \in Now, next \in Time : clock' = now /\ Handle(Scheduled(GetJob.status, next))

updateJob(status) ==
  \E now \in Now, size \in Sizes : clock' = now /\ Handle(Reported(GetJob.status, status, size, now))

updateMirrorSize == \E size \in Sizes : clock' = clock /\ Handle(Sized(GetJob.status, size))

enableJob == \E now \in Now : clock' = now /\ Handle(Marked(GetJob.status, "Created"))

disableJob == \E now \in Now : clock' = now /\ Handle(Marked(GetJob.status, "Disabled"))

\* section by section, the settings given replace the old ones, which are kept
\* where none is given
handleMerge(old, given) == [k \in Keys |-> IF k \in DOMAIN given THEN given[k] ELSE old[k]]

\* createJob, for a new job, which nothing is set of, and for an edit.  What it
\* cannot parse as a spec makes it panic before the patch, and changes nothing.
createJob ==
  /\ rwmu = "free"
  /\ \E named \in SUBSET Keys : \E given \in [named -> Values] : Apply(handleMerge(cache.spec, given))
  /\ UNCHANGED <<clock, cache, requestVars>>

deleteJob ==
  /\ rwmu = "free"
  /\ cache # NoJob
  /\ job' = NoJob
  /\ UNCHANGED <<rev, clock, cache, requestVars>>

\* the end of JobReconciler.Reconcile; its cache is the controller's own, and
\* with a copy that is out of date nothing happens
ReconcileStatus ==
  /\ job.status.status = ""
  /\ Update(job, Marked(job.status, "Created"))
  /\ UNCHANGED <<clock, cache, requestVars>>

handleClientCmdKeepsLock(c) ==
  /\ post = "none"
  /\ rwmu = "free"
  /\ c = "Stop"
  /\ Update(GetJob, Marked(GetJob.status, "Paused"))
  /\ rwmu' = "cmd"
  /\ post' = IF cache # NoJob /\ cache.rv = job.rv THEN c ELSE "none"
  /\ UNCHANGED <<clock, cache, answered>>

\* handleClientCmd up to PostJSON: the stop command stores Paused first and
\* gives up when it cannot
handleClientCmd(c) ==
  /\ post = "none"
  /\ \/ /\ c = "Stop"
        /\ rwmu = "free"
        /\ \E now \in Now : clock' = now
        /\ Update(GetJob, Marked(GetJob.status, "Paused"))
        /\ IF cache # NoJob /\ cache.rv = job.rv
           THEN rwmu' = "cmd" /\ post' = c
           ELSE UNCHANGED <<rwmu, post>>
     \/ c # "Stop" /\ post' = c /\ UNCHANGED <<registerVars, rwmu>>
  /\ UNCHANGED <<cache, answered>>

PostWaits ==
  /\ post # "none"
  /\ answered
  /\ post' = "none"
  /\ rwmu' = "free" /\ answered' = FALSE
  /\ UNCHANGED <<registerVars, cache>>

\* PostJSON returns, at the latest when the client times out after 5 seconds
PostReturns ==
  /\ post # "none"
  /\ post' = "none"
  /\ rwmu' = "free" /\ answered' = FALSE
  /\ UNCHANGED <<registerVars, cache>>

\* the worker has taken up a command; the answer to one given up is lost
Answer == answered' = (post # "none") /\ UNCHANGED <<registerVars, cache, rwmu, post>>

Reports == {"PreSyncing", "Syncing", "Success", "Failed"}

\* the requests of the worker, of the dashboard and of the controller
Requests == registerMirror \/ updateSchedule \/ \E status \in Reports : updateJob(status)
Dashboard == updateMirrorSize \/ enableJob \/ disableJob \/ createJob \/ deleteJob \/ ReconcileStatus

ManagerNext ==
  \/ Sync \/ Requests \/ Dashboard \/ PostReturns \/ Answer
  \/ \E c \in Commands : handleClientCmd(c)

ManagerSpec == ManagerInit /\ [][ManagerNext]_managerVars

\* mirrorZ: the letters and times shown for a mirror, as a set: a new one shows
\* N twice, first and last.  A proxy shows C and no time, whatever its status.
MainLetters ==
  [Success |-> <<"S", "lastUpdate">>, PreSyncing |-> <<"D", "scheduled">>,
   Syncing |-> <<"Y", "lastStarted">>, Failed |-> <<"F", "lastEnded">>,
   Paused |-> <<"P", "lastEnded">>, Created |-> <<"N", "lastRegister">>]

mirrorZNoCheck(s) ==
  {<<x[1], s[x[2]]>> : x \in {MainLetters[v] : v \in {s.status} \cap DOMAIN MainLetters}
     \cup (IF s.status \in {"Syncing", "Failed"} THEN {<<"O", "lastUpdate">>} ELSE {})}

mirrorZ(s) ==
  LET main == {MainLetters[v] : v \in {w \in {s.status} \cap DOMAIN MainLetters : s[MainLetters[w][2]] # 0}}
      rest == {x \in {<<"X", "scheduled">>, <<"N", "lastRegister">>, <<"O", "lastUpdate">>} :
                 /\ main # {}
                 /\ s[x[2]] # 0
                 /\ x[1] = "N" => s.lastUpdate = 0
                 /\ x[1] = "O" => s.status \in {"Syncing", "Failed"}}
  IN {<<x[1], s[x[2]]>> : x \in main \cup rest}

-----------------------------------------------------------------------------
(* Properties                                                              *)

\* A size that is known stays known: reports without one do not erase it, and
\* only updateMirrorSize can set it to zero.
SizeKept ==
  [][job # NoJob /\ job' # NoJob /\ job.status.size > 0 /\ job'.status.size = 0
       => job' = [job EXCEPT !.rv = rev', !.status.size = 0]]_managerVars

\* What mirrorz shows fits together: no letter with time zero, a mirror
\* is not shown as new once it has synced unless it was enabled again, and the
\* last success is not later than the failure shown next to it.
MirrorZSane ==
  LET shown == mirrorZ(job.status)
  IN /\ \A x \in shown : x[2] # 0
     /\ (\E x \in shown : x[1] \in {"S", "O"}) => ~\E x \in shown : x[1] = "N"
     /\ \A x, y \in shown : x[1] = "O" /\ y[1] = "F" => x[2] <= y[2]
=============================================================================
