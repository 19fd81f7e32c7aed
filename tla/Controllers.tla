----------------------------- MODULE Controllers -----------------------------
(***************************************************************************)
(* The controllers side by side.  They share nothing but the API server,   *)
(* so a behaviour follows the objects of one of them: the Job, the         *)
(* Managers, the announcement or the file entry.                           *)
(***************************************************************************)
EXTENDS JobController, ManagerController, Catalog

VARIABLE scope   \* whose objects are followed

vars == <<jvars, mvars, newsVars, fileVars, scope>>

Init ==
  /\ scope \in {"Job", "Manager", "Announcement", "File"}
  /\ JobControllerInit /\ ManagerControllerInit /\ CatalogInit
  /\ scope # "Manager" => \A m \in Managers : ~mgr[m].here
  /\ scope # "Job" => jobj.spec = CHOOSE spec \in JobSpecs : TRUE

Jobs(step) == scope = "Job" /\ step /\ UNCHANGED <<mvars, newsVars, fileVars, scope>>
Mgrs(step) == scope = "Manager" /\ step /\ UNCHANGED <<jvars, newsVars, fileVars, scope>>
News(step) == scope = "Announcement" /\ step /\ UNCHANGED <<jvars, mvars, fileVars, scope>>
File(step) == scope = "File" /\ step /\ UNCHANGED <<jvars, mvars, newsVars, scope>>

Next ==
  \/ Jobs(JobControllerNext) \/ Mgrs(ManagerControllerNext)
  \/ News(NewsNext) \/ File(FileNext)

Spec == Init /\ [][Next]_vars

\* Caches catch up and the work queues are worked off, also that of Managers,
\* which one reconcile at a time takes from in turn.
Fairness ==
  /\ WF_vars(Jobs(JSync)) /\ WF_vars(Jobs(JReconcile)) /\ WF_vars(Jobs(ManagerActive))
  /\ WF_vars(Mgrs(MReconcile))
  /\ \A m \in Managers : WF_vars(Mgrs(MSync(m))) /\ SF_vars(Mgrs(MBegin(m)))
  /\ WF_vars(News(SyncNews)) /\ WF_vars(News(NReconcile))

FairSpec == Spec /\ Fairness

-----------------------------------------------------------------------------
\* The variables have their types, and an active Manager or a dated
\* announcement exists.
ControllersTypeOK ==
  /\ jobj.spec \in JobSpecs /\ jobj.status \in {"", "Created", "Disabled"}
  /\ jfresh => jcache = jobj
  /\ \A m \in Managers : /\ mgr[m].phase = "Succeeded" => mgr[m].here
                         /\ mfresh[m] => mcache[m] = mgr[m]
  /\ nlag \in {"none", "status", "spec"} /\ (nlag = "none" => ncache = news)
  /\ news.edit # 0 => news.here
  /\ ffresh => fseen = file

\* The JobReconciler brings the objects of its Job to what the spec says: see
\* Converges.
JobsConverge == scope = "Job" => Converges
=============================================================================
