----------------------------- MODULE JobRegister -----------------------------
(***************************************************************************)
(* What the manager promises about the Job object of a mirror: it behaves  *)
(* like one register.  Every request that changes the status reads the     *)
(* register and writes it in one step, although the manager reads a cache  *)
(* that lags behind (module Manager).                                      *)
(***************************************************************************)
EXTENDS Naturals

CONSTANTS
  Keys,       \* the settings of a job's spec, of all its sections
  Values,     \* what a setting may say
  Unset,      \* the value of a setting that is not there
  Sizes,      \* sizes of a mirror, zero for "not known"
  MaxClock,   \* bound: the time
  MaxRev      \* bound: the writes to the API server

ASSUME RegisterAssumption ==
  /\ MaxClock \in Nat \ {0} /\ MaxRev \in Nat
  /\ Sizes \subseteq Nat /\ 0 \in Sizes
  /\ Unset \in Values

VARIABLES
  job,     \* the Job in the API server, or NoJob
  rev,     \* the resource version given out last
  clock    \* the time in seconds

registerVars == <<job, rev, clock>>

\* The times say zero for "never".  LastOnline, which nobody reads, is only
\* kept as the difference it makes to the version: see Update.
Time == 0..MaxClock
SyncStatus == {"", "Created", "PreSyncing", "Syncing", "Success", "Failed", "Paused", "Disabled"}
JobStatus == [status : SyncStatus, size : Sizes, lastUpdate : Time, lastStarted : Time,
              lastEnded : Time, scheduled : Time, lastRegister : Time]
Job == [rv : 1..MaxRev, spec : [Keys -> Values], status : JobStatus]

NoStatus == [status |-> "", size |-> 0, lastUpdate |-> 0, lastStarted |-> 0,
             lastEnded |-> 0, scheduled |-> 0, lastRegister |-> 0]
NoJob == [rv |-> 0, spec |-> [k \in Keys |-> Unset], status |-> NoStatus]

-----------------------------------------------------------------------------
(* What each request makes of a status s                                   *)

\* registerMirror
Registered(s, now) == [s EXCEPT !.lastRegister = now]

\* updateSchedule
Scheduled(s, next) == [s EXCEPT !.scheduled = next]

ReportedSizeLost(s, status, size, now) ==
  [s EXCEPT !.status = status, !.size = size, !.scheduled = 0,
            !.lastStarted = IF status = "PreSyncing" /\ s.status # "PreSyncing" THEN now ELSE @,
            !.lastUpdate = IF status = "Success" THEN now ELSE @,
            !.lastEnded = IF status \in {"Success", "Failed"} THEN now ELSE @]

ReportedEndForgotten(s, status, size, now) ==
  [s EXCEPT !.status = status,
            !.size = IF size = 0 THEN @ ELSE size,
            !.scheduled = 0,
            !.lastStarted = IF status = "PreSyncing" /\ s.status # "PreSyncing" THEN now ELSE @,
            !.lastUpdate = IF status = "Success" THEN now ELSE @,
            !.lastEnded = IF status = "Failed" THEN now ELSE @]

\* what updateJob takes over from the report, and what from the old status; the
\* report has no schedule, so that it says zero until updateSchedule
Reported(s, status, size, now) ==
  [s EXCEPT !.status = status,
            !.size = IF size = 0 THEN @ ELSE size,
            !.scheduled = 0,
            !.lastStarted = IF status = "PreSyncing" /\ s.status # "PreSyncing" THEN now ELSE @,
            !.lastUpdate = IF status = "Success" THEN now ELSE @,
            !.lastEnded = IF status \in {"Success", "Failed"} THEN now ELSE @]

\* updateMirrorSize
Sized(s, size) == [s EXCEPT !.size = size]

\* enableJob, disableJob, the stop command, and the first reconcile
Marked(s, status) == [s EXCEPT !.status = status]

Outcomes(s, now) ==
  {Registered(s, now)} \cup {Scheduled(s, next) : next \in Time}
  \cup {Reported(s, status, size, now) :
          status \in {"PreSyncing", "Syncing", "Success", "Failed"}, size \in Sizes}
  \cup {Sized(s, size) : size \in Sizes}
  \cup {Marked(s, status) : status \in {"Created", "Disabled", "Paused"}}

-----------------------------------------------------------------------------
UpdateBlindly(copy, status) ==
  IF job # NoJob
  THEN \/ /\ rev < MaxRev
          /\ rev' = rev + 1
          /\ job' = [job EXCEPT !.rv = rev + 1, !.status = status]
       \/ status = job.status /\ UNCHANGED <<job, rev>>
  ELSE UNCHANGED <<job, rev>>

\* client.Status().Update of a copy: refused if the object has changed since
\* the copy was made.  When nothing differs, there is a new version only if
\* LastOnline does.
Update(copy, status) ==
  IF job # NoJob /\ copy.rv = job.rv
  THEN \/ /\ rev < MaxRev
          /\ rev' = rev + 1
          /\ job' = [job EXCEPT !.rv = rev + 1, !.status = status]
       \/ status = job.status /\ UNCHANGED <<job, rev>>
  ELSE UNCHANGED <<job, rev>>

\* client.Patch with client.Apply: makes the object or replaces its spec
Apply(spec) ==
  IF job = NoJob \/ spec # job.spec
  THEN /\ rev < MaxRev
       /\ rev' = rev + 1
       /\ job' = [job EXCEPT !.rv = rev + 1, !.spec = spec]
  ELSE UNCHANGED <<job, rev>>

Now == {t \in Time : t \in {clock, clock + 1}}

RegisterInit ==
  /\ job = NoJob
  /\ rev = 0
  /\ clock = 1

RegisterUpdate ==
  \E now \in Now :
    /\ clock' = now
    /\ job # NoJob
    /\ \E status \in Outcomes(job.status, now) : Update(job, status)

RegisterApply == clock' = clock /\ \E spec \in [Keys -> Values] : Apply(spec)

RegisterDelete == job' = NoJob /\ UNCHANGED <<rev, clock>>

\* a request that is refused, or nothing but time
RegisterTick == clock' \in Now /\ UNCHANGED <<job, rev>>

RegisterNext == RegisterUpdate \/ RegisterApply \/ RegisterDelete \/ RegisterTick

RegisterSpec == RegisterInit /\ [][RegisterNext]_registerVars

-----------------------------------------------------------------------------
(* Properties                                                              *)

\* The object and its version have their types, no version is used twice, and
\* no time is in the future.
RegisterTypeOK ==
  /\ rev \in 0..MaxRev
  /\ clock \in Time
  /\ job = NoJob \/ (job \in Job /\ job.rv <= rev)

\* The times of a job fit together: a success is an end, the site is not said
\* to have been updated after its last sync ended, and what the manager stored
\* is not later than now.
TimesOrdered ==
  /\ job.status.lastUpdate <= job.status.lastEnded
  /\ \A t \in {"lastStarted", "lastEnded", "lastRegister"} : job.status[t] <= clock
  /\ job.status.status = "Success" => job.status.lastUpdate = job.status.lastEnded

\* No request takes back what another one stored: as long as the job exists
\* its times do not go back.
TimesMonotone ==
  [][job # NoJob /\ job' # NoJob =>
       \A t \in {"lastUpdate", "lastStarted", "lastEnded", "lastRegister"} :
         job.status[t] <= job'.status[t]]_registerVars
=============================================================================
