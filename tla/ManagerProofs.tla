---------------------------- MODULE ManagerProofs ----------------------------
(***************************************************************************)
(* Theorems about the register and the manager: the times of a job stay in *)
(* order, and the manager with its lagging cache implements the register.  *)
(***************************************************************************)
EXTENDS Manager, TLAPS

-----------------------------------------------------------------------------
(* What requests make of a status                                          *)

\* A status with times that are in order at the time now.
InOrder(s, now) ==
  /\ s.lastUpdate <= s.lastEnded
  /\ s.lastStarted <= now /\ s.lastEnded <= now /\ s.lastRegister <= now
  /\ s.status = "Success" => s.lastUpdate = s.lastEnded

\* The times of t are not before those of s.
NotBefore(s, t) ==
  /\ s.lastUpdate <= t.lastUpdate /\ s.lastStarted <= t.lastStarted
  /\ s.lastEnded <= t.lastEnded /\ s.lastRegister <= t.lastRegister

\* The report of a worker, as updateJob stores it, keeps types and order.
LEMMA ReportedGood ==
  ASSUME NEW s \in JobStatus, NEW clk \in Time, NEW now \in Time, clk <= now, InOrder(s, clk),
         NEW status \in {"PreSyncing", "Syncing", "Success", "Failed"}, NEW size \in Sizes
  PROVE  LET t == Reported(s, status, size, now)
         IN t \in JobStatus /\ InOrder(t, now) /\ NotBefore(s, t)
<1> DEFINE t == Reported(s, status, size, now)
<1>1. t \in JobStatus
  <2>1. 0 \in Time
    BY RegisterAssumption DEF Time
  <2> QED
    BY <2>1 DEF JobStatus, Reported, SyncStatus
<1>2. /\ t.status = status /\ t.lastRegister = s.lastRegister
      /\ t.lastStarted \in {s.lastStarted, now}
      /\ t.lastUpdate = IF status = "Success" THEN now ELSE s.lastUpdate
      /\ t.lastEnded = IF status \in {"Success", "Failed"} THEN now ELSE s.lastEnded
  BY DEF JobStatus, Reported
<1>3. /\ s.lastUpdate \in Nat /\ s.lastStarted \in Nat /\ s.lastEnded \in Nat
      /\ s.lastRegister \in Nat /\ clk \in Nat /\ now \in Nat
  BY RegisterAssumption DEF JobStatus, Time
<1>4. InOrder(t, now) /\ NotBefore(s, t)
  BY <1>2, <1>3 DEF InOrder, NotBefore
<1> QED
  BY <1>1, <1>4

\* So does every other request.
LEMMA OutcomeGood ==
  ASSUME NEW s \in JobStatus, NEW clk \in Time, NEW now \in Time, clk <= now, InOrder(s, clk),
         NEW t \in Outcomes(s, now)
  PROVE  t \in JobStatus /\ InOrder(t, now) /\ NotBefore(s, t)
<1>0. /\ s.lastUpdate \in Nat /\ s.lastStarted \in Nat /\ s.lastEnded \in Nat
      /\ s.lastRegister \in Nat /\ clk \in Nat /\ now \in Nat
  BY RegisterAssumption DEF JobStatus, Time
<1>1. CASE t = Registered(s, now)
  BY <1>0, <1>1 DEF Registered, JobStatus, InOrder, NotBefore
<1>2. ASSUME NEW next \in Time, t = Scheduled(s, next)
      PROVE  t \in JobStatus /\ InOrder(t, now) /\ NotBefore(s, t)
  BY <1>0, <1>2 DEF Scheduled, JobStatus, InOrder, NotBefore
<1>3. ASSUME NEW status \in {"PreSyncing", "Syncing", "Success", "Failed"}, NEW size \in Sizes,
             t = Reported(s, status, size, now)
      PROVE  t \in JobStatus /\ InOrder(t, now) /\ NotBefore(s, t)
  BY <1>3, ReportedGood
<1>4. ASSUME NEW size \in Sizes, t = Sized(s, size)
      PROVE  t \in JobStatus /\ InOrder(t, now) /\ NotBefore(s, t)
  BY <1>0, <1>4 DEF Sized, JobStatus, InOrder, NotBefore
<1>5. ASSUME NEW status \in {"Created", "Disabled", "Paused"}, t = Marked(s, status)
      PROVE  t \in JobStatus /\ InOrder(t, now) /\ NotBefore(s, t)
  <2>1. t \in JobStatus
    BY <1>5 DEF Marked, JobStatus, SyncStatus
  <2>2. /\ t.status = status /\ status # "Success" /\ t.lastUpdate = s.lastUpdate
        /\ t.lastStarted = s.lastStarted /\ t.lastEnded = s.lastEnded
        /\ t.lastRegister = s.lastRegister
    BY <1>5 DEF Marked, JobStatus
  <2> QED
    BY <1>0, <2>1, <2>2 DEF InOrder, NotBefore
<1> QED
  BY <1>1, <1>2, <1>3, <1>4, <1>5 DEF Outcomes

-----------------------------------------------------------------------------
(* The register                                                            *)

\* The inductive invariant: types, with the times in order.
RegisterInv == RegisterTypeOK /\ InOrder(job.status, clock)

LEMMA NowAndTime ==
  ASSUME clock \in Time, NEW now \in Now
  PROVE  now \in Time /\ clock <= now
  BY RegisterAssumption DEF Now, Time

LEMMA OrderLater ==
  ASSUME NEW s \in JobStatus, NEW clk \in Time, NEW now \in Time, clk <= now, InOrder(s, clk)
  PROVE  InOrder(s, now)
<1>1. /\ s.lastUpdate \in Nat /\ s.lastStarted \in Nat /\ s.lastEnded \in Nat
      /\ s.lastRegister \in Nat /\ clk \in Nat /\ now \in Nat
  BY RegisterAssumption DEF JobStatus, Time
<1> QED
  BY <1>1 DEF InOrder

LEMMA StatusTyped ==
  ASSUME RegisterTypeOK
  PROVE  job.status \in JobStatus
<1>1. NoStatus \in JobStatus
  BY RegisterAssumption DEF NoStatus, JobStatus, SyncStatus, Time
<1> QED
  BY <1>1 DEF RegisterTypeOK, Job, NoJob

\* A write gives the object a version that is new, and what is written.
LEMMA WriteTyped ==
  ASSUME RegisterTypeOK, rev < MaxRev, rev' = rev + 1,
         NEW spec \in [Keys -> Values], NEW status \in JobStatus,
         job' = [rv |-> rev + 1, spec |-> spec, status |-> status]
  PROVE  rev' \in 0..MaxRev /\ job' \in Job /\ job'.rv = rev' /\ job'.status = status /\ job' # NoJob
  BY RegisterAssumption DEF RegisterTypeOK, Job, NoJob

LEMMA JobRecord ==
  ASSUME RegisterTypeOK
  PROVE  /\ job = [rv |-> job.rv, spec |-> job.spec, status |-> job.status]
         /\ job.spec \in [Keys -> Values]
  BY RegisterAssumption DEF RegisterTypeOK, Job, NoJob

\* A step of the register keeps the invariant, and no time goes back.
LEMMA RegisterStep ==
  ASSUME RegisterInv, RegisterNext
  PROVE  /\ RegisterInv'
         /\ job # NoJob /\ job' # NoJob => NotBefore(job.status, job'.status)
<1> USE DEF RegisterInv
<1>a. job.status \in JobStatus /\ clock \in Time /\ rev \in 0..MaxRev
  BY StatusTyped DEF RegisterTypeOK
<1>b. NotBefore(job.status, job.status)
  BY <1>a, RegisterAssumption DEF NotBefore, JobStatus, Time
<1>1. CASE RegisterUpdate
  <2>1. PICK now \in Now : clock' = now /\ job # NoJob /\ \E status \in Outcomes(job.status, now) : Update(job, status)
    BY <1>1 DEF RegisterUpdate
  <2>2. PICK status \in Outcomes(job.status, now) : Update(job, status)
    BY <2>1
  <2>3. now \in Time /\ clock <= now
    BY <1>a, NowAndTime
  <2>4. status \in JobStatus /\ InOrder(status, now) /\ NotBefore(job.status, status)
    BY <1>a, <2>3, OutcomeGood
  <2>5. CASE UNCHANGED <<job, rev>>
    BY <2>1, <2>3, <2>5, <1>a, <1>b, OrderLater DEF RegisterTypeOK
  <2>6. CASE rev < MaxRev /\ rev' = rev + 1 /\ job' = [job EXCEPT !.rv = rev + 1, !.status = status]
    <3>1. job' = [rv |-> rev + 1, spec |-> job.spec, status |-> status] /\ job.spec \in [Keys -> Values]
      BY <2>6, JobRecord
    <3>2. rev' \in 0..MaxRev /\ job' \in Job /\ job'.rv = rev' /\ job'.status = status
      BY <2>6, <2>4, <3>1, WriteTyped
    <3> QED
      BY <3>2, <2>1, <2>3, <2>4 DEF RegisterTypeOK
  <2> QED
    BY <2>2, <2>5, <2>6 DEF Update
<1>2. CASE RegisterApply
  <2>1. PICK spec \in [Keys -> Values] : clock' = clock /\ Apply(spec)
    BY <1>2 DEF RegisterApply
  <2>2. CASE UNCHANGED <<job, rev>>
    BY <2>1, <2>2, <1>a, <1>b DEF RegisterTypeOK
  <2>3. CASE rev < MaxRev /\ rev' = rev + 1 /\ job' = [job EXCEPT !.rv = rev + 1, !.spec = spec]
    <3>1. job' = [rv |-> rev + 1, spec |-> spec, status |-> job.status]
      BY <2>3, JobRecord
    <3>2. rev' \in 0..MaxRev /\ job' \in Job /\ job'.rv = rev' /\ job'.status = job.status
      BY <2>3, <1>a, <3>1, WriteTyped
    <3> QED
      BY <3>2, <2>1, <1>a, <1>b DEF RegisterTypeOK
  <2> QED
    BY <2>1, <2>2, <2>3 DEF Apply
<1>3. CASE RegisterDelete
  <2>1. job' = NoJob /\ rev' = rev /\ clock' = clock
    BY <1>3 DEF RegisterDelete
  <2>2. InOrder(NoStatus, clock)
    BY <1>a, RegisterAssumption DEF InOrder, NoStatus, Time
  <2> QED
    BY <2>1, <2>2, <1>a DEF RegisterTypeOK, NoJob
<1>4. CASE RegisterTick
  <2>1. clock' \in Time /\ clock <= clock' /\ job' = job /\ rev' = rev
    BY <1>4, <1>a, NowAndTime DEF RegisterTick
  <2> QED
    BY <2>1, <1>a, <1>b, OrderLater DEF RegisterTypeOK
<1> QED
  BY <1>1, <1>2, <1>3, <1>4 DEF RegisterNext

\* The empty register satisfies it.
LEMMA RegisterStart == RegisterInit => RegisterInv
<1> SUFFICES ASSUME RegisterInit PROVE RegisterInv
  OBVIOUS
<1>1. job = NoJob /\ rev = 0 /\ clock = 1 /\ 1 \in Time /\ 0 \in 0..MaxRev
  BY RegisterAssumption DEF RegisterInit, Time
<1>2. job.status = NoStatus
  BY <1>1 DEF NoJob
<1>3. InOrder(NoStatus, 1)
  BY DEF InOrder, NoStatus
<1> QED
  BY <1>1, <1>2, <1>3 DEF RegisterInv, RegisterTypeOK

\* Every behaviour of the register keeps its invariant.
THEOREM RegisterInvariant == RegisterSpec => []RegisterInv
<1>1. RegisterInit => RegisterInv
  BY RegisterStart
<1>2. RegisterInv /\ [RegisterNext]_registerVars => RegisterInv'
  <2>1. ASSUME RegisterInv, UNCHANGED registerVars PROVE RegisterInv'
    BY <2>1 DEF RegisterInv, RegisterTypeOK, InOrder, registerVars
  <2> QED
    BY <2>1, RegisterStep
<1> QED
  BY <1>1, <1>2, PTL DEF RegisterSpec

\* The times of a job fit together, for every bound on time and writes, every
\* set of sizes and every order of requests: TimesOrdered.
THEOREM TimesOrderedHolds == RegisterSpec => []TimesOrdered
<1>1. RegisterInv => TimesOrdered
  <2> SUFFICES ASSUME RegisterInv PROVE TimesOrdered
    OBVIOUS
  <2>1. InOrder(job.status, clock)
    BY DEF RegisterInv
  <2> QED
    BY <2>1 DEF InOrder, TimesOrdered
<1> QED
  BY <1>1, RegisterInvariant, PTL

\* No request takes back a time that another one stored: TimesMonotone.
THEOREM TimesMonotoneHolds == RegisterSpec => TimesMonotone
<1> DEFINE Kept == job # NoJob /\ job' # NoJob =>
                     \A t \in {"lastUpdate", "lastStarted", "lastEnded", "lastRegister"} :
                       job.status[t] <= job'.status[t]
<1>1. RegisterInv /\ RegisterNext => Kept
  <2> SUFFICES ASSUME RegisterInv, RegisterNext, job # NoJob, job' # NoJob
               PROVE  \A t \in {"lastUpdate", "lastStarted", "lastEnded", "lastRegister"} :
                        job.status[t] <= job'.status[t]
    OBVIOUS
  <2>1. NotBefore(job.status, job'.status)
    BY RegisterStep
  <2> QED
    BY <2>1 DEF NotBefore
<1>2. RegisterInv /\ [RegisterNext]_registerVars => [Kept]_registerVars
  BY <1>1
<1> QED
  BY <1>2, RegisterInvariant, PTL DEF RegisterSpec, TimesMonotone

-----------------------------------------------------------------------------
(* The manager                                                             *)

\* The cache has a version that the API server gave out, and the version of
\* the object only together with its contents: what makes the check of the
\* version in Update enough.
Coherent ==
  /\ RegisterTypeOK
  /\ cache = NoJob \/ (cache \in Job /\ cache.rv <= rev)
  /\ cache.rv = job.rv => cache = job

\* A write, or a deletion, leaves a coherent cache coherent.
LEMMA WriteCoherent ==
  ASSUME Coherent, RegisterTypeOK', cache' = cache, rev' \in Nat, rev <= rev',
         \/ job' = job \/ job' = NoJob
         \/ rev' = rev + 1 /\ job'.rv = rev'
  PROVE  Coherent'
<1>1. rev \in Nat /\ (cache = NoJob \/ (cache \in Job /\ cache.rv <= rev'))
  BY RegisterAssumption DEF Coherent, RegisterTypeOK, Job
<1>2. CASE job' = job
  BY <1>1, <1>2 DEF Coherent
<1>3. CASE job' = NoJob
  BY <1>1, <1>3 DEF Coherent, Job, NoJob
<1>4. CASE rev' = rev + 1 /\ job'.rv = rev'
  BY <1>1, <1>4 DEF Coherent, Job, NoJob
<1> QED
  BY <1>2, <1>3, <1>4

\* An update made with the cache is one made with the object, or refused.
LEMMA UpdateFromCache ==
  ASSUME Coherent, NEW now \in Now, clock' = now, NEW Out, Out \in Outcomes(cache.status, now),
         Update(cache, Out)
  PROVE  RegisterNext
<1>1. CASE UNCHANGED <<job, rev>>
  BY <1>1 DEF RegisterNext, RegisterTick
<1>2. CASE job # NoJob /\ cache.rv = job.rv
  <2>1. cache = job
    BY <1>2 DEF Coherent
  <2> QED
    BY <1>2, <2>1 DEF RegisterNext, RegisterUpdate
<1> QED
  BY <1>1, <1>2 DEF Update

LEMMA ClockNow == ASSUME clock \in Time PROVE clock \in Now
  BY RegisterAssumption DEF Now, Time

\* Every step of the manager is one of the register or leaves it alone.
LEMMA ManagerStep ==
  ASSUME Coherent, ManagerNext
  PROVE  RegisterNext \/ UNCHANGED registerVars
<1> USE DEF GetJob, Handle
<1>0. clock \in Now
  BY ClockNow DEF Coherent, RegisterTypeOK
<1>1. CASE Sync \/ PostReturns \/ Answer
  BY <1>1 DEF Sync, PostReturns, Answer
<1>2. CASE registerMirror
  BY <1>2, UpdateFromCache DEF registerMirror, Outcomes
<1>3. CASE updateSchedule
  BY <1>3, UpdateFromCache DEF updateSchedule, Outcomes
<1>4. ASSUME NEW status \in Reports, updateJob(status) PROVE RegisterNext
  BY <1>4, UpdateFromCache DEF updateJob, Outcomes, Reports
<1>5. CASE updateMirrorSize
  BY <1>5, <1>0, UpdateFromCache DEF updateMirrorSize, Outcomes
<1>6. CASE enableJob \/ disableJob
  BY <1>6, UpdateFromCache DEF enableJob, disableJob, Outcomes
<1>7. CASE createJob
  <2>1. cache.spec \in [Keys -> Values]
    BY RegisterAssumption DEF Coherent, Job, NoJob
  <2>2. PICK named \in SUBSET Keys : \E given \in [named -> Values] : Apply(handleMerge(cache.spec, given))
    BY <1>7 DEF createJob
  <2>3. PICK given \in [named -> Values] : Apply(handleMerge(cache.spec, given))
    BY <2>2
  <2>4. handleMerge(cache.spec, given) \in [Keys -> Values]
    BY <2>1 DEF handleMerge
  <2> QED
    BY <1>7, <2>3, <2>4 DEF createJob, RegisterNext, RegisterApply
<1>8. CASE deleteJob
  BY <1>8 DEF deleteJob, RegisterNext, RegisterDelete
<1>9. CASE ReconcileStatus
  <2>1. Marked(job.status, "Created") \in Outcomes(job.status, clock)
    BY DEF Outcomes
  <2>2. clock' = clock /\ Update(job, Marked(job.status, "Created"))
    BY <1>9 DEF ReconcileStatus
  <2>3. CASE job # NoJob
    BY <1>0, <2>1, <2>2, <2>3 DEF RegisterNext, RegisterUpdate
  <2>4. CASE job = NoJob
    BY <2>2, <2>4 DEF Update, registerVars
  <2> QED
    BY <2>3, <2>4
<1>10. ASSUME NEW c \in Commands, handleClientCmd(c) PROVE RegisterNext \/ UNCHANGED registerVars
  <2>1. CASE c # "Stop" /\ UNCHANGED registerVars
    BY <2>1
  <2>2. CASE (\E now \in Now : clock' = now) /\ Update(cache, Marked(cache.status, "Paused"))
    BY <2>2, UpdateFromCache DEF Outcomes
  <2> QED
    BY <1>10, <2>1, <2>2 DEF handleClientCmd
<1> QED
  BY <1>1, <1>2, <1>3, <1>4, <1>5, <1>6, <1>7, <1>8, <1>9, <1>10 DEF ManagerNext, Requests, Dashboard

\* What a step of the register does to versions.
LEMMA RegisterVersions ==
  ASSUME RegisterTypeOK, RegisterNext \/ UNCHANGED registerVars
  PROVE  /\ \/ job' = job /\ rev' = rev
            \/ job' = NoJob /\ rev' = rev
            \/ rev' = rev + 1 /\ job'.rv = rev'
<1>1. job = [rv |-> job.rv, spec |-> job.spec, status |-> job.status]
  BY JobRecord
<1> QED
  BY <1>1 DEF RegisterNext, RegisterUpdate, RegisterApply, RegisterDelete, RegisterTick, Update, Apply, registerVars

\* The cache of the manager stays coherent.
THEOREM CacheCoherent == ManagerSpec => [](Coherent /\ RegisterInv)
<1>1. ManagerInit => Coherent /\ RegisterInv
  <2>1. RegisterInit => RegisterInv
    BY RegisterStart
  <2> QED
    BY <2>1 DEF ManagerInit, RegisterInit, Coherent, RegisterInv
<1>2. Coherent /\ RegisterInv /\ [ManagerNext]_managerVars => Coherent' /\ RegisterInv'
  <2> SUFFICES ASSUME Coherent, RegisterInv, [ManagerNext]_managerVars
               PROVE  Coherent' /\ RegisterInv'
    OBVIOUS
  <2>1. RegisterNext \/ UNCHANGED registerVars
    BY ManagerStep DEF managerVars
  <2>2. RegisterInv'
    <3>1. CASE UNCHANGED registerVars
      BY <3>1 DEF RegisterInv, RegisterTypeOK, InOrder, registerVars
    <3> QED
      BY <2>1, <3>1, RegisterStep
  <2>3. CASE Sync
    BY <2>2, <2>3 DEF Sync, Coherent, RegisterInv, RegisterTypeOK, registerVars
  <2>4. CASE cache' = cache
    <3>1. RegisterTypeOK' /\ rev \in Nat /\ rev' \in Nat
      BY <2>2, RegisterAssumption DEF RegisterInv, RegisterTypeOK
    <3> QED
      BY <2>1, <2>4, <2>2, <3>1, RegisterVersions, WriteCoherent DEF Coherent
  <2>5. Sync \/ cache' = cache
    BY DEF ManagerNext, managerVars, requestVars, Requests, Dashboard, registerMirror, updateSchedule, updateJob,
           updateMirrorSize, enableJob, disableJob, createJob, deleteJob, ReconcileStatus, handleClientCmd,
           PostReturns, Answer, Handle
  <2> QED
    BY <2>2, <2>3, <2>4, <2>5
<1> QED
  BY <1>1, <1>2, PTL DEF ManagerSpec

\* The manager, reading a cache that lags behind and relying on the version
\* check alone, implements the register, for all constants: RegisterSpec.
THEOREM ManagerImplementsRegister == ManagerSpec => RegisterSpec
<1>1. ManagerInit => RegisterInit
  BY DEF ManagerInit
<1>2. Coherent /\ [ManagerNext]_managerVars => [RegisterNext]_registerVars
  BY ManagerStep DEF managerVars
<1> QED
  BY <1>1, <1>2, CacheCoherent, PTL DEF ManagerSpec, RegisterSpec

\* So the times of a job are in order and do not go back under the manager.
THEOREM ManagerKeepsTimes == ManagerSpec => []TimesOrdered /\ TimesMonotone
  BY ManagerImplementsRegister, TimesOrderedHolds, TimesMonotoneHolds, PTL

\* Only updateMirrorSize erases a size.
LEMMA SizeOutcome ==
  ASSUME NEW s \in JobStatus, NEW now \in Time, NEW t \in Outcomes(s, now), s.size > 0, t.size = 0
  PROVE  t = [s EXCEPT !.size = 0]
<1>1. CASE t = Registered(s, now)
  BY <1>1 DEF Registered, JobStatus
<1>2. ASSUME NEW next \in Time, t = Scheduled(s, next) PROVE FALSE
  BY <1>2 DEF Scheduled, JobStatus
<1>3. ASSUME NEW status \in {"PreSyncing", "Syncing", "Success", "Failed"}, NEW size \in Sizes,
             t = Reported(s, status, size, now)
      PROVE  FALSE
  <2>1. t.size = IF size = 0 THEN s.size ELSE size
    BY <1>3 DEF Reported, JobStatus
  <2> QED
    BY <2>1
<1>4. ASSUME NEW size \in Sizes, t = Sized(s, size) PROVE t = [s EXCEPT !.size = 0]
  BY <1>4 DEF Sized, JobStatus
<1>5. ASSUME NEW status \in {"Created", "Disabled", "Paused"}, t = Marked(s, status) PROVE FALSE
  BY <1>5 DEF Marked, JobStatus
<1> QED
  BY <1>1, <1>2, <1>3, <1>4, <1>5 DEF Outcomes

\* A known size is erased by updateMirrorSize only, and no report, command or
\* edit changes anything with it: SizeKept.
THEOREM SizeKeptHolds == ManagerSpec => SizeKept
<1> DEFINE Kept == job # NoJob /\ job' # NoJob /\ job.status.size > 0 /\ job'.status.size = 0
                     => job' = [job EXCEPT !.rv = rev', !.status.size = 0]
<1>1. Coherent /\ RegisterInv /\ [ManagerNext]_managerVars => [Kept]_managerVars
  <2> SUFFICES ASSUME Coherent, RegisterInv, ManagerNext, job # NoJob, job' # NoJob,
                      job.status.size > 0, job'.status.size = 0
               PROVE  job' = [job EXCEPT !.rv = rev', !.status.size = 0]
    OBVIOUS
  <2>1. /\ job.status \in JobStatus /\ job = [rv |-> job.rv, spec |-> job.spec, status |-> job.status]
        /\ clock \in Time
    BY StatusTyped, JobRecord DEF RegisterInv, RegisterTypeOK
  <2>2. CASE UNCHANGED job
    BY <2>1, <2>2, RegisterAssumption DEF JobStatus
  <2>3. CASE RegisterUpdate
    <3>1. PICK now \in Now : \E status \in Outcomes(job.status, now) : Update(job, status)
      BY <2>3 DEF RegisterUpdate
    <3>2. PICK status \in Outcomes(job.status, now) : Update(job, status)
      BY <3>1
    <3>3. CASE rev' = rev + 1 /\ job' = [job EXCEPT !.rv = rev + 1, !.status = status]
      <4>1. job'.status = status
        BY <2>1, <3>3
      <4>2. status = [job.status EXCEPT !.size = 0]
        BY <2>1, <4>1, SizeOutcome, NowAndTime
      <4> QED
        BY <2>1, <3>3, <4>2
    <3> QED
      BY <2>2, <3>2, <3>3 DEF Update
  <2>4. CASE RegisterApply
    <3>1. PICK spec : Apply(spec)
      BY <2>4 DEF RegisterApply
    <3>2. job' = job \/ job' = [job EXCEPT !.rv = rev + 1, !.spec = spec]
      BY <3>1 DEF Apply
    <3>3. job'.status = job.status
      BY <2>1, <3>2
    <3> QED
      BY <3>3
  <2> QED
    BY <2>2, <2>3, <2>4, ManagerStep DEF RegisterNext, RegisterDelete, RegisterTick, registerVars
<1> QED
  BY <1>1, CacheCoherent, PTL DEF ManagerSpec, SizeKept

-----------------------------------------------------------------------------
(* mirrorz.json                                                            *)

\* What mirrorZ shows of a status: a letter, with the time that it stands for.
Shows(s, z) ==
  \/ z = <<"S", s.lastUpdate>> /\ s.status = "Success"
  \/ z = <<"D", s.scheduled>> \/ z = <<"Y", s.lastStarted>> \/ z = <<"P", s.lastEnded>>
  \/ z = <<"F", s.lastEnded>> /\ s.status = "Failed"
  \/ z = <<"N", s.lastRegister>> /\ (s.status = "Created" \/ s.lastUpdate = 0)
  \/ z = <<"O", s.lastUpdate>> /\ s.status \in {"Syncing", "Failed"}
  \/ z = <<"X", s.scheduled>>

\* mirrorZ shows nothing else, and no time that is not set.
LEMMA ShownOnly ==
  ASSUME NEW s \in JobStatus, NEW z \in mirrorZ(s)
  PROVE  Shows(s, z) /\ z[2] # 0
<1> DEFINE main == {MainLetters[v] : v \in {w \in {s.status} \cap DOMAIN MainLetters : s[MainLetters[w][2]] # 0}}
           rest == {x \in {<<"X", "scheduled">>, <<"N", "lastRegister">>, <<"O", "lastUpdate">>} :
                      /\ main # {}
                      /\ s[x[2]] # 0
                      /\ x[1] = "N" => s.lastUpdate = 0
                      /\ x[1] = "O" => s.status \in {"Syncing", "Failed"}}
<1>1. PICK x \in main \cup rest : z = <<x[1], s[x[2]]>>
  BY DEF mirrorZ
<1>2. CASE x \in main
  <2>1. PICK v \in DOMAIN MainLetters : v = s.status /\ x = MainLetters[v] /\ s[MainLetters[v][2]] # 0
    BY <1>2
  <2>2. z = <<x[1], s[x[2]]>> /\ z[2] # 0
    BY <1>1, <2>1
  <2>3. v \in {"Success", "PreSyncing", "Syncing", "Failed", "Paused", "Created"}
    BY <2>1 DEF MainLetters
  <2>4. \/ v = "Success" /\ x = <<"S", "lastUpdate">>
        \/ v = "PreSyncing" /\ x = <<"D", "scheduled">>
        \/ v = "Syncing" /\ x = <<"Y", "lastStarted">>
        \/ v = "Failed" /\ x = <<"F", "lastEnded">>
        \/ v = "Paused" /\ x = <<"P", "lastEnded">>
        \/ v = "Created" /\ x = <<"N", "lastRegister">>
    BY <2>1, <2>3 DEF MainLetters
  <2> QED
    BY <2>1, <2>2, <2>4 DEF Shows
<1>3. CASE x \in rest
  <2>1. /\ x \in {<<"X", "scheduled">>, <<"N", "lastRegister">>, <<"O", "lastUpdate">>}
        /\ s[x[2]] # 0
        /\ x[1] = "N" => s.lastUpdate = 0
        /\ x[1] = "O" => s.status \in {"Syncing", "Failed"}
    BY <1>3
  <2> QED
    BY <1>1, <2>1 DEF Shows
<1> QED
  BY <1>1, <1>2, <1>3

\* What mirrorz.json says of a mirror does not contradict itself: no time that is
\* not set, no success of a mirror that is shown as new, and no last success
\* after the failure it is shown with.  The latter needs the order of the times.
THEOREM MirrorZSaneHolds == ManagerSpec => []MirrorZSane
<1>1. RegisterInv => MirrorZSane
  <2> SUFFICES ASSUME RegisterInv PROVE MirrorZSane
    OBVIOUS
  <2> DEFINE s == job.status
  <2>1. s \in JobStatus /\ s.lastUpdate <= s.lastEnded
    BY StatusTyped DEF RegisterInv, InOrder
  <2>2. \A z \in mirrorZ(s) : Shows(s, z) /\ z[2] # 0
    BY <2>1, ShownOnly
  <2> HIDE DEF s
  <2>3. ASSUME NEW x \in mirrorZ(s), NEW y \in mirrorZ(s), x[1] \in {"S", "O"}, y[1] = "N" PROVE FALSE
    <3>1. x[2] = s.lastUpdate /\ s.lastUpdate # 0 /\ s.status \in {"Success", "Syncing", "Failed"}
      BY <2>2, <2>3 DEF Shows
    <3>2. s.status = "Created" \/ s.lastUpdate = 0
      BY <2>2, <2>3 DEF Shows
    <3> QED
      BY <3>1, <3>2
  <2>4. ASSUME NEW x \in mirrorZ(s), NEW y \in mirrorZ(s), x[1] = "O", y[1] = "F" PROVE x[2] <= y[2]
    <3>1. x[2] = s.lastUpdate /\ y[2] = s.lastEnded
      BY <2>2, <2>4 DEF Shows
    <3> QED
      BY <2>1, <3>1
  <2> QED
    BY <2>2, <2>3, <2>4 DEF MirrorZSane, s
<1> QED
  BY <1>1, CacheCoherent, PTL
=============================================================================
