---------------------------- MODULE SyncRunProofs ----------------------------
(***************************************************************************)
(* Theorems about SyncRun with the providers of one stage, for any number  *)
(* of calls in the provider, any list of hooks, and every number of        *)
(* attempts, tokens and slots.                                             *)
(***************************************************************************)
EXTENDS SyncRun, FiniteSetTheorems, TLAPS

Busy == {"await", "running", "signal"}   \* where a runner waits for its sync

RunnerType ==
  [pc : {"select", "dropped", "presync", "prehooks", "syncing", "await", "running", "signal",
         "posthooks", "hookfail", "report", "send", "done", "closed"},
   kill : BOOLEAN, holds : BOOLEAN, retry : Int,
   sync : {"none", "spawned", "running", "finishing", "ok", "err"},
   result : {"ok", "err", "killed"}, again : BOOLEAN]

CallType ==
  [pc : {"none", "lock", "open", "exec", "wait", "waiting", "unset", "rest", "fail"},
   stage : {1}, waits : Procs \cup {<<>>}, attempt : BOOLEAN]

Typed ==
  /\ lock \in {"free", "term"} \cup Calls
  /\ isRunning \in BOOLEAN /\ term \in BOOLEAN
  /\ isRunning => cmd \in Procs
  /\ ps \in [Procs -> {"none", "alive", "exited", "reaped"}]
  /\ sig \in [Procs -> {"none", "term", "kill"}]
  /\ call \in [Calls -> CallType]
  /\ run \in [Loops -> RunnerType]
  /\ loop \in [Loops -> {"none", "spawned", "top", "wait", "join", "idle", "leaving", "exited"}]
  /\ after \in [Loops -> {"idle", "top", "leaving"}]

\* A call holds the mutex until its process is started; from then on until
\* isRunning is unset p.cmd is its process, and no other process is there.
CallOK(c) ==
  /\ lock = c <=> call[c].pc \in {"open", "exec"}
  /\ call[c].pc \in {"open", "exec"} => ~isRunning
  /\ call[c].pc \in {"exec", "wait", "waiting", "unset"} => cmd = <<c, 1>>
  /\ call[c].pc \in {"wait", "waiting", "unset"} => isRunning
  /\ call[c].pc \in {"wait", "waiting"} => ps[<<c, 1>>] \in {"alive", "exited"}
  /\ call[c].pc = "waiting" => call[c].waits = <<c, 1>>
  /\ call[c].pc = "unset" => ps[<<c, 1>>] = "reaped"
  /\ ps[<<c, 1>>] \in {"alive", "exited"} => call[c].pc \in {"wait", "waiting"}

\* A call that has yet to start its process is that of the current attempt,
\* and the runner knows how far the call of its attempt has come.
AttemptOK(c) ==
  /\ call[c].pc \in {"lock", "open", "exec"} => call[c].attempt
  /\ ps[<<c, 1>>] = "alive" /\ sig[<<c, 1>>] = "none" => call[c].attempt
  /\ call[c].attempt =>
       \A l \in Loops :
         /\ run[l].pc \in Busy
         /\ \/ call[c].pc \in {"lock", "open", "exec", "fail"} /\ run[l].sync = "spawned"
            \/ call[c].pc \in {"wait", "waiting", "unset"} /\ run[l].sync = "running"
            \/ call[c].pc = "rest" /\ run[l].sync = "finishing"

OneAttempt == \A c, d \in Calls : call[c].attempt /\ call[d].attempt => c = d

\* A loop without a run in progress has none, and Terminate holds the mutex
\* from its check of isRunning to its last signal.
RunOK(l) ==
  /\ loop[l] \in {"none", "spawned", "top", "idle"} => run[l].pc = "closed"
  /\ run[l].sync = "spawned" => run[l].pc = "await"
  /\ run[l].pc = "signal" => /\ lock = "term" /\ ~term /\ cmd \in Procs
                             /\ isRunning \/ ps[cmd] = "reaped"

TermOK == term => lock = "term" /\ cmd \in Procs /\ sig[cmd] # "none"

SyncInv ==
  /\ Typed
  /\ \A c \in Calls : CallOK(c) /\ AttemptOK(c)
  /\ OneAttempt
  /\ \A l \in Loops : RunOK(l)
  /\ TermOK
-----------------------------------------------------------------------------
(* Steps of the runner and the loop                                        *)

\* The processes of providers with one stage.
LEMMA OneStage ==
  ASSUME Stages = {1}
  PROVE  /\ ~TwoStage
         /\ Procs = Calls \X {1}
         /\ \A c \in Calls : <<c, 1>> \in Procs
         /\ \A c, d \in Calls : c # d => <<c, 1>> # <<d, 1>>
         /\ \A p \in Procs : p[1] \in Calls /\ p = <<p[1], 1>>
<1>1. 2 \notin Stages
  OBVIOUS
<1> QED
  BY <1>1 DEF TwoStage, Procs

\* The mutex tells calls from Terminate.
LEMMA Names == \A c \in Calls : c # "free" /\ c # "term"
  BY SyncRunAssumption

\* A step that leaves the provider alone, and every runner in its place or away
\* from a sync, keeps the invariant.
LEMMA Aside ==
  ASSUME SyncInv, UNCHANGED procVars,
         run' \in [Loops -> RunnerType],
         loop' \in [Loops -> {"none", "spawned", "top", "wait", "join", "idle", "leaving", "exited"}],
         after' \in [Loops -> {"idle", "top", "leaving"}],
         \A l \in Loops : loop'[l] \in {"none", "spawned", "top", "idle"} => run'[l].pc = "closed",
         \A l \in Loops : \/ run'[l].pc = run[l].pc /\ run'[l].sync = run[l].sync
                          \/ /\ run[l].pc \notin Busy /\ run'[l].pc \notin Busy
                             /\ run'[l].sync \in {run[l].sync, "none"}
  PROVE  SyncInv'
<1> USE DEF SyncInv, procVars
<1>1. Typed'
  BY DEF Typed
<1>2. ASSUME NEW c \in Calls PROVE CallOK(c)' /\ AttemptOK(c)'
  BY DEF CallOK, AttemptOK
<1>3. OneAttempt'
  BY DEF OneAttempt
<1>4. ASSUME NEW l \in Loops PROVE RunOK(l)'
  BY DEF RunOK, Busy
<1>5. TermOK'
  BY DEF TermOK
<1> QED
  BY <1>1, <1>2, <1>3, <1>4, <1>5

\* What the loop and the runner write to the record of a runner keeps its type.
LEMMA RunnerTypes ==
  ASSUME NEW r \in RunnerType, NEW b \in BOOLEAN
  PROVE  /\ [r EXCEPT !.kill = TRUE] \in RunnerType
         /\ [r EXCEPT !.pc = "presync", !.holds = TRUE] \in RunnerType
         /\ [r EXCEPT !.pc = "send", !.again = b] \in RunnerType
         /\ [r EXCEPT !.pc = "prehooks", !.retry = @ + 1] \in RunnerType
         /\ Job!NoRun \in RunnerType
         /\ [Job!NoRun EXCEPT !.pc = "select"] \in RunnerType
<1>1. Job!NoRun \in RunnerType
  BY DEF RunnerType, Job!NoRun
<1>2. [Job!NoRun EXCEPT !.pc = "select"] \in RunnerType
  BY <1>1 DEF RunnerType
<1>3. r.retry + 1 \in Int
  BY DEF RunnerType
<1>4. [r EXCEPT !.pc = "prehooks", !.retry = @ + 1] \in RunnerType
  BY <1>3 DEF RunnerType
<1>5. /\ [r EXCEPT !.kill = TRUE] \in RunnerType
      /\ [r EXCEPT !.pc = "presync", !.holds = TRUE] \in RunnerType
      /\ [r EXCEPT !.pc = "send", !.again = b] \in RunnerType
  BY DEF RunnerType
<1> QED
  BY <1>1, <1>2, <1>4, <1>5

\* close(kill) leaves a runner where it is.
LEMMA KillClosed ==
  ASSUME run \in [Loops -> RunnerType], NEW l \in Loops, run' = [run EXCEPT ![l].kill = TRUE]
  PROVE  /\ run' \in [Loops -> RunnerType]
         /\ \A k \in Loops : run'[k].pc = run[k].pc /\ run'[k].sync = run[k].sync
<1>1. run' = [run EXCEPT ![l] = [run[l] EXCEPT !.kill = TRUE]] /\ run[l] \in RunnerType
  OBVIOUS
<1>2. /\ [run[l] EXCEPT !.kill = TRUE].pc = run[l].pc
      /\ [run[l] EXCEPT !.kill = TRUE].sync = run[l].sync
  BY <1>1 DEF RunnerType
<1> QED
  BY <1>1, <1>2, RunnerTypes

\* The control loop keeps the invariant.
LEMMA LoopStep ==
  ASSUME SyncInv, NEW l \in Loops, UNCHANGED procVars, Job!Loop(l)
  PROVE  SyncInv'
<1>0. /\ run \in [Loops -> RunnerType] /\ run[l] \in RunnerType
      /\ loop \in [Loops -> {"none", "spawned", "top", "wait", "join", "idle", "leaving", "exited"}]
      /\ after \in [Loops -> {"idle", "top", "leaving"}]
      /\ \A k \in Loops : loop[k] \in {"none", "spawned", "top", "idle"} => run[k].pc = "closed"
  BY DEF SyncInv, Typed, RunOK
<1> USE <1>0, Aside DEF Job!LoopAt
<1>1. CASE Job!Launch(l)
  <2>1. /\ run' = [run EXCEPT ![l] = [Job!NoRun EXCEPT !.pc = "select"]]
        /\ run[l].pc = "closed" /\ loop' = [loop EXCEPT ![l] = "wait"] /\ after' = after
    BY <1>1 DEF Job!Launch
  <2>2. run' \in [Loops -> RunnerType] /\ run'[l].pc = "select" /\ run'[l].sync = "none"
    BY <2>1, RunnerTypes DEF Job!NoRun
  <2> QED
    BY <2>1, <2>2 DEF Busy
<1>2. CASE Job!Join(l)
  <2>1. /\ run' = [run EXCEPT ![l] = IF run[l].pc = "dropped" THEN Job!NoRun ELSE run[l]]
        /\ run[l].pc \in {"closed", "dropped"} /\ loop' = [loop EXCEPT ![l] = after[l]] /\ after' = after
    BY <1>2 DEF Job!Join, Job!Joined
  <2>2. run' \in [Loops -> RunnerType] /\ run'[l].pc = "closed" /\ run'[l].sync \in {run[l].sync, "none"}
    BY <2>1, RunnerTypes DEF Job!NoRun
  <2> QED
    BY <2>1, <2>2 DEF Busy
<1>3. ASSUME NEW a, NEW s, NEW n \in {"idle", "top", "leaving"}, Job!Interrupt(l, a, s, n) PROVE SyncInv'
  <2>1. /\ run' = [run EXCEPT ![l].kill = TRUE] /\ loop[l] = "wait"
        /\ loop' = [loop EXCEPT ![l] = "join"] /\ after' = [after EXCEPT ![l] = n]
    BY <1>3 DEF Job!Interrupt
  <2> QED
    BY <2>1, KillClosed
<1>4. CASE Job!WaitDefault(l)
  <2>1. /\ run' = [run EXCEPT ![l].kill = TRUE]
        /\ loop' = [loop EXCEPT ![l] = "leaving"] /\ after' = after
    BY <1>4 DEF Job!WaitDefault
  <2> QED
    BY <2>1, KillClosed
<1>5. CASE \/ Job!Enter(l) \/ Job!Leave(l) \/ Job!Rest(l) \/ Job!JobDone(l) \/ Job!WaitStart(l)
           \/ Job!IdleStop(l) \/ Job!IdleDisable(l) \/ Job!IdleStart(l) \/ Job!IdleDefault(l)
  BY <1>5 DEF Job!Enter, Job!Leave, Job!Rest, Job!JobDone, Job!WaitStart, Job!IdleStop, Job!IdleDisable,
              Job!IdleStart, Job!IdleDefault
<1> QED
  BY <1>1, <1>2, <1>3, <1>4, <1>5
     DEF Job!Loop, Job!WaitStop, Job!WaitDisable, Job!WaitRestart, Job!WaitHalt

\* A runner that is not in a sync goes on to a place outside of one.
LEMMA Elsewhere ==
  ASSUME SyncInv, UNCHANGED <<procVars, loop, after>>, NEW l \in Loops, NEW r \in RunnerType,
         run' = [run EXCEPT ![l] = r],
         run[l].pc \notin Busy, run[l].pc # "closed", r.pc \notin Busy, r.sync \in {run[l].sync, "none"}
  PROVE  SyncInv'
<1>1. /\ run \in [Loops -> RunnerType]
      /\ \A k \in Loops : loop[k] \in {"none", "spawned", "top", "idle"} => run[k].pc = "closed"
      /\ loop \in [Loops -> {"none", "spawned", "top", "wait", "join", "idle", "leaving", "exited"}]
      /\ after \in [Loops -> {"idle", "top", "leaving"}]
  BY DEF SyncInv, Typed, RunOK
<1> QED
  BY <1>1, Aside

\* The same for a runner that only changes its place.
LEMMA Moves ==
  ASSUME SyncInv, UNCHANGED <<procVars, loop, after>>, NEW l \in Loops, NEW pc,
         pc \in {"dropped", "presync", "prehooks", "syncing", "hookfail", "report", "done"},
         run[l].pc \notin Busy, run[l].pc # "closed",
         run' = [run EXCEPT ![l].pc = pc]
  PROVE  SyncInv'
<1> DEFINE r == [run[l] EXCEPT !.pc = pc]
<1>1. run \in [Loops -> RunnerType] /\ run[l] \in RunnerType
  BY DEF SyncInv, Typed
<1>2. r \in RunnerType /\ r.pc = pc /\ r.sync = run[l].sync
  BY <1>1 DEF RunnerType
<1>3. run' = [run EXCEPT ![l] = r] /\ pc \notin Busy
  BY DEF Busy
<1> HIDE DEF r
<1> QED
  BY <1>2, <1>3, Elsewhere

\* The hooks keep the invariant.
LEMMA HooksStep ==
  ASSUME SyncInv, NEW l \in Loops, RunHooks(l)
  PROVE  SyncInv'
<1>0. run[l].pc \in {"prehooks", "posthooks"} /\ UNCHANGED <<procVars, loop, after>>
  BY DEF RunHooks, LogPreExec, LogPostSuccess, LogPostFail, ZfsPreJob, BtrfsPreJob, BtrfsPostSuccess,
         ExecPost, emptyHook, PhaseDone, Calling, restVars
<1>1. \/ run' = run
      \/ \E pc \in {"syncing", "hookfail", "report"} : run' = [run EXCEPT ![l].pc = pc]
  BY DEF RunHooks, LogPreExec, LogPostSuccess, LogPostFail, ZfsPreJob, BtrfsPreJob, BtrfsPostSuccess,
         ExecPost, emptyHook, PhaseDone, NextHook, HookError
<1>2. CASE run' = run
  BY <1>0, <1>2, Aside DEF SyncInv, Typed, RunOK
<1> QED
  BY <1>0, <1>1, <1>2, Moves DEF Busy

\* The steps of the runner outside of a sync keep the invariant.
LEMMA OutsideStep ==
  ASSUME SyncInv, NEW l \in Loops, UNCHANGED procVars,
         \/ Job!Acquire(l) \/ Job!Bypass(l) \/ Job!Drop(l) \/ Job!PreSyncing(l) \/ Job!HookFail(l)
         \/ Job!Report(l) \/ Job!SendResult(l) \/ Job!Close(l)
  PROVE  SyncInv'
<1>0. run \in [Loops -> RunnerType] /\ run[l] \in RunnerType
  BY DEF SyncInv, Typed
<1> USE <1>0 DEF Job!loopVars, Job!RunAt, Busy
<1>1. CASE Job!Acquire(l)
  <2> DEFINE r == [run[l] EXCEPT !.pc = "presync", !.holds = TRUE]
  <2>1. run' = [run EXCEPT ![l] = r] /\ run[l].pc = "select" /\ UNCHANGED <<loop, after>>
    BY <1>1 DEF Job!Acquire
  <2>2. r \in RunnerType /\ r.pc = "presync" /\ r.sync = run[l].sync
    BY DEF RunnerType
  <2> HIDE DEF r
  <2> QED
    BY <2>1, <2>2, Elsewhere
<1>2. CASE Job!Bypass(l) \/ Job!Drop(l)
  BY <1>2, Moves DEF Job!Bypass, Job!Drop
<1>3. CASE Job!PreSyncing(l) \/ Job!HookFail(l)
  BY <1>3, Moves DEF Job!PreSyncing, Job!HookFail
<1>4. CASE Job!Report(l)
  <2> DEFINE r == [run[l] EXCEPT !.pc = "send", !.again = Job!Again(l)]
  <2>1. run' = [run EXCEPT ![l] = r] /\ run[l].pc = "report" /\ UNCHANGED <<loop, after>>
    BY <1>4 DEF Job!Report
  <2>2. Job!Again(l) \in BOOLEAN
    BY DEF Job!Again
  <2>3. r \in RunnerType /\ r.pc = "send" /\ r.sync = run[l].sync
    BY <2>2 DEF RunnerType
  <2> HIDE DEF r
  <2> QED
    BY <2>1, <2>3, Elsewhere
<1>5. CASE Job!SendResult(l)
  <2> DEFINE r == [run[l] EXCEPT !.pc = "prehooks", !.retry = @ + 1]
  <2>1. /\ run' = [run EXCEPT ![l] = r] \/ run' = [run EXCEPT ![l].pc = "done"]
        /\ run[l].pc = "send" /\ UNCHANGED <<loop, after>>
    BY <1>5 DEF Job!SendResult
  <2>2. r \in RunnerType
    BY RunnerTypes
  <2>3. r.pc = "prehooks" /\ r.sync = run[l].sync
    BY DEF RunnerType
  <2> HIDE DEF r
  <2>4. CASE run' = [run EXCEPT ![l] = r]
    BY <2>1, <2>2, <2>3, <2>4, Elsewhere
  <2> QED
    BY <2>1, <2>4, Moves
<1>6. CASE Job!Close(l)
  <2>1. run' = [run EXCEPT ![l] = Job!NoRun] /\ run[l].pc = "done" /\ UNCHANGED <<loop, after>>
    BY <1>6 DEF Job!Close
  <2>2. Job!NoRun \in RunnerType /\ Job!NoRun.pc = "closed" /\ Job!NoRun.sync = "none"
    BY RunnerTypes DEF Job!NoRun
  <2> QED
    BY <2>1, <2>2, Elsewhere
<1> QED
  BY <1>1, <1>2, <1>3, <1>4, <1>5, <1>6

\* What the rest of the worker does keeps the invariant.
LEMMA EnvironmentStep ==
  ASSUME SyncInv, UNCHANGED procVars, Job!Environment \/ Job!Release
  PROVE  SyncInv'
<1>0. /\ run \in [Loops -> RunnerType]
      /\ loop \in [Loops -> {"none", "spawned", "top", "wait", "join", "idle", "leaving", "exited"}]
      /\ after \in [Loops -> {"idle", "top", "leaving"}]
      /\ \A k \in Loops : loop[k] \in {"none", "spawned", "top", "idle"} => run[k].pc = "closed"
  BY DEF SyncInv, Typed, RunOK
<1>1. /\ run' = run /\ after' = after
      /\ \/ loop' = loop
         \/ \E l \in Loops : run[l].pc = "closed" /\ loop' = [loop EXCEPT ![l] = "spawned"]
  BY <1>0 DEF Job!Environment, Job!Control, Job!Receive, Job!Boot, Job!GoRun, Job!Release, Job!loopVars,
              Job!LoopAt
<1> QED
  BY <1>0, <1>1, Aside

-----------------------------------------------------------------------------
(* Steps of the runner in a sync                                           *)

\* The runner learns that the sync has started, or that it is over.
LEMMA WatchStep ==
  ASSUME SyncInv, NEW l \in Loops, UNCHANGED procVars,
         Job!Started(l) \/ Job!NilPanic(l) \/ Job!SyncDone(l)
  PROVE  SyncInv'
<1>0. /\ run \in [Loops -> RunnerType] /\ run[l] \in RunnerType
      /\ UNCHANGED <<loop, after, lock, isRunning, cmd, ps, sig, call, term>>
      /\ \A k \in Loops : k = l
  BY SyncRunAssumption DEF SyncInv, Typed, Job!Started, Job!NilPanic, Job!SyncDone, Job!loopVars, procVars
<1>1. CASE Job!NilPanic(l)
  BY <1>0, <1>1, Aside DEF Job!NilPanic, SyncInv, Typed, RunOK
<1>2. CASE Job!Started(l)
  <2> DEFINE r == [run[l] EXCEPT !.pc = "running"]
  <2>1. run' = [run EXCEPT ![l] = r] /\ run[l].pc = "await" /\ run[l].sync # "spawned"
    BY <1>2, <1>0 DEF Job!Started, Job!RunAt
  <2>2. r \in RunnerType /\ r.pc = "running" /\ r.sync = run[l].sync
    BY <1>0 DEF RunnerType
  <2>3. run' \in [Loops -> RunnerType] /\ run'[l].pc = "running" /\ run'[l].sync = run[l].sync
    BY <1>0, <2>1, <2>2
  <2> QED
    BY <1>0, <2>1, <2>3 DEF SyncInv, Typed, CallOK, AttemptOK, OneAttempt, RunOK, TermOK, Busy
<1>3. CASE Job!SyncDone(l)
  <2> DEFINE r == [run[l] EXCEPT !.pc = "posthooks", !.result = run[l].sync, !.sync = "none"]
  <2>1. run' = [run EXCEPT ![l] = r] /\ run[l].pc = "running" /\ run[l].sync \in {"ok", "err"}
    BY <1>3, <1>0 DEF Job!SyncDone
  <2>2. r \in RunnerType /\ r.pc = "posthooks" /\ r.sync = "none"
    BY <1>0, <2>1 DEF RunnerType
  <2>3. run' \in [Loops -> RunnerType] /\ run'[l].pc = "posthooks" /\ run'[l].sync = "none"
    BY <1>0, <2>1, <2>2
  <2> QED
    BY <1>0, <2>1, <2>3 DEF SyncInv, Typed, CallOK, AttemptOK, OneAttempt, RunOK, TermOK, Busy
<1> QED
  BY <1>1, <1>2, <1>3

\* A new attempt calls provider.Run when no call of an attempt is left.
LEMMA SyncingStep ==
  ASSUME Stages = {1}, SyncInv, NEW l \in Loops, Syncing(l)
  PROVE  SyncInv'
<1> DEFINE r == [run[l] EXCEPT !.pc = "await", !.sync = "spawned"]
<1>0. /\ run \in [Loops -> RunnerType] /\ run[l] \in RunnerType
      /\ run' = [run EXCEPT ![l] = r] /\ run[l].pc = "syncing"
      /\ UNCHANGED <<loop, after, lock, isRunning, cmd, ps, sig, term>>
      /\ \A k \in Loops : k = l
  <2>1. run \in [Loops -> RunnerType] /\ run[l] \in RunnerType
    BY DEF SyncInv, Typed
  <2>2. run' = [run EXCEPT ![l] = r] /\ run[l].pc = "syncing" /\ UNCHANGED <<loop, after>>
    BY DEF Syncing, Job!Syncing, Job!loopVars
  <2>3. UNCHANGED <<lock, isRunning, cmd, ps, sig, term>>
    BY DEF Syncing
  <2>4. \A k \in Loops : k = l
    BY SyncRunAssumption
  <2> QED
    BY <2>1, <2>2, <2>3, <2>4
<1>1. r \in RunnerType /\ r.pc = "await" /\ r.sync = "spawned"
  BY <1>0 DEF RunnerType
<1>2. run' \in [Loops -> RunnerType] /\ run'[l].pc = "await" /\ run'[l].sync = "spawned"
  BY <1>0, <1>1
<1>3. PICK c \in Calls : Free(c) /\ call' = [call EXCEPT ![c] = [NoCall EXCEPT !.pc = "lock", !.attempt = TRUE]]
  BY DEF Syncing
<1> DEFINE new == [NoCall EXCEPT !.pc = "lock", !.attempt = TRUE]
<1>4. new \in CallType /\ new.pc = "lock" /\ new.attempt = TRUE
  BY DEF CallType, NoCall
<1>5. call \in [Calls -> CallType] /\ \A d \in Calls : ~call[d].attempt
  BY <1>0 DEF SyncInv, Typed, AttemptOK, Busy
<1>6. /\ call' \in [Calls -> CallType] /\ call'[c].pc = "lock" /\ call'[c].attempt
      /\ \A d \in Calls : d # c => call'[d] = call[d]
  BY <1>3, <1>4, <1>5
<1>7. call[c].pc = "none" /\ ps[<<c, 1>>] \notin {"alive", "exited"}
  BY <1>3, OneStage DEF Free
<1> HIDE DEF r, new
<1>8. Typed'
  BY <1>0, <1>2, <1>6 DEF SyncInv, Typed
<1>9. ASSUME NEW d \in Calls PROVE CallOK(d)' /\ AttemptOK(d)'
  <2>0. CallOK(d) /\ AttemptOK(d)
    BY DEF SyncInv
  <2>1. CASE d = c
    <3>1. CallOK(c)'
      BY <1>0, <1>6, <1>7, <2>0, <2>1 DEF CallOK
    <3>2. AttemptOK(c)'
      BY <1>0, <1>2, <1>6, <1>7 DEF AttemptOK, Busy
    <3> QED
      BY <2>1, <3>1, <3>2
  <2>2. CASE d # c
    <3>1. call'[d] = call[d] /\ ~call[d].attempt
      BY <1>5, <1>6, <2>2
    <3>2. CallOK(d)'
      BY <1>0, <2>0, <3>1 DEF CallOK
    <3>3. AttemptOK(d)'
      BY <1>0, <2>0, <3>1 DEF AttemptOK
    <3> QED
      BY <3>2, <3>3
  <2> QED
    BY <2>1, <2>2
<1>10. OneAttempt' /\ TermOK'
  <2>1. \A d \in Calls : call'[d].attempt => d = c
    BY <1>5, <1>6
  <2> QED
    BY <1>0, <2>1 DEF SyncInv, OneAttempt, TermOK
<1>11. \A k \in Loops : RunOK(k)'
  BY <1>0, <1>2 DEF SyncInv, RunOK
<1> QED
  BY <1>8, <1>9, <1>10, <1>11 DEF SyncInv

\* A call that is given up is the same in every other respect.
LEMMA AbandonedCalls ==
  ASSUME call \in [Calls -> CallType], call' = Abandoned
  PROVE  /\ call' \in [Calls -> CallType]
         /\ \A c \in Calls : /\ call'[c].pc = call[c].pc /\ call'[c].waits = call[c].waits
                             /\ ~call'[c].attempt
<1>1. ASSUME NEW c \in Calls
      PROVE  /\ [call[c] EXCEPT !.attempt = FALSE] \in CallType
             /\ [call[c] EXCEPT !.attempt = FALSE].pc = call[c].pc
             /\ [call[c] EXCEPT !.attempt = FALSE].waits = call[c].waits
             /\ [call[c] EXCEPT !.attempt = FALSE].attempt = FALSE
  <2>1. call[c] \in CallType
    OBVIOUS
  <2> QED
    BY <2>1 DEF CallType
<1> QED
  BY <1>1 DEF Abandoned

\* A timeout or kill finds a process, and takes the mutex, or finds none.
LEMMA TerminateStep ==
  ASSUME Stages = {1}, SyncInv, NEW l \in Loops, Terminate(l)
  PROVE  SyncInv'
<1>0. /\ run \in [Loops -> RunnerType] /\ run[l] \in RunnerType /\ run[l].pc = "running"
      /\ call \in [Calls -> CallType]
      /\ lock = "free" /\ lock' = IF isRunning THEN "term" ELSE "free"
      /\ UNCHANGED <<loop, after, isRunning, cmd, ps, sig, term>>
      /\ \A k \in Loops : k = l
  BY SyncRunAssumption DEF SyncInv, Typed, Terminate, Job!TimedOut, Job!Killed, Job!Terminate, Job!loopVars
<1>1. PICK why \in {"err", "killed"} :
        run' = IF Process = "off"
               THEN [run EXCEPT ![l].pc = "posthooks", ![l].sync = "none", ![l].result = why]
               ELSE [run EXCEPT ![l].pc = "signal", ![l].result = why]
  BY DEF Terminate, Job!TimedOut, Job!Killed, Job!Terminate
<1>2. CASE isRunning
  <2> DEFINE r == [run[l] EXCEPT !.pc = "signal", !.result = why]
  <2>1. Process # "off" /\ call' = call
    BY <1>2 DEF Process, Terminate
  <2>2. run' = [run EXCEPT ![l] = r]
    BY <1>1, <2>1
  <2>3. r \in RunnerType /\ r.pc = "signal" /\ r.sync = run[l].sync
    BY <1>0 DEF RunnerType
  <2>4. run' \in [Loops -> RunnerType] /\ run'[l].pc = "signal" /\ run'[l].sync = run[l].sync
    BY <1>0, <2>2, <2>3
  <2>5. Typed'
    BY <1>0, <1>2, <2>1, <2>4 DEF SyncInv, Typed
  <2>6. ASSUME NEW c \in Calls PROVE CallOK(c)' /\ AttemptOK(c)'
    <3>1. CallOK(c) /\ AttemptOK(c)
      BY DEF SyncInv
    <3>2. CallOK(c)'
      BY <1>0, <1>2, <2>1, <3>1, Names DEF CallOK
    <3>3. AttemptOK(c)'
      BY <1>0, <2>1, <2>4, <3>1 DEF AttemptOK, Busy
    <3> QED
      BY <3>2, <3>3
  <2>7. OneAttempt' /\ TermOK'
    BY <1>0, <2>1 DEF SyncInv, OneAttempt, TermOK
  <2>8. ASSUME NEW k \in Loops PROVE RunOK(k)'
    <3>1. RunOK(l) /\ ~term /\ cmd \in Procs /\ k = l
      BY <1>0, <1>2 DEF SyncInv, Typed, TermOK
    <3> QED
      BY <1>0, <1>2, <2>4, <3>1 DEF RunOK
  <2> QED
    BY <2>5, <2>6, <2>7, <2>8 DEF SyncInv
<1>3. CASE ~isRunning
  <2> DEFINE r == [run[l] EXCEPT !.pc = "posthooks", !.sync = "none", !.result = why]
  <2>1. Process = "off" /\ call' = Abandoned
    BY <1>3 DEF Process, Terminate
  <2>2. run' = [run EXCEPT ![l] = r]
    BY <1>1, <2>1
  <2>3. r \in RunnerType /\ r.pc = "posthooks" /\ r.sync = "none"
    BY <1>0 DEF RunnerType
  <2>4. run' \in [Loops -> RunnerType] /\ run'[l].pc = "posthooks" /\ run'[l].sync = "none"
    BY <1>0, <2>2, <2>3
  <2>5. \A c \in Calls : call[c].pc \notin {"lock", "open", "exec", "wait", "waiting", "unset"}
    BY <1>0, <1>3 DEF SyncInv, CallOK, AttemptOK, RunOK
  <2>6. Typed'
    BY <1>0, <1>3, <2>1, <2>4, AbandonedCalls DEF SyncInv, Typed
  <2>7. ASSUME NEW c \in Calls PROVE CallOK(c)' /\ AttemptOK(c)'
    <3>1. /\ CallOK(c) /\ call'[c].pc = call[c].pc /\ ~call'[c].attempt
          /\ call[c].pc \notin {"lock", "open", "exec", "wait", "waiting", "unset"}
      BY <1>0, <2>1, <2>5, AbandonedCalls DEF SyncInv
    <3>2. CallOK(c)'
      BY <1>0, <1>3, <3>1, Names DEF CallOK
    <3>3. AttemptOK(c)'
      BY <1>0, <3>1 DEF CallOK, AttemptOK
    <3> QED
      BY <3>2, <3>3
  <2>8. OneAttempt' /\ TermOK'
    BY <1>0, <2>1, AbandonedCalls DEF SyncInv, OneAttempt, TermOK
  <2>9. \A k \in Loops : RunOK(k)'
    BY <1>0, <2>4 DEF SyncInv, RunOK
  <2> QED
    BY <2>6, <2>7, <2>8, <2>9 DEF SyncInv
<1> QED
  BY <1>0, <1>2, <1>3

\* The signal goes to the only process there is.
LEMMA SigTermStep ==
  ASSUME Stages = {1}, SyncInv, NEW l \in Loops, SigTerm(l)
  PROVE  SyncInv'
<1>0. /\ run \in [Loops -> RunnerType] /\ run[l] \in RunnerType /\ run[l].pc = "signal"
      /\ call \in [Calls -> CallType]
      /\ call' = Abandoned
      /\ lock = "term" /\ ~term /\ cmd \in Procs
      /\ UNCHANGED <<loop, after, isRunning, cmd, ps>>
      /\ \A k \in Loops : k = l
  BY SyncRunAssumption DEF SyncInv, Typed, RunOK, SigTerm, restVars
<1> DEFINE r(pc) == [run[l] EXCEPT !.pc = pc, !.sync = "none"]
<1>1. run' = [run EXCEPT ![l] = r(IF ps[cmd] = "reaped" THEN "done" ELSE "posthooks")]
  BY DEF SigTerm
<1>2. ASSUME NEW pc \in {"done", "posthooks"} PROVE r(pc) \in RunnerType /\ r(pc).pc = pc /\ r(pc).sync = "none"
  BY <1>0 DEF RunnerType
<1> HIDE DEF r
<1>3. run' \in [Loops -> RunnerType] /\ run'[l].pc \in {"done", "posthooks"} /\ run'[l].sync = "none"
  BY <1>0, <1>1, <1>2
<1>4. \A c \in Calls : call[c].pc \notin {"lock", "open", "exec"}
  <2> SUFFICES ASSUME NEW c \in Calls PROVE call[c].pc \notin {"lock", "open", "exec"}
    OBVIOUS
  <2>1. call[c].pc \notin {"open", "exec"}
    BY <1>0, Names DEF SyncInv, CallOK
  <2>2. run[l].sync # "spawned"
    BY <1>0 DEF SyncInv, RunOK
  <2> QED
    BY <2>1, <2>2 DEF SyncInv, AttemptOK
<1>5. CASE ps[cmd] = "reaped"
  <2>1. lock' = "free" /\ UNCHANGED <<sig, term>>
    BY <1>5 DEF SigTerm
  <2>2. \A c \in Calls : ps[<<c, 1>>] \notin {"alive", "exited"}
    BY <1>5, OneStage DEF SyncInv, CallOK
  <2>3. Typed'
    BY <1>0, <1>3, <2>1, AbandonedCalls DEF SyncInv, Typed
  <2>4. \A c \in Calls : CallOK(c)' /\ AttemptOK(c)'
    <3> SUFFICES ASSUME NEW c \in Calls PROVE CallOK(c)' /\ AttemptOK(c)'
      OBVIOUS
    <3>1. CallOK(c) /\ call'[c].pc = call[c].pc /\ call'[c].waits = call[c].waits /\ ~call'[c].attempt
      BY <1>0, AbandonedCalls DEF SyncInv
    <3>2. CallOK(c)'
      BY <1>0, <1>4, <2>1, <3>1, Names DEF CallOK
    <3>3. AttemptOK(c)'
      BY <1>0, <1>4, <2>2, <3>1 DEF AttemptOK
    <3> QED
      BY <3>2, <3>3
  <2>5. OneAttempt' /\ TermOK'
    BY <1>0, <2>1, AbandonedCalls DEF OneAttempt, TermOK
  <2>6. \A k \in Loops : RunOK(k)'
    BY <1>0, <1>3 DEF SyncInv, RunOK
  <2> QED
    BY <2>3, <2>4, <2>5, <2>6 DEF SyncInv
<1>6. CASE ps[cmd] # "reaped"
  <2>1. sig' = [sig EXCEPT ![cmd] = "term"] /\ term' = TRUE /\ lock' = "term"
    BY <1>0, <1>6 DEF SigTerm
  <2>2. sig' \in [Procs -> {"none", "term", "kill"}] /\ sig'[cmd] = "term"
    BY <1>0, <2>1 DEF SyncInv, Typed
  <2>3. \A c \in Calls : ps[<<c, 1>>] = "alive" => cmd = <<c, 1>>
    BY DEF SyncInv, CallOK
  <2>4. Typed'
    BY <1>0, <1>3, <2>1, <2>2, AbandonedCalls DEF SyncInv, Typed
  <2>5. \A c \in Calls : CallOK(c)' /\ AttemptOK(c)'
    <3> SUFFICES ASSUME NEW c \in Calls PROVE CallOK(c)' /\ AttemptOK(c)'
      OBVIOUS
    <3>1. CallOK(c) /\ call'[c].pc = call[c].pc /\ call'[c].waits = call[c].waits /\ ~call'[c].attempt
      BY <1>0, AbandonedCalls DEF SyncInv
    <3>2. CallOK(c)'
      BY <1>0, <2>1, <3>1 DEF CallOK
    <3>3. AttemptOK(c)'
      BY <1>0, <1>4, <2>2, <2>3, <3>1 DEF AttemptOK
    <3> QED
      BY <3>2, <3>3
  <2>6. OneAttempt' /\ TermOK'
    BY <1>0, <2>1, <2>2, AbandonedCalls DEF OneAttempt, TermOK
  <2>7. \A k \in Loops : RunOK(k)'
    BY <1>0, <1>3 DEF SyncInv, RunOK
  <2> QED
    BY <2>4, <2>5, <2>6, <2>7 DEF SyncInv
<1> QED
  BY <1>5, <1>6

LEMMA SigKillStep ==
  ASSUME Stages = {1}, SyncInv, SigKill
  PROVE  SyncInv'
<1>0. /\ term /\ lock = "term" /\ cmd \in Procs /\ sig[cmd] # "none"
      /\ term' = FALSE /\ lock' = "free"
      /\ UNCHANGED <<run, loop, after, isRunning, cmd, ps, call>>
  BY DEF SyncInv, TermOK, SigKill, restVars
<1>1. /\ sig' \in [Procs -> {"none", "term", "kill"}]
      /\ \A p \in Procs : sig'[p] = "none" => sig[p] = "none"
  BY <1>0 DEF SyncInv, Typed, SigKill
<1>2. \A l \in Loops : run[l].pc # "signal"
  BY <1>0 DEF SyncInv, RunOK
<1>3. Typed'
  BY <1>0, <1>1 DEF SyncInv, Typed
<1>4. \A c \in Calls : CallOK(c)' /\ AttemptOK(c)'
  <2> SUFFICES ASSUME NEW c \in Calls PROVE CallOK(c)' /\ AttemptOK(c)'
    OBVIOUS
  <2>1. CallOK(c) /\ AttemptOK(c) /\ (sig'[<<c, 1>>] = "none" => sig[<<c, 1>>] = "none")
    BY <1>1, OneStage DEF SyncInv
  <2>2. CallOK(c)'
    BY <1>0, <2>1, Names DEF CallOK
  <2>3. AttemptOK(c)'
    BY <1>0, <2>1 DEF AttemptOK
  <2> QED
    BY <2>2, <2>3
<1>5. OneAttempt' /\ TermOK'
  BY <1>0 DEF SyncInv, OneAttempt, TermOK
<1>6. \A l \in Loops : RunOK(l)'
  BY <1>0, <1>2 DEF SyncInv, RunOK
<1> QED
  BY <1>3, <1>4, <1>5, <1>6 DEF SyncInv

-----------------------------------------------------------------------------
(* Steps of provider.Run                                                   *)

\* A call that goes on is the same in every other respect.
LEMMA CallMoves ==
  ASSUME call \in [Calls -> CallType], NEW c \in Calls, NEW from, NEW to,
         to \in {"none", "lock", "open", "exec", "wait", "waiting", "unset", "rest", "fail"},
         CallAt(c, from, to)
  PROVE  /\ call' \in [Calls -> CallType]
         /\ call[c].pc = from /\ call'[c].pc = to
         /\ call'[c].waits = call[c].waits /\ call'[c].attempt = call[c].attempt
         /\ \A d \in Calls : d # c => call'[d] = call[d]
<1> DEFINE r == [call[c] EXCEPT !.pc = to]
<1>1. call' = [call EXCEPT ![c] = r] /\ call[c] \in CallType /\ call[c].pc = from
  BY DEF CallAt
<1>2. r \in CallType /\ r.pc = to /\ r.waits = call[c].waits /\ r.attempt = call[c].attempt
  BY <1>1 DEF CallType
<1> HIDE DEF r
<1> QED
  BY <1>1, <1>2

\* A call that goes on without a process being started or ending, while the
\* mutex passes between it and nobody, keeps the invariant if its part does.
LEMMA OnlyCall ==
  ASSUME SyncInv, NEW c \in Calls,
         UNCHANGED <<run, loop, after, isRunning, ps, sig, term>>,
         call' \in [Calls -> CallType], call'[c].attempt = call[c].attempt,
         \A d \in Calls : d # c => call'[d] = call[d],
         lock' = lock \/ (lock = "free" /\ lock' = c) \/ (lock = c /\ lock' = "free"),
         \/ cmd' = cmd
         \/ /\ cmd' \in Procs /\ ~term /\ \A l \in Loops : run[l].pc # "signal"
            /\ \A d \in Calls : d # c => call[d].pc \notin {"exec", "wait", "waiting", "unset"},
         CallOK(c)', AttemptOK(c)'
  PROVE  SyncInv'
<1>1. Typed'
  <2>1. lock' \in {"free", "term"} \cup Calls /\ (isRunning' => cmd' \in Procs)
    BY DEF SyncInv, Typed
  <2> QED
    BY <2>1 DEF SyncInv, Typed
<1>2. ASSUME NEW d \in Calls PROVE CallOK(d)'
  <2>1. CASE d = c
    BY <2>1
  <2>2. CASE d # c
    <3>0. CallOK(d) /\ call'[d] = call[d]
      BY <2>2 DEF SyncInv
    <3>1. lock' = d <=> lock = d
      <4>1. d # "free"
        BY Names
      <4> QED
        BY <2>2, <4>1
    <3>2. cmd' = cmd \/ call[d].pc \notin {"exec", "wait", "waiting", "unset"}
      BY <2>2
    <3> QED
      BY <3>0, <3>1, <3>2 DEF CallOK
  <2> QED
    BY <2>1, <2>2
<1>3. ASSUME NEW d \in Calls PROVE AttemptOK(d)'
  <2>1. CASE d = c
    BY <2>1
  <2>2. CASE d # c
    <3>1. AttemptOK(d) /\ call'[d] = call[d]
      BY <2>2 DEF SyncInv
    <3> QED
      BY <3>1 DEF AttemptOK
  <2> QED
    BY <2>1, <2>2
<1>4. OneAttempt'
  <2>1. \A d \in Calls : call'[d].attempt = call[d].attempt
    OBVIOUS
  <2> QED
    BY <2>1 DEF SyncInv, OneAttempt
<1>5. TermOK'
  BY Names DEF SyncInv, TermOK
<1>6. ASSUME NEW l \in Loops PROVE RunOK(l)'
  <2>1. RunOK(l)
    BY DEF SyncInv
  <2> QED
    BY <2>1, Names DEF RunOK
<1> QED
  BY <1>1, <1>2, <1>3, <1>4, <1>5, <1>6 DEF SyncInv

\* The mutex is taken by a call that finds isRunning unset.
LEMMA LockStep ==
  ASSUME Stages = {1}, SyncInv, NEW c \in Calls, Lock(c)
  PROVE  SyncInv'
<1>0. /\ call \in [Calls -> CallType] /\ lock = "free"
      /\ UNCHANGED <<run, loop, after, isRunning, cmd, ps, sig, term>>
      /\ \/ isRunning /\ CallAt(c, "lock", "fail") /\ lock' = lock
         \/ ~isRunning /\ CallAt(c, "lock", "open") /\ lock' = c
  BY OneStage DEF SyncInv, Typed, Lock, Refused, restVars
<1>1. CASE isRunning /\ CallAt(c, "lock", "fail") /\ lock' = lock
  <2>0. /\ call' \in [Calls -> CallType] /\ call[c].pc = "lock" /\ call'[c].pc = "fail"
        /\ call'[c].attempt = call[c].attempt /\ \A d \in Calls : d # c => call'[d] = call[d]
    BY <1>0, <1>1, CallMoves
  <2>1. CallOK(c) /\ AttemptOK(c) /\ c # "free"
    BY Names DEF SyncInv
  <2>2. CallOK(c)'
    BY <1>0, <1>1, <2>0, <2>1 DEF CallOK
  <2>3. AttemptOK(c)'
    BY <1>0, <1>1, <2>0, <2>1 DEF AttemptOK
  <2> QED
    BY <1>0, <1>1, <2>0, <2>2, <2>3, OnlyCall
<1>2. CASE ~isRunning /\ CallAt(c, "lock", "open") /\ lock' = c
  <2>0. /\ call' \in [Calls -> CallType] /\ call[c].pc = "lock" /\ call'[c].pc = "open"
        /\ call'[c].attempt = call[c].attempt /\ \A d \in Calls : d # c => call'[d] = call[d]
    BY <1>0, <1>2, CallMoves
  <2>1. CallOK(c) /\ AttemptOK(c) /\ c # "free"
    BY Names DEF SyncInv
  <2>2. CallOK(c)'
    BY <1>0, <1>2, <2>0, <2>1 DEF CallOK
  <2>3. AttemptOK(c)'
    BY <1>0, <1>2, <2>0, <2>1 DEF AttemptOK
  <2> QED
    BY <1>0, <1>2, <2>0, <2>2, <2>3, OnlyCall
<1> QED
  BY <1>0, <1>1, <1>2

\* p.cmd is replaced while nobody waits for the process before.
LEMMA OpenStep ==
  ASSUME Stages = {1}, SyncInv, NEW c \in Calls, Open(c)
  PROVE  SyncInv'
<1>0. /\ call \in [Calls -> CallType] /\ cmd' = <<c, 1>>
      /\ UNCHANGED <<run, loop, after, isRunning, ps, sig, term>>
      /\ \/ CallAt(c, "open", "exec") /\ lock' = lock
         \/ CallAt(c, "open", "fail") /\ lock' = "free"
  <2>1. call \in [Calls -> CallType] /\ call[c].stage = 1
    BY DEF SyncInv, Typed, CallType
  <2> QED
    BY <2>1, OneStage DEF Open, restVars
<1>1. call[c].pc = "open" /\ lock = c /\ ~isRunning
  BY <1>0 DEF SyncInv, CallOK, CallAt
<1>2. /\ \A d \in Calls : d # c => call[d].pc \notin {"open", "exec", "wait", "waiting", "unset"}
      /\ \A l \in Loops : run[l].pc # "signal"
      /\ ~term /\ <<c, 1>> \in Procs
  BY <1>1, Names, OneStage DEF SyncInv, CallOK, RunOK, TermOK
<1>3. CASE CallAt(c, "open", "exec") /\ lock' = lock
  <2>0. /\ call' \in [Calls -> CallType] /\ call[c].pc = "open" /\ call'[c].pc = "exec"
        /\ call'[c].attempt = call[c].attempt /\ \A d \in Calls : d # c => call'[d] = call[d]
    BY <1>0, <1>3, CallMoves
  <2>1. CallOK(c) /\ AttemptOK(c) /\ c # "free"
    BY Names DEF SyncInv
  <2>2. CallOK(c)'
    BY <1>0, <1>1, <1>2, <1>3, <2>0, <2>1 DEF CallOK
  <2>3. AttemptOK(c)'
    BY <1>0, <1>1, <1>2, <1>3, <2>0, <2>1 DEF AttemptOK
  <2> QED
    BY <1>0, <1>1, <1>2, <1>3, <2>0, <2>2, <2>3, OnlyCall
<1>4. CASE CallAt(c, "open", "fail") /\ lock' = "free"
  <2>0. /\ call' \in [Calls -> CallType] /\ call[c].pc = "open" /\ call'[c].pc = "fail"
        /\ call'[c].attempt = call[c].attempt /\ \A d \in Calls : d # c => call'[d] = call[d]
    BY <1>0, <1>4, CallMoves
  <2>1. CallOK(c) /\ AttemptOK(c) /\ c # "free"
    BY Names DEF SyncInv
  <2>2. CallOK(c)'
    BY <1>0, <1>1, <1>2, <1>4, <2>0, <2>1 DEF CallOK
  <2>3. AttemptOK(c)'
    BY <1>0, <1>1, <1>2, <1>4, <2>0, <2>1 DEF AttemptOK
  <2> QED
    BY <1>0, <1>1, <1>2, <1>4, <2>0, <2>2, <2>3, OnlyCall
<1> QED
  BY <1>0, <1>3, <1>4

\* A process is started by the call of the current attempt, when none is there.
LEMMA ExecStep ==
  ASSUME Stages = {1}, SyncInv, NEW c \in Calls, Exec(c)
  PROVE  SyncInv'
<1>0. /\ call \in [Calls -> CallType] /\ call[c].pc = "exec"
      /\ run \in [Loops -> RunnerType]
      /\ UNCHANGED <<loop, after, cmd, term>>
  BY DEF SyncInv, Typed, Exec, CallAt, restVars
<1>1. lock = c /\ ~isRunning /\ cmd = <<c, 1>> /\ cmd \in Procs /\ call[c].attempt
  <2>1. CallOK(c) /\ AttemptOK(c) /\ <<c, 1>> \in Procs
    BY OneStage DEF SyncInv
  <2>2. lock = c /\ ~isRunning /\ cmd = <<c, 1>>
    BY <1>0, <2>1 DEF CallOK
  <2> QED
    BY <1>0, <2>1, <2>2 DEF AttemptOK
<1>2. /\ \A d \in Calls : d # c => call[d].pc \notin {"open", "exec", "wait", "waiting", "unset"}
      /\ \A l \in Loops : run[l].pc = "await" /\ run[l].sync = "spawned"
      /\ ~term
  BY <1>0, <1>1, Names DEF SyncInv, CallOK, AttemptOK, RunOK, TermOK
<1>3. CASE CallAt(c, "exec", "fail") /\ lock' = "free" /\ UNCHANGED <<ps, sig, isRunning, run>>
  <2>0. /\ call' \in [Calls -> CallType] /\ call[c].pc = "exec" /\ call'[c].pc = "fail"
        /\ call'[c].attempt = call[c].attempt /\ \A d \in Calls : d # c => call'[d] = call[d]
    BY <1>0, <1>3, CallMoves
  <2>1. CallOK(c) /\ AttemptOK(c) /\ c # "free"
    BY Names DEF SyncInv
  <2>2. CallOK(c)'
    BY <1>0, <1>1, <1>2, <1>3, <2>0, <2>1 DEF CallOK
  <2>3. AttemptOK(c)'
    BY <1>0, <1>1, <1>2, <1>3, <2>0, <2>1 DEF AttemptOK
  <2> QED
    BY <1>0, <1>1, <1>2, <1>3, <2>0, <2>2, <2>3, OnlyCall
<1>4. CASE /\ CallAt(c, "exec", "wait")
           /\ ps' = [ps EXCEPT ![cmd] = "alive"] /\ sig' = [sig EXCEPT ![cmd] = "none"]
           /\ isRunning' = TRUE /\ lock' = "free"
           /\ run' = [l \in Loops |-> IF call[c].attempt THEN [run[l] EXCEPT !.sync = "running"] ELSE run[l]]
  <2>1. /\ run' \in [Loops -> RunnerType]
        /\ \A l \in Loops : run'[l].pc = "await" /\ run'[l].sync = "running"
    <3>1. run' = [l \in Loops |-> [run[l] EXCEPT !.sync = "running"]]
      BY <1>1, <1>4
    <3>2. ASSUME NEW l \in Loops
          PROVE  run'[l] \in RunnerType /\ run'[l].pc = "await" /\ run'[l].sync = "running"
      <4>1. run[l] \in RunnerType /\ run'[l] = [run[l] EXCEPT !.sync = "running"] /\ run[l].pc = "await"
        BY <1>0, <1>2, <3>1
      <4> QED
        BY <4>1 DEF RunnerType
    <3> QED
      BY <3>1, <3>2
  <2>2. /\ ps' \in [Procs -> {"none", "alive", "exited", "reaped"}]
        /\ sig' \in [Procs -> {"none", "term", "kill"}]
        /\ ps'[<<c, 1>>] = "alive" /\ sig'[<<c, 1>>] = "none"
        /\ \A d \in Calls : d # c => ps'[<<d, 1>>] = ps[<<d, 1>>] /\ sig'[<<d, 1>>] = sig[<<d, 1>>]
    <3>1. ps \in [Procs -> {"none", "alive", "exited", "reaped"}] /\ sig \in [Procs -> {"none", "term", "kill"}]
      BY DEF SyncInv, Typed
    <3> QED
      BY <1>1, <1>4, <3>1, OneStage
  <2>3. Typed'
    BY <1>0, <1>1, <1>4, <2>1, <2>2, CallMoves DEF SyncInv, Typed
  <2>4. \A d \in Calls : CallOK(d)'
    <3> SUFFICES ASSUME NEW d \in Calls PROVE CallOK(d)'
      OBVIOUS
    <3>1. CASE d = c
      BY <1>0, <1>1, <1>4, <2>2, <3>1, CallMoves, Names DEF CallOK
    <3>2. CASE d # c
      <4>1. CallOK(d) /\ call'[d] = call[d] /\ call[d].pc \notin {"open", "exec", "wait", "waiting", "unset"}
        BY <1>0, <1>2, <1>4, <3>2, CallMoves DEF SyncInv
      <4> QED
        BY <1>4, <2>2, <3>2, <4>1, Names DEF CallOK
    <3> QED
      BY <3>1, <3>2
  <2>5. \A d \in Calls : AttemptOK(d)'
    <3> SUFFICES ASSUME NEW d \in Calls PROVE AttemptOK(d)'
      OBVIOUS
    <3>1. CASE d = c
      BY <1>0, <1>1, <1>4, <2>1, <3>1, CallMoves DEF AttemptOK, Busy
    <3>2. CASE d # c
      <4>1. AttemptOK(d) /\ call'[d] = call[d] /\ ~call[d].attempt
        BY <1>0, <1>1, <1>4, <3>2, CallMoves DEF SyncInv, OneAttempt
      <4> QED
        BY <2>2, <3>2, <4>1 DEF AttemptOK
    <3> QED
      BY <3>1, <3>2
  <2>6. OneAttempt' /\ TermOK'
    BY <1>0, <1>2, <1>4, CallMoves DEF SyncInv, OneAttempt, TermOK
  <2>7. \A l \in Loops : RunOK(l)'
    BY <1>0, <1>2, <2>1 DEF SyncInv, RunOK
  <2> QED
    BY <2>3, <2>4, <2>5, <2>6, <2>7 DEF SyncInv
<1> QED
  BY <1>3, <1>4, OneStage DEF Exec

\* Wait finds its own process in p.cmd.
LEMMA WaitStep ==
  ASSUME Stages = {1}, SyncInv, NEW c \in Calls, Wait(c)
  PROVE  SyncInv'
<1> DEFINE r == [call[c] EXCEPT !.pc = "waiting", !.waits = cmd]
<1>0. /\ call \in [Calls -> CallType] /\ call[c] \in CallType /\ call[c].pc = "wait"
      /\ call' = [call EXCEPT ![c] = r]
      /\ UNCHANGED <<run, loop, after, lock, isRunning, cmd, ps, sig, term>>
  BY DEF SyncInv, Typed, Wait, restVars
<1>1. cmd = <<c, 1>> /\ cmd \in Procs
  BY <1>0, OneStage DEF SyncInv, CallOK
<1>2. r \in CallType /\ r.pc = "waiting" /\ r.waits = cmd /\ r.attempt = call[c].attempt
  BY <1>0, <1>1 DEF CallType
<1> HIDE DEF r
<1>3. /\ call' \in [Calls -> CallType] /\ call'[c].pc = "waiting" /\ call'[c].waits = cmd
      /\ call'[c].attempt = call[c].attempt /\ \A d \in Calls : d # c => call'[d] = call[d]
  BY <1>0, <1>2
<1>4. CallOK(c) /\ AttemptOK(c)
  BY DEF SyncInv
<1>5. CallOK(c)'
  BY <1>0, <1>1, <1>3, <1>4, Names DEF CallOK
<1>6. AttemptOK(c)'
  BY <1>0, <1>3, <1>4 DEF AttemptOK
<1> QED
  BY <1>0, <1>3, <1>5, <1>6, OnlyCall

LEMMA ReapStep ==
  ASSUME Stages = {1}, SyncInv, NEW c \in Calls, Reap(c)
  PROVE  SyncInv'
<1>0. /\ call \in [Calls -> CallType] /\ call[c].pc = "waiting" /\ CallAt(c, "waiting", "unset")
      /\ UNCHANGED <<run, loop, after, lock, isRunning, cmd, sig, term>>
  BY DEF SyncInv, Typed, Reap, CallAt, restVars
<1>1. cmd = <<c, 1>> /\ cmd \in Procs /\ isRunning /\ ps' = [ps EXCEPT ![cmd] = "reaped"]
  <2>1. CallOK(c) /\ <<c, 1>> \in Procs
    BY OneStage DEF SyncInv
  <2>2. cmd = <<c, 1>> /\ isRunning /\ call[c].waits = cmd
    BY <1>0, <2>1 DEF CallOK
  <2> QED
    BY <2>1, <2>2 DEF Reap
<1>2. /\ ps' \in [Procs -> {"none", "alive", "exited", "reaped"}] /\ ps'[<<c, 1>>] = "reaped"
      /\ \A d \in Calls : d # c => ps'[<<d, 1>>] = ps[<<d, 1>>]
  <2>1. ps \in [Procs -> {"none", "alive", "exited", "reaped"}]
    BY DEF SyncInv, Typed
  <2> QED
    BY <1>1, <2>1, OneStage
<1>3. Typed'
  BY <1>0, <1>2, CallMoves DEF SyncInv, Typed
<1>4. \A d \in Calls : CallOK(d)'
  <2> SUFFICES ASSUME NEW d \in Calls PROVE CallOK(d)'
    OBVIOUS
  <2>0. CallOK(d)
    BY DEF SyncInv
  <2>1. CASE d = c
    BY <1>0, <1>1, <1>2, <2>0, <2>1, CallMoves DEF CallOK
  <2>2. CASE d # c
    <3>1. call'[d] = call[d] /\ ps'[<<d, 1>>] = ps[<<d, 1>>]
      BY <1>0, <1>2, <2>2, CallMoves
    <3> QED
      BY <1>0, <2>0, <3>1 DEF CallOK
  <2> QED
    BY <2>1, <2>2
<1>5. \A d \in Calls : AttemptOK(d)'
  <2> SUFFICES ASSUME NEW d \in Calls PROVE AttemptOK(d)'
    OBVIOUS
  <2>0. AttemptOK(d)
    BY DEF SyncInv
  <2>1. CASE d = c
    BY <1>0, <1>2, <2>0, <2>1, CallMoves DEF AttemptOK
  <2>2. CASE d # c
    <3>1. call'[d] = call[d] /\ ps'[<<d, 1>>] = ps[<<d, 1>>]
      BY <1>0, <1>2, <2>2, CallMoves
    <3> QED
      BY <1>0, <2>0, <3>1 DEF AttemptOK
  <2> QED
    BY <2>1, <2>2
<1>6. OneAttempt' /\ TermOK' /\ \A l \in Loops : RunOK(l)'
  BY <1>0, <1>1, CallMoves DEF SyncInv, OneAttempt, TermOK, RunOK
<1> QED
  BY <1>3, <1>4, <1>5, <1>6 DEF SyncInv

\* isRunning is unset by the call that set it.
LEMMA UnsetStep ==
  ASSUME Stages = {1}, SyncInv, NEW c \in Calls, Unset(c)
  PROVE  SyncInv'
<1>0. /\ call \in [Calls -> CallType] /\ call[c].pc = "unset" /\ CallAt(c, "unset", "rest")
      /\ run \in [Loops -> RunnerType]
      /\ isRunning' = FALSE
      /\ UNCHANGED <<loop, after, lock, cmd, ps, sig, term>>
  BY OneStage DEF SyncInv, Typed, Unset, CallAt, restVars
<1>1. /\ run' \in [Loops -> RunnerType]
      /\ \A l \in Loops : /\ run'[l].pc = run[l].pc
                          /\ run'[l].sync = IF run[l].sync = "running" THEN "finishing" ELSE run[l].sync
  <2>1. run' = [l \in Loops |-> IF run[l].sync = "running" THEN [run[l] EXCEPT !.sync = "finishing"] ELSE run[l]]
    BY OneStage DEF Unset
  <2>2. ASSUME NEW l \in Loops
        PROVE  /\ run'[l] \in RunnerType /\ run'[l].pc = run[l].pc
               /\ run'[l].sync = IF run[l].sync = "running" THEN "finishing" ELSE run[l].sync
    <3>1. /\ run[l] \in RunnerType
          /\ run'[l] = IF run[l].sync = "running" THEN [run[l] EXCEPT !.sync = "finishing"] ELSE run[l]
      BY <1>0, <2>1
    <3> QED
      BY <3>1 DEF RunnerType
  <2> QED
    BY <2>1, <2>2
<1>2. isRunning /\ cmd = <<c, 1>> /\ ps[<<c, 1>>] = "reaped"
  BY <1>0 DEF SyncInv, CallOK
<1>3. \A d \in Calls : d # c => call[d].pc \notin {"open", "exec", "wait", "waiting", "unset"}
  BY <1>2, OneStage DEF SyncInv, CallOK
<1>4. Typed'
  BY <1>0, <1>1, CallMoves DEF SyncInv, Typed
<1>5. ASSUME NEW d \in Calls PROVE CallOK(d)' /\ AttemptOK(d)'
  <2>0. CallOK(d) /\ AttemptOK(d)
    BY DEF SyncInv
  <2>1. CASE d = c
    <3>1. CallOK(d)'
      BY <1>0, <1>2, <2>0, <2>1, CallMoves DEF CallOK
    <3>2. AttemptOK(d)'
      BY <1>0, <1>1, <1>2, <2>0, <2>1, CallMoves DEF AttemptOK
    <3> QED
      BY <3>1, <3>2
  <2>2. CASE d # c
    <3>0. call'[d] = call[d] /\ call[d].pc \notin {"open", "exec", "wait", "waiting", "unset"}
      BY <1>0, <1>3, <2>2, CallMoves
    <3>1. CallOK(d)'
      BY <1>0, <2>0, <3>0 DEF CallOK
    <3>2. AttemptOK(d)'
      BY <1>0, <1>1, <2>0, <3>0 DEF AttemptOK
    <3> QED
      BY <3>1, <3>2
  <2> QED
    BY <2>1, <2>2
<1>6. OneAttempt' /\ TermOK'
  BY <1>0, CallMoves DEF SyncInv, OneAttempt, TermOK
<1>7. \A l \in Loops : RunOK(l)'
  BY <1>0, <1>1, <1>2 DEF SyncInv, RunOK
<1> QED
  BY <1>4, <1>5, <1>6, <1>7 DEF SyncInv

\* provider.Run returns, to the runner if the attempt is the current one.
LEMMA ReturnStep ==
  ASSUME Stages = {1}, SyncInv, NEW c \in Calls, Return(c)
  PROVE  SyncInv'
<1>0. /\ call \in [Calls -> CallType] /\ call[c].pc \in {"rest", "fail"} /\ call' = [call EXCEPT ![c] = NoCall]
      /\ run \in [Loops -> RunnerType]
      /\ UNCHANGED <<loop, after, isRunning, cmd, ps, sig, term>>
  BY DEF SyncInv, Typed, CallType, Return, restVars
<1>1. lock' = lock /\ lock # c
  BY <1>0 DEF SyncInv, CallOK, Return
<1>2. NoCall \in CallType /\ NoCall.pc = "none" /\ NoCall.attempt = FALSE
  BY DEF NoCall, CallType
<1>3. /\ call' \in [Calls -> CallType] /\ call'[c].pc = "none" /\ ~call'[c].attempt
      /\ \A d \in Calls : d # c => call'[d] = call[d]
  BY <1>0, <1>2
<1>4. PICK err \in {"ok", "err"} :
        run' = [l \in Loops |-> IF call[c].attempt THEN [run[l] EXCEPT !.sync = err] ELSE run[l]]
  BY DEF Return
<1>5. /\ run' \in [Loops -> RunnerType]
      /\ \A l \in Loops : /\ run'[l].pc = run[l].pc
                          /\ run'[l].sync = IF call[c].attempt THEN err ELSE run[l].sync
  <2>1. ASSUME NEW l \in Loops
        PROVE  /\ run'[l] \in RunnerType /\ run'[l].pc = run[l].pc
               /\ run'[l].sync = IF call[c].attempt THEN err ELSE run[l].sync
    <3>1. /\ run[l] \in RunnerType
          /\ run'[l] = IF call[c].attempt THEN [run[l] EXCEPT !.sync = err] ELSE run[l]
      BY <1>0, <1>4
    <3> QED
      BY <3>1 DEF RunnerType
  <2> QED
    BY <1>4, <2>1
<1>6. Typed'
  BY <1>0, <1>1, <1>3, <1>5 DEF SyncInv, Typed
<1>7. ASSUME NEW d \in Calls PROVE CallOK(d)' /\ AttemptOK(d)'
  <2>0. CallOK(d) /\ AttemptOK(d)
    BY DEF SyncInv
  <2>1. CASE d = c
    BY <1>0, <1>1, <1>3, <2>0, <2>1 DEF CallOK, AttemptOK
  <2>2. CASE d # c
    <3>0. call'[d] = call[d] /\ (call[d].attempt => ~call[c].attempt)
      BY <1>3, <2>2 DEF SyncInv, OneAttempt
    <3>1. CallOK(d)'
      BY <1>0, <1>1, <2>0, <3>0 DEF CallOK
    <3>2. AttemptOK(d)'
      BY <1>0, <1>5, <2>0, <3>0 DEF AttemptOK
    <3> QED
      BY <3>1, <3>2
  <2> QED
    BY <2>1, <2>2
<1>8. OneAttempt' /\ TermOK'
  BY <1>0, <1>1, <1>3 DEF SyncInv, OneAttempt, TermOK
<1>9. \A l \in Loops : RunOK(l)'
  BY <1>0, <1>1, <1>5 DEF SyncInv, RunOK
<1> QED
  BY <1>6, <1>7, <1>8, <1>9 DEF SyncInv

LEMMA ExitStep ==
  ASSUME Stages = {1}, SyncInv, NEW p \in Procs, Exit(p)
  PROVE  SyncInv'
<1>0. /\ ps[p] = "alive" /\ ps' = [ps EXCEPT ![p] = "exited"]
      /\ ps \in [Procs -> {"none", "alive", "exited", "reaped"}]
      /\ UNCHANGED <<run, loop, after, lock, isRunning, cmd, sig, call, term>>
  BY DEF SyncInv, Typed, Exit, restVars
<1>1. ps' \in [Procs -> {"none", "alive", "exited", "reaped"}]
  BY <1>0
<1>2. \A q \in Procs : /\ ps'[q] = "reaped" <=> ps[q] = "reaped"
                       /\ ps'[q] \in {"alive", "exited"} <=> ps[q] \in {"alive", "exited"}
                       /\ ps'[q] = "alive" => ps[q] = "alive"
  BY <1>0
<1>3. Typed' /\ OneAttempt' /\ TermOK' /\ \A l \in Loops : RunOK(l)'
  BY <1>0, <1>1, <1>2 DEF SyncInv, Typed, OneAttempt, TermOK, RunOK
<1>4. ASSUME NEW c \in Calls PROVE CallOK(c)' /\ AttemptOK(c)'
  <2>1. CallOK(c) /\ AttemptOK(c) /\ <<c, 1>> \in Procs
    BY OneStage DEF SyncInv
  <2>2. /\ ps'[<<c, 1>>] = "reaped" <=> ps[<<c, 1>>] = "reaped"
        /\ ps'[<<c, 1>>] \in {"alive", "exited"} <=> ps[<<c, 1>>] \in {"alive", "exited"}
        /\ ps'[<<c, 1>>] = "alive" => ps[<<c, 1>>] = "alive"
    BY <1>2, <2>1
  <2>3. CallOK(c)'
    BY <1>0, <2>1, <2>2 DEF CallOK
  <2>4. AttemptOK(c)'
    BY <1>0, <2>1, <2>2 DEF AttemptOK
  <2> QED
    BY <2>3, <2>4
<1> QED
  BY <1>3, <1>4 DEF SyncInv

-----------------------------------------------------------------------------
(* The invariant                                                           *)

LEMMA SyncStart == ASSUME Stages = {1}, Init PROVE SyncInv
<1>0. /\ lock = "free" /\ isRunning = FALSE /\ term = FALSE
      /\ ps = [p \in Procs |-> "none"] /\ sig = [p \in Procs |-> "none"]
      /\ call = [c \in Calls |-> NoCall]
      /\ run = [l \in Loops |-> Job!NoRun]
      /\ loop = [l \in Loops |-> "none"] /\ after = [l \in Loops |-> "idle"]
  BY DEF Init, Job!JobInit
<1>1. NoCall \in CallType /\ NoCall.pc = "none" /\ NoCall.attempt = FALSE
  BY DEF NoCall, CallType
<1>2. Job!NoRun \in RunnerType /\ Job!NoRun.pc = "closed" /\ Job!NoRun.sync = "none"
  BY DEF Job!NoRun, RunnerType
<1>3. Typed
  BY <1>0, <1>1, <1>2 DEF Typed
<1>4. ASSUME NEW c \in Calls PROVE CallOK(c) /\ AttemptOK(c)
  <2>1. call[c].pc = "none" /\ ~call[c].attempt /\ ps[<<c, 1>>] = "none" /\ lock # c
    BY <1>0, <1>1, OneStage, Names
  <2> QED
    BY <2>1 DEF CallOK, AttemptOK
<1>5. OneAttempt /\ TermOK
  BY <1>0, <1>1 DEF OneAttempt, TermOK
<1>6. ASSUME NEW l \in Loops PROVE RunOK(l)
  BY <1>0, <1>2 DEF RunOK
<1> QED
  BY <1>3, <1>4, <1>5, <1>6 DEF SyncInv

LEMMA SyncStep == ASSUME Stages = {1}, SyncInv, [Next]_vars PROVE SyncInv'
<1>1. CASE UNCHANGED vars
  <2>1. UNCHANGED <<procVars, run, loop, after>>
    BY <1>1 DEF vars, restVars
  <2> QED
    BY <2>1, Aside DEF SyncInv, Typed, RunOK
<1>2. ASSUME NEW l \in Loops, Loop(l) PROVE SyncInv'
  BY <1>2, LoopStep DEF Loop
<1>3. ASSUME NEW l \in Loops, Runner(l) PROVE SyncInv'
  BY <1>3, HooksStep, OutsideStep, WatchStep, SyncingStep, TerminateStep, SigTermStep
     DEF Runner, PreSyncing, Close, procVars
<1>4. ASSUME NEW c \in Calls, ProviderRun(c) PROVE SyncInv'
  BY <1>4, LockStep, OpenStep, ExecStep, WaitStep, ReapStep, UnsetStep, ReturnStep DEF ProviderRun
<1>5. ASSUME NEW p \in Procs, Exit(p) PROVE SyncInv'
  BY <1>5, ExitStep
<1>6. CASE SigKill
  BY <1>6, SigKillStep
<1>7. CASE Release \/ Environment
  BY <1>7, EnvironmentStep DEF Release, Environment
<1> QED
  BY <1>1, <1>2, <1>3, <1>4, <1>5, <1>6, <1>7 DEF Next

-----------------------------------------------------------------------------
(* What MirrorJob says of provider and hooks                               *)

\* MirrorJob does not see a step that leaves the process and the runners alone.
LEMMA Unseen ==
  ASSUME UNCHANGED restVars, run' = run, Process' = Process
  PROVE  UNCHANGED Job!jobVars
  BY DEF restVars, Job!jobVars, Job!loopVars, Job!tokens

\* The hooks are MirrorJob's hook phases.
LEMMA HooksImplement ==
  ASSUME NEW l \in Loops, RunHooks(l)
  PROVE  Job!PreHooks(l) \/ Job!PostHooks(l) \/ UNCHANGED Job!jobVars
<1>0. UNCHANGED <<restVars, procVars>>
  BY DEF RunHooks, LogPreExec, LogPostSuccess, LogPostFail, ZfsPreJob, BtrfsPreJob, BtrfsPostSuccess,
         ExecPost, emptyHook, PhaseDone
<1>1. Process' = Process
  BY <1>0 DEF Process, procVars
<1>2. \/ run' = run
      \/ /\ run[l].pc = IF hook.phase = "post" THEN "posthooks" ELSE "prehooks"
         /\ HookError(l)
      \/ run[l].pc = "prehooks" /\ run' = [run EXCEPT ![l].pc = "syncing"]
      \/ run[l].pc = "posthooks" /\ run' = [run EXCEPT ![l].pc = "report"]
  BY DEF RunHooks, LogPreExec, LogPostSuccess, LogPostFail, ZfsPreJob, BtrfsPreJob, BtrfsPostSuccess,
         ExecPost, emptyHook, PhaseDone, NextHook, Calling
<1>3. CASE run' = run
  BY <1>0, <1>1, <1>3, Unseen
<1>4. UNCHANGED <<Job!loopVars, managerChan, Job!tokens, Process, crashed>>
  BY <1>0, <1>1 DEF restVars, Job!loopVars, Job!tokens
<1> QED
  BY <1>2, <1>3, <1>4 DEF HookError, Job!PreHooks, Job!PostHooks, Job!RunAt

\* SIGTERM, or the error of a process that is gone.
LEMMA SigTermImplements ==
  ASSUME Stages = {1}, SyncInv, NEW l \in Loops, SigTerm(l)
  PROVE  Job!SendSignal(l)
<1>0. /\ run[l].pc = "signal" /\ cmd \in Procs /\ (isRunning \/ ps[cmd] = "reaped")
      /\ sig \in [Procs -> {"none", "term", "kill"}]
      /\ UNCHANGED <<restVars, isRunning, cmd, ps>>
  BY DEF SyncInv, Typed, RunOK, SigTerm
<1>1. ps[cmd] = "reaped" <=> Process \notin {"alive", "killed"}
  BY <1>0 DEF Process
<1>2. Process' = IF Process = "alive" THEN "killed" ELSE Process
  <2>1. CASE ps[cmd] = "reaped"
    BY <1>0, <2>1 DEF Process, SigTerm
  <2>2. CASE ps[cmd] # "reaped"
    <3>1. isRunning /\ isRunning' /\ sig'[cmd'] = "term" /\ ps'[cmd'] # "reaped"
      BY <1>0, <2>2 DEF SigTerm
    <3> QED
      BY <1>0, <2>2, <3>1 DEF Process
  <2> QED
    BY <2>1, <2>2
<1>3. UNCHANGED <<Job!loopVars, managerChan, Job!tokens, crashed>>
  BY <1>0 DEF restVars, Job!loopVars, Job!tokens
<1>4. run' = [run EXCEPT ![l].pc = IF Process \in {"alive", "killed"} THEN "posthooks" ELSE "done",
                         ![l].sync = "none"]
  BY <1>1 DEF SigTerm
<1> QED
  BY <1>0, <1>2, <1>3, <1>4 DEF Job!SendSignal, Job!Signalled

\* A process starts, or is refused, as in MirrorJob, and the rest of
\* provider.Run ends as there.
LEMMA ProviderImplements ==
  ASSUME Stages = {1}, SyncInv, NEW c \in Calls, ProviderRun(c)
  PROVE  \/ \E l \in Loops : Job!Provider(l)
         \/ Job!WaitReturns \/ Job!ProcessExit("alive") \/ Job!ProcessExit("killed")
         \/ UNCHANGED Job!jobVars
<1>0. /\ CallOK(c) /\ AttemptOK(c) /\ run \in [Loops -> RunnerType]
      /\ ps \in [Procs -> {"none", "alive", "exited", "reaped"}]
      /\ sig \in [Procs -> {"none", "term", "kill"}]
  BY DEF SyncInv, Typed
<1>1. CASE Lock(c) \/ Wait(c)
  <2>1. UNCHANGED <<restVars, run, isRunning, cmd, ps, sig>>
    BY <1>1 DEF Lock, Wait
  <2> QED
    BY <2>1, Unseen DEF Process
<1>2. CASE Open(c)
  <2>1. UNCHANGED <<restVars, run>> /\ ~isRunning /\ ~isRunning'
    BY <1>0, <1>2 DEF Open, CallAt, CallOK
  <2> QED
    BY <2>1, Unseen DEF Process
<1>3. CASE Exec(c)
  <2>1. UNCHANGED <<restVars, cmd>> /\ call[c].pc = "exec"
    BY <1>3 DEF Exec, CallAt
  <2>2. ~isRunning /\ cmd \in Procs /\ call[c].attempt
    BY <1>0, <2>1, OneStage DEF CallOK, AttemptOK
  <2>3. PICK l \in Loops : Loops = {l}
    BY SyncRunAssumption
  <2>4. run[l].sync = "spawned" /\ run[l].pc = "await"
    BY <1>0, <2>1, <2>2 DEF AttemptOK, SyncInv, RunOK
  <2>5. UNCHANGED <<Job!loopVars, managerChan, Job!tokens, crashed>> /\ Process = "off"
    BY <2>1, <2>2 DEF restVars, Job!loopVars, Job!tokens, Process
  <2>6. CASE UNCHANGED <<ps, sig, isRunning, run>>
    BY <2>1, <2>6, Unseen DEF Process
  <2>7. CASE /\ ps' = [ps EXCEPT ![cmd] = "alive"] /\ sig' = [sig EXCEPT ![cmd] = "none"]
             /\ isRunning' = TRUE
             /\ run' = [k \in Loops |-> IF call[c].attempt THEN [run[k] EXCEPT !.sync = "running"] ELSE run[k]]
    <3>1. Process' = "alive"
      BY <1>0, <2>1, <2>2, <2>7 DEF Process
    <3>2. run' = [run EXCEPT ![l].sync = "running"]
      BY <1>0, <2>2, <2>3, <2>7
    <3> QED
      BY <2>3, <2>4, <2>5, <3>1, <3>2 DEF Job!Provider, Job!ProviderStart
  <2> QED
    BY <1>3, <2>6, <2>7 DEF Exec
<1>4. CASE Reap(c)
  <2>1. /\ UNCHANGED <<restVars, run, isRunning, cmd, sig>> /\ call[c].pc = "waiting"
        /\ ps' = [ps EXCEPT ![call[c].waits] = "reaped"]
    BY <1>4 DEF Reap, CallAt
  <2>2. isRunning /\ cmd \in Procs /\ call[c].waits = cmd /\ ps[cmd] # "reaped"
    BY <1>0, <2>1, OneStage DEF CallOK
  <2>3. Process \in {"alive", "killed"} /\ Process' = "reaped"
    BY <1>0, <2>1, <2>2 DEF Process
  <2> QED
    BY <2>1, <2>3 DEF Job!ProcessExit, restVars, Job!loopVars, Job!tokens
<1>5. CASE Unset(c)
  <2>1. UNCHANGED restVars /\ call[c].pc = "unset" /\ isRunning' = FALSE
    BY <1>5 DEF Unset, CallAt
  <2>2. isRunning /\ ps[cmd] = "reaped"
    BY <1>0, <2>1 DEF CallOK
  <2>3. Process = "reaped" /\ Process' = "off"
    BY <2>1, <2>2 DEF Process
  <2>4. run' = [l \in Loops |-> IF run[l].sync = "running" THEN [run[l] EXCEPT !.sync = "finishing"] ELSE run[l]]
    BY <1>5, OneStage DEF Unset
  <2> QED
    BY <2>1, <2>3, <2>4 DEF Job!WaitReturns, restVars, Job!loopVars, Job!tokens
<1>6. CASE Return(c)
  <2>1. UNCHANGED <<restVars, isRunning, cmd, ps, sig>> /\ call[c].pc \in {"rest", "fail"}
    BY <1>6 DEF Return, SyncInv, Typed, CallType
  <2>2. Process' = Process
    BY <2>1 DEF Process
  <2>3. PICK err \in {"ok", "err"} :
          /\ call[c].pc # "rest" => err = "err"
          /\ run' = [l \in Loops |-> IF call[c].attempt THEN [run[l] EXCEPT !.sync = err] ELSE run[l]]
    BY <1>6 DEF Return
  <2>4. CASE ~call[c].attempt
    <3>1. run' = run
      BY <1>0, <2>3, <2>4
    <3> QED
      BY <2>1, <2>2, <3>1, Unseen
  <2>5. CASE call[c].attempt
    <3>1. PICK l \in Loops : Loops = {l}
      BY SyncRunAssumption
    <3>2. run' = [run EXCEPT ![l].sync = err]
      BY <1>0, <2>3, <2>5, <3>1
    <3>3. \/ call[c].pc = "rest" /\ run[l].sync = "finishing"
          \/ err = "err" /\ run[l].sync = "spawned"
      BY <1>0, <2>1, <2>3, <2>5 DEF AttemptOK
    <3>4. run[l].sync = "spawned" => \A k \in Loops : run[k].pc # "signal"
      BY <3>1 DEF SyncInv, RunOK
    <3>5. UNCHANGED <<Job!loopVars, managerChan, Job!tokens, Process, crashed>>
      BY <2>1, <2>2 DEF restVars, Job!loopVars, Job!tokens
    <3> QED
      BY <3>2, <3>3, <3>4, <3>5 DEF Job!Provider, Job!ProviderStart, Job!ProviderReturn
  <2> QED
    BY <2>4, <2>5 DEF SyncInv, Typed, CallType
<1> QED
  BY <1>1, <1>2, <1>3, <1>4, <1>5, <1>6 DEF ProviderRun

\* Every step is one of MirrorJob, or one that it does not see.
LEMMA StepImplements ==
  ASSUME Stages = {1}, SyncInv, [Next]_vars
  PROVE  [Job!JobNext]_(Job!jobVars)
<1>1. CASE UNCHANGED vars
  <2>1. UNCHANGED <<restVars, run, procVars>>
    BY <1>1 DEF vars
  <2> QED
    BY <2>1, Unseen DEF procVars, Process
<1>2. ASSUME NEW l \in Loops, Loop(l) PROVE Job!Loop(l)
  BY <1>2 DEF Loop
<1>3. ASSUME NEW l \in Loops, Runner(l) PROVE Job!Runner(l) \/ UNCHANGED Job!jobVars
  BY <1>3, HooksImplement, SigTermImplements DEF Runner, PreSyncing, Syncing, Terminate, Close, Job!Runner
<1>4. ASSUME NEW c \in Calls, ProviderRun(c)
      PROVE  \/ \E l \in Loops : Job!Provider(l)
             \/ Job!WaitReturns \/ Job!ProcessExit("alive") \/ Job!ProcessExit("killed")
             \/ UNCHANGED Job!jobVars
  BY <1>4, ProviderImplements
<1>5. ASSUME NEW p \in Procs, Exit(p) PROVE UNCHANGED Job!jobVars
  <2>1. /\ UNCHANGED <<restVars, run, isRunning, cmd, sig>>
        /\ ps[p] = "alive" /\ ps' = [ps EXCEPT ![p] = "exited"]
        /\ ps \in [Procs -> {"none", "alive", "exited", "reaped"}]
        /\ isRunning => cmd \in Procs
    BY <1>5 DEF Exit, SyncInv, Typed
  <2>2. Process' = Process
    BY <2>1 DEF Process
  <2> QED
    BY <2>1, <2>2, Unseen
<1>6. CASE SigKill
  <2>1. /\ UNCHANGED <<restVars, run, isRunning, cmd, ps>> /\ cmd \in Procs /\ sig[cmd] # "none"
        /\ sig' = IF ps[cmd] = "reaped" THEN sig ELSE [sig EXCEPT ![cmd] = "kill"]
        /\ sig \in [Procs -> {"none", "term", "kill"}]
    BY <1>6 DEF SigKill, SyncInv, TermOK, Typed
  <2>2. Process' = Process
    BY <2>1 DEF Process
  <2> QED
    BY <2>1, <2>2, Unseen
<1>7. Release => Job!Release
  BY DEF Release
<1>8. Environment => Job!Environment
  BY DEF Environment
<1>9. CASE Next
  BY <1>2, <1>3, <1>4, <1>5, <1>6, <1>7, <1>8, <1>9 DEF Next, Job!JobNext, Job!JobStep
<1> QED
  BY <1>1, <1>9

-----------------------------------------------------------------------------
(* Theorems                                                                *)

\* The invariant holds in every state of a provider with one stage.
LEMMA AlwaysSync == ASSUME Stages = {1} PROVE Spec => []SyncInv
<1>1. Init => SyncInv
  BY SyncStart
<1>2. SyncInv /\ [Next]_vars => SyncInv'
  BY SyncStep
<1> QED
  BY <1>1, <1>2, PTL DEF Spec

\* The command and rsync providers and the hooks do what MirrorJob says of
\* them, so that what is proved of MirrorJob is true of the detailed job.
THEOREM SyncRunImplementsJob == ASSUME Stages = {1} PROVE Spec => ImplementsJob
<1>1. Init => Job!JobInit
  BY DEF Init
<1>2. SyncInv /\ [Next]_vars => [Job!JobNext]_(Job!jobVars)
  BY StepImplements
<1> QED
  BY <1>1, <1>2, AlwaysSync, PTL DEF Spec, ImplementsJob, Job!JobSpec

\* Two sync processes never run at once, however many calls of terminated
\* attempts are still in the provider.
THEOREM OneProcessHolds == ASSUME Stages = {1} PROVE Spec => []OneProcess
<1>1. SyncInv => OneProcess
  <2> SUFFICES ASSUME SyncInv PROVE OneProcess
    OBVIOUS
  <2> DEFINE There == {p \in Procs : ps[p] \in {"alive", "exited"}}
  <2>1. \A p \in There : p = cmd
    <3> SUFFICES ASSUME NEW p \in There PROVE p = cmd
      OBVIOUS
    <3>1. p[1] \in Calls /\ p = <<p[1], 1>> /\ ps[<<p[1], 1>>] \in {"alive", "exited"}
      BY OneStage
    <3> QED
      BY <3>1 DEF SyncInv, CallOK
  <2>2. There = {} \/ There = {cmd}
    BY <2>1
  <2>3. Cardinality(There) \in {0, 1}
    BY <2>2, FS_EmptySet, FS_Singleton
  <2> QED
    BY <2>3 DEF OneProcess
<1> QED
  BY <1>1, AlwaysSync, PTL

\* No sync process that was never signalled is left behind by its runner.
THEOREM NoUnattendedSyncHolds == ASSUME Stages = {1} PROVE Spec => []NoUnattendedSync
<1>1. SyncInv => NoUnattendedSync
  <2> SUFFICES ASSUME SyncInv, NEW p \in Procs, ps[p] = "alive", sig[p] = "none" PROVE call[p[1]].attempt
    BY DEF NoUnattendedSync
  <2>1. p[1] \in Calls /\ p = <<p[1], 1>>
    BY OneStage
  <2> QED
    BY <2>1 DEF SyncInv, AttemptOK
<1> QED
  BY <1>1, AlwaysSync, PTL
=============================================================================
