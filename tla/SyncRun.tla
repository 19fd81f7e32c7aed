------------------------------- MODULE SyncRun -------------------------------
(***************************************************************************)
(* A run of the mirror job in detail: the hooks around each attempt        *)
(* (worker/*_hook.go, worker/context.go) and the provider that runs the    *)
(* sync process (worker/*provider.go, worker/runner.go), with its mutex,   *)
(* p.cmd, isRunning, SIGTERM and SIGKILL, and the log file.  The control   *)
(* loop and the rest of the runner are those of MirrorJob, whose process   *)
(* and hook phases this module implements.                                 *)
(*                                                                         *)
(* A "call" is a goroutine in provider.Run.  It outlives the attempt that  *)
(* made it when the attempt is terminated, so calls of several attempts    *)
(* can meet in the provider.                                               *)
(***************************************************************************)
EXTENDS Integers, Sequences, FiniteSets

CONSTANTS
  Loops, Retry, Concurrent, ChanCap, Timeout, FailingHooks, Controls, \* as in MirrorJob
  Stages,     \* {1} for the command and rsync providers, {1, 2} for two-stage-rsync
  Calls,      \* bound: the calls of provider.Run that may be in progress at once
  Hooks       \* provider.Hooks(): the log limiter, then "zfs", "btrfs" and "exec" hooks

ASSUME SyncRunAssumption ==
  /\ \E l \in Loops : Loops = {l}
  /\ Stages \in {{1}, {1, 2}}
  /\ Hooks \in Seq({"log", "zfs", "btrfs", "exec"})
  /\ Hooks # <<>> /\ \A i \in 1..Len(Hooks) : Hooks[i] = "log" <=> i = 1
  /\ {"free", "term", "nil"} \cap Calls = {}

VARIABLES
  state, ctrlChan, managerChan, semaphore, releasing, bypass, loop, after, run,
  disabled, crashed,  \* as in MirrorJob
  lock,       \* who holds the provider's mutex: "free", "term" or a call
  isRunning,  \* p.isRunning
  cmd,        \* p.cmd: the process it stands for
  ps,         \* each process: not there, running, exited, waited for (finished closed)
  sig,        \* the strongest signal each process got
  fd,         \* p.logFileFd: the call that opened it, or "nil"
  call,       \* the goroutines in provider.Run
  term,       \* Terminate has sent SIGTERM and waits for the process
  hook,       \* the hook phase that is next or in progress, and the place in it
  layers,     \* context layers entered since the run began and not left
  snapshot    \* the btrfs snapshot: of a quiet directory, or of one that a sync wrote to

restVars == <<state, ctrlChan, loop, after, disabled, semaphore, releasing, bypass,
              managerChan, crashed>>
procVars == <<lock, isRunning, cmd, ps, sig, fd, call, term>>
hookVars == <<hook, layers, snapshot>>
vars == <<restVars, run, procVars, hookVars>>

Procs == Calls \X Stages   \* the process of a call, or of each of its stages
TwoStage == Stages = {1, 2}

\* MirrorJob's view of the process
Process ==
  CASE ~isRunning -> "off"
    [] isRunning /\ ps[cmd] = "reaped" -> "reaped"
    [] isRunning /\ ps[cmd] # "reaped" -> IF sig[cmd] = "none" THEN "alive" ELSE "killed"

Job == INSTANCE MirrorJob WITH proc <- Process

NoCall == [pc |-> "none", stage |-> 1, waits |-> <<>>, attempt |-> FALSE]
FirstHook(phase) == [phase |-> phase, i |-> 1]

\* newMirrorProvider and newMirrorJob
Init ==
  /\ lock = "free"
  /\ isRunning = FALSE
  /\ cmd = <<>>
  /\ ps = [p \in Procs |-> "none"]
  /\ sig = [p \in Procs |-> "none"]
  /\ fd = "nil"
  /\ call = [c \in Calls |-> NoCall]
  /\ term = FALSE
  /\ hook = FirstHook("preJob")
  /\ layers = 0
  /\ snapshot = "quiet"
  /\ Job!JobInit

\* the call of the attempt that l is in, if any, is nobody's from now on
Abandoned == [c \in Calls |-> [call[c] EXCEPT !.attempt = FALSE]]
CallAt(c, from, to) == call[c].pc = from /\ call' = [call EXCEPT ![c].pc = to]

-----------------------------------------------------------------------------
(* The hooks of a run: runHooks in mirrorJob.Run                           *)

\* post hooks are called in reverse order: rHooks
HookAt(i) == IF hook.phase = "post" THEN Hooks[Len(Hooks) + 1 - i] ELSE Hooks[i]

\* hook h is called, in the post-success or the post-fail phase if phase says so
Calling(l, h, phase) ==
  /\ run[l].pc = IF hook.phase = "post" THEN "posthooks" ELSE "prehooks"
  /\ ~term
  /\ hook.i <= Len(Hooks) /\ HookAt(hook.i) = h
  /\ phase = CASE hook.phase # "post" -> hook.phase
               [] hook.phase = "post" -> IF run[l].result = "ok" THEN "postSuccess" ELSE "postFail"

NextHook == hook' = [hook EXCEPT !.i = @ + 1] /\ UNCHANGED run

\* a hook returns an error, if the hooks of its phase can
HookError(l) ==
  /\ run' = [run EXCEPT ![l].pc = "hookfail"]
  /\ (IF hook.phase = "post" THEN "post" ELSE "pre") \in FailingHooks
  /\ UNCHANGED hook

\* the layers of the provider's context; Exit at the bottom has none to return
EnterContext == layers' = layers + 1
ExitContext == layers' = layers - 1

\* logLimiter.preExec: fails when the directory cannot be read; removes old
\* files, links "latest" to the new one and enters a layer that names it
LogPreExec(l) ==
  /\ Calling(l, "log", "preExec")
  /\ (NextHook /\ EnterContext) \/ (HookError(l) /\ UNCHANGED layers)
  /\ UNCHANGED <<restVars, procVars, snapshot>>

LogPostSuccess(l) ==
  /\ Calling(l, "log", "postSuccess")
  /\ NextHook /\ ExitContext
  /\ UNCHANGED <<restVars, procVars, snapshot>>

LogPostFailStays(l) ==
  /\ Calling(l, "log", "postFail")
  /\ NextHook
  /\ UNCHANGED <<restVars, procVars, layers, snapshot>>

\* logLimiter.postFail: the file is renamed to *.fail and linked
LogPostFail(l) ==
  /\ Calling(l, "log", "postFail")
  /\ NextHook /\ ExitContext
  /\ UNCHANGED <<restVars, procVars, snapshot>>

\* zfsHook.preJob: the working directory must be a mount point
ZfsPreJob(l) ==
  /\ Calling(l, "zfs", "preJob")
  /\ NextHook \/ HookError(l)
  /\ UNCHANGED <<restVars, procVars, layers, snapshot>>

\* btrfsSnapshotHook.preJob: it must be a subvolume, or is made one
BtrfsPreJob(l) ==
  /\ Calling(l, "btrfs", "preJob")
  /\ NextHook \/ HookError(l)
  /\ UNCHANGED <<restVars, procVars, layers, snapshot>>

Writing == {p \in Procs : ps[p] = "alive"}

\* btrfsSnapshotHook.postSuccess: the old snapshot is deleted, then a new one
\* made, and both may fail
BtrfsPostSuccess(l) ==
  /\ Calling(l, "btrfs", "postSuccess")
  /\ \/ NextHook /\ snapshot' = IF Writing = {} THEN "quiet" ELSE "torn"
     \/ HookError(l) /\ UNCHANGED snapshot
  /\ UNCHANGED <<restVars, procVars, layers>>

\* execPostHook: its command runs on success or on failure
ExecPost(l) ==
  /\ Calling(l, "exec", "postSuccess") \/ Calling(l, "exec", "postFail")
  /\ NextHook \/ HookError(l)
  /\ UNCHANGED <<restVars, procVars, layers, snapshot>>

\* the phases in which a hook has nothing to do
emptyHook(l) ==
  /\ \E x \in {<<"log", "preJob">>, <<"zfs", "preExec">>, <<"zfs", "postSuccess">>, <<"zfs", "postFail">>,
               <<"btrfs", "preExec">>, <<"btrfs", "postFail">>, <<"exec", "preJob">>, <<"exec", "preExec">>} :
        Calling(l, x[1], x[2])
  /\ NextHook
  /\ UNCHANGED <<restVars, procVars, layers, snapshot>>

\* the end of a phase: pre-exec after pre-job, the sync after pre-exec, and
\* the report, with pre-exec for a retry, after the post hooks
PhaseDone(l) ==
  /\ hook.i > Len(Hooks)
  /\ ~term
  /\ \/ /\ hook.phase = "preJob" /\ run[l].pc = "prehooks"
        /\ hook' = FirstHook("preExec") /\ UNCHANGED run
     \/ /\ hook.phase = "preExec" /\ run[l].pc = "prehooks"
        /\ hook' = FirstHook("post") /\ run' = [run EXCEPT ![l].pc = "syncing"]
     \/ /\ hook.phase = "post" /\ run[l].pc = "posthooks"
        /\ hook' = FirstHook("preExec") /\ run' = [run EXCEPT ![l].pc = "report"]
  /\ UNCHANGED <<restVars, procVars, layers, snapshot>>

RunHooks(l) ==
  \/ LogPreExec(l) \/ LogPostSuccess(l) \/ LogPostFail(l) \/ ZfsPreJob(l) \/ BtrfsPreJob(l)
  \/ BtrfsPostSuccess(l) \/ ExecPost(l) \/ emptyHook(l) \/ PhaseDone(l)

-----------------------------------------------------------------------------
(* provider.Run                                                            *)

\* c may stand for a new call: nothing of the one before is left
Free(c) ==
  /\ call[c].pc = "none"
  /\ \A p \in {c} \X Stages : /\ ps[p] \in {"none", "reaped"}
                             /\ \A d \in Calls : call[d].waits # p

\* report Syncing and go provider.Run
Syncing(l) ==
  /\ \E c \in Calls :
        /\ Free(c)
        /\ call' = [call EXCEPT ![c] = [NoCall EXCEPT !.pc = "lock", !.attempt = TRUE]]
  /\ UNCHANGED <<lock, isRunning, cmd, ps, sig, fd, term, hookVars>>
  /\ Job!Syncing(l)

Refuses == FALSE

Refused == isRunning

LockLoose(c) ==
  /\ lock = "free"
  /\ CallAt(c, "lock", IF Refused THEN "fail" ELSE "open")
  /\ UNCHANGED <<restVars, run, lock, isRunning, cmd, ps, sig, fd, term, hookVars>>

\* p.Lock(), and "provider is currently running"
Lock(c) ==
  /\ lock = "free"
  /\ IF Refused
     THEN CallAt(c, "lock", IF TwoStage THEN "refused" ELSE "fail") /\ UNCHANGED lock
     ELSE CallAt(c, "lock", "open") /\ lock' = c
  /\ UNCHANGED <<restVars, run, isRunning, cmd, ps, sig, fd, term, hookVars>>

\* p.cmd = newCmdJob(...); prepareLogFile
Open(c) ==
  /\ cmd' = <<c, call[c].stage>>
  /\ \/ /\ CallAt(c, "open", "exec")
        /\ fd' = c
        /\ UNCHANGED lock
     \/ /\ CallAt(c, "open", IF TwoStage /\ call[c].stage = 1 THEN "refused" ELSE "fail")
        /\ lock' = IF TwoStage THEN lock ELSE "free"
        /\ UNCHANGED fd
  /\ UNCHANGED <<restVars, run, isRunning, ps, sig, term, hook, layers, snapshot>>

ExecUnmarked(c) ==
  /\ fd = c
  /\ CallAt(c, "exec", "wait")
  /\ ps' = [ps EXCEPT ![cmd] = "alive"]
  /\ sig' = [sig EXCEPT ![cmd] = "none"]
  /\ lock' = "free"
  /\ run' = [l \in Loops |-> IF call[c].attempt THEN [run[l] EXCEPT !.sync = "running"] ELSE run[l]]
  /\ UNCHANGED <<restVars, isRunning, cmd, fd, term, hookVars>>

\* p.cmd.Start(), which fails if another call closed the log file in between;
\* isRunning, started <-, p.Unlock()
Exec(c) ==
  /\ \/ /\ fd = c
        /\ CallAt(c, "exec", "wait")
        /\ ps' = [ps EXCEPT ![cmd] = "alive"]
        /\ sig' = [sig EXCEPT ![cmd] = "none"]
        /\ isRunning' = TRUE
        /\ lock' = "free"
        /\ run' = [l \in Loops |-> IF call[c].attempt THEN [run[l] EXCEPT !.sync = "running"] ELSE run[l]]
     \/ /\ CallAt(c, "exec", "fail")
        /\ lock' = IF TwoStage THEN lock ELSE "free"
        /\ UNCHANGED <<ps, sig, isRunning, run>>
  /\ UNCHANGED <<restVars, cmd, fd, term, hookVars>>

\* p.cmd is read when Wait is called
Wait(c) ==
  /\ call[c].pc = "wait"
  /\ call' = [call EXCEPT ![c].pc = "waiting", ![c].waits = cmd]
  /\ UNCHANGED <<restVars, run, lock, isRunning, cmd, ps, sig, fd, term, hookVars>>

ReapAtOnce(c) ==
  /\ CallAt(c, "waiting", "unset")
  /\ UNCHANGED <<restVars, run, lock, isRunning, cmd, ps, sig, fd, term, hookVars>>

\* c.cmd.Wait() collects the process and closes finished; who comes second
\* finds finished closed
Reap(c) ==
  /\ CallAt(c, "waiting", "unset")
  /\ ps[call[c].waits] \in {"exited", "reaped"}
  /\ ps' = [ps EXCEPT ![call[c].waits] = "reaped"]
  /\ UNCHANGED <<restVars, run, lock, isRunning, cmd, sig, fd, term, hookVars>>

\* baseProvider.Wait() unsets isRunning
Unset(c) ==
  /\ CallAt(c, "unset", IF TwoStage THEN "relock" ELSE "rest")
  /\ isRunning' = FALSE
  /\ run' = [l \in Loops |-> IF ~TwoStage /\ run[l].sync = "running"
                             THEN [run[l] EXCEPT !.sync = "finishing"] ELSE run[l]]
  /\ UNCHANGED <<restVars, lock, cmd, ps, sig, fd, term, hookVars>>

\* the rest of provider.Run with the deferred closeLogFile and p.Unlock(), and
\* syncDone <- err
Return(c) ==
  /\ call[c].pc \in {"rest", "fail", "refused"}
  /\ fd' = IF call[c].pc = "refused" THEN fd ELSE "nil"
  /\ lock' = IF lock = c THEN "free" ELSE lock
  /\ \E err \in {"ok", "err"} :
        /\ call[c].pc # "rest" => err = "err"
        /\ run' = [l \in Loops |-> IF call[c].attempt THEN [run[l] EXCEPT !.sync = err] ELSE run[l]]
  /\ call' = [call EXCEPT ![c] = NoCall]
  /\ UNCHANGED <<restVars, isRunning, cmd, ps, sig, term, hookVars>>

\* the process comes to its end, or dies of a signal
Exit(p) ==
  /\ ps[p] = "alive"
  /\ ps' = [ps EXCEPT ![p] = "exited"]
  /\ UNCHANGED <<restVars, run, lock, isRunning, cmd, sig, fd, call, term, hookVars>>

ProviderRun(c) ==
  \/ Lock(c) \/ Open(c) \/ Exec(c) \/ Wait(c) \/ Reap(c) \/ Unset(c) \/ Return(c)

-----------------------------------------------------------------------------
(* provider.Terminate                                                      *)

\* p.Lock(), and nothing to do if isRunning is unset
Terminate(l) ==
  /\ lock = "free"
  /\ lock' = IF isRunning THEN "term" ELSE "free"
  /\ call' = IF isRunning THEN call ELSE Abandoned
  /\ UNCHANGED <<isRunning, cmd, ps, sig, fd, term, hookVars>>
  /\ Job!TimedOut(l) \/ Job!Killed(l)

SigTermNoError(l) ==
  /\ run[l].pc = "signal"
  /\ sig' = [sig EXCEPT ![cmd] = "term"]
  /\ term' = TRUE
  /\ run' = [run EXCEPT ![l].pc = "posthooks", ![l].sync = "none"]
  /\ call' = Abandoned
  /\ UNCHANGED <<restVars, lock, isRunning, cmd, ps, fd, hookVars>>

\* SIGTERM; an error if the process was waited for already
SigTerm(l) ==
  /\ run[l].pc = "signal"
  /\ IF ps[cmd] = "reaped"
     THEN lock' = "free" /\ UNCHANGED <<sig, term>>
     ELSE sig' = [sig EXCEPT ![cmd] = "term"] /\ term' = TRUE /\ UNCHANGED lock
  /\ run' = [run EXCEPT ![l].pc = IF ps[cmd] = "reaped" THEN "done" ELSE "posthooks",
                        ![l].sync = "none"]
  /\ call' = Abandoned
  /\ UNCHANGED <<restVars, isRunning, cmd, ps, fd, hookVars>>

SigTermOnly ==
  /\ term
  /\ ps[cmd] = "reaped"
  /\ term' = FALSE
  /\ lock' = "free"
  /\ UNCHANGED <<restVars, run, isRunning, cmd, ps, sig, fd, call, hookVars>>

\* finished is closed, or SIGKILL after two seconds; p.Unlock()
SigKill ==
  /\ term
  /\ sig' = IF ps[cmd] = "reaped" THEN sig ELSE [sig EXCEPT ![cmd] = "kill"]
  /\ term' = FALSE
  /\ lock' = "free"
  /\ UNCHANGED <<restVars, run, isRunning, cmd, ps, fd, call, hookVars>>

-----------------------------------------------------------------------------
(* The rest of the job, as in MirrorJob                                    *)

\* a run begins
PreSyncing(l) ==
  /\ layers' = 0
  /\ UNCHANGED <<procVars, hook, snapshot>>
  /\ Job!PreSyncing(l)

\* a run is over
Close(l) ==
  /\ hook' = FirstHook("preJob")
  /\ UNCHANGED <<procVars, layers, snapshot>>
  /\ Job!Close(l)

Runner(l) ==
  \/ RunHooks(l) \/ PreSyncing(l) \/ Syncing(l) \/ Terminate(l) \/ SigTerm(l) \/ Close(l)
  \/ /\ UNCHANGED <<procVars, hookVars>>
     /\ \/ Job!Acquire(l) \/ Job!Bypass(l) \/ Job!Drop(l) \/ Job!Started(l) \/ Job!NilPanic(l)
        \/ Job!SyncDone(l) \/ Job!HookFail(l) \/ Job!Report(l) \/ Job!SendResult(l)

Loop(l) == UNCHANGED <<procVars, hookVars>> /\ Job!Loop(l)
Release == UNCHANGED <<procVars, hookVars>> /\ Job!Release
Receive == UNCHANGED <<procVars, hookVars>> /\ Job!Receive
Environment == UNCHANGED <<procVars, hookVars>> /\ Job!Environment

Next ==
  /\ ~crashed
  /\ \/ \E l \in Loops : Loop(l) \/ Runner(l)
     \/ \E c \in Calls : ProviderRun(c)
     \/ \E p \in Procs : Exit(p)
     \/ SigKill \/ Release \/ Environment

Spec == Init /\ [][Next]_vars

\* Goroutines run on, messages are received, and SIGKILL ends a process
Fairness ==
  /\ \A l \in Loops : WF_vars(~crashed /\ Loop(l)) /\ WF_vars(~crashed /\ Runner(l))
  /\ \A c \in Calls : WF_vars(~crashed /\ ProviderRun(c))
  /\ \A p \in Procs : WF_vars(~crashed /\ sig[p] = "kill" /\ Exit(p))
  /\ WF_vars(~crashed /\ SigKill)
  /\ WF_vars(~crashed /\ Release)
  /\ WF_vars(~crashed /\ Receive)

FairSpec == Spec /\ Fairness

-----------------------------------------------------------------------------
(* Properties                                                              *)

\* The variables have their types; the mutex is held by a call that is in the
\* part of provider.Run that it protects, or by Terminate.
SyncRunTypeOK ==
  /\ lock \in {"free", "term"} \cup Calls
  /\ isRunning \in BOOLEAN /\ term \in BOOLEAN
  /\ cmd \in Procs \cup {<<>>}
  /\ ps \in [Procs -> {"none", "alive", "exited", "reaped"}]
  /\ sig \in [Procs -> {"none", "term", "kill"}]
  /\ fd \in Calls \cup {"nil"}
  /\ \A c \in Calls : /\ call[c].pc \in {"none", "lock", "open", "exec", "wait", "waiting", "unset",
                                         "relock", "rest", "fail", "refused"}
                      /\ call[c].pc \in {"open", "exec"} => lock = c
  /\ lock = "term" <=> term \/ \E l \in Loops : run[l].pc = "signal"
  /\ hook.phase \in {"preJob", "preExec", "post"} /\ hook.i \in 1..Len(Hooks) + 1
  /\ layers \in Int
  /\ snapshot \in {"quiet", "torn"}

\* Two sync processes never write to the mirror at once: a call is refused
\* while isRunning is set, and isRunning is only unset when the process that
\* set it was waited for.
OneProcess == Cardinality({p \in Procs : ps[p] \in {"alive", "exited"}}) <= 1

\* A sync that nobody signalled is one that its runner still waits for: the
\* runner never believes to have terminated a sync that goes on.
NoUnattendedSync ==
  \A p \in Procs : ps[p] = "alive" /\ sig[p] = "none" => call[p[1]].attempt

\* The snapshot of the btrfs hook is only taken when no sync writes to the
\* directory, not even one that an earlier attempt was terminated with.
SnapshotQuiet == snapshot # "torn"

\* While an attempt syncs, exactly the layer that preExec entered for it is on
\* top of those of the run's start, and an attempt whose post hooks all went
\* well has left its layer again: no ExitContext without its EnterContext.
Layers ==
  \A l \in Loops :
    /\ layers >= 0
    /\ run[l].pc \in {"syncing", "await", "running", "signal"} => layers = 1
    /\ run[l].pc \in {"report", "send"} => layers = 0

\* A kill gets through the provider's mutex, SIGTERM and SIGKILL, and the
\* hooks: the loop that waits for jobDone is released.
KillCompletes == \A l \in Loops : loop[l] = "join" ~> loop[l] # "join" \/ crashed

\* The hooks and a provider with one stage do what MirrorJob says of them: the
\* hook phases, the process, the errors of Terminate.
ImplementsJob == Job!JobSpec
=============================================================================
