------------------------------ MODULE MirrorJob ------------------------------
(***************************************************************************)
(* The mirror job of a kubesync worker (worker/job.go) with the provider   *)
(* it drives (worker/{base,cmd,rsync}_provider.go, worker/runner.go).      *)
(*                                                                         *)
(* A call of mirrorJob.Run is a "loop": the goroutine that receives        *)
(* control actions.  While the job is Ready a loop owns one "runner": the  *)
(* goroutine of runJob/runJobWrapper, which reports on managerChan.  For   *)
(* each attempt the runner starts a third goroutine in provider.Run, which *)
(* starts the one sync process and waits for it.                           *)
(*                                                                         *)
(* One action is what a goroutine does between two points where another    *)
(* goroutine can make a difference: a channel operation, an atomic access  *)
(* to the job's state, or a call that the operating system answers.        *)
(***************************************************************************)
EXTENDS Integers, Sequences, FiniteSets

CONSTANTS
  Loops,        \* identities of the calls of mirrorJob.Run
  Retry,        \* provider.Retry(): attempts of one run
  Concurrent,   \* capacity of the semaphore
  ChanCap,      \* capacity of managerChan (32 in the code)
  Timeout,      \* whether provider.Timeout() is positive
  FailingHooks, \* the hook phases that may return an error: "pre", "post"
  Controls      \* the control actions that are sent to the job

ctrlActions == {"jobStart", "jobStop", "jobDisable", "jobRestart", "jobPing",
                "jobHalt", "jobForceStart"}

ASSUME JobAssumption ==
  /\ IsFiniteSet(Loops)
  /\ Retry \in Nat \ {0}
  /\ Concurrent \in Nat
  /\ ChanCap \in Nat \ {0}
  /\ Timeout \in BOOLEAN
  /\ FailingHooks \subseteq {"pre", "post"}
  /\ Controls \subseteq ctrlActions

VARIABLES
  state,        \* m.state
  ctrlChan,     \* m.ctrlChan, of capacity 1: an action, or "none"
  managerChan,  \* the job's messages to runSchedule, oldest first
  semaphore,    \* tokens in the semaphore
  releasing,    \* runners that closed jobDone and still hold their token
  bypass,       \* a token is in the loop's bypassSemaphore
  loop,         \* where each loop is
  after,        \* where a loop goes once it has received from jobDone
  run,          \* the runner of each loop, see Runners
  proc,         \* the provider's process; isRunning is proc # "off"
  disabled,     \* the channel m.disabled is closed
  crashed       \* the program has panicked

tokens == <<semaphore, releasing, bypass>>
loopVars == <<state, ctrlChan, loop, after, disabled>>
jobVars == <<loopVars, tokens, managerChan, run, proc, crashed>>

States == {"None", "Ready", "Paused", "Disabled", "Halting"}
jobMessage == [status : {"PreSyncing", "Syncing", "Success", "Failed"},
               schedule : BOOLEAN]
Message(status, schedule) == [status |-> status, schedule |-> schedule]

\* sync is provider.Run of the current attempt with its syncDone channel;
\* it is finishing when the process is gone and provider.Run still runs.
Runners ==
  [pc : {"select", "dropped", "presync", "prehooks", "syncing", "await", "running",
         "signal", "posthooks", "hookfail", "report", "send", "done", "closed"},
   kill : BOOLEAN,                      \* the kill channel is closed
   holds : BOOLEAN,                     \* it got in through the semaphore
   retry : 0..Retry-1,                  \* the attempt
   sync : {"none", "spawned", "running", "finishing", "ok", "err"},
   result : {"ok", "err", "killed"},    \* how the attempt ended
   again : BOOLEAN]                     \* schedule flag of its report

NoRun == [pc |-> "closed", kill |-> FALSE, holds |-> FALSE, retry |-> 0,
          sync |-> "none", result |-> "err", again |-> FALSE]

\* The variables have their types: no attempt follows the last one, and
\* managerChan is within its capacity.  A process is alive until it is signalled,
\* then killed until it is gone; it is reaped when it was waited for and
\* isRunning is still set.
JobTypeOK ==
  /\ state \in States
  /\ ctrlChan \in ctrlActions \cup {"none"}
  /\ managerChan \in Seq(jobMessage)
  /\ Len(managerChan) <= ChanCap
  /\ semaphore \in Int
  /\ releasing \in Nat
  /\ bypass \in [Loops -> BOOLEAN]
  /\ loop \in [Loops -> {"none", "spawned", "top", "wait", "join", "idle", "leaving",
                        "exited"}]
  /\ after \in [Loops -> {"idle", "top", "leaving"}]
  /\ run \in [Loops -> Runners]
  /\ proc \in {"off", "alive", "killed", "reaped"}
  /\ disabled \in BOOLEAN
  /\ crashed \in BOOLEAN

\* newMirrorJob: no goroutine yet, a provider that is not running
JobInit ==
  /\ state = "None"
  /\ ctrlChan = "none"
  /\ managerChan = <<>>
  /\ semaphore = 0
  /\ releasing = 0
  /\ bypass = [l \in Loops |-> FALSE]
  /\ loop = [l \in Loops |-> "none"]
  /\ after = [l \in Loops |-> "idle"]
  /\ run = [l \in Loops |-> NoRun]
  /\ proc = "off"
  /\ disabled = FALSE
  /\ crashed = FALSE

LoopAt(l, from, to) == loop[l] = from /\ loop' = [loop EXCEPT ![l] = to]
RunAt(l, from, to) == run[l].pc = from /\ run' = [run EXCEPT ![l].pc = to]
Recv(a) == ctrlChan = a /\ ctrlChan' = "none"
Send(m) == Len(managerChan) < ChanCap /\ managerChan' = Append(managerChan, m)

-----------------------------------------------------------------------------
(* The loop: mirrorJob.Run                                                 *)

\* jobsDone.Add(1), a new m.disabled and a new bypassSemaphore
Enter(l) ==
  /\ LoopAt(l, "spawned", "top")
  /\ bypass' = [bypass EXCEPT ![l] = FALSE]
  /\ disabled' = FALSE
  /\ UNCHANGED <<state, ctrlChan, after, managerChan, semaphore, releasing, run, proc, crashed>>

\* the state is Ready at the top of the for loop: go runJob
Launch(l) ==
  /\ state = "Ready"
  /\ LoopAt(l, "top", "wait")
  /\ run' = [run EXCEPT ![l] = [NoRun EXCEPT !.pc = "select"]]
  /\ UNCHANGED <<state, ctrlChan, after, disabled, managerChan, tokens, proc, crashed>>

\* in any other state receive a control action
Rest(l) ==
  /\ state # "Ready"
  /\ LoopAt(l, "top", "idle")
  /\ UNCHANGED <<state, ctrlChan, after, disabled, managerChan, tokens, run, proc, crashed>>

\* _wait_for_job: the run is over
JobDone(l) ==
  /\ run[l].pc = "closed"
  /\ LoopAt(l, "wait", "idle")
  /\ UNCHANGED <<state, ctrlChan, after, disabled, managerChan, tokens, run, proc, crashed>>

\* set the state, close(kill), then go on to <-jobDone
Interrupt(l, a, newState, next) ==
  /\ LoopAt(l, "wait", "join")
  /\ Recv(a)
  /\ state' = newState
  /\ run' = [run EXCEPT ![l].kill = TRUE]
  /\ after' = [after EXCEPT ![l] = next]
  /\ UNCHANGED <<disabled, managerChan, tokens, proc, crashed>>

WaitStop(l) == Interrupt(l, "jobStop", "Paused", "idle")
WaitDisable(l) == Interrupt(l, "jobDisable", "Disabled", "leaving")
WaitRestart(l) == Interrupt(l, "jobRestart", "Ready", "top")
WaitHalt(l) == Interrupt(l, "jobHalt", "Halting", "leaving")

\* a start while a run is on: the state is set, the start itself is swallowed;
\* a forced one puts the bypass token if there is room
WaitStart(l) ==
  /\ loop[l] = "wait"
  /\ \E a \in {"jobStart", "jobForceStart"} :
        /\ Recv(a)
        /\ bypass' = [bypass EXCEPT ![l] = @ \/ a = "jobForceStart"]
  /\ state' = "Ready"
  /\ UNCHANGED <<loop, after, disabled, managerChan, semaphore, releasing, run, proc, crashed>>

\* the default case (jobPing): close(kill) and return at once
WaitDefault(l) ==
  /\ LoopAt(l, "wait", "leaving")
  /\ Recv("jobPing")
  /\ run' = [run EXCEPT ![l].kill = TRUE]
  /\ UNCHANGED <<state, after, disabled, managerChan, tokens, proc, crashed>>

JoinedAtOnce(l) == TRUE

JoinedWhenClosed(l) == run[l].pc = "closed"

\* <-jobDone after close(kill): the runner has closed it, or a runner that
\* never got in hands over its empty value
Joined(l) == run[l].pc \in {"closed", "dropped"}

Join(l) ==
  /\ LoopAt(l, "join", after[l])
  /\ Joined(l)
  /\ run' = [run EXCEPT ![l] = IF @.pc = "dropped" THEN NoRun ELSE @]
  /\ UNCHANGED <<state, ctrlChan, after, disabled, managerChan, tokens, proc, crashed>>

IdleStop(l) ==
  /\ LoopAt(l, "idle", "top")
  /\ Recv("jobStop")
  /\ state' = "Paused"
  /\ UNCHANGED <<after, disabled, managerChan, tokens, run, proc, crashed>>

IdleDisable(l) ==
  /\ LoopAt(l, "idle", "leaving")
  /\ Recv("jobDisable")
  /\ state' = "Disabled"
  /\ UNCHANGED <<after, disabled, managerChan, tokens, run, proc, crashed>>

IdleStart(l) ==
  /\ LoopAt(l, "idle", "top")
  /\ \E a \in {"jobStart", "jobForceStart", "jobRestart"} :
        /\ Recv(a)
        /\ bypass' = [bypass EXCEPT ![l] = @ \/ a = "jobForceStart"]
  /\ state' = "Ready"
  /\ UNCHANGED <<after, disabled, managerChan, semaphore, releasing, run, proc, crashed>>

\* the default case (jobHalt, jobPing): return, the state stays as it is
IdleDefault(l) ==
  /\ LoopAt(l, "idle", "leaving")
  /\ \E a \in {"jobHalt", "jobPing"} : Recv(a)
  /\ UNCHANGED <<state, after, disabled, managerChan, tokens, run, proc, crashed>>

\* the deferred close(m.disabled) and jobsDone.Done(): a loop that another one
\* overtook closes the channel of the other, which then closes it again
Leave(l) ==
  /\ LoopAt(l, "leaving", "exited")
  /\ disabled' = TRUE
  /\ crashed' = disabled
  /\ UNCHANGED <<state, ctrlChan, after, managerChan, tokens, run, proc>>

-----------------------------------------------------------------------------
(* The runner: runJob and runJobWrapper                                    *)

RoomForOneMore == semaphore <= Concurrent

Room == semaphore < Concurrent

Acquire(l) ==
  /\ run[l].pc = "select"
  /\ Room
  /\ semaphore' = semaphore + 1
  /\ run' = [run EXCEPT ![l].pc = "presync", ![l].holds = TRUE]
  /\ UNCHANGED <<loopVars, managerChan, releasing, bypass, proc, crashed>>

Bypass(l) ==
  /\ bypass[l]
  /\ RunAt(l, "select", "presync")
  /\ bypass' = [bypass EXCEPT ![l] = FALSE]
  /\ UNCHANGED <<loopVars, managerChan, semaphore, releasing, proc, crashed>>

\* killed before it got in
Drop(l) ==
  /\ run[l].kill
  /\ RunAt(l, "select", "dropped")
  /\ UNCHANGED <<loopVars, managerChan, tokens, proc, crashed>>

PreSyncing(l) ==
  /\ RunAt(l, "presync", "prehooks")
  /\ Send(Message("PreSyncing", FALSE))
  /\ UNCHANGED <<loopVars, tokens, proc, crashed>>

\* the pre-job hooks of a run and the pre-exec hooks of every attempt
PreHooks(l) ==
  /\ \/ RunAt(l, "prehooks", "syncing")
     \/ "pre" \in FailingHooks /\ RunAt(l, "prehooks", "hookfail")
  /\ UNCHANGED <<loopVars, managerChan, tokens, proc, crashed>>

\* report Syncing and go provider.Run
Syncing(l) ==
  /\ run[l].pc = "syncing"
  /\ Send(Message("Syncing", FALSE))
  /\ run' = [run EXCEPT ![l].pc = "await", ![l].sync = "spawned"]
  /\ UNCHANGED <<loopVars, tokens, proc, crashed>>

\* <-started, or <-syncDone with an error, which is put back
Started(l) ==
  /\ run[l].sync \in {"running", "finishing", "ok", "err"}
  /\ RunAt(l, "await", "running")
  /\ UNCHANGED <<loopVars, managerChan, tokens, proc, crashed>>

\* <-syncDone of a sync that is over without an error before its "started" was
\* received: err.Error() of a nil error
NilPanic(l) ==
  /\ run[l].pc = "await"
  /\ run[l].sync = "ok"
  /\ crashed' = TRUE
  /\ UNCHANGED <<loopVars, managerChan, tokens, run, proc>>

SyncDone(l) ==
  /\ run[l].pc = "running"
  /\ run[l].sync \in {"ok", "err"}
  /\ run' = [run EXCEPT ![l].pc = "posthooks", ![l].result = run[l].sync, ![l].sync = "none"]
  /\ UNCHANGED <<loopVars, managerChan, tokens, proc, crashed>>

NotSignalled == proc

\* what Terminate leaves of the process
Signalled == IF proc = "alive" THEN "killed" ELSE proc

\* provider.Terminate() under the provider's lock: nothing if isRunning is unset
Terminate(l, why) ==
  /\ run[l].pc = "running"
  /\ run' = IF proc = "off"
            THEN [run EXCEPT ![l].pc = "posthooks", ![l].sync = "none", ![l].result = why]
            ELSE [run EXCEPT ![l].pc = "signal", ![l].result = why]
  /\ UNCHANGED <<loopVars, managerChan, tokens, proc, crashed>>

\* ... else SIGTERM, and SIGKILL two seconds later.  The goroutine in
\* provider.Run is left alone.  A process that was waited for after isRunning
\* was read is not found: that error ends the run without a word.
SendSignal(l) ==
  /\ run[l].pc = "signal"
  /\ run' = [run EXCEPT ![l].pc = IF proc \in {"alive", "killed"} THEN "posthooks" ELSE "done",
                        ![l].sync = "none"]
  /\ proc' = Signalled
  /\ UNCHANGED <<loopVars, managerChan, tokens, crashed>>

TimedOut(l) == Timeout /\ Terminate(l, "err")

KillIgnored(l) == FALSE

Killed(l) == run[l].kill /\ Terminate(l, "killed")

\* the post-exec hooks, then the post-success or the post-fail hooks
PostHooks(l) ==
  /\ \/ RunAt(l, "posthooks", "report")
     \/ "post" \in FailingHooks /\ RunAt(l, "posthooks", "hookfail")
  /\ UNCHANGED <<loopVars, managerChan, tokens, proc, crashed>>

HookFailSilent(l) ==
  /\ RunAt(l, "hookfail", "done")
  /\ UNCHANGED <<managerChan, loopVars, tokens, proc, crashed>>

\* a hook returned an error: the run ends with a failure to be rescheduled
HookFail(l) ==
  /\ RunAt(l, "hookfail", "done")
  /\ Send(Message("Failed", TRUE))
  /\ UNCHANGED <<loopVars, tokens, proc, crashed>>

AgainEveryTime(l) == state = "Ready"

AgainOffByOne(l) == state = "Ready" /\ (run[l].result = "ok" \/ run[l].retry = Retry)

\* the schedule flag
Again(l) == state = "Ready" /\ (run[l].result = "ok" \/ run[l].retry = Retry - 1)

\* m.State() is read before the send, which may block
Report(l) ==
  /\ run[l].pc = "report"
  /\ run' = [run EXCEPT ![l].pc = "send", ![l].again = Again(l)]
  /\ UNCHANGED <<loopVars, managerChan, tokens, proc, crashed>>

RetriesOnceMore(l) == run[l].result = "err" /\ run[l].retry < Retry

\* a failure that no kill caused is retried
Retries(l) == run[l].result = "err" /\ run[l].retry < Retry - 1

\* the report of the attempt
SendResult(l) ==
  /\ run[l].pc = "send"
  /\ Send(Message(IF run[l].result = "ok" THEN "Success" ELSE "Failed", run[l].again))
  /\ run' = IF Retries(l)
            THEN [run EXCEPT ![l].pc = "prehooks", ![l].retry = @ + 1]
            ELSE [run EXCEPT ![l].pc = "done"]
  /\ UNCHANGED <<loopVars, tokens, proc, crashed>>

\* the deferred close(jobDone); the token is given back after it
Close(l) ==
  /\ run[l].pc = "done"
  /\ run' = [run EXCEPT ![l] = NoRun]
  /\ releasing' = IF run[l].holds THEN releasing + 1 ELSE releasing
  /\ UNCHANGED <<loopVars, managerChan, semaphore, bypass, proc, crashed>>

Release ==
  /\ releasing > 0
  /\ releasing' = releasing - 1
  /\ semaphore' = semaphore - 1
  /\ UNCHANGED <<loopVars, managerChan, bypass, run, proc, crashed>>

-----------------------------------------------------------------------------
(* provider.Run, and the process it waits for                              *)

\* provider.Start() under the provider's lock: refused while isRunning is set;
\* the command itself may fail to start
ProviderStart(l) ==
  /\ run[l].sync = "spawned"
  /\ \A k \in Loops : run[k].pc # "signal"
  /\ \/ proc = "off" /\ proc' = "alive" /\ run' = [run EXCEPT ![l].sync = "running"]
     \/ UNCHANGED proc /\ run' = [run EXCEPT ![l].sync = "err"]
  /\ UNCHANGED <<loopVars, managerChan, tokens, crashed>>

\* the process exits and cmd.Wait() collects it
ProcessExit(from) ==
  /\ proc = from
  /\ proc' = "reaped"
  /\ UNCHANGED <<loopVars, managerChan, tokens, run, crashed>>

\* baseProvider.Wait() returns and unsets isRunning
WaitReturns ==
  /\ proc = "reaped"
  /\ proc' = "off"
  /\ run' = [l \in Loops |-> IF run[l].sync = "running"
                             THEN [run[l] EXCEPT !.sync = "finishing"] ELSE run[l]]
  /\ UNCHANGED <<loopVars, managerChan, tokens, crashed>>

\* the rest of provider.Run (exit code, fail-on-match, data size), syncDone <- err
ProviderReturn(l) ==
  /\ run[l].sync = "finishing"
  /\ \E r \in {"ok", "err"} : run' = [run EXCEPT ![l].sync = r]
  /\ UNCHANGED <<loopVars, managerChan, tokens, proc, crashed>>

-----------------------------------------------------------------------------
Loop(l) ==
  \/ Enter(l) \/ Leave(l) \/ Launch(l) \/ Rest(l) \/ JobDone(l) \/ Join(l)
  \/ WaitStop(l) \/ WaitDisable(l) \/ WaitRestart(l) \/ WaitHalt(l)
  \/ WaitStart(l) \/ WaitDefault(l)
  \/ IdleStop(l) \/ IdleDisable(l) \/ IdleStart(l) \/ IdleDefault(l)

Runner(l) ==
  \/ Acquire(l) \/ Bypass(l) \/ Drop(l) \/ PreSyncing(l) \/ PreHooks(l)
  \/ Syncing(l) \/ Started(l) \/ NilPanic(l) \/ SyncDone(l) \/ TimedOut(l)
  \/ Killed(l) \/ SendSignal(l) \/ PostHooks(l) \/ HookFail(l) \/ Report(l)
  \/ SendResult(l) \/ Close(l)

Provider(l) == ProviderStart(l) \/ ProviderReturn(l)

JobStep ==
  \/ \E l \in Loops : Loop(l) \/ Runner(l) \/ Provider(l)
  \/ Release \/ WaitReturns \/ ProcessExit("alive") \/ ProcessExit("killed")

-----------------------------------------------------------------------------
(* What the rest of the worker may do to a job                             *)

Control(a) ==
  /\ ctrlChan = "none"
  /\ ctrlChan' = a
  /\ UNCHANGED <<state, loop, after, disabled, managerChan, tokens, run, proc, crashed>>

Receive ==
  /\ managerChan # <<>>
  /\ managerChan' = Tail(managerChan)
  /\ UNCHANGED <<loopVars, tokens, run, proc, crashed>>

\* SetState before any goroutine runs, followed by go job.Run unless Disabled
Boot(s) ==
  /\ state = "None"
  /\ \A l \in Loops : loop[l] = "none"
  /\ state' = s
  /\ IF s = "Disabled" THEN UNCHANGED loop
                       ELSE \E l \in Loops : LoopAt(l, "none", "spawned")
  /\ UNCHANGED <<ctrlChan, after, disabled, managerChan, tokens, run, proc, crashed>>

\* go job.Run of a disabled job
GoRun(l) ==
  /\ state = "Disabled"
  /\ loop[l] \in {"none", "exited"}
  /\ run[l].pc = "closed"
  /\ loop' = [loop EXCEPT ![l] = "spawned"]
  /\ UNCHANGED <<state, ctrlChan, after, disabled, managerChan, tokens, run, proc, crashed>>

Environment ==
  \/ \E a \in Controls : Control(a)
  \/ Receive
  \/ \E s \in {"None", "Paused", "Disabled"} : Boot(s)
  \/ \E l \in Loops : GoRun(l)

JobNext == ~crashed /\ (JobStep \/ Environment)

\* Every goroutine runs on, messages are received, and a process that got
\* SIGKILL goes away; a sync that nobody stops may take for ever.
JobFairness ==
  /\ \A l \in Loops : /\ WF_jobVars(~crashed /\ Loop(l))
                      /\ WF_jobVars(~crashed /\ Runner(l))
                      /\ WF_jobVars(~crashed /\ Provider(l))
  /\ WF_jobVars(~crashed /\ Release)
  /\ WF_jobVars(~crashed /\ WaitReturns)
  /\ WF_jobVars(~crashed /\ ProcessExit("killed"))
  /\ WF_jobVars(~crashed /\ Receive)

\* What a job does, and all that the rest of the worker may do to it: control
\* actions through a free ctrlChan, messages taken in order, and launches of
\* mirrorJob.Run for a new job or a disabled one.
JobSpec == JobInit /\ [][JobNext]_jobVars
FairJobSpec == JobSpec /\ JobFairness

-----------------------------------------------------------------------------
(* Properties                                                              *)

\* A loop that waits for control actions, or is about to look at the state,
\* has no run in progress: after jobStop or jobRestart the old run is over
\* before anything else happens (the <-jobDone that follows close(kill)).
IdleHasNoRun == \A l \in Loops : loop[l] \in {"top", "idle"} => run[l].pc = "closed"

\* A sync process that was never signalled belongs to an attempt whose runner
\* still watches it: no way out of an attempt (end of the sync, timeout, kill,
\* failed termination) leaves a process behind that nobody told to stop.
NoUnattendedProcess ==
  proc = "alive" => \E l \in Loops : /\ run[l].sync = "running"
                                     /\ run[l].pc \in {"await", "running", "signal"}

\* The tokens in the semaphore are those of the runs in progress that took
\* one and of the closed runs that have yet to return theirs; forced runs
\* (bypassSemaphore) neither leak nor steal one.
SemaphoreExact ==
  /\ semaphore = Cardinality({l \in Loops : run[l].holds}) + releasing
  /\ semaphore <= Concurrent

\* n may directly follow m on the channel of a job with one loop
Follows(m, n) ==
  /\ m.schedule \/ m.status = "Success" => n.status = "PreSyncing"
  /\ m.status = "PreSyncing" => n.status = "Syncing" \/ n = Message("Failed", TRUE)
  /\ m.status = "Syncing" => n.status # "Syncing"

\* The messages of a run come in the order the manager relies on: PreSyncing,
\* then attempts that start with Syncing; a message that asks for the next
\* run to be scheduled is the last one of its run, so a run asks only once.
MessageOrder ==
  \A i \in 1..Len(managerChan) - 1 : Follows(managerChan[i], managerChan[i + 1])

\* close(kill) always gets through: a loop that waits for jobDone after it is
\* released, whatever the runner is doing (semaphore, hooks, sync, retries).
KillCompletes == \A l \in Loops : loop[l] = "join" ~> loop[l] # "join" \/ crashed
=============================================================================
