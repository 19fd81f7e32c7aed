--------------------------- MODULE MirrorJobProofs ---------------------------
(***************************************************************************)
(* Theorems about MirrorJob, for every set of loops, every number of       *)
(* attempts, every channel and semaphore capacity, and every choice of     *)
(* timeouts, failing hooks and control actions.                            *)
(***************************************************************************)
EXTENDS MirrorJob, FiniteSetTheorems, SequenceTheorems, TLAPS

-----------------------------------------------------------------------------
(* Types                                                                   *)

\* The record a runner starts and ends with is a runner.
LEMMA NoRunType == NoRun \in Runners
  BY JobAssumption DEF NoRun, Runners

\* The record of a runner that was just launched is a runner.
LEMMA SelectType == [NoRun EXCEPT !.pc = "select"] \in Runners
  BY NoRunType DEF Runners

\* What the loop and the runner write to the record of a runner keeps its type.
LEMMA RunnerTypes ==
  ASSUME NEW r \in Runners, NEW b \in BOOLEAN
  PROVE  /\ [r EXCEPT !.kill = TRUE] \in Runners
         /\ [r EXCEPT !.pc = "presync", !.holds = TRUE] \in Runners
         /\ [r EXCEPT !.pc = "await", !.sync = "spawned"] \in Runners
         /\ [r EXCEPT !.pc = "send", !.again = b] \in Runners
  BY DEF Runners

\* What Terminate writes to the record of a runner keeps its type.
LEMMA TerminateTypes ==
  ASSUME NEW r \in Runners, NEW why \in {"err", "killed"}
  PROVE  /\ [r EXCEPT !.pc = "signal", !.result = why] \in Runners
         /\ [r EXCEPT !.pc = "posthooks", !.sync = "none", !.result = why] \in Runners
         /\ [r EXCEPT !.pc = "posthooks", !.sync = "none"] \in Runners
         /\ [r EXCEPT !.pc = "done", !.sync = "none"] \in Runners
  BY DEF Runners

\* A job message has the type of a job message.
LEMMA MessageType ==
  ASSUME NEW s \in {"PreSyncing", "Syncing", "Success", "Failed"}, NEW b \in BOOLEAN
  PROVE  Message(s, b) \in jobMessage
  BY DEF Message, jobMessage

\* A send on managerChan keeps the type of the channel and its capacity.
LEMMA SendType ==
  ASSUME JobTypeOK, NEW m \in jobMessage, Send(m)
  PROVE  managerChan' \in Seq(jobMessage) /\ Len(managerChan') <= ChanCap
  BY JobAssumption DEF JobTypeOK, Send

\* Every step leaves well-typed runners.
LEMMA RunType == ASSUME JobTypeOK, [JobNext]_jobVars PROVE run' \in [Loops -> Runners]
<1>0. run \in [Loops -> Runners]
  BY DEF JobTypeOK
<1>1. ASSUME NEW l \in Loops, Loop(l) PROVE run' \in [Loops -> Runners]
  <2>0. run[l] \in Runners
    BY <1>0
  <2>1. CASE Launch(l)
    BY <1>0, <2>1, SelectType DEF Launch
  <2>2. CASE Join(l)
    BY <1>0, <2>2, NoRunType DEF Join
  <2>3. ASSUME NEW a, NEW s, NEW n, Interrupt(l, a, s, n) PROVE run' \in [Loops -> Runners]
    BY <1>0, <2>0, <2>3, RunnerTypes DEF Interrupt
  <2>4. CASE WaitDefault(l)
    BY <1>0, <2>0, <2>4, RunnerTypes DEF WaitDefault
  <2>5. CASE Enter(l) \/ Leave(l) \/ Rest(l) \/ JobDone(l) \/ WaitStart(l)
              \/ IdleStop(l) \/ IdleDisable(l) \/ IdleStart(l) \/ IdleDefault(l)
    BY <1>0, <2>5 DEF Enter, Leave, Rest, JobDone, WaitStart, IdleStop, IdleDisable,
                      IdleStart, IdleDefault
  <2> QED
    BY <1>1, <2>1, <2>2, <2>3, <2>4, <2>5
       DEF Loop, WaitStop, WaitDisable, WaitRestart, WaitHalt
<1>2. ASSUME NEW l \in Loops, Runner(l) PROVE run' \in [Loops -> Runners]
  <2>0. run[l] \in Runners
    BY <1>0
  <2>1. CASE Acquire(l)
    BY <1>0, <2>0, <2>1, RunnerTypes DEF Acquire
  <2>2. CASE Syncing(l)
    BY <1>0, <2>0, <2>2, RunnerTypes DEF Syncing
  <2>3. CASE Report(l)
    <3>1. Again(l) \in BOOLEAN
      BY DEF Again
    <3> QED
      BY <1>0, <2>0, <2>3, <3>1, RunnerTypes DEF Report
  <2>4. CASE SyncDone(l)
    BY <1>0, <2>4 DEF SyncDone, Runners
  <2>5. ASSUME NEW why \in {"err", "killed"}, Terminate(l, why)
        PROVE  run' \in [Loops -> Runners]
    BY <1>0, <2>0, <2>5, TerminateTypes DEF Terminate
  <2>12. CASE SendSignal(l)
    BY <1>0, <2>0, <2>12, TerminateTypes DEF SendSignal
  <2>6. CASE SendResult(l)
    BY <1>0, <2>6, JobAssumption DEF SendResult, Retries, Runners
  <2>7. CASE Close(l)
    BY <1>0, <2>7, NoRunType DEF Close
  <2>8. ASSUME NEW from, RunAt(l, from, "presync") \/ RunAt(l, from, "dropped")
        PROVE  run' \in [Loops -> Runners]
    BY <1>0, <2>8 DEF RunAt, Runners
  <2>9. ASSUME NEW from, NEW to \in {"prehooks", "syncing", "hookfail", "running",
                                      "report", "done"},
               RunAt(l, from, to)
        PROVE  run' \in [Loops -> Runners]
    BY <1>0, <2>9 DEF RunAt, Runners
  <2>10. CASE PreHooks(l) \/ PostHooks(l) \/ HookFail(l) \/ Started(l)
    BY <2>9, <2>10 DEF PreHooks, PostHooks, HookFail, Started
  <2>11. CASE Bypass(l) \/ Drop(l) \/ PreSyncing(l) \/ NilPanic(l)
    BY <1>0, <2>8, <2>9, <2>11 DEF Bypass, Drop, PreSyncing, NilPanic
  <2> QED
    BY <1>2, <2>1, <2>2, <2>3, <2>4, <2>5, <2>6, <2>7, <2>10, <2>11, <2>12
       DEF Runner, TimedOut, Killed
<1>3. ASSUME NEW l \in Loops, Provider(l) PROVE run' \in [Loops -> Runners]
  BY <1>0, <1>3 DEF Provider, ProviderStart, ProviderReturn, Runners
<1>4. CASE WaitReturns
  BY <1>0, <1>4 DEF WaitReturns, Runners
<1>5. CASE Release \/ ProcessExit("alive") \/ ProcessExit("killed") \/ Environment
  BY <1>0, <1>5 DEF Release, ProcessExit, Environment, Control, Receive, Boot, GoRun
<1>6. CASE UNCHANGED jobVars
  BY <1>0, <1>6 DEF jobVars
<1> QED
  BY <1>1, <1>2, <1>3, <1>4, <1>5, <1>6 DEF JobNext, JobStep

\* Every step keeps the types.
LEMMA TypeStep == ASSUME JobTypeOK, [JobNext]_jobVars PROVE JobTypeOK'
<1>0. run' \in [Loops -> Runners]
  BY RunType
<1> USE DEF JobTypeOK, loopVars, tokens
<1>1. ASSUME NEW l \in Loops, Loop(l) PROVE JobTypeOK'
  <2> USE DEF LoopAt, Recv
  <2>1. CASE Enter(l)
    BY <1>0, <2>1 DEF Enter
  <2>2. CASE Leave(l)
    BY <1>0, <2>2 DEF Leave
  <2>3. CASE Launch(l) \/ Rest(l) \/ JobDone(l)
    BY <1>0, <2>3 DEF Launch, Rest, JobDone
  <2>4. CASE Join(l)
    BY <1>0, <2>4 DEF Join
  <2>5. ASSUME NEW a, NEW s \in States, NEW n \in {"idle", "top", "leaving"},
               Interrupt(l, a, s, n)
        PROVE  JobTypeOK'
    BY <1>0, <2>5 DEF Interrupt
  <2>6. CASE WaitStop(l) \/ WaitDisable(l) \/ WaitRestart(l) \/ WaitHalt(l)
    BY <2>5, <2>6 DEF WaitStop, WaitDisable, WaitRestart, WaitHalt, States
  <2>7. CASE WaitStart(l)
    BY <1>0, <2>7 DEF WaitStart, States
  <2>8. CASE WaitDefault(l)
    BY <1>0, <2>8 DEF WaitDefault
  <2>9. CASE IdleStop(l) \/ IdleDisable(l)
    BY <1>0, <2>9 DEF IdleStop, IdleDisable, States
  <2>10. CASE IdleStart(l)
    BY <1>0, <2>10 DEF IdleStart, States
  <2>11. CASE IdleDefault(l)
    BY <1>0, <2>11 DEF IdleDefault
  <2> QED
    BY <1>1, <2>1, <2>2, <2>3, <2>4, <2>6, <2>7, <2>8, <2>9, <2>10, <2>11 DEF Loop
<1>2. ASSUME NEW l \in Loops, Runner(l) PROVE JobTypeOK'
  <2>1. CASE Acquire(l)
    BY <1>0, <2>1 DEF Acquire
  <2>2. CASE Bypass(l)
    BY <1>0, <2>2 DEF Bypass
  <2>3. ASSUME NEW m \in jobMessage, Send(m),
               UNCHANGED <<loopVars, tokens, proc, crashed>>
        PROVE  JobTypeOK'
    BY <1>0, <2>3, SendType
  <2>4. run[l].again \in BOOLEAN
    BY DEF Runners
  <2>5. CASE PreSyncing(l) \/ Syncing(l) \/ HookFail(l) \/ SendResult(l)
    BY <2>3, <2>4, <2>5, MessageType DEF PreSyncing, Syncing, HookFail, SendResult
  <2>6. CASE TimedOut(l) \/ Killed(l) \/ SendSignal(l)
    BY <1>0, <2>6 DEF TimedOut, Killed, Terminate, SendSignal, Signalled
  <2>7. CASE Drop(l) \/ PreHooks(l) \/ Started(l) \/ SyncDone(l) \/ PostHooks(l) \/ Report(l)
    BY <1>0, <2>7 DEF Drop, PreHooks, Started, SyncDone, PostHooks, Report
  <2>8. CASE NilPanic(l)
    BY <1>0, <2>8 DEF NilPanic
  <2>9. CASE Close(l)
    BY <1>0, <2>9 DEF Close
  <2> QED
    BY <1>2, <2>1, <2>2, <2>5, <2>6, <2>7, <2>8, <2>9 DEF Runner
<1>3. ASSUME NEW l \in Loops, Provider(l) PROVE JobTypeOK'
  BY <1>0, <1>3 DEF Provider, ProviderStart, ProviderReturn
<1>4. CASE Release
  BY <1>0, <1>4 DEF Release
<1>5. CASE WaitReturns \/ ProcessExit("alive") \/ ProcessExit("killed")
  BY <1>0, <1>5 DEF WaitReturns, ProcessExit
<1>6. ASSUME NEW a \in Controls, Control(a) PROVE JobTypeOK'
  BY <1>0, <1>6, JobAssumption DEF Control
<1>7. CASE Receive
  BY <1>0, <1>7, JobAssumption DEF Receive
<1>8. ASSUME NEW s \in {"None", "Paused", "Disabled"}, Boot(s) PROVE JobTypeOK'
  BY <1>0, <1>8 DEF Boot, LoopAt, States
<1>9. ASSUME NEW l \in Loops, GoRun(l) PROVE JobTypeOK'
  BY <1>0, <1>9 DEF GoRun
<1>10. CASE UNCHANGED jobVars
  BY <1>10 DEF jobVars
<1> QED
  BY <1>1, <1>2, <1>3, <1>4, <1>5, <1>6, <1>7, <1>8, <1>9, <1>10
     DEF JobNext, JobStep, Environment

\* newMirrorJob has the types.
LEMMA InitType == JobInit => JobTypeOK
<1> SUFFICES ASSUME JobInit PROVE JobTypeOK
  OBVIOUS
<1>1. bypass \in [Loops -> BOOLEAN] /\ crashed \in BOOLEAN /\ disabled \in BOOLEAN
  BY DEF JobInit
<1>2. managerChan \in Seq(jobMessage) /\ Len(managerChan) <= ChanCap
  BY JobAssumption DEF JobInit
<1> QED
  BY <1>1, <1>2, NoRunType DEF JobInit, JobTypeOK, States

\* The job keeps its types: in particular no attempt follows the last one that
\* provider.Retry() allows, and managerChan never exceeds its capacity.
THEOREM TypeCorrect == JobSpec => []JobTypeOK
  BY InitType, TypeStep, PTL DEF JobSpec

-----------------------------------------------------------------------------
(* No run behind the loop's back                                           *)

\* The inductive form of IdleHasNoRun: a loop that has not begun has no run
\* either, so that the one it enters with is its own.
Settled ==
  \A l \in Loops : loop[l] \in {"none", "spawned", "top", "idle"} => run[l].pc = "closed"

\* A runner writes to its own record only, and it has not closed jobDone yet.
LEMMA RunnerFrame ==
  ASSUME JobTypeOK, NEW l \in Loops, Runner(l)
  PROVE  /\ loop' = loop
         /\ run[l].pc # "closed"
         /\ \A k \in Loops \ {l} : run'[k] = run[k]
<1> USE DEF JobTypeOK, loopVars, RunAt
<1>1. CASE Acquire(l) \/ Bypass(l) \/ Drop(l)
  BY <1>1 DEF Acquire, Bypass, Drop
<1>2. CASE PreSyncing(l) \/ PreHooks(l) \/ Syncing(l) \/ Started(l)
  BY <1>2 DEF PreSyncing, PreHooks, Syncing, Started
<1>3. CASE NilPanic(l) \/ SyncDone(l) \/ TimedOut(l) \/ Killed(l) \/ SendSignal(l)
  BY <1>3 DEF NilPanic, SyncDone, TimedOut, Killed, Terminate, SendSignal
<1>4. CASE PostHooks(l) \/ HookFail(l) \/ Report(l)
  BY <1>4 DEF PostHooks, HookFail, Report
<1>5. CASE SendResult(l) \/ Close(l)
  BY <1>5 DEF SendResult, Close
<1> QED
  BY <1>1, <1>2, <1>3, <1>4, <1>5 DEF Runner

\* provider.Run, and its end, change the sync of a runner and nothing else.
LEMMA ProviderFrame ==
  ASSUME JobTypeOK, (\E l \in Loops : Provider(l)) \/ WaitReturns
  PROVE  /\ loop' = loop
         /\ \A k \in Loops : run'[k].pc = run[k].pc /\ run'[k].holds = run[k].holds
<1> USE DEF JobTypeOK, Runners, loopVars
<1>1. ASSUME NEW l \in Loops, ProviderStart(l)
      PROVE  loop' = loop /\ \A k \in Loops : /\ run'[k].pc = run[k].pc
                                             /\ run'[k].holds = run[k].holds
  <2>1. PICK r : run' = [run EXCEPT ![l].sync = r]
    BY <1>1 DEF ProviderStart
  <2> QED
    BY <1>1, <2>1 DEF ProviderStart
<1>2. ASSUME NEW l \in Loops, ProviderReturn(l)
      PROVE  loop' = loop /\ \A k \in Loops : /\ run'[k].pc = run[k].pc
                                             /\ run'[k].holds = run[k].holds
  BY <1>2 DEF ProviderReturn
<1>3. ASSUME WaitReturns
      PROVE  loop' = loop /\ \A k \in Loops : /\ run'[k].pc = run[k].pc
                                             /\ run'[k].holds = run[k].holds
  BY <1>3 DEF WaitReturns
<1> QED
  BY <1>1, <1>2, <1>3 DEF Provider

\* Every step keeps Settled.
LEMMA SettledStep == ASSUME JobTypeOK, Settled, [JobNext]_jobVars PROVE Settled'
<1> USE DEF JobTypeOK, Settled
<1>1. ASSUME NEW l \in Loops, Loop(l) PROVE Settled'
  <2> USE DEF LoopAt
  <2>1. CASE Launch(l)
    BY <2>1 DEF Launch
  <2>2. CASE Join(l)
    BY <2>2 DEF Join, Joined, NoRun
  <2>3. ASSUME NEW a, NEW s, NEW n, Interrupt(l, a, s, n) PROVE Settled'
    BY <2>3 DEF Interrupt
  <2>4. CASE WaitDefault(l)
    BY <2>4 DEF WaitDefault
  <2>5. CASE Enter(l) \/ Leave(l) \/ Rest(l) \/ JobDone(l) \/ WaitStart(l)
    BY <2>5 DEF Enter, Leave, Rest, JobDone, WaitStart
  <2>6. CASE IdleStop(l) \/ IdleDisable(l) \/ IdleStart(l) \/ IdleDefault(l)
    BY <2>6 DEF IdleStop, IdleDisable, IdleStart, IdleDefault
  <2> QED
    BY <1>1, <2>1, <2>2, <2>3, <2>4, <2>5, <2>6
       DEF Loop, WaitStop, WaitDisable, WaitRestart, WaitHalt
<1>2. ASSUME NEW l \in Loops, Runner(l) PROVE Settled'
  BY <1>2, RunnerFrame
<1>3. CASE (\E l \in Loops : Provider(l)) \/ WaitReturns
  BY <1>3, ProviderFrame
<1>4. CASE Release \/ ProcessExit("alive") \/ ProcessExit("killed")
  BY <1>4 DEF Release, ProcessExit, loopVars
<1>5. CASE Environment
  BY <1>5 DEF Environment, Control, Receive, Boot, GoRun, LoopAt, loopVars
<1>6. CASE UNCHANGED jobVars
  BY <1>6 DEF jobVars, loopVars
<1> QED
  BY <1>1, <1>2, <1>3, <1>4, <1>5, <1>6 DEF JobNext, JobStep

\* Settled holds throughout.
LEMMA AlwaysSettled == JobSpec => [](JobTypeOK /\ Settled)
<1>1. JobInit => Settled
  BY DEF JobInit, Settled, NoRun
<1> QED
  BY <1>1, TypeCorrect, SettledStep, PTL DEF JobSpec

\* No loop goes back to its control channel, or looks at the state again,
\* before the run it launched has closed jobDone: <-jobDone in mirrorJob.Run.
THEOREM IdleHasNoRunHolds == JobSpec => []IdleHasNoRun
<1>1. Settled => IdleHasNoRun
  BY DEF Settled, IdleHasNoRun
<1> QED
  BY <1>1, AlwaysSettled, PTL

-----------------------------------------------------------------------------
(* No process behind the runner's back                                     *)

\* provider.Run has not started the process yet only while the runner waits
\* for it to do so.
SpawnedAwaits == \A l \in Loops : run[l].sync = "spawned" => run[l].pc = "await"

\* Somebody attends to an unsignalled process, or will once it is started.
Attended == Settled /\ SpawnedAwaits /\ NoUnattendedProcess

\* The loop never takes a run away from a process that is attended to.
LEMMA LoopAttended ==
  ASSUME JobTypeOK, Attended, NEW l \in Loops, Loop(l)
  PROVE  SpawnedAwaits' /\ NoUnattendedProcess'
<1> USE DEF JobTypeOK, Attended, Settled, SpawnedAwaits, NoUnattendedProcess, LoopAt
<1>1. CASE Launch(l)
  BY <1>1 DEF Launch, NoRun
<1>2. CASE Join(l)
  BY <1>2 DEF Join, NoRun
<1>3. ASSUME NEW a, NEW s, NEW n, Interrupt(l, a, s, n)
      PROVE  SpawnedAwaits' /\ NoUnattendedProcess'
  BY <1>3 DEF Interrupt
<1>4. CASE WaitDefault(l)
  BY <1>4 DEF WaitDefault
<1>5. CASE Enter(l) \/ Leave(l) \/ Rest(l) \/ JobDone(l) \/ WaitStart(l)
  BY <1>5 DEF Enter, Leave, Rest, JobDone, WaitStart
<1>6. CASE IdleStop(l) \/ IdleDisable(l) \/ IdleStart(l) \/ IdleDefault(l)
  BY <1>6 DEF IdleStop, IdleDisable, IdleStart, IdleDefault
<1> QED
  BY <1>1, <1>2, <1>3, <1>4, <1>5, <1>6
     DEF Loop, WaitStop, WaitDisable, WaitRestart, WaitHalt

\* The runner leaves an attempt only when its process is gone or signalled.
LEMMA RunnerAttended ==
  ASSUME JobTypeOK, Attended, NEW l \in Loops, Runner(l)
  PROVE  SpawnedAwaits' /\ NoUnattendedProcess'
<1> USE DEF JobTypeOK, Attended, SpawnedAwaits, NoUnattendedProcess, RunAt, loopVars
<1>1. CASE Acquire(l)
  BY <1>1 DEF Acquire
<1>2. ASSUME NEW from, NEW to, from \notin {"await", "running", "signal"}, RunAt(l, from, to),
             UNCHANGED proc
      PROVE  SpawnedAwaits' /\ NoUnattendedProcess'
  BY <1>2
<1>3. CASE Bypass(l) \/ Drop(l) \/ PreSyncing(l) \/ PreHooks(l) \/ PostHooks(l) \/ HookFail(l)
  <2>1. \E from, to : from \notin {"await", "running", "signal"} /\ RunAt(l, from, to) /\ UNCHANGED proc
    BY <1>3, Zenon DEF Bypass, Drop, PreSyncing, PreHooks, PostHooks, HookFail
  <2> QED
    BY <1>2, <2>1
<1>4. CASE Syncing(l)
  BY <1>4 DEF Syncing
<1>5. CASE Started(l)
  BY <1>5 DEF Started
<1>6. CASE NilPanic(l)
  BY <1>6 DEF NilPanic
<1>7. CASE SyncDone(l)
  BY <1>7 DEF SyncDone
<1>8. ASSUME NEW why, Terminate(l, why) PROVE SpawnedAwaits' /\ NoUnattendedProcess'
  BY <1>8 DEF Terminate
<1>12. CASE SendSignal(l)
  <2>1. proc' # "alive"
    BY <1>12 DEF SendSignal, Signalled
  <2>2. run'[l].sync = "none"
    BY <1>12 DEF SendSignal, Runners
  <2>3. \A k \in Loops \ {l} : run'[k] = run[k]
    BY <1>12 DEF SendSignal
  <2> QED
    BY <2>1, <2>2, <2>3
<1>9. CASE Report(l)
  BY <1>9 DEF Report
<1>10. CASE SendResult(l)
  BY <1>10 DEF SendResult
<1>11. CASE Close(l)
  BY <1>11 DEF Close, NoRun
<1> QED
  BY <1>1, <1>3, <1>4, <1>5, <1>6, <1>7, <1>8, <1>9, <1>10, <1>11, <1>12
     DEF Runner, TimedOut, Killed

\* Every step keeps Attended.
LEMMA AttendedStep == ASSUME JobTypeOK, Attended, [JobNext]_jobVars PROVE Attended'
<1>1. Settled'
  BY SettledStep DEF Attended
<1> USE <1>1 DEF JobTypeOK, Attended, SpawnedAwaits, NoUnattendedProcess
<1>2. ASSUME NEW l \in Loops, ProviderStart(l) PROVE Attended'
  <2>1. run[l].pc = "await"
    BY <1>2 DEF ProviderStart
  <2>2. CASE proc' = "alive" /\ run' = [run EXCEPT ![l].sync = "running"]
    BY <2>1, <2>2
  <2>3. CASE UNCHANGED proc /\ run' = [run EXCEPT ![l].sync = "err"]
    BY <1>2, <2>3 DEF ProviderStart
  <2> QED
    BY <1>2, <2>2, <2>3 DEF ProviderStart
<1>3. ASSUME NEW l \in Loops, ProviderReturn(l) PROVE Attended'
  BY <1>3 DEF ProviderReturn
<1>4. CASE WaitReturns
  BY <1>4 DEF WaitReturns
<1>5. CASE Release \/ ProcessExit("alive") \/ ProcessExit("killed")
  BY <1>5 DEF Release, ProcessExit
<1>6. CASE Environment
  BY <1>6 DEF Environment, Control, Receive, Boot, GoRun
<1>7. CASE UNCHANGED jobVars
  BY <1>7 DEF jobVars
<1> QED
  BY <1>2, <1>3, <1>4, <1>5, <1>6, <1>7, LoopAttended, RunnerAttended
     DEF JobNext, JobStep, Provider

\* A process that nobody signalled is watched by the runner whose attempt
\* started it, whatever the runners of other loops do to the same provider.
THEOREM NoUnattendedProcessHolds == JobSpec => []NoUnattendedProcess
<1>1. JobInit => Attended
  BY DEF JobInit, Attended, Settled, SpawnedAwaits, NoUnattendedProcess, NoRun
<1>2. Attended => NoUnattendedProcess
  BY DEF Attended
<1> QED
  BY <1>1, <1>2, TypeCorrect, AttendedStep, PTL DEF JobSpec

-----------------------------------------------------------------------------
(* The semaphore                                                           *)

\* A runner holds a token only between the select of runJob and close(jobDone).
HoldsInside ==
  \A l \in Loops : run[l].pc \in {"select", "dropped", "closed"} => ~run[l].holds

Holders == {l \in Loops : run[l].holds}

\* The inductive form of SemaphoreExact.
TokensExact == Settled /\ HoldsInside /\ SemaphoreExact

\* A finite set grows by one with a new element and shrinks by one without one
\* of its elements.
LEMMA HoldersCount ==
  /\ IsFiniteSet(Holders) /\ Cardinality(Holders) \in Nat
  /\ \A l \in Loops \ Holders : Cardinality(Holders \cup {l}) = Cardinality(Holders) + 1
  /\ \A l \in Holders : Cardinality(Holders \ {l}) = Cardinality(Holders) - 1
<1>1. IsFiniteSet(Holders)
  BY JobAssumption, FS_Subset DEF Holders
<1> QED
  BY <1>1, FS_CardinalityType, FS_AddElement, FS_RemoveElement

\* A step that changes no token and no holder keeps SemaphoreExact.
LEMMA SameHolders ==
  ASSUME SemaphoreExact, UNCHANGED <<semaphore, releasing>>,
         \A l \in Loops : run'[l].holds = run[l].holds
  PROVE  SemaphoreExact'
<1>1. Holders' = Holders
  BY DEF Holders
<1> QED
  BY <1>1 DEF SemaphoreExact, Holders

\* The loop holds no token and takes none away.
LEMMA LoopTokens ==
  ASSUME JobTypeOK, TokensExact, NEW l \in Loops, Loop(l)
  PROVE  /\ HoldsInside'
         /\ UNCHANGED <<semaphore, releasing>>
         /\ \A k \in Loops : run'[k].holds = run[k].holds
<1> DEFINE Goal == /\ HoldsInside'
                   /\ UNCHANGED <<semaphore, releasing>>
                   /\ \A k \in Loops : run'[k].holds = run[k].holds
<1> USE DEF JobTypeOK, TokensExact, Settled, HoldsInside, LoopAt, tokens
<1>1. CASE Launch(l)
  BY <1>1 DEF Launch, NoRun, Runners
<1>2. CASE Join(l)
  BY <1>2 DEF Join, NoRun, Runners
<1>3. ASSUME NEW a, NEW s, NEW n, Interrupt(l, a, s, n) PROVE Goal
  BY <1>3 DEF Interrupt, Runners
<1>4. CASE WaitDefault(l)
  BY <1>4 DEF WaitDefault, Runners
<1>5. CASE Enter(l) \/ Leave(l) \/ Rest(l) \/ JobDone(l) \/ WaitStart(l)
  BY <1>5 DEF Enter, Leave, Rest, JobDone, WaitStart
<1>6. CASE IdleStop(l) \/ IdleDisable(l) \/ IdleStart(l) \/ IdleDefault(l)
  BY <1>6 DEF IdleStop, IdleDisable, IdleStart, IdleDefault
<1> QED
  BY <1>1, <1>2, <1>3, <1>4, <1>5, <1>6
     DEF Loop, WaitStop, WaitDisable, WaitRestart, WaitHalt

\* Every other step of a runner than Acquire and Close keeps the holders.
LEMMA RunnerTokens ==
  ASSUME JobTypeOK, TokensExact, NEW l \in Loops, Runner(l), ~Acquire(l), ~Close(l)
  PROVE  /\ HoldsInside'
         /\ UNCHANGED <<semaphore, releasing>>
         /\ \A k \in Loops : run'[k].holds = run[k].holds
<1> DEFINE Goal == /\ HoldsInside'
                   /\ UNCHANGED <<semaphore, releasing>>
                   /\ \A k \in Loops : run'[k].holds = run[k].holds
<1> USE DEF JobTypeOK, TokensExact, HoldsInside, tokens
<1>1. ASSUME NEW from, NEW to, RunAt(l, from, to), UNCHANGED <<semaphore, releasing>>,
             to \notin {"select", "dropped", "closed"} \/ from = "select"
      PROVE  Goal
  BY <1>1 DEF RunAt, Runners
<1>2. CASE Bypass(l) \/ Drop(l) \/ PreSyncing(l)
  BY <1>1, <1>2 DEF Bypass, Drop, PreSyncing
<1>3. CASE PreHooks(l) \/ Started(l) \/ PostHooks(l) \/ HookFail(l)
  BY <1>1, <1>3 DEF PreHooks, Started, PostHooks, HookFail
<1>4. CASE Syncing(l)
  BY <1>4 DEF Syncing, Runners
<1>5. CASE NilPanic(l)
  BY <1>5 DEF NilPanic
<1>6. CASE SyncDone(l)
  BY <1>6 DEF SyncDone, Runners
<1>7. ASSUME NEW why, Terminate(l, why) PROVE Goal
  <2>1. CASE run' = [run EXCEPT ![l].pc = "signal", ![l].result = why]
    BY <1>7, <2>1 DEF Terminate, Runners
  <2>2. CASE run' = [run EXCEPT ![l].pc = "posthooks", ![l].sync = "none", ![l].result = why]
    BY <1>7, <2>2 DEF Terminate, Runners
  <2> QED
    BY <1>7, <2>1, <2>2 DEF Terminate
<1>10. CASE SendSignal(l)
  BY <1>10 DEF SendSignal, Runners
<1>8. CASE Report(l)
  BY <1>8 DEF Report, Runners
<1>9. CASE SendResult(l)
  BY <1>9 DEF SendResult, Runners
<1> QED
  BY <1>2, <1>3, <1>4, <1>5, <1>6, <1>7, <1>8, <1>9, <1>10 DEF Runner, TimedOut, Killed

\* A runner that gets in through the semaphore is a new holder.
LEMMA AcquireTokens ==
  ASSUME JobTypeOK, TokensExact, NEW l \in Loops, Acquire(l)
  PROVE  HoldsInside' /\ SemaphoreExact'
<1> USE DEF JobTypeOK
<1>1. l \notin Holders
  BY DEF Acquire, TokensExact, HoldsInside, Holders
<1>2. Holders' = Holders \cup {l}
  BY DEF Acquire, Holders, Runners
<1>3. semaphore' = Cardinality(Holders') + releasing' /\ semaphore' <= Concurrent
  BY <1>1, <1>2, HoldersCount, JobAssumption
     DEF Acquire, Room, TokensExact, SemaphoreExact, Holders
<1>4. HoldsInside'
  BY DEF Acquire, TokensExact, HoldsInside, Runners
<1> QED
  BY <1>3, <1>4 DEF SemaphoreExact, Holders

\* A runner that closes jobDone stops holding and starts releasing.
LEMMA CloseTokens ==
  ASSUME JobTypeOK, TokensExact, NEW l \in Loops, Close(l)
  PROVE  HoldsInside' /\ SemaphoreExact'
<1> USE DEF JobTypeOK
<1>1. Holders' = Holders \ {l}
  BY DEF Close, Holders, NoRun
<1>2. CASE l \in Holders
  <2>1. semaphore' = semaphore /\ releasing' = releasing + 1
    BY <1>2 DEF Close, Holders
  <2>2. semaphore = Cardinality(Holders) + releasing /\ semaphore <= Concurrent
    BY DEF TokensExact, SemaphoreExact, Holders
  <2>3. Cardinality(Holders') = Cardinality(Holders) - 1 /\ Cardinality(Holders) \in Nat
    BY <1>1, <1>2, HoldersCount
  <2>4. semaphore' = Cardinality(Holders') + releasing' /\ semaphore' <= Concurrent
    BY <2>1, <2>2, <2>3
  <2> QED
    BY <2>4 DEF Close, TokensExact, HoldsInside, NoRun, SemaphoreExact, Holders
<1>3. CASE l \notin Holders
  <2>1. Holders' = Holders /\ UNCHANGED <<semaphore, releasing>>
    BY <1>1, <1>3 DEF Close, Holders
  <2> QED
    BY <2>1 DEF Close, TokensExact, HoldsInside, NoRun, SemaphoreExact, Holders
<1> QED
  BY <1>2, <1>3

\* Every step keeps TokensExact.
LEMMA TokensStep == ASSUME JobTypeOK, TokensExact, [JobNext]_jobVars PROVE TokensExact'
<1>1. Settled'
  BY SettledStep DEF TokensExact
<1>2. ASSUME HoldsInside', UNCHANGED <<semaphore, releasing>>,
             \A k \in Loops : run'[k].holds = run[k].holds
      PROVE  TokensExact'
  BY <1>1, <1>2, SameHolders DEF TokensExact
<1>3. ASSUME NEW l \in Loops, Loop(l) \/ Runner(l) PROVE TokensExact'
  BY <1>1, <1>2, <1>3, LoopTokens, RunnerTokens, AcquireTokens, CloseTokens DEF TokensExact
<1>4. CASE (\E l \in Loops : Provider(l)) \/ WaitReturns
  <2>1. UNCHANGED <<semaphore, releasing>>
    BY <1>4 DEF Provider, ProviderStart, ProviderReturn, WaitReturns, tokens
  <2>2. HoldsInside'
    BY <1>4, ProviderFrame DEF TokensExact, HoldsInside
  <2> QED
    BY <1>2, <1>4, <2>1, <2>2, ProviderFrame
<1>5. CASE Release
  BY <1>1, <1>5, HoldersCount, JobAssumption
     DEF Release, JobTypeOK, TokensExact, HoldsInside, SemaphoreExact, Holders
<1>6. CASE ProcessExit("alive") \/ ProcessExit("killed") \/ Environment \/ UNCHANGED jobVars
  <2>1. UNCHANGED <<semaphore, releasing, run>>
    BY <1>6 DEF ProcessExit, Environment, Control, Receive, Boot, GoRun, jobVars, tokens
  <2> QED
    BY <1>2, <2>1 DEF TokensExact, HoldsInside
<1> QED
  BY <1>3, <1>4, <1>5, <1>6 DEF JobNext, JobStep

\* The semaphore of runJob holds exactly the tokens of the runs that took one
\* and have not given it back, and never more than its capacity.
THEOREM SemaphoreExactHolds == JobSpec => []SemaphoreExact
<1>1. JobInit => TokensExact
  <2> SUFFICES ASSUME JobInit PROVE TokensExact
    OBVIOUS
  <2>1. Holders = {}
    BY DEF JobInit, Holders, NoRun
  <2>2. Cardinality({}) = 0
    BY FS_EmptySet
  <2>3. semaphore = Cardinality(Holders) + releasing /\ semaphore <= Concurrent
    BY <2>1, <2>2, JobAssumption DEF JobInit
  <2>4. SemaphoreExact
    BY <2>3 DEF SemaphoreExact, Holders
  <2> QED
    BY <2>4 DEF JobInit, TokensExact, Settled, HoldsInside, NoRun
<1>2. TokensExact => SemaphoreExact
  BY DEF TokensExact
<1> QED
  BY <1>1, <1>2, TypeCorrect, TokensStep, PTL DEF JobSpec

-----------------------------------------------------------------------------
(* The order of the messages                                               *)

\* The message that was sent last, if it is still on the channel.
Newest == managerChan[Len(managerChan)]

\* Before its first report a run follows one that ended with anything but
\* PreSyncing; then the place of the runner gives away what it sent last.
NewestFits(l) ==
  /\ run[l].pc \in {"select", "dropped", "presync", "done", "closed"}
       => Newest.status # "PreSyncing"
  /\ run[l].pc \in {"prehooks", "syncing"}
       => Newest \in {Message("PreSyncing", FALSE), Message("Failed", FALSE)}
  /\ run[l].pc \in {"await", "running", "signal", "posthooks", "report", "send"}
       => Newest = Message("Syncing", FALSE)
  /\ run[l].pc = "hookfail"
       => Newest \in {Message("PreSyncing", FALSE), Message("Failed", FALSE),
                      Message("Syncing", FALSE)}

\* Only the report of the last attempt asks for the next run.
AsksOnce(l) ==
  run[l].pc = "send" /\ run[l].again => run[l].result = "ok" \/ run[l].retry = Retry - 1

\* The inductive form of MessageOrder.
Ordered ==
  /\ Settled
  /\ MessageOrder
  /\ \A l \in Loops : AsksOnce(l) /\ (managerChan # <<>> => NewestFits(l))

\* A message that may follow the newest one keeps the order and is the newest.
LEMMA SendOrdered ==
  ASSUME managerChan \in Seq(jobMessage), MessageOrder, NEW m \in jobMessage, Send(m),
         managerChan # <<>> => Follows(Newest, m)
  PROVE  MessageOrder' /\ Newest' = m
<1> DEFINE n == Len(managerChan)
<1>1. /\ n \in Nat /\ Len(managerChan') = n + 1 /\ managerChan'[n + 1] = m
      /\ \A i \in 1..n : managerChan'[i] = managerChan[i]
  BY AppendProperties, LenProperties DEF Send
<1>2. Newest' = m
  BY <1>1 DEF Newest
<1>3. ASSUME NEW i \in 1..n PROVE Follows(managerChan'[i], managerChan'[i + 1])
  <2>1. CASE i = n
    <3>1. managerChan # <<>>
      BY <2>1
    <3> QED
      BY <1>1, <2>1, <3>1 DEF Newest
  <2>2. CASE i # n
    <3>1. i \in 1..n - 1 /\ i + 1 \in 1..n
      BY <1>1, <2>2
    <3> QED
      BY <1>1, <3>1 DEF MessageOrder
  <2> QED
    BY <2>1, <2>2
<1>4. 1..Len(managerChan') - 1 = 1..n
  BY <1>1
<1> QED
  BY <1>2, <1>3, <1>4 DEF MessageOrder

\* Taking the oldest message away leaves the others in order.
LEMMA ReceiveOrdered ==
  ASSUME managerChan \in Seq(jobMessage), MessageOrder, managerChan # <<>>,
         managerChan' = Tail(managerChan)
  PROVE  MessageOrder' /\ (managerChan' # <<>> => Newest' = Newest)
<1> DEFINE n == Len(managerChan)
<1>1. /\ n \in Nat \ {0} /\ managerChan' \in Seq(jobMessage) /\ Len(managerChan') = n - 1
      /\ \A i \in 1..n - 1 : managerChan'[i] = managerChan[i + 1]
  BY HeadTailProperties, EmptySeq
<1>2. ASSUME managerChan' # <<>> PROVE Newest' = Newest
  <2>1. n - 1 \in 1..n - 1
    BY <1>1, <1>2, EmptySeq
  <2>2. managerChan'[n - 1] = managerChan[n]
    BY <1>1, <2>1
  <2> QED
    BY <1>1, <2>2 DEF Newest
<1>3. ASSUME NEW i \in 1..(n - 1) - 1 PROVE Follows(managerChan'[i], managerChan'[i + 1])
  <2>1. i \in 1..n - 1 /\ i + 1 \in 1..n - 1 /\ (i + 1) + 1 \in 1..n
    BY <1>1
  <2>2. managerChan'[i] = managerChan[i + 1] /\ managerChan'[i + 1] = managerChan[(i + 1) + 1]
    BY <1>1, <2>1
  <2> QED
    BY <2>1, <2>2 DEF MessageOrder
<1> QED
  BY <1>1, <1>2, <1>3 DEF MessageOrder

\* The loop sends nothing and takes a run away only when it is over.
LEMMA LoopOrdered ==
  ASSUME JobTypeOK, Ordered, NEW l \in Loops, Loops = {l}, Loop(l)
  PROVE  UNCHANGED managerChan /\ AsksOnce(l)' /\ (managerChan # <<>> => NewestFits(l)')
<1>0. run \in [Loops -> Runners] /\ run[l] \in Runners
  BY DEF JobTypeOK
<1>1. AsksOnce(l) /\ (managerChan # <<>> => NewestFits(l))
  BY DEF Ordered
<1> DEFINE Goal == UNCHANGED managerChan /\ AsksOnce(l)' /\ (managerChan # <<>> => NewestFits(l)')
<1> USE DEF LoopAt
<1>2. ASSUME UNCHANGED managerChan, run'[l].pc = "closed" \/ run'[l].pc = "select",
             run[l].pc \in {"closed", "dropped"}
      PROVE  Goal
  BY <1>1, <1>2 DEF NewestFits, AsksOnce, Newest
<1>3. ASSUME UNCHANGED managerChan, run'[l].pc = run[l].pc, run'[l].again = run[l].again,
             run'[l].result = run[l].result, run'[l].retry = run[l].retry
      PROVE  Goal
  BY <1>1, <1>3 DEF NewestFits, AsksOnce, Newest
<1>4. CASE Launch(l)
  <2>1. run[l].pc = "closed"
    BY <1>4 DEF Launch, Ordered, Settled
  <2> QED
    BY <1>0, <1>2, <1>4, <2>1 DEF Launch, NoRun
<1>5. CASE Join(l)
  BY <1>0, <1>2, <1>5 DEF Join, Joined, NoRun
<1>6. ASSUME NEW a, NEW s, NEW n, Interrupt(l, a, s, n) PROVE Goal
  BY <1>0, <1>3, <1>6 DEF Interrupt, Runners
<1>7. CASE WaitDefault(l)
  BY <1>0, <1>3, <1>7 DEF WaitDefault, Runners
<1>8. CASE Enter(l) \/ Leave(l) \/ Rest(l) \/ JobDone(l) \/ WaitStart(l)
  BY <1>3, <1>8 DEF Enter, Leave, Rest, JobDone, WaitStart
<1>9. CASE IdleStop(l) \/ IdleDisable(l) \/ IdleStart(l) \/ IdleDefault(l)
  BY <1>3, <1>9 DEF IdleStop, IdleDisable, IdleStart, IdleDefault
<1> QED
  BY <1>4, <1>5, <1>6, <1>7, <1>8, <1>9
     DEF Loop, WaitStop, WaitDisable, WaitRestart, WaitHalt

\* A runner sends what may follow, and goes where the newest message fits.
LEMMA RunnerOrdered ==
  ASSUME JobTypeOK, Ordered, NEW l \in Loops, Loops = {l}, Runner(l)
  PROVE  MessageOrder' /\ AsksOnce(l)' /\ (managerChan' # <<>> => NewestFits(l)')
<1>0. run \in [Loops -> Runners] /\ run[l] \in Runners /\ managerChan \in Seq(jobMessage)
  BY DEF JobTypeOK
<1>1. AsksOnce(l) /\ MessageOrder /\ (managerChan # <<>> => NewestFits(l))
  BY DEF Ordered
<1> DEFINE Goal == MessageOrder' /\ AsksOnce(l)' /\ (managerChan' # <<>> => NewestFits(l)')
<1>2. ASSUME UNCHANGED managerChan, AsksOnce(l)', managerChan # <<>> => NewestFits(l)' PROVE Goal
  BY <1>1, <1>2 DEF MessageOrder
<1>3. ASSUME NEW m \in jobMessage, Send(m), managerChan # <<>> => Follows(Newest, m),
             AsksOnce(l)', Newest' = m => NewestFits(l)'
      PROVE  Goal
  BY <1>0, <1>1, <1>3, SendOrdered
<1>4. CASE Acquire(l) \/ Bypass(l) \/ Drop(l)
  <2>1. UNCHANGED managerChan /\ run[l].pc = "select" /\ run'[l].pc \in {"presync", "dropped"}
    BY <1>0, <1>4 DEF Acquire, Bypass, Drop, RunAt, Runners
  <2> QED
    BY <1>1, <1>2, <2>1 DEF NewestFits, AsksOnce, Newest
<1>5. CASE PreSyncing(l)
  <2>1. run[l].pc = "presync" /\ run'[l].pc = "prehooks" /\ Send(Message("PreSyncing", FALSE))
    BY <1>0, <1>5 DEF PreSyncing, RunAt, Runners
  <2>2. managerChan # <<>> => Follows(Newest, Message("PreSyncing", FALSE))
    BY <1>1, <2>1 DEF NewestFits, Follows, Message
  <2> QED
    BY <1>3, <2>1, <2>2, MessageType DEF NewestFits, AsksOnce
<1>6. CASE PreHooks(l)
  <2>1. /\ UNCHANGED managerChan /\ run[l].pc = "prehooks"
        /\ run'[l].pc \in {"syncing", "hookfail"}
    BY <1>0, <1>6 DEF PreHooks, RunAt, Runners
  <2> QED
    BY <1>1, <1>2, <2>1 DEF NewestFits, AsksOnce, Newest
<1>7. CASE Syncing(l)
  <2>1. run[l].pc = "syncing" /\ run'[l].pc = "await" /\ Send(Message("Syncing", FALSE))
    BY <1>0, <1>7 DEF Syncing, Runners
  <2>2. managerChan # <<>> => Follows(Newest, Message("Syncing", FALSE))
    BY <1>1, <2>1 DEF NewestFits, Follows, Message
  <2> QED
    BY <1>3, <2>1, <2>2, MessageType DEF NewestFits, AsksOnce
<1>8. CASE Started(l) \/ NilPanic(l) \/ SyncDone(l)
  <2>1. /\ UNCHANGED managerChan /\ run[l].pc \in {"await", "running"}
        /\ run'[l].pc \in {"await", "running", "posthooks"}
    BY <1>0, <1>8 DEF Started, NilPanic, SyncDone, RunAt, Runners
  <2> QED
    BY <1>1, <1>2, <2>1 DEF NewestFits, AsksOnce, Newest
<1>9. CASE TimedOut(l) \/ Killed(l)
  <2>1. PICK why : Terminate(l, why)
    BY <1>9 DEF TimedOut, Killed
  <2>2. /\ UNCHANGED managerChan /\ run[l].pc = "running"
        /\ run'[l].pc \in {"signal", "posthooks"}
    BY <1>0, <2>1 DEF Terminate, Runners
  <2> QED
    BY <1>1, <1>2, <2>2 DEF NewestFits, AsksOnce, Newest
<1>10. CASE SendSignal(l)
  <2>1. /\ UNCHANGED managerChan /\ run[l].pc = "signal"
        /\ run'[l].pc \in {"posthooks", "done"}
    BY <1>0, <1>10 DEF SendSignal, Runners
  <2> QED
    BY <1>1, <1>2, <2>1 DEF NewestFits, AsksOnce, Newest, Message
<1>11. CASE PostHooks(l)
  <2>1. /\ UNCHANGED managerChan /\ run[l].pc = "posthooks"
        /\ run'[l].pc \in {"report", "hookfail"}
    BY <1>0, <1>11 DEF PostHooks, RunAt, Runners
  <2> QED
    BY <1>1, <1>2, <2>1 DEF NewestFits, AsksOnce, Newest
<1>12. CASE HookFail(l)
  <2>1. run[l].pc = "hookfail" /\ run'[l].pc = "done" /\ Send(Message("Failed", TRUE))
    BY <1>0, <1>12 DEF HookFail, RunAt, Runners
  <2>2. managerChan # <<>> => Follows(Newest, Message("Failed", TRUE))
    BY <1>1, <2>1 DEF NewestFits, Follows, Message
  <2>3. Message("Failed", TRUE) \in jobMessage /\ Message("Failed", TRUE).status # "PreSyncing"
    BY DEF Message, jobMessage
  <2> QED
    BY <1>3, <2>1, <2>2, <2>3 DEF NewestFits, AsksOnce
<1>13. CASE Report(l)
  <2>1. /\ UNCHANGED managerChan /\ run[l].pc = "report" /\ run'[l].pc = "send"
        /\ run'[l].again = Again(l) /\ run'[l].result = run[l].result
        /\ run'[l].retry = run[l].retry
    BY <1>0, <1>13 DEF Report, Runners
  <2> QED
    BY <1>1, <1>2, <2>1 DEF NewestFits, AsksOnce, Newest, Again
<1>14. CASE SendResult(l)
  <2> DEFINE m == Message(IF run[l].result = "ok" THEN "Success" ELSE "Failed", run[l].again)
  <2>1. run[l].pc = "send" /\ Send(m) /\ run[l].again \in BOOLEAN
    BY <1>0, <1>14 DEF SendResult, Runners
  <2>2. m \in jobMessage /\ m.status # "PreSyncing"
    BY <2>1 DEF Message, jobMessage
  <2>3. managerChan # <<>> => Follows(Newest, m)
    BY <1>1, <2>1 DEF NewestFits, Follows, Message
  <2>4. CASE Retries(l)
    <3>1. run[l].result = "err" /\ run[l].retry # Retry - 1
      BY <1>0, <2>4, JobAssumption DEF Retries, Runners
    <3>2. m = Message("Failed", FALSE)
      BY <1>1, <2>1, <3>1 DEF AsksOnce
    <3>3. run'[l].pc = "prehooks"
      BY <1>0, <1>14, <2>4 DEF SendResult, Runners
    <3> HIDE DEF m
    <3> QED
      BY <1>3, <2>1, <2>2, <2>3, <3>2, <3>3 DEF NewestFits, AsksOnce
  <2>5. CASE ~Retries(l)
    <3>1. run'[l].pc = "done"
      BY <1>0, <1>14, <2>5 DEF SendResult, Runners
    <3> HIDE DEF m
    <3> QED
      BY <1>3, <2>1, <2>2, <2>3, <3>1 DEF NewestFits, AsksOnce
  <2> QED
    BY <2>4, <2>5
<1>15. CASE Close(l)
  <2>1. UNCHANGED managerChan /\ run[l].pc = "done" /\ run'[l].pc = "closed"
    BY <1>0, <1>15 DEF Close, NoRun
  <2> QED
    BY <1>1, <1>2, <2>1 DEF NewestFits, AsksOnce, Newest
<1> QED
  BY <1>4, <1>5, <1>6, <1>7, <1>8, <1>9, <1>10, <1>11, <1>12, <1>13, <1>14, <1>15 DEF Runner

\* Every step keeps Ordered.
LEMMA OrderedStep ==
  ASSUME NEW l \in Loops, Loops = {l}, JobTypeOK, Ordered, [JobNext]_jobVars
  PROVE  Ordered'
<1>0. Settled'
  BY SettledStep DEF Ordered
<1>1. SUFFICES MessageOrder' /\ AsksOnce(l)' /\ (managerChan' # <<>> => NewestFits(l)')
  BY <1>0, <1>1 DEF Ordered
<1>2. AsksOnce(l) /\ MessageOrder /\ (managerChan # <<>> => NewestFits(l))
  BY DEF Ordered
<1>3. run \in [Loops -> Runners] /\ run[l] \in Runners /\ managerChan \in Seq(jobMessage)
  BY DEF JobTypeOK
<1>4. CASE Loop(l)
  BY <1>2, <1>4, LoopOrdered DEF MessageOrder
<1>5. CASE Runner(l)
  BY <1>5, RunnerOrdered
<1>6. ASSUME UNCHANGED managerChan, run'[l].pc = run[l].pc, run'[l].again = run[l].again,
             run'[l].result = run[l].result, run'[l].retry = run[l].retry
      PROVE  MessageOrder' /\ AsksOnce(l)' /\ (managerChan' # <<>> => NewestFits(l)')
  BY <1>2, <1>6 DEF NewestFits, AsksOnce, Newest, MessageOrder
<1>7. CASE ProviderStart(l)
  <2>1. PICK s : run' = [run EXCEPT ![l].sync = s]
    BY <1>7 DEF ProviderStart
  <2> QED
    BY <1>3, <1>6, <1>7, <2>1 DEF ProviderStart, Runners
<1>8. CASE ProviderReturn(l)
  BY <1>3, <1>6, <1>8 DEF ProviderReturn, Runners
<1>9. CASE WaitReturns
  BY <1>3, <1>6, <1>9 DEF WaitReturns, Runners
<1>10. CASE Release \/ ProcessExit("alive") \/ ProcessExit("killed") \/ UNCHANGED jobVars
  BY <1>6, <1>10 DEF Release, ProcessExit, jobVars
<1>11. CASE Receive
  <2>1. MessageOrder' /\ (managerChan' # <<>> => Newest' = Newest) /\ managerChan # <<>>
    BY <1>2, <1>3, <1>11, ReceiveOrdered DEF Receive
  <2> QED
    BY <1>2, <1>11, <2>1 DEF Receive, NewestFits, AsksOnce
<1>12. CASE Environment /\ ~Receive
  BY <1>6, <1>12 DEF Environment, Control, Boot, GoRun
<1> QED
  BY <1>4, <1>5, <1>7, <1>8, <1>9, <1>10, <1>11, <1>12 DEF JobNext, JobStep, Provider

\* The messages of a job with one loop are in the order the manager relies on:
\* PreSyncing, attempts that start with Syncing, and at most one message that
\* asks for the next run, the last of its run.
THEOREM MessageOrderHolds ==
  ASSUME NEW l, Loops = {l}
  PROVE  JobSpec => []MessageOrder
<1>1. JobInit => Ordered
  BY DEF JobInit, Ordered, Settled, MessageOrder, AsksOnce, NoRun
<1>2. JobTypeOK /\ Ordered /\ [JobNext]_jobVars => Ordered'
  BY OrderedStep
<1>3. Ordered => MessageOrder
  BY DEF Ordered
<1> QED
  BY <1>1, <1>2, <1>3, TypeCorrect, PTL DEF JobSpec
=============================================================================
