---------------------------- MODULE WorkerProofs ----------------------------
(***************************************************************************)
(* The worker implements the environment that MirrorJob assumes, so what   *)
(* is proved of the job in MirrorJobProofs holds inside every worker; and  *)
(* no run outlives Halt.                                                   *)
(***************************************************************************)
EXTENDS Worker, MirrorJobProofs

\* A control action that a worker sends is one of Controls.
LEMMA ActionControls ==
  ASSUME NEW c \in Commands \ {"Ping"}
  PROVE  Action[c] \in Controls
  BY WorkerAssumption

\* The command of the handler is one of those that clients send, and not a
\* Ping once the handler is about to tell the job.
HandlerOK ==
  /\ http \in [pc : {"none", "bound", "flushed", "send"}, cmd : AllCommands]
  /\ http.pc # "none" => http.cmd \in Commands
  /\ http.pc = "send" => http.cmd # "Ping"

\* Every step of the handler is one that the job may see.
LEMMA HttpMaps == ASSUME HandlerOK, ~crashed, Http PROVE [JobNext]_jobVars
<1>1. ASSUME NEW c \in Commands, HttpLock(c) PROVE UNCHANGED jobVars
  BY <1>1 DEF HttpLock
<1>2. CASE HttpInvalid \/ HttpFlush
  BY <1>2 DEF HttpInvalid, HttpFlush
<1>3. CASE HttpCommand
  BY <1>3 DEF HttpCommand, JobNext, Environment
<1>4. CASE HttpSend
  <2>1. Action[http.cmd] \in Controls
    BY <1>4, ActionControls DEF HttpSend, HandlerOK
  <2> QED
    BY <1>4, <2>1 DEF HttpSend, JobNext, Environment
<1> QED
  BY <1>1, <1>2, <1>3, <1>4 DEF Http

\* Every step of runSchedule is one that the job may see.
LEMMA ScheduleMaps == ASSUME ~crashed, Schedule PROVE [JobNext]_jobVars
<1>1. ASSUME NEW s \in Stored, Startup(s) PROVE JobNext
  BY <1>1, WorkerAssumption DEF Startup, JobNext, Environment
<1>2. CASE TakeMsg \/ Flush
  BY <1>2 DEF TakeMsg, Flush, JobNext, Environment
<1>3. CASE Fire
  BY <1>3, WorkerAssumption DEF Fire, JobNext, Environment
<1>4. CASE updateStatus \/ AddJob \/ updateSchedInfo \/ Pop \/ Exit \/ ExitLock \/ Return
  BY <1>4 DEF updateStatus, AddJob, updateSchedInfo, Pop, Exit, ExitLock, Return
<1> QED
  BY <1>1, <1>2, <1>3, <1>4 DEF Schedule

\* Every step of Halt is one that the job may see.
LEMMA HaltMaps == ASSUME ~crashed, Halt PROVE [JobNext]_jobVars
<1>1. CASE HaltSend
  BY <1>1, WorkerAssumption DEF HaltSend, JobNext, Environment
<1>2. CASE Signal \/ HaltLock \/ HaltDone
  BY <1>2 DEF Signal, HaltLock, HaltDone
<1> QED
  BY <1>1, <1>2 DEF Halt

\* Every step of a worker is a step of its job or leaves the job alone.
LEMMA StepMaps == ASSUME HandlerOK, [Next]_vars PROVE [JobNext]_jobVars
  BY HttpMaps, ScheduleMaps, HaltMaps DEF Next, Alive, JobNext, vars

\* Every step keeps HandlerOK.
LEMMA HandlerStep == ASSUME HandlerOK, [Next]_vars PROVE HandlerOK'
<1> USE DEF HandlerOK
<1>1. ASSUME NEW c \in Commands, HttpLock(c) PROVE HandlerOK'
  BY <1>1, WorkerAssumption DEF HttpLock
<1>2. CASE HttpInvalid \/ HttpFlush \/ HttpSend
  BY <1>2 DEF HttpInvalid, HttpFlush, HttpSend, NoHandler, AllCommands
<1>3. CASE HttpCommand
  BY <1>3 DEF HttpCommand, NoHandler, Answered, AllCommands
<1>4. CASE UNCHANGED workerVars \/ UNCHANGED vars
  BY <1>4 DEF vars, workerVars
<1>5. CASE Schedule
  BY <1>5 DEF Schedule, Startup, TakeMsg, updateStatus, AddJob, updateSchedInfo, Pop,
              Fire, Exit, ExitLock, Flush, Return
<1>6. CASE Halt
  BY <1>6 DEF Halt, Signal, HaltLock, HaltSend, HaltDone
<1> QED
  BY <1>1, <1>2, <1>3, <1>4, <1>5, <1>6 DEF Next, Http

\* The worker drives its job through the control channel, the message channel
\* and the launches that MirrorJob allows, and in no other way: the POST /
\* handler, runSchedule and Halt implement MirrorJob's environment.
THEOREM WorkerImplementsJob == Spec => JobSpec
<1>1. Init => JobInit /\ HandlerOK
  BY DEF Init, HandlerOK, NoHandler, AllCommands
<1> QED
  BY <1>1, HandlerStep, StepMaps, PTL DEF Spec, JobSpec

\* Inside every worker, whatever commands and signals it gets, a sync process
\* that nobody signalled is watched by a runner, and the semaphore is exact.
THEOREM WorkerKeepsJobSafe == Spec => [](NoUnattendedProcess /\ SemaphoreExact)
  BY WorkerImplementsJob, NoUnattendedProcessHolds, SemaphoreExactHolds, PTL

\* runSchedule gets the messages of a job with one loop in the order that
\* MessageOrder states.
THEOREM WorkerMessagesOrdered == ASSUME NEW l, Loops = {l} PROVE Spec => []MessageOrder
<1>1. JobSpec => []MessageOrder
  BY MessageOrderHolds
<1> QED
  BY <1>1, WorkerImplementsJob, PTL

-----------------------------------------------------------------------------
(* Types                                                                   *)

\* Every step of the worker keeps the types of the worker and its job.
LEMMA WorkerTypeStep == ASSUME WorkerTypeOK, HandlerOK, [Next]_vars PROVE WorkerTypeOK'
<1>1. JobTypeOK'
  BY StepMaps, TypeStep DEF WorkerTypeOK
<1>2. \A m \in jobMessage : m.status \in {"PreSyncing", "Syncing", "Success", "Failed"}
  BY DEF jobMessage
<1>3. NoMsg \in jobMessage
  BY MessageType DEF NoMsg
<1>4. managerChan # <<>> => Head(managerChan) \in jobMessage
  BY DEF WorkerTypeOK, JobTypeOK
<1>5. http' \in [pc : {"none", "bound", "flushed", "send"}, cmd : AllCommands]
  BY HandlerStep DEF HandlerOK
<1> USE DEF WorkerTypeOK, haltVars
<1>6. CASE Http
  <2>1. /\ L' \in {"free", "http", "halt", "schedule"}
        /\ sched' \in BOOLEAN
        /\ UNCHANGED <<qLocked, sp, msg, haltVars, known>>
    <3>1. CASE HttpFlush
      BY <3>1 DEF HttpFlush
    <3>2. CASE HttpCommand
      BY <3>2 DEF HttpCommand
    <3> QED
      BY <1>6, <3>1, <3>2 DEF Http, HttpLock, HttpInvalid, HttpSend
  <2> QED
    BY <1>1, <1>5, <2>1
<1>7. CASE Schedule
  <2> USE <1>1, <1>5
  <2>1. ASSUME NEW s \in Stored, Startup(s) PROVE WorkerTypeOK'
    BY <2>1 DEF Startup
  <2>2. CASE TakeMsg
    BY <1>4, <2>2 DEF TakeMsg, Receive
  <2>3. CASE updateStatus
    BY <1>2, <1>3, <2>3 DEF updateStatus, Tell
  <2>4. CASE AddJob
    BY <2>4 DEF AddJob
  <2>5. CASE updateSchedInfo
    BY <2>5 DEF updateSchedInfo, Tell
  <2>6. CASE Flush
    BY <1>4, <2>6 DEF Flush, Tell, Receive, jobMessage
  <2>7. CASE Pop \/ Fire \/ Exit \/ ExitLock \/ Return
    BY <2>7 DEF Pop, Fire, Exit, ExitLock, Return
  <2> QED
    BY <1>7, <2>1, <2>2, <2>3, <2>4, <2>5, <2>6, <2>7 DEF Schedule
<1>8. CASE Halt
  <2>1. CASE Signal
    BY <1>1, <1>5, <2>1, WorkerAssumption DEF Signal
  <2>2. CASE HaltLock \/ HaltSend
    BY <1>1, <1>5, <2>2 DEF HaltLock, HaltSend
  <2>3. CASE HaltDone
    BY <1>1, <1>5, <2>3 DEF HaltDone
  <2> QED
    BY <1>8, <2>1, <2>2, <2>3 DEF Halt
<1>9. CASE UNCHANGED workerVars \/ UNCHANGED vars
  BY <1>1, <1>9 DEF vars, workerVars
<1> QED
  BY <1>6, <1>7, <1>8, <1>9 DEF Next

\* NewTUNASyncWorker has the types.
LEMMA InitTypes == Init => WorkerTypeOK /\ HandlerOK
<1> SUFFICES ASSUME Init PROVE WorkerTypeOK /\ HandlerOK
  OBVIOUS
<1>1. JobTypeOK
  BY InitType DEF Init
<1>2. msg \in jobMessage
  BY MessageType DEF Init, NoMsg
<1>3. HandlerOK
  BY DEF Init, HandlerOK, NoHandler, AllCommands
<1>4. known \in [status : {"None", "PreSyncing", "Syncing", "Success", "Failed"},
                 scheduled : BOOLEAN]
  BY DEF Init
<1>5. sched \in BOOLEAN /\ qLocked \in BOOLEAN /\ exit \in BOOLEAN
  BY DEF Init
<1> QED
  BY <1>1, <1>2, <1>3, <1>4, <1>5, WorkerAssumption DEF Init, WorkerTypeOK, HandlerOK

\* The worker keeps its types: the manager is only ever told one of the four
\* statuses of a run, and no more signals are served than were sent.
THEOREM WorkerTypeCorrect == Spec => []WorkerTypeOK
  BY InitTypes, HandlerStep, WorkerTypeStep, PTL DEF Spec

-----------------------------------------------------------------------------
(* Halt                                                                    *)

Leaving(l) == loop[l] \in {"leaving", "exited"}

\* A job that was not stored as Disabled is never disabled and has at most one
\* loop; one that leaves has no run, and none has made the job Ready before it
\* received a control action.
Sole ==
  /\ state # "Disabled"
  /\ ctrlChan \notin {"jobPing", "jobDisable"}
  /\ \A k, l \in Loops : loop[k] # "none" /\ loop[l] # "none" => k = l
  /\ \A l \in Loops : Leaving(l) => run[l].pc = "closed"
  /\ (\A l \in Loops : loop[l] \in {"none", "spawned"}) => state # "Ready"

\* jobHalt is on its way while Halt waits; if it has not arrived when Halt
\* closes w.exit, it meets a loop that has launched nothing.
Halted ==
  /\ hp = "wait" => \/ ctrlChan = "jobHalt"
                    \/ \E l \in Loops : Leaving(l) \/ (loop[l] = "join" /\ after[l] = "leaving")
  /\ exit => \/ /\ ctrlChan = "jobHalt" /\ state # "Ready"
                /\ \A l \in Loops : loop[l] \in {"none", "spawned", "top", "idle"}
             \/ \E l \in Loops : Leaving(l)

\* The inductive form of HaltWaits.
HaltInv == WorkerTypeOK /\ HandlerOK /\ Settled /\ Sole /\ Halted

\* With one loop that has begun, Sole and Halted are about this loop.
LEMMA SoleLoop ==
  ASSUME HaltInv, NEW l \in Loops, loop[l] # "none"
  PROVE  /\ \A k \in Loops \ {l} : loop[k] = "none"
         /\ hp = "wait" => \/ ctrlChan = "jobHalt" \/ Leaving(l)
                           \/ loop[l] = "join" /\ after[l] = "leaving"
         /\ exit => \/ Leaving(l)
                    \/ /\ ctrlChan = "jobHalt" /\ state # "Ready"
                       /\ loop[l] \in {"spawned", "top", "idle"}
<1>1. \A k \in Loops \ {l} : loop[k] = "none"
  BY DEF HaltInv, Sole
<1> QED
  BY <1>1 DEF HaltInv, Halted, Leaving

\* ... and it is enough to look at this loop.
LEMMA SoleAfter ==
  ASSUME HaltInv, NEW l \in Loops, loop[l] # "none", UNCHANGED <<hp, exit>>,
         state' # "Disabled", ctrlChan' \notin {"jobPing", "jobDisable"},
         \A k \in Loops \ {l} : loop'[k] = loop[k] /\ run'[k] = run[k],
         Leaving(l)' => run'[l].pc = "closed",
         loop'[l] \notin {"none", "spawned"},
         hp = "wait" => \/ ctrlChan' = "jobHalt" \/ Leaving(l)'
                        \/ loop'[l] = "join" /\ after'[l] = "leaving",
         exit => \/ Leaving(l)'
                 \/ /\ ctrlChan' = "jobHalt" /\ state' # "Ready"
                    /\ loop'[l] \in {"spawned", "top", "idle"}
  PROVE  Sole' /\ Halted'
<1>1. \A k \in Loops \ {l} : loop'[k] = "none"
  BY SoleLoop
<1>2. Sole'
  BY <1>1 DEF Sole, Leaving
<1>3. Halted'
  BY <1>1 DEF Halted, Leaving
<1> QED
  BY <1>2, <1>3

\* A step of the loop.
LEMMA LoopHalt ==
  ASSUME HaltInv, NEW l \in Loops, Loop(l), UNCHANGED <<hp, exit>>
  PROVE  Sole' /\ Halted'
<1>0. /\ loop \in [Loops -> {"none", "spawned", "top", "wait", "join", "idle", "leaving", "exited"}]
      /\ run \in [Loops -> Runners] /\ run[l] \in Runners
      /\ after \in [Loops -> {"idle", "top", "leaving"}]
  BY DEF HaltInv, WorkerTypeOK, JobTypeOK
<1>1. /\ loop[l] # "none"
      /\ \A k \in Loops \ {l} : loop'[k] = loop[k] /\ run'[k] = run[k]
  BY <1>0 DEF Loop, Enter, Leave, Launch, Rest, JobDone, Join, WaitStop, WaitDisable, WaitRestart,
     WaitHalt, Interrupt, WaitStart, WaitDefault, IdleStop, IdleDisable, IdleStart, IdleDefault, LoopAt
<1>2. /\ state # "Disabled" /\ ctrlChan \notin {"jobPing", "jobDisable"}
      /\ Leaving(l) => run[l].pc = "closed"
      /\ loop[l] \in {"top", "idle"} => run[l].pc = "closed"
      /\ loop[l] = "spawned" => state # "Ready"
  <2>1. loop[l] = "spawned" => \A k \in Loops : loop[k] \in {"none", "spawned"}
    BY <1>1, SoleLoop
  <2> QED
    BY <2>1 DEF HaltInv, Sole, Settled
<1>3. /\ hp = "wait" => \/ ctrlChan = "jobHalt" \/ Leaving(l)
                        \/ loop[l] = "join" /\ after[l] = "leaving"
      /\ exit => \/ Leaving(l)
                 \/ /\ ctrlChan = "jobHalt" /\ state # "Ready"
                    /\ loop[l] \in {"spawned", "top", "idle"}
  BY <1>1, SoleLoop
<1>4. SUFFICES
        /\ state' # "Disabled" /\ ctrlChan' \notin {"jobPing", "jobDisable"}
        /\ Leaving(l)' => run'[l].pc = "closed"
        /\ loop'[l] \notin {"none", "spawned"}
        /\ hp = "wait" => \/ ctrlChan' = "jobHalt" \/ Leaving(l)'
                          \/ loop'[l] = "join" /\ after'[l] = "leaving"
        /\ exit => \/ Leaving(l)'
                   \/ /\ ctrlChan' = "jobHalt" /\ state' # "Ready"
                      /\ loop'[l] \in {"spawned", "top", "idle"}
  BY <1>1, <1>4, SoleAfter
<1> USE <1>0, <1>2, <1>3 DEF LoopAt, Leaving, Recv
<1>5. CASE Enter(l)
  BY <1>5 DEF Enter
<1>6. CASE Leave(l)
  BY <1>6 DEF Leave
<1>7. CASE Launch(l) \/ Rest(l) \/ JobDone(l)
  BY <1>7 DEF Launch, Rest, JobDone
<1>8. CASE Join(l)
  <2>1. run'[l].pc = "closed" /\ loop'[l] = after[l] /\ loop[l] = "join"
    BY <1>8 DEF Join, Joined, NoRun
  <2> QED
    BY <1>8, <2>1 DEF Join
<1>9. CASE WaitStop(l) \/ WaitRestart(l) \/ WaitDisable(l)
  BY <1>9 DEF WaitStop, WaitRestart, WaitDisable, Interrupt
<1>10. CASE WaitHalt(l)
  BY <1>10 DEF WaitHalt, Interrupt
<1>11. CASE WaitStart(l) \/ WaitDefault(l)
  BY <1>11 DEF WaitStart, WaitDefault
<1>12. CASE IdleStop(l) \/ IdleDisable(l) \/ IdleStart(l)
  BY <1>12 DEF IdleStop, IdleDisable, IdleStart
<1>13. CASE IdleDefault(l)
  BY <1>13 DEF IdleDefault
<1> QED
  BY <1>5, <1>6, <1>7, <1>8, <1>9, <1>10, <1>11, <1>12, <1>13, Loop(l) DEF Loop

\* A step that leaves the loop alone and ends no run before its time.
LEMMA AwayHalt ==
  ASSUME HaltInv, UNCHANGED <<hp, exit, state, ctrlChan, loop, after>>,
         \A l \in Loops : run[l].pc = "closed" => run'[l].pc = "closed"
  PROVE  Sole' /\ Halted'
<1>1. Sole'
  BY DEF HaltInv, Sole, Leaving
<1>2. Halted'
  BY DEF HaltInv, Halted, Leaving
<1> QED
  BY <1>1, <1>2

\* A step of the job.
LEMMA JobHalt ==
  ASSUME HaltInv, JobStep, UNCHANGED workerVars
  PROVE  Sole' /\ Halted'
<1>0. JobTypeOK /\ UNCHANGED <<hp, exit>>
  BY DEF HaltInv, WorkerTypeOK, workerVars, haltVars
<1>1. ASSUME NEW l \in Loops, Runner(l) PROVE Sole' /\ Halted'
  <2>1. UNCHANGED <<state, ctrlChan, loop, after>>
    BY <1>1 DEF Runner, Acquire, Bypass, Drop, PreSyncing, PreHooks, Syncing, Started, NilPanic, SyncDone,
       TimedOut, Killed, Terminate, SendSignal, PostHooks, HookFail, Report, SendResult, Close, loopVars
  <2> QED
    BY <1>0, <1>1, <2>1, RunnerFrame, AwayHalt
<1>2. CASE (\E l \in Loops : Provider(l)) \/ WaitReturns
  <2>1. UNCHANGED <<state, ctrlChan, loop, after>>
    BY <1>2 DEF Provider, ProviderStart, ProviderReturn, WaitReturns, loopVars
  <2> QED
    BY <1>0, <1>2, <2>1, ProviderFrame, AwayHalt
<1>3. CASE Release \/ ProcessExit("alive") \/ ProcessExit("killed")
  BY <1>0, <1>3, AwayHalt DEF Release, ProcessExit, loopVars
<1> QED
  BY <1>0, <1>1, <1>2, <1>3, LoopHalt DEF JobStep

\* A control action that a worker other than Halt sends.
LEMMA ControlHalt ==
  ASSUME HaltInv, UNCHANGED <<hp, exit>>, NEW a, Control(a), a \notin {"jobPing", "jobDisable"}
  PROVE  Sole' /\ Halted'
<1>1. Sole'
  BY DEF HaltInv, Sole, Leaving, Control
<1>2. Halted'
  BY DEF HaltInv, Halted, Leaving, Control
<1> QED
  BY <1>1, <1>2

\* Every step keeps HaltInv.
LEMMA HaltStep ==
  ASSUME "Disabled" \notin Stored, HaltInv, [Next]_vars
  PROVE  HaltInv'
<1>0. WorkerTypeOK' /\ HandlerOK' /\ Settled'
  BY WorkerTypeStep, HandlerStep, SettledStep, StepMaps DEF HaltInv, WorkerTypeOK
<1>1. SUFFICES Sole' /\ Halted'
  BY <1>0, <1>1 DEF HaltInv
<1>2. ASSUME UNCHANGED <<jobVars, hp, exit>> PROVE Sole' /\ Halted'
  BY <1>2, AwayHalt DEF jobVars, loopVars
<1>3. CASE JobStep /\ UNCHANGED workerVars
  BY <1>3, JobHalt
<1>4. CASE Http
  <2>1. ASSUME NEW c \in Commands, HttpLock(c) PROVE Sole' /\ Halted'
    BY <1>2, <2>1 DEF HttpLock, haltVars
  <2>2. CASE HttpInvalid \/ HttpFlush
    BY <1>2, <2>2 DEF HttpInvalid, HttpFlush, haltVars
  <2>3. CASE HttpCommand
    BY <1>2, <2>3 DEF HttpCommand, haltVars, GoRun, HaltInv, Sole
  <2>4. CASE HttpSend
    <3>1. Action[http.cmd] \in {"jobStart", "jobForceStart", "jobRestart", "jobStop"}
      BY <2>4, WorkerAssumption DEF HaltInv, HandlerOK, HttpSend, Action, AllCommands
    <3> QED
      BY <2>4, <3>1, ControlHalt DEF HttpSend, haltVars
  <2> QED
    BY <1>4, <2>1, <2>2, <2>3, <2>4 DEF Http
<1>5. CASE Schedule
  <2>1. ASSUME NEW s \in Stored, Startup(s) PROVE Sole' /\ Halted'
    <3>1. /\ Boot(s) /\ s \in {"None", "Paused"} /\ UNCHANGED <<hp, exit>>
      BY <2>1, WorkerAssumption DEF Startup, haltVars
    <3>2. PICK l \in Loops : LoopAt(l, "none", "spawned")
      BY <3>1 DEF Boot
    <3>3. /\ state' = s /\ UNCHANGED <<ctrlChan, after, run>>
          /\ \A k \in Loops : loop[k] = "none"
          /\ loop'[l] = "spawned" /\ \A k \in Loops \ {l} : loop'[k] = "none"
      BY <3>1, <3>2 DEF Boot, LoopAt, HaltInv, WorkerTypeOK, JobTypeOK
    <3>4. Sole'
      BY <3>1, <3>3 DEF HaltInv, Sole, Leaving
    <3>5. Halted'
      BY <3>1, <3>3 DEF HaltInv, Halted, Leaving
    <3> QED
      BY <3>4, <3>5
  <2>2. CASE TakeMsg \/ Flush
    BY <2>2, AwayHalt DEF TakeMsg, Flush, Receive, haltVars, loopVars
  <2>3. CASE Fire
    BY <2>3, ControlHalt DEF Fire, haltVars
  <2>4. CASE updateStatus \/ AddJob \/ updateSchedInfo \/ Pop \/ Exit \/ ExitLock \/ Return
    BY <1>2, <2>4 DEF updateStatus, AddJob, updateSchedInfo, Pop, Exit, ExitLock, Return, haltVars
  <2> QED
    BY <1>5, <2>1, <2>2, <2>3, <2>4 DEF Schedule
<1>6. CASE Halt
  <2> USE DEF HaltInv
  <2>1. CASE Signal \/ HaltLock
    <3>1. UNCHANGED <<state, ctrlChan, loop, after, run, exit>> /\ hp' # "wait"
      BY <2>1 DEF Signal, HaltLock, jobVars, loopVars
    <3> QED
      BY <3>1 DEF Sole, Halted, Leaving
  <2>2. CASE HaltSend
    <3>1. Control("jobHalt") /\ UNCHANGED exit
      BY <2>2 DEF HaltSend, Sole
    <3> QED
      BY <3>1 DEF Sole, Halted, Leaving, Control
  <2>3. CASE HaltDone
    <3>1. /\ UNCHANGED <<state, ctrlChan, loop, after, run>> /\ hp' # "wait" /\ hp = "wait" /\ jobsDone
      BY <2>3 DEF HaltDone, jobVars, loopVars
    <3>2. Sole'
      BY <3>1 DEF Sole, Leaving
    <3>3. \/ ctrlChan = "jobHalt"
          \/ \E l \in Loops : Leaving(l)
      BY <3>1 DEF Halted, jobsDone
    <3>4. (\A l \in Loops : ~Leaving(l)) => state # "Ready" /\ \A l \in Loops : loop[l] \in {"none", "spawned"}
      BY <3>1 DEF jobsDone, Leaving, Sole
    <3> QED
      BY <3>1, <3>2, <3>3, <3>4 DEF Halted, Leaving
  <2> QED
    BY <1>6, <2>1, <2>2, <2>3 DEF Halt
<1>7. CASE UNCHANGED vars
  BY <1>2, <1>7 DEF vars, workerVars, haltVars
<1> QED
  BY <1>3, <1>4, <1>5, <1>6, <1>7 DEF Next

\* When Halt has closed w.exit no run is in progress, and none begins: for a
\* job that is not stored as Disabled, jobsDone.Wait() cannot be passed by a
\* goroutine of mirrorJob.Run that still starts a sync, not even by one that
\* had not called jobsDone.Add yet.
THEOREM HaltWaitsHolds ==
  ASSUME "Disabled" \notin Stored
  PROVE  Spec => []HaltWaits
<1>1. Init => Settled /\ Sole /\ Halted
  BY DEF Init, JobInit, Settled, NoRun, Sole, Halted, Leaving
<1>2. Init => WorkerTypeOK /\ HandlerOK
  BY InitTypes
<1>3. HaltInv => HaltWaits
  <2> SUFFICES ASSUME HaltInv, exit, NEW l \in Loops PROVE run[l].pc = "closed"
    BY DEF HaltWaits
  <2>1. CASE \E k \in Loops : Leaving(k)
    BY <2>1 DEF HaltInv, Sole, Settled, Leaving
  <2>2. CASE ~\E k \in Loops : Leaving(k)
    BY <2>2 DEF HaltInv, Halted, Settled
  <2> QED
    BY <2>1, <2>2
<1> QED
  BY <1>1, <1>2, <1>3, HaltStep, PTL DEF Spec, HaltInv
=============================================================================
