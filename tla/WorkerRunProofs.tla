-------------------------- MODULE WorkerRunProofs --------------------------
(***************************************************************************)
(* Theorems about the runs of the job inside a worker: what the manager is *)
(* left to believe of the last one, and where the next one is planned.     *)
(***************************************************************************)
EXTENDS WorkerProofs

-----------------------------------------------------------------------------
(* The status that the manager is left with                                *)

\* The latest status on its way to the manager, or the one it was told.
Latest ==
  IF managerChan # <<>> THEN Newest.status ELSE IF sp = "patch" THEN msg.status ELSE known.status

\* A run that its loop still waits for is not being killed, and a loop that
\* stopped its run has left the job Paused.
Undisturbed ==
  \A l \in Loops :
    /\ loop[l] = "wait" => state = "Ready" /\ ~run[l].kill /\ run[l].pc \notin {"signal", "dropped"}
    /\ loop[l] = "join" /\ after[l] = "idle" => state # "Ready"

\* A run of the Ready job that is over has reported how it ended last.
Over(l) ==
  \/ state = "Ready" /\ loop[l] = "idle"
  \/ loop[l] = "wait" /\ run[l].pc \in {"done", "closed"}
Told ==
  sp \notin {"exiting", "flush", "returned"} => \A l \in Loops : Over(l) => Latest \in {"Success", "Failed"}

\* The inductive form of StatusSettles.
StatusInv == HaltInv /\ Undisturbed /\ Told

\* A step that neither ends a run nor changes the latest status.
LEMMA SameLatest ==
  ASSUME Told, sp' \notin {"exiting", "flush", "returned"} => sp \notin {"exiting", "flush", "returned"},
         sp' \notin {"exiting", "flush", "returned"} => Latest' = Latest,
         \A l \in Loops : Over(l)' => Over(l)
  PROVE  Told'
  BY DEF Told

\* A step of the loop.
LEMMA LoopStatus ==
  ASSUME StatusInv, NEW l \in Loops, Loops = {l}, Loop(l), UNCHANGED workerVars
  PROVE  Undisturbed' /\ Told'
<1>0. /\ loop \in [Loops -> {"none", "spawned", "top", "wait", "join", "idle", "leaving", "exited"}]
      /\ run \in [Loops -> Runners] /\ run[l] \in Runners
      /\ after \in [Loops -> {"idle", "top", "leaving"}]
  BY DEF StatusInv, HaltInv, WorkerTypeOK, JobTypeOK
<1>1. /\ loop[l] = "wait" => state = "Ready" /\ ~run[l].kill /\ run[l].pc \notin {"signal", "dropped"}
      /\ loop[l] = "join" /\ after[l] = "idle" => state # "Ready"
  BY DEF StatusInv, Undisturbed
<1>2. /\ state # "Disabled" /\ ctrlChan \notin {"jobPing", "jobDisable"}
      /\ loop[l] = "spawned" => state # "Ready"
      /\ UNCHANGED <<sp, msg, known>>
  BY DEF StatusInv, HaltInv, Sole, workerVars
<1>3. SUFFICES /\ UNCHANGED managerChan
               /\ loop'[l] = "wait" => /\ state' = "Ready" /\ ~run'[l].kill
                                       /\ run'[l].pc \notin {"signal", "dropped"}
               /\ loop'[l] = "join" /\ after'[l] = "idle" => state' # "Ready"
               /\ Over(l)' => Over(l)
  <2>1. Latest' = Latest
    BY <1>2, <1>3 DEF Latest, Newest
  <2>2. Told'
    BY <1>2, <1>3, <2>1, SameLatest DEF StatusInv
  <2> QED
    BY <1>3, <2>2 DEF Undisturbed
<1> USE <1>0, <1>1, <1>2 DEF LoopAt, Recv, Over
<1>4. CASE Enter(l) \/ Leave(l) \/ Rest(l)
  BY <1>4 DEF Enter, Leave, Rest
<1>5. CASE Launch(l)
  <2>1. run'[l].pc = "select" /\ run'[l].kill = FALSE
    BY <1>5 DEF Launch, NoRun
  <2> QED
    BY <1>5, <2>1 DEF Launch
<1>6. CASE JobDone(l)
  BY <1>6 DEF JobDone
<1>7. CASE Join(l)
  BY <1>7 DEF Join
<1>8. ASSUME NEW a, NEW s, NEW n, Interrupt(l, a, s, n), n = "idle" => s # "Ready"
      PROVE  /\ UNCHANGED managerChan
             /\ loop'[l] = "wait" => /\ state' = "Ready" /\ ~run'[l].kill
                                     /\ run'[l].pc \notin {"signal", "dropped"}
             /\ loop'[l] = "join" /\ after'[l] = "idle" => state' # "Ready"
             /\ Over(l)' => Over(l)
  BY <1>8 DEF Interrupt
<1>9. CASE WaitStart(l)
  BY <1>9 DEF WaitStart
<1>10. CASE WaitDefault(l) \/ IdleDisable(l) \/ IdleDefault(l)
  BY <1>10 DEF WaitDefault, IdleDisable, IdleDefault
<1>11. CASE IdleStop(l) \/ IdleStart(l)
  BY <1>11 DEF IdleStop, IdleStart
<1>12. CASE WaitStop(l)
  BY <1>8, <1>12 DEF WaitStop
<1>13. CASE WaitDisable(l) \/ WaitHalt(l)
  BY <1>8, <1>13 DEF WaitDisable, WaitHalt
<1>14. CASE WaitRestart(l)
  BY <1>8, <1>14 DEF WaitRestart
<1> QED
  BY <1>4, <1>5, <1>6, <1>7, <1>9, <1>10, <1>11, <1>12, <1>13, <1>14, Loop(l) DEF Loop

\* The message of a send is the newest one.
LEMMA SendNewest ==
  ASSUME managerChan \in Seq(jobMessage), NEW m \in jobMessage, Send(m)
  PROVE  managerChan' # <<>> /\ Newest' = m
<1>1. /\ Len(managerChan) \in Nat /\ Len(managerChan') = Len(managerChan) + 1
      /\ managerChan'[Len(managerChan) + 1] = m /\ managerChan' # <<>>
  BY AppendProperties, LenProperties DEF Send
<1> QED
  BY <1>1 DEF Newest

\* A step of a runner that does not end it.
LEMMA RunnerStatus ==
  ASSUME StatusInv, ~Timeout, NEW l \in Loops, Loops = {l}, Runner(l), UNCHANGED workerVars
  PROVE  Undisturbed' /\ Told'
<1>0. /\ run \in [Loops -> Runners] /\ run[l] \in Runners /\ managerChan \in Seq(jobMessage)
      /\ JobTypeOK
  BY DEF StatusInv, HaltInv, WorkerTypeOK, JobTypeOK
<1>1. /\ loop[l] = "wait" => state = "Ready" /\ ~run[l].kill /\ run[l].pc \notin {"signal", "dropped"}
      /\ loop[l] = "join" /\ after[l] = "idle" => state # "Ready"
  BY DEF StatusInv, Undisturbed
<1>2. UNCHANGED <<sp, msg, known>> /\ loop[l] # "idle"
  <2>1. run[l].pc # "closed"
    BY <1>0, RunnerFrame
  <2> QED
    BY <2>1 DEF workerVars, StatusInv, HaltInv, Settled
<1>3. UNCHANGED <<state, ctrlChan, loop, after>>
  BY DEF Runner, Acquire, Bypass, Drop, PreSyncing, PreHooks, Syncing, Started, NilPanic, SyncDone,
     TimedOut, Killed, Terminate, SendSignal, PostHooks, HookFail, Report, SendResult, Close, loopVars
<1> DEFINE Fine == /\ loop[l] = "wait" => ~run'[l].kill /\ run'[l].pc \notin {"signal", "dropped"}
                   /\ run'[l].pc \in {"done", "closed"} /\ loop[l] = "wait" =>
                        \/ managerChan' # <<>> /\ Newest'.status \in {"Success", "Failed"}
                        \/ UNCHANGED managerChan /\ run[l].pc \in {"done", "closed"}
<1>4. SUFFICES Fine
  <2>1. Undisturbed'
    BY <1>1, <1>3, <1>4 DEF Undisturbed
  <2>2. ASSUME sp' \notin {"exiting", "flush", "returned"}, Over(l)' PROVE Latest' \in {"Success", "Failed"}
    <3>1. loop[l] = "wait" /\ run'[l].pc \in {"done", "closed"}
      BY <1>2, <1>3, <2>2 DEF Over
    <3>2. CASE managerChan' # <<>> /\ Newest'.status \in {"Success", "Failed"}
      BY <3>2 DEF Latest
    <3>3. CASE UNCHANGED managerChan /\ run[l].pc \in {"done", "closed"}
      <4>1. Over(l) /\ Latest' = Latest
        BY <1>2, <3>1, <3>3 DEF Over, Latest, Newest
      <4> QED
        BY <1>2, <2>2, <4>1 DEF StatusInv, Told
    <3> QED
      BY <1>4, <3>1, <3>2, <3>3
  <2>3. Told'
    BY <2>2 DEF Told
  <2> QED
    BY <2>1, <2>3
<1>5. ASSUME run'[l].kill = run[l].kill, run'[l].pc \notin {"signal", "dropped", "done", "closed"}
      PROVE  Fine
  BY <1>1, <1>5
<1>6. CASE Acquire(l)
  <2>1. run'[l] = [run[l] EXCEPT !.pc = "presync", !.holds = TRUE]
    BY <1>0, <1>6 DEF Acquire
  <2> QED
    BY <1>0, <1>5, <2>1 DEF Runners
<1>16. ASSUME NEW from, NEW to, RunAt(l, from, to), to \notin {"signal", "dropped", "done", "closed"}
       PROVE  Fine
  <2>1. run'[l] = [run[l] EXCEPT !.pc = to]
    BY <1>0, <1>16 DEF RunAt
  <2> QED
    BY <1>0, <1>5, <1>16, <2>1 DEF Runners
<1>7. CASE Drop(l)
  BY <1>0, <1>1, <1>7 DEF Drop, RunAt, Runners
<1>8. CASE Bypass(l) \/ PreSyncing(l) \/ PreHooks(l) \/ PostHooks(l) \/ Started(l)
  <2>1. \E from : \E to \in {"presync", "prehooks", "syncing", "hookfail", "report", "running"} :
           RunAt(l, from, to)
    BY <1>8 DEF Bypass, PreSyncing, PreHooks, PostHooks, Started
  <2> QED
    BY <1>16, <2>1
<1>9. CASE Syncing(l)
  <2>1. run'[l] = [run[l] EXCEPT !.pc = "await", !.sync = "spawned"]
    BY <1>0, <1>9 DEF Syncing
  <2> QED
    BY <1>0, <1>5, <2>1 DEF Runners
<1>17. CASE SyncDone(l)
  <2>1. run'[l] = [run[l] EXCEPT !.pc = "posthooks", !.result = run[l].sync, !.sync = "none"]
    BY <1>0, <1>17 DEF SyncDone
  <2> QED
    BY <1>0, <1>5, <2>1 DEF Runners
<1>18. CASE Report(l)
  <2>1. run'[l] = [run[l] EXCEPT !.pc = "send", !.again = Again(l)]
    BY <1>0, <1>18 DEF Report
  <2> QED
    BY <1>0, <1>5, <2>1 DEF Runners
<1>10. CASE NilPanic(l)
  <2>1. run' = run /\ run[l].pc = "await"
    BY <1>10 DEF NilPanic
  <2> QED
    BY <1>5, <2>1
<1>11. CASE TimedOut(l) \/ Killed(l)
  <2>1. loop[l] # "wait" /\ \E why : Terminate(l, why)
    BY <1>1, <1>11 DEF TimedOut, Killed
  <2> QED
    BY <1>0, <2>1 DEF Terminate, Runners
<1>12. CASE SendSignal(l)
  BY <1>0, <1>1, <1>12 DEF SendSignal, Runners
<1>13. CASE HookFail(l)
  <2>1. run'[l].pc = "done" /\ run'[l].kill = run[l].kill /\ Send(Message("Failed", TRUE))
    BY <1>0, <1>13 DEF HookFail, RunAt, Runners
  <2>2. Message("Failed", TRUE) \in jobMessage /\ Message("Failed", TRUE).status = "Failed"
    BY DEF Message, jobMessage
  <2>3. managerChan' # <<>> /\ Newest' = Message("Failed", TRUE)
    BY <1>0, <2>1, <2>2, SendNewest
  <2> QED
    BY <1>1, <2>1, <2>2, <2>3
<1>14. CASE SendResult(l)
  <2> DEFINE m == Message(IF run[l].result = "ok" THEN "Success" ELSE "Failed", run[l].again)
  <2>1. /\ run'[l].pc \in {"prehooks", "done"} /\ run'[l].kill = run[l].kill /\ Send(m)
        /\ run[l].again \in BOOLEAN
    BY <1>0, <1>14 DEF SendResult, Runners
  <2>2. m \in jobMessage /\ m.status \in {"Success", "Failed"}
    BY <2>1 DEF Message, jobMessage
  <2> HIDE DEF m
  <2>3. managerChan' # <<>> /\ Newest' = m
    BY <1>0, <2>1, <2>2, SendNewest
  <2> QED
    BY <1>1, <2>1, <2>2, <2>3
<1>15. CASE Close(l)
  <2>1. /\ UNCHANGED managerChan /\ run[l].pc = "done" /\ run'[l].pc = "closed" /\ ~run'[l].kill
    BY <1>0, <1>15 DEF Close, NoRun, Runners
  <2> QED
    BY <1>0, <1>1, <2>1
<1> QED
  BY <1>6, <1>7, <1>8, <1>9, <1>10, <1>11, <1>12, <1>13, <1>14, <1>15,
     <1>16, <1>17, <1>18, Runner(l) DEF Runner

\* A step that leaves the loop alone, and the messages with the manager.
LEMMA AwayStatus ==
  ASSUME StatusInv, UNCHANGED <<state, loop, after>>,
         \A l \in Loops : run'[l].pc = run[l].pc /\ run'[l].kill = run[l].kill,
         sp' \notin {"exiting", "flush", "returned"} =>
            sp \notin {"exiting", "flush", "returned"} /\ Latest' = Latest
  PROVE  Undisturbed' /\ Told'
<1>1. Undisturbed'
  BY DEF StatusInv, Undisturbed
<1>2. \A l \in Loops : Over(l)' => Over(l)
  BY DEF Over
<1> QED
  BY <1>1, <1>2, SameLatest DEF StatusInv

\* runSchedule takes the oldest message, and with it the latest if there is no
\* other; it drops it only while no run of the Ready job is over.
LEMMA TakeStatus ==
  ASSUME StatusInv, TakeMsg
  PROVE  Undisturbed' /\ Told'
<1>0. /\ managerChan \in Seq(jobMessage) /\ managerChan # <<>> /\ managerChan' = Tail(managerChan)
      /\ sp = "loop" /\ UNCHANGED <<state, loop, after, run, known>>
  BY DEF StatusInv, HaltInv, WorkerTypeOK, JobTypeOK, TakeMsg, Receive, loopVars
<1>1. Undisturbed'
  BY <1>0 DEF StatusInv, Undisturbed
<1>2. /\ Len(managerChan) \in Nat \ {0} /\ Len(managerChan') = Len(managerChan) - 1
      /\ managerChan' \in Seq(jobMessage)
      /\ \A i \in 1..Len(managerChan') : managerChan'[i] = managerChan[i + 1]
  BY <1>0, HeadTailProperties, EmptySeq
<1>3. managerChan' # <<>> => Newest' = Newest
  <2> SUFFICES ASSUME managerChan' # <<>> PROVE Newest' = Newest
    OBVIOUS
  <2>1. Len(managerChan') \in Nat \ {0}
    BY <1>2, EmptySeq
  <2>2. managerChan'[Len(managerChan')] = managerChan[Len(managerChan') + 1]
    BY <1>2, <2>1
  <2> QED
    BY <1>2, <2>2 DEF Newest
<1>4. managerChan' = <<>> => Newest = Head(managerChan)
  <2> SUFFICES ASSUME managerChan' = <<>> PROVE Newest = Head(managerChan)
    OBVIOUS
  <2>1. Len(managerChan) = 1
    BY <1>2
  <2> QED
    BY <1>0, <2>1 DEF Newest
<1>5. ASSUME NEW l \in Loops, Over(l)' PROVE Latest' \in {"Success", "Failed"}
  <2>1. Over(l) /\ state = "Ready"
    BY <1>0, <1>5 DEF Over, StatusInv, Undisturbed
  <2>2. sp' = "patch" /\ msg' = Head(managerChan)
    BY <2>1 DEF TakeMsg
  <2>3. Latest' = Latest
    BY <1>0, <1>3, <1>4, <2>2 DEF Latest
  <2> QED
    BY <1>0, <2>1, <2>3 DEF StatusInv, Told
<1> QED
  BY <1>1, <1>5 DEF Told

\* Every step keeps StatusInv.
LEMMA StatusStep ==
  ASSUME "Disabled" \notin Stored, ~Timeout, ~LostReports, NEW l \in Loops, Loops = {l},
         StatusInv, [Next]_vars
  PROVE  StatusInv'
<1>0. HaltInv' /\ run \in [Loops -> Runners]
  BY HaltStep DEF StatusInv, HaltInv, WorkerTypeOK, JobTypeOK
<1>1. SUFFICES Undisturbed' /\ Told'
  BY <1>0, <1>1 DEF StatusInv
<1>2. ASSUME UNCHANGED <<state, loop, after, run, managerChan, sp, msg, known>>
      PROVE  Undisturbed' /\ Told'
  <2>1. Latest' = Latest
    BY <1>2 DEF Latest, Newest
  <2> QED
    BY <1>2, <2>1, AwayStatus
<1>3. CASE JobStep /\ UNCHANGED workerVars
  <2>0. UNCHANGED <<sp, msg, known>>
    BY <1>3 DEF workerVars
  <2>1. CASE Provider(l) \/ WaitReturns
    <3>1. UNCHANGED <<state, loop, after, managerChan>>
      BY <2>1 DEF Provider, ProviderStart, ProviderReturn, WaitReturns, loopVars
    <3>2. \E r : run'[l] = [run[l] EXCEPT !.sync = r] \/ run'[l] = run[l]
      <4>1. CASE ProviderStart(l)
        BY <1>0, <4>1 DEF ProviderStart
      <4>2. CASE ProviderReturn(l)
        BY <1>0, <4>2 DEF ProviderReturn
      <4>3. CASE WaitReturns
        BY <1>0, <4>3 DEF WaitReturns
      <4> QED
        BY <2>1, <4>1, <4>2, <4>3 DEF Provider
    <3>3. run'[l].pc = run[l].pc /\ run'[l].kill = run[l].kill
      BY <1>0, <3>2 DEF Runners
    <3>4. Latest' = Latest
      BY <2>0, <3>1 DEF Latest, Newest
    <3> QED
      BY <2>0, <3>1, <3>3, <3>4, AwayStatus
  <2>2. CASE Release \/ ProcessExit("alive") \/ ProcessExit("killed")
    BY <1>2, <2>0, <2>2 DEF Release, ProcessExit, loopVars
  <2> QED
    BY <1>3, <2>1, <2>2, LoopStatus, RunnerStatus DEF JobStep
<1>4. CASE Http
  <2>1. UNCHANGED <<state, loop, after, run, managerChan, sp, msg, known>>
    <3>1. CASE HttpCommand
      BY <3>1 DEF HttpCommand, GoRun, jobVars, loopVars, StatusInv, HaltInv, Sole
    <3>2. CASE HttpSend
      BY <3>2 DEF HttpSend, Control
    <3> QED
      BY <1>4, <3>1, <3>2 DEF Http, HttpLock, HttpInvalid, HttpFlush, jobVars, loopVars
  <2> QED
    BY <1>2, <2>1
<1>5. CASE Schedule
  <2>1. ASSUME NEW s \in Stored, Startup(s) PROVE Undisturbed' /\ Told'
    <3>1. loop'[l] = "spawned"
      BY <2>1, WorkerAssumption DEF Startup, Boot, LoopAt, StatusInv, HaltInv, WorkerTypeOK, JobTypeOK
    <3> QED
      BY <3>1 DEF Undisturbed, Told, Over
  <2>2. CASE TakeMsg
    BY <2>2, TakeStatus
  <2>3. CASE updateStatus
    <3>1. /\ UNCHANGED <<state, loop, after, run, managerChan>> /\ sp = "patch" /\ sp' # "patch"
          /\ known'.status = msg.status
      BY <2>3 DEF updateStatus, Tell, jobVars, loopVars, StatusInv, HaltInv, WorkerTypeOK
    <3>2. Latest' = Latest
      BY <3>1 DEF Latest, Newest
    <3> QED
      BY <3>1, <3>2, AwayStatus
  <2>4. CASE AddJob \/ updateSchedInfo \/ Pop
    <3>1. /\ UNCHANGED <<state, loop, after, run, managerChan>>
          /\ sp \in {"add", "info", "loop"} /\ sp' \in {"add", "info", "loop", "fire"}
          /\ known'.status = known.status
      BY <2>4 DEF AddJob, updateSchedInfo, Pop, Tell, jobVars, loopVars, StatusInv, HaltInv, WorkerTypeOK
    <3>2. Latest' = Latest
      BY <3>1 DEF Latest, Newest
    <3> QED
      BY <3>1, <3>2, AwayStatus
  <2>5. CASE Fire
    <3>1. UNCHANGED <<state, loop, after, run, managerChan, known>> /\ sp = "fire" /\ sp' = "loop"
      BY <2>5 DEF Fire, Control
    <3>2. Latest' = Latest
      BY <3>1 DEF Latest, Newest
    <3> QED
      BY <3>1, <3>2, AwayStatus
  <2>6. CASE Exit \/ ExitLock \/ Flush \/ Return
    <3>1. UNCHANGED <<state, loop, after, run>> /\ sp' \in {"exiting", "flush", "returned"}
      BY <2>6 DEF Exit, ExitLock, Flush, Receive, Return, jobVars, loopVars
    <3> QED
      BY <3>1, AwayStatus
  <2> QED
    BY <1>5, <2>1, <2>2, <2>3, <2>4, <2>5, <2>6 DEF Schedule
<1>6. CASE Halt
  <2>1. UNCHANGED <<state, loop, after, run, managerChan, sp, msg, known>>
    BY <1>6 DEF Halt, Signal, HaltLock, HaltSend, HaltDone, Control, jobVars, loopVars
  <2> QED
    BY <1>2, <2>1
<1>7. CASE UNCHANGED vars
  BY <1>2, <1>7 DEF vars, workerVars, jobVars, loopVars
<1> QED
  BY <1>3, <1>4, <1>5, <1>6, <1>7 DEF Next

\* The manager is left with the status a run ended with, not with the one it
\* began with, whatever is stopped, started and restarted in between; for a
\* sync without a timeout (an attempt that is terminated may end without a
\* report) and reports that arrive.
THEOREM StatusSettlesHolds ==
  ASSUME "Disabled" \notin Stored, ~Timeout, ~LostReports, NEW l, Loops = {l}
  PROVE  Spec => []StatusSettles
<1>1. Init => HaltInv /\ Undisturbed /\ Told
  BY InitTypes DEF Init, JobInit, HaltInv, Settled, NoRun, Sole, Halted, Leaving, Undisturbed, Told, Over
<1>2. StatusInv /\ [Next]_vars => StatusInv'
  BY StatusStep
<1>3. StatusInv => StatusSettles
  BY DEF StatusInv, Told, Over, Latest, StatusSettles
<1> QED
  BY <1>1, <1>2, <1>3, PTL DEF Spec, StatusInv

-----------------------------------------------------------------------------
(* One plan at a time                                                      *)

\* Where the next run of a job may be in the making: in the schedule, with
\* runSchedule, as a control action, with the loop, or as a run in progress.
Places == {"sched", "runSchedule", "ctrlChan", "loop", "run"}
Pending(x) ==
  \/ x = "sched" /\ sched
  \/ x = "runSchedule" /\ (sp \in {"fire", "add"} \/ (sp = "patch" /\ msg.schedule))
  \/ x = "ctrlChan" /\ ctrlChan = "jobStart"
  \/ x = "loop" /\ state = "Ready" /\ \E l \in Loops : loop[l] \in {"spawned", "top"}
  \/ x = "run" /\ \E l \in Loops : run[l].pc \notin {"closed", "done", "dropped"}

\* ... or as a message that asks for it.
Asks(i) == managerChan[i].schedule

\* It is in one place at a time.
OnePlan ==
  /\ \A x, y \in Places : Pending(x) /\ Pending(y) => x = y
  /\ \A i \in 1..Len(managerChan) :
        Asks(i) => /\ \A x \in Places : ~Pending(x)
                   /\ \A j \in 1..Len(managerChan) : Asks(j) => i = j

\* Nobody but runSchedule starts a run, and it does so after its start-up.
OnlyPlanned ==
  /\ ctrlChan \notin {"jobRestart", "jobForceStart"}
  /\ \A l \in Loops : loop[l] = "join" => after[l] # "top"
  /\ sp = "start" => /\ ~sched /\ ctrlChan # "jobStart" /\ managerChan = <<>>
                     /\ \A l \in Loops : loop[l] = "none"

\* The inductive form of NoSelfDeadlock.
PlanInv ==
  /\ WorkerTypeOK /\ HandlerOK /\ Ordered
  /\ OnlyPlanned /\ OnePlan /\ ~qLocked

\* A step after which the run is pending in one place at most.
LEMMA PlanSingle ==
  ASSUME NEW b \in Places, \A x \in Places \ {b} : ~Pending(x)',
         \A i \in 1..Len(managerChan') : ~Asks(i)'
  PROVE  OnePlan'
  BY DEF OnePlan

\* A step that hands the plan over from a to b.
LEMMA PlanHanded ==
  ASSUME OnePlan, NEW a \in Places, Pending(a), NEW b \in Places, UNCHANGED managerChan,
         \A x \in Places \ {b} : Pending(x)' => Pending(x) /\ x # a
  PROVE  OnePlan'
<1>1. \A x \in Places \ {b} : ~Pending(x)'
  BY DEF OnePlan
<1>2. \A i \in 1..Len(managerChan') : ~Asks(i)'
  BY DEF OnePlan, Asks
<1> QED
  BY <1>1, <1>2, PlanSingle

\* A step that plans nothing new.
LEMMA PlanKept ==
  ASSUME OnePlan, UNCHANGED managerChan, \A x \in Places : Pending(x)' => Pending(x)
  PROVE  OnePlan'
  BY DEF OnePlan, Asks

\* A runner that sends a message which does not ask for the next run.
LEMMA PlanSent ==
  ASSUME OnePlan, managerChan \in Seq(jobMessage), NEW m \in jobMessage, ~m.schedule, Send(m),
         \A x \in Places : Pending(x)' => Pending(x)
  PROVE  OnePlan'
<1>1. /\ Len(managerChan) \in Nat /\ Len(managerChan') = Len(managerChan) + 1
      /\ managerChan'[Len(managerChan) + 1] = m
      /\ \A i \in 1..Len(managerChan) : managerChan'[i] = managerChan[i]
  BY AppendProperties, LenProperties DEF Send
<1>2. ASSUME NEW i \in 1..Len(managerChan'), Asks(i)' PROVE i \in 1..Len(managerChan) /\ Asks(i)
  BY <1>1, <1>2 DEF Asks
<1> QED
  BY <1>2 DEF OnePlan

\* A runner that sends its last message, which may ask for the next run.
LEMMA PlanAsked ==
  ASSUME OnePlan, managerChan \in Seq(jobMessage), NEW m \in jobMessage, Send(m),
         Pending("run"), ~Pending("run")', \A x \in Places : Pending(x)' => Pending(x)
  PROVE  OnePlan'
<1>1. /\ Len(managerChan) \in Nat /\ Len(managerChan') = Len(managerChan) + 1
      /\ \A i \in 1..Len(managerChan) : managerChan'[i] = managerChan[i]
  BY AppendProperties, LenProperties DEF Send
<1>2. "run" \in Places
  BY DEF Places
<1>3. \A x \in Places : ~Pending(x)'
  BY <1>2 DEF OnePlan
<1>4. \A i \in 1..Len(managerChan) : ~Asks(i)
  BY <1>2 DEF OnePlan
<1>5. ASSUME NEW i \in 1..Len(managerChan'), Asks(i)' PROVE i = Len(managerChan) + 1
  BY <1>1, <1>4, <1>5 DEF Asks
<1> QED
  BY <1>3, <1>5 DEF OnePlan

\* runSchedule takes a message: if it asks for the next run, that is all.
LEMMA PlanTaken ==
  ASSUME OnePlan, managerChan \in Seq(jobMessage), managerChan # <<>>,
         managerChan' = Tail(managerChan),
         \A x \in Places \ {"runSchedule"} : Pending(x)' => Pending(x),
         Pending("runSchedule")' => Head(managerChan).schedule
  PROVE  OnePlan'
<1>1. /\ Len(managerChan) \in Nat \ {0} /\ Len(managerChan') = Len(managerChan) - 1
      /\ \A i \in 1..Len(managerChan') : managerChan'[i] = managerChan[i + 1]
      /\ Head(managerChan) = managerChan[1]
  BY HeadTailProperties, EmptySeq
<1>2. ASSUME NEW i \in 1..Len(managerChan'), Asks(i)'
      PROVE  i + 1 \in 1..Len(managerChan) /\ Asks(i + 1) /\ i + 1 # 1
  BY <1>1, <1>2 DEF Asks
<1>3. 1 \in 1..Len(managerChan) /\ Head(managerChan).schedule = Asks(1) /\ "runSchedule" \in Places
  BY <1>1 DEF Asks, Places
<1>4. CASE Asks(1)
  <2>1. \A x \in Places \ {"runSchedule"} : ~Pending(x)'
    BY <1>3, <1>4 DEF OnePlan
  <2>2. \A i \in 1..Len(managerChan') : ~Asks(i)'
    BY <1>2, <1>3, <1>4 DEF OnePlan
  <2> QED
    BY <1>3, <2>1, <2>2, PlanSingle
<1>5. CASE ~Asks(1)
  <2>1. \A x \in Places : Pending(x)' => Pending(x)
    BY <1>3, <1>5
  <2>2. \A i, j \in 1..Len(managerChan') : Asks(i)' /\ Asks(j)' => i = j
    <3> SUFFICES ASSUME NEW i \in 1..Len(managerChan'), NEW j \in 1..Len(managerChan'), Asks(i)', Asks(j)'
                 PROVE  i = j
      OBVIOUS
    <3>1. i + 1 = j + 1
      BY <1>2 DEF OnePlan
    <3> QED
      BY <1>1, <3>1
  <2>3. \A i \in 1..Len(managerChan') : Asks(i)' => \A x \in Places : ~Pending(x)'
    BY <1>2, <2>1 DEF OnePlan
  <2>4. \A x, y \in Places : Pending(x)' /\ Pending(y)' => x = y
    BY <2>1 DEF OnePlan
  <2> QED
    BY <2>2, <2>3, <2>4 DEF OnePlan
<1> QED
  BY <1>4, <1>5

\* A step of the loop.
LEMMA LoopPlan ==
  ASSUME PlanInv, NEW l \in Loops, Loops = {l}, Loop(l), UNCHANGED workerVars
  PROVE  OnlyPlanned' /\ OnePlan'
<1>0. /\ loop \in [Loops -> {"none", "spawned", "top", "wait", "join", "idle", "leaving", "exited"}]
      /\ run \in [Loops -> Runners] /\ run[l] \in Runners
      /\ after \in [Loops -> {"idle", "top", "leaving"}]
      /\ UNCHANGED <<sched, sp, msg>>
  BY DEF PlanInv, WorkerTypeOK, JobTypeOK, workerVars
<1>1. /\ ctrlChan \notin {"jobRestart", "jobForceStart"}
      /\ loop[l] = "join" => after[l] # "top"
      /\ sp = "start" => loop[l] = "none"
      /\ OnePlan
  BY DEF PlanInv, OnlyPlanned
<1>2. SUFFICES /\ UNCHANGED managerChan /\ loop[l] # "none"
               /\ ctrlChan' \in {ctrlChan, "none"}
               /\ loop'[l] = "join" => after'[l] # "top"
               /\ OnePlan'
  BY <1>0, <1>1, <1>2 DEF OnlyPlanned
<1> DEFINE Frame == UNCHANGED managerChan /\ ctrlChan' \in {ctrlChan, "none"}
           Ready == state = "Ready" /\ loop[l] \in {"spawned", "top"}
           Going == run[l].pc \notin {"closed", "done", "dropped"}
<1>3. ASSUME Frame, Ready' => Ready, Going' => Going PROVE OnePlan'
  <2>1. \A x \in Places : Pending(x)' => Pending(x)
    BY <1>0, <1>3 DEF Pending, Places
  <2> QED
    BY <1>1, <1>3, <2>1, PlanKept
<1> USE <1>0, <1>1 DEF LoopAt, Recv
<1>4. CASE Enter(l)
  BY <1>3, <1>4 DEF Enter
<1>5. CASE Leave(l) \/ Rest(l) \/ JobDone(l)
  BY <1>3, <1>5 DEF Leave, Rest, JobDone
<1>6. CASE Launch(l)
  <2>1. Pending("loop") /\ {"loop", "run"} \subseteq Places
    BY <1>6 DEF Launch, Pending, Places
  <2>2. \A x \in Places \ {"run"} : Pending(x)' => Pending(x) /\ x # "loop"
    BY <1>6 DEF Launch, Pending, Places
  <2>3. OnePlan'
    BY <1>6, <2>1, <2>2, PlanHanded DEF Launch
  <2> QED
    BY <1>6, <2>3 DEF Launch
<1>7. CASE Join(l)
  <2>1. run'[l].pc = "closed"
    BY <1>7 DEF Join, Joined, NoRun
  <2> QED
    BY <1>3, <1>7, <2>1 DEF Join
<1>8. ASSUME NEW a, NEW s, NEW n, Interrupt(l, a, s, n), n # "top"
      PROVE  /\ UNCHANGED managerChan /\ loop[l] # "none" /\ ctrlChan' \in {ctrlChan, "none"}
             /\ loop'[l] = "join" => after'[l] # "top"
             /\ OnePlan'
  <2>1. run'[l].pc = run[l].pc
    BY <1>8 DEF Interrupt, Runners
  <2> QED
    BY <1>3, <1>8, <2>1 DEF Interrupt
<1>9. CASE WaitStop(l)
  BY <1>8, <1>9 DEF WaitStop
<1>10. CASE WaitDisable(l) \/ WaitHalt(l)
  BY <1>8, <1>10 DEF WaitDisable, WaitHalt
<1>11. CASE WaitRestart(l)
  BY <1>11 DEF WaitRestart, Interrupt
<1>12. CASE WaitStart(l)
  BY <1>3, <1>12 DEF WaitStart
<1>13. CASE WaitDefault(l)
  <2>1. run'[l].pc = run[l].pc
    BY <1>13 DEF WaitDefault, Runners
  <2> QED
    BY <1>3, <1>13, <2>1 DEF WaitDefault
<1>14. CASE IdleStop(l)
  BY <1>3, <1>14 DEF IdleStop
<1>15. CASE IdleDisable(l) \/ IdleDefault(l)
  BY <1>3, <1>15 DEF IdleDisable, IdleDefault
<1>16. CASE IdleStart(l)
  <2>1. ctrlChan = "jobStart" /\ ctrlChan' = "none"
    BY <1>16 DEF IdleStart
  <2>2. Pending("ctrlChan") /\ {"ctrlChan", "loop"} \subseteq Places
    BY <2>1 DEF Pending, Places
  <2>3. \A x \in Places \ {"loop"} : Pending(x)' => Pending(x) /\ x # "ctrlChan"
    BY <1>16, <2>1 DEF IdleStart, Pending, Places
  <2>4. OnePlan'
    BY <1>16, <2>2, <2>3, PlanHanded DEF IdleStart
  <2> QED
    BY <1>16, <2>1, <2>4 DEF IdleStart
<1> QED
  BY <1>4, <1>5, <1>6, <1>7, <1>9, <1>10, <1>11, <1>12, <1>13, <1>14, <1>15, <1>16, Loop(l) DEF Loop

\* A step of a runner.
LEMMA RunnerPlan ==
  ASSUME PlanInv, NEW l \in Loops, Loops = {l}, Runner(l), UNCHANGED workerVars
  PROVE  OnlyPlanned' /\ OnePlan'
<1>0. /\ run \in [Loops -> Runners] /\ run[l] \in Runners /\ managerChan \in Seq(jobMessage)
      /\ UNCHANGED <<sched, sp, msg>> /\ AsksOnce(l) /\ OnePlan
  BY DEF PlanInv, WorkerTypeOK, JobTypeOK, workerVars, Ordered
<1>1. UNCHANGED <<state, ctrlChan, loop, after>>
  BY DEF Runner, Acquire, Bypass, Drop, PreSyncing, PreHooks, Syncing, Started, NilPanic, SyncDone,
     TimedOut, Killed, Terminate, SendSignal, PostHooks, HookFail, Report, SendResult, Close, loopVars
<1>2. sp # "start"
  <2>1. run[l].pc # "closed"
    BY RunnerFrame DEF PlanInv, WorkerTypeOK
  <2> QED
    BY <2>1 DEF PlanInv, OnlyPlanned, Ordered, Settled
<1>3. OnlyPlanned'
  BY <1>0, <1>1, <1>2 DEF PlanInv, OnlyPlanned
<1> SUFFICES OnePlan'
  BY <1>3
<1> DEFINE Going == run[l].pc \notin {"closed", "done", "dropped"}
<1>4. Going \/ ~Going' => \A x \in Places : Pending(x)' => Pending(x)
  BY <1>0, <1>1 DEF Pending, Places
<1>5. ASSUME Going \/ ~Going', UNCHANGED managerChan PROVE OnePlan'
  BY <1>0, <1>4, <1>5, PlanKept
<1>6. ASSUME Going, NEW m \in jobMessage, ~m.schedule, Send(m) PROVE OnePlan'
  BY <1>0, <1>4, <1>6, PlanSent
<1>7. ASSUME Going, ~Going', NEW m \in jobMessage, Send(m) PROVE OnePlan'
  <2>1. Pending("run") /\ ~Pending("run")'
    BY <1>7 DEF Pending
  <2> QED
    BY <1>0, <1>4, <1>7, <2>1, PlanAsked
<1>8. CASE Acquire(l) \/ Bypass(l) \/ Drop(l) \/ PreHooks(l) \/ Started(l) \/ NilPanic(l)
  BY <1>5, <1>8 DEF Acquire, Bypass, Drop, PreHooks, Started, NilPanic, RunAt
<1>9. CASE SyncDone(l) \/ TimedOut(l) \/ Killed(l) \/ SendSignal(l) \/ PostHooks(l) \/ Report(l)
  BY <1>5, <1>9 DEF SyncDone, TimedOut, Killed, Terminate, SendSignal, PostHooks, Report, RunAt
<1>10. CASE PreSyncing(l)
  <2>1. Message("PreSyncing", FALSE) \in jobMessage /\ ~Message("PreSyncing", FALSE).schedule
    BY DEF Message, jobMessage
  <2> QED
    BY <1>6, <1>10, <2>1 DEF PreSyncing, RunAt
<1>11. CASE Syncing(l)
  <2>1. Message("Syncing", FALSE) \in jobMessage /\ ~Message("Syncing", FALSE).schedule
    BY DEF Message, jobMessage
  <2> QED
    BY <1>6, <1>11, <2>1 DEF Syncing
<1>12. CASE HookFail(l)
  <2>1. run[l].pc = "hookfail" /\ run'[l].pc = "done" /\ Send(Message("Failed", TRUE))
    BY <1>0, <1>12 DEF HookFail, RunAt, Runners
  <2>2. Message("Failed", TRUE) \in jobMessage
    BY DEF Message, jobMessage
  <2> QED
    BY <1>7, <2>1, <2>2
<1>13. CASE SendResult(l)
  <2> DEFINE m == Message(IF run[l].result = "ok" THEN "Success" ELSE "Failed", run[l].again)
  <2>1. run[l].pc = "send" /\ Send(m) /\ run[l].again \in BOOLEAN
    BY <1>0, <1>13 DEF SendResult, Runners
  <2>2. m \in jobMessage /\ m.schedule = run[l].again
    BY <2>1 DEF Message, jobMessage
  <2> HIDE DEF m
  <2>3. CASE Retries(l)
    <3>1. run[l].result = "err" /\ run[l].retry # Retry - 1
      BY <1>0, <2>3, JobAssumption DEF Retries, Runners
    <3>2. ~m.schedule
      BY <1>0, <2>1, <2>2, <3>1 DEF AsksOnce
    <3> QED
      BY <1>6, <2>1, <2>2, <3>2
  <2>4. CASE ~Retries(l)
    <3>1. run'[l].pc = "done"
      BY <1>0, <1>13, <2>4 DEF SendResult, Runners
    <3> QED
      BY <1>7, <2>1, <2>2, <3>1
  <2> QED
    BY <2>3, <2>4
<1>14. CASE Close(l)
  <2>1. UNCHANGED managerChan /\ run'[l].pc = "closed"
    BY <1>0, <1>14 DEF Close, NoRun
  <2> QED
    BY <1>5, <2>1
<1> QED
  BY <1>8, <1>9, <1>10, <1>11, <1>12, <1>13, <1>14, Runner(l) DEF Runner

\* A step that leaves the loop, the runs and the messages alone.
LEMMA AwayPlan ==
  ASSUME PlanInv, UNCHANGED <<state, loop, after, managerChan>>,
         \A l \in Loops : run'[l].pc = run[l].pc, ctrlChan' \in {ctrlChan, "jobStop", "jobHalt"},
         sched' => sched, sp' = sp \/ (sp \notin {"start", "patch"} /\ sp' \notin {"start", "patch", "add", "fire"}),
         UNCHANGED msg
  PROVE  OnlyPlanned' /\ OnePlan'
<1>1. \A x \in Places : Pending(x)' => Pending(x)
  BY DEF Pending, Places
<1>2. OnePlan'
  BY <1>1, PlanKept DEF PlanInv
<1>3. OnlyPlanned'
  BY DEF PlanInv, OnlyPlanned
<1> QED
  BY <1>2, <1>3

\* Every step keeps PlanInv.
LEMMA PlanStep ==
  ASSUME Commands \subseteq {"Stop", "Ping"}, NEW l \in Loops, Loops = {l}, PlanInv, [Next]_vars
  PROVE  PlanInv'
<1>0. /\ WorkerTypeOK' /\ HandlerOK' /\ Ordered'
      /\ run \in [Loops -> Runners] /\ run[l] \in Runners /\ managerChan \in Seq(jobMessage)
      /\ msg \in jobMessage /\ JobTypeOK /\ ~qLocked
  BY WorkerTypeStep, HandlerStep, OrderedStep, StepMaps DEF PlanInv, WorkerTypeOK, JobTypeOK
<1>1. SUFFICES OnlyPlanned' /\ OnePlan' /\ ~qLocked'
  BY <1>0, <1>1 DEF PlanInv
<1>2. CASE JobStep /\ UNCHANGED workerVars
  <2>0. UNCHANGED <<sched, sp, msg, qLocked>>
    BY <1>2 DEF workerVars
  <2>1. CASE Provider(l) \/ WaitReturns
    <3>1. UNCHANGED <<state, loop, after, managerChan, ctrlChan>>
      BY <2>1 DEF Provider, ProviderStart, ProviderReturn, WaitReturns, loopVars
    <3> QED
      BY <1>0, <2>0, <2>1, <3>1, AwayPlan, ProviderFrame
  <2>2. CASE Release \/ ProcessExit("alive") \/ ProcessExit("killed")
    BY <1>0, <2>0, <2>2, AwayPlan DEF Release, ProcessExit, loopVars
  <2> QED
    BY <1>0, <1>2, <2>0, <2>1, <2>2, LoopPlan, RunnerPlan DEF JobStep
<1>3. CASE Http
  <2>1. /\ UNCHANGED <<state, loop, after, managerChan, run, sp, msg, qLocked>>
        /\ ctrlChan' \in {ctrlChan, "jobStop"} /\ (sched' => sched)
    <3>1. CASE HttpCommand
      <4>1. http.cmd \in {"Stop", "Ping"}
        BY <3>1 DEF HttpCommand, PlanInv, HandlerOK
      <4> QED
        BY <3>1, <4>1 DEF HttpCommand, jobVars, loopVars
    <3>2. CASE HttpSend
      <4>1. http.cmd = "Stop"
        BY <3>2 DEF HttpSend, PlanInv, HandlerOK
      <4> QED
        BY <3>2, <4>1 DEF HttpSend, Control, Action
    <3> QED
      BY <1>3, <3>1, <3>2 DEF Http, HttpLock, HttpInvalid, HttpFlush, jobVars, loopVars
  <2> QED
    BY <1>0, <2>1, AwayPlan
<1>4. CASE Schedule
  <2>0. OnePlan /\ OnlyPlanned
    BY DEF PlanInv
  <2>1. ASSUME NEW s \in Stored, Startup(s) PROVE OnlyPlanned' /\ OnePlan' /\ ~qLocked'
    <3>1. /\ sp = "start" /\ sp' = "info" /\ UNCHANGED <<ctrlChan, after, managerChan, run, qLocked, msg>>
          /\ loop'[l] \in {"none", "spawned"} /\ state' = s /\ s # "Ready"
      BY <2>1, WorkerAssumption DEF Startup, Boot, LoopAt, PlanInv, WorkerTypeOK, JobTypeOK
    <3>2. managerChan = <<>> /\ ctrlChan # "jobStart" /\ run[l].pc = "closed"
      BY <2>0, <3>1 DEF OnlyPlanned, PlanInv, Ordered, Settled
    <3>3. "sched" \in Places /\ \A x \in Places \ {"sched"} : ~Pending(x)'
      BY <3>1, <3>2 DEF Pending, Places
    <3>4. \A i \in 1..Len(managerChan') : ~Asks(i)'
      BY <3>1, <3>2
    <3>5. OnePlan'
      BY <3>3, <3>4, PlanSingle
    <3> QED
      BY <1>0, <2>0, <3>1, <3>5 DEF OnlyPlanned
  <2>2. CASE TakeMsg
    <3>1. /\ sp = "loop" /\ sp' \in {"loop", "patch"} /\ managerChan # <<>>
          /\ managerChan' = Tail(managerChan)
          /\ UNCHANGED <<state, loop, after, run, ctrlChan, sched, qLocked>>
          /\ sp' = "patch" => msg' = Head(managerChan)
      BY <2>2 DEF TakeMsg, Receive, loopVars
    <3>2. /\ \A x \in Places \ {"runSchedule"} : Pending(x)' => Pending(x)
          /\ Pending("runSchedule")' => Head(managerChan).schedule
      BY <3>1 DEF Pending, Places
    <3>3. OnePlan'
      BY <1>0, <2>0, <3>1, <3>2, PlanTaken
    <3> QED
      BY <1>0, <2>0, <3>1, <3>3 DEF OnlyPlanned
  <2>3. CASE updateStatus
    <3>1. /\ UNCHANGED <<state, loop, after, run, ctrlChan, managerChan, sched, qLocked>>
          /\ sp = "patch" /\ sp' = IF msg.schedule THEN "add" ELSE "info"
      BY <2>3 DEF updateStatus, jobVars, loopVars
    <3>2. \A x \in Places : Pending(x)' => Pending(x)
      BY <3>1 DEF Pending, Places
    <3>3. OnePlan'
      BY <2>0, <3>1, <3>2, PlanKept
    <3> QED
      BY <1>0, <2>0, <3>1, <3>3 DEF OnlyPlanned
  <2>4. CASE AddJob
    <3>1. /\ UNCHANGED <<state, loop, after, run, ctrlChan, managerChan, msg>> /\ sp = "add"
          /\ qLocked' = sched /\ sp' = IF sched THEN sp ELSE "info"
      BY <2>4 DEF AddJob, jobVars, loopVars
    <3>2. Pending("runSchedule") /\ {"sched", "runSchedule"} \subseteq Places
      BY <3>1 DEF Pending, Places
    <3>3. ~sched
      <4>1. sched => Pending("sched")
        BY DEF Pending
      <4> QED
        BY <2>0, <3>2, <4>1 DEF OnePlan
    <3>4. \A x \in Places \ {"sched"} : Pending(x)' => Pending(x) /\ x # "runSchedule"
      BY <3>1, <3>3 DEF Pending, Places
    <3>5. OnePlan'
      BY <2>0, <3>1, <3>2, <3>4, PlanHanded
    <3> QED
      BY <2>0, <3>1, <3>3, <3>5 DEF OnlyPlanned
  <2>5. CASE Pop
    <3>1. /\ UNCHANGED <<state, loop, after, run, ctrlChan, managerChan, msg, qLocked>>
          /\ sp = "loop" /\ sp' = "fire" /\ sched /\ ~sched'
      BY <2>5 DEF Pop, jobVars, loopVars
    <3>2. Pending("sched") /\ {"sched", "runSchedule"} \subseteq Places
      BY <3>1 DEF Pending, Places
    <3>3. \A x \in Places \ {"runSchedule"} : Pending(x)' => Pending(x) /\ x # "sched"
      BY <3>1 DEF Pending, Places
    <3>4. OnePlan'
      BY <2>0, <3>1, <3>2, <3>3, PlanHanded
    <3> QED
      BY <1>0, <2>0, <3>1, <3>4 DEF OnlyPlanned
  <2>6. CASE Fire
    <3>1. /\ UNCHANGED <<state, loop, after, run, managerChan, msg, qLocked, sched>>
          /\ sp = "fire" /\ sp' = "loop" /\ ctrlChan' = "jobStart"
      BY <2>6 DEF Fire, Control
    <3>2. Pending("runSchedule") /\ {"ctrlChan", "runSchedule"} \subseteq Places
      BY <3>1 DEF Pending, Places
    <3>3. \A x \in Places \ {"ctrlChan"} : Pending(x)' => Pending(x) /\ x # "runSchedule"
      BY <3>1 DEF Pending, Places
    <3>4. OnePlan'
      BY <2>0, <3>1, <3>2, <3>3, PlanHanded
    <3> QED
      BY <1>0, <2>0, <3>1, <3>4 DEF OnlyPlanned
  <2>7. CASE updateSchedInfo \/ Exit \/ ExitLock \/ Return
    <3>1. /\ UNCHANGED <<state, loop, after, run, ctrlChan, managerChan, msg, qLocked, sched>>
          /\ sp \notin {"start", "patch"} /\ sp' \notin {"start", "patch", "add", "fire"}
      BY <2>7 DEF updateSchedInfo, Exit, ExitLock, Return, jobVars, loopVars
    <3> QED
      BY <1>0, <3>1, AwayPlan
  <2>8. CASE Flush
    <3>1. /\ sp = "flush" /\ sp' = sp /\ managerChan # <<>> /\ managerChan' = Tail(managerChan)
          /\ UNCHANGED <<state, loop, after, run, ctrlChan, sched, qLocked, msg>>
      BY <2>8 DEF Flush, Receive, loopVars
    <3>2. /\ \A x \in Places \ {"runSchedule"} : Pending(x)' => Pending(x)
          /\ ~Pending("runSchedule")'
      BY <3>1 DEF Pending, Places
    <3>3. OnePlan'
      BY <1>0, <2>0, <3>1, <3>2, PlanTaken
    <3> QED
      BY <1>0, <2>0, <3>1, <3>3 DEF OnlyPlanned
  <2> QED
    BY <1>4, <2>1, <2>2, <2>3, <2>4, <2>5, <2>6, <2>7, <2>8 DEF Schedule
<1>5. CASE Halt
  <2>1. /\ UNCHANGED <<state, loop, after, run, managerChan, sp, msg, sched, qLocked>>
        /\ ctrlChan' \in {ctrlChan, "jobHalt"}
    BY <1>5 DEF Halt, Signal, HaltLock, HaltSend, HaltDone, Control, jobVars, loopVars
  <2> QED
    BY <1>0, <2>1, AwayPlan
<1>6. CASE UNCHANGED vars
  BY <1>0, <1>6, AwayPlan DEF vars, workerVars, jobVars, loopVars
<1> QED
  BY <1>2, <1>3, <1>4, <1>5, <1>6 DEF Next

\* As long as clients only stop and ping the job, a run is planned in one place
\* at a time, so AddJob never finds one planned and never locks the mutex of
\* the schedule twice.
THEOREM NoSelfDeadlockHolds ==
  ASSUME Commands \subseteq {"Stop", "Ping"}, NEW l, Loops = {l}
  PROVE  Spec => []NoSelfDeadlock
<1>1. Init => PlanInv
  <2> SUFFICES ASSUME Init PROVE PlanInv
    OBVIOUS
  <2>1. WorkerTypeOK /\ HandlerOK
    BY InitTypes
  <2>2. managerChan = <<>> /\ loop[l] = "none" /\ run[l] = NoRun /\ ~sched /\ sp = "start"
        /\ ctrlChan = "none" /\ state = "None" /\ ~qLocked
    BY DEF Init, JobInit
  <2>3. Ordered
    BY <2>2 DEF Ordered, Settled, MessageOrder, AsksOnce, NoRun
  <2>4. OnlyPlanned
    BY <2>2 DEF OnlyPlanned
  <2>5. OnePlan
    BY <2>2 DEF OnePlan, Pending, Places, NoRun
  <2> QED
    BY <2>1, <2>2, <2>3, <2>4, <2>5 DEF PlanInv
<1>2. PlanInv /\ [Next]_vars => PlanInv'
  BY PlanStep
<1>3. PlanInv => NoSelfDeadlock
  BY DEF PlanInv, NoSelfDeadlock
<1> QED
  BY <1>1, <1>2, <1>3, PTL DEF Spec
=============================================================================
