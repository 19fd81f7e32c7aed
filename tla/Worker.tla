------------------------------- MODULE Worker -------------------------------
(***************************************************************************)
(* A kubesync worker (worker/worker.go, worker/schedule.go): the command   *)
(* handler of its HTTP server, the runSchedule loop and Halt, around one   *)
(* mirror job (module MirrorJob).                                          *)
(*                                                                         *)
(* The handler and Halt serialise on the mutex w.L.  runSchedule takes w.L *)
(* only at start-up and at the end; in between it shares with the handler  *)
(* the schedule, which has a mutex of its own, and with the job its        *)
(* channels and its state.                                                 *)
(***************************************************************************)
EXTENDS MirrorJob

CONSTANTS
  Commands,     \* the commands that clients send
  Stored,       \* the states that the status stored in the manager may give
  MaxSignals,   \* how many SIGINT/SIGTERM the worker gets
  LostReports   \* whether requests to the manager may fail

\* what a request may be decoded to: any verb without a text of its own, Update
\* included, is taken for Start
AllCommands == {"Start", "ForceStart", "Restart", "Stop", "Ping"}
Action == [Start |-> "jobStart", ForceStart |-> "jobForceStart",
           Restart |-> "jobRestart", Stop |-> "jobStop"]

ASSUME WorkerAssumption ==
  /\ Commands \subseteq AllCommands
  /\ Stored \subseteq {"None", "Paused", "Disabled"}
  /\ MaxSignals \in Nat
  /\ LostReports \in BOOLEAN
  /\ {"jobStart", "jobHalt"} \cup {Action[c] : c \in Commands \ {"Ping"}} \subseteq Controls

VARIABLES
  L,          \* who holds w.L, or "free"
  sched,      \* schedule.sched
  qLocked,    \* the schedule's mutex is held for good
  sp,         \* where runSchedule is
  msg,        \* the message runSchedule works on
  http,       \* the command handler that holds w.L
  hp,         \* where Halt is
  signals,    \* signals received
  exit,       \* w.exit is closed
  known       \* what the manager was told: the status, and if a run is planned

haltVars == <<hp, signals, exit>>
workerVars == <<L, sched, qLocked, sp, msg, http, haltVars, known>>
vars == <<jobVars, workerVars>>

NoMsg == Message("PreSyncing", FALSE)
NoHandler == [pc |-> "none", cmd |-> "Ping"]

\* The variables of the worker and of its job have their types.
WorkerTypeOK ==
  /\ JobTypeOK
  /\ L \in {"free", "http", "halt", "schedule"}
  /\ sched \in BOOLEAN
  /\ qLocked \in BOOLEAN
  /\ sp \in {"start", "loop", "patch", "add", "info", "fire", "exiting", "flush",
             "returned"}
  /\ msg \in jobMessage
  /\ http \in [pc : {"none", "bound", "flushed", "send"}, cmd : AllCommands]
  /\ hp \in {"none", "lock", "send", "wait", "done", "panic"}
  /\ signals \in 0..MaxSignals
  /\ exit \in BOOLEAN
  /\ known \in [status : {"None", "PreSyncing", "Syncing", "Success", "Failed"},
                scheduled : BOOLEAN]

\* NewTUNASyncWorker, registerWorker, go runHTTPServer
Init ==
  /\ JobInit
  /\ L = "free"
  /\ sched = FALSE
  /\ qLocked = FALSE
  /\ sp = "start"
  /\ msg = NoMsg
  /\ http = NoHandler
  /\ hp = "none"
  /\ signals = 0
  /\ exit = FALSE
  /\ known = [status |-> "None", scheduled |-> FALSE]

\* a PATCH or POST to the manager, which may fail without a trace
Tell(k) == known' = k \/ (LostReports /\ UNCHANGED known)

-----------------------------------------------------------------------------
(* The handler of POST /                                                   *)

HttpLock(c) ==
  /\ L = "free"
  /\ L' = "http"
  /\ http' = [pc |-> "bound", cmd |-> c]
  /\ UNCHANGED <<jobVars, sched, qLocked, sp, msg, haltVars, known>>

\* the body is no command: answered with an error
HttpInvalid ==
  /\ http.pc = "bound"
  /\ L' = "free"
  /\ http' = NoHandler
  /\ UNCHANGED <<jobVars, sched, qLocked, sp, msg, haltVars, known>>

\* schedule.Remove(), whatever the command
HttpFlush ==
  /\ http.pc = "bound"
  /\ ~qLocked
  /\ sched' = FALSE
  /\ http' = [http EXCEPT !.pc = "flushed"]
  /\ UNCHANGED <<jobVars, L, qLocked, sp, msg, haltVars, known>>

AnsweredPing(c) == c = "Ping"

\* the commands that send the job nothing
Answered(c) == c = "Ping" \/ (c = "Stop" /\ state = "Disabled")

\* go job.Run for a disabled job that is to start
HttpCommand ==
  /\ http.pc = "flushed"
  /\ IF http.cmd \in {"Start", "ForceStart", "Restart"} /\ state = "Disabled"
     THEN \E l \in Loops : GoRun(l)
     ELSE UNCHANGED jobVars
  /\ IF Answered(http.cmd)
     THEN L' = "free" /\ http' = NoHandler
     ELSE UNCHANGED L /\ http' = [http EXCEPT !.pc = "send"]
  /\ UNCHANGED <<sched, qLocked, sp, msg, haltVars, known>>

HttpSend ==
  /\ http.pc = "send"
  /\ Control(Action[http.cmd])
  /\ L' = "free"
  /\ http' = NoHandler
  /\ UNCHANGED <<sched, qLocked, sp, msg, haltVars, known>>

-----------------------------------------------------------------------------
(* runSchedule                                                             *)

\* under w.L: fetchJobStatus, SetState, go job.Run, AddJob
Startup(s) ==
  /\ sp = "start"
  /\ L = "free"
  /\ Boot(s)
  /\ sched' = (s = "None")
  /\ sp' = "info"
  /\ UNCHANGED <<L, qLocked, msg, http, haltVars, known>>

\* a message from the job; it is dropped unless the job is Ready or Halting
TakeMsg ==
  /\ sp = "loop"
  /\ Receive
  /\ IF state \in {"Ready", "Halting"}
     THEN msg' = Head(managerChan) /\ sp' = "patch"
     ELSE UNCHANGED <<msg, sp>>
  /\ UNCHANGED <<L, sched, qLocked, http, haltVars, known>>

updateStatus ==
  /\ sp = "patch"
  /\ Tell([known EXCEPT !.status = msg.status])
  /\ sp' = IF msg.schedule THEN "add" ELSE "info"
  /\ msg' = NoMsg
  /\ UNCHANGED <<jobVars, L, sched, qLocked, http, haltVars>>

\* AddJob locks the mutex; if a run is planned already it calls Remove, which
\* locks the same mutex again
AddJob ==
  /\ sp = "add"
  /\ ~qLocked
  /\ qLocked' = sched
  /\ sched' = TRUE
  /\ sp' = IF sched THEN sp ELSE "info"
  /\ UNCHANGED <<jobVars, L, msg, http, haltVars, known>>

updateSchedInfo ==
  /\ sp = "info"
  /\ Tell([known EXCEPT !.scheduled = sched])
  /\ sp' = "loop"
  /\ UNCHANGED <<jobVars, L, sched, qLocked, msg, http, haltVars>>

PopKeepsSched ==
  /\ sp = "loop"
  /\ sched
  /\ sp' = "fire"
  /\ UNCHANGED <<jobVars, L, sched, qLocked, msg, http, haltVars, known>>

\* a tick finds the planned run due
Pop ==
  /\ sp = "loop"
  /\ sched
  /\ sched' = FALSE
  /\ sp' = "fire"
  /\ UNCHANGED <<jobVars, L, qLocked, msg, http, haltVars, known>>

Fire ==
  /\ sp = "fire"
  /\ Control("jobStart")
  /\ sp' = "loop"
  /\ UNCHANGED <<L, sched, qLocked, msg, http, haltVars, known>>

Exit ==
  /\ sp = "loop"
  /\ exit
  /\ sp' = "exiting"
  /\ UNCHANGED <<jobVars, L, sched, qLocked, msg, http, haltVars, known>>

ExitLock ==
  /\ sp = "exiting"
  /\ L = "free"
  /\ L' = "schedule"
  /\ sp' = "flush"
  /\ UNCHANGED <<jobVars, sched, qLocked, msg, http, haltVars, known>>

Flush ==
  /\ sp = "flush"
  /\ Receive
  /\ IF Head(managerChan).status \in {"Failed", "Success"}
     THEN Tell([known EXCEPT !.status = Head(managerChan).status])
     ELSE UNCHANGED known
  /\ UNCHANGED <<L, sched, qLocked, sp, msg, http, haltVars>>

\* runSchedule returns, and with it main
Return ==
  /\ sp = "flush"
  /\ managerChan = <<>>
  /\ sp' = "returned"
  /\ L' = "free"
  /\ UNCHANGED <<jobVars, sched, qLocked, msg, http, haltVars, known>>

-----------------------------------------------------------------------------
(* Halt, called by the signal goroutine for one signal after the other     *)

Signal ==
  /\ hp \in {"none", "done"}
  /\ signals < MaxSignals
  /\ signals' = signals + 1
  /\ hp' = "lock"
  /\ UNCHANGED <<jobVars, L, sched, qLocked, sp, msg, http, exit, known>>

HaltLock ==
  /\ hp = "lock"
  /\ L = "free"
  /\ L' = "halt"
  /\ hp' = "send"
  /\ UNCHANGED <<jobVars, sched, qLocked, sp, msg, http, signals, exit, known>>

HaltSendOver ==
  /\ hp = "send"
  /\ ctrlChan' = "jobHalt"
  /\ hp' = "wait"
  /\ UNCHANGED <<state, loop, after, disabled, managerChan, tokens, run, proc, crashed>>
  /\ UNCHANGED <<L, sched, qLocked, sp, msg, http, signals, exit, known>>

HaltSend ==
  /\ hp = "send"
  /\ IF state = "Disabled" THEN UNCHANGED jobVars ELSE Control("jobHalt")
  /\ hp' = "wait"
  /\ UNCHANGED <<L, sched, qLocked, sp, msg, http, signals, exit, known>>

\* the counter of jobsDone: Add is called by the goroutine itself
jobsDone == \A l \in Loops : loop[l] \in {"none", "spawned", "exited"}

\* jobsDone.Wait() returns; closing w.exit a second time panics
HaltDone ==
  /\ hp = "wait"
  /\ jobsDone
  /\ L' = "free"
  /\ hp' = IF exit THEN "panic" ELSE "done"
  /\ exit' = TRUE
  /\ UNCHANGED <<jobVars, sched, qLocked, sp, msg, http, signals, known>>

-----------------------------------------------------------------------------
Alive == ~crashed /\ sp # "returned" /\ hp # "panic"

Http ==
  \/ \E c \in Commands : HttpLock(c)
  \/ HttpInvalid \/ HttpFlush \/ HttpCommand \/ HttpSend
Schedule ==
  \/ \E s \in Stored : Startup(s)
  \/ TakeMsg \/ updateStatus \/ AddJob \/ updateSchedInfo \/ Pop \/ Fire
  \/ Exit \/ ExitLock \/ Flush \/ Return
Halt == Signal \/ HaltLock \/ HaltSend \/ HaltDone

Next == Alive /\ ((JobStep /\ UNCHANGED workerVars) \/ Http \/ Schedule \/ Halt)

Spec == Init /\ [][Next]_vars
\* The goroutines run on; sync.Mutex hands w.L to a goroutine that keeps
\* waiting for it, and a channel serves blocked senders in turn.  Nothing makes
\* clients send commands, signals arrive, or an unsupervised sync end.
Fairness ==
  /\ \A l \in Loops : /\ WF_vars(Alive /\ Loop(l) /\ UNCHANGED workerVars)
                      /\ WF_vars(Alive /\ Runner(l) /\ UNCHANGED workerVars)
                      /\ WF_vars(Alive /\ Provider(l) /\ UNCHANGED workerVars)
  /\ WF_vars(Alive /\ Release /\ UNCHANGED workerVars)
  /\ WF_vars(Alive /\ WaitReturns /\ UNCHANGED workerVars)
  /\ WF_vars(Alive /\ ProcessExit("killed") /\ UNCHANGED workerVars)
  /\ WF_vars(Alive /\ (HttpInvalid \/ HttpFlush \/ HttpCommand)) /\ SF_vars(Alive /\ HttpSend)
  /\ WF_vars(Alive /\ Schedule) /\ SF_vars(Alive /\ (Fire \/ Exit \/ ExitLock))
  /\ WF_vars(Alive /\ HaltDone) /\ SF_vars(Alive /\ (HaltLock \/ HaltSend))

FairSpec == Spec /\ Fairness

\* The interval is a minute or more, so that no planned run is due while the
\* run that asked for it has yet to close jobDone or the loop to notice.
WindingDown(l) == loop[l] = "wait" /\ run[l].pc \in {"done", "closed"}
TimelyNext == Next /\ (Pop => \A l \in Loops : ~WindingDown(l))
LiveSpec == Init /\ [][TimelyNext]_vars /\ Fairness

-----------------------------------------------------------------------------
(* Properties                                                              *)

\* AddJob never finds a run planned: its Remove would lock the schedule's
\* mutex a second time and stop runSchedule for good.
NoSelfDeadlock == ~qLocked

\* Once a Ready job is idle again and runSchedule has handled its messages, the
\* manager has been told how the run ended, and not only that it started.
StatusSettles ==
  (/\ state = "Ready" /\ managerChan = <<>> /\ sp = "loop"
   /\ \A l \in Loops : loop[l] = "idle")
     => known.status \notin {"PreSyncing", "Syncing"}

\* When Halt closes w.exit, after jobsDone.Wait(), no run of the job is in
\* progress, and none begins afterwards.
HaltWaits == exit => \A l \in Loops : run[l].pc = "closed"

\* A signal to a worker that has started up makes it terminate: Halt stops the
\* job and closes w.exit, and runSchedule flushes the messages and returns.
HaltCompletes == (hp = "lock" /\ sp # "start") ~> ~Alive

\* A command taken up by a worker that has started up is answered: the handler
\* of POST / does not stay blocked on ctrlChan or on the schedule.
CommandsServed == (http.pc # "none" /\ sp # "start") ~> (http.pc = "none" \/ ~Alive)

\* A job that is neither paused nor disabled is planned to run again: its next
\* run is always in the schedule of runSchedule sooner or later.
StaysPlanned == (state \in {"None", "Ready"} /\ sp # "start") ~> (sched \/ ~Alive)

\* every sync ends by itself
SyncsEnd == WF_vars(Alive /\ ProcessExit("alive") /\ UNCHANGED workerVars)

\* The same for a worker whose syncs end, as long as no command flushes the
\* schedule.
KeepsSyncing == SyncsEnd /\ [](http.pc = "none") => StaysPlanned
=============================================================================
