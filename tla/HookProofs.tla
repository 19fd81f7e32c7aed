----------------------------- MODULE HookProofs -----------------------------
(***************************************************************************)
(* Theorems about the hooks around the attempts of SyncRun: the layers of  *)
(* the provider's context, the btrfs snapshot, and the types.              *)
(***************************************************************************)
EXTENDS SyncRunProofs

\* The hook phase that is next, and the layers, for a runner at pc: a run
\* starts with no layer, the log limiter comes first in the pre-exec phase
\* and last in the post phase.
HookAtPc(pc) ==
  /\ pc \in {"select", "dropped", "presync", "closed"} => hook = FirstHook("preJob")
  /\ pc = "prehooks" => \/ hook.phase = "preJob" /\ layers = 0
                        \/ hook.phase = "preExec" /\ layers = IF hook.i = 1 THEN 0 ELSE 1
  /\ pc \in {"syncing", "await", "running", "signal"} => hook = FirstHook("post") /\ layers = 1
  /\ pc = "posthooks" => hook.phase = "post" /\ layers = IF hook.i = Len(Hooks) + 1 THEN 0 ELSE 1
  /\ pc \in {"report", "send"} => hook = FirstHook("preExec") /\ layers = 0

HookOK ==
  /\ hook \in [phase : {"preJob", "preExec", "post"}, i : 1..Len(Hooks) + 1]
  /\ layers \in Nat
  /\ \A l \in Loops : HookAtPc(run[l].pc)

\* No process runs once the sync of the attempt is over; Terminate ends an
\* attempt with an error.
QuietOK ==
  /\ snapshot = "quiet"
  /\ \A l \in Loops :
       /\ run[l].sync \in {"finishing", "ok"} => Writing = {}
       /\ run[l].pc = "posthooks" /\ run[l].result = "ok" => Writing = {}
       /\ run[l].pc = "signal" => run[l].result # "ok"

\* Terminate has the mutex only from its check of isRunning to its last signal.
LockOK ==
  /\ cmd \in Procs \cup {<<>>}
  /\ fd \in Calls \cup {"nil"}
  /\ lock = "term" => term \/ \E l \in Loops : run[l].pc = "signal"

\* The inductive invariant.
HookInv == SyncInv /\ HookOK /\ QuietOK /\ LockOK

-----------------------------------------------------------------------------
(* What the steps outside of the hooks do to a runner                      *)

Outside == {"select", "dropped", "presync", "closed"}

\* The loop launches a run, forgets one that never got in, or closes kill.
LEMMA LoopFrame ==
  ASSUME SyncInv, NEW l \in Loops, Job!Loop(l), NEW k \in Loops
  PROVE  \/ /\ run'[k].pc = run[k].pc /\ run'[k].sync = run[k].sync
            /\ run'[k].result = run[k].result
         \/ /\ run[k].pc \in Outside /\ run'[k].pc \in Outside
            /\ run'[k].sync \in {run[k].sync, "none"}
<1> DEFINE Same == /\ run'[k].pc = run[k].pc /\ run'[k].sync = run[k].sync
                   /\ run'[k].result = run[k].result
           Away == /\ run[k].pc \in Outside /\ run'[k].pc \in Outside
                   /\ run'[k].sync \in {run[k].sync, "none"}
<1>0. /\ run \in [Loops -> RunnerType] /\ run[l] \in RunnerType
      /\ loop[l] \in {"none", "spawned", "top", "idle"} => run[l].pc = "closed"
  BY DEF SyncInv, Typed, RunOK
<1>1. CASE Job!Launch(l)
  <2>1. /\ run' = [run EXCEPT ![l] = [Job!NoRun EXCEPT !.pc = "select"]] /\ run[l].pc = "closed"
    BY <1>0, <1>1 DEF Job!Launch, Job!LoopAt
  <2>2. [Job!NoRun EXCEPT !.pc = "select"].pc = "select" /\ [Job!NoRun EXCEPT !.pc = "select"].sync = "none"
    BY DEF Job!NoRun
  <2>3. k = l => Away
    BY <1>0, <2>1, <2>2 DEF Outside
  <2> QED
    BY <1>0, <2>1, <2>3
<1>2. CASE Job!Join(l)
  <2>1. /\ run' = [run EXCEPT ![l] = IF run[l].pc = "dropped" THEN Job!NoRun ELSE run[l]]
        /\ run[l].pc \in {"closed", "dropped"}
    BY <1>2 DEF Job!Join, Job!Joined
  <2>2. Job!NoRun.pc = "closed" /\ Job!NoRun.sync = "none"
    BY DEF Job!NoRun
  <2>3. k = l => Away
    BY <1>0, <2>1, <2>2 DEF Outside
  <2> QED
    BY <1>0, <2>1, <2>3
<1>3. ASSUME run' = [run EXCEPT ![l].kill = TRUE] PROVE Same
  <2>1. /\ [run[l] EXCEPT !.kill = TRUE].pc = run[l].pc /\ [run[l] EXCEPT !.kill = TRUE].sync = run[l].sync
        /\ [run[l] EXCEPT !.kill = TRUE].result = run[l].result
    BY <1>0 DEF RunnerType
  <2>2. run' = [run EXCEPT ![l] = [run[l] EXCEPT !.kill = TRUE]]
    BY <1>0, <1>3
  <2> QED
    BY <1>0, <2>1, <2>2
<1>4. ASSUME NEW a, NEW s, NEW n, Job!Interrupt(l, a, s, n) PROVE Same
  BY <1>3, <1>4 DEF Job!Interrupt
<1>5. CASE Job!WaitDefault(l)
  BY <1>3, <1>5 DEF Job!WaitDefault
<1>6. CASE Job!Enter(l) \/ Job!Leave(l) \/ Job!Rest(l) \/ Job!JobDone(l) \/ Job!WaitStart(l)
             \/ Job!IdleStop(l) \/ Job!IdleDisable(l) \/ Job!IdleStart(l) \/ Job!IdleDefault(l)
  BY <1>6 DEF Job!Enter, Job!Leave, Job!Rest, Job!JobDone, Job!WaitStart, Job!IdleStop, Job!IdleDisable,
     Job!IdleStart, Job!IdleDefault
<1> QED
  BY <1>1, <1>2, <1>4, <1>5, <1>6
     DEF Job!Loop, Job!WaitStop, Job!WaitDisable, Job!WaitRestart, Job!WaitHalt

\* provider.Run, the processes, SIGKILL, the semaphore and the rest of the
\* worker leave every runner in its place, and hooks and layers alone.
LEMMA ProviderFrame ==
  ASSUME SyncInv,
         \/ \E c \in Calls : ProviderRun(c)
         \/ \E p \in Procs : Exit(p)
         \/ SigKill \/ Release \/ Environment \/ UNCHANGED vars
  PROVE  /\ UNCHANGED hookVars
         /\ \A k \in Loops : run'[k].pc = run[k].pc /\ run'[k].result = run[k].result
<1>0. run \in [Loops -> RunnerType]
  BY DEF SyncInv, Typed
<1>1. CASE \E c \in Calls : ProviderRun(c)
  <2>1. PICK c \in Calls : ProviderRun(c)
    BY <1>1
  <2>2. UNCHANGED hookVars
    BY <2>1 DEF ProviderRun, Lock, Open, Exec, Wait, Reap, Unset, Return, hookVars
  <2>3. ASSUME NEW k \in Loops PROVE \E v : run'[k] = [run[k] EXCEPT !.sync = v] \/ run'[k] = run[k]
    <3>1. CASE Lock(c) \/ Open(c) \/ Wait(c) \/ Reap(c)
      BY <3>1 DEF Lock, Open, Wait, Reap
    <3>2. CASE Exec(c)
      BY <1>0, <3>2 DEF Exec
    <3>3. CASE Unset(c)
      BY <1>0, <3>3 DEF Unset
    <3>4. CASE Return(c)
      BY <1>0, <3>4 DEF Return
    <3> QED
      BY <2>1, <3>1, <3>2, <3>3, <3>4 DEF ProviderRun
  <2>4. ASSUME NEW k \in Loops PROVE run'[k].pc = run[k].pc /\ run'[k].result = run[k].result
    BY <1>0, <2>3 DEF RunnerType
  <2> QED
    BY <2>2, <2>4
<1>2. CASE (\E p \in Procs : Exit(p)) \/ SigKill
  BY <1>2 DEF Exit, SigKill
<1>3. CASE Release \/ Environment
  BY <1>3 DEF Release, Environment, hookVars, Job!Release, Job!Environment, Job!Control, Job!Receive,
     Job!Boot, Job!GoRun
<1>4. CASE UNCHANGED vars
  BY <1>4 DEF vars
<1> QED
  BY <1>1, <1>2, <1>3, <1>4

-----------------------------------------------------------------------------
(* Hooks and layers                                                        *)

\* A step that leaves hooks and layers alone.
LEMMA HookStays ==
  ASSUME HookOK, UNCHANGED <<hook, layers>>,
         \A k \in Loops : \/ run'[k].pc \in {run[k].pc, "hookfail", "done"}
                          \/ run[k].pc \in Outside /\ run'[k].pc \in Outside
                          \/ run[k].pc \in {"syncing", "await", "running", "signal"}
                             /\ run'[k].pc \in {"await", "running", "signal", "posthooks"}
                          \/ run[k].pc \in {"report", "send"} /\ run'[k].pc \in {"send", "prehooks"}
  PROVE  HookOK'
<1>1. \A pc : HookAtPc(pc)' = HookAtPc(pc)
  BY DEF HookAtPc
<1>2. FirstHook("post").phase = "post" /\ FirstHook("post").i = 1
      /\ FirstHook("preExec").phase = "preExec" /\ FirstHook("preExec").i = 1
  BY DEF FirstHook
<1>3. Len(Hooks) + 1 # 1
  BY SyncRunAssumption
<1>4. ASSUME NEW k \in Loops PROVE HookAtPc(run'[k].pc)
  <2>1. HookAtPc(run[k].pc)
    BY DEF HookOK
  <2>2. CASE run'[k].pc \in {run[k].pc, "hookfail", "done"}
    BY <2>1, <2>2 DEF HookAtPc
  <2>3. CASE run[k].pc \in Outside /\ run'[k].pc \in Outside
    BY <2>1, <2>3 DEF HookAtPc, Outside
  <2>4. CASE run[k].pc \in {"syncing", "await", "running", "signal"}
             /\ run'[k].pc \in {"await", "running", "signal", "posthooks"}
    <3>1. hook = FirstHook("post") /\ layers = 1
      BY <2>1, <2>4 DEF HookAtPc
    <3>2. hook.phase = "post" /\ hook.i = 1
      BY <1>2, <3>1
    <3> QED
      BY <1>3, <2>4, <3>1, <3>2 DEF HookAtPc
  <2>5. CASE run[k].pc \in {"report", "send"} /\ run'[k].pc \in {"send", "prehooks"}
    <3>1. hook = FirstHook("preExec") /\ layers = 0
      BY <2>1, <2>5 DEF HookAtPc
    <3>2. hook.phase = "preExec" /\ hook.i = 1
      BY <1>2, <3>1
    <3> QED
      BY <2>5, <3>1, <3>2 DEF HookAtPc
  <2> QED
    BY <2>2, <2>3, <2>4, <2>5
<1> QED
  BY <1>1, <1>4 DEF HookOK

\* The log limiter is the first of the hooks, and the last of the post hooks.
LEMMA LogPlace ==
  ASSUME HookOK, NEW h, NEW phase, NEW l \in Loops, Calling(l, h, phase)
  PROVE  /\ hook.i \in 1..Len(Hooks) /\ Len(Hooks) \in Nat \ {0}
         /\ phase \in {"preJob", "preExec"} =>
              hook.phase = phase /\ run[l].pc = "prehooks" /\ (h = "log" <=> hook.i = 1)
         /\ phase \in {"postSuccess", "postFail"} =>
              hook.phase = "post" /\ run[l].pc = "posthooks" /\ (h = "log" <=> hook.i = Len(Hooks))
         /\ phase \in {"preJob", "preExec", "postSuccess", "postFail"}
<1>1. Len(Hooks) \in Nat \ {0} /\ \A i \in 1..Len(Hooks) : Hooks[i] = "log" <=> i = 1
  BY SyncRunAssumption
<1>2. hook.i \in 1..Len(Hooks) /\ hook.phase \in {"preJob", "preExec", "post"} /\ HookAt(hook.i) = h
  BY <1>1 DEF Calling, HookOK
<1>3. CASE hook.phase # "post"
  BY <1>1, <1>2, <1>3 DEF Calling, HookAt
<1>4. CASE hook.phase = "post"
  <2>1. phase \in {"postSuccess", "postFail"} /\ run[l].pc = "posthooks"
    BY <1>4 DEF Calling
  <2>2. Len(Hooks) + 1 - hook.i \in 1..Len(Hooks) /\ Hooks[Len(Hooks) + 1 - hook.i] = h
    BY <1>1, <1>2, <1>4 DEF HookAt
  <2>3. Len(Hooks) + 1 - hook.i = 1 <=> hook.i = Len(Hooks)
    BY <1>1, <1>2
  <2> QED
    BY <1>1, <1>2, <1>4, <2>1, <2>2, <2>3
<1> QED
  BY <1>3, <1>4

\* A hook is done, and the log limiter has entered or left its layer.
LEMMA HookMoves ==
  ASSUME HookOK, NEW h, NEW phase, NEW l \in Loops, Loops = {l}, Calling(l, h, phase), NextHook,
         layers' = CASE h = "log" /\ phase = "preExec" -> layers + 1
                     [] h = "log" /\ phase \in {"postSuccess", "postFail"} -> layers - 1
                     [] OTHER -> layers
  PROVE  HookOK'
<1> DEFINE n == Len(Hooks)
<1>0. /\ hook.i \in 1..n /\ n \in Nat \ {0} /\ run' = run /\ layers \in Nat /\ HookAtPc(run[l].pc)
      /\ hook \in [phase : {"preJob", "preExec", "post"}, i : 1..n + 1]
  BY LogPlace DEF NextHook, HookOK
<1>1. hook' \in [phase : {"preJob", "preExec", "post"}, i : 1..n + 1]
      /\ hook'.phase = hook.phase /\ hook'.i = hook.i + 1
  <2>1. hook.i + 1 \in 1..n + 1
    BY <1>0
  <2> QED
    BY <1>0, <2>1 DEF NextHook
<1>2. CASE phase = "preJob"
  <2>1. hook.phase = "preJob" /\ run[l].pc = "prehooks" /\ layers' = layers
    BY <1>2, LogPlace
  <2>2. layers = 0
    BY <1>0, <2>1 DEF HookAtPc
  <2> QED
    BY <1>0, <1>1, <2>1, <2>2 DEF HookOK, HookAtPc
<1>3. CASE phase = "preExec"
  <2>1. hook.phase = "preExec" /\ run[l].pc = "prehooks" /\ (h = "log" <=> hook.i = 1)
    BY <1>3, LogPlace
  <2>2. layers = IF hook.i = 1 THEN 0 ELSE 1
    BY <1>0, <2>1 DEF HookAtPc
  <2>3. layers' = 1 /\ hook'.i # 1
    BY <1>0, <1>1, <1>3, <2>1, <2>2
  <2> QED
    BY <1>0, <1>1, <2>1, <2>3 DEF HookOK, HookAtPc
<1>4. CASE phase \in {"postSuccess", "postFail"}
  <2>1. hook.phase = "post" /\ run[l].pc = "posthooks" /\ (h = "log" <=> hook.i = n)
    BY <1>4, LogPlace
  <2>2. layers = 1
    BY <1>0, <2>1 DEF HookAtPc
  <2>3. layers' = IF hook'.i = n + 1 THEN 0 ELSE 1
    BY <1>0, <1>1, <1>4, <2>1, <2>2
  <2> QED
    BY <1>0, <1>1, <2>1, <2>3 DEF HookOK, HookAtPc
<1> QED
  BY <1>2, <1>3, <1>4, LogPlace

\* A hook that fails ends the run.
LEMMA HookFails ==
  ASSUME SyncInv, HookOK, NEW l \in Loops, Loops = {l}, HookError(l), UNCHANGED layers
  PROVE  HookOK'
<1>1. run'[l].pc = "hookfail"
  BY DEF HookError, SyncInv, Typed, RunnerType
<1> QED
  BY <1>1, HookStays DEF HookError

\* The hooks of a run keep HookOK.
LEMMA RunHooksOK ==
  ASSUME SyncInv, HookOK, NEW l \in Loops, Loops = {l}, RunHooks(l)
  PROVE  HookOK'
<1>0. layers \in Nat /\ run \in [Loops -> RunnerType]
  BY DEF HookOK, SyncInv, Typed
<1>1. CASE LogPreExec(l)
  BY <1>1, HookMoves, HookFails DEF LogPreExec, EnterContext
<1>2. CASE LogPostSuccess(l)
  BY <1>2, HookMoves DEF LogPostSuccess, ExitContext
<1>3. CASE LogPostFail(l)
  BY <1>3, HookMoves DEF LogPostFail, ExitContext
<1>4. CASE ZfsPreJob(l)
  BY <1>4, HookMoves, HookFails DEF ZfsPreJob
<1>5. CASE BtrfsPreJob(l)
  BY <1>5, HookMoves, HookFails DEF BtrfsPreJob
<1>6. CASE BtrfsPostSuccess(l)
  BY <1>6, HookMoves, HookFails DEF BtrfsPostSuccess
<1>7. CASE ExecPost(l)
  BY <1>7, HookMoves, HookFails DEF ExecPost
<1>8. CASE emptyHook(l)
  <2>1. PICK x \in {<<"log", "preJob">>, <<"zfs", "preExec">>, <<"zfs", "postSuccess">>, <<"zfs", "postFail">>,
               <<"btrfs", "preExec">>, <<"btrfs", "postFail">>, <<"exec", "preJob">>, <<"exec", "preExec">>} :
               Calling(l, x[1], x[2])
    BY <1>8 DEF emptyHook
  <2>2. x[1] = "log" => x[2] = "preJob"
    OBVIOUS
  <2> QED
    BY <1>8, <2>1, <2>2, HookMoves DEF emptyHook
<1>9. CASE PhaseDone(l)
  <2> DEFINE n == Len(Hooks)
  <2>1. /\ UNCHANGED layers /\ n \in Nat \ {0} /\ hook.i \in 1..n + 1 /\ hook.i > n /\ HookAtPc(run[l].pc)
    BY <1>9, SyncRunAssumption DEF PhaseDone, HookOK
  <2>2. hook.i # 1 /\ hook.i = n + 1
    BY <2>1
  <2>3. /\ FirstHook("preExec") \in [phase : {"preJob", "preExec", "post"}, i : 1..n + 1]
        /\ FirstHook("post") \in [phase : {"preJob", "preExec", "post"}, i : 1..n + 1]
        /\ FirstHook("preExec").phase = "preExec" /\ FirstHook("preExec").i = 1
    BY <2>1 DEF FirstHook
  <2>4. CASE hook.phase = "preJob" /\ run[l].pc = "prehooks" /\ hook' = FirstHook("preExec") /\ run' = run
    <3>1. layers = 0
      BY <2>1, <2>4 DEF HookAtPc
    <3> QED
      BY <1>0, <2>1, <2>3, <2>4, <3>1 DEF HookOK, HookAtPc
  <2>5. CASE hook.phase = "preExec" /\ run[l].pc = "prehooks" /\ hook' = FirstHook("post")
             /\ run' = [run EXCEPT ![l].pc = "syncing"]
    <3>1. layers = 1
      BY <2>1, <2>2, <2>5 DEF HookAtPc
    <3>2. run'[l].pc = "syncing"
      BY <1>0, <2>5 DEF RunnerType
    <3> QED
      BY <1>0, <2>1, <2>3, <2>5, <3>1, <3>2 DEF HookOK, HookAtPc
  <2>6. CASE hook.phase = "post" /\ run[l].pc = "posthooks" /\ hook' = FirstHook("preExec")
             /\ run' = [run EXCEPT ![l].pc = "report"]
    <3>1. layers = 0
      BY <2>1, <2>2, <2>6 DEF HookAtPc
    <3>2. run'[l].pc = "report"
      BY <1>0, <2>6 DEF RunnerType
    <3> QED
      BY <1>0, <2>1, <2>3, <2>6, <3>1, <3>2 DEF HookOK, HookAtPc
  <2> QED
    BY <1>9, <2>4, <2>5, <2>6 DEF PhaseDone
<1> QED
  BY <1>1, <1>2, <1>3, <1>4, <1>5, <1>6, <1>7, <1>8, <1>9 DEF RunHooks

-----------------------------------------------------------------------------
(* The runner outside of the hooks                                         *)

\* From where to where a step takes the runner, and what it leaves of the sync.
RunnerGoes(l, r) ==
  \/ run[l].pc = "select" /\ r.pc \in {"presync", "dropped"} /\ r.sync = run[l].sync
  \/ run[l].pc = "presync" /\ r.pc = "prehooks" /\ r.sync = run[l].sync
  \/ run[l].pc = "syncing" /\ r.pc = "await" /\ r.sync = "spawned"
  \/ run[l].pc = "await" /\ r.pc \in {"await", "running"} /\ r.sync = run[l].sync
  \/ run[l].pc = "running" /\ r.pc = "posthooks" /\ r.sync = "none" /\ r.result = run[l].sync
  \/ /\ run[l].pc = "running" /\ r.pc \in {"posthooks", "signal"}
     /\ r.sync \in {"none", run[l].sync} /\ r.result \in {"err", "killed"}
  \/ /\ run[l].pc = "signal" /\ r.pc \in {"posthooks", "done"}
     /\ r.sync = "none" /\ r.result = run[l].result
  \/ run[l].pc = "hookfail" /\ r.pc = "done" /\ r.sync = run[l].sync
  \/ run[l].pc = "report" /\ r.pc = "send" /\ r.sync = run[l].sync
  \/ run[l].pc = "send" /\ r.pc \in {"prehooks", "done"} /\ r.sync = run[l].sync
  \/ run[l].pc = "done" /\ r.pc = "closed" /\ r.sync = "none"

OtherRunner(l) ==
  \/ PreSyncing(l) \/ Syncing(l) \/ Terminate(l) \/ SigTerm(l) \/ Close(l)
  \/ /\ UNCHANGED <<procVars, hookVars>>
     /\ \/ Job!Acquire(l) \/ Job!Bypass(l) \/ Job!Drop(l) \/ Job!Started(l) \/ Job!NilPanic(l)
        \/ Job!SyncDone(l) \/ Job!HookFail(l) \/ Job!Report(l) \/ Job!SendResult(l)

\* The steps of the runner that are not those of a hook.
LEMMA RunnerFrame ==
  ASSUME SyncInv, NEW l \in Loops, OtherRunner(l)
  PROVE  RunnerGoes(l, run'[l]) /\ ps' = ps /\ snapshot' = snapshot
<1>0. run \in [Loops -> RunnerType] /\ run[l] \in RunnerType
  BY DEF SyncInv, Typed
<1>a. ps' = ps /\ snapshot' = snapshot
  BY DEF OtherRunner, PreSyncing, Syncing, Terminate, SigTerm, Close, procVars, hookVars
<1> SUFFICES RunnerGoes(l, run'[l])
  BY <1>a
<1>b. ASSUME NEW from, NEW to, Job!RunAt(l, from, to)
      PROVE  /\ run[l].pc = from /\ run'[l].pc = to /\ run'[l].sync = run[l].sync
             /\ run'[l].result = run[l].result
  <2>1. run[l].pc = from /\ run'[l] = [run[l] EXCEPT !.pc = to]
    BY <1>0, <1>b DEF Job!RunAt
  <2> QED
    BY <1>0, <2>1 DEF RunnerType
<1>1. CASE PreSyncing(l)
  BY <1>1, <1>b DEF PreSyncing, Job!PreSyncing, RunnerGoes
<1>2. CASE Syncing(l)
  <2>1. run[l].pc = "syncing" /\ run'[l] = [run[l] EXCEPT !.pc = "await", !.sync = "spawned"]
    BY <1>0, <1>2 DEF Syncing, Job!Syncing
  <2>2. run'[l].pc = "await" /\ run'[l].sync = "spawned"
    BY <1>0, <2>1 DEF RunnerType
  <2> QED
    BY <2>1, <2>2 DEF RunnerGoes
<1>3. CASE Terminate(l)
  <2>1. PICK why \in {"err", "killed"} : Job!Terminate(l, why)
    BY <1>3 DEF Terminate, Job!TimedOut, Job!Killed
  <2>2. /\ run[l].pc = "running"
        /\ \/ run'[l] = [run[l] EXCEPT !.pc = "posthooks", !.sync = "none", !.result = why]
           \/ run'[l] = [run[l] EXCEPT !.pc = "signal", !.result = why]
    BY <1>0, <2>1 DEF Job!Terminate
  <2>3. CASE run'[l] = [run[l] EXCEPT !.pc = "posthooks", !.sync = "none", !.result = why]
    <3>1. run'[l].pc = "posthooks" /\ run'[l].sync = "none" /\ run'[l].result = why
      BY <1>0, <2>3 DEF RunnerType
    <3> QED
      BY <2>2, <3>1 DEF RunnerGoes
  <2>4. CASE run'[l] = [run[l] EXCEPT !.pc = "signal", !.result = why]
    <3>1. run'[l].pc = "signal" /\ run'[l].sync = run[l].sync /\ run'[l].result = why
      BY <1>0, <2>4 DEF RunnerType
    <3> QED
      BY <2>2, <3>1 DEF RunnerGoes
  <2> QED
    BY <2>2, <2>3, <2>4
<1>4. CASE SigTerm(l)
  <2>1. PICK pc \in {"posthooks", "done"} :
          run[l].pc = "signal" /\ run'[l] = [run[l] EXCEPT !.pc = pc, !.sync = "none"]
    BY <1>0, <1>4 DEF SigTerm
  <2>2. run'[l].pc = pc /\ run'[l].sync = "none" /\ run'[l].result = run[l].result
    BY <1>0, <2>1 DEF RunnerType
  <2> QED
    BY <2>1, <2>2 DEF RunnerGoes
<1>5. CASE Close(l)
  <2>1. run[l].pc = "done" /\ run'[l] = Job!NoRun
    BY <1>0, <1>5 DEF Close, Job!Close
  <2>2. Job!NoRun.pc = "closed" /\ Job!NoRun.sync = "none"
    BY DEF Job!NoRun
  <2> QED
    BY <2>1, <2>2 DEF RunnerGoes
<1>6. CASE Job!Acquire(l)
  <2>1. run[l].pc = "select" /\ run'[l] = [run[l] EXCEPT !.pc = "presync", !.holds = TRUE]
    BY <1>0, <1>6 DEF Job!Acquire
  <2>2. run'[l].pc = "presync" /\ run'[l].sync = run[l].sync
    BY <1>0, <2>1 DEF RunnerType
  <2> QED
    BY <2>1, <2>2 DEF RunnerGoes
<1>7. CASE Job!Bypass(l) \/ Job!Drop(l)
  BY <1>7, <1>b DEF Job!Bypass, Job!Drop, RunnerGoes
<1>8. CASE Job!Started(l) \/ Job!HookFail(l)
  BY <1>8, <1>b DEF Job!Started, Job!HookFail, RunnerGoes
<1>9. CASE Job!NilPanic(l)
  BY <1>9 DEF Job!NilPanic, RunnerGoes
<1>10. CASE Job!SyncDone(l)
  <2>1. /\ run[l].pc = "running"
        /\ run'[l] = [run[l] EXCEPT !.pc = "posthooks", !.result = run[l].sync, !.sync = "none"]
    BY <1>0, <1>10 DEF Job!SyncDone
  <2>2. run'[l].pc = "posthooks" /\ run'[l].sync = "none" /\ run'[l].result = run[l].sync
    BY <1>0, <2>1 DEF RunnerType
  <2> QED
    BY <2>1, <2>2 DEF RunnerGoes
<1>11. CASE Job!Report(l)
  <2>1. run[l].pc = "report" /\ run'[l] = [run[l] EXCEPT !.pc = "send", !.again = Job!Again(l)]
    BY <1>0, <1>11 DEF Job!Report
  <2>2. run'[l].pc = "send" /\ run'[l].sync = run[l].sync
    BY <1>0, <2>1 DEF RunnerType
  <2> QED
    BY <2>1, <2>2 DEF RunnerGoes
<1>12. CASE Job!SendResult(l)
  <2>1. /\ run[l].pc = "send"
        /\ \/ run'[l] = [run[l] EXCEPT !.pc = "prehooks", !.retry = @ + 1]
           \/ run'[l] = [run[l] EXCEPT !.pc = "done"]
    BY <1>0, <1>12 DEF Job!SendResult
  <2>2. CASE run'[l] = [run[l] EXCEPT !.pc = "prehooks", !.retry = @ + 1]
    <3>1. run'[l].pc = "prehooks" /\ run'[l].sync = run[l].sync
      BY <1>0, <2>2 DEF RunnerType
    <3> QED
      BY <2>1, <3>1 DEF RunnerGoes
  <2>3. CASE run'[l] = [run[l] EXCEPT !.pc = "done"]
    <3>1. run'[l].pc = "done" /\ run'[l].sync = run[l].sync
      BY <1>0, <2>3 DEF RunnerType
    <3> QED
      BY <2>1, <3>1 DEF RunnerGoes
  <2> QED
    BY <2>1, <2>2, <2>3
<1> QED
  BY <1>1, <1>2, <1>3, <1>4, <1>5, <1>6, <1>7, <1>8, <1>9, <1>10, <1>11, <1>12 DEF OtherRunner

\* The runner outside of the hooks keeps HookOK.
LEMMA OtherHookOK ==
  ASSUME SyncInv, HookOK, NEW l \in Loops, Loops = {l}, OtherRunner(l)
  PROVE  HookOK'
<1>0. RunnerGoes(l, run'[l]) /\ HookAtPc(run[l].pc)
  BY RunnerFrame DEF HookOK
<1>1. CASE PreSyncing(l)
  <2>1. run[l].pc = "presync" /\ run'[l].pc = "prehooks" /\ layers' = 0 /\ hook' = hook
    BY <1>0, <1>1 DEF PreSyncing, Job!PreSyncing, Job!RunAt, RunnerGoes
  <2>2. hook = FirstHook("preJob") /\ FirstHook("preJob").phase = "preJob"
    BY <1>0, <2>1 DEF HookAtPc, FirstHook
  <2>3. hook'.phase = "preJob"
    BY <2>1, <2>2
  <2> QED
    BY <2>1, <2>3 DEF HookOK, HookAtPc
<1>2. CASE Close(l)
  <2>1. run'[l].pc = "closed" /\ hook' = FirstHook("preJob") /\ layers' = layers
    BY <1>0, <1>2 DEF Close, Job!Close, RunnerGoes
  <2>2. FirstHook("preJob") \in [phase : {"preJob", "preExec", "post"}, i : 1..Len(Hooks) + 1]
    BY SyncRunAssumption DEF FirstHook
  <2> QED
    BY <2>1, <2>2 DEF HookOK, HookAtPc
<1>3. CASE ~PreSyncing(l) /\ ~Close(l)
  <2>1. UNCHANGED <<hook, layers>>
    BY <1>3 DEF OtherRunner, Syncing, Terminate, SigTerm, hookVars
  <2>2. run[l].pc \notin {"presync", "done"}
    BY <1>3 DEF OtherRunner, Syncing, Terminate, SigTerm, Job!TimedOut, Job!Killed, Job!Terminate, Job!Syncing,
       Job!Acquire, Job!Bypass, Job!Drop, Job!Started, Job!NilPanic, Job!SyncDone, Job!HookFail, Job!Report,
       Job!SendResult, Job!RunAt
  <2> QED
    BY <1>0, <2>1, <2>2, HookStays DEF RunnerGoes, Outside
<1> QED
  BY <1>1, <1>2, <1>3

\* Every step keeps HookOK.
LEMMA HookOKStep ==
  ASSUME SyncInv, HookOK, [Next]_vars
  PROVE  HookOK'
<1>1. ASSUME NEW l \in Loops, Loop(l) PROVE HookOK'
  BY <1>1, LoopFrame, HookStays DEF Loop, hookVars
<1>2. ASSUME NEW l \in Loops, Runner(l) PROVE HookOK'
  <2>1. Loops = {l}
    BY SyncRunAssumption
  <2> QED
    BY <1>2, <2>1, RunHooksOK, OtherHookOK DEF Runner, OtherRunner
<1>3. CASE \/ \E c \in Calls : ProviderRun(c)
           \/ \E p \in Procs : Exit(p)
           \/ SigKill \/ Release \/ Environment \/ UNCHANGED vars
  BY <1>3, ProviderFrame, HookStays DEF hookVars
<1> QED
  BY <1>1, <1>2, <1>3 DEF Next

-----------------------------------------------------------------------------
(* The snapshot                                                            *)

\* Steps that start no process, leave the snapshot alone, and take no runner to
\* a success that its sync did not report.
LEMMA QuietStays ==
  ASSUME QuietOK, snapshot' = snapshot, Writing' \subseteq Writing,
         \A k \in Loops :
           /\ run'[k].sync \in {"finishing", "ok"} => run[k].sync \in {"finishing", "ok"}
           /\ run'[k].pc = "posthooks" /\ run'[k].result = "ok" =>
                \/ run[k].pc = "posthooks" /\ run[k].result = "ok"
                \/ run[k].pc = "signal" /\ run[k].result = "ok"
                \/ run[k].sync = "ok"
           /\ run'[k].pc = "signal" /\ run'[k].result = "ok" => run[k].pc = "signal" /\ run[k].result = "ok"
  PROVE  QuietOK'
<1>1. Writing = {} => Writing' = {}
  OBVIOUS
<1> HIDE DEF Writing
<1> QED
  BY <1>1 DEF QuietOK

\* The hooks keep QuietOK: the snapshot is taken after a success.
LEMMA HooksQuiet ==
  ASSUME SyncInv, HookOK, QuietOK, NEW l \in Loops, Loops = {l}, RunHooks(l)
  PROVE  QuietOK'
<1>0. run \in [Loops -> RunnerType] /\ run[l] \in RunnerType
  BY DEF SyncInv, Typed
<1>1. \/ run' = run
      \/ \E pc \in {"syncing", "hookfail", "report"} : run' = [run EXCEPT ![l].pc = pc]
  BY DEF RunHooks, LogPreExec, LogPostSuccess, LogPostFail, ZfsPreJob, BtrfsPreJob, BtrfsPostSuccess,
         ExecPost, emptyHook, PhaseDone, NextHook, HookError
<1>2. /\ run'[l].sync = run[l].sync
      /\ \/ run'[l] = run[l]
         \/ run'[l].pc \in {"syncing", "hookfail", "report"}
  <2>1. ASSUME NEW pc \in {"syncing", "hookfail", "report"}, run' = [run EXCEPT ![l].pc = pc]
        PROVE  run'[l].sync = run[l].sync /\ run'[l].pc = pc
    <3>1. run'[l] = [run[l] EXCEPT !.pc = pc]
      BY <1>0, <2>1
    <3> QED
      BY <1>0, <3>1 DEF RunnerType
  <2> QED
    BY <1>1, <2>1
<1>3. ps' = ps
  BY DEF RunHooks, LogPreExec, LogPostSuccess, LogPostFail, ZfsPreJob, BtrfsPreJob, BtrfsPostSuccess,
         ExecPost, emptyHook, PhaseDone, procVars
<1>4. snapshot' = snapshot \/ snapshot' = IF Writing = {} THEN "quiet" ELSE "torn"
  BY DEF RunHooks, LogPreExec, LogPostSuccess, LogPostFail, ZfsPreJob, BtrfsPreJob, BtrfsPostSuccess,
         ExecPost, emptyHook, PhaseDone
<1>5. snapshot' # snapshot => run[l].pc = "posthooks" /\ run[l].result = "ok"
  <2>1. snapshot' # snapshot => Calling(l, "btrfs", "postSuccess")
    BY DEF RunHooks, LogPreExec, LogPostSuccess, LogPostFail, ZfsPreJob, BtrfsPreJob, BtrfsPostSuccess,
           ExecPost, emptyHook, PhaseDone
  <2>2. Calling(l, "btrfs", "postSuccess") /\ hook.phase = "post" => run[l].pc = "posthooks" /\ run[l].result = "ok"
    BY DEF Calling
  <2>3. CASE snapshot' # snapshot /\ hook.phase # "post"
    <3>1. hook.phase = "postSuccess" /\ run[l].pc = "prehooks"
      BY <2>1, <2>3 DEF Calling
    <3> QED
      BY <3>1 DEF HookOK
  <2> QED
    BY <2>1, <2>2, <2>3
<1>6. snapshot' = snapshot
  BY <1>4, <1>5 DEF QuietOK
<1>7. Writing' = Writing
  BY <1>3 DEF Writing
<1> QED
  BY <1>2, <1>6, <1>7, QuietStays

\* provider.Run and its process keep QuietOK.
LEMMA ProviderQuiet ==
  ASSUME Stages = {1}, SyncInv, QuietOK, NEW c \in Calls, ProviderRun(c)
  PROVE  QuietOK'
<1>0. run \in [Loops -> RunnerType] /\ ps \in [Procs -> {"none", "alive", "exited", "reaped"}]
      /\ call \in [Calls -> CallType] /\ ~TwoStage
  BY OneStage DEF SyncInv, Typed
<1>1. CASE Lock(c) \/ Open(c) \/ Wait(c)
  <2>1. ps' = ps /\ run' = run /\ snapshot' = snapshot
    BY <1>1 DEF Lock, Open, Wait, hookVars
  <2>2. Writing' = Writing
    BY <2>1 DEF Writing
  <2> QED
    BY <2>1, <2>2, QuietStays
<1>2. CASE Reap(c)
  <2>1. run' = run /\ snapshot' = snapshot
    BY <1>2 DEF Reap, hookVars
  <2>2. Writing' \subseteq Writing
    BY <1>0, <1>2 DEF Reap, Writing
  <2> QED
    BY <2>1, <2>2, QuietStays
<1>3. CASE Exec(c)
  <2>1. snapshot' = snapshot
    BY <1>3 DEF Exec, hookVars
  <2>2. CASE ps' = ps /\ run' = run
    <3>1. Writing' = Writing
      BY <2>2 DEF Writing
    <3> QED
      BY <2>1, <2>2, <3>1, QuietStays
  <2>3. CASE run' = [l \in Loops |-> IF call[c].attempt THEN [run[l] EXCEPT !.sync = "running"] ELSE run[l]]
             /\ call[c].pc = "exec"
    <3>1. call[c].attempt /\ \A l \in Loops : run[l].pc \in Busy
      BY <2>3 DEF SyncInv, AttemptOK
    <3>2. ASSUME NEW l \in Loops
          PROVE run'[l].sync = "running" /\ run'[l].pc = run[l].pc /\ run'[l].result = run[l].result
      <4>1. run'[l] = [run[l] EXCEPT !.sync = "running"] /\ run[l] \in RunnerType
        BY <1>0, <2>3, <3>1
      <4> QED
        BY <4>1 DEF RunnerType
    <3> QED
      BY <2>1, <3>1, <3>2 DEF QuietOK, Busy
  <2> QED
    BY <1>3, <2>2, <2>3 DEF Exec, CallAt
<1>4. CASE Unset(c)
  <2>1. snapshot' = snapshot /\ ps' = ps
    BY <1>4 DEF Unset, hookVars
  <2>2. cmd = <<c, 1>> /\ ps[<<c, 1>>] = "reaped"
    BY <1>4 DEF Unset, CallAt, SyncInv, CallOK
  <2>3. ASSUME NEW p \in Procs, ps[p] = "alive" PROVE FALSE
    <3>1. p[1] \in Calls /\ p = <<p[1], 1>>
      BY OneStage
    <3>2. call[p[1]].pc \in {"wait", "waiting"} /\ cmd = <<p[1], 1>>
      BY <2>3, <3>1 DEF SyncInv, CallOK
    <3> QED
      BY <2>2, <2>3, <3>1, <3>2
  <2>4. Writing' = {}
    BY <2>1, <2>3 DEF Writing
  <2>5. ASSUME NEW l \in Loops PROVE run'[l].pc = run[l].pc /\ run'[l].result = run[l].result
    <3>1. run[l] \in RunnerType /\ (run'[l] = run[l] \/ run'[l] = [run[l] EXCEPT !.sync = "finishing"])
      BY <1>0, <1>4 DEF Unset
    <3> QED
      BY <3>1 DEF RunnerType
  <2> QED
    BY <2>1, <2>4, <2>5 DEF QuietOK
<1>5. CASE Return(c)
  <2>1. snapshot' = snapshot /\ ps' = ps
    BY <1>5 DEF Return, hookVars
  <2>2. Writing' = Writing
    BY <2>1 DEF Writing
  <2>3. PICK err \in {"ok", "err"} :
          /\ call[c].pc # "rest" => err = "err"
          /\ run' = [l \in Loops |-> IF call[c].attempt THEN [run[l] EXCEPT !.sync = err] ELSE run[l]]
    BY <1>5 DEF Return
  <2>4. CASE ~call[c].attempt
    <3>1. \A l \in Loops : run'[l] = run[l]
      BY <2>3, <2>4
    <3> QED
      BY <2>1, <2>2, <3>1, QuietStays
  <2>5. CASE call[c].attempt
    <3>1. ASSUME NEW l \in Loops
          PROVE run'[l].sync = err /\ run'[l].pc = run[l].pc /\ run'[l].result = run[l].result
      <4>1. run'[l] = [run[l] EXCEPT !.sync = err] /\ run[l] \in RunnerType
        BY <1>0, <2>3, <2>5
      <4> QED
        BY <4>1 DEF RunnerType
    <3>2. \A l \in Loops : err = "ok" => run[l].sync = "finishing"
      BY <2>3, <2>5 DEF SyncInv, AttemptOK
    <3> QED
      BY <2>1, <2>2, <3>1, <3>2, QuietStays
  <2> QED
    BY <2>4, <2>5
<1> QED
  BY <1>1, <1>2, <1>3, <1>4, <1>5 DEF ProviderRun

\* Every step keeps QuietOK.
LEMMA QuietStep ==
  ASSUME Stages = {1}, SyncInv, HookOK, QuietOK, [Next]_vars
  PROVE  QuietOK'
<1>1. ASSUME NEW l \in Loops, Loop(l) PROVE QuietOK'
  <2>1. ps' = ps /\ snapshot' = snapshot
    BY <1>1 DEF Loop, procVars, hookVars
  <2>2. Writing' = Writing
    BY <2>1 DEF Writing
  <2> QED
    BY <1>1, <2>1, <2>2, LoopFrame, QuietStays DEF Loop, Outside
<1>2. ASSUME NEW l \in Loops, OtherRunner(l), Loops = {l} PROVE QuietOK'
  <2>1. RunnerGoes(l, run'[l]) /\ ps' = ps /\ snapshot' = snapshot
    BY <1>2, RunnerFrame
  <2>2. Writing' = Writing
    BY <2>1 DEF Writing
  <2>3. run[l].pc = "signal" => run[l].result # "ok"
    BY DEF QuietOK
  <2> QED
    BY <1>2, <2>1, <2>2, <2>3, QuietStays DEF RunnerGoes
<1>3. ASSUME NEW l \in Loops, Runner(l) PROVE QuietOK'
  <2>1. Loops = {l}
    BY SyncRunAssumption
  <2> QED
    BY <1>2, <1>3, <2>1, HooksQuiet DEF Runner, OtherRunner
<1>4. CASE (\E p \in Procs : Exit(p)) \/ SigKill
  <2>1. run' = run /\ snapshot' = snapshot
    BY <1>4 DEF Exit, SigKill, hookVars
  <2>2. Writing' \subseteq Writing
    BY <1>4 DEF Exit, SigKill, Writing, SyncInv, Typed
  <2> QED
    BY <2>1, <2>2, QuietStays
<1>5. CASE Release \/ Environment \/ UNCHANGED vars
  <2>1. run' = run /\ snapshot' = snapshot /\ ps' = ps
    BY <1>5 DEF Release, Environment, vars, procVars, hookVars, Job!Release, Job!Environment, Job!Control,
       Job!Receive, Job!Boot, Job!GoRun
  <2>2. Writing' = Writing
    BY <2>1 DEF Writing
  <2> QED
    BY <2>1, <2>2, QuietStays
<1> QED
  BY <1>1, <1>3, <1>4, <1>5, ProviderQuiet DEF Next

-----------------------------------------------------------------------------
(* The mutex                                                               *)

\* A step that leaves the provider to itself, and keeps a runner that signals.
LEMMA LockStays ==
  ASSUME LockOK, UNCHANGED <<cmd, fd, lock, term>>,
         \A k \in Loops : run[k].pc = "signal" => run'[k].pc = "signal"
  PROVE  LockOK'
  BY DEF LockOK, Procs

\* provider.Run keeps LockOK.
LEMMA ProviderLock ==
  ASSUME Stages = {1}, SyncInv, LockOK, NEW c \in Calls, ProviderRun(c)
  PROVE  LockOK'
<1>0. /\ \A k \in Loops : run'[k].pc = run[k].pc
      /\ term' = term /\ ~TwoStage /\ c # "term" /\ <<c, 1>> \in Procs
      /\ call[c].stage = 1
  BY ProviderFrame, OneStage, Names
     DEF ProviderRun, Lock, Open, Exec, Wait, Reap, Unset, Return, SyncInv, Typed, CallType
<1>1. cmd' \in {cmd, <<c, 1>>} /\ fd' \in {fd, c, "nil"}
  BY <1>0 DEF ProviderRun, Lock, Open, Exec, Wait, Reap, Unset, Return
<1>2. lock' \in {lock, c, "free"}
  BY <1>0 DEF ProviderRun, Lock, Open, Exec, Wait, Reap, Unset, Return
<1>3. cmd' \in Procs \cup {<<>>} /\ fd' \in Calls \cup {"nil"}
  BY <1>0, <1>1 DEF LockOK
<1>4. lock' = "term" => term' \/ \E l \in Loops : run'[l].pc = "signal"
  BY <1>0, <1>2 DEF LockOK
<1> QED
  BY <1>3, <1>4 DEF LockOK, Procs

\* Every step keeps LockOK.
LEMMA LockOKStep ==
  ASSUME Stages = {1}, SyncInv, LockOK, [Next]_vars
  PROVE  LockOK'
<1>0. run \in [Loops -> RunnerType]
  BY DEF SyncInv, Typed
<1>1. ASSUME NEW l \in Loops, Loop(l) PROVE LockOK'
  BY <1>1, LoopFrame, LockStays DEF Loop, Outside, procVars
<1>2. ASSUME NEW l \in Loops, RunHooks(l) PROVE LockOK'
  <2>1. UNCHANGED <<cmd, fd, lock, term>> /\ run[l].pc # "signal"
    BY <1>2 DEF RunHooks, LogPreExec, LogPostSuccess, LogPostFail, ZfsPreJob, BtrfsPreJob, BtrfsPostSuccess,
                ExecPost, emptyHook, PhaseDone, Calling, procVars
  <2>2. Loops = {l}
    BY SyncRunAssumption
  <2> QED
    BY <2>1, <2>2, LockStays
<1>3. ASSUME NEW l \in Loops, OtherRunner(l), Loops = {l} PROVE LockOK'
  <2>1. RunnerGoes(l, run'[l]) /\ UNCHANGED <<cmd, fd>>
    BY <1>3, RunnerFrame DEF OtherRunner, PreSyncing, Syncing, Terminate, SigTerm, Close, procVars
  <2>2. CASE Terminate(l)
    <3>1. isRunning => run'[l].pc = "signal"
      <4>1. SUFFICES ASSUME isRunning PROVE run'[l].pc = "signal"
        OBVIOUS
      <4>2. Process # "off"
        BY <4>1 DEF Process
      <4>3. PICK why : Job!Terminate(l, why)
        BY <2>2 DEF Terminate, Job!TimedOut, Job!Killed
      <4>4. run'[l] = [run[l] EXCEPT !.pc = "signal", !.result = why]
        BY <1>0, <4>2, <4>3 DEF Job!Terminate
      <4> QED
        BY <1>0, <4>4 DEF RunnerType
    <3>2. lock' = IF isRunning THEN "term" ELSE "free"
      BY <2>2 DEF Terminate
    <3> QED
      BY <2>1, <3>1, <3>2 DEF LockOK, Procs
  <2>3. CASE SigTerm(l)
    <3>1. lock' = "free" \/ term' = TRUE
      BY <2>3 DEF SigTerm
    <3> QED
      BY <2>1, <3>1 DEF LockOK, Procs
  <2>4. CASE ~Terminate(l) /\ ~SigTerm(l)
    <3>1. UNCHANGED <<lock, term>>
      BY <1>3, <2>4 DEF OtherRunner, PreSyncing, Syncing, Close, procVars
    <3>2. run[l].pc # "signal"
      BY <1>3, <2>4 DEF OtherRunner, PreSyncing, Syncing, Close, Job!PreSyncing, Job!Close, Job!Syncing,
         Job!Acquire, Job!Bypass, Job!Drop, Job!Started, Job!NilPanic, Job!SyncDone, Job!HookFail, Job!Report,
         Job!SendResult, Job!RunAt
    <3> QED
      BY <1>3, <2>1, <3>1, <3>2, LockStays
  <2> QED
    BY <2>2, <2>3, <2>4
<1>4. ASSUME NEW l \in Loops, Runner(l) PROVE LockOK'
  <2>1. Loops = {l}
    BY SyncRunAssumption
  <2> QED
    BY <1>2, <1>3, <1>4, <2>1 DEF Runner, OtherRunner
<1>5. CASE SigKill
  BY <1>5 DEF SigKill, LockOK, Procs
<1>6. CASE (\E p \in Procs : Exit(p)) \/ Release \/ Environment \/ UNCHANGED vars
  <2>1. UNCHANGED <<cmd, fd, lock, term>>
    BY <1>6 DEF Exit, Release, Environment, vars, procVars
  <2> QED
    BY <1>6, <2>1, ProviderFrame, LockStays
<1> QED
  BY <1>1, <1>4, <1>5, <1>6, ProviderLock DEF Next

-----------------------------------------------------------------------------
(* The theorems                                                            *)

LEMMA HookStart == ASSUME Stages = {1}, Init PROVE HookInv
<1>1. SyncInv
  BY SyncStart
<1>2. /\ hook = FirstHook("preJob") /\ layers = 0 /\ snapshot = "quiet" /\ lock = "free" /\ cmd = <<>>
      /\ fd = "nil" /\ ps = [p \in Procs |-> "none"]
  BY DEF Init
<1>3. \A l \in Loops : run[l] = Job!NoRun
  BY DEF Init, Job!JobInit
<1>4. Job!NoRun.pc = "closed"
  BY DEF Job!NoRun
<1>5. FirstHook("preJob") \in [phase : {"preJob", "preExec", "post"}, i : 1..Len(Hooks) + 1]
  BY SyncRunAssumption DEF FirstHook
<1>6. HookOK
  BY <1>2, <1>3, <1>4, <1>5 DEF HookOK, HookAtPc
<1>7. Writing = {}
  BY <1>2 DEF Writing
<1>8. QuietOK
  BY <1>2, <1>3, <1>4, <1>7 DEF QuietOK
<1> QED
  BY <1>1, <1>2, <1>6, <1>8 DEF HookInv, LockOK

LEMMA HookStep == ASSUME Stages = {1}, HookInv, [Next]_vars PROVE HookInv'
  BY SyncStep, HookOKStep, QuietStep, LockOKStep DEF HookInv

LEMMA AlwaysHooks == ASSUME Stages = {1} PROVE Spec => []HookInv
<1>1. Init => HookInv
  BY HookStart
<1>2. HookInv /\ [Next]_vars => HookInv'
  BY HookStep
<1> QED
  BY <1>1, <1>2, PTL DEF Spec

\* The variables of the provider and of the hooks have their types, the mutex is
\* held by the call in the part of provider.Run that it protects, and Terminate
\* has it exactly from its check of isRunning to its last signal.
THEOREM SyncRunTypeCorrect == ASSUME Stages = {1} PROVE Spec => []SyncRunTypeOK
<1>1. HookInv => SyncRunTypeOK
  <2> SUFFICES ASSUME HookInv PROVE SyncRunTypeOK
    OBVIOUS
  <2>1. hook.phase \in {"preJob", "preExec", "post"} /\ hook.i \in 1..Len(Hooks) + 1 /\ layers \in Int
    BY DEF HookInv, HookOK
  <2>2. ASSUME NEW c \in Calls
        PROVE  /\ call[c].pc \in {"none", "lock", "open", "exec", "wait", "waiting", "unset",
                                  "relock", "rest", "fail", "refused"}
               /\ call[c].pc \in {"open", "exec"} => lock = c
    BY DEF HookInv, SyncInv, Typed, CallType, CallOK
  <2>3. lock = "term" <=> term \/ \E l \in Loops : run[l].pc = "signal"
    BY DEF HookInv, LockOK, SyncInv, TermOK, RunOK
  <2> QED
    BY <2>1, <2>2, <2>3 DEF SyncRunTypeOK, HookInv, SyncInv, Typed, LockOK, QuietOK
<1> QED
  BY <1>1, AlwaysHooks, PTL

\* The btrfs hook never takes its snapshot while a sync process writes to the
\* directory: the process of the attempt was waited for before provider.Run
\* reported success, and none of an earlier attempt is left.
THEOREM SnapshotQuietHolds == ASSUME Stages = {1} PROVE Spec => []SnapshotQuiet
<1>1. HookInv => SnapshotQuiet
  BY DEF HookInv, QuietOK, SnapshotQuiet
<1> QED
  BY <1>1, AlwaysHooks, PTL

\* EnterContext and ExitContext are paired whatever the hooks, the failures and
\* the retries: one layer in an attempt, none after its post hooks.
THEOREM LayersHolds == ASSUME Stages = {1} PROVE Spec => []Layers
<1>1. HookInv => Layers
  BY DEF HookInv, HookOK, HookAtPc, Layers
<1> QED
  BY <1>1, AlwaysHooks, PTL
=============================================================================
