---------------------------- MODULE StatusProofs ----------------------------
(***************************************************************************)
(* What AnalysisService tells the tray and leaves to AEDT, proved for      *)
(* every set of tasks, clients and workers: the status file, the order of  *)
(* an attempt, and the locks of a running AEDT.                            *)
(***************************************************************************)
EXTENDS AnalysisServiceProofs

(* Where the worker has published its status since its process began.      *)
Announced == Working \cup {"next", "take", "clear", "sleep"}

(* Where it has no task to name, and where it names the one in hand.       *)
BetweenTasks == Starting \cup {"top", "detach", "gate", "report", "serve", "next", "take", "sleep", "load"}
InTask == {"open", "solve", "close_ok", "close_fail", "result", "file"}

StatusInv ==
    LET p == pc[TrayWorker]
    IN  /\ p \in Announced => statusFile = cache
        /\ p \in Announced \ {"sleep"} => cache.state = "running"
        /\ p \in BetweenTasks => cache.task = NoTask
        /\ p \in InTask => cache.task = cur[TrayWorker]
        /\ statusFile.state = "released" => desktop[TrayWorker] = "none" /\ p \in Apart

LEMMA StatusInit == Init => StatusInv
  BY WorkerAssumption DEF Init, WorkerInit, StatusInv, Announced, BetweenTasks, InTask, Working, Starting, NoStatus

(* What StatusInv is about.                                                *)
Shown == <<pc[TrayWorker], cur[TrayWorker], desktop[TrayWorker], cache, statusFile>>

LEMMA StatusSame ==
  ASSUME StatusInv, UNCHANGED Shown
  PROVE  StatusInv'
  BY DEF StatusInv, Shown

(* A worker without a tray leaves all of it alone.                         *)
LEMMA OthersHide ==
  ASSUME IInv, NEW w \in Worker, w # TrayWorker, WorkerStep(w) \/ StartAlone(w) \/ Crash(w)
  PROVE  UNCHANGED Shown
  <1> USE WorkerAssumption DEF Shown, IInv, TypeOK, WorkerTypeOK, Goto, Control, Kill, SetState, SetCurrent, Publish,
        queueVars, lockVars, taskVars, processVars, statusVars
  <1>1. CASE StartUp(w)
    BY <1>1 DEF StartUp, BootScan, RecoverOne, RecoverRaises, RecoverDone, KeepLock, CondemnLock, Unlink,
          UnlinkFails, Sweep, LocksDone
  <1>2. CASE Loop(w)
    BY <1>2 DEF Loop, Top, Leave, Detach, Gate, Report, Serve, NextTask, EndBatch, Wake
  <1>3. CASE Take(w) \/ TakeMissed(w) \/ TakeRaises(w) \/ Load(w) \/ Open(w) \/ OpenRaises(w) \/ Solve(w)
             \/ SolveRaises(w) \/ Close(w)
    BY <1>3 DEF Take, TakeMissed, TakeRaises, Load, Open, OpenRaises, TakeLock, Attach, Solve, SolveRaises, Close
  <1>4. CASE WriteResult(w) \/ WriteResultRaises(w) \/ FileDone(w) \/ FileDoneRaises(w) \/ FailMove(w)
             \/ FailLog(w) \/ FinishFailureRaises(w) \/ FailResult(w) \/ Clear(w)
    BY <1>4 DEF WriteResult, WriteResultRaises, FileDone, FileDoneRaises, FailMove, FailLog, FinishFailureRaises,
          FailResult, Clear
  <1>5. CASE StartAlone(w) \/ Crash(w)
    BY <1>5 DEF StartAlone, Spawn, Crash
  <1> QED
    BY <1>1, <1>2, <1>3, <1>4, <1>5 DEF WorkerStep, ProcessOne

(* A killed process leaves a file, and no AEDT connection.                 *)
LEMMA StatusAfterKill ==
  ASSUME IInv, StatusInv, Kill(TrayWorker), UNCHANGED statusVars
  PROVE  StatusInv'
  BY WorkerAssumption DEF StatusInv, IInv, TypeOK, WorkerTypeOK, Kill, statusVars, Announced, BetweenTasks, InTask,
     Apart, Working, Starting

(* The steps of the tray's worker.                                         *)
LEMMA StatusOfWorker ==
  ASSUME ~StatusFaults, IInv, StatusInv, WorkerStep(TrayWorker)
  PROVE  StatusInv'
  <1> DEFINE w == TrayWorker
  <1> USE WorkerAssumption DEF StatusInv, IInv, TypeOK, WorkerTypeOK, Status, Goto, Control,
        SetState, SetCurrent, Publish, taskVars, statusVars,
        Announced, BetweenTasks, InTask, Apart, Working, Starting
  <1>1. CASE StartUp(w)
    <2>1. CASE RecoverRaises(w)
      BY <2>1, StatusAfterKill DEF RecoverRaises
    <2>2. CASE BootScan(w) \/ RecoverOne(w) \/ RecoverDone(w) \/ KeepLock(w) \/ CondemnLock(w) \/ Unlink(w)
               \/ UnlinkFails(w) \/ Sweep(w) \/ LocksDone(w)
      BY <2>2 DEF BootScan, RecoverOne, RecoverDone, KeepLock, CondemnLock, Unlink, UnlinkFails, Sweep, LocksDone
    <2> QED
      BY <1>1, <2>1, <2>2 DEF StartUp
  <1>2. CASE Top(w)
    BY <1>2 DEF Top
  <1>3. CASE Leave(w)
    BY <1>3, StatusAfterKill DEF Leave
  <1>4. CASE Detach(w)
    BY <1>4 DEF Detach
  <1>5. CASE Gate(w)
    BY <1>5 DEF Gate
  <1>6. CASE Report(w)
    BY <1>6 DEF Report
  <1>7. CASE Serve(w)
    BY <1>7 DEF Serve
  <1>8. CASE NextTask(w) \/ EndBatch(w) \/ Wake(w)
    BY <1>8 DEF NextTask, EndBatch, Wake
  <1>9. CASE Take(w) \/ TakeMissed(w) \/ TakeRaises(w)
    BY <1>9 DEF Take, TakeMissed, TakeRaises
  <1>10. CASE Load(w)
    BY <1>10 DEF Load
  <1>11. CASE Open(w) \/ OpenRaises(w)
    BY <1>11 DEF Open, OpenRaises, TakeLock, Attach
  <1>12. CASE Solve(w) \/ SolveRaises(w) \/ Close(w) \/ WriteResult(w) \/ WriteResultRaises(w)
    BY <1>12 DEF Solve, SolveRaises, Close, WriteResult, WriteResultRaises
  <1>13. CASE FileDone(w) \/ FileDoneRaises(w) \/ FailMove(w) \/ FailLog(w) \/ FinishFailureRaises(w) \/ FailResult(w)
    BY <1>13 DEF FileDone, FileDoneRaises, FailMove, FailLog, FinishFailureRaises, FailResult
  <1>14. CASE Clear(w)
    BY <1>14 DEF Clear
  <1> QED
    BY <1>1, <1>2, <1>3, <1>4, <1>5, <1>6, <1>7, <1>8, <1>9, <1>10, <1>11, <1>12, <1>13, <1>14
    DEF WorkerStep, Loop, ProcessOne

(* The tray terminates and starts its worker, and writes no status.        *)
LEMMA StatusOfTray ==
  ASSUME IInv, StatusInv, TrayStep
  PROVE  StatusInv'
  <1>1. CASE StartWorker
    BY <1>1, WorkerAssumption DEF StartWorker, Spawn, Goto, taskVars, NoStatus, StatusInv, IInv, TypeOK, WorkerTypeOK,
       Announced, BetweenTasks, InTask, Apart, Working, Starting
  <1>2. CASE StopTerminate \/ ExitTerminate \/ ResetTerminate
    <2>1. Terminate /\ UNCHANGED statusVars
      BY <1>2 DEF StopTerminate, ExitTerminate, ResetTerminate, trayUnchanged
    <2> QED
      BY <2>1, StatusAfterKill, StatusSame DEF Terminate, Shown, processVars, taskVars, statusVars
  <1>3. CASE ToggleRelease \/ StopCurrentRun \/ Exit \/ Reset \/ NewTray
    <2>1. UNCHANGED <<processVars, statusVars>>
      BY <1>3 DEF ToggleRelease, StopCurrentRun, Exit, Reset, NewTray, trayUnchanged
    <2> QED
      BY <2>1, StatusSame DEF Shown, processVars, taskVars, statusVars
  <1> QED
    BY <1>1, <1>2, <1>3 DEF TrayStep

LEMMA StatusNext ==
  ASSUME ~StatusFaults, IInv, StatusInv, [Next]_vars
  PROVE  StatusInv'
  <1>1. ASSUME NEW w \in Worker, WorkerStep(w) \/ StartAlone(w) \/ Crash(w)
        PROVE  StatusInv'
    <2>1. CASE w # TrayWorker
      BY <1>1, <2>1, OthersHide, StatusSame
    <2>2. CASE w = TrayWorker /\ Crash(w)
      BY <2>2, StatusAfterKill DEF Crash
    <2> QED
      BY <1>1, <2>1, <2>2, StatusOfWorker DEF StartAlone
  <1>2. CASE AedtStep
    <2>1. CASE AedtDies
      BY <2>1, WorkerAssumption DEF AedtDies, StatusInv, statusVars, IInv, TypeOK, WorkerTypeOK
    <2>2. CASE UNCHANGED workerVars
      BY <2>2, StatusSame DEF Shown, workerVars, processVars, taskVars, statusVars
    <2> QED
      BY <1>2, <2>1, <2>2 DEF AedtStep
  <1>3. CASE UNCHANGED workerVars
    BY <1>3, StatusSame DEF Shown, workerVars, processVars, taskVars, statusVars
  <1> QED
    BY <1>1, <1>2, <1>3, StatusOfTray DEF Next, vars

LEMMA StatusInvariance ==
  ASSUME ~StatusFaults
  PROVE  Spec => [](IInv /\ StatusInv)
  <1>1. IInv /\ StatusInv /\ [Next]_vars => StatusInv'
    BY StatusNext
  <1> QED
    BY <1>1, StatusInit, Invariance, PTL DEF Spec

(* If status writes succeed, the menu says "Released" only while the       *)
(* worker has no AEDT connection and no task, whoever started and ended    *)
(* the process that wrote it.                                              *)
THEOREM LabelTruthful ==
  ASSUME ~StatusFaults
  PROVE  Spec => []ReleasedLabelTruthful
  <1>1. StatusInv => ReleasedLabelTruthful
    BY DEF StatusInv, ReleasedLabelTruthful, LabelReleased, Detached
  <1> QED
    BY <1>1, StatusInvariance, PTL

(* Then "Stop current run" names the task it would abort, and is offered   *)
(* for none while the worker looks for work.                               *)
THEOREM StatusTruthful ==
  ASSUME ~StatusFaults
  PROVE  Spec => []StatusNamesTheTask
  <1>1. StatusInv => StatusNamesTheTask
    BY DEF StatusInv, StatusNamesTheTask, Announced, BetweenTasks, InTask, Working
  <1> QED
    BY <1>1, StatusInvariance, PTL

-----------------------------------------------------------------------------
(* A detached worker that still reads the release as set goes round its    *)
(* loop, or through a start-up, without AEDT and without a task.           *)
LEMMA DetachedWorker ==
  ASSUME IInv, Detached, release', WorkerStep(TrayWorker)
  PROVE  Detached'
  <1> DEFINE w == TrayWorker
  <1> USE WorkerAssumption DEF Detached, Apart, Starting, IInv, TypeOK, WorkerTypeOK, Goto, Control, Kill, IsPaused,
        taskVars
  <1>1. CASE StartUp(w)
    BY <1>1 DEF StartUp, BootScan, RecoverOne, RecoverRaises, RecoverDone, KeepLock, CondemnLock, Unlink,
       UnlinkFails, Sweep, LocksDone
  <1>2. CASE Loop(w)
    BY <1>2 DEF Loop, Top, Leave, Detach, Gate, Report, Serve, NextTask, EndBatch, Wake
  <1>3. CASE ProcessOne(w)
    BY <1>3 DEF ProcessOne, Take, TakeMissed, TakeRaises, Load, Open, OpenRaises, Solve, SolveRaises, Close,
       WriteResult, WriteResultRaises, FileDone, FileDoneRaises, FailMove, FailLog, FinishFailureRaises, FailResult, Clear
  <1> QED
    BY <1>1, <1>2, <1>3 DEF WorkerStep

(* The tray ends and starts the process, which keeps it detached.          *)
LEMMA DetachedTray ==
  ASSUME IInv, Detached, release', TrayStep
  PROVE  Detached'
  <1> USE WorkerAssumption DEF Detached, Apart, Starting, IInv, TypeOK, WorkerTypeOK, processVars, taskVars
  <1>1. CASE StartWorker
    BY <1>1 DEF StartWorker, Spawn, Goto
  <1>2. CASE StopTerminate \/ ExitTerminate \/ ResetTerminate
    BY <1>2 DEF StopTerminate, ExitTerminate, ResetTerminate, Terminate, Kill
  <1>3. CASE ToggleRelease \/ StopCurrentRun \/ Exit \/ Reset \/ NewTray
    BY <1>3 DEF ToggleRelease, StopCurrentRun, Exit, Reset, NewTray
  <1> QED
    BY <1>1, <1>2, <1>3 DEF TrayStep

(* A release the worker has followed holds until it is taken back: with    *)
(* any number of workers, with status writes and file operations that      *)
(* fail, and through every Stop, restart and crash. Only the user's toggle *)
(* and the new events of a new tray (Reset, or Exit and a start) end it.   *)
THEOREM ReleaseStands == Spec => ReleaseKept
  <1>1. ASSUME IInv, [Next]_vars
        PROVE  [Detached /\ release' => Detached']_vars
    <2> SUFFICES ASSUME Next, Detached, release' PROVE Detached'
      BY <1>1
    <2>1. CASE UNCHANGED <<pc[TrayWorker], desktop[TrayWorker]>>
      BY <2>1 DEF Detached
    <2>2. ASSUME NEW w \in Worker, WorkerStep(w) \/ StartAlone(w) \/ Crash(w)
          PROVE  Detached'
      <3>1. CASE w # TrayWorker
        BY <1>1, <2>1, <2>2, <3>1, OthersHide DEF Shown
      <3>2. CASE w = TrayWorker /\ Crash(w)
        BY <1>1, <3>2 DEF Crash, Kill, Detached, Apart, IInv, TypeOK, WorkerTypeOK
      <3> QED
        BY <1>1, <2>2, <3>1, <3>2, DetachedWorker DEF StartAlone
    <2>3. CASE AedtStep
      <3>1. CASE AedtDies
        BY <3>1, WorkerAssumption DEF AedtDies, Detached
      <3>2. CASE UNCHANGED workerVars
        BY <2>1, <3>2 DEF workerVars, processVars, taskVars
      <3> QED
        BY <2>3, <3>1, <3>2 DEF AedtStep
    <2>4. CASE UNCHANGED workerVars
      BY <2>1, <2>4 DEF workerVars, processVars, taskVars
    <2> QED
      BY <1>1, <2>2, <2>3, <2>4, DetachedTray DEF Next
  <1> QED
    BY <1>1, Invariance, PTL DEF Spec, ReleaseKept

-----------------------------------------------------------------------------
(* A worker's next stand is one TaskAttempt allows.                        *)
LEMMA AttemptStep ==
  ASSUME IInv, NEW w \in Worker, WorkerStep(w) \/ StartAlone(w) \/ Crash(w)
  PROVE  /\ Attempt(w)!Next \/ UNCHANGED StandOf(w)
         /\ \A v \in Worker \ {w} : UNCHANGED pc[v]
  <1> USE DEF IInv, TypeOK, WorkerTypeOK, Goto, Control, Kill, StandOf, Working, Attempt!Next, Attempt!Goes
  <1>1. CASE StartUp(w)
    BY <1>1 DEF StartUp, BootScan, RecoverOne, RecoverRaises, RecoverDone, KeepLock, CondemnLock, Unlink,
       UnlinkFails, Sweep, LocksDone
  <1>2. CASE Loop(w)
    BY <1>2 DEF Loop, Top, Leave, Detach, Gate, Report, Serve, NextTask, EndBatch, Wake
  <1>3. CASE Take(w) \/ TakeMissed(w) \/ TakeRaises(w)
    BY <1>3 DEF Take, TakeMissed, TakeRaises
  <1>4. CASE Load(w)
    BY <1>4 DEF Load, Attempt!Load
  <1>5. CASE Open(w) \/ OpenRaises(w)
    BY <1>5 DEF Open, OpenRaises, Attempt!Open
  <1>6. CASE Solve(w) \/ SolveRaises(w)
    BY <1>6 DEF Solve, SolveRaises, Attempt!Solve
  <1>7. CASE Close(w)
    BY <1>7 DEF Close, Attempt!Close
  <1>8. CASE WriteResult(w) \/ WriteResultRaises(w)
    BY <1>8 DEF WriteResult, WriteResultRaises, Attempt!WriteResult
  <1>9. CASE FileDone(w) \/ FileDoneRaises(w)
    BY <1>9 DEF FileDone, FileDoneRaises, Attempt!FileDone
  <1>10. CASE FailMove(w)
    <2>1. pc[w] = "fail" /\ \E to \in {"log", "log_here"} : pc' = [pc EXCEPT ![w] = to]
      BY <1>10 DEF FailMove
    <2> QED
      BY <2>1
  <1>11. CASE FailLog(w) \/ FinishFailureRaises(w) \/ FailResult(w) \/ Clear(w)
    BY <1>11 DEF FailLog, FinishFailureRaises, FailResult, Clear, Attempt!Fail
  <1>12. CASE StartAlone(w) \/ Crash(w)
    BY <1>12 DEF StartAlone, Spawn, Crash, Attempt!Kill
  <1> QED
    BY <1>1, <1>2, <1>3, <1>4, <1>5, <1>6, <1>7, <1>8, <1>9, <1>10, <1>11, <1>12 DEF WorkerStep, ProcessOne

(* The tray kills an attempt or leaves it alone.                           *)
LEMMA AttemptOfTray ==
  ASSUME IInv, TrayStep, NEW w \in Worker
  PROVE  Attempt(w)!Next \/ UNCHANGED StandOf(w)
  <1>1. CASE w # TrayWorker \/ UNCHANGED pc
    BY <1>1, WorkerAssumption DEF TrayStep, ToggleRelease, StopCurrentRun, StopTerminate, StartWorker, Exit, ExitTerminate,
       Reset, ResetTerminate, NewTray, Terminate, Kill, Spawn, Goto, processVars, IInv, TypeOK, WorkerTypeOK, StandOf
  <1>2. CASE Kill(TrayWorker)
    BY <1>1, <1>2 DEF Kill, IInv, TypeOK, WorkerTypeOK, StandOf, Working, Attempt!Next, Attempt!Kill
  <1>3. CASE StartWorker
    BY <1>1, <1>3 DEF StartWorker, Spawn, Goto, IInv, TypeOK, WorkerTypeOK, StandOf, Working
  <1> QED
    BY <1>1, <1>2, <1>3 DEF TrayStep, ToggleRelease, StopCurrentRun, StopTerminate, Exit, ExitTerminate,
       Reset, ResetTerminate, NewTray, Terminate, processVars

(* Every worker goes through its tasks in the order of TaskAttempt, with   *)
(* any number of workers, failing files, and kills at every step.          *)
THEOREM ImplementsAttempts == Spec => AttemptsSpec
  <1>1. Init => \A w \in Worker : Attempt(w)!Init
    BY DEF Init, WorkerInit, Attempt!Init, StandOf, Working
  <1>2. ASSUME IInv, [Next]_vars
        PROVE  [\A w \in Worker : Attempt(w)!Next \/ UNCHANGED StandOf(w)]_vars
    <2> SUFFICES ASSUME Next, NEW w \in Worker
                 PROVE  Attempt(w)!Next \/ UNCHANGED StandOf(w)
      BY <1>2
    <2>1. CASE UNCHANGED pc
      BY <2>1 DEF StandOf
    <2>2. ASSUME NEW v \in Worker, WorkerStep(v) \/ StartAlone(v) \/ Crash(v)
          PROVE  Attempt(w)!Next \/ UNCHANGED StandOf(w)
      BY <1>2, <2>2, AttemptStep DEF StandOf
    <2> QED
      BY <1>2, <2>1, <2>2, AttemptOfTray
      DEF Next, AedtStep, AedtDies, workerVars, processVars
  <1> QED
    BY <1>1, <1>2, Invariance, PTL DEF Spec, AttemptsSpec

-----------------------------------------------------------------------------
(* What a worker has condemned is not the lock of a running AEDT.          *)
UnlinkInv == pc[TrayWorker] = "unlink" => lock[cur[TrayWorker]] # "live"

(* A worker unlinks what it condemned, closes what it opened.              *)
LEMMA LocksOfWorker ==
  ASSUME IInv, UnlinkInv, WorkerStep(TrayWorker)
  PROVE  /\ UnlinkInv'
         /\ \A t \in Task : lock[t] = "live" /\ lock'[t] = "none" =>
               cur[TrayWorker] = t /\ pc[TrayWorker] \in {"close_ok", "close_fail"}
  <1> DEFINE w == TrayWorker
  <1> USE WorkerAssumption DEF UnlinkInv, IInv, TypeOK, WorkerTypeOK, LocksTypeOK, Owner, Goto, Control, Kill,
        lockVars, taskVars
  <1>1. CASE StartUp(w)
    BY <1>1 DEF StartUp, BootScan, RecoverOne, RecoverRaises, RecoverDone, KeepLock, CondemnLock, JudgedStale, Unlink,
       UnlinkFails, Sweep, LocksDone
  <1>2. CASE Loop(w)
    BY <1>2 DEF Loop, Top, Leave, Detach, Gate, Report, Serve, NextTask, EndBatch, Wake
  <1>3. CASE Open(w) \/ OpenRaises(w)
    BY <1>3 DEF Open, OpenRaises, TakeLock
  <1>4. CASE Close(w)
    BY <1>4 DEF Close, DropLock
  <1>5. CASE Take(w) \/ TakeMissed(w) \/ TakeRaises(w) \/ Load(w) \/ Solve(w) \/ SolveRaises(w)
             \/ WriteResult(w) \/ WriteResultRaises(w)
    BY <1>5 DEF Take, TakeMissed, TakeRaises, Load, Solve, SolveRaises, WriteResult, WriteResultRaises
  <1>6. CASE FileDone(w) \/ FileDoneRaises(w) \/ FailMove(w) \/ FailLog(w) \/ FinishFailureRaises(w) \/ FailResult(w)
             \/ Clear(w)
    BY <1>6 DEF FileDone, FileDoneRaises, FailMove, FailLog, FinishFailureRaises, FailResult, Clear
  <1> QED
    BY <1>1, <1>2, <1>3, <1>4, <1>5, <1>6 DEF WorkerStep, ProcessOne

(* AEDT itself gives a lock up by dying, which leaves it "dead".           *)
LEMMA LocksOfAedt ==
  ASSUME IInv, UnlinkInv, AedtStep
  PROVE  /\ UnlinkInv'
         /\ \A t \in Task : lock[t] = "live" => lock'[t] # "none"
  <1> USE WorkerAssumption DEF UnlinkInv, IInv, TypeOK, WorkerTypeOK, WorkerHasTask, LocksTypeOK, Owner,
        workerVars, processVars, taskVars
  <1>1. CASE AedtDies
    BY <1>1 DEF AedtDies, LocksOfTheDead
  <1>2. CASE AedtStarts /\ UNCHANGED workerVars
    BY <1>2 DEF AedtStarts
  <1>3. ASSUME NEW t \in Task, ForeignOpen(t) \/ ForeignClose(t) \/ EvidenceChanges(t), UNCHANGED workerVars
        PROVE  /\ UnlinkInv'
               /\ \A u \in Task : lock[u] = "live" => lock'[u] # "none"
    BY <1>3 DEF ForeignOpen, ForeignClose, EvidenceChanges
  <1> QED
    BY <1>1, <1>2, <1>3 DEF AedtStep

LEMMA LocksNext ==
  ASSUME Worker = {TrayWorker}, IInv, UnlinkInv, [Next]_vars
  PROVE  /\ UnlinkInv'
         /\ [\A t \in Task : lock[t] = "live" /\ lock'[t] = "none" =>
               \E w \in Worker : cur[w] = t /\ pc[w] \in {"close_ok", "close_fail"}]_vars
  <1>1. CASE WorkerStep(TrayWorker)
    BY <1>1, LocksOfWorker
  <1>2. CASE AedtStep
    BY <1>2, LocksOfAedt
  <1>3. CASE UNCHANGED lock /\ (UNCHANGED <<pc, cur>> \/ pc'[TrayWorker] \in {"dead", "boot"})
    BY <1>3, WorkerAssumption DEF UnlinkInv
  <1>4. CASE TrayStep
    BY <1>3, <1>4, WorkerAssumption DEF TrayStep, ToggleRelease, StopCurrentRun, StopTerminate, StartWorker, Exit,
       ExitTerminate, Reset, ResetTerminate, NewTray, Terminate, Kill, Spawn, Goto, trayUnchanged, lockVars,
       processVars, taskVars, IInv, TypeOK, WorkerTypeOK
  <1>5. ASSUME NEW w \in Worker, StartAlone(w) \/ Crash(w)
        PROVE  UNCHANGED lock /\ pc'[TrayWorker] \in {"dead", "boot"}
    BY <1>5, WorkerAssumption DEF StartAlone, Spawn, Crash, Kill, Goto, lockVars, IInv, TypeOK, WorkerTypeOK
  <1>6. CASE UNCHANGED <<lock, pc, cur>>
    BY <1>3, <1>6
  <1> QED
    BY <1>1, <1>2, <1>3, <1>4, <1>5, <1>6 DEF Next, vars, lockVars, workerVars, processVars, taskVars

(* While one worker serves the queue, nothing but closing the project      *)
(* removes the lock of a running AEDT, with locks of other machines, an    *)
(* AEDT that dies and a worker that is killed and recovers at every step.  *)
THEOREM LiveLocks ==
  ASSUME Worker = {TrayWorker}
  PROVE  Spec => LiveLockKept
  <1>1. Init => UnlinkInv
    BY WorkerAssumption DEF Init, WorkerInit, UnlinkInv
  <1>2. IInv /\ UnlinkInv /\ [Next]_vars => UnlinkInv'
    BY LocksNext
  <1>3. IInv /\ UnlinkInv /\ [Next]_vars =>
          [\A t \in Task : lock[t] = "live" /\ lock'[t] = "none" =>
               \E w \in Worker : cur[w] = t /\ pc[w] \in {"close_ok", "close_fail"}]_vars
    BY LocksNext
  <1> QED
    BY <1>1, <1>2, <1>3, Invariance, PTL DEF Spec, LiveLockKept

-----------------------------------------------------------------------------
(* What the start-up of a worker knows: the tasks it has put back wait in  *)
(* pending/, and the lock it has deleted is not one of this machine again. *)
RecoveryInv ==
    LET p == pc[TrayWorker]
    IN  /\ p \in {"dead", "boot"} => recovered[TrayWorker] = {}
        /\ p = "recover" => recovered[TrayWorker] \subseteq files["pending"]
        /\ p \in {"locks", "unlink", "sweep"} => todo[TrayWorker] \subseteq files["pending"]
        /\ p \in {"dead", "boot", "recover", "locks"} => cur[TrayWorker] = NoTask
        /\ p = "sweep" => lock[cur[TrayWorker]] \in {"none", "foreign"}

(* The property for one worker and one step.                               *)
NotForgotten(w) ==
    \A t \in ToJudge(w) \ {NoTask} :
        lock[t] = "dead" /\ NamesProject(t) =>
            t \in ToJudge(w)' \/ lock'[t] # "dead" \/ pc'[w] = "dead"

LEMMA RecoveryOfWorker ==
  ASSUME ~IoFaults, IInv, RecoveryInv, WorkerStep(TrayWorker)
  PROVE  RecoveryInv' /\ NotForgotten(TrayWorker)
  <1> DEFINE w == TrayWorker
  <1> USE WorkerAssumption, NoTaskIsNoTask
      DEF RecoveryInv, NotForgotten, ToJudge, IInv, TypeOK, QueueTypeOK, WorkerTypeOK, LocksTypeOK, WorkerHasTask, Working,
        Goto, Control, Kill, queueVars, otherFiles, lockVars, taskVars, Stage
  <1>1. CASE StartUp(w)
    <2>1. CASE BootScan(w)
      BY <1>1, <2>1 DEF BootScan
    <2>2. CASE RecoverOne(w)
      BY <1>1, <2>2 DEF RecoverOne, Move
    <2>3. CASE RecoverRaises(w)
      BY <1>1, <2>3 DEF RecoverRaises
    <2>4. CASE RecoverDone(w)
      BY <1>1, <2>4 DEF RecoverDone
    <2>5. CASE KeepLock(w)
      BY <1>1, <2>5 DEF KeepLock, JudgedKept
    <2>6. CASE CondemnLock(w)
      BY <1>1, <2>6 DEF CondemnLock
    <2>7. CASE Unlink(w)
      BY <1>1, <2>7 DEF Unlink
    <2>8. CASE Sweep(w)
      BY <1>1, <2>8 DEF Sweep
    <2>9. CASE LocksDone(w)
      BY <1>1, <2>9 DEF LocksDone
    <2> QED
      BY <1>1, <2>1, <2>2, <2>3, <2>4, <2>5, <2>6, <2>7, <2>8, <2>9 DEF StartUp, UnlinkFails
  <1>2. CASE Loop(w)
    BY <1>2 DEF Loop, Top, Leave, Detach, Gate, Report, Serve, NextTask, EndBatch, Wake
  <1>3. CASE ProcessOne(w)
    <2>1. CASE Take(w) \/ TakeMissed(w) \/ TakeRaises(w) \/ Load(w)
      BY <2>1 DEF Take, TakeMissed, TakeRaises, Load
    <2>2. CASE Open(w) \/ OpenRaises(w) \/ Solve(w) \/ SolveRaises(w) \/ Close(w)
      BY <2>2 DEF Open, OpenRaises, Solve, SolveRaises, Close
    <2>3. CASE WriteResult(w) \/ WriteResultRaises(w) \/ FileDone(w) \/ FileDoneRaises(w)
      BY <2>3 DEF WriteResult, WriteResultRaises, FileDone, FileDoneRaises
    <2>4. CASE FailMove(w) \/ FailLog(w) \/ FinishFailureRaises(w) \/ FailResult(w) \/ Clear(w)
      BY <2>4 DEF FailMove, FailLog, FinishFailureRaises, FailResult, Clear
    <2> QED
      BY <1>3, <2>1, <2>2, <2>3, <2>4 DEF ProcessOne
  <1> QED
    BY <1>1, <1>2, <1>3 DEF WorkerStep

(* Clients put tasks into pending/ and take none out.                      *)
LEMMA PendingOfClient ==
  ASSUME IInv, NEW c \in Client, ClientStep(c)
  PROVE  files["pending"] \subseteq files'["pending"]
  <1> USE DEF IInv, TypeOK, QueueTypeOK, Stage, folderVars
  <1>1. CASE UNCHANGED files
    BY <1>1
  <1>2. CASE WriteTask(c) \/ RemoveFile(c) \/ RetryMove(c)
    BY <1>2 DEF WriteTask, RemoveFile, RetryMove, Move, MoveFails
  <1> QED
    BY <1>1, <1>2 DEF ClientStep, CopyProject, AskStatus, AskTask, Probe, OpenFound, RetryStart, RetryClearLog,
       RemoveLog, RemoveTree, ClientCrash

(* Whoever is not a worker leaves the recovery alone or ends the process.  *)
LEMMA RecoveryOfOthers ==
  ASSUME IInv, RecoveryInv, files["pending"] \subseteq files'["pending"],
         UNCHANGED <<pc, cur, todo, recovered>>,
         \A t \in Task : lock[t] \in {"none", "foreign"} => lock'[t] \in {"none", "foreign"}
  PROVE  RecoveryInv' /\ NotForgotten(TrayWorker)
  BY WorkerAssumption DEF RecoveryInv, NotForgotten, ToJudge, IInv, TypeOK, LocksTypeOK, Owner, WorkerHasTask

LEMMA RecoveryOfAedt ==
  ASSUME IInv, RecoveryInv, AedtStep
  PROVE  RecoveryInv' /\ NotForgotten(TrayWorker)
  <1>1. UNCHANGED <<files, pc, cur, todo, recovered>>
    BY DEF AedtStep, AedtDies, workerVars, processVars, taskVars, queueVars
  <1>2. \A t \in Task : lock[t] \in {"none", "foreign"} => lock'[t] \in {"none", "foreign"}
    BY DEF AedtStep, AedtDies, LocksOfTheDead, AedtStarts, ForeignOpen, ForeignClose, EvidenceChanges, IInv, TypeOK, LocksTypeOK
  <1> QED
    BY <1>1, <1>2, RecoveryOfOthers

LEMMA RecoveryOfTray ==
  ASSUME IInv, RecoveryInv, TrayStep
  PROVE  RecoveryInv' /\ NotForgotten(TrayWorker)
  <1>1. UNCHANGED <<files, lock>>
    BY DEF TrayStep, ToggleRelease, StopCurrentRun, StopTerminate, StartWorker, Exit, ExitTerminate, Reset,
       ResetTerminate, NewTray, trayUnchanged, queueVars, lockVars
  <1>2. CASE UNCHANGED <<pc, cur, todo, recovered>>
    BY <1>1, <1>2, RecoveryOfOthers
  <1>3. CASE StartWorker
    BY <1>1, <1>3, WorkerAssumption DEF StartWorker, Spawn, Goto, taskVars, RecoveryInv, NotForgotten, ToJudge, IInv,
       TypeOK, WorkerTypeOK
  <1>4. CASE Kill(TrayWorker)
    BY <1>4, WorkerAssumption DEF Kill, RecoveryInv, NotForgotten, IInv, TypeOK, WorkerTypeOK
  <1> QED
    BY <1>2, <1>3, <1>4 DEF TrayStep, ToggleRelease, StopCurrentRun, StopTerminate, Exit, ExitTerminate, Reset,
       ResetTerminate, NewTray, Terminate, processVars, taskVars

LEMMA RecoveryNext ==
  ASSUME ~IoFaults, Worker = {TrayWorker}, IInv, RecoveryInv, [Next]_vars
  PROVE  RecoveryInv' /\ NotForgotten(TrayWorker)
  <1>1. CASE UNCHANGED <<lock, pc, cur, todo, recovered>> /\ files["pending"] \subseteq files'["pending"]
    BY <1>1, RecoveryOfOthers
  <1>2. ASSUME NEW c \in Client, ClientStep(c), UNCHANGED <<lockVars, workerVars, tray>>
        PROVE  RecoveryInv' /\ NotForgotten(TrayWorker)
    BY <1>1, <1>2, PendingOfClient DEF lockVars, workerVars, processVars, taskVars
  <1>3. ASSUME NEW w \in Worker, WorkerStep(w) \/ StartAlone(w) \/ Crash(w)
        PROVE  RecoveryInv' /\ NotForgotten(TrayWorker)
    <2>1. CASE Crash(w)
      BY <2>1, WorkerAssumption DEF Crash, Kill, RecoveryInv, NotForgotten, IInv, TypeOK, WorkerTypeOK
    <2> QED
      BY <1>3, <2>1, RecoveryOfWorker DEF StartAlone
  <1>4. CASE UNCHANGED vars
    BY <1>1, <1>4 DEF vars, queueVars, lockVars, workerVars, processVars, taskVars
  <1> QED
    BY <1>2, <1>3, <1>4, RecoveryOfAedt, RecoveryOfTray DEF Next

(* While one worker serves the queue and its files can be read and moved,  *)
(* a start-up that is not killed sees to every lock of an AEDT that can be *)
(* shown to be dead, in each project it recovered whose file names it,     *)
(* whatever clients, AEDT and other machines do meanwhile. A lock that     *)
(* names no process, or one psutil cannot tell of, may stay; a second kill *)
(* is what the code does not survive (RecoveredLocksCleared).              *)
THEOREM RecoveryThorough ==
  ASSUME ~IoFaults, Worker = {TrayWorker}
  PROVE  Spec => DeadLocksSeenTo
  <1>1. Init => RecoveryInv
    BY WorkerAssumption DEF Init, WorkerInit, RecoveryInv
  <1>2. IInv /\ RecoveryInv /\ [Next]_vars => RecoveryInv'
    BY RecoveryNext
  <1>3. IInv /\ RecoveryInv /\ [Next]_vars =>
          [\A w \in Worker : \A t \in ToJudge(w) \ {NoTask} :
             lock[t] = "dead" /\ NamesProject(t) =>
                 t \in ToJudge(w)' \/ lock'[t] # "dead" \/ pc'[w] = "dead"]_vars
    BY RecoveryNext DEF NotForgotten
  <1> QED
    BY <1>1, <1>2, <1>3, Invariance, PTL DEF Spec, DeadLocksSeenTo
=============================================================================
