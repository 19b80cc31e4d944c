------------------------ MODULE AnalysisServiceProofs ------------------------
(***************************************************************************)
(* Proofs about AnalysisService for every set of tasks, clients and        *)
(* workers and every setting of the switches.                              *)
(***************************************************************************)
EXTENDS AnalysisService, TLAPS

(* A client that is in an operation, or has an answer, has a task.         *)
ClientHasTask ==
    \A c \in Client : ~Idle(c) \/ client[c].saw # "none" => client[c].task \in Task

(* A worker that is about to touch a task's files or locks has a task.     *)
WorkerHasTask ==
    \A w \in Worker : pc[w] \in Working \cup {"unlink", "sweep", "take", "clear"} => cur[w] \in Task

IInv == TypeOK /\ ClientHasTask /\ WorkerHasTask

LEMMA NoTaskIsNoTask == NoTask \notin Task
  BY TaskAssumption DEF NoTask

-----------------------------------------------------------------------------
LEMMA InitIInv == Init => IInv
  <1> SUFFICES ASSUME Init PROVE IInv
    OBVIOUS
  <1> USE DEF Init
  <1>1. QueueTypeOK
    BY TimeAssumption DEF QueueInit, QueueTypeOK, Stage, ClientState, ClientPc, Answers
  <1>2. LocksTypeOK
    BY DEF LocksInit, LocksTypeOK, Owner
  <1>3. WorkerTypeOK
    BY DEF WorkerInit, WorkerTypeOK, Pc, Status, NoStatus
  <1>4. SupervisorTypeOK
    BY DEF SupervisorInit, SupervisorTypeOK, TrayStates
  <1>5. ClientHasTask
    BY DEF QueueInit, ClientHasTask, Idle
  <1>6. WorkerHasTask
    BY DEF WorkerInit, WorkerHasTask, Working
  <1> QED
    BY <1>1, <1>2, <1>3, <1>4, <1>5, <1>6 DEF IInv, TypeOK

-----------------------------------------------------------------------------
(* What a client's step does to the queue.                                 *)
LEMMA ClientStepType ==
  ASSUME QueueTypeOK, ClientHasTask, NEW c \in Client, ClientStep(c)
  PROVE  QueueTypeOK' /\ ClientHasTask'
  <1> USE TimeAssumption DEF QueueTypeOK, ClientHasTask, ClientState, ClientPc, Answers, Idle, At,
        Become, Advance, Finish, folderVars, ScanOrder, Stage
  <1>1. ASSUME NEW t \in Task, CopyProject(c, t) \/ AskStatus(c, t) \/ AskTask(c, t)
        PROVE  QueueTypeOK' /\ ClientHasTask'
    <2>1. CASE CopyProject(c, t)
      BY <2>1 DEF CopyProject
    <2>2. CASE AskStatus(c, t)
      BY <2>2 DEF AskStatus
    <2>3. CASE AskTask(c, t)
      BY <2>3 DEF AskTask
    <2> QED
      BY <1>1, <2>1, <2>2, <2>3
  <1>2. CASE WriteTask(c)
    BY <1>2 DEF WriteTask
  <1>3. CASE Probe(c)
    BY <1>3 DEF Probe
  <1>4. CASE OpenFound(c)
    BY <1>4 DEF OpenFound
  <1>5. CASE RetryStart(c)
    BY <1>5 DEF RetryStart
  <1>6. CASE RetryClearLog(c)
    BY <1>6 DEF RetryClearLog
  <1>7. CASE RetryMove(c)
    BY <1>7 DEF RetryMove, Move, MoveFails
  <1>8. CASE RemoveFile(c)
    BY <1>8 DEF RemoveFile
  <1>9. CASE RemoveLog(c)
    BY <1>9 DEF RemoveLog
  <1>10. CASE RemoveTree(c)
    BY <1>10 DEF RemoveTree
  <1>11. CASE ClientCrash(c)
    BY <1>11 DEF ClientCrash
  <1> QED
    BY <1>1, <1>2, <1>3, <1>4, <1>5, <1>6, <1>7, <1>8, <1>9, <1>10, <1>11 DEF ClientStep
-----------------------------------------------------------------------------
(* What a worker may rely on and touch: everything but the tray's state.   *)
ServiceInv == QueueTypeOK /\ ClientHasTask /\ LocksTypeOK /\ WorkerTypeOK /\ WorkerHasTask

(* A move of a task file, done or failed, within the types.                *)
LEMMA MoveType ==
  ASSUME files \in [Stage -> SUBSET Task], NEW t \in Task, NEW from \in Stage, NEW to \in Stage,
         Move(t, from, to) \/ MoveFails(t, to) \/ UNCHANGED files
  PROVE  files' \in [Stage -> SUBSET Task]
  BY DEF Move, MoveFails

(* The end of a process leaves the state of a worker that holds nothing.   *)
LEMMA KillType ==
  ASSUME WorkerTypeOK, WorkerHasTask, NEW w \in Worker, Kill(w), UNCHANGED statusVars,
         release' \in BOOLEAN, stop' \in BOOLEAN
  PROVE  WorkerTypeOK' /\ WorkerHasTask'
  <1>1. WorkerTypeOK'
    BY DEF WorkerTypeOK, Kill, Pc, statusVars
  <1>2. WorkerHasTask'
    BY DEF WorkerTypeOK, WorkerHasTask, Working, Kill
  <1> QED
    BY <1>1, <1>2

(* What the start-up of a worker does to the types.                        *)
LEMMA StartUpType ==
  ASSUME ServiceInv, NEW w \in Worker, StartUp(w)
  PROVE  ServiceInv'
  <1> USE NoTaskIsNoTask, WorkerAssumption DEF ServiceInv, QueueTypeOK, ClientHasTask, Idle, Stage, LocksTypeOK, Owner,
        WorkerTypeOK, WorkerHasTask, Pc, Starting, Working, Polling, Status, NoStatus, Goto, Control,
        queueVars, lockVars, taskVars, processVars, statusVars, eventVars, otherFiles, clientVars
  <1>1. CASE BootScan(w)
    BY <1>1 DEF BootScan
  <1>2. CASE RecoverOne(w)
    BY <1>2 DEF RecoverOne, Move
  <1>3. CASE RecoverRaises(w)
    <2>1. (WorkerTypeOK /\ WorkerHasTask)'
      BY <1>3, KillType DEF RecoverRaises
    <2>2. files' \in [Stage -> SUBSET Task]
      BY <1>3, MoveType DEF RecoverRaises
    <2> QED
      BY <1>3, <2>1, <2>2 DEF RecoverRaises
  <1>4. CASE RecoverDone(w)
    BY <1>4 DEF RecoverDone
  <1>5. CASE KeepLock(w)
    BY <1>5 DEF KeepLock
  <1>6. CASE CondemnLock(w)
    BY <1>6 DEF CondemnLock
  <1>7. CASE Unlink(w)
    BY <1>7 DEF Unlink
  <1>8. CASE UnlinkFails(w)
    BY <1>8 DEF UnlinkFails
  <1>9. CASE Sweep(w)
    BY <1>9 DEF Sweep
  <1>10. CASE LocksDone(w)
    BY <1>10 DEF LocksDone
  <1> QED
    BY <1>1, <1>2, <1>3, <1>4, <1>5, <1>6, <1>7, <1>8, <1>9, <1>10 DEF StartUp

(* What the loop of a worker does to them.                                 *)
LEMMA LoopType ==
  ASSUME ServiceInv, NEW w \in Worker, Loop(w)
  PROVE  ServiceInv'
  <1> USE NoTaskIsNoTask, WorkerAssumption DEF ServiceInv, QueueTypeOK, ClientHasTask, Idle, Stage, LocksTypeOK, Owner,
        WorkerTypeOK, WorkerHasTask, Pc, Starting, Working, Polling, Status, NoStatus, Goto, Control,
        queueVars, lockVars, taskVars, processVars, statusVars, eventVars, otherFiles, clientVars
  <1>1. CASE Top(w)
    BY <1>1 DEF Top
  <1>2. CASE Leave(w)
    BY <1>2 DEF Leave, Kill
  <1>3. CASE Detach(w)
    BY <1>3 DEF Detach, SetState, Publish
  <1>4. CASE Gate(w)
    BY <1>4 DEF Gate
  <1>5. CASE Report(w)
    BY <1>5 DEF Report, SetState, Publish
  <1>6. CASE Serve(w)
    BY <1>6 DEF Serve, SetState, Publish
  <1>7. CASE NextTask(w)
    BY <1>7 DEF NextTask
  <1>8. CASE EndBatch(w)
    BY <1>8 DEF EndBatch
  <1>9. CASE Wake(w)
    BY <1>9 DEF Wake
  <1> QED
    BY <1>1, <1>2, <1>3, <1>4, <1>5, <1>6, <1>7, <1>8, <1>9 DEF Loop

(* What the processing of a task does to them.                             *)
LEMMA ProcessOneType ==
  ASSUME ServiceInv, NEW w \in Worker, ProcessOne(w)
  PROVE  ServiceInv'
  <1> USE NoTaskIsNoTask, WorkerAssumption DEF ServiceInv, QueueTypeOK, ClientHasTask, Idle, Stage, LocksTypeOK, Owner,
        WorkerTypeOK, WorkerHasTask, Pc, Starting, Working, Polling, Status, NoStatus, Goto, Control,
        queueVars, lockVars, taskVars, processVars, statusVars, eventVars, otherFiles, clientVars
  <1>1. CASE Take(w)
    BY <1>1 DEF Take, Move
  <1>2. CASE TakeMissed(w)
    BY <1>2 DEF TakeMissed
  <1>3. CASE TakeRaises(w)
    BY <1>3 DEF TakeRaises, MoveFails
  <1>4. CASE Load(w)
    BY <1>4 DEF Load, Contents, SetCurrent, Publish
  <1>5. CASE Open(w)
    BY <1>5 DEF Open, TakeLock, Attach
  <1>6. CASE OpenRaises(w)
    BY <1>6 DEF OpenRaises, TakeLock, Attach
  <1>7. CASE Solve(w)
    BY <1>7 DEF Solve
  <1>8. CASE SolveRaises(w)
    BY <1>8 DEF SolveRaises
  <1>9. CASE Close(w)
    BY <1>9 DEF Close, DropLock
  <1>10. CASE WriteResult(w)
    BY <1>10 DEF WriteResult
  <1>11. CASE WriteResultRaises(w)
    BY <1>11 DEF WriteResultRaises
  <1>12. CASE FileDone(w)
    BY <1>12 DEF FileDone, Move
  <1>13. CASE FileDoneRaises(w)
    <2>1. files' \in [Stage -> SUBSET Task]
      BY <1>13, MoveType DEF FileDoneRaises
    <2> QED
      BY <1>13, <2>1 DEF FileDoneRaises
  <1>14. CASE FailMove(w)
    <2>1. files' \in [Stage -> SUBSET Task]
      BY <1>14, MoveType DEF FailMove
    <2>2. pc[w] = "fail" /\ \E to \in {"log", "log_here"} : pc' = [pc EXCEPT ![w] = to]
      BY <1>14 DEF FailMove
    <2> QED
      BY <1>14, <2>1, <2>2 DEF FailMove
  <1>15. CASE FailLog(w)
    BY <1>15 DEF FailLog, LogWritten
  <1>16. CASE FinishFailureRaises(w)
    BY <1>16 DEF FinishFailureRaises, LogWritten
  <1>17. CASE FailResult(w)
    BY <1>17 DEF FailResult
  <1>18. CASE Clear(w)
    BY <1>18 DEF Clear, SetCurrent, Publish
  <1> QED
    BY <1>1, <1>2, <1>3, <1>4, <1>5, <1>6, <1>7, <1>8, <1>9, <1>10, <1>11, <1>12, <1>13, <1>14, <1>15, <1>16, <1>17, <1>18 DEF ProcessOne

(* Starting and losing a process, and AEDT.                                *)
LEMMA ProcessType ==
  ASSUME ServiceInv, NEW w \in Worker, StartAlone(w) \/ Crash(w)
  PROVE  ServiceInv'
  <1> USE NoTaskIsNoTask, WorkerAssumption DEF ServiceInv, QueueTypeOK, ClientHasTask, Idle, Stage, LocksTypeOK, Owner,
        WorkerTypeOK, WorkerHasTask, Pc, Starting, Working, Polling, Status, NoStatus, Goto,
        queueVars, lockVars, taskVars, processVars, statusVars, eventVars, otherFiles, clientVars
  <1>1. CASE StartAlone(w)
    BY <1>1 DEF StartAlone, Spawn
  <1>2. CASE Crash(w)
    BY <1>2 DEF Crash, Kill
  <1> QED
    BY <1>1, <1>2

LEMMA AedtType ==
  ASSUME ServiceInv, AedtStep
  PROVE  ServiceInv'
  <1> USE NoTaskIsNoTask, WorkerAssumption DEF ServiceInv, QueueTypeOK, ClientHasTask, Idle, Stage, LocksTypeOK, Owner,
        WorkerTypeOK, WorkerHasTask, Pc, Starting, Working, Polling, Status, NoStatus, workerVars,
        queueVars, lockVars, taskVars, processVars, statusVars, eventVars, otherFiles, clientVars
  <1>1. CASE AedtDies
    BY <1>1 DEF AedtDies, LocksOfTheDead
  <1>2. CASE AedtStarts /\ UNCHANGED <<queueVars, workerVars>>
    BY <1>2 DEF AedtStarts
  <1>3. ASSUME NEW t \in Task, ForeignOpen(t) \/ ForeignClose(t) \/ EvidenceChanges(t), UNCHANGED <<queueVars, workerVars>>
        PROVE  ServiceInv'
    BY <1>3 DEF ForeignOpen, ForeignClose, EvidenceChanges
  <1> QED
    BY <1>1, <1>2, <1>3 DEF AedtStep

(* The tray touches its worker's process, the events and itself.           *)
LEMMA TrayType ==
  ASSUME ServiceInv, SupervisorTypeOK, TrayStep
  PROVE  ServiceInv' /\ SupervisorTypeOK'
  <1>1. (QueueTypeOK /\ ClientHasTask /\ LocksTypeOK)'
    <2>1. UNCHANGED <<queueVars, lockVars>>
      BY DEF TrayStep, ToggleRelease, StopCurrentRun, StopTerminate, StartWorker, Exit, ExitTerminate, Reset,
            ResetTerminate, NewTray, trayUnchanged
    <2> QED
      BY <2>1 DEF ServiceInv, QueueTypeOK, ClientHasTask, Idle, LocksTypeOK, queueVars, lockVars
  <1>2. SupervisorTypeOK'
    BY DEF SupervisorTypeOK, TrayStates, TrayStep, ToggleRelease, StopCurrentRun, StopTerminate, StartWorker, Exit,
          ExitTerminate, Reset, ResetTerminate, NewTray
  <1>3. (WorkerTypeOK /\ WorkerHasTask)'
    <2>1. CASE StartWorker
      <3>1. cache' = NoStatus /\ pc' = [pc EXCEPT ![TrayWorker] = "boot"]
        BY <2>1 DEF StartWorker, Spawn, Goto
      <3>2. UNCHANGED <<taskVars, statusFile, release>> /\ stop' = FALSE
        BY <2>1 DEF StartWorker
      <3>3. NoStatus \in Status
        BY DEF Status, NoStatus
      <3>4. WorkerTypeOK'
        BY <3>1, <3>2, <3>3 DEF ServiceInv, WorkerTypeOK, Pc, Starting, taskVars
      <3>5. WorkerHasTask'
        BY <3>1, <3>2 DEF ServiceInv, WorkerTypeOK, WorkerHasTask, Working, taskVars
      <3> QED
        BY <3>4, <3>5
    <2>2. CASE UNCHANGED <<processVars, statusVars>> /\ release' \in BOOLEAN /\ stop' \in BOOLEAN
      BY <2>2 DEF ServiceInv, WorkerTypeOK, WorkerHasTask, processVars, taskVars, statusVars
    <2>3. CASE Kill(TrayWorker) /\ UNCHANGED <<statusVars, eventVars>>
      BY <2>3, KillType, WorkerAssumption DEF ServiceInv, WorkerTypeOK, eventVars
    <2>4. CASE StopTerminate \/ ExitTerminate \/ ResetTerminate
      <3>1. Terminate /\ UNCHANGED <<statusVars, eventVars>>
        BY <2>4 DEF StopTerminate, ExitTerminate, ResetTerminate, trayUnchanged
      <3> QED
        BY <3>1, <2>2, <2>3 DEF Terminate, ServiceInv, WorkerTypeOK, eventVars
    <2>5. CASE ToggleRelease \/ StopCurrentRun \/ Exit \/ Reset \/ NewTray
      <3>1. UNCHANGED <<processVars, statusVars>>
        BY <2>5 DEF ToggleRelease, StopCurrentRun, Exit, Reset, NewTray, trayUnchanged
      <3>2. release' \in BOOLEAN /\ stop' \in BOOLEAN
        BY <2>5 DEF ToggleRelease, StopCurrentRun, Exit, Reset, NewTray, ServiceInv, WorkerTypeOK, eventVars
      <3> QED
        BY <3>1, <3>2, <2>2
    <2> QED
      BY <2>1, <2>4, <2>5 DEF TrayStep
  <1> QED
    BY <1>1, <1>2, <1>3 DEF ServiceInv

LEMMA NextIInv == IInv /\ [Next]_vars => IInv'
  <1> SUFFICES ASSUME IInv, [Next]_vars PROVE IInv'
    OBVIOUS
  <1>0. ServiceInv /\ SupervisorTypeOK
    BY DEF IInv, TypeOK, ServiceInv
  <1> SUFFICES ServiceInv' /\ SupervisorTypeOK'
    BY DEF IInv, TypeOK, ServiceInv
  <1>1. ASSUME NEW c \in Client, ClientStep(c), UNCHANGED <<lockVars, workerVars, tray>>
        PROVE  ServiceInv' /\ SupervisorTypeOK'
    <2>1. QueueTypeOK' /\ ClientHasTask'
      BY <1>0, <1>1, ClientStepType DEF ServiceInv
    <2>2. (LocksTypeOK /\ WorkerTypeOK /\ WorkerHasTask /\ SupervisorTypeOK)'
      BY <1>0, <1>1 DEF ServiceInv, LocksTypeOK, WorkerTypeOK, WorkerHasTask, SupervisorTypeOK,
            lockVars, workerVars, processVars, taskVars, statusVars, eventVars
    <2> QED
      BY <2>1, <2>2 DEF ServiceInv
  <1>2. ASSUME NEW w \in Worker, WorkerStep(w) \/ StartAlone(w) \/ Crash(w), UNCHANGED tray
        PROVE  ServiceInv' /\ SupervisorTypeOK'
    <2>1. ServiceInv'
      BY <1>0, <1>2, StartUpType, LoopType, ProcessOneType, ProcessType DEF WorkerStep
    <2> QED
      BY <1>0, <1>2, <2>1 DEF SupervisorTypeOK
  <1>3. CASE AedtStep /\ UNCHANGED tray
    BY <1>0, <1>3, AedtType DEF SupervisorTypeOK
  <1>4. CASE TrayStep
    BY <1>0, <1>4, TrayType
  <1>5. CASE UNCHANGED vars
    BY <1>0, <1>5 DEF vars, ServiceInv, QueueTypeOK, ClientHasTask, Idle, LocksTypeOK, WorkerTypeOK, WorkerHasTask,
          SupervisorTypeOK, queueVars, lockVars, workerVars, processVars, taskVars, statusVars, eventVars
  <1> QED
    BY <1>1, <1>2, <1>3, <1>4, <1>5 DEF Next

LEMMA Invariance == Spec => []IInv
  BY InitIInv, NextIInv, PTL DEF Spec

(* No step of any process takes a variable out of its range.               *)
THEOREM TypeCorrect == Spec => []TypeOK
  <1>1. IInv => TypeOK
    BY DEF IInv
  <1> QED
    BY Invariance, <1>1, PTL

-----------------------------------------------------------------------------
(* The stage changes the code performs by moving a file.                   *)
Edges == {<<"pending", "in_progress">>, <<"in_progress", "pending">>, <<"in_progress", "done">>,
          <<"in_progress", "failed">>, <<"failed", "pending">>}

(* All that a step of the service can do to the task files.                *)
FileStep ==
    \/ UNCHANGED <<files, mtime, discarded>>
    \/ /\ UNCHANGED <<mtime, discarded>>
       /\ \E t \in Task, e \in Edges :
            t \in files[e[1]] /\ (Move(t, e[1], e[2]) \/ MoveFails(t, e[2]))
    \/ \E c \in Client : WriteTask(c) \/ RemoveFile(c)

LEMMA WorkerFiles ==
  ASSUME IInv, NEW w \in Worker, WorkerStep(w) \/ StartAlone(w) \/ Crash(w)
  PROVE  FileStep
  <1> USE DEF queueVars, otherFiles, clientVars, Goto, Control
  <1> DEFINE Edge(a, b) == \E t \in Task : t \in files[a] /\ (Move(t, a, b) \/ MoveFails(t, b))
  <1>1. ASSUME NEW a, NEW b, <<a, b>> \in Edges, Edge(a, b), UNCHANGED <<mtime, discarded>>
        PROVE  FileStep
    BY <1>1 DEF FileStep
  <1>2. {<<"in_progress", "pending">>, <<"pending", "in_progress">>,
         <<"in_progress", "done">>, <<"in_progress", "failed">>} \subseteq Edges
    BY DEF Edges
  <1>3. CASE StartUp(w)
    <2>1. CASE RecoverOne(w)
      BY <2>1, <1>1, <1>2 DEF RecoverOne, IInv, TypeOK, WorkerTypeOK
    <2>2. CASE RecoverRaises(w)
      BY <2>2, <1>1, <1>2 DEF RecoverRaises, FileStep, IInv, TypeOK, WorkerTypeOK
    <2>3. CASE BootScan(w) \/ RecoverDone(w) \/ KeepLock(w) \/ CondemnLock(w) \/ Unlink(w)
               \/ UnlinkFails(w) \/ Sweep(w) \/ LocksDone(w)
      BY <2>3 DEF BootScan, RecoverDone, KeepLock, CondemnLock, Unlink, UnlinkFails, Sweep, LocksDone, FileStep
    <2> QED
      BY <1>3, <2>1, <2>2, <2>3 DEF StartUp
  <1>4. CASE Loop(w)
    BY <1>4 DEF Loop, Top, Leave, Detach, Gate, Report, Serve, NextTask, EndBatch, Wake, FileStep
  <1>5. CASE ProcessOne(w)
    <2> USE DEF IInv, TypeOK, WorkerHasTask, Working
    <2>1. CASE Take(w)
      BY <2>1, <1>1, <1>2 DEF Take
    <2>2. CASE TakeRaises(w)
      BY <2>2, <1>1, <1>2 DEF TakeRaises
    <2>3. CASE FileDone(w)
      BY <2>3, <1>1, <1>2 DEF FileDone
    <2>4. CASE FileDoneRaises(w)
      BY <2>4, <1>1, <1>2 DEF FileDoneRaises, FileStep
    <2>5. CASE FailMove(w)
      BY <2>5, <1>1, <1>2 DEF FailMove, FileStep
    <2>6. CASE TakeMissed(w) \/ Load(w) \/ Open(w) \/ OpenRaises(w) \/ Solve(w) \/ SolveRaises(w) \/ Close(w)
               \/ WriteResult(w) \/ WriteResultRaises(w) \/ FailLog(w) \/ FinishFailureRaises(w)
               \/ FailResult(w) \/ Clear(w)
      BY <2>6 DEF TakeMissed, Load, Open, OpenRaises, Solve, SolveRaises, Close, WriteResult, WriteResultRaises,
            FailLog, FinishFailureRaises, FailResult, Clear, FileStep
    <2> QED
      BY <1>5, <2>1, <2>2, <2>3, <2>4, <2>5, <2>6 DEF ProcessOne
  <1>6. CASE StartAlone(w) \/ Crash(w)
    BY <1>6 DEF StartAlone, Crash, FileStep
  <1> QED
    BY <1>3, <1>4, <1>5, <1>6 DEF WorkerStep

LEMMA NextFiles ==
  ASSUME IInv, [Next]_vars
  PROVE  FileStep
  <1> USE DEF queueVars, folderVars
  <1>1. ASSUME NEW c \in Client, ClientStep(c)
        PROVE  FileStep
    <2>1. CASE WriteTask(c) \/ RemoveFile(c)
      BY <2>1 DEF FileStep
    <2>2. CASE RetryMove(c)
      <3>1. client[c].task \in Task
        BY <2>2 DEF RetryMove, At, IInv, ClientHasTask, Idle
      <3>2. <<"failed", "pending">> \in Edges
        BY DEF Edges
      <3> QED
        BY <2>2, <3>1, <3>2 DEF RetryMove, FileStep
    <2>3. ASSUME NEW t \in Task, CopyProject(c, t) \/ AskStatus(c, t) \/ AskTask(c, t)
          PROVE  FileStep
      BY <2>3 DEF CopyProject, AskStatus, AskTask, FileStep
    <2>4. CASE Probe(c) \/ OpenFound(c) \/ RetryStart(c) \/ RetryClearLog(c)
               \/ RemoveLog(c) \/ RemoveTree(c) \/ ClientCrash(c)
      BY <2>4 DEF Probe, OpenFound, RetryStart, RetryClearLog, RemoveLog, RemoveTree, ClientCrash, FileStep
    <2> QED
      BY <1>1, <2>1, <2>2, <2>3, <2>4 DEF ClientStep
  <1>2. CASE AedtStep
    BY <1>2 DEF AedtStep, AedtDies, FileStep
  <1>3. CASE TrayStep
    BY <1>3 DEF TrayStep, ToggleRelease, StopCurrentRun, StopTerminate, StartWorker, Exit, ExitTerminate, Reset,
          ResetTerminate, NewTray, trayUnchanged, FileStep
  <1>4. CASE UNCHANGED vars
    BY <1>4 DEF vars, FileStep
  <1> QED
    BY <1>1, <1>2, <1>3, <1>4, WorkerFiles DEF Next

(* However operations interleave, fail and are killed, a submitted task is *)
(* in some stage folder until remove_task deletes its file.                *)
THEOREM TasksKept == Spec => []NoTaskLost
  <1>1. Init => NoTaskLost
    BY DEF Init, QueueInit, NoTaskLost, InQueue, Stage
  <1>2. ASSUME IInv, NoTaskLost, [Next]_vars
        PROVE  NoTaskLost'
    <2> USE DEF NoTaskLost, InQueue, Stage
    <2>1. CASE UNCHANGED <<files, mtime, discarded>>
      BY <1>2, <2>1
    <2>2. ASSUME NEW t \in Task, NEW e \in Edges, UNCHANGED <<mtime, discarded>>,
                 Move(t, e[1], e[2]) \/ MoveFails(t, e[2])
          PROVE  NoTaskLost'
      BY <1>2, <2>2 DEF Edges, Move, MoveFails, IInv, TypeOK, QueueTypeOK
    <2>3. ASSUME NEW c \in Client, WriteTask(c)
          PROVE  NoTaskLost'
      BY <1>2, <2>3 DEF WriteTask, IInv, TypeOK, QueueTypeOK
    <2>4. ASSUME NEW c \in Client, RemoveFile(c)
          PROVE  NoTaskLost'
      BY <1>2, <2>4 DEF RemoveFile, IInv, TypeOK, QueueTypeOK
    <2> QED
      BY <1>2, <2>1, <2>2, <2>3, <2>4, NextFiles DEF FileStep
  <1> QED
    BY <1>1, <1>2, Invariance, PTL DEF Spec
=============================================================================
