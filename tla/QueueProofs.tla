---------------------------- MODULE QueueProofs -----------------------------
(***************************************************************************)
(* What the queue promises a client and a worker that have it for          *)
(* themselves, for every number of tasks and whatever is killed: answers   *)
(* stand, bundles are there, nothing is left in in_progress/, and "done"   *)
(* comes with a success. A second client can break the first two, a second *)
(* worker the last two, and a move that fails half-way all but the answers.*)
(***************************************************************************)
EXTENDS LifecycleProofs

OneClient == \A c, d \in Client : c = d

OneWorker == Worker = {TrayWorker}

(* What a client is removing has left the queue already.                   *)
RemovedLeft ==
    \A c \in Client : client[c].pc \in {"remove_log", "remove_tree"} => ~InQueue(client[c].task)

(* A task in any of the folders has its bundle, also one that may be       *)
(* retried.                                                                *)
Housed == \A t \in Task : InQueue(t) => t \in project

PromiseInv == AnswersStand /\ RemovedLeft /\ Housed

-----------------------------------------------------------------------------
(* Whoever is not a client takes nothing out of done/ and failed/ and adds *)
(* nothing to the queue.                                                   *)
OthersStep ==
    /\ UNCHANGED <<client, project>>
    /\ files["done"] \subseteq files'["done"]
    /\ files["failed"] \subseteq files'["failed"]
    /\ \A t \in Task : InQueue(t)' => InQueue(t)

LEMMA OthersOfWorker ==
  ASSUME IInv, NEW w \in Worker, WorkerStep(w) \/ StartAlone(w) \/ Crash(w)
  PROVE  OthersStep
  <1> USE DEF OthersStep, InQueue, Stage, queueVars, otherFiles, clientVars, Control, IInv, TypeOK, QueueTypeOK
  <1>1. CASE UNCHANGED <<client, project, files>>
    BY <1>1
  <1>2. ASSUME NEW t \in Task, NEW from \in {"pending", "in_progress"}, NEW to \in Stage,
               t \in files[from], Move(t, from, to) \/ MoveFails(t, to), UNCHANGED <<client, project>>
        PROVE  OthersStep
    BY <1>2 DEF Move, MoveFails
  <1>3. CASE StartUp(w)
    <2>1. CASE RecoverOne(w)
      BY <1>2, <2>1 DEF RecoverOne, WorkerTypeOK
    <2>2. CASE RecoverRaises(w)
      BY <1>1, <1>2, <2>2 DEF RecoverRaises, WorkerTypeOK
    <2>3. CASE BootScan(w) \/ RecoverDone(w) \/ KeepLock(w) \/ CondemnLock(w) \/ Unlink(w)
               \/ UnlinkFails(w) \/ Sweep(w) \/ LocksDone(w)
      BY <1>1, <2>3 DEF BootScan, RecoverDone, KeepLock, CondemnLock, Unlink, UnlinkFails, Sweep, LocksDone
    <2> QED
      BY <1>3, <2>1, <2>2, <2>3 DEF StartUp
  <1>4. CASE Loop(w)
    BY <1>1, <1>4 DEF Loop, Top, Leave, Detach, Gate, Report, Serve, NextTask, EndBatch, Wake
  <1>5. CASE ProcessOne(w)
    <2> USE DEF WorkerHasTask, Working, Goto
    <2>1. CASE Take(w)
      BY <1>2, <2>1 DEF Take
    <2>2. CASE TakeRaises(w)
      BY <1>2, <2>2 DEF TakeRaises
    <2>3. CASE FileDone(w)
      BY <1>2, <2>3 DEF FileDone
    <2>4. CASE FileDoneRaises(w)
      BY <1>1, <1>2, <2>4 DEF FileDoneRaises
    <2>5. CASE FailMove(w)
      BY <1>1, <1>2, <2>5 DEF FailMove
    <2>6. CASE TakeMissed(w) \/ Load(w) \/ Open(w) \/ OpenRaises(w) \/ Solve(w) \/ SolveRaises(w) \/ Close(w)
               \/ WriteResult(w) \/ WriteResultRaises(w) \/ FailLog(w) \/ FinishFailureRaises(w)
               \/ FailResult(w) \/ Clear(w)
      BY <1>1, <2>6 DEF TakeMissed, Load, Open, OpenRaises, Solve, SolveRaises, Close, WriteResult,
         WriteResultRaises, FailLog, FinishFailureRaises, FailResult, Clear
    <2> QED
      BY <1>5, <2>1, <2>2, <2>3, <2>4, <2>5, <2>6 DEF ProcessOne
  <1>6. CASE StartAlone(w) \/ Crash(w)
    BY <1>1, <1>6 DEF StartAlone, Crash
  <1> QED
    BY <1>3, <1>4, <1>5, <1>6 DEF WorkerStep

(* AEDT and the tray do not touch the queue at all.                        *)
LEMMA NotTheirQueue ==
  ASSUME AedtStep \/ TrayStep
  PROVE  UNCHANGED queueVars
  BY DEF AedtStep, AedtDies, TrayStep, ToggleRelease, StopCurrentRun, StopTerminate, StartWorker, Exit, ExitTerminate,
     Reset, ResetTerminate, NewTray, trayUnchanged, queueVars

(* Who takes a step.                                                       *)
LEMMA Actors ==
  ASSUME [Next]_vars
  PROVE  \/ \E c \in Client : ClientStep(c) /\ UNCHANGED <<workerVars, tray>>
         \/ \E w \in Worker : (WorkerStep(w) \/ StartAlone(w) \/ Crash(w)) /\ UNCHANGED tray
         \/ AedtStep
         \/ TrayStep
         \/ UNCHANGED <<queueVars, workerVars, tray>>
  BY DEF Next, vars

(* The one client holds an answer only as long as it has not acted on it.  *)
LEMMA AnswersNext ==
  ASSUME OneClient, IInv, AnswersStand, [Next]_vars
  PROVE  AnswersStand'
  <1>1. CASE UNCHANGED queueVars
    BY <1>1 DEF queueVars, AnswersStand
  <1>2. CASE OthersStep
    BY <1>2 DEF OthersStep, AnswersStand
  <1>3. ASSUME NEW c \in Client, ClientStep(c)
        PROVE  AnswersStand'
    <2> USE DEF Advance, Finish, At, Idle, folderVars
    <2>1. (\A d \in Client : d = c) /\ client \in [Client -> ClientState]
      BY DEF OneClient, IInv, TypeOK, QueueTypeOK
    <2>2. ASSUME NEW p, NEW t, NEW at, NEW saw, Become(c, p, t, at, saw),
                 saw \in {"done", "failed"} => t \in files'[saw]
          PROVE  AnswersStand'
      BY <2>1, <2>2 DEF Become, AnswersStand
    <2>3. ASSUME NEW t \in Task, CopyProject(c, t) \/ AskStatus(c, t) \/ AskTask(c, t)
          PROVE  AnswersStand'
      BY <2>2, <2>3 DEF CopyProject, AskStatus, AskTask
    <2>4. CASE Probe(c)
      <3>1. CASE client[c].task \in files[ScanOrder[client[c].at]]
        BY <2>2, <2>4, <3>1 DEF Probe
      <3>2. CASE client[c].task \notin files[ScanOrder[client[c].at]]
        BY <2>2, <2>4, <3>2 DEF Probe
      <3> QED
        BY <3>1, <3>2
    <2>5. CASE OpenFound(c)
      BY <2>2, <2>5 DEF OpenFound
    <2>6. CASE WriteTask(c) \/ RetryStart(c) \/ RetryClearLog(c) \/ RetryMove(c)
               \/ RemoveFile(c) \/ RemoveLog(c) \/ RemoveTree(c) \/ ClientCrash(c)
      BY <2>2, <2>6 DEF WriteTask, RetryStart, RetryClearLog, RetryMove, RemoveFile, RemoveLog, RemoveTree, ClientCrash
    <2> QED
      BY <1>3, <2>3, <2>4, <2>5, <2>6 DEF ClientStep
  <1> QED
    BY <1>1, <1>2, <1>3, Actors, NotTheirQueue, OthersOfWorker

LEMMA AnswersInit == Init => AnswersStand
  BY DEF Init, QueueInit, AnswersStand

(* "done" and "failed" stay true until the one client that was told acts   *)
(* on them, however many workers recover and retake tasks, and whatever    *)
(* is killed or fails half-way.                                            *)
THEOREM AnswersKept ==
  ASSUME OneClient
  PROVE  Spec => []AnswersStand
  BY AnswersNext, AnswersInit, Invariance, PTL DEF Spec

LEMMA PromiseOfOthers ==
  ASSUME IInv, PromiseInv, OthersStep
  PROVE  PromiseInv'
  <1>1. \A c \in Client : client[c].pc # "idle" \/ client[c].saw # "none" => client[c].task \in Task
    BY DEF IInv, ClientHasTask, Idle
  <1>2. AnswersStand'
    BY DEF OthersStep, PromiseInv, AnswersStand
  <1>3. RemovedLeft'
    <2> SUFFICES ASSUME NEW c \in Client, client[c].pc \in {"remove_log", "remove_tree"}
                 PROVE  ~InQueue(client[c].task)'
      BY DEF OthersStep, RemovedLeft
    <2> QED
      BY <1>1 DEF OthersStep, PromiseInv, RemovedLeft, InQueue
  <1>4. Housed'
    BY DEF OthersStep, PromiseInv, Housed
  <1> QED
    BY <1>2, <1>3, <1>4 DEF PromiseInv

(* The one client moves on with an answer or a removal that is true.       *)
LEMMA PromiseOfClient ==
  ASSUME ~IoFaults, OneClient, IInv, SubmitInv, OneStage, PromiseInv, NEW c \in Client, ClientStep(c)
  PROVE  PromiseInv'
  <1> USE DEF Advance, Finish, At, Idle, folderVars
  <1>1. /\ \A d \in Client : d = c
        /\ client \in [Client -> ClientState]
        /\ client[c].pc # "idle" \/ client[c].saw # "none" => client[c].task \in Task
    BY DEF OneClient, IInv, TypeOK, QueueTypeOK, ClientHasTask
  <1>2. ASSUME NEW p, NEW t, NEW at, NEW saw, Become(c, p, t, at, saw),
               saw \in {"done", "failed"} => t \in files'[saw],
               p \in {"remove_log", "remove_tree"} => \A s \in Stage : t \notin files'[s]
        PROVE  AnswersStand' /\ RemovedLeft'
    BY <1>1, <1>2 DEF Become, AnswersStand, RemovedLeft, InQueue
  <1>3. ASSUME UNCHANGED <<files, project>>
        PROVE  Housed'
    BY <1>3 DEF PromiseInv, Housed, InQueue
  <1>4. ASSUME NEW t \in Task, CopyProject(c, t)
        PROVE  PromiseInv'
    <2>1. Housed'
      BY <1>4 DEF CopyProject, PromiseInv, Housed, InQueue
    <2> QED
      BY <1>2, <1>4, <2>1 DEF CopyProject, PromiseInv
  <1>5. ASSUME NEW t \in Task, AskStatus(c, t) \/ AskTask(c, t)
        PROVE  PromiseInv'
    BY <1>2, <1>3, <1>5 DEF AskStatus, AskTask, PromiseInv
  <1>6. CASE WriteTask(c)
    <2>1. client[c].task \in project
      BY <1>6 DEF WriteTask, SubmitInv, ClientsInv, CopiedIsNew
    <2>2. Housed'
      BY <1>6, <2>1 DEF WriteTask, PromiseInv, Housed, InQueue, Stage, IInv, TypeOK, QueueTypeOK
    <2> QED
      BY <1>2, <1>6, <2>2 DEF WriteTask, PromiseInv
  <1>7. CASE Probe(c)
    <2>1. UNCHANGED <<files, project>>
      BY <1>7 DEF Probe
    <2>2. client[c].at \in 1..4
      BY <1>1 DEF ClientState
    <2>3. CASE client[c].task \in files[ScanOrder[client[c].at]]
      BY <1>2, <1>3, <1>7, <2>1, <2>2, <2>3 DEF Probe, PromiseInv
    <2>4. CASE client[c].task \notin files[ScanOrder[client[c].at]]
      BY <1>2, <1>3, <1>7, <2>1, <2>2, <2>4 DEF Probe, PromiseInv
    <2> QED
      BY <2>3, <2>4
  <1>8. CASE OpenFound(c)
    BY <1>2, <1>3, <1>8 DEF OpenFound, PromiseInv
  <1>9. CASE RetryStart(c)
    BY <1>2, <1>3, <1>9 DEF RetryStart, PromiseInv
  <1>10. CASE RetryClearLog(c)
    BY <1>2, <1>3, <1>10 DEF RetryClearLog, PromiseInv
  <1>11. CASE RetryMove(c)
    <2>1. Housed'
      BY <1>1, <1>11 DEF RetryMove, Move, MoveFails, PromiseInv, Housed, InQueue, Stage, IInv, TypeOK, QueueTypeOK
    <2> QED
      BY <1>2, <1>11, <2>1 DEF RetryMove, PromiseInv
  <1>12. CASE RemoveFile(c)
    <2>1. client[c].saw = "failed" /\ client[c].task \in Task /\ client[c].task \in files["failed"]
      BY <1>1, <1>12 DEF RemoveFile, PromiseInv, AnswersStand
    <2>2. files' = [files EXCEPT !["failed"] = @ \ {client[c].task}] /\ UNCHANGED project
      BY <1>12 DEF RemoveFile
    <2>3. \A s \in Stage : client[c].task \notin files'[s]
      BY <2>1, <2>2 DEF OneStage, InQueue, Stage, IInv, TypeOK, QueueTypeOK
    <2>4. Housed'
      BY <2>2 DEF PromiseInv, Housed, InQueue, Stage, IInv, TypeOK, QueueTypeOK
    <2> QED
      BY <1>2, <1>12, <2>3, <2>4 DEF RemoveFile, PromiseInv
  <1>13. CASE RemoveLog(c)
    <2>1. \A s \in Stage : client[c].task \notin files'[s]
      BY <1>13 DEF RemoveLog, PromiseInv, RemovedLeft, InQueue
    <2> QED
      BY <1>2, <1>3, <1>13, <2>1 DEF RemoveLog, PromiseInv
  <1>14. CASE RemoveTree(c)
    <2>1. ~InQueue(client[c].task)
      BY <1>14 DEF RemoveTree, PromiseInv, RemovedLeft
    <2>2. Housed'
      BY <1>14, <2>1 DEF RemoveTree, PromiseInv, Housed, InQueue
    <2> QED
      BY <1>2, <1>14, <2>2 DEF RemoveTree, PromiseInv
  <1>15. CASE ClientCrash(c)
    BY <1>2, <1>3, <1>15 DEF ClientCrash, PromiseInv
  <1> QED
    BY <1>4, <1>5, <1>6, <1>7, <1>8, <1>9, <1>10, <1>11, <1>12, <1>13, <1>14, <1>15 DEF ClientStep

LEMMA PromiseNext ==
  ASSUME ~IoFaults, OneClient, IInv, SubmitInv, OneStage, PromiseInv, [Next]_vars
  PROVE  PromiseInv'
  <1>1. CASE UNCHANGED queueVars
    BY <1>1 DEF queueVars, PromiseInv, AnswersStand, RemovedLeft, Housed, InQueue
  <1> QED
    BY <1>1, Actors, NotTheirQueue, PromiseOfClient, PromiseOfOthers, OthersOfWorker

LEMMA PromiseInit == Init => PromiseInv
  BY DEF Init, QueueInit, PromiseInv, AnswersStand, RemovedLeft, Housed, InQueue, Stage

QueueInv == IInv /\ SubmitInv /\ OneStage /\ PromiseInv

LEMMA QueueInvariance ==
  ASSUME ~IoFaults, OneClient
  PROVE  Spec => []QueueInv
  <1>1. IInv /\ SubmitInv /\ OneStage /\ PromiseInv /\ [Next]_vars => PromiseInv'
    BY PromiseNext
  <1> QED
    BY <1>1, PromiseInit, SubmitInvariance, PTL DEF Spec, QueueInv

(* A task that waits or is worked on has its bundle, through submissions,  *)
(* retries and removals that are cut short.                                *)
THEOREM BundlesThere ==
  ASSUME ~IoFaults, OneClient
  PROVE  Spec => []BundleBeforeFile
  <1>1. QueueInv => BundleBeforeFile
    BY DEF QueueInv, PromiseInv, Housed, InQueue, Stage, BundleBeforeFile, IInv, TypeOK, QueueTypeOK
  <1> QED
    BY <1>1, QueueInvariance, PTL

-----------------------------------------------------------------------------
(* Where the worker holds a task in in_progress/, and where it has none.   *)
Holding == {"load", "open", "solve", "close_ok", "close_fail", "result", "file", "fail"}
EmptyHanded == Polling \cup {"locks", "unlink", "sweep", "log", "log_here", "fail_result"}

OwnInv ==
    LET p == pc[TrayWorker]
    IN  /\ p = "recover" => files["in_progress"] \subseteq todo[TrayWorker]
        /\ p \in Holding => files["in_progress"] = {cur[TrayWorker]}
        /\ p \in EmptyHanded => files["in_progress"] = {}

LEMMA OwnInit == Init => OwnInv
  BY WorkerAssumption DEF Init, QueueInit, WorkerInit, OwnInv, Holding, EmptyHanded, Polling, Stage

(* Clients leave in_progress/ and done/ alone.                             *)
LEMMA ClientsFolders ==
  ASSUME IInv, NEW c \in Client, ClientStep(c)
  PROVE  UNCHANGED <<files["in_progress"], files["done"]>>
  <1> USE DEF IInv, TypeOK, QueueTypeOK, Stage
  <1>1. CASE WriteTask(c) \/ RemoveFile(c)
    BY <1>1 DEF WriteTask, RemoveFile
  <1>2. CASE RetryMove(c)
    BY <1>2 DEF RetryMove, Move, MoveFails
  <1>3. ASSUME NEW t \in Task, CopyProject(c, t) \/ AskStatus(c, t) \/ AskTask(c, t)
        PROVE  UNCHANGED files
    BY <1>3 DEF CopyProject, AskStatus, AskTask, folderVars
  <1>4. CASE Probe(c) \/ OpenFound(c) \/ RetryStart(c) \/ RetryClearLog(c) \/ RemoveLog(c) \/ RemoveTree(c)
             \/ ClientCrash(c)
    BY <1>4 DEF Probe, OpenFound, RetryStart, RetryClearLog, RemoveLog, RemoveTree, ClientCrash, folderVars
  <1> QED
    BY <1>1, <1>2, <1>3, <1>4 DEF ClientStep

LEMMA OwnOfWorker ==
  ASSUME ~IoFaults, IInv, OwnInv, WorkerStep(TrayWorker)
  PROVE  OwnInv'
  <1> DEFINE w == TrayWorker
  <1> USE WorkerAssumption DEF IInv, TypeOK, QueueTypeOK, WorkerTypeOK, WorkerHasTask, OwnInv, Holding, EmptyHanded,
        Polling, Working, Goto, Control, queueVars, otherFiles, taskVars, Stage
  <1>1. CASE StartUp(w)
    <2>1. CASE BootScan(w)
      BY <2>1 DEF BootScan
    <2>2. CASE RecoverOne(w)
      BY <2>2 DEF RecoverOne, Move
    <2>3. CASE RecoverRaises(w)
      BY <2>3 DEF RecoverRaises, Kill
    <2>4. CASE RecoverDone(w)
      BY <2>4 DEF RecoverDone
    <2>5. CASE KeepLock(w) \/ CondemnLock(w) \/ Unlink(w) \/ UnlinkFails(w) \/ Sweep(w) \/ LocksDone(w)
      BY <2>5 DEF KeepLock, CondemnLock, Unlink, UnlinkFails, Sweep, LocksDone
    <2> QED
      BY <1>1, <2>1, <2>2, <2>3, <2>4, <2>5 DEF StartUp
  <1>2. CASE Loop(w)
    <2>1. CASE Leave(w)
      BY <2>1 DEF Leave, Kill
    <2>2. CASE Top(w) \/ Detach(w) \/ Gate(w) \/ Report(w) \/ Serve(w) \/ NextTask(w) \/ EndBatch(w) \/ Wake(w)
      BY <2>2 DEF Top, Detach, Gate, Report, Serve, NextTask, EndBatch, Wake
    <2> QED
      BY <1>2, <2>1, <2>2 DEF Loop
  <1>3. CASE ProcessOne(w)
    <2>1. CASE Take(w)
      BY <2>1 DEF Take, Move
    <2>2. CASE TakeMissed(w) \/ TakeRaises(w)
      BY <2>2 DEF TakeMissed, TakeRaises, MoveFails
    <2>3. CASE Load(w)
      BY <2>3 DEF Load
    <2>4. CASE Open(w) \/ OpenRaises(w) \/ Solve(w) \/ SolveRaises(w) \/ Close(w)
      BY <2>4 DEF Open, OpenRaises, Solve, SolveRaises, Close
    <2>5. CASE WriteResult(w) \/ WriteResultRaises(w)
      BY <2>5 DEF WriteResult, WriteResultRaises
    <2>6. CASE FileDone(w) \/ FileDoneRaises(w)
      BY <2>6 DEF FileDone, FileDoneRaises, Move, MoveFails
    <2>7. CASE FailMove(w)
      BY <2>7 DEF FailMove, Move, MoveFails
    <2>8. CASE FailLog(w) \/ FinishFailureRaises(w) \/ FailResult(w) \/ Clear(w)
      BY <2>8 DEF FailLog, LogWritten, FinishFailureRaises, FailResult, Clear
    <2> QED
      BY <1>3, <2>1, <2>2, <2>3, <2>4, <2>5, <2>6, <2>7, <2>8 DEF ProcessOne
  <1> QED
    BY <1>1, <1>2, <1>3 DEF WorkerStep

(* What the others do to the worker: nothing, or an end or a start.        *)
LEMMA WorkerOrNot ==
  ASSUME OneWorker, IInv, [Next]_vars
  PROVE  \/ WorkerStep(TrayWorker)
         \/ \E c \in Client : ClientStep(c) /\ UNCHANGED <<pc, cur, todo>>
         \/ UNCHANGED queueVars /\ (UNCHANGED <<pc, cur, todo>> \/ pc'[TrayWorker] \in {"dead", "boot"})
  <1> USE WorkerAssumption DEF IInv, TypeOK, WorkerTypeOK, workerVars, processVars, taskVars
  <1>1. CASE TrayStep
    <2>1. UNCHANGED <<pc, cur, todo>> \/ pc'[TrayWorker] \in {"dead", "boot"}
      BY <1>1 DEF TrayStep, ToggleRelease, StopCurrentRun, StopTerminate, StartWorker, Exit, ExitTerminate, Reset,
         ResetTerminate, NewTray, Terminate, Kill, Spawn, Goto
    <2> QED
      BY <1>1, <2>1, NotTheirQueue
  <1>2. CASE AedtStep
    BY <1>2, NotTheirQueue DEF AedtStep, AedtDies
  <1>3. ASSUME NEW w \in Worker, WorkerStep(w) \/ StartAlone(w) \/ Crash(w)
        PROVE  \/ WorkerStep(TrayWorker)
               \/ UNCHANGED queueVars /\ pc'[TrayWorker] \in {"dead", "boot"}
    BY <1>3 DEF OneWorker, StartAlone, Spawn, Crash, Kill, Goto
  <1> QED
    BY <1>1, <1>2, <1>3, Actors

LEMMA OwnNext ==
  ASSUME ~IoFaults, OneWorker, IInv, OwnInv, [Next]_vars
  PROVE  OwnInv'
  <1>1. ASSUME UNCHANGED files["in_progress"], UNCHANGED <<pc, cur, todo>> \/ pc'[TrayWorker] \in {"dead", "boot"}
        PROVE  OwnInv'
    BY <1>1 DEF OwnInv, Holding, EmptyHanded, Polling
  <1> QED
    BY <1>1, WorkerOrNot, OwnOfWorker, ClientsFolders DEF queueVars

LEMMA OwnInvariance ==
  ASSUME ~IoFaults, OneWorker
  PROVE  Spec => []OwnInv
  <1>1. IInv /\ OwnInv /\ [Next]_vars => OwnInv'
    BY OwnNext
  <1> QED
    BY <1>1, OwnInit, Invariance, PTL DEF Spec

(* Past its recovery, a worker that has the queue for itself leaves        *)
(* nothing in in_progress/ but the task in its hand, whenever the tray     *)
(* killed the one before it and whatever the clients do.                   *)
THEOREM InProgressOwned ==
  ASSUME ~IoFaults, OneWorker
  PROVE  Spec => []InProgressIsWorkedOn
  <1>1. IInv /\ OwnInv => InProgressIsWorkedOn
    BY DEF OneWorker, IInv, TypeOK, WorkerTypeOK, Pc, Starting, Working, OwnInv, Holding, EmptyHanded,
       InProgressIsWorkedOn
  <1> QED
    BY <1>1, OwnInvariance, Invariance, PTL

-----------------------------------------------------------------------------
(* The task in hand is not in done/, and has a success when it is to be    *)
(* filed there.                                                            *)
HandInv ==
    LET p == pc[TrayWorker]
        t == cur[TrayWorker]
    IN  /\ p \in Working => t \notin files["done"]
        /\ p = "file" => result[t] = "success"
        /\ DoneMeansSuccess

LEMMA HandInit == Init => HandInv
  BY WorkerAssumption DEF Init, QueueInit, WorkerInit, HandInv, Working, DoneMeansSuccess, Stage

(* Clients leave done/ alone, and the results of what is in the queue.     *)
LEMMA HandOfClient ==
  ASSUME QueueInv, OwnInv, HandInv, NEW c \in Client, ClientStep(c), UNCHANGED <<pc, cur>>
  PROVE  HandInv'
  <1> USE DEF QueueInv, IInv, TypeOK, QueueTypeOK
  <1>1. \A t \in Task : InQueue(t) => result'[t] = result[t]
    <2>1. CASE RemoveTree(c)
      BY <2>1 DEF RemoveTree, At, PromiseInv, RemovedLeft
    <2>2. ASSUME NEW t \in Task, CopyProject(c, t) \/ AskStatus(c, t) \/ AskTask(c, t)
          PROVE  UNCHANGED result
      BY <2>2 DEF CopyProject, AskStatus, AskTask, folderVars
    <2>3. CASE WriteTask(c) \/ Probe(c) \/ OpenFound(c) \/ RetryStart(c) \/ RetryClearLog(c) \/ RetryMove(c)
               \/ RemoveFile(c) \/ RemoveLog(c) \/ ClientCrash(c)
      BY <2>3 DEF WriteTask, Probe, OpenFound, RetryStart, RetryClearLog, RetryMove, RemoveFile, RemoveLog,
         ClientCrash, folderVars
    <2> QED
      BY <2>1, <2>2, <2>3 DEF ClientStep
  <1>2. pc[TrayWorker] = "file" => cur[TrayWorker] \in Task /\ InQueue(cur[TrayWorker])
    BY WorkerAssumption DEF OwnInv, Holding, WorkerHasTask, Working, InQueue, Stage
  <1>3. \A t \in files["done"] : t \in Task /\ InQueue(t)
    BY DEF InQueue, Stage
  <1> QED
    BY <1>1, <1>2, <1>3, ClientsFolders DEF HandInv, DoneMeansSuccess

(* A worker that is killed, or starts, makes no statement about its hand.  *)
LEMMA HandDropped ==
  ASSUME HandInv, UNCHANGED <<files["done"], result>>, pc'[TrayWorker] \in {"dead", "boot"}
  PROVE  HandInv'
  BY DEF HandInv, DoneMeansSuccess, Working

LEMMA HandOfWorker ==
  ASSUME ~IoFaults, QueueInv, OwnInv, HandInv, WorkerStep(TrayWorker)
  PROVE  HandInv'
  <1> DEFINE w == TrayWorker
  <1> USE WorkerAssumption DEF QueueInv, IInv, TypeOK, QueueTypeOK, WorkerTypeOK, WorkerHasTask, HandInv,
        DoneMeansSuccess, Working, Goto, Control, queueVars, otherFiles, taskVars, Stage
  <1>1. CASE StartUp(w)
    <2>1. CASE RecoverOne(w)
      BY <2>1 DEF RecoverOne, Move
    <2>2. CASE RecoverRaises(w)
      BY <2>2, HandDropped DEF RecoverRaises, MoveFails, Kill
    <2>3. CASE BootScan(w) \/ RecoverDone(w) \/ KeepLock(w) \/ CondemnLock(w) \/ Unlink(w)
               \/ UnlinkFails(w) \/ Sweep(w) \/ LocksDone(w)
      BY <2>3 DEF BootScan, RecoverDone, KeepLock, CondemnLock, Unlink, UnlinkFails, Sweep, LocksDone
    <2> QED
      BY <1>1, <2>1, <2>2, <2>3 DEF StartUp
  <1>2. CASE Loop(w)
    <2>1. CASE Leave(w)
      BY <2>1, HandDropped DEF Leave, Kill
    <2>2. CASE Top(w) \/ Detach(w) \/ Gate(w) \/ Report(w) \/ Serve(w) \/ NextTask(w) \/ EndBatch(w) \/ Wake(w)
      BY <2>2 DEF Top, Detach, Gate, Report, Serve, NextTask, EndBatch, Wake
    <2> QED
      BY <1>2, <2>1, <2>2 DEF Loop
  <1>3. CASE ProcessOne(w)
    <2>1. CASE Take(w)
      BY <2>1 DEF Take, Move, OneStage
    <2>2. CASE TakeMissed(w) \/ TakeRaises(w)
      BY <2>2 DEF TakeMissed, TakeRaises, MoveFails
    <2>3. CASE Load(w)
      BY <2>3 DEF Load
    <2>4. CASE Open(w) \/ OpenRaises(w) \/ Solve(w) \/ SolveRaises(w) \/ Close(w)
      BY <2>4 DEF Open, OpenRaises, Solve, SolveRaises, Close
    <2>5. CASE WriteResult(w) \/ WriteResultRaises(w)
      BY <2>5 DEF WriteResult, WriteResultRaises
    <2>6. CASE FileDone(w) \/ FileDoneRaises(w)
      BY <2>6 DEF FileDone, FileDoneRaises, Move, MoveFails
    <2>7. CASE FailMove(w)
      BY <2>7 DEF FailMove, Move, MoveFails
    <2>8. CASE FailLog(w) \/ FinishFailureRaises(w)
      BY <2>8 DEF FailLog, FinishFailureRaises
    <2>9. CASE FailResult(w)
      BY <2>9 DEF FailResult
    <2>10. CASE Clear(w)
      BY <2>10 DEF Clear
    <2> QED
      BY <1>3, <2>1, <2>2, <2>3, <2>4, <2>5, <2>6, <2>7, <2>8, <2>9, <2>10 DEF ProcessOne
  <1> QED
    BY <1>1, <1>2, <1>3 DEF WorkerStep

LEMMA HandNext ==
  ASSUME ~IoFaults, OneWorker, QueueInv, OwnInv, HandInv, [Next]_vars
  PROVE  HandInv'
  <1>1. ASSUME UNCHANGED queueVars, UNCHANGED <<pc, cur>> \/ pc'[TrayWorker] \in {"dead", "boot"}
        PROVE  HandInv'
    BY <1>1, HandDropped DEF HandInv, DoneMeansSuccess, queueVars
  <1> QED
    BY <1>1, WorkerOrNot, HandOfWorker, HandOfClient DEF QueueInv

(* A task in done/ has a result.json of success: neither an aborted        *)
(* attempt, a failure before a retry nor a removal gets in between.        *)
THEOREM DoneSucceeded ==
  ASSUME ~IoFaults, OneClient, OneWorker
  PROVE  Spec => []DoneMeansSuccess
  <1>1. QueueInv /\ OwnInv /\ HandInv /\ [Next]_vars => HandInv'
    BY HandNext
  <1>2. HandInv => DoneMeansSuccess
    BY DEF HandInv
  <1> QED
    BY <1>1, <1>2, HandInit, QueueInvariance, OwnInvariance, PTL DEF Spec

-----------------------------------------------------------------------------
(* Nobody is killed between two writes.                                    *)
Undisturbed == ~Crashes /\ ~ClientCrashes /\ UserActions \subseteq {"release"}

(* Whose next step brings a failed task's log, or takes the task away.     *)
Explaining(t) ==
    \/ pc[TrayWorker] = "log" /\ cur[TrayWorker] = t
    \/ \E c \in Client : At(c, "retry_move") /\ client[c].task = t

LogInv ==
    /\ tray \in {"up", "starting", "down"}
    /\ tray # "up" => pc[TrayWorker] = "dead"
    /\ \A t \in files["failed"] : t \in errorLog["failed"] \/ Explaining(t)

LEMMA LogInit == Init => LogInv
  BY WorkerAssumption DEF Init, QueueInit, WorkerInit, SupervisorInit, LogInv, Stage

LEMMA LogOfClient ==
  ASSUME ~IoFaults, Undisturbed, QueueInv, LogInv, NEW c \in Client, ClientStep(c), UNCHANGED <<workerVars, tray>>
  PROVE  LogInv'
  <1> USE DEF QueueInv, IInv, TypeOK, QueueTypeOK
  <1>1. UNCHANGED <<pc, cur, tray>>
    BY DEF workerVars, processVars, taskVars
  <1>2. /\ \A d \in Client \ {c} : client'[d] = client[d]
        /\ client[c].pc \notin {"idle", "copied"} => client[c].task \in Task
    BY DEF ClientStep, CopyProject, AskStatus, AskTask, WriteTask, Probe, OpenFound, RetryStart, RetryClearLog,
       RetryMove, RemoveFile, RemoveLog, RemoveTree, ClientCrash, Become, Advance, Finish, ClientHasTask, Idle
  <1>3. ASSUME ~At(c, "retry_move"), files'["failed"] \subseteq files["failed"], UNCHANGED errorLog
        PROVE  LogInv'
    BY <1>1, <1>2, <1>3 DEF LogInv, Explaining, At
  <1>4. CASE RetryClearLog(c)
    <2>1. /\ UNCHANGED files /\ errorLog'["failed"] = errorLog["failed"] \ {client[c].task}
          /\ client'[c].pc = "retry_move" /\ client'[c].task = client[c].task
          /\ ~At(c, "retry_move")
      BY <1>4 DEF RetryClearLog, At, Advance, Become
    <2> QED
      BY <1>1, <1>2, <2>1 DEF LogInv, Explaining, At
  <1>5. CASE RetryMove(c)
    <2>1. /\ files'["failed"] = files["failed"] \ {client[c].task} /\ UNCHANGED errorLog
      BY <1>5 DEF RetryMove, Move, MoveFails, Stage
    <2> QED
      BY <1>1, <1>2, <2>1 DEF LogInv, Explaining, At
  <1>6. CASE RemoveLog(c)
    <2>1. /\ UNCHANGED files /\ errorLog'["failed"] = errorLog["failed"] \ {client[c].task}
          /\ client[c].task \notin files["failed"] /\ ~At(c, "retry_move")
      BY <1>6 DEF RemoveLog, At, PromiseInv, RemovedLeft, InQueue, Stage
    <2> QED
      BY <1>1, <1>2, <2>1 DEF LogInv, Explaining, At
  <1>7. ASSUME NEW t \in Task, CopyProject(c, t) \/ AskStatus(c, t) \/ AskTask(c, t)
        PROVE  LogInv'
    BY <1>3, <1>7 DEF CopyProject, AskStatus, AskTask, Idle, At, folderVars
  <1>8. CASE WriteTask(c)
    BY <1>3, <1>8 DEF WriteTask, At, Stage
  <1>9. CASE RemoveFile(c)
    BY <1>3, <1>9 DEF RemoveFile, Idle, At, Stage
  <1>10. CASE Probe(c) \/ OpenFound(c) \/ RetryStart(c) \/ RemoveTree(c)
    BY <1>3, <1>10 DEF Probe, OpenFound, RetryStart, RemoveTree, Idle, At, folderVars
  <1>11. ~ClientCrash(c)
    BY DEF Undisturbed, ClientCrash
  <1> QED
    BY <1>4, <1>5, <1>6, <1>7, <1>8, <1>9, <1>10, <1>11 DEF ClientStep

LEMMA LogOfWorker ==
  ASSUME ~IoFaults, QueueInv, LogInv, WorkerStep(TrayWorker), UNCHANGED tray
  PROVE  LogInv'
  <1> DEFINE w == TrayWorker
  <1> USE WorkerAssumption DEF QueueInv, IInv, TypeOK, QueueTypeOK, WorkerTypeOK, Goto, Control, Kill, At,
        queueVars, otherFiles, clientVars, taskVars
  <1>1. pc[w] # "dead"
    BY DEF WorkerStep, StartUp, BootScan, RecoverOne, RecoverRaises, RecoverDone, KeepLock, CondemnLock, Unlink,
       UnlinkFails, Sweep, LocksDone, Loop, Top, Leave, Detach, Gate, Report, Serve, NextTask, EndBatch, Wake,
       ProcessOne, Take, TakeMissed, TakeRaises, Load, Open, OpenRaises, Solve, SolveRaises, Close, WriteResult,
       WriteResultRaises, FileDone, FileDoneRaises, FailMove, FailLog, FinishFailureRaises, FailResult, Clear
  <1>2. tray' = "up"
    BY <1>1 DEF LogInv
  <1>3. ASSUME pc[w] # "log", files'["failed"] \subseteq files["failed"], UNCHANGED <<errorLog, client>>
        PROVE  LogInv'
    BY <1>2, <1>3 DEF LogInv, Explaining
  <1>4. CASE StartUp(w)
    <2>1. CASE RecoverOne(w)
      BY <1>3, <2>1 DEF RecoverOne, Move, Stage
    <2>2. CASE RecoverRaises(w)
      BY <1>3, <2>2 DEF RecoverRaises, MoveFails
    <2>3. CASE BootScan(w) \/ RecoverDone(w) \/ KeepLock(w) \/ CondemnLock(w) \/ Unlink(w)
               \/ UnlinkFails(w) \/ Sweep(w) \/ LocksDone(w)
      BY <1>3, <2>3 DEF BootScan, RecoverDone, KeepLock, CondemnLock, Unlink, UnlinkFails, Sweep, LocksDone
    <2> QED
      BY <1>4, <2>1, <2>2, <2>3 DEF StartUp
  <1>5. CASE Loop(w)
    BY <1>3, <1>5 DEF Loop, Top, Leave, Detach, Gate, Report, Serve, NextTask, EndBatch, Wake
  <1>6. CASE Take(w) \/ FileDone(w)
    BY <1>3, <1>6 DEF Take, FileDone, Move, Stage
  <1>7. CASE TakeMissed(w) \/ TakeRaises(w) \/ Load(w) \/ Open(w) \/ OpenRaises(w) \/ Solve(w) \/ SolveRaises(w)
             \/ Close(w) \/ WriteResult(w) \/ WriteResultRaises(w) \/ FileDoneRaises(w) \/ FinishFailureRaises(w)
             \/ FailResult(w) \/ Clear(w)
    BY <1>3, <1>7 DEF TakeMissed, TakeRaises, Load, Open, OpenRaises, Solve, SolveRaises, Close, WriteResult,
       WriteResultRaises, FileDoneRaises, MoveFails, FinishFailureRaises, FailResult, Clear
  <1>8. CASE FailMove(w)
    <2>1. CASE pc'[w] = "log"
      <3>1. /\ files'["failed"] = files["failed"] \cup {cur[w]}
            /\ pc[w] = "fail" /\ UNCHANGED <<cur, errorLog, client>>
        BY <1>8, <2>1 DEF FailMove, Move, Stage
      <3> QED
        BY <1>2, <2>1, <3>1 DEF LogInv, Explaining
    <2>2. CASE pc'[w] # "log"
      BY <1>3, <1>8, <2>2 DEF FailMove, MoveFails
    <2> QED
      BY <2>1, <2>2
  <1>9. CASE FailLog(w)
    <2>1. CASE pc[w] = "log"
      <3>1. /\ errorLog'["failed"] = errorLog["failed"] \cup {cur[w]}
            /\ UNCHANGED <<files, client>>
        BY <1>9, <2>1 DEF FailLog, LogWritten
      <3> QED
        BY <1>2, <2>1, <3>1 DEF LogInv, Explaining
    <2>2. CASE pc[w] # "log"
      <3>1. errorLog'["failed"] = errorLog["failed"] /\ UNCHANGED <<files, client>>
        BY <1>9, <2>2 DEF FailLog, LogWritten
      <3> QED
        BY <1>2, <2>2, <3>1 DEF LogInv, Explaining
    <2> QED
      BY <2>1, <2>2
  <1> QED
    BY <1>4, <1>5, <1>6, <1>7, <1>8, <1>9 DEF WorkerStep, ProcessOne

LEMMA LogNext ==
  ASSUME ~IoFaults, OneWorker, Undisturbed, QueueInv, LogInv, [Next]_vars
  PROVE  LogInv'
  <1>1. ASSUME UNCHANGED <<queueVars, pc, cur, tray>>
        PROVE  LogInv'
    BY <1>1 DEF LogInv, Explaining, At, queueVars
  <1>2. ASSUME NEW w \in Worker, WorkerStep(w) \/ StartAlone(w) \/ Crash(w), UNCHANGED tray
        PROVE  LogInv'
    BY <1>2, LogOfWorker DEF OneWorker, Undisturbed, StartAlone, Crash
  <1>3. CASE AedtStep /\ UNCHANGED tray
    BY <1>1, <1>3, NotTheirQueue DEF AedtStep, AedtDies, workerVars, processVars, taskVars
  <1>4. CASE TrayStep
    <2>1. CASE ToggleRelease
      BY <1>1, <2>1 DEF ToggleRelease, trayUnchanged, processVars, taskVars
    <2>2. CASE NewTray \/ StartWorker
      BY <2>2, WorkerAssumption DEF NewTray, StartWorker, Spawn, Goto, trayUnchanged, queueVars, processVars, taskVars,
         LogInv, Explaining, At, QueueInv, IInv, TypeOK, WorkerTypeOK
    <2> QED
      BY <1>4, <2>1, <2>2 DEF TrayStep, StopCurrentRun, StopTerminate, Exit, ExitTerminate, Reset, ResetTerminate,
         Undisturbed, LogInv
  <1>5. CASE UNCHANGED <<queueVars, workerVars, tray>>
    BY <1>1, <1>5 DEF workerVars, processVars, taskVars
  <1> QED
    BY <1>2, <1>3, <1>4, <1>5, LogOfClient DEF Next, vars

(* When nobody is killed in between, every task in failed/ has its error   *)
(* log beside it or somebody is at it, through any number of retries.      *)
THEOREM FailuresExplained ==
  ASSUME ~IoFaults, OneClient, OneWorker, Undisturbed
  PROVE  Spec => []FailureExplained
  <1>1. QueueInv /\ LogInv /\ [Next]_vars => LogInv'
    BY LogNext
  <1>2. LogInv => FailureExplained
    BY WorkerAssumption DEF LogInv, Explaining, FailureExplained, Touched, At, Idle
  <1> QED
    BY <1>1, <1>2, LogInit, QueueInvariance, PTL DEF Spec
=============================================================================
