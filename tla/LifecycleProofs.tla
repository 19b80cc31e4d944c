--------------------------- MODULE LifecycleProofs ---------------------------
(***************************************************************************)
(* The queue folder implements TaskFolders, for any number of clients and  *)
(* workers, each of which may be killed at every step and whose file       *)
(* operations may fail; and, when none of them fails, also TaskLifecycle:  *)
(* a move that fails half-way leaves a file in two folders.                *)
(***************************************************************************)
EXTENDS AnalysisServiceProofs

(* A task that is being submitted has its bundle and nothing else yet.     *)
CopiedIsNew ==
    \A c \in Client : At(c, "copied") =>
        mtime[client[c].task] = 0 /\ client[c].task \in project

(* No two clients submit the same task.                                    *)
CopiedApart ==
    \A c, d \in Client : At(c, "copied") /\ At(d, "copied") /\ c # d => client[c].task # client[d].task

(* Every other operation, and every answer, is about a submitted task.     *)
OthersAreOld ==
    \A c \in Client : client[c].pc \notin {"idle", "copied"} \/ client[c].saw # "none" =>
        mtime[client[c].task] > 0

(* What is in the queue has been submitted.                                *)
Arrived == \A t \in Task : InQueue(t) => mtime[t] > 0

ClientsInv == CopiedIsNew /\ CopiedApart /\ OthersAreOld

SubmitInv == ClientsInv /\ Arrived

-----------------------------------------------------------------------------
(* Only clients touch modification times, clients and bundles.             *)
LEMMA OnlyClients ==
  ASSUME [Next]_vars
  PROVE  (\E c \in Client : ClientStep(c)) \/ UNCHANGED <<mtime, client, project>>
  <1> USE DEF queueVars, otherFiles, clientVars, Control
  <1>1. ASSUME NEW w \in Worker, WorkerStep(w) \/ StartAlone(w) \/ Crash(w)
        PROVE  UNCHANGED <<mtime, client, project>>
    <2>1. CASE StartUp(w)
      BY <2>1 DEF StartUp, BootScan, RecoverOne, RecoverRaises, RecoverDone, KeepLock, CondemnLock, Unlink,
            UnlinkFails, Sweep, LocksDone
    <2>2. CASE Loop(w)
      BY <2>2 DEF Loop, Top, Leave, Detach, Gate, Report, Serve, NextTask, EndBatch, Wake
    <2>3. CASE ProcessOne(w)
      BY <2>3 DEF ProcessOne, Take, TakeMissed, TakeRaises, Load, Open, OpenRaises, Solve, SolveRaises, Close,
            WriteResult, WriteResultRaises, FileDone, FileDoneRaises, FailMove, FailLog, FinishFailureRaises,
            FailResult, Clear
    <2> QED
      BY <1>1, <2>1, <2>2, <2>3 DEF WorkerStep, StartAlone, Crash
  <1>2. CASE AedtStep
    BY <1>2 DEF AedtStep, AedtDies
  <1>3. CASE TrayStep
    BY <1>3 DEF TrayStep, ToggleRelease, StopCurrentRun, StopTerminate, StartWorker, Exit, ExitTerminate, Reset,
          ResetTerminate, NewTray, trayUnchanged
  <1>4. CASE UNCHANGED vars
    BY <1>4 DEF vars
  <1> QED
    BY <1>1, <1>2, <1>3, <1>4 DEF Next

(* A client's step keeps what is said of the clients.                      *)
LEMMA ClientsSubmit ==
  ASSUME QueueTypeOK, ClientHasTask, SubmitInv, NEW c \in Client, ClientStep(c)
  PROVE  ClientsInv'
  <1>1. ASSUME NEW t \in Task, CopyProject(c, t)
        PROVE  ClientsInv'
    <2>1. /\ mtime[t] = 0 /\ t \notin project
          /\ UNCHANGED mtime /\ project' = project \cup {t}
          /\ Become(c, "copied", t, 1, "none")
      BY <1>1 DEF CopyProject
    <2> QED
      BY <2>1 DEF QueueTypeOK, ClientState, SubmitInv, ClientsInv, CopiedIsNew, CopiedApart, OthersAreOld, At, Become
  <1>2. CASE WriteTask(c)
    <2>1. At(c, "copied") /\ Become(c, "idle", client[c].task, 1, "none") /\ UNCHANGED project
      BY <1>2 DEF WriteTask, Finish
    <2>2. client[c].task \in Task /\ \A t \in Task \ {client[c].task} : mtime'[t] = mtime[t]
      BY <1>2 DEF WriteTask, QueueTypeOK, ClientHasTask, At, Idle
    <2>3. mtime'[client[c].task] > 0
      BY <1>2, <2>2, TimeAssumption DEF WriteTask, QueueTypeOK
    <2>4. \A d \in Client : At(d, "copied") \/ client[d].pc # "idle" \/ client[d].saw # "none" => client[d].task \in Task
      BY DEF ClientHasTask, At, Idle
    <2>5. (CopiedIsNew /\ CopiedApart)'
      BY <2>1, <2>2, <2>4 DEF QueueTypeOK, ClientState, SubmitInv, ClientsInv, CopiedIsNew, CopiedApart, At, Become
    <2>6. OthersAreOld'
      BY <2>1, <2>2, <2>3, <2>4 DEF QueueTypeOK, ClientState, SubmitInv, ClientsInv, OthersAreOld, At, Become
    <2> QED
      BY <2>5, <2>6 DEF ClientsInv
  <1>3. ASSUME NEW t \in Task, mtime[t] > 0, UNCHANGED mtime, project \ {t} \subseteq project',
               NEW p, NEW at, NEW saw, p # "copied", Become(c, p, t, at, saw)
        PROVE  ClientsInv'
    BY <1>3 DEF QueueTypeOK, ClientState, SubmitInv, ClientsInv, CopiedIsNew, CopiedApart, OthersAreOld, At, Become
  <1>4. ASSUME NEW t \in Task, AskStatus(c, t) \/ AskTask(c, t)
        PROVE  ClientsInv'
    BY <1>3, <1>4 DEF AskStatus, AskTask, folderVars
  <1>5. CASE At(c, "copied") /\ ClientCrash(c)
    <2>1. Become(c, "idle", client[c].task, 1, "none") /\ UNCHANGED <<mtime, project>>
      BY <1>5 DEF ClientCrash, Finish, folderVars
    <2> QED
      BY <2>1 DEF QueueTypeOK, ClientState, SubmitInv, ClientsInv, CopiedIsNew, CopiedApart, OthersAreOld, At, Become
  <1>6. ASSUME client[c].pc \notin {"idle", "copied"} \/ client[c].saw # "none"
        PROVE  client[c].task \in Task /\ mtime[client[c].task] > 0
    BY <1>6 DEF ClientHasTask, Idle, SubmitInv, ClientsInv, OthersAreOld
  <1>7. CASE Probe(c)
    <2>1. client[c].pc \in {"probe", "probe_read"} /\ UNCHANGED <<mtime, project>>
      BY <1>7 DEF Probe, folderVars
    <2>2. \E p \in {"idle", "probe", "probe_read", "open"} : \E at, saw : Become(c, p, client[c].task, at, saw)
      BY <1>7, <2>1 DEF Probe, Finish, At
    <2> QED
      BY <2>1, <2>2, <1>3, <1>6
  <1>8. CASE OpenFound(c)
    BY <1>3, <1>6, <1>8 DEF OpenFound, At, Finish, folderVars
  <1>9. CASE RetryStart(c)
    BY <1>3, <1>6, <1>9 DEF RetryStart, Advance, Finish, folderVars
  <1>10. CASE RetryClearLog(c) \/ RetryMove(c) \/ RemoveLog(c)
    BY <1>3, <1>6, <1>10 DEF RetryClearLog, RetryMove, RemoveLog, At, Advance, Finish
  <1>11. CASE RemoveFile(c)
    BY <1>3, <1>6, <1>11 DEF RemoveFile, Advance
  <1>12. CASE RemoveTree(c)
    BY <1>3, <1>6, <1>12 DEF RemoveTree, At, Finish
  <1>13. CASE ~At(c, "copied") /\ ClientCrash(c)
    BY <1>3, <1>6, <1>13 DEF ClientCrash, At, Idle, Finish, folderVars
  <1> QED
    BY <1>1, <1>2, <1>4, <1>5, <1>7, <1>8, <1>9, <1>10, <1>11, <1>12, <1>13 DEF ClientStep

(* With an invariant that knows where submissions are, a step moves a task *)
(* along an edge, adds a new one to pending/ or removes one from failed/.  *)
Arrive(t) ==
    /\ mtime[t] = 0 /\ ~InQueue(t) /\ mtime'[t] > 0
    /\ \A u \in Task \ {t} : mtime'[u] = mtime[u]
    /\ files' = [files EXCEPT !["pending"] = @ \cup {t}]
    /\ UNCHANGED discarded

Depart(t) ==
    /\ mtime[t] > 0 /\ UNCHANGED mtime
    /\ files' = [files EXCEPT !["failed"] = @ \ {t}]
    /\ discarded' = discarded \cup ({t} \cap files["failed"])

LifecycleStep ==
    \/ UNCHANGED <<files, mtime, discarded>>
    \/ /\ UNCHANGED <<mtime, discarded>>
       /\ \E t \in Task, e \in Edges :
            t \in files[e[1]] /\ (Move(t, e[1], e[2]) \/ MoveFails(t, e[2]))
    \/ \E t \in Task : Arrive(t) \/ Depart(t)

LEMMA NextLifecycle ==
  ASSUME IInv, SubmitInv, [Next]_vars
  PROVE  LifecycleStep
  <1> USE DEF IInv, TypeOK, QueueTypeOK, ClientHasTask, ClientState, SubmitInv, At, Idle
  <1>1. ASSUME NEW c \in Client, WriteTask(c)
        PROVE  Arrive(client[c].task) /\ client[c].task \in Task
    <2>1. client[c].task \in Task /\ mtime[client[c].task] = 0
      BY <1>1 DEF WriteTask, ClientsInv, CopiedIsNew
    <2>2. ~InQueue(client[c].task)
      BY <2>1 DEF Arrived
    <2> QED
      BY <1>1, <2>1, <2>2 DEF WriteTask, Arrive
  <1>2. ASSUME NEW c \in Client, RemoveFile(c)
        PROVE  Depart(client[c].task) /\ client[c].task \in Task
    BY <1>2 DEF RemoveFile, ClientsInv, OthersAreOld, Depart
  <1> QED
    BY <1>1, <1>2, NextFiles DEF FileStep, LifecycleStep

LEMMA SubmitInductive ==
  ASSUME IInv, SubmitInv, [Next]_vars
  PROVE  SubmitInv'
  <1> USE DEF IInv, TypeOK
  <1>1. ClientsInv'
    <2>1. CASE \E c \in Client : ClientStep(c)
      BY <2>1, ClientsSubmit
    <2>2. CASE UNCHANGED <<mtime, client, project>>
      BY <2>2 DEF SubmitInv, ClientsInv, CopiedIsNew, CopiedApart, OthersAreOld, At
    <2> QED
      BY <2>1, <2>2, OnlyClients
  <1>2. Arrived'
    <2> USE DEF SubmitInv, Arrived, InQueue, Stage, QueueTypeOK
    <2>1. CASE UNCHANGED <<files, mtime>>
      BY <2>1
    <2>2. ASSUME NEW t \in Task, NEW e \in Edges, UNCHANGED mtime, t \in files[e[1]],
                 Move(t, e[1], e[2]) \/ MoveFails(t, e[2])
          PROVE  Arrived'
      BY <2>2 DEF Edges, Move, MoveFails
    <2>3. ASSUME NEW t \in Task, Arrive(t)
          PROVE  Arrived'
      BY <2>3 DEF Arrive
    <2>4. ASSUME NEW t \in Task, Depart(t)
          PROVE  Arrived'
      BY <2>4 DEF Depart
    <2> QED
      BY <2>1, <2>2, <2>3, <2>4, NextLifecycle DEF LifecycleStep
  <1> QED
    BY <1>1, <1>2 DEF SubmitInv

(* Without failing moves a file stays in one folder.                       *)
LEMMA OneStageInductive ==
  ASSUME ~IoFaults, IInv, SubmitInv, OneStage, [Next]_vars
  PROVE  OneStage'
  <1> USE DEF IInv, TypeOK, OneStage, Stage, QueueTypeOK
  <1>1. CASE UNCHANGED files
    BY <1>1
  <1>2. ASSUME NEW t \in Task, NEW e \in Edges, t \in files[e[1]], Move(t, e[1], e[2])
        PROVE  OneStage'
    BY <1>2 DEF Edges, Move
  <1>3. ASSUME NEW t \in Task, Arrive(t)
        PROVE  OneStage'
    BY <1>3 DEF Arrive, InQueue
  <1>4. ASSUME NEW t \in Task, Depart(t)
        PROVE  OneStage'
    BY <1>4 DEF Depart
  <1> QED
    BY <1>1, <1>2, <1>3, <1>4, NextLifecycle DEF LifecycleStep, MoveFails

LEMMA SubmitInit == Init => SubmitInv /\ OneStage
  BY TimeAssumption DEF Init, QueueInit, SubmitInv, ClientsInv, CopiedIsNew, CopiedApart, OthersAreOld, Arrived, OneStage, InQueue, Stage, At

LEMMA SubmitAlways == Spec => [](IInv /\ SubmitInv)
  BY SubmitInductive, SubmitInit, Invariance, PTL DEF Spec

LEMMA SubmitInvariance ==
  ASSUME ~IoFaults
  PROVE  Spec => [](IInv /\ SubmitInv /\ OneStage)
  <1>1. IInv /\ SubmitInv /\ OneStage /\ [Next]_vars => OneStage'
    BY OneStageInductive
  <1> QED
    BY <1>1, SubmitInit, SubmitAlways, PTL DEF Spec

-----------------------------------------------------------------------------
(* With TaskFolders the mapping hides a step's author and its failure.     *)
LEMMA FoldersNext ==
  ASSUME IInv, SubmitInv, [Next]_vars
  PROVE  [Folders!Next]_(Folders!vars)
  <1> USE DEF IInv, TypeOK, QueueTypeOK
  <1>1. CASE UNCHANGED <<files, mtime, discarded>>
    BY <1>1 DEF Folders!vars
  <1>2. ASSUME NEW t \in Task, NEW e \in Edges, UNCHANGED <<mtime, discarded>>,
               t \in files[e[1]], Move(t, e[1], e[2]) \/ MoveFails(t, e[2])
        PROVE  [Folders!Next]_(Folders!vars)
    <2>1. CASE UNCHANGED files
      BY <1>1, <1>2, <2>1
    <2>2. CASE files' # files
      <3>1. Folders!Move(t, e[1], e[2])
        BY <1>2, <2>2 DEF Move, MoveFails, Folders!Move
      <3>2. e \in Folders!Edges
        BY DEF Edges, Folders!Edges
      <3> QED
        BY <3>1, <3>2 DEF Folders!Next
    <2> QED
      BY <2>1, <2>2
  <1>3. ASSUME NEW t \in Task, Arrive(t)
        PROVE  Folders!Next
    <2>1. {u \in Task : mtime'[u] > 0} = {u \in Task : mtime[u] > 0} \cup {t}
      BY <1>3 DEF Arrive
    <2>2. t \notin {u \in Task : mtime[u] > 0} /\ \A s \in Folders!Stage : t \notin files[s]
      BY <1>3 DEF Arrive, InQueue, Stage, Folders!Stage
    <2> QED
      BY <1>3, <2>1, <2>2 DEF Arrive, Folders!Next, Folders!Submit
  <1>4. ASSUME NEW t \in Task, Depart(t)
        PROVE  [Folders!Next]_(Folders!vars)
    <2>1. CASE t \in files["failed"]
      <3>1. Folders!Remove(t)
        BY <1>4, <2>1 DEF Depart, Folders!Remove
      <3> QED
        BY <3>1 DEF Folders!Next
    <2>2. CASE t \notin files["failed"]
      BY <1>1, <1>4, <2>2 DEF Depart, Stage
    <2> QED
      BY <2>1, <2>2
  <1> QED
    BY <1>1, <1>2, <1>3, <1>4, NextLifecycle DEF LifecycleStep

(* Whatever is killed and whichever file operation fails half-way, a task  *)
(* file goes only along the edges of the life cycle, no copy leaves done/, *)
(* none is made but by a move, and a removal takes one file from failed/.  *)
THEOREM ImplementsFolders == Spec => FoldersSpec
  <1>1. Init => Folders!Init
    <2>1. ASSUME Init
          PROVE  /\ files = [s \in Folders!Stage |-> IF s = "pending" THEN {t \in Task : mtime[t] > 0} ELSE {}]
                 /\ discarded = {}
      BY <2>1 DEF Init, QueueInit, Stage, Folders!Stage
    <2> QED
      BY <2>1 DEF Folders!Init
  <1>2. IInv /\ SubmitInv /\ [Next]_vars => [Folders!Next]_(Folders!vars)
    BY FoldersNext
  <1> QED
    BY <1>1, <1>2, SubmitAlways, PTL DEF Spec, FoldersSpec, Folders!Spec

(* On a share that fails no operation, a task's file is in one stage       *)
(* folder, with any number of clients and workers, killed at any step.     *)
THEOREM OneFolder ==
  ASSUME ~IoFaults
  PROVE  Spec => []OneStage
  BY SubmitInvariance, PTL

-----------------------------------------------------------------------------
(* The refinement mapping: the stage is the one folder the file is in.     *)
LEMMA StageIsFolder ==
  ASSUME OneStage, NEW t \in Task, NEW s \in Stage, t \in files[s]
  PROVE  StageOf(t) = s
  BY DEF OneStage, StageOf, InQueue

LEMMA StageElsewhere ==
  ASSUME NEW t \in Task, ~InQueue(t)
  PROVE  StageOf(t) = IF mtime[t] = 0 THEN "new" ELSE "removed"
  BY DEF StageOf

LEMMA LifecycleInit == Init => Lifecycle!Init
  <1> SUFFICES ASSUME Init, NEW t \in Task
               PROVE  StageOf(t) \in {"new", "pending"}
    BY DEF Lifecycle!Init
  <1>1. CASE mtime[t] > 0
    BY <1>1, SubmitInit, StageIsFolder DEF Init, QueueInit, Stage
  <1>2. CASE mtime[t] = 0
    BY <1>2, StageElsewhere, SubmitInit DEF SubmitInv, Arrived
  <1> QED
    BY <1>1, <1>2, TimeAssumption DEF Init, QueueInit

(* The same two facts after a step.                                        *)
LEMMA NextStageIsFolder ==
  ASSUME OneStage', NEW t \in Task, NEW s \in Stage, t \in files'[s]
  PROVE  StageOf(t)' = s
  BY DEF OneStage, StageOf, InQueue

LEMMA NextStageElsewhere ==
  ASSUME NEW t \in Task, ~InQueue(t)'
  PROVE  StageOf(t)' = IF mtime'[t] = 0 THEN "new" ELSE "removed"
  BY DEF StageOf

(* A task whose file a step leaves where it is keeps its stage.            *)
LEMMA StageKept ==
  ASSUME OneStage, OneStage', NEW u \in Task, mtime'[u] = mtime[u],
         \A s \in Stage : u \in files'[s] <=> u \in files[s]
  PROVE  StageOf(u)' = StageOf(u)
  <1>1. ASSUME NEW s \in Stage, u \in files[s]
        PROVE  StageOf(u)' = StageOf(u)
    BY <1>1, StageIsFolder, NextStageIsFolder
  <1>2. CASE ~InQueue(u)
    BY <1>2, StageElsewhere, NextStageElsewhere DEF InQueue
  <1> QED
    BY <1>1, <1>2 DEF InQueue

LEMMA LifecycleNext ==
  ASSUME ~IoFaults, IInv, SubmitInv, OneStage, OneStage', [Next]_vars
  PROVE  [Lifecycle!Next]_([t \in Task |-> StageOf(t)])
  <1> DEFINE stages == [t \in Task |-> StageOf(t)]
  <1> USE DEF IInv, TypeOK, QueueTypeOK
  <1>1. ASSUME NEW t \in Task, NEW from, NEW to, StageOf(t) = from, StageOf(t)' = to,
               \A u \in Task \ {t} : StageOf(u)' = StageOf(u)
        PROVE  Lifecycle!Moves(t, from, to)
    BY <1>1 DEF Lifecycle!Moves
  <1>2. CASE UNCHANGED <<files, mtime>>
    <2>1. \A u \in Task : StageOf(u)' = StageOf(u)
      BY <1>2, StageKept
    <2> QED
      BY <2>1
  <1>3. ASSUME NEW t \in Task, NEW e \in Edges, UNCHANGED mtime, t \in files[e[1]], Move(t, e[1], e[2])
        PROVE  Lifecycle!Next
    <2>1. StageOf(t) = e[1]
      BY <1>3, StageIsFolder DEF Edges, Stage
    <2>2. StageOf(t)' = e[2]
      BY <1>3, NextStageIsFolder DEF Edges, Stage, Move
    <2>3. \A u \in Task \ {t} : StageOf(u)' = StageOf(u)
      BY <1>3, StageKept DEF Edges, Stage, Move
    <2>4. Lifecycle!Moves(t, e[1], e[2])
      BY <1>1, <2>1, <2>2, <2>3
    <2> QED
      BY <2>4 DEF Edges, Lifecycle!Next, Lifecycle!Take, Lifecycle!Recover, Lifecycle!Succeed, Lifecycle!Fail,
            Lifecycle!Retry
  <1>4. ASSUME NEW t \in Task, Arrive(t)
        PROVE  Lifecycle!Next
    <2>1. StageOf(t) = "new"
      BY <1>4, StageElsewhere DEF Arrive
    <2>2. StageOf(t)' = "pending"
      BY <1>4, NextStageIsFolder DEF Arrive, Stage
    <2>3. \A u \in Task \ {t} : StageOf(u)' = StageOf(u)
      BY <1>4, StageKept DEF Arrive, Stage
    <2> QED
      BY <1>1, <2>1, <2>2, <2>3 DEF Lifecycle!Next, Lifecycle!Submit
  <1>5. ASSUME NEW t \in Task, Depart(t), t \in files["failed"]
        PROVE  Lifecycle!Next
    <2>1. StageOf(t) = "failed"
      BY <1>5, StageIsFolder DEF Stage
    <2>2. ~InQueue(t)'
      BY <1>5 DEF Depart, OneStage, InQueue, Stage
    <2>3. StageOf(t)' = "removed"
      BY <1>5, <2>2, NextStageElsewhere DEF Depart
    <2>4. \A u \in Task \ {t} : StageOf(u)' = StageOf(u)
      BY <1>5, StageKept DEF Depart, Stage
    <2> QED
      BY <1>1, <2>1, <2>3, <2>4 DEF Lifecycle!Next, Lifecycle!Remove
  <1>6. ASSUME NEW t \in Task, Depart(t), t \notin files["failed"]
        PROVE  UNCHANGED <<files, mtime>>
    BY <1>6 DEF Depart, Stage
  <1> QED
    BY <1>2, <1>3, <1>4, <1>5, <1>6, NextLifecycle DEF LifecycleStep, MoveFails

(* The service implements the life cycle of a task: "done" is final, a     *)
(* task leaves "failed" only through a client, none appears or disappears  *)
(* otherwise, with any number of workers recovering each other's tasks.    *)
THEOREM ImplementsLifecycle ==
  ASSUME ~IoFaults
  PROVE  Spec => LifecycleSpec
  <1>1. IInv /\ SubmitInv /\ OneStage /\ (IInv /\ SubmitInv /\ OneStage)' /\ [Next]_vars
        => [Lifecycle!Next]_([t \in Task |-> StageOf(t)])
    BY LifecycleNext
  <1> QED
    BY <1>1, LifecycleInit, SubmitInvariance, PTL DEF Spec, LifecycleSpec, Lifecycle!Spec
=============================================================================
