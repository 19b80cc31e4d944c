--------------------------- MODULE AnalysisService ---------------------------
(***************************************************************************)
(* The whole service: clients, the shared queue, the workers, their AEDT   *)
(* and the tray that supervises one of the workers.                        *)
(***************************************************************************)
EXTENDS Supervisor

vars == <<queueVars, lockVars, workerVars, tray>>

Init == QueueInit /\ LocksInit /\ WorkerInit /\ SupervisorInit

Next ==
    \/ \E c \in Client : ClientStep(c) /\ UNCHANGED <<lockVars, workerVars, tray>>
    \/ \E w \in Worker : (WorkerStep(w) \/ StartAlone(w) \/ Crash(w)) /\ UNCHANGED tray
    \/ AedtStep /\ UNCHANGED tray
    \/ TrayStep

Spec == Init /\ [][Next]_vars

(* Processes that run keep running, and PyAEDT calls return. Clients, the  *)
(* user, crashes and AEDT owe nothing; callbacks that have begun complete. *)
Fairness ==
    /\ \A w \in Worker : WF_vars(WorkerStep(w) /\ UNCHANGED tray)
    /\ WF_vars(StopTerminate)
    /\ WF_vars(StartWorker)
    /\ WF_vars(ExitTerminate)
    /\ WF_vars(ResetTerminate)
    /\ WF_vars(tray = "exec" /\ NewTray)

FairSpec == Spec /\ Fairness

-----------------------------------------------------------------------------
(* Every variable stays in its range.                                      *)
TypeOK == QueueTypeOK /\ LocksTypeOK /\ WorkerTypeOK /\ SupervisorTypeOK

(* A task file is in one stage folder at a time: no interleaving of        *)
(* clients, workers, recoveries and kills duplicates a task.               *)
OneStage == \A t \in Task : \A r, s \in Stage : t \in files[r] /\ t \in files[s] => r = s

(* A submitted task is in some stage folder until remove_task deletes its  *)
(* file, also when a move fails half-way.                                  *)
NoTaskLost == \A t \in Task : mtime[t] > 0 /\ t \notin discarded => InQueue(t)

(* recover_orphaned_tasks's premise, and its promise: once a worker that   *)
(* has the queue for itself is past its recovery, nothing sits in          *)
(* in_progress/ but the task it is working on.                             *)
InProgressIsWorkedOn ==
    \A w \in Worker : pc[w] \notin {"dead", "boot", "recover"} => files["in_progress"] \subseteq {cur[w]}

(* What a client finds when it acts on "done": a result.json that says     *)
(* success, never one of an earlier attempt, whatever was killed between.  *)
DoneMeansSuccess == \A t \in files["done"] : result[t] = "success"

(* A client decides on the last answer of get_task_status. While it is the *)
(* only client, "done" and "failed" stay true until it acts on them.       *)
AnswersStand ==
    \A c \in Client : client[c].saw \in {"done", "failed"} => client[c].task \in files[client[c].saw]

(* A worker never takes up a task whose project bundle is not there: the   *)
(* bundle is copied first and removed after the task file.                 *)
BundleBeforeFile == files["pending"] \cup files["in_progress"] \subseteq project

(* The worker has let go of AEDT and is where it takes up no task.         *)
Apart == {"dead", "top", "gate", "report", "serve", "next", "sleep"} \cup Starting
Detached == release /\ desktop[TrayWorker] = "none" /\ pc[TrayWorker] \in Apart

(* The menu says "Released" only when the worker holds no AEDT connection  *)
(* and has no task in hand, also across Stop, Reset and a relaunch.        *)
ReleasedLabelTruthful == LabelReleased => Detached

(* Once it is so, it stays so until the user or a new tray takes the       *)
(* release back: no process that is killed and started anew attaches to    *)
(* the user's AEDT, and no batch that has begun goes on to a next task.    *)
ReleaseKept == [][Detached /\ release' => Detached']_vars

(* The status file names the task whose solve "Stop current run" would     *)
(* abort, and names none when the worker sleeps or looks for work -- also  *)
(* when the file is what a killed worker left.                             *)
StatusNamesTheTask ==
    /\ pc[TrayWorker] \in {"next", "take", "sleep"} => statusFile.task = NoTask
    /\ pc[TrayWorker] \in {"open", "solve", "close_ok", "close_fail", "result", "file"} =>
          statusFile.task = cur[TrayWorker]

(* A lock naming a running AEDT of this machine goes only because that     *)
(* AEDT closes the project or dies: start-up never deletes it.             *)
LiveLockKept ==
    [][\A t \in Task : lock[t] = "live" /\ lock'[t] = "none" =>
          \E w \in Worker : cur[w] = t /\ pc[w] \in {"close_ok", "close_fail"}]_vars

(* What recover_orphaned_tasks has put back and clear_stale_locks_for_tasks*)
(* has still to look at or to delete the lock of.                          *)
ToJudge(w) == recovered[w] \cup (IF pc[w] \in {"locks", "unlink", "sweep"} THEN todo[w] \cup {cur[w]} ELSE {})

(* Unless it is killed, a starting worker does not forget a recovered task *)
(* whose file names a project before the lock of an AEDT that can be shown *)
(* to be dead is gone from that project.                                   *)
DeadLocksSeenTo ==
    [][\A w \in Worker : \A t \in ToJudge(w) \ {NoTask} :
          lock[t] = "dead" /\ NamesProject(t) =>
              t \in ToJudge(w)' \/ lock'[t] # "dead" \/ pc'[w] = "dead"]_vars

(* Between operations on it, a task in failed/ has its error log beside it *)
(* (when nobody is killed in between).                                     *)
Touched(t) ==
    \/ \E w \in Worker : cur[w] = t /\ pc[w] = "log"
    \/ \E c \in Client : client[c].task = t /\ ~Idle(c)
FailureExplained ==
    \A t \in files["failed"] : t \in errorLog["failed"] \/ Touched(t)

-----------------------------------------------------------------------------
(* The stage of a task, for TaskLifecycle.                                 *)
StageOf(t) ==
    IF InQueue(t) THEN CHOOSE s \in Stage : t \in files[s]
    ELSE IF mtime[t] = 0 THEN "new" ELSE "removed"

Lifecycle == INSTANCE TaskLifecycle WITH stage <- [t \in Task |-> StageOf(t)]

(* Clients, workers and the tray together implement the life cycle.        *)
LifecycleSpec == Lifecycle!Spec

Folders == INSTANCE TaskFolders WITH submitted <- {t \in Task : mtime[t] > 0}, removed <- discarded

(* What remains of it when a move leaves the file in both folders.         *)
FoldersSpec == Folders!Spec

(* Where a worker stands in its task, for TaskAttempt.                     *)
StandOf(w) ==
    CASE pc[w] \in {"open", "solve", "close_ok", "close_fail", "result", "file"} -> pc[w]
      [] pc[w] \in {"fail", "log", "log_here", "fail_result"} -> "fail"
      [] OTHER -> "idle"

Attempt(w) == INSTANCE TaskAttempt WITH stand <- StandOf(w)

(* Each worker goes through a task in the order ProjectSession fills in,   *)
(* from any state of the queue and whatever another worker does to it.     *)
AttemptsSpec ==
    /\ \A w \in Worker : Attempt(w)!Init
    /\ [][\A w \in Worker : Attempt(w)!Next \/ UNCHANGED StandOf(w)]_vars

-----------------------------------------------------------------------------
Serving == tray = "up" /\ pc[TrayWorker] # "dead" /\ ~release

Filed(t) == t \in files["done"] \cup files["failed"] \cup discarded

(* If the service is eventually left running, every task that waits, or    *)
(* was aborted, is filed -- although a client may retry an older one       *)
(* forever: a batch is listed once, so the retried task has to wait.       *)
PendingServed ==
    <>[]Serving =>
        \A t \in Task : t \in files["pending"] \cup files["in_progress"] ~> Filed(t)

(* A release that is not taken back ends with the AEDT connection dropped, *)
(* once the task in hand is finished.                                      *)
ReleaseDetaches == release ~> (~release \/ desktop[TrayWorker] = "none")

-----------------------------------------------------------------------------
(* What docstrings and docs/ARCHITECTURE.md say and the code does not do.  *)

(* get_task_status: "unknown" means the queue was cleaned up or the task   *)
(* id is wrong. The scan runs against the direction tasks move in.         *)
StatusNeverUnknown ==
    \A c \in Client : client[c].saw = "unknown" => client[c].task \in discarded

(* remove_task deletes the task file, its error log and its whole folder.  *)
RemovedIsGone ==
    \A t \in discarded :
        \/ t \notin errorLog["failed"] \cup project /\ result[t] = "none"
        \/ \E c \in Client : client[c].task = t /\ ~Idle(c)

(* stale_locks.py, "for each recovered task": a recovered task whose lock  *)
(* names a dead AEDT, or whose semaphores have lost their lock, is not     *)
(* forgotten before lock and semaphores are removed.                       *)
LeftBehind(t) == lock[t] = "dead" \/ (lock[t] = "none" /\ t \in sem)
RecoveredLocksCleared ==
    [][\A w \in Worker : \A t \in ToJudge(w) \ {NoTask} :
          LeftBehind(t) => t \in ToJudge(w)' \/ ~LeftBehind(t)']_vars

(* stale_locks.py, "what it deliberately does not do": the lock of an AEDT *)
(* on another machine goes only when that AEDT closes the project.         *)
ForeignLockKept ==
    [][\A t \in Task : lock[t] = "foreign" /\ lock'[t] = "none" => UNCHANGED pc]_vars
=============================================================================
