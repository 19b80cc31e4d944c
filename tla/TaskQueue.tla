----------------------------- MODULE TaskQueue -----------------------------
(***************************************************************************)
(* The shared queue folder and the operations a client pipeline performs   *)
(* on it (src/common/ansys_analyze_common/queue_common.py).                *)
(*                                                                         *)
(* The queue has no server and no lock: it is four stage folders on a      *)
(* network share, and a task changes stage when somebody renames its file. *)
(* A client operation is several file operations, so each of them is an    *)
(* action here and the worker (module Worker) runs in between.             *)
(*                                                                         *)
(* A task is a number: the order of the numbers is the order of the file   *)
(* names, which breaks ties between equal modification times.              *)
(***************************************************************************)
EXTENDS Integers, FiniteSets, Sequences

CONSTANTS
    Task,          \* task ids, positive numbers in file-name order
    Client,        \* client pipeline processes
    Kind,          \* what is in each task's file, see Kinds
    MaxTime,       \* bound: modification times are 1..MaxTime
    ClientOps,     \* the operations clients perform, a subset of Operations
    ClientCrashes, \* whether a client may die (or fail) between two file operations
    IoFaults       \* whether a file operation on the share may fail

Stage == {"pending", "in_progress", "done", "failed"}

NoTask == 0

(* "good": solves.  "flaky": the handler or a field export may raise.      *)
(* "unknown": no handler for its task_type.  "invalid": validate_task      *)
(* refuses it, although it has an output_dir.  "array": JSON, but not an   *)
(* object.  "unreadable": not JSON.                                        *)
Kinds == {"good", "flaky", "unknown", "invalid", "array", "unreadable"}

Operations == {"submit", "status", "read", "retry", "remove"}

ASSUME TaskAssumption == Task \subseteq Nat \ {0}
ASSUME KindAssumption == Kind \in [Task -> Kinds]
ASSUME TimeAssumption == MaxTime \in Nat \ {0}
ASSUME OpsAssumption == ClientOps \subseteq Operations
ASSUME QueueSwitches == ClientCrashes \in BOOLEAN /\ IoFaults \in BOOLEAN

VARIABLES
    files,      \* which task files each stage folder holds
    mtime,      \* modification time of each task's file, 0 before it is submitted
    errorLog,   \* the <task>.task.json.error.log files of failed/ and in_progress/
    project,    \* the tasks whose project bundle is in projects/<task_id>/
    result,     \* the status in projects/<task_id>/result.json, "none" without one,
                \* "broken" if it was cut short
    stray,      \* tasks whose result.json was written outside the queue folder
    discarded,  \* history: tasks whose file remove_task has deleted
    client      \* what each client is doing, and the last status it was given

folderVars == <<files, errorLog, project, result, stray>>
queueVars == <<files, mtime, errorLog, project, result, stray, discarded, client>>

InQueue(t) == \E s \in Stage : t \in files[s]

(* shutil.move between two stage folders: the modification time is kept.   *)
Move(t, from, to) ==
    files' = [files EXCEPT ![from] = @ \ {t}, ![to] = @ \cup {t}]

(* A failing move that loses the file (a fault the properties must notice, *)
(* like every definition below that is introduced as a fault).             *)
MoveFailsLosing(t, to) ==
    /\ IoFaults
    /\ \/ UNCHANGED files
       \/ files' = [s \in Stage |-> files[s] \ {t}]

(* shutil.move that fails: nothing happened, or the rename was refused and *)
(* the copy it falls back to succeeded but the source could not be removed.*)
MoveFails(t, to) ==
    /\ IoFaults
    /\ \/ UNCHANGED files
       \/ files' = [files EXCEPT ![to] = @ \cup {t}]

Older(t, u) == mtime[t] < mtime[u] \/ (mtime[t] = mtime[u] /\ t < u)

Oldest(S, t) == t \in S /\ \A u \in S \ {t} : Older(t, u)

-----------------------------------------------------------------------------
(* Clients                                                                 *)

ClientPc == {"idle", "copied", "probe", "probe_read", "open",
             "retry_log", "retry_move", "remove_log", "remove_tree"}

Answers == {"none", "unknown", "error"} \cup Stage

(* get_task_status and read_task look into the folders in this order.      *)
ScanOrder == <<"done", "failed", "in_progress", "pending">>

Idle(c) == client[c].pc = "idle"

At(c, pc) == client[c].pc = pc

Become(c, pc, t, at, saw) ==
    client' = [client EXCEPT ![c] = [pc |-> pc, task |-> t, at |-> at, saw |-> saw]]

Advance(c, pc) == Become(c, pc, client[c].task, 1, "none")

Finish(c, saw) == Become(c, "idle", client[c].task, 1, saw)

(* Fault: the task is queued without its bundle.                           *)
CopyProjectSkipped(c, t) ==
    /\ "submit" \in ClientOps
    /\ Idle(c)
    /\ mtime[t] = 0 /\ t \notin project
    /\ Kind[t] \notin {"invalid", "array", "unreadable"}
    /\ Become(c, "copied", t, 1, "none")
    /\ UNCHANGED <<folderVars, mtime, discarded>>

(* copy_project_to_queue, under a fresh task id.                           *)
CopyProject(c, t) ==
    /\ "submit" \in ClientOps
    /\ Idle(c)
    /\ mtime[t] = 0 /\ t \notin project
    /\ Kind[t] \notin {"invalid", "array", "unreadable"}
    /\ project' = project \cup {t}
    /\ Become(c, "copied", t, 1, "none")
    /\ UNCHANGED <<files, mtime, errorLog, result, stray, discarded>>

(* write_task_atomically: the finished temporary file is renamed into      *)
(* pending/. It got its modification time when it was written, so it may   *)
(* arrive after a file that is younger.                                    *)
WriteTask(c) ==
    /\ At(c, "copied")
    /\ \E now \in 1..MaxTime : mtime' = [mtime EXCEPT ![client[c].task] = now]
    /\ files' = [files EXCEPT !["pending"] = @ \cup {client[c].task}]
    /\ Finish(c, "none")
    /\ UNCHANGED <<errorLog, project, result, stray, discarded>>

(* get_task_status and read_task start, for a task that was submitted.     *)
AskStatus(c, t) ==
    /\ "status" \in ClientOps
    /\ Idle(c) /\ mtime[t] > 0
    /\ Become(c, "probe", t, 1, "none")
    /\ UNCHANGED <<folderVars, mtime, discarded>>

AskTask(c, t) ==
    /\ "read" \in ClientOps
    /\ Idle(c) /\ mtime[t] > 0
    /\ Become(c, "probe_read", t, 1, "none")
    /\ UNCHANGED <<folderVars, mtime, discarded>>

(* Fault: the scan runs past its last folder.                              *)
ProbePastEnd(c) ==
    /\ client[c].pc \in {"probe", "probe_read"}
    /\ client[c].task \notin files[ScanOrder[client[c].at]]
    /\ Become(c, client[c].pc, client[c].task, client[c].at + 1, "none")
    /\ UNCHANGED <<folderVars, mtime, discarded>>

(* One os.path.exists of either scan.                                      *)
Probe(c) ==
    LET at == client[c].at
        found == client[c].task \in files[ScanOrder[at]]
    IN  /\ client[c].pc \in {"probe", "probe_read"}
        /\ \/ /\ found /\ At(c, "probe")
              /\ Finish(c, ScanOrder[at])
           \/ /\ found /\ At(c, "probe_read")
              /\ Become(c, "open", client[c].task, at, "none")
           \/ /\ ~found /\ at < Len(ScanOrder)
              /\ Become(c, client[c].pc, client[c].task, at + 1, "none")
           \/ /\ ~found /\ at = Len(ScanOrder)
              /\ Finish(c, "unknown")
        /\ UNCHANGED <<folderVars, mtime, discarded>>

(* read_task opens the path it has just seen: FileNotFoundError if the     *)
(* file has moved on.                                                      *)
OpenFound(c) ==
    LET here == ScanOrder[client[c].at]
    IN  /\ At(c, "open")
        /\ Finish(c, IF client[c].task \in files[here] THEN here ELSE "error")
        /\ UNCHANGED <<folderVars, mtime, discarded>>

(* A cleanup flow has been told that its task failed and retries it. That  *)
(* it asks first is the protocol docs/ARCHITECTURE.md gives clients;       *)
(* retry_task itself only looks into failed/.                              *)
RetryStart(c) ==
    /\ "retry" \in ClientOps
    /\ Idle(c) /\ client[c].saw = "failed"
    /\ IF client[c].task \in files["failed"] THEN Advance(c, "retry_log") ELSE Finish(c, "none")
    /\ UNCHANGED <<folderVars, mtime, discarded>>

RetryClearLog(c) ==
    /\ At(c, "retry_log")
    /\ errorLog' = [errorLog EXCEPT !["failed"] = @ \ {client[c].task}]
    /\ Advance(c, "retry_move")
    /\ UNCHANGED <<files, mtime, project, result, stray, discarded>>

(* Fault: the client goes on believing its last answer.                    *)
RetryMoveBelieved(c) ==
    /\ At(c, "retry_move")
    /\ IF client[c].task \in files["failed"]
       THEN Move(client[c].task, "failed", "pending")
       ELSE UNCHANGED files
    /\ Finish(c, "failed")
    /\ UNCHANGED <<mtime, errorLog, project, result, stray, discarded>>

(* The move raises when another client has taken the file away.            *)
RetryMove(c) ==
    /\ At(c, "retry_move")
    /\ IF client[c].task \in files["failed"]
       THEN Move(client[c].task, "failed", "pending") \/ MoveFails(client[c].task, "pending")
       ELSE UNCHANGED files
    /\ Finish(c, "none")
    /\ UNCHANGED <<mtime, errorLog, project, result, stray, discarded>>

(* Fault: the file is deleted wherever there is one.                       *)
RemoveFileAnywhere(c) ==
    LET t == client[c].task
    IN  /\ "remove" \in ClientOps
        /\ Idle(c) /\ client[c].saw = "failed"
        /\ files' = [s \in Stage |-> files[s] \ {t}]
        /\ discarded' = discarded \cup ({t} \cap files["failed"])
        /\ Advance(c, "remove_log")
        /\ UNCHANGED <<mtime, errorLog, project, result, stray>>

(* remove_task deletes the task file, if it is still in failed/ (again, of *)
(* a client that was told so: remove_task checks nothing) ...              *)
RemoveFile(c) ==
    LET t == client[c].task
    IN  /\ "remove" \in ClientOps
        /\ Idle(c) /\ client[c].saw = "failed"
        /\ files' = [files EXCEPT !["failed"] = @ \ {t}]
        /\ discarded' = discarded \cup ({t} \cap files["failed"])
        /\ Advance(c, "remove_log")
        /\ UNCHANGED <<mtime, errorLog, project, result, stray>>

(* ... then its error log ...                                              *)
RemoveLog(c) ==
    /\ At(c, "remove_log")
    /\ errorLog' = [errorLog EXCEPT !["failed"] = @ \ {client[c].task}]
    /\ Advance(c, "remove_tree")
    /\ UNCHANGED <<files, mtime, project, result, stray, discarded>>

(* ... then projects/<task_id>/ with everything in it.                     *)
RemoveTree(c) ==
    /\ At(c, "remove_tree")
    /\ project' = project \ {client[c].task}
    /\ result' = [result EXCEPT ![client[c].task] = "none"]
    /\ Finish(c, "none")
    /\ UNCHANGED <<files, mtime, errorLog, stray, discarded>>

(* The process dies, or a file operation raises, in mid-operation.         *)
ClientCrash(c) ==
    /\ ClientCrashes
    /\ ~Idle(c)
    /\ Finish(c, "none")
    /\ UNCHANGED <<folderVars, mtime, discarded>>

ClientStep(c) ==
    \/ \E t \in Task : CopyProject(c, t) \/ AskStatus(c, t) \/ AskTask(c, t)
    \/ WriteTask(c) \/ Probe(c) \/ OpenFound(c)
    \/ RetryStart(c) \/ RetryClearLog(c) \/ RetryMove(c)
    \/ RemoveFile(c) \/ RemoveLog(c) \/ RemoveTree(c)
    \/ ClientCrash(c)

-----------------------------------------------------------------------------
(* The queue when the service is first started: some tasks are waiting.    *)
(* Files a newer client library or a person put there may be invalid.      *)
QueueInit ==
    /\ mtime \in [Task -> 0..MaxTime]
    /\ files = [s \in Stage |-> IF s = "pending" THEN {t \in Task : mtime[t] > 0} ELSE {}]
    /\ errorLog = [s \in {"failed", "in_progress"} |-> {}]
    /\ project = {t \in Task : mtime[t] > 0}
    /\ result = [t \in Task |-> "none"]
    /\ stray = {}
    /\ discarded = {}
    /\ client = [c \in Client |-> [pc |-> "idle", task |-> NoTask, at |-> 1, saw |-> "none"]]

ClientState ==
    [pc : ClientPc, task : Task \cup {NoTask}, at : 1..4, saw : Answers]

QueueTypeOK ==
    /\ files \in [Stage -> SUBSET Task]
    /\ mtime \in [Task -> 0..MaxTime]
    /\ errorLog \in [{"failed", "in_progress"} -> SUBSET Task]
    /\ project \in SUBSET Task
    /\ result \in [Task -> {"none", "success", "failed", "broken"}]
    /\ stray \in SUBSET Task
    /\ discarded \in SUBSET Task
    /\ client \in [Client -> ClientState]
=============================================================================
