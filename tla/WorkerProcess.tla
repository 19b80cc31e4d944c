--------------------------- MODULE WorkerProcess ----------------------------
(***************************************************************************)
(* A worker process: its state, how it reports it                          *)
(* (src/worker/ansys_analyze_worker/worker.py, Worker.__init__ and         *)
(* _set_status) and how it starts and ends.                                *)
(*                                                                         *)
(* The tray's worker child is one process; further workers are started     *)
(* with --no-tray and have private, never set, control events and no       *)
(* status file. pc says where a worker stands in run_forever; a worker can *)
(* be killed at every pc, so the code is cut between any two effects       *)
(* another process can see.                                                *)
(***************************************************************************)
EXTENDS ProjectLocks

CONSTANTS
    Worker,       \* worker processes
    TrayWorker,   \* the one the tray supervises
    StatusFaults, \* whether a write of the status file may fail
    Crashes       \* whether a worker process may die by itself

ASSUME WorkerAssumption == TrayWorker \in Worker
ASSUME WorkerSwitches == StatusFaults \in BOOLEAN /\ Crashes \in BOOLEAN

VARIABLES
    pc,          \* where each worker stands
    cur,         \* the task a worker has taken up
    todo,        \* the files of the loop it is in: orphans, recovered or pending
    recovered,   \* the list recover_orphaned_tasks is building
    parsed,      \* what _finish_failure has of the task: its output_dir, if any
    desktop,     \* Worker._desktop
    cache,       \* Worker._status_cache of the tray's worker
    statusFile,  \* _logs/worker_status.json
    release,     \* the multiprocessing.Events of the supervisor
    stop

taskVars == <<cur, todo, recovered, parsed, desktop>>
processVars == <<pc, taskVars>>
statusVars == <<cache, statusFile>>
eventVars == <<release, stop>>
otherFiles == <<errorLog, project, result, stray>>
clientVars == <<mtime, discarded, client>>
workerVars == <<processVars, statusVars, eventVars>>

Starting == {"boot", "recover", "locks", "unlink", "sweep"}
Working == {"load", "open", "solve", "close_ok", "close_fail", "result", "file",
            "fail", "log", "log_here", "fail_result"}
Polling == {"top", "detach", "gate", "report", "serve", "next", "take", "clear", "sleep"}
Pc == {"dead"} \cup Starting \cup Working \cup Polling

Status == [state : {"none", "running", "paused", "released"}, task : Task \cup {NoTask}]
NoStatus == [state |-> "none", task |-> NoTask]

Goto(w, here, there) ==
    /\ pc[w] = here
    /\ pc' = [pc EXCEPT ![w] = there]

(* A step that only moves the program counter.                             *)
Control(w, here, there) ==
    /\ Goto(w, here, there)
    /\ UNCHANGED <<queueVars, lockVars, taskVars, statusVars, eventVars>>

(* A --no-tray worker reads events of its own, which nobody sets.          *)
IsPaused(w) == w = TrayWorker /\ release
IsStopped(w) == w = TrayWorker /\ stop

(* _set_status: the whole cache is rewritten, a failing write is ignored.  *)
Publish(w, new) ==
    IF w = TrayWorker
    THEN /\ cache' = new
         /\ \/ statusFile' = new
            \/ StatusFaults /\ UNCHANGED statusFile
    ELSE UNCHANGED statusVars

SetState(w, s) == Publish(w, [cache EXCEPT !.state = s])
SetCurrent(w, t) == Publish(w, [cache EXCEPT !.task = t])

-----------------------------------------------------------------------------
(* Process start and end                                                   *)

(* A fresh process: no task, no desktop handle, an empty status cache.     *)
Spawn(w) ==
    /\ Goto(w, "dead", "boot")
    /\ IF w = TrayWorker THEN cache' = NoStatus ELSE UNCHANGED cache

(* TerminateProcess, or a crash: files, locks and AEDT stay as they are.   *)
Kill(w) ==
    /\ pc' = [pc EXCEPT ![w] = "dead"]
    /\ cur' = [cur EXCEPT ![w] = NoTask]
    /\ todo' = [todo EXCEPT ![w] = {}]
    /\ recovered' = [recovered EXCEPT ![w] = {}]
    /\ parsed' = [parsed EXCEPT ![w] = "none"]
    /\ desktop' = [desktop EXCEPT ![w] = "none"]

StartAlone(w) ==
    /\ w # TrayWorker
    /\ Spawn(w)
    /\ UNCHANGED <<queueVars, lockVars, taskVars, statusFile, eventVars>>

(* Ctrl-C ends the process of a --no-tray worker; Crashes lets any die.    *)
Crash(w) ==
    /\ Crashes \/ w # TrayWorker
    /\ pc[w] # "dead"
    /\ Kill(w)
    /\ UNCHANGED <<queueVars, lockVars, statusVars, eventVars>>

-----------------------------------------------------------------------------
WorkerInit ==
    /\ pc = [w \in Worker |-> "dead"]
    /\ cur = [w \in Worker |-> NoTask]
    /\ todo = [w \in Worker |-> {}]
    /\ recovered = [w \in Worker |-> {}]
    /\ parsed = [w \in Worker |-> "none"]
    /\ desktop = [w \in Worker |-> "none"]
    /\ cache = NoStatus
    /\ statusFile = NoStatus
    /\ release = FALSE
    /\ stop = FALSE

WorkerTypeOK ==
    /\ pc \in [Worker -> Pc]
    /\ cur \in [Worker -> Task \cup {NoTask}]
    /\ todo \in [Worker -> SUBSET Task]
    /\ recovered \in [Worker -> SUBSET Task]
    /\ parsed \in [Worker -> {"none", "array", "relative", "resolved"}]
    /\ desktop \in [Worker -> {"none", "attached", "stale"}]
    /\ cache \in Status
    /\ statusFile \in Status
    /\ release \in BOOLEAN
    /\ stop \in BOOLEAN
=============================================================================
