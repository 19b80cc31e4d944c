------------------------------- MODULE Worker -------------------------------
(***************************************************************************)
(* The scan loop of a worker and what it does with one task                *)
(* (src/worker/ansys_analyze_worker/worker.py), down to the handler it     *)
(* runs (handlers/run_setups.py) and the AEDT it runs it in.               *)
(***************************************************************************)
EXTENDS StartUp

(* The loop of run_forever                                                 *)

(* Fault: _maybe_release_desktop is not called.                            *)
TopNoRelease(w) ==
    /\ ~IsStopped(w)
    /\ Control(w, "top", "gate")

(* The while condition, then _maybe_release_desktop's test.                *)
Top(w) ==
    /\ pc[w] = "top" /\ ~IsStopped(w)
    /\ pc' = [pc EXCEPT ![w] = IF IsPaused(w) /\ desktop[w] # "none" THEN "detach" ELSE "gate"]
    /\ UNCHANGED <<queueVars, lockVars, taskVars, statusVars, eventVars>>

Leave(w) ==
    /\ pc[w] = "top" /\ IsStopped(w)
    /\ Kill(w)
    /\ UNCHANGED <<queueVars, lockVars, statusVars, eventVars>>

(* release_desktop may fail; the handle is dropped either way.             *)
Detach(w) ==
    /\ Goto(w, "detach", "gate")
    /\ desktop' = [desktop EXCEPT ![w] = "none"]
    /\ SetState(w, "released")
    /\ UNCHANGED <<queueVars, lockVars, cur, todo, recovered, parsed, eventVars>>

Gate(w) ==
    Control(w, "gate", IF IsPaused(w) THEN "report" ELSE "serve")

(* is_released reads the event a second time.                              *)
Report(w) ==
    /\ Goto(w, "report", "sleep")
    /\ SetState(w, IF IsPaused(w) /\ desktop[w] = "none" THEN "released" ELSE "paused")
    /\ UNCHANGED <<queueVars, lockVars, taskVars, eventVars>>

(* Fault: the status is left as it was.                                    *)
ServeSilently(w) ==
    /\ Goto(w, "serve", "next")
    /\ todo' = [todo EXCEPT ![w] = files["pending"]]
    /\ UNCHANGED <<queueVars, lockVars, cur, recovered, parsed, desktop, statusVars, eventVars>>

(* Status "running", then one listing of pending/ for the whole batch. The *)
(* times in it cannot change, so its order is that of Older.               *)
Serve(w) ==
    /\ Goto(w, "serve", "next")
    /\ SetState(w, "running")
    /\ todo' = [todo EXCEPT ![w] = files["pending"]]
    /\ UNCHANGED <<queueVars, lockVars, cur, recovered, parsed, desktop, eventVars>>

(* Fault: pending/ is listed again for every task.                         *)
NextTaskRelisted(w) ==
    /\ Goto(w, "next", "take")
    /\ ~IsPaused(w) /\ ~IsStopped(w)
    /\ todo[w] # {}
    /\ \E t \in files["pending"] :
        /\ Oldest(files["pending"], t)
        /\ cur' = [cur EXCEPT ![w] = t]
        /\ todo' = [todo EXCEPT ![w] = @ \ {t}]
    /\ UNCHANGED <<queueVars, lockVars, recovered, parsed, desktop, statusVars, eventVars>>

(* Fault: a batch that has begun is not interrupted.                       *)
NextTaskUnasked(w) ==
    /\ Goto(w, "next", "take")
    /\ ~IsStopped(w)
    /\ \E t \in todo[w] :
        /\ Oldest(todo[w], t)
        /\ cur' = [cur EXCEPT ![w] = t]
        /\ todo' = [todo EXCEPT ![w] = @ \ {t}]
    /\ UNCHANGED <<queueVars, lockVars, recovered, parsed, desktop, statusVars, eventVars>>

(* The for loop of _process_pending_tasks.                                 *)
NextTask(w) ==
    /\ Goto(w, "next", "take")
    /\ ~IsPaused(w) /\ ~IsStopped(w)
    /\ \E t \in todo[w] :
        /\ Oldest(todo[w], t)
        /\ cur' = [cur EXCEPT ![w] = t]
        /\ todo' = [todo EXCEPT ![w] = @ \ {t}]
    /\ UNCHANGED <<queueVars, lockVars, recovered, parsed, desktop, statusVars, eventVars>>

EndBatch(w) ==
    /\ Goto(w, "next", "sleep")
    /\ todo[w] = {} \/ IsPaused(w) \/ IsStopped(w)
    /\ todo' = [todo EXCEPT ![w] = {}]
    /\ UNCHANGED <<queueVars, lockVars, cur, recovered, parsed, desktop, statusVars, eventVars>>

Wake(w) ==
    Control(w, "sleep", "top")

Loop(w) ==
    \/ Top(w) \/ Leave(w) \/ Detach(w) \/ Gate(w) \/ Report(w)
    \/ Serve(w) \/ NextTask(w) \/ EndBatch(w) \/ Wake(w)

-----------------------------------------------------------------------------
(* _process_one                                                            *)

(* Fault: the worker trusts its listing.                                   *)
TakeBlind(w) ==
    /\ Goto(w, "take", "load")
    /\ Move(cur[w], "pending", "in_progress")
    /\ UNCHANGED <<otherFiles, clientVars, lockVars, taskVars, statusVars, eventVars>>

Take(w) ==
    LET t == cur[w]
    IN  /\ Goto(w, "take", "load")
        /\ t \in files["pending"]
        /\ Move(t, "pending", "in_progress")
        /\ UNCHANGED <<otherFiles, clientVars, lockVars, taskVars, statusVars, eventVars>>

(* Another worker, or a person, has taken the file: FileNotFoundError.     *)
TakeMissed(w) ==
    /\ Goto(w, "take", "next")
    /\ cur[w] \notin files["pending"]
    /\ cur' = [cur EXCEPT ![w] = NoTask]
    /\ UNCHANGED <<queueVars, lockVars, todo, recovered, parsed, desktop, statusVars, eventVars>>

(* Any other error ends the batch: the move is outside the try block.      *)
TakeRaises(w) ==
    /\ Goto(w, "take", "sleep")
    /\ cur[w] \in files["pending"] /\ MoveFails(cur[w], "in_progress")
    /\ cur' = [cur EXCEPT ![w] = NoTask]
    /\ todo' = [todo EXCEPT ![w] = {}]
    /\ UNCHANGED <<otherFiles, clientVars, lockVars, recovered, parsed, desktop, statusVars, eventVars>>

(* Read, validate_task, resolve_path, get_handler and, only when all of    *)
(* them have succeeded, the status write.                                  *)
Contents(t) ==
    (IF t \in files["in_progress"] THEN {Kind[t]} ELSE {"unreadable"})
        \cup (IF IoFaults THEN {"unreadable"} ELSE {})

Load(w) ==
    \E found \in Contents(cur[w]) :
        /\ Goto(w, "load", IF found \in {"good", "flaky"} THEN "open" ELSE "fail")
        /\ parsed' = [parsed EXCEPT ![w] = CASE found = "unreadable" -> "none"
                                             [] found = "array"      -> "array"
                                             [] found = "invalid"    -> "relative"
                                             [] OTHER                -> "resolved"]
        /\ IF found \in {"good", "flaky"} THEN SetCurrent(w, cur[w]) ELSE UNCHANGED statusVars
        /\ UNCHANGED <<queueVars, lockVars, cur, todo, recovered, desktop, eventVars>>

(* _open_project: _ensure_desktop attaches unless there is a handle, Hfss  *)
(* then opens the project. A handle to an AEDT that has gone is kept.      *)
Attach(w) ==
    desktop' = [desktop EXCEPT ![w] = IF @ = "none" /\ aedt THEN "attached" ELSE @]

Open(w) ==
    /\ Goto(w, "open", "solve")
    /\ MayOpen(cur[w])
    /\ TakeLock(cur[w])
    /\ Attach(w)
    /\ UNCHANGED <<queueVars, aedt, cur, todo, recovered, parsed, statusVars, eventVars>>

(* The attachment raises, or Hfss does: before AEDT has opened the project,*)
(* or after, and then the project stays open and locked.                   *)
OpenRaises(w) ==
    /\ Goto(w, "open", "fail")
    /\ MayRefuse(cur[w]) \/ desktop[w] = "stale"
    /\ \/ AedtFaults /\ UNCHANGED <<desktop, lock, sem>>
       \/ Attach(w) /\ UNCHANGED <<lock, sem>>
       \/ AedtFaults /\ MayOpen(cur[w]) /\ Attach(w) /\ TakeLock(cur[w])
    /\ UNCHANGED <<queueVars, aedt, cur, todo, recovered, parsed, statusVars, eventVars>>

(* The handler and the field exports, run on a project AEDT has open.      *)
Solve(w) ==
    /\ Control(w, "solve", "close_ok")
    /\ lock[cur[w]] = "live" /\ cur[w] \in project

SolveRaises(w) ==
    /\ Control(w, "solve", "close_fail")
    /\ lock[cur[w]] # "live" \/ cur[w] \notin project \/ AedtFaults \/ Kind[cur[w]] = "flaky"

(* Fault: the task is filed without a result.json.                         *)
CloseNoResult(w) ==
    /\ \/ Goto(w, "close_ok", "file")
       \/ Goto(w, "close_fail", "fail")
    /\ DropLock(cur[w])
    /\ UNCHANGED <<queueVars, aedt, taskVars, statusVars, eventVars>>

(* _close_project swallows every error and so leaves the project open.     *)
Close(w) ==
    /\ \/ Goto(w, "close_ok", "result")
       \/ Goto(w, "close_fail", "fail")
    /\ \/ lock[cur[w]] = "live" /\ DropLock(cur[w])
       \/ (lock[cur[w]] # "live" \/ AedtFaults) /\ UNCHANGED <<lock, sem>>
    /\ UNCHANGED <<queueVars, aedt, taskVars, statusVars, eventVars>>

(* _finish_success: result.json first, then the move to done/.             *)
WriteResult(w) ==
    /\ Goto(w, "result", "file")
    /\ result' = [result EXCEPT ![cur[w]] = "success"]
    /\ UNCHANGED <<files, errorLog, project, stray, clientVars, lockVars, taskVars, statusVars, eventVars>>

(* It raises before or after the file was opened, which empties it.        *)
WriteResultRaises(w) ==
    /\ IoFaults
    /\ Goto(w, "result", "fail")
    /\ result' \in {result, [result EXCEPT ![cur[w]] = "broken"]}
    /\ UNCHANGED <<files, errorLog, project, stray, clientVars, lockVars, taskVars, statusVars, eventVars>>

(* Fault: the file is put into done/ wherever it was.                      *)
FileDoneBlind(w) ==
    /\ Goto(w, "file", "clear")
    /\ Move(cur[w], "in_progress", "done")
    /\ UNCHANGED <<otherFiles, clientVars, lockVars, taskVars, statusVars, eventVars>>

FileDone(w) ==
    LET t == cur[w]
    IN  /\ Goto(w, "file", "clear")
        /\ t \in files["in_progress"]
        /\ Move(t, "in_progress", "done")
        /\ UNCHANGED <<otherFiles, clientVars, lockVars, taskVars, statusVars, eventVars>>

FileDoneRaises(w) ==
    LET t == cur[w]
    IN  /\ Goto(w, "file", "fail")
        /\ \/ t \notin files["in_progress"] /\ UNCHANGED files
           \/ t \in files["in_progress"] /\ MoveFails(t, "done")
        /\ UNCHANGED <<otherFiles, clientVars, lockVars, taskVars, statusVars, eventVars>>

(* _finish_failure: the move to failed/; if it raises the log goes to      *)
(* in_progress/ instead ...                                                *)
FailMove(w) ==
    LET t == cur[w]
    IN  /\ \/ Goto(w, "fail", "log")
              /\ t \in files["in_progress"]
              /\ Move(t, "in_progress", "failed")
           \/ Goto(w, "fail", "log_here")
              /\ \/ t \notin files["in_progress"] /\ UNCHANGED files
                 \/ t \in files["in_progress"] /\ MoveFails(t, "failed")
        /\ UNCHANGED <<otherFiles, clientVars, lockVars, taskVars, statusVars, eventVars>>

(* Fault: the log always goes beside the old path.                         *)
FailLogMisplaced(w) ==
    /\ \/ Goto(w, "log", "fail_result")
       \/ Goto(w, "log_here", "fail_result")
    /\ errorLog' = [errorLog EXCEPT !["in_progress"] = @ \cup {cur[w]}]
    /\ UNCHANGED <<files, project, result, stray, clientVars, lockVars, taskVars, statusVars, eventVars>>

(* ... then the traceback ...                                              *)
LogWritten(w) ==
    LET place == IF pc[w] = "log" THEN "failed" ELSE "in_progress"
    IN  errorLog' = [errorLog EXCEPT ![place] = @ \cup {cur[w]}]

FailLog(w) ==
    /\ Goto(w, "log", "fail_result") \/ Goto(w, "log_here", "fail_result")
    /\ LogWritten(w)
    /\ UNCHANGED <<files, project, result, stray, clientVars, lockVars, taskVars, statusVars, eventVars>>

(* ... whose failure leaves _process_one and ends the batch, and so does   *)
(* the question for the output_dir of a task that is no dict ...           *)
FinishFailureRaises(w) ==
    /\ \/ /\ IoFaults /\ pc[w] \in {"log", "log_here"}
          /\ LogWritten(w) \/ UNCHANGED errorLog
       \/ /\ pc[w] = "fail_result" /\ parsed[w] = "array"
          /\ UNCHANGED errorLog
    /\ pc' = [pc EXCEPT ![w] = "clear"]
    /\ todo' = [todo EXCEPT ![w] = {}]
    /\ UNCHANGED <<files, project, result, stray, clientVars, lockVars>>
    /\ UNCHANGED <<cur, recovered, parsed, desktop, statusVars, eventVars>>

(* ... then result.json, in whatever output_dir the task dict holds by now.*)
FailResult(w) ==
    /\ Goto(w, "fail_result", "clear")
    /\ parsed[w] # "array"
    /\ \/ /\ parsed[w] = "resolved"
          /\ \/ result' = [result EXCEPT ![cur[w]] = "failed"]
             \/ IoFaults /\ result' = [result EXCEPT ![cur[w]] = "broken"]
          /\ UNCHANGED stray
       \/ /\ parsed[w] = "relative"
          /\ stray' = stray \cup {cur[w]}
          /\ UNCHANGED result
       \/ /\ parsed[w] = "none" \/ IoFaults
          /\ UNCHANGED <<result, stray>>
    /\ UNCHANGED <<files, errorLog, project, clientVars, lockVars, taskVars, statusVars, eventVars>>

(* Fault: no finally clause for the status.                                *)
ClearSilently(w) ==
    /\ Goto(w, "clear", "next")
    /\ cur' = [cur EXCEPT ![w] = NoTask]
    /\ parsed' = [parsed EXCEPT ![w] = "none"]
    /\ UNCHANGED <<queueVars, lockVars, todo, recovered, desktop, statusVars, eventVars>>

(* The finally clause.                                                     *)
Clear(w) ==
    /\ Goto(w, "clear", "next")
    /\ SetCurrent(w, NoTask)
    /\ cur' = [cur EXCEPT ![w] = NoTask]
    /\ parsed' = [parsed EXCEPT ![w] = "none"]
    /\ UNCHANGED <<queueVars, lockVars, todo, recovered, desktop, eventVars>>

ProcessOne(w) ==
    \/ Take(w) \/ TakeMissed(w) \/ TakeRaises(w) \/ Load(w)
    \/ Open(w) \/ OpenRaises(w) \/ Solve(w) \/ SolveRaises(w) \/ Close(w)
    \/ WriteResult(w) \/ WriteResultRaises(w) \/ FileDone(w) \/ FileDoneRaises(w)
    \/ FailMove(w) \/ FailLog(w) \/ FinishFailureRaises(w) \/ FailResult(w) \/ Clear(w)

WorkerStep(w) == StartUp(w) \/ Loop(w) \/ ProcessOne(w)

-----------------------------------------------------------------------------
(* AEDT, as far as the workers notice                                      *)

(* AEDT exits: every handle to it is stale, and stays in the workers.      *)
AedtDies ==
    /\ AedtFaults /\ aedt
    /\ aedt' = FALSE
    /\ LocksOfTheDead
    /\ desktop' = [w \in Worker |-> IF desktop[w] = "attached" THEN "stale" ELSE desktop[w]]
    /\ UNCHANGED <<queueVars, sem, pc, cur, todo, recovered, parsed, statusVars, eventVars>>

AedtStep ==
    \/ AedtDies
    \/ (AedtStarts \/ \E t \in Task : ForeignOpen(t) \/ ForeignClose(t) \/ EvidenceChanges(t))
       /\ UNCHANGED <<queueVars, workerVars>>
=============================================================================
