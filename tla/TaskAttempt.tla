---------------------------- MODULE TaskAttempt -----------------------------
(***************************************************************************)
(* One worker's way through a task, as _process_one of                     *)
(* src/worker/ansys_analyze_worker/worker.py orders it: once _open_project *)
(* has returned, the project is closed before the outcome is filed, whether*)
(* the handler and the exports succeed or raise; only a success goes       *)
(* through result.json to done/, every error ends with the failure; a kill *)
(* ends it anywhere.                                                       *)
(* Module Worker implements it in one step per effect on the queue, module *)
(* ProjectSession with the handler and the exports in full.                *)
(***************************************************************************)
VARIABLE stand  \* where the attempt stands, "idle" without one

Goes(from, to) == stand = from /\ stand' = to

Load == Goes("idle", "open") \/ Goes("idle", "fail")
Open == Goes("open", "solve") \/ Goes("open", "fail")
Solve == Goes("solve", "close_ok") \/ Goes("solve", "close_fail")
Close == Goes("close_ok", "result") \/ Goes("close_fail", "fail")
WriteResult == Goes("result", "file") \/ Goes("result", "fail")
FileDone == Goes("file", "idle") \/ Goes("file", "fail")
Fail == Goes("fail", "idle")
Kill == stand' = "idle"

Init == stand = "idle"

Next == Load \/ Open \/ Solve \/ Close \/ WriteResult \/ FileDone \/ Fail \/ Kill

Spec == Init /\ [][Next]_stand
=============================================================================
