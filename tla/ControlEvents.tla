--------------------------- MODULE ControlEvents ----------------------------
(***************************************************************************)
(* The tray, its worker and the three multiprocessing.Events they share,   *)
(* seen closer than in module Supervisor: set, clear and is_set all take   *)
(* the lock inside the event, Process.terminate does not wait until a      *)
(* worker has given it back, and nobody else ever does.                    *)
(* (src/worker/ansys_analyze_worker/supervisor.py, tray_app.py,            *)
(* run_service.py, and run_forever of worker.py.)                          *)
(***************************************************************************)

VARIABLES
    flag,    \* the events that are set
    holder,  \* who holds the lock of each event
    worker,  \* where the worker stands, see Reads
    tray,    \* where the tray stands, see Does
    named    \* whether the status file names a task

vars == <<flag, holder, worker, tray, named>>

Event == {"pause", "release", "stop"}

(* run_forever and what it calls: the event read at each place, and where  *)
(* the answers lead.                                                       *)
Reads ==
    [top |-> "stop", detach |-> "release", gate |-> "pause", gate_release |-> "release",
     report |-> "release", next |-> "pause", next_release |-> "release", next_stop |-> "stop"]

IfSet ==
    [top |-> "dead", detach |-> "gate", gate |-> "report", gate_release |-> "report",
     report |-> "sleep", next |-> "sleep", next_release |-> "sleep", next_stop |-> "sleep"]

IfUnset ==
    [top |-> "detach", detach |-> "gate", gate |-> "gate_release", gate_release |-> "list",
     report |-> "sleep", next |-> "next_release", next_release |-> "next_stop", next_stop |-> "task"]

(* The callbacks: what the tray does to which event, and where it goes on. *)
Does ==
    [start |-> [op |-> "clear", event |-> "stop", next |-> "spawn"],
     label |-> [op |-> "read", event |-> "release", next |-> "paused"],
     paused |-> [op |-> "read", event |-> "pause", next |-> "paused_release"],
     paused_release |-> [op |-> "read", event |-> "release", next |-> "idle"],
     toggle |-> [op |-> "read", event |-> "pause", next |-> "toggle_release"],
     toggle_release |-> [op |-> "read", event |-> "release", next |-> "release"],
     release |-> [op |-> "set", event |-> "release", next |-> "label"],
     resume |-> [op |-> "clear", event |-> "pause", next |-> "resume_release"],
     resume_release |-> [op |-> "clear", event |-> "release", next |-> "label"],
     exit |-> [op |-> "set", event |-> "stop", next |-> "exit_terminate"],
     exit_again |-> [op |-> "set", event |-> "stop", next |-> "gone"],
     reset_exit |-> [op |-> "set", event |-> "stop", next |-> "exec"]]

(* What ends a chain of reads early.                                       *)
IfSetTray == [toggle |-> "resume", toggle_release |-> "resume", paused |-> "idle"]

-----------------------------------------------------------------------------
(* The worker                                                              *)

Ask ==
    /\ worker \in DOMAIN Reads
    /\ holder[Reads[worker]] = "none"
    /\ holder' = [holder EXCEPT ![Reads[worker]] = "worker"]
    /\ UNCHANGED <<flag, worker, tray, named>>

Answer ==
    /\ worker \in DOMAIN Reads
    /\ holder[Reads[worker]] = "worker"
    /\ holder' = [holder EXCEPT ![Reads[worker]] = "none"]
    /\ worker' = IF Reads[worker] \in flag THEN IfSet[worker] ELSE IfUnset[worker]
    (* The status written after the last read names no task.               *)
    /\ named' = (named /\ worker' \notin {"list", "sleep"})
    /\ UNCHANGED <<flag, tray>>

(* _process_pending_tasks: the first or the next task, or no more.         *)
List ==
    /\ worker \in {"list", "task"}
    /\ worker' \in {"next", "sleep"}
    /\ named' = FALSE
    /\ UNCHANGED <<flag, holder, tray>>

(* _process_one names its task once it has loaded it.                      *)
NameTask ==
    /\ worker = "task" /\ ~named
    /\ named' = TRUE
    /\ UNCHANGED <<flag, holder, worker, tray>>

Wake ==
    /\ worker = "sleep"
    /\ worker' = "top"
    /\ UNCHANGED <<flag, holder, tray, named>>

WorkerStep == Ask \/ Answer \/ List \/ NameTask \/ Wake

-----------------------------------------------------------------------------
(* The tray                                                                *)

Callback(first) ==
    /\ tray = "idle"
    /\ tray' = first
    /\ UNCHANGED <<flag, holder, worker, named>>

ToggleRelease == Callback("toggle")
StopCurrentRun == named /\ Callback("stop_terminate")
Exit == Callback("exit")
Reset == Callback("reset_terminate")

(* One call of an event. The tray itself is not killed in the middle of it.*)
Use ==
    /\ tray \in DOMAIN Does
    /\ LET use == Does[tray]
       IN  /\ holder[use.event] = "none"
           /\ flag' = CASE use.op = "set"   -> flag \cup {use.event}
                        [] use.op = "clear" -> flag \ {use.event}
                        [] OTHER            -> flag
           /\ tray' = IF use.op = "read" /\ use.event \in flag /\ tray \in DOMAIN IfSetTray
                      THEN IfSetTray[tray] ELSE use.next
    /\ UNCHANGED <<holder, worker, named>>

Spawn ==
    /\ tray = "spawn"
    /\ tray' = "label"
    /\ worker' = "top"
    /\ UNCHANGED <<flag, holder, named>>

(* _terminate, wherever the worker is.                                     *)
Terminate ==
    /\ \/ tray = "stop_terminate" /\ tray' = "start"
       \/ tray = "exit_terminate" /\ tray' = "exit_again"
       \/ tray = "reset_terminate" /\ tray' = "reset_exit"
    /\ worker' = "dead"
    /\ holder' = [e \in Event |-> IF holder[e] = "worker" THEN "dead" ELSE holder[e]]
    /\ UNCHANGED <<flag, named>>

(* os.execv, or a start by the user: new events.                           *)
NewTray ==
    /\ tray \in {"exec", "gone"}
    /\ tray' = "start"
    /\ flag' = {}
    /\ holder' = [e \in Event |-> "none"]
    /\ UNCHANGED <<worker, named>>

TrayStep == Use \/ Spawn \/ Terminate \/ (tray = "exec" /\ NewTray)

-----------------------------------------------------------------------------
Init ==
    /\ flag = {}
    /\ holder = [e \in Event |-> "none"]
    /\ worker = "dead"
    /\ tray = "start"
    /\ named \in BOOLEAN

Next == WorkerStep \/ TrayStep \/ NewTray \/ ToggleRelease \/ StopCurrentRun \/ Exit \/ Reset

(* Processes run and callbacks that have begun go on. A lock that is free   *)
(* again and again is had in the end. The user owes nothing.               *)
Spec == Init /\ [][Next]_vars /\ WF_vars(WorkerStep) /\ SF_vars(TrayStep)

-----------------------------------------------------------------------------
(* supervisor.py calls killing the worker "a hard, reliable stop", after   *)
(* which a fresh process takes its place: the menu comes back after every  *)
(* Stop current run.                                                       *)
StopRestarts == tray = "stop_terminate" ~> tray = "idle"
=============================================================================
