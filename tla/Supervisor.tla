----------------------------- MODULE Supervisor -----------------------------
(***************************************************************************)
(* The tray process: WorkerSupervisor                                      *)
(* (src/worker/ansys_analyze_worker/supervisor.py), the menu callbacks of  *)
(* tray_app.py that drive it and the restart in run_service.py.            *)
(*                                                                         *)
(* The callbacks run one at a time on the tray's thread, so a callback     *)
(* that does several things is a tray state per thing still to do. The     *)
(* plain pause event is never set here: no menu entry sets it.             *)
(***************************************************************************)
EXTENDS Worker

CONSTANT UserActions  \* the menu entries the user may click

ASSUME UserAssumption == UserActions \subseteq {"release", "stop", "reset", "exit"}

VARIABLE tray  \* what the tray process is doing

TrayStates == {"up", "stopping", "starting", "exiting", "resetting", "exec", "down"}

trayUnchanged == <<queueVars, lockVars, statusVars>>

(* WorkerSupervisor.current_task_id, read from the status file.            *)
CurrentTaskId == statusFile.task

(* WorkerSupervisor.is_released: "Released" in the menu (state_label).     *)
LabelReleased == release /\ statusFile.state = "released"

(* Process.terminate() and join(): the child is gone when it returns.      *)
Terminate ==
    IF pc[TrayWorker] = "dead" THEN UNCHANGED processVars ELSE Kill(TrayWorker)

(* on_toggle_release                                                       *)
ToggleRelease ==
    /\ "release" \in UserActions /\ tray = "up"
    /\ release' = ~release
    /\ UNCHANGED <<trayUnchanged, processVars, stop, tray>>

(* on_stop_current_run: nothing happens unless the status file names a task.*)
StopCurrentRun ==
    /\ "stop" \in UserActions /\ tray = "up"
    /\ CurrentTaskId # NoTask
    /\ tray' = "stopping"
    /\ UNCHANGED <<trayUnchanged, processVars, eventVars>>

StopTerminate ==
    /\ tray = "stopping"
    /\ Terminate
    /\ tray' = "starting"
    /\ UNCHANGED <<trayUnchanged, eventVars>>

(* WorkerSupervisor.start                                                  *)
StartWorker ==
    /\ tray = "starting"
    /\ tray' = "up"
    /\ stop' = FALSE
    /\ Spawn(TrayWorker)
    /\ UNCHANGED <<queueVars, lockVars, taskVars, statusFile, release>>

(* on_exit: exit() sets the stop event, then terminates the child. The     *)
(* second exit() in _run_with_tray finds nothing left to do.               *)
Exit ==
    /\ "exit" \in UserActions /\ tray = "up"
    /\ stop' = TRUE
    /\ tray' = "exiting"
    /\ UNCHANGED <<trayUnchanged, processVars, release>>

ExitTerminate ==
    /\ tray = "exiting"
    /\ Terminate
    /\ tray' = "down"
    /\ UNCHANGED <<trayUnchanged, eventVars>>

(* on_reset: request_restart terminates the child ...                      *)
Reset ==
    /\ "reset" \in UserActions /\ tray = "up"
    /\ tray' = "resetting"
    /\ UNCHANGED <<trayUnchanged, processVars, eventVars>>

ResetTerminate ==
    /\ tray = "resetting"
    /\ Terminate
    /\ tray' = "exec"
    /\ UNCHANGED <<trayUnchanged, eventVars>>

(* ... and run_service replaces the process, which creates new events. A   *)
(* user who starts the service again gets the same.                        *)
NewTray ==
    /\ tray \in {"exec", "down"}
    /\ release' = FALSE
    /\ stop' = FALSE
    /\ tray' = "starting"
    /\ UNCHANGED <<trayUnchanged, processVars>>

TrayStep ==
    \/ ToggleRelease \/ StopCurrentRun \/ StopTerminate \/ StartWorker
    \/ Exit \/ ExitTerminate \/ Reset \/ ResetTerminate \/ NewTray

SupervisorInit == tray = "down"

SupervisorTypeOK == tray \in TrayStates
=============================================================================
