------------------------------ MODULE StartUp -------------------------------
(***************************************************************************)
(* What a worker does before it serves: queue_common's                     *)
(* recover_orphaned_tasks, which puts abandoned tasks back, and            *)
(* stale_locks.clear_stale_locks_for_tasks for the tasks put back.         *)
(***************************************************************************)
EXTENDS WorkerProcess

(* Fault: nothing is recovered.                                            *)
BootScanNothing(w) ==
    Control(w, "boot", "recover")

BootScan(w) ==
    /\ Goto(w, "boot", "recover")
    /\ todo' = [todo EXCEPT ![w] = files["in_progress"]]
    /\ UNCHANGED <<queueVars, lockVars, cur, recovered, parsed, desktop, statusVars, eventVars>>

RecoverOne(w) ==
    /\ Goto(w, "recover", "recover")
    /\ \E t \in todo[w] \cap files["in_progress"] :
        /\ Move(t, "in_progress", "pending")
        /\ todo' = [todo EXCEPT ![w] = @ \ {t}]
        /\ recovered' = [recovered EXCEPT ![w] = @ \cup {t}]
    /\ UNCHANGED <<otherFiles, clientVars, lockVars, cur, parsed, desktop, statusVars, eventVars>>

(* Nothing catches an error here: the listed file is gone, or the share    *)
(* fails, and the process ends.                                            *)
RecoverRaises(w) ==
    /\ pc[w] = "recover"
    /\ \E t \in todo[w] :
        \/ t \notin files["in_progress"] /\ UNCHANGED files
        \/ t \in files["in_progress"] /\ MoveFails(t, "pending")
    /\ Kill(w)
    /\ UNCHANGED <<otherFiles, clientVars, lockVars, statusVars, eventVars>>

(* Fault: the loop over the orphans stops early.                           *)
RecoverDoneEarly(w) ==
    /\ Goto(w, "recover", IF recovered[w] = {} THEN "top" ELSE "locks")
    /\ todo' = [todo EXCEPT ![w] = recovered[w]]
    /\ recovered' = [recovered EXCEPT ![w] = {}]
    /\ UNCHANGED <<queueVars, lockVars, cur, parsed, desktop, statusVars, eventVars>>

(* All orphans moved: their projects' locks are looked at one by one.      *)
RecoverDone(w) ==
    /\ Goto(w, "recover", IF recovered[w] = {} THEN "top" ELSE "locks")
    /\ todo[w] = {}
    /\ todo' = [todo EXCEPT ![w] = recovered[w]]
    /\ recovered' = [recovered EXCEPT ![w] = {}]
    /\ UNCHANGED <<queueVars, lockVars, cur, parsed, desktop, statusVars, eventVars>>

(* clear_stale_locks_for_tasks can only follow an object that names one.   *)
NamesProject(t) == Kind[t] \notin {"array", "unreadable"}

(* The project is named in the task file, which must still be in pending/. *)
KeepLock(w) ==
    /\ Goto(w, "locks", "locks")
    /\ \E t \in todo[w] :
        /\ t \notin files["pending"] \/ ~NamesProject(t) \/ JudgedKept(t)
        /\ todo' = [todo EXCEPT ![w] = @ \ {t}]
    /\ UNCHANGED <<queueVars, lockVars, cur, recovered, parsed, desktop, statusVars, eventVars>>

CondemnLock(w) ==
    /\ Goto(w, "locks", "unlink")
    /\ \E t \in todo[w] \cap files["pending"] :
        /\ NamesProject(t) /\ JudgedStale(t)
        /\ todo' = [todo EXCEPT ![w] = @ \ {t}]
        /\ cur' = [cur EXCEPT ![w] = t]
    /\ UNCHANGED <<queueVars, lockVars, recovered, parsed, desktop, statusVars, eventVars>>

(* os.remove of the lock; a lock that has gone meanwhile is no error.      *)
Unlink(w) ==
    /\ Goto(w, "unlink", "sweep")
    /\ lock' = [lock EXCEPT ![cur[w]] = "none"]
    /\ UNCHANGED <<queueVars, aedt, sem, taskVars, statusVars, eventVars>>

UnlinkFails(w) ==
    /\ IoFaults
    /\ Goto(w, "unlink", "locks")
    /\ cur' = [cur EXCEPT ![w] = NoTask]
    /\ UNCHANGED <<queueVars, lockVars, todo, recovered, parsed, desktop, statusVars, eventVars>>

Sweep(w) ==
    /\ Goto(w, "sweep", "locks")
    /\ \/ sem' = sem \ {cur[w]}
       \/ IoFaults /\ UNCHANGED sem
    /\ cur' = [cur EXCEPT ![w] = NoTask]
    /\ UNCHANGED <<queueVars, aedt, lock, todo, recovered, parsed, desktop, statusVars, eventVars>>

LocksDone(w) ==
    /\ Control(w, "locks", "top")
    /\ todo[w] = {}

StartUp(w) ==
    \/ BootScan(w) \/ RecoverOne(w) \/ RecoverRaises(w) \/ RecoverDone(w)
    \/ KeepLock(w) \/ CondemnLock(w) \/ Unlink(w) \/ UnlinkFails(w) \/ Sweep(w) \/ LocksDone(w)
=============================================================================
