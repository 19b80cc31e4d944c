---------------------------- MODULE ProjectLocks ----------------------------
(***************************************************************************)
(* The AEDT on the worker's machine and the <project>.aedt.lock and        *)
(* .asol*.semaphore files AEDT keeps beside a project, as                  *)
(* src/worker/ansys_analyze_worker/stale_locks.py describes and uses them. *)
(* AEDT itself is outside the repository.                                  *)
(***************************************************************************)
EXTENDS TaskQueue

CONSTANTS
    AedtFaults,  \* whether AEDT may exit or crash, and PyAEDT calls may fail
    ForeignAedt  \* whether AEDTs on other machines open projects of the queue

ASSUME AedtSwitches == AedtFaults \in BOOLEAN /\ ForeignAedt \in BOOLEAN

VARIABLES
    aedt,  \* whether an AEDT session is open on the worker's machine
    lock,  \* whose process the project's lock file names
    sem    \* the projects with semaphore files in their results folder

lockVars == <<aedt, lock, sem>>

(* "live" and "dead": an AEDT of this machine, running or not.             *)
(* "unclear": one that is dead and cannot be shown to be: the lock names no*)
(* process, psutil is missing or denied, or another AEDT has its pid now.  *)
(* "foreign": an AEDT of another machine, whose pid means nothing here.    *)
Owner == {"none", "live", "dead", "unclear", "foreign"}

(* AEDT opens and closes a project. Semaphores exist while it is open.     *)
TakeLock(t) ==
    /\ lock' = [lock EXCEPT ![t] = "live"]
    /\ sem' = sem \cup {t}

DropLock(t) ==
    /\ lock' = [lock EXCEPT ![t] = "none"]
    /\ sem' = sem \ {t}

(* AEDT dies with its projects open: their locks stay behind.              *)
LocksOfTheDead ==
    lock' = [t \in Task |-> IF lock[t] = "live" THEN "dead" ELSE lock[t]]

(* PyAEDT refuses a locked project. One that is already open in this very  *)
(* session may be picked up or refused.                                    *)
MayOpen(t) == aedt /\ lock[t] \in {"none", "live"}
MayRefuse(t) == ~aedt \/ AedtFaults \/ lock[t] # "none"

(* Fault: any lock is taken for stale, without the is_running check.       *)
JudgedStaleUnchecked(t) == lock[t] # "none"

(* Fault: a pid that some other program has now counts as a running AEDT.  *)
JudgedKeptByPid(t) == TRUE

(* clear_stale_lock's verdict (read_lock_pid, is_aedt_running). A pid of   *)
(* another machine may or may not name an AEDT process here. Whatever      *)
(* cannot be told keeps the lock, and so does a lock that cannot be read.  *)
JudgedStale(t) == lock[t] \in {"dead", "foreign"}
JudgedKept(t) == lock[t] \in {"none", "live", "unclear", "foreign"} \/ IoFaults

(* What the lock, psutil and the process table tell of a dead AEDT may     *)
(* change at any time.                                                     *)
EvidenceChanges(t) ==
    /\ lock[t] \in {"dead", "unclear"}
    /\ lock' = [lock EXCEPT ![t] = IF @ = "dead" THEN "unclear" ELSE "dead"]
    /\ UNCHANGED <<aedt, sem>>

(* A person, or the client's own pipeline, on another machine.             *)
ForeignOpen(t) ==
    /\ ForeignAedt
    /\ t \in project /\ lock[t] = "none"
    /\ lock' = [lock EXCEPT ![t] = "foreign"]
    /\ UNCHANGED <<aedt, sem>>

ForeignClose(t) ==
    /\ lock[t] = "foreign"
    /\ lock' = [lock EXCEPT ![t] = "none"]
    /\ UNCHANGED <<aedt, sem>>

(* The user opens the AEDT the worker attaches to.                         *)
AedtStarts ==
    /\ ~aedt
    /\ aedt' = TRUE
    /\ UNCHANGED <<lock, sem>>

LocksInit ==
    /\ aedt = TRUE
    /\ lock = [t \in Task |-> "none"]
    /\ sem = {}

LocksTypeOK ==
    /\ aedt \in BOOLEAN
    /\ lock \in [Task -> Owner]
    /\ sem \in SUBSET Task
=============================================================================
