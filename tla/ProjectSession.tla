--------------------------- MODULE ProjectSession ---------------------------
(***************************************************************************)
(* One task's project from _open_project to _close_project                 *)
(* (src/worker/ansys_analyze_worker/worker.py), through the handler        *)
(* (handlers/run_setups.py) and the field exports (field_exports.py): the  *)
(* project file on disk, the project as AEDT holds it in memory, and the   *)
(* fields/*.fld files, over attempts that may be killed at any step and    *)
(* run again.                                                              *)
(*                                                                         *)
(* result.json holds reports and exported as they stand when it is         *)
(* written; no step changes them between that and the end of the attempt.  *)
(***************************************************************************)
EXTENDS TaskFile

CONSTANTS
    Setup,    \* names of analysis setups
    Orders,   \* what clients queue: [task |-> a task, setups |-> its project's]
    FileOf,   \* the file system's name for fields/<name>.fld
    Adopting  \* whether PyAEDT picks up a project left open in its AEDT

ASSUME OrderAssumption ==
    \A o \in Orders : DOMAIN o = {"task", "setups"} /\ o.task \in TaskShape /\ o.setups \subseteq Setup
ASSUME FileAssumption == DOMAIN FileOf = Name

VARIABLES
    order,     \* the task and its project's setups, fixed
    disk,      \* the project file
    mem,       \* the project in AEDT
    fld,       \* the files in output_dir/fields
    pc,        \* where the attempt stands
    todo,      \* setups still to be analysed or probed
    at,        \* the entry of field_exports in hand
    reports,   \* result: what the handler says of each setup
    exported,  \* field_exports: what is recorded of each entry
    why,       \* what made the attempt fail
    adopted,   \* history: an attempt was given a project left open before
    unsaved    \* history: save_project failed without an error, nothing saved since

vars == <<order, disk, mem, fld, pc, todo, at, reports, exported, why, adopted, unsaved>>
attemptVars == <<todo, at, reports, exported>>

task == order.task
entries == task.entries

(* Whose values the sources have: the client's, or those of an entry.      *)
Sources == {"client"} \cup Name
Project == [solved : SUBSET Setup, sources : Sources]
Closed == [open |-> FALSE]
InAedt == [open : {TRUE}, solved : SUBSET Setup, sources : Sources]

(* A .fld file: under which sources it was evaluated, whether it has data  *)
(* rows, and whether this attempt wrote it.                                *)
NoFile == [exists |-> FALSE]
Field == {NoFile} \cup [exists : {TRUE}, sources : Sources, rows : BOOLEAN, fresh : BOOLEAN]
File == {FileOf[n] : n \in Name}

Report == {"none", "solved", "unsolved", "unknown"}
Outcome == {"none", "success", "failure"}
Working == {"open", "handler", "analyze", "save", "probe", "entry", "edit", "grid",
            "close_ok", "close_fail", "result", "file", "fail"}
Pc == {"pending", "done", "failed"} \cup Working

NoReports == [s \in Setup |-> "none"]
NoExports == [n \in Name |-> "none"]

Goto(here, there) == pc = here /\ pc' = there

Fails(here, reason) ==
    /\ Goto(here, "fail")
    /\ why' = reason

(* Fault: the project is not closed.                                       *)
AbandonsOpen(reason) ==
    /\ pc' = "fail"
    /\ why' = reason

(* An error below the open project: the finally clause comes first.        *)
Abandons(reason) ==
    /\ pc' = "close_fail"
    /\ why' = reason

-----------------------------------------------------------------------------
(* Before the project is open                                              *)

(* Read, validate_task, get_handler.                                       *)
Load ==
    /\ \/ ValidTask(task) /\ Handled(task) /\ Goto("pending", "open") /\ why' = "none"
       \/ ~(ValidTask(task) /\ Handled(task)) /\ Fails("pending", "load")
    /\ UNCHANGED <<order, disk, mem, fld, attemptVars, adopted, unsaved>>

(* _open_project                                                           *)
Opened == [open |-> TRUE, solved |-> disk.solved, sources |-> disk.sources]

Open ==
    /\ Goto("open", "handler")
    /\ ~mem.open
    /\ mem' = Opened
    /\ UNCHANGED <<order, disk, fld, attemptVars, why, adopted, unsaved>>

(* The project is still open in this AEDT, from a killed attempt or a      *)
(* close that failed: it is the one in memory that is worked on.           *)
Adopt ==
    /\ Adopting
    /\ Goto("open", "handler")
    /\ mem.open
    /\ adopted' = TRUE
    /\ UNCHANGED <<order, disk, mem, fld, attemptVars, why, unsaved>>

(* Hfss raises before AEDT has opened the project or after: the call is not*)
(* inside the try block that closes it, so it then stays open.             *)
OpenRaises ==
    /\ Fails("open", "open")
    /\ UNCHANGED mem \/ (~mem.open /\ mem' = Opened)
    /\ UNCHANGED <<order, disk, fld, attemptVars, adopted, unsaved>>

-----------------------------------------------------------------------------
(* The handler: run_setups.run                                             *)

Handler ==
    /\ pc = "handler"
    /\ IF order.setups = {} \/ MisreadsParameters(task)
       THEN Abandons("handler") /\ UNCHANGED todo
       ELSE /\ pc' = IF AnalyzeRequested(task) THEN "analyze" ELSE "probe"
            /\ todo' = order.setups
            /\ UNCHANGED why
    /\ UNCHANGED <<order, disk, mem, fld, at, reports, exported, adopted, unsaved>>

(* A solve may succeed, fail and leave what was there, or lose it.         *)
SolveOutcomes(s) == {mem.solved \cup {s}, mem.solved, mem.solved \ {s}}

(* Setup.analyze() or is_solved: may say no of a solved setup, but is      *)
(* trusted not to say yes of one without a solution.                       *)
Probe(solved, s) == {"unsolved"} \cup (IF s \in solved THEN {"solved"} ELSE {})

Analyze(s) ==
    /\ pc = "analyze" /\ mem.open
    /\ s \in todo
    /\ \E solved \in SolveOutcomes(s) :
        /\ mem' = [mem EXCEPT !.solved = solved]
        /\ \E r \in Probe(solved, s) : reports' = [reports EXCEPT ![s] = r]
    /\ todo' = todo \ {s}
    /\ pc' = IF todo' = {} THEN "save" ELSE pc
    /\ UNCHANGED <<order, disk, fld, at, exported, why, adopted, unsaved>>

AnalyzeRaises ==
    /\ pc = "analyze"
    /\ Abandons("handler")
    /\ \/ UNCHANGED mem
       \/ mem.open /\ \E s \in todo : \E solved \in SolveOutcomes(s) : mem' = [mem EXCEPT !.solved = solved]
    /\ UNCHANGED <<order, disk, fld, attemptVars, adopted, unsaved>>

OnDisk == [solved |-> mem.solved, sources |-> mem.sources]

(* Fault: the project is left to be saved on close.                        *)
SaveLater ==
    /\ Goto("save", "entry")
    /\ at' = 1
    /\ UNCHANGED <<order, disk, mem, fld, todo, reports, exported, why, adopted, unsaved>>

(* save_project. Nobody looks at what it returns: a save that only says    *)
(* False goes on like one that was made.                                   *)
Save ==
    /\ Goto("save", "entry")
    /\ \/ mem.open /\ disk' = OnDisk /\ UNCHANGED unsaved
       \/ UNCHANGED disk /\ unsaved' = TRUE
    /\ at' = 1
    /\ UNCHANGED <<order, mem, fld, todo, reports, exported, why, adopted>>

SaveRaises ==
    /\ pc = "save"
    /\ Abandons("handler")
    /\ UNCHANGED disk \/ (mem.open /\ disk' = OnDisk)
    /\ UNCHANGED <<order, mem, fld, attemptVars, adopted, unsaved>>

(* _report_without_solving: an unanswered probe is no error.               *)
ReportUnsolved(s) ==
    /\ pc = "probe"
    /\ s \in todo
    /\ \E r \in {"unknown"} \cup (IF mem.open THEN Probe(mem.solved, s) ELSE {}) :
          reports' = [reports EXCEPT ![s] = r]
    /\ todo' = todo \ {s}
    /\ IF todo' = {} THEN pc' = "entry" /\ at' = 1 ELSE UNCHANGED <<pc, at>>
    /\ UNCHANGED <<order, disk, mem, fld, exported, why, adopted, unsaved>>

-----------------------------------------------------------------------------
(* The exports: field_exports.run                                          *)

entry == entries[at]
file == FileOf[entry.name]

(* Fault: an export that fails ends the loop.                              *)
RecordAndStop(outcome) ==
    /\ pc' = IF outcome = "failure" THEN "close_ok" ELSE "entry"
    /\ at' = at + 1
    /\ exported' = [exported EXCEPT ![entry.name] = outcome]
    /\ UNCHANGED why

(* What is recorded of the entry in hand; the loop goes on either way,     *)
(* unless building the record of a failure raises.                         *)
Record(outcome) ==
    IF outcome = "failure" /\ MisreadsGrid(entry)
    THEN Abandons("exports") /\ UNCHANGED <<at, exported>>
    ELSE /\ pc' = "entry"
         /\ at' = at + 1
         /\ exported' = [exported EXCEPT ![entry.name] = outcome]
         /\ UNCHANGED why

(* Fault: the loop counts once more.                                       *)
EntriesDoneCounting ==
    /\ Goto("entry", "close_ok")
    /\ at > Len(entries)
    /\ at' = at + 1
    /\ UNCHANGED <<order, disk, mem, fld, todo, reports, exported, why, adopted, unsaved>>

EntriesDone ==
    /\ Goto("entry", "close_ok")
    /\ at > Len(entries)
    /\ UNCHANGED <<order, disk, mem, fld, attemptVars, why, adopted, unsaved>>

(* Fault: an old file of that name stays.                                  *)
KeepOld ==
    /\ Goto("entry", "edit")
    /\ at <= Len(entries) /\ ~MisreadsEntry(entry)
    /\ UNCHANGED <<order, disk, mem, fld, attemptVars, why, adopted, unsaved>>

(* _export_one: makedirs, then an old file is removed.                     *)
RemoveOld ==
    /\ Goto("entry", "edit")
    /\ at <= Len(entries) /\ ~MisreadsEntry(entry)
    /\ fld' = [fld EXCEPT ![file] = NoFile]
    /\ UNCHANGED <<order, disk, mem, attemptVars, why, adopted, unsaved>>

(* Only the removal lies inside the try block.                             *)
RemoveOldRaises ==
    /\ pc = "entry" /\ at <= Len(entries)
    /\ IF MisreadsEntry(entry)
       THEN Abandons("exports") /\ UNCHANGED <<at, exported>>
       ELSE Record("failure")
    /\ UNCHANGED <<order, disk, mem, fld, todo, reports, adopted, unsaved>>

Edit ==
    /\ Goto("edit", "grid")
    /\ \/ ~NamesSources(entry) /\ UNCHANGED mem
       \/ NamesSources(entry) /\ mem.open /\ mem' = [mem EXCEPT !.sources = entry.name]
    /\ UNCHANGED <<order, disk, fld, attemptVars, why, adopted, unsaved>>

(* Fault: edit_sources' result is not looked at.                           *)
EditUnnoticed ==
    /\ Goto("edit", "grid")
    /\ UNCHANGED <<order, disk, mem, fld, attemptVars, why, adopted, unsaved>>

(* edit_sources says False or raises, and may have changed them all the same.*)
EditFails ==
    /\ pc = "edit" /\ NamesSources(entry)
    /\ UNCHANGED mem \/ (mem.open /\ mem' = [mem EXCEPT !.sources = entry.name])
    /\ Record("failure")
    /\ UNCHANGED <<order, disk, fld, todo, reports, adopted, unsaved>>

(* The calculator and ExportOnGrid, which may refuse with an error, or say *)
(* nothing and write no file or one without rows. The file is the evidence.*)
Written == [exists |-> TRUE, sources |-> mem.sources, rows |-> TRUE, fresh |-> TRUE]

Export ==
    /\ pc = "grid"
    /\ \/ mem.open /\ fld' = [fld EXCEPT ![file] = Written]
       \/ mem.open /\ fld' = [fld EXCEPT ![file] = [Written EXCEPT !.rows = FALSE]]
       \/ UNCHANGED fld
    /\ Record(IF fld'[file].exists /\ fld'[file].rows THEN "success" ELSE "failure")
    /\ UNCHANGED <<order, disk, mem, todo, reports, adopted, unsaved>>

ExportRaises ==
    /\ pc = "grid"
    /\ \/ mem.open /\ \E rows \in BOOLEAN : fld' = [fld EXCEPT ![file] = [Written EXCEPT !.rows = rows]]
       \/ UNCHANGED fld
    /\ Record("failure")
    /\ UNCHANGED <<order, disk, mem, todo, reports, adopted, unsaved>>

-----------------------------------------------------------------------------
(* After them                                                              *)

(* Fault: only the handler is asked.                                       *)
KeepSavedReadOnly == ReadOnly(task)

(* keep_saved: what is on disk must not be written over.                   *)
KeepSaved == ReadOnly(task) \/ EditsSources(task)

Closing == pc \in {"close_ok", "close_fail"}
Closes == pc' = IF pc = "close_ok" THEN "result" ELSE "fail"

(* Without it the finally clause raises before the project is closed.      *)
KnowsHow == ReadOnly(task) \/ ~MisreadsSources(task)

Close ==
    /\ Closing /\ KnowsHow
    /\ Closes
    /\ IF mem.open /\ ~KeepSaved
       THEN disk' = OnDisk /\ unsaved' = FALSE
       ELSE UNCHANGED <<disk, unsaved>>
    /\ mem' = Closed
    /\ UNCHANGED <<order, fld, attemptVars, why, adopted>>

(* _close_project swallows its error, whether or not it has saved, and does*)
(* not look at what close_project returns.                                 *)
CloseFails ==
    /\ Closing
    /\ IF KnowsHow
       THEN Closes /\ UNCHANGED why /\ disk' \in {disk} \cup (IF mem.open /\ ~KeepSaved THEN {OnDisk} ELSE {})
       ELSE pc' = "fail" /\ why' = "closing" /\ UNCHANGED disk
    /\ UNCHANGED <<order, mem, fld, attemptVars, adopted, unsaved>>

(* _finish_success, cut between result.json and the move to done/.         *)
WriteResult ==
    /\ Goto("result", "file")
    /\ UNCHANGED <<order, disk, mem, fld, attemptVars, why, adopted, unsaved>>

FileDone ==
    /\ Goto("file", "done")
    /\ UNCHANGED <<order, disk, mem, fld, attemptVars, why, adopted, unsaved>>

FinishRaises ==
    /\ \/ Fails("result", "finish")
       \/ Fails("file", "finish")
    /\ UNCHANGED <<order, disk, mem, fld, attemptVars, adopted, unsaved>>

(* _finish_failure                                                         *)
FileFailed ==
    /\ Goto("fail", "failed")
    /\ UNCHANGED <<order, disk, mem, fld, attemptVars, why, adopted, unsaved>>

-----------------------------------------------------------------------------
(* Between attempts                                                        *)

(* A new attempt knows nothing of the last; its files are still there.     *)
Forget ==
    /\ pc' = "pending"
    /\ todo' = {} /\ at' = 0
    /\ reports' = NoReports /\ exported' = NoExports
    /\ why' = "none"
    /\ fld' = [f \in File |-> IF fld[f].exists THEN [fld[f] EXCEPT !.fresh = FALSE] ELSE NoFile]
    /\ unsaved' = FALSE
    /\ UNCHANGED <<order, disk, mem, adopted>>

(* The worker is killed, a fresh one recovers the task. AEDT stays as it is.*)
KillAndRecover ==
    /\ pc \in Working
    /\ Forget

(* retry_task                                                              *)
Retry ==
    /\ pc = "failed"
    /\ Forget

(* AEDT ends; another one is there by the time the project is opened.      *)
AedtDies ==
    /\ mem.open
    /\ mem' = Closed
    /\ UNCHANGED <<order, disk, fld, pc, attemptVars, why, adopted, unsaved>>

-----------------------------------------------------------------------------
(* The client's project may be solved already.                             *)
Init ==
    /\ order \in Orders
    /\ \E solved \in SUBSET order.setups : disk = [solved |-> solved, sources |-> "client"]
    /\ mem = Closed
    /\ fld = [f \in File |-> NoFile]
    /\ pc = "pending"
    /\ todo = {} /\ at = 0
    /\ reports = NoReports /\ exported = NoExports
    /\ why = "none"
    /\ adopted = FALSE /\ unsaved = FALSE

RunSetups ==
    \/ Handler \/ (\E s \in Setup : Analyze(s) \/ ReportUnsolved(s))
    \/ AnalyzeRaises \/ Save \/ SaveRaises

FieldExports ==
    \/ EntriesDone \/ RemoveOld \/ RemoveOldRaises
    \/ Edit \/ EditFails \/ Export \/ ExportRaises

Next ==
    \/ Load \/ Open \/ Adopt \/ OpenRaises
    \/ RunSetups \/ FieldExports
    \/ Close \/ CloseFails
    \/ WriteResult \/ FileDone \/ FinishRaises \/ FileFailed
    \/ KillAndRecover \/ Retry \/ AedtDies

Spec == Init /\ [][Next]_vars

-----------------------------------------------------------------------------
(* The variables stay in their ranges.                                     *)
TypeOK ==
    /\ order \in Orders
    /\ disk \in Project
    /\ mem \in {Closed} \cup InAedt
    /\ fld \in [File -> Field]
    /\ pc \in Pc
    /\ todo \in SUBSET Setup
    /\ at \in 0..(Len(entries) + 1)
    /\ reports \in [Setup -> Report]
    /\ exported \in [Name -> Outcome]
    /\ why \in {"none", "load", "open", "handler", "exports", "closing", "finish"}
    /\ adopted \in BOOLEAN /\ unsaved \in BOOLEAN

(* What validate_task lets through never trips the exports, the record of  *)
(* a failed export or the choice of how to close: however many exports     *)
(* fail, they do not fail the task.                                        *)
ExportsNeverFailTheTask == why \notin {"exports", "closing"}

(* A task filed as done has an answer for each setup and each entry, also  *)
(* for those after one that failed.                                        *)
EveryEntryAnswered ==
    pc = "done" =>
        /\ \A s \in order.setups : reports[s] # "none"
        /\ \A i \in DOMAIN entries : exported[entries[i].name] # "none"

(* The sources an entry finds: those of an earlier entry, if any names     *)
(* some. An entry that failed may have set them.                           *)
SourcesBefore(i) ==
    LET naming == {j \in 1..(i - 1) : NamesSources(entries[j])}
        sure == {j \in naming : exported[entries[j].name] = "success"}
    IN  {entries[j].name : j \in {k \in naming : \A l \in sure : l <= k}}
        \cup (IF sure = {} THEN {"client"} ELSE {})

(* The sources an entry is evaluated under.                                *)
SourcesOf(i) == IF NamesSources(entries[i]) THEN {entries[i].name} ELSE SourcesBefore(i)

(* An export reported as a success has its file, with data, written by the *)
(* attempt that reports it and not by an earlier one, and evaluated under  *)
(* the sources the entries say. A project found open may bring others,     *)
(* which only an entry with sources of its own is safe from.               *)
ExportsAsReported ==
    pc = "done" =>
        \A i \in DOMAIN entries :
            LET f == fld[FileOf[entries[i].name]]
            IN  exported[entries[i].name] = "success" =>
                    /\ f.exists /\ f.rows /\ f.fresh
                    /\ f.sources \in SourcesOf(i) \/ (adopted /\ "client" \in SourcesOf(i))

(* A setup reported as solved is solved in the project file the client     *)
(* opens, not only in AEDT's memory -- unless save_project failed without  *)
(* raising, and the close has not made good for it.                        *)
ReportedSolvedIsSaved ==
    pc = "done" /\ ~unsaved => \A s \in Setup : reports[s] = "solved" => s \in disk.solved

(* The sources an export edits never reach the project file, unless an     *)
(* attempt is given a project that a killed one left open.                 *)
SourcesStayTheClients == ~adopted => disk.sources = "client"

(* A task that does not ask for a solve leaves the project file alone, in  *)
(* all its attempts and whatever fails; a text "false" asks for none.      *)
ReadOnlyUntouched ==
    [][task.analyze \notin {"absent", "true"} => UNCHANGED disk]_vars

-----------------------------------------------------------------------------
(* Where the attempt stands for TaskAttempt: handler and exports are one.  *)
StandOf ==
    CASE pc \in {"pending", "done", "failed"} -> "idle"
      [] pc \in {"handler", "analyze", "save", "probe", "entry", "edit", "grid"} -> "solve"
      [] OTHER -> pc

Attempt == INSTANCE TaskAttempt WITH stand <- StandOf

(* Whatever the handler and the exports do, the attempt goes the way the   *)
(* worker's model takes for granted: in particular a project that          *)
(* _open_project has returned is closed before a failure is filed.         *)
AttemptSpec == Attempt!Spec
=============================================================================
