------------------------ MODULE ProjectSessionProofs ------------------------
(***************************************************************************)
(* Module ProjectSession for every set of tasks, setups and names, and for *)
(* any number of exports, attempts and failures.                           *)
(***************************************************************************)
EXTENDS ProjectSession, TLAPS

-----------------------------------------------------------------------------
(* Validation                                                              *)

(* What validate_task lets through, the worker reads without an error.     *)
LEMMA ValidReads ==
  ASSUME NEW t \in TaskShape, ValidTask(t)
  PROVE  /\ ~MisreadsParameters(t)
         /\ ~MisreadsSources(t)
         /\ \A i \in DOMAIN t.entries :
                t.entries[i].name \in Name /\ ~MisreadsEntry(t.entries[i]) /\ ~MisreadsGrid(t.entries[i])
  <1>1. ~MisreadsParameters(t)
    BY DEF ValidTask, OneOf, MisreadsParameters
  <1>2. \A i \in DOMAIN t.entries : ValidEntry(t.entries[i])
    BY DEF ValidTask
  <1>3. ~MisreadsSources(t)
    BY <1>2 DEF ValidTask, OneOf, ValidEntry, MisreadsSources
  <1>4. ASSUME NEW i \in DOMAIN t.entries
        PROVE  t.entries[i].name \in Name /\ ~MisreadsEntry(t.entries[i]) /\ ~MisreadsGrid(t.entries[i])
    <2>1. t.entries[i].name \in Name /\ ~MisreadsEntry(t.entries[i])
      BY <1>2 DEF ValidEntry, MisreadsEntry
    <2>2. ~MisreadsGrid(t.entries[i])
      BY <1>2 DEF ValidEntry, ValidGrid, OneOf, MisreadsGrid
    <2> QED
      BY <2>1, <2>2
  <1> QED
    BY <1>1, <1>3, <1>4

(* An entry that names sources is in a list that edits them.               *)
LEMMA NamingEdits ==
  ASSUME NEW t \in TaskShape, NEW i \in DOMAIN t.entries, NamesSources(t.entries[i])
  PROVE  EditsSources(t)
  <1>1. t.field_exports = "list" \/ t.entries = <<>>
    BY DEF TaskShape
  <1>2. t.entries # <<>>
    OBVIOUS
  <1> QED
    BY <1>1, <1>2 DEF EditsSources

-----------------------------------------------------------------------------
(* Types, validity, and the exports that never fail the task               *)

(* The entry in hand is one of the list.                                   *)
AtInv ==
    /\ pc = "entry" => at \in 1..(Len(entries) + 1)
    /\ pc \in {"edit", "grid"} => at \in 1..Len(entries)

(* Whatever is opened has passed validate_task and has a handler.          *)
ValidInv == pc \in Working \ {"fail"} => ValidTask(task) /\ Handled(task)

(* Inductive: a type, and why the exports and the closing cannot misread.  *)
Sound == TypeOK /\ AtInv /\ ValidInv /\ ExportsNeverFailTheTask

(* What the actions below may use of the entry in hand.                    *)
LEMMA EntryInHand ==
  ASSUME TypeOK, AtInv, ValidInv
  PROVE  /\ task \in TaskShape
         /\ order.setups \in SUBSET Setup
         /\ entries \in Seq(Entry)
         /\ Len(entries) \in Nat /\ DOMAIN entries = 1..Len(entries)
         /\ pc \in Working \ {"fail"} => ~MisreadsParameters(task) /\ ~MisreadsSources(task)
         /\ pc \in {"entry", "edit", "grid"} /\ at <= Len(entries) =>
                /\ at \in DOMAIN entries
                /\ entry.name \in Name /\ file \in File
                /\ ~MisreadsEntry(entry) /\ ~MisreadsGrid(entry)
  <1>1. task \in TaskShape /\ order.setups \in SUBSET Setup
    BY OrderAssumption DEF TypeOK, task
  <1>2. entries \in Seq(Entry)
    BY <1>1 DEF TaskShape, entries
  <1>3. Len(entries) \in Nat /\ DOMAIN entries = 1..Len(entries)
    BY <1>2
  <1>4. ASSUME pc \in Working \ {"fail"}
        PROVE  ~MisreadsParameters(task) /\ ~MisreadsSources(task)
    BY <1>1, <1>4, ValidReads DEF ValidInv
  <1>5. ASSUME pc \in {"entry", "edit", "grid"}, at <= Len(entries)
        PROVE  /\ at \in DOMAIN entries
               /\ entry.name \in Name /\ file \in File
               /\ ~MisreadsEntry(entry) /\ ~MisreadsGrid(entry)
    <2>1. at \in DOMAIN entries
      BY <1>3, <1>5 DEF AtInv
    <2>2. ValidTask(task)
      BY <1>5 DEF ValidInv, Working
    <2>3. entry.name \in Name /\ ~MisreadsEntry(entry) /\ ~MisreadsGrid(entry)
      BY <1>1, <2>1, <2>2, ValidReads DEF entry, entries
    <2> QED
      BY <2>1, <2>3 DEF file, File
  <1> QED
    BY <1>1, <1>2, <1>3, <1>4, <1>5

(* What the actions may use of the project in AEDT.                        *)
LEMMA ProjectInHand ==
  ASSUME TypeOK, mem.open
  PROVE  /\ mem = [open |-> TRUE, solved |-> mem.solved, sources |-> mem.sources]
         /\ mem.solved \in SUBSET Setup /\ mem.sources \in Sources
         /\ OnDisk \in Project
         /\ Written \in Field
         /\ \A b \in BOOLEAN : [Written EXCEPT !.rows = b] \in Field
         /\ \A solved \in SUBSET Setup : [mem EXCEPT !.solved = solved] \in InAedt
         /\ \A n \in Sources : [mem EXCEPT !.sources = n] \in InAedt
  <1>1. mem \in InAedt
    BY DEF TypeOK, Closed
  <1>2. mem.solved \in SUBSET Setup /\ mem.sources \in Sources
    BY <1>1 DEF InAedt
  <1> QED
    BY <1>1, <1>2 DEF InAedt, OnDisk, Project, Written, Field

(* A solve stays among the setups, whichever way it goes.                  *)
LEMMA SolveInHand ==
  ASSUME TypeOK, mem.open, NEW s \in Setup, NEW solved \in SolveOutcomes(s)
  PROVE  /\ solved \in SUBSET Setup
         /\ [mem EXCEPT !.solved = solved] \in InAedt
  <1>1. solved \in SUBSET Setup
    BY ProjectInHand DEF SolveOutcomes
  <1> QED
    BY <1>1, ProjectInHand

LEMMA OrderKept ==
  ASSUME UNCHANGED order
  PROVE  task' = task /\ entries' = entries
  BY DEF task, entries

LEMMA SoundInit ==
  ASSUME Init
  PROVE  Sound
  <1>1. order.setups \in SUBSET Setup /\ task \in TaskShape
    BY OrderAssumption DEF Init, task
  <1>2. entries \in Seq(Entry)
    BY <1>1 DEF TaskShape, entries
  <1>3. Len(entries) \in Nat
    BY <1>2
  <1>4. disk \in Project
    BY <1>1 DEF Init, Project, Sources
  <1>5. fld \in [File -> Field]
    BY DEF Init, Field
  <1>6. reports \in [Setup -> Report] /\ exported \in [Name -> Outcome]
    BY DEF Init, NoReports, NoExports, Report, Outcome
  <1>7. pc = "pending" /\ why = "none" /\ at = 0 /\ todo = {} /\ mem = Closed /\ order \in Orders
    BY DEF Init
  <1>8. pc \in Pc /\ at \in 0..(Len(entries) + 1)
    BY <1>3, <1>7 DEF Pc
  <1>9. adopted \in BOOLEAN /\ unsaved \in BOOLEAN
    BY Zenon DEF Init
  <1>10. TypeOK
    BY <1>4, <1>5, <1>6, <1>7, <1>8, <1>9 DEF TypeOK
  <1> QED
    BY <1>7, <1>10 DEF Sound, AtInv, ValidInv, ExportsNeverFailTheTask, Working

(* The record of an entry keeps what is sound of the attempt.              *)
LEMMA RecordSound ==
  ASSUME Sound, UNCHANGED order, pc \in {"entry", "edit", "grid"}, at <= Len(entries),
         NEW outcome \in {"success", "failure"}, Record(outcome)
  PROVE  /\ pc' = "entry"
         /\ at' \in 1..(Len(entries) + 1)
         /\ exported' \in [Name -> Outcome]
         /\ UNCHANGED why
  <1>1. /\ ~MisreadsGrid(entry) /\ entry.name \in Name
        /\ at \in 1..Len(entries) /\ Len(entries) \in Nat
    BY EntryInHand DEF Sound
  <1>2. pc' = "entry" /\ at' = at + 1 /\ UNCHANGED why /\ exported' = [exported EXCEPT ![entry.name] = outcome]
    BY <1>1 DEF Record
  <1> QED
    BY <1>1, <1>2 DEF Sound, TypeOK, Outcome

LEMMA SoundKept ==
  ASSUME Sound, [Next]_vars
  PROVE  Sound'
  <1> USE DEF Sound
  <1>a. UNCHANGED order
    BY DEF Next, RunSetups, FieldExports, Load, Open, Adopt, OpenRaises, Handler, Analyze, ReportUnsolved,
        AnalyzeRaises, Save, SaveRaises, EntriesDone, RemoveOld, RemoveOldRaises, Edit, EditFails, Export,
        ExportRaises, Close, CloseFails, WriteResult, FileDone, FinishRaises, FileFailed, KillAndRecover,
        Retry, Forget, AedtDies, vars
  <1>b. task' = task /\ entries' = entries
    BY <1>a, OrderKept
  <1>c. /\ order \in Orders /\ order' \in Orders
        /\ order.setups \in SUBSET Setup
        /\ Len(entries) \in Nat
    BY <1>a, EntryInHand DEF TypeOK
  <1>1. CASE Load
    BY <1>1, <1>a, <1>b DEF Load, Goto, Fails, attemptVars, TypeOK, AtInv, ValidInv, ExportsNeverFailTheTask, Pc, Working
  <1>2. CASE Open
    <2>1. mem' \in InAedt
      BY <1>2 DEF Open, Opened, TypeOK, Project, InAedt
    <2> QED
      BY <1>2, <2>1, <1>a, <1>b DEF Open, Goto, attemptVars, TypeOK, AtInv, ValidInv, ExportsNeverFailTheTask, Pc, Working
  <1>3. CASE Adopt \/ OpenRaises
    <2>1. Opened \in InAedt
      BY DEF Opened, TypeOK, Project, InAedt
    <2> QED
      BY <1>3, <2>1, <1>a, <1>b DEF Adopt, OpenRaises, Goto, Fails, attemptVars, TypeOK, AtInv, ValidInv,
          ExportsNeverFailTheTask, Pc, Working
  <1>4. CASE Handler
    BY <1>4, <1>a, <1>b, <1>c DEF Handler, Abandons, TypeOK, AtInv, ValidInv, ExportsNeverFailTheTask, Pc, Working
  <1>5. ASSUME NEW s \in Setup, Analyze(s)
        PROVE  Sound'
    <2>1. mem' \in InAedt
      BY <1>5, SolveInHand DEF Analyze
    <2>2. reports' \in [Setup -> Report]
      BY <1>5 DEF Analyze, TypeOK, Probe, Report
    <2> QED
      BY <1>5, <2>1, <2>2, <1>a, <1>b DEF Analyze, TypeOK, AtInv, ValidInv, ExportsNeverFailTheTask, Pc, Working
  <1>6. ASSUME NEW s \in Setup, ReportUnsolved(s)
        PROVE  Sound'
    <2>1. reports' \in [Setup -> Report]
      BY <1>6 DEF ReportUnsolved, TypeOK, Probe, Report
    <2> QED
      BY <1>6, <2>1, <1>a, <1>b, <1>c DEF ReportUnsolved, TypeOK, AtInv, ValidInv, ExportsNeverFailTheTask, Pc, Working
  <1>7. CASE AnalyzeRaises
    <2>1. mem' \in {Closed} \cup InAedt
      BY <1>7, SolveInHand DEF AnalyzeRaises, TypeOK
    <2> QED
      BY <1>7, <2>1, <1>a, <1>b DEF AnalyzeRaises, Abandons, attemptVars, TypeOK, AtInv, ValidInv,
          ExportsNeverFailTheTask, Pc, Working
  <1>8. CASE Save
    <2>1. disk' \in Project /\ unsaved' \in BOOLEAN
      BY <1>8, ProjectInHand DEF Save, TypeOK
    <2> QED
      BY <1>8, <2>1, <1>a, <1>b, <1>c DEF Save, Goto, TypeOK, AtInv, ValidInv, ExportsNeverFailTheTask, Pc, Working
  <1>9. CASE SaveRaises \/ EntriesDone
    <2>1. disk' \in Project
      BY <1>9, ProjectInHand DEF SaveRaises, EntriesDone, TypeOK
    <2> QED
      BY <1>9, <2>1, <1>a, <1>b DEF SaveRaises, EntriesDone, Abandons, Goto, attemptVars, TypeOK, AtInv, ValidInv,
        ExportsNeverFailTheTask, Pc, Working
  <1>10. CASE RemoveOld
    <2>1. fld' \in [File -> Field]
      BY <1>10 DEF RemoveOld, TypeOK, Field
    <2>2. at' \in 1..Len(entries)
      BY <1>10, EntryInHand DEF RemoveOld, Goto, attemptVars
    <2> QED
      BY <1>10, <2>1, <2>2, <1>a, <1>b DEF RemoveOld, Goto, attemptVars, TypeOK, AtInv, ValidInv,
          ExportsNeverFailTheTask, Pc, Working
  <1>11. CASE RemoveOldRaises
    <2>1. pc = "entry" /\ at <= Len(entries) /\ Record("failure")
      BY <1>11, EntryInHand DEF RemoveOldRaises
    <2>2. pc' = "entry" /\ at' \in 1..(Len(entries) + 1) /\ exported' \in [Name -> Outcome] /\ UNCHANGED why
      BY <2>1, <1>a, RecordSound
    <2> QED
      BY <1>11, <2>1, <2>2, <1>a, <1>b, <1>c DEF RemoveOldRaises, TypeOK, AtInv, ValidInv, ExportsNeverFailTheTask, Pc, Working
  <1>12. CASE Edit
    <2>1. mem' \in {Closed} \cup InAedt
      BY <1>12, EntryInHand, ProjectInHand, <1>c DEF Edit, Goto, AtInv, TypeOK, Sources
    <2> QED
      BY <1>12, <2>1, <1>a, <1>b DEF Edit, Goto, attemptVars, TypeOK, AtInv, ValidInv, ExportsNeverFailTheTask, Pc, Working
  <1>13. CASE EditFails
    <2>1. pc = "edit" /\ at <= Len(entries) /\ Record("failure")
      BY <1>13, <1>c DEF EditFails, AtInv
    <2>2. pc' = "entry" /\ at' \in 1..(Len(entries) + 1) /\ exported' \in [Name -> Outcome] /\ UNCHANGED why
      BY <2>1, <1>a, RecordSound
    <2>3. mem' \in {Closed} \cup InAedt
      BY <1>13, <2>1, EntryInHand, ProjectInHand DEF EditFails, TypeOK, Sources
    <2> QED
      BY <1>13, <2>1, <2>2, <2>3, <1>a, <1>b, <1>c DEF EditFails, TypeOK, AtInv, ValidInv, ExportsNeverFailTheTask, Pc, Working
  <1>14. CASE Export \/ ExportRaises
    <2>1. pc = "grid" /\ at <= Len(entries)
      BY <1>14, <1>c DEF Export, ExportRaises, AtInv
    <2>2. \E outcome \in {"success", "failure"} : Record(outcome)
      BY <1>14 DEF Export, ExportRaises
    <2>3. pc' = "entry" /\ at' \in 1..(Len(entries) + 1) /\ exported' \in [Name -> Outcome] /\ UNCHANGED why
      BY <2>1, <2>2, <1>a, RecordSound
    <2>4. fld' \in [File -> Field]
      BY <1>14, <2>1, EntryInHand, ProjectInHand DEF Export, ExportRaises, TypeOK
    <2>5. UNCHANGED <<disk, mem, todo, reports, adopted, unsaved>>
      BY <1>14 DEF Export, ExportRaises
    <2> QED
      BY <2>1, <2>3, <2>4, <2>5, <1>a, <1>b, <1>c DEF TypeOK, AtInv, ValidInv, ExportsNeverFailTheTask, Pc, Working
  <1>15. CASE Close
    <2>1. disk' \in Project /\ unsaved' \in BOOLEAN
      BY <1>15, ProjectInHand DEF Close, TypeOK
    <2> QED
      BY <1>15, <2>1, <1>a, <1>b DEF Close, Closing, Closes, attemptVars, TypeOK, AtInv, ValidInv,
          ExportsNeverFailTheTask, Pc, Working
  <1>16. CASE CloseFails
    <2>1. KnowsHow
      BY <1>16, EntryInHand DEF CloseFails, Closing, KnowsHow, Working
    <2>2. disk' \in Project
      BY <1>16, <2>1, ProjectInHand DEF CloseFails, TypeOK
    <2> QED
      BY <1>16, <2>1, <2>2, <1>a, <1>b DEF CloseFails, Closing, Closes, attemptVars, TypeOK, AtInv, ValidInv,
          ExportsNeverFailTheTask, Pc, Working
  <1>17. CASE WriteResult \/ FileDone \/ FinishRaises \/ FileFailed
    BY <1>17, <1>a, <1>b DEF WriteResult, FileDone, FinishRaises, FileFailed, Goto, Fails, attemptVars, TypeOK,
        AtInv, ValidInv, ExportsNeverFailTheTask, Pc, Working
  <1>18. CASE KillAndRecover \/ Retry
    <2>1. Forget
      BY <1>18 DEF KillAndRecover, Retry
    <2>2. fld' \in [File -> Field]
      BY <2>1 DEF Forget, TypeOK, Field, NoFile
    <2>3. reports' \in [Setup -> Report] /\ exported' \in [Name -> Outcome]
      BY <2>1 DEF Forget, NoReports, NoExports, Report, Outcome
    <2>4. unsaved' \in BOOLEAN
      BY <2>1, Zenon DEF Forget
    <2> QED
      BY <2>1, <2>2, <2>3, <2>4, <1>a, <1>b, <1>c DEF Forget, TypeOK, AtInv, ValidInv, ExportsNeverFailTheTask, Pc, Working
  <1>19. CASE AedtDies
    BY <1>19, <1>a, <1>b DEF AedtDies, attemptVars, TypeOK, AtInv, ValidInv, ExportsNeverFailTheTask
  <1>20. CASE UNCHANGED vars
    BY <1>20, <1>a, <1>b DEF vars, TypeOK, AtInv, ValidInv, ExportsNeverFailTheTask
  <1> QED
    BY <1>1, <1>2, <1>3, <1>4, <1>5, <1>6, <1>7, <1>8, <1>9, <1>10, <1>11, <1>12, <1>13, <1>14, <1>15, <1>16,
        <1>17, <1>18, <1>19, <1>20 DEF Next, RunSetups, FieldExports

(* Sound holds in every reachable state.                                   *)
LEMMA AlwaysSound == Spec => []Sound
  <1>1. Init => Sound
    BY SoundInit
  <1>2. Sound /\ [Next]_vars => Sound'
    BY SoundKept
  <1> QED
    BY <1>1, <1>2, PTL DEF Spec

(* Type correctness: every variable keeps its range, the entry in hand     *)
(* included, for every list of exports.                                    *)
THEOREM SessionTypeCorrect == Spec => []TypeOK
  BY AlwaysSound, PTL DEF Sound

(* The loop over the exports and the choice of how to close never raise on *)
(* what validate_task lets through, for every possible task file: an       *)
(* export that fails does not fail the task.                               *)
THEOREM ExportsHarmless == Spec => []ExportsNeverFailTheTask
  BY AlwaysSound, PTL DEF Sound

-----------------------------------------------------------------------------
(* The attempt implements TaskAttempt                                      *)

(* One value of pc, one stand.                                             *)
LEMMA Standing ==
  ASSUME TypeOK
  PROVE  /\ pc \in {"pending", "done", "failed"} <=> StandOf = "idle"
         /\ pc \in {"handler", "analyze", "save", "probe", "entry", "edit", "grid"} <=> StandOf = "solve"
         /\ pc \in {"open", "close_ok", "close_fail", "result", "file", "fail"} => StandOf = pc
  BY DEF TypeOK, Pc, Working, StandOf

(* A step changes the stand as TaskAttempt allows, or not at all.          *)
LEMMA AttemptStep ==
  ASSUME Sound, Sound', [Next]_vars
  PROVE  [Attempt!Next]_StandOf
  <1> DEFINE Solving == {"handler", "analyze", "save", "probe", "entry", "edit", "grid"}
             Named == {"open", "close_ok", "close_fail", "result", "file", "fail"}
  <1>1. /\ pc \in {"pending", "done", "failed"} <=> StandOf = "idle"
        /\ pc \in Solving <=> StandOf = "solve"
        /\ pc \in Named => StandOf = pc
    BY Standing DEF Sound
  <1>2. /\ pc' \in {"pending", "done", "failed"} <=> StandOf' = "idle"
        /\ pc' \in Solving <=> StandOf' = "solve"
        /\ pc' \in Named => StandOf' = pc'
    <2>1. TypeOK'
      BY DEF Sound
    <2> QED
      BY <2>1 DEF TypeOK, Pc, Working, StandOf
  <1> USE DEF Attempt!Next, Attempt!Load, Attempt!Open, Attempt!Solve, Attempt!Close, Attempt!WriteResult,
        Attempt!FileDone, Attempt!Fail, Attempt!Kill, Attempt!Goes
  <1>3. CASE Load \/ Open \/ Adopt \/ OpenRaises
    BY <1>1, <1>2, <1>3 DEF Load, Open, Adopt, OpenRaises, Goto, Fails
  <1>4. CASE pc \in Solving /\ pc' \in Solving \cup {"close_ok", "close_fail"}
    BY <1>1, <1>2, <1>4
  <1>5. ASSUME RunSetups \/ FieldExports
        PROVE  pc \in Solving /\ pc' \in Solving \cup {"close_ok", "close_fail"}
    <2>1. CASE RunSetups
      BY <2>1 DEF RunSetups, Handler, Analyze, ReportUnsolved, AnalyzeRaises, Save, SaveRaises, Abandons, Goto
    <2>2. CASE FieldExports
      BY <2>2 DEF FieldExports, EntriesDone, RemoveOld, RemoveOldRaises, Edit, EditFails, Export, ExportRaises,
            Record, Abandons, Goto
    <2> QED
      BY <1>5, <2>1, <2>2
  <1>6. CASE Close
    BY <1>1, <1>2, <1>6 DEF Close, Closing, Closes
  <1>7. CASE CloseFails
    <2>1. KnowsHow
      BY <1>7, EntryInHand DEF Sound, CloseFails, Closing, KnowsHow, Working
    <2> QED
      BY <1>1, <1>2, <1>7, <2>1 DEF CloseFails, Closing, Closes
  <1>8. CASE WriteResult \/ FileDone \/ FinishRaises \/ FileFailed
    BY <1>1, <1>2, <1>8 DEF WriteResult, FileDone, FinishRaises, FileFailed, Goto, Fails
  <1>9. CASE KillAndRecover \/ Retry
    BY <1>2, <1>9 DEF KillAndRecover, Retry, Forget
  <1>10. CASE AedtDies \/ UNCHANGED vars
    BY <1>10 DEF AedtDies, StandOf, vars
  <1> QED
    BY <1>3, <1>4, <1>5, <1>6, <1>7, <1>8, <1>9, <1>10 DEF Next

(* Whatever the tasks say and however the handler and the exports end, a   *)
(* project _open_project has returned is closed before the outcome is      *)
(* filed, and only a success goes through result.json to done/: the        *)
(* session implements what the worker's model takes for granted.           *)
THEOREM SessionImplementsAttempt == Spec => AttemptSpec
  <1>1. Init => Attempt!Init
    BY DEF Init, Attempt!Init, StandOf
  <1>2. Sound /\ Sound' /\ [Next]_vars => [Attempt!Next]_StandOf
    BY AttemptStep
  <1> QED
    BY <1>1, <1>2, AlwaysSound, PTL DEF Spec, AttemptSpec, Attempt!Spec

-----------------------------------------------------------------------------
(* The project file                                                        *)

(* The way through the handler is the one the task asks for.               *)
AskedInv ==
    /\ pc \in {"analyze", "save"} => AnalyzeRequested(task)
    /\ pc = "probe" => ~AnalyzeRequested(task)

(* Edited sources are only in memory, and only of a task that edits them.  *)
SourcesInv ==
    ~adopted =>
        /\ disk.sources = "client"
        /\ mem.open =>
            /\ pc \in {"handler", "analyze", "save", "probe"} => mem.sources = "client"
            /\ pc \in {"entry", "edit", "grid", "close_ok", "close_fail"} /\ ~EditsSources(task) =>
                    mem.sources = "client"

FileInv == Sound /\ AskedInv /\ SourcesInv

(* The steps that can change the project file: the save after a solve, also*)
(* one that raises, and a close of a task that solves and edits no sources.*)
LEMMA DiskChanges ==
  ASSUME Sound, AskedInv, [Next]_vars
  PROVE  \/ UNCHANGED disk
         \/ /\ mem.open /\ disk' = OnDisk
            /\ AnalyzeRequested(task) /\ ValidTask(task)
            /\ pc = "save" \/ (Closing /\ ~EditsSources(task))
  <1>1. CASE Save \/ SaveRaises
    BY <1>1 DEF Save, SaveRaises, Goto, AskedInv, Sound, ValidInv, Working
  <1>2. CASE Close \/ CloseFails
    <2>1. Closing /\ ValidTask(task) /\ ~MisreadsParameters(task)
      BY <1>2, EntryInHand DEF Close, CloseFails, Closing, Sound, ValidInv, Working
    <2>2. UNCHANGED disk \/ (mem.open /\ disk' = OnDisk /\ ~KeepSaved)
      BY <1>2 DEF Close, CloseFails
    <2> QED
      BY <2>1, <2>2 DEF KeepSaved, ReadOnly
  <1>3. CASE ~(Save \/ SaveRaises \/ Close \/ CloseFails)
    BY <1>3 DEF Next, RunSetups, FieldExports, Load, Open, Adopt, OpenRaises, Handler, Analyze, ReportUnsolved,
        AnalyzeRaises, EntriesDone, RemoveOld, RemoveOldRaises, Edit, EditFails, Export, ExportRaises,
        WriteResult, FileDone, FinishRaises, FileFailed, KillAndRecover, Retry, Forget, AedtDies, vars
  <1> QED
    BY <1>1, <1>2, <1>3

(* The steps that can change the project in AEDT.                          *)
LEMMA MemChanges ==
  ASSUME Sound, [Next]_vars
  PROVE  \/ UNCHANGED mem
         \/ ~mem'.open
         \/ /\ Open \/ OpenRaises
            /\ mem'.solved = disk.solved /\ mem'.sources = disk.sources
         \/ /\ pc = "analyze" /\ mem.open
            /\ mem'.sources = mem.sources
            /\ \E s \in todo : mem'.solved \in SolveOutcomes(s)
         \/ /\ pc = "edit" /\ mem.open /\ NamesSources(entry)
            /\ mem'.solved = mem.solved /\ mem'.sources = entry.name
  <1>1. ASSUME NEW s \in Setup, Analyze(s)
        PROVE  /\ pc = "analyze" /\ mem.open /\ mem'.sources = mem.sources
               /\ \E t \in todo : mem'.solved \in SolveOutcomes(t)
    BY <1>1, ProjectInHand DEF Analyze, Sound
  <1>2. CASE AnalyzeRaises
    BY <1>2, ProjectInHand DEF AnalyzeRaises, Sound
  <1>3. CASE Edit \/ EditFails
    BY <1>3, ProjectInHand DEF Edit, EditFails, Goto, Sound
  <1>4. CASE Open \/ OpenRaises \/ Close \/ AedtDies
    BY <1>4 DEF Open, OpenRaises, Opened, Close, AedtDies, Closed
  <1>5. CASE ~(Open \/ OpenRaises \/ (\E s \in Setup : Analyze(s)) \/ AnalyzeRaises \/ Edit \/ EditFails \/ Close
                \/ AedtDies)
    BY <1>5 DEF Next, RunSetups, FieldExports, Load, Adopt, Handler, ReportUnsolved, Save, SaveRaises,
        EntriesDone, RemoveOld, RemoveOldRaises, Export, ExportRaises, CloseFails, WriteResult, FileDone,
        FinishRaises, FileFailed, KillAndRecover, Retry, Forget, vars
  <1> QED
    BY <1>1, <1>2, <1>3, <1>4, <1>5

(* Where an attempt can come from.                                         *)
LEMMA PcChanges ==
  ASSUME Sound, [Next]_vars
  PROVE  /\ order' = order
         /\ adopted => adopted'
         /\ pc' = "handler" => pc = "handler" \/ Open \/ (adopted' /\ UNCHANGED <<mem, reports>> /\ pc = "open")
         /\ pc' = "analyze" => pc = "analyze" \/ (Handler /\ AnalyzeRequested(task))
         /\ pc' = "probe" => pc = "probe" \/ (Handler /\ ~AnalyzeRequested(task))
         /\ pc' = "save" => pc \in {"analyze", "save"}
         /\ pc' \in {"entry", "edit", "grid", "close_ok", "close_fail"} =>
                pc \in {"handler", "analyze", "save", "probe", "entry", "edit", "grid", "close_ok", "close_fail"}
  <1>1. CASE Next
    <2>1. CASE Load \/ Open \/ OpenRaises
      BY <2>1 DEF Load, Open, OpenRaises, Goto, Fails
    <2>2. CASE Adopt
      BY <2>2 DEF Adopt, Goto, attemptVars
    <2>3. CASE RunSetups
      BY <2>3 DEF RunSetups, Handler, Analyze, ReportUnsolved, AnalyzeRaises, Save, SaveRaises, Abandons, Goto
    <2>4. CASE FieldExports
      BY <2>4 DEF FieldExports, EntriesDone, RemoveOld, RemoveOldRaises, Edit, EditFails, Export, ExportRaises,
            Record, Abandons, Goto
    <2>5. CASE Close \/ CloseFails \/ WriteResult \/ FileDone \/ FinishRaises \/ FileFailed
      BY <2>5 DEF Close, CloseFails, Closing, Closes, WriteResult, FileDone, FinishRaises, FileFailed, Goto, Fails
    <2>6. CASE KillAndRecover \/ Retry \/ AedtDies
      BY <2>6 DEF KillAndRecover, Retry, Forget, AedtDies
    <2> QED
      BY <1>1, <2>1, <2>2, <2>3, <2>4, <2>5, <2>6 DEF Next
  <1>2. CASE UNCHANGED vars
    BY <1>2 DEF vars
  <1> QED
    BY <1>1, <1>2

LEMMA FileKept ==
  ASSUME FileInv, [Next]_vars
  PROVE  FileInv'
  <1> USE DEF FileInv
  <1>1. Sound'
    BY SoundKept
  <1>2. order' = order /\ task' = task
    BY PcChanges, OrderKept
  <1>3. AskedInv'
    BY <1>2, PcChanges DEF AskedInv, AnalyzeRequested
  <1>4. SourcesInv'
    <2> SUFFICES ASSUME ~adopted'
                 PROVE  SourcesInv'
      BY DEF SourcesInv
    <2>1. ~adopted
      BY PcChanges
    <2>2. disk'.sources = "client"
      BY <2>1, DiskChanges DEF SourcesInv, OnDisk, Closing
    <2>3. ASSUME mem'.open, pc' \in {"handler", "analyze", "save", "probe"}
          PROVE  mem'.sources = "client"
      <3>1. CASE Open
        BY <2>1, <3>1 DEF Open, Opened, SourcesInv
      <3>2. CASE ~Open
        <4>a. ~OpenRaises
          BY <2>3 DEF OpenRaises, Fails, Goto
        <4>1. pc \in {"handler", "analyze", "save", "probe"}
          BY <2>3, <3>2, PcChanges DEF Handler
        <4> QED
          BY <2>1, <2>3, <3>2, <4>a, <4>1, MemChanges DEF SourcesInv
      <3> QED
        BY <3>1, <3>2
    <2>4. ASSUME mem'.open, pc' \in {"entry", "edit", "grid", "close_ok", "close_fail"}, ~EditsSources(task)
          PROVE  mem'.sources = "client"
      <3>1. ~Open /\ ~OpenRaises
        BY <2>4 DEF Open, OpenRaises, Fails, Goto
      <3>2. pc = "edit" => ~NamesSources(entry)
        BY <2>4, EntryInHand, NamingEdits DEF Sound, AtInv, entry, entries
      <3>3. mem.sources = "client" \/ ~mem.open
        BY <2>1, <2>4, PcChanges DEF SourcesInv
      <3> QED
        BY <2>4, <3>1, <3>2, <3>3, MemChanges
    <2> QED
      BY <1>2, <2>2, <2>3, <2>4 DEF SourcesInv, EditsSources
  <1> QED
    BY <1>1, <1>3, <1>4

LEMMA AlwaysFile == Spec => []FileInv
  <1>1. ASSUME Init
        PROVE  FileInv
    <2>1. disk.sources = "client" /\ pc = "pending"
      BY <1>1 DEF Init
    <2> QED
      BY <1>1, <2>1, SoundInit DEF FileInv, AskedInv, SourcesInv
  <1>2. FileInv /\ [Next]_vars => FileInv'
    BY FileKept
  <1> QED
    BY <1>1, <1>2, PTL DEF Spec

(* However often the attempts are killed and whatever fails, the sources   *)
(* an export edits do not reach the project file of a client, as long as   *)
(* no attempt is given a project that a killed one left open.              *)
THEOREM SourcesKept == Spec => []SourcesStayTheClients
  <1>1. FileInv => SourcesStayTheClients
    BY DEF FileInv, SourcesInv, SourcesStayTheClients
  <1> QED
    BY <1>1, AlwaysFile, PTL

(* No attempt at a task that asks for no solve ever writes its project     *)
(* file, whatever was written in place of a boolean.                       *)
THEOREM ReadOnlyKept == Spec => ReadOnlyUntouched
  <1>1. FileInv /\ [Next]_vars => [task.analyze \notin {"absent", "true"} => UNCHANGED disk]_vars
    BY DiskChanges DEF FileInv, ValidTask, ValidAnalyze, OneOf, AnalyzeRequested
  <1> QED
    BY <1>1, AlwaysFile, PTL DEF Spec, ReadOnlyUntouched
=============================================================================
