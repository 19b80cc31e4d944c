------------------------- MODULE ProjectResultProofs ------------------------
(***************************************************************************)
(* What result.json reports of a task filed as done, for every set of      *)
(* tasks and any number of exports, attempts and failures.                 *)
(***************************************************************************)
EXTENDS ProjectSessionProofs

-----------------------------------------------------------------------------
(* Solved setups                                                           *)

Solved == {s \in Setup : reports[s] = "solved"}

(* From the save, or the last answer without a solve, to the end.          *)
Reported == pc \in {"entry", "edit", "grid", "close_ok", "result", "file", "done"}

(* What is reported as solved is in AEDT as long as the project is open,   *)
(* and on disk from the save on, or from the close if the save failed      *)
(* unnoticed; the exports change neither.                                  *)
SolvedInv ==
    /\ pc \in {"pending", "open", "handler"} => reports = NoReports
    /\ pc = "analyze" => \A s \in todo : reports[s] = "none"
    /\ pc \in {"pending", "open", "handler", "probe"} => ~unsaved
    /\ mem.open /\ pc \in {"analyze", "save", "entry", "edit", "grid", "close_ok"} => Solved \subseteq mem.solved
    /\ ~unsaved /\ (pc = "probe" \/ Reported) => Solved \subseteq disk.solved
    /\ mem.open /\ ~AnalyzeRequested(task) => mem.solved = disk.solved

LEMMA SolvedKept ==
  ASSUME FileInv, SolvedInv, [Next]_vars
  PROVE  SolvedInv'
  <1> USE DEF FileInv
  <1>a. Sound' /\ order' = order /\ task' = task
    BY SoundKept, PcChanges, OrderKept
  <1>b. AnalyzeRequested(task)' = AnalyzeRequested(task)
    BY <1>a DEF AnalyzeRequested
  <1>c. reports \in [Setup -> Report] /\ todo \in SUBSET Setup
    BY DEF Sound, TypeOK
  <1>d. UNCHANGED reports => Solved' = Solved
    BY DEF Solved
  <1>e. reports = NoReports => Solved = {}
    BY DEF Solved, NoReports
  <1>1. CASE Load \/ OpenRaises
    BY <1>1, <1>b, <1>d DEF Load, OpenRaises, Opened, Goto, Fails, attemptVars, SolvedInv, Reported
  <1>2. CASE Open
    BY <1>2, <1>b, <1>d DEF Open, Opened, Goto, attemptVars, SolvedInv, Reported
  <1>3. CASE Adopt
    BY <1>3, <1>b, <1>d DEF Adopt, Goto, attemptVars, SolvedInv, Reported
  <1>4. CASE Handler
    <2>1. pc = "handler" /\ pc' \in {"analyze", "probe", "close_fail"} /\ UNCHANGED <<mem, disk, reports, unsaved>>
      BY <1>4 DEF Handler, Abandons
    <2>2. Solved' = {} /\ \A s \in todo' : reports'[s] = "none"
      <3>1. Solved = {} /\ \A s \in Setup : reports[s] = "none"
        BY <2>1, <1>e DEF SolvedInv, NoReports
      <3>2. todo' \subseteq Setup
        BY <1>a DEF Sound, TypeOK
      <3> QED
        BY <2>1, <1>d, <3>1, <3>2
    <2> QED
      BY <2>1, <2>2, <1>b DEF SolvedInv, Reported
  <1>5. ASSUME NEW s \in Setup, Analyze(s)
        PROVE  SolvedInv'
    <2>1. PICK solved \in SolveOutcomes(s) :
              /\ mem' = [mem EXCEPT !.solved = solved]
              /\ \E r \in Probe(solved, s) : reports' = [reports EXCEPT ![s] = r]
      BY <1>5 DEF Analyze
    <2>2. /\ pc = "analyze" /\ mem.open /\ s \in todo /\ todo' = todo \ {s}
          /\ pc' \in {"analyze", "save"} /\ UNCHANGED <<disk, unsaved>>
      BY <1>5 DEF Analyze
    <2>3. mem'.solved = solved
      BY <2>1, <2>2, ProjectInHand DEF Sound
    <2>4. Solved \subseteq mem.solved /\ s \notin Solved
      BY <2>2 DEF SolvedInv, Solved
    <2>5. Solved' \subseteq solved
      <3>1. Solved' \ {s} \subseteq Solved
        BY <2>1, <1>c DEF Solved
      <3>2. s \in Solved' => s \in solved
        BY <2>1, <1>c DEF Solved, Probe
      <3> QED
        BY <2>4, <3>1, <3>2 DEF SolveOutcomes
    <2>6. \A t \in todo' : reports'[t] = "none"
      BY <2>1, <2>2, <1>c DEF SolvedInv
    <2>7. AnalyzeRequested(task)
      BY <2>2 DEF AskedInv
    <2> QED
      BY <2>2, <2>3, <2>5, <2>6, <2>7, <1>b DEF SolvedInv, Reported
  <1>6. ASSUME NEW s \in Setup, ReportUnsolved(s)
        PROVE  SolvedInv'
    <2>1. /\ pc = "probe" /\ pc' \in {"probe", "entry"} /\ UNCHANGED <<disk, mem, unsaved>>
          /\ ~AnalyzeRequested(task)
      BY <1>6 DEF ReportUnsolved, AskedInv
    <2>2. PICK r \in {"unknown"} \cup (IF mem.open THEN Probe(mem.solved, s) ELSE {}) :
              reports' = [reports EXCEPT ![s] = r]
      BY <1>6 DEF ReportUnsolved
    <2>3. Solved \subseteq disk.solved
      BY <2>1 DEF SolvedInv
    <2>4. Solved' \subseteq disk.solved
      <3>1. Solved' \ {s} \subseteq Solved
        BY <2>2, <1>c DEF Solved
      <3>2. s \in Solved' => mem.open /\ s \in mem.solved
        BY <2>2, <1>c DEF Solved, Probe
      <3>3. mem.open => mem.solved = disk.solved
        BY <2>1 DEF SolvedInv
      <3> QED
        BY <2>3, <3>1, <3>2, <3>3
    <2> QED
      BY <2>1, <2>4, <1>b DEF SolvedInv, Reported
  <1>7. CASE AnalyzeRaises
    BY <1>7, <1>b DEF AnalyzeRaises, Abandons, SolvedInv, Reported, AskedInv
  <1>8. CASE Save
    <2>1. /\ pc' = "entry" /\ UNCHANGED <<mem, reports>>
          /\ mem.open => Solved \subseteq mem.solved
          /\ AnalyzeRequested(task)
      BY <1>8 DEF Save, Goto, SolvedInv, AskedInv
    <2>2. unsaved' \/ (mem.open /\ disk'.solved = mem.solved)
      BY <1>8 DEF Save, OnDisk
    <2> QED
      BY <2>1, <2>2, <1>b, <1>d DEF SolvedInv, Reported
  <1>9. CASE SaveRaises
    BY <1>9, <1>b, <1>d DEF SaveRaises, Abandons, attemptVars, SolvedInv, Reported, AskedInv
  <1>10. CASE FieldExports
    <2>1. pc \in {"entry", "edit", "grid"} /\ pc' \in {"entry", "edit", "grid", "close_ok", "close_fail"}
      BY <1>10 DEF FieldExports, EntriesDone, RemoveOld, RemoveOldRaises, Edit, EditFails, Export, ExportRaises,
          Record, Abandons, Goto
    <2>2. UNCHANGED <<disk, reports, unsaved>>
      BY <1>10 DEF FieldExports, EntriesDone, RemoveOld, RemoveOldRaises, Edit, EditFails, Export, ExportRaises,
          attemptVars
    <2>3. mem'.open => mem.open /\ mem'.solved = mem.solved
      <3>1. ~Open /\ ~OpenRaises /\ pc # "analyze"
        BY <2>1 DEF Open, OpenRaises, Fails, Goto
      <3> QED
        BY <3>1, MemChanges
    <2> QED
      BY <2>1, <2>2, <2>3, <1>b, <1>d DEF SolvedInv, Reported
  <1>11. CASE Close \/ CloseFails
    <2>1. pc \in {"close_ok", "close_fail"} /\ pc' = (IF pc = "close_ok" THEN "result" ELSE "fail")
      <3>1. Closing
        BY <1>11 DEF Close, CloseFails
      <3>2. KnowsHow
        BY <3>1, EntryInHand DEF Sound, Closing, KnowsHow, Working
      <3> QED
        BY <1>11, <3>1, <3>2 DEF Close, CloseFails, Closing, Closes
    <2>2. UNCHANGED reports /\ (mem'.open => UNCHANGED mem)
      BY <1>11 DEF Close, CloseFails, attemptVars, Closed
    <2>3. UNCHANGED disk \/ (mem.open /\ disk'.solved = mem.solved /\ AnalyzeRequested(task))
      BY DiskChanges DEF OnDisk
    <2>4. UNCHANGED unsaved \/ (mem.open /\ disk'.solved = mem.solved)
      BY <1>11 DEF Close, CloseFails, OnDisk
    <2> QED
      BY <2>1, <2>2, <2>3, <2>4, <1>b, <1>d DEF SolvedInv, Reported
  <1>12. CASE WriteResult \/ FileDone \/ FinishRaises \/ FileFailed
    BY <1>12, <1>b, <1>d DEF WriteResult, FileDone, FinishRaises, FileFailed, Goto, Fails, attemptVars, SolvedInv,
        Reported
  <1>13. CASE KillAndRecover \/ Retry
    BY <1>13, <1>b DEF KillAndRecover, Retry, Forget, SolvedInv, Reported
  <1>14. CASE AedtDies
    BY <1>14, <1>b, <1>d DEF AedtDies, attemptVars, Closed, SolvedInv, Reported
  <1>15. CASE UNCHANGED vars
    BY <1>15, <1>b, <1>d DEF vars, SolvedInv, Reported
  <1> QED
    BY <1>1, <1>2, <1>3, <1>4, <1>5, <1>6, <1>7, <1>8, <1>9, <1>10, <1>11, <1>12, <1>13, <1>14, <1>15
       DEF Next, RunSetups

(* A setup that result.json reports as solved is solved in the project     *)
(* file the client opens: the save comes between, and neither the exports  *)
(* nor the close, nor an AEDT that dies, take it back. Where the save      *)
(* failed without raising, a close that saves makes good for it.           *)
THEOREM SolvedSaved == Spec => []ReportedSolvedIsSaved
  <1>1. ASSUME Init
        PROVE  FileInv /\ SolvedInv
    <2>1. disk.sources = "client" /\ pc = "pending" /\ reports = NoReports /\ ~mem.open /\ ~unsaved
      BY <1>1 DEF Init, Closed
    <2> QED
      BY <1>1, <2>1, SoundInit DEF FileInv, AskedInv, SourcesInv, SolvedInv, Reported
  <1>2. FileInv /\ SolvedInv /\ [Next]_vars => (FileInv /\ SolvedInv)'
    BY FileKept, SolvedKept
  <1>3. SolvedInv => ReportedSolvedIsSaved
    BY DEF SolvedInv, Reported, Solved, ReportedSolvedIsSaved
  <1> QED
    BY <1>1, <1>2, <1>3, PTL DEF Spec

-----------------------------------------------------------------------------
(* An answer for each setup and entry                                      *)

AnsweredInv ==
    /\ pc \in {"analyze", "probe"} => \A s \in order.setups \ todo : reports[s] # "none"
    /\ pc = "save" \/ Reported => \A s \in order.setups : reports[s] # "none"
    /\ Reported => \A i \in DOMAIN entries : i < at => exported[entries[i].name] # "none"
    /\ pc \in {"close_ok", "result", "file", "done"} => at > Len(entries)

(* An entry in hand that is recorded, in detail.                           *)
LEMMA Recording ==
  ASSUME Sound, EditFails \/ Export \/ ExportRaises \/ RemoveOldRaises
  PROVE  /\ pc \in {"entry", "edit", "grid"} /\ pc' = "entry"
         /\ at \in DOMAIN entries /\ at' = at + 1
         /\ \E outcome \in {"success", "failure"} :
                exported' = [exported EXCEPT ![entry.name] = outcome]
         /\ UNCHANGED <<order, disk, todo, reports, adopted>>
  <1>1. pc \in {"entry", "edit", "grid"} /\ at <= Len(entries) /\ UNCHANGED <<order, disk, todo, reports, adopted>>
    <2>1. pc \in {"entry", "edit", "grid"} /\ UNCHANGED <<order, disk, todo, reports, adopted>>
      BY DEF EditFails, Export, ExportRaises, RemoveOldRaises
    <2>2. at <= Len(entries)
      BY EntryInHand DEF EditFails, Export, ExportRaises, RemoveOldRaises, Sound, AtInv
    <2> QED
      BY <2>1, <2>2
  <1>2. at \in DOMAIN entries /\ ~MisreadsEntry(entry) /\ ~MisreadsGrid(entry)
    BY <1>1, EntryInHand DEF Sound
  <1>3. \E outcome \in {"success", "failure"} : Record(outcome)
    BY <1>2 DEF EditFails, Export, ExportRaises, RemoveOldRaises
  <1> QED
    BY <1>1, <1>2, <1>3 DEF Record

LEMMA AnsweredKept ==
  ASSUME Sound, AnsweredInv, [Next]_vars
  PROVE  AnsweredInv'
  <1>a. order' = order /\ entries' = entries
    BY PcChanges, OrderKept
  <1>b. /\ reports \in [Setup -> Report] /\ exported \in [Name -> Outcome]
        /\ todo \in SUBSET Setup /\ order.setups \in SUBSET Setup
        /\ Len(entries) \in Nat /\ DOMAIN entries = 1..Len(entries)
    BY EntryInHand DEF Sound, TypeOK
  <1>1. CASE Load \/ Open \/ Adopt \/ OpenRaises
    BY <1>1 DEF Load, Open, Adopt, OpenRaises, Goto, Fails, AnsweredInv, Reported
  <1>2. CASE Handler
    BY <1>2 DEF Handler, Abandons, AnsweredInv, Reported
  <1>3. ASSUME NEW s \in Setup, Analyze(s)
        PROVE  AnsweredInv'
    <2>1. \E r \in {"solved", "unsolved"} : reports' = [reports EXCEPT ![s] = r]
      BY <1>3 DEF Analyze, Probe
    <2>2. \A t \in order.setups \ todo' : reports'[t] # "none"
      BY <1>3, <1>b, <2>1 DEF Analyze, AnsweredInv
    <2> QED
      BY <1>3, <1>a, <2>2 DEF Analyze, AnsweredInv, Reported
  <1>4. ASSUME NEW s \in Setup, ReportUnsolved(s)
        PROVE  AnsweredInv'
    <2>1. \E r \in {"solved", "unsolved", "unknown"} : reports' = [reports EXCEPT ![s] = r]
      BY <1>4 DEF ReportUnsolved, Probe
    <2>2. \A t \in order.setups \ todo' : reports'[t] # "none"
      BY <1>4, <1>b, <2>1 DEF ReportUnsolved, AnsweredInv
    <2>3. pc' = "entry" => at' = 1
      BY <1>4 DEF ReportUnsolved
    <2>4. pc' \in {"probe", "entry"} /\ (pc' = "entry" => todo' = {})
      BY <1>4 DEF ReportUnsolved
    <2> QED
      BY <1>a, <1>b, <2>2, <2>3, <2>4 DEF AnsweredInv, Reported
  <1>5. CASE AnalyzeRaises \/ SaveRaises
    BY <1>5 DEF AnalyzeRaises, SaveRaises, Abandons, AnsweredInv, Reported
  <1>6. CASE Save
    BY <1>6, <1>a, <1>b DEF Save, Goto, AnsweredInv, Reported
  <1>7. CASE EntriesDone \/ RemoveOld \/ Edit
    BY <1>7, <1>a DEF EntriesDone, RemoveOld, Edit, Goto, attemptVars, AnsweredInv, Reported
  <1>8. CASE EditFails \/ Export \/ ExportRaises \/ RemoveOldRaises
    <2>1. /\ pc \in {"entry", "edit", "grid"} /\ pc' = "entry"
          /\ at \in DOMAIN entries /\ at' = at + 1
          /\ UNCHANGED reports
      BY <1>8, Recording
    <2>2. PICK outcome \in {"success", "failure"} : exported' = [exported EXCEPT ![entry.name] = outcome]
      BY <1>8, Recording
    <2>3. ASSUME NEW i \in DOMAIN entries, i < at + 1
          PROVE  exported'[entries[i].name] # "none"
      <3>1. entry.name \in Name
        BY <2>1, <1>b, EntryInHand DEF Sound
      <3>2. i # at => exported[entries[i].name] # "none"
        BY <1>b, <2>1, <2>3 DEF AnsweredInv, Reported
      <3>3. i # at /\ entries[i].name # entry.name => exported'[entries[i].name] = exported[entries[i].name]
        BY <2>2, <1>b
      <3>4. entries[i].name = entry.name => exported'[entries[i].name] = outcome
        BY <2>2, <1>b, <3>1
      <3> QED
        BY <3>2, <3>3, <3>4 DEF entry
    <2> QED
      BY <1>a, <2>1, <2>3 DEF AnsweredInv, Reported
  <1>9. CASE Close \/ CloseFails
    BY <1>9, <1>a DEF Close, CloseFails, Closing, Closes, attemptVars, AnsweredInv, Reported
  <1>10. CASE WriteResult \/ FileDone \/ FinishRaises \/ FileFailed
    BY <1>10, <1>a DEF WriteResult, FileDone, FinishRaises, FileFailed, Goto, Fails, attemptVars, AnsweredInv, Reported
  <1>11. CASE KillAndRecover \/ Retry
    BY <1>11 DEF KillAndRecover, Retry, Forget, AnsweredInv, Reported
  <1>12. CASE AedtDies \/ UNCHANGED vars
    BY <1>12, <1>a DEF AedtDies, vars, attemptVars, AnsweredInv, Reported
  <1> QED
    BY <1>1, <1>2, <1>3, <1>4, <1>5, <1>6, <1>7, <1>8, <1>9, <1>10, <1>11, <1>12 DEF Next, RunSetups, FieldExports

LEMMA AlwaysAnswered == Spec => [](Sound /\ AnsweredInv)
  <1>1. ASSUME Init
        PROVE  Sound /\ AnsweredInv
    <2>1. pc = "pending"
      BY <1>1 DEF Init
    <2> QED
      BY <1>1, <2>1, SoundInit DEF AnsweredInv, Reported
  <1>2. Sound /\ AnsweredInv /\ [Next]_vars => (Sound /\ AnsweredInv)'
    BY SoundKept, AnsweredKept
  <1> QED
    BY <1>1, <1>2, PTL DEF Spec

(* A task filed as done has an answer for every setup and every entry,     *)
(* also for those after one that failed.                                   *)
THEOREM AllAnswered == Spec => []EveryEntryAnswered
  <1>1. Sound /\ AnsweredInv => EveryEntryAnswered
    <2> SUFFICES ASSUME Sound, AnsweredInv, pc = "done"
                 PROVE  EveryEntryAnswered
      BY DEF EveryEntryAnswered
    <2>1. Reported /\ at > Len(entries) /\ Len(entries) \in Nat /\ DOMAIN entries = 1..Len(entries) /\ at \in Int
      BY EntryInHand DEF Sound, TypeOK, AnsweredInv, Reported
    <2> QED
      BY <2>1 DEF AnsweredInv, EveryEntryAnswered
  <1> QED
    BY <1>1, AlwaysAnswered, PTL

-----------------------------------------------------------------------------
(* The files and the sources behind the exports                            *)

(* The sources entry i may find if the entries before it ended as outcomes *)
(* say, as a function of these alone.                                      *)
Naming(i) == {j \in 1..(i - 1) : NamesSources(entries[j])}
Sure(i, outcomes) == {j \in Naming(i) : outcomes[entries[j].name] = "success"}
Before(i, outcomes) ==
    {entries[j].name : j \in {k \in Naming(i) : \A l \in Sure(i, outcomes) : l <= k}}
    \cup (IF Sure(i, outcomes) = {} THEN {"client"} ELSE {})

LEMMA BeforeIs ==
  \A i : SourcesBefore(i) = Before(i, exported)
  BY DEF SourcesBefore, Before, Naming, Sure

(* Later entries do not count.                                             *)
LEMMA BeforeStable ==
  ASSUME NEW i, NEW old, NEW new,
         \A j \in 1..(i - 1) : new[entries[j].name] = old[entries[j].name]
  PROVE  Before(i, new) = Before(i, old)
  <1>1. Sure(i, new) = Sure(i, old)
    BY DEF Sure, Naming
  <1> QED
    BY <1>1 DEF Before

(* One entry more: it brings its own sources if it names any, for sure if  *)
(* it succeeds.                                                            *)
LEMMA BeforeNext ==
  ASSUME NEW i \in Nat \ {0}, NEW old, NEW new,
         \A j \in 1..(i - 1) : new[entries[j].name] = old[entries[j].name]
  PROVE  /\ ~NamesSources(entries[i]) => Before(i + 1, new) = Before(i, old)
         /\ NamesSources(entries[i]) => entries[i].name \in Before(i + 1, new)
         /\ NamesSources(entries[i]) /\ new[entries[i].name] # "success" =>
                Before(i, old) \subseteq Before(i + 1, new)
  <1>1. 1..((i + 1) - 1) = (1..(i - 1)) \cup {i} /\ i \notin 1..(i - 1)
    OBVIOUS
  <1>2. Before(i, new) = Before(i, old)
    BY BeforeStable
  <1>3. CASE ~NamesSources(entries[i])
    <2>1. Naming(i + 1) = Naming(i)
      BY <1>1, <1>3 DEF Naming
    <2>2. Sure(i + 1, new) = Sure(i, new)
      BY <2>1 DEF Sure
    <2> QED
      BY <1>2, <1>3, <2>1, <2>2 DEF Before
  <1>4. CASE NamesSources(entries[i])
    <2>1. Naming(i + 1) = Naming(i) \cup {i} /\ Naming(i) \subseteq 1..(i - 1)
      BY <1>1, <1>4 DEF Naming
    <2>2. \A l \in Sure(i + 1, new) : l <= i
      BY <2>1 DEF Sure
    <2>3. entries[i].name \in Before(i + 1, new)
      BY <2>1, <2>2 DEF Before
    <2>4. ASSUME new[entries[i].name] # "success"
          PROVE  Before(i, old) \subseteq Before(i + 1, new)
      <3>1. Sure(i + 1, new) = Sure(i, new)
        BY <2>1, <2>4 DEF Sure
      <3> QED
        BY <1>2, <2>1, <3>1 DEF Before
    <2> QED
      BY <1>4, <2>3, <2>4
  <1> QED
    BY <1>3, <1>4

(* The project in AEDT may bring sources to an entry.                      *)
Brings(sources, expected) == sources \in expected \/ (adopted /\ "client" \in expected)

(* What ExportsAsReported asks of one entry.                               *)
Truthful(i) ==
    LET f == fld[FileOf[entries[i].name]]
    IN  exported[entries[i].name] = "success" =>
            f.exists /\ f.rows /\ f.fresh /\ Brings(f.sources, SourcesOf(i))

ExportsInv ==
    /\ Reported => \A i \in DOMAIN entries : i < at => Truthful(i)
    /\ pc \in {"edit", "grid"} => ~fld[file].exists
    /\ pc \in {"entry", "edit"} /\ mem.open => Brings(mem.sources, SourcesBefore(at))
    /\ pc = "grid" /\ mem.open => Brings(mem.sources, SourcesOf(at))

(* Entries of a valid task have names, and so files, of their own.         *)
LEMMA OwnFile ==
  ASSUME Sound, pc \in {"entry", "edit", "grid"}, at <= Len(entries),
         \A m, n \in Name : FileOf[m] = FileOf[n] => m = n,
         NEW i \in DOMAIN entries, i # at
  PROVE  /\ entries[i].name \in Name /\ entries[i].name # entry.name
         /\ FileOf[entries[i].name] \in File /\ FileOf[entries[i].name] # file
  <1>1. ValidTask(task) /\ task \in TaskShape /\ at \in DOMAIN entries
    BY EntryInHand DEF Sound, ValidInv, Working
  <1>2. entries[i].name \in Name /\ entry.name \in Name
    BY <1>1, ValidReads DEF entries, entry
  <1>3. entries[i].name # entry.name
    BY <1>1 DEF ValidTask, DistinctNames, entries, entry
  <1> QED
    BY <1>2, <1>3 DEF file, File

(* An entry done with stays truthful while its outcome, its file and what  *)
(* was said of the entries before it stay.                                 *)
LEMMA TruthfulStays ==
  ASSUME Sound, UNCHANGED order, adopted => adopted', NEW i \in DOMAIN entries, Truthful(i),
         \A j \in 1..i : exported'[entries[j].name] = exported[entries[j].name],
         fld'[FileOf[entries[i].name]] = fld[FileOf[entries[i].name]]
  PROVE  Truthful(i)'
  <1>1. entries' = entries
    BY OrderKept
  <1>2. i \in Nat \ {0}
    BY EntryInHand DEF Sound
  <1>3. exported'[entries[i].name] = exported[entries[i].name]
    BY <1>2
  <1>4. Before(i, exported') = Before(i, exported)
    <2>1. \A j \in 1..(i - 1) : exported'[entries[j].name] = exported[entries[j].name]
      BY <1>2
    <2> QED
      BY <2>1, BeforeStable
  <1>5. SourcesBefore(i)' = SourcesBefore(i)
    BY <1>1, <1>4 DEF SourcesBefore, Before, Naming, Sure
  <1>6. SourcesOf(i)' = SourcesOf(i)
    BY <1>1, <1>5 DEF SourcesOf
  <1> QED
    BY <1>1, <1>3, <1>6 DEF Truthful, Brings

(* With outcomes, entries and files as they are, all of it stays.          *)
LEMMA NothingNew ==
  ASSUME Sound, ExportsInv, UNCHANGED <<order, at, exported, fld>>, adopted => adopted'
  PROVE  /\ Reported => \A i \in DOMAIN entries' : i < at' => Truthful(i)'
         /\ SourcesBefore(at)' = SourcesBefore(at) /\ SourcesOf(at)' = SourcesOf(at)
  <1>1. entries' = entries
    BY OrderKept
  <1>2. \A i \in DOMAIN entries : Truthful(i) => Truthful(i)'
    BY TruthfulStays
  <1> QED
    BY <1>1, <1>2 DEF ExportsInv, SourcesBefore, SourcesOf

(* The sources of an untouched project are the client's when the exports   *)
(* begin.                                                                  *)
LEMMA FirstEntry ==
  ASSUME SourcesInv, pc \in {"save", "probe"}, at' = 1, mem.open, UNCHANGED <<mem, adopted>>
  PROVE  Brings(mem.sources, SourcesBefore(at))'
  <1>1. Naming(1)' = {}
    BY DEF Naming
  <1>2. SourcesBefore(1)' = {"client"}
    BY <1>1 DEF SourcesBefore, Naming
  <1>3. SourcesBefore(at)' = SourcesBefore(1)'
    BY DEF SourcesBefore
  <1>4. mem'.sources = "client" \/ adopted'
    BY DEF SourcesInv
  <1> QED
    BY <1>2, <1>3, <1>4 DEF Brings

(* What a recorded entry leaves to be shown: its own report, and what the  *)
(* project brings to the next.                                             *)
LEMMA RecordTruthful ==
  ASSUME Sound, ExportsInv, EditFails \/ Export \/ ExportRaises \/ RemoveOldRaises
  PROVE  /\ exported'[entry.name] = "success" =>
                /\ pc = "grid" /\ mem.open
                /\ fld'[file] = Written
         /\ mem'.open =>
                /\ mem.open
                /\ Brings(mem'.sources, SourcesOf(at)) \/ (pc # "grid" /\ Brings(mem'.sources, SourcesBefore(at)))
         /\ exported'[entry.name] = "success" => pc = "grid"
         /\ fld' = fld \/ \E f \in Field : fld' = [fld EXCEPT ![file] = f]
  <1>1. /\ at <= Len(entries) /\ pc \in {"entry", "edit", "grid"} /\ entry.name \in Name /\ file \in File
        /\ ~MisreadsEntry(entry) /\ ~MisreadsGrid(entry)
    BY Recording, EntryInHand DEF Sound
  <1>2. fld \in [File -> Field] /\ exported \in [Name -> Outcome]
    BY DEF Sound, TypeOK
  <1>3. CASE RemoveOldRaises
    <2>1. pc = "entry" /\ UNCHANGED <<mem, fld>> /\ exported' = [exported EXCEPT ![entry.name] = "failure"]
      BY <1>1, <1>3 DEF RemoveOldRaises, Record
    <2>2. exported'[entry.name] = "failure"
      BY <1>1, <1>2, <2>1
    <2> QED
      BY <2>1, <2>2 DEF ExportsInv
  <1>4. CASE EditFails
    <2>1. pc = "edit" /\ NamesSources(entry) /\ UNCHANGED fld
          /\ exported' = [exported EXCEPT ![entry.name] = "failure"]
      BY <1>1, <1>4 DEF EditFails, Record
    <2>2. exported'[entry.name] = "failure"
      BY <1>1, <1>2, <2>1
    <2>3. UNCHANGED mem \/ (mem.open /\ mem'.sources = entry.name)
      BY <1>4, ProjectInHand DEF EditFails, Sound
    <2>4. SourcesOf(at) = {entry.name}
      BY <2>1 DEF SourcesOf, entry
    <2> QED
      BY <2>1, <2>2, <2>3, <2>4 DEF ExportsInv, Brings
  <1>5. CASE ExportRaises
    <2>1. pc = "grid" /\ UNCHANGED mem /\ exported' = [exported EXCEPT ![entry.name] = "failure"]
      BY <1>1, <1>5 DEF ExportRaises, Record
    <2>2. exported'[entry.name] = "failure"
      BY <1>1, <1>2, <2>1
    <2>3. fld' = fld \/ \E f \in Field : fld' = [fld EXCEPT ![file] = f]
      BY <1>5, ProjectInHand DEF ExportRaises, Sound
    <2> QED
      BY <2>1, <2>2, <2>3 DEF ExportsInv
  <1>6. CASE Export
    <2>1. pc = "grid" /\ UNCHANGED mem /\ ~fld[file].exists
      BY <1>6 DEF Export, ExportsInv
    <2>2. /\ \/ mem.open /\ fld' = [fld EXCEPT ![file] = Written]
             \/ mem.open /\ fld' = [fld EXCEPT ![file] = [Written EXCEPT !.rows = FALSE]]
             \/ UNCHANGED fld
          /\ exported' = [exported EXCEPT ![entry.name] =
                              IF fld'[file].exists /\ fld'[file].rows THEN "success" ELSE "failure"]
      BY <1>1, <1>6 DEF Export, Record
    <2>3. exported'[entry.name] = "success" => fld'[file].exists /\ fld'[file].rows
      BY <1>1, <1>2, <2>2
    <2>4. exported'[entry.name] = "success" => mem.open /\ fld'[file] = Written
      <3>1. CASE mem.open /\ fld' = [fld EXCEPT ![file] = Written]
        BY <1>1, <1>2, <3>1
      <3>2. CASE mem.open /\ fld' = [fld EXCEPT ![file] = [Written EXCEPT !.rows = FALSE]]
        <4>1. fld'[file] = [Written EXCEPT !.rows = FALSE]
          BY <1>1, <1>2, <3>2
        <4> QED
          BY <2>3, <4>1 DEF Written
      <3>3. CASE UNCHANGED fld
        BY <2>1, <2>3, <3>3
      <3> QED
        BY <2>2, <3>1, <3>2, <3>3
    <2>5. fld' = fld \/ \E f \in Field : fld' = [fld EXCEPT ![file] = f]
      BY <2>2, ProjectInHand DEF Sound
    <2> QED
      BY <2>1, <2>4, <2>5 DEF ExportsInv
  <1> QED
    BY <1>3, <1>4, <1>5, <1>6

LEMMA ExportsKept ==
  ASSUME \A m, n \in Name : FileOf[m] = FileOf[n] => m = n,
         FileInv, ExportsInv, [Next]_vars
  PROVE  ExportsInv'
  <1> USE DEF FileInv
  <1>a. order' = order /\ entries' = entries /\ (adopted => adopted')
    BY PcChanges, OrderKept
  <1>b. /\ fld \in [File -> Field] /\ exported \in [Name -> Outcome] /\ at \in Int
        /\ Len(entries) \in Nat /\ DOMAIN entries = 1..Len(entries)
    BY EntryInHand DEF Sound, TypeOK
  <1>c. ASSUME pc' \notin {"entry", "edit", "grid"}, UNCHANGED <<at, exported, fld>>, Reported' => Reported
        PROVE  ExportsInv'
    BY <1>c, <1>a, NothingNew DEF ExportsInv
  <1>1. CASE Load \/ Open \/ Adopt \/ OpenRaises
    BY <1>1, <1>c DEF Load, Open, Adopt, OpenRaises, Goto, Fails, attemptVars, Reported
  <1>2. CASE Handler \/ (\E s \in Setup : Analyze(s)) \/ AnalyzeRaises \/ SaveRaises
    BY <1>2, <1>c DEF Handler, Analyze, AnalyzeRaises, SaveRaises, Abandons, attemptVars, Reported
  <1>3. ASSUME NEW s \in Setup, ReportUnsolved(s)
        PROVE  ExportsInv'
    <2>1. pc = "probe" /\ UNCHANGED <<mem, adopted>> /\ (pc' = "entry" => at' = 1) /\ pc' \in {"probe", "entry"}
      BY <1>3 DEF ReportUnsolved
    <2>2. pc' = "entry" /\ mem.open => Brings(mem.sources, SourcesBefore(at))'
      BY <2>1, FirstEntry
    <2> QED
      BY <1>a, <1>b, <2>1, <2>2 DEF ExportsInv, Reported
  <1>4. CASE Save
    <2>1. pc = "save" /\ UNCHANGED <<mem, adopted>> /\ at' = 1 /\ pc' = "entry"
      BY <1>4 DEF Save, Goto
    <2>2. mem.open => Brings(mem.sources, SourcesBefore(at))'
      BY <2>1, FirstEntry
    <2> QED
      BY <1>a, <1>b, <2>1, <2>2 DEF ExportsInv, Reported
  <1>5. CASE EntriesDone
    BY <1>5, <1>c DEF EntriesDone, Goto, attemptVars, Reported
  <1>6. CASE RemoveOld
    <2>1. /\ pc = "entry" /\ pc' = "edit" /\ at <= Len(entries)
          /\ UNCHANGED <<order, mem, at, exported, adopted>> /\ fld' = [fld EXCEPT ![file] = NoFile]
      BY <1>6 DEF RemoveOld, Goto, attemptVars
    <2>2. file \in File /\ file' = file
      BY <1>a, <2>1, EntryInHand DEF Sound, file, entry
    <2>3. ~fld'[file'].exists
      BY <1>b, <2>1, <2>2 DEF NoFile
    <2>4. ASSUME NEW i \in DOMAIN entries, i < at
          PROVE  Truthful(i)'
      <3>1. FileOf[entries[i].name] \in File /\ FileOf[entries[i].name] # file /\ Truthful(i)
        BY <2>1, <2>4, OwnFile, <1>b DEF ExportsInv, Reported
      <3>2. fld'[FileOf[entries[i].name]] = fld[FileOf[entries[i].name]]
        BY <1>b, <2>1, <3>1
      <3> QED
        BY <2>1, <3>1, <3>2, TruthfulStays
    <2>5. SourcesBefore(at)' = SourcesBefore(at)
      BY <1>a, <2>1 DEF SourcesBefore
    <2> QED
      BY <1>a, <2>1, <2>3, <2>4, <2>5 DEF ExportsInv, Brings
  <1>7. CASE Edit
    <2>1. pc = "edit" /\ pc' = "grid" /\ UNCHANGED <<order, fld, at, exported, adopted>>
      BY <1>7 DEF Edit, Goto, attemptVars
    <2>2. SourcesOf(at)' = SourcesOf(at) /\ \A i \in DOMAIN entries' : i < at' => Truthful(i)'
      BY <2>1, NothingNew DEF Reported
    <2>3. mem'.open => Brings(mem'.sources, SourcesOf(at))
      <3>1. CASE ~NamesSources(entry)
        BY <1>7, <2>1, <3>1 DEF Edit, ExportsInv, SourcesOf, entry
      <3>2. CASE NamesSources(entry)
        BY <1>7, <3>2, ProjectInHand DEF Edit, Sound, SourcesOf, entry, Brings
      <3> QED
        BY <3>1, <3>2
    <2>4. ~fld'[file'].exists
      BY <1>a, <2>1 DEF ExportsInv, file, entry
    <2> QED
      BY <2>1, <2>2, <2>3, <2>4 DEF ExportsInv, Brings
  <1>8. CASE EditFails \/ Export \/ ExportRaises \/ RemoveOldRaises
    <2>1. /\ pc \in {"entry", "edit", "grid"} /\ pc' = "entry" /\ at <= Len(entries)
          /\ at \in DOMAIN entries /\ at \in Nat \ {0} /\ at' = at + 1 /\ UNCHANGED adopted
      BY <1>8, <1>b, Recording
    <2>2. PICK outcome \in {"success", "failure"} : exported' = [exported EXCEPT ![entry.name] = outcome]
      BY <1>8, Recording
    <2>3. entry.name \in Name /\ file \in File /\ exported'[entry.name] = outcome
      BY <1>b, <2>1, <2>2, EntryInHand DEF Sound
    <2>4. ASSUME NEW i \in DOMAIN entries, i # at
          PROVE  /\ exported'[entries[i].name] = exported[entries[i].name]
                 /\ fld'[FileOf[entries[i].name]] = fld[FileOf[entries[i].name]]
      <3>1. /\ entries[i].name \in Name /\ entries[i].name # entry.name
            /\ FileOf[entries[i].name] \in File /\ FileOf[entries[i].name] # file
        BY <2>1, <2>4, OwnFile
      <3>2. fld' = fld \/ \E f \in Field : fld' = [fld EXCEPT ![file] = f]
        BY <1>8, RecordTruthful
      <3>3. exported'[entries[i].name] = exported[entries[i].name]
        BY <1>b, <2>2, <3>1
      <3>4. fld'[FileOf[entries[i].name]] = fld[FileOf[entries[i].name]]
        BY <1>b, <3>1, <3>2
      <3> QED
        BY <3>3, <3>4
    <2>5. ASSUME NEW i \in DOMAIN entries, i < at
          PROVE  Truthful(i)'
      <3>1. Truthful(i)
        BY <2>1, <2>5 DEF ExportsInv, Reported
      <3>2. \A j \in 1..i : j \in DOMAIN entries /\ j # at
        BY <1>b, <2>1, <2>5
      <3>3. \A j \in 1..i : exported'[entries[j].name] = exported[entries[j].name]
        BY <2>4, <3>2
      <3>4. fld'[FileOf[entries[i].name]] = fld[FileOf[entries[i].name]]
        BY <1>b, <2>1, <2>4, <2>5
      <3> QED
        BY <1>a, <3>1, <3>3, <3>4, TruthfulStays
    <2>6. \A j \in 1..(at - 1) : exported'[entries[j].name] = exported[entries[j].name]
      BY <1>b, <2>1, <2>4
    <2>7. Before(at, exported') = Before(at, exported)
      BY <2>6, BeforeStable
    <2>8. ASSUME NEW n, n = at
          PROVE  Truthful(n)'
      <3>1. SourcesOf(n)' = SourcesOf(at)
        <4>1. SourcesBefore(n)' = Before(n, exported')
          BY <1>a DEF SourcesBefore, Before, Naming, Sure
        <4>2. SourcesBefore(n)' = SourcesBefore(at)
          BY <2>7, <2>8, <4>1, BeforeIs
        <4> QED
          BY <1>a, <2>8, <4>2 DEF SourcesOf
      <3>2. outcome = "success" => mem.open /\ pc = "grid" /\ fld'[file] = Written
        BY <1>8, <2>3, RecordTruthful
      <3>3. outcome = "success" => Brings(mem.sources, SourcesOf(at))
        BY <3>2 DEF ExportsInv
      <3> QED
        BY <1>a, <2>1, <2>3, <2>8, <3>1, <3>2, <3>3 DEF Truthful, Brings, Written, file, entry
    <2>9. mem'.open => Brings(mem'.sources, Before(at + 1, exported'))
      <3>1. /\ ~NamesSources(entry) => Before(at + 1, exported') = Before(at, exported)
            /\ NamesSources(entry) => entry.name \in Before(at + 1, exported')
            /\ NamesSources(entry) /\ outcome # "success" =>
                    Before(at, exported) \subseteq Before(at + 1, exported')
        BY <2>1, <2>3, <2>6, BeforeNext DEF entry
      <3>2. SourcesOf(at) = IF NamesSources(entry) THEN {entry.name} ELSE Before(at, exported)
        BY BeforeIs DEF SourcesOf, entry
      <3>3. mem'.open =>
              \/ Brings(mem'.sources, SourcesOf(at))
              \/ outcome # "success" /\ Brings(mem'.sources, Before(at, exported))
        BY <1>8, <2>3, RecordTruthful, BeforeIs
      <3> QED
        BY <3>1, <3>2, <3>3 DEF Brings
    <2>10. SourcesBefore(at)' = Before(at + 1, exported')
      BY <1>a, <2>1 DEF SourcesBefore, Before, Naming, Sure
    <2> QED
      BY <1>a, <1>b, <2>1, <2>5, <2>8, <2>9, <2>10 DEF ExportsInv, Brings
  <1>9. CASE Close \/ CloseFails
    BY <1>9, <1>c DEF Close, CloseFails, Closing, Closes, attemptVars, Reported
  <1>10. CASE WriteResult \/ FileDone \/ FinishRaises \/ FileFailed
    BY <1>10, <1>c DEF WriteResult, FileDone, FinishRaises, FileFailed, Goto, Fails, attemptVars, Reported
  <1>11. CASE KillAndRecover \/ Retry
    BY <1>11 DEF KillAndRecover, Retry, Forget, ExportsInv, Reported
  <1>12. CASE AedtDies \/ UNCHANGED vars
    <2>1. UNCHANGED <<order, at, exported, fld, pc, adopted>> /\ (mem'.open => UNCHANGED mem)
      BY <1>12 DEF AedtDies, vars, attemptVars, Closed
    <2>2. file' = file
      BY <1>a, <2>1 DEF file, entry
    <2> QED
      BY <2>1, <2>2, NothingNew DEF ExportsInv, Brings, Reported
  <1> QED
    BY <1>1, <1>2, <1>3, <1>4, <1>5, <1>6, <1>7, <1>8, <1>9, <1>10, <1>11, <1>12 DEF Next, RunSetups, FieldExports

(* An export reported as a success has a file with data, written by the    *)
(* attempt that reports it, under the sources the entries say; so long as  *)
(* the file system keeps the files of different names apart.               *)
THEOREM ReportsTrue ==
  ASSUME \A m, n \in Name : FileOf[m] = FileOf[n] => m = n
  PROVE  Spec => []ExportsAsReported
  <1>1. ASSUME Init
        PROVE  ExportsInv
    <2>1. pc = "pending"
      BY <1>1 DEF Init
    <2> QED
      BY <2>1 DEF ExportsInv, Reported
  <1>2. FileInv /\ ExportsInv /\ [Next]_vars => ExportsInv'
    BY ExportsKept
  <1>3. Sound /\ AnsweredInv /\ ExportsInv => ExportsAsReported
    <2> SUFFICES ASSUME Sound, AnsweredInv, ExportsInv, pc = "done"
                 PROVE  ExportsAsReported
      BY DEF ExportsAsReported
    <2>1. Reported /\ at > Len(entries) /\ Len(entries) \in Nat /\ DOMAIN entries = 1..Len(entries) /\ at \in Int
      BY EntryInHand DEF Sound, TypeOK, AnsweredInv, Reported
    <2>2. \A i \in DOMAIN entries : Truthful(i)
      BY <2>1 DEF ExportsInv
    <2> QED
      BY <2>2 DEF ExportsAsReported, Truthful, Brings
  <1> QED
    BY <1>1, <1>2, <1>3, AlwaysFile, AlwaysAnswered, PTL DEF Spec
=============================================================================
