# The analyze queue and its worker, in TLA+

This project models the service in `src/`: client pipelines put HFSS analysis
tasks into a folder on a network share, and a worker on a workstation takes
them, solves them in AEDT and files them as done or failed. There is no server,
no database and no lock: the queue is four folders, a task changes stage when
somebody renames its file, and every participant may be killed at any moment.
What makes it correct is the order in which files are written, moved and
deleted, and that order is what the modules model.

## The system

| Part | Source | State it keeps | Operations |
|---|---|---|---|
| Queue folder and client library | `common/ansys_analyze_common/queue_common.py` | `pending/ in_progress/ done/ failed/`, error logs, `projects/<task_id>/` with the bundle and `result.json` | submit (copy the bundle, rename the task file in), `get_task_status`, `read_task`, `retry_task`, `remove_task`, `recover_orphaned_tasks`, `validate_task` |
| Stale locks | `worker/.../stale_locks.py` | none; reads and deletes `.aedt.lock` and `.asol*.semaphore` files | `clear_stale_locks_for_tasks` after recovery |
| Worker | `worker/.../worker.py` | the Desktop handle, the status cache, the current task, the listing it works through | `run_forever`, `_process_one`, `_finish_success`, `_finish_failure`, release of AEDT |
| Handlers | `worker/.../handlers/` | none | `run_setups`: analyse the setups and save, or only ask which are solved |
| Field exports | `worker/.../field_exports.py` | edits the project's sources in memory, writes `fields/*.fld` | `run_field_exports` after the handler |
| HPC options | `worker/.../hpc.py` | none; three environment variables | `resolve_hpc_options` before every solve |
| Supervisor and tray | `worker/.../supervisor.py`, `tray_app.py`, `run_service.py` | the child process, three `multiprocessing.Event`s, `restart_requested` | Release/Resume, Stop current run, Reset, Exit |
| Workarounds | `worker/.../compat.py` | one "already patched" flag | patches psutil and PyAEDT at import |

How they meet: clients and workers share only the folder. The supervisor starts
and terminates the worker process, sets events the worker polls, and reads a
status file the worker writes. Worker and AEDT meet in the project: AEDT leaves
a lock naming its pid, the next start of the worker judges that pid.

What is hard here:

- A client operation is two to five file operations and the worker runs between
  any two of them; the status scan even looks at the folders against the
  direction in which tasks move.
- "Stop current run", "Reset" and "Exit" terminate the worker at any
  instruction, so every write of `_process_one` can be the last one.
- Files outlive their writers: the status file, a `result.json` of an aborted
  attempt, the lock of a dead AEDT.
- Every move can fail, and `shutil.move` on a share can fail half-way: the
  rename is refused, the copy succeeds, the source stays.
- Nothing prevents a second worker on the same folder.
- A project lives twice, in its file and in AEDT's memory, and an export edits the
  copy in memory that the handler and the close may write to the file.
- Every call of a `multiprocessing.Event` takes a lock that a terminated process
  does not give back.

What makes each part correct:

- *Queue*: a submitted task is never lost, is in one stage at a time, moves only
  along the life cycle, and an answer given to a client means what it says.
- *Start-up*: after recovery nothing is left in `in_progress/`; the lock of a
  running AEDT is never deleted, the lock of a dead one is.
- *Worker*: every task is filed in the end, `done` has a success result, a
  failure is explained by a log.
- *Supervisor*: what the menu says is true; a release ends detached.
- *Handler and exports*: what `result.json` reports is what the project file and the
  field files hold; a client's sources and the project of a task that asks for no
  solve are left alone; one failing export harms neither the others nor the task.
- *Task schema*: what `validate_task` lets through does not raise later where
  nothing catches it.
- *HPC options*: no combination of variables silently solves on PyAEDT's
  template default.

The hazards that make these hard to test are listed with their lines in
`PROJECT.json`.

## Modules

    TaskQueue <- ProjectLocks <- WorkerProcess <- StartUp <- Worker <- Supervisor
                                                                          ^
    TaskLifecycle  <--- INSTANCE (refinement) ---  AnalysisService -------+   <- MCAnalysisService
    TaskFolders    <--- INSTANCE (refinement) -----+
    TaskAttempt    <--- INSTANCE (refinement) -----+   (once per worker)
         ^
         +--- INSTANCE (refinement) ---  ProjectSession -> TaskFile           <- MCProjectSession
    ControlEvents, HpcOptions (on their own)

    AnalysisService <- AnalysisServiceProofs <- LifecycleProofs <- QueueProofs
                                             <- StatusProofs
    ProjectSession  <- ProjectSessionProofs  <- ProjectResultProofs
    ControlEvents   <- ControlEventsProofs
    HpcOptions      <- HpcOptionsProofs

**TaskQueue** — the folder and the clients. `files[s]` is the set of task files
in stage folder `s`; `mtime` is 0 until a task is submitted; `errorLog`,
`project`, `result` are the files beside it; `stray` records a result written
outside the queue; `discarded` is a history of removed tasks. `client[c]` holds
the client's program counter, its task and the last answer it was given. One
action is one file operation: `CopyProject`, `WriteTask` (the rename that ends
`write_task_atomically`), `AskStatus`/`AskTask` and one `Probe` per
`os.path.exists`, `OpenFound`, `RetryStart`/`RetryClearLog`/`RetryMove`,
`RemoveFile`/`RemoveLog`/`RemoveTree`, and `ClientCrash` between any two.

**ProjectLocks** — AEDT on the worker's machine and whose pid a project's lock
names (`none`, `live`, `dead`, `unclear`, `foreign`). AEDT is outside the repository and is
modelled as `stale_locks.py` describes it. `JudgedStale`/`JudgedKept` are the
verdict of `clear_stale_lock`; for a pid of another machine both are possible. An `unclear`
lock is one of a dead AEDT that cannot be shown to be dead, and is kept: it names no process,
psutil is missing or denied, or another AEDT has the pid now. `EvidenceChanges` turns a dead
lock into an unclear one and back at any time.

**WorkerProcess** — the variables of a worker process, `_set_status` (`Publish`)
and how a process begins and ends (`Spawn`, `Kill`, `StartAlone` for
`--no-tray`, `Crash`). `pc` cuts `run_forever` between any two effects another
process can see, so a kill at every `pc` is a kill at every instruction that
matters.

**StartUp** — `recover_orphaned_tasks` (listing, one move at a time, an error
ends the process) and `clear_stale_locks_for_tasks` (judge, unlink, sweep).

**Worker** — the loop (`Top`, `Detach`, `Gate`, `Report`, `Serve`, `NextTask`,
`EndBatch`, `Wake`) and `_process_one` (`Take` ... `Clear`) with every error
path, and `AedtDies`. The events are read as often as the code reads them.

**Supervisor** — the menu callbacks. They run one after another on the tray's
thread, so `tray` says what is left of the callback in progress. `Reset`
executes the program anew, which creates new events (`NewTray`).

**AnalysisService** — composes all of them and states the properties.

**TaskLifecycle** — what the folder promises about one task: seven edges between
new, pending, in progress, done, failed and removed. `AnalysisService`
implements it under the mapping `StageOf`.

**TaskFolders** — the same promise on a share that fails moves half-way, where a task
can have a file in several folders and `TaskLifecycle` does not hold: submissions, moves
along the five edges between the folders, whole or without the removal of the source, and
removals from `failed/`. `AnalysisService` implements it with `submitted` the tasks that
have a modification time and `removed` as `discarded`.

**TaskFile** — the JSON of a task: each field reduced to the forms the code tells
apart (absent, the legal forms, anything else), `validate_task` field by field,
and beside it what the worker does with each field afterwards (`AnalyzeRequested`,
`Handled`, `MisreadsParameters` and the reading of an entry by the exports).

**ProjectSession** — one task's project from `_open_project` to `_close_project`:
the project file (`disk`), the project in AEDT (`mem`), the field files (`fld`),
and the records that become `result.json`. The handler goes setup by setup, saves
or only probes; `run_field_exports` goes entry by entry through removal of the old
file, `edit_sources`, the export and its record, each of which may fail. An
attempt may fail, be killed or lose its AEDT at every step and the task may be
run again; a project left open may be handed to the next attempt (`Adopt`).

**TaskAttempt** — the order of `_process_one` and nothing else. `AnalysisService`
implements it for every worker under `StandOf(w)`, with one step for handler and
exports; `ProjectSession` implements it under its `StandOf`, with that step in
full. This is what joins the two: the queue does not see inside `solve`, and the
session does not see the queue.

**ControlEvents** — the tray and its worker once more, cut finer: each call of
`set`, `clear` and `is_set` takes the event's lock, and `Terminate` may find the worker
inside one. `Reads`, `IfSet` and `IfUnset` are the reads of `run_forever`, `Does` the
calls of the callbacks.

**HpcOptions** — `resolve_hpc_options` for all values of the three variables,
and what PyAEDT makes of the three numbers.

A definition whose comment starts with "Fault:" is not part of the
specification: it is a plausible mistake in the operator that follows it, and
is there to show that a property would notice.

### Conventions and assumptions

- Tasks are positive numbers in the order of their file names, which breaks
  ties between equal modification times. `_pending_task_files` sorts by
  modification time, and a move keeps that time, so a listing is a set and
  `Oldest` picks from it in the same order.
- `Kind[t]` is what is in a task's file: it solves, may fail, has no handler, is
  refused by `validate_task`, is JSON but no object, or is not JSON. Clients submit only
  files of the first three kinds; the others are in the queue from the start.
- Clients follow `docs/ARCHITECTURE.md`: they call `retry_task` and `remove_task` only when
  their last answer was `failed` (the guard `saw = "failed"`). `remove_task` itself does not look
  where the task is, and `retry_task` only that its file is in `failed/`.
- A process killed while it writes `result.json` leaves it old or whole; a write that raises
  may leave it `broken`.
- Listing a folder and reading the modification times in it is one step.
- Events are read and set atomically, except in `ControlEvents`, which is about
  nothing else.
- The worker's three accesses to a project, open, handler and exports, and close,
  are one step each in `Worker` and many in `ProjectSession`.
- Of PyAEDT and AEDT, which are outside the repository: `is_solved` and the return
  value of `analyze` may deny a solution that is there but not claim one that is
  not; `edit_sources` that raises may or may not have changed them; an export may
  write nothing, or no data rows, and not raise; `save_project` may fail by returning `False`,
  which the handler ignores (`Save`, remembered in `unsaved`), or may raise before or after it
  has saved; `Hfss(...)` may raise before or after AEDT has opened the project; with `Adopting`, opening a project that is still
  open in the same AEDT may be given the one in memory.
- `FileOf` is the file system's name for `fields/<name>.fld`.
- `Process.terminate()` and `join(timeout=15)` end the child.
- The plain pause event is never set: no menu entry sets it.
- An AEDT started by PyAEDT itself and one started by the user are both
  `AedtStarts`.

## What is checked

`tlc -config <run>.cfg <module>`; all bounds are in the `.cfg` files.

| Run | Instance | Properties |
|---|---|---|
| `client_and_worker` | 2 tasks, 1 client with all operations, 1 worker, Stop | `TypeOK`, `InProgressIsWorkedOn`, `DoneMeansSuccess`, `BundleBeforeFile` |
| `faults` | 1 task, 1 client, 1 worker, Stop; the share and the client fail, other machines open projects | `AnswersStand`, `NoTaskLost`, `FoldersSpec` |
| `two_workers` | 1 task, 1 client, the tray's worker and a `--no-tray` one | `OneStage`, `LifecycleSpec`, `AttemptsSpec` |
| `tray_menu` | 2 tasks, either of them older, one of which ends its batch; all menu entries, crashes of worker and AEDT, fairness | `ReleasedLabelTruthful`, `StatusNamesTheTask`, `ReleaseKept`, `LiveLockKept`, `DeadLocksSeenTo`, `ReleaseDetaches`, `PendingServed` |
| `retries` | 3 tasks of three failing kinds, 1 client retrying, status writes may fail, fairness | `FailureExplained`, `PendingServed` |
| `project_session` | 87 tasks (legal ones, and one for every field spoilt), 2 setups, 3 names, any number of attempts | `TypeOK`, `ExportsNeverFailTheTask`, `EveryEntryAnswered`, `ExportsAsReported`, `ReportedSolvedIsSaved`, `SourcesStayTheClients`, `ReadOnlyUntouched`, `AttemptSpec` |
| `hpc_options` | numbers up to 3, all variables | `OptionsTypeOK`, `NeverTemplateCores`, `CoresAsAsked` |

What they show:

- However a client's operation interleaves with the worker and its kills, `done`
  always has a success result of its own, no task is worked on without its bundle, and a
  worker past its recovery leaves nothing behind in `in_progress/`.
- Even with moves that fail half-way no submitted task is lost, each copy of its file
  got where it is along the life cycle, and an answer `done` or `failed` stands
  until the client acts on it.
- A second worker, which the code does not exclude, cannot put one task into
  two stages or move it outside the life cycle, although each recovers what the
  other is working on.
- The status file tells the truth after any sequence of menu entries, although
  it outlives the process that wrote it; a release ends detached, and no kill, fresh
  worker or batch in progress undoes that (`ReleaseKept`); start-up never deletes the lock of a
  running AEDT of its machine (`LiveLockKept`) and, unless it is killed again, gets rid of every
  lock of what it recovered that it can tell is dead (`DeadLocksSeenTo`), where the file names a
  project; a service that is eventually left running files every task, although one of them ends
  every batch it is in.
- Each of the two workers goes through its tasks in the order `TaskAttempt` says, whatever
  the other does to the file under its hands; and `ProjectSession` fills in that order.
- A setup reported as solved is solved in the file, although AEDT may die between
  save and close -- unless `save_project` returned `False` unnoticed and no close has saved since
  (`unsaved`). An export reported as a success has a file with data of this
  attempt, evaluated under the sources its entry (or an earlier one) set. No failure
  of an export, nor the record of it, raises out of the loop for any task
  that `validate_task` lets through, although the spoilt ones spoil each field in turn.
- The sources an export sets do not reach the client's project file, and a task with
  `analyze: false` leaves that file alone in every attempt.
  Both `SourcesStayTheClients` and `ExportsAsReported` except an attempt that was
  given a project a killed one left open (`adopted`); without that exception TLC refutes
  both, by a kill between an export and the close.
- A client that retries one failing task for ever does not starve a younger one,
  because a batch is listed once.

**Why these bounds.** One task shows all that happens to a task; the second is
needed for the order of a batch and for a worker that goes on while a client acts
on the first; the third in `retries` makes a retried task compete with two kinds
of waiting ones. Tasks meet only through the one AEDT, the batch and the status
file, so a fourth adds no new kind of interaction. One client per run suffices for what
is stated about a client; `two_workers` and the theorems deal with more
actors. `MaxTime = 1` makes all modification times equal, so the order is that of the
names and a lower number is the older task; `MaxTime = 2` in `tray_menu` lets either be the
older. In `project_session` an entry can meet three others that matter: one that failed
before it, one that left sources behind, one of the same name; three entries and
two setups give each of them, and a spoilt field does its work in one entry. `QueueInit` lets any subset of the
tasks wait at the start. The retry loop is unbounded: there is no counter to cap.

**Fairness.** `FairSpec` assumes weak fairness of each worker's step: a process
that runs keeps running and PyAEDT's calls return. It assumes that a tray
callback that has begun completes, and that after Reset the process is executed
again. Nothing is assumed of clients, of the user (who need not restart after Exit), of crashes, or of AEDT,
which may stay dead for ever: tasks then fail, and that is being filed.
`PendingServed` is conditional: `<>[]Serving`, the service is eventually left
running and not released. Without it the user may stop a long solve for ever. `ControlEvents` assumes that
the worker goes on and that a tray that waits for a lock which is free again and again gets it
(strong fairness), so a counterexample there is not one of bad luck.

### Where the code departs from what is said of it

Each of these runs checks one property taken from a docstring or from
`docs/ARCHITECTURE.md` and ends in a counterexample; `findings` in
`PROJECT.json` quotes the sentences.

| Run | Property | What happens |
|---|---|---|
| `status_unknown` | `StatusNeverUnknown` | the scan misses a task that moves past it and answers `unknown` |
| `removed_is_gone` | `RemovedIsGone` | a task removed between the move to `failed/` and its log gets a new log and folder |
| `recovered_lock` | `RecoveredLocksCleared` | a second kill during start-up: the recovered task's dead lock is never looked at again |
| `held_event` | `StopRestarts` | a worker terminated inside `is_set` keeps the event's lock, and the tray waits for it for ever |
| `foreign_lock` | `ForeignLockKept` | another machine has a project open while its task is in `in_progress/`; Stop, and the recovery judges that pid here |

More was seen while modelling and has no run of its own:

- A kill between the move to `failed/` and the error log (`worker.py:352`) leaves a
  failure without a log; `FailureExplained` is therefore stated for a service that
  nobody kills.
- A task `validate_task` refuses still has a relative `output_dir` when its
  failure is written (`worker.py:363`), so its `result.json` goes below the worker's working
  directory: the variable `stray`.
- `read_task` may raise `FileNotFoundError` for a task that is in the queue all the
  time: `OpenFound` answers `"error"`.
- A retried, older task waits for the rest of the batch that was listed before
  it, although `_pending_task_files` promises its original place in line.
- Two entries whose names differ only in case are accepted and share one file on
  Windows: the later one removes what the earlier one reported. With such a
  `FileOf`, TLC refutes `ExportsAsReported`.
- `run_setups.py:117` does not look at what `save_project` returns, although
  `field_exports.py:117` takes a `False` of PyAEDT for a failure. A save that fails so, followed by
  a close without saving or one that fails, files a setup as solved that is not in the file: without
  `~unsaved`, TLC refutes `ReportedSolvedIsSaved`.
- An `Hfss(...)` that raises after AEDT has opened the project (`worker.py:285`, `:319`) leaves it
  open and locked: `_close_project` is only reached once `_open_project` has returned.
- A task file whose JSON is no object is filed in `failed/`, but `task.get` (`worker.py:360`) then
  raises out of `_finish_failure`: it gets no `result.json` and its batch ends. If a client retries such
  an oldest task for ever, every batch ends before a younger one's turn; clients of this
  repository do not write such files.
- With a second worker on the same machine, one can open a project between the
  other's verdict on its lock and the unlink, so that the lock of a running AEDT goes; with a
  second client, a removal can take the bundle of a task the first has retried.
  TLC refutes `LiveLockKept` and `BundleBeforeFile` for such instances.

## What is proved

For every set of tasks, clients and workers and every setting of the switches,
from the named assumptions on the constants only (`AnalysisServiceProofs`):

- `TypeCorrect`: `Spec => []TypeOK`. `TypeOK` alone is not inductive: a worker
  adds `cur[w]` to folders and locks, and `cur[w]` may be `NoTask`. `IInv` adds
  `WorkerHasTask` (at every `pc` at which a worker touches a file or a lock it
  has a task) and `ClientHasTask` (the same for a client in an operation or with
  an answer). The proof has a lemma per component and a step per action.
- `TasksKept`: `Spec => []NoTaskLost`. The lemma `NextFiles` reduces the whole
  next-state relation to what a step can do to the task files: nothing, a move
  or half a move along one of five edges, a submission or a removal. Each of
  them keeps a submitted task in some folder.
- `ImplementsFolders` (`LifecycleProofs`): `Spec => FoldersSpec`. `NextFiles` alone does not
  do: a submission could put a second file of a task into `pending/`. `SubmitInv` adds that a
  task being submitted is in no folder and has a modification time of 0
  (`CopiedIsNew`, `Arrived`), that no two clients submit the same one
  (`CopiedApart`, from the fresh bundle folder), and that all other operations
  are about submitted tasks (`OthersAreOld`, so `remove_task` cannot delete the
  bundle of a submission). `NextLifecycle` then turns every step into a move, half a move, an
  arrival or a departure, and each of them maps to one action of `TaskFolders` or to a
  stutter (a removal that finds no file).

In addition assuming `~IoFaults`, since a move that fails half-way does leave a
file in two folders (also `LifecycleProofs`):

- `OneFolder`: `Spec => []OneStage`, from `SubmitInv` and `NextLifecycle`.
- `ImplementsLifecycle`: `Spec => LifecycleSpec`. Under `OneStage` every step maps to one action
  of `TaskLifecycle`. Neither theorem restricts the number of
  workers or when they are killed: the atomic rename and the check that the file is still where
  it is taken from are all that is needed.

What a client and a worker can rely on (`QueueProofs`), for any number of tasks. Each theorem
assumes what it needs and no more: without any one of its assumptions TLC refutes the
property on one task and at most two clients or two workers (so too for `RecoveryThorough`,
`LiveLocks` and the two theorems about the status file below).

- `AnswersKept`, for one client: `[]AnswersStand`, with any number of workers, kills and failing
  moves. Whoever is not a client takes nothing out of `done/` and `failed/` (`OthersStep`).
- `BundlesThere`, for one client and `~IoFaults`: `[]BundleBeforeFile`. `PromiseInv` strengthens
  it: what is being removed has left the queue (`RemovedLeft`, which rests on the answer the client
  was given being true and on `OneStage`), and every task in the queue, failed ones included, has
  its bundle (`Housed`). Half a move leaves a copy behind that the removal does not see.
- `InProgressOwned`, for one worker and `~IoFaults`, with any number of clients: `OwnInv` says for
  every `pc` whether `in_progress/` holds the orphans still to be moved, exactly the task
  in hand, or nothing.
- `DoneSucceeded`, for one worker, one client and `~IoFaults`: `HandInv` adds that the task in
  hand is not in `done/` and that at `file` its result is a success.
- `FailuresExplained`, if moreover nobody is killed in mid-operation (`Undisturbed`): `LogInv`.

About the rest of the service (`StatusProofs`):

- `LabelTruthful` and `StatusTruthful`, if status writes succeed, for any number
  of workers and with failing files: `StatusInv` relates the file, the cache it is written from
  and the worker's `pc`. The file equals the cache from the first write of a
  process on; before that, what a dead one left can say "released" only because no connection is held.
- `ReleaseStands`: `Spec => ReleaseKept`, without any assumption. A step of the worker from
  where it takes up no task leads there again while it reads the release as set; the tray's
  kills and starts keep the connection at none; nobody else touches it.
- `ImplementsAttempts`: `Spec => AttemptsSpec`, without any assumption.
- `LiveLocks`, with one worker: what a worker has condemned cannot come to name a
  running AEDT before it is unlinked (`UnlinkInv`), since only this worker opens projects.
- `RecoveryThorough`, with one worker and `~IoFaults`: `Spec => DeadLocksSeenTo`. `RecoveryInv`:
  what is still to be looked at is in `pending/`, where the code looks for it, for a client cannot
  take it from there; and a lock that was unlinked does not come back during the sweep. The theorem
  is about a lock that can be shown to be dead: an `unclear` one is kept, and one that turns
  unclear before its turn may stay. A second
  worker may take the task away, and the first then passes over the lock; an unlink that fails
  leaves it.

About the tray's events (`ControlEventsProofs`), which `held_event` shows to hang the tray:

- `MenuStaysWhole`, `ClicksAreAnswered`: the kill of Stop current run can hang the callback it is
  made in and no later one. `EventsInv` follows which locks may still be lost at each place of the
  tray (`LostAt`): each call that returns had its lock, and between a kill and the menu the tray
  uses all three events. So the harm of the finding is limited to the one callback.
  The two state predicates stand in the proof module and belong to no run; TLC finds them, and
  `EventsInv`, true of all 824 states of `ControlEvents`.

For every set of setups and names, every list of exports and every task file
(`ProjectSessionProofs`, `ProjectResultProofs`):

- `SessionTypeCorrect`, `ExportsHarmless`: `Sound` adds to `TypeOK` that the entry in
  hand is in the list (`AtInv`) and that past `Load` the task is valid (`ValidInv`); what
  a valid entry may contain then excludes every raise.
- `SessionImplementsAttempt`: each step maps to one of `TaskAttempt` or a stutter. What it says of
  the close is that it is attempted, on every way out, once `_open_project` has returned.
- `SourcesKept`, `ReadOnlyKept`: `FileInv` follows which sources the memory can have
  at each `pc`, and that only a save of the handler writes the file.
- `SolvedSaved`, `AllAnswered`: `SolvedInv` carries "reported solved" over the
  save to the file, if no save failed unnoticed (`unsaved`); `AnsweredInv` the entries and setups answered so far.
- `ReportsTrue`, assuming that `FileOf` keeps different names apart: `ExportsInv`, over
  the entries before the one in hand. Without the assumption it is false.

For every bound on the numbers (`HpcOptionsProofs`): `NoTemplate`, `CoresUsed`,
`OptionsTyped`.

### Only model-checked

Liveness (`PendingServed`, `ReleaseDetaches`) is beyond the prover; every other
property of a passing run is also a theorem.

## What is not modelled

- `compat.py`: patches psutil and PyAEDT once; nothing else reads its state.
- `write_local_marker` and the client's local build folder, outside the queue.
- A tray process killed from outside, whose child goes on: seen from the queue it
  is a second worker.
- The fields calculator's stack and the hints and descriptions in the text of a
  failed export, which catch their own errors.
- Log files, wording, icons, the Explorer entries of the menu.
- Several tasks in one AEDT session with their projects in full: `Worker` has the
  session and the locks, `ProjectSession` one project. Exports name the project they act
  on through their own handle, so they meet only in AEDT itself.

## Plan

Done: all components but `compat.py`, the three refinements, and the theorems above.

What could follow: clean-up after a removal that stopped half-way, which the code does
not have; the liveness properties, once a prover can do them.
