------------------------------ MODULE TaskFile ------------------------------
(***************************************************************************)
(* What may be written into a task file, what queue_common.validate_task   *)
(* lets through, and what the worker does with each field afterwards       *)
(* (handlers/run_setups.py, field_exports.py).                             *)
(*                                                                         *)
(* A field is "absent", one of the forms the code tells apart, or "other": *)
(* null, another JSON type, or a container with something unfit in it.     *)
(***************************************************************************)
EXTENDS Integers, Sequences

CONSTANT Name  \* legal names of field exports

ASSUME NameAssumption == Name \cap {"absent", "other"} = {}

Optional(forms) == {"absent", "other"} \cup forms

Grid == [object : BOOLEAN, extra : BOOLEAN, type : Optional({"Cartesian"}),
         start : Optional({"numbers"}), stop : Optional({"numbers"}),
         step : Optional({"numbers", "positive"}), units : Optional({"letters"})]

(* An entry of field_exports. "other" names are illegal ones too.          *)
Entry == [object : BOOLEAN, extra : BOOLEAN, name : Optional(Name),
          solution : Optional({"text"}), intrinsics : Optional({"object"}),
          sources : Optional({"empty", "object"}), expression : Optional({"list"}),
          grid : Grid \cup {[object |-> FALSE]}]

(* Without a list there are no entries.                                    *)
TaskShape ==
    {task \in [complete : BOOLEAN, version : Optional({"current"}),
                task_type : {"run_setups", "eigenmode_analyze", "other"},
                post_processing : Optional({"list"}), parameters : Optional({"object"}),
                analyze : Optional({"true", "false"}), field_exports : Optional({"list"}),
                entries : Seq(Entry), objects : Optional({"object"}), metadata : Optional({"object"})] :
        task.field_exports = "list" \/ task.entries = <<>>}

OneOf(field, forms) == field \in {"absent"} \cup forms

-----------------------------------------------------------------------------
(* Validation                                                              *)

(* Fault: the grid need only be an object.                                 *)
ValidGridUnlooked(grid) == grid.object

(* _validate_field_export_grid                                             *)
ValidGrid(grid) ==
    /\ grid.object
    /\ ~grid.extra
    /\ OneOf(grid.type, {"Cartesian"})
    /\ grid.start = "numbers" /\ grid.stop = "numbers" /\ grid.step = "positive"
    /\ OneOf(grid.units, {"letters"})

(* _validate_field_export, but for the names seen before.                  *)
ValidEntry(entry) ==
    /\ entry.object
    /\ ~entry.extra
    /\ entry.name \in Name
    /\ entry.solution = "text" /\ entry.expression = "list"
    /\ OneOf(entry.intrinsics, {"object"}) /\ OneOf(entry.sources, {"empty", "object"})
    /\ ValidGrid(entry.grid)

(* Fault: names are not compared.                                          *)
AnyNames(entries) == TRUE

(* seen_names: each export writes a file of its own.                       *)
DistinctNames(entries) ==
    \A i, j \in DOMAIN entries : entries[i].name = entries[j].name => i = j

(* Fault: any value will do for parameters.analyze.                        *)
AnyAnalyze(task) == TRUE

(* A text such as "false" is truthy and would solve for hours.             *)
ValidAnalyze(task) == OneOf(task.analyze, {"true", "false"})

(* validate_task: every required field, this schema version, the right     *)
(* containers, valid entries and a real boolean for "analyze".             *)
ValidTask(task) ==
    /\ task.complete /\ task.version = "current"
    /\ OneOf(task.post_processing, {"list"})
    /\ OneOf(task.field_exports, {"list"})
    /\ \A i \in DOMAIN task.entries : ValidEntry(task.entries[i])
    /\ DistinctNames(task.entries)
    /\ OneOf(task.parameters, {"object"})
    /\ OneOf(task.objects, {"object"}) /\ OneOf(task.metadata, {"object"})
    /\ ValidAnalyze(task)

-----------------------------------------------------------------------------
(* The fields as the worker reads them. "Misreads": the reading may raise. *)

(* get_handler: run_setups and its legacy alias.                           *)
Handled(task) == task.task_type \in {"run_setups", "eigenmode_analyze"}

(* Only a real false turns the solve off.                                  *)
AnalyzeRequested(task) == task.analyze # "false"

(* task.get("parameters") or {} is then asked for a key.                   *)
MisreadsParameters(task) == task.parameters = "other"

NamesSources(entry) == entry.sources \notin {"absent", "empty"}

(* worker._is_read_only: a handler's read_only that raises counts as False.*)
ReadOnly(task) == ~MisreadsParameters(task) /\ ~AnalyzeRequested(task)

(* field_exports.edits_sources, outside every try block but the task's.    *)
EditsSources(task) ==
    task.field_exports = "list" /\ \E i \in DOMAIN task.entries : NamesSources(task.entries[i])

MisreadsSources(task) ==
    \/ task.field_exports = "other"
    \/ task.field_exports = "list" /\ \E i \in DOMAIN task.entries :
          ~task.entries[i].object /\ \A j \in 1..(i - 1) : ~NamesSources(task.entries[j])

(* What run reads of an entry before its try block, or stores it under ... *)
MisreadsEntry(entry) == ~entry.object \/ entry.name \notin Name \/ entry.solution = "absent"

(* ... and _export_on_grid_args in the except block that records a failure.*)
MisreadsGrid(entry) ==
    \/ ~entry.grid.object
    \/ "other" \in {entry.intrinsics, entry.grid.start, entry.grid.stop, entry.grid.step}
    \/ "absent" \in {entry.grid.start, entry.grid.stop, entry.grid.step}
=============================================================================
