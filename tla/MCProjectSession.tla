-------------------------- MODULE MCProjectSession --------------------------
(***************************************************************************)
(* Tasks for the instances TLC checks: legal ones, and every way of        *)
(* spoiling one field of a legal one.                                      *)
(***************************************************************************)
EXTENDS ProjectSession

Plane == [object |-> TRUE, extra |-> FALSE, type |-> "absent", start |-> "numbers",
          stop |-> "numbers", step |-> "positive", units |-> "absent"]

Ask(name, sources) ==
    [object |-> TRUE, extra |-> FALSE, name |-> name, solution |-> "text", intrinsics |-> "object",
     sources |-> sources, expression |-> "list", grid |-> Plane]

Solving(exports) ==
    [complete |-> TRUE, version |-> "current", task_type |-> "run_setups",
     post_processing |-> "absent", parameters |-> "absent", analyze |-> "absent",
     field_exports |-> "list", entries |-> exports, objects |-> "absent", metadata |-> "object"]

NotSolving(exports) ==
    [Solving(exports) EXCEPT !.parameters = "object", !.analyze = "false"]

Plain == Ask("E", "absent")
Driven == Ask("E", "object")

Legal ==
    {[Solving(<<>>) EXCEPT !.field_exports = "absent", !.task_type = "eigenmode_analyze"],
     Solving(<<Ask("E", "empty"), Ask("H", "object")>>),
     Solving(<<Driven, Ask("H", "absent")>>), Solving(<<Driven, Ask("H", "object")>>),
     NotSolving(<<Plain>>), NotSolving(<<Driven, Ask("H", "absent")>>),
     Solving(<<Driven, Ask("H", "object"), Ask("J", "absent")>>),
     NotSolving(<<Ask("J", "absent"), Driven, Ask("H", "object")>>)}

SpoiltGrids ==
    {[object |-> FALSE], [Plane EXCEPT !.extra = TRUE]}
    \cup {[Plane EXCEPT ![f] = "other"] : f \in DOMAIN Plane \ {"object", "extra"}}
    \cup {[Plane EXCEPT !.step = "numbers"], [Plane EXCEPT !.start = "absent"]}

SpoiltEntries ==
    {[Plain EXCEPT ![f] = "other"] : f \in DOMAIN Plain \ {"object", "extra", "grid"}}
    \cup {[Plain EXCEPT ![f] = "absent"] : f \in {"name", "solution", "expression"}}
    \cup {[Plain EXCEPT !.object = FALSE], [Plain EXCEPT !.extra = TRUE]}
    \cup {[Plain EXCEPT !.grid = g] : g \in SpoiltGrids}

SpoiltFields == DOMAIN Solving(<<>>) \ {"complete", "entries"}

Spoilt ==
    {Solving(<<Ask("H", "object"), e>>) : e \in SpoiltEntries}
    \cup {Solving(<<Plain, Plain>>), Solving(<<Plain, Driven>>)}
    \cup {[Solving(<<>>) EXCEPT ![f] = "other"] : f \in SpoiltFields}
    \cup {[Solving(<<>>) EXCEPT !.parameters = "object", !.analyze = "other"],
           [Solving(<<>>) EXCEPT !.complete = FALSE]}

OneSetup(t) == [task |-> t, setups |-> {"Setup1"}]

SomeOrders ==
    {OneSetup(t) : t \in Legal \cup Spoilt}
    \cup {[task |-> Solving(<<Driven>>), setups |-> Setup], [task |-> NotSolving(<<>>), setups |-> Setup],
           [task |-> Solving(<<Plain>>), setups |-> {}]}

OwnFiles == [n \in Name |-> n]
=============================================================================
