---------------------------- MODULE TaskFolders -----------------------------
(***************************************************************************)
(* What is left of TaskLifecycle on a share that fails a move half-way,    *)
(* with the copy made and the source still there: a task may have a file   *)
(* in several folders, but every one of them got there along an edge of    *)
(* the life cycle, one that is in done/ stays, and each removal takes one  *)
(* file, out of failed/.                                                   *)
(***************************************************************************)
CONSTANT Task

VARIABLES
    files,      \* the tasks each stage folder holds a file of
    submitted,  \* the tasks whose file was ever written
    removed     \* the tasks a client has removed

vars == <<files, submitted, removed>>

Stage == {"pending", "in_progress", "done", "failed"}

Edges == {<<"pending", "in_progress">>, <<"in_progress", "pending">>, <<"in_progress", "done">>,
          <<"in_progress", "failed">>, <<"failed", "pending">>}

Submit(t) ==
    /\ t \notin submitted /\ \A s \in Stage : t \notin files[s]
    /\ submitted' = submitted \cup {t}
    /\ files' = [files EXCEPT !["pending"] = @ \cup {t}]
    /\ UNCHANGED removed

Move(t, from, to) ==
    /\ t \in files[from]
    /\ \/ files' = [files EXCEPT ![from] = @ \ {t}, ![to] = @ \cup {t}]
       \/ files' = [files EXCEPT ![to] = @ \cup {t}]
    /\ UNCHANGED <<submitted, removed>>

Remove(t) ==
    /\ t \in files["failed"]
    /\ files' = [files EXCEPT !["failed"] = @ \ {t}]
    /\ removed' = removed \cup {t}
    /\ UNCHANGED submitted

Init ==
    /\ submitted \in SUBSET Task
    /\ files = [s \in Stage |-> IF s = "pending" THEN submitted ELSE {}]
    /\ removed = {}

Next == \E t \in Task : Submit(t) \/ Remove(t) \/ \E e \in Edges : Move(t, e[1], e[2])

Spec == Init /\ [][Next]_vars
=============================================================================
