--------------------------- MODULE TaskLifecycle ---------------------------
(***************************************************************************)
(* What the queue folder promises a client about one task, whatever the    *)
(* number of clients and workers and however often they are killed: it is  *)
(* in one stage at a time and moves only along these edges. In particular  *)
(* "done" is final, a task leaves "failed" only through a client, and a    *)
(* task that was submitted does not vanish unless a client removes it.     *)
(***************************************************************************)
CONSTANT Task

VARIABLE stage  \* the stage of each task, "new" before it is in the queue

Stages == {"new", "pending", "in_progress", "done", "failed", "removed"}

Moves(t, from, to) == stage[t] = from /\ stage' = [stage EXCEPT ![t] = to]

Submit(t) == Moves(t, "new", "pending")
Take(t) == Moves(t, "pending", "in_progress")
Recover(t) == Moves(t, "in_progress", "pending")
Succeed(t) == Moves(t, "in_progress", "done")
Fail(t) == Moves(t, "in_progress", "failed")
Retry(t) == Moves(t, "failed", "pending")
Remove(t) == Moves(t, "failed", "removed")

Init == stage \in [Task -> {"new", "pending"}]

Next == \E t \in Task :
    \/ Submit(t) \/ Take(t) \/ Recover(t) \/ Succeed(t)
    \/ Fail(t) \/ Retry(t) \/ Remove(t)

Spec == Init /\ [][Next]_stage
=============================================================================
