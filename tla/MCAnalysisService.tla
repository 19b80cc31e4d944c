-------------------------- MODULE MCAnalysisService --------------------------
(***************************************************************************)
(* Values of Kind for the instances TLC checks: what is in tasks 1 and 2.  *)
(***************************************************************************)
EXTENDS AnalysisService

FirstFlaky == [t \in Task |-> IF t = 1 THEN "flaky" ELSE "good"]
LastFlaky == [t \in Task |-> IF t = 1 THEN "good" ELSE "flaky"]
LastArray == [t \in Task |-> IF t = 1 THEN "good" ELSE "array"]
AllFlaky == [t \in Task |-> "flaky"]
EveryFailure ==
    [t \in Task |-> CASE t = 1 -> "flaky" [] t = 2 -> "invalid" [] OTHER -> "unknown"]
=============================================================================
