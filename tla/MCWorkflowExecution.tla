------------------------ MODULE MCWorkflowExecution ------------------------
(* Small instances of WorkflowExecution for TLC.                            *)
EXTENDS WorkflowExecution, TLC

CONSTANTS w1, w2

MCWorkers == {w1, w2}
Symmetry == Permutations(Workers)

MCNoCompensation == {}
MCUndo12 == {1, 2}
MCUndo13 == {1, 3}

\* Attempt limits by step: every retry takes two.
MCTwoOneNoRetries == [n \in 1 .. TotalSteps |-> IF n = 1 THEN 4 ELSE IF n = 2 THEN 3 ELSE 1]
MCOneRetryThenNone == [n \in 1 .. TotalSteps |-> IF n = 1 THEN 2 ELSE 1]
=============================================================================
