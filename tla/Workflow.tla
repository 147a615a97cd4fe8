------------------------------ MODULE Workflow ------------------------------
(***************************************************************************)
(* What an AntFlow execution promises to whoever reads its state and its   *)
(* history, without tasks, leases, locks, transactions or processes.  A    *)
(* step counts as done when STEP_COMPLETED is in the history and as undone *)
(* when COMPENSATION_COMPLETED is.  Work is reported while the execution   *)
(* is open; what was reported by then may still be recorded after another  *)
(* actor has closed it, and nothing else may.                              *)
(***************************************************************************)
EXTENDS Naturals, FiniteSets

CONSTANTS WorkflowType, TotalSteps, Compensable

Steps == 1 .. TotalSteps

VARIABLES
  status,      \* the state of the execution, "NONE" before it starts
  done,        \* the steps that are completed
  undone,      \* the steps that are compensated
  undoing,     \* has compensation begun?
  rolledBack,  \* has a full rollback been announced?
  reported     \* the steps a report is being processed of

vars == <<status, done, undone, undoing, rolledBack, reported>>

Open == status \in {"RUNNING", "COMPENSATING"}

\* CHAIN and SAGA take the steps in order.
Due(n) == n \notin done /\ (WorkflowType # "INDEPENDENT" => done = 1 .. n - 1)

ToUndo == (Compensable \cap done) \ undone

Highest(n, undo) == n \in undo /\ \A m \in undo : m <= n

Init ==
  /\ status = "NONE"
  /\ done = {} /\ undone = {} /\ reported = {}
  /\ undoing = FALSE /\ rolledBack = FALSE

Start ==
  /\ status = "NONE"
  /\ status' = "RUNNING"
  /\ UNCHANGED <<done, undone, undoing, rolledBack, reported>>

Report(n) ==
  /\ n \notin reported
  /\ \/ status = "RUNNING" /\ Due(n)
     \/ status = "COMPENSATING" /\ Highest(n, ToUndo)
  /\ reported' = reported \union {n}
  /\ UNCHANGED <<status, done, undone, undoing, rolledBack>>

\* The report failed and is to be retried, or was cut off.
Drop ==
  /\ reported' \in SUBSET reported
  /\ UNCHANGED <<status, done, undone, undoing, rolledBack>>

Complete(n) ==
  /\ n \in reported
  /\ Due(n)
  /\ ~undoing
  /\ done' = done \union {n}
  /\ reported' = reported \ {n}
  /\ IF done' = Steps THEN status = "RUNNING" /\ status' = "COMPLETED"
                      ELSE UNCHANGED status
  /\ UNCHANGED <<undone, undoing, rolledBack>>

\* A step failed for good, its rollback did, or the time is up.
Close ==
  /\ Open
  /\ status' \in {"FAILED", "CANCELLED"}
  /\ reported' \in SUBSET reported
  /\ UNCHANGED <<done, undone, undoing, rolledBack>>

\* A SAGA fails for good: there is something to undo, or the rollback is done
\* at once, or it cannot be started.
BeginUndo(n) ==
  /\ WorkflowType = "SAGA"
  /\ status = "RUNNING"
  /\ n \in reported
  /\ ~undoing
  /\ undoing' = TRUE
  /\ reported' = reported \ {n}
  /\ \/ ToUndo # {} /\ status' = "COMPENSATING" /\ UNCHANGED rolledBack
     \/ status' = "FAILED" /\ rolledBack' \in {FALSE, ToUndo = {}}
  /\ UNCHANGED <<done, undone>>

Undo(n) ==
  /\ n \in reported
  /\ undoing
  /\ Highest(n, ToUndo)
  /\ undone' = undone \union {n}
  /\ reported' = reported \ {n}
  /\ IF ToUndo = {n} THEN /\ status = "COMPENSATING" /\ status' = "FAILED"
                          /\ rolledBack' = TRUE
                     ELSE UNCHANGED <<status, rolledBack>>
  /\ UNCHANGED <<done, undoing>>

Next ==
  \/ Start
  \/ Drop
  \/ Close
  \/ \E n \in Steps : Report(n) \/ Complete(n) \/ BeginUndo(n) \/ Undo(n)

Spec == Init /\ [][Next]_vars

=============================================================================
