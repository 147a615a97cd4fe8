---------------------------- MODULE StateMachine ----------------------------
(***************************************************************************)
(* The life cycle of a workflow execution                                  *)
(* (src/domain/workflow/statemechine.go).                                  *)
(***************************************************************************)

validTransitions ==
  [ CREATED      |-> {"RUNNING", "CANCELLED"},
    RUNNING      |-> {"COMPLETED", "FAILED", "CANCELLED", "COMPENSATING"},
    COMPENSATING |-> {"FAILED", "CANCELLED"},
    COMPLETED    |-> {},
    FAILED       |-> {},
    CANCELLED    |-> {} ]

States == DOMAIN validTransitions

ValidTransition(current, next) == next \in validTransitions[current]

IsTerminal(s) == validTransitions[s] = {}
=============================================================================
