----------------------- MODULE WorkflowExecution_proof -----------------------
(***************************************************************************)
(* Proofs about WorkflowExecution, for every workflow definition and every *)
(* number of workers.                                                      *)
(***************************************************************************)
EXTENDS WorkflowExecution, FiniteSetTheorems, TLAPS

-----------------------------------------------------------------------------
(* The operators the specification is built from.                           *)

\* The six states, and which of them ValidTransition leaves no way out of.
LEMMA StateFacts ==
  /\ States = {"CREATED", "RUNNING", "COMPENSATING", "COMPLETED", "FAILED", "CANCELLED"}
  /\ \A s \in States : IsTerminal(s) <=> s \in {"COMPLETED", "FAILED", "CANCELLED"}
  /\ \A t \in {"COMPLETED", "FAILED", "CANCELLED", "COMPENSATING"} : ValidTransition("RUNNING", t)
  /\ \A t \in {"FAILED", "CANCELLED"} : ValidTransition("COMPENSATING", t)
BY DEF States, IsTerminal, ValidTransition, validTransitions

\* A slot is a table and a step.
LEMMA SlotFacts ==
  /\ \A s \in Slots : s[1] \in Kinds /\ s[2] \in Steps /\ s = <<s[1], s[2]>>
  /\ \A k \in Kinds, n \in Steps : <<k, n>> \in Slots /\ <<k, n>>[1] = k /\ <<k, n>>[2] = n
BY DEF Slots

\* The steps are numbered from 1, and each has an attempt limit.
LEMMA StepFacts ==
  /\ \A n \in Steps : n \in Nat /\ n \in Int /\ n >= 1 /\ n <= TotalSteps
  /\ 1 \in Steps
BY TotalStepsAssumption DEF Steps

\* The null task is no task.
LEMMA NoRefFacts == NoRef \notin Ref
<1>1. NoRef.slot[1] = "none"
  BY DEF NoRef
<1>2. \A ref \in Ref : ref.slot \in Slots
  BY DEF Ref
<1>3. \A s \in Slots : s[1] # "none"
  BY SlotFacts DEF Kinds
<1> QED
  BY <1>1, <1>2, <1>3

\* The row operations yield rows.
LEMMA RowFacts ==
  ASSUME NEW r \in Row
  PROVE  /\ NoRow \in Row
         /\ Deleted(r) \in Row
         /\ Claimed(r) \in Row
         /\ RenewLock(r) \in Row
         /\ \A err \in BOOLEAN : UpdateCompleted(r, err) \in Row
         /\ \A a, m \in Nat : Created(r, a, m) \in Row
         /\ Lapsed(r) \in Row
         /\ Cancelled(r) \in Row
<1> USE DEF Row, Live
<1>1. NoRow \in Row
  BY DEF NoRow
<1>2. Deleted(r) \in Row
  BY DEF NoRow, Deleted
<1>3. Claimed(r) \in Row
  <2>1. Bump(r) \in Nat
    BY DEF Bump
  <2> QED
    BY <2>1 DEF Claimed
<1>4. RenewLock(r) \in Row
  BY DEF RenewLock
<1>5. \A err \in BOOLEAN : UpdateCompleted(r, err) \in Row
  BY DEF UpdateCompleted
<1>6. \A a, m \in Nat : Created(r, a, m) \in Row
  BY DEF Created
<1>7. Lapsed(r) \in Row
  BY DEF Lapsed
<1>8. Cancelled(r) \in Row
  BY DEF Cancelled
<1> QED
  BY <1>1, <1>2, <1>3, <1>4, <1>5, <1>6, <1>7, <1>8

\* The operations on the execution row yield execution rows.
LEMMA ExecFacts ==
  ASSUME NEW e \in Exec
  PROVE  /\ \A t \in States : UpdateState(e, t) \in Exec
         /\ \A n \in Nat : UpdateStepCursor(e, n) \in Exec /\ SetCompensationTotal(e, n) \in Exec
         /\ SaveResult(e) \in Exec
         /\ \A why \in Errors : SaveError(e, why) \in Exec
         /\ IncrementCompletedSteps(e) \in Exec
         /\ IncrementCompensationDone(e) \in Exec
<1> USE DEF Exec
<1>1. \A t \in States : UpdateState(e, t) \in Exec
  BY DEF UpdateState
<1>2. \A n \in Nat : UpdateStepCursor(e, n) \in Exec /\ SetCompensationTotal(e, n) \in Exec
  BY DEF UpdateStepCursor, SetCompensationTotal
<1>3. SaveResult(e) \in Exec
  BY DEF SaveResult
<1>4. \A why \in Errors : SaveError(e, why) \in Exec
  BY DEF SaveError
<1>5. IncrementCompletedSteps(e) \in Exec
  BY DEF IncrementCompletedSteps
<1>6. IncrementCompensationDone(e) \in Exec
  BY DEF IncrementCompensationDone
<1> QED
  BY <1>1, <1>2, <1>3, <1>4, <1>5, <1>6

\* The events the handlers record are events.
LEMMA EventFacts ==
  /\ \A n \in Steps :
       /\ On("STEP_SCHEDULED", n) \in Event
       /\ On("STEP_COMPLETED", n) \in Event
       /\ On("STEP_FAILED", n) \in Event
       /\ On("STEP_RETRYING", n) \in Event
       /\ On("COMPENSATION_COMPLETED", n) \in Event
       /\ On("COMPENSATION_FAILED", n) \in Event
  /\ Whole("WORKFLOW_STARTED") \in Event
  /\ Whole("WORKFLOW_COMPLETED") \in Event
  /\ Whole("WORKFLOW_FAILED") \in Event
  /\ Whole("WORKFLOW_CANCELLED") \in Event
  /\ Whole("WORKFLOW_TIMED_OUT") \in Event
  /\ Whole("COMPENSATION_STARTED") \in Event
  /\ Whole("SAGA_ROLLED_BACK") \in Event
  /\ Whole("SAGA_ROLLBACK_FAILED") \in Event
<1>1. \A t \in StepEvents, n \in Steps : On(t, n) \in Event
  BY DEF On, Event
<1>2. \A t \in WorkflowEvents : Whole(t) \in Event
  BY DEF On, Whole, Event
<1> QED
  BY <1>1, <1>2 DEF StepEvents, WorkflowEvents

\* Recording events leaves a history.
LEMMA HistoryFacts ==
  ASSUME NEW h \in Seq(Event)
  PROVE  /\ \A a \in Event : Append(h, a) \in Seq(Event)
         /\ \A a, b \in Event : h \o <<a, b>> \in Seq(Event)
         /\ \A a, b, c \in Event : h \o <<a, b, c>> \in Seq(Event)
         /\ \A a, b, c, d \in Event : h \o <<a, b, c, d>> \in Seq(Event)
  OBVIOUS

\* The number of steps to undo is a number.
LEMMA ToUndoFacts ==
  ASSUME NEW n \in Int
  PROVE  /\ ToUndo(n) \subseteq Steps
         /\ Cardinality(ToUndo(n)) \in Nat
<1>1. IsFiniteSet(Steps)
  BY FS_Interval, TotalStepsAssumption DEF Steps
<1>2. ToUndo(n) \subseteq Steps
  BY CompensableAssumption DEF ToUndo
<1> QED
  BY <1>1, <1>2, FS_Subset, FS_CardinalityType

-----------------------------------------------------------------------------
(* The inductive invariant.  What the locks guarantee, which rows can exist *)
(* in which state, and that work remains to be done each need the others:   *)
(* a completion finds the row it locked because no other completion holds   *)
(* it, and acts on the state it read because the rows tell what state the   *)
(* execution can be in.                                                     *)

IInv ==
  /\ TypeOK
  /\ LockDiscipline
  /\ RowsFitState
  /\ WorkToDo
  /\ CompletedStepsCounted
  /\ exec.state = "NONE" => history = <<>>

\* A completion in flight is about a row that exists, the one its worker holds.
LEMMA InFlightFacts ==
  ASSUME TypeOK, LockDiscipline, NEW w \in Workers, InFlight(w)
  PROVE  /\ holds[w] \in Ref
         /\ holds[w].slot \in Slots
         /\ Step(w) \in Steps
         /\ holds[w].slot = <<holds[w].slot[1], Step(w)>>
         /\ Own(w) \in Row
         /\ Own(w).state # "NONE"
         /\ Own(w).gen = holds[w].gen
         /\ exec.state # "NONE"
<1>1. holds[w] \in Ref
  BY DEF LockDiscipline, Exists, TypeOK
<1>2. holds[w].slot \in Slots
  BY <1>1 DEF Ref
<1> QED
  BY <1>1, <1>2, SlotFacts DEF LockDiscipline, Exists, TypeOK, Own, Step

\* The helpers about calls and sweeps yield what they are about.
LEMMA SweepFacts ==
  ASSUME TypeOK
  PROVE  /\ IdleCall \in Call
         /\ LiveRefs \subseteq Ref
         /\ \A s \in Slots : RefOf(s) \in Ref
         /\ \A taken : CancelByExecution(taken) \in [Slots -> Row]
         /\ \A c \in Call : TakesRow(c) \subseteq Call
         /\ \A S : \A sweep \in [stage : S, waits : SUBSET Ref, taken : SUBSET Ref] :
              TakesRow(sweep) \subseteq [stage : S, waits : SUBSET Ref, taken : SUBSET Ref]
<1>1. IdleCall \in Call
  BY DEF IdleCall, Call
<1>2. \A s \in Slots : RefOf(s) \in Ref
  BY DEF RefOf, Ref, TypeOK, Row
<1>3. LiveRefs \subseteq Ref
  BY <1>2 DEF LiveRefs
<1>4. \A taken : CancelByExecution(taken) \in [Slots -> Row]
  BY RowFacts DEF CancelByExecution, TypeOK
<1>5. \A c \in Call : TakesRow(c) \subseteq Call
  <2> SUFFICES ASSUME NEW c \in Call, NEW t \in TakesRow(c) PROVE t \in Call
    OBVIOUS
  <2>1. PICK ref \in c.waits : t = [c EXCEPT !.waits = @ \ {ref}, !.taken = @ \union {ref}]
    BY DEF TakesRow
  <2>2. ref \in Ref
    BY DEF Call
  <2>3. c.waits \ {ref} \in SUBSET Ref /\ c.taken \union {ref} \in SUBSET Ref
    BY <2>2 DEF Call
  <2> QED
    BY <2>1, <2>3 DEF Call
<1>6. \A S : \A sweep \in [stage : S, waits : SUBSET Ref, taken : SUBSET Ref] :
        TakesRow(sweep) \subseteq [stage : S, waits : SUBSET Ref, taken : SUBSET Ref]
  <2> SUFFICES ASSUME NEW S,
                      NEW c \in [stage : S, waits : SUBSET Ref, taken : SUBSET Ref],
                      NEW t \in TakesRow(c)
               PROVE  t \in [stage : S, waits : SUBSET Ref, taken : SUBSET Ref]
    OBVIOUS
  <2>1. PICK ref \in c.waits : t = [c EXCEPT !.waits = @ \ {ref}, !.taken = @ \union {ref}]
    BY DEF TakesRow
  <2>2. ref \in Ref
    OBVIOUS
  <2>3. c.waits \ {ref} \in SUBSET Ref /\ c.taken \union {ref} \in SUBSET Ref
    BY <2>2
  <2> QED
    BY <2>1, <2>3
<1> QED
  BY <1>1, <1>2, <1>3, <1>4, <1>5, <1>6

\* A call that answers leaves the calls and the tasks handed out typed.
LEMMA AnsweredFacts ==
  ASSUME TypeOK, NEW w \in Workers, Answered(w)
  PROVE  /\ call' \in [Workers -> Call]
         /\ holds' \in [Workers -> Ref \union {NoRef}]
BY SweepFacts DEF Answered, TypeOK

\* The initial state is typed.
LEMMA InitType == Init => TypeOK
<1> SUFFICES ASSUME Init PROVE TypeOK
  OBVIOUS
<1>1. exec \in Exec
  BY DEF Init, NoExec, Exec, Errors
<1>2. rows \in [Slots -> Row]
  BY DEF Init, NoRow, Row
<1>3. history \in Seq(Event)
  BY DEF Init
<1>4. call \in [Workers -> Call]
  BY DEF Init, IdleCall, Call
<1>5. checkpoint \subseteq Steps /\ notJson \subseteq Steps /\ holds \in [Workers -> Ref \union {NoRef}]
  BY DEF Init
<1> QED
  BY <1>1, <1>2, <1>3, <1>4, <1>5 DEF Init, Idle, TypeOK

\* Every step of the system keeps the state typed.
LEMMA TypeStep ==
  ASSUME TypeOK, LockDiscipline, [Next]_vars
  PROVE  TypeOK'
<1>1. CASE UNCHANGED vars
  BY <1>1 DEF vars, TypeOK
<1>2. CASE StartWorkflow
  <2>1. exec' \in Exec
    <3>1. \A d \in BOOLEAN : [NoExec EXCEPT !.state = "CREATED", !.deadline = d] \in Exec
      BY StateFacts DEF NoExec, Exec, Errors
    <3> QED
      BY <1>2, <3>1, ExecFacts, StateFacts DEF StartWorkflow
  <2>2. rows' \in [Slots -> Row]
    <3>1. \A s \in Slots : MaxAttempts[s[2]] \in Nat
      BY MaxAttemptsAssumption, SlotFacts
    <3>2. \A s \in Slots : Created(rows[s], 0, MaxAttempts[s[2]]) \in Row
      BY <3>1, RowFacts DEF TypeOK
    <3> QED
      BY <1>2, <3>2 DEF StartWorkflow, TypeOK
  <2>3. history' \in Seq(Event)
    BY <1>2, EventFacts, HistoryFacts DEF StartWorkflow, TypeOK
  <2> QED
    BY <1>2, <2>1, <2>2, <2>3 DEF StartWorkflow, TypeOK
<1>3. ASSUME NEW s \in Slots, PollLost(s) \/ LeaseLapses(s)
      PROVE  TypeOK'
  <2>1. rows' \in [Slots -> Row]
    BY <1>3, RowFacts DEF PollLost, Claim, LeaseLapses, TypeOK
  <2> QED
    BY <1>3, <2>1 DEF PollLost, Claim, LeaseLapses, TypeOK
<1>4. ASSUME NEW w \in Workers, NEW s \in Slots, Poll(w, s)
      PROVE  TypeOK'
  <2>1. rows' \in [Slots -> Row]
    BY <1>4, RowFacts DEF Poll, Claim, TypeOK
  <2> QED
    BY <1>4, <2>1, SweepFacts DEF Poll, Claim, TypeOK
<1>5. ASSUME NEW w \in Workers,
             Heartbeat(w) \/ HeartbeatRejected(w) \/ WorkerForgets(w) \/ CompleteUnknown(w)
               \/ CompleteIgnored(w)
      PROVE  TypeOK'
  <2>1. rows' \in [Slots -> Row]
    BY <1>5, RowFacts DEF Heartbeat, HeartbeatRejected, WorkerForgets, CompleteUnknown,
                CompleteIgnored, TypeOK
  <2> QED
    BY <1>5, <2>1 DEF Heartbeat, HeartbeatRejected, WorkerForgets, CompleteUnknown,
                CompleteIgnored, TypeOK
<1>6. ASSUME NEW w \in Workers,
             CompleteBegin(w) \/ CallAborts(w) \/ FailTask(w) \/ FailTaskTakesRow(w)
      PROVE  TypeOK'
  <2>1. call' \in [Workers -> Call]
    <3>1. CASE CompleteBegin(w)
      <4>1. \A err \in BOOLEAN :
              [IdleCall EXCEPT !.stage = "open", !.err = err, !.seen = exec.state] \in Call
        BY DEF IdleCall, Call, TypeOK, Exec
      <4> QED
        BY <3>1, <4>1 DEF CompleteBegin, TypeOK
    <3>2. CASE CallAborts(w)
      BY <3>2, SweepFacts DEF CallAborts, TypeOK
    <3>3. CASE FailTask(w)
      <4>1. LiveRefs \ {holds[w]} \in SUBSET Ref
        BY SweepFacts
      <4>2. [call[w] EXCEPT !.stage = "sweep", !.waits = LiveRefs \ {holds[w]}] \in Call
        <5>1. \A c \in Call : \A waits \in SUBSET Ref :
                [c EXCEPT !.stage = "sweep", !.waits = waits] \in Call
          BY DEF Call
        <5>2. call[w] \in Call
          BY DEF TypeOK
        <5> QED
          BY <4>1, <5>1, <5>2
      <4>3. call' = [call EXCEPT ![w] = [call[w] EXCEPT !.stage = "sweep",
                                                  !.waits = LiveRefs \ {holds[w]}]]
        BY <3>3 DEF FailTask
      <4> QED
        BY <4>2, <4>3 DEF TypeOK
    <3>4. CASE FailTaskTakesRow(w)
      BY <3>4, SweepFacts DEF FailTaskTakesRow, TypeOK
    <3> QED
      BY <1>6, <3>1, <3>2, <3>3, <3>4
  <2> QED
    BY <1>6, <2>1 DEF CompleteBegin, CallAborts, FailTask, FailTaskTakesRow, TypeOK
<1>7. ASSUME NEW w \in Workers, RetryTask(w) \/ RetryCompensation(w)
      PROVE  TypeOK'
  <2>1. InFlight(w) /\ Answered(w)
    BY <1>7 DEF RetryTask, RetryCompensation, Failing, InFlight
  <2>2. rows' \in [Slots -> Row]
    <3>1. Created(Deleted(Own(w)), Own(w).attempt + 1, Own(w).max) \in Row
      <4>1. Own(w) \in Row /\ Own(w).attempt + 1 \in Nat /\ Own(w).max \in Nat
        BY <2>1, InFlightFacts DEF Row
      <4> QED
        BY <4>1, RowFacts
    <3> QED
      BY <1>7, <3>1 DEF RetryTask, RetryCompensation, Recreate, TypeOK
  <2>3. history' \in Seq(Event)
    BY <1>7, <2>1, InFlightFacts, EventFacts, HistoryFacts
       DEF RetryTask, RetryCompensation, TypeOK
  <2> QED
    BY <1>7, <2>1, <2>2, <2>3, AnsweredFacts DEF RetryTask, RetryCompensation, TypeOK
<1>8. ASSUME NEW w \in Workers,
             FailTaskCommit(w) \/ StartCompensationFails(w) \/ NothingToCompensate(w)
               \/ StepDone(w) \/ LastStepDone(w) \/ FinishWorkflow(w)
               \/ FailCompensation(w) \/ FinishCompensation(w)
      PROVE  TypeOK'
  <2>1. InFlight(w) /\ Answered(w)
    BY <1>8 DEF FailTaskCommit, StartCompensationFails, NothingToCompensate, StepDone,
                LastStepDone, FinishWorkflow, FailCompensation, FinishCompensation,
                SagaFailing, FailingForGood, Failing, Succeeding, InFlight
  <2>2. rows' \in [Slots -> Row]
    <3>1. \A s : \A f \in [Slots -> Row] : [f EXCEPT ![s] = Deleted(@)] \in [Slots -> Row]
      BY RowFacts
    <3>2. CASE FailTaskCommit(w)
      BY <3>1, <3>2, SweepFacts DEF FailTaskCommit
    <3>3. CASE ~FailTaskCommit(w)
      <4>1. rows' = WithoutOwn(w)
        BY <1>8, <3>3
           DEF StartCompensationFails, NothingToCompensate, StepDone, LastStepDone,
               FinishWorkflow, FailCompensation, FinishCompensation
      <4> QED
        BY <3>1, <4>1 DEF WithoutOwn, TypeOK
    <3> QED
      BY <3>2, <3>3
  <2>3. exec' \in Exec
    BY <1>8, ExecFacts, StateFacts
       DEF FailTaskCommit, StartCompensationFails, NothingToCompensate, StepDone,
           LastStepDone, FinishWorkflow, FailCompensation, FinishCompensation, TypeOK,
           Errors
  <2>4. history' \in Seq(Event)
    <3>1. Step(w) \in Steps
      BY <2>1, InFlightFacts
    <3>2. CASE StartCompensationFails(w)
      BY <3>1, <3>2, EventFacts, HistoryFacts DEF StartCompensationFails, TypeOK
    <3>3. CASE FailTaskCommit(w)
      BY <3>1, <3>3, EventFacts, HistoryFacts DEF FailTaskCommit, TypeOK
    <3>4. CASE NothingToCompensate(w)
      BY <3>1, <3>4, EventFacts, HistoryFacts DEF NothingToCompensate, TypeOK
    <3>5. CASE StepDone(w)
      BY <3>1, <3>5, EventFacts, HistoryFacts DEF StepDone, TypeOK
    <3>6. CASE LastStepDone(w)
      BY <3>1, <3>6, EventFacts, HistoryFacts DEF LastStepDone, TypeOK
    <3>7. CASE FinishWorkflow(w)
      BY <3>1, <3>7, EventFacts, HistoryFacts DEF FinishWorkflow, TypeOK
    <3>8. CASE FailCompensation(w)
      BY <3>1, <3>8, EventFacts, HistoryFacts DEF FailCompensation, TypeOK
    <3>9. CASE FinishCompensation(w)
      BY <3>1, <3>9, EventFacts, HistoryFacts DEF FinishCompensation, TypeOK
    <3> QED
      BY <1>8, <3>2, <3>3, <3>4, <3>5, <3>6, <3>7, <3>8, <3>9
  <2>5. checkpoint' \subseteq Steps /\ notJson' \subseteq Steps
    <3>1. Step(w) \in Steps
      BY <2>1, InFlightFacts
    <3> QED
      BY <1>8, <3>1 DEF FailTaskCommit, StartCompensationFails, NothingToCompensate, StepDone,
           LastStepDone, FinishWorkflow, FailCompensation, FinishCompensation, TypeOK
  <2> QED
    BY <1>8, <2>1, <2>2, <2>3, <2>4, <2>5, AnsweredFacts
       DEF FailTaskCommit, StartCompensationFails, NothingToCompensate, StepDone,
           LastStepDone, FinishWorkflow, FailCompensation, FinishCompensation, TypeOK
<1>9. ASSUME NEW w \in Workers,
             StartCompensation(w) \/ NextCompensation(w) \/ AdvanceStep(w)
      PROVE  TypeOK'
  <2>1. InFlight(w) /\ Answered(w)
    BY <1>9 DEF StartCompensation, NextCompensation, AdvanceStep,
                SagaFailing, FailingForGood, Failing, Succeeding, InFlight
  <2>2. rows' \in [Slots -> Row]
    <3>1. \A n \in Steps : MaxAttempts[n] \in Nat
      BY MaxAttemptsAssumption
    <3>2. WithoutOwn(w) \in [Slots -> Row]
      BY RowFacts DEF WithoutOwn, TypeOK
    <3>3. \A f \in [Slots -> Row] : \A s : \A n \in Steps :
            [f EXCEPT ![s] = Created(@, 0, MaxAttempts[n])] \in [Slots -> Row]
      BY <3>1, RowFacts
    <3> QED
      <4>1. CASE StartCompensation(w)
        <5>1. PICK n \in Steps :
                rows' = [WithoutOwn(w) EXCEPT ![Comp(n)] = Created(@, 0, MaxAttempts[n])]
          BY <4>1 DEF StartCompensation
        <5> QED
          BY <3>2, <3>3, <5>1
      <4>2. CASE NextCompensation(w)
        <5>1. PICK n \in Steps :
                rows' = [WithoutOwn(w) EXCEPT ![Comp(n)] = Created(@, 0, MaxAttempts[n])]
          BY <4>2 DEF NextCompensation
        <5> QED
          BY <3>2, <3>3, <5>1
      <4>3. CASE AdvanceStep(w)
        BY <3>2, <3>3, <4>3 DEF AdvanceStep
      <4> QED
        BY <1>9, <4>1, <4>2, <4>3
  <2>3. exec' \in Exec
    <3>1. Cardinality(ToUndo(Step(w) - 1)) \in Nat
      <4>1. Step(w) - 1 \in Int
        BY <2>1, InFlightFacts, StepFacts
      <4> QED
        BY <4>1, ToUndoFacts
    <3>2. CASE StartCompensation(w)
      BY <3>1, <3>2, ExecFacts, StateFacts DEF StartCompensation, TypeOK
    <3>3. CASE NextCompensation(w)
      BY <3>3, ExecFacts DEF NextCompensation, TypeOK
    <3>4. CASE AdvanceStep(w)
      BY <3>4, ExecFacts, StepFacts DEF AdvanceStep, TypeOK
    <3> QED
      BY <1>9, <3>2, <3>3, <3>4
  <2>4. history' \in Seq(Event)
    <3>1. Step(w) \in Steps
      BY <2>1, InFlightFacts
    <3>2. CASE StartCompensation(w)
      BY <3>1, <3>2, EventFacts, HistoryFacts DEF StartCompensation, TypeOK
    <3>3. CASE NextCompensation(w)
      BY <3>1, <3>3, EventFacts, HistoryFacts DEF NextCompensation, TypeOK
    <3>4. CASE AdvanceStep(w)
      BY <3>1, <3>4, EventFacts, HistoryFacts DEF AdvanceStep, TypeOK
    <3> QED
      BY <1>9, <3>2, <3>3, <3>4
  <2> QED
    BY <1>9, <2>1, <2>2, <2>3, <2>4, AnsweredFacts
       DEF StartCompensation, NextCompensation, AdvanceStep, TypeOK
<1>10. ASSUME NEW w \in Workers, SaveCheckpoint(w)
       PROVE  TypeOK'
  <2>1. Step(w) \in Steps
    BY <1>10, InFlightFacts DEF SaveCheckpoint, Succeeding, InFlight
  <2>2. call' \in [Workers -> Call]
    <3>1. [call[w] EXCEPT !.stage = "saved"] \in Call
      BY DEF Call, TypeOK
    <3>2. call' = [call EXCEPT ![w] = [call[w] EXCEPT !.stage = "saved"]]
      BY <1>10 DEF SaveCheckpoint
    <3> QED
      BY <3>1, <3>2 DEF TypeOK
  <2> QED
    BY <1>10, <2>1, <2>2 DEF SaveCheckpoint, TypeOK
<1>11. CASE CancelWorkflow
  <2>1. CASE CancelBegin
    BY <2>1, SweepFacts DEF CancelBegin, TypeOK
  <2>2. CASE CancelTakesRow
    BY <2>2, SweepFacts DEF CancelTakesRow, TypeOK
  <2>3. CASE CancelCommit
    <3>1. history' \in Seq(Event)
      BY <2>3, EventFacts, HistoryFacts DEF CancelCommit, TypeOK
    <3>2. exec' \in Exec
      BY <2>3, ExecFacts, StateFacts DEF CancelCommit, TypeOK
    <3> QED
      BY <2>3, <3>1, <3>2, SweepFacts DEF CancelCommit, Idle, TypeOK
  <2>4. CASE CancelAborts
    BY <2>4 DEF CancelAborts, Idle, TypeOK
  <2> QED
    BY <1>11, <2>1, <2>2, <2>3, <2>4 DEF CancelWorkflow
<1>12. CASE ExpireOverdueWorkflows
  <2>1. CASE ExpireOverdue
    <3>1. \A e \in Exec : [e EXCEPT !.state = "FAILED"] \in Exec
      BY StateFacts DEF Exec
    <3>2. exec' \in Exec
      BY <2>1, <3>1, ExecFacts DEF ExpireOverdue, TypeOK, Errors
    <3>3. [expire EXCEPT !.stage = "marked"]
            \in [stage : {"idle", "marked", "sweep", "swept", "timedOut"},
                 waits : SUBSET Ref, taken : SUBSET Ref]
      BY DEF TypeOK
    <3> QED
      BY <2>1, <3>2, <3>3 DEF ExpireOverdue, TypeOK
  <2>2. CASE ExpireSweep
    BY <2>2, SweepFacts DEF ExpireSweep, TypeOK
  <2>3. CASE ExpireTakesRow
    BY <2>3, SweepFacts DEF ExpireTakesRow, TypeOK
  <2>4. CASE ExpireSwept
    BY <2>4, SweepFacts DEF ExpireSwept, Idle, TypeOK
  <2>5. CASE ExpireTimedOut
    <3>1. history' \in Seq(Event)
      BY <2>5, EventFacts, HistoryFacts DEF ExpireTimedOut, TypeOK
    <3>2. [expire EXCEPT !.stage = "timedOut"]
            \in [stage : {"idle", "marked", "sweep", "swept", "timedOut"},
                 waits : SUBSET Ref, taken : SUBSET Ref]
      BY DEF TypeOK
    <3> QED
      BY <2>5, <3>1, <3>2 DEF ExpireTimedOut, TypeOK
  <2>6. CASE ExpireFailed
    <3>1. history' \in Seq(Event)
      BY <2>6, EventFacts, HistoryFacts DEF ExpireFailed, TypeOK
    <3> QED
      BY <2>6, <3>1 DEF ExpireFailed, Idle, TypeOK
  <2>7. CASE ExpireStatementFails
    <3>1. expire.stage \in {"marked", "sweep", "swept", "timedOut"}
      BY <2>7 DEF ExpireStatementFails, TypeOK
    <3> QED
      BY <2>7, <3>1 DEF ExpireStatementFails, Idle, TypeOK
  <2> QED
    BY <1>12, <2>1, <2>2, <2>3, <2>4, <2>5, <2>6, <2>7 DEF ExpireOverdueWorkflows
<1>13. CASE ServerCrash
  BY <1>13, SweepFacts DEF ServerCrash, Idle, TypeOK
<1>14. CASE RecoverWorkflows
  <2>1. rows' \in [Slots -> Row]
    BY <1>14, RowFacts, SlotFacts DEF RecoverWorkflows, TypeOK, RecoveredMaxAttempts, Task, Kinds
  <2> QED
    BY <1>14, <2>1 DEF RecoverWorkflows, TypeOK
<1> QED
  BY <1>1, <1>2, <1>3, <1>4, <1>5, <1>6, <1>7, <1>8, <1>9, <1>10, <1>11, <1>12, <1>13, <1>14
     DEF Next, WorkerStep, CompleteTask, CompleteCompensationTask

-----------------------------------------------------------------------------
(* LockDiscipline is preserved.                                             *)

\* Two completions in flight hold different rows.
LEMMA DistinctSlots ==
  ASSUME TypeOK, LockDiscipline, NEW v \in Workers, NEW w \in Workers, v # w,
         InFlight(v), InFlight(w)
  PROVE  holds[v].slot # holds[w].slot
<1>1. /\ holds[v] \in Ref /\ rows[holds[v].slot].gen = holds[v].gen
      /\ holds[w] \in Ref /\ rows[holds[w].slot].gen = holds[w].gen
  BY InFlightFacts DEF Own
<1>2. holds[v] # holds[w]
  BY DEF LockDiscipline
<1> QED
  BY <1>1, <1>2 DEF Ref

\* No completion begins or starts to sweep.
NoNewCall ==
  \A v \in Workers : InFlight(v)' =>
    /\ InFlight(v)
    /\ holds'[v] = holds[v]
    /\ call'[v].stage = "sweep" => call[v].stage = "sweep"

\* The rows of the completions that stay in flight stay.
RowsStay ==
  \A v \in Workers : InFlight(v)' =>
    /\ rows'[holds[v].slot].state # "NONE"
    /\ rows'[holds[v].slot].gen = rows[holds[v].slot].gen

\* What a step that begins no completion and no sweep has to keep.
LEMMA LocksKept ==
  ASSUME TypeOK, LockDiscipline, NoNewCall, RowsStay,
         cancel'.stage = "sweep" => cancel.stage = "sweep",
         exec.state # "NONE" => exec'.state # "NONE",
         ExecLocked' => exec'.state = exec.state
  PROVE  LockDiscipline'
<1>1. \A w \in Workers : InFlight(w)' => Exists(holds[w])' /\ exec'.state # "NONE"
  BY DEF NoNewCall, RowsStay, LockDiscipline, Exists
<1>2. \A v, w \in Workers : InFlight(v)' /\ InFlight(w)' /\ holds'[v] = holds'[w] => v = w
  BY DEF NoNewCall, LockDiscipline
<1>3. \A w \in Workers : call'[w].stage = "sweep" => call[w].stage = "sweep"
  BY DEF NoNewCall, InFlight
<1>4. ExecLocked' => ExecLocked
  BY <1>3 DEF ExecLocked
<1> QED
  BY <1>1, <1>2, <1>3, <1>4 DEF LockDiscipline

\* A completion that answers leaves the others to theirs.
LEMMA AnsweredKept ==
  ASSUME TypeOK, LockDiscipline, NEW w \in Workers, InFlight(w), Answered(w),
         \A s \in Slots : s # holds[w].slot /\ rows[s].state # "NONE" =>
           rows'[s].state # "NONE" /\ rows'[s].gen = rows[s].gen
  PROVE  NoNewCall /\ RowsStay
<1>1. \A v \in Workers : InFlight(v)' => InFlight(v) /\ v # w
  BY DEF Answered, InFlight, IdleCall, TypeOK
<1>2. \A v \in Workers : v # w => call'[v] = call[v] /\ holds'[v] = holds[v]
  BY DEF Answered, TypeOK
<1>3. \A v \in Workers : InFlight(v) /\ v # w =>
        holds[v].slot \in Slots /\ holds[v].slot # holds[w].slot
          /\ rows[holds[v].slot].state # "NONE"
  BY DistinctSlots, InFlightFacts DEF Own
<1> QED
  BY <1>1, <1>2, <1>3 DEF NoNewCall, RowsStay

\* What the steps do to rows: those there were are still the same rows, but
\* for the one the step is about.
LEMMA RowsKept ==
  ASSUME TypeOK
  PROVE  /\ \A w \in Workers, s \in Slots : s # holds[w].slot => WithoutOwn(w)[s] = rows[s]
         /\ \A w \in Workers : WithoutOwn(w) \in [Slots -> Row]
         /\ \A w \in Workers : holds[w].slot \in Slots => WithoutOwn(w)[holds[w].slot].state = "NONE"
         /\ \A taken : \A s \in Slots :
              /\ CancelByExecution(taken)[s].state = "NONE" <=> rows[s].state = "NONE"
              /\ CancelByExecution(taken)[s].gen = rows[s].gen
         /\ \A taken : CancelByExecution(taken) \in [Slots -> Row]
<1>1. \A w \in Workers, s \in Slots : s # holds[w].slot => WithoutOwn(w)[s] = rows[s]
  BY DEF WithoutOwn, TypeOK
<1>2. \A w \in Workers : WithoutOwn(w) \in [Slots -> Row]
  BY RowFacts DEF WithoutOwn, TypeOK
<1>3. \A w \in Workers : holds[w].slot \in Slots => WithoutOwn(w)[holds[w].slot].state = "NONE"
  BY DEF WithoutOwn, Deleted, NoRow, TypeOK
<1>4. \A taken : \A s \in Slots :
        /\ CancelByExecution(taken)[s].state = "NONE" <=> rows[s].state = "NONE"
        /\ CancelByExecution(taken)[s].gen = rows[s].gen
  <2> SUFFICES ASSUME NEW taken, NEW s \in Slots
               PROVE  /\ CancelByExecution(taken)[s].state = "NONE" <=> rows[s].state = "NONE"
                      /\ CancelByExecution(taken)[s].gen = rows[s].gen
    OBVIOUS
  <2>1. rows[s] \in Row
    BY DEF TypeOK
  <2>2. Cancelled(rows[s]).state = "CANCELLED" /\ Cancelled(rows[s]).gen = rows[s].gen
    BY <2>1 DEF Cancelled, Row
  <2> QED
    BY <2>2 DEF CancelByExecution, Active, Live
<1> QED
  BY <1>1, <1>2, <1>3, <1>4, SweepFacts

\* Only deleting a row makes it go away, and only creating it again makes it
\* another.
LEMMA RowChanges ==
  ASSUME NEW r \in Row
  PROVE  /\ Claimed(r).state = "RUNNING" /\ Claimed(r).gen = r.gen
         /\ Lapsed(r).state = r.state /\ Lapsed(r).gen = r.gen
         /\ RenewLock(r).state = r.state /\ RenewLock(r).gen = r.gen
         /\ \A err \in BOOLEAN :
              /\ UpdateCompleted(r, err).state \in {"COMPLETED", "FAILED"}
              /\ UpdateCompleted(r, err).gen = r.gen
         /\ Deleted(r).state = "NONE"
         /\ \A a, m : Created(r, a, m).state = "CREATED"
BY DEF Row, Claimed, Lapsed, RenewLock, UpdateCompleted, Deleted, NoRow, Created

\* The operations on the execution row that no completion, cancellation or
\* deadline brings about leave its state alone.
LEMMA ExecChanges ==
  ASSUME NEW e \in Exec
  PROVE  /\ \A t \in States : UpdateState(e, t).state = IF Conflict(e) THEN e.state ELSE t
         /\ \A n : UpdateStepCursor(e, n).state = e.state
         /\ \A n : SetCompensationTotal(e, n).state = e.state
         /\ \A why : SaveError(e, why).state = e.state
         /\ SaveResult(e).state = e.state
         /\ IncrementCompletedSteps(e).state = e.state
         /\ IncrementCompensationDone(e).state = e.state
BY DEF Exec, UpdateState, UpdateStepCursor, SetCompensationTotal, SaveError, SaveResult,
       IncrementCompletedSteps, IncrementCompensationDone

\* The steps by which w's completion ends.
Ends(w) ==
  \/ RetryTask(w)
  \/ RetryCompensation(w)
  \/ FailTaskCommit(w)
  \/ StartCompensationFails(w)
  \/ NothingToCompensate(w)
  \/ StartCompensation(w)
  \/ StepDone(w)
  \/ LastStepDone(w)
  \/ AdvanceStep(w)
  \/ FinishWorkflow(w)
  \/ FailCompensation(w)
  \/ FinishCompensation(w)
  \/ NextCompensation(w)

\* The end of a completion leaves the other rows there were as they are.
LEMMA EndsRows ==
  ASSUME TypeOK, LockDiscipline, NEW w \in Workers, Ends(w)
  PROVE  /\ InFlight(w)
         /\ Answered(w)
         /\ cancel' = cancel
         /\ \A s \in Slots : s # holds[w].slot /\ rows[s].state # "NONE" =>
              rows'[s].state # "NONE" /\ rows'[s].gen = rows[s].gen
<1>1. /\ InFlight(w)
      /\ Answered(w)
      /\ cancel' = cancel
  BY DEF Ends, RetryTask, RetryCompensation, FailTaskCommit, StartCompensationFails,
         NothingToCompensate, StartCompensation, StepDone, LastStepDone, AdvanceStep,
         FinishWorkflow, FailCompensation, FinishCompensation, NextCompensation,
         SagaFailing, FailingForGood, Failing, Succeeding, InFlight
<1> SUFFICES ASSUME NEW s \in Slots, s # holds[w].slot, rows[s].state # "NONE"
             PROVE  rows'[s].state # "NONE" /\ rows'[s].gen = rows[s].gen
  BY <1>1
<1>2. WithoutOwn(w)[s] = rows[s]
  BY RowsKept
<1>3. CASE RetryTask(w) \/ RetryCompensation(w)
  BY <1>3 DEF RetryTask, RetryCompensation, Recreate, TypeOK
<1>4. CASE FailTaskCommit(w)
  BY <1>4, RowsKept DEF FailTaskCommit
<1>5. CASE StartCompensationFails(w) \/ NothingToCompensate(w) \/ StepDone(w)
             \/ LastStepDone(w) \/ FinishWorkflow(w) \/ FailCompensation(w)
             \/ FinishCompensation(w)
  BY <1>2, <1>5 DEF StartCompensationFails, NothingToCompensate, StepDone, LastStepDone,
                    FinishWorkflow, FailCompensation, FinishCompensation
<1>6. CASE StartCompensation(w)
  <2>1. PICK n \in Steps :
          /\ rows[Comp(n)].state = "NONE"
          /\ rows' = [WithoutOwn(w) EXCEPT ![Comp(n)] = Created(@, 0, MaxAttempts[n])]
    BY <1>6 DEF StartCompensation
  <2> QED
    BY <1>2, <2>1, RowsKept
<1>7. CASE NextCompensation(w)
  <2>1. PICK n \in Steps :
          /\ rows[Comp(n)].state = "NONE"
          /\ rows' = [WithoutOwn(w) EXCEPT ![Comp(n)] = Created(@, 0, MaxAttempts[n])]
    BY <1>7 DEF NextCompensation
  <2> QED
    BY <1>2, <2>1, RowsKept
<1>8. CASE AdvanceStep(w)
  BY <1>2, <1>8, RowsKept DEF AdvanceStep
<1> QED
  BY <1>3, <1>4, <1>5, <1>6, <1>7, <1>8 DEF Ends

\* The state a completion leaves the execution in.
LEMMA EndsExec ==
  ASSUME TypeOK, LockDiscipline, NEW w \in Workers, Ends(w)
  PROVE  /\ exec'.state # "NONE"
         /\ exec'.state = exec.state \/ ~ExecLocked \/ call[w].stage = "sweep"
         /\ RetryTask(w) \/ RetryCompensation(w) \/ StepDone(w) \/ AdvanceStep(w)
              \/ NextCompensation(w) => exec'.state = exec.state
         /\ StartCompensation(w) => exec'.state = "COMPENSATING" /\ ~IsTerminal(exec.state)
         /\ LastStepDone(w) \/ FinishWorkflow(w) =>
              exec'.state = "COMPLETED" /\ ~IsTerminal(exec.state)
         /\ FailTaskCommit(w) \/ NothingToCompensate(w) \/ FinishCompensation(w) =>
              exec'.state = "FAILED" /\ ~IsTerminal(exec.state)
         /\ StartCompensationFails(w) \/ FailCompensation(w) =>
              exec'.state = IF IsTerminal(exec.state) THEN exec.state ELSE "FAILED"
<1>1. exec \in Exec /\ exec.state # "NONE" /\ exec.state \in States
  BY EndsRows, InFlightFacts DEF TypeOK, Exec
<1>2. ASSUME FailTaskCommit(w)
      PROVE  exec'.state = "FAILED" /\ ~IsTerminal(exec.state) /\ call[w].stage = "sweep"
  <2>1. SaveError(exec, "step") \in Exec
    BY <1>1, ExecFacts DEF Errors
  <2>2. ~IsTerminal(exec.state) /\ call[w].stage = "sweep"
    BY <1>2, StateFacts, <1>1 DEF FailTaskCommit, LockDiscipline, ExecLocked
  <2> QED
    BY <1>1, <1>2, <2>1, <2>2, ExecChanges, StateFacts DEF FailTaskCommit, Conflict
<1>3. ASSUME StartCompensationFails(w)
      PROVE  exec'.state = (IF IsTerminal(exec.state) THEN exec.state ELSE "FAILED")
               /\ ~ExecLocked
  <2>1. UpdateState(exec, "COMPENSATING") \in Exec
    BY <1>1, ExecFacts, StateFacts
  <2>2. SaveError(UpdateState(exec, "COMPENSATING"), "start") \in Exec
    BY <2>1, ExecFacts DEF Errors
  <2> QED
    BY <1>1, <1>3, <2>1, <2>2, ExecChanges, StateFacts
       DEF StartCompensationFails, SagaFailing, Conflict
<1>4. ASSUME NothingToCompensate(w)
      PROVE  exec'.state = "FAILED" /\ ~IsTerminal(exec.state) /\ ~ExecLocked
  <2>1. UpdateState(exec, "COMPENSATING") \in Exec
    BY <1>1, ExecFacts, StateFacts
  <2>2. SetCompensationTotal(UpdateState(exec, "COMPENSATING"), 0) \in Exec
    BY <2>1, ExecFacts
  <2> QED
    BY <1>1, <1>4, <2>1, <2>2, ExecChanges, StateFacts
       DEF NothingToCompensate, SagaFailing, Conflict
<1>5. ASSUME StartCompensation(w)
      PROVE  exec'.state = "COMPENSATING" /\ ~IsTerminal(exec.state) /\ ~ExecLocked
  <2>1. UpdateState(exec, "COMPENSATING") \in Exec
    BY <1>1, ExecFacts, StateFacts
  <2>2. ~Conflict(exec) /\ ~ExecLocked
    BY <1>5 DEF StartCompensation, SagaFailing
  <2>3. exec'.state = UpdateState(exec, "COMPENSATING").state
    BY <1>5, <2>1, ExecChanges DEF StartCompensation
  <2> QED
    BY <1>1, <2>2, <2>3, ExecChanges, StateFacts DEF Conflict
<1>6. ASSUME LastStepDone(w)
      PROVE  exec'.state = "COMPLETED" /\ ~IsTerminal(exec.state) /\ ~ExecLocked
  <2>1. IncrementCompletedSteps(exec) \in Exec
    BY <1>1, ExecFacts
  <2>2. UpdateState(IncrementCompletedSteps(exec), "COMPLETED") \in Exec
    BY <2>1, ExecFacts, StateFacts
  <2> QED
    BY <1>1, <1>6, <2>1, <2>2, ExecChanges, StateFacts DEF LastStepDone, Conflict
<1>7. ASSUME FinishWorkflow(w)
      PROVE  exec'.state = "COMPLETED" /\ ~IsTerminal(exec.state) /\ ~ExecLocked
  <2>1. UpdateState(exec, "COMPLETED") \in Exec
    BY <1>1, ExecFacts, StateFacts
  <2> QED
    BY <1>1, <1>7, <2>1, ExecChanges, StateFacts DEF FinishWorkflow, Conflict
<1>8. ASSUME FailCompensation(w)
      PROVE  exec'.state = (IF IsTerminal(exec.state) THEN exec.state ELSE "FAILED")
               /\ ~ExecLocked
  <2>1. SaveError(exec, "rollback") \in Exec
    BY <1>1, ExecFacts DEF Errors
  <2> QED
    BY <1>1, <1>8, <2>1, ExecChanges, StateFacts DEF FailCompensation, Conflict
<1>9. ASSUME FinishCompensation(w)
      PROVE  exec'.state = "FAILED" /\ ~IsTerminal(exec.state) /\ ~ExecLocked
  <2>1. IncrementCompensationDone(exec) \in Exec
    BY <1>1, ExecFacts
  <2> QED
    BY <1>1, <1>9, <2>1, ExecChanges, StateFacts DEF FinishCompensation, Conflict
<1>10. ASSUME RetryTask(w) \/ RetryCompensation(w) \/ StepDone(w) \/ AdvanceStep(w)
                \/ NextCompensation(w)
       PROVE  exec'.state = exec.state
  BY <1>1, <1>10, ExecChanges
     DEF RetryTask, RetryCompensation, StepDone, AdvanceStep, NextCompensation
<1> QED
  BY <1>1, <1>2, <1>3, <1>4, <1>5, <1>6, <1>7, <1>8, <1>9, <1>10 DEF Ends

\* Every step keeps each locked row to its completion and the execution row to its sweep.
LEMMA LockStep ==
  ASSUME TypeOK, LockDiscipline, RowsFitState, [Next]_vars
  PROVE  LockDiscipline'
<1>1. CASE UNCHANGED vars
  BY <1>1 DEF vars, LockDiscipline, InFlight, Exists, ExecLocked
<1>2. CASE StartWorkflow
  <2>1. \A w \in Workers : ~InFlight(w)
    BY <1>2 DEF StartWorkflow, LockDiscipline
  <2>2. ~ExecLocked
    BY <1>2 DEF StartWorkflow, LockDiscipline
  <2> QED
    BY <1>2, <2>1, <2>2 DEF StartWorkflow, LockDiscipline, InFlight, ExecLocked
<1>3. ASSUME NEW s \in Slots, PollLost(s) \/ LeaseLapses(s)
      PROVE  LockDiscipline'
  <2>1. \A u \in Slots : rows'[u].gen = rows[u].gen
                           /\ (rows[u].state # "NONE" => rows'[u].state # "NONE")
    BY <1>3, RowChanges DEF PollLost, Claim, LeaseLapses, TypeOK
  <2>2. NoNewCall /\ RowsStay
    BY <1>3, <2>1, InFlightFacts
       DEF PollLost, Claim, LeaseLapses, NoNewCall, RowsStay, InFlight, Own
  <2> QED
    BY <1>3, <2>2, LocksKept DEF PollLost, Claim, LeaseLapses
<1>4. ASSUME NEW w \in Workers, NEW s \in Slots, Poll(w, s)
      PROVE  LockDiscipline'
  <2>1. \A u \in Slots : rows'[u].gen = rows[u].gen
                           /\ (rows[u].state # "NONE" => rows'[u].state # "NONE")
    BY <1>4, RowChanges DEF Poll, Claim, TypeOK
  <2>2. ~InFlight(w)
    BY <1>4 DEF Poll, LockDiscipline, Exists
  <2>3. \A v \in Workers : v # w => holds'[v] = holds[v]
    BY <1>4 DEF Poll, TypeOK
  <2>4. NoNewCall /\ RowsStay
    BY <1>4, <2>1, <2>2, <2>3, InFlightFacts
       DEF Poll, NoNewCall, RowsStay, InFlight, Own
  <2> QED
    BY <1>4, <2>4, LocksKept DEF Poll
<1>5. ASSUME NEW w \in Workers,
             Heartbeat(w) \/ HeartbeatRejected(w) \/ WorkerForgets(w) \/ CompleteUnknown(w)
               \/ CompleteIgnored(w)
      PROVE  LockDiscipline'
  <2> USE DEF Heartbeat, HeartbeatRejected, WorkerForgets, CompleteUnknown, CompleteIgnored,
              Reporting
  <2>1. \A u \in Slots : rows'[u].gen = rows[u].gen
                           /\ (rows[u].state # "NONE" => rows'[u].state # "NONE")
    BY <1>5, RowChanges DEF TypeOK
  <2>2. ~InFlight(w)
    BY <1>5
  <2>3. \A v \in Workers : v # w => holds'[v] = holds[v]
    BY <1>5 DEF TypeOK
  <2>4. NoNewCall /\ RowsStay
    BY <1>5, <2>1, <2>2, <2>3, InFlightFacts DEF NoNewCall, RowsStay, InFlight, Own
  <2> QED
    BY <1>5, <2>4, LocksKept
<1>6. ASSUME NEW w \in Workers, CompleteBegin(w)
      PROVE  LockDiscipline'
  <2>1. Exists(holds[w]) /\ ~InFlight(w) /\ ~Locked(holds[w])
    BY <1>6 DEF CompleteBegin, Reporting
  <2>2. exec.state # "NONE"
    <3>1. holds[w].slot \in Slots
      BY <2>1 DEF Exists, TypeOK, Ref
    <3> QED
      BY <2>1, <3>1 DEF Exists, RowsFitState
  <2>3. \A v \in Workers : v # w => call'[v] = call[v]
    BY <1>6 DEF CompleteBegin, TypeOK
  <2>4. call'[w].stage = "open"
    BY <1>6 DEF CompleteBegin, TypeOK, IdleCall
  <2>5. \A v \in Workers : InFlight(v) => holds[v] # holds[w]
    BY <2>1 DEF Locked
  <2>6. UNCHANGED <<exec, rows, holds, cancel>>
    BY <1>6 DEF CompleteBegin
  <2>7. \A v \in Workers : InFlight(v)' => InFlight(v) \/ v = w
    BY <2>3 DEF InFlight
  <2>8. \A v \in Workers : call'[v].stage = "sweep" => call[v].stage = "sweep"
    BY <2>3, <2>4
  <2>9. \A v \in Workers : InFlight(v)' => Exists(holds[v])' /\ exec'.state # "NONE"
    BY <2>1, <2>2, <2>6, <2>7 DEF LockDiscipline, Exists
  <2>10. \A u, v \in Workers : InFlight(u)' /\ InFlight(v)' /\ holds'[u] = holds'[v] => u = v
    BY <2>5, <2>6, <2>7 DEF LockDiscipline
  <2> QED
    BY <2>6, <2>8, <2>9, <2>10 DEF LockDiscipline, ExecLocked
<1>7. ASSUME NEW w \in Workers, FailTask(w)
      PROVE  LockDiscipline'
  <2>1. call[w].stage = "open" /\ ~ExecLocked /\ ~Conflict(exec)
    BY <1>7 DEF FailTask, FailingForGood, Failing
  <2>2. UNCHANGED <<exec, rows, holds, cancel>>
    BY <1>7 DEF FailTask
  <2>3. \A v \in Workers : v # w => call'[v] = call[v]
    BY <1>7 DEF FailTask, TypeOK
  <2>4. \A v \in Workers : InFlight(v)' => InFlight(v)
    BY <2>1, <2>3 DEF InFlight
  <2>5. exec.state \in {"RUNNING", "COMPENSATING"}
    <3>1. exec.state # "NONE"
      BY <2>1 DEF LockDiscipline, InFlight
    <3> QED
      BY <2>1, <3>1, StateFacts DEF Conflict, RowsFitState, TypeOK, Exec
  <2>6. \A v \in Workers : call'[v].stage = "sweep" => v = w
    BY <2>1, <2>3 DEF ExecLocked
  <2>7. \A v \in Workers : InFlight(v)' => Exists(holds[v])' /\ exec'.state # "NONE"
    BY <2>2, <2>4 DEF LockDiscipline, Exists
  <2>8. \A u, v \in Workers : InFlight(u)' /\ InFlight(v)' /\ holds'[u] = holds'[v] => u = v
    BY <2>2, <2>4 DEF LockDiscipline
  <2> QED
    BY <2>1, <2>2, <2>5, <2>6, <2>7, <2>8 DEF LockDiscipline, ExecLocked
<1>8. ASSUME NEW w \in Workers, FailTaskTakesRow(w) \/ SaveCheckpoint(w) \/ CallAborts(w)
      PROVE  LockDiscipline'
  <2>1. UNCHANGED <<exec, rows, holds, cancel>>
    BY <1>8 DEF FailTaskTakesRow, SaveCheckpoint, CallAborts
  <2>2. \A v \in Workers : v # w => call'[v] = call[v]
    BY <1>8 DEF FailTaskTakesRow, SaveCheckpoint, CallAborts, TypeOK
  <2>3. InFlight(w)
    BY <1>8 DEF FailTaskTakesRow, SaveCheckpoint, CallAborts, Succeeding, InFlight
  <2>4. call'[w].stage = "sweep" => call[w].stage = "sweep"
    BY <1>8 DEF FailTaskTakesRow, SaveCheckpoint, CallAborts, TypeOK, IdleCall, Call
  <2>5. NoNewCall /\ RowsStay
    BY <2>1, <2>2, <2>3, <2>4, InFlightFacts DEF NoNewCall, RowsStay, InFlight, Own
  <2> QED
    BY <2>1, <2>5, LocksKept
<1>9. ASSUME NEW w \in Workers, Ends(w)
      PROVE  LockDiscipline'
  <2>1. NoNewCall /\ RowsStay
    BY <1>9, EndsRows, AnsweredKept
  <2>2. ExecLocked' => exec'.state = exec.state
    <3>1. \A v \in Workers : call'[v].stage = "sweep" => call[v].stage = "sweep" /\ v # w
      BY <1>9, <2>1, EndsRows DEF Answered, NoNewCall, InFlight, IdleCall, TypeOK
    <3>2. cancel' = cancel
      BY <1>9, EndsRows
    <3>3. ExecLocked' => ExecLocked /\ call[w].stage # "sweep"
      BY <3>1, <3>2 DEF ExecLocked, LockDiscipline
    <3> QED
      BY <1>9, <3>3, EndsExec
  <2> QED
    BY <1>9, <2>1, <2>2, EndsRows, EndsExec, LocksKept
<1>10. CASE CancelWorkflow
  <2>1. CASE CancelBegin
    <3>1. exec.state \in {"RUNNING", "COMPENSATING"}
      BY <2>1, StateFacts DEF CancelBegin, Conflict, RowsFitState, TypeOK, Exec
    <3> QED
      BY <2>1, <3>1 DEF CancelBegin, LockDiscipline, ExecLocked, InFlight, Exists
  <2>2. CASE CancelTakesRow \/ CancelAborts
    <3>1. cancel'.stage = "sweep" => cancel.stage = "sweep"
      BY <2>2 DEF CancelTakesRow, CancelAborts, TakesRow, Idle, TypeOK
    <3>2. NoNewCall /\ RowsStay
      BY <2>2, InFlightFacts
         DEF CancelTakesRow, CancelAborts, NoNewCall, RowsStay, InFlight, Own
    <3> QED
      BY <2>2, <3>1, <3>2, LocksKept DEF CancelTakesRow, CancelAborts
  <2>3. CASE CancelCommit
    <3>1. cancel.stage = "sweep" /\ cancel'.stage = "idle"
      BY <2>3 DEF CancelCommit, Idle
    <3>2. NoNewCall /\ RowsStay
      BY <2>3, InFlightFacts, RowsKept
         DEF CancelCommit, NoNewCall, RowsStay, InFlight, Own
    <3>3. ~ExecLocked'
      BY <2>3, <3>1 DEF CancelCommit, ExecLocked, LockDiscipline
    <3>4. exec'.state # "NONE"
      BY <2>3, <3>1, ExecChanges, StateFacts
         DEF CancelCommit, LockDiscipline, ExecLocked, TypeOK
    <3> QED
      BY <3>1, <3>2, <3>3, <3>4, LocksKept
  <2> QED
    BY <1>10, <2>1, <2>2, <2>3 DEF CancelWorkflow
<1>11. CASE ExpireOverdueWorkflows
  <2>1. UNCHANGED <<call, holds, cancel>>
    BY <1>11 DEF ExpireOverdueWorkflows, ExpireOverdue, ExpireSweep, ExpireTakesRow,
                 ExpireSwept, ExpireTimedOut, ExpireFailed, ExpireStatementFails
  <2>2. \A s \in Slots : rows'[s].gen = rows[s].gen
                           /\ (rows[s].state # "NONE" => rows'[s].state # "NONE")
    BY <1>11, RowsKept
       DEF ExpireOverdueWorkflows, ExpireOverdue, ExpireSweep, ExpireTakesRow,
           ExpireSwept, ExpireTimedOut, ExpireFailed, ExpireStatementFails
  <2>3. NoNewCall /\ RowsStay
    BY <2>1, <2>2, InFlightFacts DEF NoNewCall, RowsStay, InFlight, Own
  <2>4. ExecLocked' = ExecLocked
    BY <2>1 DEF ExecLocked
  <2>5. exec' = exec \/ (~ExecLocked /\ exec'.state = "FAILED")
    <3>1. CASE ExpireOverdue
      <4>1. SaveError(exec, "timeout") \in Exec
        BY ExecFacts DEF TypeOK, Errors
      <4> QED
        BY <3>1, <4>1 DEF ExpireOverdue, Exec
    <3>2. CASE ExpireSweep \/ ExpireTakesRow \/ ExpireSwept
      BY <3>2 DEF ExpireSweep, ExpireTakesRow, ExpireSwept
    <3>3. CASE ExpireTimedOut \/ ExpireFailed \/ ExpireStatementFails
      BY <3>3 DEF ExpireTimedOut, ExpireFailed, ExpireStatementFails
    <3> QED
      BY <1>11, <3>1, <3>2, <3>3 DEF ExpireOverdueWorkflows
  <2> QED
    BY <2>1, <2>3, <2>4, <2>5, LocksKept
<1>12. CASE ServerCrash
  BY <1>12 DEF ServerCrash, LockDiscipline, InFlight, ExecLocked, IdleCall, Idle
<1>13. CASE RecoverWorkflows
  <2>1. \A s \in Slots : rows[s].state # "NONE" => rows'[s] = rows[s]
    BY <1>13 DEF RecoverWorkflows, TypeOK
  <2>2. NoNewCall /\ RowsStay
    BY <1>13, <2>1, InFlightFacts
       DEF RecoverWorkflows, NoNewCall, RowsStay, InFlight, Own
  <2> QED
    BY <1>13, <2>2, LocksKept DEF RecoverWorkflows
<1> QED
  BY <1>1, <1>2, <1>3, <1>4, <1>5, <1>6, <1>7, <1>8, <1>9, <1>10, <1>11, <1>12, <1>13
     DEF Next, WorkerStep, CompleteTask, CompleteCompensationTask, Ends

-----------------------------------------------------------------------------
(* RowsFitState is preserved.                                               *)

Closed(state) == state \in {"COMPLETED", "FAILED", "CANCELLED"}

\* An execution that is not open is one that has not started or is closed.
LEMMA OpenOrClosed ==
  ASSUME TypeOK, RowsFitState, exec.state # "NONE"
  PROVE  /\ exec.state \in {"RUNNING", "COMPENSATING"} <=> ~Closed(exec.state)
         /\ IsTerminal(exec.state) <=> Closed(exec.state)
BY StateFacts DEF RowsFitState, TypeOK, Exec, Closed

\* But for an INDEPENDENT execution the row of a completion is the only one.
LEMMA OnlyRow ==
  ASSUME TypeOK, LockDiscipline, RowsFitState, WorkflowType # "INDEPENDENT",
         NEW w \in Workers, InFlight(w)
  PROVE  /\ \A s \in Slots : s # holds[w].slot => rows[s].state = "NONE"
         /\ \A s \in Slots : WithoutOwn(w)[s].state = "NONE"
<1>1. holds[w].slot \in Slots /\ rows[holds[w].slot].state # "NONE"
  BY InFlightFacts DEF Own
<1>2. \A s \in Slots : s # holds[w].slot => rows[s].state = "NONE"
  BY <1>1 DEF RowsFitState
<1> QED
  BY <1>1, <1>2, RowsKept

\* A step that creates no row and does not end the life of one.
LEMMA FitsKept ==
  ASSUME TypeOK, RowsFitState, exec'.state = exec.state,
         expire'.stage = "idle" \/ Closed(exec.state),
         \A s \in Slots : rows'[s].state # "NONE" => rows[s].state # "NONE",
         Closed(exec.state) \/ \A s \in Slots : Active(rows[s]) =>
                                 rows'[s].state = "NONE" \/ Active(rows'[s])
  PROVE  RowsFitState'
<1>1. \A n \in Steps : rows'[Comp(n)].state # "NONE" => WorkflowType = "SAGA"
  BY SlotFacts DEF RowsFitState, Comp, Kinds
<1>2. exec.state \in {"RUNNING", "COMPENSATING"} =>
        \A s \in Slots : rows'[s].state # "NONE" =>
          Active(rows'[s]) /\ (s[1] = "comp") = (exec.state = "COMPENSATING")
  BY DEF RowsFitState, Closed
<1> QED
  BY <1>1, <1>2 DEF RowsFitState, Closed

\* A step that closes the execution and creates no row.
LEMMA FitsClosed ==
  ASSUME TypeOK, RowsFitState, Closed(exec'.state),
         \A s \in Slots : rows'[s].state # "NONE" => rows[s].state # "NONE"
  PROVE  RowsFitState'
<1>1. \A n \in Steps : rows'[Comp(n)].state # "NONE" => WorkflowType = "SAGA"
  BY SlotFacts DEF RowsFitState, Comp, Kinds
<1> QED
  BY <1>1 DEF RowsFitState, Closed

\* A RUNNING execution has a task to go on with.
LEMMA NoOrphan ==
  ASSUME TypeOK, WorkToDo, CompletedStepsCounted, exec.state = "RUNNING"
  PROVE  HasActiveTasks
<1>1. CASE WorkflowType = "INDEPENDENT"
  <2> SUFFICES ASSUME ~HasActiveTasks PROVE FALSE
    OBVIOUS
  <2>1. \A n \in Steps : Completed(n)
    BY <1>1 DEF WorkToDo, HasActiveTasks
  <2>2. {n \in Steps : Completed(n)} = 1 .. TotalSteps
    BY <2>1 DEF Steps
  <2>3. Cardinality(1 .. TotalSteps) = TotalSteps
    BY FS_Interval, TotalStepsAssumption
  <2>4. exec.completedSteps < TotalSteps /\ exec.completedSteps = TotalSteps
    BY <1>1, <2>2, <2>3 DEF CompletedStepsCounted
  <2> QED
    BY <2>4, TotalStepsAssumption
<1>2. CASE WorkflowType # "INDEPENDENT"
  <2>1. PICK s \in Slots : Active(rows[s]) /\ s[1] # "comp"
    BY <1>2 DEF WorkToDo
  <2>2. s = Task(s[2]) /\ s[2] \in Steps
    BY <2>1, SlotFacts DEF Task, Kinds
  <2> QED
    BY <2>1, <2>2 DEF HasActiveTasks
<1> QED
  BY <1>1, <1>2

\* The end of a completion, of any kind but those that schedule another row.
LEMMA RowsEnd ==
  ASSUME TypeOK, LockDiscipline, RowsFitState, NEW w \in Workers, Ends(w)
  PROVE  RowsFitState'
<1>1. /\ InFlight(w) /\ holds[w].slot \in Slots /\ Own(w).state # "NONE"
      /\ Own(w) \in Row /\ exec.state # "NONE"
      /\ Step(w) \in Steps /\ holds[w].slot = <<holds[w].slot[1], Step(w)>>
  BY EndsRows, InFlightFacts
<1>2. expire' = expire
  BY DEF Ends, RetryTask, RetryCompensation, FailTaskCommit, StartCompensationFails,
         NothingToCompensate, StartCompensation, StepDone, LastStepDone, AdvanceStep,
         FinishWorkflow, FailCompensation, FinishCompensation, NextCompensation
<1>3. expire.stage = "idle" \/ Closed(exec.state)
  BY DEF RowsFitState, Closed
<1>4. CASE RetryTask(w) \/ RetryCompensation(w)
  <2>1. rows' = [rows EXCEPT ![holds[w].slot] =
                   Created(Deleted(Own(w)), Own(w).attempt + 1, Own(w).max)]
    BY <1>4 DEF RetryTask, RetryCompensation, Recreate
  <2>2. \A s \in Slots : s # holds[w].slot => rows'[s] = rows[s]
    BY <2>1 DEF TypeOK
  <2>3. rows'[holds[w].slot].state = "CREATED"
    <3>1. Deleted(Own(w)) \in Row
      BY <1>1, RowFacts
    <3> QED
      BY <1>1, <2>1, <3>1, RowChanges DEF TypeOK
  <2>4. \A s \in Slots : rows'[s].state # "NONE" => rows[s].state # "NONE"
    BY <1>1, <2>2 DEF Own
  <2>5. \A s \in Slots : Active(rows[s]) => Active(rows'[s])
    BY <2>2, <2>3 DEF Active, Live
  <2> QED
    BY <1>2, <1>3, <1>4, <2>4, <2>5, EndsExec, FitsKept
<1>5. CASE FailTaskCommit(w)
  <2>1. \A s \in Slots : rows'[s].state # "NONE" => rows[s].state # "NONE"
    BY <1>5, RowsKept DEF FailTaskCommit, Deleted, NoRow
  <2> QED
    BY <1>5, <2>1, EndsExec, FitsClosed DEF Closed
<1>6. ASSUME rows' = WithoutOwn(w)
      PROVE  \A s \in Slots : rows'[s] = rows[s] \/ rows'[s].state = "NONE"
  BY <1>1, <1>6, RowsKept
<1>7. CASE StepDone(w)
  BY <1>2, <1>3, <1>6, <1>7, EndsExec, FitsKept DEF StepDone
<1>8. CASE StartCompensationFails(w) \/ NothingToCompensate(w) \/ LastStepDone(w)
             \/ FinishWorkflow(w) \/ FailCompensation(w) \/ FinishCompensation(w)
  <2>1. rows' = WithoutOwn(w)
    BY <1>8 DEF StartCompensationFails, NothingToCompensate, LastStepDone,
                FinishWorkflow, FailCompensation, FinishCompensation
  <2>2. Closed(exec'.state)
    BY <1>1, <1>8, EndsExec, OpenOrClosed DEF Closed
  <2> QED
    BY <1>6, <2>1, <2>2, FitsClosed
<1>9. ASSUME WorkflowType # "INDEPENDENT",
             NEW s \in Slots, NEW a, NEW m,
             rows' = [WithoutOwn(w) EXCEPT ![s] = Created(@, a, m)],
             s[1] = "comp" => WorkflowType = "SAGA",
             exec'.state = "COMPENSATING" => WorkflowType = "SAGA",
             exec'.state # "NONE",
             exec'.state # "CREATED",
             exec'.state \in {"RUNNING", "COMPENSATING"} =>
               (s[1] = "comp") = (exec'.state = "COMPENSATING"),
             expire.stage = "idle" \/ Closed(exec'.state)
      PROVE  RowsFitState'
  <2>1. \A t \in Slots : t # s => rows'[t].state = "NONE"
    BY <1>1, <1>9, OnlyRow, RowsKept
  <2>2. rows'[s].state = "CREATED"
    BY <1>9, RowsKept, RowChanges
  <2>3. \A n \in Steps : rows'[Comp(n)].state # "NONE" => WorkflowType = "SAGA"
    BY <1>9, <2>1, SlotFacts DEF Comp, Kinds
  <2> QED
    BY <1>2, <1>9, <2>1, <2>2, <2>3 DEF RowsFitState, Active, Live, Closed
<1>10. CASE StartCompensation(w)
  <2>1. WorkflowType = "SAGA"
    BY <1>10 DEF StartCompensation, SagaFailing
  <2>2. PICK n \in Steps :
          rows' = [WithoutOwn(w) EXCEPT ![Comp(n)] = Created(@, 0, MaxAttempts[n])]
    BY <1>10 DEF StartCompensation
  <2>3. Comp(n) \in Slots /\ Comp(n)[1] = "comp"
    BY SlotFacts DEF Comp, Kinds
  <2>4. expire.stage = "idle"
    BY <1>1, <1>3, <1>10, EndsExec, OpenOrClosed
  <2> QED
    BY <1>9, <1>10, <2>1, <2>2, <2>3, <2>4, EndsExec
<1>11. CASE NextCompensation(w)
  <2>1. holds[w].slot = Comp(Step(w))
    BY <1>1, <1>11 DEF NextCompensation, Succeeding, Comp
  <2>2. WorkflowType = "SAGA"
    BY <1>1, <2>1 DEF RowsFitState, Own
  <2>3. PICK n \in Steps :
          rows' = [WithoutOwn(w) EXCEPT ![Comp(n)] = Created(@, 0, MaxAttempts[n])]
    BY <1>11 DEF NextCompensation
  <2>4. /\ Comp(n) \in Slots /\ Comp(n)[1] = "comp"
        /\ Comp(Step(w)) \in Slots /\ Comp(Step(w))[1] = "comp"
    BY <1>1, SlotFacts DEF Comp, Kinds
  <2>5. exec.state \in {"RUNNING", "COMPENSATING"} => exec.state = "COMPENSATING"
    BY <1>1, <2>1, <2>4 DEF RowsFitState, Own
  <2>6. exec'.state = exec.state /\ exec.state # "CREATED"
    BY <1>11, EndsExec DEF RowsFitState
  <2> QED
    BY <1>1, <1>3, <1>9, <2>2, <2>3, <2>4, <2>5, <2>6
<1>12. CASE AdvanceStep(w)
  <2>1. WorkflowType # "INDEPENDENT" /\ Step(w) + 1 \in Steps
    BY <1>12 DEF AdvanceStep
  <2>2. rows' = [WithoutOwn(w) EXCEPT ![Task(Step(w) + 1)] =
                   Created(@, 0, MaxAttempts[Step(w) + 1])]
    BY <1>12 DEF AdvanceStep
  <2>3. Task(Step(w) + 1) \in Slots /\ Task(Step(w) + 1)[1] = "task"
    BY <2>1, SlotFacts DEF Task, Kinds
  <2>4. exec.state \in {"RUNNING", "COMPENSATING"} => exec.state = "RUNNING"
    <3>1. holds[w].slot[1] = "task"
      BY <1>12 DEF AdvanceStep, Succeeding
    <3> QED
      BY <1>1, <3>1 DEF RowsFitState, Own
  <2>5. exec'.state = exec.state /\ exec.state # "CREATED"
    BY <1>12, EndsExec DEF RowsFitState
  <2> QED
    BY <1>1, <1>3, <1>9, <2>1, <2>2, <2>3, <2>4, <2>5
<1> QED
  BY <1>4, <1>5, <1>7, <1>8, <1>10, <1>11, <1>12 DEF Ends

\* The steps of w that change no execution and neither add nor end a row of
\* an open one.
Quiet(w) ==
  \/ \E s \in Slots : Poll(w, s)
  \/ Heartbeat(w)
  \/ HeartbeatRejected(w)
  \/ WorkerForgets(w)
  \/ CompleteUnknown(w)
  \/ CompleteIgnored(w)
  \/ CompleteBegin(w)
  \/ FailTask(w)
  \/ FailTaskTakesRow(w)
  \/ SaveCheckpoint(w)
  \/ CallAborts(w)

\* What a row is while it is handed out, runs and is kept.
LEMMA RowsQuiet ==
  ASSUME TypeOK, RowsFitState,
         \/ \E w \in Workers : Quiet(w)
         \/ \E s \in Slots : PollLost(s) \/ LeaseLapses(s)
  PROVE  /\ UNCHANGED <<exec, history, expire>>
         /\ \A s \in Slots : rows'[s].state # "NONE" => rows[s].state # "NONE"
         /\ \/ Closed(exec.state)
            \/ \A s \in Slots : Active(rows'[s]) <=> Active(rows[s])
<1>1. ASSUME NEW s \in Slots, Claim(s)
      PROVE  \A u \in Slots : /\ rows'[u].state # "NONE" => rows[u].state # "NONE"
                              /\ Active(rows'[u]) <=> Active(rows[u])
  BY <1>1, RowChanges DEF Claim, Eligible, Active, Live, TypeOK
<1>2. ASSUME NEW s \in Slots, PollLost(s) \/ LeaseLapses(s)
      PROVE  /\ UNCHANGED <<exec, history, expire>>
             /\ \A u \in Slots : /\ rows'[u].state # "NONE" => rows[u].state # "NONE"
                                 /\ Active(rows'[u]) <=> Active(rows[u])
  <2>1. CASE PollLost(s)
    BY <1>1, <2>1 DEF PollLost
  <2>2. CASE LeaseLapses(s)
    BY <2>2, RowChanges DEF LeaseLapses, Active, Live, TypeOK
  <2> QED
    BY <1>2, <2>1, <2>2
<1>3. ASSUME NEW w \in Workers, NEW s \in Slots, Poll(w, s)
      PROVE  /\ UNCHANGED <<exec, history, expire>>
             /\ \A u \in Slots : /\ rows'[u].state # "NONE" => rows[u].state # "NONE"
                                 /\ Active(rows'[u]) <=> Active(rows[u])
  BY <1>1, <1>3 DEF Poll
<1>4. ASSUME NEW w \in Workers, Heartbeat(w)
      PROVE  /\ UNCHANGED <<exec, history, expire>>
             /\ \A u \in Slots : /\ rows'[u].state # "NONE" => rows[u].state # "NONE"
                                 /\ Active(rows'[u]) <=> Active(rows[u])
  BY <1>4, RowChanges DEF Heartbeat, Active, Live, TypeOK
<1>5. ASSUME NEW w \in Workers, CompleteIgnored(w)
      PROVE  /\ UNCHANGED <<exec, history, expire>>
             /\ \A u \in Slots : rows'[u].state # "NONE" => rows[u].state # "NONE"
             /\ Closed(exec.state)
  <2>1. \A u \in Slots : u # holds[w].slot => rows'[u] = rows[u]
    BY <1>5 DEF CompleteIgnored, TypeOK
  <2>2. holds[w].slot \in Slots /\ rows[holds[w].slot].state # "NONE"
    BY <1>5 DEF CompleteIgnored, Exists, TypeOK, Ref
  <2>3. exec.state # "NONE"
    BY <2>2 DEF RowsFitState
  <2> QED
    BY <1>5, <2>1, <2>2, <2>3, OpenOrClosed DEF CompleteIgnored
<1>6. ASSUME NEW w \in Workers,
             HeartbeatRejected(w) \/ WorkerForgets(w) \/ CompleteUnknown(w)
               \/ CompleteBegin(w) \/ FailTask(w) \/ FailTaskTakesRow(w)
               \/ SaveCheckpoint(w) \/ CallAborts(w)
      PROVE  UNCHANGED <<exec, history, expire, rows>>
  BY <1>6 DEF HeartbeatRejected, WorkerForgets, CompleteUnknown, CompleteBegin, FailTask,
              FailTaskTakesRow, SaveCheckpoint, CallAborts
<1> QED
  BY <1>2, <1>3, <1>4, <1>5, <1>6 DEF Quiet

\* The steps of the sweeper: they set out from a closed execution, or close it.
LEMMA ExpireChanges ==
  ASSUME TypeOK, RowsFitState, ExpireOverdueWorkflows
  PROVE  /\ Closed(exec'.state)
         /\ exec' = exec \/ ~Closed(exec.state)
         /\ exec.state # "NONE"
         /\ \A s \in Slots : rows'[s].state # "NONE" => rows[s].state # "NONE"
<1>1. CASE ExpireOverdue
  <2>1. SaveError(exec, "timeout") \in Exec
    BY ExecFacts DEF TypeOK, Errors
  <2> QED
    BY <1>1, <2>1 DEF ExpireOverdue, Closed, Exec
<1>2. CASE ExpireSweep \/ ExpireTakesRow \/ ExpireSwept
  <2>1. expire.stage # "idle"
    BY <1>2 DEF ExpireSweep, ExpireTakesRow, ExpireSwept
  <2> QED
    BY <1>2, <2>1, RowsKept
       DEF ExpireSweep, ExpireTakesRow, ExpireSwept, RowsFitState, Closed
<1>3. CASE ExpireTimedOut \/ ExpireFailed \/ ExpireStatementFails
  <2>1. expire.stage # "idle"
    BY <1>3 DEF ExpireTimedOut, ExpireFailed, ExpireStatementFails
  <2> QED
    BY <1>3, <2>1
       DEF ExpireTimedOut, ExpireFailed, ExpireStatementFails, RowsFitState, Closed
<1> QED
  BY <1>1, <1>2, <1>3 DEF ExpireOverdueWorkflows

\* What CancelWorkflow does when it commits.
LEMMA CancelChanges ==
  ASSUME TypeOK, LockDiscipline, RowsFitState, CancelCommit
  PROVE  /\ exec.state \in {"RUNNING", "COMPENSATING"}
         /\ exec' = [exec EXCEPT !.state = "CANCELLED"]
         /\ exec'.state = "CANCELLED"
         /\ \A s \in Slots : rows'[s].state # "NONE" => rows[s].state # "NONE"
<1>1. exec.state \in {"RUNNING", "COMPENSATING"}
  BY DEF CancelCommit, LockDiscipline, ExecLocked
<1>2. exec' = [exec EXCEPT !.state = "CANCELLED"]
  BY <1>1, StateFacts DEF CancelCommit, UpdateState, Conflict
<1> QED
  BY <1>1, <1>2, RowsKept DEF CancelCommit, TypeOK, Exec

\* Every step leaves the rows that fit the state of the execution.
LEMMA RowsStep ==
  ASSUME IInv, [Next]_vars
  PROVE  RowsFitState'
<1> USE DEF IInv
<1>1. CASE UNCHANGED vars
  BY <1>1 DEF vars, RowsFitState, Active
<1>2. CASE StartWorkflow
  <2>1. \A s \in Slots : rows'[s] =
          IF s \in FirstTasks THEN Created(rows[s], 0, MaxAttempts[s[2]]) ELSE rows[s]
    BY <1>2 DEF StartWorkflow
  <2>2. \A s \in Slots : s \notin FirstTasks => rows'[s].state = "NONE"
    BY <1>2, <2>1 DEF StartWorkflow, RowsFitState
  <2>3. \A s \in Slots : s \in FirstTasks => rows'[s].state = "CREATED"
    BY <2>1, RowChanges DEF TypeOK
  <2>4. \A s \in Slots : s \in FirstTasks =>
          s[1] # "comp" /\ (WorkflowType # "INDEPENDENT" => s = Task(1))
    BY DEF FirstTasks, Task
  <2>5. exec'.state = "RUNNING"
    BY <1>2, StateFacts DEF StartWorkflow, UpdateState, Conflict, NoExec
  <2>6. \A n \in Steps : rows'[Comp(n)].state = "NONE"
    BY <2>2, <2>4, SlotFacts DEF Comp, Kinds
  <2>7. expire'.stage = "idle"
    BY <1>2 DEF StartWorkflow, RowsFitState
  <2> QED
    BY <2>2, <2>3, <2>4, <2>5, <2>6, <2>7 DEF RowsFitState, Active, Live
<1>3. CASE (\E w \in Workers : Quiet(w)) \/ (\E s \in Slots : PollLost(s) \/ LeaseLapses(s))
  BY <1>3, RowsQuiet, FitsKept DEF RowsFitState, Closed
<1>4. ASSUME NEW w \in Workers, Ends(w)
      PROVE  RowsFitState'
  BY <1>4, RowsEnd
<1>5. CASE CancelBegin \/ CancelTakesRow \/ CancelAborts
  <2>1. UNCHANGED <<exec, rows, expire>>
    BY <1>5 DEF CancelBegin, CancelTakesRow, CancelAborts
  <2> QED
    BY <2>1 DEF RowsFitState, Active
<1>6. CASE CancelCommit
  BY <1>6, CancelChanges, FitsClosed DEF Closed
<1>7. CASE ExpireOverdueWorkflows
  BY <1>7, ExpireChanges, FitsClosed
<1>8. CASE ServerCrash
  BY <1>8 DEF ServerCrash, RowsFitState, Active, Idle
<1>9. CASE RecoverWorkflows
  <2>1. UNCHANGED <<exec, rows, expire>>
    BY <1>9, NoOrphan DEF RecoverWorkflows
  <2> QED
    BY <2>1 DEF RowsFitState, Active
<1> QED
  BY <1>1, <1>2, <1>3, <1>4, <1>5, <1>6, <1>7, <1>8, <1>9
     DEF Next, WorkerStep, CompleteTask, CompleteCompensationTask, Ends, Quiet,
         CancelWorkflow

-----------------------------------------------------------------------------
(* WorkToDo and CompletedStepsCounted are preserved.                        *)

Has(h, event) == \E i \in DOMAIN h : h[i] = event

\* A history has the events it had before and those recorded.
LEMMA HasFacts ==
  ASSUME NEW h \in Seq(Event), NEW a \in Event, NEW b \in Event, NEW e
  PROVE  /\ Has(Append(h, a), e) <=> Has(h, e) \/ e = a
         /\ Has(h \o <<a, b>>, e) <=> Has(h, e) \/ e = a \/ e = b
         /\ ~Has(<<>>, e)
<1>1. Has(Append(h, a), e) <=> Has(h, e) \/ e = a
  <2>1. ASSUME Has(Append(h, a), e) PROVE Has(h, e) \/ e = a
    BY <2>1 DEF Has
  <2>2. ASSUME NEW i \in DOMAIN h, h[i] = e PROVE Has(Append(h, a), e)
    <3>1. i \in DOMAIN Append(h, a) /\ Append(h, a)[i] = e
      BY <2>2
    <3> QED
      BY <3>1 DEF Has
  <2>3. ASSUME e = a PROVE Has(Append(h, a), e)
    <3>1. Len(h) + 1 \in DOMAIN Append(h, a) /\ Append(h, a)[Len(h) + 1] = a
      OBVIOUS
    <3> QED
      BY <2>3, <3>1 DEF Has
  <2> QED
    BY <2>1, <2>2, <2>3 DEF Has
<1>2. Has(h \o <<a, b>>, e) <=> Has(h, e) \/ e = a \/ e = b
  <2> DEFINE hab == h \o <<a, b>>
  <2>1. /\ hab \in Seq(Event)
        /\ Len(hab) = Len(h) + 2
        /\ \A i \in 1 .. Len(h) : hab[i] = h[i]
        /\ hab[Len(h) + 1] = a
        /\ hab[Len(h) + 2] = b
    OBVIOUS
  <2>2. DOMAIN hab = 1 .. Len(h) + 2 /\ DOMAIN h = 1 .. Len(h) /\ Len(h) \in Nat
    BY <2>1
  <2> HIDE DEF hab
  <2>3. ASSUME NEW i \in DOMAIN hab, hab[i] = e PROVE Has(h, e) \/ e = a \/ e = b
    <3>1. i \in 1 .. Len(h) \/ i = Len(h) + 1 \/ i = Len(h) + 2
      BY <2>2
    <3> QED
      BY <2>1, <2>2, <2>3, <3>1 DEF Has
  <2>4. ASSUME NEW i \in DOMAIN h, h[i] = e PROVE Has(hab, e)
    <3>1. i \in DOMAIN hab /\ hab[i] = e
      BY <2>1, <2>2, <2>4
    <3> QED
      BY <3>1 DEF Has
  <2>5. Len(h) + 1 \in DOMAIN hab /\ Len(h) + 2 \in DOMAIN hab
    BY <2>2
  <2>6. (e = a \/ e = b) => Has(hab, e)
    BY <2>1, <2>5 DEF Has
  <2>7. Has(hab, e) <=> Has(h, e) \/ e = a \/ e = b
    BY <2>3, <2>4, <2>6 DEF Has
  <2> QED
    BY <2>7 DEF hab
<1>3. ~Has(<<>>, e)
  BY DEF Has
<1> QED
  BY <1>1, <1>2, <1>3

\* Which events say that step n is completed.
LEMMA CompletedFacts ==
  ASSUME NEW n \in Steps
  PROVE  /\ Completed(n) <=> Has(history, On("STEP_COMPLETED", n))
         /\ Completed(n)' <=> Has(history', On("STEP_COMPLETED", n))
         /\ On("STEP_COMPLETED", n) \in Event
         /\ \A m : On("STEP_COMPLETED", n) = On("STEP_COMPLETED", m) <=> m = n
         /\ \A t, m : On("STEP_COMPLETED", n) = On(t, m) => t = "STEP_COMPLETED"
         /\ \A t : On("STEP_COMPLETED", n) # Whole(t)
<1>1. n # 0
  BY StepFacts
<1> QED
  BY <1>1, EventFacts DEF Completed, Logged, Has, On, Whole

\* A step that records no step as completed leaves the count right.
LEMMA CountKept ==
  ASSUME CompletedStepsCounted,
         WorkflowType = "INDEPENDENT" =>
           /\ exec'.completedSteps = exec.completedSteps
           /\ exec'.state = "RUNNING" => exec.state = "RUNNING"
           /\ \A n \in Steps : Completed(n)' <=> Completed(n)
           /\ \A n \in Steps : rows'[Task(n)].state # "NONE" => rows[Task(n)].state # "NONE"
  PROVE  CompletedStepsCounted'
<1> SUFFICES ASSUME WorkflowType = "INDEPENDENT"
             PROVE  /\ \A n \in Steps : rows'[Task(n)].state # "NONE" => ~Completed(n)'
                    /\ exec'.completedSteps = Cardinality({n \in Steps : Completed(n)'})
                    /\ exec'.state = "RUNNING" => exec'.completedSteps < TotalSteps
  BY DEF CompletedStepsCounted
<1>1. {n \in Steps : Completed(n)'} = {n \in Steps : Completed(n)}
  OBVIOUS
<1> QED
  BY <1>1 DEF CompletedStepsCounted

\* But for an INDEPENDENT execution any row there is is work to do.
LEMMA WorkFromRows ==
  ASSUME RowsFitState', WorkflowType # "INDEPENDENT",
         exec'.state \in {"RUNNING", "COMPENSATING"} =>
           \E s \in Slots : rows'[s].state # "NONE"
  PROVE  WorkToDo'
BY DEF WorkToDo, RowsFitState

\* A step that changes no execution and no history and starts or ends no live
\* row leaves the work to do.
LEMMA WorkKept ==
  ASSUME WorkToDo, RowsFitState', exec' = exec, history' = history,
         Closed(exec.state) \/ \A s \in Slots : Active(rows'[s]) <=> Active(rows[s])
  PROVE  WorkToDo'
<1>1. CASE WorkflowType # "INDEPENDENT"
  BY <1>1, WorkFromRows DEF WorkToDo, Closed, Active, Live
<1>2. CASE WorkflowType = "INDEPENDENT"
  <2>1. \A n \in Steps : Completed(n)' <=> Completed(n)
    BY DEF Completed, Logged
  <2>2. \A n \in Steps : Task(n) \in Slots
    BY SlotFacts DEF Task, Kinds
  <2> QED
    BY <1>2, <2>1, <2>2 DEF WorkToDo, Closed
<1> QED
  BY <1>1, <1>2

\* The ends a completion of an INDEPENDENT execution can have.
LEMMA IndependentEnds ==
  ASSUME TypeOK, LockDiscipline, RowsFitState, WorkflowType = "INDEPENDENT",
         NEW w \in Workers, Ends(w)
  PROVE  /\ RetryTask(w) \/ FailTaskCommit(w) \/ StepDone(w) \/ LastStepDone(w)
         /\ Step(w) \in Steps /\ holds[w].slot = Task(Step(w)) /\ Task(Step(w)) \in Slots
         /\ rows[Task(Step(w))].state # "NONE"
         /\ \A n \in Steps : n # Step(w) => Task(n) # Task(Step(w)) /\ Task(n) \in Slots
<1>1. /\ Step(w) \in Steps /\ holds[w].slot = <<holds[w].slot[1], Step(w)>>
      /\ holds[w].slot \in Slots /\ rows[holds[w].slot].state # "NONE"
  BY EndsRows, InFlightFacts DEF Own
<1>2. holds[w].slot[1] = "task"
  BY <1>1, SlotFacts DEF RowsFitState, Kinds, Comp
<1>3. holds[w].slot = Task(Step(w))
  BY <1>1, <1>2 DEF Task
<1>4. \A n \in Steps : n # Step(w) => Task(n) # Task(Step(w)) /\ Task(n) \in Slots
  BY SlotFacts DEF Task, Kinds
<1>5. RetryTask(w) \/ FailTaskCommit(w) \/ StepDone(w) \/ LastStepDone(w)
  BY <1>2 DEF Ends, RetryCompensation, StartCompensationFails, NothingToCompensate,
              StartCompensation, AdvanceStep, FinishWorkflow, FailCompensation,
              FinishCompensation, NextCompensation, SagaFailing, FailingForGood, Failing,
              Succeeding
<1> QED
  BY <1>1, <1>3, <1>4, <1>5

\* What these ends record.
LEMMA IndependentCompletes ==
  ASSUME TypeOK, LockDiscipline, RowsFitState, WorkflowType = "INDEPENDENT",
         NEW w \in Workers, Ends(w)
  PROVE  /\ RetryTask(w) \/ FailTaskCommit(w) =>
              \A n \in Steps : Completed(n)' <=> Completed(n)
         /\ StepDone(w) \/ LastStepDone(w) =>
              \A n \in Steps : Completed(n)' <=> Completed(n) \/ n = Step(w)
<1>1. Step(w) \in Steps /\ history \in Seq(Event)
  BY IndependentEnds DEF TypeOK
<1>2. CASE RetryTask(w)
  <2>1. history' = Append(history, On("STEP_RETRYING", Step(w)))
    BY <1>2 DEF RetryTask
  <2>2. \A n \in Steps : On("STEP_COMPLETED", n) # On("STEP_RETRYING", Step(w))
    BY CompletedFacts
  <2>3. ASSUME NEW n \in Steps PROVE Completed(n)' <=> Completed(n)
    <3>1. On("STEP_RETRYING", Step(w)) \in Event
      BY <1>1, EventFacts
    <3>2. Has(history', On("STEP_COMPLETED", n)) <=> Has(history, On("STEP_COMPLETED", n))
      BY <1>1, <2>1, <2>2, <3>1, HasFacts, CompletedFacts
    <3> QED
      BY <3>2, CompletedFacts
  <2> QED
    BY <1>2, <2>3 DEF RetryTask, StepDone, LastStepDone, Failing, Succeeding
<1>3. CASE FailTaskCommit(w)
  <2>1. history' = history \o <<On("STEP_FAILED", Step(w)), Whole("WORKFLOW_FAILED")>>
    BY <1>3 DEF FailTaskCommit
  <2>2. \A n \in Steps : On("STEP_COMPLETED", n) # On("STEP_FAILED", Step(w))
    BY CompletedFacts
  <2>3. ASSUME NEW n \in Steps PROVE Completed(n)' <=> Completed(n)
    <3>1. On("STEP_FAILED", Step(w)) \in Event /\ Whole("WORKFLOW_FAILED") \in Event
      BY <1>1, EventFacts
    <3>2. Has(history', On("STEP_COMPLETED", n)) <=> Has(history, On("STEP_COMPLETED", n))
      BY <1>1, <2>1, <2>2, <3>1, HasFacts, CompletedFacts
    <3> QED
      BY <3>2, CompletedFacts
  <2> QED
    BY <1>3, <2>3 DEF FailTaskCommit, StepDone, LastStepDone, Succeeding
<1>4. CASE StepDone(w)
  <2>1. history' = Append(history, On("STEP_COMPLETED", Step(w)))
    BY <1>4 DEF StepDone
  <2>2. ASSUME NEW n \in Steps PROVE Completed(n)' <=> Completed(n) \/ n = Step(w)
    <3>1. On("STEP_COMPLETED", Step(w)) \in Event
      BY <1>1, EventFacts
    <3>2. Has(history', On("STEP_COMPLETED", n)) <=>
            Has(history, On("STEP_COMPLETED", n)) \/ n = Step(w)
      BY <1>1, <2>1, <3>1, HasFacts, CompletedFacts
    <3> QED
      BY <3>2, CompletedFacts
  <2> QED
    BY <1>4, <2>2 DEF RetryTask, FailTaskCommit, StepDone, Failing, Succeeding
<1>5. CASE LastStepDone(w)
  <2>1. history' = history \o <<On("STEP_COMPLETED", Step(w)), Whole("WORKFLOW_COMPLETED")>>
    BY <1>5 DEF LastStepDone
  <2>2. ASSUME NEW n \in Steps PROVE Completed(n)' <=> Completed(n) \/ n = Step(w)
    <3>1. On("STEP_COMPLETED", Step(w)) \in Event /\ Whole("WORKFLOW_COMPLETED") \in Event
      BY <1>1, EventFacts
    <3>2. Has(history', On("STEP_COMPLETED", n)) <=>
            Has(history, On("STEP_COMPLETED", n)) \/ n = Step(w)
      BY <1>1, <2>1, <3>1, HasFacts, CompletedFacts
    <3> QED
      BY <3>2, CompletedFacts
  <2> QED
    BY <1>5, <2>2 DEF RetryTask, FailTaskCommit, LastStepDone, Failing, Succeeding
<1> QED
  BY <1>2, <1>3, <1>4, <1>5, IndependentEnds

\* However a completion ends, an open execution is left with work to do.
LEMMA WorkEnds ==
  ASSUME IInv, RowsFitState', NEW w \in Workers, Ends(w)
  PROVE  WorkToDo'
<1> USE DEF IInv
<1>1. CASE WorkflowType # "INDEPENDENT"
  <2>1. holds[w].slot \in Slots /\ exec.state # "NONE"
    BY EndsRows, InFlightFacts
  <2>2. CASE RetryTask(w) \/ RetryCompensation(w)
    <3>1. rows' = [rows EXCEPT ![holds[w].slot] =
                     Created(Deleted(Own(w)), Own(w).attempt + 1, Own(w).max)]
      BY <2>2 DEF RetryTask, RetryCompensation, Recreate
    <3>2. Deleted(Own(w)) \in Row
      BY <2>1, RowFacts DEF Own, TypeOK
    <3>3. rows'[holds[w].slot].state = "CREATED"
      BY <2>1, <3>1, <3>2, RowChanges DEF TypeOK
    <3> QED
      BY <1>1, <2>1, <3>3, WorkFromRows
  <2>3. ASSUME NEW s \in Slots, NEW a, NEW m,
               rows' = [WithoutOwn(w) EXCEPT ![s] = Created(@, a, m)]
        PROVE  WorkToDo'
    <3>1. rows'[s].state = "CREATED"
      BY <2>3, RowsKept, RowChanges
    <3> QED
      BY <1>1, <3>1, WorkFromRows
  <2>4. CASE StartCompensation(w)
    <3>1. PICK n \in Steps :
            rows' = [WithoutOwn(w) EXCEPT ![Comp(n)] = Created(@, 0, MaxAttempts[n])]
      BY <2>4 DEF StartCompensation
    <3> QED
      BY <2>3, <3>1, SlotFacts DEF Comp, Kinds
  <2>5. CASE NextCompensation(w)
    <3>1. PICK n \in Steps :
            rows' = [WithoutOwn(w) EXCEPT ![Comp(n)] = Created(@, 0, MaxAttempts[n])]
      BY <2>5 DEF NextCompensation
    <3> QED
      BY <2>3, <3>1, SlotFacts DEF Comp, Kinds
  <2>6. CASE AdvanceStep(w)
    <3>1. /\ Step(w) + 1 \in Steps
          /\ rows' = [WithoutOwn(w) EXCEPT ![Task(Step(w) + 1)] =
                        Created(@, 0, MaxAttempts[Step(w) + 1])]
      BY <2>6 DEF AdvanceStep
    <3> QED
      BY <2>3, <3>1, SlotFacts DEF Task, Kinds
  <2>7. CASE FailTaskCommit(w) \/ StartCompensationFails(w) \/ NothingToCompensate(w)
               \/ LastStepDone(w) \/ FinishWorkflow(w) \/ FailCompensation(w)
               \/ FinishCompensation(w)
    <3>1. Closed(exec'.state)
      BY <2>1, <2>7, EndsExec, OpenOrClosed DEF Closed
    <3> QED
      BY <1>1, <3>1, WorkFromRows DEF Closed
  <2>8. CASE StepDone(w)
    BY <1>1, <2>8 DEF StepDone
  <2> QED
    BY <2>2, <2>4, <2>5, <2>6, <2>7, <2>8 DEF Ends
<1>2. CASE WorkflowType = "INDEPENDENT"
  <2>1. /\ Step(w) \in Steps /\ holds[w].slot = Task(Step(w)) /\ Task(Step(w)) \in Slots
        /\ rows[Task(Step(w))].state # "NONE"
        /\ \A n \in Steps : n # Step(w) => Task(n) # Task(Step(w)) /\ Task(n) \in Slots
    BY <1>2, IndependentEnds
  <2>2. CASE RetryTask(w)
    <3>1. rows' = [rows EXCEPT ![Task(Step(w))] =
                     Created(Deleted(Own(w)), Own(w).attempt + 1, Own(w).max)]
      BY <2>1, <2>2 DEF RetryTask, Recreate
    <3>2. Deleted(Own(w)) \in Row
      BY <2>1, RowFacts DEF Own, TypeOK
    <3>3. Active(rows'[Task(Step(w))])
      BY <2>1, <3>1, <3>2, RowChanges DEF Active, Live, TypeOK
    <3>4. exec.state \in {"RUNNING", "COMPENSATING"} => Active(rows[Task(Step(w))])
      BY <2>1 DEF RowsFitState
    <3>5. exec' = exec
      BY <2>2 DEF RetryTask
    <3>6. \A n \in Steps : n # Step(w) => rows'[Task(n)] = rows[Task(n)]
      BY <2>1, <3>1 DEF TypeOK
    <3>7. \A n \in Steps : Completed(n)' <=> Completed(n)
      BY <1>2, <2>2, IndependentCompletes
    <3>8. ASSUME exec.state \in {"RUNNING", "COMPENSATING"}, NEW n \in Steps
          PROVE  Active(rows'[Task(n)]) <=> ~Completed(n)'
      <4>1. Active(rows[Task(n)]) <=> ~Completed(n)
        BY <1>2, <3>8 DEF WorkToDo
      <4>2. CASE n = Step(w)
        BY <3>3, <3>4, <3>7, <3>8, <4>1, <4>2
      <4>3. CASE n # Step(w)
        BY <3>6, <3>7, <4>1, <4>3
      <4> QED
        BY <4>2, <4>3
    <3> QED
      BY <1>2, <3>5, <3>8 DEF WorkToDo
  <2>3. CASE FailTaskCommit(w) \/ LastStepDone(w)
    BY <2>3, EndsExec DEF WorkToDo
  <2>4. CASE StepDone(w)
    <3>1. rows' = WithoutOwn(w)
      BY <2>4 DEF StepDone
    <3>2. ~Active(rows'[Task(Step(w))])
      BY <2>1, <3>1, RowsKept DEF Active, Live
    <3>3. \A n \in Steps : n # Step(w) => rows'[Task(n)] = rows[Task(n)]
      BY <2>1, <3>1, RowsKept
    <3>4. \A n \in Steps : Completed(n)' <=> Completed(n) \/ n = Step(w)
      BY <1>2, <2>4, IndependentCompletes
    <3>5. exec'.state = exec.state
      BY <2>4, EndsExec
    <3>6. ASSUME exec.state \in {"RUNNING", "COMPENSATING"}, NEW n \in Steps
          PROVE  Active(rows'[Task(n)]) <=> ~Completed(n)'
      <4>1. Active(rows[Task(n)]) <=> ~Completed(n)
        BY <1>2, <3>6 DEF WorkToDo
      <4>2. CASE n = Step(w)
        BY <3>2, <3>4, <4>2
      <4>3. CASE n # Step(w)
        BY <3>3, <3>4, <4>1, <4>3
      <4> QED
        BY <4>2, <4>3
    <3> QED
      BY <1>2, <3>5, <3>6 DEF WorkToDo
  <2> QED
    BY <1>2, <2>2, <2>3, <2>4, IndependentEnds
<1> QED
  BY <1>1, <1>2

\* Every step leaves an open execution with work to do.
LEMMA WorkStep ==
  ASSUME IInv, RowsFitState', [Next]_vars
  PROVE  WorkToDo'
<1> USE DEF IInv
<1>1. CASE UNCHANGED vars
  BY <1>1, WorkKept DEF vars
<1>2. CASE StartWorkflow
  <2>1. \A s \in FirstTasks : s \in Slots
    BY StepFacts, SlotFacts DEF FirstTasks, Task, Kinds
  <2>2. \A s \in FirstTasks : rows'[s].state = "CREATED"
    BY <1>2, <2>1, RowChanges DEF StartWorkflow, TypeOK
  <2>3. CASE WorkflowType # "INDEPENDENT"
    <3>1. Task(1) \in FirstTasks
      BY <2>3 DEF FirstTasks
    <3> QED
      BY <2>1, <2>2, <2>3, <3>1, WorkFromRows
  <2>4. CASE WorkflowType = "INDEPENDENT"
    <3>1. \A n \in Steps : Active(rows'[Task(n)])
      BY <2>2, <2>4 DEF FirstTasks, Active, Live
    <3>2. \A n \in Steps : ~Completed(n)'
      <4>1. history = <<>> /\ history' = Append(history, Whole("WORKFLOW_STARTED"))
        BY <1>2 DEF StartWorkflow
      <4>2. Whole("WORKFLOW_STARTED") \in Event /\ history \in Seq(Event)
        BY EventFacts DEF TypeOK
      <4> QED
        BY <4>1, <4>2, HasFacts, CompletedFacts
    <3> QED
      BY <2>4, <3>1, <3>2 DEF WorkToDo
  <2> QED
    BY <2>3, <2>4
<1>3. CASE (\E w \in Workers : Quiet(w)) \/ (\E s \in Slots : PollLost(s) \/ LeaseLapses(s))
  BY <1>3, RowsQuiet, WorkKept
<1>4. ASSUME NEW w \in Workers, Ends(w)
      PROVE  WorkToDo'
  BY <1>4, WorkEnds
<1>5. CASE CancelBegin \/ CancelTakesRow \/ CancelAborts
  BY <1>5, WorkKept DEF CancelBegin, CancelTakesRow, CancelAborts
<1>6. CASE CancelCommit
  BY <1>6, CancelChanges DEF WorkToDo
<1>7. CASE ExpireOverdueWorkflows
  BY <1>7, ExpireChanges DEF WorkToDo, Closed
<1>8. CASE ServerCrash
  BY <1>8, WorkKept DEF ServerCrash
<1>9. CASE RecoverWorkflows
  <2>1. UNCHANGED <<exec, rows, history>>
    BY <1>9, NoOrphan DEF RecoverWorkflows
  <2> QED
    BY <2>1, WorkKept
<1> QED
  BY <1>1, <1>2, <1>3, <1>4, <1>5, <1>6, <1>7, <1>8, <1>9
     DEF Next, WorkerStep, CompleteTask, CompleteCompensationTask, Ends, Quiet,
         CancelWorkflow

\* Every step keeps completed_steps the number of the completed steps.
LEMMA CountStep ==
  ASSUME IInv, [Next]_vars
  PROVE  CompletedStepsCounted'
<1> USE DEF IInv
<1> SUFFICES ASSUME WorkflowType = "INDEPENDENT"
             PROVE  CompletedStepsCounted'
  BY DEF CompletedStepsCounted
<1>1. ASSUME UNCHANGED <<exec, history>>,
             \A s \in Slots : rows'[s].state # "NONE" => rows[s].state # "NONE"
      PROVE  CompletedStepsCounted'
  <2>1. \A n \in Steps : Completed(n)' <=> Completed(n)
    BY <1>1 DEF Completed, Logged
  <2>2. \A n \in Steps : Task(n) \in Slots
    BY SlotFacts DEF Task, Kinds
  <2> QED
    BY <1>1, <2>1, <2>2, CountKept
<1>2. CASE UNCHANGED vars
  BY <1>1, <1>2 DEF vars
<1>3. CASE StartWorkflow
  <2>1. history = <<>> /\ history' = Append(history, Whole("WORKFLOW_STARTED"))
    BY <1>3 DEF StartWorkflow
  <2>2. Whole("WORKFLOW_STARTED") \in Event /\ history \in Seq(Event)
    BY EventFacts DEF TypeOK
  <2>3. \A n \in Steps : ~Completed(n)'
    BY <2>1, <2>2, HasFacts, CompletedFacts
  <2>4. {n \in Steps : Completed(n)'} = {}
    BY <2>3
  <2>5. exec'.completedSteps = 0
    BY <1>3, StateFacts DEF StartWorkflow, UpdateState, Conflict, NoExec
  <2>6. Cardinality({}) = 0
    BY FS_EmptySet
  <2>7. exec'.completedSteps = Cardinality({n \in Steps : Completed(n)'})
    BY <2>4, <2>5, <2>6
  <2>8. exec'.completedSteps < TotalSteps
    BY <2>5, TotalStepsAssumption
  <2> QED
    BY <2>3, <2>7, <2>8 DEF CompletedStepsCounted
<1>4. CASE (\E w \in Workers : Quiet(w)) \/ (\E s \in Slots : PollLost(s) \/ LeaseLapses(s))
  BY <1>1, <1>4, RowsQuiet
<1>5. ASSUME NEW w \in Workers, Ends(w)
      PROVE  CompletedStepsCounted'
  <2>1. /\ Step(w) \in Steps /\ holds[w].slot = Task(Step(w)) /\ Task(Step(w)) \in Slots
        /\ rows[Task(Step(w))].state # "NONE"
        /\ \A n \in Steps : n # Step(w) => Task(n) # Task(Step(w)) /\ Task(n) \in Slots
    BY <1>5, IndependentEnds
  <2>2. CASE RetryTask(w)
    <3>1. \A n \in Steps : Completed(n)' <=> Completed(n)
      BY <1>5, <2>2, IndependentCompletes
    <3>2. \A n \in Steps : rows'[Task(n)].state # "NONE" => rows[Task(n)].state # "NONE"
      BY <2>1, <2>2 DEF RetryTask, Recreate, TypeOK
    <3> QED
      BY <2>2, <3>1, <3>2, CountKept DEF RetryTask
  <2>3. CASE FailTaskCommit(w)
    <3>1. \A n \in Steps : Completed(n)' <=> Completed(n)
      BY <1>5, <2>3, IndependentCompletes
    <3>2. \A n \in Steps : rows'[Task(n)].state # "NONE" => rows[Task(n)].state # "NONE"
      <4>1. \A s \in Slots : rows'[s].state # "NONE" => rows[s].state # "NONE"
        BY <2>3, RowsKept DEF FailTaskCommit, Deleted, NoRow
      <4> QED
        BY <2>1, <4>1
    <3>3. exec'.completedSteps = exec.completedSteps
      BY <2>3 DEF FailTaskCommit, UpdateState, SaveError, TypeOK, Exec
    <3> QED
      BY <1>5, <2>3, <3>1, <3>2, <3>3, CountKept, EndsExec
  <2>4. ASSUME rows' = WithoutOwn(w),
               \A n \in Steps : Completed(n)' <=> Completed(n) \/ n = Step(w),
               exec'.completedSteps = exec.completedSteps + 1,
               exec'.state = "RUNNING" =>
                 exec.state = "RUNNING" /\ exec.completedSteps + 1 # TotalSteps
        PROVE  CompletedStepsCounted'
    <3> DEFINE done == {n \in Steps : Completed(n)}
    <3>1. ~Completed(Step(w))
      BY <2>1 DEF CompletedStepsCounted
    <3>2. {n \in Steps : Completed(n)'} = done \union {Step(w)} /\ Step(w) \notin done
      BY <2>1, <2>4, <3>1
    <3>3. IsFiniteSet(done)
      <4>1. IsFiniteSet(Steps) /\ done \subseteq Steps
        BY FS_Interval, TotalStepsAssumption DEF Steps
      <4> HIDE DEF done
      <4> QED
        BY <4>1, FS_Subset
    <3>4. exec.completedSteps = Cardinality(done)
      BY DEF CompletedStepsCounted
    <3> HIDE DEF done
    <3>5. Cardinality(done \union {Step(w)}) = Cardinality(done) + 1
      BY <3>2, <3>3, FS_AddElement
    <3>6. \A n \in Steps : rows'[Task(n)].state # "NONE" => ~Completed(n)'
      <4>1. rows'[Task(Step(w))].state = "NONE"
        BY <2>1, <2>4, RowsKept
      <4>2. \A n \in Steps : n # Step(w) => rows'[Task(n)] = rows[Task(n)]
        BY <2>1, <2>4, RowsKept
      <4> QED
        BY <2>4, <4>1, <4>2 DEF CompletedStepsCounted
    <3>7. exec'.state = "RUNNING" => exec'.completedSteps < TotalSteps
      BY <2>4, TotalStepsAssumption DEF CompletedStepsCounted, TypeOK, Exec
    <3> QED
      BY <2>4, <3>2, <3>4, <3>5, <3>6, <3>7 DEF CompletedStepsCounted
  <2>5. CASE StepDone(w)
    <3>1. exec'.completedSteps = exec.completedSteps + 1
      BY <2>5 DEF StepDone, IncrementCompletedSteps, TypeOK, Exec
    <3> QED
      BY <1>5, <2>4, <2>5, <3>1, IndependentCompletes, EndsExec DEF StepDone
  <2>6. CASE LastStepDone(w)
    <3>1. exec'.completedSteps = exec.completedSteps + 1
      BY <2>6 DEF LastStepDone, IncrementCompletedSteps, UpdateState, SaveResult, TypeOK, Exec
    <3> QED
      BY <1>5, <2>4, <2>6, <3>1, IndependentCompletes, EndsExec DEF LastStepDone
  <2> QED
    BY <1>5, <2>2, <2>3, <2>5, <2>6, IndependentEnds
<1>6. ASSUME NEW t, Whole(t) \in Event, history' = Append(history, Whole(t))
      PROVE  \A n \in Steps : Completed(n)' <=> Completed(n)
  <2> SUFFICES ASSUME NEW n \in Steps PROVE Completed(n)' <=> Completed(n)
    OBVIOUS
  <2>1. Has(history', On("STEP_COMPLETED", n)) <=>
          Has(history, On("STEP_COMPLETED", n)) \/ On("STEP_COMPLETED", n) = Whole(t)
    BY <1>6, HasFacts DEF TypeOK
  <2> QED
    BY <2>1, CompletedFacts
<1>7. CASE CancelBegin \/ CancelTakesRow \/ CancelAborts
  BY <1>1, <1>7 DEF CancelBegin, CancelTakesRow, CancelAborts
<1>8. CASE CancelCommit
  <2>1. \A n \in Steps : Completed(n)' <=> Completed(n)
    BY <1>6, <1>8, EventFacts DEF CancelCommit
  <2>2. exec'.completedSteps = exec.completedSteps /\ exec'.state # "RUNNING"
    BY <1>8, CancelChanges DEF TypeOK, Exec
  <2>3. \A n \in Steps : rows'[Task(n)].state # "NONE" => rows[Task(n)].state # "NONE"
    BY <1>8, CancelChanges, SlotFacts DEF Task, Kinds
  <2> QED
    BY <2>1, <2>2, <2>3, CountKept
<1>9. CASE ExpireOverdueWorkflows
  <2>1. \A n \in Steps : Completed(n)' <=> Completed(n)
    <3>1. CASE ExpireTimedOut
      BY <1>6, <3>1, EventFacts DEF ExpireTimedOut
    <3>2. CASE ExpireFailed
      BY <1>6, <3>2, EventFacts DEF ExpireFailed
    <3>3. CASE ExpireOverdue \/ ExpireSweep \/ ExpireTakesRow \/ ExpireSwept
                 \/ ExpireStatementFails
      <4>1. history' = history
        BY <3>3 DEF ExpireOverdue, ExpireSweep, ExpireTakesRow, ExpireSwept,
                    ExpireStatementFails
      <4> QED
        BY <4>1 DEF Completed, Logged
    <3> QED
      BY <1>9, <3>1, <3>2, <3>3 DEF ExpireOverdueWorkflows
  <2>2. exec'.completedSteps = exec.completedSteps
    <3>1. CASE ExpireOverdue
      BY <3>1 DEF ExpireOverdue, SaveError, TypeOK, Exec
    <3>2. CASE ExpireSweep \/ ExpireTakesRow \/ ExpireSwept
      BY <3>2 DEF ExpireSweep, ExpireTakesRow, ExpireSwept
    <3>3. CASE ExpireTimedOut \/ ExpireFailed \/ ExpireStatementFails
      BY <3>3 DEF ExpireTimedOut, ExpireFailed, ExpireStatementFails
    <3> QED
      BY <1>9, <3>1, <3>2, <3>3 DEF ExpireOverdueWorkflows
  <2>3. exec'.state # "RUNNING"
    BY <1>9, ExpireChanges DEF Closed
  <2>4. \A n \in Steps : rows'[Task(n)].state # "NONE" => rows[Task(n)].state # "NONE"
    BY <1>9, ExpireChanges, SlotFacts DEF Task, Kinds
  <2> QED
    BY <2>1, <2>2, <2>3, <2>4, CountKept
<1>10. CASE ServerCrash
  BY <1>1, <1>10 DEF ServerCrash
<1>11. CASE RecoverWorkflows
  BY <1>1, <1>11, NoOrphan DEF RecoverWorkflows
<1> QED
  BY <1>2, <1>3, <1>4, <1>5, <1>7, <1>8, <1>9, <1>10, <1>11
     DEF Next, WorkerStep, CompleteTask, CompleteCompensationTask, Ends, Quiet,
         CancelWorkflow

-----------------------------------------------------------------------------
(* The inductive invariant holds, and with it its parts.                    *)

\* The inductive invariant holds initially.
LEMMA IInvInit == Init => IInv
<1> SUFFICES ASSUME Init PROVE IInv
  OBVIOUS
<1>1. LockDiscipline
  BY DEF Init, LockDiscipline, InFlight, ExecLocked, IdleCall, Idle
<1>2. RowsFitState
  BY SlotFacts DEF Init, RowsFitState, NoRow, NoExec, Idle, Comp, Kinds
<1>3. WorkToDo
  BY DEF Init, WorkToDo, NoExec
<1>4. CompletedStepsCounted
  <2>1. \A n \in Steps : ~Completed(n)
    BY DEF Init, Completed, Logged
  <2>2. {n \in Steps : Completed(n)} = {}
    BY <2>1
  <2>3. exec.completedSteps = 0 /\ exec.state # "RUNNING"
    BY DEF Init, NoExec
  <2> QED
    BY <2>1, <2>2, <2>3, FS_EmptySet DEF CompletedStepsCounted
<1> QED
  BY <1>1, <1>2, <1>3, <1>4, InitType DEF IInv, Init

\* Every step, and every stutter, preserves the inductive invariant.
LEMMA IInvNext == IInv /\ [Next]_vars => IInv'
<1> SUFFICES ASSUME IInv, [Next]_vars PROVE IInv'
  OBVIOUS
<1>1. TypeOK'
  BY TypeStep DEF IInv
<1>2. LockDiscipline'
  BY LockStep DEF IInv
<1>3. RowsFitState'
  BY RowsStep
<1>4. WorkToDo'
  BY <1>3, WorkStep
<1>5. CompletedStepsCounted'
  BY CountStep
<1>6. exec'.state = "NONE" => history' = <<>>
  <2>1. CASE UNCHANGED vars
    BY <2>1 DEF vars, IInv
  <2>2. CASE StartWorkflow
    BY <2>2, StateFacts DEF StartWorkflow, UpdateState, Conflict, NoExec
  <2>3. CASE (\E w \in Workers : Quiet(w)) \/ (\E s \in Slots : PollLost(s) \/ LeaseLapses(s))
    BY <2>3, RowsQuiet DEF IInv
  <2>4. CASE \E w \in Workers : Ends(w)
    BY <2>4, EndsExec DEF IInv
  <2>5. CASE CancelBegin \/ CancelTakesRow \/ CancelAborts \/ ServerCrash \/ RecoverWorkflows
    BY <2>5 DEF CancelBegin, CancelTakesRow, CancelAborts, ServerCrash, RecoverWorkflows, IInv
  <2>6. CASE CancelCommit
    BY <2>6, CancelChanges DEF IInv
  <2>7. CASE ExpireOverdueWorkflows
    BY <2>7, ExpireChanges DEF IInv, Closed
  <2> QED
    BY <2>1, <2>2, <2>3, <2>4, <2>5, <2>6, <2>7
       DEF Next, WorkerStep, CompleteTask, CompleteCompensationTask, Ends, Quiet,
           CancelWorkflow
<1> QED
  BY <1>1, <1>2, <1>3, <1>4, <1>5, <1>6 DEF IInv

\* The inductive invariant holds in every reachable state.
LEMMA IInvAlways == Spec => []IInv
  BY IInvInit, IInvNext, PTL DEF Spec

\* The rows, the calls in flight and the history always have the shape the
\* repositories give them.
THEOREM TypeCorrect == Spec => []TypeOK
<1>1. IInv => TypeOK
  BY DEF IInv
<1> QED
  BY <1>1, IInvAlways, PTL

\* The row locks do their work: every completion in flight still has its row,
\* no two have the same, and a transaction that sweeps has the execution row
\* to itself and the execution is open.
THEOREM LocksHold == Spec => []LockDiscipline
<1>1. IInv => LockDiscipline
  BY DEF IInv
<1> QED
  BY <1>1, IInvAlways, PTL

\* The rows of an open execution are live and fit its state; a CHAIN or SAGA
\* never has two.
THEOREM RowsFit == Spec => []RowsFitState
<1>1. IInv => RowsFitState
  BY DEF IInv
<1> QED
  BY <1>1, IInvAlways, PTL

\* An open execution is never stranded: CompleteTask, its retries, rollbacks
\* and crashes always leave it the rows it needs to go on, and no more.
THEOREM WorkRemains == Spec => []WorkToDo
<1>1. IInv => WorkToDo
  BY DEF IInv
<1> QED
  BY <1>1, IInvAlways, PTL

\* completed_steps is right, and an INDEPENDENT execution that is RUNNING has
\* a step to complete.
THEOREM CountRight == Spec => []CompletedStepsCounted
<1>1. IInv => CompletedStepsCounted
  BY DEF IInv
<1> QED
  BY <1>1, IInvAlways, PTL

\* RecoverWorkflows never schedules a task.
THEOREM RecoveryHarmless == Spec => RecoveryAddsNothing
<1>1. IInv /\ [Next]_vars => [server = "down" /\ server' = "up" => rows' = rows]_vars
  <2> SUFFICES ASSUME IInv, Next, server = "down", server' = "up" PROVE rows' = rows
    OBVIOUS
  <2>1. server' # server
    OBVIOUS
  <2>2. RecoverWorkflows
    <3>1. ASSUME NEW w \in Workers PROVE ~Ends(w)
      BY <2>1 DEF Ends, RetryTask, RetryCompensation, FailTaskCommit,
                  StartCompensationFails, NothingToCompensate, StartCompensation, StepDone,
                  LastStepDone, AdvanceStep, FinishWorkflow, FailCompensation,
                  FinishCompensation, NextCompensation
    <3>2. ASSUME NEW w \in Workers PROVE ~Quiet(w)
      BY <2>1 DEF Quiet, Poll, Heartbeat, HeartbeatRejected, WorkerForgets,
                  CompleteUnknown, CompleteIgnored, CompleteBegin, FailTask,
                  FailTaskTakesRow, SaveCheckpoint, CallAborts
    <3>3. ASSUME NEW s \in Slots PROVE ~PollLost(s) /\ ~LeaseLapses(s)
      BY <2>1 DEF PollLost, LeaseLapses
    <3>4. ~CancelWorkflow
      BY <2>1 DEF CancelWorkflow, CancelBegin, CancelTakesRow, CancelCommit, CancelAborts
    <3>5. ~ExpireOverdueWorkflows
      BY <2>1 DEF ExpireOverdueWorkflows, ExpireOverdue, ExpireSweep, ExpireTakesRow,
                  ExpireSwept, ExpireTimedOut, ExpireFailed, ExpireStatementFails
    <3>6. ~StartWorkflow /\ ~ServerCrash
      BY <2>1 DEF StartWorkflow, ServerCrash
    <3> QED
      BY <3>1, <3>2, <3>3, <3>4, <3>5, <3>6
         DEF Next, WorkerStep, CompleteTask, CompleteCompensationTask, Ends, Quiet
  <2> QED
    BY <2>2, NoOrphan DEF RecoverWorkflows, IInv
<1> QED
  BY <1>1, IInvAlways, PTL DEF Spec, RecoveryAddsNothing

\* What a step may do to the outcome of an execution.
OutcomeKept ==
  /\ exec'.state # exec.state =>
       IF exec.state = "NONE" THEN exec'.state = "RUNNING"
                              ELSE ValidTransition(exec.state, exec'.state)
  /\ exec.state \in {"COMPLETED", "FAILED", "CANCELLED"} =>
       /\ exec'.result = exec.result
       /\ WorkflowType # "SAGA" => exec'.error = exec.error

\* However a completion ends, it moves the execution along validTransitions or not at all.
LEMMA OutcomeEnds ==
  ASSUME IInv, NEW w \in Workers, Ends(w)
  PROVE  OutcomeKept
<1> USE DEF IInv
<1>1. /\ holds[w].slot \in Slots /\ rows[holds[w].slot].state # "NONE"
      /\ exec.state # "NONE" /\ exec \in Exec
      /\ Step(w) \in Steps /\ holds[w].slot = <<holds[w].slot[1], Step(w)>>
  BY EndsRows, InFlightFacts DEF Own, TypeOK
<1>2. exec'.state # exec.state => ValidTransition(exec.state, exec'.state)
  <2>1. CASE LastStepDone(w) \/ FinishWorkflow(w)
    <3>1. holds[w].slot[1] = "task"
      BY <2>1 DEF LastStepDone, FinishWorkflow, Succeeding
    <3>2. exec.state = "RUNNING"
      BY <1>1, <2>1, <3>1, EndsExec, OpenOrClosed DEF RowsFitState
    <3> QED
      BY <2>1, <3>2, EndsExec, StateFacts
  <2>2. CASE ~(LastStepDone(w) \/ FinishWorkflow(w))
    <3>1. exec'.state = exec.state
            \/ (exec'.state \in {"FAILED", "COMPENSATING"} /\ ~IsTerminal(exec.state))
      BY <2>2, EndsExec DEF Ends
    <3>2. ~IsTerminal(exec.state) => exec.state \in {"RUNNING", "COMPENSATING"}
      BY <1>1, OpenOrClosed
    <3> QED
      BY <3>1, <3>2, StateFacts
  <2> QED
    BY <2>1, <2>2
<1>3. ASSUME Closed(exec.state)
      PROVE  exec'.result = exec.result /\ (WorkflowType # "SAGA" => exec'.error = exec.error)
  <2>1. IsTerminal(exec.state) /\ Conflict(exec)
    BY <1>1, <1>3, OpenOrClosed DEF Conflict
  <2>2. CASE RetryTask(w) \/ RetryCompensation(w)
    BY <2>2 DEF RetryTask, RetryCompensation
  <2>3. CASE StepDone(w) \/ NextCompensation(w) \/ AdvanceStep(w)
    BY <1>1, <2>1, <2>3
       DEF StepDone, NextCompensation, AdvanceStep, UpdateStepCursor,
           IncrementCompletedSteps, IncrementCompensationDone, Exec
  <2>4. CASE StartCompensationFails(w)
    BY <1>1, <2>1, <2>4
       DEF StartCompensationFails, SagaFailing, UpdateState, SaveError, Exec, Conflict
  <2>5. CASE FailCompensation(w)
    <3>1. holds[w].slot = Comp(Step(w))
      BY <1>1, <2>5 DEF FailCompensation, FailingForGood, Failing, Comp
    <3>2. WorkflowType = "SAGA"
      BY <1>1, <3>1 DEF RowsFitState
    <3> QED
      BY <1>1, <2>1, <2>5, <3>2 DEF FailCompensation, UpdateState, SaveError, Exec, Conflict
  <2> QED
    BY <2>1, <2>2, <2>3, <2>4, <2>5, EndsExec DEF Ends
<1> QED
  BY <1>1, <1>2, <1>3 DEF OutcomeKept, Closed

\* Every step keeps the outcome of a closed execution and moves an open one
\* along validTransitions.
LEMMA OutcomeStep ==
  ASSUME IInv, [Next]_vars
  PROVE  OutcomeKept
<1> USE DEF IInv
<1>0. CASE UNCHANGED vars
  BY <1>0 DEF vars, OutcomeKept
<1>1. CASE StartWorkflow
  BY <1>1, StateFacts DEF StartWorkflow, UpdateState, Conflict, NoExec, OutcomeKept
<1>2. CASE (\E w \in Workers : Quiet(w)) \/ (\E s \in Slots : PollLost(s) \/ LeaseLapses(s))
  BY <1>2, RowsQuiet DEF OutcomeKept
<1>3. CASE \E w \in Workers : Ends(w)
  BY <1>3, OutcomeEnds
<1>4. CASE CancelBegin \/ CancelTakesRow \/ CancelAborts \/ ServerCrash \/ RecoverWorkflows
  BY <1>4 DEF CancelBegin, CancelTakesRow, CancelAborts, ServerCrash, RecoverWorkflows,
              OutcomeKept
<1>5. CASE CancelCommit
  BY <1>5, CancelChanges, StateFacts DEF OutcomeKept
<1>6. CASE ExpireOverdueWorkflows
  <2>1. CASE exec' = exec
    BY <2>1 DEF OutcomeKept
  <2>2. CASE exec' # exec
    <3>1. ExpireOverdue
      <4>1. ~ExpireSweep /\ ~ExpireTakesRow /\ ~ExpireSwept
        BY <2>2 DEF ExpireSweep, ExpireTakesRow, ExpireSwept
      <4>2. ~ExpireTimedOut /\ ~ExpireFailed /\ ~ExpireStatementFails
        BY <2>2 DEF ExpireTimedOut, ExpireFailed, ExpireStatementFails
      <4> QED
        BY <1>6, <4>1, <4>2 DEF ExpireOverdueWorkflows
    <3>2. exec.state \in {"RUNNING", "COMPENSATING"} /\ exec'.state = "FAILED"
      <4>1. SaveError(exec, "timeout") \in Exec
        BY ExecFacts DEF TypeOK, Errors
      <4> QED
        BY <3>1, <4>1 DEF ExpireOverdue, RowsFitState, Exec
    <3> QED
      BY <3>2, StateFacts DEF OutcomeKept
  <2> QED
    BY <2>1, <2>2
<1> QED
  BY <1>0, <1>1, <1>2, <1>3, <1>4, <1>5, <1>6
     DEF Next, WorkerStep, CompleteTask, CompleteCompensationTask, Ends, Quiet,
         CancelWorkflow

\* The life cycle of an execution is the one of validTransitions, and its
\* outcome does not change any more once it is closed.
THEOREM OutcomeStays == Spec => OutcomeFrozen
<1>1. IInv /\ [Next]_vars => [OutcomeKept]_vars
  BY OutcomeStep DEF OutcomeKept
<1> QED
  BY <1>1, IInvAlways, PTL DEF Spec, OutcomeFrozen, OutcomeKept
=============================================================================
