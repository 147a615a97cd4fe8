-------------------------- MODULE WorkflowExecution --------------------------
(***************************************************************************)
(* The life of one workflow execution in the AntFlow server: the database  *)
(* rows it owns, the RPC handlers, the deadline sweeper and the recovery   *)
(* pass that change them, and the workers that run its tasks.              *)
(*                                                                         *)
(* PostgreSQL runs every handler at READ COMMITTED.  A handler is split    *)
(* where it can be held up or overtaken: where it takes the lock of its    *)
(* own task row, where it saves a checkpoint outside its transaction,      *)
(* where a sweeping UPDATE has read its snapshot and may wait for the rows *)
(* of others, and where it commits.  Between two such points the           *)
(* statements of a transaction touch only rows it has locked or created,   *)
(* so they are one action, taken when the transaction commits.             *)
(***************************************************************************)
EXTENDS Naturals, Sequences, FiniteSets, StateMachine

CONSTANTS
  Workers,        \* task slots of the connected workers
  WorkflowType,   \* kind of the workflow definition
  TotalSteps,     \* steps of the definition, numbered from 1
  Compensable,    \* steps that have a compensation handler
  MaxAttempts     \* attempt limit of each step

ASSUME WorkflowTypeAssumption == WorkflowType \in {"CHAIN", "INDEPENDENT", "SAGA"}
ASSUME TotalStepsAssumption == TotalSteps \in Nat \ {0}

Steps == 1 .. TotalSteps

ASSUME CompensableAssumption == Compensable \subseteq Steps
ASSUME MaxAttemptsAssumption == MaxAttempts \in [Steps -> Nat \ {0}]

VARIABLES
  exec,        \* the workflow_execution row
  rows,        \* the task and compensation_task rows
  history,     \* the committed history_event rows, in order
  checkpoint,  \* steps that have a checkpoint row
  notJson,     \* INDEPENDENT: completed steps whose output is not JSON
  holds,       \* the task each worker was handed, if any
  call,        \* the completion each worker has in flight
  cancel,      \* the CancelWorkflow transaction in flight
  expire,      \* the deadline sweeper's progress
  server       \* whether the server process is up

vars == <<exec, rows, history, checkpoint, notJson, holds, call, cancel, expire, server>>

-----------------------------------------------------------------------------
(* The rows.  A step has at most one row in each table (the UNIQUE          *)
(* constraint), so rows are indexed by table and step; "gen" tells a row    *)
(* from the rows that had its place before, as the uuid key does.           *)

Kinds == {"task", "comp"}
Slots == Kinds \X Steps
Task(n) == <<"task", n>>
Comp(n) == <<"comp", n>>
Live == {"CREATED", "RUNNING"}

Row == [state : Live \union {"NONE", "COMPLETED", "FAILED", "CANCELLED"},
        gen : Nat, attempt : Nat, max : Nat, lease : {"held", "lapsed"}]

NoRow == [state |-> "NONE", gen |-> 0, attempt |-> 0, max |-> 0, lease |-> "held"]

Ref == [slot : Slots, gen : Nat]
NoRef == [slot |-> <<"none", 0>>, gen |-> 0]

\* Only "attempt < max" is ever asked of the counter, so it stops at max.
Bump(r) == IF r.attempt < r.max THEN r.attempt + 1 ELSE r.attempt

Created(r, attempt, max) ==
  [state |-> "CREATED", gen |-> r.gen + 1, attempt |-> attempt, max |-> max,
   lease |-> "held"]

Deleted(r) == [NoRow EXCEPT !.gen = r.gen]

\* Fault injection: handing the task out does not count as an attempt.
ClaimedUncounted(r) == [r EXCEPT !.state = "RUNNING", !.lease = "held"]

\* What FindAndLockPending makes of the row it picked.
Claimed(r) == [r EXCEPT !.state = "RUNNING", !.attempt = Bump(r), !.lease = "held"]

RenewLock(r) == [r EXCEPT !.lease = "held"]

Lapsed(r) == [r EXCEPT !.lease = "lapsed"]

Cancelled(r) == [r EXCEPT !.state = "CANCELLED"]

UpdateCompleted(r, err) == [r EXCEPT !.state = IF err THEN "FAILED" ELSE "COMPLETED"]

Active(r) == r.state \in Live

\* Fault injection: a lapsed lease is not taken over.
FreshOnly(r) == r.state = "CREATED"

Eligible(r) == r.state = "CREATED" \/ (r.state = "RUNNING" /\ r.lease = "lapsed")

-----------------------------------------------------------------------------
(* The execution row.  "Conflict" is the WHERE clause that keeps a closed   *)
(* execution from changing: the UPDATE then matches no row.                 *)

Errors == {"none", "step", "timeout", "rollback", "start"}

NoExec == [state |-> "NONE", deadline |-> FALSE, currentStep |-> 0,
           completedSteps |-> 0, compTotal |-> 0, compDone |-> 0,
           result |-> FALSE, error |-> "none"]

Exec == [state : States \union {"NONE"}, deadline : BOOLEAN, currentStep : Nat,
         completedSteps : Nat, compTotal : Nat, compDone : Nat,
         result : BOOLEAN, error : Errors]

\* Fault injection: the UPDATE has no guard on the state.
NoConflict(e) == FALSE

Conflict(e) == IsTerminal(e.state)

UpdateState(e, next) == IF Conflict(e) THEN e ELSE [e EXCEPT !.state = next]

UpdateStepCursor(e, next) ==
  IF Conflict(e) THEN e ELSE [e EXCEPT !.currentStep = next]

SaveResult(e) == IF Conflict(e) THEN e ELSE [e EXCEPT !.result = TRUE]

SaveError(e, why) == [e EXCEPT !.error = why]

\* Fault injection: the increment is lost.
IncrementLost(e) == e

IncrementCompletedSteps(e) == [e EXCEPT !.completedSteps = @ + 1]

IncrementCompensationDone(e) == [e EXCEPT !.compDone = @ + 1]

\* Fault injection: the compensation that is started is not counted.
SetRemainingTotal(e, n) == [e EXCEPT !.compTotal = n - 1]

SetCompensationTotal(e, n) == [e EXCEPT !.compTotal = n]

-----------------------------------------------------------------------------
(* History.  Step 0 stands for an event of the workflow as a whole.         *)

StepEvents == {"STEP_SCHEDULED", "STEP_COMPLETED", "STEP_FAILED", "STEP_RETRYING",
               "COMPENSATION_COMPLETED", "COMPENSATION_FAILED"}
WorkflowEvents == {"WORKFLOW_STARTED", "WORKFLOW_COMPLETED", "WORKFLOW_FAILED",
                   "WORKFLOW_CANCELLED", "WORKFLOW_TIMED_OUT",
                   "COMPENSATION_STARTED", "SAGA_ROLLED_BACK",
                   "SAGA_ROLLBACK_FAILED"}

Event == [type : StepEvents \union WorkflowEvents, step : Steps \union {0}]

On(type, n) == [type |-> type, step |-> n]
Whole(type) == On(type, 0)

Logged(event) == \E i \in DOMAIN history : history[i] = event

\* GetCompensationSteps cut down to the steps GetStepOutputs has an output of.
ToUndo(upTo) ==
  {n \in Compensable : n <= upTo /\ Logged(On("STEP_COMPLETED", n))}

-----------------------------------------------------------------------------
(* Locks.  A completion in flight holds its row from its first statement.   *)
(* A sweeping transaction has locked the execution row and read the live    *)
(* rows: it waits for the lock of each in turn and keeps those it has taken.*)

InFlight(w) == call[w].stage # "idle"

RefOf(s) == [slot |-> s, gen |-> rows[s].gen]

\* Fault injection: a task that is gone is completed all the same.
ExistsAnyhow(ref) == ref # NoRef

Exists(ref) == ref # NoRef /\ rows[ref.slot].gen = ref.gen /\ rows[ref.slot].state # "NONE"

\* Fault injection: only sweeps lock rows, completions do not.
LockedBySweep(ref) == ref \in cancel.taken \union expire.taken

Locked(ref) ==
  \/ \E w \in Workers : InFlight(w) /\ (holds[w] = ref \/ ref \in call[w].taken)
  \/ ref \in cancel.taken \union expire.taken

\* Fault injection: the tasks are swept before the execution row is updated, so
\* that a sweep of CompleteTask does not hold it.
LockedByCancel == cancel.stage = "sweep"

ExecLocked == cancel.stage = "sweep" \/ \E w \in Workers : call[w].stage = "sweep"

LiveRefs == {RefOf(s) : s \in {s \in Slots : Active(rows[s])}}

\* A sweep after it has locked one more row of its snapshot.
TakesRow(sweep) ==
  {[sweep EXCEPT !.waits = @ \ {ref}, !.taken = @ \union {ref}] :
     ref \in {r \in sweep.waits : ~Locked(r)}}

\* CancelByExecution updates the rows its snapshot found, if they are still
\* there and live once it has their locks.
CancelByExecution(taken) ==
  [s \in Slots |-> IF RefOf(s) \in taken /\ Active(rows[s])
                     THEN Cancelled(rows[s])
                     ELSE rows[s]]

IdleCall == [stage |-> "idle", err |-> FALSE, seen |-> "NONE", waits |-> {}, taken |-> {}]

Call == [stage : {"idle", "open", "saved", "sweep"}, err : BOOLEAN,
         seen : States \union {"NONE"}, waits : SUBSET Ref, taken : SUBSET Ref]

Idle == [stage |-> "idle", waits |-> {}, taken |-> {}]

Init ==
  /\ exec = NoExec
  /\ rows = [s \in Slots |-> NoRow]
  /\ history = <<>>
  /\ checkpoint = {}
  /\ notJson = {}
  /\ holds = [w \in Workers |-> NoRef]
  /\ call = [w \in Workers |-> IdleCall]
  /\ cancel = Idle
  /\ expire = Idle
  /\ server = "up"

-----------------------------------------------------------------------------
(* Starting, handing out and keeping tasks.                                 *)

FirstTasks == {Task(n) : n \in IF WorkflowType = "INDEPENDENT" THEN Steps ELSE {1}}

\* The row is CREATED and then RUNNING inside one transaction.
StartWorkflow ==
  /\ server = "up"
  /\ exec.state = "NONE"
  /\ \E d \in BOOLEAN :
       exec' = UpdateState([NoExec EXCEPT !.state = "CREATED", !.deadline = d], "RUNNING")
  /\ history' = Append(history, Whole("WORKFLOW_STARTED"))
  /\ rows' = [s \in Slots |-> IF s \in FirstTasks
                                THEN Created(rows[s], 0, MaxAttempts[s[2]])
                                ELSE rows[s]]
  /\ UNCHANGED <<checkpoint, notJson, holds, call, cancel, expire, server>>

\* FindAndLockPending claims a row: FOR UPDATE SKIP LOCKED passes over the
\* rows completions have locked.
Claim(s) ==
  /\ server = "up"
  /\ Eligible(rows[s])
  /\ ~Locked(RefOf(s))
  /\ rows' = [rows EXCEPT ![s] = Claimed(rows[s])]

\* PollTask and PollCompensationTask, and the stream delivers the task.
Poll(w, s) ==
  /\ holds[w] = NoRef
  /\ Claim(s)
  /\ holds' = [holds EXCEPT ![w] = RefOf(s)]
  /\ UNCHANGED <<exec, history, checkpoint, notJson, call, cancel, expire, server>>

\* The task is claimed and the stream breaks before the worker has it.
PollLost(s) ==
  /\ Claim(s)
  /\ UNCHANGED <<exec, history, checkpoint, notJson, holds, call, cancel, expire, server>>

\* locked_until passes.
LeaseLapses(s) ==
  /\ rows[s].state = "RUNNING"
  /\ rows[s].lease = "held"
  /\ rows' = [rows EXCEPT ![s] = Lapsed(rows[s])]
  /\ UNCHANGED <<exec, history, checkpoint, notJson, holds, call, cancel, expire, server>>

\* HeartbeatTask and HeartbeatCompensationTask: the row is found by id and
\* state alone, whoever runs it now and whether or not its lease has lapsed.
Heartbeat(w) ==
  /\ server = "up"
  /\ ~InFlight(w)
  /\ Exists(holds[w])
  /\ ~Locked(holds[w])
  /\ rows[holds[w].slot].state = "RUNNING"
  /\ rows' = [rows EXCEPT ![holds[w].slot] = RenewLock(rows[holds[w].slot])]
  /\ UNCHANGED <<exec, history, checkpoint, notJson, holds, call, cancel, expire, server>>

\* No row matched: the worker is told to stop.
HeartbeatRejected(w) ==
  /\ server = "up"
  /\ ~InFlight(w)
  /\ holds[w] # NoRef
  /\ ~Locked(holds[w])
  /\ ~(Exists(holds[w]) /\ rows[holds[w].slot].state = "RUNNING")
  /\ holds' = [holds EXCEPT ![w] = NoRef]
  /\ UNCHANGED <<exec, rows, history, checkpoint, notJson, call, cancel, expire, server>>

\* The worker crashes, or gives the task up without a word.
WorkerForgets(w) ==
  /\ holds[w] # NoRef
  /\ ~InFlight(w)
  /\ holds' = [holds EXCEPT ![w] = NoRef]
  /\ UNCHANGED <<exec, rows, history, checkpoint, notJson, call, cancel, expire, server>>

-----------------------------------------------------------------------------
(* CompleteTask and CompleteCompensationTask, up to where they part.        *)

\* Can w's report of its task get the lock of the row?
Reporting(w) ==
  /\ server = "up"
  /\ ~InFlight(w)
  /\ holds[w] # NoRef
  /\ ~Locked(holds[w])

\* UpdateCompleted matches no row and GetByID finds none: rolled back.
CompleteUnknown(w) ==
  /\ Reporting(w)
  /\ ~Exists(holds[w])
  /\ holds' = [holds EXCEPT ![w] = NoRef]
  /\ UNCHANGED <<exec, rows, history, checkpoint, notJson, call, cancel, expire, server>>

\* The execution is closed: the row keeps the report and nothing else happens.
CompleteIgnored(w) ==
  /\ Reporting(w)
  /\ Exists(holds[w])
  /\ IsTerminal(exec.state)
  /\ \E err \in BOOLEAN :
       rows' = [rows EXCEPT ![holds[w].slot] = UpdateCompleted(@, err)]
  /\ holds' = [holds EXCEPT ![w] = NoRef]
  /\ UNCHANGED <<exec, history, checkpoint, notJson, call, cancel, expire, server>>

\* The row is locked and the execution read; both are used until the commit.
CompleteBegin(w) ==
  /\ Reporting(w)
  /\ Exists(holds[w])
  /\ ~IsTerminal(exec.state)
  /\ \E err \in BOOLEAN :
       call' = [call EXCEPT ![w] = [IdleCall EXCEPT !.stage = "open", !.err = err,
                                                    !.seen = exec.state]]
  /\ UNCHANGED <<exec, rows, history, checkpoint, notJson, holds, cancel, expire, server>>

Own(w) == rows[holds[w].slot]
Step(w) == holds[w].slot[2]
WithoutOwn(w) == [rows EXCEPT ![holds[w].slot] = Deleted(@)]

\* Is w in the middle of completing a row of this kind, with this outcome?
Failing(w, kind) ==
  call[w].stage = "open" /\ holds[w].slot[1] = kind /\ call[w].err

FailingForGood(w, kind) == Failing(w, kind) /\ Own(w).attempt >= Own(w).max

Succeeding(w, kind, stage) ==
  call[w].stage = stage /\ holds[w].slot[1] = kind /\ ~call[w].err

\* The commit: the worker hears of it, or the response is lost and the
\* worker will report the same task again.
Answered(w) ==
  /\ call' = [call EXCEPT ![w] = IdleCall]
  /\ \/ holds' = [holds EXCEPT ![w] = NoRef]
     \/ UNCHANGED holds

\* The transaction is rolled back: a statement failed, the request was
\* cancelled, or PostgreSQL chose it as the victim of a deadlock.
CallAborts(w) ==
  /\ InFlight(w)
  /\ call' = [call EXCEPT ![w] = IdleCall]
  /\ UNCHANGED <<exec, rows, history, checkpoint, notJson, holds, cancel, expire, server>>

\* Fault injection: the failed row is deleted and nothing put in its place.
RecreateNothing(w) == rows' = WithoutOwn(w)

\* The failed row gives its place to a new one with one attempt more.
Recreate(w) ==
  rows' = [rows EXCEPT ![holds[w].slot] =
             Created(Deleted(Own(w)), Own(w).attempt + 1, Own(w).max)]

RetryTask(w) ==
  /\ Failing(w, "task")
  /\ Own(w).attempt < Own(w).max
  /\ Recreate(w)
  /\ history' = Append(history, On("STEP_RETRYING", Step(w)))
  /\ Answered(w)
  /\ UNCHANGED <<exec, checkpoint, notJson, cancel, expire, server>>

RetryCompensation(w) ==
  /\ Failing(w, "comp")
  /\ Own(w).attempt < Own(w).max
  /\ Recreate(w)
  /\ Answered(w)
  /\ UNCHANGED <<exec, history, checkpoint, notJson, cancel, expire, server>>

-----------------------------------------------------------------------------
(* CompleteTask: the task failed for good.                                  *)

\* CHAIN and INDEPENDENT: the execution row is locked, then the sweep of the
\* remaining tasks reads its snapshot.
FailTask(w) ==
  /\ FailingForGood(w, "task")
  /\ WorkflowType # "SAGA"
  /\ ValidTransition(call[w].seen, "FAILED")
  /\ ~ExecLocked
  /\ ~Conflict(exec)
  /\ call' = [call EXCEPT ![w].stage = "sweep", ![w].waits = LiveRefs \ {holds[w]}]
  /\ UNCHANGED <<exec, rows, history, checkpoint, notJson, holds, cancel, expire, server>>

FailTaskTakesRow(w) ==
  /\ call[w].stage = "sweep"
  /\ \E sweep \in TakesRow(call[w]) : call' = [call EXCEPT ![w] = sweep]
  /\ UNCHANGED <<exec, rows, history, checkpoint, notJson, holds, cancel, expire, server>>

FailTaskCommit(w) ==
  /\ call[w].stage = "sweep"
  /\ call[w].waits = {}
  /\ exec' = UpdateState(SaveError(exec, "step"), "FAILED")
  /\ rows' = [CancelByExecution(call[w].taken) EXCEPT ![holds[w].slot] = Deleted(@)]
  /\ history' = history \o <<On("STEP_FAILED", Step(w)), Whole("WORKFLOW_FAILED")>>
  /\ Answered(w)
  /\ UNCHANGED <<checkpoint, notJson, cancel, expire, server>>

\* SAGA: startCompensation runs in the same transaction.
SagaFailing(w) ==
  /\ FailingForGood(w, "task")
  /\ WorkflowType = "SAGA"
  /\ ~ExecLocked

\* startCompensation returns an error: the execution was closed meanwhile, or
\* GetCompensationSteps, on a connection of its own, failed.  What it wrote
\* so far stays and the results of SaveError and UpdateState are not looked at.
StartCompensationFails(w) ==
  /\ SagaFailing(w)
  /\ exec' = UpdateState(SaveError(UpdateState(exec, "COMPENSATING"), "start"), "FAILED")
  /\ rows' = WithoutOwn(w)
  /\ history' = history \o
       IF Conflict(exec)
         THEN <<On("STEP_FAILED", Step(w)), Whole("WORKFLOW_FAILED")>>
         ELSE <<On("STEP_FAILED", Step(w)), Whole("COMPENSATION_STARTED"),
                Whole("WORKFLOW_FAILED")>>
  /\ Answered(w)
  /\ UNCHANGED <<checkpoint, notJson, cancel, expire, server>>

\* No earlier step has anything to undo.
NothingToCompensate(w) ==
  /\ SagaFailing(w)
  /\ ValidTransition(call[w].seen, "COMPENSATING")
  /\ ~Conflict(exec)
  /\ ToUndo(Step(w) - 1) = {}
  /\ exec' = UpdateState(SetCompensationTotal(UpdateState(exec, "COMPENSATING"), 0), "FAILED")
  /\ rows' = WithoutOwn(w)
  /\ history' = history \o <<On("STEP_FAILED", Step(w)), Whole("COMPENSATION_STARTED"),
                             Whole("SAGA_ROLLED_BACK"), Whole("WORKFLOW_FAILED")>>
  /\ Answered(w)
  /\ UNCHANGED <<checkpoint, notJson, cancel, expire, server>>

\* Fault injection: the steps are listed from the lowest up.
IsLowest(n, undo) == n \in undo /\ \A m \in undo : m >= n

\* GetCompensationSteps lists the steps from the highest down.
IsFirst(n, undo) == n \in undo /\ \A m \in undo : m <= n

StartCompensation(w) ==
  /\ SagaFailing(w)
  /\ ValidTransition(call[w].seen, "COMPENSATING")
  /\ ~Conflict(exec)
  /\ \E n \in Steps :
       /\ IsFirst(n, ToUndo(Step(w) - 1))
       /\ rows[Comp(n)].state = "NONE"
       /\ rows' = [WithoutOwn(w) EXCEPT ![Comp(n)] = Created(@, 0, MaxAttempts[n])]
       /\ history' = history \o <<On("STEP_FAILED", Step(w)), Whole("COMPENSATION_STARTED"),
                                  On("STEP_SCHEDULED", n)>>
  /\ exec' = SetCompensationTotal(UpdateState(exec, "COMPENSATING"),
                                  Cardinality(ToUndo(Step(w) - 1)))
  /\ Answered(w)
  /\ UNCHANGED <<checkpoint, notJson, cancel, expire, server>>

-----------------------------------------------------------------------------
(* CompleteTask: the task succeeded.                                        *)

\* The output is stored as it comes, JSON or not.
StepDone(w) ==
  /\ Succeeding(w, "task", "open")
  /\ WorkflowType = "INDEPENDENT"
  /\ ~ExecLocked
  /\ exec.completedSteps + 1 # TotalSteps
  /\ exec' = IncrementCompletedSteps(exec)
  /\ rows' = WithoutOwn(w)
  /\ history' = Append(history, On("STEP_COMPLETED", Step(w)))
  /\ notJson' \in {notJson, notJson \union {Step(w)}}
  /\ Answered(w)
  /\ UNCHANGED <<checkpoint, cancel, expire, server>>

\* The outputs of all steps are marshalled, which takes each to be JSON.
LastStepDone(w) ==
  /\ Succeeding(w, "task", "open")
  /\ WorkflowType = "INDEPENDENT"
  /\ ~ExecLocked
  /\ exec.completedSteps + 1 = TotalSteps
  /\ notJson = {}
  /\ ValidTransition(call[w].seen, "COMPLETED")
  /\ ~Conflict(exec)
  /\ exec' = SaveResult(UpdateState(IncrementCompletedSteps(exec), "COMPLETED"))
  /\ rows' = WithoutOwn(w)
  /\ history' = history \o <<On("STEP_COMPLETED", Step(w)), Whole("WORKFLOW_COMPLETED")>>
  /\ Answered(w)
  /\ UNCHANGED <<checkpoint, notJson, cancel, expire, server>>

\* Fault injection: the checkpoint is filed under the next step.
SaveCheckpointAhead(w) ==
  /\ Succeeding(w, "task", "open")
  /\ WorkflowType # "INDEPENDENT"
  /\ checkpoint' = checkpoint \union {Step(w) + 1}
  /\ call' = [call EXCEPT ![w].stage = "saved"]
  /\ UNCHANGED <<exec, rows, history, notJson, holds, cancel, expire, server>>

\* CHAIN and SAGA.  The checkpoint is written on another connection: it is
\* there even if the transaction around it is rolled back.
SaveCheckpoint(w) ==
  /\ Succeeding(w, "task", "open")
  /\ WorkflowType # "INDEPENDENT"
  /\ checkpoint' = checkpoint \union {Step(w)}
  /\ call' = [call EXCEPT ![w].stage = "saved"]
  /\ UNCHANGED <<exec, rows, history, notJson, holds, cancel, expire, server>>

\* The state of the execution is not looked at again: only the cursor's own
\* UPDATE spares a closed row, and that it matched nothing goes unnoticed.
AdvanceStep(w) ==
  LET next == Step(w) + 1 IN
  /\ Succeeding(w, "task", "saved")
  /\ WorkflowType # "INDEPENDENT"
  /\ next \in Steps
  /\ Conflict(exec) \/ ~ExecLocked
  /\ rows[Task(next)].state = "NONE"
  /\ rows' = [WithoutOwn(w) EXCEPT ![Task(next)] = Created(@, 0, MaxAttempts[next])]
  /\ exec' = UpdateStepCursor(exec, next)
  /\ history' = history \o <<On("STEP_COMPLETED", Step(w)), On("STEP_SCHEDULED", next)>>
  /\ Answered(w)
  /\ UNCHANGED <<checkpoint, notJson, cancel, expire, server>>

FinishWorkflow(w) ==
  /\ Succeeding(w, "task", "saved")
  /\ WorkflowType # "INDEPENDENT"
  /\ Step(w) = TotalSteps
  /\ ~ExecLocked
  /\ ValidTransition(call[w].seen, "COMPLETED")
  /\ ~Conflict(exec)
  /\ exec' = SaveResult(UpdateState(exec, "COMPLETED"))
  /\ rows' = WithoutOwn(w)
  /\ history' = history \o <<On("STEP_COMPLETED", Step(w)), Whole("WORKFLOW_COMPLETED")>>
  /\ Answered(w)
  /\ UNCHANGED <<checkpoint, notJson, cancel, expire, server>>

-----------------------------------------------------------------------------
(* CompleteCompensationTask.                                                *)

\* The outcome of SaveError and UpdateState is not looked at.
FailCompensation(w) ==
  /\ FailingForGood(w, "comp")
  /\ ~ExecLocked
  /\ exec' = UpdateState(SaveError(exec, "rollback"), "FAILED")
  /\ rows' = WithoutOwn(w)
  /\ history' = history \o <<On("COMPENSATION_FAILED", Step(w)),
                             Whole("SAGA_ROLLBACK_FAILED"), Whole("WORKFLOW_FAILED")>>
  /\ Answered(w)
  /\ UNCHANGED <<checkpoint, notJson, cancel, expire, server>>

\* The count is reached, or no step is left to undo.
FinishCompensation(w) ==
  /\ Succeeding(w, "comp", "open")
  /\ ~ExecLocked
  /\ exec.compDone + 1 >= exec.compTotal \/ ToUndo(Step(w) - 1) = {}
  /\ ~Conflict(exec)
  /\ exec' = UpdateState(IncrementCompensationDone(exec), "FAILED")
  /\ rows' = WithoutOwn(w)
  /\ history' = history \o <<On("COMPENSATION_COMPLETED", Step(w)),
                             Whole("SAGA_ROLLED_BACK"), Whole("WORKFLOW_FAILED")>>
  /\ Answered(w)
  /\ UNCHANGED <<checkpoint, notJson, cancel, expire, server>>

\* As in AdvanceStep, the state of the execution is not looked at again.
NextCompensation(w) ==
  /\ Succeeding(w, "comp", "open")
  /\ ~ExecLocked
  /\ exec.compDone + 1 < exec.compTotal
  /\ \E n \in Steps :
       /\ IsFirst(n, ToUndo(Step(w) - 1))
       /\ rows[Comp(n)].state = "NONE"
       /\ rows' = [WithoutOwn(w) EXCEPT ![Comp(n)] = Created(@, 0, MaxAttempts[n])]
       /\ history' = history \o <<On("COMPENSATION_COMPLETED", Step(w)),
                                  On("STEP_SCHEDULED", n)>>
  /\ exec' = IncrementCompensationDone(exec)
  /\ Answered(w)
  /\ UNCHANGED <<checkpoint, notJson, cancel, expire, server>>

-----------------------------------------------------------------------------
(* CancelWorkflow.  While it holds the execution row no task row can turn   *)
(* into a compensation row or back, so the snapshots of its two sweeps are  *)
(* taken as one.                                                            *)

CancelBegin ==
  /\ server = "up"
  /\ exec.state # "NONE"
  /\ ~Conflict(exec)
  /\ ~ExecLocked
  /\ cancel' = [stage |-> "sweep", waits |-> LiveRefs, taken |-> {}]
  /\ UNCHANGED <<exec, rows, history, checkpoint, notJson, holds, call, expire, server>>

CancelTakesRow ==
  /\ cancel.stage = "sweep"
  /\ cancel' \in TakesRow(cancel)
  /\ UNCHANGED <<exec, rows, history, checkpoint, notJson, holds, call, expire, server>>

CancelCommit ==
  /\ cancel.stage = "sweep"
  /\ cancel.waits = {}
  /\ exec' = UpdateState(exec, "CANCELLED")
  /\ rows' = CancelByExecution(cancel.taken)
  /\ history' = Append(history, Whole("WORKFLOW_CANCELLED"))
  /\ cancel' = Idle
  /\ UNCHANGED <<checkpoint, notJson, holds, call, expire, server>>

CancelAborts ==
  /\ cancel.stage = "sweep"
  /\ cancel' = Idle
  /\ UNCHANGED <<exec, rows, history, checkpoint, notJson, holds, call, expire, server>>

-----------------------------------------------------------------------------
(* ExpireOverdueWorkflows: every statement commits by itself.               *)

ExpireOverdue ==
  /\ server = "up"
  /\ expire.stage = "idle"
  /\ exec.deadline
  /\ exec.state \in {"CREATED", "RUNNING", "COMPENSATING"}
  /\ ~ExecLocked
  /\ exec' = [SaveError(exec, "timeout") EXCEPT !.state = "FAILED"]
  /\ expire' = [expire EXCEPT !.stage = "marked"]
  /\ UNCHANGED <<rows, history, checkpoint, notJson, holds, call, cancel, server>>

ExpireSweep ==
  /\ expire.stage = "marked"
  /\ expire' = [stage |-> "sweep", waits |-> LiveRefs, taken |-> {}]
  /\ UNCHANGED <<exec, rows, history, checkpoint, notJson, holds, call, cancel, server>>

ExpireTakesRow ==
  /\ expire.stage = "sweep"
  /\ expire' \in TakesRow(expire)
  /\ UNCHANGED <<exec, rows, history, checkpoint, notJson, holds, call, cancel, server>>

ExpireSwept ==
  /\ expire.stage = "sweep"
  /\ expire.waits = {}
  /\ rows' = CancelByExecution(expire.taken)
  /\ expire' = [Idle EXCEPT !.stage = "swept"]
  /\ UNCHANGED <<exec, history, checkpoint, notJson, holds, call, cancel, server>>

ExpireTimedOut ==
  /\ expire.stage = "swept"
  /\ history' = Append(history, Whole("WORKFLOW_TIMED_OUT"))
  /\ expire' = [expire EXCEPT !.stage = "timedOut"]
  /\ UNCHANGED <<exec, rows, checkpoint, notJson, holds, call, cancel, server>>

ExpireFailed ==
  /\ expire.stage = "timedOut"
  /\ history' = Append(history, Whole("WORKFLOW_FAILED"))
  /\ expire' = Idle
  /\ UNCHANGED <<exec, rows, checkpoint, notJson, holds, call, cancel, server>>

\* A statement of the loop fails: it is logged and the loop goes on.
ExpireStatementFails ==
  LET nextStage == [marked |-> "swept", sweep |-> "swept", swept |-> "timedOut",
                    timedOut |-> "idle"] IN
  /\ expire.stage # "idle"
  /\ expire' = [Idle EXCEPT !.stage = nextStage[expire.stage]]
  /\ UNCHANGED <<exec, rows, history, checkpoint, notJson, holds, call, cancel, server>>

-----------------------------------------------------------------------------
(* The server process.                                                      *)

\* Transactions in flight are rolled back, the sweeper's loop is forgotten.
ServerCrash ==
  /\ server = "up"
  /\ server' = "down"
  /\ call' = [w \in Workers |-> IdleCall]
  /\ cancel' = Idle
  /\ expire' = Idle
  /\ UNCHANGED <<exec, rows, history, checkpoint, notJson, holds>>

\* Fault injection: a task that a worker runs does not count as active.
HasUnclaimedTasks == \E n \in Steps : rows[Task(n)].state = "CREATED"

HasActiveTasks == \E n \in Steps : Active(rows[Task(n)])

RecoveredMaxAttempts == 3

\* RecoverWorkflows, before the server listens.
RecoverWorkflows ==
  LET next == exec.currentStep + 1
      orphaned == exec.state = "RUNNING" /\ ~HasActiveTasks IN
  /\ server = "down"
  /\ server' = "up"
  /\ rows' = IF orphaned /\ next \in Steps /\ rows[Task(next)].state = "NONE"
               THEN [rows EXCEPT ![Task(next)] = Created(@, 0, RecoveredMaxAttempts)]
               ELSE rows
  /\ UNCHANGED <<exec, history, checkpoint, notJson, holds, call, cancel, expire>>

-----------------------------------------------------------------------------
CompleteTask(w) ==
  \/ RetryTask(w)
  \/ FailTask(w)
  \/ FailTaskTakesRow(w)
  \/ FailTaskCommit(w)
  \/ StartCompensationFails(w)
  \/ NothingToCompensate(w)
  \/ StartCompensation(w)
  \/ StepDone(w)
  \/ LastStepDone(w)
  \/ SaveCheckpoint(w)
  \/ AdvanceStep(w)
  \/ FinishWorkflow(w)

CompleteCompensationTask(w) ==
  \/ RetryCompensation(w)
  \/ FailCompensation(w)
  \/ FinishCompensation(w)
  \/ NextCompensation(w)

WorkerStep(w) ==
  \/ \E s \in Slots : Poll(w, s)
  \/ Heartbeat(w)
  \/ HeartbeatRejected(w)
  \/ WorkerForgets(w)
  \/ CompleteUnknown(w)
  \/ CompleteIgnored(w)
  \/ CompleteBegin(w)
  \/ CompleteTask(w)
  \/ CompleteCompensationTask(w)
  \/ CallAborts(w)

CancelWorkflow == CancelBegin \/ CancelTakesRow \/ CancelCommit \/ CancelAborts

ExpireOverdueWorkflows ==
  \/ ExpireOverdue
  \/ ExpireSweep
  \/ ExpireTakesRow
  \/ ExpireSwept
  \/ ExpireTimedOut
  \/ ExpireFailed
  \/ ExpireStatementFails

Next ==
  \/ StartWorkflow
  \/ \E s \in Slots : PollLost(s) \/ LeaseLapses(s)
  \/ \E w \in Workers : WorkerStep(w)
  \/ CancelWorkflow
  \/ ExpireOverdueWorkflows
  \/ ServerCrash
  \/ RecoverWorkflows

Spec == Init /\ [][Next]_vars

\* Is w's transaction at the statement that takes the execution row's lock?
NeedsExec(w) ==
  \/ FailingForGood(w, "task")
  \/ FailingForGood(w, "comp")
  \/ Succeeding(w, "task", "saved")
  \/ Succeeding(w, "comp", "open")
  \/ WorkflowType = "INDEPENDENT" /\ Succeeding(w, "task", "open")

\* Does a sweep that holds the execution row wait for w's row, while w waits
\* for the execution row?
Deadlocked(w) ==
  /\ NeedsExec(w)
  /\ holds[w] \in cancel.waits \union UNION {call[v].waits : v \in Workers}

\* PostgreSQL finds the deadlock and rolls one of the two back.
BreakDeadlock(w) == Deadlocked(w) /\ CallAborts(w)

\* What the report carries is refused, and the transaction rolled back: an error
\* text that a TEXT column does not take (one with a NUL), of a CHAIN or SAGA an
\* empty output, which the checkpoint does not take, and of an INDEPENDENT one
\* an output that is not JSON, when the last step marshals them all.  A worker
\* may send the same again at every attempt.
ReportRefused(w) ==
  /\ \/ call[w].stage = "open" /\ call[w].err /\ ~Deadlocked(w)
     \/ Succeeding(w, "task", "open") /\ WorkflowType # "INDEPENDENT"
     \/ /\ Succeeding(w, "task", "open") /\ WorkflowType = "INDEPENDENT"
        /\ ~ExecLocked /\ exec.completedSteps + 1 = TotalSteps
  /\ CallAborts(w)

\* What goes wrong other than that.
Fault ==
  \/ ServerCrash
  \/ CancelAborts /\ ~ \E w \in Workers : Deadlocked(w)
  \/ \E w \in Workers : CallAborts(w) /\ ~Deadlocked(w) /\ ~ReportRefused(w)

(* What the scheduling of the system gives.  From some time on the server   *)
(* does not crash any more and PostgreSQL rolls back nothing but victims of *)
(* deadlocks and reports whose content it or the server refuses; those may  *)
(* be refused for ever.  Go runs every handler that can go on and the       *)
(* sweeper's ticker, leases and deadlines run out and deadlocks are broken; *)
(* handlers that vie for a lock all get it in turn; and broken streams and  *)
(* workers that give up do not hit every attempt.                           *)
Fairness ==
  /\ <>[][~Fault]_vars
  /\ WF_vars(RecoverWorkflows)
  /\ SF_vars(ExpireOverdue)
  /\ \A s \in Slots : WF_vars(LeaseLapses(s))
  /\ WF_vars(\E w \in Workers : BreakDeadlock(w))
  /\ SF_vars(CancelTakesRow \/ \E w \in Workers : FailTaskTakesRow(w))
  /\ WF_vars(CancelCommit \/ \E w \in Workers : FailTaskCommit(w))
  /\ SF_vars(\E w \in Workers, s \in Slots : Poll(w, s))
  /\ WF_vars(\E w \in Workers : CompleteUnknown(w))
  /\ SF_vars(\E w \in Workers : CompleteBegin(w))
  /\ SF_vars(\E w \in Workers :
               CompleteTask(w) \/ CompleteCompensationTask(w) \/ ReportRefused(w))

FairSpec == Spec /\ Fairness

-----------------------------------------------------------------------------
TypeOK ==
  /\ exec \in Exec
  /\ rows \in [Slots -> Row]
  /\ history \in Seq(Event)
  /\ checkpoint \subseteq Steps
  /\ notJson \subseteq Steps
  /\ holds \in [Workers -> Ref \union {NoRef}]
  /\ call \in [Workers -> Call]
  /\ cancel \in [stage : {"idle", "sweep"}, waits : SUBSET Ref, taken : SUBSET Ref]
  /\ expire \in [stage : {"idle", "marked", "sweep", "swept", "timedOut"},
                 waits : SUBSET Ref, taken : SUBSET Ref]
  /\ server \in {"up", "down"}

-----------------------------------------------------------------------------
Completed(n) == Logged(On("STEP_COMPLETED", n))
Undone(n) == Logged(On("COMPENSATION_COMPLETED", n))

\* Did history[i] record e1 and a later event e2?
Before(e1, e2) ==
  \E i, j \in DOMAIN history : i < j /\ history[i] = e1 /\ history[j] = e2

Times(event) == Cardinality({i \in DOMAIN history : history[i] = event})

\* An execution moves only along validTransitions, and one that is closed
\* keeps its outcome, whatever reports, cancellations and sweeps are still
\* under way with an older view of it (UpdateState's WHERE clause, and the
\* rollback of the handlers that get ErrConflict from it).  The exception is
\* the error text of a SAGA: when startCompensation gets ErrConflict, SaveError,
\* which has no guard, and a WORKFLOW_FAILED event are committed all the same.
OutcomeFrozen ==
  [][/\ exec'.state # exec.state =>
          IF exec.state = "NONE" THEN exec'.state = "RUNNING"
                                 ELSE ValidTransition(exec.state, exec'.state)
     /\ exec.state \in {"COMPLETED", "FAILED", "CANCELLED"} =>
          /\ exec'.result = exec.result
          /\ WorkflowType # "SAGA" => exec'.error = exec.error]_vars

\* An open execution always has what it needs to go on: of an INDEPENDENT
\* one every step is either recorded as completed or has its live task, any
\* other has exactly one row and it is live, a task while RUNNING and a
\* compensation while COMPENSATING.  No interleaving, rollback or crash
\* strands it or doubles its work.
WorkToDo ==
  exec.state \in {"RUNNING", "COMPENSATING"} =>
    IF WorkflowType = "INDEPENDENT"
      THEN \A n \in Steps : Active(rows[Task(n)]) <=> ~Completed(n)
      ELSE \E s \in Slots :
             /\ Active(rows[s])
             /\ (s[1] = "comp") = (exec.state = "COMPENSATING")
             /\ \A t \in Slots \ {s} : rows[t].state = "NONE"

\* What the locks are for.  A completion in flight has its row to itself and
\* the row is still there; whoever sweeps has the execution row to itself and
\* the execution is still open.
LockDiscipline ==
  /\ \A w \in Workers : InFlight(w) => Exists(holds[w]) /\ exec.state # "NONE"
  /\ \A v, w \in Workers : InFlight(v) /\ InFlight(w) /\ holds[v] = holds[w] => v = w
  /\ \A v, w \in Workers : call[v].stage = "sweep" /\ call[w].stage = "sweep" => v = w
  /\ cancel.stage = "sweep" => \A w \in Workers : call[w].stage # "sweep"
  /\ ExecLocked => exec.state \in {"RUNNING", "COMPENSATING"}

\* What a completion has read before it writes is still so when it goes on, as
\* long as the execution is open: its task is still running, the state it read
\* is the state, so that the transitions it decided on are valid ones, and the
\* count of compensations and the list of the steps left, which
\* CompleteCompensationTask asks one after the other, agree on whether the
\* rollback is over.
ReadsStillTrue ==
  \A w \in Workers : InFlight(w) =>
    /\ Own(w).state = "RUNNING"
    /\ exec.state \in {"RUNNING", "COMPENSATING"} =>
         /\ call[w].seen = exec.state
         /\ holds[w].slot[1] = "comp" =>
              (exec.compDone + 1 >= exec.compTotal) = (ToUndo(Step(w) - 1) = {})

\* Transactions wait for each other only by twos.  A row that a sweep waits for
\* is held by one completion, never by another sweep, and that completion goes
\* on unless it needs the execution row and the sweep holds it: the two are then
\* a deadlock PostgreSQL breaks, and nobody waits in a longer circle.
OnlyPairsDeadlock ==
  \A ref \in cancel.waits \union expire.waits \union UNION {call[v].waits : v \in Workers} :
    Locked(ref) =>
      \E w \in Workers :
        /\ InFlight(w) /\ holds[w] = ref /\ call[w].stage # "sweep"
        /\ NeedsExec(w) /\ ExecLocked => Deadlocked(w)

\* The rows there are fit the state of the execution: while it is open they
\* are live and all of the one kind it is at, but for an INDEPENDENT one there
\* is never more than one, and the sweeper's loop is only about a closed one.
RowsFitState ==
  /\ exec.state # "CREATED"
  /\ exec.state = "NONE" => \A s \in Slots : rows[s].state = "NONE"
  /\ exec.state \in {"RUNNING", "COMPENSATING"} =>
       \A s \in Slots : rows[s].state # "NONE" =>
         Active(rows[s]) /\ (s[1] = "comp") = (exec.state = "COMPENSATING")
  /\ \A s, t \in Slots : WorkflowType # "INDEPENDENT" =>
       (rows[s].state # "NONE" /\ rows[t].state # "NONE" => s = t)
  /\ exec.state = "COMPENSATING" => WorkflowType = "SAGA"
  /\ \A n \in Steps : rows[Comp(n)].state # "NONE" => WorkflowType = "SAGA"
  /\ expire.stage # "idle" => exec.state \in {"COMPLETED", "FAILED", "CANCELLED"}

\* A step is recorded as completed once, although its task may be handed out
\* again when a lease lapses and be reported by several workers or twice by
\* one; and the steps of a CHAIN or SAGA are completed in order, none skipped.
StepsCompleteOnceInOrder ==
  \A n \in Steps :
    /\ Times(On("STEP_COMPLETED", n)) <= 1
    /\ WorkflowType # "INDEPENDENT" /\ n > 1 /\ Completed(n) =>
         Before(On("STEP_COMPLETED", n - 1), On("STEP_COMPLETED", n))

\* A step is retried at most half as often as its attempt limit says: an
\* attempt is counted when a task is claimed (FindAndLockPending) and another
\* when its retry is created (CompleteTask), whoever claims it, loses it or
\* reports it twice; a default limit of 3 leaves one retry.
RetriesBounded ==
  \A n \in Steps : 2 * Times(On("STEP_RETRYING", n)) <= MaxAttempts[n]

\* The state of the execution and its history tell the same story: it is
\* COMPLETED exactly when WORKFLOW_COMPLETED was recorded, which takes every
\* step; CANCELLED exactly when WORKFLOW_CANCELLED was; and, but for a SAGA,
\* failure is recorded at most once and only of a FAILED execution.
OutcomeMatchesHistory ==
  /\ (exec.state = "COMPLETED") = (Times(Whole("WORKFLOW_COMPLETED")) = 1)
  /\ exec.state = "COMPLETED" => \A n \in Steps : Completed(n)
  /\ (exec.state = "CANCELLED") = (Times(Whole("WORKFLOW_CANCELLED")) = 1)
  /\ WorkflowType # "SAGA" /\ Logged(Whole("WORKFLOW_FAILED")) =>
       exec.state = "FAILED" /\ Times(Whole("WORKFLOW_FAILED")) = 1

\* completed_steps counts the completed steps of an INDEPENDENT execution, none
\* of which has its task any more, and the one that finds it full closes the
\* execution: an open one never has all its steps completed.
CompletedStepsCounted ==
  WorkflowType = "INDEPENDENT" =>
    /\ \A n \in Steps : rows[Task(n)].state # "NONE" => ~Completed(n)
    /\ exec.completedSteps = Cardinality({n \in Steps : Completed(n)})
    /\ exec.state = "RUNNING" => exec.completedSteps < TotalSteps

\* A completed step of a CHAIN or SAGA has its checkpoint, although the two
\* are written by different transactions.
CheckpointCoversCompleted ==
  WorkflowType # "INDEPENDENT" => \A n \in Steps : Completed(n) => n \in checkpoint

\* A SAGA undoes only what was completed, each step once, and a step only
\* after every completed compensable step above it.
CompensatesInReverse ==
  \A n \in Steps : Undone(n) =>
    /\ n \in Compensable
    /\ Before(On("STEP_COMPLETED", n), On("COMPENSATION_COMPLETED", n))
    /\ Times(On("COMPENSATION_COMPLETED", n)) = 1
    /\ \A m \in Compensable : m > n /\ Completed(m) =>
         Before(On("COMPENSATION_COMPLETED", m), On("COMPENSATION_COMPLETED", n))

\* SAGA_ROLLED_BACK is recorded only when nothing is left to undo: the count
\* of compensations done, which ends the rollback, is right.
RolledBackMeansUndone ==
  Logged(Whole("SAGA_ROLLED_BACK")) =>
    \A n \in Compensable : Completed(n) => Undone(n)

\* Once compensation has started forward work is over: no step is completed or
\* retried any more, and no step is undone before.
NoStepAfterCompensation ==
  \A n \in Steps :
    /\ ~Before(Whole("COMPENSATION_STARTED"), On("STEP_COMPLETED", n))
    /\ ~Before(Whole("COMPENSATION_STARTED"), On("STEP_RETRYING", n))
    /\ Undone(n) => Before(Whole("COMPENSATION_STARTED"), On("COMPENSATION_COMPLETED", n))

\* Restarting the server never adds a task: the handlers leave no RUNNING
\* execution without one, so the second copy of a step that RecoverWorkflows
\* would schedule from the cursor never comes to be.
RecoveryAddsNothing ==
  [][server = "down" /\ server' = "up" => rows' = rows]_vars

\* What repository.go says of CancelByExecution: the tasks of a cancelled
\* execution are no longer returned from FindAndLockPending.
CancelledTasksNotOffered ==
  exec.state = "CANCELLED" => \A s \in Slots : ~Eligible(rows[s])

\* What execution_handler.go says of GetWorkflowResult: it returns the result
\* of an execution, so a completed one has it.
ResultSaved == exec.state = "COMPLETED" => exec.result

\* What an execution promises: its state and its history, with the reports in
\* flight, behave as Workflow says.  Steps are done in order and once, undone
\* from the highest down and once; an outcome is final; a rollback is announced
\* when nothing is left to undo; and after an execution was closed by somebody
\* else only what had been reported while it was open is still recorded.
Promise == INSTANCE Workflow WITH
  status <- exec.state,
  done <- {n \in Steps : Completed(n)},
  undone <- {n \in Steps : Undone(n)},
  undoing <- Logged(Whole("COMPENSATION_STARTED")),
  rolledBack <- Logged(Whole("SAGA_ROLLED_BACK")),
  reported <- {Step(w) : w \in {v \in Workers : InFlight(v)}}

PromiseKept == Promise!Spec

\* Every execution that was started is closed in the end, completed, failed,
\* rolled back or cancelled, whatever crashes, lapsed leases, lost responses
\* and deadlocks it goes through.  There is one way out: nothing limits how often
\* a task is claimed again, so an execution that has no deadline stays open if its
\* reports are refused again and again for what they carry.
Terminates ==
  \/ exec.state = "RUNNING" ~> exec.state \in {"COMPLETED", "FAILED", "CANCELLED"}
  \/ /\ <>[](~exec.deadline)
     /\ []<><<\E w \in Workers : ReportRefused(w)>>_vars

=============================================================================
