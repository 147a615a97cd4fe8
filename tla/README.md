# AntFlow server: specifications and proofs

AntFlow runs workflows: a client registers a *definition* (named steps, each
with an optional compensation), starts *executions* of it, and workers fetch
*tasks* over gRPC streams and report their results. The server keeps everything
in PostgreSQL, except for two in-process brokers. This directory holds TLA+
models of the server, the TLC configurations that check them and TLAPS proofs.
Paths below are relative to the repository.

## 1. Inventory

| Part | State | Operations | What makes it correct |
|---|---|---|---|
| State machine (`domain/workflow/statemechine.go`) | none | `ValidateTransition`, `IsTerminal` | closed states have no way out |
| Executions (`usecase/execution.go`, `task.go`, `workflow_execution_repository.go`) | `workflow_execution` row: state, cursor, counters, result, error, deadline | `StartWorkflow`, `CompleteTask`, `CancelWorkflow` | the outcome is final and tells what happened; an open execution always has work to do |
| Task tables (`task_repository.go`, `compensation_task_repository.go`) | one row per execution and step: state, attempt, lease | claim (`FindAndLockPending`), `RenewLock`, `UpdateCompleted`, `Delete`, `CancelByExecution` | one handler at a time acts on a row; a row whose worker died is handed out again |
| Saga compensation (`usecase/saga.go`) | `compensation_task` rows, `compensation_total/done` | `startCompensation`, `CompleteCompensationTask` | completed steps are undone once, in reverse; the rollback ends |
| Deadlines (`usecase/service.go`) | `deadline_at` | `ExpireOverdueWorkflows` every 15 s | an overdue execution is closed, whatever runs beside it |
| Recovery (`usecase/service.go`, `main.go`) | none | `RecoverWorkflows` at startup | adds work only to executions that have none |
| History, checkpoints | append-only events; one checkpoint per step | `Append`, `GetStepOutputs`, `Save` | events agree with the state; a completed step has its checkpoint |
| Signal broker (`usecase/signal.go`) | waiters and buffered payloads by (execution, name) | `Send`, `Wait`, `Drain` | a signal meets its waiter in either order, once |
| Task broker and streams (`usecase/broker.go`, `task_handler.go`) | wake-up channels by queue | `Notify`, `Subscribe`, the stream loops | no wake-up is missed for longer than the 1 s timer |
| History stream (`history_handler.go`) | last id sent | poll loop | every event is sent once, in order, and the stream ends |
| Registration (`usecase/registration.go`) | definitions, versions, steps | `RegisterWorkflow` | one active version, complete with its steps |
| Connection pool (`db.go`, `transactionManager.go`) | 25 connections | `RunInTx` | handlers do not wait for each other for ever |

The parts meet in the database: every RPC handler is a READ COMMITTED
transaction, several of which run on the rows of one execution, with the
deadline sweeper's autocommit statements beside them. `CompleteTask` first
updates its own task row, which locks it, then reads the execution, and decides
on that copy; cancellation and expiry lock the execution row first and the task
rows after it. The brokers are called from the handlers: `Notify` after (once,
in `startCompensation`, before) the commit, `Drain` before it.

What is hard: the execution state is read before its row is locked and used
after; leases lapse while a completion is in flight, so a task is reported twice
or by two workers; a sweeping `UPDATE` works on a snapshot that a retry makes
stale; the two lock orders deadlock; responses are lost; the server crashes
between any two statements of the sweeper and between a checkpoint and the
transaction around it. `PROJECT.json` lists each of these hazards at its line,
with the properties that cover it.

## 2. Modules

| Module | Models | Checked by | Proved in |
|---|---|---|---|
| `Workflow` | the abstract specification: what an execution promises to whoever reads its state and history | as `PromiseKept` in `saga` and `history` | `WorkflowPromise_proof`, `HistoryStream_proof` |
| `StateMachine` | `statemechine.go` | (with the next) | (with the next) |
| `WorkflowExecution` | one execution: its rows, all handlers, the sweeper, recovery, the workers | `MCWorkflowExecution` with `chain`, `independent`, `saga`, `live_saga`, `result`, `cancelled` | `WorkflowExecution_proof`, `WorkflowPromise_proof`, `WorkflowHistory_proof`, `WorkflowProgress_proof` |
| `SignalStore` | `signal.go` | `MCSignalStore` with `signals`, `signals_lost` | `SignalStore_proof` |
| `TaskStream` | `broker.go`, the stream loops of `task_handler.go`, `FindAndLockPending`, graceful shutdown | `MCTaskStream` with `streams` | `TaskStream_proof` |
| `HistoryStream` | `history_handler.go` and the transactions that append the events it reads | `MCHistoryStream` with `history`, `history_gap` | `HistoryStream_proof` |
| `ConnPool` | a pool: wait for a connection, have it, give it back | as `PoolRespected` in `registration` | `Registration_proof` |
| `Registration` | `registration.go`, `workflow_definition_repository.go`, `transactionManager.go`, the pool bound of `db.go` | `MCRegistration` with `registration` | `Registration_proof` |

### Workflow

The abstract specification has no tasks, leases, locks, processes or
transactions: a status, the steps that are done and undone, whether compensation
began and a full rollback was announced, and the steps a report is being
processed of. `WorkflowExecution!Promise` is the refinement mapping: a step is
done when `STEP_COMPLETED` is in the history and undone when
`COMPENSATION_COMPLETED` is, the two flags are the events `COMPENSATION_STARTED`
and `SAGA_ROLLED_BACK`, and a step is reported while a completion of it is in
flight. `CompleteBegin` is `Report`; `StepDone`, `LastStepDone`, `AdvanceStep` and
`FinishWorkflow` are `Complete`; the sagas' three ways to fail are `BeginUndo`;
`NextCompensation` and `FinishCompensation` are `Undo`; permanent failure,
cancellation and expiry are `Close`; every other step drops reports or stutters.
What is special about the promise is that work counts if it was *reported* while
the execution was open: the handlers decide on a copy of the execution, so a
completion may still be recorded after a deadline or a cancellation closed it.

`HistoryStream!Promise` maps a second, finer model to it: a step is done when its
`STEP_COMPLETED` is *visible*, reported while a completion of it is in any of its
stages. Both mappings together say that the promise holds for the rows and for
what a client reads of them.

### WorkflowExecution

One execution is enough: executions share no row, and a handler touches the rows
of one (the sweeper's loop takes them in turn).

| Variable | In the code |
|---|---|
| `exec` | the `workflow_execution` row; `deadline` says whether `deadline_at` is set, `result` whether a result is stored, `error` which error text |
| `rows` | `task` and `compensation_task`, indexed by table and step as the UNIQUE constraint allows; `gen` stands for the uuid, so that a reference to a deleted row is not one to its successor |
| `history` | `history_event`, in commit order |
| `checkpoint` | the steps that have a `checkpoint` row |
| `notJson` | of an INDEPENDENT execution, the completed steps whose output is not JSON |
| `holds` | the task id each worker has in hand |
| `call` | the completion a worker has in flight: what it read (`seen`), what it reported, and, while it sweeps, which rows it waits for |
| `cancel`, `expire` | the cancellation in flight, the place of the sweeper in its loop |
| `server` | up or down |

**Granularity.** A handler's transaction is cut where it can be held up or
overtaken: where it locks its task row and reads the execution (`CompleteBegin`),
where it writes a checkpoint on another connection (`SaveCheckpoint`), where a
sweeping `UPDATE` has taken its snapshot and waits for rows one by one
(`CancelTakesRow`, `FailTaskTakesRow`, `ExpireTakesRow`), and at the commit.
Between two cuts a transaction only touches rows it has locked or just created,
so the rest of it is one action at the commit. A statement that has to wait for
the execution row is a guard `~ExecLocked` on that action. Any transaction may be
rolled back at any time (`CallAborts`, `CancelAborts`: failed statement,
cancelled request, deadlock victim). At a commit the response may be lost
(`Answered`): the worker keeps its task and may report it again.

**Abstractions.** Of a payload only this is kept: whether the report that carries it
can be stored. `json.Marshal` of all outputs fails at every report of the last
INDEPENDENT step once one of them is not JSON (`notJson`, which `LastStepDone` asks
to be empty), a checkpoint takes no empty output, and a TEXT column no error text
with a NUL; `ReportRefused` is the rollback that follows. Queue names, the time at which a retry becomes due
and log messages are left out. Time is a lease that may lapse whenever its row
runs and a deadline that may pass whenever there is one. `attempt` stops at
`max`, since the code only asks whether it is below. A failing `Append` that the
code only logs has aborted its transaction, so the commit fails: a `CallAborts`.
The two sweeps of `CancelWorkflow` take their snapshots together: while it holds
the execution row no handler can turn a task row into a compensation row.

### SignalStore

`Send` and `Drain` hold the mutex throughout: one action each. `Wait` is split at
its select: look at the buffer or register; then receive, or give up and, later,
clean up. The timer and the context may fire at any time, also when the payload
is already in the channel, as Go's select picks among ready cases. The two maps
are functions from keys to sets of at most one element. `overlapped` is a history
variable: the calls that were inside `Wait` for a key together with another call. It
is no assumption that there are none: INDEPENDENT steps run at once, a lapsed lease
gives a step to a second worker, and a client may cancel a call and poll again before
the first has cleaned up. `StrandedOnlyIfOverlapped` says that nothing else strands
a blocked call.

### TaskStream

The way of a row from its insertion to a worker, for rows of any number of
executions. `row` is the state of each row, with `later` for a retry before its
`scheduled_at`; `queues` and `ch` are the broker's lists and channels (the order
of a list cannot be observed, since `Notify` holds the mutex throughout, so it is
a set; a channel holds 0 or 1 tokens); `stream` is the place of each stream in its
loop; `tx` what each handler's transaction adds, which rows it holds and whether
and when it notifies. `FindAndLockPending` is cut between the `SELECT` and the
commit, since other pollers pass over the row in between. Which of several
eligible rows is taken is left open. What a completion decides is left open too:
it replaces its row by another (`ScheduleNext`, `StartCompensation`) or takes rows
away (`Sweep`); `WorkflowExecution` says when. A handler may also be in a call that
writes nothing and may last (`LongCall`): `StreamWorkflowHistory`, or `PollSignal`,
which has no time limit if the client gives none. `Stopped`, the end of a graceful
stop, waits for those as for the task streams and the transactions.

`unannounced` is a history variable: the due rows that no `Notify` has followed or
will follow. They are the retries that become due, the rows of claims and sweeps
that were rolled back, rows whose `COMMIT` was not answered and first
compensations. `NotLeftToTimer` says that a sleeping stream overlooks no others.

### HistoryStream

`log` is the `history_event` table of one INDEPENDENT execution, in the order of
the ids: an event takes its id when it is inserted and becomes visible when its
transaction commits, and the id of a rolled-back insert is a `Gap`. The execution
is modelled once more, reduced to what its transactions append (`exec`, the
counter `completed`, the steps with a live row, how far each completion, the
cancellation and the sweeper are), because `WorkflowExecution` appends at the
commit and so has no ids out of order. A completion appends `STEP_COMPLETED`
*before* it locks the execution row: there the order of ids and of commits part.
INDEPENDENT is the type where two completions run at once. One sweeping `UPDATE`
at a time waits for rows and takes them (`sweep`). A stream is `off`, `open` or
`ended`; `Poll` reads all visible events above `last` and sends them in order of
their ids. `overtaken` is a history variable: the ids committed after a higher one
was. How a failed step is retried and how often is left open; that the completion
which closes the execution is the only one left is not: it follows from the counter
and the live rows.

### Registration and ConnPool

Registrations of one name, cut at every statement, since READ COMMITTED lets
another commit in between, and where they wait for a connection. `defs` holds the
committed definitions, `found` the active definition a client has read, `created`
who has inserted the namespace and not committed. Whoever meets an uncommitted
entry of a unique index or a locked row waits for its end (`RowLocked`,
`NamespaceTaken`, `EntryTaken`); after a commit the insert violates
`uq_workflow_definition_namespace_name_version` or `uq_workflow_definition_active`
and the call is rejected. The lookups of the namespace and of the active
definition do not go through `getDB`: they wait for a second connection while the
transaction holds the first. `Others` are the other handlers that do the same.
`ConnPool` is the pool as these requests use it, an abstraction `Registration` is
shown to implement (`PoolRespected`). `overtaken` is a history variable: the
clients during whose call another registration succeeded. The steps of a
definition are inserted with it and are left out.

## 3. Runs

Two workers and CHAIN/SAGA/INDEPENDENT definitions of two to four steps. Two
workers suffice for everything that needs two transactions at once; the sweeps,
the deadline and recovery are actors of their own. Each retry takes two of a step's
attempts, one for the claim and one for the new row. In the SAGA and INDEPENDENT
runs step 1 has two attempts, which is one retry, and the others one, which is
none: retry and permanent failure both occur. The three steps of the CHAIN are a
first, a middle and a last one, with limits of four, three and one: two retries, one
and none, so that even and odd limits are reached; the SAGA has four, two of them compensable
and not adjacent, so that a compensation is followed by another and a step without
one is skipped. Two INDEPENDENT steps make the races that matter: two last
completions at once, and a failure that sweeps a row whose completion is in
flight. Nothing else is bounded there: crashes, rollbacks, lapses, lost
responses and restarts are unlimited and every run exhausts its state space.
`HistoryStream` has two steps and one stream (streams do not affect each other);
no completion or cancellation begins once three ids are taken, which is enough for
a retry, for one event to overtake another and for the outcome after that.
`Registration` has three clients, one other handler and three connections, so that
the pool can be exhausted by transactions that each wait for a second one; no
registration begins once there are three versions. Workers and clients are symmetric in the
runs without a liveness property.

| Run | Question | Result |
|---|---|---|
| `chain` | does a CHAIN complete each step once and in order, keep its work, retry a step no more than its limit allows, and need no recovery? | holds |
| `independent` | does the atomic counter find the last of concurrent steps, do the locks separate handlers, do transactions wait for each other by twos at most, and is every started execution closed in the end, deadlocks included, unless it has no deadline and its reports are refused again and again? | holds, the last under `Fairness` |
| `saga` | is exactly what was completed undone, in reverse order, recorded only when done, as promised; is what a completion decides on still true when it writes; does a late failure leave the state of a closed execution alone? | holds |
| `live_saga` | is every started SAGA closed in the end, under the same condition? | holds under `Fairness` |
| `result` | has a completed execution its result? | **violated** |
| `cancelled` | are the tasks of a cancelled execution not offered any more? | **violated** |
| `signals` | do Send, Wait and Drain meet safely, in all interleavings of three calls and two signals on two executions, and are blocked calls always found but for those that overlapped with another call of their key? | holds |
| `signals_lost` | does a signal answered as delivered reach a step? | **violated** |
| `streams` | is no wake-up missed and no row claimed twice, with two streams of one line, rows of both tables and two concurrent transactions; is every due row taken in the end? | holds, the last under `Fairness` |
| `history` | does a stream send what was committed, in order, lose at most what was overtaken, tell readers what `Workflow` promises, and end? | holds, the last under `Fairness` |
| `history_gap` | does a stream send every event? | **violated** |
| `registration` | does racing registration leave one active version, complete with its steps, one winner, no gap in the versions, and a pool within its bound? do registrations end? | holds, the last under `Fairness` and as long as the pool has `Room` |

`PromiseKept` is run where the model is finest for the type: on the rows for the
SAGA, on inserts and commits for INDEPENDENT executions (`history`). For the CHAIN
it is the theorem `KeepsPromise`, which covers all three types. `RowsFitState` and
the other parts of the inductive invariants are proved and are in no run.

The mutants in `PROJECT.json` show that each property notices a plausible slip in
the code: the fault-injection operators stand next to what they replace.

**Findings.** (1) `SaveResult` comes after `UpdateState(COMPLETED)` and its own
`WHERE` rejects completed rows, so `GetWorkflowResult` never returns a result.
(2) `CancelByExecution` waits for a row that a retry deletes; the replacement is
not in its snapshot and stays eligible. Nothing comes of it, since the execution
is closed, but the worker does the work. (3) The select in `Wait` may take the
timer with the payload already in its channel: it is dropped although `Send`
answered `true`. (4) The history stream resumes after the highest id it has seen;
an event of a transaction that took its id before and commits later is never sent.

**Seen while modelling, without a run of its own.**
- When a saga step fails while its execution is cancelled, `SaveError`, which has
  no guard on the state, and a `WORKFLOW_FAILED` event still go through;
  `OutcomeFrozen` therefore leaves the error of a SAGA out.
- A second `Wait` on a key replaces the first, which is then in neither map: no
  `Send` and no `Drain` ends it. The clean-up of a call that gave up does the same to
  its successor. `StrandedOnlyIfOverlapped` says that these are the only ways.
- `GracefulStop` waits for task streams, history streams and `PollSignal` calls, and
  nothing tells those that the server stops: with one client that stays the stop never
  ends. (`signal.go:129`, "server is shutting down", is not what ends a call then.)
  There is nothing to check of its end; a stop in progress is an exception in
  `EveryTaskTaken`.
- `startCompensation` notifies the queue before its transaction commits: a
  compensation stream may look too early and then sleeps until its timer. It is
  why `NotLeftToTimer` leaves first compensations out.
- The event that ends a history stream may be overtaken by an id above it or, when
  a statement of the sweeper fails, never be written; `WORKFLOW_TIMED_OUT` itself
  does not end a stream. `StreamsEnd` says what remains.
- The default timeout of a definition is neither written nor read back.
- A report may be refused for what it carries, at every attempt: an INDEPENDENT
  execution never ends by itself once one output is not JSON, nor does a CHAIN or SAGA
  whose step returns nothing, or a step whose error text has a NUL. `max_attempts`
  does not help, since it limits retries after a failure and not claims after a lapsed
  lease; a deadline does. `Terminates` states this condition.
- Transactions that hold all connections and each ask for a second one wait for
  each other for ever: `RegistrationsEnd` holds as long as fewer requests hold a
  connection than the pool has (`Room`).

**Fairness** (`WorkflowExecution!Fairness`). From some time on there are no
crashes and no rollbacks but of deadlock victims and of refused reports; the latter
may go on for ever, since the code repeats them. Go runs what can run (weak fairness
of recovery, of the commit of a sweep); leases run out, and so does a
deadline, as the sweeper's ticker runs for as long as the server (strong fairness of
`ExpireOverdue`, which needs the execution row); PostgreSQL
breaks deadlocks. A handler that needs a lock is enabled only while it is free,
hence strong fairness for claiming, locking and completing: PostgreSQL queues
lock waiters. Strong fairness of `Poll` and of completion is per system and not
per worker: some worker goes on, since streams do not break and workers do not
give up at every single attempt; what comes of a report is left open, as it may be
refused. With `ReportRefused` exempted only for an execution without a deadline,
`Terminates` has two parts: without endless refusals the execution is closed by its
reports, and with a deadline it is closed whatever they carry. No fairness is given to
starting or cancelling. In `TaskStream` the streams, handlers and restarts go on, workers that
were cut off connect again, and claims are fair to rows (strong fairness: the
oldest row comes first, leases outlast polls); a wake-up is never assumed, so
`EveryTaskTaken` rests on the timer; nor is the end of a long call or of a stop. In `HistoryStream` streams poll and the
handlers in flight and the sweeper's loop go on as their locks allow. In
`Registration` the pool and PostgreSQL serve those who wait (`database/sql` queues
requests, PostgreSQL lock waiters: strong fairness), and the other handlers do not
ask for ever. `SignalStore` assumes no fairness.

## 4. Proofs

All theorems hold for every value of the constants: every set of workers, number
of steps, choice of compensable steps and attempt limits (`WorkflowExecution`),
all sets of executions, names, calls and signals (`SignalStore`), of queues,
streams, tasks and handlers (`TaskStream`), every number of steps, set of streams
and bound on the log (`HistoryStream`), all sets of clients and other handlers and
every size of the pool (`Registration`). The only assumptions are the `ASSUME`s on
the constants: at least one step, a known workflow type, compensable steps that
are steps and attempt limits of at least one (`WorkflowExecution`); streams and
tasks have a line (`TaskStream`); at least one step (`HistoryStream`); finitely many
requests, of which none is both a registration and something else (`Registration`).

`WorkflowExecution_proof`:

- `IInv` is the conjunction of `TypeOK`, `LockDiscipline`, `RowsFitState`,
  `WorkToDo`, `CompletedStepsCounted` and "no events before the start".
  `WorkToDo` is not inductive by itself. When a completion commits on a copy of
  the execution it read before, one has to know that its row still exists and is
  its own (`LockDiscipline`), and, but for INDEPENDENT executions, that it is the
  only row there is (`RowsFitState`), so that deleting it and scheduling another
  leaves exactly one. For INDEPENDENT executions the last completion closes the
  execution because the counter is right (`CompletedStepsCounted`), and the sweeps
  close whatever they sweep.
- The proof has one lemma per conjunct (`TypeStep`, `LockStep`, `RowsStep`,
  `WorkStep`, `CountStep`), each by cases over the actions, on lemmas about what
  the row and execution operators change.
- From `IInv`: `TypeCorrect`, `LocksHold`, `RowsFit`, `WorkRemains`, `CountRight`.
  `RecoveryHarmless`: by `WorkToDo` a RUNNING execution has an active task, so
  recovery changes no row. `OutcomeStays`: the action property `OutcomeFrozen`.

`WorkflowPromise_proof` shows that `WorkflowExecution` implements `Workflow`
(`KeepsPromise`). The handlers never look at what the promise is about, the
history; they go by the rows. `Story` says what the rows know: a task row that
exists is about the step that is due, a compensation row about the step to be
undone next, `compensation_total` and `compensation_done` say how many steps that
makes and how far it has come, and what a completion has saved is in the
checkpoints. `Story` is inductive together with `IInv`: the completion that
deletes a row creates at most the row of the following step. The step map is the
one of section 2, with a lemma for each action of `Workflow` (`Completes`,
`Turns`, `Undoes`, `Closes`, `Drops`); `ReportEnds` uses that two completions of
one step would hold one row. `CheckpointFirst` and `RollbackComplete` follow from
`Story`.

`WorkflowHistory_proof` turns `Story` into statements about the order of events.
Every step appends to the history a sequence `s` that `Records`: completions only
of a step that is due, compensations only of the step to be undone next, no
completion or retry once compensation has begun, an outcome just when the
execution gets it, and a failure of a CHAIN or INDEPENDENT execution only when it
was open or is closed by the sweeper's loop (`EndsRecord`, `AsideRecords`). With
what `Story` says of the past this carries `WorkFits` and `OutcomeFits` along
(`LogGrows`: which orders an appended sequence can add), and these give
`CompletedOnceInOrder`, `UndoneInReverse`, `NoWayBack` and `OutcomeRecorded`. That a
COMPLETED execution has all its steps is taken from the promise, where only
`Complete` completes.

`WorkflowProgress_proof` proves the safety facts that the end of an execution rests
on. Its invariant `Progress`, inductive together with `IInv`, `Story` and
`OutcomeFits`, has five parts:

- `SweepsFit`: who does not sweep waits for nothing and has locked nothing, no row
  is both waited for and locked, and a completion that sweeps does not wait for its
  own. Since one sweep at a time is under way (`LockDiscipline`; the sweeper's comes
  when the execution is closed, by `RowsFitState`), a row that it waits for is locked
  by a completion that does not sweep: if that one needs the execution row it waits
  for this very sweep, and nobody else is part of the circle (`DeadlocksPaired`).
- `TakenApart`: no completion is about a row that a sweep has locked, so a sweep never
  ends the life of a row under a completion.
- `HeldClaimed`: a task that was handed out is never again as it was created.
- `ReadsFit`: the row of a completion is RUNNING, and the state it has seen is the
  state of the execution unless that is closed by now. The one step that changes the
  state of an open execution is the start of a compensation; it needs the only row
  there is (`RowsFitState`), so no other completion is in flight. With what `Story`
  says of `compensation_done` this gives `ReadsTrue`.
- `RetriesFit`: the row of a step counts at least twice as many attempts as the step
  was retried, one more once it is claimed. `attempt < max` is asked of a RUNNING
  row (`ReadsFit`), so the next retry still fits the limit; a claim after a lapsed
  lease only raises the count (`RetriesEnd`). A step of a CHAIN or SAGA that was
  retried was due, so its row is never created afresh.

`RowMoves` (what a step can make of a row), `CallMoves` and `LocksMove` (what it can
make of a completion and of the locks) are the lemmas the five parts share: each
part is then an argument about these few moves and not about all the actions.

`SignalStore_proof`: `IInv` adds to `TypeOK`, `RegisteredOpen`,
`BufferedIsUnheard` and `DeliveredOnce` that a signal that was not sent is
nowhere. `StrandedOverlapped` carries along that whoever shares a key with another
call inside `Wait` is in `overlapped` (`OverlapKnown`: only a registration brings a
call in, and it marks those it meets and itself); for a call that is not, the entry
that a registration replaces or a clean-up removes under its key is its own
(`StrandStep`).

`TaskStream_proof`: `IInv` adds to the four invariants that a stream has a row
just while it claims or sends it (`HasFits`) and that what a transaction adds is
unseen, of one queue and of no other transaction (`AddsFit`). The heart is
`TimerStep`: a stream goes to sleep only when every due row of its line is locked;
a row that is unlocked later without being removed joins `unannounced`, one that
is committed is owed a `Notify`, and that `Notify` reaches every stream of the
queue because of `ListedWhileStreaming`.

`HistoryStream_proof`: an event that is not committed belongs to a transaction
in flight (`WaitingFits`), one transaction at a time holds the execution row
(`OneHolder`), and while the execution runs the counter and the live rows make up
all steps (`Counting`). So the completion that finds the counter full is the only
one there is, and nothing can follow or precede its `WORKFLOW_COMPLETED` any more
(`CompletedIsLast`). A stream stands at a visible id (`StreamFits`): an event that
becomes visible below it was overtaken (`CursorLosesOnlyOvertaken`); what it tells
is the outcome because the event that says so is committed with it or after it
(`StreamsTellTheTruth`). `ReadersPromiseKept` shows that `HistoryStream` implements
`Workflow`. `ToldFits` is what that takes: a step that is told to be completed has
no row left and one whose report is under way has it, so a step is told once; the
counter is the number of steps told; and a completion that has inserted its event
keeps it until the commit. An insert, a wait for a lock and
a rollback change nothing that can be read (`ToldStays`, `ToldRollsBack`); a commit
shows the step and, if the counter was full, the end of the execution at once
(`ToldCommits`, `CountTells`).

`Registration_proof`: what a call has read is out of date only if another
call succeeded since (`NewsKnown`), and the two unique indexes let a call insert
only when the definition it replaces is the last there is, and one call at a time
(`OneInserted`). From this `VersionsOrdered` and `OneGetsThrough`.
`PoolImplemented`: every step takes one connection, gives back those of its request
or leaves the pool alone. `PoolBounded` is what the implementation is worth: in
`ConnPool` no step takes a connection beyond the bound, counted by the
cardinalities of the sets of holders.

**Checked by TLC only.** `Terminates`, `EveryTaskTaken`, `StreamsEnd` and
`RegistrationsEnd`, since liveness
under fairness and ENABLED are beyond the prover. So is induction over data, hence
what a recursive definition computes for all inputs, and anything that reaches a
RECURSIVE operator; the modules declare none. The four violated properties need no
proof: each has its counterexample. `Terminates` is checked, but the safety facts it
rests on are theorems: work remains (`WorkRemains`), retries end (`RetriesEnd`), a
deadlock is always one that PostgreSQL breaks (`DeadlocksPaired`) and a completion
never finds its decision refused on an open execution (`ReadsTrue`).

## 5. Not modelled, and the plan

Not modelled on purpose: generated protobuf code, argument checks and error
mapping of the gRPC adaptors, schema migrations, logging, payloads.

What is left, in order of use:

1. `TaskLease`: one row of the queue with time as a counter: leases, heartbeats,
   compensation leases of five minutes whatever the timeout. How often a step is
   handed out, which `RetriesBounded` does not bound: a lapsed lease is no retry.
2. `SignalStore` composed with `WorkflowExecution`: `Drain` runs before a commit
   that may still fail, and a signal may be buffered after it.
3. The default timeout that is not stored, with the executions that then have no
   deadline.
