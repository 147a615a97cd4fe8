---------------------------- MODULE HistoryStream ----------------------------
(***************************************************************************)
(* The history of one INDEPENDENT execution as StreamWorkflowHistory sees  *)
(* it.  An event takes its id when it is inserted and becomes visible when *)
(* its transaction commits; a stream asks every second for the events      *)
(* above the last id it has sent.  The handlers are those of               *)
(* WorkflowExecution, cut where an id is taken, where a lock is waited for *)
(* and where they commit, and reduced to what they append.                 *)
(***************************************************************************)
EXTENDS Integers, Sequences, FiniteSets

CONSTANTS
  TotalSteps,  \* steps of the definition, all started at once
  Streams,     \* StreamWorkflowHistory calls
  MaxEvents    \* bound: nothing new begins once so many ids are taken

ASSUME TotalStepsAssumption == TotalSteps \in Nat \ {0}
ASSUME MaxEventsAssumption == MaxEvents \in Nat

Steps == 1 .. TotalSteps

VARIABLES
  exec,       \* the state of the execution
  completed,  \* completed_steps
  live,       \* the steps that have a live task row
  call,       \* how far the CompleteTask of each step's row is
  cancel,     \* how far CancelWorkflow is
  expire,     \* how far the deadline sweeper is
  sweep,      \* rows the one sweeping UPDATE waits for, and rows it has locked
  log,        \* the history_event rows, in the order of their ids
  overtaken,  \* ids committed after a higher one was (history variable)
  stream      \* the state of each stream

vars == <<exec, completed, live, call, cancel, expire, sweep, log, overtaken, stream>>

-----------------------------------------------------------------------------
(* Events.                                                                  *)

StepEvents == {"STEP_COMPLETED", "STEP_RETRYING", "STEP_FAILED"}
WorkflowEvents == {"WORKFLOW_STARTED", "WORKFLOW_COMPLETED", "WORKFLOW_FAILED",
                   "WORKFLOW_CANCELLED", "WORKFLOW_TIMED_OUT"}

Nobody == 0

\* "by" is the step whose completion inserted the event, if one did, and whose
\* transaction has not ended yet if the event is not committed.
Event == [type : StepEvents \union WorkflowEvents \union {"NONE"},
          by : Steps \union {Nobody}, committed : BOOLEAN]

\* What an insert that was rolled back leaves: an id that is never used.
Gap == [type |-> "NONE", by |-> Nobody, committed |-> FALSE]

Insert(type, by) == [type |-> type, by |-> by, committed |-> FALSE]

Committed(event) == [event EXCEPT !.committed = TRUE]

\* Fault injection: the pool's connection is used in the place of the
\* transaction's, so that the event is there before the commit.
VisibleAtOnce == {i \in DOMAIN log : log[i] # Gap}

Visible == {i \in DOMAIN log : log[i].committed}

Pending(by) == {i \in DOMAIN log : log[i].by = by /\ ~log[i].committed /\ log[i] # Gap}

RollBackEvents(by) ==
  log' = [i \in DOMAIN log |-> IF i \in Pending(by) THEN Gap ELSE log[i]]

CommitEvents(by) ==
  /\ log' = [i \in DOMAIN log |-> IF i \in Pending(by) THEN Committed(log[i]) ELSE log[i]]
  /\ overtaken' = overtaken \union {i \in Pending(by) : \E j \in Visible : j > i}

\* Fault injection: the stream goes on after a cancelled execution.
EndsStreamOnOutcome(type) == type \in {"WORKFLOW_COMPLETED", "WORKFLOW_FAILED"}

EndsStream(type) ==
  type \in {"WORKFLOW_COMPLETED", "WORKFLOW_FAILED", "WORKFLOW_CANCELLED"}

-----------------------------------------------------------------------------
(* Locks.  Only one transaction sweeps at a time: it holds the execution    *)
(* row, or, in the sweeper's case, has closed the execution before.         *)

\* Fault injection: the last completion does not hold the execution row.
LockedForSweep == cancel # "idle" \/ \E n \in Steps : call[n] \in {"sweep", "failed"}

ExecLocked ==
  cancel # "idle" \/ \E n \in Steps : call[n] \in {"closing", "sweep", "failed"}

NoSweep == [waits |-> {}, taken |-> {}]

MayBegin == Len(log) < MaxEvents

Off == [stage |-> "off", last |-> -1, sent |-> {}]

Init ==
  /\ exec = "NONE"
  /\ completed = 0
  /\ live = {}
  /\ call = [n \in Steps |-> "idle"]
  /\ cancel = "idle"
  /\ expire = "idle"
  /\ sweep = NoSweep
  /\ log = <<>>
  /\ overtaken = {}
  /\ stream = [s \in Streams |-> Off]

StartWorkflow ==
  /\ exec = "NONE"
  /\ exec' = "RUNNING"
  /\ live' = Steps
  /\ log' = Append(log, Committed(Insert("WORKFLOW_STARTED", Nobody)))
  /\ UNCHANGED <<completed, call, cancel, expire, sweep, overtaken, stream>>

-----------------------------------------------------------------------------
(* CompleteTask of step n.                                                  *)

To(n, stage) == call' = [call EXCEPT ![n] = stage]

\* The row is locked and the execution read as committed.
Begin(n) ==
  /\ MayBegin
  /\ exec = "RUNNING"
  /\ n \in live \ sweep.taken
  /\ call[n] = "idle"
  /\ To(n, "open")
  /\ UNCHANGED <<exec, completed, live, cancel, expire, sweep, log, overtaken, stream>>

Retry(n) ==
  /\ call[n] = "open"
  /\ log' = Append(log, Insert("STEP_RETRYING", n))
  /\ To(n, "retrying")
  /\ UNCHANGED <<exec, completed, live, cancel, expire, sweep, overtaken, stream>>

\* The row is replaced: a sweep that waits for it finds it gone.
RetryCommit(n) ==
  /\ call[n] = "retrying"
  /\ CommitEvents(n)
  /\ sweep' = [sweep EXCEPT !.waits = @ \ {n}]
  /\ To(n, "idle")
  /\ UNCHANGED <<exec, completed, live, cancel, expire, stream>>

Succeed(n) ==
  /\ call[n] = "open"
  /\ log' = Append(log, Insert("STEP_COMPLETED", n))
  /\ To(n, "appended")
  /\ UNCHANGED <<exec, completed, live, cancel, expire, sweep, overtaken, stream>>

\* The counter is incremented whatever the state of the execution.
StepDone(n) ==
  /\ call[n] = "appended"
  /\ ~ExecLocked
  /\ completed + 1 # TotalSteps
  /\ completed' = completed + 1
  /\ live' = live \ {n}
  /\ CommitEvents(n)
  /\ sweep' = [sweep EXCEPT !.waits = @ \ {n}]
  /\ To(n, "idle")
  /\ UNCHANGED <<exec, cancel, expire, stream>>

LastStepDone(n) ==
  /\ call[n] = "appended"
  /\ ~ExecLocked
  /\ completed + 1 = TotalSteps
  /\ exec = "RUNNING"
  /\ log' = Append(log, Insert("WORKFLOW_COMPLETED", n))
  /\ To(n, "closing")
  /\ UNCHANGED <<exec, completed, live, cancel, expire, sweep, overtaken, stream>>

CloseCommit(n) ==
  /\ call[n] = "closing"
  /\ exec' = "COMPLETED"
  /\ completed' = completed + 1
  /\ live' = live \ {n}
  /\ CommitEvents(n)
  /\ sweep' = [sweep EXCEPT !.waits = @ \ {n}]
  /\ To(n, "idle")
  /\ UNCHANGED <<cancel, expire, stream>>

\* A permanent failure locks the execution row and sweeps the others' rows.
Fail(n) ==
  /\ call[n] = "open"
  /\ exec = "RUNNING"
  /\ ~ExecLocked
  /\ sweep' = [waits |-> live \ {n}, taken |-> {}]
  /\ To(n, "sweep")
  /\ UNCHANGED <<exec, completed, live, cancel, expire, log, overtaken, stream>>

FailAppend(n) ==
  /\ call[n] = "sweep"
  /\ sweep.waits = {}
  /\ log' = log \o <<Insert("STEP_FAILED", n), Insert("WORKFLOW_FAILED", n)>>
  /\ To(n, "failed")
  /\ UNCHANGED <<exec, completed, live, cancel, expire, sweep, overtaken, stream>>

FailCommit(n) ==
  /\ call[n] = "failed"
  /\ exec' = "FAILED"
  /\ live' = live \ (sweep.taken \union {n})
  /\ CommitEvents(n)
  /\ sweep' = NoSweep
  /\ To(n, "idle")
  /\ UNCHANGED <<completed, cancel, expire, stream>>

\* The transaction is rolled back and the ids it took are never used.
Abort(n) ==
  /\ call[n] # "idle"
  /\ RollBackEvents(n)
  /\ sweep' = IF call[n] \in {"sweep", "failed"} THEN NoSweep ELSE sweep
  /\ To(n, "idle")
  /\ UNCHANGED <<exec, completed, live, cancel, expire, overtaken, stream>>

\* UpdateState finds the execution closed and the handler rolls back.
Rejected(n) ==
  /\ call[n] = "open" \/ (call[n] = "appended" /\ completed + 1 = TotalSteps)
  /\ exec \notin {"NONE", "RUNNING"}
  /\ Abort(n)

\* The sweeping UPDATE, whosever it is, locks one more row of its snapshot.
SweepTakesRow(n) ==
  /\ n \in sweep.waits
  /\ call[n] = "idle"
  /\ sweep' = [waits |-> sweep.waits \ {n}, taken |-> sweep.taken \union {n}]
  /\ UNCHANGED <<exec, completed, live, call, cancel, expire, log, overtaken, stream>>

CompleteTask(n) ==
  \/ Retry(n) \/ RetryCommit(n)
  \/ Succeed(n) \/ StepDone(n) \/ LastStepDone(n) \/ CloseCommit(n)
  \/ Fail(n) \/ FailAppend(n) \/ FailCommit(n)

-----------------------------------------------------------------------------
(* CancelWorkflow.                                                          *)

CancelBegin ==
  /\ MayBegin
  /\ exec = "RUNNING"
  /\ ~ExecLocked
  /\ cancel' = "sweep"
  /\ sweep' = [waits |-> live, taken |-> {}]
  /\ UNCHANGED <<exec, completed, live, call, expire, log, overtaken, stream>>

CancelAppend ==
  /\ cancel = "sweep"
  /\ sweep.waits = {}
  /\ log' = Append(log, Insert("WORKFLOW_CANCELLED", Nobody))
  /\ cancel' = "appended"
  /\ UNCHANGED <<exec, completed, live, call, expire, sweep, overtaken, stream>>

CancelCommit ==
  /\ cancel = "appended"
  /\ exec' = "CANCELLED"
  /\ live' = live \ sweep.taken
  /\ CommitEvents(Nobody)
  /\ sweep' = NoSweep
  /\ cancel' = "idle"
  /\ UNCHANGED <<completed, call, expire, stream>>

CancelAborts ==
  /\ cancel # "idle"
  /\ RollBackEvents(Nobody)
  /\ sweep' = NoSweep
  /\ cancel' = "idle"
  /\ UNCHANGED <<exec, completed, live, call, expire, overtaken, stream>>

-----------------------------------------------------------------------------
(* ExpireOverdueWorkflows: every statement commits by itself.               *)

ExpireOverdue ==
  /\ exec = "RUNNING"
  /\ ~ExecLocked
  /\ exec' = "FAILED"
  /\ expire' = "marked"
  /\ UNCHANGED <<completed, live, call, cancel, sweep, log, overtaken, stream>>

ExpireSweep ==
  /\ expire = "marked"
  /\ expire' = "sweep"
  /\ sweep' = [waits |-> live, taken |-> {}]
  /\ UNCHANGED <<exec, completed, live, call, cancel, log, overtaken, stream>>

ExpireSwept ==
  /\ expire = "sweep"
  /\ sweep.waits = {}
  /\ expire' = "swept"
  /\ live' = live \ sweep.taken
  /\ sweep' = NoSweep
  /\ UNCHANGED <<exec, completed, call, cancel, log, overtaken, stream>>

ExpireTimedOut ==
  /\ expire = "swept"
  /\ expire' = "timedOut"
  /\ log' = Append(log, Committed(Insert("WORKFLOW_TIMED_OUT", Nobody)))
  /\ UNCHANGED <<exec, completed, live, call, cancel, sweep, overtaken, stream>>

ExpireFailed ==
  /\ expire = "timedOut"
  /\ expire' = "idle"
  /\ log' = Append(log, Committed(Insert("WORKFLOW_FAILED", Nobody)))
  /\ UNCHANGED <<exec, completed, live, call, cancel, sweep, overtaken, stream>>

\* A statement of the loop fails: it is logged and the loop goes on.
ExpireStatementFails ==
  LET nextStage == [marked |-> "swept", sweep |-> "swept", swept |-> "timedOut",
                    timedOut |-> "idle"] IN
  /\ expire # "idle"
  /\ expire' = nextStage[expire]
  /\ sweep' = NoSweep
  /\ UNCHANGED <<exec, completed, live, call, cancel, log, overtaken, stream>>

\* Everything in flight is rolled back or forgotten, every stream broken.
ServerCrash ==
  /\ call' = [n \in Steps |-> "idle"]
  /\ cancel' = "idle"
  /\ expire' = "idle"
  /\ sweep' = NoSweep
  /\ log' = [i \in DOMAIN log |-> IF log[i].committed THEN log[i] ELSE Gap]
  /\ stream' = [s \in Streams |-> IF stream[s].stage = "open" THEN Off ELSE stream[s]]
  /\ UNCHANGED <<exec, completed, live, overtaken>>

-----------------------------------------------------------------------------
(* StreamWorkflowHistory.                                                   *)

\* GetWorkflowResult has found the execution.
Connect(s) ==
  /\ stream[s].stage # "open"
  /\ exec # "NONE"
  /\ stream' = [stream EXCEPT ![s] = [Off EXCEPT !.stage = "open"]]
  /\ UNCHANGED <<exec, completed, live, call, cancel, expire, sweep, log, overtaken>>

GetHistoryAfter(afterID) == {i \in Visible : i > afterID}

\* Fault injection: the next id is taken for the last one sent.
LastIDAhead(events) == CHOOSE i \in 1 .. Len(log) + 1 : \A j \in events : j < i

\* The last of a batch that is sent in the order of the ids.
LastID(events) == CHOOSE i \in events : \A j \in events : j <= i

\* Fault injection: the stream resumes after the last id there is.
PollToEnd(s) ==
  LET events == GetHistoryAfter(stream[s].last) IN
  /\ stream[s].stage = "open"
  /\ events # {}
  /\ stream' = [stream EXCEPT ![s] =
       [stage |-> IF \E i \in events : EndsStream(log[i].type) THEN "ended" ELSE "open",
        last |-> Len(log),
        sent |-> @.sent \union events]]
  /\ UNCHANGED <<exec, completed, live, call, cancel, expire, sweep, log, overtaken>>

Poll(s) ==
  LET events == GetHistoryAfter(stream[s].last) IN
  /\ stream[s].stage = "open"
  /\ events # {}
  /\ stream' = [stream EXCEPT ![s] =
       [stage |-> IF \E i \in events : EndsStream(log[i].type) THEN "ended" ELSE "open",
        last |-> LastID(events),
        sent |-> @.sent \union events]]
  /\ UNCHANGED <<exec, completed, live, call, cancel, expire, sweep, log, overtaken>>

\* The client goes, a Send fails or the query does.
Break(s) ==
  /\ stream[s].stage = "open"
  /\ stream' = [stream EXCEPT ![s] = Off]
  /\ UNCHANGED <<exec, completed, live, call, cancel, expire, sweep, log, overtaken>>

-----------------------------------------------------------------------------
CancelWorkflow == CancelBegin \/ CancelAppend \/ CancelCommit \/ CancelAborts

ExpireOverdueWorkflows ==
  \/ ExpireOverdue
  \/ ExpireSweep
  \/ ExpireSwept
  \/ ExpireTimedOut
  \/ ExpireFailed
  \/ ExpireStatementFails

StreamWorkflowHistory(s) == Connect(s) \/ Poll(s) \/ Break(s)

Next ==
  \/ StartWorkflow
  \/ \E n \in Steps : Begin(n) \/ CompleteTask(n) \/ Abort(n) \/ SweepTakesRow(n)
  \/ CancelWorkflow
  \/ ExpireOverdueWorkflows
  \/ ServerCrash
  \/ \E s \in Streams : StreamWorkflowHistory(s)

Spec == Init /\ [][Next]_vars

\* Streams poll, handlers in flight go on as far as their locks allow, and
\* so does the sweeper's loop.
Fairness ==
  /\ \A s \in Streams : WF_vars(Poll(s))
  /\ \A n \in Steps : WF_vars(CompleteTask(n)) /\ WF_vars(Rejected(n))
  /\ \A n \in Steps : WF_vars(SweepTakesRow(n))
  /\ WF_vars(ExpireSweep \/ ExpireSwept \/ ExpireTimedOut \/ ExpireFailed)

FairSpec == Spec /\ Fairness

-----------------------------------------------------------------------------
Stages == {"idle", "open", "retrying", "appended", "closing", "sweep", "failed"}

TypeOK ==
  /\ exec \in {"NONE", "RUNNING", "COMPLETED", "FAILED", "CANCELLED"}
  /\ completed \in Nat
  /\ live \subseteq Steps
  /\ call \in [Steps -> Stages]
  /\ cancel \in {"idle", "sweep", "appended"}
  /\ expire \in {"idle", "marked", "sweep", "swept", "timedOut"}
  /\ sweep \in [waits : SUBSET Steps, taken : SUBSET Steps]
  /\ log \in Seq(Event)
  /\ overtaken \subseteq DOMAIN log
  /\ stream \in [Streams -> [stage : {"off", "open", "ended"},
                             last : {-1} \union DOMAIN log,
                             sent : SUBSET DOMAIN log]]

Skipped(s) == {i \in Visible : i <= stream[s].last} \ stream[s].sent

\* The cursor loses nothing by itself: an event a stream has passed over was
\* committed after one with a higher id.
OnlyOvertakenSkipped == \A s \in Streams : Skipped(s) \subseteq overtaken

\* The events that say how the execution ended.
Outcome == [WORKFLOW_COMPLETED |-> "COMPLETED", WORKFLOW_FAILED |-> "FAILED",
            WORKFLOW_CANCELLED |-> "CANCELLED"]

Closing == {i \in DOMAIN log : log[i].type \in DOMAIN Outcome}

\* A stream never tells what was not or is undone: what it sent is committed,
\* an outcome it sent is the state of the execution, and it ends by telling it.
SentIsHistory ==
  \A s \in Streams :
    /\ stream[s].sent \subseteq {i \in DOMAIN log : log[i].committed}
    /\ \A i \in stream[s].sent \cap Closing : exec = Outcome[log[i].type]
    /\ stream[s].stage = "ended" => stream[s].sent \cap Closing # {}

\* WORKFLOW_COMPLETED is the last event of its execution: all others have a
\* lower id and were committed or rolled back before, so no stream passes over
\* it or ends before something else is still to come.
CompletedComesLast ==
  \A i \in Visible : log[i].type = "WORKFLOW_COMPLETED" =>
    /\ i \notin overtaken
    /\ \A j \in DOMAIN log : log[j] # Gap => j <= i /\ log[j].committed

\* The sweeper failed to write the closing event, or crashed before.
ClosingUnwritten == expire = "idle" /\ Closing \cap Visible = {}

\* A handler began again on the row of a retry, which no sweep had seen, and
\* took its id after the closing event and committed before it.
ClosingOvertaken == Closing \cap overtaken # {}

\* The stream of a closed execution ends, whatever handlers were in flight
\* when it was closed, unless the sweeper could not write the closing event or
\* the closing event itself was overtaken.
StreamsEnd ==
  \A s \in Streams :
    stream[s].stage = "open" /\ exec \in {"COMPLETED", "FAILED", "CANCELLED"}
      ~> stream[s].stage # "open" \/ ClosingUnwritten \/ ClosingOvertaken

\* What history_repository.go and repository.go say of GetByExecutionAfter: a
\* stream resumes without reading again what it has read, so that what it has
\* sent is the history up to its cursor.
NothingSkipped == \A s \in Streams : Skipped(s) = {}

\* The steps a reader of the history is told to be completed.
StepsTold ==
  {n \in Steps : \E i \in Visible : log[i].type = "STEP_COMPLETED" /\ log[i].by = n}

\* What a reader is told keeps the promise of Workflow, although every handler
\* inserts its events, waits for the execution row, counts and commits in steps
\* of their own: a step is told to be completed once and only if its report was
\* under way, the one that makes them all completed closes the execution in the
\* same commit, and no commit or rollback in between shows or takes back half.
Promise == INSTANCE Workflow WITH
  WorkflowType <- "INDEPENDENT",
  Compensable <- {},
  status <- exec,
  done <- StepsTold,
  undone <- {},
  undoing <- FALSE,
  rolledBack <- FALSE,
  reported <- {n \in Steps : call[n] # "idle"}

PromiseKept == Promise!Spec

=============================================================================
