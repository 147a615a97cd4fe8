------------------------ MODULE HistoryStream_proof ------------------------
(***************************************************************************)
(* Proofs about the history of one execution and its streams, for any      *)
(* number of steps, streams and events.                                    *)
(***************************************************************************)
EXTENDS HistoryStream, FiniteSetTheorems, SequenceTheorems, WellFoundedInduction, TLAPS

\* The stages of a completion in which it holds the execution row.
Holding == {"closing", "sweep", "failed"}

\* One transaction holds the execution row, and only while the execution runs;
\* the sweeper acts on what it has closed.
OneHolder ==
  /\ \A m, n \in Steps : call[m] \in Holding /\ call[n] \in Holding => m = n
  /\ \A n \in Steps : call[n] \in Holding => cancel = "idle" /\ exec = "RUNNING"
  /\ cancel # "idle" => exec = "RUNNING"
  /\ expire # "idle" => exec = "FAILED"

\* While the execution runs, the counter and the live rows make up all steps;
\* the completion that closes it is the only one there is.
Counting ==
  /\ exec = "RUNNING" => /\ completed + Cardinality(live) = TotalSteps
                         /\ \A n \in Steps : call[n] # "idle" => n \in live
  /\ exec = "NONE" => completed = 0
  /\ exec \in {"NONE", "COMPLETED"} => live = {} /\ \A n \in Steps : call[n] = "idle"
  /\ \A n \in Steps : call[n] = "closing" => completed + 1 = TotalSteps

Waiting == {i \in DOMAIN log : log[i] # Gap /\ ~log[i].committed}

\* An event that is not committed belongs to a transaction in flight, which
\* has inserted just such events.
Fits(i) ==
  \/ /\ log[i].by = Nobody
     /\ cancel = "appended"
     /\ log[i].type = "WORKFLOW_CANCELLED"
  \/ /\ log[i].by \in Steps
     /\ \/ call[log[i].by] = "retrying" /\ log[i].type = "STEP_RETRYING"
        \/ call[log[i].by] = "appended" /\ log[i].type = "STEP_COMPLETED"
        \/ /\ call[log[i].by] = "closing"
           /\ \/ log[i].type = "STEP_COMPLETED"
              \/ log[i].type = "WORKFLOW_COMPLETED" /\ i = Len(log)
        \/ call[log[i].by] = "failed" /\ log[i].type \in {"STEP_FAILED", "WORKFLOW_FAILED"}

WaitingFits == \A i \in Waiting : Fits(i)

\* A committed closing event says how the execution ended.
ClosingTrue == \A i \in Visible \cap Closing : exec = Outcome[log[i].type]

\* Nothing is in flight once WORKFLOW_COMPLETED can be read, nor after it.
CompletedLast ==
  \A i \in Visible : log[i].type = "WORKFLOW_COMPLETED" =>
    i \notin overtaken /\ Waiting = {} /\ \A j \in Visible : j <= i

\* A stream stands at an event it could read, and has sent such events.
StreamFits ==
  /\ overtaken \subseteq Visible
  /\ \A s \in Streams :
       /\ stream[s].last \in {-1} \union Visible
       /\ stream[s].sent \subseteq Visible
       /\ stream[s].stage = "ended" => stream[s].sent \cap Closing # {}

\* The inductive invariant.
IInv ==
  /\ TypeOK /\ OneHolder /\ Counting
  /\ WaitingFits /\ ClosingTrue /\ CompletedLast
  /\ StreamFits /\ OnlyOvertakenSkipped

\* What the state of the execution, its rows and its transactions are.
TypeRest ==
  /\ exec \in {"NONE", "RUNNING", "COMPLETED", "FAILED", "CANCELLED"}
  /\ completed \in Nat
  /\ live \subseteq Steps
  /\ call \in [Steps -> Stages]
  /\ cancel \in {"idle", "sweep", "appended"}
  /\ expire \in {"idle", "marked", "sweep", "swept", "timedOut"}
  /\ sweep \in [waits : SUBSET Steps, taken : SUBSET Steps]

\* What the log and the streams are.
TypeLog ==
  /\ log \in Seq(Event)
  /\ overtaken \subseteq DOMAIN log
  /\ stream \in [Streams -> [stage : {"off", "open", "ended"},
                             last : {-1} \union DOMAIN log,
                             sent : SUBSET DOMAIN log]]

LEMMA TypeParts == TypeOK <=> TypeRest /\ TypeLog
BY DEF TypeOK, TypeRest, TypeLog

-----------------------------------------------------------------------------
(* The execution and its locks: nothing of this depends on the log.         *)

\* Every step of a completion keeps the types and the one holder.
LEMMA CallHolds ==
  ASSUME TypeRest, OneHolder, NEW n \in Steps,
         Begin(n) \/ CompleteTask(n) \/ Abort(n) \/ SweepTakesRow(n)
  PROVE  TypeRest' /\ OneHolder'
<1> USE DEF TypeRest, OneHolder, Holding, Stages, To, NoSweep
<1>1. CASE Begin(n)
  BY <1>1 DEF Begin
<1>2. CASE Retry(n)
  BY <1>2 DEF Retry
<1>3. CASE RetryCommit(n)
  BY <1>3 DEF RetryCommit
<1>4. CASE Succeed(n)
  BY <1>4 DEF Succeed
<1>5. CASE StepDone(n)
  BY <1>5 DEF StepDone
<1>6. CASE LastStepDone(n)
  BY <1>6 DEF LastStepDone, ExecLocked
<1>7. CASE CloseCommit(n)
  BY <1>7 DEF CloseCommit
<1>8. CASE Fail(n)
  BY <1>8 DEF Fail, ExecLocked
<1>9. CASE FailAppend(n)
  BY <1>9 DEF FailAppend
<1>10. CASE FailCommit(n)
  BY <1>10 DEF FailCommit
<1>11. CASE Abort(n)
  BY <1>11 DEF Abort
<1>12. CASE SweepTakesRow(n)
  BY <1>12 DEF SweepTakesRow
<1> QED BY <1>1, <1>2, <1>3, <1>4, <1>5, <1>6, <1>7, <1>8, <1>9, <1>10, <1>11, <1>12
     DEF CompleteTask

\* So does every step of the others.
LEMMA OthersHold ==
  ASSUME TypeRest, OneHolder,
         StartWorkflow \/ CancelWorkflow \/ ExpireOverdueWorkflows \/ ServerCrash
  PROVE  TypeRest' /\ OneHolder'
<1> USE DEF TypeRest, OneHolder, Holding, Stages, NoSweep
<1>1. CASE StartWorkflow
  BY <1>1 DEF StartWorkflow
<1>2. CASE CancelBegin
  BY <1>2 DEF CancelBegin, ExecLocked
<1>3. CASE CancelAppend
  BY <1>3 DEF CancelAppend
<1>4. CASE CancelCommit
  BY <1>4 DEF CancelCommit
<1>5. CASE CancelAborts
  BY <1>5 DEF CancelAborts
<1>6. CASE ExpireOverdue
  BY <1>6 DEF ExpireOverdue, ExecLocked
<1>7. CASE ExpireSweep
  BY <1>7 DEF ExpireSweep
<1>8. CASE ExpireSwept
  BY <1>8 DEF ExpireSwept
<1>9. CASE ExpireTimedOut \/ ExpireFailed
  BY <1>9 DEF ExpireTimedOut, ExpireFailed
<1>10. CASE ExpireStatementFails
  BY <1>10 DEF ExpireStatementFails
<1>11. CASE ServerCrash
  BY <1>11 DEF ServerCrash
<1> QED BY <1>1, <1>2, <1>3, <1>4, <1>5, <1>6, <1>7, <1>8, <1>9, <1>10, <1>11
     DEF CancelWorkflow, ExpireOverdueWorkflows

LEMMA StepsFinite ==
  /\ IsFiniteSet(Steps) /\ Cardinality(Steps) = TotalSteps
  /\ \A S : S \subseteq Steps => IsFiniteSet(S) /\ Cardinality(S) \in Nat
<1>1. IsFiniteSet(Steps) /\ Cardinality(Steps) = TotalSteps
  BY TotalStepsAssumption, FS_Interval, 1 \in Int DEF Steps
<1> QED BY <1>1, FS_Subset, FS_CardinalityType

\* Every step of a completion keeps the count.
LEMMA CallCounts ==
  ASSUME TypeRest, OneHolder, Counting, NEW n \in Steps,
         Begin(n) \/ CompleteTask(n) \/ Abort(n) \/ SweepTakesRow(n)
  PROVE  Counting'
<1> USE DEF TypeRest, Counting, Stages, To
<1>0. IsFiniteSet(live) /\ Cardinality(live) \in Nat /\ TotalSteps \in Nat
  BY StepsFinite, TotalStepsAssumption
<1>1. CASE Begin(n)
  BY <1>1 DEF Begin
<1>2. CASE Retry(n) \/ RetryCommit(n) \/ Succeed(n)
  BY <1>2 DEF Retry, RetryCommit, Succeed
<1>3. CASE StepDone(n)
  <2>1. /\ call[n] = "appended" /\ UNCHANGED exec /\ completed' = completed + 1
        /\ live' = live \ {n} /\ call' = [call EXCEPT ![n] = "idle"]
        /\ \A m \in Steps : call[m] # "closing"
    BY <1>3 DEF StepDone, ExecLocked
  <2>2. n \in live => Cardinality(live') = Cardinality(live) - 1
    BY <1>0, <2>1, FS_RemoveElement
  <2> QED BY <1>0, <2>1, <2>2
<1>4. CASE LastStepDone(n)
  BY <1>4 DEF LastStepDone
<1>5. CASE CloseCommit(n)
  <2>1. /\ exec = "RUNNING" /\ exec' = "COMPLETED" /\ completed' = completed + 1
        /\ live' = live \ {n} /\ call' = [call EXCEPT ![n] = "idle"]
        /\ n \in live /\ completed + 1 = TotalSteps
    BY <1>5 DEF CloseCommit, OneHolder, Holding
  <2>2. IsFiniteSet(live') /\ Cardinality(live') = Cardinality(live) - 1
    BY <1>0, <2>1, FS_RemoveElement
  <2>3. live' = {}
    BY <1>0, <2>1, <2>2, FS_EmptySet
  <2>4. \A m \in Steps : call'[m] = "idle"
    BY <2>1, <2>3
  <2> QED BY <2>1, <2>3, <2>4
<1>6. CASE Fail(n) \/ FailAppend(n)
  BY <1>6 DEF Fail, FailAppend
<1>7. CASE FailCommit(n)
  BY <1>7 DEF FailCommit, OneHolder, Holding
<1>8. CASE Abort(n)
  BY <1>8 DEF Abort
<1>9. CASE SweepTakesRow(n)
  BY <1>9 DEF SweepTakesRow
<1> QED BY <1>1, <1>2, <1>3, <1>4, <1>5, <1>6, <1>7, <1>8, <1>9 DEF CompleteTask

\* So does every step of the others.
LEMMA OthersCount ==
  ASSUME TypeRest, OneHolder, Counting,
         StartWorkflow \/ CancelWorkflow \/ ExpireOverdueWorkflows \/ ServerCrash
  PROVE  Counting'
<1> USE DEF TypeRest, Counting
<1>1. CASE StartWorkflow
  <2>1. completed' = 0 /\ live' = Steps /\ exec' = "RUNNING" /\ \A n \in Steps : call'[n] = "idle"
    BY <1>1 DEF StartWorkflow
  <2> QED BY <2>1, StepsFinite, TotalStepsAssumption
<1>2. CASE CancelBegin \/ CancelAppend \/ CancelAborts
  BY <1>2 DEF CancelBegin, CancelAppend, CancelAborts
<1>3. CASE CancelCommit
  BY <1>3 DEF CancelCommit, OneHolder, Holding
<1>4. CASE ExpireOverdue
  BY <1>4 DEF ExpireOverdue, ExecLocked
<1>5. CASE ExpireSweep \/ ExpireTimedOut \/ ExpireFailed \/ ExpireStatementFails
  BY <1>5 DEF ExpireSweep, ExpireTimedOut, ExpireFailed, ExpireStatementFails
<1>6. CASE ExpireSwept
  BY <1>6 DEF ExpireSwept, OneHolder
<1>7. CASE ServerCrash
  BY <1>7 DEF ServerCrash
<1> QED BY <1>1, <1>2, <1>3, <1>4, <1>5, <1>6, <1>7
     DEF CancelWorkflow, ExpireOverdueWorkflows

-----------------------------------------------------------------------------
(* The log.                                                                 *)

\* Most handlers leave the streams alone and add to what can be read only what
\* is new or, if something later could be read before, overtaken.
LogStep ==
  /\ log' \in Seq(Event) /\ Len(log) <= Len(log')
  /\ Visible \subseteq Visible'
  /\ Visible \cap Closing \subseteq Closing'
  /\ overtaken' = overtaken \union {i \in Visible' \ Visible : \E j \in Visible : j > i}

\* The log is as it was.
LEMMA LogKept ==
  ASSUME TypeLog, UNCHANGED <<log, overtaken>>
  PROVE  LogStep /\ Visible' = Visible /\ Waiting' = Waiting
BY DEF TypeLog, LogStep, Visible, Waiting, Closing

LEMMA LogBounds ==
  ASSUME TypeLog
  PROVE  /\ Len(log) \in Nat /\ DOMAIN log = 1 .. Len(log)
         /\ \A i \in 1 .. Len(log) : log[i] \in Event
BY DEF TypeLog

\* An event is inserted after all others.
LEMMA LogGrows ==
  ASSUME TypeLog, NEW e \in Event, e # Gap, log' = Append(log, e), UNCHANGED overtaken
  PROVE  /\ LogStep
         /\ Len(log') = Len(log) + 1 /\ log'[Len(log) + 1] = e
         /\ \A i \in 1 .. Len(log) : log'[i] = log[i]
         /\ Visible' = IF e.committed THEN Visible \union {Len(log) + 1} ELSE Visible
         /\ Waiting' = IF e.committed THEN Waiting ELSE Waiting \union {Len(log) + 1}
<1>1. /\ log' \in Seq(Event) /\ Len(log') = Len(log) + 1 /\ log'[Len(log) + 1] = e
      /\ \A i \in 1 .. Len(log) : log'[i] = log[i]
      /\ DOMAIN log' = 1 .. Len(log) + 1
  BY LogBounds DEF TypeLog
<1>2. Visible' = IF e.committed THEN Visible \union {Len(log) + 1} ELSE Visible
  BY <1>1, LogBounds DEF Visible
<1>3. Waiting' = IF e.committed THEN Waiting ELSE Waiting \union {Len(log) + 1}
  <2>1. DOMAIN log' = DOMAIN log \union {Len(log) + 1} /\ Len(log) + 1 \notin DOMAIN log
    BY <1>1, LogBounds
  <2>2. e.committed \in BOOLEAN
    BY DEF Event
  <2> QED BY <1>1, <2>1, <2>2, LogBounds DEF Waiting
<1>4. LogStep
  <2>1. Visible \cap Closing \subseteq Closing'
    BY <1>1, LogBounds DEF Closing
  <2>2. \A i \in Visible' \ Visible : ~ \E j \in Visible : j > i
    BY <1>2, LogBounds DEF Visible
  <2> QED BY <1>1, <1>2, <2>1, <2>2, LogBounds DEF LogStep
<1> QED BY <1>1, <1>2, <1>3, <1>4

\* A transaction commits: its events can be read.
LEMMA LogCommits ==
  ASSUME TypeLog, NEW by, CommitEvents(by)
  PROVE  /\ LogStep
         /\ Len(log') = Len(log)
         /\ \A i \in 1 .. Len(log) : log'[i].type = log[i].type /\ log'[i].by = log[i].by
         /\ \A i \in 1 .. Len(log) \ Pending(by) : log'[i] = log[i]
         /\ Visible' = Visible \union Pending(by)
         /\ Waiting' = Waiting \ Pending(by)
<1>0. /\ Len(log) \in Nat /\ DOMAIN log = 1 .. Len(log)
      /\ \A i \in 1 .. Len(log) : log[i] \in Event
  BY LogBounds
<1>1. \A i \in 1 .. Len(log) :
        log'[i] = IF i \in Pending(by) THEN Committed(log[i]) ELSE log[i]
  BY <1>0 DEF CommitEvents
<1>2. \A i \in 1 .. Len(log) : Committed(log[i]) \in Event
                                /\ Committed(log[i]).committed
                                /\ Committed(log[i]).type = log[i].type
                                /\ Committed(log[i]).by = log[i].by
  BY <1>0 DEF Committed, Event
<1>3. log' \in [1 .. Len(log) -> Event]
  BY <1>0, <1>1, <1>2 DEF CommitEvents
<1>4. log' \in Seq(Event) /\ Len(log') = Len(log) /\ DOMAIN log' = 1 .. Len(log)
  BY <1>0, <1>3, SeqDef
<1>5. Visible' = Visible \union Pending(by)
  BY <1>0, <1>1, <1>2, <1>4 DEF Visible, Pending
<1>6. Waiting' = Waiting \ Pending(by)
  <2>1. ASSUME NEW i \in 1 .. Len(log)
        PROVE  i \in Waiting' <=> i \in Waiting /\ i \notin Pending(by)
    BY <1>0, <1>1, <1>2, <1>4, <2>1 DEF Waiting
  <2> QED BY <1>0, <1>4, <2>1 DEF Waiting
<1>7. LogStep
  <2>1. Visible \cap Closing \subseteq Closing'
    BY <1>0, <1>1, <1>2, <1>4 DEF Closing
  <2>2. Pending(by) \cap Visible = {}
    BY DEF Pending, Visible
  <2> QED BY <1>0, <1>4, <1>5, <2>1, <2>2 DEF LogStep, CommitEvents
<1> QED BY <1>1, <1>2, <1>4, <1>5, <1>6, <1>7

\* A transaction is rolled back, or, in a crash, all are: gaps are left.
LEMMA LogRollsBack ==
  ASSUME TypeLog, NEW lost \in SUBSET Waiting, UNCHANGED overtaken,
         log' = [i \in DOMAIN log |-> IF i \in lost THEN Gap ELSE log[i]]
  PROVE  /\ LogStep
         /\ Len(log') = Len(log)
         /\ \A i \in 1 .. Len(log) \ lost : log'[i] = log[i]
         /\ Visible' = Visible
         /\ Waiting' = Waiting \ lost
<1>0. /\ Len(log) \in Nat /\ DOMAIN log = 1 .. Len(log)
      /\ \A i \in 1 .. Len(log) : log[i] \in Event
      /\ lost \subseteq 1 .. Len(log) /\ \A i \in lost : ~log[i].committed
  BY LogBounds DEF Waiting
<1>1. Gap \in Event /\ ~Gap.committed
  BY DEF Gap, Event, Nobody
<1>2. log' \in [1 .. Len(log) -> Event]
  BY <1>0, <1>1
<1>3. log' \in Seq(Event) /\ Len(log') = Len(log) /\ DOMAIN log' = 1 .. Len(log)
  BY <1>0, <1>2, SeqDef
<1>4. \A i \in 1 .. Len(log) : log'[i] = IF i \in lost THEN Gap ELSE log[i]
  BY <1>0
<1>5. Visible' = Visible
  BY <1>0, <1>1, <1>3, <1>4 DEF Visible
<1>6. Waiting' = Waiting \ lost
  BY <1>0, <1>3, <1>4 DEF Waiting
<1>7. Visible \cap Closing \subseteq Closing'
  BY <1>0, <1>3, <1>4 DEF Closing, Visible
<1> QED BY <1>0, <1>3, <1>4, <1>5, <1>6, <1>7 DEF LogStep

\* Streams that stay where they are or are broken stay right.
LEMMA StreamsKept ==
  ASSUME TypeLog, StreamFits, OnlyOvertakenSkipped, LogStep,
         stream' \in [Streams -> [stage : {"off", "open", "ended"},
                                  last : {-1} \union DOMAIN log, sent : SUBSET DOMAIN log]],
         \A s \in Streams : stream'[s] \in {stream[s], Off}
  PROVE  TypeLog' /\ StreamFits' /\ OnlyOvertakenSkipped'
<1>0. /\ Len(log) \in Nat /\ DOMAIN log = 1 .. Len(log)
      /\ Len(log') \in Nat /\ DOMAIN log' = 1 .. Len(log') /\ Len(log) <= Len(log')
      /\ DOMAIN log \subseteq DOMAIN log'
  BY DEF TypeLog, LogStep
<1>1. overtaken \subseteq Visible /\ overtaken' \subseteq Visible'
  BY DEF StreamFits, LogStep
<1>2. TypeLog'
  <2>1. overtaken' \subseteq DOMAIN log'
    BY <1>1 DEF Visible
  <2>2. ASSUME NEW s \in Streams
        PROVE  stream'[s] \in [stage : {"off", "open", "ended"},
                               last : {-1} \union DOMAIN log', sent : SUBSET DOMAIN log']
    BY <1>0
  <2> QED BY <2>1, <2>2 DEF TypeLog, LogStep
<1>3. StreamFits'
  BY <1>1 DEF StreamFits, LogStep, Off
<1>4. OnlyOvertakenSkipped'
  <2> SUFFICES ASSUME NEW s \in Streams, NEW i \in Visible', i <= stream'[s].last,
                      i \notin stream'[s].sent
               PROVE  i \in overtaken'
    BY DEF OnlyOvertakenSkipped, Skipped
  <2>1. i \in 1 .. Len(log')
    BY <1>0 DEF Visible
  <2>2. stream'[s] = stream[s]
    BY <2>1 DEF Off
  <2>3. CASE i \in Visible
    BY <2>2, <2>3 DEF OnlyOvertakenSkipped, Skipped, LogStep
  <2>4. CASE i \notin Visible
    <3>1. stream[s].last \in Visible
      BY <2>1, <2>2 DEF StreamFits
    <3>2. stream[s].last \in Nat /\ stream[s].last > i
      BY <1>0, <2>1, <2>2, <2>4, <3>1 DEF Visible
    <3> QED BY <2>4, <3>1, <3>2 DEF LogStep
  <2> QED BY <2>3, <2>4
<1> QED BY <1>2, <1>3, <1>4

-----------------------------------------------------------------------------
(* What the log holds, step by step.                                        *)

\* The invariant without the streams.
Core ==
  /\ TypeRest /\ TypeLog /\ OneHolder /\ Counting
  /\ WaitingFits /\ ClosingTrue /\ CompletedLast /\ overtaken \subseteq Visible

LogRight == LogStep /\ WaitingFits' /\ ClosingTrue' /\ CompletedLast'

LEMMA Outcomes ==
  /\ DOMAIN Outcome = {"WORKFLOW_COMPLETED", "WORKFLOW_FAILED", "WORKFLOW_CANCELLED"}
  /\ Outcome["WORKFLOW_COMPLETED"] = "COMPLETED"
  /\ Outcome["WORKFLOW_FAILED"] = "FAILED"
  /\ Outcome["WORKFLOW_CANCELLED"] = "CANCELLED"
  /\ \A type : EndsStream(type) <=> type \in DOMAIN Outcome
BY DEF Outcome, EndsStream

\* Only a completed execution has a WORKFLOW_COMPLETED to be read, and an open
\* one has no closing event.
LEMMA ClosedByEvent ==
  ASSUME TypeLog, ClosingTrue
  PROVE  /\ exec \in {"NONE", "RUNNING"} => Visible \cap Closing = {}
         /\ exec # "COMPLETED" => \A i \in Visible : log[i].type # "WORKFLOW_COMPLETED"
BY Outcomes DEF ClosingTrue, Closing, Visible

\* The completion that closes the execution is the only call there is.
LEMMA ClosingAlone ==
  ASSUME TypeRest, OneHolder, Counting, NEW m \in Steps, call[m] = "closing"
  PROVE  /\ exec = "RUNNING" /\ cancel = "idle" /\ expire = "idle"
         /\ \A n \in Steps : n # m => call[n] = "idle" /\ n \notin live
<1>1. exec = "RUNNING" /\ cancel = "idle" /\ expire = "idle"
  BY DEF OneHolder, Holding, TypeRest
<1>2. /\ completed + Cardinality(live) = TotalSteps /\ completed + 1 = TotalSteps
      /\ m \in live /\ IsFiniteSet(live) /\ Cardinality(live) \in Nat
      /\ completed \in Nat /\ TotalSteps \in Nat
  BY <1>1, StepsFinite, TotalStepsAssumption DEF Counting, TypeRest
<1>3. live \ {m} = {}
  <2>1. IsFiniteSet(live \ {m}) /\ Cardinality(live \ {m}) = Cardinality(live) - 1
    BY <1>2, FS_RemoveElement
  <2> QED BY <1>2, <2>1, FS_EmptySet
<1> QED BY <1>1, <1>3 DEF Counting

\* A step that leaves the log alone and no transaction with events.
LEMMA QuietRight ==
  ASSUME Core, UNCHANGED <<log, overtaken>>,
         cancel = "appended" => cancel' = "appended",
         \A n \in Steps : call[n] \in {"retrying", "appended", "closing", "failed"}
                            => call'[n] = call[n],
         exec' = exec \/ exec = "RUNNING"
  PROVE  LogRight
<1>1. LogStep /\ Visible' = Visible /\ Waiting' = Waiting
  BY LogKept DEF Core
<1>2. WaitingFits'
  <2> SUFFICES ASSUME NEW i \in Waiting PROVE Fits(i)'
    BY <1>1 DEF WaitingFits
  <2>1. Fits(i)
    BY DEF Core, WaitingFits
  <2> QED BY <2>1 DEF Fits
<1>3. ClosingTrue'
  BY <1>1, ClosedByEvent DEF Core, ClosingTrue, Closing
<1>4. CompletedLast'
  BY <1>1 DEF Core, CompletedLast
<1> QED BY <1>1, <1>2, <1>3, <1>4 DEF LogRight

\* A transaction that is not closing the execution inserts an event.
LEMMA InsertRight ==
  ASSUME Core, NEW type \in StepEvents \union WorkflowEvents, NEW by \in Steps \union {Nobody},
         log' = Append(log, Insert(type, by)), UNCHANGED <<overtaken, exec>>,
         exec # "COMPLETED", \A n \in Steps : call[n] # "closing",
         \A i \in Waiting : Fits(i) /\ log'[i] = log[i] => Fits(i)',
         \A k \in Nat : k = Len(log) + 1 /\ log'[k] = Insert(type, by) /\ Len(log') = k => Fits(k)'
  PROVE  LogRight
<1> DEFINE e == Insert(type, by)
<1>1. e \in Event /\ e # Gap /\ ~e.committed /\ e.committed = FALSE
  BY DEF Insert, Gap, Event, StepEvents, WorkflowEvents
<1>2. /\ LogStep
      /\ Len(log') = Len(log) + 1 /\ log'[Len(log) + 1] = e
      /\ \A i \in 1 .. Len(log) : log'[i] = log[i]
      /\ Visible' = Visible
      /\ Waiting' = Waiting \union {Len(log) + 1}
  BY <1>1, LogGrows DEF Core
<1>3. Visible \subseteq 1 .. Len(log) /\ Waiting \subseteq 1 .. Len(log)
  BY LogBounds DEF Core, Visible, Waiting
<1>4. WaitingFits'
  <2> SUFFICES ASSUME NEW i \in Waiting' PROVE Fits(i)'
    BY DEF WaitingFits
  <2>1. CASE i \in Waiting
    BY <1>2, <1>3, <2>1 DEF Core, WaitingFits
  <2>2. CASE i = Len(log) + 1
    BY <1>2, <2>2, LogBounds DEF Core
  <2> QED BY <1>2, <2>1, <2>2
<1>5. ClosingTrue'
  BY <1>2, <1>3 DEF Core, ClosingTrue, Closing, Visible
<1>6. CompletedLast'
  BY <1>2, <1>3, ClosedByEvent DEF Core, CompletedLast
<1> QED BY <1>2, <1>4, <1>5, <1>6 DEF LogRight

\* An event is recorded by a statement that commits by itself, or by a handler
\* that nothing can overlap.
LEMMA RecordRight ==
  ASSUME Core, NEW type \in WorkflowEvents, type # "WORKFLOW_COMPLETED",
         log' = Append(log, Committed(Insert(type, Nobody))), UNCHANGED <<overtaken, call, cancel>>,
         exec # "COMPLETED", exec' = exec \/ exec = "NONE",
         type \in DOMAIN Outcome => exec' = Outcome[type],
         \A n \in Steps : call[n] # "closing"
  PROVE  LogRight
<1> DEFINE e == Committed(Insert(type, Nobody))
<1>1. e \in Event /\ e # Gap /\ e.committed /\ e.type = type
  BY DEF Insert, Committed, Gap, Event, WorkflowEvents
<1> HIDE DEF e
<1>2. /\ LogStep
      /\ Len(log') = Len(log) + 1 /\ log'[Len(log) + 1] = e
      /\ \A i \in 1 .. Len(log) : log'[i] = log[i]
      /\ Visible' = Visible \union {Len(log) + 1}
      /\ Waiting' = Waiting
  <2>1. log' = Append(log, e)
    BY DEF e
  <2> QED BY <1>1, <2>1, LogGrows DEF Core
<1>3. Visible \subseteq 1 .. Len(log) /\ Waiting \subseteq 1 .. Len(log)
  BY LogBounds DEF Core, Visible, Waiting
<1>4. WaitingFits'
  <2> SUFFICES ASSUME NEW i \in Waiting PROVE Fits(i)'
    BY <1>2 DEF WaitingFits
  <2>1. Fits(i) /\ log'[i] = log[i]
    BY <1>2, <1>3 DEF Core, WaitingFits
  <2> QED BY <2>1 DEF Fits
<1>5. ClosingTrue'
  <2> SUFFICES ASSUME NEW i \in Visible', log'[i].type \in DOMAIN Outcome
               PROVE  exec' = Outcome[log'[i].type]
    BY DEF ClosingTrue, Closing
  <2>1. CASE i \in Visible
    <3>1. log'[i] = log[i]
      BY <1>2, <1>3, <2>1
    <3>2. i \in Closing
      BY <2>1, <3>1 DEF Closing, Visible
    <3> QED BY <2>1, <3>1, <3>2, ClosedByEvent DEF Core, ClosingTrue
  <2>2. CASE i = Len(log) + 1
    BY <1>1, <1>2, <2>2
  <2> QED BY <1>2, <2>1, <2>2
<1>6. CompletedLast'
  <2>1. \A i \in Visible : log[i].type # "WORKFLOW_COMPLETED"
    BY ClosedByEvent DEF Core
  <2>2. \A i \in Visible' : log'[i].type # "WORKFLOW_COMPLETED"
    BY <1>1, <1>2, <1>3, <2>1
  <2> QED BY <2>2 DEF CompletedLast
<1> QED BY <1>2, <1>4, <1>5, <1>6 DEF LogRight

\* A transaction ends and leaves gaps.
LEMMA RollBackRight ==
  ASSUME Core, NEW lost \in SUBSET Waiting, UNCHANGED <<overtaken, exec>>,
         log' = [i \in DOMAIN log |-> IF i \in lost THEN Gap ELSE log[i]],
         \A i \in Waiting \ lost : Fits(i) /\ log'[i] = log[i] /\ Len(log') = Len(log) => Fits(i)'
  PROVE  LogRight
<1>1. /\ LogStep
      /\ Len(log') = Len(log)
      /\ \A i \in 1 .. Len(log) \ lost : log'[i] = log[i]
      /\ Visible' = Visible
      /\ Waiting' = Waiting \ lost
  BY LogRollsBack DEF Core
<1>2. Visible \subseteq 1 .. Len(log) \ lost /\ Waiting \subseteq 1 .. Len(log)
  BY LogBounds DEF Core, Visible, Waiting
<1>3. WaitingFits'
  BY <1>1, <1>2 DEF Core, WaitingFits
<1>4. ClosingTrue'
  BY <1>1, <1>2 DEF Core, ClosingTrue, Closing, Visible
<1>5. CompletedLast'
  BY <1>1, <1>2 DEF Core, CompletedLast
<1> QED BY <1>1, <1>3, <1>4, <1>5 DEF LogRight

\* A transaction that does not complete the execution commits.
LEMMA CommitRight ==
  ASSUME Core, NEW by, CommitEvents(by), exec # "COMPLETED", exec' # "COMPLETED",
         exec' = exec \/ exec = "RUNNING",
         \A i \in Pending(by) : log[i].type \in DOMAIN Outcome => exec' = Outcome[log[i].type],
         \A i \in Waiting \ Pending(by) :
           Fits(i) /\ log'[i] = log[i] /\ Len(log') = Len(log) => Fits(i)'
  PROVE  LogRight
<1>1. /\ LogStep
      /\ Len(log') = Len(log)
      /\ \A i \in 1 .. Len(log) : log'[i].type = log[i].type /\ log'[i].by = log[i].by
      /\ \A i \in 1 .. Len(log) \ Pending(by) : log'[i] = log[i]
      /\ Visible' = Visible \union Pending(by)
      /\ Waiting' = Waiting \ Pending(by)
  BY LogCommits DEF Core
<1>2. /\ Visible \subseteq 1 .. Len(log) /\ Waiting \subseteq 1 .. Len(log)
      /\ Pending(by) \subseteq 1 .. Len(log)
  BY LogBounds DEF Core, Visible, Waiting, Pending
<1>3. WaitingFits'
  BY <1>1, <1>2 DEF Core, WaitingFits
<1>4. ClosingTrue'
  <2> SUFFICES ASSUME NEW i \in Visible', log'[i].type \in DOMAIN Outcome
               PROVE  exec' = Outcome[log'[i].type]
    BY DEF ClosingTrue, Closing
  <2>1. i \in 1 .. Len(log) /\ log'[i].type = log[i].type
    BY <1>1, <1>2
  <2>2. CASE i \in Pending(by)
    BY <2>1, <2>2
  <2>3. CASE i \in Visible
    <3>1. i \in Closing
      BY <2>1, LogBounds DEF Closing, Core
    <3>2. exec = Outcome[log[i].type] /\ exec' = exec
      BY <2>3, <3>1, ClosedByEvent DEF Core, ClosingTrue
    <3> QED BY <2>1, <3>2
  <2> QED BY <1>1, <2>2, <2>3
<1>5. CompletedLast'
  <2>1. \A i \in Visible' : log'[i].type # "WORKFLOW_COMPLETED"
    <3> SUFFICES ASSUME NEW i \in Visible', log'[i].type = "WORKFLOW_COMPLETED" PROVE FALSE
      OBVIOUS
    <3>1. i \in Closing'
      BY Outcomes DEF Closing, Visible
    <3> QED BY <1>4, <3>1, Outcomes DEF ClosingTrue
  <2> QED BY <2>1 DEF CompletedLast
<1> QED BY <1>1, <1>3, <1>4, <1>5 DEF LogRight

\* Every step of a completion keeps the log right.
LEMMA CallRight ==
  ASSUME Core, NEW n \in Steps,
         Begin(n) \/ CompleteTask(n) \/ Abort(n) \/ SweepTakesRow(n)
  PROVE  LogRight
<1>0. /\ call \in [Steps -> Stages] /\ Nobody \notin Steps
      /\ n \in Steps \union {Nobody}
  BY DEF Core, TypeRest, Steps, Nobody
<1>1. CASE Begin(n)
  BY <1>0, <1>1, QuietRight DEF Begin, To
<1>2. CASE Retry(n)
  <2>1. /\ log' = Append(log, Insert("STEP_RETRYING", n)) /\ UNCHANGED <<overtaken, exec, cancel>>
        /\ call[n] = "open" /\ call' = [call EXCEPT ![n] = "retrying"]
    BY <1>2 DEF Retry, To
  <2>2. exec # "COMPLETED" /\ \A m \in Steps : call[m] # "closing"
    BY <2>1, ClosingAlone DEF Core, Counting
  <2>3. \A i \in Waiting : Fits(i) /\ log'[i] = log[i] => Fits(i)'
    BY <1>0, <2>1, <2>2 DEF Fits
  <2>4. \A k \in Nat : k = Len(log) + 1 /\ log'[k] = Insert("STEP_RETRYING", n)
                       /\ Len(log') = k => Fits(k)'
    BY <1>0, <2>1 DEF Fits, Insert
  <2> QED BY <1>0, <2>1, <2>2, <2>3, <2>4, InsertRight DEF StepEvents
<1>3. CASE Succeed(n)
  <2>1. /\ log' = Append(log, Insert("STEP_COMPLETED", n)) /\ UNCHANGED <<overtaken, exec, cancel>>
        /\ call[n] = "open" /\ call' = [call EXCEPT ![n] = "appended"]
    BY <1>3 DEF Succeed, To
  <2>2. exec # "COMPLETED" /\ \A m \in Steps : call[m] # "closing"
    BY <2>1, ClosingAlone DEF Core, Counting
  <2>3. \A i \in Waiting : Fits(i) /\ log'[i] = log[i] => Fits(i)'
    BY <1>0, <2>1, <2>2 DEF Fits
  <2>4. \A k \in Nat : k = Len(log) + 1 /\ log'[k] = Insert("STEP_COMPLETED", n)
                       /\ Len(log') = k => Fits(k)'
    BY <1>0, <2>1 DEF Fits, Insert
  <2> QED BY <1>0, <2>1, <2>2, <2>3, <2>4, InsertRight DEF StepEvents
<1>4. CASE LastStepDone(n)
  <2>1. /\ log' = Append(log, Insert("WORKFLOW_COMPLETED", n))
        /\ UNCHANGED <<overtaken, exec, cancel>> /\ exec = "RUNNING"
        /\ call[n] = "appended" /\ call' = [call EXCEPT ![n] = "closing"]
        /\ \A m \in Steps : call[m] # "closing"
    BY <1>4 DEF LastStepDone, To, ExecLocked
  <2>2. \A i \in Waiting : Fits(i) /\ log'[i] = log[i] => Fits(i)'
    BY <1>0, <2>1 DEF Fits
  <2>3. \A k \in Nat : k = Len(log) + 1 /\ log'[k] = Insert("WORKFLOW_COMPLETED", n)
                       /\ Len(log') = k => Fits(k)'
    BY <1>0, <2>1 DEF Fits, Insert
  <2> QED BY <1>0, <2>1, <2>2, <2>3, InsertRight DEF WorkflowEvents
<1>5. CASE Fail(n) \/ SweepTakesRow(n)
  <2>1. /\ UNCHANGED <<log, overtaken, exec, cancel>>
        /\ \A m \in Steps : call'[m] = call[m] \/ call[m] = "open"
    BY <1>0, <1>5 DEF Fail, SweepTakesRow, To
  <2> QED BY <2>1, QuietRight
<1>6. CASE RetryCommit(n) \/ StepDone(n) \/ FailCommit(n)
  <2>1. /\ CommitEvents(n) /\ UNCHANGED cancel
        /\ call' = [call EXCEPT ![n] = "idle"]
        /\ exec' = exec \/ (call[n] = "failed" /\ exec' = "FAILED")
        /\ call[n] \in {"retrying", "appended", "failed"}
    BY <1>6 DEF RetryCommit, StepDone, FailCommit, To
  <2>2. call[n] = "failed" => exec = "RUNNING"
    BY DEF Core, OneHolder, Holding
  <2>3. exec # "COMPLETED"
    BY <2>1 DEF Core, Counting
  <2>4. \A i \in Waiting \ Pending(n) : Fits(i) /\ log'[i] = log[i] /\ Len(log') = Len(log) => Fits(i)'
    BY <1>0, <2>1 DEF Fits, Waiting, Pending
  <2>5. \A i \in Pending(n) : log[i].type \in DOMAIN Outcome => exec' = Outcome[log[i].type]
    <3> SUFFICES ASSUME NEW i \in Pending(n), log[i].type \in DOMAIN Outcome
                 PROVE  exec' = Outcome[log[i].type]
      OBVIOUS
    <3>1. Fits(i) /\ log[i].by = n
      BY DEF Core, WaitingFits, Waiting, Pending
    <3>2. call[n] = "failed" /\ log[i].type = "WORKFLOW_FAILED"
      BY <1>0, <2>1, <3>1, Outcomes DEF Fits
    <3>3. exec' = "FAILED"
      BY <1>6, <3>2 DEF RetryCommit, StepDone, FailCommit
    <3> QED BY <3>2, <3>3, Outcomes
  <2> QED BY <2>1, <2>2, <2>3, <2>4, <2>5, CommitRight
<1>7. CASE FailAppend(n)
  <2> DEFINE e1 == Insert("STEP_FAILED", n)
             e2 == Insert("WORKFLOW_FAILED", n)
             len == Len(log)
  <2>1. /\ log' = log \o <<e1, e2>> /\ UNCHANGED <<overtaken, exec, cancel>>
        /\ call[n] = "sweep" /\ call' = [call EXCEPT ![n] = "failed"]
    BY <1>7 DEF FailAppend, To
  <2>2. exec = "RUNNING" /\ \A m \in Steps : call[m] # "closing"
    BY <2>1 DEF Core, OneHolder, Holding
  <2>3. /\ e1 \in Event /\ e1 # Gap /\ ~e1.committed /\ e1.by = n /\ e1.type = "STEP_FAILED"
        /\ e2 \in Event /\ e2 # Gap /\ ~e2.committed /\ e2.by = n /\ e2.type = "WORKFLOW_FAILED"
    BY <1>0 DEF Insert, Gap, Event, StepEvents, WorkflowEvents
  <2> HIDE DEF e1, e2
  <2>4. len \in Nat /\ DOMAIN log = 1 .. len /\ log \in Seq(Event)
    BY LogBounds DEF Core, TypeLog
  <2>5. /\ log' \in Seq(Event) /\ Len(log') = len + 2 /\ DOMAIN log' = 1 .. len + 2
        /\ \A i \in 1 .. len : log'[i] = log[i]
        /\ log'[len + 1] = e1 /\ log'[len + 2] = e2
    BY <2>1, <2>3, <2>4
  <2>6. DOMAIN log' = DOMAIN log \union {len + 1, len + 2}
    BY <2>4, <2>5
  <2>7. Visible' = Visible
    BY <2>3, <2>4, <2>5, <2>6 DEF Visible
  <2>8. Waiting' = Waiting \union {len + 1, len + 2}
    BY <2>3, <2>4, <2>5, <2>6 DEF Waiting
  <2>9. LogStep
    <3>1. Visible \cap Closing \subseteq Closing'
      BY <2>4, <2>5, <2>6 DEF Closing
    <3> QED BY <2>1, <2>4, <2>5, <2>7, <3>1 DEF LogStep
  <2>10. WaitingFits'
    <3> SUFFICES ASSUME NEW i \in Waiting' PROVE Fits(i)'
      BY DEF WaitingFits
    <3>1. CASE i \in Waiting
      <4>1. Fits(i) /\ log'[i] = log[i]
        BY <2>4, <2>5, <3>1 DEF Core, WaitingFits, Waiting
      <4> QED BY <1>0, <2>1, <2>2, <4>1 DEF Fits
    <3>2. CASE i \in {len + 1, len + 2}
      BY <1>0, <2>1, <2>3, <2>5, <3>2 DEF Fits
    <3> QED BY <2>8, <3>1, <3>2
  <2>11. ClosingTrue'
    BY <2>1, <2>4, <2>5, <2>7 DEF Core, ClosingTrue, Closing, Visible
  <2>12. CompletedLast'
    <3>1. \A i \in Visible : log[i].type # "WORKFLOW_COMPLETED"
      BY <2>2, ClosedByEvent DEF Core
    <3> QED BY <2>4, <2>5, <2>7, <3>1 DEF CompletedLast, Visible
  <2> QED BY <2>9, <2>10, <2>11, <2>12 DEF LogRight
<1>8. CASE CloseCommit(n)
  <2>1. /\ CommitEvents(n) /\ UNCHANGED cancel /\ exec' = "COMPLETED"
        /\ call[n] = "closing" /\ call' = [call EXCEPT ![n] = "idle"]
    BY <1>8 DEF CloseCommit, To
  <2>2. /\ LogStep
        /\ Len(log') = Len(log)
        /\ \A i \in 1 .. Len(log) : log'[i].type = log[i].type /\ log'[i].by = log[i].by
        /\ Visible' = Visible \union Pending(n)
        /\ Waiting' = Waiting \ Pending(n)
    BY <2>1, LogCommits DEF Core
  <2>3. /\ Visible \subseteq 1 .. Len(log) /\ Waiting \subseteq 1 .. Len(log)
        /\ Pending(n) \subseteq Waiting /\ Len(log) \in Nat
    BY LogBounds DEF Core, Visible, Waiting, Pending
  <2>4. exec = "RUNNING" /\ cancel = "idle" /\ \A m \in Steps : m # n => call[m] = "idle"
    BY <2>1, ClosingAlone DEF Core
  <2>5. \A i \in Waiting :
          /\ log[i].by = n
          /\ log[i].type = "STEP_COMPLETED"
             \/ (log[i].type = "WORKFLOW_COMPLETED" /\ i = Len(log))
    <3> SUFFICES ASSUME NEW i \in Waiting
                 PROVE  /\ log[i].by = n
                        /\ log[i].type = "STEP_COMPLETED"
                           \/ (log[i].type = "WORKFLOW_COMPLETED" /\ i = Len(log))
      OBVIOUS
    <3>1. Fits(i)
      BY DEF Core, WaitingFits
    <3>2. log[i].by = n
      BY <2>4, <3>1 DEF Fits
    <3> QED BY <1>0, <2>1, <3>1, <3>2 DEF Fits
  <2>6. Waiting = Pending(n)
    BY <2>5 DEF Waiting, Pending
  <2>7. Visible \cap Closing = {}
    BY <2>4, ClosedByEvent DEF Core
  <2>8. WaitingFits'
    BY <2>2, <2>6 DEF WaitingFits
  <2>9. \A i \in Visible' \cap Closing' : i \in Pending(n) /\ log'[i].type = "WORKFLOW_COMPLETED"
    <3> SUFFICES ASSUME NEW i \in Visible', log'[i].type \in DOMAIN Outcome
                 PROVE  i \in Pending(n) /\ log'[i].type = "WORKFLOW_COMPLETED"
      BY DEF Closing
    <3>1. log'[i].type = log[i].type
      BY <2>2, <2>3
    <3>2. i \notin Visible
      BY <2>7, <3>1, LogBounds DEF Closing, Visible
    <3>3. i \in Pending(n)
      BY <2>2, <3>2
    <3> QED BY <2>5, <2>6, <3>1, <3>3, Outcomes
  <2>10. ClosingTrue'
    BY <2>1, <2>9, Outcomes DEF ClosingTrue
  <2>11. CompletedLast'
    <3> SUFFICES ASSUME NEW i \in Visible', log'[i].type = "WORKFLOW_COMPLETED"
                 PROVE  i \notin overtaken' /\ Waiting' = {} /\ \A j \in Visible' : j <= i
      BY DEF CompletedLast
    <3>1. i \in Closing'
      BY Outcomes DEF Closing, Visible
    <3>2. i \in Pending(n) /\ i = Len(log)
      BY <2>2, <2>3, <2>5, <2>9, <3>1
    <3>3. \A j \in Visible' : j <= i
      BY <2>2, <2>3, <3>2
    <3>4. i \notin overtaken'
      <4>1. i \notin overtaken
        BY <3>2 DEF Core, Visible, Pending
      <4>2. \A j \in Visible : ~(j > i)
        <5> SUFFICES ASSUME NEW j \in Visible PROVE ~(j > i)
          OBVIOUS
        <5>1. j \in 1 .. Len(log) /\ Len(log) \in Nat /\ i = Len(log)
          BY <2>3, <3>2
        <5> QED BY <5>1
      <4>3. overtaken' = overtaken \union {k \in Visible' \ Visible : \E j \in Visible : j > k}
        BY <2>2 DEF LogStep
      <4> QED BY <4>1, <4>2, <4>3
    <3> QED BY <2>2, <2>6, <3>3, <3>4
  <2> QED BY <2>2, <2>8, <2>10, <2>11 DEF LogRight
<1>9. CASE Abort(n)
  <2>1. /\ RollBackEvents(n) /\ UNCHANGED <<overtaken, exec, cancel>>
        /\ call' = [call EXCEPT ![n] = "idle"]
    BY <1>9 DEF Abort, To
  <2>2. Pending(n) \subseteq Waiting
    BY DEF Pending, Waiting
  <2>3. \A i \in Waiting \ Pending(n) : Fits(i) /\ log'[i] = log[i] /\ Len(log') = Len(log) => Fits(i)'
    BY <1>0, <2>1 DEF Fits, Waiting, Pending
  <2> QED BY <2>1, <2>2, <2>3, RollBackRight DEF RollBackEvents
<1> QED BY <1>1, <1>2, <1>3, <1>4, <1>5, <1>6, <1>7, <1>8, <1>9 DEF CompleteTask

\* So does every step of the others.
LEMMA OthersRight ==
  ASSUME Core, StartWorkflow \/ CancelWorkflow \/ ExpireOverdueWorkflows \/ ServerCrash
  PROVE  LogRight
<1>0. /\ call \in [Steps -> Stages] /\ Nobody \notin Steps /\ Nobody \in Steps \union {Nobody}
  BY DEF Core, TypeRest, Steps, Nobody
<1>1. CASE StartWorkflow
  <2>1. /\ log' = Append(log, Committed(Insert("WORKFLOW_STARTED", Nobody)))
        /\ exec = "NONE" /\ exec' = "RUNNING" /\ UNCHANGED <<overtaken, call, cancel>>
    BY <1>1 DEF StartWorkflow
  <2>2. \A m \in Steps : call[m] # "closing"
    BY <2>1 DEF Core, Counting
  <2> QED BY <2>1, <2>2, RecordRight, Outcomes DEF WorkflowEvents
<1>2. CASE CancelBegin
  BY <1>2, QuietRight DEF CancelBegin, ExecLocked
<1>3. CASE CancelAppend
  <2>1. /\ log' = Append(log, Insert("WORKFLOW_CANCELLED", Nobody))
        /\ UNCHANGED <<overtaken, exec, call>> /\ cancel = "sweep" /\ cancel' = "appended"
    BY <1>3 DEF CancelAppend
  <2>2. exec = "RUNNING" /\ \A m \in Steps : call[m] # "closing"
    BY <2>1 DEF Core, OneHolder, Holding
  <2>3. \A i \in Waiting : Fits(i) /\ log'[i] = log[i] => Fits(i)'
    BY <1>0, <2>1, <2>2 DEF Fits
  <2>4. \A k \in Nat : k = Len(log) + 1 /\ log'[k] = Insert("WORKFLOW_CANCELLED", Nobody)
                       /\ Len(log') = k => Fits(k)'
    BY <2>1 DEF Fits, Insert
  <2> QED BY <1>0, <2>1, <2>2, <2>3, <2>4, InsertRight DEF WorkflowEvents
<1>4. CASE CancelCommit
  <2>1. /\ CommitEvents(Nobody) /\ UNCHANGED call /\ cancel' = "idle"
        /\ exec' = "CANCELLED" /\ cancel = "appended"
    BY <1>4 DEF CancelCommit
  <2>2. exec = "RUNNING"
    BY <2>1 DEF Core, OneHolder
  <2>3. \A i \in Waiting \ Pending(Nobody) :
          Fits(i) /\ log'[i] = log[i] /\ Len(log') = Len(log) => Fits(i)'
    BY <1>0, <2>1 DEF Fits, Waiting, Pending
  <2>4. \A i \in Pending(Nobody) : log[i].type = "WORKFLOW_CANCELLED"
    BY <1>0 DEF Core, WaitingFits, Fits, Waiting, Pending
  <2> QED BY <2>1, <2>2, <2>3, <2>4, CommitRight, Outcomes
<1>5. CASE CancelAborts
  <2>1. RollBackEvents(Nobody) /\ UNCHANGED <<overtaken, exec, call>>
    BY <1>5 DEF CancelAborts
  <2>2. Pending(Nobody) \subseteq Waiting
    BY DEF Pending, Waiting
  <2>3. \A i \in Waiting \ Pending(Nobody) :
          Fits(i) /\ log'[i] = log[i] /\ Len(log') = Len(log) => Fits(i)'
    BY <1>0, <2>1 DEF Fits, Waiting, Pending
  <2> QED BY <2>1, <2>2, <2>3, RollBackRight DEF RollBackEvents
<1>6. CASE ExpireOverdue
  BY <1>6, QuietRight DEF ExpireOverdue
<1>7. CASE ExpireSweep \/ ExpireSwept \/ ExpireStatementFails
  <2>1. UNCHANGED <<log, overtaken, exec, cancel, call>>
    BY <1>7 DEF ExpireSweep, ExpireSwept, ExpireStatementFails
  <2> QED BY <2>1, QuietRight
<1>8. CASE ExpireTimedOut \/ ExpireFailed
  <2>1. /\ \/ log' = Append(log, Committed(Insert("WORKFLOW_TIMED_OUT", Nobody)))
           \/ log' = Append(log, Committed(Insert("WORKFLOW_FAILED", Nobody)))
        /\ UNCHANGED <<overtaken, exec, call, cancel>> /\ expire # "idle"
    BY <1>8 DEF ExpireTimedOut, ExpireFailed
  <2>2. exec = "FAILED" /\ \A m \in Steps : call[m] # "closing"
    BY <2>1 DEF Core, OneHolder, Holding
  <2> QED BY <2>1, <2>2, RecordRight, Outcomes DEF WorkflowEvents
<1>9. CASE ServerCrash
  <2>1. /\ log' = [i \in DOMAIN log |-> IF log[i].committed THEN log[i] ELSE Gap]
        /\ UNCHANGED <<overtaken, exec>>
    BY <1>9 DEF ServerCrash
  <2>2. ASSUME NEW i \in DOMAIN log
        PROVE  (IF log[i].committed THEN log[i] ELSE Gap) = (IF i \in Waiting THEN Gap ELSE log[i])
    BY <2>2, LogBounds DEF Core, Waiting, Event
  <2>3. log' = [i \in DOMAIN log |-> IF i \in Waiting THEN Gap ELSE log[i]]
    BY <2>1, <2>2
  <2> QED BY <2>1, <2>3, RollBackRight
<1> QED BY <1>1, <1>2, <1>3, <1>4, <1>5, <1>6, <1>7, <1>8, <1>9
     DEF CancelWorkflow, ExpireOverdueWorkflows

-----------------------------------------------------------------------------
(* The streams.                                                             *)

\* A batch that is not empty has a last event.
LEMMA LastExists ==
  ASSUME TypeLog, NEW events \in SUBSET DOMAIN log, events # {}
  PROVE  LastID(events) \in events /\ \A j \in events : j <= LastID(events)
<1>1. Len(log) \in Nat /\ events \subseteq 1 .. Len(log)
  BY LogBounds
<1> DEFINE below == {Len(log) - i : i \in events}
<1>2. below \subseteq Nat /\ below # {}
  BY <1>1
<1>3. PICK x \in below : \A y \in below : <<y, x>> \notin OpToRel(<, Nat)
  BY <1>2, WFMin, NatLessThanWellFounded, Zenon
<1>4. \A y \in below : ~(y < x)
  BY <1>2, <1>3, Zenon DEF OpToRel
<1>5. PICK i \in events : x = Len(log) - i
  OBVIOUS
<1>6. \A j \in events : j <= i
  <2> SUFFICES ASSUME NEW j \in events PROVE j <= i
    OBVIOUS
  <2>1. Len(log) - j \in below
    OBVIOUS
  <2>2. ~(Len(log) - j < Len(log) - i)
    BY <1>4, <1>5, <2>1
  <2> QED BY <1>1, <2>2
<1> QED BY <1>6 DEF LastID

\* What a stream does leaves it right.
LEMMA StreamRight ==
  ASSUME TypeLog, StreamFits, OnlyOvertakenSkipped, NEW s \in Streams, StreamWorkflowHistory(s)
  PROVE  TypeLog' /\ StreamFits' /\ OnlyOvertakenSkipped'
<1>0. /\ UNCHANGED <<log, overtaken>> /\ Visible' = Visible /\ Closing' = Closing
      /\ DOMAIN log = 1 .. Len(log) /\ Len(log) \in Nat
      /\ Visible \subseteq 1 .. Len(log)
  BY LogBounds DEF StreamWorkflowHistory, Connect, Poll, Break, Visible, Closing
<1>1. CASE Connect(s) \/ Break(s)
  <2>1. \E new \in {Off, [Off EXCEPT !.stage = "open"]} : stream' = [stream EXCEPT ![s] = new]
    BY <1>1 DEF Connect, Break
  <2>2. \A new \in {Off, [Off EXCEPT !.stage = "open"]} :
          new.last = -1 /\ new.sent = {} /\ new.stage \in {"off", "open"}
          /\ new \in [stage : {"off", "open", "ended"}, last : {-1} \union DOMAIN log,
                      sent : SUBSET DOMAIN log]
    BY DEF Off
  <2>3. PICK new : /\ stream' = [stream EXCEPT ![s] = new]
                   /\ new.last = -1 /\ new.sent = {} /\ new.stage \in {"off", "open"}
                   /\ new \in [stage : {"off", "open", "ended"}, last : {-1} \union DOMAIN log,
                               sent : SUBSET DOMAIN log]
    BY <2>1, <2>2
  <2>4. TypeLog'
    BY <1>0, <2>3 DEF TypeLog
  <2>5. StreamFits'
    BY <1>0, <2>3 DEF StreamFits, TypeLog
  <2>6. OnlyOvertakenSkipped'
    <3> SUFFICES ASSUME NEW t \in Streams, NEW i \in Visible, i <= stream'[t].last,
                        i \notin stream'[t].sent
                 PROVE  i \in overtaken
      BY <1>0 DEF OnlyOvertakenSkipped, Skipped
    <3>1. stream'[s] = new /\ \A u \in Streams \ {s} : stream'[u] = stream[u]
      BY <2>3 DEF TypeLog
    <3>2. i \in 1 .. Len(log)
      BY <1>0
    <3>3. t # s
      BY <2>3, <3>1, <3>2
    <3> QED BY <3>1, <3>3 DEF OnlyOvertakenSkipped, Skipped
  <2> QED BY <2>4, <2>5, <2>6
<1>2. CASE Poll(s)
  <2> DEFINE events == GetHistoryAfter(stream[s].last)
             stage == IF \E i \in events : EndsStream(log[i].type) THEN "ended" ELSE "open"
             last == LastID(events)
             sent == stream[s].sent \union events
  <2>1. /\ events # {}
        /\ stream' = [stream EXCEPT ![s] = [stage |-> stage, last |-> last, sent |-> sent]]
    BY <1>2 DEF Poll
  <2>2. events \subseteq Visible /\ \A i \in Visible : i > stream[s].last => i \in events
    BY DEF GetHistoryAfter
  <2>3. last \in events /\ \A j \in events : j <= last
    BY <1>0, <2>1, <2>2, LastExists
  <2>4. stage \in {"ended", "open"} /\ (stage = "ended" => events \cap Closing # {})
    BY <1>0, <2>2, Outcomes DEF Closing
  <2>5. stream[s].sent \subseteq Visible
    BY DEF StreamFits
  <2> HIDE DEF events, stage, last, sent
  <2>6. sent = stream[s].sent \union events
    BY DEF sent
  <2>7. /\ stream'[s] = [stage |-> stage, last |-> last, sent |-> sent]
        /\ \A t \in Streams \ {s} : stream'[t] = stream[t]
    BY <2>1 DEF TypeLog
  <2>8. TypeLog'
    BY <1>0, <2>1, <2>2, <2>3, <2>4, <2>5, <2>6 DEF TypeLog
  <2>9. StreamFits'
    <3>1. \A t \in Streams \ {s} :
            /\ stream'[t].last \in {-1} \union Visible
            /\ stream'[t].sent \subseteq Visible
            /\ stream'[t].stage = "ended" => stream'[t].sent \cap Closing # {}
      BY <2>7 DEF StreamFits
    <3>2. last \in Visible /\ sent \subseteq Visible /\ (stage = "ended" => sent \cap Closing # {})
      BY <2>2, <2>3, <2>4, <2>5, <2>6
    <3>3. overtaken' \subseteq Visible'
      BY <1>0 DEF StreamFits
    <3>4. ASSUME NEW t \in Streams
          PROVE  /\ stream'[t].last \in {-1} \union Visible
                 /\ stream'[t].sent \subseteq Visible
                 /\ stream'[t].stage = "ended" => stream'[t].sent \cap Closing # {}
      <4>1. CASE t = s
        <5>1. stream'[t].last = last /\ stream'[t].sent = sent /\ stream'[t].stage = stage
          BY <2>7, <4>1
        <5> QED BY <5>1, <3>2
      <4> QED BY <3>1, <4>1
    <3> QED BY <1>0, <3>3, <3>4 DEF StreamFits
  <2>10. OnlyOvertakenSkipped'
    <3> SUFFICES ASSUME NEW t \in Streams, NEW i \in Visible, i <= stream'[t].last,
                        i \notin stream'[t].sent
                 PROVE  i \in overtaken
      BY <1>0 DEF OnlyOvertakenSkipped, Skipped
    <3>1. CASE t # s
      BY <2>7, <3>1 DEF OnlyOvertakenSkipped, Skipped
    <3>2. CASE t = s
      <4>1. i \notin events /\ i \notin stream[s].sent
        BY <2>6, <2>7, <3>2
      <4>2. ~(i > stream[s].last) /\ i \in Int /\ stream[s].last \in Int
        BY <1>0, <2>2, <4>1 DEF StreamFits
      <4> QED BY <4>1, <4>2 DEF OnlyOvertakenSkipped, Skipped
    <3> QED BY <3>1, <3>2
  <2> QED BY <2>8, <2>9, <2>10
<1> QED BY <1>1, <1>2 DEF StreamWorkflowHistory

-----------------------------------------------------------------------------
\* The inductive invariant holds initially.
LEMMA IInvInit == Init => IInv
<1> SUFFICES ASSUME Init PROVE IInv
  OBVIOUS
<1> USE DEF Init
<1>1. log = <<>> /\ Len(log) = 0 /\ DOMAIN log = {} /\ log \in Seq(Event)
  OBVIOUS
<1>2. TypeOK
  BY <1>1 DEF TypeOK, Stages, NoSweep, Off
<1>3. OneHolder /\ Counting
  BY DEF OneHolder, Counting, Holding
<1>4. WaitingFits /\ ClosingTrue /\ CompletedLast
  BY <1>1 DEF WaitingFits, ClosingTrue, CompletedLast, Waiting, Visible
<1>5. StreamFits /\ OnlyOvertakenSkipped
  BY <1>1 DEF StreamFits, OnlyOvertakenSkipped, Skipped, Visible, Off
<1> QED BY <1>2, <1>3, <1>4, <1>5 DEF IInv

\* The inductive invariant is one.
LEMMA IInvNext == IInv /\ [Next]_vars => IInv'
<1> SUFFICES ASSUME IInv, [Next]_vars PROVE IInv'
  OBVIOUS
<1>0. TypeRest /\ TypeLog /\ Core
  BY TypeParts DEF IInv, Core, StreamFits
<1> SUFFICES TypeRest' /\ TypeLog' /\ OneHolder' /\ Counting' /\ WaitingFits' /\ ClosingTrue'
             /\ CompletedLast' /\ StreamFits' /\ OnlyOvertakenSkipped'
  BY DEF IInv, TypeOK, TypeRest, TypeLog
<1>1. ASSUME NEW n \in Steps, Begin(n) \/ CompleteTask(n) \/ Abort(n) \/ SweepTakesRow(n)
      PROVE  /\ TypeRest' /\ OneHolder' /\ Counting' /\ LogRight
             /\ UNCHANGED stream
  <2>1. UNCHANGED stream
    BY <1>1 DEF Begin, CompleteTask, Abort, SweepTakesRow, Retry, RetryCommit, Succeed, StepDone,
       LastStepDone, CloseCommit, Fail, FailAppend, FailCommit
  <2> QED BY <1>0, <1>1, <2>1, CallHolds, CallCounts, CallRight DEF IInv
<1>2. ASSUME StartWorkflow \/ CancelWorkflow \/ ExpireOverdueWorkflows \/ ServerCrash
      PROVE  /\ TypeRest' /\ OneHolder' /\ Counting' /\ LogRight
             /\ UNCHANGED stream
                \/ stream' = [s \in Streams |-> IF stream[s].stage = "open" THEN Off ELSE stream[s]]
  <2>1. \/ UNCHANGED stream
        \/ stream' = [s \in Streams |-> IF stream[s].stage = "open" THEN Off ELSE stream[s]]
    BY <1>2 DEF StartWorkflow, CancelWorkflow, CancelBegin, CancelAppend, CancelCommit, CancelAborts,
       ExpireOverdueWorkflows, ExpireOverdue, ExpireSweep, ExpireSwept, ExpireTimedOut,
       ExpireFailed, ExpireStatementFails, ServerCrash
  <2> QED BY <1>0, <1>2, <2>1, OthersHold, OthersCount, OthersRight DEF IInv
<1>3. ASSUME TypeRest', OneHolder', Counting', LogRight,
             \/ UNCHANGED stream
             \/ stream' = [s \in Streams |-> IF stream[s].stage = "open" THEN Off ELSE stream[s]]
      PROVE  TypeLog' /\ StreamFits' /\ OnlyOvertakenSkipped' /\ WaitingFits' /\ ClosingTrue'
             /\ CompletedLast'
  <2>1. /\ stream' \in [Streams -> [stage : {"off", "open", "ended"},
                                    last : {-1} \union DOMAIN log, sent : SUBSET DOMAIN log]]
        /\ \A s \in Streams : stream'[s] \in {stream[s], Off}
    BY <1>0, <1>3 DEF TypeLog, Off
  <2> QED BY <1>0, <1>3, <2>1, StreamsKept DEF IInv, LogRight
<1>4. ASSUME NEW s \in Streams, StreamWorkflowHistory(s)
      PROVE  /\ TypeRest' /\ OneHolder' /\ Counting' /\ LogRight
             /\ TypeLog' /\ StreamFits' /\ OnlyOvertakenSkipped'
  <2>1. UNCHANGED <<exec, completed, live, call, cancel, expire, sweep, log, overtaken>>
    BY <1>4 DEF StreamWorkflowHistory, Connect, Poll, Break
  <2>2. TypeRest' /\ OneHolder' /\ Counting'
    BY <1>0, <2>1 DEF TypeRest, IInv, OneHolder, Counting
  <2> QED BY <1>0, <1>4, <2>1, <2>2, QuietRight, StreamRight DEF IInv
<1>5. CASE UNCHANGED vars
  <2>1. UNCHANGED <<exec, completed, live, call, cancel, expire, sweep, log, overtaken, stream>>
    BY <1>5 DEF vars
  <2>2. TypeRest' /\ OneHolder' /\ Counting'
    BY <1>0, <2>1 DEF TypeRest, IInv, OneHolder, Counting
  <2>3. LogRight
    BY <1>0, <2>1, QuietRight
  <2> QED BY <1>3, <2>1, <2>2, <2>3
<1>6. CASE Next
  BY <1>1, <1>2, <1>3, <1>4, <1>6 DEF Next, LogRight
<1> QED BY <1>2, <1>5, <1>6, <1>3 DEF LogRight

-----------------------------------------------------------------------------
\* The inductive invariant holds in every reachable state.
LEMMA Invariance == Spec => []IInv
BY IInvInit, IInvNext, PTL DEF Spec

\* The log, the streams, the rows and the handlers are always what their types
\* say.
THEOREM TypeCorrect == Spec => []TypeOK
BY Invariance, PTL DEF IInv

\* The cursor passes over nothing but what was committed after a later event,
\* whatever the number of handlers and streams.
THEOREM CursorLosesOnlyOvertaken == Spec => []OnlyOvertakenSkipped
BY Invariance, PTL DEF IInv

\* A stream sends only committed events, tells no outcome but the execution's
\* and ends by telling it.
THEOREM StreamsTellTheTruth == Spec => []SentIsHistory
<1>1. IInv => SentIsHistory
  <2> SUFFICES ASSUME IInv, NEW s \in Streams
               PROVE  /\ stream[s].sent \subseteq {i \in DOMAIN log : log[i].committed}
                      /\ \A i \in stream[s].sent \cap Closing : exec = Outcome[log[i].type]
                      /\ stream[s].stage = "ended" => stream[s].sent \cap Closing # {}
    BY DEF SentIsHistory
  <2>1. /\ stream[s].sent \subseteq Visible
        /\ stream[s].stage = "ended" => stream[s].sent \cap Closing # {}
    BY DEF IInv, StreamFits
  <2> QED BY <2>1 DEF IInv, ClosingTrue, Visible
<1> QED BY <1>1, Invariance, PTL

\* Nothing follows WORKFLOW_COMPLETED, and nothing before it is still to come.
THEOREM CompletedIsLast == Spec => []CompletedComesLast
<1>1. IInv => CompletedComesLast
  <2> SUFFICES ASSUME IInv, NEW i \in Visible, log[i].type = "WORKFLOW_COMPLETED",
                      NEW j \in DOMAIN log, log[j] # Gap
               PROVE  i \notin overtaken /\ j <= i /\ log[j].committed
    BY DEF CompletedComesLast, IInv, CompletedLast
  <2> QED BY DEF IInv, CompletedLast, Waiting, Visible
<1> QED BY <1>1, Invariance, PTL

-----------------------------------------------------------------------------
(* What a reader is told of the steps.                                      *)

Reported == {n \in Steps : call[n] # "idle"}

Tells(i, n) == log[i].type = "STEP_COMPLETED" /\ log[i].by = n

\* A step that is told to be completed has no task any more, one whose report is
\* under way has it and no sweep does; the counter is right; and a completion
\* that has inserted its event has it until the commit.
ToldFits ==
  /\ \A n \in Reported : n \in live /\ n \notin sweep.taken
  /\ \A n \in StepsTold : n \notin live
  /\ completed = Cardinality(StepsTold)
  /\ \A n \in Steps : call[n] \in {"appended", "closing"} => \E i \in Pending(n) : Tells(i, n)

ToldSame == StepsTold' = StepsTold

LEMMA ToldInit == Init => ToldFits
<1> SUFFICES ASSUME Init PROVE ToldFits
  OBVIOUS
<1>1. StepsTold = {} /\ Reported = {} /\ completed = 0 /\ \A n \in Steps : call[n] = "idle"
  BY DEF Init, StepsTold, Visible, Reported
<1> QED
  BY <1>1, FS_EmptySet DEF ToldFits

\* The log as far as it is about the steps.
Stays(n) == \A i \in Pending(n) : i \in Pending(n)' /\ (Tells(i, n) => Tells(i, n)')

\* Events that are added tell of no step until they are committed.
LEMMA ToldGrows ==
  ASSUME TypeLog, NEW s \in Seq(Event), log' = log \o s,
         \A k \in DOMAIN s : s[k].committed => s[k].by = Nobody
  PROVE  ToldSame /\ \A n \in Steps : Stays(n)
<1>1. /\ Len(log) \in Nat /\ DOMAIN log = 1 .. Len(log) /\ Len(s) \in Nat
      /\ DOMAIN s = 1 .. Len(s) /\ DOMAIN log' = 1 .. Len(log) + Len(s)
      /\ \A i \in 1 .. Len(log) : log'[i] = log[i]
      /\ \A k \in 1 .. Len(s) : log'[Len(log) + k] = s[k]
  BY LogBounds
<1>2. ASSUME NEW i \in DOMAIN log', i \notin DOMAIN log, log'[i].committed
      PROVE  log'[i].by = Nobody
  <2>1. i - Len(log) \in 1 .. Len(s) /\ i = Len(log) + (i - Len(log))
    BY <1>1, <1>2
  <2> QED
    BY <1>1, <1>2, <2>1
<1>3. Nobody \notin Steps
  BY DEF Nobody, Steps
<1>4. ASSUME NEW n \in Steps PROVE n \in StepsTold' <=> n \in StepsTold
  <2>1. ASSUME n \in StepsTold PROVE n \in StepsTold'
    BY <1>1, <2>1 DEF StepsTold, Visible
  <2>2. ASSUME n \in StepsTold' PROVE n \in StepsTold
    <3>1. PICK i \in DOMAIN log' : log'[i].committed /\ log'[i].type = "STEP_COMPLETED"
                                   /\ log'[i].by = n
      BY <2>2 DEF StepsTold, Visible
    <3>2. i \in DOMAIN log
      BY <1>2, <1>3, <3>1
    <3> QED
      BY <1>1, <3>1, <3>2 DEF StepsTold, Visible
  <2> QED
    BY <2>1, <2>2
<1>5. ToldSame
  BY <1>4 DEF ToldSame, StepsTold
<1>6. \A n \in Steps : Stays(n)
  BY <1>1 DEF Stays, Pending, Tells
<1> QED
  BY <1>5, <1>6

LEMMA ToldStays ==
  ASSUME UNCHANGED log
  PROVE  ToldSame /\ \A n \in Steps : Stays(n)
BY DEF ToldSame, StepsTold, Visible, Stays, Pending, Tells

\* The commit of a transaction tells of its step, if it has completed it.
LEMMA ToldCommits ==
  ASSUME TypeLog, NEW by, CommitEvents(by)
  PROVE  /\ StepsTold' = StepsTold \union
              {n \in Steps : n = by /\ \E i \in Pending(n) : Tells(i, n)}
         /\ \A n \in Steps : n # by => Stays(n)
<1>1. /\ Len(log') = Len(log) /\ DOMAIN log = 1 .. Len(log)
      /\ \A i \in 1 .. Len(log) : log'[i].type = log[i].type /\ log'[i].by = log[i].by
      /\ \A i \in 1 .. Len(log) \ Pending(by) : log'[i] = log[i]
      /\ Visible' = Visible \union Pending(by)
  BY LogCommits, LogBounds
<1>2. DOMAIN log' = 1 .. Len(log)
  BY <1>1 DEF CommitEvents
<1>3. ASSUME NEW n \in Steps
      PROVE  n \in StepsTold' <=> n \in StepsTold \/ (n = by /\ \E i \in Pending(n) : Tells(i, n))
  BY <1>1, <1>3 DEF StepsTold, Tells, Visible, Pending
<1>4. \A n \in Steps : n # by => Stays(n)
  BY <1>1, <1>2 DEF Stays, Pending, Tells
<1> QED
  BY <1>3, <1>4 DEF StepsTold

\* What is rolled back was told to nobody.
LEMMA ToldRollsBack ==
  ASSUME TypeLog, NEW lost \in SUBSET Waiting, UNCHANGED overtaken,
         log' = [i \in DOMAIN log |-> IF i \in lost THEN Gap ELSE log[i]]
  PROVE  /\ ToldSame
         /\ \A n \in Steps : (\A i \in lost : log[i].by # n) => Stays(n)
<1>1. /\ Len(log') = Len(log) /\ DOMAIN log = 1 .. Len(log)
      /\ \A i \in 1 .. Len(log) \ lost : log'[i] = log[i]
      /\ Visible' = Visible /\ DOMAIN log' = DOMAIN log
  BY LogRollsBack, LogBounds
<1>2. \A i \in Visible : i \in 1 .. Len(log) \ lost
  BY <1>1 DEF Visible, Waiting
<1>3. ToldSame
  BY <1>1, <1>2 DEF ToldSame, StepsTold
<1>4. ASSUME NEW n \in Steps, \A i \in lost : log[i].by # n PROVE Stays(n)
  BY <1>1, <1>4 DEF Stays, Pending, Tells
<1> QED
  BY <1>3, <1>4

-----------------------------------------------------------------------------
(* Steps as steps of Workflow.                                              *)

LEMMA Drops ==
  ASSUME ToldSame, UNCHANGED exec, Reported' \subseteq Reported
  PROVE  Promise!Drop
BY DEF Promise!Drop, ToldSame, Reported

LEMMA Closes ==
  ASSUME ToldSame, exec = "RUNNING", exec' \in {"FAILED", "CANCELLED"},
         Reported' \subseteq Reported
  PROVE  Promise!Close
BY DEF Promise!Close, Promise!Open, ToldSame, Reported

LEMMA Reports ==
  ASSUME ToldSame, UNCHANGED exec, exec = "RUNNING", NEW n \in Steps, n \notin Reported,
         n \notin StepsTold, Reported' = Reported \union {n}
  PROVE  Promise!Report(n)
BY DEF Promise!Report, Promise!Due, ToldSame, Reported

LEMMA Completes ==
  ASSUME NEW n \in Steps, n \in Reported, Reported' = Reported \ {n},
         n \notin StepsTold, StepsTold' = StepsTold \union {n},
         IF StepsTold' = Steps THEN exec = "RUNNING" /\ exec' = "COMPLETED" ELSE UNCHANGED exec
  PROVE  Promise!Complete(n)
BY DEF Promise!Complete, Promise!Due, Promise!Steps, Steps, Reported

\* A step that tells nothing new and begins no report.
LEMMA ToldKept ==
  ASSUME ToldFits, ToldSame, UNCHANGED completed, live' \subseteq live,
         \A n \in Reported' : n \in live' /\ n \notin sweep'.taken,
         \A n \in Steps : call'[n] \in {"appended", "closing"} =>
                            call[n] \in {"appended", "closing"} /\ Stays(n)
  PROVE  ToldFits'
<1>1. \A n \in StepsTold' : n \notin live'
  BY DEF ToldFits, ToldSame
<1>2. completed' = Cardinality(StepsTold')
  BY DEF ToldFits, ToldSame
<1>3. ASSUME NEW n \in Steps, call'[n] \in {"appended", "closing"}
      PROVE  \E i \in Pending(n)' : Tells(i, n)'
  <2>1. PICK i \in Pending(n) : Tells(i, n)
    BY <1>3 DEF ToldFits
  <2> QED
    BY <1>3, <2>1 DEF Stays
<1> QED
  BY <1>1, <1>2, <1>3 DEF ToldFits, Pending, Tells

\* Which steps are reported after a step of one handler.
LEMMA ReportedTo ==
  ASSUME TypeRest, NEW n \in Steps, NEW stage \in Stages, To(n, stage)
  PROVE  /\ stage = "idle" => Reported' = Reported \ {n}
         /\ stage # "idle" => Reported' = Reported \union {n}
         /\ call'[n] = stage /\ \A m \in Steps \ {n} : call'[m] = call[m]
BY DEF To, TypeRest, Reported

\* The events a handler has waiting tell of its step only when it completes it.
LEMMA PendingFits ==
  ASSUME Core, NEW n \in Steps, call[n] \in {"retrying", "failed"}
  PROVE  ~ \E i \in Pending(n) : Tells(i, n)
<1> SUFFICES ASSUME NEW i \in Pending(n), Tells(i, n) PROVE FALSE
  OBVIOUS
<1>1. i \in Waiting /\ log[i].by = n /\ log[i].type = "STEP_COMPLETED"
  BY DEF Pending, Waiting, Tells
<1>2. Fits(i) /\ Nobody \notin Steps
  BY <1>1 DEF Core, WaitingFits, Nobody, Steps
<1> QED
  BY <1>1, <1>2 DEF Fits

\* A completed step is told in the commit that counts it.
LEMMA CountTells ==
  ASSUME Core, ToldFits, NEW n \in Steps, StepDone(n) \/ CloseCommit(n)
  PROVE  ToldFits' /\ Promise!Complete(n)
<1>1. /\ call[n] \in {"appended", "closing"} /\ completed' = completed + 1
      /\ live' = live \ {n} /\ CommitEvents(n) /\ sweep'.taken = sweep.taken /\ To(n, "idle")
  BY DEF StepDone, CloseCommit, Core, TypeRest
<1>2. Reported' = Reported \ {n} /\ n \in Reported
      /\ call'[n] = "idle" /\ \A m \in Steps \ {n} : call'[m] = call[m]
  BY <1>1, ReportedTo DEF Core, Stages, Reported
<1>3. n \notin StepsTold
  BY <1>2 DEF ToldFits
<1>4. /\ StepsTold' = StepsTold \union {n}
      /\ \A m \in Steps : m # n => Stays(m)
  <2>1. \E i \in Pending(n) : Tells(i, n)
    BY <1>1 DEF ToldFits
  <2>2. /\ StepsTold' = StepsTold \union {m \in Steps : m = n /\ \E i \in Pending(m) : Tells(i, m)}
        /\ \A m \in Steps : m # n => Stays(m)
    BY <1>1, ToldCommits DEF Core
  <2> QED
    BY <2>1, <2>2
<1>5. /\ IsFiniteSet(Steps) /\ Cardinality(Steps) = TotalSteps
      /\ IsFiniteSet(StepsTold') /\ StepsTold' \subseteq Steps
      /\ Cardinality(StepsTold') = Cardinality(StepsTold) + 1
  <2>1. StepsTold \subseteq Steps /\ StepsTold' \subseteq Steps
    BY DEF StepsTold
  <2>2. IsFiniteSet(StepsTold) /\ IsFiniteSet(StepsTold')
    BY <2>1, StepsFinite
  <2> QED
    BY <1>3, <1>4, <2>1, <2>2, StepsFinite, FS_AddElement
<1>6. completed' = Cardinality(StepsTold')
  BY <1>1, <1>5 DEF ToldFits
<1>7. ASSUME NEW m \in Steps, call'[m] \in {"appended", "closing"}
      PROVE  \E i \in Pending(m)' : Tells(i, m)'
  <2>1. m # n /\ call[m] \in {"appended", "closing"}
    BY <1>2, <1>7
  <2>2. PICK i \in Pending(m) : Tells(i, m)
    BY <2>1 DEF ToldFits
  <2> QED
    BY <1>4, <2>1, <2>2 DEF Stays
<1>8. ToldFits'
  <2>1. \A m \in Reported' : m \in live' /\ m \notin sweep'.taken
    BY <1>1, <1>2 DEF ToldFits
  <2>2. \A m \in StepsTold' : m \notin live'
    BY <1>1, <1>4 DEF ToldFits
  <2> QED
    BY <1>6, <1>7, <2>1, <2>2 DEF ToldFits, Pending, Tells
<1>9. IF StepsTold' = Steps THEN exec = "RUNNING" /\ exec' = "COMPLETED" ELSE UNCHANGED exec
  <2>1. CASE StepDone(n)
    <3>1. completed' # TotalSteps /\ UNCHANGED exec
      BY <1>1, <2>1 DEF StepDone
    <3> QED
      BY <1>5, <1>6, <3>1
  <2>2. CASE CloseCommit(n)
    <3>1. completed' = TotalSteps /\ exec = "RUNNING" /\ exec' = "COMPLETED"
      BY <1>1, <2>2 DEF CloseCommit, Core, Counting, OneHolder, Holding
    <3>2. StepsTold' = Steps
      BY <1>5, <1>6, <3>1, FS_Subset
    <3> QED
      BY <3>1, <3>2
  <2> QED
    BY <2>1, <2>2
<1> QED
  BY <1>2, <1>3, <1>4, <1>8, <1>9, Completes

\* What a completion tells, and how that looks to Workflow.
LEMMA CallTells ==
  ASSUME Core, ToldFits, NEW n \in Steps,
         Begin(n) \/ CompleteTask(n) \/ Abort(n) \/ SweepTakesRow(n)
  PROVE  ToldFits' /\ Promise!Next
<1> USE DEF Core
<1>0. call \in [Steps -> Stages] /\ Promise!Steps = Steps /\ NoSweep.taken = {}
      /\ sweep \in [waits : SUBSET Steps, taken : SUBSET Steps]
  BY DEF TypeRest, Promise!Steps, Steps, NoSweep
<1>1. CASE Begin(n)
  <2>1. /\ To(n, "open") /\ n \in live /\ n \notin sweep.taken /\ exec = "RUNNING"
        /\ UNCHANGED <<exec, completed, live, sweep, log>> /\ call[n] = "idle"
    BY <1>1 DEF Begin
  <2>2. Reported' = Reported \union {n} /\ n \notin Reported /\ n \notin StepsTold
        /\ call'[n] = "open" /\ \A m \in Steps \ {n} : call'[m] = call[m]
    BY <2>1, ReportedTo DEF Stages, Reported, ToldFits
  <2>3. ToldSame /\ \A m \in Steps : Stays(m)
    BY <2>1, ToldStays
  <2>4. ToldFits'
    <3>1. \A m \in Reported' : m \in live' /\ m \notin sweep'.taken
      BY <2>1, <2>2 DEF ToldFits
    <3> QED
      BY <2>1, <2>2, <2>3, <3>1, ToldKept
  <2> QED
    BY <1>0, <2>1, <2>2, <2>3, <2>4, Reports DEF Promise!Next
<1>2. CASE Retry(n) \/ Succeed(n) \/ LastStepDone(n) \/ FailAppend(n)
  <2>1. PICK s \in Seq(Event), stage \in Stages \ {"idle"} :
          log' = log \o s /\ (\A k \in DOMAIN s : ~s[k].committed) /\ To(n, stage)
    <3>1. \A type \in StepEvents \union WorkflowEvents :
            Insert(type, n) \in Event /\ ~Insert(type, n).committed
      BY DEF Insert, Event
    <3>2. ASSUME NEW type \in StepEvents \union WorkflowEvents, NEW stage \in Stages \ {"idle"},
                 log' = Append(log, Insert(type, n)), To(n, stage)
          PROVE  \E s \in Seq(Event), t \in Stages \ {"idle"} :
                   log' = log \o s /\ (\A k \in DOMAIN s : ~s[k].committed) /\ To(n, t)
      <4>1. /\ <<Insert(type, n)>> \in Seq(Event) /\ log' = log \o <<Insert(type, n)>>
            /\ \A k \in DOMAIN <<Insert(type, n)>> : ~ <<Insert(type, n)>>[k].committed
        BY <3>1, <3>2 DEF TypeLog
      <4> QED
        BY <3>2, <4>1
    <3>3. CASE Retry(n) \/ Succeed(n) \/ LastStepDone(n)
      BY <3>2, <3>3 DEF Retry, Succeed, LastStepDone, StepEvents, WorkflowEvents, Stages
    <3>4. CASE FailAppend(n)
      <4> DEFINE a == Insert("STEP_FAILED", n)
                 b == Insert("WORKFLOW_FAILED", n)
      <4>1. a \in Event /\ b \in Event /\ ~a.committed /\ ~b.committed
        BY <3>1 DEF StepEvents, WorkflowEvents
      <4>2. log' = log \o <<a, b>> /\ To(n, "failed")
        BY <3>4 DEF FailAppend
      <4> HIDE DEF a, b
      <4>3. <<a, b>> \in Seq(Event) /\ \A k \in DOMAIN <<a, b>> : ~ <<a, b>>[k].committed
        BY <4>1
      <4> QED
        BY <4>2, <4>3 DEF Stages
    <3> QED
      BY <1>2, <3>3, <3>4
  <2>2. /\ UNCHANGED <<exec, completed, live, sweep>> /\ call[n] # "idle"
    BY <1>2 DEF Retry, Succeed, LastStepDone, FailAppend
  <2>3. Reported' = Reported
        /\ call'[n] = stage /\ \A m \in Steps \ {n} : call'[m] = call[m]
    BY <2>1, <2>2, ReportedTo DEF Reported
  <2>4. ToldSame /\ \A m \in Steps : Stays(m)
    BY <2>1, ToldGrows
  <2>5. \A m \in Reported' : m \in live' /\ m \notin sweep'.taken
    BY <2>2, <2>3 DEF ToldFits
  <2>6. CASE ~Succeed(n)
    <3>1. call'[n] \in {"appended", "closing"} => call[n] \in {"appended", "closing"}
      BY <1>0, <1>2, <2>6 DEF Retry, LastStepDone, FailAppend, To
    <3>2. ToldFits'
      BY <2>2, <2>3, <2>4, <2>5, <3>1, ToldKept
    <3> QED
      BY <2>2, <2>3, <2>4, <3>2, Drops DEF Promise!Next
  <2>7. CASE Succeed(n)
    <3>1. ASSUME NEW m \in Steps, m # n, call'[m] \in {"appended", "closing"}
          PROVE  \E i \in Pending(m)' : Tells(i, m)'
      <4>1. PICK i \in Pending(m) : Tells(i, m)
        BY <2>3, <3>1 DEF ToldFits
      <4> QED
        BY <2>4, <4>1 DEF Stays
    <3>2. \E i \in Pending(n)' : Tells(i, n)'
      <4>1. /\ log' = Append(log, Insert("STEP_COMPLETED", n))
            /\ Insert("STEP_COMPLETED", n) \in Event
        BY <2>7 DEF Succeed, Insert, Event, StepEvents
      <4>2. /\ Len(log) + 1 \in DOMAIN log'
            /\ log'[Len(log) + 1] = Insert("STEP_COMPLETED", n)
        BY <4>1, LogBounds DEF TypeLog
      <4>3. Insert("STEP_COMPLETED", n) # Gap
        BY DEF Insert, Gap
      <4> QED
        BY <4>2, <4>3 DEF Pending, Tells, Insert
    <3>3. \A m \in StepsTold' : m \notin live'
      BY <2>2, <2>4 DEF ToldFits, ToldSame
    <3>4. completed' = Cardinality(StepsTold')
      BY <2>2, <2>4 DEF ToldFits, ToldSame
    <3>5. ToldFits'
      BY <2>5, <3>1, <3>2, <3>3, <3>4 DEF ToldFits, Pending, Tells
    <3> QED
      BY <2>2, <2>3, <2>4, <3>5, Drops DEF Promise!Next
  <2> QED
    BY <2>6, <2>7
<1>3. CASE RetryCommit(n) \/ FailCommit(n)
  <2>1. /\ CommitEvents(n) /\ To(n, "idle") /\ call[n] \in {"retrying", "failed"}
        /\ UNCHANGED completed /\ live' \subseteq live
    BY <1>3 DEF RetryCommit, FailCommit
  <2>2. Reported' = Reported \ {n}
        /\ call'[n] = "idle" /\ \A m \in Steps \ {n} : call'[m] = call[m]
    BY <2>1, ReportedTo DEF Stages
  <2>3. ToldSame /\ \A m \in Steps : m # n => Stays(m)
    <3>1. /\ StepsTold' = StepsTold \union
               {m \in Steps : m = n /\ \E i \in Pending(m) : Tells(i, m)}
          /\ \A m \in Steps : m # n => Stays(m)
      BY <2>1, ToldCommits
    <3>2. ~ \E i \in Pending(n) : Tells(i, n)
      BY <2>1, PendingFits
    <3> QED
      BY <3>1, <3>2 DEF ToldSame
  <2>4. \A m \in Reported' : m \in live' /\ m \notin sweep'.taken
    BY <1>0, <1>3, <2>2 DEF RetryCommit, FailCommit, ToldFits
  <2>5. ToldFits'
    BY <2>1, <2>2, <2>3, <2>4, ToldKept
  <2>6. CASE RetryCommit(n)
    BY <2>2, <2>3, <2>5, <2>6, Drops DEF RetryCommit, Promise!Next
  <2>7. CASE FailCommit(n)
    <3>1. exec = "RUNNING" /\ exec' = "FAILED"
      BY <2>7 DEF FailCommit, OneHolder, Holding
    <3> QED
      BY <2>2, <2>3, <2>5, <3>1, Closes DEF Promise!Next
  <2> QED
    BY <1>3, <2>6, <2>7
<1>4. CASE StepDone(n) \/ CloseCommit(n)
  BY <1>0, <1>4, CountTells DEF Promise!Next
<1>5. CASE Fail(n) \/ SweepTakesRow(n)
  <2>1. UNCHANGED <<exec, completed, live, log>>
    BY <1>5 DEF Fail, SweepTakesRow
  <2>2. ToldSame /\ \A m \in Steps : Stays(m)
    BY <2>1, ToldStays
  <2>3. /\ Reported' = Reported
        /\ \A m \in Steps : call'[m] \in {"appended", "closing"} =>
                              call[m] \in {"appended", "closing"}
    BY <1>0, <1>5 DEF Fail, SweepTakesRow, To, Reported
  <2>4. \A m \in Reported' : m \in live' /\ m \notin sweep'.taken
    BY <1>0, <1>5, <2>1, <2>3 DEF Fail, SweepTakesRow, ToldFits, Reported
  <2>5. ToldFits'
    BY <2>1, <2>2, <2>3, <2>4, ToldKept
  <2> QED
    BY <2>1, <2>2, <2>3, <2>5, Drops DEF Promise!Next
<1>6. CASE Abort(n)
  <2>1. /\ RollBackEvents(n) /\ To(n, "idle") /\ sweep' \in {sweep, NoSweep}
        /\ UNCHANGED <<exec, completed, live, overtaken>>
    BY <1>6 DEF Abort
  <2>2. Reported' = Reported \ {n}
        /\ call'[n] = "idle" /\ \A m \in Steps \ {n} : call'[m] = call[m]
    BY <2>1, ReportedTo DEF Stages
  <2>3. ToldSame /\ \A m \in Steps : m # n => Stays(m)
    <3>1. Pending(n) \subseteq Waiting /\ \A i \in Pending(n) : log[i].by = n
      BY DEF Pending, Waiting
    <3> QED
      BY <2>1, <3>1, ToldRollsBack DEF RollBackEvents
  <2>4. \A m \in Reported' : m \in live' /\ m \notin sweep'.taken
    BY <1>0, <2>1, <2>2 DEF ToldFits
  <2>5. ToldFits'
    BY <2>1, <2>2, <2>3, <2>4, ToldKept
  <2> QED
    BY <2>1, <2>2, <2>3, <2>5, Drops DEF Promise!Next
<1> QED
  BY <1>1, <1>2, <1>3, <1>4, <1>5, <1>6 DEF CompleteTask

\* What the others tell: the sweeps take rows that no report has.
LEMMA OthersTell ==
  ASSUME Core, ToldFits,
         StartWorkflow \/ CancelWorkflow \/ ExpireOverdueWorkflows \/ ServerCrash
  PROVE  ToldFits' /\ Promise!Next
<1> USE DEF Core
<1>0. /\ NoSweep.taken = {} /\ Nobody \notin Steps /\ live \subseteq Steps
      /\ \A type \in WorkflowEvents : /\ Insert(type, Nobody) \in Event
                                      /\ Committed(Insert(type, Nobody)) \in Event
                                      /\ Insert(type, Nobody).by = Nobody
                                      /\ Committed(Insert(type, Nobody)).by = Nobody
  <2>1. NoSweep.taken = {} /\ Nobody \notin Steps /\ live \subseteq Steps
    BY DEF NoSweep, Nobody, Steps, TypeRest
  <2>2. \A type \in WorkflowEvents :
          Insert(type, Nobody) \in Event /\ Insert(type, Nobody).by = Nobody
    BY DEF Insert, Event
  <2>3. \A e \in Event : Committed(e) \in Event /\ Committed(e).by = e.by
    BY DEF Committed, Event
  <2> QED
    BY <2>1, <2>2, <2>3
<1>1. ASSUME NEW e \in Event, e.by = Nobody, log' = Append(log, e)
      PROVE  ToldSame /\ \A n \in Steps : Stays(n)
  <2>1. <<e>> \in Seq(Event) /\ log' = log \o <<e>> /\ \A k \in DOMAIN <<e>> : <<e>>[k].by = Nobody
    BY <1>1 DEF TypeLog
  <2> QED
    BY <2>1, ToldGrows
<1>2. ASSUME ToldSame, \A n \in Steps : Stays(n), UNCHANGED <<completed, call>>, live' \subseteq live,
             \A n \in Reported : n \in live' /\ n \notin sweep'.taken
      PROVE  ToldFits' /\ Reported' = Reported
  <2>1. Reported' = Reported
    BY <1>2 DEF Reported
  <2> QED
    BY <1>2, <2>1, ToldKept
<1>3. CASE StartWorkflow
  <2>1. exec = "NONE" /\ exec' = "RUNNING" /\ live' = Steps
        /\ UNCHANGED <<completed, call, sweep>>
    BY <1>3 DEF StartWorkflow
  <2>2. ToldSame /\ \A n \in Steps : Stays(n)
    BY <1>0, <1>1, <1>3 DEF StartWorkflow, WorkflowEvents
  <2>3. StepsTold = {}
    <3>1. StepsTold \subseteq Steps /\ Cardinality(StepsTold) = 0
      BY <2>1 DEF StepsTold, ToldFits, Counting
    <3> QED
      BY <3>1, StepsFinite, FS_EmptySet
  <2>4. Reported' = {} /\ Reported = {} /\ \A n \in Steps : call'[n] = "idle"
    BY <2>1 DEF Counting, Reported
  <2>5. ToldFits'
    BY <2>1, <2>2, <2>3, <2>4 DEF ToldFits, ToldSame
  <2>6. Promise!Start
    BY <2>1, <2>2, <2>3, <2>4 DEF Promise!Start, ToldSame, Reported
  <2> QED
    BY <2>5, <2>6 DEF Promise!Next
<1>4. CASE CancelWorkflow
  <2>1. /\ UNCHANGED <<completed, call>> /\ live' \subseteq live
        /\ \A n \in Reported : n \in live' /\ n \notin sweep'.taken
    BY <1>0, <1>4
       DEF CancelWorkflow, CancelBegin, CancelAppend, CancelCommit, CancelAborts, ToldFits
  <2>2. ToldSame /\ \A n \in Steps : Stays(n)
    <3>1. CASE CancelBegin
      BY <3>1, ToldStays DEF CancelBegin
    <3>2. CASE CancelAppend
      BY <1>0, <1>1, <3>2 DEF CancelAppend, WorkflowEvents
    <3>3. CASE CancelCommit
      <4>1. CommitEvents(Nobody)
        BY <3>3 DEF CancelCommit
      <4> QED
        BY <1>0, <4>1, ToldCommits DEF ToldSame
    <3>4. CASE CancelAborts
      <4>1. /\ Pending(Nobody) \subseteq Waiting
            /\ \A n \in Steps : \A i \in Pending(Nobody) : log[i].by # n
        BY <1>0 DEF Pending, Waiting
      <4>2. RollBackEvents(Nobody) /\ UNCHANGED overtaken
        BY <3>4 DEF CancelAborts
      <4> QED
        BY <4>1, <4>2, ToldRollsBack DEF RollBackEvents
    <3> QED
      BY <1>4, <3>1, <3>2, <3>3, <3>4 DEF CancelWorkflow
  <2>3. ToldFits' /\ Reported' = Reported
    BY <1>2, <2>1, <2>2
  <2>4. UNCHANGED exec \/ (exec = "RUNNING" /\ exec' = "CANCELLED")
    BY <1>4
       DEF CancelWorkflow, CancelBegin, CancelAppend, CancelCommit, CancelAborts, OneHolder
  <2> QED
    BY <2>2, <2>3, <2>4, Drops, Closes DEF Promise!Next
<1>5. CASE ExpireOverdueWorkflows
  <2>1. /\ UNCHANGED <<completed, call>> /\ live' \subseteq live
        /\ \A n \in Reported : n \in live' /\ n \notin sweep'.taken
    BY <1>0, <1>5
       DEF ExpireOverdueWorkflows, ExpireOverdue, ExpireSweep, ExpireSwept, ExpireTimedOut,
           ExpireFailed, ExpireStatementFails, ToldFits
  <2>2. ToldSame /\ \A n \in Steps : Stays(n)
    <3>1. CASE ExpireTimedOut \/ ExpireFailed
      BY <1>0, <1>1, <3>1 DEF ExpireTimedOut, ExpireFailed, WorkflowEvents
    <3>2. CASE ~(ExpireTimedOut \/ ExpireFailed)
      BY <1>5, <3>2, ToldStays
         DEF ExpireOverdueWorkflows, ExpireOverdue, ExpireSweep, ExpireSwept,
             ExpireStatementFails
    <3> QED
      BY <3>1, <3>2
  <2>3. ToldFits' /\ Reported' = Reported
    BY <1>2, <2>1, <2>2
  <2>4. UNCHANGED exec \/ (exec = "RUNNING" /\ exec' = "FAILED")
    BY <1>5
       DEF ExpireOverdueWorkflows, ExpireOverdue, ExpireSweep, ExpireSwept, ExpireTimedOut,
           ExpireFailed, ExpireStatementFails
  <2> QED
    BY <2>2, <2>3, <2>4, Drops, Closes DEF Promise!Next
<1>6. CASE ServerCrash
  <2>1. /\ UNCHANGED <<exec, completed, live, overtaken>> /\ sweep'.taken = {}
        /\ \A n \in Steps : call'[n] = "idle"
    BY <1>0, <1>6 DEF ServerCrash
  <2>2. log' = [i \in DOMAIN log |-> IF i \in Waiting THEN Gap ELSE log[i]]
    <3>1. \A i \in DOMAIN log : log[i] \in Event /\ (log[i].committed => log[i] # Gap)
      BY LogBounds DEF Gap
    <3> QED
      BY <1>6, <3>1 DEF ServerCrash, Waiting
  <2>3. ToldSame
    BY <2>1, <2>2, ToldRollsBack
  <2>4. Reported' = {}
    BY <2>1 DEF Reported
  <2>5. ToldFits'
    BY <2>1, <2>3, <2>4, ToldKept
  <2> QED
    BY <2>1, <2>3, <2>4, <2>5, Drops DEF Promise!Next
<1> QED
  BY <1>3, <1>4, <1>5, <1>6

\* Every step tells what Workflow allows.
LEMMA ToldNext ==
  ASSUME IInv, ToldFits, [Next]_vars
  PROVE  ToldFits' /\ Promise!Next
<1>0. Core
  BY TypeParts DEF IInv, Core, StreamFits
<1>1. CASE UNCHANGED vars \/ \E s \in Streams : StreamWorkflowHistory(s)
  <2>1. UNCHANGED <<exec, completed, live, call, sweep, log>>
    BY <1>1 DEF vars, StreamWorkflowHistory, Connect, Poll, Break
  <2>2. ToldSame /\ (\A n \in Steps : Stays(n)) /\ Reported' = Reported
    BY <2>1, ToldStays DEF Reported
  <2>3. ToldFits'
    BY <2>1, <2>2, ToldKept DEF ToldFits
  <2> QED
    BY <2>1, <2>2, <2>3, Drops DEF Promise!Next
<1> QED
  BY <1>0, <1>1, CallTells, OthersTell DEF Next

\* What a reader of the history is told of an INDEPENDENT execution keeps the
\* promise of Workflow, whatever the number of steps: no commit tells of a step
\* twice, of one that was not reported or of the last one without the outcome.
THEOREM ReadersPromiseKept == Spec => PromiseKept
<1>1. Init => Promise!Init
  <2> SUFFICES ASSUME Init PROVE Promise!Init
    OBVIOUS
  <2>1. StepsTold = {} /\ Reported = {} /\ exec = "NONE"
    BY DEF Init, StepsTold, Visible, Reported
  <2> QED
    BY <2>1 DEF Promise!Init, Reported
<1>2. IInv /\ ToldFits /\ [Next]_vars => ToldFits' /\ [Promise!Next]_(Promise!vars)
  BY ToldNext
<1> QED
  BY <1>1, <1>2, ToldInit, Invariance, PTL DEF Spec, PromiseKept, Promise!Spec

=============================================================================
