----------------------- MODULE WorkflowProgress_proof -----------------------
(***************************************************************************)
(* Proof of what the termination of an execution rests on: that nobody     *)
(* waits in a circle but a sweep and a completion that hold each other's   *)
(* rows, that what a completion has read is still so when it goes on, and  *)
(* that a step is retried only so often.  Termination itself is a liveness *)
(* property, which TLC checks.                                             *)
(***************************************************************************)
EXTENDS WorkflowHistory_proof

-----------------------------------------------------------------------------
(* How rows move.                                                           *)

\* What the row operations do to the identity, the state and the counter of a
\* row.
LEMMA RowDetails ==
  ASSUME NEW r \in Row
  PROVE  /\ \A t \in {Lapsed(r), RenewLock(r)} :
              t.gen = r.gen /\ t.state = r.state /\ t.attempt = r.attempt /\ t.max = r.max
         /\ \A err \in BOOLEAN : /\ UpdateCompleted(r, err).gen = r.gen
                                 /\ UpdateCompleted(r, err).state \notin Live
         /\ Deleted(r).gen = r.gen /\ Deleted(r).state \notin Live
         /\ Cancelled(r).gen = r.gen /\ Cancelled(r).state \notin Live
         /\ Claimed(r).gen = r.gen /\ Claimed(r).state = "RUNNING" /\ Claimed(r).max = r.max
         /\ Claimed(r).attempt = Bump(r)
         /\ \A a, m : /\ Created(r, a, m).gen = r.gen + 1 /\ Created(r, a, m).state = "CREATED"
                      /\ Created(r, a, m).attempt = a /\ Created(r, a, m).max = m
<1>1. \A t \in {Lapsed(r), RenewLock(r)} :
        t.gen = r.gen /\ t.state = r.state /\ t.attempt = r.attempt /\ t.max = r.max
  BY DEF Row, Lapsed, RenewLock
<1>2. /\ \A err \in BOOLEAN : /\ UpdateCompleted(r, err).gen = r.gen
                              /\ UpdateCompleted(r, err).state \notin Live
      /\ Deleted(r).gen = r.gen /\ Deleted(r).state \notin Live
      /\ Cancelled(r).gen = r.gen /\ Cancelled(r).state \notin Live
  BY DEF Row, Live, UpdateCompleted, Deleted, NoRow, Cancelled
<1>3. /\ Claimed(r).gen = r.gen /\ Claimed(r).state = "RUNNING" /\ Claimed(r).max = r.max
      /\ Claimed(r).attempt = Bump(r)
  BY DEF Row, Claimed
<1>4. \A a, m : /\ Created(r, a, m).gen = r.gen + 1 /\ Created(r, a, m).state = "CREATED"
                /\ Created(r, a, m).attempt = a /\ Created(r, a, m).max = m
  BY DEF Row, Created
<1> QED
  BY <1>1, <1>2, <1>3, <1>4

\* What a step can make of a row.  It stays what it is, but for its lease; ...
Keeps(s) ==
  /\ rows'[s].gen = rows[s].gen /\ rows'[s].state = rows[s].state
  /\ rows'[s].attempt = rows[s].attempt /\ rows'[s].max = rows[s].max

\* ... it is handed out, ...
Claims(s) ==
  Eligible(rows[s]) /\ ~Locked(RefOf(s)) /\ rows'[s] = Claimed(rows[s])

\* ... its life ends, unless a completion holds on to it, ...
Free(s) == \A v \in Workers : InFlight(v) /\ InFlight(v)' => holds[v].slot # s

EndsLife(s) == rows'[s].gen = rows[s].gen /\ rows'[s].state \notin Live /\ Free(s)

\* ... or another one takes its place: at the start of the execution, as a
\* retry, or as what comes next.
Begins(s, attempt, max) ==
  /\ rows'[s].gen = rows[s].gen + 1 /\ rows'[s].state = "CREATED"
  /\ rows'[s].attempt = attempt /\ rows'[s].max = max

BeginsAtStart(s) == StartWorkflow /\ Begins(s, 0, MaxAttempts[s[2]])

BeginsAgain(w, s) ==
  /\ RetryTask(w) \/ RetryCompensation(w)
  /\ s = holds[w].slot
  /\ Begins(s, Own(w).attempt + 1, Own(w).max)

BeginsNext(w, s) ==
  /\ \/ AdvanceStep(w) /\ Step(w) + 1 \in Steps /\ s = Task(Step(w) + 1)
     \/ (StartCompensation(w) \/ NextCompensation(w)) /\ s[1] = "comp"
  /\ rows[s].state = "NONE"
  /\ Begins(s, 0, MaxAttempts[s[2]])

RowMoves(s) ==
  \/ Keeps(s)
  \/ Claims(s)
  \/ EndsLife(s)
  \/ BeginsAtStart(s)
  \/ \E w \in Workers : InFlight(w) /\ (BeginsAgain(w, s) \/ BeginsNext(w, s))

\* The rows that sweeps have locked.
Taken == cancel.taken \union expire.taken \union UNION {call[v].taken : v \in Workers}

\* No two transactions have the same row.
TakenApart == \A v \in Workers : InFlight(v) => holds[v] \notin Taken

\* A sweep ends the life of rows it has locked only.
LEMMA SweepMoves ==
  ASSUME TypeOK, LockDiscipline, TakenApart, NEW taken, taken \subseteq Taken, NEW s \in Slots
  PROVE  \/ CancelByExecution(taken)[s] = rows[s]
         \/ /\ CancelByExecution(taken)[s].gen = rows[s].gen
            /\ CancelByExecution(taken)[s].state \notin Live
            /\ \A v \in Workers : InFlight(v) => holds[v].slot # s
<1>1. rows[s] \in Row
  BY DEF TypeOK
<1>2. CASE RefOf(s) \in taken /\ Active(rows[s])
  <2>1. CancelByExecution(taken)[s] = Cancelled(rows[s])
    BY <1>2 DEF CancelByExecution
  <2>2. ASSUME NEW v \in Workers, InFlight(v), holds[v].slot = s PROVE FALSE
    <3>1. holds[v] \in Ref /\ rows[s].gen = holds[v].gen
      BY <2>2, InFlightFacts DEF Own
    <3>2. holds[v] = RefOf(s)
      BY <2>2, <3>1 DEF RefOf, Ref
    <3> QED
      BY <1>2, <2>2, <3>2 DEF TakenApart
  <2> QED
    BY <1>1, <2>1, <2>2, RowDetails
<1>3. CASE ~(RefOf(s) \in taken /\ Active(rows[s]))
  BY <1>3 DEF CancelByExecution
<1> QED
  BY <1>2, <1>3

\* The end of a completion moves rows like this.
LEMMA EndsMove ==
  ASSUME IInv, TakenApart, NEW w \in Workers, Ends(w), NEW s \in Slots
  PROVE  RowMoves(s)
<1> USE DEF IInv
<1>1. /\ InFlight(w) /\ ~InFlight(w)' /\ holds[w].slot \in Slots /\ Own(w) \in Row
      /\ Step(w) \in Steps /\ holds[w].slot = <<holds[w].slot[1], Step(w)>>
  BY EndsRows, InFlightFacts DEF Answered, InFlight, IdleCall, TypeOK
<1>2. rows[s] \in Row /\ Deleted(Own(w)) \in Row /\ Deleted(rows[s]) \in Row
  BY <1>1, RowFacts DEF TypeOK
<1>3. Free(holds[w].slot)
  BY <1>1, DistinctSlots DEF Free
<1>4. /\ s # holds[w].slot => WithoutOwn(w)[s] = rows[s]
      /\ WithoutOwn(w)[holds[w].slot] = Deleted(Own(w))
  BY <1>1, RowsKept DEF WithoutOwn, TypeOK, Own
<1>5. rows' = WithoutOwn(w) => RowMoves(s)
  <2> SUFFICES ASSUME rows' = WithoutOwn(w) PROVE RowMoves(s)
    OBVIOUS
  <2>1. CASE s = holds[w].slot
    <3>1. EndsLife(s)
      BY <1>1, <1>3, <1>4, <2>1, RowDetails DEF EndsLife, Own
    <3> QED
      BY <3>1 DEF RowMoves
  <2>2. CASE s # holds[w].slot
    BY <1>4, <2>2 DEF RowMoves, Keeps
  <2> QED
    BY <2>1, <2>2
<1>6. CASE RetryTask(w) \/ RetryCompensation(w)
  <2>1. rows' = [rows EXCEPT ![holds[w].slot] =
                   Created(Deleted(Own(w)), Own(w).attempt + 1, Own(w).max)]
    BY <1>6 DEF RetryTask, RetryCompensation, Recreate
  <2>2. CASE s = holds[w].slot
    <3>1. rows'[s] = Created(Deleted(Own(w)), Own(w).attempt + 1, Own(w).max)
      BY <2>1, <2>2 DEF TypeOK
    <3>2. Begins(s, Own(w).attempt + 1, Own(w).max)
      BY <1>1, <1>2, <2>2, <3>1, RowDetails DEF Begins, Own
    <3> QED
      BY <1>1, <1>6, <2>2, <3>2 DEF RowMoves, BeginsAgain
  <2>3. CASE s # holds[w].slot
    BY <2>1, <2>3 DEF RowMoves, Keeps, TypeOK
  <2> QED
    BY <2>2, <2>3
<1>7. CASE FailTaskCommit(w)
  <2> DEFINE swept == CancelByExecution(call[w].taken)
  <2>1. rows' = [swept EXCEPT ![holds[w].slot] = Deleted(@)] /\ swept \in [Slots -> Row]
    BY <1>7, RowsKept DEF FailTaskCommit
  <2>2. call[w].taken \subseteq Taken
    BY DEF Taken
  <2>3. \/ swept[s] = rows[s]
        \/ /\ swept[s].gen = rows[s].gen /\ swept[s].state \notin Live
           /\ \A v \in Workers : InFlight(v) => holds[v].slot # s
    BY <2>2, SweepMoves
  <2>4. swept[s].gen = rows[s].gen /\ swept[s] \in Row
    BY <2>1, RowsKept
  <2> HIDE DEF swept
  <2>5. CASE s = holds[w].slot
    <3>1. rows'[s] = Deleted(swept[s])
      BY <2>1, <2>5
    <3>2. EndsLife(s)
      BY <1>3, <2>4, <2>5, <3>1, RowDetails DEF EndsLife
    <3> QED
      BY <3>2 DEF RowMoves
  <2>6. CASE s # holds[w].slot
    <3>1. rows'[s] = swept[s]
      BY <2>1, <2>6
    <3> QED
      BY <2>3, <3>1 DEF RowMoves, Keeps, EndsLife, Free
  <2> QED
    BY <2>5, <2>6
<1>8. CASE StartCompensationFails(w) \/ NothingToCompensate(w) \/ StepDone(w)
             \/ LastStepDone(w) \/ FinishWorkflow(w) \/ FailCompensation(w)
             \/ FinishCompensation(w)
  BY <1>5, <1>8 DEF StartCompensationFails, NothingToCompensate, StepDone, LastStepDone,
                    FinishWorkflow, FailCompensation, FinishCompensation
<1>9. ASSUME NEW t \in Slots, rows[t].state = "NONE",
             \/ AdvanceStep(w) /\ Step(w) + 1 \in Steps /\ t = Task(Step(w) + 1)
             \/ (StartCompensation(w) \/ NextCompensation(w)) /\ t[1] = "comp",
             rows' = [WithoutOwn(w) EXCEPT ![t] = Created(@, 0, MaxAttempts[t[2]])]
      PROVE  RowMoves(s)
  <2>1. t # holds[w].slot
    BY <1>1, <1>9, InFlightFacts DEF Own
  <2>2. CASE s = t
    <3>1. rows'[s] = Created(rows[s], 0, MaxAttempts[s[2]])
      BY <1>4, <1>9, <2>1, <2>2, RowsKept
    <3>2. Begins(s, 0, MaxAttempts[s[2]])
      BY <1>2, <3>1, RowDetails DEF Begins
    <3> QED
      BY <1>1, <1>9, <2>2, <3>2 DEF RowMoves, BeginsNext
  <2>3. CASE s = holds[w].slot
    <3>1. rows'[s] = Deleted(Own(w))
      BY <1>4, <1>9, <2>1, <2>3
    <3>2. EndsLife(s)
      BY <1>1, <1>3, <2>3, <3>1, RowDetails DEF EndsLife, Own
    <3> QED
      BY <3>2 DEF RowMoves
  <2>4. CASE s # t /\ s # holds[w].slot
    BY <1>4, <1>9, <2>4 DEF RowMoves, Keeps
  <2> QED
    BY <2>2, <2>3, <2>4
<1>10. CASE AdvanceStep(w)
  <2>1. /\ Step(w) + 1 \in Steps /\ rows[Task(Step(w) + 1)].state = "NONE"
        /\ rows' = [WithoutOwn(w) EXCEPT ![Task(Step(w) + 1)] =
                      Created(@, 0, MaxAttempts[Step(w) + 1])]
    BY <1>10 DEF AdvanceStep
  <2>2. Task(Step(w) + 1) \in Slots /\ Task(Step(w) + 1)[2] = Step(w) + 1
    BY <2>1, SlotFacts DEF Task, Kinds
  <2> QED
    BY <1>9, <1>10, <2>1, <2>2
<1>11. CASE StartCompensation(w) \/ NextCompensation(w)
  <2>1. PICK n \in Steps :
          /\ rows[Comp(n)].state = "NONE"
          /\ rows' = [WithoutOwn(w) EXCEPT ![Comp(n)] = Created(@, 0, MaxAttempts[n])]
    BY <1>11 DEF StartCompensation, NextCompensation
  <2>2. Comp(n) \in Slots /\ Comp(n)[1] = "comp" /\ Comp(n)[2] = n
    BY SlotFacts DEF Comp, Kinds
  <2> QED
    BY <1>9, <1>11, <2>1, <2>2
<1> QED
  BY <1>6, <1>7, <1>8, <1>10, <1>11 DEF Ends

\* Every step moves every row like this.
LEMMA RowsMove ==
  ASSUME IInv, TakenApart, [Next]_vars, NEW s \in Slots
  PROVE  RowMoves(s)
<1> USE DEF IInv
<1>1. rows[s] \in Row
  BY DEF TypeOK
<1>2. rows' = rows => RowMoves(s)
  BY DEF RowMoves, Keeps
<1>3. ASSUME NEW t \in Slots, PollLost(t) \/ LeaseLapses(t) \/ \E w \in Workers : Poll(w, t)
      PROVE  RowMoves(s)
  <2>1. CASE s # t
    BY <1>3, <2>1 DEF PollLost, LeaseLapses, Poll, Claim, TypeOK, RowMoves, Keeps
  <2>2. CASE s = t /\ LeaseLapses(t)
    BY <1>1, <2>2, RowDetails DEF LeaseLapses, TypeOK, RowMoves, Keeps
  <2>3. CASE s = t /\ ~LeaseLapses(t)
    BY <1>3, <2>3 DEF PollLost, Poll, Claim, TypeOK, RowMoves, Claims
  <2> QED
    BY <2>1, <2>2, <2>3
<1>4. ASSUME NEW w \in Workers, Heartbeat(w)
      PROVE  RowMoves(s)
  BY <1>1, <1>4, RowDetails DEF Heartbeat, TypeOK, RowMoves, Keeps
<1>5. ASSUME NEW w \in Workers, CompleteIgnored(w)
      PROVE  RowMoves(s)
  <2>1. CASE s # holds[w].slot
    BY <1>5, <2>1 DEF CompleteIgnored, TypeOK, RowMoves, Keeps
  <2>2. CASE s = holds[w].slot
    <3>1. PICK err \in BOOLEAN : rows'[s] = UpdateCompleted(rows[s], err)
      BY <1>5, <2>2 DEF CompleteIgnored, TypeOK
    <3>2. ASSUME NEW v \in Workers, InFlight(v), holds[v].slot = s PROVE FALSE
      <4>1. holds[v] \in Ref /\ rows[s].gen = holds[v].gen
        BY <3>2, InFlightFacts DEF Own
      <4>2. holds[w] \in Ref /\ rows[s].gen = holds[w].gen /\ ~Locked(holds[w])
        BY <1>5, <2>2 DEF CompleteIgnored, Reporting, Exists, TypeOK
      <4>3. holds[v] = RefOf(s) /\ holds[w] = RefOf(s)
        BY <2>2, <3>2, <4>1, <4>2 DEF Ref, RefOf
      <4> QED
        BY <3>2, <4>2, <4>3 DEF Locked
    <3> QED
      BY <1>1, <3>1, <3>2, RowDetails DEF RowMoves, EndsLife, Free
  <2> QED
    BY <2>1, <2>2
<1>6. ASSUME NEW w \in Workers,
             HeartbeatRejected(w) \/ WorkerForgets(w) \/ CompleteUnknown(w)
               \/ CompleteBegin(w) \/ FailTask(w) \/ FailTaskTakesRow(w)
               \/ SaveCheckpoint(w) \/ CallAborts(w)
      PROVE  RowMoves(s)
  BY <1>2, <1>6 DEF HeartbeatRejected, WorkerForgets, CompleteUnknown, CompleteBegin, FailTask,
                    FailTaskTakesRow, SaveCheckpoint, CallAborts
<1>7. CASE StartWorkflow
  <2>1. rows'[s] = IF s \in FirstTasks THEN Created(rows[s], 0, MaxAttempts[s[2]]) ELSE rows[s]
    BY <1>7 DEF StartWorkflow
  <2>2. CASE s \in FirstTasks
    BY <1>1, <1>7, <2>1, <2>2, RowDetails DEF RowMoves, BeginsAtStart, Begins
  <2>3. CASE s \notin FirstTasks
    BY <2>1, <2>3 DEF RowMoves, Keeps
  <2> QED
    BY <2>2, <2>3
<1>8. ASSUME NEW taken, taken \subseteq Taken, rows' = CancelByExecution(taken)
      PROVE  RowMoves(s)
  BY <1>8, SweepMoves DEF RowMoves, Keeps, EndsLife, Free
<1>9. CASE CancelWorkflow
  BY <1>2, <1>8, <1>9
     DEF CancelWorkflow, CancelBegin, CancelTakesRow, CancelCommit, CancelAborts, Taken
<1>10. CASE ExpireOverdueWorkflows
  BY <1>2, <1>8, <1>10
     DEF ExpireOverdueWorkflows, ExpireOverdue, ExpireSweep, ExpireTakesRow, ExpireSwept,
         ExpireTimedOut, ExpireFailed, ExpireStatementFails, Taken
<1>11. CASE UNCHANGED vars \/ ServerCrash \/ RecoverWorkflows
  BY <1>2, <1>11, NoOrphan DEF vars, ServerCrash, RecoverWorkflows
<1> QED
  BY <1>3, <1>4, <1>5, <1>6, <1>7, <1>9, <1>10, <1>11, NextSplit, EndsMove DEF Aside, Quiet

-----------------------------------------------------------------------------
(* How locks move.                                                          *)

\* What a step can make of a completion: it is over, it begins, or it goes on
\* with the task it has and what it read; if it starts to sweep or has locked
\* one more row, the step is that.
GoesOn(v) ==
  /\ InFlight(v) /\ holds'[v] = holds[v] /\ call'[v].seen = call[v].seen
  /\ \/ /\ call'[v].waits = call[v].waits /\ call'[v].taken = call[v].taken
        /\ call'[v].stage = "sweep" <=> call[v].stage = "sweep"
     \/ FailTask(v)
     \/ FailTaskTakesRow(v)

CallMoves(v) ==
  \/ ~InFlight(v)' /\ call'[v] \in {IdleCall, call[v]}
  \/ CompleteBegin(v)
  \/ GoesOn(v)

\* What it can make of the sweeps of CancelWorkflow and of the sweeper.
CancelMoves == cancel' = cancel \/ cancel' = Idle \/ CancelBegin \/ CancelTakesRow

ExpireMoves ==
  \/ /\ expire'.waits = expire.waits /\ expire'.taken = expire.taken
     /\ expire'.stage = "sweep" <=> expire.stage = "sweep"
  \/ expire'.waits = {} /\ expire'.taken = {}
  \/ ExpireSweep
  \/ ExpireTakesRow

\* A task is handed to a worker only by a Poll, and never to one that has it.
HoldMoves(v) ==
  \/ holds'[v] \in {holds[v], NoRef}
  \/ \E s \in Slots : Poll(v, s) /\ holds'[v] = RefOf(s)

LEMMA LocksMove ==
  ASSUME TypeOK, LockDiscipline, [Next]_vars
  PROVE  /\ \A v \in Workers : CallMoves(v) /\ HoldMoves(v)
         /\ CancelMoves
         /\ ExpireMoves
<1>1. call' = call /\ (\A v \in Workers : InFlight(v) => holds'[v] = holds[v]) =>
        \A v \in Workers : CallMoves(v)
  BY DEF CallMoves, GoesOn, InFlight
<1>2. cancel' = cancel /\ expire' = expire => CancelMoves /\ ExpireMoves
  BY DEF CancelMoves, ExpireMoves
<1>3. holds' = holds => \A v \in Workers : HoldMoves(v)
  BY DEF HoldMoves
<1>4. CASE UNCHANGED vars \/ StartWorkflow \/ RecoverWorkflows
  BY <1>1, <1>2, <1>3, <1>4 DEF vars, StartWorkflow, RecoverWorkflows
<1>5. ASSUME NEW s \in Slots, PollLost(s) \/ LeaseLapses(s)
      PROVE  /\ \A v \in Workers : CallMoves(v) /\ HoldMoves(v)
             /\ CancelMoves /\ ExpireMoves
  BY <1>1, <1>2, <1>3, <1>5 DEF PollLost, LeaseLapses
<1>6. ASSUME NEW w \in Workers, Ends(w)
      PROVE  /\ \A v \in Workers : CallMoves(v) /\ HoldMoves(v)
             /\ CancelMoves /\ ExpireMoves
  <2>1. Answered(w) /\ cancel' = cancel /\ expire' = expire
    BY <1>6 DEF Ends, RetryTask, RetryCompensation, FailTaskCommit, StartCompensationFails,
         NothingToCompensate, StartCompensation, StepDone, LastStepDone, AdvanceStep,
         FinishWorkflow, FailCompensation, FinishCompensation, NextCompensation
  <2>2. \A v \in Workers : HoldMoves(v) /\ CallMoves(v)
    BY <2>1 DEF Answered, HoldMoves, CallMoves, GoesOn, InFlight, IdleCall, TypeOK
  <2> QED
    BY <1>2, <2>1, <2>2
<1>7. ASSUME NEW w \in Workers, NEW s \in Slots, Poll(w, s)
      PROVE  /\ \A v \in Workers : CallMoves(v) /\ HoldMoves(v)
             /\ CancelMoves /\ ExpireMoves
  <2>1. call' = call /\ cancel' = cancel /\ expire' = expire
    BY <1>7 DEF Poll
  <2>2. ~InFlight(w)
    BY <1>7 DEF Poll, LockDiscipline, Exists
  <2>3. holds'[w] = RefOf(s) /\ \A v \in Workers \ {w} : holds'[v] = holds[v]
    BY <1>7 DEF Poll, TypeOK
  <2>4. \A v \in Workers : HoldMoves(v)
    BY <1>7, <2>3 DEF HoldMoves
  <2> QED
    BY <1>1, <1>2, <2>1, <2>2, <2>3, <2>4
<1>8. ASSUME NEW w \in Workers,
             Heartbeat(w) \/ HeartbeatRejected(w) \/ WorkerForgets(w) \/ CompleteUnknown(w)
               \/ CompleteIgnored(w)
      PROVE  /\ \A v \in Workers : CallMoves(v) /\ HoldMoves(v)
             /\ CancelMoves /\ ExpireMoves
  <2>1. ~InFlight(w) /\ call' = call /\ cancel' = cancel /\ expire' = expire
    BY <1>8 DEF Heartbeat, HeartbeatRejected, WorkerForgets, CompleteUnknown, CompleteIgnored,
                Reporting
  <2>2. \A v \in Workers : holds'[v] = IF v = w /\ ~Heartbeat(w) THEN NoRef ELSE holds[v]
    BY <1>8 DEF Heartbeat, HeartbeatRejected, WorkerForgets, CompleteUnknown, CompleteIgnored,
                TypeOK
  <2> QED
    BY <1>1, <1>2, <2>1, <2>2 DEF HoldMoves
<1>9. ASSUME NEW w \in Workers,
             CompleteBegin(w) \/ FailTask(w) \/ FailTaskTakesRow(w) \/ SaveCheckpoint(w)
               \/ CallAborts(w)
      PROVE  /\ \A v \in Workers : CallMoves(v) /\ HoldMoves(v)
             /\ CancelMoves /\ ExpireMoves
  <2>1. holds' = holds /\ cancel' = cancel /\ expire' = expire
    BY <1>9 DEF CompleteBegin, FailTask, FailTaskTakesRow, SaveCheckpoint, CallAborts
  <2>2. \A v \in Workers : v # w => call'[v] = call[v]
    BY <1>9 DEF CompleteBegin, FailTask, FailTaskTakesRow, SaveCheckpoint, CallAborts, TypeOK
  <2>3. \A v \in Workers : v # w => CallMoves(v)
    BY <2>1, <2>2 DEF CallMoves, GoesOn, InFlight
  <2>4. CallMoves(w)
    <3>1. CASE CompleteBegin(w)
      BY <3>1 DEF CallMoves
    <3>2. CASE FailTask(w)
      BY <2>1, <3>2 DEF FailTask, FailingForGood, Failing, CallMoves, GoesOn, InFlight, TypeOK,
                        Call
    <3>3. CASE FailTaskTakesRow(w)
      <4>1. PICK sweep \in TakesRow(call[w]) : call' = [call EXCEPT ![w] = sweep]
        BY <3>3 DEF FailTaskTakesRow
      <4>2. sweep.seen = call[w].seen /\ sweep.stage = call[w].stage
        BY <4>1 DEF TakesRow, TypeOK, Call
      <4>3. call'[w] = sweep
        BY <4>1 DEF TypeOK
      <4> QED
        BY <2>1, <3>3, <4>2, <4>3 DEF FailTaskTakesRow, CallMoves, GoesOn, InFlight
    <3>4. CASE SaveCheckpoint(w)
      BY <2>1, <3>4 DEF SaveCheckpoint, Succeeding, CallMoves, GoesOn, InFlight, TypeOK, Call
    <3>5. CASE CallAborts(w)
      BY <3>5 DEF CallAborts, CallMoves, InFlight, IdleCall, TypeOK
    <3> QED
      BY <1>9, <3>1, <3>2, <3>3, <3>4, <3>5
  <2> QED
    BY <1>2, <1>3, <2>1, <2>3, <2>4
<1>10. CASE CancelWorkflow
  BY <1>1, <1>3, <1>10
     DEF CancelWorkflow, CancelBegin, CancelTakesRow, CancelCommit, CancelAborts, CancelMoves,
         ExpireMoves
<1>11. CASE ExpireOverdueWorkflows
  <2>1. call' = call /\ holds' = holds /\ cancel' = cancel
    BY <1>11
       DEF ExpireOverdueWorkflows, ExpireOverdue, ExpireSweep, ExpireTakesRow, ExpireSwept,
           ExpireTimedOut, ExpireFailed, ExpireStatementFails
  <2>2. ExpireMoves
    BY <1>11
       DEF ExpireOverdueWorkflows, ExpireOverdue, ExpireSwept, ExpireTimedOut, ExpireFailed,
           ExpireStatementFails, ExpireMoves, Idle, TypeOK
  <2> QED
    BY <1>1, <1>3, <2>1, <2>2 DEF CancelMoves
<1>12. CASE ServerCrash
  BY <1>12 DEF ServerCrash, CallMoves, InFlight, IdleCall, HoldMoves, CancelMoves, ExpireMoves,
               Idle
<1> QED
  BY <1>4, <1>5, <1>6, <1>7, <1>8, <1>9, <1>10, <1>11, <1>12, NextSplit DEF Aside, Quiet

-----------------------------------------------------------------------------
(* What sweeps have and wait for.                                           *)

\* Only a sweep has rows and waits for rows, and not for the same; a completion
\* that sweeps does not wait for its own row.
SweepFits(sweep) ==
  /\ sweep.stage # "sweep" => sweep.waits = {} /\ sweep.taken = {}
  /\ \A ref \in sweep.waits : ref \notin sweep.taken

SweepsFit ==
  /\ SweepFits(cancel)
  /\ SweepFits(expire)
  /\ \A v \in Workers : SweepFits(call[v]) /\ holds[v] \notin call[v].waits

\* A row that a sweep takes, it has waited for and nobody had.
LEMMA TakesFree ==
  ASSUME NEW S, NEW sweep,
         sweep \in Call \/ sweep \in [stage : S, waits : SUBSET Ref, taken : SUBSET Ref],
         SweepFits(sweep), NEW next \in TakesRow(sweep)
  PROVE  /\ next.stage = sweep.stage
         /\ SweepFits(next) \/ sweep.stage # "sweep"
         /\ next.waits \subseteq sweep.waits
         /\ \A ref \in next.taken : ref \in sweep.taken \/ ~Locked(ref)
<1>1. PICK ref \in sweep.waits :
        ~Locked(ref) /\ next = [sweep EXCEPT !.waits = @ \ {ref}, !.taken = @ \union {ref}]
  BY DEF TakesRow
<1>2. /\ next.stage = sweep.stage
      /\ next.waits = sweep.waits \ {ref}
      /\ next.taken = sweep.taken \union {ref}
  BY <1>1 DEF Call
<1> QED
  BY <1>1, <1>2 DEF SweepFits

LEMMA SweepsInit == Init => SweepsFit /\ TakenApart
BY NoRefFacts DEF Init, SweepsFit, SweepFits, IdleCall, Idle, TakenApart, InFlight

LEMMA SweepsStep ==
  ASSUME TypeOK, LockDiscipline, SweepsFit, [Next]_vars
  PROVE  /\ SweepsFit'
         /\ \A ref \in Taken' : ref \in Taken \/ ~Locked(ref)
<1>1. /\ \A v \in Workers : CallMoves(v) /\ HoldMoves(v)
      /\ CancelMoves /\ ExpireMoves
  BY LocksMove
<1>2. /\ SweepFits(cancel)'
      /\ \A ref \in cancel'.taken : ref \in cancel.taken \/ ~Locked(ref)
  <2>1. CASE cancel' = cancel \/ cancel' = Idle \/ CancelBegin
    BY <2>1 DEF CancelBegin, SweepsFit, SweepFits, Idle
  <2>2. CASE CancelTakesRow
    <3>1. cancel \in [stage : {"idle", "sweep"}, waits : SUBSET Ref, taken : SUBSET Ref]
      BY DEF TypeOK
    <3>2. SweepFits(cancel) /\ cancel.stage = "sweep" /\ cancel' \in TakesRow(cancel)
      BY <2>2 DEF CancelTakesRow, SweepsFit
    <3>3. /\ SweepFits(cancel') \/ cancel.stage # "sweep"
          /\ \A ref \in cancel'.taken : ref \in cancel.taken \/ ~Locked(ref)
      BY <3>1, <3>2, TakesFree
    <3> QED
      BY <3>2, <3>3 DEF SweepFits
  <2> QED
    BY <1>1, <2>1, <2>2 DEF CancelMoves
<1>3. /\ SweepFits(expire)'
      /\ \A ref \in expire'.taken : ref \in expire.taken \/ ~Locked(ref)
  <2>1. CASE /\ expire'.waits = expire.waits /\ expire'.taken = expire.taken
             /\ expire'.stage = "sweep" <=> expire.stage = "sweep"
    BY <2>1 DEF SweepsFit, SweepFits
  <2>2. CASE expire'.waits = {} /\ expire'.taken = {}
    BY <2>2 DEF SweepFits
  <2>3. CASE ExpireSweep
    BY <2>3 DEF ExpireSweep, SweepFits
  <2>4. CASE ExpireTakesRow
    <3>1. expire \in [stage : {"idle", "marked", "sweep", "swept", "timedOut"},
                      waits : SUBSET Ref, taken : SUBSET Ref]
      BY DEF TypeOK
    <3>2. SweepFits(expire) /\ expire.stage = "sweep" /\ expire' \in TakesRow(expire)
      BY <2>4 DEF ExpireTakesRow, SweepsFit
    <3>3. /\ SweepFits(expire') \/ expire.stage # "sweep"
          /\ \A ref \in expire'.taken : ref \in expire.taken \/ ~Locked(ref)
      BY <3>1, <3>2, TakesFree
    <3> QED
      BY <3>2, <3>3 DEF SweepFits
  <2> QED
    BY <1>1, <2>1, <2>2, <2>3, <2>4 DEF ExpireMoves
<1>4. ASSUME NEW v \in Workers
      PROVE  /\ SweepFits(call[v])'
             /\ holds'[v] \notin call'[v].waits
             /\ \A ref \in call'[v].taken : ref \in call[v].taken \/ ~Locked(ref)
  <2>1. SweepFits(call[v]) /\ holds[v] \notin call[v].waits
    BY DEF SweepsFit
  <2>2. CASE ~InFlight(v)' /\ call'[v] \in {IdleCall, call[v]}
    BY <2>1, <2>2 DEF InFlight, SweepFits, IdleCall
  <2>3. CASE CompleteBegin(v)
    <3>1. call'[v].waits = {} /\ call'[v].taken = {}
      BY <2>3 DEF CompleteBegin, IdleCall, TypeOK
    <3> QED
      BY <3>1 DEF SweepFits
  <2>4. CASE GoesOn(v) /\ FailTask(v)
    <3>1. /\ call'[v].stage = "sweep" /\ call'[v].waits = LiveRefs \ {holds[v]}
          /\ call'[v].taken = call[v].taken /\ call[v].stage = "open"
      BY <2>4 DEF FailTask, FailingForGood, Failing, TypeOK, Call
    <3> QED
      BY <2>1, <2>4, <3>1 DEF SweepFits, GoesOn
  <2>5. CASE GoesOn(v) /\ FailTaskTakesRow(v)
    <3>1. call'[v] \in TakesRow(call[v]) /\ call[v] \in Call /\ call[v].stage = "sweep"
      BY <2>5 DEF FailTaskTakesRow, TypeOK
    <3> QED
      BY <2>1, <2>5, <3>1, TakesFree DEF GoesOn
  <2>6. CASE GoesOn(v) /\ ~FailTask(v) /\ ~FailTaskTakesRow(v)
    BY <2>1, <2>6 DEF GoesOn, SweepFits
  <2> QED
    BY <1>1, <2>2, <2>3, <2>4, <2>5, <2>6 DEF CallMoves
<1> QED
  BY <1>2, <1>3, <1>4 DEF SweepsFit, Taken

\* Nobody takes a row that a completion has, and none begins with a row that a
\* sweep has.
LEMMA ApartStep ==
  ASSUME TypeOK, LockDiscipline, SweepsFit, TakenApart, [Next]_vars
  PROVE  TakenApart'
<1> SUFFICES ASSUME NEW v \in Workers, InFlight(v)', holds'[v] \in Taken'
             PROVE  FALSE
  BY DEF TakenApart
<1>1. CallMoves(v)
  BY LocksMove
<1>2. \A ref \in Taken' : ref \in Taken \/ ~Locked(ref)
  BY SweepsStep
<1>3. CASE GoesOn(v)
  BY <1>2, <1>3 DEF GoesOn, TakenApart, Locked
<1>4. CASE CompleteBegin(v)
  <2>1. holds'[v] = holds[v] /\ ~Locked(holds[v])
    BY <1>4 DEF CompleteBegin, Reporting
  <2>2. cancel' = cancel /\ expire' = expire
    BY <1>4 DEF CompleteBegin
  <2>3. \A u \in Workers : call'[u].taken = call[u].taken \/ call'[u].taken = {}
    BY <1>4 DEF CompleteBegin, IdleCall, TypeOK
  <2>4. holds[v] \in Taken
    BY <2>1, <2>2, <2>3 DEF Taken
  <2>5. \A u \in Workers : holds[v] \in call[u].taken => InFlight(u)
    BY DEF SweepsFit, SweepFits, InFlight
  <2> QED
    BY <2>1, <2>4, <2>5 DEF Taken, Locked
<1> QED
  BY <1>1, <1>3, <1>4 DEF CallMoves

\* Transactions wait for each other only by twos, since at most one of the three
\* sweeps is under way: those of CancelWorkflow and CompleteTask have the
\* execution row of an open execution, and that of the sweeper comes when the
\* execution is closed.
LEMMA PairsOnly ==
  ASSUME TypeOK, LockDiscipline, RowsFitState, SweepsFit
  PROVE  OnlyPairsDeadlock
<1> SUFFICES ASSUME NEW ref \in cancel.waits \union expire.waits
                                  \union UNION {call[v].waits : v \in Workers},
                    Locked(ref)
             PROVE  \E w \in Workers :
                      /\ InFlight(w) /\ holds[w] = ref /\ call[w].stage # "sweep"
                      /\ NeedsExec(w) /\ ExecLocked => Deadlocked(w)
  BY DEF OnlyPairsDeadlock
<1>1. SweepFits(cancel) /\ SweepFits(expire)
      /\ \A v \in Workers : SweepFits(call[v]) /\ holds[v] \notin call[v].waits
  BY DEF SweepsFit
<1>2. expire.stage = "sweep" =>
        ~ExecLocked /\ cancel.stage # "sweep" /\ \A v \in Workers : call[v].stage # "sweep"
  BY DEF LockDiscipline, RowsFitState, ExecLocked
<1>3. \A u, v \in Workers : ref \in call[u].waits /\ ref \in call[v].taken => FALSE
  BY <1>1 DEF LockDiscipline, SweepFits
<1>4. ~(ref \in cancel.taken \union expire.taken)
      /\ \A v \in Workers : ref \notin call[v].taken
  BY <1>1, <1>2, <1>3 DEF LockDiscipline, SweepFits
<1>5. PICK w \in Workers : InFlight(w) /\ holds[w] = ref
  BY <1>4 DEF Locked
<1>6. call[w].stage # "sweep"
  <2>1. SUFFICES ASSUME call[w].stage = "sweep" PROVE FALSE
    OBVIOUS
  <2>2. ref \notin call[w].waits
    BY <1>1, <1>5
  <2>3. cancel.waits = {} /\ expire.waits = {} /\ \A v \in Workers : v # w => call[v].waits = {}
    BY <1>1, <1>2, <2>1 DEF LockDiscipline, SweepFits
  <2> QED
    BY <2>2, <2>3
<1>7. ASSUME ExecLocked, NeedsExec(w) PROVE Deadlocked(w)
  BY <1>1, <1>2, <1>5, <1>7 DEF Deadlocked, SweepFits
<1> QED
  BY <1>5, <1>6, <1>7

-----------------------------------------------------------------------------
(* What completions have read.                                              *)

\* A task that was handed out was claimed, and is never again as it was created.
HeldClaimed ==
  \A w \in Workers : holds[w] # NoRef =>
    LET row == rows[holds[w].slot] IN
    /\ holds[w].gen <= row.gen
    /\ holds[w].gen = row.gen => row.state # "CREATED"

\* The row of a completion is RUNNING, and the state it read is the state.
ReadsFit ==
  \A w \in Workers : InFlight(w) =>
    /\ Own(w).state = "RUNNING"
    /\ Open(exec.state) => call[w].seen = exec.state

LEMMA ReadsInit == Init => HeldClaimed /\ ReadsFit
BY DEF Init, HeldClaimed, ReadsFit, InFlight, IdleCall

\* What a row is moved to, seen from one who was handed it.
LEMMA RowAhead ==
  ASSUME TypeOK, NEW s \in Slots, RowMoves(s)
  PROVE  /\ rows'[s].gen >= rows[s].gen
         /\ rows'[s].gen = rows[s].gen /\ rows'[s].state = "CREATED" =>
              rows[s].state = "CREATED"
<1>1. rows[s] \in Row /\ rows[s].gen \in Nat
  BY DEF TypeOK, Row
<1> QED
  BY <1>1, RowDetails
     DEF RowMoves, Keeps, Claims, EndsLife, Live, BeginsAtStart, BeginsAgain, BeginsNext, Begins

LEMMA HeldStep ==
  ASSUME IInv, TakenApart, HeldClaimed, [Next]_vars
  PROVE  HeldClaimed'
<1> SUFFICES ASSUME NEW w \in Workers, holds'[w] # NoRef
             PROVE  /\ holds'[w].gen <= rows'[holds'[w].slot].gen
                    /\ holds'[w].gen = rows'[holds'[w].slot].gen =>
                         rows'[holds'[w].slot].state # "CREATED"
  BY DEF HeldClaimed
<1> USE DEF IInv
<1>1. CASE holds'[w] = holds[w]
  <2>1. holds[w] \in Ref /\ holds[w].slot \in Slots /\ holds[w].gen \in Nat
    BY <1>1 DEF TypeOK, Ref
  <2>2. /\ holds[w].gen <= rows[holds[w].slot].gen
        /\ holds[w].gen = rows[holds[w].slot].gen => rows[holds[w].slot].state # "CREATED"
    BY <1>1 DEF HeldClaimed
  <2>3. RowMoves(holds[w].slot)
    BY <2>1, RowsMove
  <2>4. /\ rows'[holds[w].slot].gen >= rows[holds[w].slot].gen
        /\ rows'[holds[w].slot].gen = rows[holds[w].slot].gen
             /\ rows'[holds[w].slot].state = "CREATED" => rows[holds[w].slot].state = "CREATED"
    BY <2>1, <2>3, RowAhead
  <2>5. rows[holds[w].slot].gen \in Nat /\ rows'[holds[w].slot].gen \in Nat
    BY <2>1, TypeStep DEF TypeOK, Row
  <2> QED
    BY <1>1, <2>1, <2>2, <2>4, <2>5
<1>2. CASE \E s \in Slots : Poll(w, s) /\ holds'[w] = RefOf(s)
  <2>1. PICK s \in Slots : Poll(w, s) /\ holds'[w] = RefOf(s)
    BY <1>2
  <2>2. rows'[s] = Claimed(rows[s]) /\ rows[s] \in Row /\ rows[s].gen \in Nat
    BY <2>1 DEF Poll, Claim, TypeOK, Row
  <2>3. rows'[s].gen = rows[s].gen /\ rows'[s].state = "RUNNING"
    BY <2>2, RowDetails
  <2> QED
    BY <2>1, <2>2, <2>3 DEF RefOf
<1> QED
  BY <1>1, <1>2, LocksMove DEF HoldMoves

\* A completion in flight goes on with its row as it is.
LEMMA OwnKept ==
  ASSUME IInv, TakenApart, [Next]_vars, NEW w \in Workers, InFlight(w), InFlight(w)',
         GoesOn(w)
  PROVE  Keeps(holds[w].slot)
<1> USE DEF IInv
<1> DEFINE s == holds[w].slot
<1>1. /\ holds[w] \in Ref /\ s \in Slots /\ rows[s].state # "NONE" /\ rows[s].gen = holds[w].gen
      /\ exec.state # "NONE"
  BY InFlightFacts DEF Own
<1>2. holds[w] = RefOf(s)
  BY <1>1 DEF RefOf, Ref
<1>3. ~Claims(s)
  BY <1>2 DEF Claims, Locked
<1>4. ~EndsLife(s)
  BY DEF EndsLife, Free
<1>5. ~BeginsAtStart(s)
  BY <1>1 DEF BeginsAtStart, StartWorkflow
<1>6. ASSUME NEW v \in Workers, InFlight(v), BeginsAgain(v, s) PROVE FALSE
  <2>1. v = w
    BY <1>6, DistinctSlots DEF BeginsAgain
  <2>2. ~InFlight(v)'
    BY <1>6, EndsRows DEF BeginsAgain, Ends, Answered, InFlight, IdleCall, TypeOK
  <2> QED
    BY <2>1, <2>2
<1>7. ASSUME NEW v \in Workers, BeginsNext(v, s) PROVE FALSE
  BY <1>1, <1>7 DEF BeginsNext
<1>8. RowMoves(s)
  BY <1>1, RowsMove
<1> QED
  BY <1>3, <1>4, <1>5, <1>6, <1>7, <1>8 DEF RowMoves

\* A completion in flight goes on with the execution in the state it read, as
\* long as it is open: only a SAGA turns round while it is open, and there the
\* completion that turns it is the only one.
LEMMA StateKept ==
  ASSUME IInv, [Next]_vars, NEW w \in Workers, InFlight(w), InFlight(w)', Open(exec'.state)
  PROVE  exec'.state = exec.state
<1> USE DEF IInv
<1>1. exec.state # "NONE" /\ rows[holds[w].slot].state # "NONE" /\ holds[w].slot \in Slots
  BY InFlightFacts DEF Own
<1>2. CASE Aside
  BY <1>1, <1>2, RowsQuiet, ExpireChanges, CancelChanges
     DEF Aside, vars, Open, Closed, CancelWorkflow, CancelBegin, CancelTakesRow, CancelAborts,
         ServerCrash, RecoverWorkflows
<1>3. CASE StartWorkflow
  BY <1>1, <1>3 DEF StartWorkflow
<1>4. ASSUME NEW v \in Workers, Ends(v) PROVE exec'.state = exec.state
  <2>1. InFlight(v) /\ ~InFlight(v)'
    BY <1>4, EndsRows DEF Answered, InFlight, IdleCall, TypeOK
  <2>2. v # w
    BY <2>1
  <2>3. WorkflowType = "INDEPENDENT"
    BY <1>1, <2>1, <2>2, OnlyRow, DistinctSlots
  <2>4. ~StartCompensation(v)
    BY <2>3 DEF StartCompensation, SagaFailing
  <2> QED
    BY <1>4, <2>4, EndsExec DEF Ends, Open
<1> QED
  BY <1>2, <1>3, <1>4, NextSplit

LEMMA ReadsStep ==
  ASSUME IInv, TakenApart, HeldClaimed, ReadsFit, [Next]_vars
  PROVE  ReadsFit'
<1> SUFFICES ASSUME NEW w \in Workers, InFlight(w)'
             PROVE  /\ rows'[holds'[w].slot].state = "RUNNING"
                    /\ Open(exec'.state) => call'[w].seen = exec'.state
  BY DEF ReadsFit, Own
<1> USE DEF IInv
<1>1. CASE GoesOn(w)
  <2>1. /\ InFlight(w) /\ holds'[w] = holds[w] /\ call'[w].seen = call[w].seen
    BY <1>1 DEF GoesOn
  <2>2. Keeps(holds[w].slot)
    BY <1>1, <2>1, OwnKept
  <2>3. Open(exec'.state) => exec'.state = exec.state
    BY <2>1, StateKept
  <2> QED
    BY <2>1, <2>2, <2>3 DEF ReadsFit, Own, Keeps
<1>2. CASE CompleteBegin(w)
  <2>1. /\ holds'[w] = holds[w] /\ rows' = rows /\ exec' = exec
        /\ call'[w].seen = exec.state
    BY <1>2 DEF CompleteBegin, IdleCall, TypeOK
  <2>2. /\ holds[w] \in Ref /\ holds[w] # NoRef /\ holds[w].slot \in Slots
        /\ rows[holds[w].slot].gen = holds[w].gen
        /\ rows[holds[w].slot].state # "NONE" /\ ~IsTerminal(exec.state)
    BY <1>2 DEF CompleteBegin, Reporting, Exists, TypeOK, Ref
  <2>3. rows[holds[w].slot].state # "CREATED"
    BY <2>2 DEF HeldClaimed
  <2>4. exec.state \in {"RUNNING", "COMPENSATING"}
    BY <2>2, StateFacts DEF RowsFitState, TypeOK, Exec
  <2>5. Active(rows[holds[w].slot])
    BY <2>2, <2>4 DEF RowsFitState
  <2> QED
    BY <2>1, <2>3, <2>5 DEF Active, Live
<1> QED
  BY <1>1, <1>2, LocksMove DEF CallMoves

\* What a completion has read is still so when it goes on.
LEMMA StillTrue ==
  ASSUME IInv, Story, ReadsFit
  PROVE  ReadsStillTrue
<1> SUFFICES ASSUME NEW w \in Workers, InFlight(w)
             PROVE  /\ Own(w).state = "RUNNING"
                    /\ exec.state \in {"RUNNING", "COMPENSATING"} =>
                         /\ call[w].seen = exec.state
                         /\ holds[w].slot[1] = "comp" =>
                              (exec.compDone + 1 >= exec.compTotal) = (ToUndo(Step(w) - 1) = {})
  BY DEF ReadsStillTrue
<1>1. /\ Own(w).state = "RUNNING"
      /\ exec.state \in {"RUNNING", "COMPENSATING"} => call[w].seen = exec.state
  BY DEF ReadsFit, Open
<1>2. ASSUME holds[w].slot[1] = "comp"
      PROVE  (exec.compDone + 1 >= exec.compTotal) = (ToUndo(Step(w) - 1) = {})
  <2> DEFINE n == Step(w)
  <2>1. n \in Steps /\ CompDue(n) /\ HistoryFits
    BY <1>2, OwnDue DEF Story
  <2>2. /\ exec.compDone + 1 >= exec.compTotal \/ ToUndo(n - 1) = {}
              => ToCompensate = UndoneSteps \union {n}
        /\ Cardinality(UndoneSteps \union {n}) = exec.compDone + 1
        /\ UndoneSteps \union {n} = {m \in ToCompensate : m >= n}
    BY <2>1, UndoesOne
  <2>3. exec.compTotal = Cardinality(ToCompensate) /\ n \in Nat
    BY <2>1, StepFacts DEF CompDue
  <2>4. exec.compDone \in Nat /\ exec.compTotal \in Nat
    BY DEF IInv, TypeOK, Exec
  <2>5. ToUndo(n - 1) = {m \in ToCompensate : m <= n - 1} /\ \A m \in ToCompensate : m \in Nat
    BY CompensateFacts, StepFacts
  <2> HIDE DEF n
  <2>6. ToCompensate = UndoneSteps \union {n} =>
          exec.compDone + 1 >= exec.compTotal /\ ToUndo(n - 1) = {}
    BY <2>2, <2>3, <2>4, <2>5
  <2>7. exec.compDone + 1 >= exec.compTotal <=> ToUndo(n - 1) = {}
    BY <2>2, <2>6
  <2> QED
    BY <2>7 DEF n
<1> QED
  BY <1>1, <1>2

-----------------------------------------------------------------------------
(* How often a step is retried.                                             *)

Retries(n) == Times(On("STEP_RETRYING", n))

\* An event is recorded as often as before, or once more if a transaction
\* records it once.
LEMMA TimesGrow ==
  ASSUME TypeOK, NEW s \in Seq(Event), history' = history \o s, NEW e, Once(s, e)
  PROVE  /\ Times(e) \in Nat
         /\ Times(e)' \in {Times(e), Times(e) + 1}
         /\ ~Has(s, e) => Times(e)' = Times(e)
<1> DEFINE at == {i \in DOMAIN history : history[i] = e}
           after == {i \in DOMAIN history' : history'[i] = e}
<1>1. /\ DOMAIN history = 1 .. Len(history) /\ Len(history) \in Nat
      /\ DOMAIN s = 1 .. Len(s) /\ Len(s) \in Nat
      /\ DOMAIN history' = 1 .. Len(history) + Len(s)
      /\ \A i \in 1 .. Len(history) : history'[i] = history[i]
      /\ \A i \in 1 .. Len(s) : history'[Len(history) + i] = s[i]
  BY DEF TypeOK
<1>2. IsFiniteSet(at) /\ Cardinality(at) \in Nat
  <2>1. IsFiniteSet(1 .. Len(history))
    BY <1>1, FS_Interval
  <2>2. at \subseteq 1 .. Len(history)
    BY <1>1
  <2> HIDE DEF at
  <2> QED
    BY <2>1, <2>2, FS_Subset, FS_CardinalityType
<1>3. CASE ~Has(s, e)
  <2>1. ASSUME NEW i \in DOMAIN history' PROVE i \in after <=> i \in at
    <3>1. CASE i <= Len(history)
      BY <1>1, <2>1, <3>1
    <3>2. CASE i > Len(history)
      <4>1. i - Len(history) \in 1 .. Len(s) /\ i = Len(history) + (i - Len(history))
        BY <1>1, <2>1, <3>2
      <4>2. history'[i] = s[i - Len(history)]
        BY <1>1, <4>1
      <4> QED
        BY <1>1, <1>3, <3>2, <4>1, <4>2 DEF Has
    <3> QED
      BY <1>1, <2>1, <3>1, <3>2
  <2>2. after = at
    BY <1>1, <2>1
  <2> HIDE DEF at, after
  <2> QED
    BY <1>2, <2>2 DEF Times, at, after
<1>4. CASE Has(s, e)
  <2>1. PICK k \in DOMAIN s : s[k] = e
    BY <1>4 DEF Has
  <2>2. ASSUME NEW i \in DOMAIN history'
        PROVE  i \in after <=> i \in at \/ i = Len(history) + k
    <3>1. CASE i <= Len(history)
      BY <1>1, <2>1, <2>2, <3>1
    <3>2. CASE i > Len(history)
      <4>1. i - Len(history) \in 1 .. Len(s) /\ i = Len(history) + (i - Len(history))
        BY <1>1, <2>2, <3>2
      <4>2. history'[i] = s[i - Len(history)]
        BY <1>1, <4>1
      <4>3. s[i - Len(history)] = e <=> i - Len(history) = k
        BY <1>1, <2>1, <4>1 DEF Once
      <4> QED
        BY <1>1, <2>1, <3>2, <4>1, <4>2, <4>3
    <3> QED
      BY <1>1, <2>2, <3>1, <3>2
  <2>3. Len(history) + k \in DOMAIN history' /\ Len(history) + k \notin at
    BY <1>1, <2>1
  <2>4. after = at \union {Len(history) + k}
    BY <1>1, <2>2, <2>3
  <2> HIDE DEF at, after
  <2>5. Cardinality(after) = Cardinality(at) + 1
    BY <1>2, <2>3, <2>4, FS_AddElement
  <2> QED
    BY <1>2, <1>4, <2>5 DEF Times, at, after
<1> QED
  BY <1>3, <1>4

\* A step that was retried so often has a row that counts at least twice as many
\* attempts, one more once it was claimed, unless the counter is at its limit; and
\* the step was due, so those before it are completed.
RetriesFit(n) ==
  LET row == rows[Task(n)] IN
  /\ 2 * Retries(n) <= MaxAttempts[n]
  /\ Retries(n) > 0 /\ WorkflowType # "INDEPENDENT" =>
       \A m \in Steps : m < n => Completed(m)
  /\ row.state \in Live => row.max = MaxAttempts[n]
  /\ row.state = "CREATED" => 2 * Retries(n) <= row.attempt
  /\ row.state = "RUNNING" => 2 * Retries(n) + 1 <= row.attempt \/ row.attempt >= row.max

\* Nothing is retried yet when the execution starts.
LEMMA NoRetries ==
  ASSUME history = <<>>, NEW n
  PROVE  Retries(n) = 0
<1>1. {i \in DOMAIN history : history[i] = On("STEP_RETRYING", n)} = {}
  OBVIOUS
<1> QED
  BY <1>1, FS_EmptySet DEF Retries, Times

LEMMA LimitFacts ==
  \A n \in Steps : /\ MaxAttempts[n] \in Nat /\ MaxAttempts[n] > 0
                   /\ Task(n) \in Slots /\ Task(n)[1] = "task" /\ Task(n)[2] = n
<1> SUFFICES ASSUME NEW n \in Steps
             PROVE  /\ MaxAttempts[n] \in Nat /\ MaxAttempts[n] > 0
                    /\ Task(n) \in Slots /\ Task(n)[1] = "task" /\ Task(n)[2] = n
  OBVIOUS
<1>1. MaxAttempts[n] \in Nat \ {0}
  BY MaxAttemptsAssumption
<1>2. Task(n) \in Slots /\ Task(n)[1] = "task" /\ Task(n)[2] = n
  BY SlotFacts DEF Task, Kinds
<1> QED
  BY <1>1, <1>2

LEMMA RetriesInit == Init => \A n \in Steps : RetriesFit(n)
<1> SUFFICES ASSUME Init, NEW n \in Steps PROVE RetriesFit(n)
  OBVIOUS
<1>1. Retries(n) = 0 /\ rows[Task(n)] = NoRow
  BY NoRetries, LimitFacts DEF Init
<1> QED
  BY <1>1, LimitFacts DEF RetriesFit, NoRow, Live

\* What was completed stays completed.
LEMMA CompletedStay ==
  ASSUME TypeOK, Recorded, NEW n \in Steps, Completed(n)
  PROVE  Completed(n)'
<1>1. PICK s : s \in Seq(Event) /\ history' = history \o s
  BY DEF Recorded, Records
<1> QED
  BY <1>1, Tells

\* The step that is retried: its row had counted an attempt more than the last
\* retry gave it, and gets another.
LEMMA RetriesAgain ==
  ASSUME IInv, Story, TakenApart, ReadsFit, [Next]_vars, Recorded, NEW w \in Workers,
         RetryTask(w), NEW n \in Steps, n = Step(w), RetriesFit(n)
  PROVE  RetriesFit(n)'
<1> USE DEF IInv
<1>1. /\ holds[w].slot = Task(n) /\ TaskDue(n)
      /\ Own(w).attempt < Own(w).max /\ InFlight(w)
  BY OwnDue DEF RetryTask, Failing, InFlight, Story
<1>2. rows[Task(n)] = Own(w) /\ Own(w).state = "RUNNING" /\ Own(w) \in Row
  BY <1>1, InFlightFacts DEF Own, ReadsFit
<1>3. /\ rows'[Task(n)].attempt = Own(w).attempt + 1
      /\ rows'[Task(n)].max = Own(w).max /\ rows'[Task(n)].state = "CREATED"
  <2>1. rows'[Task(n)] = Created(Deleted(Own(w)), Own(w).attempt + 1, Own(w).max)
    BY <1>1, LimitFacts DEF RetryTask, Recreate, TypeOK
  <2>2. Deleted(Own(w)) \in Row
    BY <1>2, RowFacts
  <2> QED
    BY <2>1, <2>2, RowDetails
<1>4. Retries(n) \in Nat /\ Retries(n)' \in {Retries(n), Retries(n) + 1}
  <2>1. PICK s : s \in Seq(Event) /\ history' = history \o s /\ \A e : Once(s, e)
    BY DEF Recorded, Records, RecordsWork
  <2> QED
    BY <2>1, TimesGrow DEF Retries
<1>5. WorkflowType # "INDEPENDENT" => \A m \in Steps : m < n => Completed(m)'
  BY <1>1, CompletedStay DEF TaskDue
<1>6. Own(w).attempt \in Nat /\ Own(w).max \in Nat /\ MaxAttempts[n] \in Nat
  BY <1>1, <1>2, LimitFacts DEF Row
<1>7. Own(w).max = MaxAttempts[n] /\ 2 * Retries(n) + 1 <= Own(w).attempt
  BY <1>1, <1>2, <1>6 DEF RetriesFit, Live
<1>8. 2 * Retries(n)' <= Own(w).attempt + 1 /\ Own(w).attempt + 1 <= MaxAttempts[n]
  BY <1>1, <1>4, <1>6, <1>7
<1>9. /\ 2 * Retries(n)' <= MaxAttempts[n]
      /\ 2 * Retries(n)' <= rows'[Task(n)].attempt
      /\ rows'[Task(n)].max = MaxAttempts[n]
  BY <1>3, <1>4, <1>6, <1>7, <1>8
<1>10. /\ 2 * Retries(n)' <= MaxAttempts[n]
       /\ Retries(n)' > 0 /\ WorkflowType # "INDEPENDENT" =>
            \A m \in Steps : m < n => Completed(m)'
       /\ rows'[Task(n)].state \in Live => rows'[Task(n)].max = MaxAttempts[n]
       /\ rows'[Task(n)].state = "CREATED" => 2 * Retries(n)' <= rows'[Task(n)].attempt
       /\ rows'[Task(n)].state = "RUNNING" =>
            2 * Retries(n)' + 1 <= rows'[Task(n)].attempt
              \/ rows'[Task(n)].attempt >= rows'[Task(n)].max
  BY <1>3, <1>5, <1>9
<1> QED
  BY <1>10 DEF RetriesFit

\* Any other step counts no retry, and leaves the row with what it counts, hands
\* it out, or puts the first row of a step there.
LEMMA RetriesKept ==
  ASSUME IInv, Story, TakenApart, [Next]_vars, Recorded, NEW n \in Steps, RetriesFit(n),
         ~ \E w \in Workers : RetryTask(w) /\ Step(w) = n
  PROVE  RetriesFit(n)'
<1> USE DEF IInv
<1> DEFINE row == rows[Task(n)]
<1>1. row \in Row /\ row.attempt \in Nat /\ row.max \in Nat
  BY LimitFacts DEF TypeOK, Row
<1>2. Retries(n) \in Nat /\ Retries(n)' = Retries(n)
  <2>1. PICK s : s \in Seq(Event) /\ history' = history \o s /\ RecordsWork(s)
    BY DEF Recorded, Records
  <2>2. Once(s, On("STEP_RETRYING", n)) /\ ~Has(s, On("STEP_RETRYING", n))
    BY <2>1 DEF RecordsWork
  <2> QED
    BY <2>1, <2>2, TimesGrow DEF Retries
<1>3. /\ 2 * Retries(n)' <= MaxAttempts[n]
      /\ Retries(n)' > 0 /\ WorkflowType # "INDEPENDENT" =>
           \A m \in Steps : m < n => Completed(m)'
  BY <1>2, CompletedStay DEF RetriesFit
<1>4. RowMoves(Task(n))
  BY LimitFacts, RowsMove
<1>5. ASSUME Begins(Task(n), 0, MaxAttempts[n]), Retries(n) = 0
      PROVE  RetriesFit(n)'
  BY <1>2, <1>3, <1>5 DEF RetriesFit, Begins
<1>6. CASE Keeps(Task(n))
  BY <1>2, <1>3, <1>6 DEF RetriesFit, Keeps
<1>7. CASE Claims(Task(n))
  <2>1. /\ row.state \in Live /\ rows'[Task(n)].max = row.max
        /\ rows'[Task(n)].attempt = Bump(row) /\ rows'[Task(n)].state = "RUNNING"
    BY <1>1, <1>7, RowDetails DEF Claims, Eligible, Live
  <2>2. 2 * Retries(n) <= row.attempt \/ row.attempt >= row.max
    BY <1>1, <1>2, <2>1 DEF RetriesFit, Live
  <2>3. 2 * Retries(n) + 1 <= Bump(row) \/ Bump(row) >= row.max
    BY <1>1, <1>2, <2>2 DEF Bump
  <2>4. row.max = MaxAttempts[n]
    BY <2>1 DEF RetriesFit
  <2> QED
    BY <1>2, <1>3, <2>1, <2>3, <2>4 DEF RetriesFit
<1>8. CASE EndsLife(Task(n))
  BY <1>2, <1>3, <1>8 DEF RetriesFit, EndsLife, Live
<1>9. CASE BeginsAtStart(Task(n))
  <2>1. history = <<>>
    BY <1>9 DEF BeginsAtStart, StartWorkflow
  <2> QED
    BY <1>5, <1>9, <2>1, NoRetries, LimitFacts DEF BeginsAtStart
<1>10. ASSUME NEW w \in Workers, InFlight(w), BeginsAgain(w, Task(n))
       PROVE  FALSE
  <2>1. holds[w].slot[1] = "task" /\ Step(w) = n
    BY <1>10, LimitFacts DEF BeginsAgain, Step
  <2>2. RetryTask(w)
    BY <1>10, <2>1 DEF BeginsAgain, RetryCompensation, Failing
  <2> QED
    BY <2>1, <2>2
<1>11. ASSUME NEW w \in Workers, InFlight(w), BeginsNext(w, Task(n))
       PROVE  RetriesFit(n)'
  <2>1. AdvanceStep(w) /\ Task(n) = Task(Step(w) + 1) /\ Step(w) + 1 \in Steps
    BY <1>11, LimitFacts DEF BeginsNext
  <2>2. n = Step(w) + 1
    BY <2>1, LimitFacts
  <2>3. Step(w) \in Steps /\ ~Completed(Step(w)) /\ WorkflowType # "INDEPENDENT"
    BY <1>11, <2>1, OwnDue DEF AdvanceStep, Succeeding, TaskDue, Story
  <2>4. Step(w) < n
    <3>1. Step(w) \in Nat
      BY <2>3, StepFacts
    <3> QED
      BY <2>2, <3>1
  <2>5. Retries(n) = 0
    BY <1>2, <2>3, <2>4 DEF RetriesFit
  <2> QED
    BY <1>5, <1>11, <2>5, LimitFacts DEF BeginsNext
<1> QED
  BY <1>4, <1>6, <1>7, <1>8, <1>9, <1>10, <1>11 DEF RowMoves

-----------------------------------------------------------------------------
(* The theorems.                                                            *)

Progress ==
  /\ SweepsFit
  /\ TakenApart
  /\ HeldClaimed
  /\ ReadsFit
  /\ \A n \in Steps : RetriesFit(n)

LEMMA ProgressInit == Init => Progress
BY SweepsInit, ReadsInit, RetriesInit DEF Progress

\* Progress is inductive, given what is known of the rows and the history.
LEMMA ProgressNext == IInv /\ Story /\ OutcomeFits /\ Progress /\ [Next]_vars => Progress'
<1> SUFFICES ASSUME IInv, Story, OutcomeFits, Progress, [Next]_vars PROVE Progress'
  OBVIOUS
<1> USE DEF IInv, Progress
<1>1. SweepsFit' /\ TakenApart'
  BY SweepsStep, ApartStep
<1>2. HeldClaimed' /\ ReadsFit'
  BY HeldStep, ReadsStep
<1>3. Recorded
  BY NextSplit, EndsRecord, AsideRecords
<1>4. ASSUME NEW n \in Steps PROVE RetriesFit(n)'
  BY <1>3, RetriesAgain, RetriesKept
<1> QED
  BY <1>1, <1>2, <1>4

LEMMA ProgressAlways == Spec => [](IInv /\ Story /\ Progress)
<1>1. Init => Progress
  BY ProgressInit
<1>2. IInv /\ Story /\ OutcomeFits /\ Progress /\ [Next]_vars => Progress'
  BY ProgressNext
<1> QED
  BY <1>1, <1>2, StoryAlways, HistoryAlways, PTL DEF Spec

\* Nobody waits in a circle but a sweep that has the execution row and a
\* completion that needs it and has a row the sweep is waiting for.
THEOREM DeadlocksPaired == Spec => []OnlyPairsDeadlock
<1>1. IInv /\ Story /\ Progress => OnlyPairsDeadlock
  BY PairsOnly DEF IInv, Progress
<1> QED
  BY <1>1, ProgressAlways, PTL

\* What a completion has read before it waits is still true when it goes on.
THEOREM ReadsTrue == Spec => []ReadsStillTrue
<1>1. IInv /\ Story /\ Progress => ReadsStillTrue
  BY StillTrue DEF Progress
<1> QED
  BY <1>1, ProgressAlways, PTL

\* No step is retried more than half as often as its attempt limit says, however
\* often its task is handed out, lost and reported.
THEOREM RetriesEnd == Spec => []RetriesBounded
<1>1. IInv /\ Story /\ Progress => RetriesBounded
  BY DEF Progress, RetriesFit, RetriesBounded, Retries
<1> QED
  BY <1>1, ProgressAlways, PTL

=============================================================================
