-------------------------- MODULE TaskStream_proof --------------------------
(***************************************************************************)
(* Proofs about the task broker and the task streams, for any queues,      *)
(* streams, tasks and handlers.                                            *)
(***************************************************************************)
EXTENDS TaskStream, TLAPS

\* A stream has a row just while it claims or sends it.
HasFits ==
  \A s \in Streams :
    /\ stream[s].at \in {"locked", "sending"} => \E t \in Tasks : stream[s].has = {t}
    /\ stream[s].at \notin {"locked", "sending"} => stream[s].has = {}

\* The rows of a transaction are seen by nobody before its commit, belong to
\* no other transaction, and are of one queue; only an open one holds locks.
AddsFit ==
  \A h \in Handlers :
    /\ tx[h].stage = "open" => \A t \in tx[h].adds : row[t] = "none" \/ t \in tx[h].takes
    /\ \A g \in Handlers : \A t \in tx[h].adds : t \in tx[g].adds => g = h
    /\ \A t, u \in tx[h].adds : Queue(t) = Queue(u)
    /\ tx[h].stage # "open" => tx[h].takes = {}

\* The inductive invariant.
IInv == TypeOK /\ HasFits /\ AddsFit /\ ListedWhileStreaming /\ NoRaceWindow /\ NotLeftToTimer

\* The inductive invariant holds initially.
LEMMA IInvInit == Init => IInv
BY DEF Init, IInv, TypeOK, HasFits, AddsFit, ListedWhileStreaming, NoRaceWindow,
       NotLeftToTimer, Off, NoTx, Idle, Locked

-----------------------------------------------------------------------------
\* A notification keeps the channels channels.
LEMMA NotifiedType ==
  ASSUME NEW q \in Queues, TypeOK
  PROVE  Notified(q) \in [Streams -> 0..1]
BY DEF Notified, TypeOK

\* A stream that is subscribed to a queue has a token after a notification.
LEMMA NotifiedFull ==
  ASSUME NEW q \in Queues, TypeOK, NEW s \in Streams
  PROVE  /\ s \in queues[q] => Notified(q)[s] = 1
         /\ s \notin queues[q] => Notified(q)[s] = ch[s]
BY DEF Notified, TypeOK

\* A task and a stream have a queue.
LEMMA QueueType == \A x \in Streams \union Tasks : Queue(x) \in Queues
BY LineAssumption DEF Queue, Lines

\* The actions that begin a transaction.
Begins(h) == StartWorkflow(h) \/ ScheduleNext(h) \/ StartCompensation(h) \/ Sweep(h)

\* A transaction begins with rows to add that are of one queue.
LEMMA BeginFacts ==
  ASSUME NEW h \in Handlers, Begins(h)
  PROVE  \E notify \in {"never", "committed", "retry", "inside"},
            adds, takes \in SUBSET Tasks :
           Begin(h, notify, adds, takes) /\ \A t, u \in adds : Queue(t) = Queue(u)
<1>1. CASE StartWorkflow(h)
  <2>1. PICK adds \in SUBSET Tasks :
          /\ \E q \in Queues : \A t \in adds : LineOf[t] = <<q, "task">>
          /\ Begin(h, "committed", adds, {})
    BY <1>1 DEF StartWorkflow
  <2>2. \A t, u \in adds : Queue(t) = Queue(u)
    BY <2>1 DEF Queue
  <2> QED  BY <2>1, <2>2
<1>2. CASE ScheduleNext(h)
  <2>1. PICK old, new \in Tasks :
          Begin(h, "committed", {new}, {old}) \/ Begin(h, "retry", {new}, {old})
    BY <1>2 DEF ScheduleNext
  <2> {new} \in SUBSET Tasks /\ {old} \in SUBSET Tasks
    OBVIOUS
  <2>2. \A t, u \in {new} : Queue(t) = Queue(u)
    OBVIOUS
  <2> QED  BY <2>1, <2>2
<1>3. CASE StartCompensation(h)
  <2>1. PICK old, new \in Tasks : Begin(h, "inside", {new}, {old})
    BY <1>3 DEF StartCompensation
  <2> {new} \in SUBSET Tasks /\ {old} \in SUBSET Tasks
    OBVIOUS
  <2>2. \A t, u \in {new} : Queue(t) = Queue(u)
    OBVIOUS
  <2> QED  BY <2>1, <2>2
<1>4. CASE Sweep(h)
  <2> {} \in SUBSET Tasks
    OBVIOUS
  <2>1. Begin(h, "never", {}, {})
    BY <1>4 DEF Sweep
  <2> QED  BY <2>1
<1> QED  BY <1>1, <1>2, <1>3, <1>4 DEF Begins

\* A long call, and its end.
LongStep(h) == LongCall(h) \/ LongCallEnds(h)

\* A long call holds and adds nothing, and changes no handler but its own.
LEMMA LongFacts ==
  ASSUME TypeOK, NEW h \in Handlers, LongStep(h)
  PROVE  /\ UNCHANGED <<row, unannounced, stream, ch, queues, server>>
         /\ \A g \in Handlers : /\ g # h => tx'[g] = tx[g]
                                /\ tx'[g].adds = tx[g].adds
                                /\ tx'[g].takes = tx[g].takes
                                /\ tx'[g].notify = tx[g].notify
         /\ tx[h].stage \in {"idle", "long"} /\ tx'[h].stage \in {"idle", "long"}
         /\ tx' \in [Handlers -> [stage : {"idle", "open", "owing", "long"},
                                  notify : {"never", "committed", "retry", "inside"},
                                  adds : SUBSET Tasks, takes : SUBSET Tasks]]
<1>1. PICK to \in {"idle", "long"} : tx' = [tx EXCEPT ![h].stage = to]
  BY DEF LongStep, LongCall, LongCallEnds
<1>2. /\ UNCHANGED <<row, unannounced, stream, ch, queues, server>>
      /\ tx[h].stage \in {"idle", "long"}
  BY DEF LongStep, LongCall, LongCallEnds
<1> QED  BY <1>1, <1>2 DEF TypeOK

\* Every step keeps the variables typed.
LEMMA TypeStep == TypeOK /\ [Next]_vars => TypeOK'
<1> SUFFICES ASSUME TypeOK, [Next]_vars PROVE TypeOK'
  OBVIOUS
<1> USE QueueType DEF TypeOK, Moves, Off, NoTx
<1>1. ASSUME NEW s \in Streams, Connect(s) PROVE TypeOK'
  BY <1>1 DEF Connect, Subscribe
<1>2. ASSUME NEW s \in Streams, Loop(s) PROVE TypeOK'
  <2>1. ASSUME NEW t \in Tasks, LockPending(s, t) PROVE TypeOK'
    BY <2>1 DEF LockPending
  <2>2. ASSUME NEW t \in Tasks, ClaimCommit(s, t) PROVE TypeOK'
    BY <2>2 DEF ClaimCommit, Running
  <2>3. CASE NothingPending(s)
    BY <2>3 DEF NothingPending
  <2>4. CASE Send(s)
    BY <2>4 DEF Send
  <2>5. CASE Wake(s)
    BY <2>5, 0 \in 0..1 DEF Wake
  <2>6. CASE Timer(s)
    BY <2>6 DEF Timer
  <2>7. CASE ContextDone(s)
    BY <2>7 DEF ContextDone
  <2>8. CASE Leave(s)
    BY <2>8 DEF Leave, Unsubscribe
  <2> QED  BY <1>2, <2>1, <2>2, <2>3, <2>4, <2>5, <2>6, <2>7, <2>8 DEF Loop
<1>3. ASSUME NEW s \in Streams, PollFails(s) PROVE TypeOK'
  BY <1>3 DEF PollFails, Running
<1>4. ASSUME NEW h \in Handlers, Begins(h) PROVE TypeOK'
  <2>1. PICK notify \in {"never", "committed", "retry", "inside"}, adds, takes \in SUBSET Tasks :
          Begin(h, notify, adds, takes)
    BY <1>4, BeginFacts
  <2> QED  BY <2>1 DEF Begin
<1>5. ASSUME NEW h \in Handlers, RunInTx(h) PROVE TypeOK'
  <2>1. CASE Begins(h)
    BY <2>1, <1>4
  <2>5. CASE NotifyInside(h)
    <3>1. ch' \in [Streams -> 0..1]
      BY <2>5, NotifiedType DEF NotifyInside
    <3>2. tx' = [tx EXCEPT ![h].notify = "never"]
      BY <2>5 DEF NotifyInside
    <3> QED  BY <2>5, <3>1, <3>2 DEF NotifyInside
  <2>6. ASSUME NEW t \in Tasks, SweepTakesRow(h, t) PROVE TypeOK'
    BY <2>6 DEF SweepTakesRow
  <2>7. CASE Commit(h)
    BY <2>7 DEF Commit, Commits, Owing
  <2>8. CASE Notify(h)
    BY <2>8, NotifiedType DEF Notify
  <2> QED  BY <1>5, <2>1, <2>5, <2>6, <2>7, <2>8 DEF RunInTx, Begins
<1>6. ASSUME NEW h \in Handlers, CommitUnanswered(h) PROVE TypeOK'
  BY <1>6 DEF CommitUnanswered, Commits
<1>7. ASSUME NEW h \in Handlers, Rollback(h) PROVE TypeOK'
  BY <1>7 DEF Rollback
<1>8. ASSUME NEW t \in Tasks, Clock(t) PROVE TypeOK'
  <2>1. CASE RetryDue(t)
    BY <2>1 DEF RetryDue
  <2>2. CASE LeaseLapses(t)
    BY <2>2 DEF LeaseLapses
  <2>3. CASE Heartbeat(t)
    BY <2>3 DEF Heartbeat
  <2> QED  BY <1>8, <2>1, <2>2, <2>3 DEF Clock
<1>9. CASE Crash \/ GracefulStop \/ Stopped \/ Restart
  BY <1>9 DEF Crash, GracefulStop, Stopped, Restart, Reset
<1>10. ASSUME NEW h \in Handlers, LongStep(h) PROVE TypeOK'
  BY <1>10, LongFacts
<1>11. CASE UNCHANGED vars
  BY <1>11 DEF vars
<1> QED  BY <1>1, <1>2, <1>3, <1>5, <1>6, <1>7, <1>8, <1>9, <1>10, <1>11
         DEF Next, StreamTasks, Handle, LongStep
-----------------------------------------------------------------------------
\* Handlers leave the loops and the list of channels alone.
LEMMA HandleKeeps ==
  ASSUME NEW h \in Handlers, Handle(h)
  PROVE  UNCHANGED <<stream, queues, server>>
<1> USE DEF Begin, StartWorkflow, ScheduleNext, StartCompensation, Sweep, NotifyInside,
            SweepTakesRow, Commit, Commits, Notify, CommitUnanswered, Rollback,
            LongCall, LongCallEnds
<1>1. CASE Begins(h)
  BY <1>1, BeginFacts
<1>2. CASE RunInTx(h) /\ ~Begins(h)
  BY <1>2 DEF RunInTx, Begins
<1> QED  BY <1>1, <1>2 DEF Handle, RunInTx, Begins

\* Streams leave the transactions alone.
LEMMA StreamKeeps ==
  ASSUME NEW s \in Streams, StreamTasks(s)
  PROVE  UNCHANGED <<tx, server>>
BY DEF StreamTasks, Loop, Connect, PollFails, LockPending, ClaimCommit, NothingPending, Send,
       Wake, Timer, ContextDone, Leave

\* The clock changes rows only.
LEMMA ClockKeeps ==
  ASSUME NEW t \in Tasks, Clock(t)
  PROVE  UNCHANGED <<stream, ch, queues, tx, server>>
BY DEF Clock, RetryDue, LeaseLapses, Heartbeat

\* After a commit the handler holds no lock and adds nothing.
LEMMA CommitTx ==
  ASSUME TypeOK, NEW h \in Handlers, Commit(h) \/ CommitUnanswered(h)
  PROVE  /\ \A g \in Handlers : /\ g # h => tx'[g] = tx[g]
                              /\ tx'[g].adds \subseteq tx[g].adds
                              /\ tx'[g].takes \subseteq tx[g].takes
         /\ tx'[h].stage # "open" /\ tx'[h].takes = {}
<1> USE DEF TypeOK
<1>1. CASE tx' = [tx EXCEPT ![h] = NoTx]
  BY <1>1 DEF NoTx
<1>2. CASE tx' = [tx EXCEPT ![h] = [tx[h] EXCEPT !.stage = "owing", !.takes = {}]]
  <2>1. tx[h] \in [stage : {"idle", "open", "owing", "long"},
                   notify : {"never", "committed", "retry", "inside"},
                   adds : SUBSET Tasks, takes : SUBSET Tasks]
    OBVIOUS
  <2>2. tx'[h] = [tx[h] EXCEPT !.stage = "owing", !.takes = {}]
    BY <1>2
  <2>3. tx'[h].adds = tx[h].adds /\ tx'[h].stage = "owing" /\ tx'[h].takes = {}
    BY <2>1, <2>2
  <2> QED  BY <1>2, <2>3
<1> QED  BY <1>1, <1>2 DEF Commit, CommitUnanswered

Process == Crash \/ GracefulStop \/ Stopped \/ Restart

\* What is left when the process stops or starts.
LEMMA ProcessKeeps ==
  ASSUME Process
  PROVE  \/ Reset
         \/ UNCHANGED <<row, unannounced, stream, ch, queues, tx>>
BY DEF Process, Crash, GracefulStop, Stopped, Restart

\* A stream has a row just while it claims or sends it.
LEMMA HasStep == TypeOK /\ HasFits /\ [Next]_vars => HasFits'
<1> SUFFICES ASSUME TypeOK, HasFits, [Next]_vars PROVE HasFits'
  OBVIOUS
<1> USE DEF TypeOK, HasFits, Moves
<1>1. ASSUME NEW s \in Streams, StreamTasks(s) PROVE HasFits'
  <2>1. CASE Connect(s)
    BY <2>1 DEF Connect
  <2>2. ASSUME NEW t \in Tasks, LockPending(s, t) PROVE HasFits'
    BY <2>2 DEF LockPending
  <2>3. ASSUME NEW t \in Tasks, ClaimCommit(s, t) PROVE HasFits'
    BY <2>3 DEF ClaimCommit
  <2>4. CASE NothingPending(s)
    BY <2>4 DEF NothingPending
  <2>5. CASE Send(s)
    BY <2>5 DEF Send
  <2>6. CASE Wake(s)
    BY <2>6 DEF Wake
  <2>7. CASE Timer(s)
    BY <2>7 DEF Timer
  <2>8. CASE ContextDone(s)
    BY <2>8 DEF ContextDone
  <2>9. CASE Leave(s)
    BY <2>9 DEF Leave
  <2>10. CASE PollFails(s)
    BY <2>10 DEF PollFails
  <2> QED  BY <1>1, <2>1, <2>2, <2>3, <2>4, <2>5, <2>6, <2>7, <2>8, <2>9, <2>10
           DEF StreamTasks, Loop
<1>2. ASSUME NEW h \in Handlers, Handle(h) PROVE HasFits'
  BY <1>2, HandleKeeps
<1>3. ASSUME NEW t \in Tasks, Clock(t) PROVE HasFits'
  BY <1>3, ClockKeeps
<1>4. CASE Process
  BY <1>4, ProcessKeeps DEF Reset, Off
<1>5. CASE UNCHANGED vars
  BY <1>5 DEF vars
<1> QED  BY <1>1, <1>2, <1>3, <1>4, <1>5 DEF Next, Process

\* The list of channels follows the loops.
LEMMA ListedStep == TypeOK /\ ListedWhileStreaming /\ [Next]_vars => ListedWhileStreaming'
<1> SUFFICES ASSUME TypeOK, ListedWhileStreaming, [Next]_vars PROVE ListedWhileStreaming'
  OBVIOUS
<1> USE QueueType DEF TypeOK, ListedWhileStreaming, Moves
<1>1. ASSUME NEW s \in Streams, StreamTasks(s) PROVE ListedWhileStreaming'
  <2>1. CASE Connect(s)
    BY <2>1 DEF Connect, Subscribe
  <2>2. CASE Leave(s)
    BY <2>2 DEF Leave, Unsubscribe
  <2>3. CASE PollFails(s)
    BY <2>3 DEF PollFails
  <2>4. CASE Loop(s) /\ ~Leave(s)
    <3>1. /\ UNCHANGED queues
          /\ \A r \in Streams : stream'[r].at # "off" <=> stream[r].at # "off"
      <4>1. ASSUME NEW t \in Tasks, LockPending(s, t) PROVE <3>1!:
        BY <4>1 DEF LockPending
      <4>2. ASSUME NEW t \in Tasks, ClaimCommit(s, t) PROVE <3>1!:
        BY <4>2 DEF ClaimCommit
      <4>3. CASE NothingPending(s)
        BY <4>3 DEF NothingPending
      <4>4. CASE Send(s)
        BY <4>4 DEF Send
      <4>5. CASE Wake(s)
        BY <4>5 DEF Wake
      <4>6. CASE Timer(s)
        BY <4>6 DEF Timer
      <4>7. CASE ContextDone(s)
        BY <4>7 DEF ContextDone
      <4> QED  BY <2>4, <4>1, <4>2, <4>3, <4>4, <4>5, <4>6, <4>7 DEF Loop
    <3> QED  BY <3>1
  <2> QED  BY <1>1, <2>1, <2>2, <2>3, <2>4 DEF StreamTasks
<1>2. ASSUME NEW h \in Handlers, Handle(h) PROVE ListedWhileStreaming'
  BY <1>2, HandleKeeps
<1>3. ASSUME NEW t \in Tasks, Clock(t) PROVE ListedWhileStreaming'
  BY <1>3, ClockKeeps
<1>4. CASE Process
  BY <1>4, ProcessKeeps DEF Reset, Off
<1>5. CASE UNCHANGED vars
  BY <1>5 DEF vars
<1> QED  BY <1>1, <1>2, <1>3, <1>4, <1>5 DEF Next, Process

\* Rows that are added stay unseen and apart until they are committed.
LEMMA AddsStep == TypeOK /\ HasFits /\ NoRaceWindow /\ AddsFit /\ [Next]_vars => AddsFit'
<1> SUFFICES ASSUME TypeOK, HasFits, NoRaceWindow, AddsFit, [Next]_vars PROVE AddsFit'
  OBVIOUS
<1> USE DEF TypeOK, AddsFit
<1>1. ASSUME NEW s \in Streams, StreamTasks(s) PROVE AddsFit'
  <2>1. \A t \in Tasks : row[t] = "none" => row'[t] = "none"
    <3>1. ASSUME NEW t \in Tasks, ClaimCommit(s, t) PROVE <2>1
      BY <3>1 DEF ClaimCommit, Running, Moves, NoRaceWindow, Eligible
    <3>2. CASE PollFails(s)
      BY <3>2 DEF PollFails, Running, HasFits, NoRaceWindow, Eligible
    <3>3. CASE UNCHANGED row
      BY <3>3
    <3> QED  BY <1>1, <3>1, <3>2, <3>3 DEF StreamTasks, Loop, Connect, LockPending,
                 NothingPending, Send, Wake, Timer, ContextDone, Leave
  <2> QED  BY <1>1, <2>1, StreamKeeps
<1>2. ASSUME NEW h \in Handlers, Begins(h) PROVE AddsFit'
  <2>1. PICK notify \in {"never", "committed", "retry", "inside"}, adds, takes \in SUBSET Tasks :
          Begin(h, notify, adds, takes) /\ \A t, u \in adds : Queue(t) = Queue(u)
    BY <1>2, BeginFacts
  <2>2. /\ UNCHANGED row
        /\ tx' = [tx EXCEPT ![h] = [stage |-> "open", notify |-> notify,
                                    adds |-> adds, takes |-> takes]]
        /\ \A t \in adds : /\ row[t] = "none" \/ t \in takes
                           /\ \A g \in Handlers : t \notin tx[g].adds
    BY <2>1 DEF Begin, Unused
  <2> QED  BY <2>1, <2>2
<1>3. ASSUME NEW h \in Handlers, Commit(h) \/ CommitUnanswered(h) PROVE AddsFit'
  <2>1. \A t \in Tasks : row[t] = "none" /\ t \notin tx[h].adds => row'[t] = "none"
    BY <1>3 DEF Commit, CommitUnanswered, Commits
  <2>2. \A g \in Handlers : /\ g # h => tx'[g] = tx[g]
                            /\ tx'[g].adds \subseteq tx[g].adds
                            /\ tx'[h].stage # "open" /\ tx'[h].takes = {}
    BY <1>3, CommitTx
  <2>3. ASSUME NEW g \in Handlers, tx'[g].stage = "open", NEW t \in tx'[g].adds
        PROVE  row'[t] = "none" \/ t \in tx'[g].takes
    <3>1. g # h /\ tx'[g] = tx[g]
      BY <2>2, <2>3
    <3>2. t \in Tasks /\ (row[t] = "none" \/ t \in tx[g].takes) /\ t \notin tx[h].adds
      BY <2>3, <3>1
    <3> QED  BY <2>1, <3>1, <3>2
  <2>4. \A g, f \in Handlers : \A t \in tx'[g].adds : t \in tx'[f].adds => f = g
    BY <2>2
  <2>5. \A g \in Handlers : \A t, u \in tx'[g].adds : Queue(t) = Queue(u)
    BY <2>2
  <2>6. \A g \in Handlers : tx'[g].stage # "open" => tx'[g].takes = {}
    BY <2>2
  <2> QED  BY <2>3, <2>4, <2>5, <2>6
<1>4. ASSUME NEW h \in Handlers, Handle(h), ~Begins(h) PROVE AddsFit'
  <2>1. CASE NotifyInside(h)
    BY <2>1 DEF NotifyInside
  <2>2. ASSUME NEW t \in Tasks, SweepTakesRow(h, t) PROVE AddsFit'
    BY <2>2 DEF SweepTakesRow
  <2>3. CASE Commit(h)
    BY <2>3, <1>3
  <2>4. CASE CommitUnanswered(h)
    BY <2>4, <1>3
  <2>5. CASE Rollback(h)
    BY <2>5 DEF Rollback, NoTx
  <2>6. CASE Notify(h)
    BY <2>6 DEF Notify, NoTx
  <2>7. CASE LongStep(h)
    <3>1. \A g \in Handlers : /\ tx'[g].adds = tx[g].adds /\ tx'[g].takes = tx[g].takes
                              /\ tx'[g].stage = "open" <=> tx[g].stage = "open"
      BY <2>7, LongFacts
    <3> QED  BY <2>7, <3>1, LongFacts
  <2> QED  BY <1>4, <2>1, <2>2, <2>3, <2>4, <2>5, <2>6, <2>7
           DEF Handle, RunInTx, Begins, LongStep
<1>5. ASSUME NEW t \in Tasks, Clock(t) PROVE AddsFit'
  <2>1. \A u \in Tasks : row[u] = "none" => row'[u] = "none"
    BY <1>5 DEF Clock, RetryDue, LeaseLapses, Heartbeat
  <2> QED  BY <1>5, <2>1, ClockKeeps
<1>6. CASE Process
  BY <1>6, ProcessKeeps DEF Reset, NoTx
<1>7. CASE UNCHANGED vars
  BY <1>7 DEF vars
<1> QED  BY <1>1, <1>2, <1>4, <1>5, <1>6, <1>7 DEF Next, Process

-----------------------------------------------------------------------------
\* A row that is being claimed stays as it is and stays out of other hands.
LEMMA RaceStep ==
  TypeOK /\ HasFits /\ AddsFit /\ NoRaceWindow /\ [Next]_vars => NoRaceWindow'
<1> SUFFICES ASSUME TypeOK, HasFits, AddsFit, NoRaceWindow, [Next]_vars PROVE NoRaceWindow'
  OBVIOUS
<1> USE DEF TypeOK, NoRaceWindow, Eligible, Moves
<1>1. ASSUME NEW s \in Streams, StreamTasks(s) PROVE NoRaceWindow'
  <2>0. UNCHANGED tx
    BY <1>1, StreamKeeps
  <2>1. ASSUME NEW t \in Tasks, LockPending(s, t) PROVE NoRaceWindow'
    BY <2>1, <2>0 DEF LockPending, Locked
  <2>2. ASSUME NEW t \in Tasks, ClaimCommit(s, t) PROVE NoRaceWindow'
    BY <2>2, <2>0 DEF ClaimCommit, Running
  <2>3. CASE PollFails(s)
    <3>1. \A r \in Streams \ {s} : stream'[r] = stream[r]
      BY <2>3 DEF PollFails
    <3>2. stream'[s].at = "leaving"
      BY <2>3 DEF PollFails
    <3>3. \A u \in Tasks : u \notin stream[s].has => row'[u] = row[u]
      BY <2>3 DEF PollFails, Running
    <3>4. stream[s].at # "locked" => stream[s].has = {}
      BY <2>3 DEF PollFails, HasFits
    <3>5. ASSUME NEW r \in Streams, stream'[r].at = "locked", NEW t \in stream'[r].has
          PROVE  /\ r # s /\ stream'[r] = stream[r] /\ t \notin stream[s].has
                 /\ row'[t] = row[t]
      <4>1. r # s /\ stream'[r] = stream[r]
        BY <3>1, <3>2, <3>5
      <4>2. t \in Tasks /\ t \notin stream[s].has
        BY <3>4, <3>5, <4>1
      <4> QED  BY <3>3, <4>1, <4>2
    <3> QED  BY <2>0, <3>1, <3>2, <3>5
  <2>4. CASE UNCHANGED row /\ \A r \in Streams : stream'[r].at = "locked" => stream'[r] = stream[r]
    BY <2>0, <2>4
  <2>5. Connect(s) \/ NothingPending(s) \/ Send(s) \/ Wake(s) \/ Timer(s) \/ ContextDone(s)
          \/ Leave(s) => UNCHANGED row /\ \A r \in Streams : stream'[r].at = "locked" =>
                                          stream'[r] = stream[r]
    BY DEF Connect, NothingPending, Send, Wake, Timer, ContextDone, Leave
  <2> QED  BY <1>1, <2>1, <2>2, <2>3, <2>4, <2>5 DEF StreamTasks, Loop
<1>2. ASSUME NEW h \in Handlers, Begins(h) PROVE NoRaceWindow'
  <2>1. PICK notify \in {"never", "committed", "retry", "inside"}, adds, takes \in SUBSET Tasks :
          Begin(h, notify, adds, takes)
    BY <1>2, BeginFacts
  <2> QED  BY <2>1 DEF Begin, Locked
<1>3. ASSUME NEW h \in Handlers, Handle(h), ~Begins(h) PROVE NoRaceWindow'
  <2>0. UNCHANGED stream
    BY <1>3, HandleKeeps
  <2>1. CASE NotifyInside(h)
    BY <2>1 DEF NotifyInside
  <2>2. ASSUME NEW t \in Tasks, SweepTakesRow(h, t) PROVE NoRaceWindow'
    BY <2>2 DEF SweepTakesRow, Locked
  <2>3. CASE Commits(h) /\ (Commit(h) \/ CommitUnanswered(h))
    <3>1. \A g \in Handlers : tx'[g].takes \subseteq tx[g].takes
      BY <2>3, CommitTx
    <3>2. \A t \in Tasks : row[t] # "none" /\ t \notin tx[h].takes => row'[t] = row[t]
      BY <2>3 DEF Commits, AddsFit
    <3> QED  BY <2>0, <3>1, <3>2
  <2>4. CASE Rollback(h)
    BY <2>4 DEF Rollback, NoTx
  <2>5. CASE Notify(h)
    BY <2>5 DEF Notify, NoTx
  <2>6. CASE LongStep(h)
    BY <2>6, LongFacts
  <2> QED  BY <1>3, <2>1, <2>2, <2>3, <2>4, <2>5, <2>6
           DEF Handle, RunInTx, Begins, LongStep, Commit, CommitUnanswered
<1>4. ASSUME NEW t \in Tasks, Clock(t) PROVE NoRaceWindow'
  <2>1. \A u \in Tasks : Eligible(u) /\ Locked(u) => row'[u] = row[u]
    BY <1>4 DEF Clock, RetryDue, LeaseLapses, Heartbeat
  <2>2. \A s \in Streams : stream[s].at = "locked" =>
          \A u \in stream[s].has : u \in Tasks /\ Locked(u)
    BY DEF Locked
  <2> QED  BY <1>4, <2>1, <2>2, ClockKeeps
<1>5. CASE Process
  BY <1>5, ProcessKeeps DEF Reset, Off
<1>6. CASE UNCHANGED vars
  BY <1>6 DEF vars
<1> QED  BY <1>1, <1>2, <1>3, <1>4, <1>5, <1>6 DEF Next, Process

-----------------------------------------------------------------------------
\* A due row that an idle stream could take and that nobody has.
Waits(s, t) == Idle(s) /\ LineOf[t] = LineOf[s] /\ row[t] = "due" /\ ~Locked(t)

\* It is one that only the timer finds, or is about to be announced.
Excused(t) ==
  \/ t \in unannounced
  \/ \E h \in Handlers : tx[h].stage = "owing" /\ t \in tx[h].adds

\* No step leaves a stream idle beside due work that it could take.
LEMMA TimerStep == IInv /\ [Next]_vars => NotLeftToTimer'
<1> SUFFICES ASSUME IInv, [Next]_vars,
                    NEW s \in Streams, NEW t \in Tasks, Waits(s, t)'
             PROVE  Excused(t)'
  BY DEF NotLeftToTimer, Waits, Excused
<1> USE DEF TypeOK, IInv
<1>0. Waits(s, t) => Excused(t)
  BY DEF NotLeftToTimer, Waits, Excused
<1>1. ASSUME NEW r \in Streams, StreamTasks(r) PROVE Excused(t)'
  <2>0. UNCHANGED tx
    BY <1>1, StreamKeeps
  <2> USE DEF Waits, Excused, Idle, Locked, Moves
  <2>1. CASE Connect(r)
    BY <2>0, <2>1, <1>0 DEF Connect, Subscribe
  <2>2. ASSUME NEW u \in Tasks, LockPending(r, u) PROVE Excused(t)'
    BY <2>0, <2>2, <1>0 DEF LockPending, HasFits
  <2>3. ASSUME NEW u \in Tasks, ClaimCommit(r, u) PROVE Excused(t)'
    BY <2>0, <2>3, <1>0 DEF ClaimCommit, Running, HasFits
  <2>4. CASE NothingPending(r)
    BY <2>0, <2>4, <1>0 DEF NothingPending, Eligible
  <2>5. CASE Send(r)
    BY <2>0, <2>5, <1>0 DEF Send
  <2>6. CASE Wake(r)
    BY <2>0, <2>6, <1>0 DEF Wake
  <2>7. CASE Timer(r)
    BY <2>0, <2>7, <1>0 DEF Timer
  <2>8. CASE ContextDone(r)
    BY <2>0, <2>8, <1>0 DEF ContextDone
  <2>9. CASE Leave(r)
    BY <2>0, <2>9, <1>0 DEF Leave, Unsubscribe
  <2>10. CASE PollFails(r)
    BY <2>0, <2>10, <1>0 DEF PollFails, Running, HasFits
  <2> QED  BY <1>1, <2>1, <2>2, <2>3, <2>4, <2>5, <2>6, <2>7, <2>8, <2>9, <2>10
           DEF StreamTasks, Loop
<1>2. ASSUME NEW h \in Handlers, Begins(h) PROVE Excused(t)'
  <2>1. PICK notify \in {"never", "committed", "retry", "inside"}, adds, takes \in SUBSET Tasks :
          Begin(h, notify, adds, takes)
    BY <1>2, BeginFacts
  <2>2. \A g \in Handlers : /\ g # h => tx'[g] = tx[g]
                            /\ tx[h].stage = "idle" /\ tx'[h].takes = takes
    BY <2>1 DEF Begin
  <2>3. UNCHANGED <<row, unannounced, stream, ch>>
    BY <2>1 DEF Begin
  <2>4. t \notin tx[h].takes
    BY <2>2 DEF AddsFit
  <2>5. Waits(s, t)
    BY <2>2, <2>3, <2>4 DEF Waits, Idle, Locked
  <2> QED  BY <1>0, <2>2, <2>3, <2>5 DEF Excused
<1>3. ASSUME NEW h \in Handlers, NotifyInside(h) \/ Notify(h) PROVE Excused(t)'
  <2>1. PICK u \in tx[h].adds : ch' = Notified(Queue(u))
    BY <1>3 DEF NotifyInside, Notify
  <2>2. /\ UNCHANGED <<row, unannounced, stream, queues>>
        /\ \A g \in Handlers : g # h => tx'[g] = tx[g]
        /\ tx'[h].takes = tx[h].takes
    <3>1. CASE NotifyInside(h)
      BY <3>1 DEF NotifyInside
    <3>2. CASE Notify(h)
      BY <3>2 DEF Notify, NoTx, AddsFit
    <3> QED  BY <1>3, <3>1, <3>2
  <2>3. u \in Tasks /\ Queue(u) \in Queues
    BY QueueType
  <2>4. ch[s] = 0 /\ s \notin queues[Queue(u)]
    BY <2>1, <2>2, <2>3, NotifiedFull DEF Waits, Idle
  <2>5. Queue(s) = Queue(t) /\ Queue(t) # Queue(u)
    <3>1. stream[s].at # "off"
      BY <2>2 DEF Waits, Idle
    <3>2. Queue(u) # Queue(s)
      BY <2>3, <2>4, <3>1 DEF ListedWhileStreaming
    <3> QED  BY <3>2 DEF Waits, Queue
  <2>6. t \notin tx[h].adds
    BY <2>5 DEF AddsFit
  <2>7. Waits(s, t)
    BY <2>2, <2>4 DEF Waits, Idle, Locked
  <2> QED  BY <1>0, <2>2, <2>6, <2>7 DEF Excused
<1>4. ASSUME NEW h \in Handlers, NEW u \in Tasks, SweepTakesRow(h, u) PROVE Excused(t)'
  <2>1. /\ UNCHANGED <<row, unannounced, stream, ch>>
        /\ \A g \in Handlers : /\ tx[g].takes \subseteq tx'[g].takes
                               /\ tx'[g].stage = tx[g].stage /\ tx'[g].adds = tx[g].adds
    BY <1>4 DEF SweepTakesRow
  <2>2. Waits(s, t)
    BY <2>1 DEF Waits, Idle, Locked
  <2> QED  BY <1>0, <2>1, <2>2 DEF Excused
<1>5. ASSUME NEW h \in Handlers, Commits(h), Commit(h) \/ CommitUnanswered(h) PROVE Excused(t)'
  <2>1. /\ UNCHANGED <<stream, ch>>
        /\ \A g \in Handlers : g # h => tx'[g] = tx[g]
    BY <1>5 DEF Commits, Commit, CommitUnanswered
  <2>2. CASE t \in tx[h].adds
    <3>1. tx[h].notify # "retry" /\ tx[h].notify # "inside"
      BY <1>5, <2>2 DEF Commits, Waits
    <3>2. CASE CommitUnanswered(h) \/ tx[h].notify = "never"
      BY <1>5, <2>2, <3>1, <3>2 DEF Commit, CommitUnanswered, Excused
    <3>3. CASE Commit(h) /\ tx[h].notify = "committed"
      <4>1. tx'[h] = [tx[h] EXCEPT !.stage = "owing", !.takes = {}]
        BY <3>3 DEF Commit, Owing
      <4>2. tx[h] \in [stage : {"idle", "open", "owing", "long"},
                       notify : {"never", "committed", "retry", "inside"},
                       adds : SUBSET Tasks, takes : SUBSET Tasks]
        OBVIOUS
      <4>3. tx'[h].stage = "owing" /\ tx'[h].adds = tx[h].adds
        BY <4>1, <4>2
      <4> QED  BY <2>2, <4>3 DEF Excused
    <3> QED  BY <1>5, <3>1, <3>2, <3>3
  <2>3. CASE t \notin tx[h].adds
    <3>1. t \notin tx[h].takes /\ row[t] = "due"
      BY <1>5, <2>3 DEF Commits, Waits
    <3>2. Waits(s, t)
      BY <2>1, <3>1 DEF Waits, Idle, Locked
    <3>3. t \in unannounced => t \in unannounced'
      BY <1>5, <3>1 DEF Commit, CommitUnanswered
    <3>4. \A g \in Handlers : t \in tx[g].adds => tx'[g] = tx[g]
      BY <2>1, <2>3
    <3> QED  BY <1>0, <3>2, <3>3, <3>4 DEF Excused
  <2> QED  BY <2>2, <2>3
<1>6. ASSUME NEW h \in Handlers, Rollback(h) PROVE Excused(t)'
  <2>1. /\ UNCHANGED <<row, stream, ch>>
        /\ \A g \in Handlers : g # h => tx'[g] = tx[g]
        /\ tx[h].stage = "open"
        /\ unannounced' = unannounced \union {u \in tx[h].takes : row[u] = "due"}
    BY <1>6 DEF Rollback
  <2>2. CASE t \in tx[h].takes
    BY <2>1, <2>2 DEF Waits, Excused
  <2>3. CASE t \notin tx[h].takes
    <3>1. Waits(s, t)
      BY <2>1, <2>3 DEF Waits, Idle, Locked
    <3> QED  BY <1>0, <2>1, <3>1 DEF Excused
  <2> QED  BY <2>2, <2>3
<1>7. ASSUME NEW u \in Tasks, Clock(u) PROVE Excused(t)'
  <2>1. CASE RetryDue(u)
    BY <1>0, <2>1 DEF RetryDue, Waits, Idle, Locked, Excused
  <2>2. CASE LeaseLapses(u)
    BY <1>0, <2>2 DEF LeaseLapses, Waits, Idle, Locked, Excused
  <2>3. CASE Heartbeat(u)
    BY <1>0, <2>3 DEF Heartbeat, Waits, Idle, Locked, Excused
  <2> QED  BY <1>7, <2>1, <2>2, <2>3 DEF Clock
<1>8. CASE Process
  <2>1. CASE Reset
    BY <2>1 DEF Reset, Off, Waits, Idle
  <2>2. CASE UNCHANGED <<row, unannounced, stream, ch, queues, tx>>
    BY <1>0, <2>2 DEF Waits, Idle, Locked, Excused
  <2> QED  BY <1>8, <2>1, <2>2, ProcessKeeps
<1>9. ASSUME NEW h \in Handlers, LongStep(h) PROVE Excused(t)'
  <2>1. Waits(s, t)
    BY <1>9, LongFacts DEF Waits, Idle, Locked
  <2>2. \A g \in Handlers : tx[g].stage = "owing" => tx'[g] = tx[g]
    BY <1>9, LongFacts
  <2> QED  BY <1>0, <1>9, <2>1, <2>2, LongFacts DEF Excused
<1>10. CASE UNCHANGED vars
  BY <1>0, <1>10 DEF vars, Waits, Idle, Locked, Excused
<1> QED  BY <1>1, <1>2, <1>3, <1>4, <1>5, <1>6, <1>7, <1>8, <1>9, <1>10
         DEF Next, Process, Handle, RunInTx, Begins, LongStep, Commit, CommitUnanswered

-----------------------------------------------------------------------------
\* The inductive invariant holds in every reachable state.
LEMMA IInvAlways == Spec => []IInv
<1>1. IInv /\ [Next]_vars => IInv'
  BY TypeStep, HasStep, AddsStep, ListedStep, RaceStep, TimerStep DEF IInv
<1> QED  BY IInvInit, <1>1, PTL DEF Spec

\* Channels hold one token at most, and rows, streams and transactions stay
\* typed.
THEOREM TypeCorrect == Spec => []TypeOK
<1>1. IInv => TypeOK
  BY DEF IInv
<1> QED  BY IInvAlways, <1>1, PTL

\* The broker lists the channels of the streams that are open, and no others.
THEOREM ChannelsListed == Spec => []ListedWhileStreaming
<1>1. IInv => ListedWhileStreaming
  BY DEF IInv
<1> QED  BY IInvAlways, <1>1, PTL

\* Between the SELECT and the UPDATE of a claim nothing happens to the row.
THEOREM ClaimsExclusive == Spec => []NoRaceWindow
<1>1. IInv => NoRaceWindow
  BY DEF IInv
<1> QED  BY IInvAlways, <1>1, PTL

\* No wake-up is missed: a stream is never idle beside due work of its line
\* that was or will not be announced to it, but for what only the timer finds.
THEOREM WakeUpsSuffice == Spec => []NotLeftToTimer
<1>1. IInv => NotLeftToTimer
  BY DEF IInv
<1> QED  BY IInvAlways, <1>1, PTL
=============================================================================
