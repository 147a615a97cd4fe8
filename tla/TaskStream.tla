----------------------------- MODULE TaskStream -----------------------------
(***************************************************************************)
(* How a task gets from the table to a worker: the wake-up channels of     *)
(* TaskBroker (src/usecase/broker.go), the loops of StreamTasks and        *)
(* StreamCompensationTasks (src/interface/grpc/task_handler.go), the claim *)
(* of a row in FindAndLockPending, and the handlers that insert rows and   *)
(* notify the broker.                                                      *)
(*                                                                         *)
(* What the handlers decide is WorkflowExecution's business; here they     *)
(* lock rows, remove rows and add rows of any execution in transactions.   *)
(* A line is what a stream reads: one queue of one of the two tables.  The *)
(* broker knows queues only, so both kinds of stream share its channels.   *)
(***************************************************************************)
EXTENDS Naturals

CONSTANTS
  Queues,      \* task queues
  Streams,     \* open or possible calls of the two stream methods
  Tasks,       \* task ids; that of a removed row stands for another new one
  Handlers,    \* goroutines that run the other RPCs
  LineOf       \* the line of each stream and each task

Lines == Queues \X {"task", "compensation"}

ASSUME LineAssumption == LineOf \in [Streams \union Tasks -> Lines]

Queue(x) == LineOf[x][1]
Kind(x) == LineOf[x][2]

VARIABLES
  row,          \* the state of each row, "later" before its scheduled_at
  unannounced,  \* history: due rows that no Notify has followed or will
  stream,       \* where each stream is in its loop, and the row it has
  ch,           \* the tokens in the wake-up channel of each stream
  queues,       \* the streams subscribed to each queue
  tx,           \* the transaction, or long call, each handler is in
  server

vars == <<row, unannounced, stream, ch, queues, tx, server>>

Off == [at |-> "off", has |-> {}]

NoTx == [stage |-> "idle", notify |-> "never", adds |-> {}, takes |-> {}]

Init ==
  /\ row = [t \in Tasks |-> "none"]
  /\ unannounced = {}
  /\ stream = [s \in Streams |-> Off]
  /\ ch = [s \in Streams |-> 0]
  /\ queues = [q \in Queues |-> {}]
  /\ tx = [h \in Handlers |-> NoTx]
  /\ server = "up"

Eligible(t) == row[t] \in {"due", "lapsed"}

\* Fault injection: pollers are not kept off rows that others claim.
LockedByHandler(t) == \E h \in Handlers : t \in tx[h].takes

\* Held by a claim or by a handler: SKIP LOCKED passes over the row, other
\* statements wait for it.
Locked(t) ==
  \/ \E h \in Handlers : t \in tx[h].takes
  \/ \E s \in Streams : stream[s].at = "locked" /\ t \in stream[s].has

-----------------------------------------------------------------------------
\* The broker.

\* Fault injection: a channel with a token gets another.
NotifiedAgain(q) ==
  [s \in Streams |-> IF s \in queues[q] THEN ch[s] + 1 ELSE ch[s]]

\* Every channel with room gets a token; one that has a token keeps it.
Notified(q) ==
  [s \in Streams |-> IF s \in queues[q] /\ ch[s] = 0 THEN 1 ELSE ch[s]]

Subscribe(s) ==
  /\ ch' = [ch EXCEPT ![s] = 0]
  /\ queues' = [queues EXCEPT ![Queue(s)] = @ \union {s}]

\* Fault injection: the channel is closed but stays in the list.
UnsubscribeByClosing(s) ==
  /\ ch' = [ch EXCEPT ![s] = 0]
  /\ UNCHANGED queues

Unsubscribe(s) ==
  /\ ch' = [ch EXCEPT ![s] = 0]
  /\ queues' = [queues EXCEPT ![Queue(s)] = @ \ {s}]

-----------------------------------------------------------------------------
\* The loop of a stream.

Moves(s, from, to) ==
  /\ stream[s].at = from
  /\ stream' = [stream EXCEPT ![s].at = to]

\* A worker calls the stream method.
Connect(s) ==
  /\ server = "up"
  /\ Moves(s, "off", "poll")
  /\ Subscribe(s)
  /\ UNCHANGED <<row, unannounced, tx, server>>

\* FindAndLockPending selects a row and locks it.
LockPending(s, t) ==
  /\ stream[s].at = "poll"
  /\ LineOf[t] = LineOf[s] /\ Eligible(t) /\ ~Locked(t)
  /\ stream' = [stream EXCEPT ![s] = [at |-> "locked", has |-> {t}]]
  /\ UNCHANGED <<row, unannounced, ch, queues, tx, server>>

\* It finds none, and the stream goes into its inner select.
NothingPending(s) ==
  /\ \A t \in Tasks : LineOf[t] = LineOf[s] /\ Eligible(t) => Locked(t)
  /\ Moves(s, "poll", "blocked")
  /\ UNCHANGED <<row, unannounced, ch, queues, tx, server>>

Running(t) ==
  /\ row' = [row EXCEPT ![t] = "running"]
  /\ unannounced' = unannounced \ {t}

\* The claim is committed; the stream has yet to send the task.
ClaimCommit(s, t) ==
  /\ t \in stream[s].has
  /\ Moves(s, "locked", "sending")
  /\ Running(t)
  /\ UNCHANGED <<ch, queues, tx, server>>

\* The query or its transaction fails and the stream ends; an error from
\* Commit leaves open whether the row is claimed.
PollFails(s) ==
  /\ stream[s].at \in {"poll", "locked"}
  /\ stream' = [stream EXCEPT ![s] = [at |-> "leaving", has |-> {}]]
  /\ \/ /\ unannounced' = unannounced \union {t \in stream[s].has : row[t] = "due"}
        /\ UNCHANGED row
     \/ \E t \in stream[s].has : Running(t)
  /\ UNCHANGED <<ch, queues, tx, server>>

\* The task goes to the worker, or the stream breaks, before or after
\* GetWorkflowNameForExecution.
Send(s) ==
  /\ stream[s].at = "sending"
  /\ \E to \in {"poll", "leaving"} :
       stream' = [stream EXCEPT ![s] = [at |-> to, has |-> {}]]
  /\ UNCHANGED <<row, unannounced, ch, queues, tx, server>>

\* Woken up by a notification.
Wake(s) ==
  /\ ch[s] = 1
  /\ Moves(s, "blocked", "poll")
  /\ ch' = [ch EXCEPT ![s] = 0]
  /\ UNCHANGED <<row, unannounced, queues, tx, server>>

\* Fault injection: there is no timer.
NoTimer(s) ==
  /\ ch[s] = 1
  /\ Moves(s, "blocked", "poll")
  /\ UNCHANGED <<row, unannounced, ch, queues, tx, server>>

\* One second has passed.
Timer(s) ==
  /\ Moves(s, "blocked", "poll")
  /\ UNCHANGED <<row, unannounced, ch, queues, tx, server>>

\* The context of the stream is done.
ContextDone(s) ==
  /\ \E from \in {"poll", "blocked"} : Moves(s, from, "leaving")
  /\ UNCHANGED <<row, unannounced, ch, queues, tx, server>>

\* The deferred unsubscribe.
Leave(s) ==
  /\ Moves(s, "leaving", "off")
  /\ Unsubscribe(s)
  /\ UNCHANGED <<row, unannounced, tx, server>>

-----------------------------------------------------------------------------
\* The handlers that add and remove rows.

\* A new row takes an id that no row has, or that of the row it replaces.
Unused(t, takes) ==
  /\ row[t] = "none" \/ t \in takes
  /\ \A h \in Handlers : t \notin tx[h].adds

Claimed(t) == row[t] \in {"running", "lapsed"}

Begin(h, notify, adds, takes) ==
  /\ server = "up"
  /\ tx[h].stage = "idle"
  /\ \A t \in adds : Unused(t, takes)
  /\ \A t \in takes : ~Locked(t)
  /\ tx' = [tx EXCEPT ![h] = [stage |-> "open", notify |-> notify,
                              adds |-> adds, takes |-> takes]]
  /\ UNCHANGED <<row, unannounced, stream, ch, queues, server>>

\* StartWorkflow inserts the first task, or all of an INDEPENDENT execution.
StartWorkflow(h) ==
  \E adds \in SUBSET Tasks \ {{}} :
    /\ \E q \in Queues : \A t \in adds : LineOf[t] = <<q, "task">>
    /\ Begin(h, "committed", adds, {})

\* CompleteTask and CompleteCompensationTask replace a row by that of the next
\* step, or by a retry of its own.
ScheduleNext(h) ==
  \E old, new \in Tasks :
    /\ Claimed(old) /\ Kind(old) = Kind(new)
    /\ \/ Begin(h, "committed", {new}, {old})
       \/ LineOf[old] = LineOf[new] /\ Begin(h, "retry", {new}, {old})

\* A task of a saga has failed: its first compensation, and the Notify inside
\* the transaction.
StartCompensation(h) ==
  \E old, new \in Tasks :
    /\ Claimed(old) /\ Kind(old) = "task" /\ Kind(new) = "compensation"
    /\ Begin(h, "inside", {new}, {old})

NotifyInside(h) ==
  /\ tx[h].stage = "open" /\ tx[h].notify = "inside"
  /\ \E t \in tx[h].adds : ch' = Notified(Queue(t))
  /\ tx' = [tx EXCEPT ![h].notify = "never"]
  /\ UNCHANGED <<row, unannounced, stream, queues, server>>

\* Completions that close the execution, and CancelByExecution, which takes
\* the rows of the execution one by one.
Sweep(h) == Begin(h, "never", {}, {})

SweepTakesRow(h, t) ==
  /\ tx[h].stage = "open" /\ tx[h].adds = {}
  /\ row[t] # "none" /\ ~Locked(t)
  /\ tx' = [tx EXCEPT ![h].takes = @ \union {t}]
  /\ UNCHANGED <<row, unannounced, stream, ch, queues, server>>

\* The rows the handler took are gone, those it added can be seen.
Commits(h) ==
  /\ tx[h].stage = "open" /\ tx[h].notify # "inside"
  /\ row' = [t \in Tasks |->
               IF t \in tx[h].adds THEN IF tx[h].notify = "retry" THEN "later" ELSE "due"
               ELSE IF t \in tx[h].takes THEN "none" ELSE row[t]]
  /\ UNCHANGED <<stream, ch, queues, server>>

Owing(h) == tx[h].notify \in {"committed", "retry"}

\* Fault injection: what there is to notify is forgotten.
CommitForgetful(h) ==
  /\ Commits(h)
  /\ tx' = [tx EXCEPT ![h] = NoTx]
  /\ unannounced' = (unannounced \ tx[h].takes) \union
                      (IF tx[h].notify = "never" THEN tx[h].adds ELSE {})

\* COMMIT succeeds; what there is to notify is notified next.
Commit(h) ==
  /\ Commits(h)
  /\ tx' = [tx EXCEPT ![h] = IF Owing(h) THEN [tx[h] EXCEPT !.stage = "owing", !.takes = {}]
                                         ELSE NoTx]
  /\ unannounced' = (unannounced \ tx[h].takes) \union
                      (IF tx[h].notify = "never" THEN tx[h].adds ELSE {})

\* COMMIT took place but its answer is lost: the handler returns an error.
CommitUnanswered(h) ==
  /\ Commits(h)
  /\ tx' = [tx EXCEPT ![h] = NoTx]
  /\ unannounced' = (unannounced \ tx[h].takes) \union
                      (IF tx[h].notify = "retry" THEN {} ELSE tx[h].adds)

\* A statement fails or the request is cancelled.
Rollback(h) ==
  /\ tx[h].stage = "open"
  /\ tx' = [tx EXCEPT ![h] = NoTx]
  /\ unannounced' = unannounced \union {t \in tx[h].takes : row[t] = "due"}
  /\ UNCHANGED <<row, stream, ch, queues, server>>

Notify(h) ==
  /\ tx[h].stage = "owing"
  /\ \E t \in tx[h].adds : ch' = Notified(Queue(t))
  /\ tx' = [tx EXCEPT ![h] = NoTx]
  /\ UNCHANGED <<row, unannounced, stream, queues, server>>

\* StreamWorkflowHistory and PollSignal write nothing and may be open for long: a
\* client follows a history until it ends, or waits for a signal, with no time
\* limit if it gives none.
LongCall(h) ==
  /\ server = "up"
  /\ tx[h].stage = "idle"
  /\ tx' = [tx EXCEPT ![h].stage = "long"]
  /\ UNCHANGED <<row, unannounced, stream, ch, queues, server>>

\* The call has its answer, or its client goes.
LongCallEnds(h) ==
  /\ tx[h].stage = "long"
  /\ tx' = [tx EXCEPT ![h].stage = "idle"]
  /\ UNCHANGED <<row, unannounced, stream, ch, queues, server>>

-----------------------------------------------------------------------------
\* The clock.

RetryDue(t) ==
  /\ row[t] = "later"
  /\ row' = [row EXCEPT ![t] = "due"]
  /\ unannounced' = unannounced \union {t}
  /\ UNCHANGED <<stream, ch, queues, tx, server>>

LeaseLapses(t) ==
  /\ row[t] = "running"
  /\ row' = [row EXCEPT ![t] = "lapsed"]
  /\ UNCHANGED <<unannounced, stream, ch, queues, tx, server>>

\* RenewLock asks only for a RUNNING row.
Heartbeat(t) ==
  /\ row[t] = "lapsed" /\ ~Locked(t)
  /\ row' = [row EXCEPT ![t] = "running"]
  /\ UNCHANGED <<unannounced, stream, ch, queues, tx, server>>

-----------------------------------------------------------------------------
\* The process.

\* Streams, channels and transactions are gone.
Reset ==
  /\ server' = "down"
  /\ stream' = [s \in Streams |-> Off]
  /\ ch' = [s \in Streams |-> 0]
  /\ queues' = [q \in Queues |-> {}]
  /\ tx' = [h \in Handlers |-> NoTx]
  /\ unannounced' = {}
  /\ UNCHANGED row

Crash == server # "down" /\ Reset

\* SIGTERM: GracefulStop turns new calls away and waits for those under way,
\* streams and long calls too.  It does not end their contexts, and no loop looks
\* whether the server is stopping: with a client that stays it waits for ever.
GracefulStop ==
  /\ server = "up"
  /\ server' = "stopping"
  /\ UNCHANGED <<row, unannounced, stream, ch, queues, tx>>

Stopped ==
  /\ server = "stopping"
  /\ \A s \in Streams : stream[s].at = "off"
  /\ \A h \in Handlers : tx[h].stage = "idle"
  /\ Reset

Restart ==
  /\ server = "down"
  /\ server' = "up"
  /\ UNCHANGED <<row, unannounced, stream, ch, queues, tx>>

-----------------------------------------------------------------------------
Loop(s) ==
  \/ \E t \in Tasks : LockPending(s, t) \/ ClaimCommit(s, t)
  \/ NothingPending(s) \/ Send(s)
  \/ Wake(s) \/ Timer(s) \/ ContextDone(s) \/ Leave(s)

StreamTasks(s) == Connect(s) \/ Loop(s) \/ PollFails(s)

RunInTx(h) ==
  \/ StartWorkflow(h) \/ ScheduleNext(h) \/ StartCompensation(h) \/ NotifyInside(h)
  \/ Sweep(h) \/ \E t \in Tasks : SweepTakesRow(h, t)
  \/ Commit(h) \/ Notify(h)

Handle(h) ==
  \/ RunInTx(h) \/ CommitUnanswered(h) \/ Rollback(h)
  \/ LongCall(h) \/ LongCallEnds(h)

Clock(t) == RetryDue(t) \/ LeaseLapses(t) \/ Heartbeat(t)

Next ==
  \/ \E s \in Streams : StreamTasks(s)
  \/ \E h \in Handlers : Handle(h)
  \/ \E t \in Tasks : Clock(t)
  \/ Crash \/ GracefulStop \/ Stopped \/ Restart

Spec == Init /\ [][Next]_vars

Fault ==
  \/ Crash /\ ~Stopped
  \/ \E h \in Handlers : Rollback(h) /\ ~Commit(h)

\* From some time on there are no crashes and no rollbacks.  Goroutines that
\* can go on do, a worker that was cut off connects again, and the server is
\* started again.  The locks that streams vie for are fair to the rows: the
\* oldest comes first, and leases last longer than polls.
\* Nobody has to disconnect, no RPC has to be called and no shutdown has to happen
\* or to come to its end.
Fairness ==
  /\ <>[][~Fault]_vars
  /\ WF_vars(Restart)
  /\ \A s \in Streams :
       /\ WF_vars(Connect(s))
       /\ WF_vars(NothingPending(s) \/ Timer(s) \/ Send(s) \/ Leave(s))
  /\ \A t \in Tasks :
       /\ SF_vars(\E s \in Streams : LockPending(s, t))
       /\ SF_vars(\E s \in Streams : ClaimCommit(s, t))
  /\ \A h \in Handlers : WF_vars(NotifyInside(h) \/ Commit(h) \/ Notify(h))

FairSpec == Spec /\ Fairness

-----------------------------------------------------------------------------
TypeOK ==
  /\ row \in [Tasks -> {"none", "later", "due", "running", "lapsed"}]
  /\ unannounced \subseteq Tasks
  /\ stream \in [Streams -> [at : {"off", "poll", "locked", "sending", "blocked", "leaving"},
                             has : SUBSET Tasks]]
  /\ ch \in [Streams -> 0..1]
  /\ queues \in [Queues -> SUBSET Streams]
  /\ tx \in [Handlers -> [stage : {"idle", "open", "owing", "long"},
                          notify : {"never", "committed", "retry", "inside"},
                          adds : SUBSET Tasks, takes : SUBSET Tasks]]
  /\ server \in {"up", "stopping", "down"}

\* The broker lists the channel of a stream, under the stream's queue, from
\* before its first poll until it is closed: no notification passes a stream
\* by, and Notify never sends on a closed channel, which would bring the server
\* down.
ListedWhileStreaming ==
  \A s \in Streams, q \in Queues :
    s \in queues[q] <=> stream[s].at # "off" /\ q = Queue(s)

\* A row that is being claimed is still there to be claimed, and neither
\* another stream nor a handler has it: the UPDATE that follows the SELECT
\* ... FOR UPDATE SKIP LOCKED hits what was selected ("eliminating the
\* SELECT->UPDATE race window that existed before").
NoRaceWindow ==
  \A s \in Streams : stream[s].at = "locked" =>
    \A t \in stream[s].has :
      /\ Eligible(t)
      /\ \A r \in Streams \ {s} : stream[r].at = "locked" => t \notin stream[r].has
      /\ \A h \in Handlers : t \notin tx[h].takes

Idle(s) == stream[s].at = "blocked" /\ ch[s] = 0

\* No stream goes to sleep on work that was announced: while one is blocked
\* with nothing in its channel, a due row of its line is in somebody's hands,
\* or its Notify is still to come, or it is one that no Notify is for (a retry
\* that became due, a rollback, a lost answer to COMMIT, the first
\* compensation), which only the timer finds.
NotLeftToTimer ==
  \A s \in Streams, t \in Tasks :
    Idle(s) /\ LineOf[t] = LineOf[s] /\ row[t] = "due" /\ ~Locked(t) =>
      \/ t \in unannounced
      \/ \E h \in Handlers : tx[h].stage = "owing" /\ t \in tx[h].adds

\* Every row that is due, fresh or again, is taken sooner or later if somebody
\* reads its line, whatever happens to the wake-ups, unless the server is being
\* stopped.
EveryTaskTaken ==
  \A t \in {t \in Tasks : \E s \in Streams : LineOf[s] = LineOf[t]} :
    Eligible(t) ~> ~Eligible(t) \/ server = "stopping"
=============================================================================
