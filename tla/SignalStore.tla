----------------------------- MODULE SignalStore -----------------------------
(***************************************************************************)
(* The in-process broker between SendSignal and PollSignal                 *)
(* (src/usecase/signal.go).  Send and Drain run under the mutex and are    *)
(* one action each.  Wait holds the mutex twice: while it looks for a      *)
(* buffered payload or registers, and again to clean up when it gave up;   *)
(* in between it is blocked in its select.                                 *)
(*                                                                         *)
(* The two maps are functions on all keys: the value of a key is the set   *)
(* of what is stored under it, empty or a singleton.                       *)
(***************************************************************************)
CONSTANTS
  Executions,   \* execution ids
  Names,        \* signal names
  Calls,        \* calls of Wait
  Payloads      \* signals, each sent at most once

VARIABLES
  waiters,   \* the call registered under each key
  pending,   \* the payload buffered under each key
  calls,     \* where each call of Wait is
  sent,      \* what Send answered for each payload
  overlapped \* history: calls that shared their key with another call

vars == <<waiters, pending, calls, sent, overlapped>>

Keys == Executions \X Names

AtMostOne(S) == {{}} \union {{x} : x \in S}

\* "ch" is the buffered channel of the call's waiter, "got" what it returned.
Call == [stage : {"ready", "waiting", "timedOut", "cancelled", "returned"},
         key : AtMostOne(Keys), ch : AtMostOne(Payloads), closed : BOOLEAN,
         got : AtMostOne(Payloads)]

Ready == [stage |-> "ready", key |-> {}, ch |-> {}, closed |-> FALSE, got |-> {}]

Init ==
  /\ waiters = [k \in Keys |-> {}]
  /\ pending = [k \in Keys |-> {}]
  /\ calls = [c \in Calls |-> Ready]
  /\ sent = [p \in Payloads |-> "no"]
  /\ overlapped = {}

\* A call that has registered and not returned yet.
Inside(c) == calls[c].stage \notin {"ready", "returned"}

-----------------------------------------------------------------------------
\* Fault injection: the waiter stays registered when it is sent to.
SendAndKeep(p, k) ==
  \E c \in waiters[k] :
    /\ calls[c].ch = {}
    /\ calls' = [calls EXCEPT ![c].ch = {p}]
    /\ sent' = [sent EXCEPT ![p] = "delivered"]
    /\ UNCHANGED <<waiters, pending, overlapped>>

\* A call is registered and its channel has room.
SendToWaiter(p, k) ==
  \E c \in waiters[k] :
    /\ calls[c].ch = {}
    /\ calls' = [calls EXCEPT ![c].ch = {p}]
    /\ waiters' = [waiters EXCEPT ![k] = {}]
    /\ sent' = [sent EXCEPT ![p] = "delivered"]
    /\ UNCHANGED <<pending, overlapped>>

\* Fault injection: the payload joins those buffered before.
SendQueued(p, k) ==
  /\ \A c \in waiters[k] : calls[c].ch # {}
  /\ pending' = [pending EXCEPT ![k] = @ \union {p}]
  /\ sent' = [sent EXCEPT ![p] = "buffered"]
  /\ UNCHANGED <<waiters, calls, overlapped>>

\* No call is registered: the payload takes the place of one buffered before.
SendToBuffer(p, k) ==
  /\ \A c \in waiters[k] : calls[c].ch # {}
  /\ pending' = [pending EXCEPT ![k] = {p}]
  /\ sent' = [sent EXCEPT ![p] = "buffered"]
  /\ UNCHANGED <<waiters, calls, overlapped>>

Send(p, k) ==
  /\ sent[p] = "no"
  /\ SendToWaiter(p, k) \/ SendToBuffer(p, k)

-----------------------------------------------------------------------------
\* Fault injection: the payload stays in the buffer.
WaitCopies(c, k) ==
  /\ calls[c].stage = "ready"
  /\ pending[k] # {}
  /\ calls' = [calls EXCEPT ![c] = [Ready EXCEPT !.stage = "returned", !.key = {k},
                                                 !.got = pending[k]]]
  /\ UNCHANGED <<waiters, pending, sent, overlapped>>

\* Fast path: the signal was there first.
WaitBuffered(c, k) ==
  /\ calls[c].stage = "ready"
  /\ pending[k] # {}
  /\ calls' = [calls EXCEPT ![c] = [Ready EXCEPT !.stage = "returned", !.key = {k},
                                                 !.got = pending[k]]]
  /\ pending' = [pending EXCEPT ![k] = {}]
  /\ UNCHANGED <<waiters, sent, overlapped>>

\* The calls that are inside Wait for the key when the call registers.
Rivals(c, k) == {b \in Calls \ {c} : Inside(b) /\ calls[b].key = {k}}

Overlaps(c, k) ==
  overlapped' = IF Rivals(c, k) = {} THEN overlapped
                                     ELSE overlapped \union Rivals(c, k) \union {c}

\* Fault injection: the call registers without a look at the buffer.
WaitRegardless(c, k) ==
  /\ calls[c].stage = "ready"
  /\ calls' = [calls EXCEPT ![c] = [Ready EXCEPT !.stage = "waiting", !.key = {k}]]
  /\ waiters' = [waiters EXCEPT ![k] = {c}]
  /\ Overlaps(c, k)
  /\ UNCHANGED <<pending, sent>>

\* Slow path: the call registers, in the place of one registered before.
WaitRegister(c, k) ==
  /\ calls[c].stage = "ready"
  /\ pending[k] = {}
  /\ calls' = [calls EXCEPT ![c] = [Ready EXCEPT !.stage = "waiting", !.key = {k}]]
  /\ waiters' = [waiters EXCEPT ![k] = {c}]
  /\ Overlaps(c, k)
  /\ UNCHANGED <<pending, sent>>

\* The select takes the payload, or finds the channel closed.
Receive(c) ==
  /\ calls[c].stage = "waiting"
  /\ calls[c].ch # {} \/ calls[c].closed
  /\ calls' = [calls EXCEPT ![c] = [calls[c] EXCEPT !.stage = "returned",
                                    !.got = calls[c].ch, !.ch = {}]]
  /\ UNCHANGED <<waiters, pending, sent, overlapped>>

\* The select takes the timer or the context, which it may do even when the
\* channel is ready too.
GiveUp(c) ==
  /\ calls[c].stage = "waiting"
  /\ \E why \in {"timedOut", "cancelled"} : calls' = [calls EXCEPT ![c].stage = why]
  /\ UNCHANGED <<waiters, pending, sent, overlapped>>

\* The waiter of the key is removed, whichever call it is of.
CleanUp(c) ==
  /\ calls[c].stage \in {"timedOut", "cancelled"}
  /\ calls' = [calls EXCEPT ![c].stage = "returned"]
  /\ waiters' = [k \in Keys |-> IF k \in calls[c].key THEN {} ELSE waiters[k]]
  /\ UNCHANGED <<pending, sent, overlapped>>

-----------------------------------------------------------------------------
\* Fault injection: waiters are removed, but their channels stay open.
DrainQuietly(e) ==
  /\ pending' = [k \in Keys |-> IF k[1] = e THEN {} ELSE pending[k]]
  /\ waiters' = [k \in Keys |-> IF k[1] = e THEN {} ELSE waiters[k]]
  /\ UNCHANGED <<calls, sent, overlapped>>

Drain(e) ==
  /\ pending' = [k \in Keys |-> IF k[1] = e THEN {} ELSE pending[k]]
  /\ calls' = [c \in Calls |-> IF \E n \in Names : c \in waiters[<<e, n>>]
                                 THEN [calls[c] EXCEPT !.closed = TRUE]
                                 ELSE calls[c]]
  /\ waiters' = [k \in Keys |-> IF k[1] = e THEN {} ELSE waiters[k]]
  /\ UNCHANGED <<sent, overlapped>>

-----------------------------------------------------------------------------
Wait(c) ==
  \/ \E k \in Keys : WaitBuffered(c, k) \/ WaitRegister(c, k)
  \/ Receive(c)
  \/ GiveUp(c)
  \/ CleanUp(c)

Next ==
  \/ \E p \in Payloads, k \in Keys : Send(p, k)
  \/ \E c \in Calls : Wait(c)
  \/ \E e \in Executions : Drain(e)

Spec == Init /\ [][Next]_vars

-----------------------------------------------------------------------------
TypeOK ==
  /\ waiters \in [Keys -> AtMostOne(Calls)]
  /\ pending \in [Keys -> AtMostOne(Payloads)]
  /\ calls \in [Calls -> Call]
  /\ sent \in [Payloads -> {"no", "delivered", "buffered"}]
  /\ overlapped \subseteq Calls

\* A call that is registered is still in Wait for that key and its channel is
\* open and has room: Send neither blocks nor panics and Drain closes no
\* channel twice ("shouldn't happen -- one waiter per key").
RegisteredOpen ==
  \A k \in Keys : \A c \in waiters[k] :
    calls[c].key = {k} /\ Inside(c) /\ calls[c].ch = {} /\ ~calls[c].closed

\* Nobody is registered for a signal that is buffered: whichever of Send and
\* Wait comes first, the two meet.
BufferedIsUnheard == \A k \in Keys : pending[k] # {} => waiters[k] = {}

\* A signal is in one place at most: buffered, on its way to one call, or
\* returned by one call.  No two steps of a workflow resume on the same signal.
DeliveredOnce ==
  \A p \in Payloads :
    /\ \A k, l \in Keys : p \in pending[k] \intersect pending[l] => k = l
    /\ \A b, c \in Calls :
         p \in (calls[b].ch \union calls[b].got) \intersect
               (calls[c].ch \union calls[c].got) => b = c
    /\ \A k \in Keys, c \in Calls :
         p \in pending[k] => p \notin calls[c].ch \union calls[c].got

\* A call that is blocked, with nothing on its way to it, and that neither Send
\* nor Drain can find: no signal wakes it and no closing of its execution.
Stranded(c) ==
  /\ calls[c].stage = "waiting" /\ calls[c].ch = {} /\ ~calls[c].closed
  /\ \E k \in Keys : calls[c].key = {k} /\ waiters[k] # {c}

\* Send and Drain find every blocked call ("so Send can find us", "so any blocked
\* Wait call returns"), whatever signals, time-outs, cancellations and drains
\* come between, unless another call was inside Wait for the same key together
\* with it: a later one takes its entry, an earlier one that gave up removes it.
\* Steps that run side by side, or again after a lease has lapsed, may do that.
StrandedOnlyIfOverlapped == \A c \in Calls : Stranded(c) => c \in overlapped

\* What signal_handler.go says of SendSignal: "the payload is delivered to a
\* waiting step or buffered"; one reported as delivered has reached a step or
\* is on its way to it.
DeliveredReachesStep ==
  \A p \in Payloads : sent[p] = "delivered" =>
    \E c \in Calls : p \in calls[c].got \/ (calls[c].stage = "waiting" /\ p \in calls[c].ch)
=============================================================================
