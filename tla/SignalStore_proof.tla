-------------------------- MODULE SignalStore_proof --------------------------
(***************************************************************************)
(* Proofs about the signal broker, for any executions, names, calls and    *)
(* signals.                                                                *)
(***************************************************************************)
EXTENDS SignalStore, TLAPS

\* A place that holds at most one thing.
LEMMA AtMostOneFacts ==
  ASSUME NEW S
  PROVE  /\ {} \in AtMostOne(S)
         /\ \A x \in S : {x} \in AtMostOne(S)
         /\ \A A \in AtMostOne(S) : A \subseteq S /\ \A x \in A : A = {x}
BY DEF AtMostOne

\* The initial state is typed.
LEMMA InitType == Init => TypeOK
BY AtMostOneFacts DEF Init, TypeOK, Ready, Call

\* Every step keeps the store typed.
LEMMA TypeStep == TypeOK /\ [Next]_vars => TypeOK'
<1> SUFFICES ASSUME TypeOK, [Next]_vars PROVE TypeOK'
  OBVIOUS
<1> USE AtMostOneFacts DEF TypeOK
<1>1. ASSUME NEW p \in Payloads, NEW k \in Keys, Send(p, k) PROVE TypeOK'
  <2>1. CASE SendToWaiter(p, k)
    <3>1. PICK c \in waiters[k] : calls' = [calls EXCEPT ![c].ch = {p}]
      BY <2>1 DEF SendToWaiter
    <3>2. c \in Calls
      OBVIOUS
    <3>3. calls' \in [Calls -> Call]
      BY <3>1, <3>2 DEF Call
    <3> QED  BY <2>1, <3>3 DEF SendToWaiter
  <2>2. CASE SendToBuffer(p, k)
    BY <2>2 DEF SendToBuffer
  <2> QED  BY <1>1, <2>1, <2>2 DEF Send
<1>2. ASSUME NEW c \in Calls, NEW k \in Keys, WaitBuffered(c, k) PROVE TypeOK'
  BY <1>2 DEF WaitBuffered, Call, Ready
<1>3. ASSUME NEW c \in Calls, NEW k \in Keys, WaitRegister(c, k) PROVE TypeOK'
  BY <1>3 DEF WaitRegister, Overlaps, Rivals, Call, Ready
<1>4. ASSUME NEW c \in Calls, Receive(c) PROVE TypeOK'
  <2>1. calls[c] \in Call
    OBVIOUS
  <2>2. [calls[c] EXCEPT !.stage = "returned", !.got = calls[c].ch, !.ch = {}] \in Call
    BY <2>1 DEF Call
  <2> QED  BY <1>4, <2>2 DEF Receive
<1>5. ASSUME NEW c \in Calls, GiveUp(c) PROVE TypeOK'
  BY <1>5 DEF GiveUp, Call
<1>6. ASSUME NEW c \in Calls, CleanUp(c) PROVE TypeOK'
  BY <1>6 DEF CleanUp, Call
<1>7. ASSUME NEW e \in Executions, Drain(e) PROVE TypeOK'
  <2>1. ASSUME NEW c \in Calls PROVE calls'[c] \in Call
    <3>1. calls[c] \in Call
      OBVIOUS
    <3>2. [calls[c] EXCEPT !.closed = TRUE] \in Call
      BY <3>1 DEF Call
    <3> QED  BY <1>7, <3>1, <3>2 DEF Drain
  <2>2. calls' \in [Calls -> Call]
    BY <1>7, <2>1 DEF Drain
  <2> QED  BY <1>7, <2>2 DEF Drain
<1>8. CASE UNCHANGED vars
  BY <1>8 DEF vars
<1> QED  BY <1>1, <1>2, <1>3, <1>4, <1>5, <1>6, <1>7, <1>8 DEF Next, Wait

-----------------------------------------------------------------------------
\* A signal that was not sent is nowhere.
UnsentNowhere ==
  \A p \in Payloads : sent[p] = "no" =>
    /\ \A k \in Keys : p \notin pending[k]
    /\ \A c \in Calls : p \notin calls[c].ch \union calls[c].got

\* The inductive invariant.  DeliveredOnce needs to know that a signal that
\* is sent now is nowhere yet and that a channel sent to was empty.
IInv == TypeOK /\ RegisteredOpen /\ BufferedIsUnheard /\ DeliveredOnce /\ UnsentNowhere

\* The inductive invariant holds initially.
LEMMA IInvInit == Init => IInv
BY InitType DEF Init, IInv, RegisteredOpen, BufferedIsUnheard, DeliveredOnce,
     UnsentNowhere, Ready

\* A call is registered under its own key only.
LEMMA OwnKey ==
  ASSUME TypeOK, RegisteredOpen
  PROVE  \A k, l \in Keys, c \in Calls : c \in waiters[k] /\ c \in waiters[l] => k = l
BY DEF RegisteredOpen

\* Every step keeps the registered calls open and the buffer unheard.
LEMMA OpenStep ==
  IInv /\ [Next]_vars => RegisteredOpen' /\ BufferedIsUnheard'
<1> SUFFICES ASSUME IInv, [Next]_vars PROVE RegisteredOpen' /\ BufferedIsUnheard'
  OBVIOUS
<1> USE AtMostOneFacts DEF IInv, RegisteredOpen, BufferedIsUnheard, Inside
<1>t. TypeOK /\ TypeOK'
  BY TypeStep
<1>1. ASSUME NEW p \in Payloads, NEW k \in Keys, Send(p, k)
      PROVE  RegisteredOpen' /\ BufferedIsUnheard'
  <2>1. CASE SendToWaiter(p, k)
    <3>1. PICK c \in waiters[k] : calls' = [calls EXCEPT ![c].ch = {p}]
      BY <2>1 DEF SendToWaiter
    <3>2. waiters' = [waiters EXCEPT ![k] = {}] /\ pending' = pending
      BY <2>1 DEF SendToWaiter
    <3>3. \A l \in Keys : waiters'[l] \subseteq waiters[l] /\ c \notin waiters'[l]
      BY <1>t, <3>1, <3>2, OwnKey DEF TypeOK
    <3>4. \A d \in Calls : d # c => calls'[d] = calls[d]
      BY <1>t, <3>1 DEF TypeOK
    <3> QED  BY <1>t, <3>2, <3>3, <3>4 DEF TypeOK
  <2>2. CASE SendToBuffer(p, k)
    <3>1. waiters[k] = {}
      BY <2>2 DEF SendToBuffer
    <3> QED  BY <1>t, <2>2, <3>1 DEF SendToBuffer, TypeOK
  <2> QED  BY <1>1, <2>1, <2>2 DEF Send
<1>2. ASSUME NEW c \in Calls, NEW k \in Keys, WaitBuffered(c, k)
      PROVE  RegisteredOpen' /\ BufferedIsUnheard'
  BY <1>t, <1>2 DEF WaitBuffered, TypeOK
<1>3. ASSUME NEW c \in Calls, NEW k \in Keys, WaitRegister(c, k)
      PROVE  RegisteredOpen' /\ BufferedIsUnheard'
  <2>1. \A l \in Keys : c \notin waiters[l]
    BY <1>3 DEF WaitRegister
  <2> QED  BY <1>t, <1>3, <2>1 DEF WaitRegister, TypeOK, Ready
<1>4. ASSUME NEW c \in Calls, Receive(c) PROVE RegisteredOpen' /\ BufferedIsUnheard'
  <2>1. \A l \in Keys : c \notin waiters[l]
    BY <1>4 DEF Receive
  <2> QED  BY <1>t, <1>4, <2>1 DEF Receive, TypeOK
<1>5. ASSUME NEW c \in Calls, GiveUp(c) PROVE RegisteredOpen' /\ BufferedIsUnheard'
  BY <1>t, <1>5 DEF GiveUp, TypeOK, Call
<1>6. ASSUME NEW c \in Calls, CleanUp(c) PROVE RegisteredOpen' /\ BufferedIsUnheard'
  <2>1. \A l \in Keys : waiters'[l] \subseteq waiters[l] /\ c \notin waiters'[l]
    BY <1>6 DEF CleanUp
  <2>2. \A d \in Calls : d # c => calls'[d] = calls[d]
    BY <1>t, <1>6 DEF CleanUp, TypeOK
  <2> QED  BY <1>t, <1>6, <2>1, <2>2 DEF CleanUp, TypeOK
<1>7. ASSUME NEW e \in Executions, Drain(e) PROVE RegisteredOpen' /\ BufferedIsUnheard'
  <2>1. ASSUME NEW k \in Keys, NEW c \in waiters'[k] PROVE c \in Calls /\ calls'[c] = calls[c]
    <3>1. k[1] # e /\ c \in waiters[k]
      BY <1>7, <2>1 DEF Drain
    <3>2. c \in Calls
      BY <1>t, <3>1 DEF TypeOK
    <3>3. ASSUME NEW n \in Names, c \in waiters[<<e, n>>] PROVE FALSE
      <4>1. <<e, n>> \in Keys /\ <<e, n>>[1] = e
        BY DEF Keys
      <4>2. k = <<e, n>>
        BY <1>t, <3>1, <3>2, <3>3, <4>1, OwnKey
      <4> QED  BY <3>1, <4>1, <4>2
    <3>4. calls'[c] = calls[c]
      BY <1>7, <3>2, <3>3 DEF Drain
    <3> QED  BY <3>2, <3>4
  <2>2. RegisteredOpen'
    <3> SUFFICES ASSUME NEW k \in Keys, NEW c \in waiters'[k]
                 PROVE  (calls[c].key = {k} /\ Inside(c) /\ calls[c].ch = {} /\ ~calls[c].closed)'
      OBVIOUS
    <3>1. c \in waiters[k]
      BY <1>7 DEF Drain
    <3> QED  BY <2>1, <3>1
  <2>3. BufferedIsUnheard'
    BY <1>7 DEF Drain
  <2> QED  BY <2>2, <2>3
<1>8. CASE UNCHANGED vars
  BY <1>8 DEF vars
<1> QED  BY <1>1, <1>2, <1>3, <1>4, <1>5, <1>6, <1>7, <1>8 DEF Next, Wait

\* Where one signal is: the three parts of DeliveredOnce, and the signals that
\* were not sent, said of a single p.
Once(p) ==
  /\ \A k, l \in Keys : p \in pending[k] \intersect pending[l] => k = l
  /\ \A b, c \in Calls :
       p \in (calls[b].ch \union calls[b].got) \intersect
             (calls[c].ch \union calls[c].got) => b = c
  /\ \A k \in Keys, c \in Calls :
       p \in pending[k] => p \notin calls[c].ch \union calls[c].got
  /\ sent[p] = "no" =>
       /\ \A k \in Keys : p \notin pending[k]
       /\ \A c \in Calls : p \notin calls[c].ch \union calls[c].got

\* Every step keeps each signal in one place at most.
LEMMA OnceStep == IInv /\ [Next]_vars => DeliveredOnce' /\ UnsentNowhere'
<1> SUFFICES ASSUME IInv, [Next]_vars, NEW p \in Payloads PROVE Once(p)'
  BY DEF DeliveredOnce, UnsentNowhere, Once
<1> USE AtMostOneFacts
<1>t. TypeOK /\ TypeOK'
  BY TypeStep DEF IInv
<1>o. Once(p)
  BY DEF IInv, DeliveredOnce, UnsentNowhere, Once
<1>1. ASSUME NEW q \in Payloads, NEW k \in Keys, Send(q, k) PROVE Once(p)'
  <2>1. CASE SendToWaiter(q, k)
    <3>1. PICK c \in waiters[k] : calls[c].ch = {} /\ calls' = [calls EXCEPT ![c].ch = {q}]
      BY <2>1 DEF SendToWaiter
    <3>2. c \in Calls /\ calls'[c].ch = {q} /\ calls'[c].got = calls[c].got
      BY <1>t, <3>1 DEF TypeOK, Call
    <3>3. \A d \in Calls : d # c => calls'[d] = calls[d]
      BY <1>t, <3>1 DEF TypeOK
    <3>4. pending' = pending /\ sent'[q] = "delivered" /\ (p # q => sent'[p] = sent[p])
      BY <1>t, <2>1 DEF SendToWaiter, TypeOK
    <3>5. CASE p = q
      <4>1. sent[p] = "no"
        BY <1>1, <3>5 DEF Send
      <4> QED  BY <1>o, <3>2, <3>3, <3>4, <3>5, <4>1 DEF Once
    <3>6. CASE p # q
      <4>1. \A d \in Calls : p \in calls'[d].ch => p \in calls[d].ch
        BY <3>2, <3>3, <3>6
      <4>2. \A d \in Calls : calls'[d].got = calls[d].got
        BY <3>2, <3>3
      <4> QED  BY <1>o, <3>4, <3>6, <4>1, <4>2 DEF Once
    <3> QED  BY <3>5, <3>6
  <2>2. CASE SendToBuffer(q, k)
    <3>1. calls' = calls /\ sent'[q] = "buffered" /\ (p # q => sent'[p] = sent[p])
      BY <1>t, <2>2 DEF SendToBuffer, TypeOK
    <3>2. \A l \in Keys : pending'[l] = IF l = k THEN {q} ELSE pending[l]
      BY <1>t, <2>2 DEF SendToBuffer, TypeOK
    <3>3. CASE p = q
      <4>1. sent[p] = "no"
        BY <1>1, <3>3 DEF Send
      <4> QED  BY <1>o, <3>1, <3>2, <3>3, <4>1 DEF Once
    <3>4. CASE p # q
      <4>1. \A l \in Keys : p \in pending'[l] => p \in pending[l]
        BY <3>2, <3>4
      <4> QED  BY <1>o, <3>1, <3>4, <4>1 DEF Once
    <3> QED  BY <3>3, <3>4
  <2> QED  BY <1>1, <2>1, <2>2 DEF Send
<1>2. ASSUME NEW c \in Calls, NEW k \in Keys, WaitBuffered(c, k) PROVE Once(p)'
  <2>1. calls'[c].ch = {} /\ calls'[c].got = pending[k]
    BY <1>t, <1>2 DEF WaitBuffered, TypeOK, Ready
  <2>2. \A d \in Calls : d # c => calls'[d] = calls[d]
    BY <1>t, <1>2 DEF WaitBuffered, TypeOK
  <2>3. sent' = sent /\ \A l \in Keys : pending'[l] = IF l = k THEN {} ELSE pending[l]
    BY <1>t, <1>2 DEF WaitBuffered, TypeOK
  <2> QED  BY <1>o, <2>1, <2>2, <2>3 DEF Once
<1>3. ASSUME NEW c \in Calls, NEW k \in Keys, WaitRegister(c, k) PROVE Once(p)'
  <2>1. calls'[c].ch = {} /\ calls'[c].got = {}
    BY <1>t, <1>3 DEF WaitRegister, TypeOK, Ready
  <2>2. \A d \in Calls : d # c => calls'[d] = calls[d]
    BY <1>t, <1>3 DEF WaitRegister, TypeOK
  <2> QED  BY <1>o, <1>3, <2>1, <2>2 DEF WaitRegister, Once
<1>4. ASSUME NEW c \in Calls, Receive(c) PROVE Once(p)'
  <2>1. calls'[c].ch = {} /\ calls'[c].got = calls[c].ch
    BY <1>t, <1>4 DEF Receive, TypeOK, Call
  <2>2. \A d \in Calls : d # c => calls'[d] = calls[d]
    BY <1>t, <1>4 DEF Receive, TypeOK
  <2> QED  BY <1>o, <1>4, <2>1, <2>2 DEF Receive, Once
<1>5. ASSUME NEW c \in Calls, GiveUp(c) PROVE Once(p)'
  <2>1. \A d \in Calls : calls'[d].ch = calls[d].ch /\ calls'[d].got = calls[d].got
    BY <1>t, <1>5 DEF GiveUp, TypeOK, Call
  <2> QED  BY <1>o, <1>5, <2>1 DEF GiveUp, Once
<1>6. ASSUME NEW c \in Calls, CleanUp(c) PROVE Once(p)'
  <2>1. \A d \in Calls : calls'[d].ch = calls[d].ch /\ calls'[d].got = calls[d].got
    BY <1>t, <1>6 DEF CleanUp, TypeOK, Call
  <2> QED  BY <1>o, <1>6, <2>1 DEF CleanUp, Once
<1>7. ASSUME NEW e \in Executions, Drain(e) PROVE Once(p)'
  <2>1. ASSUME NEW d \in Calls
        PROVE  calls'[d].ch = calls[d].ch /\ calls'[d].got = calls[d].got
    <3>1. calls[d] \in Call
      BY <1>t DEF TypeOK
    <3> QED  BY <1>7, <3>1 DEF Drain, Call
  <2>2. \A l \in Keys : pending'[l] \subseteq pending[l]
    BY <1>7 DEF Drain
  <2> QED  BY <1>o, <1>7, <2>1, <2>2 DEF Drain, Once
<1>8. CASE UNCHANGED vars
  BY <1>8, <1>o DEF vars, Once
<1> QED  BY <1>1, <1>2, <1>3, <1>4, <1>5, <1>6, <1>7, <1>8 DEF Next, Wait, IInv

\* Every step, and every stutter, preserves the inductive invariant.
LEMMA IInvNext == IInv /\ [Next]_vars => IInv'
BY TypeStep, OpenStep, OnceStep DEF IInv

\* The inductive invariant holds in every reachable state.
LEMMA IInvAlways == Spec => []IInv
BY IInvInit, IInvNext, PTL DEF Spec

-----------------------------------------------------------------------------
\* The store is typed: a key has one waiter and one buffered payload at most.
THEOREM TypeCorrect == Spec => []TypeOK
BY IInvAlways, PTL DEF IInv

\* Send never blocks, and neither Send nor Drain panics, however many calls of
\* Wait there are on a key.
THEOREM ChannelsSafe == Spec => []RegisteredOpen
BY IInvAlways, PTL DEF IInv

\* Whichever of Send and Wait takes the mutex first, a signal is never left in
\* the buffer while a call is registered for it.
THEOREM Rendezvous == Spec => []BufferedIsUnheard
BY IInvAlways, PTL DEF IInv

\* No signal is delivered to two calls, nor delivered and buffered.
THEOREM AtMostOnce == Spec => []DeliveredOnce
BY IInvAlways, PTL DEF IInv

-----------------------------------------------------------------------------
\* Whoever shares a key with another call inside Wait is known to have overlapped.
OverlapKnown ==
  \A b, c \in Calls :
    Inside(b) /\ Inside(c) /\ calls[b].key = calls[c].key /\ b # c => c \in overlapped

\* Only a call that registers comes in, and it marks those it meets and itself.
LEMMA OverlapStep == TypeOK /\ OverlapKnown /\ [Next]_vars => OverlapKnown'
<1> SUFFICES ASSUME TypeOK, OverlapKnown, [Next]_vars PROVE OverlapKnown'
  OBVIOUS
<1>1. ASSUME NEW c \in Calls, NEW k \in Keys, WaitRegister(c, k) PROVE OverlapKnown'
  <2>1. calls'[c].key = {k}
    BY <1>1 DEF WaitRegister, TypeOK, Ready
  <2>2. \A d \in Calls : d # c => calls'[d] = calls[d]
    BY <1>1 DEF WaitRegister, TypeOK
  <2>3. overlapped \subseteq overlapped'
    BY <1>1 DEF WaitRegister, Overlaps
  <2>4. \A d \in Calls \ {c} : Inside(d) /\ calls[d].key = {k} => c \in overlapped' /\ d \in overlapped'
    BY <1>1 DEF WaitRegister, Overlaps, Rivals
  <2> QED  BY <2>1, <2>2, <2>3, <2>4 DEF OverlapKnown, Inside
<1>2. CASE /\ overlapped' = overlapped
           /\ \A d \in Calls : Inside(d)' => Inside(d) /\ calls'[d].key = calls[d].key
  BY <1>2 DEF OverlapKnown
<1>3. ASSUME NEW p \in Payloads, NEW k \in Keys, Send(p, k) PROVE OverlapKnown'
  <2>1. CASE SendToWaiter(p, k)
    BY <1>2, <2>1, AtMostOneFacts DEF SendToWaiter, Inside, TypeOK, Call
  <2>2. CASE SendToBuffer(p, k)
    BY <1>2, <2>2 DEF SendToBuffer, Inside
  <2> QED  BY <1>3, <2>1, <2>2 DEF Send
<1>4. ASSUME NEW c \in Calls, NEW k \in Keys, WaitBuffered(c, k) PROVE OverlapKnown'
  BY <1>2, <1>4 DEF WaitBuffered, Inside, TypeOK, Ready
<1>5. ASSUME NEW c \in Calls, Receive(c) \/ GiveUp(c) \/ CleanUp(c) PROVE OverlapKnown'
  <2>1. calls[c] \in Call
    BY DEF TypeOK
  <2>2. calls[c].stage \notin {"ready", "returned"} /\ calls'[c].key = calls[c].key
    BY <1>5, <2>1 DEF Receive, GiveUp, CleanUp, TypeOK, Call
  <2>3. overlapped' = overlapped /\ \A d \in Calls : d # c => calls'[d] = calls[d]
    BY <1>5 DEF Receive, GiveUp, CleanUp, TypeOK
  <2> QED  BY <1>2, <2>2, <2>3 DEF Inside
<1>6. ASSUME NEW e \in Executions, Drain(e) PROVE OverlapKnown'
  <2>1. ASSUME NEW d \in Calls
        PROVE  calls'[d].stage = calls[d].stage /\ calls'[d].key = calls[d].key
    <3>1. calls[d] \in Call
      BY DEF TypeOK
    <3> QED  BY <1>6, <3>1 DEF Drain, Call
  <2> QED  BY <1>2, <1>6, <2>1 DEF Drain, Inside
<1>7. CASE UNCHANGED vars
  BY <1>2, <1>7 DEF vars, Inside
<1> QED  BY <1>1, <1>3, <1>4, <1>5, <1>6, <1>7 DEF Next, Wait

\* A step strands no call that shares its key with nobody: the only entry that a
\* registration replaces or a clean-up removes is then its own.
LEMMA StrandStep ==
  /\ IInv /\ OverlapKnown /\ StrandedOnlyIfOverlapped
  /\ [Next]_vars
  => StrandedOnlyIfOverlapped'
<1> SUFFICES ASSUME IInv, OverlapKnown, StrandedOnlyIfOverlapped, [Next]_vars,
                    NEW d \in Calls, d \notin overlapped', NEW l \in Keys,
                    calls'[d].stage = "waiting", calls'[d].key = {l},
                    calls'[d].ch = {}, ~calls'[d].closed
             PROVE  waiters'[l] = {d}
  BY DEF StrandedOnlyIfOverlapped, Stranded
<1>t. TypeOK /\ TypeOK' /\ RegisteredOpen
  BY TypeStep DEF IInv
<1>o. d \notin overlapped
  BY DEF Next, Send, SendToWaiter, SendToBuffer, Wait, WaitBuffered, WaitRegister, Overlaps,
         Receive, GiveUp, CleanUp, Drain, vars
<1>d. ASSUME calls'[d] = calls[d] PROVE waiters[l] = {d}
  BY <1>d, <1>o DEF StrandedOnlyIfOverlapped, Stranded
<1>1. ASSUME NEW p \in Payloads, NEW k \in Keys, Send(p, k) PROVE waiters'[l] = {d}
  <2>1. CASE SendToWaiter(p, k)
    <3>1. PICK c \in waiters[k] : calls' = [calls EXCEPT ![c].ch = {p}]
      BY <2>1 DEF SendToWaiter
    <3>2. c \in Calls /\ calls'[c].ch = {p}
      BY <1>t, <3>1, AtMostOneFacts DEF TypeOK, Call
    <3>3. d # c /\ calls'[d] = calls[d]
      BY <1>t, <3>1, <3>2 DEF TypeOK
    <3>4. l # k
      BY <1>d, <3>1, <3>3
    <3> QED  BY <1>t, <1>d, <2>1, <3>3, <3>4 DEF SendToWaiter, TypeOK
  <2>2. CASE SendToBuffer(p, k)
    BY <1>d, <2>2 DEF SendToBuffer
  <2> QED  BY <1>1, <2>1, <2>2 DEF Send
<1>2. ASSUME NEW c \in Calls, NEW k \in Keys, WaitBuffered(c, k) PROVE waiters'[l] = {d}
  BY <1>t, <1>2, <1>d DEF WaitBuffered, TypeOK, Ready
<1>3. ASSUME NEW c \in Calls, NEW k \in Keys, WaitRegister(c, k) PROVE waiters'[l] = {d}
  <2>1. calls'[c].key = {k} /\ (d # c => calls'[d] = calls[d])
    BY <1>t, <1>3 DEF WaitRegister, TypeOK, Ready
  <2>2. l = k => d = c
    <3>1. SUFFICES ASSUME l = k, d # c PROVE FALSE
      OBVIOUS
    <3>2. d \in Rivals(c, k)
      BY <2>1, <3>1 DEF Rivals, Inside
    <3> QED  BY <1>3, <3>2 DEF WaitRegister, Overlaps
  <2>3. d = c => l = k
    BY <2>1
  <2> QED  BY <1>t, <1>3, <1>d, <2>1, <2>2, <2>3 DEF WaitRegister, TypeOK
<1>4. ASSUME NEW c \in Calls, Receive(c) PROVE waiters'[l] = {d}
  BY <1>t, <1>4, <1>d DEF Receive, TypeOK, Call
<1>5. ASSUME NEW c \in Calls, GiveUp(c) PROVE waiters'[l] = {d}
  BY <1>t, <1>5, <1>d DEF GiveUp, TypeOK, Call
<1>6. ASSUME NEW c \in Calls, CleanUp(c) PROVE waiters'[l] = {d}
  <2>1. d # c /\ calls'[d] = calls[d]
    BY <1>t, <1>6 DEF CleanUp, TypeOK, Call
  <2>2. l \notin calls[c].key
    <3>1. SUFFICES ASSUME l \in calls[c].key PROVE FALSE
      OBVIOUS
    <3>2. calls[c].key = {l}
      BY <1>t, <3>1, AtMostOneFacts DEF TypeOK, Call
    <3> QED  BY <1>6, <1>o, <2>1, <3>2 DEF OverlapKnown, Inside, CleanUp
  <2> QED  BY <1>6, <1>d, <2>1, <2>2 DEF CleanUp
<1>7. ASSUME NEW e \in Executions, Drain(e) PROVE waiters'[l] = {d}
  <2>1. calls[d] \in Call
    BY <1>t DEF TypeOK
  <2>2. calls'[d] = calls[d]
    BY <1>7, <2>1 DEF Drain, Call
  <2>3. waiters[l] = {d}
    BY <1>d, <2>2
  <2>4. l[1] # e
    <3>1. SUFFICES ASSUME l[1] = e PROVE FALSE
      OBVIOUS
    <3>2. l[2] \in Names /\ l = <<e, l[2]>>
      BY <3>1 DEF Keys
    <3>3. calls'[d] = [calls[d] EXCEPT !.closed = TRUE]
      BY <1>7, <2>3, <3>2 DEF Drain
    <3> QED  BY <2>1, <3>3 DEF Call
  <2> QED  BY <1>7, <2>3, <2>4 DEF Drain
<1>8. CASE UNCHANGED vars
  BY <1>8, <1>d DEF vars
<1> QED  BY <1>1, <1>2, <1>3, <1>4, <1>5, <1>6, <1>7, <1>8 DEF Next, Wait

\* A call that Send and Drain cannot find shared its key with another call: there
\* is no other way to lose one.
THEOREM StrandedOverlapped == Spec => []StrandedOnlyIfOverlapped
<1>1. Init => OverlapKnown /\ StrandedOnlyIfOverlapped
  BY DEF Init, OverlapKnown, StrandedOnlyIfOverlapped, Stranded, Inside, Ready
<1>2. /\ IInv /\ OverlapKnown /\ StrandedOnlyIfOverlapped
      /\ [Next]_vars
      => (OverlapKnown /\ StrandedOnlyIfOverlapped)'
  BY OverlapStep, StrandStep DEF IInv
<1> QED  BY IInvAlways, <1>1, <1>2, PTL DEF Spec
=============================================================================
