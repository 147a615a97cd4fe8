------------------------ MODULE WorkflowHistory_proof ------------------------
(***************************************************************************)
(* Proof that the history of an execution reads as it should: every step   *)
(* completed once and in its turn, undone in reverse and only then, and an *)
(* outcome recorded just when the execution has it.  The history only      *)
(* grows, so all there is to know of a step is what it records and what    *)
(* was recorded before; the latter is what WorkflowPromise_proof proves of *)
(* the rows the completions have.                                          *)
(***************************************************************************)
EXTENDS WorkflowPromise_proof

-----------------------------------------------------------------------------
(* Logs that grow.                                                          *)

\* The event is recorded at most once.
Once(h, e) == \A i, j \in DOMAIN h : h[i] = e /\ h[j] = e => i = j

\* a is recorded, and b later.
First(h, a, b) == \E i, j \in DOMAIN h : i < j /\ h[i] = a /\ h[j] = b

\* What comes first when a log grows, and what stays single.
LEMMA LogGrows ==
  ASSUME NEW h \in Seq(Event), NEW s \in Seq(Event), NEW a, NEW b
  PROVE  /\ First(h, a, b) => First(h \o s, a, b)
         /\ Has(h, a) /\ Has(s, b) => First(h \o s, a, b)
         /\ First(h \o s, a, b) => First(h, a, b) \/ Has(s, b)
         /\ Once(h, a) /\ Once(s, a) /\ ~(Has(h, a) /\ Has(s, a)) => Once(h \o s, a)
<1> DEFINE hs == h \o s
<1>1. /\ DOMAIN h = 1 .. Len(h) /\ DOMAIN s = 1 .. Len(s) /\ DOMAIN hs = 1 .. Len(h) + Len(s)
      /\ Len(h) \in Nat /\ Len(s) \in Nat
      /\ \A i \in 1 .. Len(h) : hs[i] = h[i]
      /\ \A i \in 1 .. Len(s) : hs[Len(h) + i] = s[i]
  OBVIOUS
<1> HIDE DEF hs
<1>2. ASSUME NEW i \in DOMAIN hs
      PROVE  \/ i \in DOMAIN h /\ hs[i] = h[i]
             \/ \E k \in DOMAIN s : i = Len(h) + k /\ hs[i] = s[k]
  <2>1. CASE i <= Len(h)
    BY <1>1, <2>1
  <2>2. CASE i > Len(h)
    <3>1. i - Len(h) \in 1 .. Len(s) /\ i = Len(h) + (i - Len(h))
      BY <1>1, <2>2
    <3> QED
      BY <1>1, <3>1
  <2> QED
    BY <1>1, <2>1, <2>2
<1>3. ASSUME NEW i \in DOMAIN h PROVE i \in DOMAIN hs /\ hs[i] = h[i]
  BY <1>1
<1>4. ASSUME NEW i \in DOMAIN s PROVE Len(h) + i \in DOMAIN hs /\ hs[Len(h) + i] = s[i]
  BY <1>1
<1>5. First(h, a, b) => First(hs, a, b)
  BY <1>3 DEF First
<1>6. ASSUME Has(h, a), Has(s, b) PROVE First(hs, a, b)
  <2>1. PICK i \in DOMAIN h : h[i] = a
    BY <1>6 DEF Has
  <2>2. PICK j \in DOMAIN s : s[j] = b
    BY <1>6 DEF Has
  <2>3. i < Len(h) + j
    BY <1>1
  <2> QED
    BY <1>3, <1>4, <2>1, <2>2, <2>3 DEF First
<1>7. ASSUME First(hs, a, b) PROVE First(h, a, b) \/ Has(s, b)
  <2>1. PICK i \in DOMAIN hs, j \in DOMAIN hs : i < j /\ hs[i] = a /\ hs[j] = b
    BY <1>7 DEF First
  <2>2. CASE j \in DOMAIN h /\ hs[j] = h[j]
    <3>1. i \in DOMAIN h /\ hs[i] = h[i]
      BY <1>1, <2>1, <2>2
    <3> QED
      BY <2>1, <2>2, <3>1 DEF First
  <2>3. CASE \E k \in DOMAIN s : j = Len(h) + k /\ hs[j] = s[k]
    BY <2>1, <2>3 DEF Has
  <2> QED
    BY <1>2, <2>2, <2>3
<1>8. ASSUME Once(h, a), Once(s, a), ~(Has(h, a) /\ Has(s, a)),
             NEW i \in DOMAIN hs, NEW j \in DOMAIN hs, hs[i] = a, hs[j] = a
      PROVE  i = j
  <2>1. CASE Has(h, a)
    <3>1. i \in DOMAIN h /\ hs[i] = h[i] /\ j \in DOMAIN h /\ hs[j] = h[j]
      BY <1>2, <1>8, <2>1 DEF Has
    <3> QED
      BY <1>8, <3>1 DEF Once
  <2>2. CASE ~Has(h, a)
    <3>1. PICK k \in DOMAIN s : i = Len(h) + k /\ hs[i] = s[k]
      BY <1>2, <1>8, <2>2 DEF Has
    <3>2. PICK l \in DOMAIN s : j = Len(h) + l /\ hs[j] = s[l]
      BY <1>2, <1>8, <2>2 DEF Has
    <3>3. k = l
      BY <1>8, <3>1, <3>2 DEF Once
    <3> QED
      BY <3>1, <3>2, <3>3
  <2> QED
    BY <2>1, <2>2
<1>9. Once(h, a) /\ Once(s, a) /\ ~(Has(h, a) /\ Has(s, a)) => Once(hs, a)
  BY <1>8 DEF Once
<1> QED
  BY <1>5, <1>6, <1>7, <1>9 DEF hs

\* A transaction of distinct events records none of them twice.
LEMMA Once0 == \A e : Once(<<>>, e)
BY DEF Once

LEMMA Once1 ==
  ASSUME NEW a
  PROVE  \A e : Once(<<a>>, e)
BY DEF Once

LEMMA Once2 ==
  ASSUME NEW a, NEW b, a # b
  PROVE  \A e : Once(<<a, b>>, e)
BY DEF Once

LEMMA Once3 ==
  ASSUME NEW a, NEW b, NEW c, a # b, a # c, b # c
  PROVE  \A e : Once(<<a, b, c>>, e)
BY DEF Once

LEMMA Once4 ==
  ASSUME NEW a, NEW b, NEW c, NEW d, a # b, a # c, a # d, b # c, b # d, c # d
  PROVE  \A e : Once(<<a, b, c, d>>, e)
BY DEF Once

\* How often an event is recorded that is recorded at most once.
LEMMA TimesOf ==
  ASSUME NEW e, Once(history, e)
  PROVE  /\ Times(e) <= 1
         /\ Times(e) = 1 <=> Logged(e)
<1> DEFINE at == {i \in DOMAIN history : history[i] = e}
<1>1. CASE Logged(e)
  <2>1. PICK k \in DOMAIN history : history[k] = e
    BY <1>1 DEF Logged
  <2>2. at = {k}
    BY <2>1 DEF Once
  <2> HIDE DEF at
  <2>3. Cardinality(at) = 1
    BY <2>2, FS_Singleton
  <2>4. Times(e) = 1
    BY <2>3 DEF Times, at
  <2> QED
    BY <1>1, <2>4
<1>2. CASE ~Logged(e)
  <2>1. at = {}
    BY <1>2 DEF Logged
  <2> HIDE DEF at
  <2>2. Cardinality(at) = 0
    BY <2>1, FS_EmptySet
  <2>3. Times(e) = 0
    BY <2>2 DEF Times, at
  <2> QED
    BY <1>2, <2>3
<1> QED
  BY <1>1, <1>2

-----------------------------------------------------------------------------
(* What a step may record.                                                  *)

Open(state) == state \in {"RUNNING", "COMPENSATING"}

\* The steps are completed and undone when they are due, nothing is completed
\* or retried once compensation has begun, and a retry is the retry of a task.
RecordsWork(s) ==
  /\ \A e : Once(s, e)
  /\ \A n \in Steps :
       /\ Has(s, On("STEP_COMPLETED", n)) => TaskDue(n) /\ ~Has(s, Whole("COMPENSATION_STARTED"))
       /\ Has(s, On("STEP_RETRYING", n)) =>
            /\ ~Begun /\ ~Has(s, Whole("COMPENSATION_STARTED"))
            /\ \E w \in Workers : RetryTask(w) /\ Step(w) = n
       /\ Has(s, On("COMPENSATION_COMPLETED", n)) => CompDue(n)

\* An outcome is recorded just when the execution gets it; a failure when it
\* was open, or by the sweeper's loop that closed it.
RecordsOutcome(s) ==
  /\ Has(s, Whole("WORKFLOW_COMPLETED")) <=>
       exec.state # "COMPLETED" /\ exec'.state = "COMPLETED"
  /\ Has(s, Whole("WORKFLOW_CANCELLED")) <=>
       exec.state # "CANCELLED" /\ exec'.state = "CANCELLED"
  /\ WorkflowType # "SAGA" =>
       /\ Has(s, Whole("WORKFLOW_FAILED")) =>
            /\ exec'.state = "FAILED" /\ expire'.stage = "idle"
            /\ Open(exec.state) \/ expire.stage # "idle"
       /\ expire'.stage # "idle" =>
            expire.stage # "idle" \/ (Open(exec.state) /\ exec'.state = "FAILED")

Records(s) ==
  s \in Seq(Event) /\ history' = history \o s /\ RecordsWork(s) /\ RecordsOutcome(s)

\* The events that only say what happens besides.
Beside ==
  {On("STEP_SCHEDULED", n) : n \in Steps} \union {On("STEP_FAILED", n) : n \in Steps}
    \union {On("COMPENSATION_FAILED", n) : n \in Steps}
    \union {Whole("WORKFLOW_STARTED"), Whole("WORKFLOW_TIMED_OUT"), Whole("SAGA_ROLLED_BACK"),
            Whole("SAGA_ROLLBACK_FAILED")}

\* They are none of those that matter here.
LEMMA BesideFacts ==
  ASSUME NEW e \in Beside
  PROVE  /\ e \in Event
         /\ \A n : /\ e # On("STEP_COMPLETED", n) /\ e # On("STEP_RETRYING", n)
                   /\ e # On("COMPENSATION_COMPLETED", n)
         /\ e # Whole("COMPENSATION_STARTED") /\ e # Whole("WORKFLOW_COMPLETED")
         /\ e # Whole("WORKFLOW_CANCELLED") /\ e # Whole("WORKFLOW_FAILED")
<1>1. e.type \in {"STEP_SCHEDULED", "STEP_FAILED", "COMPENSATION_FAILED", "WORKFLOW_STARTED",
                  "WORKFLOW_TIMED_OUT", "SAGA_ROLLED_BACK", "SAGA_ROLLBACK_FAILED"}
  BY DEF Beside, On, Whole
<1>2. e \in Event
  BY EventFacts DEF Beside
<1>3. \A t, n : On(t, n).type = t /\ Whole(t).type = t
  BY DEF On, Whole
<1> QED
  BY <1>1, <1>2, <1>3

\* What completes, retries or undoes a step is nothing else.
LEMMA StepEventFacts ==
  ASSUME NEW m \in Steps, NEW n \in Steps
  PROVE  /\ On("STEP_COMPLETED", m) = On("STEP_COMPLETED", n) => m = n
         /\ On("STEP_RETRYING", m) = On("STEP_RETRYING", n) => m = n
         /\ On("COMPENSATION_COMPLETED", m) = On("COMPENSATION_COMPLETED", n) => m = n
         /\ On("STEP_COMPLETED", m) # On("STEP_RETRYING", n)
         /\ On("STEP_COMPLETED", m) # On("COMPENSATION_COMPLETED", n)
         /\ On("STEP_RETRYING", m) # On("COMPENSATION_COMPLETED", n)
<1>1. \A t, k : On(t, k).type = t /\ On(t, k).step = k
  BY DEF On
<1> QED
  BY <1>1

LEMMA StepNotWhole ==
  ASSUME NEW m \in Steps,
         NEW e \in {Whole("COMPENSATION_STARTED"), Whole("WORKFLOW_COMPLETED"),
                   Whole("WORKFLOW_CANCELLED"), Whole("WORKFLOW_FAILED")}
  PROVE  /\ e # On("STEP_COMPLETED", m)
         /\ e # On("STEP_RETRYING", m)
         /\ e # On("COMPENSATION_COMPLETED", m)
<1>1. \A t, n : On(t, n).type = t /\ Whole(t).type = t
  BY DEF On, Whole
<1>2. e.type \in {"COMPENSATION_STARTED", "WORKFLOW_COMPLETED", "WORKFLOW_CANCELLED",
                  "WORKFLOW_FAILED"}
  BY <1>1
<1> QED
  BY <1>1, <1>2

LEMMA WholeFacts ==
  \A t, u : Whole(t) = Whole(u) <=> t = u
BY DEF On, Whole

\* A step that records nothing that matters here.
LEMMA RecordsNothing ==
  ASSUME TypeOK, NEW s \in Seq(Event), history' = history \o s,
         \A e : Once(s, e), \A e : Has(s, e) => e \in Beside,
         exec'.state \in {"COMPLETED", "CANCELLED"} => exec'.state = exec.state,
         expire'.stage # "idle" =>
            expire.stage # "idle" \/ (Open(exec.state) /\ exec'.state = "FAILED")
  PROVE  Records(s)
<1>1. /\ \A n \in Steps : /\ ~Has(s, On("STEP_COMPLETED", n)) /\ ~Has(s, On("STEP_RETRYING", n))
                          /\ ~Has(s, On("COMPENSATION_COMPLETED", n))
      /\ ~Has(s, Whole("COMPENSATION_STARTED")) /\ ~Has(s, Whole("WORKFLOW_COMPLETED"))
      /\ ~Has(s, Whole("WORKFLOW_CANCELLED")) /\ ~Has(s, Whole("WORKFLOW_FAILED"))
  BY BesideFacts
<1> QED
  BY <1>1 DEF Records, RecordsWork, RecordsOutcome

\* Some sequence of events is what the step records.
Recorded == \E s : Records(s)

LEMMA RecordsSilence ==
  ASSUME TypeOK, UNCHANGED history,
         exec'.state \in {"COMPLETED", "CANCELLED"} => exec'.state = exec.state,
         expire'.stage # "idle" =>
            expire.stage # "idle" \/ (Open(exec.state) /\ exec'.state = "FAILED")
  PROVE  Recorded
<1>1. <<>> \in Seq(Event) /\ history' = history \o <<>>
  BY DEF TypeOK
<1>2. \A e : Once(<<>>, e) /\ ~Has(<<>>, e)
  BY Once0 DEF Has
<1> QED
  BY <1>1, <1>2, RecordsNothing DEF Recorded

\* What the end of a completion records.
LEMMA EndsRecord ==
  ASSUME IInv, Story, NEW w \in Workers, Ends(w)
  PROVE  Recorded
<1> USE DEF IInv
<1> DEFINE m == Step(w)
<1>1. /\ InFlight(w) /\ m \in Steps
      /\ holds[w].slot[1] = "task" => TaskDue(m)
      /\ holds[w].slot[1] = "comp" => CompDue(m) /\ WorkflowType = "SAGA"
  BY EndsRows, OwnDue DEF Story, CompDue, HistoryFits
<1>2. expire' = expire
  BY DEF Ends, RetryTask, RetryCompensation, FailTaskCommit, StartCompensationFails,
         NothingToCompensate, StartCompensation, StepDone, LastStepDone, AdvanceStep,
         FinishWorkflow, FailCompensation, FinishCompensation, NextCompensation
<1>3. IsTerminal(exec.state) <=> Closed(exec.state)
  BY <1>1, InFlightFacts, OpenOrClosed
<1>4. ~IsTerminal(exec.state) => Open(exec.state) /\ expire.stage = "idle"
  BY <1>1, InFlightFacts, OpenOrClosed DEF Open, RowsFitState
<1> HIDE DEF m
<1>5. /\ On("STEP_FAILED", m) \in Beside /\ On("COMPENSATION_FAILED", m) \in Beside
      /\ \A n \in Steps : On("STEP_SCHEDULED", n) \in Beside
      /\ Whole("SAGA_ROLLED_BACK") \in Beside /\ Whole("SAGA_ROLLBACK_FAILED") \in Beside
  BY <1>1 DEF Beside
<1>6. /\ \A e \in Beside : e \in Event
      /\ On("STEP_COMPLETED", m) \in Event /\ On("STEP_RETRYING", m) \in Event
      /\ On("COMPENSATION_COMPLETED", m) \in Event
      /\ Whole("COMPENSATION_STARTED") \in Event /\ Whole("WORKFLOW_FAILED") \in Event
      /\ Whole("WORKFLOW_COMPLETED") \in Event
  BY <1>1, EventFacts, BesideFacts
<1> DEFINE sc == On("STEP_COMPLETED", m)
           sr == On("STEP_RETRYING", m)
           cc == On("COMPENSATION_COMPLETED", m)
           begun == Whole("COMPENSATION_STARTED")
           completed == Whole("WORKFLOW_COMPLETED")
           failed == Whole("WORKFLOW_FAILED")
<1>7. CASE RetryCompensation(w)
  <2>1. history' = history /\ exec' = exec /\ expire' = expire
    BY <1>7 DEF RetryCompensation
  <2>2. exec'.state \in {"COMPLETED", "CANCELLED"} => exec'.state = exec.state
    BY <2>1
  <2>3. expire'.stage # "idle" =>
          expire.stage # "idle" \/ (Open(exec.state) /\ exec'.state = "FAILED")
    BY <2>1
  <2> QED
    BY <2>1, <2>2, <2>3, RecordsSilence
<1>8. CASE RetryTask(w)
  <2>1. <<sr>> \in Seq(Event) /\ history' = history \o <<sr>>
    BY <1>6, <1>8 DEF RetryTask, TypeOK, m
  <2>2. ~Begun /\ exec' = exec
    BY <1>1, <1>8 DEF RetryTask, Failing, TaskDue
  <2>3. \A e : Once(<<sr>>, e) /\ (Has(<<sr>>, e) <=> e = sr)
    BY Once1, Has1
  <2>4. RecordsWork(<<sr>>)
    BY <1>1, <1>8, <2>2, <2>3, StepEventFacts, StepNotWhole DEF RecordsWork, m
  <2>5. RecordsOutcome(<<sr>>)
    BY <1>1, <1>2, <2>2, <2>3, StepEventFacts, StepNotWhole DEF RecordsOutcome
  <2> QED
    BY <2>1, <2>4, <2>5 DEF Records, Recorded
<1>9. CASE StepDone(w) \/ AdvanceStep(w)
  <2>1. TaskDue(m) /\ exec'.state = exec.state
    BY <1>1, <1>9, EndsExec DEF StepDone, AdvanceStep, Succeeding
  <2>2. PICK s \in Seq(Event) :
          /\ history' = history \o s
          /\ \A e : Once(s, e) /\ (Has(s, e) => e = sc \/ e \in Beside)
    <3>1. CASE StepDone(w)
      <4>1. <<sc>> \in Seq(Event) /\ history' = history \o <<sc>>
        BY <1>6, <3>1 DEF StepDone, TypeOK, m
      <4> QED
        BY <4>1, Once1, Has1
    <3>2. CASE AdvanceStep(w)
      <4>1. PICK e \in Beside : history' = history \o <<sc, e>>
        BY <1>5, <3>2 DEF AdvanceStep, m
      <4>2. <<sc, e>> \in Seq(Event) /\ sc # e
        BY <1>6, <4>1, BesideFacts
      <4>3. \A f : Once(<<sc, e>>, f) /\ (Has(<<sc, e>>, f) <=> f = sc \/ f = e)
        BY <4>2, Once2, Has2
      <4> QED
        BY <4>1, <4>2, <4>3
    <3> QED
      BY <1>9, <3>1, <3>2
  <2>3. RecordsWork(s)
    BY <1>1, <2>1, <2>2, StepEventFacts, StepNotWhole, BesideFacts DEF RecordsWork
  <2>4. RecordsOutcome(s)
    BY <1>1, <1>2, <2>1, <2>2, StepEventFacts, StepNotWhole, BesideFacts DEF RecordsOutcome
  <2> QED
    BY <2>2, <2>3, <2>4 DEF Records, Recorded
<1>10. CASE LastStepDone(w) \/ FinishWorkflow(w)
  <2> DEFINE s == <<sc, completed>>
  <2>1. s \in Seq(Event) /\ history' = history \o s
    BY <1>6, <1>10 DEF LastStepDone, FinishWorkflow, m
  <2>2. TaskDue(m) /\ exec'.state = "COMPLETED" /\ Open(exec.state) /\ expire.stage = "idle"
    BY <1>1, <1>4, <1>10, EndsExec DEF LastStepDone, FinishWorkflow, Succeeding
  <2>3. \A e : Once(s, e) /\ (Has(s, e) <=> e = sc \/ e = completed)
    BY <1>1, StepEventFacts, StepNotWhole, Once2, Has2
  <2> HIDE DEF s
  <2>4. RecordsWork(s)
    BY <1>1, <2>2, <2>3, StepEventFacts, StepNotWhole, WholeFacts DEF RecordsWork
  <2>5. RecordsOutcome(s)
    BY <1>1, <1>2, <2>2, <2>3, StepEventFacts, StepNotWhole, WholeFacts DEF RecordsOutcome, Open
  <2> QED
    BY <2>1, <2>4, <2>5 DEF Records, Recorded
<1>11. CASE FailTaskCommit(w)
  <2> DEFINE s == <<On("STEP_FAILED", m), failed>>
  <2>1. s \in Seq(Event) /\ history' = history \o s
    BY <1>5, <1>6, <1>11 DEF FailTaskCommit, m
  <2>2. exec'.state = "FAILED" /\ Open(exec.state) /\ expire.stage = "idle"
    BY <1>4, <1>11, EndsExec
  <2>3. \A e : Once(s, e) /\ (Has(s, e) => e \in Beside \/ e = failed)
    BY <1>5, BesideFacts, Once2, Has2
  <2> HIDE DEF s
  <2>4. RecordsWork(s)
    BY <1>1, <2>3, StepEventFacts, StepNotWhole, BesideFacts, WholeFacts DEF RecordsWork
  <2>5. RecordsOutcome(s)
    BY <1>2, <2>2, <2>3, BesideFacts, WholeFacts DEF RecordsOutcome
  <2> QED
    BY <2>1, <2>4, <2>5 DEF Records, Recorded
\* of a SAGA that fails only COMPENSATION_STARTED matters, and WORKFLOW_FAILED
\* may be recorded more than once
<1>12. ASSUME WorkflowType = "SAGA", NEW s \in Seq(Event), history' = history \o s,
              \A e : Once(s, e),
              \A e : Has(s, e) => e \in Beside \/ e = begun \/ e = failed,
              exec'.state \in {"FAILED", "COMPENSATING"} \/ exec'.state = exec.state
       PROVE  Recorded
  <2>1. RecordsWork(s)
    BY <1>1, <1>12, StepEventFacts, StepNotWhole, BesideFacts, WholeFacts DEF RecordsWork
  <2>2. RecordsOutcome(s)
    BY <1>12, BesideFacts, WholeFacts DEF RecordsOutcome
  <2> QED
    BY <1>12, <2>1, <2>2 DEF Records, Recorded
<1>13. CASE StartCompensationFails(w)
  <2> DEFINE a == On("STEP_FAILED", m)
  <2>1. WorkflowType = "SAGA" /\ exec'.state \in {"FAILED", exec.state}
    BY <1>13, EndsExec DEF StartCompensationFails, SagaFailing
  <2>2. a # failed /\ a # begun /\ begun # failed
    BY <1>5, BesideFacts, WholeFacts
  <2>3. <<a, failed>> \in Seq(Event) /\ <<a, begun, failed>> \in Seq(Event)
    BY <1>5, <1>6
  <2>4. history' = history \o <<a, failed>> \/ history' = history \o <<a, begun, failed>>
    BY <1>13 DEF StartCompensationFails, m
  <2>5. \A e : /\ Once(<<a, failed>>, e) /\ Once(<<a, begun, failed>>, e)
               /\ (Has(<<a, failed>>, e) => e = a \/ e = failed)
               /\ (Has(<<a, begun, failed>>, e) => e = a \/ e = begun \/ e = failed)
    BY <2>2, Once2, Once3, Has2, Has3
  <2>6. CASE history' = history \o <<a, failed>>
    <3>1. \A e : Has(<<a, failed>>, e) => e \in Beside \/ e = begun \/ e = failed
      BY <1>5, <2>5
    <3> QED
      BY <1>12, <2>1, <2>3, <2>5, <2>6, <3>1
  <2>7. CASE history' = history \o <<a, begun, failed>>
    <3>1. \A e : Has(<<a, begun, failed>>, e) => e \in Beside \/ e = begun \/ e = failed
      BY <1>5, <2>5
    <3> QED
      BY <1>12, <2>1, <2>3, <2>5, <2>7, <3>1
  <2> QED
    BY <2>4, <2>6, <2>7
<1>14. CASE NothingToCompensate(w)
  <2> DEFINE a == On("STEP_FAILED", m)
             b == Whole("SAGA_ROLLED_BACK")
             s == <<a, begun, b, failed>>
  <2>1. WorkflowType = "SAGA" /\ exec'.state = "FAILED"
    BY <1>14, EndsExec DEF NothingToCompensate, SagaFailing
  <2>2. /\ a # failed /\ a # begun /\ a # b /\ begun # b /\ begun # failed /\ b # failed
    BY <1>5, BesideFacts, WholeFacts DEF On, Whole
  <2>3. s \in Seq(Event) /\ history' = history \o s
    BY <1>5, <1>6, <1>14 DEF NothingToCompensate, m
  <2>4. \A e : Once(s, e) /\ (Has(s, e) => e \in Beside \/ e = begun \/ e = failed)
    BY <1>5, <2>2, Once4, Has4
  <2> QED
    BY <1>12, <2>1, <2>3, <2>4
<1>15. CASE StartCompensation(w)
  <2>1. PICK b \in Beside : /\ b # On("STEP_FAILED", m)
                            /\ history' = history \o <<On("STEP_FAILED", m), begun, b>>
    BY <1>5, <1>15 DEF StartCompensation, m, On
  <2> DEFINE a == On("STEP_FAILED", m)
             s == <<a, begun, b>>
  <2>2. WorkflowType = "SAGA" /\ exec'.state = "COMPENSATING"
    BY <1>15, EndsExec DEF StartCompensation, SagaFailing
  <2>3. a # begun /\ a # b /\ begun # b
    BY <1>5, <2>1, BesideFacts
  <2>4. s \in Seq(Event) /\ history' = history \o s
    BY <1>5, <1>6, <2>1
  <2>5. \A e : Once(s, e) /\ (Has(s, e) => e \in Beside \/ e = begun \/ e = failed)
    BY <1>5, <2>1, <2>3, Once3, Has3
  <2> QED
    BY <1>12, <2>2, <2>4, <2>5
<1>16. CASE FailCompensation(w)
  <2> DEFINE a == On("COMPENSATION_FAILED", m)
             b == Whole("SAGA_ROLLBACK_FAILED")
             s == <<a, b, failed>>
  <2>1. WorkflowType = "SAGA" /\ exec'.state \in {"FAILED", exec.state}
    BY <1>1, <1>16, EndsExec DEF FailCompensation, FailingForGood, Failing
  <2>2. a # b /\ a # failed /\ b # failed
    BY <1>5, BesideFacts DEF On, Whole
  <2>3. s \in Seq(Event) /\ history' = history \o s
    BY <1>5, <1>6, <1>16 DEF FailCompensation, m
  <2>4. \A e : Once(s, e) /\ (Has(s, e) => e \in Beside \/ e = begun \/ e = failed)
    BY <1>5, <2>2, Once3, Has3
  <2> QED
    BY <1>12, <2>1, <2>3, <2>4
<1>17. ASSUME CompDue(m), WorkflowType = "SAGA", NEW s \in Seq(Event), history' = history \o s,
              \A e : Once(s, e),
              \A e : Has(s, e) => e \in Beside \/ e = cc \/ e = failed,
              exec'.state \in {"FAILED", exec.state}
       PROVE  Recorded
  <2>1. RecordsWork(s)
    BY <1>1, <1>17, StepEventFacts, StepNotWhole, BesideFacts, WholeFacts DEF RecordsWork
  <2>2. RecordsOutcome(s)
    BY <1>1, <1>17, StepEventFacts, StepNotWhole, BesideFacts, WholeFacts DEF RecordsOutcome
  <2> QED
    BY <1>17, <2>1, <2>2 DEF Records, Recorded
<1>18. CASE FinishCompensation(w)
  <2> DEFINE b == Whole("SAGA_ROLLED_BACK")
             s == <<cc, b, failed>>
  <2>1. CompDue(m) /\ WorkflowType = "SAGA" /\ exec'.state = "FAILED"
    BY <1>1, <1>18, EndsExec DEF FinishCompensation, Succeeding
  <2>2. cc # b /\ cc # failed /\ b # failed
    BY DEF On, Whole
  <2>3. s \in Seq(Event) /\ history' = history \o s
    BY <1>5, <1>6, <1>18 DEF FinishCompensation, m
  <2>4. \A e : Once(s, e) /\ (Has(s, e) => e \in Beside \/ e = cc \/ e = failed)
    BY <1>5, <2>2, Once3, Has3
  <2> QED
    BY <1>17, <2>1, <2>3, <2>4
<1>19. CASE NextCompensation(w)
  <2>1. PICK b \in Beside : history' = history \o <<cc, b>>
    BY <1>5, <1>19 DEF NextCompensation, m
  <2> DEFINE s == <<cc, b>>
  <2>2. CompDue(m) /\ WorkflowType = "SAGA" /\ exec'.state = exec.state
    BY <1>1, <1>19, EndsExec DEF NextCompensation, Succeeding
  <2>3. cc # b
    BY <2>1, BesideFacts
  <2>4. s \in Seq(Event) /\ history' = history \o s
    BY <1>6, <2>1
  <2>5. \A e : Once(s, e) /\ (Has(s, e) => e \in Beside \/ e = cc \/ e = failed)
    BY <2>1, <2>3, Once2, Has2
  <2> QED
    BY <1>17, <2>2, <2>4, <2>5
<1> QED
  BY <1>7, <1>8, <1>9, <1>10, <1>11, <1>13, <1>14, <1>15, <1>16, <1>18, <1>19 DEF Ends

-----------------------------------------------------------------------------
(* What the history says, and that it stays so.                             *)

\* The steps are done once and in order, and undone once, from the highest
\* down, and only once compensation has begun.
WorkFits ==
  \A n \in Steps :
    /\ Once(history, On("STEP_COMPLETED", n))
    /\ Once(history, On("COMPENSATION_COMPLETED", n))
    /\ WorkflowType # "INDEPENDENT" /\ n > 1 /\ Completed(n) =>
         First(history, On("STEP_COMPLETED", n - 1), On("STEP_COMPLETED", n))
    /\ ~First(history, Whole("COMPENSATION_STARTED"), On("STEP_COMPLETED", n))
    /\ ~First(history, Whole("COMPENSATION_STARTED"), On("STEP_RETRYING", n))
    /\ Undone(n) =>
         /\ n \in Compensable
         /\ First(history, Whole("COMPENSATION_STARTED"), On("COMPENSATION_COMPLETED", n))
         /\ First(history, On("STEP_COMPLETED", n), On("COMPENSATION_COMPLETED", n))
         /\ \A m \in Compensable : m > n /\ Completed(m) =>
              First(history, On("COMPENSATION_COMPLETED", m), On("COMPENSATION_COMPLETED", n))

\* The outcome is recorded once, and the sweeper's loop is about an execution
\* of which no failure is recorded yet.
OutcomeFits ==
  /\ Once(history, Whole("WORKFLOW_COMPLETED"))
  /\ Once(history, Whole("WORKFLOW_CANCELLED"))
  /\ Logged(Whole("WORKFLOW_COMPLETED")) <=> exec.state = "COMPLETED"
  /\ Logged(Whole("WORKFLOW_CANCELLED")) <=> exec.state = "CANCELLED"
  /\ exec.state = "COMPLETED" => \A n \in Steps : Completed(n)
  /\ WorkflowType # "SAGA" =>
       /\ Once(history, Whole("WORKFLOW_FAILED"))
       /\ Logged(Whole("WORKFLOW_FAILED")) => exec.state = "FAILED"
       /\ expire.stage # "idle" =>
            exec.state = "FAILED" /\ ~Logged(Whole("WORKFLOW_FAILED"))

\* What the steps record that do not end a completion.
LEMMA AsideRecords ==
  ASSUME IInv, OutcomeFits, Aside \/ StartWorkflow
  PROVE  Recorded
<1> USE DEF IInv
<1>1. ASSUME NEW e \in Beside, history' = Append(history, e),
             exec'.state \in {"COMPLETED", "CANCELLED"} => exec'.state = exec.state,
             expire'.stage # "idle" => expire.stage # "idle"
      PROVE  Recorded
  <2>1. <<e>> \in Seq(Event) /\ history' = history \o <<e>>
    BY <1>1, BesideFacts DEF TypeOK
  <2>2. \A f : Once(<<e>>, f) /\ (Has(<<e>>, f) => f \in Beside)
    BY Once1, Has1
  <2> QED
    BY <1>1, <2>1, <2>2, RecordsNothing DEF Recorded
<1>2. Whole("WORKFLOW_STARTED") \in Beside /\ Whole("WORKFLOW_TIMED_OUT") \in Beside
  BY DEF Beside
<1>3. /\ Whole("WORKFLOW_CANCELLED") \in Event /\ Whole("WORKFLOW_FAILED") \in Event
  BY EventFacts
<1>4. CASE StartWorkflow
  <2>1. exec'.state = "RUNNING"
    BY <1>4, StartTells
  <2> QED
    BY <1>1, <1>2, <1>4, <2>1 DEF StartWorkflow
<1>5. CASE UNCHANGED vars
  BY <1>5, RecordsSilence DEF vars
<1>6. CASE (\E w \in Workers : Quiet(w)) \/ (\E s \in Slots : PollLost(s) \/ LeaseLapses(s))
  BY <1>6, RowsQuiet, RecordsSilence
<1>7. CASE CancelBegin \/ CancelTakesRow \/ CancelAborts
  BY <1>7, RecordsSilence DEF CancelBegin, CancelTakesRow, CancelAborts
<1>8. CASE CancelCommit
  <2> DEFINE x == Whole("WORKFLOW_CANCELLED")
  <2>1. <<x>> \in Seq(Event) /\ history' = history \o <<x>>
    BY <1>3, <1>8 DEF CancelCommit, TypeOK
  <2>2. \A e : Once(<<x>>, e) /\ (Has(<<x>>, e) <=> e = x)
    BY Once1, Has1
  <2>3. exec.state # "CANCELLED" /\ exec'.state = "CANCELLED" /\ expire' = expire
    BY <1>8, CancelChanges DEF CancelCommit
  <2>4. RecordsWork(<<x>>)
    BY <2>2, StepNotWhole, WholeFacts DEF RecordsWork
  <2>5. RecordsOutcome(<<x>>)
    BY <2>2, <2>3, WholeFacts DEF RecordsOutcome
  <2> QED
    BY <2>1, <2>4, <2>5 DEF Records, Recorded
<1>9. CASE ExpireOverdue
  <2>1. exec'.state = "FAILED" /\ exec.state \in {"RUNNING", "COMPENSATING"}
    <3>1. SaveError(exec, "timeout") \in Exec
      BY ExecFacts DEF TypeOK, Errors
    <3> QED
      BY <1>9, <3>1 DEF ExpireOverdue, RowsFitState, Exec
  <2> QED
    BY <1>9, <2>1, RecordsSilence DEF ExpireOverdue, Open
<1>10. CASE ExpireSweep \/ ExpireTakesRow \/ ExpireSwept \/ ExpireStatementFails
  <2>1. history' = history /\ exec' = exec /\ expire.stage # "idle"
    BY <1>10 DEF ExpireSweep, ExpireTakesRow, ExpireSwept, ExpireStatementFails
  <2> QED
    BY <2>1, RecordsSilence
<1>11. CASE ExpireTimedOut
  BY <1>1, <1>2, <1>11 DEF ExpireTimedOut
<1>12. CASE ExpireFailed
  <2> DEFINE f == Whole("WORKFLOW_FAILED")
  <2>1. <<f>> \in Seq(Event) /\ history' = history \o <<f>>
    BY <1>3, <1>12 DEF ExpireFailed, TypeOK
  <2>2. \A e : Once(<<f>>, e) /\ (Has(<<f>>, e) <=> e = f)
    BY Once1, Has1
  <2>3. exec' = exec /\ expire.stage # "idle" /\ expire'.stage = "idle"
    BY <1>12 DEF ExpireFailed, Idle
  <2>4. RecordsWork(<<f>>)
    BY <2>2, StepNotWhole, WholeFacts DEF RecordsWork
  <2>5. RecordsOutcome(<<f>>)
    BY <2>2, <2>3, WholeFacts DEF RecordsOutcome, OutcomeFits
  <2> QED
    BY <2>1, <2>4, <2>5 DEF Records, Recorded
<1>13. CASE ServerCrash
  BY <1>13, RecordsSilence DEF ServerCrash, Idle
<1>14. CASE RecoverWorkflows
  BY <1>14, RecordsSilence DEF RecoverWorkflows
<1> QED
  BY <1>4, <1>5, <1>6, <1>7, <1>8, <1>9, <1>10, <1>11, <1>12, <1>13, <1>14
     DEF Aside, CancelWorkflow, ExpireOverdueWorkflows

\* What is recorded of the work fits what was recorded before.
LEMMA WorkFitsStep ==
  ASSUME TypeOK, Story, WorkFits, NEW s, Records(s)
  PROVE  WorkFits'
<1> DEFINE sc(n) == On("STEP_COMPLETED", n)
           sr(n) == On("STEP_RETRYING", n)
           cc(n) == On("COMPENSATION_COMPLETED", n)
           begun == Whole("COMPENSATION_STARTED")
<1>1. history \in Seq(Event) /\ s \in Seq(Event) /\ history' = history \o s /\ RecordsWork(s)
  BY DEF Records, TypeOK
<1>2. \A e : Logged(e)' <=> Logged(e) \/ Has(s, e)
  <2>1. \A e : Has(history', e) <=> Has(history, e) \/ Has(s, e)
    BY <1>1, HasConcat
  <2> QED
    BY <2>1 DEF Logged, Has
<1>3. \A e : Logged(e) <=> Has(history, e)
  BY DEF Logged, Has
<1>4. \A a, b : /\ First(history, a, b) => First(history', a, b)
                /\ Logged(a) /\ Has(s, b) => First(history', a, b)
                /\ First(history', a, b) => First(history, a, b) \/ Has(s, b)
                /\ First(history', a, b) => Logged(a)'
                /\ First(history, a, b) => Logged(a) /\ Logged(b)
  <2>1. \A a, b : /\ First(history', a, b) => Logged(a)'
                  /\ First(history, a, b) => Logged(a) /\ Logged(b)
    BY DEF First, Logged
  <2> QED
    BY <1>1, <1>3, <2>1, LogGrows
<1>5. \A e : Once(history, e) /\ ~(Logged(e) /\ Has(s, e)) => Once(history', e)
  BY <1>1, <1>3, LogGrows DEF RecordsWork
<1>6. \A n \in Steps : /\ Completed(n) <=> Logged(sc(n))
                       /\ Completed(n)' <=> Logged(sc(n))'
                       /\ Undone(n) <=> Logged(cc(n))
                       /\ Undone(n)' <=> Logged(cc(n))'
  BY DEF Completed, Undone
<1>7. \A n \in Steps :
        /\ Has(s, sc(n)) => TaskDue(n) /\ ~Has(s, begun)
        /\ Has(s, sr(n)) => ~Begun /\ ~Has(s, begun)
        /\ Has(s, cc(n)) => CompDue(n)
  BY <1>1 DEF RecordsWork
<1>8. Begun <=> Logged(begun)
  BY DEF Begun
<1>9. \A n \in Steps : Undone(n) => Begun
  BY <1>4, <1>8 DEF WorkFits
<1> SUFFICES ASSUME NEW n \in Steps
             PROVE  /\ Once(history', sc(n))
                    /\ Once(history', cc(n))
                    /\ WorkflowType # "INDEPENDENT" /\ n > 1 /\ Completed(n)' =>
                         First(history', sc(n - 1), sc(n))
                    /\ ~First(history', begun, sc(n))
                    /\ ~First(history', begun, sr(n))
                    /\ Undone(n)' =>
                         /\ n \in Compensable
                         /\ First(history', begun, cc(n))
                         /\ First(history', sc(n), cc(n))
                         /\ \A m \in Compensable : m > n /\ Completed(m)' =>
                              First(history', cc(m), cc(n))
  BY DEF WorkFits
<1>10. /\ Once(history, sc(n)) /\ Once(history, cc(n))
       /\ WorkflowType # "INDEPENDENT" /\ n > 1 /\ Completed(n) =>
            First(history, sc(n - 1), sc(n))
       /\ ~First(history, begun, sc(n)) /\ ~First(history, begun, sr(n))
       /\ Undone(n) =>
            /\ n \in Compensable
            /\ First(history, begun, cc(n))
            /\ First(history, sc(n), cc(n))
            /\ \A m \in Compensable : m > n /\ Completed(m) =>
                 First(history, cc(m), cc(n))
  BY DEF WorkFits
<1> HIDE DEF sc, sr, cc, begun
<1>11. Once(history', sc(n))
  BY <1>5, <1>6, <1>7, <1>10 DEF TaskDue
<1>12. Has(s, cc(n)) => ~Undone(n)
  BY <1>7, UndoesOne DEF Story, UndoneSteps
<1>13. Once(history', cc(n))
  BY <1>5, <1>6, <1>10, <1>12
<1>14. ASSUME WorkflowType # "INDEPENDENT", n > 1, Completed(n)'
       PROVE  First(history', sc(n - 1), sc(n))
  <2>1. CASE Completed(n)
    BY <1>4, <1>10, <1>14, <2>1
  <2>2. CASE Has(s, sc(n))
    <3>1. n - 1 \in Steps /\ n - 1 < n
      BY <1>14, TotalStepsAssumption DEF Steps
    <3>2. Completed(n - 1)
      BY <1>7, <1>14, <2>2, <3>1 DEF TaskDue
    <3> QED
      BY <1>4, <1>6, <2>2, <3>1, <3>2
  <2> QED
    BY <1>2, <1>6, <1>14, <2>1, <2>2
<1>15. ~First(history', begun, sc(n)) /\ ~First(history', begun, sr(n))
  <2>1. Has(s, sc(n)) \/ Has(s, sr(n)) => ~Logged(begun)'
    BY <1>2, <1>7, <1>8 DEF TaskDue
  <2> QED
    BY <1>4, <1>10, <2>1
<1>16. ASSUME Undone(n)'
       PROVE  /\ n \in Compensable
              /\ First(history', begun, cc(n))
              /\ First(history', sc(n), cc(n))
              /\ \A m \in Compensable : m > n /\ Completed(m)' => First(history', cc(m), cc(n))
  <2>1. Begun
    BY <1>2, <1>6, <1>7, <1>9, <1>16 DEF CompDue
  <2>2. \A m \in Compensable : m \in Steps /\ (Completed(m)' => Completed(m))
    <3>1. \A m \in Compensable : m \in Steps
      BY CompensableAssumption
    <3> QED
      BY <1>2, <1>6, <1>7, <2>1, <3>1 DEF TaskDue
  <2>3. CASE Undone(n)
    BY <1>4, <1>10, <2>2, <2>3
  <2>4. CASE Has(s, cc(n))
    <3>1. n \in Compensable /\ Completed(n)
      BY <1>7, <2>4 DEF CompDue, ToCompensate
    <3>2. First(history', begun, cc(n)) /\ First(history', sc(n), cc(n))
      BY <1>4, <1>6, <1>8, <2>1, <2>4, <3>1
    <3>3. ASSUME NEW m \in Compensable, m > n, Completed(m)'
          PROVE  First(history', cc(m), cc(n))
      <4>1. Undone(m) /\ m \in Steps
        BY <1>7, <2>2, <2>4, <3>3 DEF CompDue, ToCompensate, UndoneSteps
      <4> QED
        BY <1>4, <1>6, <2>4, <4>1
    <3> QED
      BY <3>1, <3>2, <3>3
  <2> QED
    BY <1>2, <1>6, <1>16, <2>3, <2>4
<1> QED
  BY <1>11, <1>13, <1>14, <1>15, <1>16

\* What is recorded of the outcome fits it.
LEMMA OutcomeFitsStep ==
  ASSUME IInv, IInv', Story, Story', OutcomeFits, [Next]_vars, NEW s, Records(s)
  PROVE  OutcomeFits'
<1> DEFINE wc == Whole("WORKFLOW_COMPLETED")
           wx == Whole("WORKFLOW_CANCELLED")
           wf == Whole("WORKFLOW_FAILED")
<1>1. /\ history \in Seq(Event) /\ s \in Seq(Event) /\ history' = history \o s
      /\ RecordsWork(s) /\ RecordsOutcome(s)
  BY DEF Records, IInv, TypeOK
<1>2. \A e : Logged(e)' <=> Logged(e) \/ Has(s, e)
  <2>1. \A e : Has(history', e) <=> Has(history, e) \/ Has(s, e)
    BY <1>1, HasConcat
  <2> QED
    BY <2>1 DEF Logged, Has
<1>3. \A e : Once(history, e) /\ ~(Logged(e) /\ Has(s, e)) => Once(history', e)
  <2>1. \A e : Logged(e) <=> Has(history, e)
    BY DEF Logged, Has
  <2> QED
    BY <1>1, <2>1, LogGrows DEF RecordsWork
<1>4. /\ Has(s, wc) <=> exec.state # "COMPLETED" /\ exec'.state = "COMPLETED"
      /\ Has(s, wx) <=> exec.state # "CANCELLED" /\ exec'.state = "CANCELLED"
      /\ WorkflowType # "SAGA" =>
           /\ Has(s, wf) => /\ exec'.state = "FAILED" /\ expire'.stage = "idle"
                            /\ Open(exec.state) \/ expire.stage # "idle"
           /\ expire'.stage # "idle" =>
                expire.stage # "idle" \/ (Open(exec.state) /\ exec'.state = "FAILED")
  BY <1>1 DEF RecordsOutcome
<1>5. /\ Once(history, wc) /\ Once(history, wx)
      /\ Logged(wc) <=> exec.state = "COMPLETED"
      /\ Logged(wx) <=> exec.state = "CANCELLED"
      /\ WorkflowType # "SAGA" =>
           /\ Once(history, wf)
           /\ Logged(wf) => exec.state = "FAILED"
           /\ expire.stage # "idle" => exec.state = "FAILED" /\ ~Logged(wf)
  BY DEF OutcomeFits
<1>6. exec.state \in {"COMPLETED", "FAILED", "CANCELLED"} => exec'.state = exec.state
  <2>1. \A u \in {"COMPLETED", "FAILED", "CANCELLED"} : \A v : ~ValidTransition(u, v)
    BY DEF ValidTransition, validTransitions
  <2> QED
    BY <2>1, OutcomeStep DEF OutcomeKept
<1> HIDE DEF wc, wx, wf
<1>7. Once(history', wc) /\ Once(history', wx)
  BY <1>3, <1>4, <1>5
<1>8. /\ Logged(wc)' <=> exec'.state = "COMPLETED"
      /\ Logged(wx)' <=> exec'.state = "CANCELLED"
  BY <1>2, <1>4, <1>5, <1>6
<1>9. ASSUME exec'.state = "COMPLETED"
      PROVE  \A n \in Steps : Completed(n)'
  <2>1. CASE exec.state = "COMPLETED"
    BY <1>2, <2>1 DEF OutcomeFits, Completed
  <2>2. CASE exec.state # "COMPLETED"
    <3>1. Promise!Next
      BY PromiseStep
    <3>2. {n \in Steps : Completed(n)}' = Promise!Steps
      BY <1>9, <2>2, <3>1
         DEF Promise!Next, Promise!Start, Promise!Drop, Promise!Close, Promise!Report,
             Promise!Complete, Promise!BeginUndo, Promise!Undo
    <3> QED
      BY <3>2, Read
  <2> QED
    BY <2>1, <2>2
<1>10. ASSUME WorkflowType # "SAGA"
       PROVE  /\ Once(history', wf)
              /\ Logged(wf)' => exec'.state = "FAILED"
              /\ expire'.stage # "idle" => exec'.state = "FAILED" /\ ~Logged(wf)'
  <2>1. Has(s, wf) => ~Logged(wf)
    BY <1>4, <1>5, <1>10 DEF Open
  <2>2. Once(history', wf)
    BY <1>3, <1>5, <1>10, <2>1
  <2>3. Logged(wf)' => exec'.state = "FAILED"
    BY <1>2, <1>4, <1>5, <1>6, <1>10
  <2>4. expire'.stage # "idle" => exec'.state = "FAILED" /\ ~Logged(wf)'
    BY <1>2, <1>4, <1>5, <1>6, <1>10 DEF Open
  <2> QED
    BY <2>2, <2>3, <2>4
<1> QED
  BY <1>7, <1>8, <1>9, <1>10 DEF OutcomeFits, wc, wx, wf

\* The history fits in every reachable state.
LEMMA HistoryAlways == Spec => [](WorkFits /\ OutcomeFits)
<1>1. Init => WorkFits /\ OutcomeFits
  <2> SUFFICES ASSUME Init PROVE WorkFits /\ OutcomeFits
    OBVIOUS
  <2>1. \A e : Once(history, e) /\ ~Logged(e) /\ \A f : ~First(history, e, f)
    BY DEF Init, Once, Logged, First
  <2>2. exec.state = "NONE" /\ expire.stage = "idle"
    BY DEF Init, NoExec, Idle
  <2> QED
    BY <2>1, <2>2 DEF WorkFits, OutcomeFits, Completed, Undone
<1>2. /\ (IInv /\ Story) /\ (IInv /\ Story)' /\ WorkFits /\ OutcomeFits /\ [Next]_vars
      => (WorkFits /\ OutcomeFits)'
  <2> SUFFICES ASSUME IInv, Story, IInv', Story', WorkFits, OutcomeFits, [Next]_vars
               PROVE  WorkFits' /\ OutcomeFits'
    OBVIOUS
  <2>1. Recorded
    BY NextSplit, AsideRecords, EndsRecord
  <2>2. PICK s : Records(s)
    BY <2>1 DEF Recorded
  <2> QED
    BY <2>2, WorkFitsStep, OutcomeFitsStep DEF IInv
<1> QED
  BY <1>1, <1>2, StoryAlways, PTL DEF Spec

-----------------------------------------------------------------------------
(* What the runs check of the history.                                      *)

\* A step is recorded as completed at most once, whoever reports it and how
\* often, and the steps of a CHAIN or SAGA are completed in order.
THEOREM CompletedOnceInOrder == Spec => []StepsCompleteOnceInOrder
<1>1. WorkFits => StepsCompleteOnceInOrder
  BY TimesOf DEF WorkFits, StepsCompleteOnceInOrder, Before, First
<1> QED
  BY <1>1, HistoryAlways, PTL

\* A SAGA undoes only what was completed, each step once, and a step only after
\* every completed compensable step above it.
THEOREM UndoneInReverse == Spec => []CompensatesInReverse
<1>1. WorkFits => CompensatesInReverse
  <2> SUFFICES ASSUME WorkFits, NEW n \in Steps, Undone(n)
               PROVE  /\ n \in Compensable
                      /\ Before(On("STEP_COMPLETED", n), On("COMPENSATION_COMPLETED", n))
                      /\ Times(On("COMPENSATION_COMPLETED", n)) = 1
                      /\ \A m \in Compensable : m > n /\ Completed(m) =>
                           Before(On("COMPENSATION_COMPLETED", m), On("COMPENSATION_COMPLETED", n))
    BY DEF CompensatesInReverse
  <2>1. Times(On("COMPENSATION_COMPLETED", n)) = 1
    BY TimesOf DEF WorkFits, Undone
  <2> QED
    BY <2>1 DEF WorkFits, Before, First
<1> QED
  BY <1>1, HistoryAlways, PTL

\* Once compensation has begun no step is completed or retried any more, and no
\* step is undone before.
THEOREM NoWayBack == Spec => []NoStepAfterCompensation
<1>1. WorkFits => NoStepAfterCompensation
  BY DEF WorkFits, NoStepAfterCompensation, Before, First
<1> QED
  BY <1>1, HistoryAlways, PTL

\* The state of the execution and its history tell the same story of how it
\* ended.
THEOREM OutcomeRecorded == Spec => []OutcomeMatchesHistory
<1>1. OutcomeFits => OutcomeMatchesHistory
  <2> SUFFICES ASSUME OutcomeFits PROVE OutcomeMatchesHistory
    OBVIOUS
  <2>1. /\ (exec.state = "COMPLETED") = (Times(Whole("WORKFLOW_COMPLETED")) = 1)
        /\ (exec.state = "CANCELLED") = (Times(Whole("WORKFLOW_CANCELLED")) = 1)
    BY TimesOf DEF OutcomeFits
  <2>2. WorkflowType # "SAGA" /\ Logged(Whole("WORKFLOW_FAILED")) =>
          exec.state = "FAILED" /\ Times(Whole("WORKFLOW_FAILED")) = 1
    BY TimesOf DEF OutcomeFits
  <2> QED
    BY <2>1, <2>2 DEF OutcomeFits, OutcomeMatchesHistory
<1> QED
  BY <1>1, HistoryAlways, PTL

=============================================================================
