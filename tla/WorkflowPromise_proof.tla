------------------------ MODULE WorkflowPromise_proof ------------------------
(***************************************************************************)
(* Proof that an execution keeps its promise: WorkflowExecution, seen      *)
(* through its state, its history and its reports in flight, implements    *)
(* Workflow.  The tables say what is recorded: a task row that exists      *)
(* stands for the step that is due, a compensation row for the step that   *)
(* is to be undone next, and the two counters for how far that has come.   *)
(***************************************************************************)
EXTENDS WorkflowExecution_proof

-----------------------------------------------------------------------------
(* What is recorded.                                                        *)

\* A history goes on with what is appended to it.
LEMMA HasConcat ==
  ASSUME NEW h \in Seq(Event), NEW s \in Seq(Event), NEW e
  PROVE  Has(h \o s, e) <=> Has(h, e) \/ Has(s, e)
<1> DEFINE hs == h \o s
<1>1. /\ DOMAIN h = 1 .. Len(h) /\ DOMAIN s = 1 .. Len(s) /\ DOMAIN hs = 1 .. Len(h) + Len(s)
      /\ Len(h) \in Nat /\ Len(s) \in Nat
      /\ \A i \in 1 .. Len(h) : hs[i] = h[i]
      /\ \A i \in 1 .. Len(s) : hs[Len(h) + i] = s[i]
  OBVIOUS
<1> HIDE DEF hs
<1>2. ASSUME NEW i \in DOMAIN hs, hs[i] = e
      PROVE  Has(h, e) \/ Has(s, e)
  <2>1. CASE i <= Len(h)
    BY <1>1, <1>2, <2>1 DEF Has
  <2>2. CASE i > Len(h)
    <3>1. i - Len(h) \in 1 .. Len(s) /\ i = Len(h) + (i - Len(h))
      BY <1>1, <2>2
    <3>2. s[i - Len(h)] = e
      BY <1>1, <1>2, <3>1
    <3> QED
      BY <1>1, <3>1, <3>2 DEF Has
  <2> QED
    BY <1>1, <2>1, <2>2
<1>3. ASSUME NEW i \in DOMAIN h, h[i] = e
      PROVE  Has(hs, e)
  <2>1. i \in DOMAIN hs /\ hs[i] = e
    BY <1>1, <1>3
  <2> QED
    BY <2>1 DEF Has
<1>4. ASSUME NEW i \in DOMAIN s, s[i] = e
      PROVE  Has(hs, e)
  <2>1. Len(h) + i \in DOMAIN hs /\ hs[Len(h) + i] = e
    BY <1>1, <1>4
  <2> QED
    BY <2>1 DEF Has
<1>5. Has(hs, e) <=> Has(h, e) \/ Has(s, e)
  BY <1>2, <1>3, <1>4 DEF Has
<1> QED
  BY <1>5 DEF hs

\* What a transaction of at most four events records.
LEMMA Has1 ==
  ASSUME NEW a, NEW e
  PROVE  Has(<<a>>, e) <=> e = a
<1>1. /\ DOMAIN <<a>> = {1}
        /\ <<a>>[1] = a
  OBVIOUS
<1> QED
  BY <1>1 DEF Has

LEMMA Has2 ==
  ASSUME NEW a, NEW b, NEW e
  PROVE  Has(<<a, b>>, e) <=> e = a \/ e = b
<1>1. /\ DOMAIN <<a, b>> = {1, 2}
        /\ <<a, b>>[1] = a
        /\ <<a, b>>[2] = b
  OBVIOUS
<1> QED
  BY <1>1 DEF Has

LEMMA Has3 ==
  ASSUME NEW a, NEW b, NEW c, NEW e
  PROVE  Has(<<a, b, c>>, e) <=> e = a \/ e = b \/ e = c
<1>1. /\ DOMAIN <<a, b, c>> = {1, 2, 3}
        /\ <<a, b, c>>[1] = a
        /\ <<a, b, c>>[2] = b
        /\ <<a, b, c>>[3] = c
  OBVIOUS
<1> QED
  BY <1>1 DEF Has

LEMMA Has4 ==
  ASSUME NEW a, NEW b, NEW c, NEW d, NEW e
  PROVE  Has(<<a, b, c, d>>, e) <=> e = a \/ e = b \/ e = c \/ e = d
<1>1. /\ DOMAIN <<a, b, c, d>> = {1, 2, 3, 4}
        /\ <<a, b, c, d>>[1] = a
        /\ <<a, b, c, d>>[2] = b
        /\ <<a, b, c, d>>[3] = c
        /\ <<a, b, c, d>>[4] = d
  OBVIOUS
<1> QED
  BY <1>1 DEF Has

Begun == Logged(Whole("COMPENSATION_STARTED"))
RolledBack == Logged(Whole("SAGA_ROLLED_BACK"))

Done == {n \in Steps : Completed(n)}
UndoneSteps == {n \in Steps : Undone(n)}

\* A step that records s adds what s says and nothing else.
LEMMA Tells ==
  ASSUME TypeOK, NEW s \in Seq(Event), history' = history \o s
  PROVE  /\ \A n \in Steps : Completed(n)' <=> Completed(n) \/ Has(s, On("STEP_COMPLETED", n))
         /\ \A n \in Steps : Undone(n)' <=> Undone(n) \/ Has(s, On("COMPENSATION_COMPLETED", n))
         /\ Begun' <=> Begun \/ Has(s, Whole("COMPENSATION_STARTED"))
         /\ RolledBack' <=> RolledBack \/ Has(s, Whole("SAGA_ROLLED_BACK"))
<1>1. \A e : Has(history', e) <=> Has(history, e) \/ Has(s, e)
  BY HasConcat DEF TypeOK
<1>2. \A e : (Logged(e) <=> Has(history, e)) /\ (Logged(e)' <=> Has(history', e))
  BY DEF Logged, Has
<1> QED
  BY <1>1, <1>2 DEF Completed, Undone, Begun, RolledBack

SameDone == \A n \in Steps : Completed(n)' <=> Completed(n)
SameUndone == \A n \in Steps : Undone(n)' <=> Undone(n)
SameBegun == Begun' <=> Begun
SameRolledBack == RolledBack' <=> RolledBack

\* The step tells nothing new of what is done and undone.
SameStory == SameDone /\ SameUndone /\ SameBegun /\ SameRolledBack

\* The events that tell what is done and undone.
Telling == {On("STEP_COMPLETED", n) : n \in Steps}
             \union {On("COMPENSATION_COMPLETED", n) : n \in Steps}
             \union {Whole("COMPENSATION_STARTED"), Whole("SAGA_ROLLED_BACK")}

\* A step that records none of them tells nothing new.
LEMMA TellsNothing ==
  ASSUME TypeOK, NEW s \in Seq(Event), history' = history \o s,
         \A e \in Telling : ~Has(s, e)
  PROVE  SameStory
<1>1. \A n \in Steps : /\ ~Has(s, On("STEP_COMPLETED", n))
                     /\ ~Has(s, On("COMPENSATION_COMPLETED", n))
  BY DEF Telling
<1>2. ~Has(s, Whole("COMPENSATION_STARTED")) /\ ~Has(s, Whole("SAGA_ROLLED_BACK"))
  BY DEF Telling
<1> QED
  BY <1>1, <1>2, Tells DEF SameStory, SameDone, SameUndone, SameBegun, SameRolledBack

\* The other events are none of them.
LEMMA NotTelling ==
  /\ \A n \in Steps : /\ On("STEP_SCHEDULED", n) \notin Telling
                      /\ On("STEP_FAILED", n) \notin Telling
                      /\ On("STEP_RETRYING", n) \notin Telling
                      /\ On("COMPENSATION_FAILED", n) \notin Telling
  /\ Whole("WORKFLOW_STARTED") \notin Telling
  /\ Whole("WORKFLOW_COMPLETED") \notin Telling
  /\ Whole("WORKFLOW_FAILED") \notin Telling
  /\ Whole("WORKFLOW_CANCELLED") \notin Telling
  /\ Whole("WORKFLOW_TIMED_OUT") \notin Telling
  /\ Whole("SAGA_ROLLBACK_FAILED") \notin Telling
BY DEF Telling, On, Whole

\* The events that tell something differ from each other.
LEMMA TellingApart ==
  ASSUME NEW n \in Steps
  PROVE  /\ On("STEP_COMPLETED", n) \in Telling
         /\ On("COMPENSATION_COMPLETED", n) \in Telling
         /\ Whole("COMPENSATION_STARTED") \in Telling
         /\ Whole("SAGA_ROLLED_BACK") \in Telling
         /\ \A m : On("STEP_COMPLETED", m) = On("STEP_COMPLETED", n) <=> m = n
         /\ \A m : On("COMPENSATION_COMPLETED", m) = On("COMPENSATION_COMPLETED", n) <=> m = n
         /\ \A m : On("STEP_COMPLETED", m) # On("COMPENSATION_COMPLETED", n)
         /\ \A m : /\ On("STEP_COMPLETED", m) # Whole("COMPENSATION_STARTED")
                   /\ On("STEP_COMPLETED", m) # Whole("SAGA_ROLLED_BACK")
                   /\ On("COMPENSATION_COMPLETED", m) # Whole("COMPENSATION_STARTED")
                   /\ On("COMPENSATION_COMPLETED", m) # Whole("SAGA_ROLLED_BACK")
         /\ Whole("COMPENSATION_STARTED") # Whole("SAGA_ROLLED_BACK")
BY DEF On, Whole, Telling

\* What the steps by which a completion ends record of it.
LEMMA EndsTell ==
  ASSUME IInv, NEW w \in Workers, Ends(w)
  PROVE  /\ Step(w) \in Steps
         /\ RetryTask(w) \/ RetryCompensation(w) \/ FailTaskCommit(w) \/ FailCompensation(w) =>
              SameStory
         /\ StartCompensationFails(w) =>
              /\ SameDone /\ SameUndone /\ SameRolledBack
              /\ Begun' <=> Begun \/ ~Conflict(exec)
         /\ NothingToCompensate(w) => SameDone /\ SameUndone /\ Begun' /\ RolledBack'
         /\ StartCompensation(w) => SameDone /\ SameUndone /\ Begun' /\ SameRolledBack
         /\ StepDone(w) \/ LastStepDone(w) \/ AdvanceStep(w) \/ FinishWorkflow(w) =>
              /\ \A n \in Steps : Completed(n)' <=> Completed(n) \/ n = Step(w)
              /\ SameUndone /\ SameBegun /\ SameRolledBack
         /\ FinishCompensation(w) \/ NextCompensation(w) =>
              /\ \A n \in Steps : Undone(n)' <=> Undone(n) \/ n = Step(w)
              /\ SameDone /\ SameBegun
              /\ IF FinishCompensation(w) THEN RolledBack' ELSE SameRolledBack
<1> USE DEF IInv
<1> DEFINE m == Step(w)
<1>1. m \in Steps /\ history \in Seq(Event)
  BY EndsRows, InFlightFacts DEF TypeOK
<1> HIDE DEF m
<1>2. ASSUME RetryTask(w) \/ RetryCompensation(w) \/ FailTaskCommit(w) \/ FailCompensation(w)
      PROVE  SameStory
  <2>1. CASE RetryTask(w)
    <3> DEFINE s == <<On("STEP_RETRYING", m)>>
    <3>1. s \in Seq(Event) /\ history' = history \o s
      BY <1>1, <2>1, EventFacts DEF RetryTask, m
    <3>2. \A e \in Telling : ~Has(s, e)
      BY <1>1, Has1, Has2, Has3, NotTelling
    <3> HIDE DEF s
    <3> QED
      BY <3>1, <3>2, TellsNothing
  <2>2. CASE RetryCompensation(w)
    BY <2>2 DEF RetryCompensation, SameStory, SameDone, SameUndone, SameBegun,
                SameRolledBack, Completed, Undone, Begun, RolledBack, Logged
  <2>3. CASE FailTaskCommit(w)
    <3> DEFINE s == <<On("STEP_FAILED", m), Whole("WORKFLOW_FAILED")>>
    <3>1. s \in Seq(Event) /\ history' = history \o s
      BY <1>1, <2>3, EventFacts DEF FailTaskCommit, m
    <3>2. \A e \in Telling : ~Has(s, e)
      BY <1>1, Has1, Has2, Has3, NotTelling
    <3> HIDE DEF s
    <3> QED
      BY <3>1, <3>2, TellsNothing
  <2>4. CASE FailCompensation(w)
    <3> DEFINE s == <<On("COMPENSATION_FAILED", m), Whole("SAGA_ROLLBACK_FAILED"),
                      Whole("WORKFLOW_FAILED")>>
    <3>1. s \in Seq(Event) /\ history' = history \o s
      BY <1>1, <2>4, EventFacts DEF FailCompensation, m
    <3>2. \A e \in Telling : ~Has(s, e)
      BY <1>1, Has1, Has2, Has3, NotTelling
    <3> HIDE DEF s
    <3> QED
      BY <3>1, <3>2, TellsNothing
  <2> QED
    BY <1>2, <2>1, <2>2, <2>3, <2>4
<1> USE DEF SameDone, SameUndone, SameBegun, SameRolledBack
<1>3. ASSUME StartCompensationFails(w)
      PROVE  /\ SameDone /\ SameUndone /\ SameRolledBack
             /\ Begun' <=> Begun \/ ~Conflict(exec)
  <2> DEFINE a == On("STEP_FAILED", m)
             b == Whole("COMPENSATION_STARTED")
             c == Whole("WORKFLOW_FAILED")
  <2>1. a \in Event /\ b \in Event /\ c \in Event
    BY <1>1, EventFacts
  <2>2. history' = history \o IF Conflict(exec) THEN <<a, c>> ELSE <<a, b, c>>
    BY <1>3 DEF StartCompensationFails, m
  <2>3. a \notin Telling /\ c \notin Telling
    BY <1>1, NotTelling
  <2> HIDE DEF a, c
  <2>4. CASE Conflict(exec)
    <3>1. <<a, c>> \in Seq(Event) /\ history' = history \o <<a, c>>
      BY <2>1, <2>2, <2>4
    <3>2. \A e \in Telling : ~Has(<<a, c>>, e)
      BY <2>3, Has2
    <3>3. SameStory
      BY <3>1, <3>2, TellsNothing
    <3> QED
      BY <2>4, <3>3 DEF SameStory
  <2>5. CASE ~Conflict(exec)
    <3> DEFINE s == <<a, b, c>>
    <3>1. s \in Seq(Event) /\ history' = history \o s
      BY <2>1, <2>2, <2>5
    <3>2. \A e : Has(s, e) <=> e = a \/ e = b \/ e = c
      BY Has3
    <3> HIDE DEF s
    <3>3. /\ \A n \in Steps : ~Has(s, On("STEP_COMPLETED", n))
          /\ \A n \in Steps : ~Has(s, On("COMPENSATION_COMPLETED", n))
          /\ Has(s, Whole("COMPENSATION_STARTED")) /\ ~Has(s, Whole("SAGA_ROLLED_BACK"))
      BY <1>1, <2>3, <3>2, TellingApart
    <3> QED
      BY <2>5, <3>1, <3>3, Tells
  <2> QED
    BY <2>4, <2>5
<1>4. ASSUME NothingToCompensate(w)
      PROVE  SameDone /\ SameUndone /\ Begun' /\ RolledBack'
  <2> DEFINE s == <<On("STEP_FAILED", m), Whole("COMPENSATION_STARTED"),
                    Whole("SAGA_ROLLED_BACK"), Whole("WORKFLOW_FAILED")>>
  <2>1. s \in Seq(Event) /\ history' = history \o s
    BY <1>1, <1>4, EventFacts DEF NothingToCompensate, m
  <2>2. \A e : Has(s, e) <=>
          \/ e = On("STEP_FAILED", m)
          \/ e = Whole("COMPENSATION_STARTED")
          \/ e = Whole("SAGA_ROLLED_BACK")
          \/ e = Whole("WORKFLOW_FAILED")
    BY Has1, Has2, Has3, Has4
  <2> HIDE DEF s
  <2> QED
    BY <2>1, <2>2, Tells DEF On, Whole
<1>5. ASSUME StartCompensation(w)
      PROVE  SameDone /\ SameUndone /\ Begun' /\ SameRolledBack
  <2>1. PICK n \in Steps :
          history' = history \o <<On("STEP_FAILED", m), Whole("COMPENSATION_STARTED"),
                                  On("STEP_SCHEDULED", n)>>
    BY <1>5 DEF StartCompensation, m
  <2> DEFINE s == <<On("STEP_FAILED", m), Whole("COMPENSATION_STARTED"),
                    On("STEP_SCHEDULED", n)>>
  <2>2. s \in Seq(Event) /\ history' = history \o s
    BY <1>1, <2>1, EventFacts
  <2>3. \A e : Has(s, e) <=>
          \/ e = On("STEP_FAILED", m)
          \/ e = Whole("COMPENSATION_STARTED")
          \/ e = On("STEP_SCHEDULED", n)
    BY Has1, Has2, Has3, Has4
  <2> HIDE DEF s
  <2> QED
    BY <2>2, <2>3, Tells DEF On, Whole
<1>6. ASSUME StepDone(w) \/ LastStepDone(w) \/ AdvanceStep(w) \/ FinishWorkflow(w)
      PROVE  /\ \A n \in Steps : Completed(n)' <=> Completed(n) \/ n = m
             /\ SameUndone /\ SameBegun /\ SameRolledBack
  <2> DEFINE done == On("STEP_COMPLETED", m)
  <2>1. ASSUME NEW s \in Seq(Event), history' = history \o s,
               NEW d, d \in Telling => d = done,
               \A e : Has(s, e) <=> e = done \/ e = d
        PROVE  /\ \A n \in Steps : Completed(n)' <=> Completed(n) \/ n = m
               /\ SameUndone /\ SameBegun /\ SameRolledBack
    <3>1. \A n \in Steps : Has(s, On("STEP_COMPLETED", n)) <=> n = m
      BY <1>1, <2>1, TellingApart
    <3>2. \A n \in Steps : ~Has(s, On("COMPENSATION_COMPLETED", n))
      BY <1>1, <2>1, TellingApart
    <3>3. ~Has(s, Whole("COMPENSATION_STARTED")) /\ ~Has(s, Whole("SAGA_ROLLED_BACK"))
      BY <1>1, <2>1, TellingApart
    <3> QED
      BY <2>1, <3>1, <3>2, <3>3, Tells
  <2>2. CASE StepDone(w)
    <3>1. <<done>> \in Seq(Event) /\ history' = history \o <<done>>
      BY <1>1, <2>2, EventFacts DEF StepDone, m
    <3>2. \A e : Has(<<done>>, e) <=> e = done \/ e = done
      BY Has1, Has2, Has3, Has4
    <3> QED
      BY <2>1, <3>1, <3>2
  <2>3. ASSUME NEW d \in Event, d \notin Telling,
               history' = history \o <<done, d>>
        PROVE  /\ \A n \in Steps : Completed(n)' <=> Completed(n) \/ n = m
               /\ SameUndone /\ SameBegun /\ SameRolledBack
    <3>1. <<done, d>> \in Seq(Event)
      BY <1>1, <2>3, EventFacts
    <3>2. \A e : Has(<<done, d>>, e) <=> e = done \/ e = d
      BY Has1, Has2, Has3, Has4
    <3> QED
      BY <2>1, <2>3, <3>1, <3>2
  <2>4. CASE LastStepDone(w) \/ FinishWorkflow(w)
    <3>1. history' = history \o <<done, Whole("WORKFLOW_COMPLETED")>>
      BY <2>4 DEF LastStepDone, FinishWorkflow, m
    <3> QED
      BY <2>3, <3>1, EventFacts, NotTelling
  <2>5. CASE AdvanceStep(w)
    <3>1. m + 1 \in Steps /\ history' = history \o <<done, On("STEP_SCHEDULED", m + 1)>>
      BY <2>5 DEF AdvanceStep, m
    <3> QED
      BY <2>3, <3>1, EventFacts, NotTelling
  <2> QED
    BY <1>6, <2>2, <2>4, <2>5
<1>7. ASSUME FinishCompensation(w) \/ NextCompensation(w)
      PROVE  /\ \A n \in Steps : Undone(n)' <=> Undone(n) \/ n = m
             /\ SameDone /\ SameBegun
             /\ IF FinishCompensation(w) THEN RolledBack' ELSE SameRolledBack
  <2>1. CASE FinishCompensation(w)
    <3> DEFINE s == <<On("COMPENSATION_COMPLETED", m), Whole("SAGA_ROLLED_BACK"),
                      Whole("WORKFLOW_FAILED")>>
    <3>1. s \in Seq(Event) /\ history' = history \o s
      BY <1>1, <2>1, EventFacts DEF FinishCompensation, m
    <3>2. \A e : Has(s, e) <=>
            \/ e = On("COMPENSATION_COMPLETED", m)
            \/ e = Whole("SAGA_ROLLED_BACK")
            \/ e = Whole("WORKFLOW_FAILED")
      BY Has1, Has2, Has3, Has4
    <3> HIDE DEF s
    <3> QED
      BY <2>1, <3>1, <3>2, Tells DEF On, Whole
  <2>2. CASE ~FinishCompensation(w)
    <3>1. PICK n \in Steps :
            history' = history \o <<On("COMPENSATION_COMPLETED", m), On("STEP_SCHEDULED", n)>>
      BY <1>7, <2>2 DEF NextCompensation, m
    <3> DEFINE s == <<On("COMPENSATION_COMPLETED", m), On("STEP_SCHEDULED", n)>>
    <3>2. s \in Seq(Event) /\ history' = history \o s
      BY <1>1, <3>1, EventFacts
    <3>3. \A e : Has(s, e) <=>
            e = On("COMPENSATION_COMPLETED", m) \/ e = On("STEP_SCHEDULED", n)
      BY Has1, Has2, Has3, Has4
    <3> HIDE DEF s
    <3> QED
      BY <2>2, <3>2, <3>3, Tells DEF On, Whole
  <2> QED
    BY <2>1, <2>2
<1> QED
  BY <1>1, <1>2, <1>3, <1>4, <1>5, <1>6, <1>7 DEF m

-----------------------------------------------------------------------------
(* The story.  What the rows say of the history is what the completions rely *)
(* on when they decide on the row they have.                                *)

ToCompensate == {n \in Compensable : Completed(n)}

\* What the history says by itself: only a SAGA is undone, only what was
\* completed, and a full rollback is announced when nothing is left.
HistoryFits ==
  /\ Begun => WorkflowType = "SAGA"
  /\ ~Begun => ~RolledBack /\ exec.compDone = 0 /\ UndoneSteps = {}
  /\ UndoneSteps \subseteq ToCompensate
  /\ RolledBack => ToCompensate \subseteq UndoneSteps

\* A task row is about a step that is due.
TaskDue(n) ==
  /\ ~Begun
  /\ ~Completed(n)
  /\ WorkflowType # "INDEPENDENT" => \A m \in Steps : Completed(m) <=> m < n

\* A compensation row is about the step to be undone next, and the counters
\* say how many there are and how many are done.
CompDue(n) ==
  /\ Begun /\ ~RolledBack
  /\ n \in ToCompensate
  /\ UndoneSteps = {m \in ToCompensate : m > n}
  /\ exec.compTotal = Cardinality(ToCompensate)
  /\ exec.compDone = Cardinality(UndoneSteps)

RowsDue ==
  \A n \in Steps : /\ rows[Task(n)].state # "NONE" => TaskDue(n)
                   /\ rows[Comp(n)].state # "NONE" => CompDue(n)

\* What is saved is saved before it is recorded.
Saved ==
  /\ \A w \in Workers : call[w].stage = "saved" => Step(w) \in checkpoint
  /\ CheckpointCoversCompleted

Story == HistoryFits /\ RowsDue /\ Saved

\* A step that tells nothing new and creates no row leaves the story as it is.
LEMMA StoryKept ==
  ASSUME HistoryFits, RowsDue, SameStory,
         exec'.compTotal = exec.compTotal, exec'.compDone = exec.compDone,
         \A s \in Slots : rows'[s].state # "NONE" => rows[s].state # "NONE"
  PROVE  HistoryFits' /\ RowsDue'
<1>1. ToCompensate' = ToCompensate /\ UndoneSteps' = UndoneSteps
  BY CompensableAssumption DEF ToCompensate, UndoneSteps, SameStory, SameDone, SameUndone
<1>2. HistoryFits'
  BY <1>1 DEF HistoryFits, SameStory, SameBegun, SameRolledBack
<1>3. ASSUME NEW n \in Steps, TaskDue(n) PROVE TaskDue(n)'
  BY <1>3 DEF TaskDue, SameStory, SameDone, SameBegun
<1>4. ASSUME NEW n \in Steps, CompDue(n) PROVE CompDue(n)'
  BY <1>1, <1>4 DEF CompDue, SameStory, SameBegun, SameRolledBack
<1>5. \A n \in Steps : Task(n) \in Slots /\ Comp(n) \in Slots
  BY SlotFacts DEF Task, Comp, Kinds
<1> QED
  BY <1>2, <1>3, <1>4, <1>5 DEF RowsDue

\* The kind of row a completion has, and what it is about.
LEMMA OwnDue ==
  ASSUME IInv, RowsDue, NEW w \in Workers, InFlight(w)
  PROVE  /\ Step(w) \in Steps
         /\ holds[w].slot[1] = "task" => holds[w].slot = Task(Step(w)) /\ TaskDue(Step(w))
         /\ holds[w].slot[1] = "comp" => holds[w].slot = Comp(Step(w)) /\ CompDue(Step(w))
         /\ holds[w].slot[1] \in {"task", "comp"}
<1>1. /\ Step(w) \in Steps /\ holds[w].slot \in Slots
      /\ holds[w].slot = <<holds[w].slot[1], Step(w)>>
      /\ rows[holds[w].slot].state # "NONE"
  BY InFlightFacts DEF IInv, Own
<1>2. holds[w].slot[1] \in {"task", "comp"}
  BY <1>1, SlotFacts DEF Kinds
<1> QED
  BY <1>1, <1>2 DEF RowsDue, Task, Comp

\* The rows after a completion that leaves none, or but for an INDEPENDENT
\* execution one.
LEMMA RowsLeft ==
  ASSUME IInv, NEW w \in Workers, InFlight(w)
  PROVE  /\ rows' = WithoutOwn(w) =>
              \A s \in Slots : rows'[s].state # "NONE" =>
                rows[s].state # "NONE" /\ s # holds[w].slot
         /\ WorkflowType # "INDEPENDENT" =>
              \A r, a, m : rows' = [WithoutOwn(w) EXCEPT ![r] = Created(@, a, m)] =>
                \A s \in Slots : rows'[s].state # "NONE" => s = r
<1>1. holds[w].slot \in Slots
  BY InFlightFacts DEF IInv
<1>2. ASSUME rows' = WithoutOwn(w)
      PROVE  \A s \in Slots : rows'[s].state # "NONE" =>
               rows[s].state # "NONE" /\ s # holds[w].slot
  BY <1>1, <1>2, RowsKept DEF IInv
<1>3. ASSUME WorkflowType # "INDEPENDENT", NEW r, NEW a, NEW m,
             rows' = [WithoutOwn(w) EXCEPT ![r] = Created(@, a, m)],
             NEW s \in Slots, rows'[s].state # "NONE"
      PROVE  s = r
  BY <1>1, <1>3, OnlyRow, RowsKept DEF IInv
<1> QED
  BY <1>2, <1>3

\* The steps to undo are finitely many, and ToUndo lists them up to a step.
LEMMA CompensateFacts ==
  /\ ToCompensate \subseteq Steps
  /\ IsFiniteSet(ToCompensate)
  /\ \A j : ToUndo(j) = {m \in ToCompensate : m <= j}
<1>1. ToCompensate \subseteq Steps
  BY CompensableAssumption DEF ToCompensate
<1>2. IsFiniteSet(Steps)
  BY FS_Interval, TotalStepsAssumption DEF Steps
<1>3. \A j : ToUndo(j) = {m \in ToCompensate : m <= j}
  BY DEF ToUndo, ToCompensate, Completed
<1> QED
  BY <1>1, <1>2, <1>3, FS_Subset

\* One step is undone more: the count goes on, and the rollback ends exactly
\* when everything is undone.
LEMMA UndoesOne ==
  ASSUME HistoryFits, NEW n \in Steps, CompDue(n)
  PROVE  /\ n \notin UndoneSteps
         /\ UndoneSteps \union {n} = {m \in ToCompensate : m >= n}
         /\ Cardinality(UndoneSteps \union {n}) = exec.compDone + 1
         /\ exec.compDone + 1 >= exec.compTotal \/ ToUndo(n - 1) = {}
              => ToCompensate = UndoneSteps \union {n}
<1>1. ToCompensate \subseteq Steps /\ n \in ToCompensate
  BY CompensateFacts DEF CompDue
<1>2. n \notin UndoneSteps /\ UndoneSteps \union {n} = {m \in ToCompensate : m >= n}
  BY <1>1, StepFacts DEF CompDue
<1>3. IsFiniteSet(UndoneSteps) /\ UndoneSteps \union {n} \subseteq ToCompensate
  BY <1>1, CompensateFacts, FS_Subset DEF CompDue
<1>4. Cardinality(UndoneSteps \union {n}) = exec.compDone + 1
  BY <1>2, <1>3, FS_AddElement DEF CompDue
<1>5. ASSUME exec.compDone + 1 >= exec.compTotal
      PROVE  ToCompensate = UndoneSteps \union {n}
  <2> DEFINE done == UndoneSteps \union {n}
  <2>1. /\ Cardinality(done) <= Cardinality(ToCompensate)
        /\ Cardinality(done) = Cardinality(ToCompensate) => done = ToCompensate
        /\ Cardinality(done) \in Nat /\ Cardinality(ToCompensate) \in Nat
    BY <1>3, CompensateFacts, FS_Subset, FS_CardinalityType
  <2>2. Cardinality(done) >= Cardinality(ToCompensate)
    BY <1>4, <1>5 DEF CompDue
  <2> HIDE DEF done
  <2>3. done = ToCompensate
    BY <2>1, <2>2
  <2> QED
    BY <2>3 DEF done
<1>6. ASSUME ToUndo(n - 1) = {}
      PROVE  ToCompensate = UndoneSteps \union {n}
  <2>1. \A m \in ToCompensate : ~(m <= n - 1)
    BY <1>6, CompensateFacts
  <2> QED
    BY <1>1, <1>2, <2>1, StepFacts
<1> QED
  BY <1>2, <1>4, <1>5, <1>6

\* The operations on the execution row leave the counters of the rollback alone.
LEMMA CounterFacts ==
  ASSUME NEW e \in Exec
  PROVE  /\ \A t : /\ UpdateState(e, t).compTotal = e.compTotal
                   /\ UpdateState(e, t).compDone = e.compDone
                   /\ UpdateStepCursor(e, t).compTotal = e.compTotal
                   /\ UpdateStepCursor(e, t).compDone = e.compDone
                   /\ SaveError(e, t).compTotal = e.compTotal
                   /\ SaveError(e, t).compDone = e.compDone
                   /\ SetCompensationTotal(e, t).compTotal = t
                   /\ SetCompensationTotal(e, t).compDone = e.compDone
         /\ SaveResult(e).compTotal = e.compTotal
         /\ SaveResult(e).compDone = e.compDone
         /\ IncrementCompletedSteps(e).compTotal = e.compTotal
         /\ IncrementCompletedSteps(e).compDone = e.compDone
         /\ IncrementCompensationDone(e).compTotal = e.compTotal
         /\ IncrementCompensationDone(e).compDone = e.compDone + 1
BY DEF Exec, UpdateState, UpdateStepCursor, SaveError, SetCompensationTotal, SaveResult,
       IncrementCompletedSteps, IncrementCompensationDone

\* What the ends of a completion do to the counters.
LEMMA EndsCounters ==
  ASSUME IInv, NEW w \in Workers
  PROVE  /\ RetryTask(w) \/ RetryCompensation(w) \/ FailTaskCommit(w)
              \/ StartCompensationFails(w) \/ StepDone(w) \/ LastStepDone(w)
              \/ AdvanceStep(w) \/ FinishWorkflow(w) \/ FailCompensation(w) =>
              exec'.compTotal = exec.compTotal /\ exec'.compDone = exec.compDone
         /\ NothingToCompensate(w) => exec'.compDone = exec.compDone
         /\ StartCompensation(w) =>
              /\ exec'.compTotal = Cardinality(ToUndo(Step(w) - 1))
              /\ exec'.compDone = exec.compDone
         /\ NextCompensation(w) =>
              exec'.compTotal = exec.compTotal /\ exec'.compDone = exec.compDone + 1
<1>1. exec \in Exec /\ {"COMPENSATING", "FAILED", "COMPLETED"} \subseteq States
  BY StateFacts DEF IInv, TypeOK
<1>2. /\ UpdateState(exec, "COMPENSATING") \in Exec
      /\ SaveError(exec, "step") \in Exec
      /\ SaveError(exec, "rollback") \in Exec
      /\ SaveError(UpdateState(exec, "COMPENSATING"), "start") \in Exec
      /\ IncrementCompletedSteps(exec) \in Exec
      /\ UpdateState(IncrementCompletedSteps(exec), "COMPLETED") \in Exec
      /\ UpdateState(exec, "COMPLETED") \in Exec
      /\ SetCompensationTotal(UpdateState(exec, "COMPENSATING"), 0) \in Exec
  BY <1>1, ExecFacts DEF Errors
<1>3. RetryTask(w) \/ RetryCompensation(w) => exec' = exec
  BY DEF RetryTask, RetryCompensation
<1>4. FailTaskCommit(w) \/ StartCompensationFails(w) \/ StepDone(w) \/ LastStepDone(w)
        \/ AdvanceStep(w) \/ FinishWorkflow(w) \/ FailCompensation(w) =>
        exec'.compTotal = exec.compTotal /\ exec'.compDone = exec.compDone
  BY <1>1, <1>2, CounterFacts
     DEF FailTaskCommit, StartCompensationFails, StepDone, LastStepDone, AdvanceStep,
         FinishWorkflow, FailCompensation
<1>5. NothingToCompensate(w) => exec'.compDone = exec.compDone
  BY <1>1, <1>2, CounterFacts DEF NothingToCompensate
<1>6. StartCompensation(w) => /\ exec'.compTotal = Cardinality(ToUndo(Step(w) - 1))
                              /\ exec'.compDone = exec.compDone
  BY <1>1, <1>2, CounterFacts DEF StartCompensation
<1>7. NextCompensation(w) =>
        exec'.compTotal = exec.compTotal /\ exec'.compDone = exec.compDone + 1
  BY <1>1, CounterFacts DEF NextCompensation
<1> QED
  BY <1>3, <1>4, <1>5, <1>6, <1>7

\* The end of a completion leaves the story as it should be.
LEMMA StoryEnds ==
  ASSUME IInv, HistoryFits, RowsDue, NEW w \in Workers, Ends(w)
  PROVE  HistoryFits' /\ RowsDue'
<1> USE DEF SameDone, SameUndone, SameBegun, SameRolledBack
<1> DEFINE m == Step(w)
<1>1. /\ m \in Steps /\ m \in Int
      /\ holds[w].slot[1] = "task" => TaskDue(m)
      /\ holds[w].slot[1] = "comp" => CompDue(m) /\ WorkflowType = "SAGA"
  BY EndsRows, OwnDue, StepFacts DEF IInv, CompDue, HistoryFits
<1>2. \A n \in Steps : Task(n) \in Slots /\ Comp(n) \in Slots
  BY SlotFacts DEF Task, Comp, Kinds
<1>3. ToCompensate \subseteq Steps
  BY CompensateFacts
<1>4. SameDone => ToCompensate' = ToCompensate
  BY CompensableAssumption DEF ToCompensate
<1>5. SameUndone => UndoneSteps' = UndoneSteps
  BY DEF UndoneSteps
<1>6. InFlight(w)
  BY EndsRows DEF IInv
\* but for an INDEPENDENT execution the completion leaves its own new row only
<1>7. WorkflowType # "INDEPENDENT" /\ rows' = WithoutOwn(w) => RowsDue'
  BY <1>2, <1>6, OnlyRow DEF RowsDue, IInv
<1> HIDE DEF m
<1>8. CASE RetryTask(w) \/ RetryCompensation(w) \/ FailTaskCommit(w) \/ FailCompensation(w)
  <2>1. SameStory /\ exec'.compTotal = exec.compTotal /\ exec'.compDone = exec.compDone
    BY <1>8, EndsTell, EndsCounters
  <2>2. \A s \in Slots : rows'[s].state # "NONE" => rows[s].state # "NONE"
    <3>1. rows[holds[w].slot].state # "NONE"
      BY <1>6, InFlightFacts DEF IInv, Own
    <3>2. CASE RetryTask(w) \/ RetryCompensation(w)
      BY <3>1, <3>2 DEF RetryTask, RetryCompensation, Recreate, IInv, TypeOK
    <3>3. CASE FailTaskCommit(w)
      BY <3>1, <3>3, RowsKept DEF FailTaskCommit, IInv
    <3>4. CASE FailCompensation(w)
      BY <1>6, <3>4, RowsLeft DEF FailCompensation
    <3> QED
      BY <1>8, <3>2, <3>3, <3>4
  <2> QED
    BY <2>1, <2>2, StoryKept
<1>9. CASE StartCompensationFails(w)
  <2>1. WorkflowType = "SAGA" /\ rows' = WithoutOwn(w)
    BY <1>9 DEF StartCompensationFails, SagaFailing
  <2>2. /\ SameDone /\ SameUndone /\ SameRolledBack /\ exec'.compDone = exec.compDone
        /\ Begun => Begun'
    BY <1>9, EndsTell, EndsCounters
  <2> QED
    BY <1>4, <1>5, <1>7, <2>1, <2>2 DEF HistoryFits
<1>10. ASSUME SagaFailing(w)
       PROVE  /\ WorkflowType = "SAGA" /\ ~Begun
              /\ \A n \in ToCompensate : n < m
              /\ ToUndo(m - 1) = ToCompensate
  <2>1. TaskDue(m) /\ WorkflowType = "SAGA"
    BY <1>1, <1>10 DEF SagaFailing, FailingForGood, Failing
  <2>2. \A n \in ToCompensate : n \in Int /\ n < m
    BY <1>3, <2>1, StepFacts DEF TaskDue, ToCompensate
  <2>3. \A n \in ToCompensate : n <= m - 1
    BY <1>1, <2>2
  <2>4. ToUndo(m - 1) = ToCompensate
    BY <2>3, CompensateFacts
  <2> QED
    BY <2>1, <2>2, <2>4 DEF TaskDue
<1>11. CASE NothingToCompensate(w)
  <2>1. SagaFailing(w) /\ rows' = WithoutOwn(w) /\ ToUndo(m - 1) = {}
    BY <1>11 DEF NothingToCompensate, m
  <2>2. SameDone /\ SameUndone /\ Begun' /\ RolledBack'
    BY <1>11, EndsTell
  <2> QED
    BY <1>4, <1>5, <1>7, <1>10, <2>1, <2>2 DEF HistoryFits
<1>12. CASE StartCompensation(w)
  <2>1. SagaFailing(w)
    BY <1>12 DEF StartCompensation
  <2>2. PICK n \in Steps :
          /\ IsFirst(n, ToCompensate)
          /\ rows' = [WithoutOwn(w) EXCEPT ![Comp(n)] = Created(@, 0, MaxAttempts[n])]
    BY <1>10, <1>12, <2>1 DEF StartCompensation, m
  <2>3. SameDone /\ SameUndone /\ Begun' /\ SameRolledBack
    BY <1>12, EndsTell
  <2>4. exec'.compTotal = Cardinality(ToCompensate) /\ exec'.compDone = exec.compDone
    BY <1>10, <1>12, <2>1, EndsCounters DEF m
  <2>5. ToCompensate' = ToCompensate /\ UndoneSteps' = {} /\ exec'.compDone = 0 /\ ~RolledBack'
    BY <1>4, <1>5, <1>10, <2>1, <2>3, <2>4 DEF HistoryFits
  <2>6. HistoryFits'
    BY <1>10, <2>1, <2>3, <2>5 DEF HistoryFits
  <2>7. \A s \in Slots : rows'[s].state # "NONE" => s = Comp(n)
    BY <1>6, <1>10, <2>1, <2>2, RowsLeft
  <2>8. CompDue(n)'
    <3>1. {k \in ToCompensate : k > n} = {}
      BY <1>3, <2>2, StepFacts DEF IsFirst
    <3> QED
      BY <2>2, <2>3, <2>4, <2>5, <3>1, FS_EmptySet DEF CompDue, IsFirst
  <2> QED
    BY <1>2, <2>6, <2>7, <2>8, SlotFacts DEF RowsDue, Comp, Task
<1>13. CASE StepDone(w) \/ LastStepDone(w) \/ AdvanceStep(w) \/ FinishWorkflow(w)
  <2>1. TaskDue(m)
    BY <1>1, <1>13 DEF StepDone, LastStepDone, AdvanceStep, FinishWorkflow, Succeeding
  <2>2. /\ \A n \in Steps : Completed(n)' <=> Completed(n) \/ n = m
        /\ SameUndone /\ SameBegun /\ SameRolledBack
        /\ exec'.compDone = exec.compDone
    BY <1>13, EndsTell, EndsCounters DEF m
  <2>3. ~Begun' /\ HistoryFits'
    BY <1>5, <2>1, <2>2 DEF TaskDue, HistoryFits
  <2>4. CASE StepDone(w) \/ LastStepDone(w)
    <3>1. WorkflowType = "INDEPENDENT" /\ rows' = WithoutOwn(w)
      BY <2>4 DEF StepDone, LastStepDone
    <3>2. holds[w].slot = Task(m)
      BY <1>6, <2>4, OwnDue DEF StepDone, LastStepDone, Succeeding, m
    <3>3. \A s \in Slots : rows'[s].state # "NONE" => rows[s].state # "NONE" /\ s # Task(m)
      BY <1>6, <3>1, <3>2, RowsLeft
    <3>4. ASSUME NEW n \in Steps, rows'[Task(n)].state # "NONE" PROVE TaskDue(n)'
      BY <1>2, <2>2, <2>3, <3>1, <3>3, <3>4 DEF RowsDue, TaskDue
    <3>5. ASSUME NEW n \in Steps PROVE rows'[Comp(n)].state = "NONE"
      BY <1>2, <2>1, <3>3 DEF RowsDue, TaskDue, CompDue
    <3> QED
      BY <2>3, <3>4, <3>5 DEF RowsDue
  <2>5. CASE AdvanceStep(w)
    <3>1. PICK next \in Steps :
            /\ next = m + 1
            /\ WorkflowType # "INDEPENDENT"
            /\ rows' = [WithoutOwn(w) EXCEPT ![Task(next)] = Created(@, 0, MaxAttempts[next])]
      BY <2>5 DEF AdvanceStep, m
    <3>2. \A s \in Slots : rows'[s].state # "NONE" => s = Task(next)
      BY <1>6, <3>1, RowsLeft
    <3>3. \A n \in Steps : n < next <=> n < m \/ n = m
      BY <1>1, <3>1, StepFacts
    <3>4. \A n \in Steps : Completed(n)' <=> n < next
      BY <2>1, <2>2, <3>1, <3>3 DEF TaskDue
    <3>5. ~(next < next)
      BY <3>1, StepFacts
    <3>6. TaskDue(next)'
      BY <2>3, <3>1, <3>4, <3>5 DEF TaskDue
    <3> QED
      BY <1>2, <2>3, <3>2, <3>6, SlotFacts DEF RowsDue, Comp, Task
  <2>6. CASE FinishWorkflow(w)
    BY <1>7, <2>3, <2>6 DEF FinishWorkflow
  <2> QED
    BY <1>13, <2>4, <2>5, <2>6
<1>14. ASSUME FinishCompensation(w) \/ NextCompensation(w)
       PROVE  /\ CompDue(m) /\ WorkflowType = "SAGA"
              /\ ToCompensate' = ToCompensate /\ UndoneSteps' = UndoneSteps \union {m}
              /\ Begun'
  <2>1. CompDue(m) /\ WorkflowType = "SAGA"
    BY <1>1, <1>14 DEF FinishCompensation, NextCompensation, Succeeding
  <2>2. /\ \A n \in Steps : Undone(n)' <=> Undone(n) \/ n = m
        /\ SameDone /\ SameBegun
    BY <1>14, EndsTell DEF m
  <2> QED
    BY <1>1, <1>4, <2>1, <2>2 DEF UndoneSteps, CompDue
<1>15. CASE FinishCompensation(w)
  <2>1. ToCompensate = UndoneSteps \union {m}
    BY <1>1, <1>14, <1>15, UndoesOne DEF FinishCompensation, m
  <2>2. RolledBack' /\ rows' = WithoutOwn(w)
    BY <1>15, EndsTell DEF FinishCompensation
  <2> QED
    BY <1>7, <1>14, <1>15, <2>1, <2>2 DEF HistoryFits
<1>16. CASE NextCompensation(w)
  <2>1. PICK n \in Steps :
          /\ IsFirst(n, ToUndo(m - 1))
          /\ rows' = [WithoutOwn(w) EXCEPT ![Comp(n)] = Created(@, 0, MaxAttempts[n])]
    BY <1>16 DEF NextCompensation, m
  <2>2. /\ UndoneSteps' = {k \in ToCompensate : k >= m}
        /\ Cardinality(UndoneSteps') = exec.compDone + 1
        /\ UndoneSteps' \subseteq ToCompensate
    BY <1>1, <1>14, <1>16, UndoesOne
  <2>3. n \in ToCompensate /\ UndoneSteps' = {k \in ToCompensate : k > n}
    <3>1. n \in ToCompensate /\ n <= m - 1 /\ \A k \in ToCompensate : k <= m - 1 => k <= n
      BY <2>1, CompensateFacts DEF IsFirst
    <3>2. \A k \in ToCompensate : k \in Int /\ n \in Int
      BY <1>3, StepFacts
    <3>3. \A k \in ToCompensate : k >= m <=> k > n
      BY <1>1, <3>1, <3>2
    <3> QED
      BY <2>2, <3>1, <3>3
  <2>4. exec'.compTotal = exec.compTotal /\ exec'.compDone = exec.compDone + 1
    BY <1>16, EndsCounters
  <2>5. ~RolledBack'
    <3>1. ~FinishCompensation(w)
      <4>1. exec.compDone \in Nat /\ exec.compTotal \in Nat
        BY DEF IInv, TypeOK, Exec
      <4>2. ToUndo(m - 1) # {} /\ exec.compDone + 1 < exec.compTotal
        BY <1>16, <2>1 DEF NextCompensation, IsFirst
      <4> QED
        BY <4>1, <4>2 DEF FinishCompensation, m
    <3> QED
      BY <1>14, <1>16, <3>1, EndsTell DEF CompDue
  <2>6. HistoryFits'
    BY <1>14, <1>16, <2>2, <2>5 DEF HistoryFits
  <2>7. CompDue(n)'
    BY <1>14, <1>16, <2>2, <2>3, <2>4, <2>5 DEF CompDue
  <2>8. \A s \in Slots : rows'[s].state # "NONE" => s = Comp(n)
    BY <1>6, <1>14, <1>16, <2>1, RowsLeft
  <2> QED
    BY <1>2, <2>6, <2>7, <2>8, SlotFacts DEF RowsDue, Comp, Task
<1> QED
  BY <1>8, <1>9, <1>11, <1>12, <1>13, <1>15, <1>16 DEF Ends

\* Append is a special case of what Tells is about.
LEMMA TellsOne ==
  ASSUME TypeOK, NEW e \in Event, e \notin Telling, history' = Append(history, e)
  PROVE  SameStory
<1>1. <<e>> \in Seq(Event) /\ history' = history \o <<e>>
  <2>1. history \in Seq(Event)
    BY DEF TypeOK
  <2> QED
    BY <2>1
<1>2. \A f \in Telling : ~Has(<<e>>, f)
  BY Has1
<1> QED
  BY <1>1, <1>2, TellsNothing

LEMMA TellsSilently ==
  ASSUME UNCHANGED history
  PROVE  SameStory
BY DEF SameStory, SameDone, SameUndone, SameBegun, SameRolledBack, Completed, Undone, Begun,
       RolledBack, Logged

\* The steps that neither start the execution nor end a completion tell nothing
\* new and create no row.
Aside ==
  \/ UNCHANGED vars
  \/ \E w \in Workers : Quiet(w)
  \/ \E s \in Slots : PollLost(s) \/ LeaseLapses(s)
  \/ CancelWorkflow
  \/ ExpireOverdueWorkflows
  \/ ServerCrash
  \/ RecoverWorkflows

\* Every step is one of these, starts the execution or ends a completion.
LEMMA NextSplit ==
  [Next]_vars => Aside \/ StartWorkflow \/ \E w \in Workers : Ends(w)
BY DEF Next, WorkerStep, CompleteTask, CompleteCompensationTask, Ends, Quiet, Aside

LEMMA AsideTells ==
  ASSUME IInv, Aside
  PROVE  /\ SameStory
         /\ exec'.compTotal = exec.compTotal /\ exec'.compDone = exec.compDone
         /\ \A s \in Slots : rows'[s].state # "NONE" => rows[s].state # "NONE"
<1> USE DEF IInv
<1>1. CASE UNCHANGED vars
  BY <1>1, TellsSilently DEF vars
<1>2. CASE (\E w \in Workers : Quiet(w)) \/ (\E s \in Slots : PollLost(s) \/ LeaseLapses(s))
  BY <1>2, RowsQuiet, TellsSilently
<1>3. CASE CancelBegin \/ CancelTakesRow \/ CancelAborts
  BY <1>3, TellsSilently DEF CancelBegin, CancelTakesRow, CancelAborts
<1>4. CASE CancelCommit
  <2>1. SameStory
    BY <1>4, TellsOne, EventFacts, NotTelling DEF CancelCommit
  <2>2. exec'.compTotal = exec.compTotal /\ exec'.compDone = exec.compDone
    BY <1>4, CancelChanges DEF TypeOK, Exec
  <2> QED
    BY <1>4, <2>1, <2>2, CancelChanges
<1>5. CASE ExpireOverdueWorkflows
  <2>1. exec'.compTotal = exec.compTotal /\ exec'.compDone = exec.compDone
    <3>1. CASE ExpireOverdue
      <4>1. SaveError(exec, "timeout") \in Exec
        BY ExecFacts DEF TypeOK, Errors
      <4> QED
        BY <3>1, <4>1, CounterFacts DEF ExpireOverdue, Exec, TypeOK
    <3>2. CASE ~ExpireOverdue
      BY <1>5, <3>2 DEF ExpireOverdueWorkflows, ExpireSweep, ExpireTakesRow, ExpireSwept,
                        ExpireTimedOut, ExpireFailed, ExpireStatementFails
    <3> QED
      BY <3>1, <3>2
  <2>2. SameStory
    <3>1. CASE ExpireTimedOut \/ ExpireFailed
      BY <3>1, TellsOne, EventFacts, NotTelling DEF ExpireTimedOut, ExpireFailed
    <3>2. CASE ~ExpireTimedOut /\ ~ExpireFailed
      BY <1>5, <3>2, TellsSilently DEF ExpireOverdueWorkflows, ExpireOverdue, ExpireSweep,
                        ExpireTakesRow, ExpireSwept, ExpireStatementFails
    <3> QED
      BY <3>1, <3>2
  <2> QED
    BY <1>5, <2>1, <2>2, ExpireChanges
<1>6. CASE ServerCrash
  BY <1>6, TellsSilently DEF ServerCrash
<1>7. CASE RecoverWorkflows
  BY <1>7, NoOrphan, TellsSilently DEF RecoverWorkflows
<1> QED
  BY <1>1, <1>2, <1>3, <1>4, <1>5, <1>6, <1>7 DEF Aside, CancelWorkflow

\* The start of the execution tells nothing either.
LEMMA StartTells ==
  ASSUME IInv, StartWorkflow
  PROVE  /\ SameStory
         /\ \A n \in Steps : ~Completed(n) /\ ~Undone(n)
         /\ ~Begun /\ ~RolledBack
         /\ exec'.state = "RUNNING" /\ exec'.compDone = 0
         /\ \A s \in Slots : rows'[s].state # "NONE" => s \in FirstTasks
<1> USE DEF IInv
<1>1. SameStory
  BY TellsOne, EventFacts, NotTelling DEF StartWorkflow
<1>2. history = <<>>
  BY DEF StartWorkflow
<1>3. (\A n \in Steps : ~Completed(n) /\ ~Undone(n)) /\ ~Begun /\ ~RolledBack
  BY <1>2 DEF Completed, Undone, Begun, RolledBack, Logged
<1>4. exec'.state = "RUNNING" /\ exec'.compDone = 0
  BY StateFacts DEF StartWorkflow, UpdateState, Conflict, NoExec
<1>5. \A s \in Slots : rows'[s].state # "NONE" => s \in FirstTasks
  BY DEF StartWorkflow, RowsFitState
<1> QED
  BY <1>1, <1>3, <1>4, <1>5

\* A completion that is saved stays so until it ends, and only the SaveCheckpoint
\* of CompleteTask makes it so.
LEMMA SavedStep ==
  ASSUME IInv, Saved, HistoryFits, RowsDue, [Next]_vars
  PROVE  Saved'
<1> USE DEF IInv
<1>1. ASSUME checkpoint \subseteq checkpoint',
             \A v \in Workers : call'[v].stage = "saved" =>
               \/ call[v].stage = "saved" /\ holds'[v] = holds[v]
               \/ Step(v)' \in checkpoint',
             WorkflowType # "INDEPENDENT" =>
               \A n \in Steps : Completed(n)' => Completed(n) \/ n \in checkpoint'
      PROVE  Saved'
  BY <1>1 DEF Saved, CheckpointCoversCompleted, Step
<1>2. ASSUME SameStory, checkpoint' = checkpoint,
             \A v \in Workers : call'[v].stage = "saved" =>
               call[v].stage = "saved" /\ holds'[v] = holds[v]
      PROVE  Saved'
  BY <1>1, <1>2 DEF SameStory, SameDone
<1>3. CASE UNCHANGED vars
  BY <1>2, <1>3, TellsSilently DEF vars
<1>4. CASE StartWorkflow
  BY <1>2, <1>4, StartTells DEF StartWorkflow
<1>5. ASSUME NEW w \in Workers, Ends(w)
      PROVE  Saved'
  <2>1. \A v \in Workers : call'[v].stage = "saved" =>
          call[v].stage = "saved" /\ holds'[v] = holds[v]
    BY <1>5, EndsRows DEF Answered, IdleCall, TypeOK
  <2>2. checkpoint' = checkpoint
    BY <1>5 DEF Ends, RetryTask, RetryCompensation, FailTaskCommit, StartCompensationFails,
                NothingToCompensate, StartCompensation, StepDone, LastStepDone, AdvanceStep,
                FinishWorkflow, FailCompensation, FinishCompensation, NextCompensation
  <2>3. CASE AdvanceStep(w) \/ FinishWorkflow(w)
    <3>1. Step(w) \in checkpoint
      BY <2>3 DEF AdvanceStep, FinishWorkflow, Succeeding, Saved
    <3> QED
      BY <1>1, <1>5, <2>1, <2>2, <2>3, <3>1, EndsTell
  <2>4. CASE StepDone(w) \/ LastStepDone(w)
    BY <1>1, <2>1, <2>2, <2>4 DEF StepDone, LastStepDone
  <2>5. CASE ~AdvanceStep(w) /\ ~FinishWorkflow(w) /\ ~StepDone(w) /\ ~LastStepDone(w)
    <3>1. SameDone
      BY <1>5, <2>5, EndsTell DEF Ends, SameStory
    <3> QED
      BY <1>1, <2>1, <2>2, <3>1 DEF SameDone
  <2> QED
    BY <2>3, <2>4, <2>5
<1>6. ASSUME NEW w \in Workers, Quiet(w)
      PROVE  Saved'
  <2>1. SameStory
    BY <1>6, RowsQuiet, TellsSilently
  <2>2. \A v \in Workers : call[v].stage = "saved" => holds[v] # NoRef
    BY DEF LockDiscipline, InFlight, Exists
  <2>3. CASE SaveCheckpoint(w)
    <3>1. /\ Step(w)' \in checkpoint' /\ checkpoint \subseteq checkpoint'
          /\ \A v \in Workers : v # w => call'[v] = call[v]
          /\ holds' = holds
      BY <2>3 DEF SaveCheckpoint, Step, TypeOK
    <3> QED
      BY <1>1, <2>1, <3>1 DEF SameStory, SameDone
  <2>4. CASE ~SaveCheckpoint(w)
    <3>1. checkpoint' = checkpoint
      BY <1>6, <2>4 DEF Quiet, Poll, Heartbeat, HeartbeatRejected, WorkerForgets,
              CompleteUnknown, CompleteIgnored, CompleteBegin, FailTask, FailTaskTakesRow,
              CallAborts
    <3>2. \A v \in Workers : v # w => call'[v] = call[v] /\ holds'[v] = holds[v]
      BY <1>6, <2>4 DEF Quiet, Poll, Heartbeat, HeartbeatRejected, WorkerForgets,
              CompleteUnknown, CompleteIgnored, CompleteBegin, FailTask, FailTaskTakesRow,
              CallAborts, TypeOK
    <3>3. call'[w].stage = "saved" => call[w].stage = "saved" /\ holds'[w] = holds[w]
      <4>1. CASE \E s \in Slots : Poll(w, s)
        BY <2>2, <4>1 DEF Poll
      <4>2. CASE Heartbeat(w)
        BY <4>2 DEF Heartbeat
      <4>3. CASE HeartbeatRejected(w) \/ WorkerForgets(w)
        BY <4>3 DEF HeartbeatRejected, WorkerForgets, InFlight
      <4>4. CASE CompleteUnknown(w) \/ CompleteIgnored(w)
        BY <4>4 DEF CompleteUnknown, CompleteIgnored, Reporting, InFlight
      <4>5. CASE CompleteBegin(w) \/ CallAborts(w)
        <5>1. CASE CompleteBegin(w)
          <6>1. PICK err \in BOOLEAN :
                  call' = [call EXCEPT ![w] = [IdleCall EXCEPT !.stage = "open", !.err = err,
                                                               !.seen = exec.state]]
            BY <5>1 DEF CompleteBegin
          <6>2. call'[w].stage = "open"
            BY <6>1 DEF TypeOK, IdleCall
          <6> QED
            BY <6>2
        <5>2. CASE CallAborts(w)
          BY <5>2 DEF CallAborts, IdleCall, TypeOK
        <5> QED
          BY <4>5, <5>1, <5>2
      <4>6. CASE FailTask(w) \/ FailTaskTakesRow(w)
        <5>1. call'[w].stage = "sweep"
          <6>1. CASE FailTask(w)
            BY <6>1 DEF FailTask, TypeOK, Call
          <6>2. CASE FailTaskTakesRow(w)
            <7>1. PICK sweep \in TakesRow(call[w]) : call' = [call EXCEPT ![w] = sweep]
              BY <6>2 DEF FailTaskTakesRow
            <7>2. sweep.stage = call[w].stage
              BY DEF TakesRow, TypeOK, Call
            <7> QED
              BY <6>2, <7>1, <7>2 DEF FailTaskTakesRow, TypeOK
          <6> QED
            BY <4>6, <6>1, <6>2
        <5> QED
          BY <5>1
      <4> QED
        BY <1>6, <2>4, <4>1, <4>2, <4>3, <4>4, <4>5, <4>6 DEF Quiet
    <3> QED
      BY <1>2, <2>1, <3>1, <3>2, <3>3
  <2> QED
    BY <2>3, <2>4
<1>7. CASE \E s \in Slots : PollLost(s) \/ LeaseLapses(s)
  BY <1>2, <1>7, TellsSilently DEF PollLost, LeaseLapses
<1>8. CASE CancelWorkflow \/ ExpireOverdueWorkflows
  <2>1. SameStory
    BY <1>8, AsideTells DEF Aside
  <2>2. UNCHANGED <<checkpoint, call, holds>>
    BY <1>8 DEF CancelWorkflow, CancelBegin, CancelTakesRow, CancelCommit, CancelAborts,
                ExpireOverdueWorkflows, ExpireOverdue, ExpireSweep, ExpireTakesRow,
                ExpireSwept, ExpireTimedOut, ExpireFailed, ExpireStatementFails
  <2> QED
    BY <1>2, <2>1, <2>2
<1>9. CASE ServerCrash
  BY <1>2, <1>9, TellsSilently DEF ServerCrash, IdleCall
<1>10. CASE RecoverWorkflows
  BY <1>2, <1>10, TellsSilently DEF RecoverWorkflows
<1> QED
  BY <1>3, <1>4, <1>5, <1>6, <1>7, <1>8, <1>9, <1>10, NextSplit DEF Aside

\* The story holds initially.
LEMMA StoryInit == Init => Story
<1> SUFFICES ASSUME Init PROVE Story
  OBVIOUS
<1>1. (\A n \in Steps : ~Completed(n) /\ ~Undone(n)) /\ ~Begun /\ ~RolledBack
  BY DEF Init, Completed, Undone, Begun, RolledBack, Logged
<1>2. UndoneSteps = {}
  BY <1>1 DEF UndoneSteps
<1>3. HistoryFits
  BY <1>1, <1>2 DEF HistoryFits, Init, NoExec
<1>4. RowsDue
  BY SlotFacts DEF Init, RowsDue, NoRow, Task, Comp, Kinds
<1>5. Saved
  BY <1>1 DEF Init, Saved, CheckpointCoversCompleted, IdleCall
<1> QED
  BY <1>3, <1>4, <1>5 DEF Story

\* Every step, and every stutter, keeps the story.
LEMMA StoryNext == IInv /\ Story /\ [Next]_vars => Story'
<1> SUFFICES ASSUME IInv, Story, [Next]_vars PROVE Story'
  OBVIOUS
<1> USE DEF Story
<1>1. Saved'
  BY SavedStep
<1>2. CASE Aside
  BY <1>1, <1>2, AsideTells, StoryKept
<1>3. CASE StartWorkflow
  <2>1. /\ \A n \in Steps : ~Completed(n)' /\ ~Undone(n)'
        /\ ~Begun' /\ ~RolledBack'
    BY <1>3, StartTells DEF SameStory, SameDone, SameUndone, SameBegun, SameRolledBack
  <2>2. UndoneSteps' = {}
    BY <2>1 DEF UndoneSteps
  <2>3. HistoryFits'
    BY <1>3, <2>1, <2>2, StartTells DEF HistoryFits
  <2>4. ASSUME NEW s \in FirstTasks
        PROVE  /\ s[1] # "comp"
               /\ WorkflowType # "INDEPENDENT" => s = Task(1)
    BY <2>4 DEF FirstTasks, Task
  <2>5. \A n \in Steps : Task(n) \in Slots /\ Comp(n) \in Slots
    BY SlotFacts DEF Task, Comp, Kinds
  <2>6. ASSUME NEW n \in Steps, rows'[Task(n)].state # "NONE" PROVE TaskDue(n)'
    <3>1. WorkflowType # "INDEPENDENT" => n = 1
      BY <1>3, <2>4, <2>5, <2>6, StartTells DEF Task
    <3>2. \A m \in Steps : ~(m < 1)
      BY StepFacts
    <3> QED
      BY <2>1, <3>1, <3>2 DEF TaskDue
  <2>7. ASSUME NEW n \in Steps PROVE rows'[Comp(n)].state = "NONE"
    BY <1>3, <2>4, <2>5, StartTells DEF Comp
  <2> QED
    BY <1>1, <2>3, <2>6, <2>7 DEF RowsDue
<1>4. CASE \E w \in Workers : Ends(w)
  BY <1>1, <1>4, StoryEnds
<1> QED
  BY <1>2, <1>3, <1>4, NextSplit

\* The story is true in every reachable state.
LEMMA StoryAlways == Spec => [](IInv /\ Story)
<1>1. Init => IInv /\ Story
  BY IInvInit, StoryInit
<1>2. IInv /\ Story /\ [Next]_vars => (IInv /\ Story)'
  BY IInvNext, StoryNext
<1> QED
  BY <1>1, <1>2, PTL DEF Spec

\* A completed step of a CHAIN or SAGA has its checkpoint, although CompleteTask
\* writes the two in different transactions.
THEOREM CheckpointFirst == Spec => []CheckpointCoversCompleted
<1>1. Story => CheckpointCoversCompleted
  BY DEF Story, Saved
<1> QED
  BY <1>1, StoryAlways, PTL

\* SAGA_ROLLED_BACK is recorded only when every completed compensable step has
\* been undone: the count that ends the rollback is right.
THEOREM RollbackComplete == Spec => []RolledBackMeansUndone
<1>1. Story => RolledBackMeansUndone
  <2> SUFFICES ASSUME HistoryFits, RolledBack, NEW n \in Compensable, Completed(n)
               PROVE  Undone(n)
    BY DEF Story, RolledBackMeansUndone, RolledBack
  <2>1. n \in UndoneSteps
    BY DEF HistoryFits, ToCompensate
  <2> QED
    BY <2>1 DEF UndoneSteps
<1> QED
  BY <1>1, StoryAlways, PTL

-----------------------------------------------------------------------------
(* Every step is one that Workflow allows.                                  *)

\* The steps a report is being processed of.
Reported == {Step(w) : w \in {v \in Workers : InFlight(v)}}

\* Two tasks of one step that are both still there are one task.
LEMMA OneTask ==
  ASSUME IInv, NEW v \in Workers, NEW w \in Workers, Exists(holds[v]), Exists(holds[w]),
         Step(v) = Step(w)
  PROVE  holds[v] = holds[w]
<1> USE DEF IInv
<1> DEFINE a == holds[v]
           b == holds[w]
<1>1. a \in Ref /\ b \in Ref /\ a.slot[2] = b.slot[2]
  BY DEF Exists, TypeOK, Step
<1>2. /\ a.slot \in Slots /\ rows[a.slot].state # "NONE" /\ rows[a.slot].gen = a.gen
      /\ b.slot \in Slots /\ rows[b.slot].state # "NONE" /\ rows[b.slot].gen = b.gen
  BY <1>1 DEF Exists, Ref
<1> HIDE DEF a, b
<1>3. a.slot = b.slot
  <2>1. CASE WorkflowType # "INDEPENDENT"
    BY <1>2, <2>1 DEF RowsFitState
  <2>2. CASE WorkflowType = "INDEPENDENT"
    <3>1. a.slot = <<a.slot[1], a.slot[2]>> /\ b.slot = <<b.slot[1], b.slot[2]>>
      BY <1>2, SlotFacts
    <3>2. a.slot[1] = "task" /\ b.slot[1] = "task"
      BY <1>2, <2>2, SlotFacts DEF RowsFitState, Kinds, Comp
    <3> QED
      BY <1>1, <3>1, <3>2
  <2> QED
    BY <2>1, <2>2
<1>4. a = b
  BY <1>1, <1>2, <1>3 DEF Ref
<1> QED
  BY <1>4 DEF a, b

\* No report is new in a step after which no completion is.
LEMMA ReportedKept ==
  ASSUME \A v \in Workers : InFlight(v)' => InFlight(v) /\ holds'[v] = holds[v]
  PROVE  Reported' \subseteq Reported
BY DEF Reported, Step

\* The end of a completion is the end of the report of its step.
LEMMA ReportEnds ==
  ASSUME IInv, NEW w \in Workers, Ends(w)
  PROVE  /\ Step(w) \in Reported
         /\ Reported' = Reported \ {Step(w)}
<1>1. InFlight(w) /\ Answered(w)
  BY EndsRows DEF IInv
<1>2. ~InFlight(w)' /\ \A v \in Workers : v # w => call'[v] = call[v] /\ holds'[v] = holds[v]
  BY <1>1 DEF Answered, InFlight, IdleCall, IInv, TypeOK
<1>3. \A v \in Workers : v # w => (InFlight(v)' <=> InFlight(v)) /\ Step(v)' = Step(v)
  BY <1>2 DEF InFlight, Step
<1>4. \A v \in Workers : InFlight(v) /\ v # w => Step(v) # Step(w)
  BY <1>1, OneTask DEF IInv, LockDiscipline
<1>5. Reported = {Step(v) : v \in {u \in Workers : InFlight(u)}}
  BY DEF Reported
<1>6. Reported' = {Step(v) : v \in {u \in Workers : InFlight(u) /\ u # w}}
  BY <1>2, <1>3 DEF Reported
<1> QED
  BY <1>1, <1>4, <1>5, <1>6

\* What a report begins with.
LEMMA ReportBegins ==
  ASSUME IInv, RowsDue, NEW w \in Workers, CompleteBegin(w)
  PROVE  /\ Step(w) \in Steps /\ Step(w) \notin Reported
         /\ Reported' = Reported \union {Step(w)}
         /\ \/ exec.state = "RUNNING" /\ TaskDue(Step(w))
            \/ exec.state = "COMPENSATING" /\ CompDue(Step(w))
<1> USE DEF IInv
<1> DEFINE s == holds[w].slot
<1>1. /\ s \in Slots /\ rows[s].state # "NONE" /\ s = <<s[1], Step(w)>> /\ Step(w) \in Steps
      /\ s[1] \in {"task", "comp"}
  BY SlotFacts DEF CompleteBegin, Exists, TypeOK, Ref, Step, Kinds
<1>2. \A v \in Workers : InFlight(v) => Step(v) # Step(w)
  BY OneTask DEF CompleteBegin, Reporting, Locked, LockDiscipline
<1>3. /\ call'[w].stage = "open" /\ holds' = holds
      /\ \A v \in Workers : v # w => call'[v] = call[v]
  <2>1. PICK err \in BOOLEAN :
          call' = [call EXCEPT ![w] = [IdleCall EXCEPT !.stage = "open", !.err = err,
                                                       !.seen = exec.state]]
    BY DEF CompleteBegin
  <2> QED
    BY <2>1 DEF CompleteBegin, TypeOK, IdleCall
<1>4. ~InFlight(w)
  BY DEF CompleteBegin, Reporting
<1>5. \A v \in Workers : /\ Step(v)' = Step(v)
                         /\ InFlight(v)' <=> InFlight(v) \/ v = w
  BY <1>3 DEF InFlight, Step
<1>6. Reported = {Step(v) : v \in {u \in Workers : InFlight(u)}}
  BY DEF Reported
<1>7. Reported' = {Step(v) : v \in {u \in Workers : InFlight(u) \/ u = w}}
  BY <1>5 DEF Reported
<1>8. \/ exec.state = "RUNNING" /\ TaskDue(Step(w))
      \/ exec.state = "COMPENSATING" /\ CompDue(Step(w))
  <2>1. exec.state \in {"RUNNING", "COMPENSATING"}
    BY <1>1, OpenOrClosed DEF CompleteBegin, RowsFitState
  <2>2. (s[1] = "comp") = (exec.state = "COMPENSATING")
    BY <1>1, <2>1 DEF RowsFitState
  <2> HIDE DEF s
  <2>3. (s = Task(Step(w)) => TaskDue(Step(w))) /\ (s = Comp(Step(w)) => CompDue(Step(w)))
    BY <1>1 DEF RowsDue
  <2> QED
    BY <1>1, <2>1, <2>2, <2>3 DEF Task, Comp
<1> QED
  BY <1>1, <1>2, <1>6, <1>7, <1>8

\* The other steps aside begin none.
LEMMA NoneReported ==
  ASSUME IInv, Aside, \A w \in Workers : ~CompleteBegin(w)
  PROVE  Reported' \subseteq Reported
<1> USE DEF IInv
<1>1. CASE UNCHANGED <<call, holds>>
  BY <1>1, ReportedKept DEF InFlight
<1>2. ASSUME NEW w \in Workers, Quiet(w)
      PROVE  Reported' \subseteq Reported
  <2>1. \A v \in Workers : v # w => call'[v] = call[v] /\ holds'[v] = holds[v]
    BY <1>2 DEF Quiet, Poll, Heartbeat, HeartbeatRejected, WorkerForgets, CompleteUnknown,
                CompleteIgnored, FailTask, FailTaskTakesRow, SaveCheckpoint, CallAborts, TypeOK
  <2>2. \/ InFlight(w) /\ holds' = holds
        \/ ~InFlight(w) /\ call' = call
    <3>1. CASE \E s \in Slots : Poll(w, s)
      BY <3>1 DEF Poll, LockDiscipline, Exists
    <3>2. CASE Heartbeat(w) \/ HeartbeatRejected(w) \/ WorkerForgets(w)
      BY <3>2 DEF Heartbeat, HeartbeatRejected, WorkerForgets
    <3>3. CASE CompleteUnknown(w) \/ CompleteIgnored(w)
      BY <3>3 DEF CompleteUnknown, CompleteIgnored, Reporting
    <3>4. CASE FailTask(w) \/ FailTaskTakesRow(w) \/ SaveCheckpoint(w) \/ CallAborts(w)
      BY <3>4 DEF FailTask, FailTaskTakesRow, SaveCheckpoint, CallAborts, FailingForGood,
                  Failing, Succeeding, InFlight
    <3> QED
      BY <1>2, <3>1, <3>2, <3>3, <3>4 DEF Quiet
  <2>3. \A v \in Workers : InFlight(v)' => InFlight(v) /\ holds'[v] = holds[v]
    BY <2>1, <2>2 DEF InFlight
  <2> QED
    BY <2>3, ReportedKept
<1>3. CASE ServerCrash
  BY <1>3, ReportedKept DEF ServerCrash, InFlight, IdleCall
<1>4. CASE CancelWorkflow \/ ExpireOverdueWorkflows \/ RecoverWorkflows
  <2>1. UNCHANGED <<call, holds>>
    BY <1>4 DEF CancelWorkflow, CancelBegin, CancelTakesRow, CancelCommit, CancelAborts,
                ExpireOverdueWorkflows, ExpireOverdue, ExpireSweep, ExpireTakesRow,
                ExpireSwept, ExpireTimedOut, ExpireFailed, ExpireStatementFails,
                RecoverWorkflows
  <2> QED
    BY <1>1, <2>1
<1>5. CASE \E s \in Slots : PollLost(s) \/ LeaseLapses(s)
  BY <1>1, <1>5 DEF PollLost, LeaseLapses
<1> QED
  BY <1>1, <1>2, <1>3, <1>4, <1>5 DEF Aside, vars

\* How the variables of Workflow are read off.
LEMMA Read ==
  /\ Promise!ToUndo = ToCompensate \ UndoneSteps
  /\ Promise!Steps = Steps
  /\ \A n \in Steps : TaskDue(n) => Promise!Due(n)
  /\ \A n \in Steps : CompDue(n) => Promise!Highest(n, Promise!ToUndo)
<1>1. Promise!ToUndo = ToCompensate \ UndoneSteps
  BY CompensableAssumption DEF Promise!ToUndo, ToCompensate, UndoneSteps
<1>2. Promise!Steps = Steps
  BY DEF Promise!Steps, Steps
<1>3. ASSUME NEW n \in Steps, TaskDue(n) PROVE Promise!Due(n)
  <2>1. ASSUME WorkflowType # "INDEPENDENT"
        PROVE  {m \in Steps : Completed(m)} = 1 .. n - 1
    <3>1. {m \in Steps : Completed(m)} = {m \in Steps : m < n}
      BY <1>3, <2>1 DEF TaskDue
    <3>2. {m \in Steps : m < n} = 1 .. n - 1
      BY TotalStepsAssumption DEF Steps
    <3> QED
      BY <3>1, <3>2
  <2> QED
    BY <1>3, <2>1 DEF TaskDue, Promise!Due
<1>4. ASSUME NEW n \in Steps, CompDue(n) PROVE Promise!Highest(n, Promise!ToUndo)
  <2>1. ToCompensate \subseteq Steps
    BY CompensateFacts
  <2>2. n \in ToCompensate /\ \A m \in ToCompensate : m \in UndoneSteps <=> m > n
    BY <1>4 DEF CompDue
  <2>3. n \notin UndoneSteps /\ \A m \in ToCompensate \ UndoneSteps : m <= n
    BY <2>1, <2>2, StepFacts
  <2> QED
    BY <1>1, <2>2, <2>3 DEF Promise!Highest
<1> QED
  BY <1>1, <1>2, <1>3, <1>4

\* The variables of Workflow, before and after a step.
LEMMA ReadAs ==
  /\ SameDone => Done' = Done
  /\ SameUndone => UndoneSteps' = UndoneSteps
  /\ SameBegun => Begun' = Begun
  /\ SameRolledBack => RolledBack' = RolledBack
  /\ Begun \in BOOLEAN /\ RolledBack \in BOOLEAN
  /\ Begun' \in BOOLEAN /\ RolledBack' \in BOOLEAN
<1>1. (SameDone => Done' = Done) /\ (SameUndone => UndoneSteps' = UndoneSteps)
  BY DEF SameDone, SameUndone, Done, UndoneSteps
<1>2. (SameBegun => Begun' = Begun) /\ (SameRolledBack => RolledBack' = RolledBack)
  BY DEF SameBegun, SameRolledBack, Begun, RolledBack, Logged
<1>3. /\ Begun \in BOOLEAN /\ RolledBack \in BOOLEAN
      /\ Begun' \in BOOLEAN /\ RolledBack' \in BOOLEAN
  BY DEF Begun, RolledBack, Logged
<1> QED
  BY <1>1, <1>2, <1>3

\* A step that tells nothing new, begins no report and changes no state.
LEMMA Drops ==
  ASSUME SameStory, exec'.state = exec.state, Reported' \subseteq Reported
  PROVE  Promise!Drop
<1>1. Done' = Done /\ UndoneSteps' = UndoneSteps /\ Begun' = Begun /\ RolledBack' = RolledBack
  BY ReadAs DEF SameStory
<1> QED
  BY <1>1 DEF Promise!Drop, Reported, Done, UndoneSteps, Begun, RolledBack

\* A step that tells nothing new and closes the execution.
LEMMA Closes ==
  ASSUME SameStory, exec.state \in {"RUNNING", "COMPENSATING"},
         exec'.state \in {"FAILED", "CANCELLED"}, Reported' \subseteq Reported
  PROVE  Promise!Close
<1>1. Done' = Done /\ UndoneSteps' = UndoneSteps /\ Begun' = Begun /\ RolledBack' = RolledBack
  BY ReadAs DEF SameStory
<1> QED
  BY <1>1 DEF Promise!Close, Promise!Open, Reported, Done, UndoneSteps, Begun, RolledBack

\* A step that completes n.
LEMMA Completes ==
  ASSUME NEW n \in Steps, TaskDue(n), n \in Reported, Reported' = Reported \ {n},
         Done' = Done \union {n}, SameUndone, SameBegun, SameRolledBack,
         IF Done' = Steps THEN exec.state = "RUNNING" /\ exec'.state = "COMPLETED"
                          ELSE exec'.state = exec.state
  PROVE  Promise!Complete(n)
<1>1. UndoneSteps' = UndoneSteps /\ Begun' = Begun /\ RolledBack' = RolledBack
  BY ReadAs
<1>2. Promise!Due(n) /\ Promise!Steps = Steps /\ ~Begun
  BY Read DEF TaskDue
<1> QED
  BY <1>1, <1>2 DEF Promise!Complete, Reported, Done, UndoneSteps, Begun, RolledBack

\* A step that turns a SAGA round.
LEMMA Turns ==
  ASSUME WorkflowType = "SAGA", exec.state = "RUNNING",
         NEW n \in Steps, ~Begun, n \in Reported, Reported' = Reported \ {n},
         SameDone, SameUndone, Begun',
         \/ /\ ToCompensate \ UndoneSteps # {}
            /\ exec'.state = "COMPENSATING" /\ SameRolledBack
         \/ /\ exec'.state = "FAILED"
            /\ ~RolledBack' \/ ToCompensate \ UndoneSteps = {}
  PROVE  Promise!BeginUndo(n)
<1>1. Done' = Done /\ UndoneSteps' = UndoneSteps /\ Begun' = TRUE
  BY ReadAs
<1>2. Promise!ToUndo = ToCompensate \ UndoneSteps
  BY Read
<1>3. \/ Promise!ToUndo # {} /\ exec'.state = "COMPENSATING" /\ RolledBack' = RolledBack
      \/ exec'.state = "FAILED" /\ RolledBack' \in {FALSE, Promise!ToUndo = {}}
  BY <1>2, ReadAs
<1> QED
  BY <1>1, <1>3 DEF Promise!BeginUndo, Reported, Done, UndoneSteps, Begun, RolledBack

\* A step that undoes n.
LEMMA Undoes ==
  ASSUME NEW n \in Steps, CompDue(n), n \in Reported, Reported' = Reported \ {n},
         UndoneSteps' = UndoneSteps \union {n}, SameDone, SameBegun,
         IF ToCompensate \ UndoneSteps = {n}
           THEN exec.state = "COMPENSATING" /\ exec'.state = "FAILED" /\ RolledBack'
           ELSE exec'.state = exec.state /\ SameRolledBack
  PROVE  Promise!Undo(n)
<1>1. Done' = Done /\ Begun' = Begun
  BY ReadAs
<1>2. Promise!ToUndo = ToCompensate \ UndoneSteps /\ Promise!Highest(n, Promise!ToUndo) /\ Begun
  BY Read DEF CompDue
<1>3. IF Promise!ToUndo = {n}
        THEN exec.state = "COMPENSATING" /\ exec'.state = "FAILED" /\ RolledBack' = TRUE
        ELSE exec'.state = exec.state /\ RolledBack' = RolledBack
  BY <1>2, ReadAs
<1> QED
  BY <1>1, <1>2, <1>3 DEF Promise!Undo, Reported, Done, UndoneSteps, Begun, RolledBack

\* The kind of row a completion of an open execution has.
LEMMA OpenKind ==
  ASSUME IInv, NEW w \in Workers, InFlight(w), ~IsTerminal(exec.state)
  PROVE  IF holds[w].slot[1] = "comp" THEN exec.state = "COMPENSATING"
                                      ELSE exec.state = "RUNNING"
<1>1. /\ holds[w].slot \in Slots /\ rows[holds[w].slot].state # "NONE"
      /\ exec.state # "NONE"
  BY InFlightFacts DEF IInv, Own
<1>2. exec.state \in {"RUNNING", "COMPENSATING"}
  BY <1>1, OpenOrClosed DEF IInv
<1>3. (holds[w].slot[1] = "comp") = (exec.state = "COMPENSATING")
  BY <1>1, <1>2 DEF IInv, RowsFitState
<1> QED
  BY <1>2, <1>3

\* The end of a completion is a step of Workflow.
LEMMA EndsPromised ==
  ASSUME IInv, IInv', Story, Story', NEW w \in Workers, Ends(w)
  PROVE  Promise!Next
<1> USE DEF Story
<1> DEFINE m == Step(w)
<1>1. /\ InFlight(w) /\ m \in Steps /\ m \in Int
      /\ m \in Reported /\ Reported' = Reported \ {m}
      /\ holds[w].slot[1] = "task" => TaskDue(m)
      /\ holds[w].slot[1] = "comp" => CompDue(m)
  BY EndsRows, OwnDue, ReportEnds, StepFacts DEF IInv
<1>2. /\ holds[w].slot[1] = "task" /\ ~IsTerminal(exec.state) => exec.state = "RUNNING"
      /\ holds[w].slot[1] = "comp" /\ ~IsTerminal(exec.state) => exec.state = "COMPENSATING"
  BY <1>1, OpenKind
<1>3. Promise!Drop \/ Promise!Close => Promise!Next
  BY DEF Promise!Next
<1>4. Promise!Complete(m) \/ Promise!BeginUndo(m) \/ Promise!Undo(m) => Promise!Next
  BY <1>1, Read DEF Promise!Next
<1>5. SameDone => ToCompensate' = ToCompensate
  BY CompensableAssumption DEF ToCompensate, SameDone
<1> HIDE DEF m
<1>6. CASE RetryTask(w) \/ RetryCompensation(w)
  BY <1>1, <1>3, <1>6, EndsTell, EndsExec, Drops DEF IInv
<1>7. CASE FailTaskCommit(w) \/ FailCompensation(w)
  <2>1. SameStory /\ Reported' \subseteq Reported
    BY <1>1, <1>7, EndsTell
  <2>2. CASE IsTerminal(exec.state)
    <3>1. exec'.state = exec.state
      BY <1>7, <2>2, EndsExec DEF IInv
    <3> QED
      BY <1>3, <2>1, <3>1, Drops
  <2>3. CASE ~IsTerminal(exec.state)
    <3>1. exec'.state = "FAILED"
      BY <1>7, <2>3, EndsExec DEF IInv
    <3>2. exec.state \in {"RUNNING", "COMPENSATING"}
      BY <1>1, <2>3, OpenKind
    <3> QED
      BY <1>3, <2>1, <3>1, <3>2, Closes
  <2> QED
    BY <2>2, <2>3
<1>8. ASSUME SagaFailing(w)
      PROVE  /\ WorkflowType = "SAGA" /\ holds[w].slot[1] = "task"
             /\ TaskDue(m) /\ ~Begun /\ ~RolledBack
  BY <1>1, <1>8 DEF SagaFailing, FailingForGood, Failing, TaskDue, HistoryFits
<1>9. CASE StartCompensationFails(w)
  <2>1. SagaFailing(w)
    BY <1>9 DEF StartCompensationFails
  <2>2. /\ SameDone /\ SameUndone /\ SameRolledBack /\ (Begun' <=> Begun \/ ~Conflict(exec))
        /\ exec'.state = IF IsTerminal(exec.state) THEN exec.state ELSE "FAILED"
    BY <1>9, EndsTell, EndsExec DEF IInv
  <2>3. CASE IsTerminal(exec.state)
    <3>1. SameStory /\ exec'.state = exec.state
      BY <2>2, <2>3 DEF SameStory, SameBegun, Conflict
    <3> QED
      BY <1>1, <1>3, <3>1, Drops
  <2>4. CASE ~IsTerminal(exec.state)
    <3>1. Begun' /\ ~RolledBack' /\ exec'.state = "FAILED" /\ exec.state = "RUNNING"
      BY <1>2, <1>8, <2>1, <2>2, <2>4 DEF SameRolledBack, Conflict
    <3> QED
      BY <1>1, <1>4, <1>8, <2>1, <2>2, <3>1, Turns
  <2> QED
    BY <2>3, <2>4
<1>10. CASE NothingToCompensate(w)
  <2>1. SagaFailing(w)
    BY <1>10 DEF NothingToCompensate
  <2>2. /\ SameDone /\ SameUndone /\ Begun' /\ RolledBack'
        /\ exec'.state = "FAILED" /\ ~IsTerminal(exec.state)
    BY <1>10, EndsTell, EndsExec DEF IInv
  <2>3. ToCompensate \ UndoneSteps = {}
    BY <1>5, <2>2, ReadAs DEF HistoryFits
  <2> QED
    BY <1>1, <1>2, <1>4, <1>8, <2>1, <2>2, <2>3, Turns
<1>11. CASE StartCompensation(w)
  <2>1. SagaFailing(w)
    BY <1>11 DEF StartCompensation
  <2>2. /\ SameDone /\ SameUndone /\ Begun' /\ SameRolledBack
        /\ exec'.state = "COMPENSATING" /\ ~IsTerminal(exec.state)
    BY <1>11, EndsTell, EndsExec DEF IInv
  <2>3. ToCompensate # {}
    <3>1. ToUndo(m - 1) # {}
      BY <1>11 DEF StartCompensation, IsFirst, m
    <3> QED
      BY <3>1, CompensateFacts
  <2>4. UndoneSteps = {}
    BY <1>8, <2>1 DEF HistoryFits
  <2> QED
    BY <1>1, <1>2, <1>4, <1>8, <2>1, <2>2, <2>3, <2>4, Turns
<1>12. CASE StepDone(w) \/ LastStepDone(w) \/ AdvanceStep(w) \/ FinishWorkflow(w)
  <2>1. TaskDue(m) /\ holds[w].slot[1] = "task"
    BY <1>1, <1>12 DEF StepDone, LastStepDone, AdvanceStep, FinishWorkflow, Succeeding
  <2>2. /\ \A n \in Steps : Completed(n)' <=> Completed(n) \/ n = m
        /\ SameUndone /\ SameBegun /\ SameRolledBack
    BY <1>12, EndsTell DEF m
  <2>3. Done' = Done \union {m} /\ Done' \subseteq Steps
    BY <1>1, <2>2 DEF Done
  <2>4. CASE StepDone(w) \/ LastStepDone(w)
    <3>1. exec'.completedSteps = Cardinality(Done') /\ Cardinality(Steps) = TotalSteps
      <4>1. exec'.completedSteps = Cardinality(Done')
        BY <2>4 DEF IInv, CompletedStepsCounted, Done, StepDone, LastStepDone
      <4> QED
        BY <4>1, FS_Interval, TotalStepsAssumption DEF Steps
    <3>2. exec'.completedSteps = exec.completedSteps + 1
      BY <2>4 DEF StepDone, LastStepDone, IncrementCompletedSteps, SaveResult, UpdateState,
                  IInv, TypeOK, Exec
    <3>3. Done' = Steps <=> exec.completedSteps + 1 = TotalSteps
      <4>1. IsFiniteSet(Steps)
        BY FS_Interval, TotalStepsAssumption DEF Steps
      <4> QED
        BY <2>3, <3>1, <3>2, <4>1, FS_Subset
    <3>4. CASE StepDone(w)
      BY <1>1, <1>4, <2>1, <2>2, <2>3, <3>3, <3>4, EndsExec, Completes DEF StepDone, IInv
    <3>5. CASE LastStepDone(w)
      BY <1>1, <1>2, <1>4, <2>1, <2>2, <2>3, <3>3, <3>5, EndsExec, Completes
         DEF LastStepDone, IInv
    <3> QED
      BY <2>4, <3>4, <3>5
  <2>5. CASE AdvanceStep(w)
    <3>1. PICK next \in Steps : next = m + 1 /\ WorkflowType # "INDEPENDENT"
      BY <2>5 DEF AdvanceStep, m
    <3>2. ~(next < m) /\ next # m
      BY <1>1, <3>1
    <3>3. next \notin Done'
      BY <2>1, <2>3, <3>1, <3>2 DEF Done, TaskDue
    <3>4. exec'.state = exec.state
      BY <2>5, EndsExec DEF IInv
    <3> QED
      BY <1>1, <1>4, <2>1, <2>2, <2>3, <3>3, <3>4, Completes
  <2>6. CASE FinishWorkflow(w)
    <3>1. m = TotalSteps /\ WorkflowType # "INDEPENDENT"
      BY <2>6 DEF FinishWorkflow, m
    <3>2. ASSUME NEW n \in Steps PROVE n < m \/ n = m
      <4>1. n \in Int /\ n <= m
        BY <3>1, StepFacts
      <4> QED
        BY <1>1, <4>1
    <3>3. Steps \subseteq Done'
      BY <2>1, <2>3, <3>1, <3>2 DEF Done, TaskDue
    <3>4. exec'.state = "COMPLETED" /\ exec.state = "RUNNING"
      BY <1>2, <2>1, <2>6, EndsExec DEF IInv
    <3> QED
      BY <1>1, <1>4, <2>1, <2>2, <2>3, <3>3, <3>4, Completes
  <2> QED
    BY <1>12, <2>4, <2>5, <2>6
<1>13. CASE FinishCompensation(w) \/ NextCompensation(w)
  <2>1. CompDue(m) /\ holds[w].slot[1] = "comp"
    BY <1>1, <1>13 DEF FinishCompensation, NextCompensation, Succeeding
  <2>2. /\ \A n \in Steps : Undone(n)' <=> Undone(n) \/ n = m
        /\ SameDone /\ SameBegun
        /\ IF FinishCompensation(w) THEN RolledBack' ELSE SameRolledBack
    BY <1>13, EndsTell DEF m
  <2>3. UndoneSteps' = UndoneSteps \union {m}
    BY <1>1, <2>2 DEF UndoneSteps
  <2>4. m \in ToCompensate /\ m \notin UndoneSteps
    BY <1>1, <2>1, UndoesOne DEF CompDue
  <2>5. CASE FinishCompensation(w)
    <3>1. ToCompensate = UndoneSteps \union {m}
      BY <1>1, <2>1, <2>5, UndoesOne DEF FinishCompensation, m
    <3>2. exec'.state = "FAILED" /\ exec.state = "COMPENSATING"
      BY <1>2, <2>1, <2>5, EndsExec DEF IInv
    <3> QED
      BY <1>1, <1>4, <2>1, <2>2, <2>3, <2>4, <2>5, <3>1, <3>2, Undoes
  <2>6. CASE ~FinishCompensation(w)
    <3>1. NextCompensation(w)
      BY <1>13, <2>6
    <3>2. PICK n \in ToCompensate : n <= m - 1
      BY <3>1, CompensateFacts DEF NextCompensation, IsFirst, m
    <3>3. n \in Int /\ ~(n > m) /\ n # m
      <4>1. n \in Int
        BY CompensateFacts, StepFacts
      <4> QED
        BY <1>1, <3>2, <4>1
    <3>4. n \in ToCompensate \ UndoneSteps
      BY <2>1, <3>3 DEF CompDue
    <3>5. exec'.state = exec.state
      BY <3>1, EndsExec DEF IInv
    <3> QED
      BY <1>1, <1>4, <2>1, <2>2, <2>3, <2>6, <3>3, <3>4, <3>5, Undoes
  <2> QED
    BY <2>5, <2>6
<1> QED
  BY <1>6, <1>7, <1>9, <1>10, <1>11, <1>12, <1>13 DEF Ends

\* The other steps are steps of Workflow as well.
LEMMA AsidePromised ==
  ASSUME IInv, Story, Aside
  PROVE  Promise!Next
<1> USE DEF Story
<1>1. SameStory
  BY AsideTells
<1>2. Promise!Drop \/ Promise!Close => Promise!Next
  BY DEF Promise!Next
<1>3. ASSUME NEW w \in Workers, CompleteBegin(w)
      PROVE  Promise!Next
  <2>1. /\ Step(w) \in Steps /\ Step(w) \notin Reported
        /\ Reported' = Reported \union {Step(w)}
        /\ \/ exec.state = "RUNNING" /\ TaskDue(Step(w))
           \/ exec.state = "COMPENSATING" /\ CompDue(Step(w))
    BY <1>3, ReportBegins
  <2>2. exec' = exec
    BY <1>3 DEF CompleteBegin
  <2>3. Done' = Done /\ UndoneSteps' = UndoneSteps /\ Begun' = Begun /\ RolledBack' = RolledBack
    BY <1>1, ReadAs DEF SameStory
  <2>4. \/ exec.state = "RUNNING" /\ Promise!Due(Step(w))
        \/ exec.state = "COMPENSATING" /\ Promise!Highest(Step(w), Promise!ToUndo)
    BY <2>1, Read
  <2>5. Promise!Report(Step(w))
    BY <2>1, <2>2, <2>3, <2>4
       DEF Promise!Report, Reported, Done, UndoneSteps, Begun, RolledBack
  <2> QED
    BY <2>1, <2>5, Read DEF Promise!Next
<1>4. ASSUME \A w \in Workers : ~CompleteBegin(w)
      PROVE  Promise!Next
  <2>1. Reported' \subseteq Reported
    BY <1>4, NoneReported
  <2>2. CASE exec'.state = exec.state
    BY <1>1, <1>2, <2>1, <2>2, Drops
  <2>3. CASE CancelCommit
    BY <1>1, <1>2, <2>1, <2>3, CancelChanges, Closes DEF IInv
  <2>4. CASE ExpireOverdue
    <3>1. exec.state \in {"RUNNING", "COMPENSATING"} /\ exec'.state = "FAILED"
      <4>1. SaveError(exec, "timeout") \in Exec
        BY ExecFacts DEF IInv, TypeOK, Errors
      <4> QED
        BY <2>4, <4>1 DEF ExpireOverdue, IInv, RowsFitState, Exec
    <3> QED
      BY <1>1, <1>2, <2>1, <3>1, Closes
  <2>5. CASE ~CancelCommit /\ ~ExpireOverdue
    <3>1. exec' = exec
      <4>1. CASE UNCHANGED vars
        BY <4>1 DEF vars
      <4>2. CASE \/ \E w \in Workers : Quiet(w)
                 \/ \E s \in Slots : PollLost(s) \/ LeaseLapses(s)
        BY <4>2, RowsQuiet DEF IInv
      <4>3. CASE CancelWorkflow \/ ExpireOverdueWorkflows \/ ServerCrash \/ RecoverWorkflows
        BY <2>5, <4>3 DEF CancelWorkflow, CancelBegin, CancelTakesRow, CancelAborts,
                ExpireOverdueWorkflows, ExpireSweep, ExpireTakesRow, ExpireSwept,
                ExpireTimedOut, ExpireFailed, ExpireStatementFails, ServerCrash,
                RecoverWorkflows
      <4> QED
        BY <4>1, <4>2, <4>3 DEF Aside
    <3> QED
      BY <2>2, <3>1
  <2> QED
    BY <2>3, <2>4, <2>5
<1> QED
  BY <1>3, <1>4

\* So is the start of the execution.
LEMMA StartPromised ==
  ASSUME IInv, StartWorkflow
  PROVE  Promise!Next
<1>1. Done' = Done /\ UndoneSteps' = UndoneSteps /\ Begun' = Begun /\ RolledBack' = RolledBack
  BY StartTells, ReadAs DEF SameStory
<1>2. Reported' = Reported
  BY DEF StartWorkflow, Reported, Step, InFlight
<1>3. exec.state = "NONE" /\ exec'.state = "RUNNING"
  BY StartTells DEF StartWorkflow
<1> QED
  BY <1>1, <1>2, <1>3
     DEF Promise!Next, Promise!Start, Reported, Done, UndoneSteps, Begun, RolledBack

\* Every step, and every stutter, is one that Workflow allows.
LEMMA PromiseStep ==
  ASSUME IInv, Story, IInv', Story', [Next]_vars
  PROVE  Promise!Next
BY NextSplit, AsidePromised, StartPromised, EndsPromised

\* An execution keeps its promise: WorkflowExecution, with all its tasks, leases,
\* locks, transactions in flight, crashes, cancellations and sweeps, does nothing
\* to the state and the history of the execution that Workflow does not allow.
THEOREM KeepsPromise == Spec => PromiseKept
<1>1. Init => Promise!Init
  <2> SUFFICES ASSUME Init PROVE Promise!Init
    OBVIOUS
  <2>1. /\ {n \in Steps : Completed(n)} = {} /\ {n \in Steps : Undone(n)} = {}
        /\ Logged(Whole("COMPENSATION_STARTED")) = FALSE
        /\ Logged(Whole("SAGA_ROLLED_BACK")) = FALSE
    BY DEF Init, Completed, Undone, Logged
  <2>2. {Step(w) : w \in {v \in Workers : InFlight(v)}} = {}
    BY DEF Init, InFlight, IdleCall
  <2> QED
    BY <2>1, <2>2 DEF Init, NoExec, Promise!Init
<1>2. (IInv /\ Story) /\ (IInv /\ Story)' /\ [Next]_vars => [Promise!Next]_Promise!vars
  BY PromiseStep
<1> QED
  BY <1>1, <1>2, StoryAlways, PTL DEF Spec, PromiseKept, Promise!Spec

=============================================================================
