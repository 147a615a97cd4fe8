------------------------- MODULE Registration_proof -------------------------
(***************************************************************************)
(* Proofs about registrations, for any number of clients, other handlers,  *)
(* connections and versions.                                               *)
(***************************************************************************)
EXTENDS Registration, SequenceTheorems, FiniteSetTheorems, TLAPS

\* What a call has read is out of date only if another one has succeeded since.
NewsKnown ==
  \A c \in Clients :
    /\ stage[c] = "createNamespace" /\ namespace => c \in overtaken
    /\ stage[c] \in AfterLookup /\ found[c] # Len(defs) => c \in overtaken

\* The index entries keep all but one call from inserting a definition, and
\* that one replaces the last definition there is.
OneInserted ==
  /\ \A b, c \in Clients : stage[b] = "created" /\ stage[c] = "created" => b = c
  /\ \A c \in Clients : stage[c] = "created" => found[c] = Len(defs)

\* The inductive invariant.
IInv == TypeOK /\ VersionsInOrder /\ RefusedOnlyIfOvertaken /\ NewsKnown /\ OneInserted

\* The inductive invariant holds initially.
LEMMA IInvInit == Init => IInv
<1> SUFFICES ASSUME Init PROVE IInv
  OBVIOUS
<1>1. /\ defs = <<>> /\ Len(defs) = 0 /\ DOMAIN defs = {} /\ defs \in Seq(Definition)
      /\ stage = [r \in Requests |-> "idle"]
  BY DEF Init
<1>2. TypeOK
  <2>1. found \in [Clients -> 0 .. Len(defs)]
    BY <1>1, 0 \in 0 .. 0 DEF Init
  <2>2. \A r \in Requests : stage[r] = "idle"
    BY <1>1
  <2>3. stage \in [Requests -> ClientStages \union OtherStages]
    BY <1>1 DEF ClientStages, OtherStages
  <2> QED BY <1>1, <2>1, <2>2, <2>3
       DEF Init, TypeOK, Requests, ClientStages, OtherStages, AfterLookup, AfterNamespace
<1>3. VersionsInOrder
  BY <1>1 DEF VersionsInOrder
<1>4. RefusedOnlyIfOvertaken /\ NewsKnown /\ OneInserted
  BY <1>1 DEF RefusedOnlyIfOvertaken, NewsKnown, OneInserted, Requests, AfterLookup
<1> QED BY <1>2, <1>3, <1>4 DEF IInv

\* The steps that leave the definitions, what was read and the history alone.
Quiet(c) ==
  \/ Begin(c) \/ BeginTx(c) \/ Connect(c) \/ GetNamespace(c) \/ CreateNamespace(c)
  \/ Deactivate(c)

-----------------------------------------------------------------------------
\* With the versions in order, the unique indexes let an insert through just
\* when the definition it replaces is still the last one.
LEMMA IndexesSuffice ==
  ASSUME TypeOK, VersionsInOrder, NEW c \in Clients
  PROVE  UniqueViolation(c) <=> found[c] # Len(defs)
<1>1. /\ Len(defs) \in Nat /\ DOMAIN defs = 1 .. Len(defs)
      /\ found[c] \in 0 .. Len(defs)
  BY DEF TypeOK
<1>2. \A d \in 1 .. Len(defs) : defs[d].version = d /\ (defs[d].active <=> d = Len(defs))
  BY <1>1 DEF VersionsInOrder
<1>3. NextVersion(c) = found[c] + 1
  <2>1. CASE found[c] = 0
    BY <2>1 DEF NextVersion
  <2>2. CASE found[c] # 0
    <3>1. found[c] \in 1 .. Len(defs)
      BY <1>1, <2>2
    <3>2. defs[found[c]].version = found[c]
      BY <3>1, <1>2
    <3> QED BY <2>2, <3>2 DEF NextVersion
  <2> QED BY <2>1, <2>2
<1>4. CASE found[c] = Len(defs)
  <2> SUFFICES ASSUME NEW d \in 1 .. Len(defs)
               PROVE  defs[d].version # NextVersion(c) /\ ~(defs[d].active /\ d # found[c])
    BY <1>1, <1>4 DEF UniqueViolation
  <2>1. defs[d].version = d /\ (defs[d].active <=> d = Len(defs))
    BY <1>2
  <2>2. d # Len(defs) + 1
    BY <1>1
  <2> QED BY <2>1, <2>2, <1>3, <1>4
<1>5. CASE found[c] # Len(defs)
  <2>1. found[c] + 1 \in DOMAIN defs
    BY <1>1, <1>5
  <2>2. defs[found[c] + 1].version = found[c] + 1
    BY <2>1, <1>1, <1>2
  <2> QED BY <2>1, <2>2, <1>3, <1>5 DEF UniqueViolation
<1> QED BY <1>4, <1>5

\* A commit appends the version after the last one and makes it the active one.
LEMMA CommitAppends ==
  ASSUME IInv, NEW c \in Clients, Commit(c)
  PROVE  /\ defs' \in Seq(Definition)
         /\ Len(defs') = Len(defs) + 1
         /\ VersionsInOrder'
<1> DEFINE old == [d \in DOMAIN defs |-> [defs[d] EXCEPT !.active = @ /\ d # found[c]]]
           new == [version |-> NextVersion(c), active |-> TRUE]
<1>1. /\ defs \in Seq(Definition) /\ Len(defs) \in Nat /\ DOMAIN defs = 1 .. Len(defs)
      /\ \A d \in 1 .. Len(defs) : defs[d] \in Definition
  BY DEF IInv, TypeOK
<1>2. found[c] = Len(defs)
  BY DEF IInv, OneInserted, Commit, To
<1>3. \A d \in 1 .. Len(defs) : defs[d].version = d /\ (defs[d].active <=> d = Len(defs))
  BY <1>1 DEF IInv, VersionsInOrder
<1>4. NextVersion(c) = Len(defs) + 1
  <2>1. CASE Len(defs) = 0
    BY <2>1, <1>2 DEF NextVersion
  <2>2. CASE Len(defs) # 0
    <3>1. Len(defs) \in 1 .. Len(defs)
      BY <1>1, <2>2
    <3>2. defs[Len(defs)].version = Len(defs)
      BY <3>1, <1>3
    <3> QED BY <2>2, <3>2, <1>2 DEF NextVersion
  <2> QED BY <2>1, <2>2
<1>5. \A d \in 1 .. Len(defs) : old[d] = [version |-> d, active |-> FALSE]
  BY <1>1, <1>2, <1>3 DEF Definition
<1>6. old \in Seq(Definition) /\ Len(old) = Len(defs)
  <2>1. old \in [1 .. Len(defs) -> Definition]
    BY <1>1, <1>5 DEF Definition
  <2> QED BY <2>1, <1>1, SeqDef
<1>7. new \in Definition
  BY <1>1, <1>4 DEF Definition
<1>8. defs' = Append(old, new)
  BY DEF Commit
<1>9. /\ defs' \in Seq(Definition) /\ Len(defs') = Len(defs) + 1
      /\ \A d \in 1 .. Len(defs) : defs'[d] = old[d]
      /\ defs'[Len(defs) + 1] = new
  BY <1>1, <1>6, <1>7, <1>8
<1> HIDE DEF old
<1>10. VersionsInOrder'
  <2> SUFFICES ASSUME NEW d \in DOMAIN defs'
               PROVE  defs'[d].version = d /\ (defs'[d].active <=> d = Len(defs'))
    BY DEF VersionsInOrder
  <2>1. d \in 1 .. Len(defs) + 1
    BY <1>9
  <2>2. CASE d \in 1 .. Len(defs)
    <3>1. defs'[d] = [version |-> d, active |-> FALSE]
      BY <2>2, <1>5, <1>9
    <3>2. d # Len(defs')
      BY <2>2, <1>1, <1>9
    <3> QED BY <3>1, <3>2
  <2>3. CASE d = Len(defs) + 1
    BY <2>3, <1>1, <1>4, <1>9
  <2> QED BY <1>1, <2>1, <2>2, <2>3
<1> QED BY <1>9, <1>10

-----------------------------------------------------------------------------
\* Every step of a registration preserves the inductive invariant.
LEMMA ClientStep ==
  ASSUME IInv, NEW c \in Clients, Begin(c) \/ RegisterWorkflow(c) \/ Abort(c)
  PROVE  IInv'
<1> USE DEF IInv
<1>0. /\ Len(defs) \in Nat /\ DOMAIN defs = 1 .. Len(defs) /\ defs \in Seq(Definition)
      /\ c \in Requests /\ stage[c] \in ClientStages
  BY DEF TypeOK, Requests
<1>1. CASE Quiet(c)
  <2>1. UNCHANGED <<defs, namespace, found, overtaken>>
    BY <1>1 DEF Quiet, Begin, BeginTx, Connect, GetNamespace, CreateNamespace, Deactivate
  <2>2. PICK at : /\ stage' = [stage EXCEPT ![c] = at]
                  /\ at \notin {"created", "rejected"}
                     \/ (stage[c] = "createNamespace" /\ at = "rejected" /\ namespace)
    <3>1. CASE Begin(c) \/ BeginTx(c)
      BY <3>1 DEF Begin, BeginTx, To
    <3>2. CASE Connect(c)
      BY <3>2 DEF Connect, To
    <3>3. CASE GetNamespace(c)
      <4>1. \/ stage' = [stage EXCEPT ![c] = "name?"]
            \/ stage' = [stage EXCEPT ![c] = "createNamespace"]
        BY <3>3 DEF GetNamespace, To
      <4> QED BY <4>1
    <3>4. CASE CreateNamespace(c)
      BY <3>4 DEF CreateNamespace, To
    <3>5. CASE Deactivate(c)
      <4>1. stage' = [stage EXCEPT ![c] = "create"]
        BY <3>5 DEF Deactivate, To
      <4>2. "create" \notin {"created", "rejected"}
        OBVIOUS
      <4> QED BY <4>1, <4>2
    <3> QED BY <1>1, <3>1, <3>2, <3>3, <3>4, <3>5 DEF Quiet
  <2>3. stage'[c] = at /\ \A r \in Requests \ {c} : stage'[r] = stage[r]
    BY <1>0, <2>2 DEF TypeOK
  <2>4. TypeOK'
    BY <1>0, <1>1, DistinctAssumption
       DEF Quiet, Begin, BeginTx, Connect, GetNamespace, CreateNamespace, Deactivate, To, TypeOK,
           Requests, ClientStages, AfterLookup, AfterNamespace
  <2>5. VersionsInOrder'
    BY <2>1 DEF VersionsInOrder
  <2>6. RefusedOnlyIfOvertaken'
    BY <2>1, <2>2, <2>3 DEF RefusedOnlyIfOvertaken, NewsKnown, Requests
  <2>7. NewsKnown'
    BY <1>0, <1>1 DEF NewsKnown, Quiet, Begin, BeginTx, Connect, GetNamespace, CreateNamespace,
       Deactivate, To, TypeOK, AfterLookup, Requests
  <2>8. OneInserted'
    BY <2>1, <2>2, <2>3 DEF OneInserted, Requests
  <2> QED BY <2>4, <2>5, <2>6, <2>7, <2>8
<1>2. CASE GetByName(c)
  <2>1. /\ UNCHANGED <<defs, namespace, created, overtaken>>
        /\ stage[c] = "name"
        /\ \E at \in {"deactivate", "create"} : stage' = [stage EXCEPT ![c] = at]
        /\ found'[c] = Len(defs) /\ found' \in [Clients -> 0 .. Len(defs)]
        /\ \A b \in Clients \ {c} : found'[b] = found[b]
    BY <1>0, <1>2 DEF GetByName, To, TypeOK, VersionsInOrder, AfterLookup
  <2>2. TypeOK'
    BY <1>0, <2>1, DistinctAssumption
       DEF TypeOK, Requests, ClientStages, AfterLookup, AfterNamespace
  <2>3. VersionsInOrder' /\ RefusedOnlyIfOvertaken' /\ OneInserted'
    BY <1>0, <2>1 DEF VersionsInOrder, RefusedOnlyIfOvertaken, OneInserted, TypeOK, Requests
  <2>4. NewsKnown'
    BY <1>0, <2>1 DEF NewsKnown, TypeOK, Requests
  <2> QED BY <2>2, <2>3, <2>4
<1>3. CASE Create(c)
  <2>1. /\ UNCHANGED <<defs, namespace, created, found, overtaken>>
        /\ stage[c] = "create" /\ \A b \in Clients \ {c} : stage[b] # "created"
        /\ stage' = [stage EXCEPT ![c] = IF found[c] # Len(defs) THEN "rejected" ELSE "created"]
    BY <1>3, IndexesSuffice DEF Create, To, EntryTaken
  <2>2. TypeOK'
    BY <1>0, <2>1, DistinctAssumption
       DEF TypeOK, Requests, ClientStages, AfterLookup, AfterNamespace
  <2>3. VersionsInOrder' /\ NewsKnown'
    BY <1>0, <2>1 DEF VersionsInOrder, NewsKnown, TypeOK, Requests, AfterLookup
  <2>4. RefusedOnlyIfOvertaken'
    BY <1>0, <2>1 DEF RefusedOnlyIfOvertaken, NewsKnown, TypeOK, Requests, AfterLookup
  <2>5. OneInserted'
    BY <1>0, <2>1 DEF OneInserted, TypeOK, Requests
  <2> QED BY <2>2, <2>3, <2>4, <2>5
<1>4. CASE Commit(c)
  <2>1. /\ defs' \in Seq(Definition) /\ Len(defs') = Len(defs) + 1 /\ VersionsInOrder'
    BY <1>4, CommitAppends
  <2>2. /\ stage[c] = "created" /\ stage' = [stage EXCEPT ![c] = "idle"]
        /\ overtaken' = {b \in Clients \ {c} : stage[b] # "idle"}
        /\ created' = created \ {c} /\ found' = [found EXCEPT ![c] = 0]
        /\ namespace' \in BOOLEAN
    BY <1>4 DEF Commit, To, End, TypeOK
  <2>3. \A b \in Clients \ {c} : stage[b] # "created"
    BY <2>2 DEF OneInserted
  <2>4. TypeOK'
    <3>1. found' \in [Clients -> 0 .. Len(defs')]
      BY <1>0, <2>1, <2>2 DEF TypeOK
    <3> QED BY <1>0, <2>1, <2>2, <3>1, DistinctAssumption
         DEF TypeOK, Requests, ClientStages, AfterLookup, AfterNamespace
  <2>5. RefusedOnlyIfOvertaken' /\ NewsKnown'
    BY <1>0, <2>2 DEF RefusedOnlyIfOvertaken, NewsKnown, TypeOK, Requests, AfterLookup
  <2>6. OneInserted'
    BY <1>0, <2>2, <2>3 DEF OneInserted, TypeOK, Requests
  <2> QED BY <2>1, <2>4, <2>5, <2>6
<1>5. CASE Rollback(c) \/ Abort(c)
  <2>1. /\ UNCHANGED <<defs, namespace>>
        /\ stage' = [stage EXCEPT ![c] = "idle"]
        /\ overtaken' = overtaken \ {c}
        /\ created' = created \ {c} /\ found' = [found EXCEPT ![c] = 0]
    BY <1>5 DEF Rollback, Abort, To, End
  <2>2. TypeOK'
    BY <1>0, <2>1, DistinctAssumption
       DEF TypeOK, Requests, ClientStages, AfterLookup, AfterNamespace
  <2>3. VersionsInOrder' /\ RefusedOnlyIfOvertaken' /\ NewsKnown' /\ OneInserted'
    BY <1>0, <2>1 DEF VersionsInOrder, RefusedOnlyIfOvertaken, NewsKnown, OneInserted,
       TypeOK, Requests, AfterLookup
  <2> QED BY <2>2, <2>3
<1> QED BY <1>1, <1>2, <1>3, <1>4, <1>5 DEF RegisterWorkflow, Quiet

\* The other handlers touch nothing of a registration.
LEMMA OtherStep ==
  ASSUME IInv, NEW o \in Others, OtherBegins(o) \/ OtherProceeds(o) \/ OtherAsks(o)
  PROVE  IInv'
<1>1. /\ UNCHANGED <<defs, namespace, created, found, overtaken>>
      /\ stage' \in [Requests -> ClientStages \union OtherStages]
      /\ stage'[o] \in OtherStages
      /\ \A r \in Requests \ {o} : stage'[r] = stage[r]
  BY DEF IInv, TypeOK, OtherBegins, OtherProceeds, OtherAsks, To, Requests, OtherStages
<1>2. \A c \in Clients : stage'[c] = stage[c]
  BY <1>1, DistinctAssumption DEF Requests
<1> QED BY <1>1, <1>2 DEF IInv, TypeOK, VersionsInOrder, RefusedOnlyIfOvertaken, NewsKnown,
       OneInserted, Requests

\* The inductive invariant is one.
LEMMA IInvNext == IInv /\ [Next]_vars => IInv'
<1> SUFFICES ASSUME IInv, [Next]_vars PROVE IInv'
  OBVIOUS
<1>1. CASE Next
  BY <1>1, ClientStep, OtherStep DEF Next
<1>2. CASE UNCHANGED vars
  BY <1>2 DEF vars, IInv, TypeOK, VersionsInOrder, RefusedOnlyIfOvertaken, NewsKnown, OneInserted
<1> QED BY <1>1, <1>2

-----------------------------------------------------------------------------
\* The inductive invariant holds in every reachable state.
LEMMA Invariance == Spec => []IInv
BY IInvInit, IInvNext, PTL DEF Spec

\* What a call has read or locked belongs to its stage.
THEOREM TypeCorrect == Spec => []TypeOK
BY Invariance, PTL DEF IInv

\* Versions are numbered in the order of the commits, and just the last is
\* active, for any number of registrations at a time.
THEOREM VersionsOrdered == Spec => []VersionsInOrder
BY Invariance, PTL DEF IInv

\* A registration is refused only if another one succeeded during its call.
THEOREM OneGetsThrough == Spec => []RefusedOnlyIfOvertaken
BY Invariance, PTL DEF IInv

-----------------------------------------------------------------------------
\* The values of Place.
LEMMA Places ==
  /\ Place("idle") = "out" /\ Place("begin") = "waiting"
  /\ Place("namespace?") = "asking" /\ Place("name?") = "asking" /\ Place("asking") = "asking"
  /\ Place("namespace") = "nested" /\ Place("name") = "nested" /\ Place("nested") = "nested"
  /\ Place("createNamespace") = "open" /\ Place("deactivate") = "open"
  /\ Place("create") = "open" /\ Place("created") = "open" /\ Place("rejected") = "open"
  /\ Place("open") = "open"
BY DEF Place

\* What a move of one request between stages is to the pool.
LEMMA Moves ==
  ASSUME TypeOK, NEW r \in Requests, NEW from, NEW to, To(r, from, to)
  PROVE  /\ Pool!To(r, Place(from), Place(to))
         /\ Place(from) = Place(to) => UNCHANGED Pool!vars
BY DEF TypeOK, To, Pool!To, Pool!vars

\* A step of a registration is one of the pool's or does not concern it.
LEMMA ClientUsesPool ==
  ASSUME TypeOK, NEW c \in Clients, Begin(c) \/ RegisterWorkflow(c) \/ Abort(c)
  PROVE  Pool!Step(c) \/ UNCHANGED Pool!vars
<1>0. c \in Requests
  BY DEF Requests
<1>1. CASE Begin(c)
  <2>1. To(c, "idle", "begin")
    BY <1>1 DEF Begin
  <2> QED BY <1>0, <2>1, Moves, Places DEF Pool!Step, Pool!Begin
<1>2. CASE BeginTx(c)
  <2>1. HasRoom /\ To(c, "begin", "namespace?")
    BY <1>2 DEF BeginTx
  <2>2. Pool!To(c, "waiting", "asking")
    BY <1>0, <2>1, Moves, Places
  <2> QED BY <2>1, <2>2 DEF HasRoom, Pool!Step, Pool!Open
<1>3. CASE Connect(c)
  <2>1. HasRoom /\ (To(c, "namespace?", "namespace") \/ To(c, "name?", "name"))
    BY <1>3 DEF Connect
  <2>2. Pool!To(c, "asking", "nested")
    BY <1>0, <2>1, Moves, Places
  <2> QED BY <2>1, <2>2 DEF HasRoom, Pool!Step, Pool!Nest
<1>4. CASE GetNamespace(c)
  <2>1. To(c, "namespace", "name?") \/ To(c, "namespace", "createNamespace")
    BY <1>4 DEF GetNamespace
  <2>2. Pool!To(c, "nested", "asking") \/ Pool!To(c, "nested", "open")
    BY <1>0, <2>1, Moves, Places
  <2> QED BY <2>2 DEF Pool!Step, Pool!Return
<1>5. CASE CreateNamespace(c)
  <2>1. To(c, "createNamespace", "rejected") \/ To(c, "createNamespace", "name?")
    BY <1>5 DEF CreateNamespace
  <2>2. UNCHANGED Pool!vars \/ Pool!To(c, "open", "asking")
    BY <1>0, <2>1, Moves, Places
  <2> QED BY <2>2 DEF Pool!Step, Pool!Ask
<1>6. CASE GetByName(c)
  <2>1. To(c, "name", "deactivate") \/ To(c, "name", "create")
    BY <1>6 DEF GetByName
  <2>2. Pool!To(c, "nested", "open")
    BY <1>0, <2>1, Moves, Places
  <2> QED BY <2>2 DEF Pool!Step, Pool!Return
<1>7. CASE Deactivate(c) \/ Create(c)
  <2>1. \/ To(c, "deactivate", "create") \/ To(c, "create", "created")
        \/ To(c, "create", "rejected")
    BY <1>7 DEF Deactivate, Create
  <2> QED BY <1>0, <2>1, Moves, Places
<1>8. CASE Commit(c) \/ Rollback(c) \/ Abort(c)
  <2>1. /\ stage[c] \in ClientStages \ {"idle"}
        /\ To(c, stage[c], "idle")
    BY <1>8 DEF Commit, Rollback, Abort, To, TypeOK, ClientStages
  <2>2. Pool!To(c, Place(stage[c]), "out") /\ Place(stage[c]) # "out"
    BY <1>0, <2>1, Moves, Places DEF ClientStages
  <2> QED BY <2>2 DEF Pool!Step, Pool!End, Pool!To
<1> QED BY <1>1, <1>2, <1>3, <1>4, <1>5, <1>6, <1>7, <1>8 DEF RegisterWorkflow

\* A step of another handler is one of the pool's.
LEMMA OtherUsesPool ==
  ASSUME TypeOK, NEW o \in Others, OtherBegins(o) \/ OtherProceeds(o) \/ OtherAsks(o)
  PROVE  Pool!Step(o)
<1>0. o \in Requests
  BY DEF Requests
<1>1. CASE OtherBegins(o)
  BY <1>0, <1>1, Moves, Places DEF OtherBegins, Pool!Step, Pool!Begin
<1>2. CASE OtherAsks(o)
  BY <1>0, <1>2, Moves, Places DEF OtherAsks, Pool!Step, Pool!Ask
<1>3. CASE OtherProceeds(o)
  <2>1. CASE HasRoom /\ To(o, "begin", "open")
    BY <1>0, <2>1, Moves, Places DEF HasRoom, Pool!Step, Pool!Open
  <2>2. CASE HasRoom /\ To(o, "asking", "nested")
    BY <1>0, <2>2, Moves, Places DEF HasRoom, Pool!Step, Pool!Nest
  <2>3. CASE To(o, "nested", "open")
    BY <1>0, <2>3, Moves, Places DEF Pool!Step, Pool!Return
  <2>4. CASE To(o, "open", "idle")
    <3>1. Pool!To(o, "open", "out")
      BY <1>0, <2>4, Moves, Places
    <3> QED BY <3>1 DEF Pool!Step, Pool!End, Pool!To
  <2> QED BY <1>3, <2>1, <2>2, <2>3, <2>4 DEF OtherProceeds
<1> QED BY <1>1, <1>2, <1>3

\* Registrations and the handlers beside them use the pool as ConnPool says:
\* every step of theirs is one of the pool's or does not concern it.
THEOREM PoolImplemented == Spec => PoolRespected
<1>1. Init => Pool!Init
  BY DEF Init, Pool!Init, Place
<1>2. TypeOK /\ [Next]_vars => [Pool!Next]_Pool!vars
  <2> SUFFICES ASSUME TypeOK, [Next]_vars
               PROVE  Pool!Next \/ UNCHANGED Pool!vars
    BY DEF Pool!vars
  <2>1. CASE UNCHANGED vars
    BY <2>1 DEF vars, Pool!vars
  <2>2. CASE Next
    <3>1. ASSUME NEW c \in Clients, Begin(c) \/ RegisterWorkflow(c) \/ Abort(c)
          PROVE  Pool!Next \/ UNCHANGED Pool!vars
      BY <3>1, ClientUsesPool DEF Pool!Next, Requests
    <3>2. ASSUME NEW o \in Others, OtherBegins(o) \/ OtherProceeds(o) \/ OtherAsks(o)
          PROVE  Pool!Next
      BY <3>2, OtherUsesPool DEF Pool!Next, Requests
    <3> QED BY <2>2, <3>1, <3>2 DEF Next
  <2> QED BY <2>1, <2>2
<1> QED BY <1>1, <1>2, TypeCorrect, PTL DEF Spec, PoolRespected, Pool!Spec

-----------------------------------------------------------------------------
(* The bound.                                                               *)

\* The numbers ConnPool speaks of are the usual ones.
LEMMA SameCount == \A S : Pool!Cardinality(S) = Cardinality(S)
BY DEF Pool!Cardinality, Cardinality, Pool!IsFiniteSet, IsFiniteSet

\* What a request does to the requests that are at some places.
LEMMA AtMoves ==
  ASSUME NEW r \in Requests, NEW from, NEW to, Pool!To(r, from, to), NEW S
  PROVE  /\ Pool!At(S)' = IF to \in S THEN Pool!At(S) \union {r} ELSE Pool!At(S) \ {r}
         /\ r \in Pool!At(S) <=> from \in S
         /\ IsFiniteSet(Pool!At(S))
<1>1. /\ Place(stage[r]) = from
      /\ \A q \in Requests : Place(stage'[q]) = IF q = r THEN to ELSE Place(stage[q])
  BY DEF Pool!To
<1>2. IsFiniteSet(Requests)
  BY FiniteAssumption, FS_Union DEF Requests
<1>3. IsFiniteSet(Pool!At(S))
  BY <1>2, FS_Subset DEF Pool!At
<1> QED BY <1>1, <1>3 DEF Pool!At

\* ... and how their number changes.
LEMMA NumberMoves ==
  ASSUME NEW r \in Requests, NEW from, NEW to, Pool!To(r, from, to), NEW S
  PROVE  /\ Cardinality(Pool!At(S)) \in Nat
         /\ Cardinality(Pool!At(S)') = IF from \in S
              THEN IF to \in S THEN Cardinality(Pool!At(S)) ELSE Cardinality(Pool!At(S)) - 1
              ELSE IF to \in S THEN Cardinality(Pool!At(S)) + 1 ELSE Cardinality(Pool!At(S))
<1>1. IsFiniteSet(Pool!At(S))
  BY AtMoves
<1>2. Cardinality(Pool!At(S)) \in Nat
  BY <1>1, FS_CardinalityType
<1>3. CASE to \in S
  <2>1. Pool!At(S)' = Pool!At(S) \union {r}
    BY <1>3, AtMoves
  <2>2. Cardinality(Pool!At(S) \union {r}) =
          IF r \in Pool!At(S) THEN Cardinality(Pool!At(S)) ELSE Cardinality(Pool!At(S)) + 1
    BY <1>1, FS_AddElement
  <2>3. r \in Pool!At(S) <=> from \in S
    BY AtMoves
  <2> QED BY <1>2, <1>3, <2>1, <2>2, <2>3
<1>4. CASE to \notin S
  <2>1. Pool!At(S)' = Pool!At(S) \ {r}
    BY <1>4, AtMoves
  <2>2. Cardinality(Pool!At(S) \ {r}) =
          IF r \in Pool!At(S) THEN Cardinality(Pool!At(S)) - 1 ELSE Cardinality(Pool!At(S))
    BY <1>1, FS_RemoveElement
  <2>3. r \in Pool!At(S) <=> from \in S
    BY AtMoves
  <2> QED BY <1>2, <1>4, <2>1, <2>2, <2>3
<1> QED BY <1>2, <1>3, <1>4

\* Only Open and Nest, which look for room, take a connection.
LEMMA StepKeepsBound ==
  ASSUME Pool!TypeOK, Pool!Bounded, NEW r \in Requests, Pool!Step(r)
  PROVE  Pool!Bounded'
<1> DEFINE Number(S) == Cardinality(Pool!At(S))
           H == {"open", "asking", "nested"}
<1>1. ASSUME NEW from, NEW to, Pool!To(r, from, to)
      PROVE  /\ Number(H) \in Nat /\ Number({"nested"}) \in Nat
             /\ Pool!InUse = Number(H) + Number({"nested"})
             /\ Pool!InUse' = Number(H)' + Number({"nested"})'
             /\ Number(H)' = IF from \in H THEN IF to \in H THEN Number(H) ELSE Number(H) - 1
                             ELSE IF to \in H THEN Number(H) + 1 ELSE Number(H)
             /\ Number({"nested"})' =
                  IF from = "nested"
                    THEN IF to = "nested" THEN Number({"nested"}) ELSE Number({"nested"}) - 1
                    ELSE IF to = "nested" THEN Number({"nested"}) + 1 ELSE Number({"nested"})
  <2>1. /\ Pool!InUse = Number(H) + Number({"nested"})
        /\ Pool!InUse' = Number(H)' + Number({"nested"})'
    BY SameCount DEF Pool!InUse, Pool!Holders
  <2>2. /\ Number(H) \in Nat
        /\ Number(H)' = IF from \in H
             THEN IF to \in H THEN Number(H) ELSE Number(H) - 1
             ELSE IF to \in H THEN Number(H) + 1 ELSE Number(H)
    BY <1>1, NumberMoves
  <2>3. /\ Number({"nested"}) \in Nat
        /\ Number({"nested"})' = IF from \in {"nested"}
             THEN IF to \in {"nested"} THEN Number({"nested"}) ELSE Number({"nested"}) - 1
             ELSE IF to \in {"nested"} THEN Number({"nested"}) + 1 ELSE Number({"nested"})
    BY <1>1, NumberMoves
  <2> QED BY <2>1, <2>2, <2>3
<1> HIDE DEF Number
<1>2. CASE Pool!Begin(r)
  BY <1>1, <1>2, BoundsAssumption DEF Pool!Begin, Pool!Bounded
<1>3. CASE Pool!Open(r)
  BY <1>1, <1>3, BoundsAssumption DEF Pool!Open, Pool!Bounded
<1>4. CASE Pool!Ask(r)
  BY <1>1, <1>4, BoundsAssumption DEF Pool!Ask, Pool!Bounded
<1>5. CASE Pool!Nest(r)
  BY <1>1, <1>5, BoundsAssumption DEF Pool!Nest, Pool!Bounded
<1>6. CASE Pool!Return(r)
  BY <1>1, <1>6, BoundsAssumption DEF Pool!Return, Pool!Bounded
<1>7. CASE Pool!End(r)
  <2>1. PICK from : Pool!To(r, from, "out")
    BY <1>7 DEF Pool!End, Pool!To
  <2> QED BY <1>1, <2>1, BoundsAssumption DEF Pool!Bounded
<1> QED BY <1>2, <1>3, <1>4, <1>5, <1>6, <1>7 DEF Pool!Step

\* No more connections are open than SetMaxOpenConns allows, however many
\* requests ask for a second one while they hold the first.
THEOREM PoolBounded == Spec => []Pool!Bounded
<1>1. Pool!Init => Pool!TypeOK /\ Pool!Bounded
  <2> SUFFICES ASSUME Pool!Init PROVE Pool!TypeOK /\ Pool!Bounded
    OBVIOUS
  <2>1. \A r \in Requests : Place(stage[r]) = "out"
    BY DEF Pool!Init
  <2>2. Pool!Holders = {} /\ Pool!At({"nested"}) = {}
    BY <2>1 DEF Pool!Holders, Pool!At
  <2>3. Pool!InUse = 0
    BY <2>2, FS_EmptySet, SameCount DEF Pool!InUse
  <2>4. Pool!TypeOK
    BY DEF Pool!Init, Pool!TypeOK, Pool!Places
  <2> QED BY <2>3, <2>4, BoundsAssumption DEF Pool!Bounded
<1>2. Pool!TypeOK /\ Pool!Bounded /\ [Pool!Next]_Pool!vars => Pool!TypeOK' /\ Pool!Bounded'
  <2> SUFFICES ASSUME Pool!TypeOK, Pool!Bounded, [Pool!Next]_Pool!vars
               PROVE  Pool!TypeOK' /\ Pool!Bounded'
    OBVIOUS
  <2>1. CASE UNCHANGED Pool!vars
    BY <2>1 DEF Pool!vars, Pool!TypeOK, Pool!Bounded, Pool!InUse, Pool!Holders, Pool!At
  <2>2. ASSUME NEW r \in Requests, Pool!Step(r) PROVE Pool!TypeOK'
    BY <2>2 DEF Pool!TypeOK, Pool!Places, Pool!Step, Pool!Begin, Pool!Open, Pool!Ask,
                Pool!Nest, Pool!Return, Pool!End, Pool!To
  <2> QED BY <2>1, <2>2, StepKeepsBound DEF Pool!Next
<1> QED BY <1>1, <1>2, PoolImplemented, PTL DEF PoolRespected, Pool!Spec

=============================================================================
