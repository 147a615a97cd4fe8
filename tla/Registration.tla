---------------------------- MODULE Registration ----------------------------
(***************************************************************************)
(* RegisterWorkflow for one name: concurrent registrations that replace    *)
(* the active definition by one with the next version, against the unique  *)
(* constraints of PostgreSQL and the bound of the connection pool.  The    *)
(* lookups of the namespace and of the active definition take a second     *)
(* connection and see only what is committed; everything else is in the    *)
(* transaction.  A statement that meets a row or an index entry of a       *)
(* transaction in flight waits for its end.                                *)
(***************************************************************************)
EXTENDS Naturals, Sequences, FiniteSets

CONSTANTS
  Clients,       \* RegisterWorkflow calls at a time
  Others,        \* other handlers that take a second connection
  MaxOpenConns,  \* the bound of the pool
  MaxVersions    \* bound: nothing new begins once so many versions exist

ASSUME DistinctAssumption == Clients \cap Others = {}
ASSUME FiniteAssumption == IsFiniteSet(Clients) /\ IsFiniteSet(Others)
ASSUME BoundsAssumption == MaxOpenConns \in Nat /\ MaxVersions \in Nat

Requests == Clients \union Others

VARIABLES
  defs,       \* the committed definitions of the name, in commit order
  namespace,  \* is the namespace of the name committed?
  stage,      \* how far each request is
  created,    \* the clients whose transaction has inserted the namespace
  found,      \* the active definition each client has read, 0 if none
  overtaken   \* the clients during whose call another one has succeeded (history)

vars == <<defs, namespace, stage, created, found, overtaken>>

Definition == [version : Nat, active : BOOLEAN]

-----------------------------------------------------------------------------
(* The pool.                                                                *)

ClientStages == {"idle", "begin", "namespace?", "namespace", "createNamespace",
                 "name?", "name", "deactivate", "create", "created", "rejected"}
OtherStages == {"idle", "begin", "open", "asking", "nested"}

\* What a stage means to the pool.
Place(at) ==
  CASE at = "idle" -> "out"
    [] at = "begin" -> "waiting"
    [] at \in {"namespace?", "name?", "asking"} -> "asking"
    [] at \in {"namespace", "name", "nested"} -> "nested"
    [] OTHER -> "open"

Pool == INSTANCE ConnPool WITH place <- [r \in Requests |-> Place(stage[r])]

\* Fault injection: SetMaxOpenConns is not called.
Unlimited == TRUE

HasRoom == Pool!InUse < MaxOpenConns

-----------------------------------------------------------------------------
(* Rows and index entries of transactions in flight.                        *)

\* Has a transaction other than c's locked the row of definition d?
RowLocked(c, d) ==
  \E b \in Clients \ {c} : stage[b] \in {"create", "created", "rejected"} /\ found[b] = d

\* Does another transaction hold the index entry of the namespace's name?
NamespaceTaken(c) == \E b \in Clients \ {c} : b \in created

\* Does another transaction hold entries of the indexes on definitions?
EntryTaken(c) == \E b \in Clients \ {c} : stage[b] = "created"

NextVersion(c) == IF found[c] = 0 THEN 1 ELSE defs[found[c]].version + 1

\* Fault injection: neither index is there.
NoViolation(c) == FALSE

\* Does the insert run against uq_workflow_definition_namespace_name_version
\* or, as far as c has not deactivated it itself, uq_workflow_definition_active?
UniqueViolation(c) ==
  \E d \in DOMAIN defs :
    defs[d].version = NextVersion(c) \/ (defs[d].active /\ d # found[c])

Init ==
  /\ defs = <<>>
  /\ namespace = FALSE
  /\ stage = [r \in Requests |-> "idle"]
  /\ created = {}
  /\ found = [c \in Clients |-> 0]
  /\ overtaken = {}

-----------------------------------------------------------------------------
(* RegisterWorkflow.                                                        *)

To(r, from, to) == stage[r] = from /\ stage' = [stage EXCEPT ![r] = to]

Begin(c) ==
  /\ Len(defs) < MaxVersions
  /\ To(c, "idle", "begin")
  /\ UNCHANGED <<defs, namespace, created, found, overtaken>>

BeginTx(c) ==
  /\ HasRoom
  /\ To(c, "begin", "namespace?")
  /\ UNCHANGED <<defs, namespace, created, found, overtaken>>

\* A lookup gets its connection.
Connect(c) ==
  /\ HasRoom
  /\ To(c, "namespace?", "namespace") \/ To(c, "name?", "name")
  /\ UNCHANGED <<defs, namespace, created, found, overtaken>>

GetNamespace(c) ==
  /\ To(c, "namespace", IF namespace THEN "name?" ELSE "createNamespace")
  /\ UNCHANGED <<defs, namespace, created, found, overtaken>>

CreateNamespace(c) ==
  /\ ~NamespaceTaken(c)
  /\ IF namespace
       THEN To(c, "createNamespace", "rejected") /\ UNCHANGED created
       ELSE To(c, "createNamespace", "name?") /\ created' = created \union {c}
  /\ UNCHANGED <<defs, namespace, found, overtaken>>

\* A namespace of the transaction's own has no definitions yet.
GetByName(c) ==
  \/ /\ \E d \in DOMAIN defs : defs[d].active /\ found' = [found EXCEPT ![c] = d]
     /\ To(c, "name", "deactivate")
     /\ UNCHANGED <<defs, namespace, created, overtaken>>
  \/ /\ \A d \in DOMAIN defs : ~defs[d].active
     /\ To(c, "name", "create")
     /\ UNCHANGED <<defs, namespace, created, found, overtaken>>

\* Fault injection: the old definition stays active.
DeactivateNothing(c) ==
  /\ To(c, "deactivate", "create")
  /\ found' = [found EXCEPT ![c] = 0]
  /\ UNCHANGED <<defs, namespace, created, overtaken>>

\* By id: it does not matter whether the definition is still the active one.
Deactivate(c) ==
  /\ ~RowLocked(c, found[c])
  /\ To(c, "deactivate", "create")
  /\ UNCHANGED <<defs, namespace, created, found, overtaken>>

\* The definition and its steps.
Create(c) ==
  /\ ~EntryTaken(c)
  /\ To(c, "create", IF UniqueViolation(c) THEN "rejected" ELSE "created")
  /\ UNCHANGED <<defs, namespace, created, found, overtaken>>

\* Fault injection: what was read is kept for the next call.
EndKeepsRead(c) == created' = created \ {c} /\ UNCHANGED found

\* What c has read and holds is gone with its transaction.
End(c) ==
  /\ created' = created \ {c}
  /\ found' = [found EXCEPT ![c] = 0]

Commit(c) ==
  /\ To(c, "created", "idle")
  /\ defs' = Append([d \in DOMAIN defs |-> [defs[d] EXCEPT !.active = @ /\ d # found[c]]],
                    [version |-> NextVersion(c), active |-> TRUE])
  /\ namespace' = (namespace \/ c \in created)
  /\ overtaken' = {b \in Clients \ {c} : stage[b] # "idle"}
  /\ End(c)

\* Fault injection: the error is returned and the transaction left open.
RollbackForgotten(c) == FALSE /\ UNCHANGED vars

\* A statement was refused: the transaction is rolled back, the call fails.
Rollback(c) ==
  /\ To(c, "rejected", "idle")
  /\ overtaken' = overtaken \ {c}
  /\ End(c)
  /\ UNCHANGED <<defs, namespace>>

\* The request is cancelled or its connection breaks.
Abort(c) ==
  /\ stage[c] # "idle"
  /\ stage' = [stage EXCEPT ![c] = "idle"]
  /\ overtaken' = overtaken \ {c}
  /\ End(c)
  /\ UNCHANGED <<defs, namespace>>

RegisterWorkflow(c) ==
  \/ BeginTx(c) \/ Connect(c)
  \/ GetNamespace(c) \/ CreateNamespace(c)
  \/ GetByName(c) \/ Deactivate(c) \/ Create(c)
  \/ Commit(c) \/ Rollback(c)

-----------------------------------------------------------------------------
(* Another handler, such as CompleteTask with its checkpoint, StartWorkflow *)
(* with the steps of its definition or startCompensation: it asks for a     *)
(* second connection any number of times.                                   *)

OtherBegins(o) ==
  /\ To(o, "idle", "begin")
  /\ UNCHANGED <<defs, namespace, created, found, overtaken>>

OtherProceeds(o) ==
  /\ \/ HasRoom /\ (To(o, "begin", "open") \/ To(o, "asking", "nested"))
     \/ To(o, "nested", "open")
     \/ To(o, "open", "idle")
  /\ UNCHANGED <<defs, namespace, created, found, overtaken>>

OtherAsks(o) ==
  /\ To(o, "open", "asking")
  /\ UNCHANGED <<defs, namespace, created, found, overtaken>>

-----------------------------------------------------------------------------
Next ==
  \/ \E c \in Clients : Begin(c) \/ RegisterWorkflow(c) \/ Abort(c)
  \/ \E o \in Others : OtherBegins(o) \/ OtherProceeds(o) \/ OtherAsks(o)

Spec == Init /\ [][Next]_vars

\* The pool and PostgreSQL serve all who wait for a connection or a lock, and
\* handlers that can go on do and do not ask for ever.
Fairness ==
  /\ \A c \in Clients : SF_vars(RegisterWorkflow(c))
  /\ \A o \in Others : SF_vars(OtherProceeds(o)) /\ SF_vars(To(o, "open", "idle") /\ OtherProceeds(o))

FairSpec == Spec /\ Fairness

-----------------------------------------------------------------------------
AfterLookup == {"deactivate", "create", "created", "rejected"}
AfterNamespace == AfterLookup \union {"name?", "name"}

\* What a call has read or locked belongs to its stage: nothing of it is left
\* for the next call.
TypeOK ==
  /\ defs \in Seq(Definition)
  /\ namespace \in BOOLEAN
  /\ stage \in [Requests -> ClientStages \union OtherStages]
  /\ \A c \in Clients : stage[c] \in ClientStages
  /\ \A o \in Others : stage[o] \in OtherStages
  /\ created \subseteq {c \in Clients : stage[c] \in AfterNamespace}
  /\ found \in [Clients -> 0 .. Len(defs)]
  /\ \A c \in Clients : found[c] # 0 => stage[c] \in AfterLookup
  /\ overtaken \subseteq {c \in Clients : stage[c] # "idle"}

\* However registrations of a name overlap, its versions are numbered without
\* gaps in the order in which they were committed, and just the last one is
\* active.
VersionsInOrder ==
  \A d \in DOMAIN defs : defs[d].version = d /\ (defs[d].active <=> d = Len(defs))

\* A registration is refused only if another one succeeded since it began: of
\* those that overlap, one gets through.
RefusedOnlyIfOvertaken ==
  \A c \in Clients : stage[c] = "rejected" => c \in overtaken

\* Registrations and the other handlers use the pool as ConnPool says: no
\* connection beyond the bound, none kept after the end.
PoolRespected == Pool!Spec

\* As long as fewer requests hold a connection than there are, every
\* registration ends: no two wait for each other, neither for locks nor for
\* connections.  Without that condition the lookups of transactions that hold
\* all the connections wait for each other for ever.
RegistrationsEnd ==
  []Pool!Room => \A c \in Clients : stage[c] # "idle" ~> stage[c] = "idle"

=============================================================================
