------------------------------ MODULE ConnPool ------------------------------
(***************************************************************************)
(* The pool of database connections, as the handlers use it.  A handler    *)
(* takes a connection for its transaction (RunInTx) and keeps it to the    *)
(* end.  Statements that do not go through getDB, such as the checkpoint's *)
(* or the lookups of definitions, take a second connection meanwhile, and  *)
(* wait for it while they hold the first.                                  *)
(***************************************************************************)
EXTENDS Naturals, FiniteSets

CONSTANTS
  Requests,     \* the requests being handled
  MaxOpenConns  \* the bound of the pool

VARIABLE place  \* what each request has to do with the pool

vars == <<place>>

Places == {"out", "waiting", "open", "asking", "nested"}

At(places) == {r \in Requests : place[r] \in places}

\* The requests that hold a connection, and those that hold two.
Holders == At({"open", "asking", "nested"})
InUse == Cardinality(Holders) + Cardinality(At({"nested"}))

To(r, from, to) == place[r] = from /\ place' = [place EXCEPT ![r] = to]

\* BeginTx.  The statement after it may already be one that asks for another.
Begin(r) == To(r, "out", "waiting")
Open(r) == InUse < MaxOpenConns /\ (To(r, "waiting", "open") \/ To(r, "waiting", "asking"))

\* A query of the pool's own inside the transaction.
Ask(r) == To(r, "open", "asking")
Nest(r) == InUse < MaxOpenConns /\ To(r, "asking", "nested")
Return(r) == To(r, "nested", "open") \/ To(r, "nested", "asking")

\* Commit, rollback, or a request that is cancelled while it waits.
End(r) == place[r] # "out" /\ place' = [place EXCEPT ![r] = "out"]

Step(r) == Begin(r) \/ Open(r) \/ Ask(r) \/ Nest(r) \/ Return(r) \/ End(r)

Init == place = [r \in Requests |-> "out"]
Next == \E r \in Requests : Step(r)
Spec == Init /\ [][Next]_vars

TypeOK == place \in [Requests -> Places]

\* No more connections are open than the bound allows.
Bounded == InUse <= MaxOpenConns

\* A connection is left over for a second one as long as fewer requests hold
\* one than the pool has.
Room == Cardinality(Holders) < MaxOpenConns

=============================================================================
