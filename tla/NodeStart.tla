----------------------------- MODULE NodeStart -----------------------------
(***************************************************************************)
(* How a server node starts, on a database that several nodes share: the   *)
(* image runs "alembic upgrade head && uvicorn" (Dockerfile).  env.py runs  *)
(* the one revision, 3c19629e0fb9, in one transaction, which PostgreSQL     *)
(* can roll back with its DDL.  Alembic reads the current heads, makes its  *)
(* own table unless it finds it, runs the revision and stamps it.          *)
(*                                                                         *)
(* Creating what another open transaction has created waits for that one   *)
(* to end, and fails if it was committed.  So does the version's row.      *)
(***************************************************************************)
EXTENDS Naturals, Sequences

CONSTANTS Nodes,
          MaxStarts  \* bound: times a node's container is started

ASSUME StartAssumption == MaxStarts \in Nat

VARIABLES
    pc,      \* per node: down, refused, serving, or the statement of alembic
    next,    \* per node, how many of Revision it is done with
    made,    \* per node, what its open transaction has created
    schema,  \* what is committed
    starts   \* per node, how often it was started

vars == <<pc, next, made, schema, starts>>

\* What an upgrade of an empty database creates, in order.
Revision == <<"alembic_version", "rooms", "users", "messages", "room_members",
              "head">>

Whole == {Revision[i] : i \in 1 .. Len(Revision)}

Init ==
    /\ pc = [n \in Nodes |-> "down"]
    /\ next = [n \in Nodes |-> 0]
    /\ made = [n \in Nodes |-> {}]
    /\ schema = {}
    /\ starts = [n \in Nodes |-> 0]

-----------------------------------------------------------------------------

Goto(n, where) == pc' = [pc EXCEPT ![n] = where]

\* The process is gone, its transaction rolled back.
End(n, where) ==
    /\ Goto(n, where)
    /\ made' = [made EXCEPT ![n] = {}]

Start(n) ==
    /\ pc[n] \in {"down", "refused"} /\ starts[n] < MaxStarts
    /\ Goto(n, "readHeads")
    /\ next' = [next EXCEPT ![n] = 0]
    /\ starts' = [starts EXCEPT ![n] = @ + 1]
    /\ UNCHANGED <<made, schema>>

\* get_current_heads(): a database at the head needs no upgrade.
ReadHeads(n) ==
    /\ pc[n] = "readHeads"
    /\ Goto(n, IF "head" \in schema THEN "serving" ELSE "ensureVersion")
    /\ UNCHANGED <<next, made, schema, starts>>

\* _ensure_version_table(): CREATE TABLE, if a query does not find it.
EnsureVersion(n) ==
    /\ pc[n] = "ensureVersion"
    /\ Goto(n, "create")
    /\ next' = [next EXCEPT ![n] =
                  IF "alembic_version" \in schema THEN 1 ELSE 0]
    /\ UNCHANGED <<made, schema, starts>>

\* Mutation: env.py runs the revision outside a transaction.
CreateCommitted(n) ==
    /\ pc[n] = "create" /\ next[n] < Len(Revision)
    /\ \/ Revision[next[n] + 1] \in schema /\ End(n, "refused")
          /\ UNCHANGED <<next, schema>>
       \/ /\ Revision[next[n] + 1] \notin schema
          /\ schema' = schema \cup {Revision[next[n] + 1]}
          /\ next' = [next EXCEPT ![n] = @ + 1]
          /\ UNCHANGED <<pc, made>>
    /\ UNCHANGED starts

Create(n) ==
    /\ pc[n] = "create" /\ next[n] < Len(Revision)
    /\ LET it == Revision[next[n] + 1]
       IN  /\ \A m \in Nodes \ {n} : it \notin made[m]
           /\ \/ it \in schema /\ End(n, "refused") /\ UNCHANGED next
              \/ /\ it \notin schema
                 /\ made' = [made EXCEPT ![n] = @ \cup {it}]
                 /\ next' = [next EXCEPT ![n] = @ + 1]
                 /\ UNCHANGED pc
    /\ UNCHANGED <<schema, starts>>

\* The transaction's end, and uvicorn.
Commit(n) ==
    /\ pc[n] = "create" /\ next[n] = Len(Revision)
    /\ schema' = schema \cup made[n]
    /\ End(n, "serving")
    /\ UNCHANGED <<next, starts>>

\* Mutation: "alembic upgrade head ; uvicorn".
StopServes(n) ==
    /\ pc[n] \notin {"down", "refused"}
    /\ End(n, "serving")
    /\ UNCHANGED <<next, schema, starts>>

\* Mutation: the database keeps the transaction of a client that is gone.
StopUnnoticed(n) ==
    /\ pc[n] \notin {"down", "refused"}
    /\ Goto(n, "down")
    /\ UNCHANGED <<next, made, schema, starts>>

\* The node is stopped, dies, or alembic loses the database.
Stop(n) ==
    /\ pc[n] \notin {"down", "refused"}
    /\ End(n, "down")
    /\ UNCHANGED <<next, schema, starts>>

Upgrade(n) == ReadHeads(n) \/ EnsureVersion(n) \/ Create(n) \/ Commit(n)

Next == \E n \in Nodes : Start(n) \/ Upgrade(n) \/ Stop(n)

\* A statement that can run is run; nobody has to start a node.
Spec == Init /\ [][Next]_vars /\ \A n \in Nodes : WF_vars(Upgrade(n))

-----------------------------------------------------------------------------

\* Whatever races and dies, the committed schema is none or the whole of it,
\* stamped: alembic never meets a database it half upgraded before.
SchemaWhole == schema \in {{}, Whole}

\* No node accepts requests on a database that lacks a table; and one whose
\* upgrade fails on what another node created finds, from then on, a database
\* at the head: to start it again is enough.
StartedOnWhole ==
    \A n \in Nodes : pc[n] \in {"serving", "refused"} => schema = Whole

\* Nodes that create the same tables do not wait for each other for ever: one
\* that was started comes to serve, is refused or is stopped.
StartEnds ==
    \A n \in Nodes :
        pc[n] = "readHeads" ~> pc[n] \in {"serving", "refused", "down"}
=============================================================================
