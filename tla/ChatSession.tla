----------------------------- MODULE ChatSession -----------------------------
(***************************************************************************)
(* The sending half of the WebSocket handlers of one node and one room:    *)
(* authentication, the frame loop, ChatService.send_message, and the one   *)
(* database session every handler is given for its whole life (get_db).    *)
(*                                                                         *)
(* The session takes a connection from the engine's pool with its first    *)
(* statement, keeps it until commit() or close(), and opens a transaction  *)
(* the server dates at its start.  So an accepted socket sits idle inside  *)
(* a transaction; commit() gives the connection back and the refresh() of  *)
(* BaseSqlAlchemyRepository._persist has to get one again.                 *)
(*                                                                         *)
(* PostgreSQL, SQLAlchemy's pool and Redis are modelled from their use.    *)
(***************************************************************************)
EXTENDS Naturals, Sequences, FiniteSets

CONSTANTS Conns,     \* the WebSocket connections, over the node's life
          PoolMax,   \* DB_POOL_SIZE + DB_MAX_OVERFLOW
          MaxSent,   \* bound: messages inserted
          MaxClock   \* bound: the latest instant the clock shows

ASSUME SessionAssumption ==
    PoolMax \in Nat \ {0} /\ MaxSent \in Nat /\ MaxClock \in Nat

VARIABLES
    pc,         \* per handler, what it is waiting for
    holding,    \* per handler, its session holds a pooled connection
    txStart,    \* per handler, when its session's transaction began
    row,        \* per handler, the message _persist is working on
    clock,      \* the database's clock
    nextId,     \* the sequence behind messages.id
    table,      \* the committed rows of messages
    published   \* the ids published to the room's channel, in order

vars == <<pc, holding, txStart, row, clock, nextId, table, published>>

Message == [id : Nat, by : Conns, at : Nat]

PCs == {"absent", "authenticating", "receiving", "committing", "refreshing",
        "publishing", "ended"}

\* Rows carry an id, a sender and a date; handlers are at a known statement.
TypeOK ==
    /\ pc \in [Conns -> PCs]
    /\ holding \in [Conns -> BOOLEAN]
    /\ txStart \in [Conns -> Nat]
    /\ row \in [Conns -> Message]
    /\ clock \in Nat
    /\ nextId \in Nat
    /\ table \in SUBSET Message
    /\ published \in Seq(Nat)

Init ==
    /\ pc = [c \in Conns |-> "absent"]
    /\ holding = [c \in Conns |-> FALSE]
    /\ txStart = [c \in Conns |-> 0]
    /\ row = [c \in Conns |-> [id |-> 0, by |-> c, at |-> 0]]
    /\ clock = 0
    /\ nextId = 1
    /\ table = {}
    /\ published = <<>>

-----------------------------------------------------------------------------
(* The session of a handler and the pool.                                  *)

PoolFull == Cardinality({c \in Conns : holding[c]}) >= PoolMax

Goto(c, where) == pc' = [pc EXCEPT ![c] = where]

\* The first statement after a begin: a pooled connection, a transaction.
Begin(c) ==
    /\ ~PoolFull
    /\ holding' = [holding EXCEPT ![c] = TRUE]
    /\ txStart' = [txStart EXCEPT ![c] = clock]

\* Mutation: the session is left open when the handler ends.
EndUnclosed(c) ==
    /\ Goto(c, "ended")
    /\ UNCHANGED <<holding, txStart, row, clock, nextId, table, published>>

\* The handler returns or raises; get_db closes the session.
End(c) ==
    /\ Goto(c, "ended")
    /\ holding' = [holding EXCEPT ![c] = FALSE]
    /\ UNCHANGED <<txStart, row, clock, nextId, table, published>>

-----------------------------------------------------------------------------
(* The handler.                                                            *)

Connect(c) ==
    /\ pc[c] = "absent"
    /\ Goto(c, "authenticating")
    /\ UNCHANGED <<holding, txStart, row, clock, nextId, table, published>>

\* The user and the membership are found and the socket accepted ...
Admit(c) ==
    /\ pc[c] = "authenticating"
    /\ Begin(c)
    /\ Goto(c, "receiving")
    /\ UNCHANGED <<row, clock, nextId, table, published>>

\* ... or not, or the database could not be asked.
Refuse(c) ==
    /\ pc[c] = "authenticating"
    /\ End(c)

\* Mutation: the message is published when it is inserted.
InsertPublished(c) ==
    /\ pc[c] = "receiving" /\ nextId <= MaxSent
    /\ row' = [row EXCEPT ![c] = [id |-> nextId, by |-> c, at |-> txStart[c]]]
    /\ nextId' = nextId + 1
    /\ published' = Append(published, nextId)
    /\ Goto(c, "committing")
    /\ UNCHANGED <<holding, txStart, clock, table>>

\* A valid frame: the membership is read again, then save_message inserts.
\* id is the next of the sequence, created_at is now() of the transaction.
Insert(c) ==
    /\ pc[c] = "receiving" /\ nextId <= MaxSent
    /\ row' = [row EXCEPT ![c] = [id |-> nextId, by |-> c, at |-> txStart[c]]]
    /\ nextId' = nextId + 1
    /\ Goto(c, "committing")
    /\ UNCHANGED <<holding, txStart, clock, table, published>>

\* The client went away, or sent JSON that is no object.
Leave(c) == pc[c] = "receiving" /\ End(c)

\* Mutation: the row is stored without its created_at.
CommitUndated(c) ==
    /\ pc[c] = "committing"
    /\ table' = table \cup {[id |-> row[c].id, by |-> c]}
    /\ holding' = [holding EXCEPT ![c] = FALSE]
    /\ Goto(c, "refreshing")
    /\ UNCHANGED <<txStart, row, clock, nextId, published>>

\* The transaction ends and the connection goes back to the pool.
Commit(c) ==
    /\ pc[c] = "committing"
    /\ table' = table \cup {row[c]}
    /\ holding' = [holding EXCEPT ![c] = FALSE]
    /\ Goto(c, "refreshing")
    /\ UNCHANGED <<txStart, row, clock, nextId, published>>

\* Mutation: a failed commit is swallowed and the message published.
CommitFailsUnnoticed(c) ==
    /\ pc[c] = "committing"
    /\ Goto(c, "publishing")
    /\ UNCHANGED <<holding, txStart, row, clock, nextId, table, published>>

\* The insert or the commit raises: nothing is stored, unless it was only the
\* server's answer to the commit that was lost.
CommitFails(c) ==
    /\ pc[c] = "committing"
    /\ Goto(c, "ended")
    /\ holding' = [holding EXCEPT ![c] = FALSE]
    /\ table' \in {table, table \cup {row[c]}}
    /\ UNCHANGED <<txStart, row, clock, nextId, published>>

Refresh(c) ==
    /\ pc[c] = "refreshing"
    /\ Begin(c)
    /\ Goto(c, "publishing")
    /\ UNCHANGED <<row, clock, nextId, table, published>>

\* Mutation: no pool_timeout, the handler waits as long as it takes.
RefreshWaits(c) == pc[c] = "refreshing" /\ ~PoolFull /\ End(c)

\* Mutation: a row that can not be refreshed is deleted again.
RefreshCompensates(c) ==
    /\ pc[c] = "refreshing"
    /\ table' = table \ {row[c]}
    /\ Goto(c, "ended")
    /\ UNCHANGED <<holding, txStart, row, clock, nextId, published>>

\* pool_timeout seconds passed without a free connection, the database is lost
\* or the handler cancelled.  The row stays; the client is dropped.
RefreshFails(c) == pc[c] = "refreshing" /\ End(c)

\* Mutation: a publish whose reply is lost is sent again.
PublishRetried(c) ==
    /\ pc[c] = "publishing" /\ Len(published) < 2 * MaxSent
    /\ published' = Append(published, row[c].id)
    /\ Goto(c, "receiving") \/ UNCHANGED pc
    /\ UNCHANGED <<holding, txStart, row, clock, nextId, table>>

Publish(c) ==
    /\ pc[c] = "publishing"
    /\ published' = Append(published, row[c].id)
    /\ Goto(c, "receiving")
    /\ UNCHANGED <<holding, txStart, row, clock, nextId, table>>

\* Mutation: a failed publish is logged and the client kept.
PublishFailsUnnoticed(c) ==
    /\ pc[c] = "publishing"
    /\ Goto(c, "receiving")
    /\ UNCHANGED <<holding, txStart, row, clock, nextId, table, published>>

\* Redis is down, or its pool is used up.  (When only Redis's answer is lost,
\* that is Publish, and then Leave.)
PublishFails(c) == pc[c] = "publishing" /\ End(c)

HandlerStep(c) ==
    \/ Admit(c) \/ Refuse(c)
    \/ Commit(c) \/ CommitFails(c)
    \/ Refresh(c) \/ RefreshFails(c)
    \/ Publish(c) \/ PublishFails(c)

\* The database's clock goes on.
Tick ==
    /\ clock < MaxClock
    /\ clock' = clock + 1
    /\ UNCHANGED <<pc, holding, txStart, row, nextId, table, published>>

Next ==
    \/ \E c \in Conns : Connect(c) \/ Insert(c) \/ Leave(c) \/ HandlerStep(c)
    \/ Tick

Spec == Init /\ [][Next]_vars

\* Statements, commits and publishes return, and a wait for the pool ends;
\* a client need neither write nor leave.
FairSpec == Spec /\ \A c \in Conns : WF_vars(HandlerStep(c))

-----------------------------------------------------------------------------

Owed(c) == {m \in table : m.by = c}

IsPublished(m) == \E i \in 1 .. Len(published) : published[i] = m.id

\* What clients see live is stored: every id on the channel is a committed
\* row, and none is there twice.
PublishedStored ==
    /\ \A i \in 1 .. Len(published) : \E m \in table : m.id = published[i]
    /\ \A i, j \in 1 .. Len(published) : published[i] = published[j] => i = j

\* A stored message that was not published has cost its sender the
\* connection, or is still on its way: a client that is back in the frame
\* loop has had all its messages published.
NoSilentLoss ==
    \A c \in Conns : pc[c] \in {"receiving", "committing"} =>
        \A m \in Owed(c) : IsPublished(m)

\* The messages of one sender are published in the order of their ids, and
\* their created_at never runs backwards, though several senders' may.
SenderOrder ==
    /\ \A i, j \in 1 .. Len(published) : \A m, n \in table :
          /\ i < j /\ m.by = n.by
          /\ published[i] = m.id /\ published[j] = n.id
          => m.id < n.id
    /\ \A m, n \in table : m.by = n.by /\ m.id < n.id => m.at <= n.at

\* A connection of the pool is out exactly while its handler can still give
\* it back, however the handler ended and wherever it waits for another one.
PoolAccounted ==
    /\ \A c \in Conns : holding[c] <=>
          pc[c] \in {"receiving", "committing", "publishing"}
    /\ Cardinality({c \in Conns : holding[c]}) <= PoolMax

\* Everyone may wait for a connection that idle sockets hold, but nobody
\* waits for ever: an accepted frame is published or its sender is dropped.
SendCompletes ==
    \A c \in Conns : pc[c] = "committing" ~> pc[c] \in {"receiving", "ended"}

(* What comments say and the code does not do.                             *)

\* "Reverse to return chronological order for chat history display"
\* (message_repository.py:73), of rows that were sorted by id.
HistoryChronological ==
    \A m, n \in table : m.id < n.id => m.at <= n.at
=============================================================================
