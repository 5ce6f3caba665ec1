# A verification of the real-time chat API

TLA+ models of `fastapi-realtime-chat-api`, the TLC configurations that check
them on small instances, and theorems about the core that TLAPS proves for
every value of its constants. Line numbers are those of the repository; paths
are below `app/` unless they say otherwise.

1. [The system](#1-the-system)
2. [The modules](#2-the-modules)
3. [What the runs check](#3-what-the-runs-check)
4. [What is proved](#4-what-is-proved)
5. [Where the code does not do what it says](#5-where-the-code-does-not-do-what-it-says)
6. [What is not modelled](#6-what-is-not-modelled)
7. [Plan](#7-plan)

## 1. The system

A node is one asyncio process. Clients hold a WebSocket per room; whatever
they send is checked, stored in PostgreSQL and published on the Redis channel
`room:{id}`. Each node keeps one background task per room that has local
clients: it subscribes to the room's channel and sends what it reads to every
local socket of the room. HTTP requests register users, create and join rooms
and read the history.

| Component | State | Operations |
|---|---|---|
| `ConnectionManager` (`presentation/websocket/connection_manager.py`) | `_rooms`: room to set of sockets | `connect`, `disconnect`, `get_room_count`, `broadcast_to_room` |
| `RedisPubSubManager` (`.../pubsub_manager.py`) | `_tasks`: room to task; `_lock`; per task a `PubSub` | `add_listener_if_needed`, `remove_listener_if_empty`, `_listen`, `shutdown` |
| `_handle_ws` (`presentation/routers/chat.py`) | one coroutine per socket, one database session | authenticate, check membership, accept, frame loop, clean up |
| `ChatService`, `SqlAlchemyMessageRepository`, `RedisMessageBroker` | table `messages`, the Redis channels | `send_message`, `get_messages` |
| `get_db`, the engine (`core/database.py`) | a pool of `DB_POOL_SIZE + DB_MAX_OVERFLOW` connections | take, commit, time out, close |
| `RoomService`, `SqlAlchemyRoomRepository` | tables `rooms`, `room_members` | `create_room`, `join_room`, lookups |
| `AuthService`, `SqlAlchemyUserRepository` | table `users` | `register`, `authenticate`, `get_user_from_token` |
| `RedisClient` (`core/redis.py`) | `_pool`, `_client` | `init_pool`, `close_pool`, `get_client`, `publish`, `get_pubsub`, `ping` |
| `lifespan`, `/health` (`main.py`) | - | start-up, shutdown, readiness |
| `core/security.py` | - | hash and verify passwords, sign and check tokens |
| `Dockerfile`, `alembic/` (at the root) | the schema, `alembic_version` | `alembic upgrade head`, before uvicorn |

**How they interact.** A handler calls the registry and the listener manager
directly, on the same event loop; a listener task shares the registry with the
handlers and reaches their sockets behind their back; handlers of all nodes
meet in PostgreSQL and in Redis. The services of one request share one
session.

**What is hard here, and what correctness means for each part.**

* *Registry and listeners.* `Task.cancel()` takes effect later than it is
  called, so a cancelled listener and its successor coexist; a broadcast prunes
  sockets whose handlers are still running; any await of the listener may
  raise. Correct: at most one listener of a room dispatches and `_tasks` knows
  it; a room with clients has one, a room without has none in the end; the
  registry matches the handlers; a client gets its room's messages at most
  once and in order; a broadcast misses no one who stays.
* *Sending.* Store, then publish, with three places to fail in between, and a
  session that lives as long as the socket. Correct: what is published is
  stored; what is stored and not published is not passed over in silence; pool
  connections come back; nobody waits for ever.
* *History.* Rows become visible in any order of their ids, between any two
  pages. Correct: the pages form one ascending list, skip nothing that was
  there, and end.
* *Rooms, members, accounts.* Check and insert are separate statements, and
  creating a room is two transactions. Correct: names and accounts are unique,
  success means stored, a refusal is true, what a client was shown or told is
  found by what it asks next, and inserts that wait on each other's index
  entries end.
* *Tokens.* A token has a lifetime that is cut to whole seconds. Correct: it is
  the account's whose password was given, and is accepted for its lifetime, give
  or take the part of a second that was cut.
* *Socket and history.* A client learns of a message from its socket or from
  the history, which are two connections. Correct: it can learn of every
  message from one of the two.
* *Lifespan.* Every node migrates the database as it starts; at the end
  listeners are cancelled and not awaited, and the Redis pool is closed under
  them. Correct: the schema is never half there, and every listener ends.

The full list of hazards, each at its line, is in `PROJECT.json`, with a note on
what the properties leave open: messages published in the gap before a SUBSCRIBE
or after an outage, the order between messages of several senders, rooms left
without members, and rooms that are on no page of a listing.

## 2. The modules

```
RoomChannel <--implements-- RoomFanout <--about-- RoomFanoutProofs
     ^                      MCRoomFanout
     | instance of
ChatSystem --extends--> ChatSession <--about-- ChatSessionProofs, MCChatSession
  |  ^--about-- ChatSystemProofs, with what the other two proof modules show
  | implements, instance of
  v
MessageHistory <--about-- MessageHistoryProofs

RoomMembership <--about-- RoomMembershipProofs, MCRoomMembership
Login --extends--> Registration
  ^--about-- AccountsProofs, MCLogin
NodeStart <--about-- NodeStartProofs
```

Operators that carry the comment `Mutation:` change the definition that follows
them as a plausible bug would. They take part in no specification; replacing
the definition by the mutation must make TLC report the property named with it
in `PROJECT.json`, which shows that the property depends on that code.

### RoomChannel: what a room promises

`log` is the rooms of all messages in publish order, `open` the connections,
`received` what each was given. `HandOver(c, n)` gives an open connection a
message of its room that is later than all it was given before. Messages may
be lost: Redis Pub/Sub keeps none. They may not be repeated, reordered, or
given to another room.

### RoomFanout: registry, listeners, handlers, Redis

One node. An action is what the code does between two awaits that really
suspend. No body under `_lock` suspends while it holds it, so acquiring it never
waits; therefore `connect` from after `accept()` to the end of
`add_listener_if_needed` is the one action `Accept`, and `disconnect` with
`remove_listener_if_empty` the one action `Cleanup`.

| Code | Model |
|---|---|
| `_rooms`, `_tasks` | `rooms`, `tasks` (an absent key is `{}` or `NoTask`) |
| `_handle_ws` of a socket | `handler`; `Refuse`, `Accept`, `ReceiveDisconnect`, `HandlerFails` |
| the socket itself | `up`; `ConnLost` closes it before anyone notices |
| `_listen`, by the await it stands at | `pc`: `created`, `subscribing`, `listening`, `broadcasting`, `closing` (the finally block), `done` |
| `task.cancel()` | `cancelReq`; `CancelDelivered` raises `CancelledError` at the task's next turn: a task that never ran is over, from the try block it goes to finally, and from finally it ends without `close()` |
| `task.done()` | `pc = "done"` |
| `PubSub` and its pooled connection | `link` (none, taken only to unsubscribe, SUBSCRIBE sent, subscribed, lost), `inbox` |
| `unsubscribe()` and `close()` of the finally block | `CloseConnects`, `CloseOk`, `CloseFails` |
| `broadcast_to_room` | `cur`, `todo` (what is left of `list(room)`), `dead`; `ReadMessage`, `Deliver`, `SendToGone`, `FinishBroadcast` |
| `RedisPubSubManager.shutdown`, then `RedisClient.close_pool` | `Shutdown`, `serving`; `ClosePool` |
| a client that does not read while it is sent to | `stalled`; `Stall`, `Resume` |
| PUBLISH by any node | `Publish` |
| Redis goes and comes back | `RedisOutage`, `RedisRecovers`; `ListenCrash`, `Reconnect` |

A handler starts at most one listener, so a listener is named by the
connection whose handler created it. The order in which `list(room)` is sent to
is any order. A send to a closed socket raises, or does not yet:
`SendToGone` allows both. A listener that reads a lost connection crashes or
reconnects inside the client library, depending on its version: both are
allowed. A client stalls when a broadcast of its room has still to reach it, which is
when a full buffer makes a difference; `send_text` to it waits, without a
timeout, until it reads, leaves, or the listener is cancelled. `close_pool()`
disconnects the connections in use too; a listener that is unsubscribing then
may find its link lost or take the library's reconnection. `unsubscribe()` of a
`PubSub` that has no connection, because `subscribe()` failed or was cancelled,
takes one from the pool first (`CloseConnects`), unless the pool is full, and can
be cancelled holding it; on a lost link it may raise although Redis is back.

### ChatSession: frame loop, send_message, database session

All handlers of one node and one room, with the pool they share. `pc` is where
a handler stands, `holding` whether its session has a pooled connection,
`txStart` when that session's transaction began. `Admit` takes the connection
with the first statement and keeps it (the session is idle in its transaction
while the socket waits for frames); `Insert` takes an id and the transaction's
date; `Commit` stores the row and returns the connection; `CommitFails` stores
nothing, unless it was only the server's answer that was lost; `Refresh` needs a
connection again, and `RefreshFails` is the wait for one that times out, a lost
database or a cancelled handler; `Publish` or `PublishFails` ends the frame. A
publish whose answer alone is lost is `Publish` followed by `Leave`. A frame that
is no valid message changes nothing and is left out.

### ChatSystem: one room as a client sees it

`ChatSession` with its actions unchanged, the client's end of the channel and
its reading of the history, on the one table of messages. One connection, the
`Reader`, only reads; the others send. `Subscribed` is Redis executing the
SUBSCRIBE of the reader's room some time after the socket was accepted;
`HandOver` is that of `RoomChannel`, `FirstPage` and `NextPage` are those of
`MessageHistory` and need a connection of the same pool. The module shows two
things: that the senders' handlers, with all they can fail at, are an instance
of `MessageHistory` (so what is shown of its pages holds for this system), and
that live messages and history meet without a gap: of a client that asks for its
first page once it is subscribed, whatever was published before the SUBSCRIBE
is on a page as soon as it has read that far up. `since`, `asked` and `atStart`
only record what was published and stored at which moment.

### RoomMembership, Registration, Login

Requests of any number of nodes, each a sequence of statements of its own
session under READ COMMITTED. A lookup sees what is committed; an insert that
meets an uncommitted entry of a unique index waits for that transaction
(`NamesPending`, `EmailsPending`, `UsernamesPending`) and then raises
`IntegrityError` if it was committed. The indexes are those of the migration
`alembic/versions/3c19629e0fb9_create_tables.py`, which the Dockerfile applies,
not those of the ORM models. `Fail` is a stop, or a lost database, between any
two statements, the one after a commit included. Registration enters its row in
the email's index before the username's, the order in which they were created.

RoomMembership has four operations: `create_room`, `join_room`,
`list_public_rooms` and `get_room_members` (of which `get_room` is the first
statement). A page of the listing is any set of public rooms of the size that
`skip` and `limit` leave, because the query has no ORDER BY. `shown`, `asked`
and `answer` record what clients have been shown and told.

Login adds `authenticate` and the use of the token it issues. A password is
its first 72 bytes to bcrypt (`Head72`), signatures are perfect, and a user's
id is the request that inserted it. Time is in ticks, of which a second has
several: `exp` is cut to a whole second (`WholeSeconds`), the clock is not.
`get_user_from_token` is what the service makes of a token at an instant;
`UseToken` is `get_current_user`, or a socket being opened, which both call it.

### NodeStart: alembic, then uvicorn

`Revision` is what the upgrade of an empty database creates, in order:
alembic's own table, the four tables with their indexes, and the stamp. All of
it is in one transaction of PostgreSQL (`made`, until `Commit`). Creating what
another transaction has created waits for that one and fails if it was
committed, and so does the stamp. A node that is refused or has died may be
started again; `docker-compose.yml` does not do so by itself.

### MessageHistory: get_messages_cursor

`PageOf` is the query with its `limit + 1`, the cut, the cursor and the
reversal, with messages named by their ids. `ORDER BY id DESC` is
`NewestFirst`: the k-th row is the one that k - 1 rows are newer than (`Newer`),
which says the same as sorting does and can be reasoned about without a
recursion. A reader follows `next_cursor` while ids are taken (`Insert`) and
become visible (`Commit`) in any order. `PageIsNewest` states what a page is for
without sorting: how many messages it has, that none left out is newer than one
given, and that they ascend.

## 3. What the runs check

| Run | Instance | States | Shows |
|---|---|---|---|
| `fanout_safety` | 2 rooms, 3 connections (two of them in one room), a Redis pool of 1, 2 messages, 1 outage; the connections of a room are symmetric | 1,056,602 | all safety properties of the fan-out, and that it implements `RoomChannel` |
| `fanout_liveness` | 2 rooms, 3 connections, a pool of 2, 1 message, 1 slow client, no outage | 145,183 | `PendingDelivered`, `IdleRoomReleased`, `ShutdownEnds` |
| `chat_session` | 3 senders, 2 database connections, 3 messages, 2 instants | 105,721 | storing, publishing and the pool |
| `chat_system` | 2 senders and a reader, 2 database connections, 3 messages, pages of up to 2 | 133,058 | the seam between socket and history, and that the handlers implement `MessageHistory` |
| `message_history` | 5 messages, pages of up to 3 | 2,066 | paging |
| `room_membership` | 3 requests in every mixture of the four operations, 2 users, 2 names, limits 1 and 2, `skip` up to 1 | 95,367 | rooms and members |
| `accounts` | 3 registrations of 2 emails and 2 usernames in every overlap, a login, 2 ticks to a second, a lifetime of one second | 244,697 | accounts, logins and tokens |
| `node_start` | 3 nodes, each started up to twice | 40,748 | migrating and starting |

The other four runs are the violations of section 5.

**Properties.** The comment before each states it. The ones that take most to
break: `OneDispatcher` and `ReceivedInOrder` (two listeners alive at once),
`CoveredRoom` (a disconnect between another client's connect and its first
message), `NoOrphanListener` (a room pruned empty by its own broadcast),
`PendingDelivered` (sockets that die, leave, join and stall between two sends of
one broadcast), `ShutdownEnds` (a listener at any await when the process ends),
`SeamCovered` (the order of storing, publishing, subscribing and reading), `NoSilentLoss` (every way in which storing and publishing can come
apart), `NothingSkipped` (rows that appear below or above the cursor between
pages), `MembersShown` and `ListedIsFound` (requests of several clients between
two transactions of a third), `Answered` of Registration (waiting on two
indexes), `TokenIsOwners` (a login amid registrations of one email, of which
only one will be stored), `StartedOnWhole` (nodes that race and die in their
migrations).

**Bounds.** Two connections of a room are what it takes for one to leave while
another comes, for a listener and its successor, for a pruned and a living
socket, and for a slow client and one that waits behind it; the third is in
another room, where it competes for the pool in `fanout_safety` and must be
served whatever the first room does in `fanout_liveness`. A pool of one makes
`subscribe()` fail without an outage, while a cancelled listener still holds the
connection. Two messages are what it takes to repeat or reorder. One outage can
meet every await of the listener. Three senders for two connections is the
smallest instance in which `refresh()` can find the pool used up by others. In
`chat_system` a socket that idles and two senders do the same, and three
messages are what it takes for rows to appear in another order than their ids'
on both sides of a cursor. Three requests are what it takes for one to wait on a
request that waits on a third, and for a listing or a reading between two
others. Requests, users and names are interchangeable, so `room_membership` runs
one of every class of workloads that differ in these only (`Mixtures`), and
`accounts` fixes the values of the first request and runs one of two overlaps
that differ in the order of the other two (`Overlaps`): both leave out only
renamings. Two ticks to a second are what it takes for a clock to
be between two seconds. Three nodes are what it takes for one to wait on a
migration that is itself waiting, and two starts for one that follows a death.
Five messages make two full pages of two with one to spare. `MaxPublished`,
`MaxOutages`, `MaxStalled`, `MaxSent`, `MaxClock`, `MaxId`, `MaxSkip` and
`MaxStarts` bound only what would grow without end. Deadlock is not checked: a
node whose clients are all gone, and a database without requests, may rest.

**Fairness.** Weak, and only for what the runtime does by itself. `FairSpec` of
RoomFanout: the event loop runs a listener that is ready (`TaskStep`), but not
one that may be waiting for a slow client (`Blocked`; in which order `list(room)`
reaches the slow one is not known, so none of that broadcast's sends is
promised). No socket has to be reported closed, no SUBSCRIBE to be executed, no
slow client to read again. `RecoveringSpec`, under which only `ClientServed` is
checked, adds that the ASGI server reports a closed socket, that Redis executes
what it was sent and comes back, so that the counterexample is not an outage
that lasts. Elsewhere a statement, a commit, a publish or a wait for the pool
returns (`HandlerStep`, `Step`), and so does a statement of alembic (`Upgrade`).
No client has to come, write or leave, no request has to arrive and no node to
be started. `SendToGone` may go unnoticed at every send; no property relies on
its being noticed.

## 4. What is proved

Seven modules hold theorems. Each is about every value of the constants: any
sets of rooms, connections, requests, users, names, nodes, any pool, any limits
of pages, and any bound. The assumptions are the ones named in the modules
(`FanoutAssumption`, `SessionAssumption`, `HistoryAssumption`,
`SystemAssumption`, `WorkloadAssumption`, `RegistrationAssumption`,
`LoginAssumption`, and that of NodeStart), which only type the constants and
which TLC evaluates on every run of the module. Every safety property of the
passing runs, every action property and both refinements are theorems.

### The fan-out

`RoomFanoutProofs`, for any rooms, connections and assignment `RoomOf`, any pool
size, and any number of messages, outages and slow clients:

| Theorem | States |
|---|---|
| `Typing` | `Spec => []TypeOK` |
| `AtMostOneDispatcher` | `Spec => []OneDispatcher` |
| `DispatcherIsKnown` | `Spec => []DispatcherKnown` |
| `RegistryIsExact` | `Spec => []RegistryOK` |
| `RoomsAreCovered` | `Spec => []CoveredRoom` |
| `NoListenerOrphaned` | `Spec => []NoOrphanListener` |
| `DeliveredInOrder` | `Spec => []ReceivedInOrder` |
| `FanoutImplementsChannel` | `Spec => ImplementsChannel` |

None of these is inductive by itself. `IInv` adds three things.

* `FreshOK`, `UpOK`: a connection that was not accepted owns no listener and
  has received nothing, and only a running handler's transport is open. Without
  it `Accept` could "start" a listener that already holds messages.
* `TasksOK`: an entry of `_tasks` belongs to its room and nobody has cancelled
  it: popping and cancelling happen together. With `DispatcherKnown` this is
  why a new listener is started only when the old one can no longer dispatch:
  either the entry is `done()`, or it was popped and therefore cancelled. Two
  dispatchers of a room would both be the room's entry.
* `OrderInv`: what lies in an active listener's inbox is later than the message
  in its hand, which is later than all its room's clients were given, but for
  the clients that have had that very message and are no longer in `todo`.
  Redis delivers to an inbox in publish order; a new listener's inbox is empty
  when it becomes active; and since only one listener dispatches
  (`OneDispatcher`), nobody else hands over anything in between. From this
  follow order and at-most-once across listeners that replace each other.

The argument splits the steps into those that touch neither registry nor table
(`Quiet`), those that neither publish, read nor deliver (`Calm`), and the few
that remain, one lemma each. The refinement maps `open` to the connections
whose handler is receiving; `Publish`, `Accept`, `Cleanup` and `Deliver` map to
the abstract actions and every other step to a stutter.

### Sending

`ChatSessionProofs`, for any connections, any size of the pool and any number of
messages:

| Theorem | States |
|---|---|
| `SessionTyping` | `Spec => []TypeOK` |
| `StoredBeforePublished` | `Spec => []PublishedStored` |
| `LossIsNoticed` | `Spec => []NoSilentLoss` |
| `SendersOrdered` | `Spec => []SenderOrder` |
| `PoolIsAccounted` | `Spec => []PoolAccounted` |

A handler has at most one message in hand, and the statement it is at says what
has become of it. `Sender` says so: while committing, the row is dated by the
open transaction and has a higher id than all its sender has stored; while
refreshing or publishing, it is stored, is not yet on the channel, and is the
sender's latest; and in every one of these states all its earlier messages are
on the channel, because a handler that could not publish one does not come back
to the frame loop. `NoSilentLoss` is a part of this. `PublishedStored` and
`SenderOrder` need it for the one step that publishes, and need `Store` for the
one that stores: an id that is taken and not stored is nobody else's, so that a
commit cannot make a published id ambiguous. Dates of one sender ascend because
its next transaction begins after the last one was committed (`Begin` dates it
with a clock that does not run back). `Pool` adds to `PoolAccounted` that the
holders are finitely many even if the connections are not; the two actions that
begin a transaction add at most one element to that set, and only below the
pool's limit.

### History

`MessageHistoryProofs`, for any number of messages and any limit:

| Theorem | States |
|---|---|
| `PagesAreNewest` | `Spec => []PageIsNewest` |
| `PagesJoin` | `Spec => []PagesAreOneList` |
| `PagesAreComplete` | `Spec => []NothingSkipped` |
| `ReadingDescends` | `Spec => CursorDescends` |

First, that the rows of the query exist and are sorted. The number of newer
messages, plus one, is an injection of a finite set of ids into
`1 .. Cardinality(ids)` (`NewerType`, `NewerDescends`), hence a bijection
(`NewerOnto`), hence every place has exactly one row, and an earlier place has a
higher id (`Sorted`). No induction is needed. Then what the cut and the reversal
make of the rows (`PageOfIs`): the extra row is what tells that there is more,
and the cursor is the first id of the page. For the list of pages, `HInv` says
that every page ascends from its cursor, that every page but the last has more,
and that a later page is below the cursor of each earlier one, whatever became
visible in between; `NothingSkipped` is inductive with that, because a page has
everything that was visible between its cursor and the one it was asked with.

### One room

`ChatSystemProofs`, for any senders:

| Theorem | States |
|---|---|
| `SystemImplementsHistory` | `SystemSpec => ImplementsHistory` |
| `SeamIsCovered` | `SystemSpec => []SeamCovered` |
| `ReaderHistory` | `SystemSpec => [](History!PagesAreOneList /\ History!NothingSkipped)` |
| `SystemImplementsChannel` | `SystemSpec => ImplementsChannel` |

Every step of the system is one of ChatSession or leaves its variables alone, so
its invariant `CInv` is carried over. Each step is also one of MessageHistory:
`Insert` and `Commit` are its steps of those names (that a commit takes an id
which is taken and not visible is the part of `CInv` called `Store`), the
reader's pages are its pages, and the rest are stutters. By this refinement the
theorems of MessageHistoryProofs are theorems of this system (`ReaderHistory`).
`Seam` is what joins history and socket: what was published when the first page
was asked for is among what was stored then, because nothing is published that
is not stored. With `NothingSkipped`, it is on the pages.

`ImplementsChannel` closes the circle: the live half of this system is an
instance of RoomChannel, of which RoomFanout is an implementation.

### Rooms and members

`RoomMembershipProofs`, for any workload:

| Theorem | States |
|---|---|
| `MembershipTyping` | `Spec => []TypeOK` |
| `RoomNamesUnique` | `Spec => []UniqueNames` |
| `MemberStored` | `Spec => []SuccessIsStored` |
| `MembershipRefusalTrue` | `Spec => []RefusalIsTrue` |
| `ListedRoomFound` | `Spec => []ListedIsFound` |
| `ToldMembersShown` | `Spec => []MembersShown` |

`MInv` is what holds of the tables (`Tables`) and what holds of each request
(`Request`). `UniqueNames` is inductive only with `RoomHeld`: an insert that is
not committed has a name and an id that are neither in the table nor pending
elsewhere, the name because the index makes the second insert wait, the id
because it comes from the sequence. The rest needs what the statements that a
request is done with have established (`Progress`) and that what was shown and
told before it was sent was committed (`Asked`). Nothing deletes a row or a
member, so what holds of one request survives the steps of all others
(`OthersKept`), and a step has to be looked at for the tables and for its own
request only (`StepKept`, and `MoveKept` for the steps that store nothing).

### Accounts, logins, tokens

`AccountsProofs`, for any requests, emails, usernames and passwords, and for any
lifetime and granularity of time:

| Theorem | States |
|---|---|
| `AccountsTyping` | `AccountsSpec => []TypeOK` |
| `AccountsUnique` | `AccountsSpec => []UniqueAccounts` |
| `SuccessStored` | `AccountsSpec => []SuccessIsStored` |
| `RefusalTrue` | `AccountsSpec => []RefusalIsTrue` |
| `LoginFindsAccount` | `AccountsSpec => []RegisteredCanLogin` |
| `TokenOfOwner` | `AccountsSpec => []TokenIsOwners` |
| `TokenLives` | `AccountsSpec => []TokenLifetime` |
| `NoCircularWait` | `AccountsSpec => []WaitsAreShort` |

An entry that an open transaction has made in an index is neither stored nor
pending elsewhere (`EmailHeld`, `UsernameHeld`); the two differ, because a
registration enters its email first and may wait for the username while it
holds the email. A login relies on rows that stay: what it found is stored
(`SubjectStored`), what the client knew before it is (`KnownStored`), and the
expiry is the lifetime cut to a second (`ExpiryCut`), which is less than a
second short of it. `NoCircularWait` is the safe half of `Answered`: a request
that waits for an index entry waits for one other, which waits for at most one
that waits for nobody, because every insert enters the email first.

### Starting nodes

`NodeStartProofs`, for any number of nodes and starts:

| Theorem | States |
|---|---|
| `SchemaIsWhole` | `Spec => []SchemaWhole` |
| `StartsOnWhole` | `Spec => []StartedOnWhole` |
| `UpgraderNeverWaits` | whom others wait for waits for nobody |

alembic's own table is the first thing an upgrade creates and the first thing
another upgrade waits for: it is the lock under which one node at a time
creates the rest (`OneUpgrades`). What that node has created is exactly what it
is done with (`Upgrading`), so that its commit is of everything.

**Only model-checked:** liveness (`PendingDelivered`, `IdleRoomReleased`,
`ShutdownEnds`, `StartEnds`, `SendCompletes`, both `Answered`), which is beyond
the prover, since fairness is stated with ENABLED; and the four violations of
section 5.

## 5. Where the code does not do what it says

| Run | What the text says | What the code does |
|---|---|---|
| `client_served` | "All locally connected clients in that room receive messages from that single task" (`pubsub_manager.py:6`) | A crashed listener is not restarted for the clients it leaves behind, and a client that connects while the crashed task is still in its finally block starts none either, because the task is not `done()`. |
| `leaked_connection` | "(no resource leaks)" (`pubsub_manager.py:7`) | `close()` shares a `try` with `unsubscribe()`: when that raises, with Redis down or on a link that is lost though Redis is back, or is cancelled, the pooled connection is not returned. |
| `history_chronological` | "Reverse to return chronological order" (`message_repository.py:73`) | Ids ascend; `created_at` is the start of a transaction that may be much older than the message. |
| `duplicate_member` | "after validating existence and uniqueness" (`room_service.py:56`) | Overlapping joins both pass the check, and the migration lacks the unique index of the ORM model. |

Four more differences follow from what is modelled and have no run of their own.

* "Register a new user. Raises EntityAlreadyExistsError on duplicate"
  (`auth_service.py:37`): the loser of two overlapping registrations ends in an
  unhandled `IntegrityError`, as `InsertEmail` and `InsertUsername` show;
  `RefusalIsTrue` checks that it is at least a duplicate that does.
* `/health` (`main.py:72`) asks the database through the pool whose connections
  idle sockets keep (`PoolAccounted`), so that it may time out and report a
  database that is up as unreachable.
* "List all public rooms" (`README.md` of the repository): pages without an
  order may leave a room out of all of them; `ListedIsFound` is what remains.
* A client is admitted before its room's listener has subscribed, and nobody
  tells it when that is: a client that reads the history first and is
  subscribed later misses, without notice, what was published in between. This
  is why `SeamCovered` has the condition `since <= asked`.

## 6. What is not modelled

* Cryptography: a password is accepted exactly if its first 72 bytes are those
  that were hashed, a token exactly if it was issued and has not expired. The
  branches of `core/security.py` for other libraries than bcrypt and pyjwt never
  run where `requirements.txt` is installed.
* Deactivated users, removed members and deleted rows: nothing in the code makes
  any.
* Schemas, entities, ports, exception handlers, settings: data shapes and
  wiring. `get_client` without `init_pool`: no request is accepted before it.
* The readiness probe: it changes nothing.
* The downgrade and the offline mode of alembic: nothing runs them. The DDL
  statements of one table and its indexes are one step, since only the first
  of them can meet another node's.
* Redis's own memory limits and PostgreSQL's internals beyond READ COMMITTED,
  unique indexes, sequences, transactional DDL and `now()`.
* RoomFanout and ChatSession meet in `RoomChannel`, which both RoomFanout and
  `ChatSystem` implement (both are theorems); they are not run as one state
  space. `Publish` of RoomFanout stands for any handler of any node.

## 7. Plan

In this order, the behaviour that matters most first.

1. `RoomChannel`, `RoomFanout`, `RoomFanoutProofs`: registry, listeners, order
   of delivery, refinement. *Done.*
2. `ChatSession`: storing, publishing, the pool. *Done.*
3. `MessageHistory`: pages against their definition, and a reader. *Done.*
4. `RoomMembership`: creations and joins. *Done.*
5. `Registration`. *Done.*
6. `ChatSystem`: the senders, the channel and a client that reads the history.
   *Done.*
7. Shutdown and slow clients, in `RoomFanout`. *Done.*
8. `Login`: passwords, tokens and their expiry. *Done.*
9. `NodeStart`: migrations of nodes that start together. *Done.*
10. `AccountsProofs`, `NodeStartProofs`, `RoomMembershipProofs`. *Done.*
11. `ChatSessionProofs`: storing, publishing, the pool. *Done.*
12. `MessageHistoryProofs`, `ChatSystemProofs`: pages without an induction, the
    refinement of `MessageHistory`, and the seam. *Done.*
13. Left: an atomic specification of registering and of creating a room, in
    which the check and the insert are one step, implemented by the statements
    of `Registration` and `RoomMembership`.
