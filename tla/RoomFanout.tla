----------------------------- MODULE RoomFanout -----------------------------
(***************************************************************************)
(* The real-time half of one server node: the registry of local WebSocket  *)
(* connections (ConnectionManager), the one listener task per room that    *)
(* multiplexes a Redis subscription onto them (RedisPubSubManager), and as *)
(* much of a WebSocket handler's life as those two can see.                *)
(*                                                                         *)
(* Everything runs on one asyncio loop, so an action is what the code does *)
(* between two awaits that really suspend.  The bodies under the manager's *)
(* _lock never suspend, so the lock is never contended and acquiring it    *)
(* does not suspend either: registering a socket and starting its room's   *)
(* listener is one step, and so is unregistering it and stopping the       *)
(* listener.  Task.cancel() only requests: CancelledError is raised inside *)
(* the task at its own next turn (CancelDelivered).                        *)
(*                                                                         *)
(* Redis, the WebSocket transport and the ASGI server are modelled from    *)
(* how the code uses them.                                                 *)
(***************************************************************************)
EXTENDS Naturals, Sequences, FiniteSets

CONSTANTS Rooms,         \* the chat rooms
          Conns,         \* the WebSocket connections, over the node's life
          RoomOf,        \* the room_id a connection was opened for
          NoTask,        \* "no entry" in _tasks
          RedisPoolMax,  \* REDIS_POOL_MAX_CONNECTIONS
          MaxPublished,  \* bound: messages published, on any node
          MaxOutages,    \* bound: times Redis goes away
          MaxStalled     \* bound: clients that do not read, at one time

ASSUME FanoutAssumption ==
    /\ RoomOf \in [Conns -> Rooms]
    /\ NoTask \notin Conns
    /\ RedisPoolMax \in Nat \ {0}
    /\ MaxPublished \in Nat
    /\ MaxOutages \in Nat
    /\ MaxStalled \in Nat

(***************************************************************************)
(* A handler starts at most one listener, so a listener is named by the    *)
(* connection whose handler created it: for t \in Conns, pc[t] is where    *)
(* the coroutine _listen(RoomOf[t]) created by t's handler stands.         *)
(***************************************************************************)
VARIABLES
    handler,   \* _handle_ws of a connection: absent, receiving, ended
    up,        \* the connection's transport is open
    rooms,     \* ConnectionManager._rooms (an absent key is an empty set)
    stalled,   \* connections whose send buffer is full
    tasks,     \* RedisPubSubManager._tasks
    pc,        \* per listener, the await it is suspended at
    cancelReq, \* per listener, cancel() was called and not yet delivered
    link,      \* per listener, the pooled Redis connection of its PubSub
    inbox,     \* per listener, messages delivered by Redis and not read
    cur,       \* per listener, the message being broadcast
    todo,      \* per listener, sockets of list(room) still to be sent to
    dead,      \* per listener, the local set "dead"
    log,       \* the room of every message published so far
    received,  \* per connection, the messages that reached the client
    redisUp, outages,
    serving    \* FALSE once RedisPubSubManager.shutdown has run

registry  == <<handler, up, rooms, stalled>>
listeners == <<pc, cancelReq, link, inbox, cur, todo, dead>>
redis     == <<log, redisUp, outages>>
vars == <<handler, up, rooms, stalled, tasks, pc, cancelReq, link, inbox, cur,
          todo, dead, log, received, redisUp, outages, serving>>

Running == {"created", "subscribing", "listening", "broadcasting"}
PCs     == Running \cup {"none", "closing", "done"}

\* Every variable holds what its dictionary, set or task state can hold.
TypeOK ==
    /\ handler \in [Conns -> {"absent", "receiving", "ended"}]
    /\ up \in [Conns -> BOOLEAN]
    /\ rooms \in [Rooms -> SUBSET Conns]
    /\ stalled \in SUBSET Conns
    /\ tasks \in [Rooms -> Conns \cup {NoTask}]
    /\ pc \in [Conns -> PCs]
    /\ cancelReq \in [Conns -> BOOLEAN]
    /\ link \in [Conns -> {"none", "taken", "pending", "subscribed", "lost"}]
    /\ inbox \in [Conns -> SUBSET Nat]
    /\ cur \in [Conns -> Nat]
    /\ todo \in [Conns -> SUBSET Conns]
    /\ dead \in [Conns -> SUBSET Conns]
    /\ log \in Seq(Rooms)
    /\ received \in [Conns -> Seq(Nat)]
    /\ redisUp \in BOOLEAN
    /\ outages \in Nat
    /\ serving \in BOOLEAN

Init ==
    /\ handler = [c \in Conns |-> "absent"]
    /\ up = [c \in Conns |-> FALSE]
    /\ rooms = [r \in Rooms |-> {}]
    /\ stalled = {}
    /\ tasks = [r \in Rooms |-> NoTask]
    /\ pc = [t \in Conns |-> "none"]
    /\ cancelReq = [t \in Conns |-> FALSE]
    /\ link = [t \in Conns |-> "none"]
    /\ inbox = [t \in Conns |-> {}]
    /\ cur = [t \in Conns |-> 0]
    /\ todo = [t \in Conns |-> {}]
    /\ dead = [t \in Conns |-> {}]
    /\ log = <<>>
    /\ received = [c \in Conns |-> <<>>]
    /\ redisUp = TRUE
    /\ outages = 0
    /\ serving = TRUE

-----------------------------------------------------------------------------
(* The registry and the table of listeners, as the handlers use them.      *)

\* connect() once the socket is accepted.
Register(c) == rooms' = [rooms EXCEPT ![RoomOf[c]] = @ \cup {c}]

\* The registry once disconnect(room_id, ws) has returned, for all of gone.
Disconnected(r, gone) == [rooms EXCEPT ![r] = @ \ gone]

\* existing is None or existing.done()
NeedsListener(r) == tasks[r] # NoTask => pc[tasks[r]] = "done"

\* Mutation: every connect starts a listener, the N x N bug of the header.
AddListenerAlways(c) ==
    /\ tasks' = [tasks EXCEPT ![RoomOf[c]] = c]
    /\ pc' = [pc EXCEPT ![c] = "created"]

\* A finished entry is replaced; any other, whatever it is doing, is kept.
AddListenerIfNeeded(c) ==
    \/ /\ NeedsListener(RoomOf[c])
       /\ tasks' = [tasks EXCEPT ![RoomOf[c]] = c]
       /\ pc' = [pc EXCEPT ![c] = "created"]
    \/ /\ ~NeedsListener(RoomOf[c])
       /\ UNCHANGED <<tasks, pc>>

\* Mutation: whether there was a task to pop is not looked at.
CancelUnchecked(T) ==
    cancelReq' = [t \in Conns \cup T |->
                    \/ t \in T /\ (t = NoTask \/ pc[t] # "done")
                    \/ t \in Conns /\ cancelReq[t]]

\* Mutation: the task is popped and left running.
CancelNothing(T) == UNCHANGED cancelReq

\* cancel() on the listeners in T that are not done().
Cancel(T) ==
    cancelReq' = [t \in Conns |-> cancelReq[t] \/ (t \in T /\ pc[t] # "done")]

\* Mutation: the count of the clients that stay is not looked at.
RemoveListenerAlways(r) ==
    /\ tasks' = [tasks EXCEPT ![r] = NoTask]
    /\ Cancel({tasks[r]})

\* The room's count is read in the registry as disconnect left it.
RemoveListenerIfEmpty(r) ==
    \/ /\ rooms'[r] = {}
       /\ tasks' = [tasks EXCEPT ![r] = NoTask]
       /\ Cancel({tasks[r]})
    \/ /\ rooms'[r] # {}
       /\ UNCHANGED <<tasks, cancelReq>>

-----------------------------------------------------------------------------
(* The WebSocket handler.                                                  *)

\* Bad token, not a member, or accept() failed: nothing was registered.
Refuse(c) ==
    /\ serving /\ handler[c] = "absent"
    /\ handler' = [handler EXCEPT ![c] = "ended"]
    /\ UNCHANGED <<up, rooms, stalled, tasks, listeners, redis, received,
                   serving>>

\* connect() after accept() returned, then add_listener_if_needed().
Accept(c) ==
    /\ serving /\ handler[c] = "absent"
    /\ handler' = [handler EXCEPT ![c] = "receiving"]
    /\ up' = [up EXCEPT ![c] = TRUE]
    /\ Register(c)
    /\ AddListenerIfNeeded(c)
    /\ UNCHANGED <<stalled, cancelReq, link, inbox, cur, todo, dead, redis,
                   received, serving>>

\* Mutation: a socket the broadcast already pruned has nothing to clean up.
CleanupUnlessPruned(c) ==
    /\ handler[c] = "receiving"
    /\ handler' = [handler EXCEPT ![c] = "ended"]
    /\ up' = [up EXCEPT ![c] = FALSE]
    /\ rooms' = Disconnected(RoomOf[c], {c})
    /\ stalled' = stalled \ {c}
    /\ IF c \in rooms[RoomOf[c]] THEN RemoveListenerIfEmpty(RoomOf[c])
                                 ELSE UNCHANGED <<tasks, cancelReq>>
    /\ UNCHANGED <<pc, link, inbox, cur, todo, dead, redis, received, serving>>

\* The finally block; returning from the handler closes the transport.
Cleanup(c) ==
    /\ handler[c] = "receiving"
    /\ handler' = [handler EXCEPT ![c] = "ended"]
    /\ up' = [up EXCEPT ![c] = FALSE]
    /\ rooms' = Disconnected(RoomOf[c], {c})
    /\ stalled' = stalled \ {c}
    /\ RemoveListenerIfEmpty(RoomOf[c])
    /\ UNCHANGED <<pc, link, inbox, cur, todo, dead, redis, received, serving>>

\* receive_text() raises WebSocketDisconnect.
ReceiveDisconnect(c) == ~up[c] /\ Cleanup(c)

\* Mutation: the clean-up is in "except WebSocketDisconnect", not finally.
HandlerFailsUncleaned(c) ==
    /\ up[c] /\ handler[c] = "receiving"
    /\ handler' = [handler EXCEPT ![c] = "ended"]
    /\ up' = [up EXCEPT ![c] = FALSE]
    /\ stalled' = stalled \ {c}
    /\ UNCHANGED <<rooms, tasks, listeners, redis, received, serving>>

\* Anything else the loop raises: send_message failed, a frame that is JSON
\* and no object, the server cancelling the handler.
HandlerFails(c) == up[c] /\ Cleanup(c)

\* The client goes away; neither side of the server has noticed.
ConnLost(c) ==
    /\ up[c]
    /\ up' = [up EXCEPT ![c] = FALSE]
    /\ stalled' = stalled \ {c}
    /\ UNCHANGED <<handler, rooms, tasks, listeners, redis, received, serving>>

\* The client does not read, and what is being sent to its room fills the
\* buffer of its transport.
Stall(c) ==
    /\ up[c] /\ \E t \in Conns : c \in todo[t]
    /\ c \notin stalled /\ Cardinality(stalled) < MaxStalled
    /\ stalled' = stalled \cup {c}
    /\ UNCHANGED <<handler, up, rooms, tasks, listeners, redis, received,
                   serving>>

\* It reads again.
Resume(c) ==
    /\ c \in stalled
    /\ stalled' = stalled \ {c}
    /\ UNCHANGED <<handler, up, rooms, tasks, listeners, redis, received,
                   serving>>

-----------------------------------------------------------------------------
(* The listener task.  A cancelled task takes no ordinary step any more.   *)

At(t, where) == pc[t] = where /\ ~cancelReq[t]

Goto(t, where) == pc' = [pc EXCEPT ![t] = where]

Holds(t) == link[t] # "none"

PoolFull == Cardinality({t \in Conns : Holds(t)}) >= RedisPoolMax

StartListen(t) ==
    /\ At(t, "created")
    /\ Goto(t, "subscribing")
    /\ UNCHANGED <<registry, tasks, cancelReq, link, inbox, cur, todo, dead,
                   redis, received, serving>>

\* subscribe() takes a pooled connection and sends SUBSCRIBE; it does not
\* wait for Redis to have executed it.
SubscribeOk(t) ==
    /\ At(t, "subscribing") /\ redisUp /\ ~PoolFull
    /\ Goto(t, "listening")
    /\ link' = [link EXCEPT ![t] = "pending"]
    /\ UNCHANGED <<registry, tasks, cancelReq, inbox, cur, todo, dead, redis,
                   received, serving>>

SubscribeFails(t) ==
    /\ At(t, "subscribing") /\ (~redisUp \/ PoolFull)
    /\ Goto(t, "closing")
    /\ UNCHANGED <<registry, tasks, cancelReq, link, inbox, cur, todo, dead,
                   redis, received, serving>>

\* listen() yields a message and broadcast_to_room takes list(room).
ReadMessage(t) ==
    /\ At(t, "listening") /\ inbox[t] # {}
    /\ \E n \in inbox[t] :
        /\ \A m \in inbox[t] : n <= m
        /\ inbox' = [inbox EXCEPT ![t] = @ \ {n}]
        /\ cur' = [cur EXCEPT ![t] = n]
    /\ todo' = [todo EXCEPT ![t] = rooms[RoomOf[t]]]
    /\ dead' = [dead EXCEPT ![t] = {}]
    /\ IF rooms[RoomOf[t]] = {} THEN UNCHANGED pc ELSE Goto(t, "broadcasting")
    /\ UNCHANGED <<registry, tasks, cancelReq, link, redis, received, serving>>

\* Mutation: a send that takes long is repeated.
DeliverRepeated(t, c) ==
    /\ At(t, "broadcasting") /\ c \in todo[t] /\ up[c] /\ c \notin stalled
    /\ todo' \in {todo, [todo EXCEPT ![t] = @ \ {c}]}
    /\ received' = [received EXCEPT ![c] = Append(@, cur[t])]
    /\ UNCHANGED <<registry, tasks, pc, cancelReq, link, inbox, cur, dead,
                   redis, serving>>

\* One send_text to a client that is there; it waits for room in the buffer.
Deliver(t, c) ==
    /\ At(t, "broadcasting") /\ c \in todo[t] /\ up[c] /\ c \notin stalled
    /\ todo' = [todo EXCEPT ![t] = @ \ {c}]
    /\ received' = [received EXCEPT ![c] = Append(@, cur[t])]
    /\ UNCHANGED <<registry, tasks, pc, cancelReq, link, inbox, cur, dead,
                   redis, serving>>

\* Mutation: the try is around the loop of sends, not around each send.
SendToGoneAborts(t, c) ==
    /\ At(t, "broadcasting") /\ c \in todo[t] /\ ~up[c]
    /\ todo' = [todo EXCEPT ![t] = {}]
    /\ dead' = [dead EXCEPT ![t] = @ \cup {c}]
    /\ UNCHANGED <<registry, tasks, pc, cancelReq, link, inbox, cur, redis,
                   received, serving>>

\* One send_text to a client that is gone: it raises, or nobody noticed yet.
SendToGone(t, c) ==
    /\ At(t, "broadcasting") /\ c \in todo[t] /\ ~up[c]
    /\ todo' = [todo EXCEPT ![t] = @ \ {c}]
    /\ dead' \in {dead, [dead EXCEPT ![t] = @ \cup {c}]}
    /\ UNCHANGED <<registry, tasks, pc, cancelReq, link, inbox, cur, redis,
                   received, serving>>

\* The dead sockets leave the registry; their handlers are not told.
FinishBroadcast(t) ==
    /\ At(t, "broadcasting") /\ todo[t] = {}
    /\ Goto(t, "listening")
    /\ rooms' = Disconnected(RoomOf[t], dead[t])
    /\ dead' = [dead EXCEPT ![t] = {}]
    /\ UNCHANGED <<handler, up, stalled, tasks, cancelReq, link, inbox, cur,
                   todo, redis, received, serving>>

\* Reading the lost link raises: "PubSub listener crashed".
ListenCrash(t) ==
    /\ At(t, "listening") /\ link[t] = "lost"
    /\ Goto(t, "closing")
    /\ UNCHANGED <<registry, tasks, cancelReq, link, inbox, cur, todo, dead,
                   redis, received, serving>>

\* Newer clients reconnect and resubscribe inside listen() before giving up.
Reconnect(t) ==
    /\ At(t, "listening") /\ link[t] = "lost" /\ redisUp
    /\ link' = [link EXCEPT ![t] = "pending"]
    /\ inbox' = [inbox EXCEPT ![t] = {}]
    /\ UNCHANGED <<registry, tasks, pc, cancelReq, cur, todo, dead, redis,
                   received, serving>>

\* CancelledError: a task that never ran is over; from the try block it goes
\* to finally; raised inside finally it passes "except Exception", and
\* pubsub.close() is not reached.
CancelDelivered(t) ==
    /\ cancelReq[t]
    /\ cancelReq' = [cancelReq EXCEPT ![t] = FALSE]
    /\ \/ pc[t] \in {"created", "closing"} /\ Goto(t, "done")
       \/ pc[t] \in Running \ {"created"} /\ Goto(t, "closing")
    /\ todo' = [todo EXCEPT ![t] = {}]
    /\ dead' = [dead EXCEPT ![t] = {}]
    /\ UNCHANGED <<registry, tasks, link, inbox, cur, redis, received, serving>>

\* A PubSub without a connection takes one from the pool to unsubscribe.
CloseConnects(t) ==
    /\ At(t, "closing") /\ ~Holds(t) /\ redisUp /\ ~PoolFull
    /\ link' = [link EXCEPT ![t] = "taken"]
    /\ UNCHANGED <<registry, tasks, pc, cancelReq, inbox, cur, todo, dead,
                   redis, received, serving>>

\* unsubscribe() and close(): the connection goes back to the pool.
CloseOk(t) ==
    /\ At(t, "closing") /\ Holds(t) /\ redisUp
    /\ Goto(t, "done")
    /\ link' = [link EXCEPT ![t] = "none"]
    /\ inbox' = [inbox EXCEPT ![t] = {}]
    /\ UNCHANGED <<registry, tasks, cancelReq, cur, todo, dead, redis,
                   received, serving>>

\* unsubscribe() gets no connection, or raises on the one it has, which may
\* be lost although Redis is back: the exception is swallowed, and close()
\* not reached.
CloseFails(t) ==
    /\ At(t, "closing")
    /\ ~redisUp \/ link[t] = "lost" \/ (~Holds(t) /\ PoolFull)
    /\ Goto(t, "done")
    /\ UNCHANGED <<registry, tasks, cancelReq, link, inbox, cur, todo, dead,
                   redis, received, serving>>

TaskStep(t) ==
    \/ StartListen(t) \/ SubscribeOk(t) \/ SubscribeFails(t)
    \/ ReadMessage(t) \/ FinishBroadcast(t)
    \/ \E c \in Conns : Deliver(t, c) \/ SendToGone(t, c)
    \/ ListenCrash(t) \/ Reconnect(t)
    \/ CancelDelivered(t) \/ CloseConnects(t) \/ CloseOk(t) \/ CloseFails(t)

-----------------------------------------------------------------------------
(* Redis, and the end of the process.                                      *)

\* Redis executes the SUBSCRIBE (and the listener skips its confirmation).
RedisSubscribes(t) ==
    /\ redisUp /\ link[t] = "pending"
    /\ link' = [link EXCEPT ![t] = "subscribed"]
    /\ UNCHANGED <<registry, tasks, pc, cancelReq, inbox, cur, todo, dead,
                   redis, received, serving>>

\* Mutation: one channel for all rooms.
PublishToAll(r) ==
    /\ redisUp /\ Len(log) < MaxPublished
    /\ log' = Append(log, r)
    /\ inbox' = [t \in Conns |->
                    IF link[t] = "subscribed" THEN inbox[t] \cup {Len(log) + 1}
                                              ELSE inbox[t]]
    /\ UNCHANGED <<registry, tasks, pc, cancelReq, link, cur, todo, dead,
                   received, redisUp, outages, serving>>

\* PUBLISH room:{id}, by a handler of any node: to whoever is subscribed.
Publish(r) ==
    /\ redisUp /\ Len(log) < MaxPublished
    /\ log' = Append(log, r)
    /\ inbox' = [t \in Conns |->
                    IF link[t] = "subscribed" /\ RoomOf[t] = r
                    THEN inbox[t] \cup {Len(log) + 1} ELSE inbox[t]]
    /\ UNCHANGED <<registry, tasks, pc, cancelReq, link, cur, todo, dead,
                   received, redisUp, outages, serving>>

RedisOutage ==
    /\ redisUp /\ outages < MaxOutages
    /\ redisUp' = FALSE
    /\ outages' = outages + 1
    /\ link' = [t \in Conns |-> IF Holds(t) THEN "lost" ELSE "none"]
    /\ UNCHANGED <<registry, tasks, pc, cancelReq, inbox, cur, todo, dead,
                   log, received, serving>>

RedisRecovers ==
    /\ ~redisUp
    /\ redisUp' = TRUE
    /\ UNCHANGED <<registry, tasks, listeners, log, outages, received, serving>>

\* Mutation: the table is cleared first, and nothing is left to cancel.
ShutdownForgets ==
    /\ serving /\ \A c \in Conns : ~up[c]
    /\ serving' = FALSE
    /\ tasks' = [r \in Rooms |-> NoTask]
    /\ UNCHANGED <<registry, listeners, redis, received>>

\* Lifespan shutdown: the server has closed every socket; handlers it did
\* not wait for may still have their finally block ahead of them.
Shutdown ==
    /\ serving /\ \A c \in Conns : ~up[c]
    /\ serving' = FALSE
    /\ Cancel({tasks[r] : r \in Rooms})
    /\ tasks' = [r \in Rooms |-> NoTask]
    /\ UNCHANGED <<registry, pc, link, inbox, cur, todo, dead, redis, received>>

\* close_pool(), which waits for no listener, disconnects also the pooled
\* connections that are in use.
ClosePool ==
    /\ ~serving
    /\ \E t \in Conns : link[t] \in {"taken", "pending", "subscribed"}
    /\ link' = [t \in Conns |-> IF Holds(t) THEN "lost" ELSE "none"]
    /\ UNCHANGED <<registry, tasks, pc, cancelReq, inbox, cur, todo, dead,
                   redis, received, serving>>

Next ==
    \/ \E c \in Conns :
        \/ Refuse(c) \/ Accept(c) \/ ConnLost(c) \/ Stall(c) \/ Resume(c)
        \/ ReceiveDisconnect(c) \/ HandlerFails(c)
        \/ TaskStep(c) \/ RedisSubscribes(c)
    \/ \E r \in Rooms : Publish(r)
    \/ RedisOutage \/ RedisRecovers \/ Shutdown \/ ClosePool

Spec == Init /\ [][Next]_vars

\* The broadcast may be waiting for a client that does not read, in the
\* order list(room) happens to have.
Blocked(t) == At(t, "broadcasting") /\ todo[t] \cap stalled # {}

(***************************************************************************)
(* The loop runs a ready task again and again.  Nothing obliges a client   *)
(* to come, leave, write or read, or Redis to fail or recover.             *)
(***************************************************************************)
FairSpec == Spec /\ \A c \in Conns : WF_vars(~Blocked(c) /\ TaskStep(c))

\* And closed sockets are reported to their handlers, and Redis comes back
\* and executes what it was sent.
RecoveringSpec ==
    /\ FairSpec
    /\ \A c \in Conns :
        WF_vars(ReceiveDisconnect(c)) /\ WF_vars(RedisSubscribes(c))
    /\ WF_vars(RedisRecovers)

-----------------------------------------------------------------------------
(* What the fan-out guarantees.                                            *)

\* A listener that may still hand a message to a client.
Active(t) == pc[t] \in Running /\ ~cancelReq[t]

\* A room never has two listeners that may both dispatch - the duplication
\* bug the module header of pubsub_manager.py is about - however connects,
\* disconnects, crashes and cancellations interleave, and the one it has is
\* the one _tasks knows and a later disconnect will cancel.
OneDispatcher ==
    \A t1, t2 \in Conns :
        Active(t1) /\ Active(t2) /\ RoomOf[t1] = RoomOf[t2] => t1 = t2

\* The entry of _tasks is the listener that dispatches, so that no listener
\* can run where remove_listener_if_empty and shutdown do not reach it.
DispatcherKnown ==
    \A t \in Conns : Active(t) => tasks[RoomOf[t]] = t

\* A client is given its own room's messages only, each at most once, in the
\* order Redis published them, whichever listeners delivered them.
ReceivedInOrder ==
    \A c \in Conns : \A i \in 1 .. Len(received[c]) :
        /\ received[c][i] \in 1 .. Len(log)
        /\ log[received[c][i]] = RoomOf[c]
        /\ \A j \in 1 .. i - 1 : received[c][j] < received[c][i]

\* The registry holds only sockets whose handler still runs, under their own
\* room: pruning a dead socket and the handler's own clean-up, which may both
\* unregister it and in any order, never leave it behind.
RegistryOK ==
    \A r \in Rooms : \A c \in rooms[r] :
        handler[c] = "receiving" /\ RoomOf[c] = r

\* While serving, a room with registered clients has a listener in _tasks and
\* nobody has cancelled it: a disconnect never takes the listener away from
\* the clients that stay or that came meanwhile.
CoveredRoom ==
    serving => \A r \in Rooms :
        rooms[r] # {} => tasks[r] # NoTask /\ ~cancelReq[tasks[r]]

\* A listener is kept in _tasks only while some handler of the room is still
\* to reach its clean-up, also when the broadcast already pruned every socket
\* of the room and so "emptied" it without cancelling anything.
NoOrphanListener ==
    \A r \in Rooms :
        tasks[r] # NoTask =>
            \E c \in Conns : RoomOf[c] = r /\ handler[c] = "receiving"

\* Once a room's last handler has ended, its listener ends too and will not
\* subscribe again: "When the last local client disconnects, the task is
\* cancelled" (pubsub_manager.py:7).
IdleRoomReleased ==
    \A r \in Rooms :
        (\A c \in Conns : RoomOf[c] = r => handler[c] = "ended")
            ~> (\A t \in Conns : RoomOf[t] = r => pc[t] \in {"none", "done"})

\* c is in line for message n: registered, and n waits at the listener that
\* dispatches to c's room.
InLine(c, n) ==
    /\ c \in rooms[RoomOf[c]]
    /\ \E t \in Conns : RoomOf[t] = RoomOf[c] /\ Active(t) /\ n \in inbox[t]

\* A message that reached the room's listener reaches every client that was
\* registered by then, unless the client leaves, the listener loses Redis or
\* a client of the same room does not read: sockets found dead, clients that
\* leave or come in the middle of a broadcast, and slow clients of other rooms
\* do not make it miss anyone.
PendingDelivered ==
    \A c \in Conns : \A n \in 1 .. MaxPublished :
        InLine(c, n) ~> \/ \E i \in 1 .. Len(received[c]) : received[c][i] = n
                        \/ ~up[c]
                        \/ outages > 0
                        \/ \E d \in stalled : RoomOf[d] = RoomOf[c]

\* Once shutdown() has run, which waits for no listener, every listener comes
\* to its end and none stays subscribed, wherever it was when it was cancelled
\* and whether close_pool() disconnects it first or not.
ShutdownEnds ==
    ~serving ~> \A t \in Conns : /\ pc[t] \in {"none", "done"}
                                 /\ link[t] \notin {"pending", "subscribed"}

\* The fan-out implements the channel of RoomChannel.
Channel == INSTANCE RoomChannel
             WITH open <- {c \in Conns : handler[c] = "receiving"}

ImplementsChannel == Channel!Spec

-----------------------------------------------------------------------------
(* What the module header of pubsub_manager.py says and the code does not  *)
(* do.  Each of these is checked to be violated.                           *)

\* "When the last local client disconnects, the task is cancelled (no
\* resource leaks)" (pubsub_manager.py:7).
NoLeakedConnection == \A t \in Conns : pc[t] = "done" => ~Holds(t)

\* "All locally connected clients in that room receive messages from that
\* single task" (pubsub_manager.py:6): a connected client's room gets back to
\* being subscribed, for as long as the client stays.
ClientServed ==
    \A c \in Conns :
        handler[c] = "receiving"
            ~> \/ handler[c] = "ended"
               \/ \E t \in Conns : RoomOf[t] = RoomOf[c] /\ Active(t)
                                   /\ link[t] = "subscribed"
=============================================================================
