-------------------------- MODULE RoomFanoutProofs --------------------------
(***************************************************************************)
(* RoomFanout for any rooms, connections, pool size and number of          *)
(* messages and outages: its safety properties, and that it implements     *)
(* RoomChannel.  The inductive invariant adds to the properties what a      *)
(* connection that has not come yet owns (nothing), what _tasks may refer  *)
(* to, and how the messages a listener still has to dispatch lie after     *)
(* those its room's clients were given.                                    *)
(***************************************************************************)
EXTENDS RoomFanout, TLAPS

-----------------------------------------------------------------------------
(* The inductive invariant.                                                *)

\* A connection that was not accepted owns no listener and no messages.
FreshOK ==
    \A c \in Conns : handler[c] = "absent" =>
        /\ pc[c] = "none" /\ ~cancelReq[c] /\ link[c] = "none"
        /\ inbox[c] = {} /\ received[c] = <<>>

\* Only a connection whose handler runs has an open transport.
UpOK == \A c \in Conns : up[c] => handler[c] = "receiving"

\* An entry of _tasks is a listener of that room that nobody cancelled.
TasksOK ==
    \A r \in Rooms : tasks[r] # NoTask =>
        /\ RoomOf[tasks[r]] = r
        /\ ~cancelReq[tasks[r]]
        /\ handler[tasks[r]] # "absent"

\* n is a published message of room r.
Published(n, r) == n \in 1 .. Len(log) /\ log[n] = r

\* What a listener holds was published in its room and goes to its room.
HeldOK ==
    \A t \in Conns :
        /\ \A n \in inbox[t] : Published(n, RoomOf[t])
        /\ pc[t] = "broadcasting" =>
              /\ Published(cur[t], RoomOf[t])
              /\ \A c \in todo[t] : RoomOf[c] = RoomOf[t]

\* A client was given nothing as late as what its listener still has to read.
AheadOK ==
    \A t, c \in Conns : Active(t) /\ RoomOf[t] = RoomOf[c] =>
        \A i \in 1 .. Len(received[c]), n \in inbox[t] : received[c][i] < n

\* The message being broadcast lies between the two, and those still to be
\* sent to have not had it.
BroadcastOK ==
    \A t \in Conns : Active(t) /\ pc[t] = "broadcasting" =>
        /\ \A n \in inbox[t] : cur[t] < n
        /\ \A c \in Conns : RoomOf[t] = RoomOf[c] =>
              \A i \in 1 .. Len(received[c]) :
                  /\ received[c][i] <= cur[t]
                  /\ c \in todo[t] => received[c][i] < cur[t]

\* ReceivedInOrder, message by message.
GivenOK ==
    \A c \in Conns : \A i \in 1 .. Len(received[c]) :
        /\ Published(received[c][i], RoomOf[c])
        /\ \A j \in 1 .. i - 1 : received[c][j] < received[c][i]

RegistryInv == FreshOK /\ UpOK /\ RegistryOK /\ TasksOK /\ DispatcherKnown
OrderInv    == HeldOK /\ AheadOK /\ BroadcastOK /\ GivenOK

IInv == TypeOK /\ RegistryInv /\ CoveredRoom /\ NoOrphanListener /\ OrderInv

-----------------------------------------------------------------------------
(* Type correctness.                                                       *)

\* The initial state of a node has the right shape.
LEMMA TypeInit == Init => TypeOK
  BY FanoutAssumption DEF Init, TypeOK, PCs

\* Every step of a handler, a listener, Redis or the process keeps it.
LEMMA TypeStep == TypeOK /\ [Next]_vars => TypeOK'
<1> SUFFICES ASSUME TypeOK, [Next]_vars PROVE TypeOK'
  OBVIOUS
<1> USE FanoutAssumption DEF TypeOK, PCs, Running, registry, listeners, redis,
                             Goto, At
<1>1. CASE UNCHANGED vars
  BY <1>1 DEF vars
<1>2. ASSUME NEW c \in Conns, Refuse(c) PROVE TypeOK'
  BY <1>2 DEF Refuse
<1>3. ASSUME NEW c \in Conns, Accept(c) PROVE TypeOK'
  <2>1. rooms' \in [Rooms -> SUBSET Conns]
    BY <1>3 DEF Accept, Register
  <2>2. /\ tasks' \in [Rooms -> Conns \cup {NoTask}]
        /\ pc' \in [Conns -> PCs]
    <3>1. CASE NeedsListener(RoomOf[c])
      <4>1. /\ tasks' = [tasks EXCEPT ![RoomOf[c]] = c]
            /\ pc' = [pc EXCEPT ![c] = "created"]
        BY <1>3, <3>1 DEF Accept, AddListenerIfNeeded
      <4> QED
        BY <4>1
    <3>2. CASE ~NeedsListener(RoomOf[c])
      BY <1>3, <3>2 DEF Accept, AddListenerIfNeeded
    <3> QED
      BY <3>1, <3>2
  <2> QED
    BY <1>3, <2>1, <2>2 DEF Accept
<1>4. ASSUME NEW c \in Conns, ConnLost(c) \/ Stall(c) \/ Resume(c)
      PROVE  TypeOK'
  BY <1>4 DEF ConnLost, Stall, Resume
<1>5. ASSUME NEW c \in Conns, Cleanup(c) PROVE TypeOK'
  <2>1. rooms' \in [Rooms -> SUBSET Conns]
    BY <1>5 DEF Cleanup, Disconnected
  <2>2. /\ tasks' \in [Rooms -> Conns \cup {NoTask}]
        /\ cancelReq' \in [Conns -> BOOLEAN]
    BY <1>5 DEF Cleanup, RemoveListenerIfEmpty, Cancel
  <2> QED
    BY <1>5, <2>1, <2>2 DEF Cleanup
<1>6. ASSUME NEW t \in Conns, TaskStep(t) PROVE TypeOK'
  <2>1. CASE StartListen(t)
    BY <2>1 DEF StartListen
  <2>2. CASE SubscribeOk(t)
    BY <2>2 DEF SubscribeOk
  <2>3. CASE SubscribeFails(t)
    BY <2>3 DEF SubscribeFails
  <2>4. CASE ReadMessage(t)
    <3>1. inbox' \in [Conns -> SUBSET Nat] /\ cur' \in [Conns -> Nat]
      BY <2>4 DEF ReadMessage
    <3>2. todo' \in [Conns -> SUBSET Conns] /\ dead' \in [Conns -> SUBSET Conns]
      BY <2>4 DEF ReadMessage
    <3>3. pc' \in [Conns -> PCs]
      <4>1. pc' = pc \/ pc' = [pc EXCEPT ![t] = "broadcasting"]
        BY <2>4 DEF ReadMessage
      <4> QED
        BY <4>1
    <3> QED
      BY <2>4, <3>1, <3>2, <3>3 DEF ReadMessage
  <2>5. CASE FinishBroadcast(t)
    <3>1. rooms' \in [Rooms -> SUBSET Conns]
      BY <2>5 DEF FinishBroadcast, Disconnected
    <3>2. dead' \in [Conns -> SUBSET Conns] /\ pc' \in [Conns -> PCs]
      BY <2>5 DEF FinishBroadcast
    <3> QED
      BY <2>5, <3>1, <3>2 DEF FinishBroadcast
  <2>6. ASSUME NEW c \in Conns, Deliver(t, c) PROVE TypeOK'
    BY <2>6 DEF Deliver
  <2>7. ASSUME NEW c \in Conns, SendToGone(t, c) PROVE TypeOK'
    <3>1. todo' \in [Conns -> SUBSET Conns]
      BY <2>7 DEF SendToGone
    <3>2. dead' = dead \/ dead' = [dead EXCEPT ![t] = @ \cup {c}]
      BY <2>7 DEF SendToGone
    <3>3. dead' \in [Conns -> SUBSET Conns]
      <4>1. CASE dead' = [dead EXCEPT ![t] = @ \cup {c}]
        BY <4>1
      <4> QED
        BY <3>2, <4>1
    <3> QED
      BY <2>7, <3>1, <3>3 DEF SendToGone
  <2>8. CASE ListenCrash(t)
    BY <2>8 DEF ListenCrash
  <2>9. CASE Reconnect(t)
    BY <2>9 DEF Reconnect
  <2>10. CASE CancelDelivered(t)
    <3>1. pc' = [pc EXCEPT ![t] = "done"] \/ pc' = [pc EXCEPT ![t] = "closing"]
      BY <2>10 DEF CancelDelivered
    <3>2. pc' \in [Conns -> PCs]
      BY <3>1
    <3> QED
      BY <2>10, <3>2 DEF CancelDelivered
  <2>11. CASE CloseOk(t)
    BY <2>11 DEF CloseOk
  <2>12. CASE CloseFails(t)
    BY <2>12 DEF CloseFails
  <2>13. CASE CloseConnects(t)
    BY <2>13 DEF CloseConnects
  <2> QED
    BY <1>6, <2>1, <2>2, <2>3, <2>4, <2>5, <2>6, <2>7, <2>8, <2>9, <2>10,
       <2>11, <2>12, <2>13 DEF TaskStep
<1>7. ASSUME NEW t \in Conns, RedisSubscribes(t) PROVE TypeOK'
  BY <1>7 DEF RedisSubscribes
<1>8. ASSUME NEW r \in Rooms, Publish(r) PROVE TypeOK'
  <2>1. log' \in Seq(Rooms)
    BY <1>8 DEF Publish
  <2>2. inbox' \in [Conns -> SUBSET Nat]
    <3>1. Len(log) + 1 \in Nat
      OBVIOUS
    <3> QED
      BY <1>8, <3>1 DEF Publish
  <2> QED
    BY <1>8, <2>1, <2>2 DEF Publish
<1>9. CASE RedisOutage
  <2>1. link' \in [Conns -> {"none", "lost"}]
    BY <1>9 DEF RedisOutage
  <2>2. outages' \in Nat
    BY <1>9 DEF RedisOutage
  <2>3. redisUp' \in BOOLEAN
    BY <1>9 DEF RedisOutage
  <2> QED
    BY <1>9, <2>1, <2>2, <2>3 DEF RedisOutage
<1>10. CASE RedisRecovers
  BY <1>10 DEF RedisRecovers
<1>11. CASE Shutdown
  BY <1>11 DEF Shutdown, Cancel
<1>12. CASE ClosePool
  BY <1>12 DEF ClosePool
<1> QED
  BY <1>1, <1>2, <1>3, <1>4, <1>5, <1>6, <1>7, <1>8, <1>9, <1>10, <1>11, <1>12
  DEF Next, ReceiveDisconnect, HandlerFails

\* The state always has the shape the code's dictionaries, sets and task
\* states have.
THEOREM Typing == Spec => []TypeOK
  BY TypeInit, TypeStep, PTL DEF Spec

-----------------------------------------------------------------------------
(* The registry and the table of listeners.                                *)

StructInv == RegistryInv /\ CoveredRoom /\ NoOrphanListener

\* Steps that move a listener, or Redis, and leave registry and table alone.
Quiet ==
    /\ UNCHANGED <<handler, up, rooms, tasks, cancelReq, serving>>
    /\ \A t \in Conns : pc'[t] \in Running => pc[t] \in Running
    /\ FreshOK'

\* A node that just started: no sockets, no tasks.
LEMMA StructInit == Init => StructInv
  BY FanoutAssumption DEF Init, StructInv, RegistryInv, FreshOK, UpOK,
     RegistryOK, TasksOK, DispatcherKnown, CoveredRoom, NoOrphanListener,
     Active, Running

\* A quiet step cannot disturb the registry or the table of listeners.
LEMMA QuietInv == TypeOK /\ StructInv /\ Quiet => StructInv'
  BY DEF StructInv, RegistryInv, UpOK, RegistryOK, TasksOK, DispatcherKnown,
     CoveredRoom, NoOrphanListener, Active, Quiet

\* A listener's steps are quiet but for two: pruning the dead sockets after
\* a broadcast, and taking a cancellation.
LEMMA TaskQuiet ==
  ASSUME TypeOK, FreshOK, UpOK, NEW t \in Conns, TaskStep(t)
  PROVE  Quiet \/ FinishBroadcast(t) \/ CancelDelivered(t)
<1> USE DEF TypeOK, PCs, Running, registry, listeners, redis, Goto, At, Quiet,
            FreshOK
<1>1. CASE StartListen(t)
  BY <1>1 DEF StartListen
<1>2. CASE SubscribeOk(t)
  BY <1>2 DEF SubscribeOk
<1>3. CASE SubscribeFails(t)
  BY <1>3 DEF SubscribeFails
<1>4. CASE ReadMessage(t)
  BY <1>4 DEF ReadMessage
<1>5. ASSUME NEW c \in Conns, Deliver(t, c) PROVE Quiet
  BY <1>5 DEF Deliver, UpOK
<1>6. ASSUME NEW c \in Conns, SendToGone(t, c) PROVE Quiet
  BY <1>6 DEF SendToGone
<1>7. CASE ListenCrash(t)
  BY <1>7 DEF ListenCrash
<1>8. CASE Reconnect(t)
  BY <1>8 DEF Reconnect
<1>9. CASE CloseOk(t)
  BY <1>9 DEF CloseOk
<1>10. CASE CloseFails(t)
  BY <1>10 DEF CloseFails
<1>11. CASE CloseConnects(t)
  BY <1>11 DEF CloseConnects
<1> QED
  BY <1>1, <1>2, <1>3, <1>4, <1>5, <1>6, <1>7, <1>8, <1>9, <1>10, <1>11
  DEF TaskStep

\* What Redis, its publishers, close_pool() and slow clients do is quiet.
LEMMA RedisQuiet ==
  ASSUME TypeOK, FreshOK,
         \/ \E t \in Conns : RedisSubscribes(t) \/ Stall(t) \/ Resume(t)
         \/ \E r \in Rooms : Publish(r)
         \/ RedisOutage \/ RedisRecovers \/ ClosePool
  PROVE  Quiet
<1> USE DEF TypeOK, Running, registry, listeners, redis, Quiet, FreshOK
<1>1. ASSUME NEW t \in Conns, RedisSubscribes(t) PROVE Quiet
  BY <1>1 DEF RedisSubscribes
<1>2. ASSUME NEW r \in Rooms, Publish(r) PROVE Quiet
  BY <1>2 DEF Publish
<1>3. CASE RedisOutage
  BY <1>3 DEF RedisOutage, Holds
<1>4. CASE RedisRecovers
  BY <1>4 DEF RedisRecovers
<1>5. CASE ClosePool
  BY <1>5 DEF ClosePool, Holds
<1>6. ASSUME NEW c \in Conns, Stall(c) \/ Resume(c) PROVE Quiet
  BY <1>6 DEF Stall, Resume
<1> QED
  BY <1>1, <1>2, <1>3, <1>4, <1>5, <1>6

\* A refused handshake leaves nothing behind.
LEMMA RefuseStruct ==
  ASSUME TypeOK, StructInv, NEW c \in Conns, Refuse(c)
  PROVE  StructInv'
BY FanoutAssumption DEF StructInv, RegistryInv, FreshOK, UpOK, RegistryOK,
   TasksOK, DispatcherKnown, CoveredRoom, NoOrphanListener, Active, TypeOK,
   Refuse, registry, listeners, redis

\* A client that goes away unnoticed changes only its transport.
LEMMA ConnLostStruct ==
  ASSUME TypeOK, StructInv, NEW c \in Conns, ConnLost(c)
  PROVE  StructInv'
BY FanoutAssumption DEF StructInv, RegistryInv, FreshOK, UpOK, RegistryOK,
   TasksOK, DispatcherKnown, CoveredRoom, NoOrphanListener, Active, TypeOK,
   ConnLost, registry, listeners, redis

\* Pruning dead sockets only shrinks the registry: their handlers still run,
\* and will come to remove_listener_if_empty.
LEMMA FinishStruct ==
  ASSUME TypeOK, StructInv, NEW t \in Conns, FinishBroadcast(t)
  PROVE  StructInv'
<1> USE FanoutAssumption DEF StructInv, RegistryInv, TypeOK, FinishBroadcast,
        Disconnected, Goto, At, redis
<1>1. \A r \in Rooms : rooms'[r] \subseteq rooms[r]
  OBVIOUS
<1>2. FreshOK' /\ UpOK' /\ TasksOK' /\ NoOrphanListener'
  BY DEF FreshOK, UpOK, TasksOK, NoOrphanListener
<1>3. DispatcherKnown'
  BY DEF DispatcherKnown, Active, Running
<1>4. RegistryOK' /\ CoveredRoom'
  BY <1>1 DEF RegistryOK, CoveredRoom
<1> QED
  BY <1>2, <1>3, <1>4

\* Taking a cancellation ends a listener that _tasks no longer knows.
LEMMA CancelStruct ==
  ASSUME TypeOK, StructInv, NEW t \in Conns, CancelDelivered(t)
  PROVE  StructInv'
<1> USE FanoutAssumption DEF StructInv, RegistryInv, TypeOK, CancelDelivered,
        Goto, redis, registry
<1>1. /\ \A u \in Conns : cancelReq'[u] => cancelReq[u]
      /\ pc'[t] \in {"done", "closing"}
      /\ \A u \in Conns \ {t} : pc'[u] = pc[u] /\ cancelReq'[u] = cancelReq[u]
  OBVIOUS
<1>2. FreshOK' /\ UpOK' /\ RegistryOK'
  BY <1>1 DEF FreshOK, UpOK, RegistryOK
<1>3. TasksOK' /\ CoveredRoom' /\ NoOrphanListener'
  BY <1>1 DEF TasksOK, CoveredRoom, NoOrphanListener
<1>4. DispatcherKnown'
  BY <1>1 DEF DispatcherKnown, Active, Running
<1> QED
  BY <1>2, <1>3, <1>4

\* shutdown() cancels every listener of _tasks and forgets them all.
LEMMA ShutdownStruct == TypeOK /\ StructInv /\ Shutdown => StructInv'
<1> SUFFICES ASSUME TypeOK, StructInv, Shutdown PROVE StructInv'
  OBVIOUS
<1> USE FanoutAssumption DEF StructInv, RegistryInv, TypeOK, Shutdown, Cancel,
        redis, registry
<1>1. UpOK' /\ RegistryOK' /\ TasksOK' /\ CoveredRoom' /\ NoOrphanListener'
  BY DEF UpOK, RegistryOK, TasksOK, CoveredRoom, NoOrphanListener
<1>2. \A t \in Conns : ~Active(t)'
  <2> SUFFICES ASSUME NEW t \in Conns, Active(t)' PROVE FALSE
    OBVIOUS
  <2>1. Active(t)
    BY DEF Active, Running
  <2>2. tasks[RoomOf[t]] = t /\ RoomOf[t] \in Rooms
    BY <2>1 DEF DispatcherKnown
  <2>3. cancelReq'[t]
    <3>1. pc[t] # "done"
      BY ONLY <2>1 DEF Active, Running
    <3>2. t \in {tasks[r] : r \in Rooms}
      BY ONLY <2>2
    <3>3. QED
      BY <3>1, <3>2 DEF Cancel
  <2> QED
    BY ONLY <2>3, Active(t)' DEF Active
<1>3. DispatcherKnown'
  BY <1>2 DEF DispatcherKnown
<1>4. FreshOK'
  BY DEF FreshOK, TasksOK
<1> QED
  BY <1>1, <1>3, <1>4

\* connect() and add_listener_if_needed(): the room has a listener that
\* nobody cancelled, the one it had or a new one, and it is in _tasks.
LEMMA AcceptStruct ==
  ASSUME TypeOK, StructInv, NEW c \in Conns, Accept(c)
  PROVE  StructInv'
<1> DEFINE r == RoomOf[c]
<1> USE FanoutAssumption DEF StructInv, RegistryInv, TypeOK, redis
<1>1. /\ handler[c] = "absent" /\ ~cancelReq[c]
      /\ handler' = [handler EXCEPT ![c] = "receiving"]
      /\ up' = [up EXCEPT ![c] = TRUE]
      /\ rooms' = [rooms EXCEPT ![r] = @ \cup {c}]
      /\ UNCHANGED <<cancelReq, link, inbox, received, serving>>
  BY DEF Accept, Register, FreshOK
<1>2. \/ /\ NeedsListener(r)
         /\ tasks' = [tasks EXCEPT ![r] = c]
         /\ pc' = [pc EXCEPT ![c] = "created"]
      \/ /\ ~NeedsListener(r)
         /\ tasks' = tasks
         /\ pc' = pc
  BY DEF Accept, AddListenerIfNeeded
<1>3. r \in Rooms
  OBVIOUS
<1> HIDE DEF r
<1>4. UpOK' /\ RegistryOK' /\ FreshOK'
  <2>1. UpOK'
    BY <1>1 DEF UpOK
  <2>2. RegistryOK'
    BY <1>1, <1>3 DEF RegistryOK, r
  <2>3. FreshOK'
    BY <1>1, <1>2 DEF FreshOK
  <2> QED
    BY <2>1, <2>2, <2>3
<1>5. TasksOK'
  <2> SUFFICES ASSUME NEW q \in Rooms, tasks'[q] # NoTask
               PROVE  /\ RoomOf[tasks'[q]] = q
                      /\ ~cancelReq'[tasks'[q]]
                      /\ handler'[tasks'[q]] # "absent"
    BY DEF TasksOK
  <2>1. CASE tasks'[q] = tasks[q]
    BY <1>1, <2>1 DEF TasksOK
  <2>2. CASE tasks'[q] # tasks[q]
    <3>1. q = r /\ tasks'[q] = c
      BY <1>2, <1>3, <2>2
    <3> QED
      BY <1>1, <3>1 DEF r
  <2> QED
    BY <2>1, <2>2
<1>6. DispatcherKnown'
  <2>1. CASE NeedsListener(r)
    <3> SUFFICES ASSUME NEW t \in Conns, Active(t)' PROVE (tasks[RoomOf[t]] = t)'
      BY DEF DispatcherKnown
    <3>1. CASE t = c
      BY <1>1, <1>2, <1>3, <2>1, <3>1 DEF r
    <3>2. CASE t # c
      <4>1. Active(t)
        BY <1>1, <1>2, <2>1, <3>2 DEF Active
      <4>2. tasks[RoomOf[t]] = t
        BY <4>1 DEF DispatcherKnown
      <4>3. RoomOf[t] # r
        BY <2>1, <4>1, <4>2 DEF NeedsListener, Active, Running
      <4> QED
        BY <1>2, <2>1, <4>2, <4>3
    <3> QED
      BY <3>1, <3>2
  <2>2. CASE ~NeedsListener(r)
    BY <1>1, <1>2, <2>2 DEF DispatcherKnown, Active
  <2> QED
    BY <2>1, <2>2
<1>7. CoveredRoom'
  <2> SUFFICES ASSUME serving', NEW q \in Rooms, rooms'[q] # {}
               PROVE  (tasks[q] # NoTask /\ ~cancelReq[tasks[q]])'
    BY DEF CoveredRoom
  <2>1. CASE q = r
    BY <1>1, <1>2, <1>3, <2>1 DEF NeedsListener, TasksOK
  <2>2. CASE q # r
    BY <1>1, <1>2, <1>3, <2>2 DEF CoveredRoom
  <2> QED
    BY <2>1, <2>2
<1>8. NoOrphanListener'
  <2> SUFFICES ASSUME NEW q \in Rooms, tasks'[q] # NoTask
               PROVE  \E d \in Conns : RoomOf[d] = q /\ handler'[d] = "receiving"
    BY DEF NoOrphanListener
  <2>1. CASE q = r
    BY <1>1, <2>1 DEF r
  <2>2. CASE q # r
    BY <1>1, <1>2, <1>3, <2>2 DEF NoOrphanListener
  <2> QED
    BY <2>1, <2>2
<1> QED
  BY <1>4, <1>5, <1>6, <1>7, <1>8

\* The finally block of a handler: the listener is popped and cancelled at
\* once, and only when no socket of the room is registered any more.
LEMMA CleanupStruct ==
  ASSUME TypeOK, StructInv, NEW c \in Conns, Cleanup(c)
  PROVE  StructInv'
<1> DEFINE r == RoomOf[c]
<1> USE FanoutAssumption DEF StructInv, RegistryInv, TypeOK, redis
<1>1. /\ handler[c] = "receiving"
      /\ handler' = [handler EXCEPT ![c] = "ended"]
      /\ up' = [up EXCEPT ![c] = FALSE]
      /\ rooms' = [rooms EXCEPT ![r] = @ \ {c}]
      /\ UNCHANGED <<pc, link, inbox, received, serving>>
  BY DEF Cleanup, Disconnected
<1>2. \/ /\ rooms'[r] = {}
         /\ tasks' = [tasks EXCEPT ![r] = NoTask]
         /\ cancelReq' = [t \in Conns |-> \/ cancelReq[t]
                                          \/ t \in {tasks[r]} /\ pc[t] # "done"]
      \/ /\ rooms'[r] # {}
         /\ tasks' = tasks
         /\ cancelReq' = cancelReq
  BY DEF Cleanup, RemoveListenerIfEmpty, Cancel
<1>3. r \in Rooms
  OBVIOUS
<1>4. RegistryOK'
  <2> SUFFICES ASSUME NEW q \in Rooms, NEW d \in rooms'[q]
               PROVE  handler'[d] = "receiving" /\ RoomOf[d] = q
    BY DEF RegistryOK
  <2>1. d \in rooms[q] /\ d \in Conns /\ handler[d] = "receiving" /\ RoomOf[d] = q
    BY <1>1, <1>3 DEF RegistryOK
  <2>2. d # c
    BY <1>1, <1>3, <2>1
  <2> QED
    BY <1>1, <2>1, <2>2
<1> HIDE DEF r
<1>5. UpOK'
  BY <1>1 DEF UpOK
<1>6. FreshOK'
  <2> SUFFICES ASSUME NEW d \in Conns, handler'[d] = "absent"
               PROVE  /\ pc'[d] = "none" /\ ~cancelReq'[d] /\ link'[d] = "none"
                      /\ inbox'[d] = {} /\ received'[d] = <<>>
    BY DEF FreshOK
  <2>1. handler[d] = "absent"
    BY <1>1
  <2>2. d # tasks[r]
    BY <1>3, <2>1 DEF TasksOK
  <2>3. ~cancelReq'[d]
    BY <1>2, <2>1, <2>2 DEF FreshOK
  <2> QED
    BY <1>1, <2>1, <2>3 DEF FreshOK
<1>7. CASE rooms'[r] # {}
  <2>1. tasks' = tasks /\ cancelReq' = cancelReq
    BY <1>2, <1>7
  <2>2. TasksOK' /\ DispatcherKnown'
    BY <1>1, <2>1 DEF TasksOK, DispatcherKnown, Active
  <2>3. CoveredRoom'
    BY <1>1, <1>3, <2>1 DEF CoveredRoom
  <2>4. NoOrphanListener'
    <3> SUFFICES ASSUME NEW q \in Rooms, tasks[q] # NoTask
                 PROVE  \E d \in Conns : RoomOf[d] = q /\ handler'[d] = "receiving"
      BY <2>1 DEF NoOrphanListener
    <3>1. CASE q = r
      <4>1. PICK d \in rooms'[r] : TRUE
        BY <1>7
      <4>2. d \in Conns
        BY <1>1, <1>3, <4>1
      <4> QED
        BY <1>3, <1>4, <3>1, <4>1, <4>2 DEF RegistryOK
    <3>2. CASE q # r
      BY <1>1, <3>2 DEF NoOrphanListener, r
    <3> QED
      BY <3>1, <3>2
  <2> QED
    BY <1>4, <1>5, <1>6, <2>2, <2>3, <2>4
<1>8. CASE rooms'[r] = {}
  <2>1. /\ tasks' = [tasks EXCEPT ![r] = NoTask]
        /\ cancelReq' = [t \in Conns |-> \/ cancelReq[t]
                                         \/ t \in {tasks[r]} /\ pc[t] # "done"]
    BY <1>2, <1>8
  <2>2. \A q \in Rooms : tasks'[q] # NoTask =>
            q # r /\ tasks'[q] = tasks[q] /\ tasks[q] # tasks[r]
    BY <1>3, <2>1 DEF TasksOK
  <2>3. TasksOK'
    BY <1>1, <2>1, <2>2 DEF TasksOK
  <2>4. DispatcherKnown'
    <3> SUFFICES ASSUME NEW t \in Conns, Active(t)' PROVE (tasks[RoomOf[t]] = t)'
      BY DEF DispatcherKnown
    <3>1. Active(t)
      BY <1>1, <2>1 DEF Active
    <3>2. tasks[RoomOf[t]] = t
      BY <3>1 DEF DispatcherKnown
    <3>3. RoomOf[t] # r
      BY <2>1, <3>1, <3>2 DEF Active, Running
    <3> QED
      BY <1>3, <2>1, <3>2, <3>3
  <2>5. CoveredRoom'
    <3> SUFFICES ASSUME serving', NEW q \in Rooms, rooms'[q] # {}
                 PROVE  (tasks[q] # NoTask /\ ~cancelReq[tasks[q]])'
      BY DEF CoveredRoom
    <3>1. q # r /\ rooms[q] # {}
      BY <1>1, <1>3, <1>8
    <3>2. tasks[q] # NoTask /\ ~cancelReq[tasks[q]]
      BY <1>1, <3>1 DEF CoveredRoom
    <3>3. tasks'[q] = tasks[q]
      BY <1>3, <2>1, <3>1
    <3> QED
      BY <2>3, <3>2, <3>3 DEF TasksOK
  <2>6. NoOrphanListener'
    BY <1>1, <2>2 DEF NoOrphanListener, r
  <2> QED
    BY <1>4, <1>5, <1>6, <2>3, <2>4, <2>5, <2>6
<1> QED
  BY <1>7, <1>8

\* Every step preserves the structure.
LEMMA StructStep == TypeOK /\ StructInv /\ [Next]_vars => StructInv'
<1> SUFFICES ASSUME TypeOK, StructInv, [Next]_vars PROVE StructInv'
  OBVIOUS
<1>1. FreshOK /\ UpOK
  BY DEF StructInv, RegistryInv
<1>2. CASE UNCHANGED vars
  BY <1>2, QuietInv DEF vars, Quiet, StructInv, RegistryInv, FreshOK
<1>3. ASSUME NEW t \in Conns, TaskStep(t) PROVE StructInv'
  BY <1>1, <1>3, TaskQuiet, QuietInv, FinishStruct, CancelStruct
<1>4. ASSUME NEW c \in Conns,
             Refuse(c) \/ Accept(c) \/ ConnLost(c) \/ Cleanup(c)
      PROVE  StructInv'
  BY <1>4, RefuseStruct, AcceptStruct, ConnLostStruct, CleanupStruct
<1>5. ASSUME \/ \E t \in Conns : RedisSubscribes(t) \/ Stall(t) \/ Resume(t)
             \/ \E r \in Rooms : Publish(r)
             \/ RedisOutage \/ RedisRecovers \/ ClosePool
      PROVE  StructInv'
  BY <1>1, <1>5, RedisQuiet, QuietInv
<1>6. CASE Shutdown
  BY <1>6, ShutdownStruct
<1> QED
  BY <1>2, <1>3, <1>4, <1>5, <1>6 DEF Next, ReceiveDisconnect, HandlerFails

\* Every reachable state is well typed, and registry, table of listeners and
\* handlers fit together.
THEOREM Structure == Spec => [](TypeOK /\ StructInv)
  BY TypeInit, TypeStep, StructInit, StructStep, PTL DEF Spec

\* No room ever has two listeners that may both dispatch, for any number of
\* rooms and connections and any interleaving of their handlers.
THEOREM AtMostOneDispatcher == Spec => []OneDispatcher
<1>1. StructInv => OneDispatcher
  BY DEF StructInv, RegistryInv, DispatcherKnown, OneDispatcher
<1> QED
  BY <1>1, Structure, PTL

\* The listener that dispatches is always the one _tasks knows.
THEOREM DispatcherIsKnown == Spec => []DispatcherKnown
<1>1. StructInv => DispatcherKnown
  BY DEF StructInv, RegistryInv
<1> QED
  BY <1>1, Structure, PTL

\* The registry never holds a socket whose handler has ended.
THEOREM RegistryIsExact == Spec => []RegistryOK
<1>1. StructInv => RegistryOK
  BY DEF StructInv, RegistryInv
<1> QED
  BY <1>1, Structure, PTL

\* While the node serves, a room with clients has an uncancelled listener.
THEOREM RoomsAreCovered == Spec => []CoveredRoom
<1>1. StructInv => CoveredRoom
  BY DEF StructInv
<1> QED
  BY <1>1, Structure, PTL

\* A listener stays in _tasks only while a handler will come to remove it.
THEOREM NoListenerOrphaned == Spec => []NoOrphanListener
<1>1. StructInv => NoOrphanListener
  BY DEF StructInv
<1> QED
  BY <1>1, Structure, PTL

-----------------------------------------------------------------------------
(* The order of deliveries.                                                *)

\* Steps that publish, read and hand over nothing: what a listener has to do
\* only shrinks, and one that starts to be active has nothing to do yet.
Calm ==
    /\ UNCHANGED <<received, log, cur>>
    /\ \A t \in Conns :
        /\ inbox'[t] \subseteq inbox[t]
        /\ todo'[t] \subseteq todo[t]
        /\ pc'[t] = "broadcasting" => pc[t] = "broadcasting"
        /\ Active(t)' => \/ Active(t)
                         \/ inbox'[t] = {} /\ pc'[t] # "broadcasting"

\* Nothing was published, read or handed over at first.
LEMMA OrderInit == Init => OrderInv
  BY FanoutAssumption DEF Init, OrderInv, HeldOK, AheadOK, BroadcastOK,
     GivenOK, Active, Running

\* A calm step cannot put a message out of order.
LEMMA CalmInv == ASSUME TypeOK, OrderInv, Calm PROVE OrderInv'
<1> USE DEF OrderInv, Calm
<1>1. HeldOK'
  BY DEF HeldOK, Published
<1>2. AheadOK'
  BY DEF AheadOK
<1>3. BroadcastOK'
  <2> SUFFICES ASSUME NEW t \in Conns, Active(t)', pc'[t] = "broadcasting"
               PROVE  /\ \A n \in inbox'[t] : cur[t] < n
                      /\ \A c \in Conns : RoomOf[t] = RoomOf[c] =>
                            \A i \in 1 .. Len(received[c]) :
                                /\ received[c][i] <= cur[t]
                                /\ c \in todo'[t] => received[c][i] < cur[t]
    BY DEF BroadcastOK
  <2>1. Active(t) /\ pc[t] = "broadcasting"
    OBVIOUS
  <2> QED
    BY <2>1 DEF BroadcastOK
<1>4. GivenOK'
  BY DEF GivenOK, Published
<1> QED
  BY <1>1, <1>2, <1>3, <1>4

\* A listener's steps are calm but for reading a message and sending it.
LEMMA TaskCalm ==
  ASSUME TypeOK, NEW t \in Conns, TaskStep(t)
  PROVE  Calm \/ ReadMessage(t) \/ \E c \in Conns : Deliver(t, c)
<1> USE DEF TypeOK, PCs, Running, registry, listeners, redis, Goto, At, Calm,
            Active
<1>1. CASE StartListen(t)
  BY <1>1 DEF StartListen
<1>2. CASE SubscribeOk(t)
  BY <1>2 DEF SubscribeOk
<1>3. CASE SubscribeFails(t)
  BY <1>3 DEF SubscribeFails
<1>4. CASE FinishBroadcast(t)
  BY <1>4 DEF FinishBroadcast
<1>5. ASSUME NEW c \in Conns, SendToGone(t, c) PROVE Calm
  BY <1>5 DEF SendToGone
<1>6. CASE ListenCrash(t)
  BY <1>6 DEF ListenCrash
<1>7. CASE Reconnect(t)
  BY <1>7 DEF Reconnect
<1>8. CASE CancelDelivered(t)
  BY <1>8 DEF CancelDelivered
<1>9. CASE CloseOk(t)
  BY <1>9 DEF CloseOk
<1>10. CASE CloseFails(t)
  BY <1>10 DEF CloseFails
<1>11. CASE CloseConnects(t)
  BY <1>11 DEF CloseConnects
<1> QED
  BY <1>1, <1>2, <1>3, <1>4, <1>5, <1>6, <1>7, <1>8, <1>9, <1>10, <1>11
  DEF TaskStep

\* What handlers do is calm: a listener they start has nothing to dispatch.
LEMMA HandlerCalm ==
  ASSUME TypeOK, FreshOK, NEW c \in Conns,
         Refuse(c) \/ Accept(c) \/ ConnLost(c) \/ Cleanup(c)
  PROVE  Calm
<1> USE FanoutAssumption DEF TypeOK, PCs, Running, registry, listeners, redis,
            Calm, Active
<1>1. CASE Refuse(c)
  BY <1>1 DEF Refuse
<1>2. CASE Accept(c)
  <2>1. inbox[c] = {} /\ UNCHANGED <<cancelReq, inbox, cur, todo, log, received>>
    BY <1>2 DEF Accept, FreshOK
  <2>2. pc' = pc \/ pc' = [pc EXCEPT ![c] = "created"]
    BY <1>2 DEF Accept, AddListenerIfNeeded
  <2> QED
    BY <2>1, <2>2
<1>3. CASE ConnLost(c)
  BY <1>3 DEF ConnLost
<1>4. CASE Cleanup(c)
  <2>1. UNCHANGED <<pc, inbox, cur, todo, log, received>>
    BY <1>4 DEF Cleanup
  <2>2. \A t \in Conns : cancelReq[t] => cancelReq'[t]
    BY <1>4 DEF Cleanup, RemoveListenerIfEmpty, Cancel
  <2> QED
    BY <2>1, <2>2
<1> QED
  BY <1>1, <1>2, <1>3, <1>4

\* Redis subscribing, failing and recovering is calm, and so are slow clients
\* and the end of the process.
LEMMA RedisCalm ==
  ASSUME TypeOK,
         \/ \E t \in Conns : RedisSubscribes(t) \/ Stall(t) \/ Resume(t)
         \/ RedisOutage \/ RedisRecovers \/ Shutdown \/ ClosePool
         \/ UNCHANGED vars
  PROVE  Calm
<1> USE DEF TypeOK, Running, registry, listeners, redis, Calm, Active
<1>1. ASSUME NEW t \in Conns, RedisSubscribes(t) PROVE Calm
  BY <1>1 DEF RedisSubscribes
<1>2. CASE RedisOutage
  BY <1>2 DEF RedisOutage
<1>3. CASE RedisRecovers
  BY <1>3 DEF RedisRecovers
<1>4. CASE Shutdown
  BY <1>4 DEF Shutdown, Cancel
<1>5. CASE UNCHANGED vars
  BY <1>5 DEF vars
<1>6. CASE ClosePool
  BY <1>6 DEF ClosePool
<1>7. ASSUME NEW c \in Conns, Stall(c) \/ Resume(c) PROVE Calm
  BY <1>7 DEF Stall, Resume
<1> QED
  BY <1>1, <1>2, <1>3, <1>4, <1>5, <1>6, <1>7

\* listen() yields the oldest message, so that what is broadcast next is later
\* than all that the room's clients were given.
LEMMA ReadOrder ==
  ASSUME TypeOK, StructInv, OrderInv, NEW t \in Conns, ReadMessage(t)
  PROVE  OrderInv'
<1> USE FanoutAssumption DEF TypeOK, OrderInv, redis, registry
<1>1. PICK n \in inbox[t] :
        /\ \A m \in inbox[t] : n <= m
        /\ inbox' = [inbox EXCEPT ![t] = @ \ {n}]
        /\ cur' = [cur EXCEPT ![t] = n]
  BY DEF ReadMessage
<1>2. /\ At(t, "listening")
      /\ todo' = [todo EXCEPT ![t] = rooms[RoomOf[t]]]
      /\ pc' = pc \/ pc' = [pc EXCEPT ![t] = "broadcasting"]
      /\ UNCHANGED <<rooms, cancelReq, received, log>>
  BY DEF ReadMessage, Goto
<1>3. n \in Nat /\ Published(n, RoomOf[t])
  BY DEF HeldOK
<1>4. \A m \in inbox'[t] : m \in Nat /\ n < m
  BY <1>1, <1>3
<1>5. \A u \in Conns \ {t} : /\ inbox'[u] = inbox[u] /\ cur'[u] = cur[u]
                             /\ todo'[u] = todo[u] /\ pc'[u] = pc[u]
  BY <1>1, <1>2
<1>6. \A u \in Conns : Active(u)' => Active(u)
  BY <1>2, <1>5 DEF Active, At, Running
<1>7. \A u \in Conns : inbox'[u] \subseteq inbox[u]
  BY <1>1, <1>5
<1>8. HeldOK'
  <2> SUFFICES ASSUME NEW u \in Conns
               PROVE  /\ \A m \in inbox'[u] : Published(m, RoomOf[u])
                      /\ pc'[u] = "broadcasting" =>
                            /\ Published(cur'[u], RoomOf[u])
                            /\ \A c \in todo'[u] : RoomOf[c] = RoomOf[u]
    BY <1>2 DEF HeldOK, Published
  <2>1. \A m \in inbox'[u] : Published(m, RoomOf[u])
    BY <1>7 DEF HeldOK
  <2>2. CASE u # t
    BY <1>5, <2>1, <2>2 DEF HeldOK
  <2>3. CASE u = t
    <3>1. cur'[t] = n /\ todo'[t] = rooms[RoomOf[t]]
      BY <1>1, <1>2
    <3>2. \A c \in rooms[RoomOf[t]] : RoomOf[c] = RoomOf[t]
      BY DEF StructInv, RegistryInv, RegistryOK
    <3> QED
      BY <1>3, <2>1, <2>3, <3>1, <3>2
  <2> QED
    BY <2>2, <2>3
<1>9. AheadOK'
  BY <1>2, <1>6, <1>7 DEF AheadOK
<1>10. BroadcastOK'
  <2> SUFFICES ASSUME NEW u \in Conns, Active(u)', pc'[u] = "broadcasting"
               PROVE  /\ \A m \in inbox'[u] : cur'[u] < m
                      /\ \A c \in Conns : RoomOf[u] = RoomOf[c] =>
                            \A i \in 1 .. Len(received[c]) :
                                /\ received[c][i] <= cur'[u]
                                /\ c \in todo'[u] => received[c][i] < cur'[u]
    BY <1>2 DEF BroadcastOK
  <2>1. CASE u # t
    BY <1>5, <1>6, <2>1 DEF BroadcastOK
  <2>2. CASE u = t
    <3>1. cur'[u] = n
      BY <1>1, <2>2
    <3>2. \A c \in Conns : RoomOf[u] = RoomOf[c] =>
             \A i \in 1 .. Len(received[c]) : received[c][i] \in Nat /\ received[c][i] < n
      BY <1>6, <2>2 DEF AheadOK
    <3> QED
      BY <1>3, <1>4, <2>2, <3>1, <3>2
  <2> QED
    BY <2>1, <2>2
<1>11. GivenOK'
  BY <1>2 DEF GivenOK, Published
<1> QED
  BY <1>8, <1>9, <1>10, <1>11

\* A new message is later than all others, and goes to its room's listeners.
LEMMA PublishOrder ==
  ASSUME TypeOK, OrderInv, NEW r \in Rooms, Publish(r)
  PROVE  OrderInv'
<1> USE FanoutAssumption DEF TypeOK, OrderInv, registry
<1>1. PICK k \in Nat : k = Len(log)
  OBVIOUS
<1>2. /\ log' = Append(log, r) /\ Len(log') = k + 1
      /\ \A i \in 1 .. k : log'[i] = log[i]
      /\ log'[k + 1] = r
  BY <1>1 DEF Publish
<1>3. UNCHANGED <<pc, cancelReq, cur, todo, received>>
  BY DEF Publish
<1>4. \A t \in Conns : \A n \in inbox'[t] :
         n \in inbox[t] \/ (n = k + 1 /\ RoomOf[t] = r)
  BY <1>1 DEF Publish
<1>5. \A n, q : Published(n, q) => n \in 1 .. k /\ Published(n, q)'
  BY <1>1, <1>2 DEF Published
<1>6. Published(k + 1, r)'
  BY <1>2 DEF Published
<1>7. HeldOK'
  <2> SUFFICES ASSUME NEW t \in Conns
               PROVE  /\ \A n \in inbox'[t] : Published(n, RoomOf[t])'
                      /\ pc[t] = "broadcasting" =>
                            /\ Published(cur[t], RoomOf[t])'
                            /\ \A c \in todo[t] : RoomOf[c] = RoomOf[t]
    BY <1>3 DEF HeldOK
  <2>1. \A n \in inbox'[t] : Published(n, RoomOf[t])'
    BY <1>4, <1>5, <1>6 DEF HeldOK
  <2>2. ASSUME pc[t] = "broadcasting" PROVE Published(cur[t], RoomOf[t])'
    <3>1. PICK n \in Nat : n = cur[t]
      OBVIOUS
    <3>2. Published(n, RoomOf[t])'
      BY <1>5, <2>2, <3>1 DEF HeldOK
    <3> QED
      BY <1>3, <3>1, <3>2 DEF Published
  <2> QED
    BY <2>1, <2>2 DEF HeldOK
<1>8. \A c \in Conns : \A i \in 1 .. Len(received[c]) :
         received[c][i] \in 1 .. k
  BY <1>5 DEF GivenOK
<1>9. \A t \in Conns : Active(t)' <=> Active(t)
  BY <1>3 DEF Active
<1>10. AheadOK'
  <2> SUFFICES ASSUME NEW t \in Conns, NEW c \in Conns, Active(t),
                      RoomOf[t] = RoomOf[c],
                      NEW i \in 1 .. Len(received[c]), NEW n \in inbox'[t]
               PROVE  received[c][i] < n
    BY <1>3, <1>9 DEF AheadOK
  <2>1. CASE n \in inbox[t]
    BY <2>1 DEF AheadOK
  <2>2. CASE n = k + 1
    BY <1>8, <2>2
  <2> QED
    BY <1>4, <2>1, <2>2
<1>11. BroadcastOK'
  <2>1. ASSUME NEW t \in Conns, pc[t] = "broadcasting" PROVE cur[t] < k + 1
    <3>1. Published(cur[t], RoomOf[t])
      BY <2>1 DEF HeldOK
    <3>2. cur[t] \in 1 .. k
      BY ONLY <1>5, <3>1
    <3>3. QED
      BY <3>2
  <2>2. SUFFICES ASSUME NEW t \in Conns, Active(t), pc[t] = "broadcasting"
                 PROVE  /\ \A n \in inbox'[t] : cur[t] < n
                        /\ \A c \in Conns : RoomOf[t] = RoomOf[c] =>
                              \A i \in 1 .. Len(received[c]) :
                                  /\ received[c][i] <= cur[t]
                                  /\ c \in todo[t] => received[c][i] < cur[t]
    BY <1>3, <1>9 DEF BroadcastOK
  <2>3. \A n \in inbox'[t] : cur[t] < n
    <3>1. ASSUME NEW n \in inbox'[t] PROVE cur[t] < n
      <4>1. n \in inbox[t] \/ n = k + 1
        BY <1>4
      <4>2. CASE n \in inbox[t]
        BY <2>2, <4>2 DEF BroadcastOK
      <4>3. CASE n = k + 1
        BY <2>1, <2>2, <4>3
      <4> QED
        BY <4>1, <4>2, <4>3
    <3> QED
      BY <3>1
  <2> QED
    BY <2>2, <2>3 DEF BroadcastOK
<1>12. GivenOK'
  BY <1>3, <1>5 DEF GivenOK
<1> QED
  BY <1>7, <1>10, <1>11, <1>12

\* One send_text extends what one client was given by the message in hand,
\* which this client has not had and which is the latest so far.
LEMMA DeliverOrder ==
  ASSUME TypeOK, StructInv, OrderInv, NEW t \in Conns, NEW c \in Conns,
         Deliver(t, c)
  PROVE  OrderInv'
<1> USE FanoutAssumption DEF TypeOK, OrderInv, redis, registry
<1>1. /\ pc[t] = "broadcasting" /\ Active(t) /\ c \in todo[t]
      /\ todo' = [todo EXCEPT ![t] = @ \ {c}]
      /\ received' = [received EXCEPT ![c] = Append(@, cur[t])]
      /\ UNCHANGED <<pc, cancelReq, inbox, cur, log>>
  BY DEF Deliver, At, Active, Running
<1>2. RoomOf[c] = RoomOf[t] /\ cur[t] \in Nat /\ Published(cur[t], RoomOf[t])
  BY <1>1 DEF HeldOK
<1>3. \A u \in Conns : Active(u) /\ RoomOf[u] = RoomOf[c] => u = t
  BY <1>1, <1>2 DEF StructInv, RegistryInv, DispatcherKnown
<1>4. /\ Len(received[c]) \in Nat
      /\ Len(received'[c]) = Len(received[c]) + 1
      /\ \A i \in 1 .. Len(received[c]) : received'[c][i] = received[c][i]
      /\ received'[c][Len(received[c]) + 1] = cur[t]
  BY <1>1
<1>5. \A d \in Conns \ {c} : received'[d] = received[d]
  BY <1>1
<1>6. \A i \in 1 .. Len(received[c]) :
         received[c][i] \in Nat /\ received[c][i] < cur[t]
  BY <1>1, <1>2 DEF BroadcastOK
<1>7. \A i \in 1 .. Len(received'[c]) :
         \/ i \in 1 .. Len(received[c]) /\ received'[c][i] = received[c][i]
         \/ i = Len(received[c]) + 1 /\ received'[c][i] = cur[t]
  BY <1>4
<1>8. /\ \A u \in Conns : Active(u)' <=> Active(u)
      /\ \A i \in 1 .. Len(received'[c]) :
            received'[c][i] \in Nat /\ received'[c][i] <= cur[t]
  <2>1. \A u \in Conns : Active(u)' <=> Active(u)
    BY <1>1 DEF Active
  <2>2. ASSUME NEW i \in 1 .. Len(received'[c])
        PROVE  received'[c][i] \in Nat /\ received'[c][i] <= cur[t]
    <3>1. CASE received'[c][i] = cur[t]
      BY <1>2, <3>1
    <3>2. CASE i \in 1 .. Len(received[c]) /\ received'[c][i] = received[c][i]
      BY <1>2, <1>6, <3>2
    <3> QED
      BY <1>7, <3>1, <3>2
  <2> QED
    BY <2>1, <2>2
<1>9. HeldOK'
  BY <1>1 DEF HeldOK, Published
<1>10. AheadOK'
  <2> SUFFICES ASSUME NEW u \in Conns, NEW d \in Conns, Active(u),
                      RoomOf[u] = RoomOf[d],
                      NEW i \in 1 .. Len(received'[d]), NEW n \in inbox[u]
               PROVE  received'[d][i] < n
    BY <1>1, <1>8 DEF AheadOK
  <2>1. CASE d # c
    BY <1>5, <2>1 DEF AheadOK
  <2>2. CASE d = c
    <3>1. u = t
      BY <1>3, <2>2
    <3>2. cur[t] < n /\ n \in Nat
      BY <1>1, <3>1 DEF BroadcastOK
    <3>3. received'[d][i] \in Nat /\ received'[d][i] <= cur[t]
      BY <1>8, <2>2
    <3>4. cur[t] \in Nat
      BY <1>2
    <3> QED
      BY ONLY <3>2, <3>3, <3>4
  <2> QED
    BY <2>1, <2>2
<1>11. BroadcastOK'
  <2> SUFFICES ASSUME NEW u \in Conns, Active(u), pc[u] = "broadcasting"
               PROVE  /\ \A n \in inbox[u] : cur[u] < n
                      /\ \A d \in Conns : RoomOf[u] = RoomOf[d] =>
                            \A i \in 1 .. Len(received'[d]) :
                                /\ received'[d][i] <= cur[u]
                                /\ d \in todo'[u] => received'[d][i] < cur[u]
    BY <1>1, <1>8 DEF BroadcastOK
  <2>1. \A n \in inbox[u] : cur[u] < n
    BY DEF BroadcastOK
  <2>2. ASSUME NEW d \in Conns, RoomOf[u] = RoomOf[d],
               NEW i \in 1 .. Len(received'[d])
        PROVE  /\ received'[d][i] <= cur[u]
               /\ d \in todo'[u] => received'[d][i] < cur[u]
    <3>1. CASE d # c
      BY <1>1, <1>5, <2>2, <3>1 DEF BroadcastOK
    <3>2. CASE d = c
      <4>1. u = t /\ d \notin todo'[u]
        BY <1>1, <1>3, <2>2, <3>2
      <4> QED
        BY <1>8, <2>2, <3>2, <4>1
    <3> QED
      BY <3>1, <3>2
  <2> QED
    BY <2>1, <2>2
<1>12. GivenOK'
  <2> SUFFICES ASSUME NEW d \in Conns, NEW i \in 1 .. Len(received'[d])
               PROVE  /\ Published(received'[d][i], RoomOf[d])
                      /\ \A j \in 1 .. i - 1 : received'[d][j] < received'[d][i]
    BY <1>1 DEF GivenOK, Published
  <2>1. CASE d # c
    BY <1>5, <2>1 DEF GivenOK
  <2>2. CASE d = c /\ i \in 1 .. Len(received[c])
    <3>1. \A j \in 1 .. i - 1 : j \in 1 .. Len(received[c])
      BY <1>4, <2>2
    <3> QED
      BY <1>4, <2>2, <3>1 DEF GivenOK
  <2>3. CASE d = c /\ i = Len(received[c]) + 1
    <3>1. \A j \in 1 .. i - 1 : j \in 1 .. Len(received[c])
      BY <1>4, <2>3
    <3>2. received'[d][i] = cur[t]
      BY <1>4, <2>3
    <3> QED
      BY <1>2, <1>4, <1>6, <2>3, <3>1, <3>2
  <2> QED
    BY <1>7, <2>1, <2>2, <2>3
<1> QED
  BY <1>9, <1>10, <1>11, <1>12

\* Every step preserves the order.
LEMMA OrderStep ==
  TypeOK /\ StructInv /\ OrderInv /\ [Next]_vars => OrderInv'
<1> SUFFICES ASSUME TypeOK, StructInv, OrderInv, [Next]_vars PROVE OrderInv'
  OBVIOUS
<1>1. FreshOK
  BY DEF StructInv, RegistryInv
<1>2. ASSUME NEW t \in Conns, TaskStep(t) PROVE OrderInv'
  BY <1>2, TaskCalm, CalmInv, ReadOrder, DeliverOrder
<1>3. ASSUME NEW c \in Conns,
             Refuse(c) \/ Accept(c) \/ ConnLost(c) \/ Cleanup(c)
      PROVE  OrderInv'
  BY <1>1, <1>3, HandlerCalm, CalmInv
<1>4. ASSUME \/ \E t \in Conns : RedisSubscribes(t) \/ Stall(t) \/ Resume(t)
             \/ RedisOutage \/ RedisRecovers \/ Shutdown \/ ClosePool
             \/ UNCHANGED vars
      PROVE  OrderInv'
  BY <1>4, RedisCalm, CalmInv
<1>5. ASSUME NEW r \in Rooms, Publish(r) PROVE OrderInv'
  BY <1>5, PublishOrder
<1> QED
  BY <1>2, <1>3, <1>4, <1>5 DEF Next, ReceiveDisconnect, HandlerFails

\* The inductive invariant holds of every reachable state.
THEOREM Invariance == Spec => []IInv
<1>1. Init => IInv
  BY TypeInit, StructInit, OrderInit DEF IInv, StructInv
<1>2. IInv /\ [Next]_vars => IInv'
  BY TypeStep, StructStep, OrderStep DEF IInv, StructInv
<1> QED
  BY <1>1, <1>2, PTL DEF Spec

\* A client gets its own room's messages, each at most once, in publish order.
THEOREM DeliveredInOrder == Spec => []ReceivedInOrder
<1>1. IInv => ReceivedInOrder
  BY DEF IInv, OrderInv, GivenOK, Published, ReceivedInOrder
<1> QED
  BY <1>1, Invariance, PTL

-----------------------------------------------------------------------------
(* RoomFanout implements RoomChannel.                                      *)

OpenConns == {c \in Conns : handler[c] = "receiving"}

\* A node that just started is a channel without messages or connections.
LEMMA ChannelInit == Init => Channel!Init
  BY DEF Init, Channel!Init

\* Publishing is Publish, accepting Open, the clean-up Close and a successful
\* send_text HandOver; every other step is a stutter.
LEMMA ChannelStep ==
  TypeOK /\ StructInv /\ OrderInv /\ [Next]_vars => [Channel!Next]_(Channel!vars)
<1> SUFFICES ASSUME TypeOK, StructInv, OrderInv, [Next]_vars
             PROVE  Channel!Next \/ UNCHANGED <<log, OpenConns, received>>
  BY DEF Channel!vars, OpenConns
<1> USE DEF TypeOK, registry, listeners, redis
<1>1. ASSUME UNCHANGED <<log, handler, received>>
      PROVE  UNCHANGED <<log, OpenConns, received>>
  BY <1>1 DEF OpenConns
<1>2. ASSUME NEW c \in Conns, Refuse(c) PROVE UNCHANGED <<log, OpenConns, received>>
  BY <1>2 DEF Refuse, OpenConns
<1>3. ASSUME NEW c \in Conns, Accept(c) PROVE Channel!Next
  <2>1. OpenConns' = OpenConns \cup {c} /\ UNCHANGED <<log, received>>
    BY <1>3 DEF Accept, OpenConns
  <2>2. Channel!Open(c)
    BY <2>1 DEF Channel!Open, OpenConns
  <2> QED
    BY <2>2 DEF Channel!Next
<1>4. ASSUME NEW c \in Conns, Cleanup(c) PROVE Channel!Next
  <2>1. OpenConns' = OpenConns \ {c} /\ UNCHANGED <<log, received>>
    BY <1>4 DEF Cleanup, OpenConns
  <2>2. Channel!Close(c)
    BY <2>1 DEF Channel!Close, OpenConns
  <2> QED
    BY <2>2 DEF Channel!Next
<1>5. ASSUME NEW r \in Rooms, Publish(r) PROVE Channel!Next
  <2>1. Channel!Publish(r)
    BY <1>5 DEF Publish, Channel!Publish
  <2> QED
    BY <2>1 DEF Channel!Next
<1>6. ASSUME NEW t \in Conns, NEW c \in Conns, Deliver(t, c) PROVE Channel!Next
  <2>1. /\ handler[c] = "receiving" /\ RoomOf[c] = RoomOf[t]
        /\ Published(cur[t], RoomOf[t])
        /\ \A i \in 1 .. Len(received[c]) : received[c][i] < cur[t]
    BY <1>6 DEF Deliver, At, Active, Running, StructInv, RegistryInv, UpOK,
       OrderInv, HeldOK, BroadcastOK
  <2>2. /\ received' = [received EXCEPT ![c] = Append(@, cur[t])]
        /\ UNCHANGED <<log, handler>>
    BY <1>6 DEF Deliver
  <2>3. Channel!HandOver(c, cur[t]) /\ cur[t] \in 1 .. Len(log)
    BY <2>1, <2>2 DEF Channel!HandOver, Published
  <2> QED
    BY <2>3 DEF Channel!Next
<1>7. ASSUME NEW t \in Conns, TaskStep(t)
      PROVE  \/ UNCHANGED <<log, handler, received>>
             \/ \E c \in Conns : Deliver(t, c)
  BY <1>7 DEF TaskStep, StartListen, SubscribeOk, SubscribeFails, ReadMessage,
     FinishBroadcast, SendToGone, ListenCrash, Reconnect, CancelDelivered,
     CloseConnects, CloseOk, CloseFails
<1>8. ASSUME \/ \E c \in Conns : \/ ConnLost(c) \/ Stall(c) \/ Resume(c)
                                  \/ RedisSubscribes(c)
             \/ RedisOutage \/ RedisRecovers \/ Shutdown \/ ClosePool
             \/ UNCHANGED vars
      PROVE  UNCHANGED <<log, handler, received>>
  BY <1>8 DEF ConnLost, Stall, Resume, RedisSubscribes, RedisOutage,
     RedisRecovers, Shutdown, ClosePool, vars
<1> QED
  BY <1>1, <1>2, <1>3, <1>4, <1>5, <1>6, <1>7, <1>8
  DEF Next, ReceiveDisconnect, HandlerFails

\* Listeners, registry, pruning, cancellation and Redis outages together are
\* an implementation of the lossy, ordered, at-most-once channel.
THEOREM FanoutImplementsChannel == Spec => ImplementsChannel
<1>1. IInv /\ [Next]_vars => [Channel!Next]_(Channel!vars)
  BY ChannelStep DEF IInv, StructInv
<1> QED
  BY <1>1, ChannelInit, Invariance, PTL DEF Spec, ImplementsChannel, Channel!Spec
=============================================================================
