---------------------------- MODULE RoomChannel ----------------------------
(***************************************************************************)
(* What the chat rooms promise a connected client, without listeners,     *)
(* registries or Redis: a room is a channel on which messages are          *)
(* published in one order; an open connection of the room is given some of *)
(* them, each at most once and in the order they were published.  Nothing  *)
(* is promised about messages that are never handed over: Redis Pub/Sub    *)
(* keeps no history, the database does.                                    *)
(***************************************************************************)
EXTENDS Naturals, Sequences

CONSTANTS Rooms,    \* the chat rooms
          Conns,    \* the WebSocket connections, over the life of the server
          RoomOf    \* the room a connection is for

VARIABLES log,      \* the room of every message published, in publish order
          open,     \* the connections a client can be spoken to on
          received  \* per connection, the numbers of the messages handed over

vars == <<log, open, received>>

Init == /\ log = <<>>
        /\ open = {}
        /\ received = [c \in Conns |-> <<>>]

Publish(r) == /\ log' = Append(log, r)
              /\ UNCHANGED <<open, received>>

Open(c) == /\ open' = open \cup {c}
           /\ UNCHANGED <<log, received>>

Close(c) == /\ open' = open \ {c}
            /\ UNCHANGED <<log, received>>

\* Message n goes to c: of c's room, and later than all that c was given.
HandOver(c, n) ==
    /\ c \in open
    /\ log[n] = RoomOf[c]
    /\ \A i \in 1 .. Len(received[c]) : received[c][i] < n
    /\ received' = [received EXCEPT ![c] = Append(@, n)]
    /\ UNCHANGED <<log, open>>

Next == \/ \E r \in Rooms : Publish(r)
        \/ \E c \in Conns : Open(c) \/ Close(c)
        \/ \E c \in Conns, n \in 1 .. Len(log) : HandOver(c, n)

Spec == Init /\ [][Next]_vars
=============================================================================
