----------------------------- MODULE ChatSystem -----------------------------
(***************************************************************************)
(* One room as a client sees it: what the senders' handlers store and      *)
(* publish (ChatSession), what of it reaches the client's own socket       *)
(* (RoomChannel, which RoomFanout implements) and what it reads of the     *)
(* history (MessageHistory), all on the one table of messages.             *)
(*                                                                         *)
(* A client that comes to a room opens its socket and reads the history,   *)
(* in any order.  _handle_ws accepts the socket before Redis has executed  *)
(* the SUBSCRIBE of the room's listener, and the client is not told when   *)
(* it has.                                                                 *)
(***************************************************************************)
EXTENDS ChatSession

CONSTANTS Reader,   \* the client that is followed; the others only send
          MaxLimit  \* the largest limit of the history endpoint

ASSUME SystemAssumption == Reader \in Conns /\ MaxLimit \in Nat \ {0}

VARIABLES
    since,     \* how much was published when Redis subscribed the reader
    received,  \* the messages each client's socket was given
    pages,     \* the pages the reader was given, the latest last
    atStart,   \* the messages that were stored when it asked for the first
    asked      \* how much was published when it did

clientVars == <<since, received, pages, atStart, asked>>

NotYet == MaxSent + 1

Accepted ==
    {c \in Conns : pc[c] \in PCs \ {"absent", "authenticating", "ended"}}

Channel == INSTANCE RoomChannel
             WITH Rooms  <- {"room"},
                  RoomOf <- [c \in Conns |-> "room"],
                  log    <- [i \in 1 .. Len(published) |-> "room"],
                  open   <- Accepted

History == INSTANCE MessageHistory
             WITH MaxId <- MaxSent, table <- {m.id : m \in table}

SystemInit ==
    /\ Init
    /\ since = NotYet
    /\ received = [c \in Conns |-> <<>>]
    /\ pages = <<>>
    /\ atStart = {}
    /\ asked = NotYet

-----------------------------------------------------------------------------

\* A handler, of the reader or of a sender.
Handle(c) ==
    /\ \/ Connect(c) \/ Leave(c) \/ HandlerStep(c)
       \/ c # Reader /\ Insert(c)
    /\ UNCHANGED clientVars

\* Redis executes the SUBSCRIBE of the reader's room on its node.
Subscribed ==
    /\ Reader \in Accepted /\ since = NotYet
    /\ since' = Len(published)
    /\ UNCHANGED <<vars, received, pages, atStart, asked>>

\* The channel hands the reader a message published since then.
HandOver ==
    /\ UNCHANGED <<vars, since, pages, atStart, asked>>
    /\ \E n \in since + 1 .. Len(published) : Channel!HandOver(Reader, n)

\* GET /chat/{room_id}/messages needs a connection of the same pool.
FirstPage(limit) ==
    /\ ~PoolFull
    /\ UNCHANGED <<vars, since, received>>
    /\ History!FirstPage(limit)
    /\ asked' = Len(published)

NextPage(limit) ==
    /\ ~PoolFull
    /\ UNCHANGED <<vars, since, received, asked>>
    /\ History!NextPage(limit)

SystemNext ==
    \/ \E c \in Conns : Handle(c)
    \/ Subscribed \/ HandOver
    \/ \E limit \in 1 .. MaxLimit : FirstPage(limit) \/ NextPage(limit)

SystemSpec == SystemInit /\ [][SystemNext]_<<vars, clientVars>>

-----------------------------------------------------------------------------

\* Of what the channel carries nothing falls between the history and the
\* socket of a client that asks for its first page once it is subscribed:
\* what was published before the SUBSCRIBE is on one of its pages, as soon as
\* it has read that far up, whatever is stored and published while it reads.
\* (One that asks when it is accepted may miss what comes in between.)
SeamCovered ==
    pages # <<>> /\ since <= asked =>
        \A i \in 1 .. Len(published) :
            i <= since /\ History!Reached(published[i])
                => published[i] \in History!Shown

\* The senders' handlers and the reader are an instance of MessageHistory:
\* rows appear one by one, in any order of their ids, and never go away, so
\* what is shown of its pages holds of the pages of this system.
ImplementsHistory == History!Spec
=============================================================================
