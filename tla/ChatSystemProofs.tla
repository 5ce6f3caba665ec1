-------------------------- MODULE ChatSystemProofs --------------------------
(***************************************************************************)
(* What ChatSystem guarantees of any number of senders and messages, and   *)
(* of pages of any limits.  The senders' handlers keep their invariant     *)
(* (CInv of ChatSessionProofs), whoever reads; the reader's pages and its  *)
(* subscription are tied to it by Seam; and every step is one of           *)
(* MessageHistory and one of RoomChannel, so that what is proved of those  *)
(* holds of this system.                                                   *)
(***************************************************************************)
EXTENDS ChatSystem, ChatSessionProofs, SequenceTheorems

Stored == {m.id : m \in table}

systemVars == <<vars, clientVars>>

\* What was published when the reader asked for its first page is stored, so
\* it is in the history that page begins.
Seam ==
    /\ since \in Nat /\ asked \in Nat
    /\ pages # <<>> =>
          /\ asked <= Len(published)
          /\ \A i \in 1 .. asked : published[i] \in atStart

SysInv == CInv /\ Seam

LEMMA HandleIsNext ==
    ASSUME NEW c \in Conns, Handle(c)
    PROVE  Next /\ UNCHANGED clientVars
  BY DEF Handle, Next

\* Nothing but the handlers writes what is theirs.
LEMMA SessionStep == ASSUME [SystemNext]_systemVars PROVE [Next]_vars
  BY HandleIsNext DEF SystemNext, Subscribed, HandOver, FirstPage, NextPage,
                      systemVars

\* Messages are published at the end, by their ids.
LEMMA PublishedGrows ==
    ASSUME CInv, [Next]_vars
    PROVE  /\ Len(published) \in Nat /\ Len(published') \in Nat
           /\ Len(published) <= Len(published')
           /\ \A i \in 1 .. Len(published) : published'[i] = published[i]
  <1>1. published \in Seq(Nat) /\ \A c \in Conns : row[c].id \in Nat
    BY DEF CInv, TypeOK, Message
  <1>2. \/ published' = published
        \/ \E c \in Conns : published' = Append(published, row[c].id)
    BY DEF Next, HandlerStep, Connect, Insert, Leave, Admit, Refuse, Commit,
           CommitFails, Refresh, RefreshFails, Publish, PublishFails, Tick,
           End, vars
  <1>3. QED
    BY <1>1, <1>2

LEMMA SeamKept ==
    ASSUME SysInv, [SystemNext]_systemVars
    PROVE  Seam'
  <1>1. /\ Len(published) \in Nat /\ Len(published') \in Nat
        /\ Len(published) <= Len(published')
        /\ \A i \in 1 .. Len(published) : published'[i] = published[i]
    BY SessionStep, PublishedGrows DEF SysInv
  <1>2. CASE UNCHANGED <<pages, atStart, asked>>
    <2>1. since' \in Nat
      BY <1>1, HandleIsNext
         DEF SysInv, Seam, SystemNext, Subscribed, HandOver, FirstPage,
             NextPage, systemVars, clientVars
    <2>2. ASSUME pages # <<>>
          PROVE  /\ asked <= Len(published')
                 /\ \A i \in 1 .. asked : published'[i] \in atStart
      BY <1>1, <2>2 DEF SysInv, Seam
    <2>3. QED
      BY <1>2, <2>1, <2>2 DEF SysInv, Seam
  <1>3. ASSUME NEW limit \in 1 .. MaxLimit, FirstPage(limit) PROVE Seam'
    <2>1. /\ UNCHANGED <<since, published>> /\ asked' = Len(published)
          /\ atStart' = Stored
      BY <1>3 DEF FirstPage, History!FirstPage, vars, Stored
    <2>2. \A i \in 1 .. Len(published) : published[i] \in Stored
      BY DEF SysInv, CInv, PublishedStored, Stored
    <2>3. QED
      BY <1>1, <2>1, <2>2 DEF SysInv, Seam
  <1>4. ASSUME NEW limit \in 1 .. MaxLimit, NextPage(limit) PROVE Seam'
    <2>1. /\ UNCHANGED <<since, published, asked, atStart>> /\ pages # <<>>
      BY <1>4 DEF NextPage, History!NextPage, vars
    <2>2. QED
      BY <1>1, <2>1 DEF SysInv, Seam
  <1>5. QED
    BY <1>2, <1>3, <1>4, HandleIsNext
       DEF SystemNext, Subscribed, HandOver, systemVars, clientVars

LEMMA SysInvInit == ASSUME SystemInit PROVE SysInv
  BY CInvInit, SessionAssumption DEF SystemInit, SysInv, Seam, NotYet

\* Whoever reads a room, its senders' sessions and messages stay related as
\* they are without a reader, and what was published before the reader asked
\* for its first page is in the history it starts from.
THEOREM SystemInvariance == SystemSpec => []SysInv
  <1>1. ASSUME SysInv, [SystemNext]_systemVars PROVE SysInv'
    BY <1>1, SessionStep, CInvNext, SeamKept DEF SysInv
  <1>2. QED
    BY <1>1, SysInvInit, PTL DEF SystemSpec, systemVars

-----------------------------------------------------------------------------
(* The system is an instance of MessageHistory.                            *)

LEMMA StoreIsHistory ==
    ASSUME SysInv, [Next]_vars, UNCHANGED <<pages, atStart>>
    PROVE  [History!Next]_(History!vars)
  <1>1. CASE UNCHANGED <<nextId, table>>
    BY <1>1 DEF History!vars
  <1>2. ASSUME NEW c \in Conns, Insert(c) PROVE History!Next
    <2>1. /\ nextId <= MaxSent /\ nextId' = nextId + 1
          /\ UNCHANGED table
      BY <1>2 DEF Insert
    <2>2. QED
      BY <2>1 DEF History!Next, History!Insert
  <1>3. ASSUME NEW c \in Conns, Commit(c) \/ CommitFails(c), table' # table
        PROVE  History!Next
    <2>1. /\ pc[c] = "committing" /\ table' = table \cup {row[c]}
          /\ UNCHANGED nextId
      BY <1>3 DEF Commit, CommitFails
    <2>2. /\ row[c].id \in Nat /\ nextId \in Nat
          /\ row[c].id > 0 /\ row[c].id < nextId
          /\ \A m \in table : m.id # row[c].id
      BY <2>1 DEF SysInv, CInv, TypeOK, Message, Store
    <2>3. row[c].id \in (1 .. nextId - 1) \ Stored
      BY <2>2 DEF Stored
    <2>4. {m.id : m \in table'} = Stored \cup {row[c].id}
      BY <2>1 DEF Stored
    <2>5. History!Commit
      BY <2>1, <2>3, <2>4 DEF History!Commit, Stored
    <2>6. QED
      BY <2>5 DEF History!Next
  <1>4. QED
    BY <1>1, <1>2, <1>3
       DEF Next, HandlerStep, Connect, Leave, Admit, Refuse, Commit,
           CommitFails, Refresh, RefreshFails, Publish, PublishFails, Tick,
           End, vars

LEMMA SystemIsHistory ==
    ASSUME SysInv, [SystemNext]_systemVars
    PROVE  [History!Next]_(History!vars)
  <1>1. ASSUME NEW limit \in 1 .. MaxLimit,
               FirstPage(limit) \/ NextPage(limit)
        PROVE  History!Next
    BY <1>1 DEF FirstPage, NextPage, History!Next, History!Read
  <1>2. CASE UNCHANGED <<pages, atStart>>
    BY <1>2, SessionStep, StoreIsHistory
  <1>3. CASE (\E c \in Conns : Handle(c)) \/ Subscribed \/ HandOver
    <2>1. UNCHANGED <<pages, atStart>>
      BY <1>3, HandleIsNext DEF Subscribed, HandOver, clientVars
    <2>2. QED
      BY <1>2, <2>1
  <1>4. CASE UNCHANGED systemVars
    <2>1. UNCHANGED <<pages, atStart>>
      BY <1>4 DEF systemVars, clientVars
    <2>2. QED
      BY <1>2, <2>1
  <1>5. QED
    BY <1>1, <1>3, <1>4 DEF SystemNext

\* The senders' inserts and commits are those MessageHistory reads among:
\* ids are taken in order and become visible in any order, and stay.
THEOREM SystemImplementsHistory == SystemSpec => ImplementsHistory
  <1>1. ASSUME SystemInit PROVE History!Init
    <2>1. /\ nextId = 1 /\ table = {} /\ pages = <<>> /\ atStart = {}
      BY <1>1 DEF SystemInit, Init
    <2>2. {m.id : m \in table} = {}
      BY <2>1
    <2>3. QED
      BY <2>1, <2>2 DEF History!Init
  <1>2. QED
    BY <1>1, SystemIsHistory, SystemInvariance, PTL
       DEF SystemSpec, systemVars, ImplementsHistory, History!Spec

-----------------------------------------------------------------------------
(* What is proved of MessageHistory is true of this system.                *)

Proved == INSTANCE MessageHistoryProofs
            WITH MaxId <- MaxSent, table <- {m.id : m \in table}

LEMMA SamePage ==
    ASSUME NEW ids, NEW limit, NEW before
    PROVE  History!PageOf(ids, limit, before) = Proved!PageOf(ids, limit, before)
  BY DEF History!PageOf, History!Fetch, History!NewestFirst, History!Newer,
         History!Older, History!NoCursor, History!Cardinality, History!Min,
         History!Reverse,
         Proved!PageOf, Proved!Fetch, Proved!NewestFirst, Proved!Newer,
         Proved!Older, Proved!NoCursor, Proved!Cardinality, Proved!Min,
         Proved!Reverse

LEMMA SameHistory == History!Spec => Proved!Spec
  <1>1. History!Init => Proved!Init
    BY DEF History!Init, Proved!Init
  <1>2. History!Insert => Proved!Insert
    BY DEF History!Insert, Proved!Insert
  <1>3. History!Commit => Proved!Commit
    BY DEF History!Commit, Proved!Commit
  <1>4. ASSUME NEW limit, History!FirstPage(limit) PROVE Proved!FirstPage(limit)
    BY <1>4, SamePage DEF History!FirstPage, Proved!FirstPage,
                          History!NoCursor, Proved!NoCursor
  <1>5. ASSUME NEW limit, History!NextPage(limit) PROVE Proved!NextPage(limit)
    BY <1>5, SamePage DEF History!NextPage, Proved!NextPage,
                          History!Last, Proved!Last
  <1>6. History!Next => Proved!Next
    BY <1>2, <1>3, <1>4, <1>5
       DEF History!Next, Proved!Next, History!Read, Proved!Read
  <1>7. UNCHANGED History!vars => UNCHANGED Proved!vars
    BY DEF History!vars, Proved!vars
  <1>8. QED
    BY <1>1, <1>6, <1>7, PTL DEF History!Spec, Proved!Spec

LEMMA HistoryConstants == Proved!HistoryAssumption
  BY SessionAssumption, SystemAssumption DEF Proved!HistoryAssumption

\* The pages of the reader join, and skip nothing that was stored when it
\* asked for the first.
THEOREM ReaderHistory ==
    SystemSpec => [](History!PagesAreOneList /\ History!NothingSkipped)
  <1>1. Proved!Spec => []Proved!PagesAreOneList /\ []Proved!NothingSkipped
    BY Proved!PagesJoin, Proved!PagesAreComplete, HistoryConstants, PTL
  <1>2. Proved!PagesAreOneList => History!PagesAreOneList
    BY DEF History!PagesAreOneList, Proved!PagesAreOneList
  <1>3. Proved!NothingSkipped => History!NothingSkipped
    BY DEF History!NothingSkipped, Proved!NothingSkipped, History!Reached,
           Proved!Reached, History!Shown, Proved!Shown, History!Last,
           Proved!Last, History!ToSet, Proved!ToSet
  <1>4. QED
    BY <1>1, <1>2, <1>3, SameHistory, SystemImplementsHistory, PTL
       DEF ImplementsHistory

\* A reader that was subscribed when it asked for its first page misses
\* nothing of what was published before, once it has read that far up: that
\* was stored when it was published (Seam), so the pages do not skip it.
THEOREM SeamIsCovered == SystemSpec => []SeamCovered
  <1>1. ASSUME Seam, Len(published) \in Nat, History!NothingSkipped
        PROVE  SeamCovered
    <2>1. SUFFICES ASSUME pages # <<>>, since <= asked,
                          NEW i \in 1 .. Len(published), i <= since,
                          History!Reached(published[i])
                   PROVE  published[i] \in History!Shown
      BY DEF SeamCovered
    <2>2. published[i] \in atStart
      BY <1>1, <2>1 DEF Seam
    <2>3. QED
      BY <1>1, <2>1, <2>2 DEF History!NothingSkipped
  <1>2. SysInv => Seam /\ Len(published) \in Nat
    BY DEF SysInv, CInv, TypeOK
  <1>3. QED
    BY <1>1, <1>2, ReaderHistory, SystemInvariance, PTL

-----------------------------------------------------------------------------
(* The system is an instance of RoomChannel, which RoomFanout implements.  *)

ImplementsChannel == Channel!Spec

LEMMA SystemIsChannel ==
    ASSUME SysInv, [SystemNext]_systemVars
    PROVE  [Channel!Next]_(Channel!vars)
  <1> DEFINE Log(p) == [i \in 1 .. Len(p) |-> "room"]
  <1>1. /\ published \in Seq(Nat) /\ pc \in [Conns -> PCs]
        /\ \A c \in Conns : row[c].id \in Nat
    BY DEF SysInv, CInv, TypeOK, Message
  <1>2. Len(Log(published)) = Len(published)
    BY <1>1, LenProperties
  <1>3. CASE UNCHANGED <<published, pc, received>>
    BY <1>3 DEF Channel!vars, Accepted
  <1>4. ASSUME NEW c \in Conns, Publish(c), UNCHANGED received
        PROVE  Channel!Next
    <2>1. /\ pc[c] = "publishing" /\ pc' = [pc EXCEPT ![c] = "receiving"]
          /\ published' = Append(published, row[c].id)
      BY <1>4 DEF Publish, Goto
    <2>2. Log(published') = Append(Log(published), "room")
      BY <1>1, <1>2, <2>1
    <2>3. Accepted' = Accepted
      BY <1>1, <2>1 DEF Accepted, PCs
    <2>4. Channel!Publish("room")
      BY <1>4, <2>2, <2>3 DEF Channel!Publish
    <2>5. QED
      BY <2>4 DEF Channel!Next
  <1>5. ASSUME NEW c \in Conns, UNCHANGED <<published, received>>,
               NEW where \in PCs, Goto(c, where)
        PROVE  [Channel!Next]_(Channel!vars)
    <2>1. Accepted' \in {Accepted, Accepted \cup {c}, Accepted \ {c}}
      BY <1>1, <1>5 DEF Accepted, Goto
    <2>2. UNCHANGED Log(published)
      BY <1>5
    <2>3. Accepted' # Accepted => Channel!Open(c) \/ Channel!Close(c)
      BY <1>5, <2>1, <2>2 DEF Channel!Open, Channel!Close
    <2>4. QED
      BY <1>5, <2>2, <2>3 DEF Channel!Next, Channel!vars
  <1>6. ASSUME HandOver PROVE Channel!Next
    <2>1. PICK n \in since + 1 .. Len(published) : Channel!HandOver(Reader, n)
      BY <1>6 DEF HandOver
    <2>2. n \in 1 .. Len(Log(published))
      BY <1>1, <1>2, <2>1 DEF SysInv, Seam
    <2>3. QED
      BY <2>1, <2>2, SystemAssumption DEF Channel!Next
  <1>7. ASSUME NEW c \in Conns, Handle(c)
        PROVE  [Channel!Next]_(Channel!vars)
    <2>1. UNCHANGED received
      BY <1>7 DEF Handle, clientVars
    <2>2. \/ Publish(c)
          \/ UNCHANGED published /\ \E where \in PCs : Goto(c, where)
      BY <1>7 DEF Handle, HandlerStep, Connect, Leave, Insert, Admit, Refuse,
                  Commit, CommitFails, Refresh, RefreshFails, PublishFails,
                  End, PCs
    <2>3. QED
      BY <1>4, <1>5, <2>1, <2>2
  <1>8. QED
    BY <1>3, <1>6, <1>7
       DEF SystemNext, Subscribed, FirstPage, NextPage, systemVars, vars,
           clientVars

\* Senders that publish when they have stored, sockets that open and close,
\* and what the reader's is given are what RoomChannel promises, so that the
\* live half of this system is what RoomFanout implements.
THEOREM SystemImplementsChannel == SystemSpec => ImplementsChannel
  <1>1. ASSUME SystemInit PROVE Channel!Init
    <2>1. published = <<>> /\ Accepted = {} /\ received = [c \in Conns |-> <<>>]
      BY <1>1 DEF SystemInit, Init, Accepted
    <2>2. [i \in 1 .. Len(published) |-> "room"] = <<>>
      BY <2>1
    <2>3. QED
      BY <2>1, <2>2 DEF Channel!Init
  <1>2. QED
    BY <1>1, SystemIsChannel, SystemInvariance, PTL
       DEF SystemSpec, systemVars, ImplementsChannel, Channel!Spec
=============================================================================
