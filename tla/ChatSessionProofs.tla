------------------------- MODULE ChatSessionProofs -------------------------
(***************************************************************************)
(* What ChatSession guarantees of any number of connections, any pool and  *)
(* any number of messages.                                                 *)
(*                                                                         *)
(* A handler works on one message at a time.  The invariant says, of each  *)
(* handler, how far it is with it (Sender): not stored yet, stored and not *)
(* published, or none in hand, and that all its earlier messages are on    *)
(* the channel.  Ids that are taken but not stored are nobody else's       *)
(* (Store); connections of the pool are out for the handlers that can give *)
(* them back (Pool).                                                       *)
(***************************************************************************)
EXTENDS ChatSession, FiniteSetTheorems, TLAPS

Holders == {c \in Conns : holding[c]}

Pool == PoolAccounted /\ IsFiniteSet(Holders)

\* Ids come from the sequence; what is inserted and not committed has an id
\* that is neither stored nor inserted elsewhere.
Store ==
    /\ nextId > 0
    /\ \A m \in table : 0 < m.id /\ m.id < nextId
    /\ \A c \in Conns : row[c].by = c /\ row[c].id < nextId
    /\ \A m, n \in table : m.id = n.id => m = n
    /\ \A c \in Conns : pc[c] = "committing" =>
          /\ row[c].id > 0
          /\ \A m \in table : m.id # row[c].id
          /\ \A d \in Conns :
                pc[d] = "committing" /\ row[d].id = row[c].id => d = c

\* What a handler has stored was dated before, and is published but for what
\* it has in hand, which is its latest.
Sender(c) ==
    /\ txStart[c] <= clock
    /\ \A m \in Owed(c) : m.at <= txStart[c]
    /\ pc[c] \in {"absent", "authenticating"} => Owed(c) = {}
    /\ pc[c] \in {"receiving", "committing"} =>
          \A m \in Owed(c) : IsPublished(m)
    /\ pc[c] = "committing" =>
          /\ row[c].at = txStart[c]
          /\ \A m \in Owed(c) : m.id < row[c].id
    /\ pc[c] \in {"refreshing", "publishing"} =>
          /\ row[c] \in table /\ ~IsPublished(row[c])
          /\ \A m \in Owed(c) \ {row[c]} : IsPublished(m) /\ m.id < row[c].id

CInv ==
    /\ TypeOK /\ Pool /\ Store
    /\ \A c \in Conns : Sender(c)
    /\ PublishedStored /\ SenderOrder

-----------------------------------------------------------------------------

LEMMA CInvImplies == CInv => NoSilentLoss /\ PoolAccounted
  BY DEF CInv, Pool, Sender, NoSilentLoss

LEMMA CInvInit == ASSUME Init PROVE CInv
  <1>1. TypeOK
    BY DEF Init, TypeOK, Message, PCs
  <1>2. Holders = {}
    BY DEF Init, Holders
  <1>3. Pool
    <2>1. IsFiniteSet(Holders) /\ Cardinality(Holders) = 0
      BY <1>2, FS_EmptySet
    <2>2. Cardinality(Holders) <= PoolMax
      BY <2>1, SessionAssumption
    <2>3. \A c \in Conns : holding[c] <=>
              pc[c] \in {"receiving", "committing", "publishing"}
      BY DEF Init
    <2>4. QED
      BY <2>1, <2>2, <2>3 DEF Pool, PoolAccounted, Holders
  <1>4. Store
    BY DEF Init, Store
  <1>5. \A c \in Conns : Sender(c)
    BY DEF Init, Sender, Owed
  <1>6. PublishedStored /\ SenderOrder
    BY DEF Init, PublishedStored, SenderOrder
  <1>7. QED
    BY <1>1, <1>3, <1>4, <1>5, <1>6 DEF CInv

-----------------------------------------------------------------------------
(* The pool.                                                               *)

\* A step that takes no connection and returns at most that of c.
LEMMA PoolReturns ==
    ASSUME NEW c \in Conns, TypeOK, Pool, holding' \in [Conns -> BOOLEAN],
           \A d \in Conns \ {c} : holding'[d] = holding[d] /\ pc'[d] = pc[d],
           holding'[c] => holding[c],
           holding'[c] <=> pc'[c] \in {"receiving", "committing", "publishing"}
    PROVE  Pool'
  <1>1. Holders' \in SUBSET Holders
    BY DEF Holders
  <1>2. IsFiniteSet(Holders') /\ Cardinality(Holders') <= Cardinality(Holders)
    BY <1>1, FS_Subset DEF Pool
  <1>3. Cardinality(Holders) \in Nat /\ Cardinality(Holders') \in Nat
    BY <1>2, FS_CardinalityType DEF Pool
  <1>4. Cardinality(Holders) <= PoolMax
    BY DEF Pool, PoolAccounted, Holders
  <1>5. Cardinality(Holders') <= PoolMax
    BY <1>2, <1>3, <1>4, SessionAssumption
  <1>6. \A d \in Conns : holding'[d] <=>
            pc'[d] \in {"receiving", "committing", "publishing"}
    BY DEF Pool, PoolAccounted
  <1>7. QED
    BY <1>2, <1>5, <1>6 DEF Pool, PoolAccounted, Holders

\* A statement that found a connection free.
LEMMA PoolTakes ==
    ASSUME NEW c \in Conns, TypeOK, Pool, Begin(c),
           NEW where \in {"receiving", "publishing"}, Goto(c, where)
    PROVE  Pool'
  <1>1. Holders' = Holders \cup {c}
    BY DEF TypeOK, Begin, Holders
  <1>2. /\ IsFiniteSet(Holders') /\ Cardinality(Holders) \in Nat
        /\ Cardinality(Holders') \in {Cardinality(Holders),
                                      Cardinality(Holders) + 1}
    BY <1>1, FS_AddElement, FS_CardinalityType DEF Pool
  <1>3. ~(Cardinality(Holders) >= PoolMax)
    BY DEF Begin, PoolFull, Holders
  <1>4. Cardinality(Holders') <= PoolMax
    BY <1>2, <1>3, SessionAssumption
  <1>5. \A d \in Conns : holding'[d] <=>
            pc'[d] \in {"receiving", "committing", "publishing"}
    BY DEF TypeOK, Begin, Goto, Pool, PoolAccounted
  <1>6. QED
    BY <1>2, <1>4, <1>5 DEF Pool, PoolAccounted, Holders

-----------------------------------------------------------------------------
(* The messages.                                                           *)

\* What a step that neither inserts, stores nor publishes does to handler c.
Rests(c) ==
    /\ UNCHANGED <<row, nextId, table, published>>
    /\ \A d \in Conns \ {c} : pc'[d] = pc[d] /\ txStart'[d] = txStart[d]
    /\ clock' \in Nat /\ clock <= clock'
    /\ pc'[c] = "committing" => pc[c] = "committing"

LEMMA RestKept ==
    ASSUME NEW c \in Conns, CInv, Rests(c), TypeOK', Pool', Sender(c)'
    PROVE  CInv'
  <1>1. Store' /\ PublishedStored' /\ SenderOrder'
    BY DEF CInv, Rests, Store, PublishedStored, SenderOrder
  <1>2. ASSUME NEW d \in Conns, d # c PROVE Sender(d)'
    <2>1. /\ Sender(d) /\ txStart[d] \in Nat /\ clock \in Nat
          /\ clock' \in Nat /\ clock <= clock'
          /\ pc'[d] = pc[d] /\ txStart'[d] = txStart[d]
          /\ UNCHANGED <<row, table, published>>
      BY <1>2 DEF CInv, TypeOK, Rests
    <2>2. txStart'[d] <= clock'
      BY <2>1 DEF Sender
    <2>3. QED
      BY <2>1, <2>2 DEF Sender, Owed, IsPublished
  <1>3. QED
    BY <1>1, <1>2 DEF CInv

-----------------------------------------------------------------------------
(* One lemma per action.                                                   *)

LEMMA KeptConnect ==
    ASSUME NEW c \in Conns, CInv, Connect(c) PROVE CInv'
  <1>1. TypeOK'
    BY DEF CInv, TypeOK, Connect, Goto, PCs
  <1>2. pc'[c] = "authenticating" /\ \A d \in Conns \ {c} : pc'[d] = pc[d]
    BY DEF CInv, TypeOK, Connect, Goto
  <1>3. Pool'
    BY <1>1, <1>2, PoolReturns
       DEF CInv, TypeOK, Pool, PoolAccounted, Connect
  <1>4. Sender(c)'
    BY <1>2 DEF CInv, Connect, Sender, Owed
  <1>5. Rests(c)
    BY <1>2 DEF CInv, TypeOK, Connect, Rests
  <1>6. QED
    BY <1>1, <1>3, <1>4, <1>5, RestKept

\* The handler returns or raises, wherever it is.
LEMMA KeptEnd ==
    ASSUME NEW c \in Conns, CInv, End(c) PROVE CInv'
  <1>1. TypeOK'
    BY DEF CInv, TypeOK, End, Goto, PCs
  <1>2. /\ pc'[c] = "ended" /\ holding'[c] = FALSE
        /\ \A d \in Conns \ {c} : pc'[d] = pc[d] /\ holding'[d] = holding[d]
    BY DEF CInv, TypeOK, End, Goto
  <1>3. Pool'
    BY <1>1, <1>2, PoolReturns DEF CInv, TypeOK
  <1>4. Sender(c)'
    BY <1>2 DEF CInv, End, Sender, Owed
  <1>5. Rests(c)
    BY <1>2 DEF CInv, TypeOK, End, Rests
  <1>6. QED
    BY <1>1, <1>3, <1>4, <1>5, RestKept

\* The clock of a new transaction is no earlier than that of the last.
LEMMA KeptBegin ==
    ASSUME NEW c \in Conns, CInv, Admit(c) \/ Refresh(c) PROVE CInv'
  <1>1. /\ Begin(c) /\ UNCHANGED <<row, clock, nextId, table, published>>
        /\ \/ pc[c] = "authenticating" /\ Goto(c, "receiving")
           \/ pc[c] = "refreshing" /\ Goto(c, "publishing")
    BY DEF Admit, Refresh
  <1>2. TypeOK'
    BY <1>1 DEF CInv, TypeOK, Begin, Goto, PCs
  <1>3. /\ txStart'[c] = clock
        /\ \/ pc[c] = "authenticating" /\ pc'[c] = "receiving"
           \/ pc[c] = "refreshing" /\ pc'[c] = "publishing"
        /\ \A d \in Conns \ {c} : pc'[d] = pc[d] /\ txStart'[d] = txStart[d]
    BY <1>1 DEF CInv, TypeOK, Begin, Goto
  <1>4. Pool'
    BY <1>1, PoolTakes DEF CInv
  <1>5. Sender(c)'
    <2>1. \A m \in Owed(c) : m.at \in Nat /\ m.at <= txStart[c]
      BY DEF CInv, TypeOK, Message, Owed, Sender
    <2>2. txStart[c] \in Nat /\ clock \in Nat /\ txStart[c] <= clock
      BY DEF CInv, TypeOK, Sender
    <2>3. \A m \in Owed(c) : m.at <= clock
      BY <2>1, <2>2
    <2>4. Owed(c)' = Owed(c)
      BY <1>1 DEF Owed
    <2>5. QED
      BY <1>1, <1>3, <2>2, <2>3, <2>4 DEF CInv, Sender, IsPublished
  <1>6. Rests(c)
    BY <1>1, <1>3 DEF CInv, TypeOK, Rests
  <1>7. QED
    BY <1>2, <1>4, <1>5, <1>6, RestKept

\* A failed publish, a failed refresh and a refusal all end the handler.
LEMMA KeptFailures ==
    ASSUME NEW c \in Conns, CInv,
           Refuse(c) \/ Leave(c) \/ RefreshFails(c) \/ PublishFails(c)
    PROVE  CInv'
  BY KeptEnd DEF Refuse, Leave, RefreshFails, PublishFails

LEMMA KeptTick == ASSUME CInv, Tick PROVE CInv'
  <1>0. Store /\ PublishedStored /\ SenderOrder
    BY DEF CInv
  <1>1. TypeOK' /\ clock' = clock + 1
    BY DEF CInv, TypeOK, Tick
  <1>2. Pool'
    BY DEF CInv, Pool, PoolAccounted, Holders, Tick
  <1>3. UNCHANGED <<pc, txStart, row, nextId, table, published>>
    BY DEF Tick
  <1>4. Store'
    BY <1>0, <1>3 DEF Store
  <1>5. PublishedStored'
    BY <1>0, <1>3 DEF PublishedStored
  <1>6. SenderOrder'
    BY <1>0, <1>3 DEF SenderOrder
  <1>7. ASSUME NEW d \in Conns PROVE Sender(d)'
    <2>1. Sender(d) /\ txStart[d] \in Nat /\ clock \in Nat
      BY DEF CInv, TypeOK
    <2>2. txStart'[d] <= clock'
      BY <1>1, <1>3, <2>1 DEF Sender
    <2>3. QED
      BY <1>3, <2>1, <2>2 DEF Sender, Owed, IsPublished
  <1>8. QED
    BY <1>1, <1>2, <1>4, <1>5, <1>6, <1>7 DEF CInv

\* The id is fresh, later than every other; nothing is stored yet.
LEMMA KeptInsert ==
    ASSUME NEW c \in Conns, CInv, Insert(c) PROVE CInv'
  <1> DEFINE new == [id |-> nextId, by |-> c, at |-> txStart[c]]
  <1>1. /\ pc[c] = "receiving" /\ row' = [row EXCEPT ![c] = new]
        /\ nextId' = nextId + 1 /\ Goto(c, "committing")
        /\ UNCHANGED <<holding, txStart, clock, table, published>>
    BY DEF Insert
  <1>2. new \in Message /\ new.id = nextId /\ new.by = c /\ new.at = txStart[c]
    BY DEF CInv, TypeOK, Message
  <1> HIDE DEF new
  <1>3. TypeOK'
    BY <1>1, <1>2 DEF CInv, TypeOK, Goto, PCs
  <1>4. /\ pc'[c] = "committing" /\ row'[c] = new
        /\ \A d \in Conns \ {c} : pc'[d] = pc[d] /\ row'[d] = row[d]
    BY <1>1 DEF CInv, TypeOK, Goto
  <1>5. Pool'
    BY <1>1, <1>3, <1>4, PoolReturns DEF CInv, TypeOK, Pool, PoolAccounted
  <1>6. /\ \A m \in table : m.id \in Nat /\ 0 < m.id /\ m.id < nextId
        /\ \A d \in Conns : row[d].id \in Nat /\ row[d].id < nextId
        /\ nextId \in Nat /\ nextId > 0
    BY DEF CInv, TypeOK, Message, Store
  <1>7. Store'
    <2>1. nextId' > 0 /\ \A m \in table' : 0 < m.id /\ m.id < nextId'
      BY <1>1, <1>6
    <2>2. \A d \in Conns : row'[d].by = d /\ row'[d].id < nextId'
      BY <1>1, <1>2, <1>4, <1>6 DEF CInv, Store
    <2>3. ASSUME NEW d \in Conns, pc'[d] = "committing"
          PROVE  /\ row'[d].id > 0
                 /\ \A m \in table : m.id # row'[d].id
                 /\ \A e \in Conns : pc'[e] = "committing"
                                    /\ row'[e].id = row'[d].id => e = d
      BY <1>2, <1>4, <1>6, <2>3 DEF CInv, Store
    <2>4. QED
      BY <1>1, <2>1, <2>2, <2>3 DEF CInv, Store
  <1>8. PublishedStored' /\ SenderOrder'
    BY <1>1 DEF CInv, PublishedStored, SenderOrder
  <1>9. Sender(c)'
    BY <1>1, <1>2, <1>4, <1>6 DEF CInv, Sender, Owed, IsPublished
  <1>10. ASSUME NEW d \in Conns, d # c PROVE Sender(d)'
    <2>1. /\ pc'[d] = pc[d] /\ row'[d] = row[d]
          /\ UNCHANGED <<txStart, clock, table, published>>
      BY <1>1, <1>4, <1>10
    <2>2. Sender(d)
      BY DEF CInv
    <2>3. QED
      BY <2>1, <2>2 DEF Sender, Owed, IsPublished
  <1>11. QED
    BY <1>3, <1>5, <1>7, <1>8, <1>9, <1>10 DEF CInv

\* A commit that the server executed, whether c is told so or not.
Stores(c, where) ==
    /\ pc[c] = "committing" /\ table' = table \cup {row[c]}
    /\ holding' = [holding EXCEPT ![c] = FALSE] /\ Goto(c, where)
    /\ UNCHANGED <<txStart, row, clock, nextId, published>>

\* What is stored is the sender's latest, and its date is no earlier.
LEMMA KeptStore ==
    ASSUME NEW c \in Conns, CInv,
           NEW where \in {"refreshing", "ended"}, Stores(c, where)
    PROVE  CInv'
  <1>1. /\ pc[c] = "committing" /\ table' = table \cup {row[c]}
        /\ holding' = [holding EXCEPT ![c] = FALSE] /\ Goto(c, where)
        /\ UNCHANGED <<txStart, row, clock, nextId, published>>
    BY DEF Stores
  <1>2. TypeOK'
    BY <1>1 DEF CInv, TypeOK, Goto, PCs
  <1>3. /\ pc'[c] \in {"refreshing", "ended"} /\ holding'[c] = FALSE
        /\ \A d \in Conns \ {c} : pc'[d] = pc[d] /\ holding'[d] = holding[d]
    BY <1>1 DEF CInv, TypeOK, Goto
  <1>4. Pool'
    BY <1>2, <1>3, PoolReturns DEF CInv, TypeOK
  <1>5. /\ row[c].by = c /\ row[c].id < nextId /\ row[c].at = txStart[c]
        /\ row[c].id > 0 /\ \A m \in table : m.id # row[c].id
        /\ \A d \in Conns : pc[d] = "committing" /\ row[d].id = row[c].id
                              => d = c
        /\ \A m \in Owed(c) : /\ m.id < row[c].id /\ m.at <= row[c].at
                              /\ IsPublished(m)
        /\ txStart[c] <= clock
    BY <1>1 DEF CInv, Store, Sender
  <1>6. /\ row[c].id \in Nat /\ row[c].at \in Nat
        /\ \A m \in table : m.id \in Nat /\ m.at \in Nat
    BY DEF CInv, TypeOK, Message
  <1>7. Store'
    <2>1. nextId' > 0 /\ \A m \in table' : 0 < m.id /\ m.id < nextId'
      BY <1>1, <1>5 DEF CInv, Store
    <2>2. \A m, n \in table' : m.id = n.id => m = n
      BY <1>1, <1>5 DEF CInv, Store
    <2>3. ASSUME NEW d \in Conns, pc'[d] = "committing"
          PROVE  /\ row[d].id > 0
                 /\ \A m \in table' : m.id # row[d].id
                 /\ \A e \in Conns : pc'[e] = "committing"
                                    /\ row[e].id = row[d].id => e = d
      BY <1>1, <1>3, <1>5, <2>3 DEF CInv, Store
    <2>4. QED
      BY <1>1, <2>1, <2>2, <2>3 DEF CInv, Store
  <1>8. PublishedStored'
    BY <1>1 DEF CInv, PublishedStored
  <1>9. SenderOrder'
    <2>1. \A i \in 1 .. Len(published) : published[i] # row[c].id
      BY <1>5 DEF CInv, PublishedStored
    <2>2. ASSUME NEW i \in 1 .. Len(published), NEW j \in 1 .. Len(published),
                 NEW m \in table', NEW n \in table', i < j, m.by = n.by,
                 published[i] = m.id, published[j] = n.id
          PROVE  m.id < n.id
      BY <1>1, <2>1, <2>2 DEF CInv, SenderOrder
    <2>3. ASSUME NEW m \in table', NEW n \in table', m.by = n.by, m.id < n.id
          PROVE  m.at <= n.at
      <3>1. CASE m \in table /\ n \in table
        BY <2>3, <3>1 DEF CInv, SenderOrder
      <3>2. CASE n = row[c] /\ m \in table
        BY <1>5, <2>3, <3>2 DEF Owed
      <3>3. CASE m = row[c] /\ n \in table
        <4>1. n \in Owed(c) /\ n.id < m.id
          BY <1>5, <2>3, <3>3 DEF Owed
        <4>2. QED
          BY <1>6, <2>3, <3>3, <4>1
      <3>4. CASE m = row[c] /\ n = row[c]
        BY <1>6, <3>4
      <3>5. QED
        BY <1>1, <3>1, <3>2, <3>3, <3>4
    <2>4. QED
      BY <1>1, <2>2, <2>3 DEF SenderOrder
  <1>10. Sender(c)'
    <2>1. Owed(c)' = Owed(c) \cup {row[c]}
      BY <1>1, <1>5 DEF Owed
    <2>2. ~IsPublished(row[c])
      BY <1>5 DEF CInv, PublishedStored, IsPublished
    <2>3. \A m \in Owed(c)' : m.at <= txStart[c]
      BY <1>5, <1>6, <2>1
    <2>4. QED
      BY <1>1, <1>3, <1>5, <2>1, <2>2, <2>3 DEF Sender, IsPublished
  <1>11. ASSUME NEW d \in Conns, d # c PROVE Sender(d)'
    <2>1. Owed(d)' = Owed(d)
      BY <1>1, <1>5, <1>11 DEF Owed
    <2>2. /\ pc'[d] = pc[d] /\ (row[d] \in table => row[d] \in table')
          /\ UNCHANGED <<row, txStart, clock, published>>
      BY <1>1, <1>3, <1>11
    <2>3. Sender(d)
      BY DEF CInv
    <2>4. /\ \A m : IsPublished(m) => IsPublished(m)'
          /\ ~IsPublished(row[d]) => ~IsPublished(row[d])'
      BY <2>2 DEF IsPublished
    <2>5. QED
      BY <2>1, <2>2, <2>3, <2>4 DEF Sender
  <1>12. QED
    BY <1>2, <1>4, <1>7, <1>8, <1>9, <1>10, <1>11 DEF CInv

\* The commit, or one that raises: nothing is stored, or nothing but the
\* server's answer was lost.
LEMMA KeptCommit ==
    ASSUME NEW c \in Conns, CInv, Commit(c) \/ CommitFails(c) PROVE CInv'
  <1>1. \/ Stores(c, "refreshing") \/ Stores(c, "ended")
        \/ End(c)
    BY DEF Commit, CommitFails, Stores, End
  <1>2. QED
    BY <1>1, KeptStore, KeptEnd

\* What is published is stored, was not published, and is its sender's latest.
LEMMA KeptPublish ==
    ASSUME NEW c \in Conns, CInv, Publish(c) PROVE CInv'
  <1>1. /\ pc[c] = "publishing" /\ published' = Append(published, row[c].id)
        /\ Goto(c, "receiving")
        /\ UNCHANGED <<holding, txStart, row, clock, nextId, table>>
    BY DEF Publish
  <1>2. /\ Len(published) \in Nat /\ Len(published') = Len(published) + 1
        /\ \A i \in 1 .. Len(published) : published'[i] = published[i]
        /\ published'[Len(published) + 1] = row[c].id
        /\ published' \in Seq(Nat)
    <2>1. row[c].id \in Nat /\ published \in Seq(Nat)
      BY DEF CInv, TypeOK, Message
    <2>2. QED
      BY <1>1, <2>1
  <1>3. TypeOK'
    BY <1>1, <1>2 DEF CInv, TypeOK, Goto, PCs
  <1>4. /\ pc'[c] = "receiving" /\ \A d \in Conns \ {c} : pc'[d] = pc[d]
    BY <1>1 DEF CInv, TypeOK, Goto
  <1>5. Pool'
    BY <1>1, <1>3, <1>4, PoolReturns DEF CInv, TypeOK, Pool, PoolAccounted
  <1>6. /\ row[c] \in table /\ row[c].by = c
        /\ \A i \in 1 .. Len(published) : published[i] # row[c].id
        /\ \A m \in Owed(c) \ {row[c]} : IsPublished(m) /\ m.id < row[c].id
    BY <1>1 DEF CInv, Store, Sender, IsPublished
  <1>7. \A m : IsPublished(m) => \E i \in 1 .. Len(published') :
                                    published'[i] = m.id
    BY <1>2 DEF IsPublished
  <1>8. Store'
    BY <1>1, <1>4 DEF CInv, Store
  <1>9. PublishedStored'
    BY <1>1, <1>2, <1>6 DEF CInv, PublishedStored
  <1>10. SenderOrder'
    <2>1. ASSUME NEW i \in 1 .. Len(published'), NEW j \in 1 .. Len(published'),
                 NEW m \in table, NEW n \in table, i < j, m.by = n.by,
                 published'[i] = m.id, published'[j] = n.id
          PROVE  m.id < n.id
      <3>1. i \in 1 .. Len(published) /\ published[i] = m.id
        BY <1>2, <2>1
      <3>2. CASE j \in 1 .. Len(published)
        BY <1>2, <2>1, <3>1, <3>2 DEF CInv, SenderOrder
      <3>3. CASE j = Len(published) + 1
        <4>1. n = row[c]
          BY <1>2, <1>6, <2>1, <3>3 DEF CInv, Store
        <4>2. m \in Owed(c) \ {row[c]}
          BY <1>6, <2>1, <3>1, <4>1 DEF Owed
        <4>3. QED
          BY <1>6, <4>1, <4>2
      <3>4. QED
        BY <1>2, <3>2, <3>3
    <2>2. QED
      BY <1>1, <2>1 DEF CInv, SenderOrder
  <1>11. Sender(c)'
    <2>1. \A m \in Owed(c) : \E i \in 1 .. Len(published') :
                                 published'[i] = m.id
      <3>1. ASSUME NEW m \in Owed(c), m = row[c]
            PROVE  \E i \in 1 .. Len(published') : published'[i] = m.id
        BY <1>2, <3>1
      <3>2. QED
        BY <1>6, <1>7, <3>1
    <2>2. Owed(c)' = Owed(c)
      BY <1>1 DEF Owed
    <2>3. QED
      BY <1>1, <1>4, <2>1, <2>2 DEF CInv, Sender, IsPublished
  <1>12. ASSUME NEW d \in Conns, d # c PROVE Sender(d)'
    <2>1. /\ pc'[d] = pc[d] /\ Sender(d) /\ Owed(d)' = Owed(d)
          /\ UNCHANGED <<row, txStart, clock, table>>
      BY <1>1, <1>4, <1>12 DEF CInv, Owed
    <2>2. ASSUME pc[d] \in {"refreshing", "publishing"}
          PROVE  \A i \in 1 .. Len(published') : published'[i] # row[d].id
      <3>1. row[d] \in table /\ ~IsPublished(row[d]) /\ row[d].by = d
        BY <2>1, <2>2 DEF CInv, Store, Sender
      <3>2. row[d].id # row[c].id
        BY <1>6, <1>12, <3>1 DEF CInv, Store
      <3>3. QED
        BY <1>2, <3>1, <3>2 DEF IsPublished
    <2>3. \A m : IsPublished(m) => IsPublished(m)'
      BY <1>7 DEF IsPublished
    <2>4. pc[d] \in {"refreshing", "publishing"} => ~IsPublished(row[d])'
      BY <2>1, <2>2 DEF IsPublished
    <2>5. QED
      BY <2>1, <2>3, <2>4 DEF Sender
  <1>13. QED
    BY <1>3, <1>5, <1>8, <1>9, <1>10, <1>11, <1>12 DEF CInv

-----------------------------------------------------------------------------

LEMMA CInvStutter == ASSUME CInv, UNCHANGED vars PROVE CInv'
  <1>1. /\ UNCHANGED <<pc, holding, txStart, row>>
        /\ UNCHANGED <<clock, nextId, table, published>>
    BY DEF vars
  <1>2. TypeOK' /\ Pool' /\ Store'
    BY <1>1 DEF CInv, TypeOK, Pool, PoolAccounted, Holders, Store
  <1>3. \A d \in Conns : Sender(d)'
    BY <1>1 DEF CInv, Sender, Owed, IsPublished
  <1>4. PublishedStored' /\ SenderOrder'
    BY <1>1 DEF CInv, PublishedStored, SenderOrder
  <1>5. QED
    BY <1>2, <1>3, <1>4 DEF CInv

LEMMA CInvNext == ASSUME CInv, [Next]_vars PROVE CInv'
  BY CInvStutter, KeptConnect, KeptInsert, KeptBegin, KeptCommit, KeptPublish,
     KeptFailures, KeptTick DEF Next, HandlerStep

\* Handlers of _handle_ws, their sessions and messages stay related as CInv
\* says, over any interleaving of frames, commits, publishes and failures.
THEOREM SessionInvariance == Spec => []CInv
  BY CInvInit, CInvNext, PTL DEF Spec

\* Rows have an id, a sender and a date, and handlers are at a statement of
\* _handle_ws or send_message.
THEOREM SessionTyping == Spec => []TypeOK
  <1>1. CInv => TypeOK
    BY DEF CInv
  <1>2. QED
    BY <1>1, SessionInvariance, PTL

\* What send_message publishes is committed, and is published once.
THEOREM StoredBeforePublished == Spec => []PublishedStored
  <1>1. CInv => PublishedStored
    BY DEF CInv
  <1>2. QED
    BY <1>1, SessionInvariance, PTL

\* A client in the frame loop has had all its stored messages published:
\* when storing and publishing come apart it loses its connection.
THEOREM LossIsNoticed == Spec => []NoSilentLoss
  BY CInvImplies, SessionInvariance, PTL

\* One sender's messages are published in the order of their ids, with dates
\* that do not run backwards.
THEOREM SendersOrdered == Spec => []SenderOrder
  <1>1. CInv => SenderOrder
    BY DEF CInv
  <1>2. QED
    BY <1>1, SessionInvariance, PTL

\* No handler leaks its session's connection, and the pool is never exceeded.
THEOREM PoolIsAccounted == Spec => []PoolAccounted
  BY CInvImplies, SessionInvariance, PTL
=============================================================================
