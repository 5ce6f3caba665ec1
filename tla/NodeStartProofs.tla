-------------------------- MODULE NodeStartProofs --------------------------
(***************************************************************************)
(* What NodeStart guarantees of any number of nodes and starts.            *)
(*                                                                         *)
(* alembic's own table is the first thing an upgrade creates and the first *)
(* thing another upgrade waits for: it is the lock under which one node at *)
(* a time creates the rest (OneUpgrades).  What that node has created is   *)
(* what it is done with (Upgrading), so that it commits all or nothing.    *)
(***************************************************************************)
EXTENDS NodeStart, TLAPS

\* The first k things of Revision.
Prefix(k) == {Revision[i] : i \in 1 .. k}

Typing ==
    /\ pc \in [Nodes -> {"down", "refused", "readHeads", "ensureVersion",
                         "create", "serving"}]
    /\ next \in [Nodes -> 0 .. Len(Revision)]
    /\ made \in [Nodes -> SUBSET Whole]
    /\ starts \in [Nodes -> Nat]

\* What an open transaction has created, and on which database.
Upgrading ==
    \A n \in Nodes :
        /\ made[n] # {} => /\ pc[n] = "create" /\ schema = {}
                           /\ next[n] > 0 /\ made[n] = Prefix(next[n])
        /\ pc[n] = "create" /\ made[n] = {} =>
              next[n] = 0 \/ (next[n] = 1 /\ schema = Whole)

OneUpgrades == \A n, m \in Nodes : made[n] # {} /\ made[m] # {} => n = m

NInv == Typing /\ Upgrading /\ OneUpgrades /\ SchemaWhole /\ StartedOnWhole

-----------------------------------------------------------------------------

LEMMA RevisionIs ==
    /\ Len(Revision) = 6
    /\ Revision[1] = "alembic_version"
    /\ \A i \in 1 .. 6 : Revision[i] \in Whole
    /\ Whole = Prefix(6)
    /\ Prefix(0) = {}
    /\ "head" \in Whole /\ "alembic_version" \in Whole
    /\ \A i, j \in 1 .. 6 : Revision[i] = Revision[j] => i = j
  <1>1. Len(Revision) = 6 /\ Revision[1] = "alembic_version"
        /\ Revision[6] = "head"
    BY DEF Revision
  <1>2. Whole = Prefix(6)
    BY <1>1 DEF Whole, Prefix
  <1>3. \A i \in 1 .. 6 : Revision[i] \in Whole
    BY <1>1 DEF Whole
  <1>4. Prefix(0) = {}
    BY DEF Prefix
  <1>5. \A i, j \in 1 .. 6 : Revision[i] = Revision[j] => i = j
    BY DEF Revision
  <1>6. QED
    BY <1>1, <1>2, <1>3, <1>4, <1>5

\* Creating the next thing of Revision.
LEMMA PrefixGrows ==
    ASSUME NEW k \in 0 .. 5
    PROVE  /\ Prefix(k) \cup {Revision[k + 1]} = Prefix(k + 1)
           /\ Revision[1] \in Prefix(k + 1)
  BY DEF Prefix

LEMMA NInvInit == ASSUME Init PROVE NInv
  <1>1. 0 \in 0 .. Len(Revision)
    BY RevisionIs
  <1>2. QED
    BY <1>1
    DEF Init, NInv, Typing, Upgrading, OneUpgrades, SchemaWhole, StartedOnWhole

\* A node that goes somewhere else and has nothing open any more.
LEMMA NodeEnds ==
    ASSUME NInv, NEW n \in Nodes,
           NEW where \in {"down", "refused", "serving"},
           End(n, where), UNCHANGED <<next, schema, starts>>,
           where # "down" => schema = Whole
    PROVE  NInv'
  <1>1. Typing'
    BY DEF NInv, Typing, End, Goto
  <1>2. Upgrading' /\ OneUpgrades'
    BY DEF NInv, Typing, Upgrading, OneUpgrades, End, Goto
  <1>3. SchemaWhole' /\ StartedOnWhole'
    BY DEF NInv, Typing, SchemaWhole, StartedOnWhole, End, Goto
  <1>4. QED
    BY <1>1, <1>2, <1>3 DEF NInv

LEMMA StartStep == ASSUME NInv, NEW n \in Nodes, Start(n) PROVE NInv'
  <1>1. /\ made[n] = {}
        /\ pc' = [pc EXCEPT ![n] = "readHeads"]
        /\ next' = [next EXCEPT ![n] = 0]
        /\ starts' = [starts EXCEPT ![n] = @ + 1]
        /\ UNCHANGED <<made, schema>>
    BY DEF NInv, Upgrading, Start, Goto
  <1>2. Typing'
    BY <1>1, RevisionIs DEF NInv, Typing
  <1>3. Upgrading' /\ OneUpgrades'
    BY <1>1 DEF NInv, Typing, Upgrading, OneUpgrades
  <1>4. SchemaWhole' /\ StartedOnWhole'
    BY <1>1 DEF NInv, Typing, SchemaWhole, StartedOnWhole
  <1>5. QED
    BY <1>2, <1>3, <1>4 DEF NInv

LEMMA ReadHeadsStep == ASSUME NInv, NEW n \in Nodes, ReadHeads(n) PROVE NInv'
  <1> DEFINE where == IF "head" \in schema THEN "serving" ELSE "ensureVersion"
  <1>1. /\ pc[n] = "readHeads" /\ made[n] = {}
        /\ pc' = [pc EXCEPT ![n] = where]
        /\ UNCHANGED <<next, made, schema, starts>>
    BY DEF NInv, Upgrading, ReadHeads, Goto
  <1>2. /\ where \in {"serving", "ensureVersion"}
        /\ where = "serving" => schema = Whole
    BY DEF NInv, SchemaWhole
  <1> HIDE DEF where
  <1>3. Typing'
    BY <1>1, <1>2 DEF NInv, Typing
  <1>4. Upgrading' /\ OneUpgrades'
    BY <1>1, <1>2 DEF NInv, Typing, Upgrading, OneUpgrades
  <1>5. SchemaWhole' /\ StartedOnWhole'
    BY <1>1, <1>2 DEF NInv, Typing, SchemaWhole, StartedOnWhole
  <1>6. QED
    BY <1>3, <1>4, <1>5 DEF NInv

LEMMA EnsureVersionStep ==
    ASSUME NInv, NEW n \in Nodes, EnsureVersion(n) PROVE NInv'
  <1> DEFINE k == IF "alembic_version" \in schema THEN 1 ELSE 0
  <1>1. /\ pc[n] = "ensureVersion" /\ made[n] = {}
        /\ pc' = [pc EXCEPT ![n] = "create"]
        /\ next' = [next EXCEPT ![n] = k]
        /\ UNCHANGED <<made, schema, starts>>
    BY DEF NInv, Upgrading, EnsureVersion, Goto
  <1>2. /\ k \in 0 .. Len(Revision)
        /\ k = 0 \/ (k = 1 /\ schema = Whole)
    BY RevisionIs DEF NInv, SchemaWhole
  <1> HIDE DEF k
  <1>3. Typing'
    BY <1>1, <1>2 DEF NInv, Typing
  <1>4. Upgrading' /\ OneUpgrades'
    BY <1>1, <1>2 DEF NInv, Typing, Upgrading, OneUpgrades
  <1>5. SchemaWhole' /\ StartedOnWhole'
    BY <1>1 DEF NInv, Typing, SchemaWhole, StartedOnWhole
  <1>6. QED
    BY <1>3, <1>4, <1>5 DEF NInv

LEMMA CreateStep == ASSUME NInv, NEW n \in Nodes, Create(n) PROVE NInv'
  <1> DEFINE it == Revision[next[n] + 1]
  <1>1. /\ pc[n] = "create" /\ next[n] \in 0 .. 5
        /\ \A m \in Nodes \ {n} : it \notin made[m]
        /\ UNCHANGED <<schema, starts>>
    BY RevisionIs DEF Create, NInv, Typing
  <1>2. CASE it \in schema /\ End(n, "refused") /\ UNCHANGED next
    <2>1. schema = Whole
      BY <1>2 DEF NInv, SchemaWhole
    <2>2. QED
      BY <1>1, <1>2, <2>1, NodeEnds
  <1>3. CASE /\ it \notin schema
             /\ made' = [made EXCEPT ![n] = @ \cup {it}]
             /\ next' = [next EXCEPT ![n] = @ + 1]
             /\ UNCHANGED pc
    <2>1. it \in Whole
      BY <1>1, RevisionIs
    <2>2. schema = {}
      BY <1>3, <2>1 DEF NInv, SchemaWhole
    <2>3. schema # Whole
      BY <2>1, <2>2
    <2>4. made[n] = Prefix(next[n])
      BY <1>1, <2>3, RevisionIs DEF NInv, Upgrading
    <2>5. made'[n] = Prefix(next[n] + 1) /\ Revision[1] \in made'[n]
      BY <1>1, <1>3, <2>4, PrefixGrows DEF NInv, Typing
    <2>6. \A m \in Nodes \ {n} : made[m] = {}
      <3>1. SUFFICES ASSUME NEW m \in Nodes \ {n}, made[m] # {} PROVE FALSE
        OBVIOUS
      <3>2. next[m] \in 1 .. 6 /\ made[m] = Prefix(next[m])
        BY <3>1, RevisionIs DEF NInv, Upgrading, Typing
      <3>3. Revision[1] \in made[m]
        BY <3>2 DEF Prefix
      <3>4. made[n] = {}
        BY <3>1 DEF NInv, OneUpgrades
      <3>5. next[n] = 0
        BY <1>1, <2>3, <3>4 DEF NInv, Upgrading
      <3>6. QED
        BY <1>1, <3>3, <3>5
    <2> HIDE DEF it
    <2>7. Typing'
      BY <1>1, <1>3, <2>1, RevisionIs DEF NInv, Typing
    <2>8. Upgrading'
      <3>1. next'[n] = next[n] + 1 /\ next'[n] > 0 /\ pc'[n] = "create"
        BY <1>1, <1>3 DEF NInv, Typing
      <3>2. made'[n] = Prefix(next'[n]) /\ made'[n] # {} /\ schema' = {}
        BY <1>1, <2>2, <2>5, <3>1
      <3>3. \A m \in Nodes \ {n} : /\ made'[m] = {} /\ pc'[m] = pc[m]
                                   /\ next'[m] = next[m] /\ made[m] = {}
        BY <1>3, <2>6 DEF NInv, Typing
      <3>4. QED
        BY <1>1, <3>1, <3>2, <3>3 DEF NInv, Upgrading
    <2>9. OneUpgrades'
      BY <1>3, <2>6 DEF NInv, Typing, OneUpgrades
    <2>10. SchemaWhole' /\ StartedOnWhole'
      BY <1>1, <1>3 DEF NInv, SchemaWhole, StartedOnWhole
    <2>11. QED
      BY <2>7, <2>8, <2>9, <2>10 DEF NInv
  <1>4. QED
    BY <1>2, <1>3 DEF Create

\* What is committed is the whole, because it is all of it or was there.
LEMMA CommitStep == ASSUME NInv, NEW n \in Nodes, Commit(n) PROVE NInv'
  <1>1. /\ pc[n] = "create" /\ next[n] = 6
        /\ schema' = schema \cup made[n]
        /\ End(n, "serving") /\ UNCHANGED <<next, starts>>
    BY RevisionIs DEF Commit
  <1>2. made[n] = Whole /\ schema = {} /\ made[n] # {}
    BY <1>1, RevisionIs DEF NInv, Upgrading
  <1>3. schema' = Whole
    BY <1>1, <1>2
  <1>4. \A m \in Nodes \ {n} : made[m] = {}
    BY <1>2 DEF NInv, OneUpgrades
  <1>5. Typing'
    BY <1>1 DEF NInv, Typing, End, Goto
  <1>6. \A m \in Nodes : made'[m] = {}
    BY <1>1, <1>4 DEF NInv, Typing, End
  <1>7. Upgrading'
    <2>1. \A m \in Nodes : pc'[m] = "create" => next'[m] = 0
      BY <1>1, <1>2, <1>4, RevisionIs
      DEF NInv, Typing, Upgrading, End, Goto
    <2>2. QED
      BY <1>6, <2>1 DEF Upgrading
  <1>8. OneUpgrades' /\ SchemaWhole' /\ StartedOnWhole'
    BY <1>3, <1>6 DEF OneUpgrades, SchemaWhole, StartedOnWhole
  <1>9. QED
    BY <1>5, <1>7, <1>8 DEF NInv

LEMMA NInvNext == ASSUME NInv, [Next]_vars PROVE NInv'
  <1>1. CASE UNCHANGED vars
    BY <1>1 DEF vars, NInv, Typing, Upgrading, OneUpgrades, SchemaWhole,
                StartedOnWhole
  <1>2. ASSUME NEW n \in Nodes, Stop(n) PROVE NInv'
    BY <1>2, NodeEnds DEF Stop
  <1>3. QED
    BY <1>1, <1>2, StartStep, ReadHeadsStep, EnsureVersionStep, CreateStep,
       CommitStep DEF Next, Upgrade

\* One node at a time upgrades, and commits all of the revision.
THEOREM StartInvariance == Spec => []NInv
  <1>1. Init => NInv
    BY NInvInit
  <1>2. NInv /\ [Next]_vars => NInv'
    BY NInvNext
  <1>3. QED
    BY <1>1, <1>2, PTL DEF Spec

\* The committed schema is none or the whole of it.
THEOREM SchemaIsWhole == Spec => []SchemaWhole
  BY StartInvariance, PTL DEF NInv

\* No node serves, and none is refused, but on the whole schema.
THEOREM StartsOnWhole == Spec => []StartedOnWhole
  BY StartInvariance, PTL DEF NInv

\* The nodes whose open transaction has created what n is to create next.
WaitsFor(n) ==
    {m \in Nodes \ {n} : /\ pc[n] = "create" /\ next[n] < Len(Revision)
                         /\ Revision[next[n] + 1] \in made[m]}

\* Nodes that upgrade at the same time wait for one of them, which waits for
\* nobody: it has what it creates to itself.
THEOREM UpgraderNeverWaits ==
    Spec => [](\A n, m \in Nodes : m \in WaitsFor(n) => WaitsFor(m) = {})
  <1>1. NInv => \A n, m \in Nodes : m \in WaitsFor(n) => WaitsFor(m) = {}
    <2>1. SUFFICES ASSUME NInv, NEW n \in Nodes, NEW m \in WaitsFor(n),
                          NEW k \in WaitsFor(m)
                   PROVE  FALSE
      OBVIOUS
    <2>2. made[m] # {} /\ made[k] # {} /\ k # m /\ m \in Nodes /\ k \in Nodes
      BY DEF WaitsFor
    <2>3. QED
      BY <2>1, <2>2 DEF NInv, OneUpgrades
  <1>2. QED
    BY <1>1, StartInvariance, PTL
=============================================================================
