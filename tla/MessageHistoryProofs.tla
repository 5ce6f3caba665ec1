------------------------ MODULE MessageHistoryProofs ------------------------
(***************************************************************************)
(* What MessageHistory guarantees of any number of messages, committed in  *)
(* any order, and pages of any limits.                                     *)
(*                                                                         *)
(* First what a page is (PageOfIs): counting how many messages are newer   *)
(* is a bijection from a finite set of messages to 1 .. its cardinality,   *)
(* so the sorted rows exist and are sorted, without an induction.  Then    *)
(* what a list of pages is (HInv), of which each step only needs that.     *)
(***************************************************************************)
EXTENDS MessageHistory, FiniteSetTheorems, SequenceTheorems, TLAPS

(* Sorting.                                                                *)

Table(ids) == ids \in SUBSET (Nat \ {0}) /\ IsFiniteSet(ids)

LEMMA NewerType ==
    ASSUME NEW ids, Table(ids), NEW m \in ids
    PROVE  Newer(ids, m) \in 0 .. Cardinality(ids) - 1
  <1>1. /\ IsFiniteSet(ids \ {m}) /\ Cardinality(ids \ {m}) = Cardinality(ids) - 1
    BY FS_RemoveElement DEF Table
  <1>2. {k \in ids : k > m} \in SUBSET (ids \ {m})
    BY DEF Table
  <1>3. /\ IsFiniteSet({k \in ids : k > m})
        /\ Cardinality({k \in ids : k > m}) <= Cardinality(ids \ {m})
    BY <1>1, <1>2, FS_Subset
  <1>4. Cardinality({k \in ids : k > m}) \in Nat /\ Cardinality(ids) \in Nat
    BY <1>3, FS_CardinalityType DEF Table
  <1>5. QED
    BY <1>1, <1>3, <1>4 DEF Newer

\* The older of two has more that are newer.
LEMMA NewerDescends ==
    ASSUME NEW ids, Table(ids), NEW m \in ids, NEW n \in ids, m < n
    PROVE  Newer(ids, n) < Newer(ids, m)
  <1> DEFINE above(x) == {k \in ids : k > x}
  <1>1. n \notin above(n) /\ above(n) \cup {n} \in SUBSET above(m)
    <2>1. ids \subseteq Nat
      BY DEF Table
    <2>2. n \in above(m) /\ n \notin above(n)
      BY <2>1
    <2>3. \A k \in above(n) : k \in above(m)
      BY <2>1
    <2>4. QED
      BY <2>2, <2>3
  <1>2. IsFiniteSet(above(n)) /\ IsFiniteSet(above(m))
    <2>1. \A x : above(x) \in SUBSET ids
      OBVIOUS
    <2>2. QED
      BY <2>1, FS_Subset DEF Table
  <1>3. Cardinality(above(n) \cup {n}) = Cardinality(above(n)) + 1
    BY <1>1, <1>2, FS_AddElement
  <1>4. Cardinality(above(n) \cup {n}) <= Cardinality(above(m))
    BY <1>1, <1>2, FS_Subset
  <1>5. Cardinality(above(n)) \in Nat /\ Cardinality(above(m)) \in Nat
    BY <1>2, FS_CardinalityType
  <1>6. QED
    BY <1>3, <1>4, <1>5 DEF Newer

\* Every place of the sorted rows is taken.
LEMMA NewerOnto ==
    ASSUME NEW ids, Table(ids), NEW k \in 1 .. Cardinality(ids)
    PROVE  \E m \in ids : Newer(ids, m) = k - 1
  <1> DEFINE place == [m \in ids |-> Newer(ids, m) + 1]
             N == Cardinality(ids)
  <1>1. N \in Nat /\ IsFiniteSet(ids)
    BY FS_CardinalityType DEF Table
  <1>2. place \in [ids -> 1 .. N]
    BY <1>1, NewerType
  <1>3. \A m, n \in ids : m # n => place[m] # place[n]
    <2>1. SUFFICES ASSUME NEW m \in ids, NEW n \in ids, m # n
                   PROVE  Newer(ids, m) # Newer(ids, n)
      BY <1>1, NewerType
    <2>2. m \in Nat /\ n \in Nat
      BY DEF Table
    <2>3. /\ Newer(ids, m) \in Nat /\ Newer(ids, n) \in Nat
      BY <1>1, NewerType
    <2>4. m < n \/ n < m
      BY <2>1, <2>2
    <2>5. QED
      BY <2>3, <2>4, NewerDescends
  <1>4. place \in Injection(ids, 1 .. N)
    BY <1>2, <1>3 DEF Injection, IsInjective
  <1>5. IsFiniteSet(1 .. N) /\ Cardinality(1 .. N) = N
    BY <1>1, FS_Interval
  <1>6. place \in Surjection(ids, 1 .. N)
    BY <1>4, <1>5, FS_Injection
  <1>7. PICK m \in ids : place[m] = k
    BY <1>6 DEF Surjection
  <1>8. QED
    BY <1>1, <1>7, NewerType

\* The rows in the order of the query: all of them, the newest first.
LEMMA Sorted ==
    ASSUME NEW ids, Table(ids), NEW rows, rows = NewestFirst(ids)
    PROVE  /\ rows \in Seq(ids) /\ Len(rows) = Cardinality(ids)
           /\ Cardinality(ids) \in Nat
           /\ \A k \in 1 .. Len(rows) : Newer(ids, rows[k]) = k - 1
           /\ \A m \in ids : \E k \in 1 .. Len(rows) : rows[k] = m
           /\ \A k, l \in 1 .. Len(rows) : k < l => rows[k] > rows[l]
  <1> DEFINE N == Cardinality(ids)
  <1>1. N \in Nat
    BY FS_CardinalityType DEF Table
  <1>2. \A k \in 1 .. N : rows[k] \in ids /\ Newer(ids, rows[k]) = k - 1
    BY NewerOnto DEF NewestFirst
  <1>3. rows \in Seq(ids) /\ Len(rows) = N
    <2>1. rows = [k \in 1 .. N |-> rows[k]]
      BY DEF NewestFirst
    <2>2. QED
      BY <1>1, <1>2, <2>1, IsASeq, LenProperties
  <1>4. \A k, l \in 1 .. N : k < l => rows[k] > rows[l]
    <2>1. SUFFICES ASSUME NEW k \in 1 .. N, NEW l \in 1 .. N, k < l
                   PROVE  rows[k] > rows[l]
      OBVIOUS
    <2>2. /\ rows[k] \in ids /\ Newer(ids, rows[k]) = k - 1
          /\ rows[l] \in ids /\ Newer(ids, rows[l]) = l - 1
      BY <1>2
    <2>3. k \in Nat /\ l \in Nat /\ k - 1 < l - 1
      BY <1>1, <2>1
    <2>4. rows[k] \in Nat /\ rows[l] \in Nat
      BY <2>2 DEF Table
    <2>5. ~(rows[k] < rows[l])
      BY <2>2, <2>3, NewerDescends
    <2>6. rows[k] # rows[l]
      BY <2>2, <2>3
    <2>7. QED
      BY <2>4, <2>5, <2>6
  <1>5. ASSUME NEW m \in ids PROVE \E k \in 1 .. N : rows[k] = m
    <2>1. /\ Newer(ids, m) + 1 \in 1 .. N
          /\ Newer(ids, m) \in Nat
      BY <1>1, NewerType
    <2>2. /\ rows[Newer(ids, m) + 1] \in ids
          /\ Newer(ids, rows[Newer(ids, m) + 1]) = Newer(ids, m)
      BY <1>2, <2>1
    <2>3. \A n \in ids : Newer(ids, n) = Newer(ids, m) => n = m
      <3>1. SUFFICES ASSUME NEW n \in ids, n # m
                     PROVE  Newer(ids, n) # Newer(ids, m)
        OBVIOUS
      <3>2. m < n \/ n < m
        BY <3>1 DEF Table
      <3>3. Newer(ids, n) \in Nat
        BY <1>1, NewerType
      <3>4. QED
        BY <2>1, <3>2, <3>3, NewerDescends
    <2>4. rows[Newer(ids, m) + 1] = m
      BY <2>2, <2>3
    <2>5. QED
      BY <2>1, <2>4
  <1>6. QED
    BY <1>1, <1>2, <1>3, <1>4, <1>5

LEMMA MinOf ==
    ASSUME NEW a \in Nat, NEW b \in Nat
    PROVE  Min({a, b}) = IF a <= b THEN a ELSE b
  BY DEF Min

(* A page.                                                                 *)

\* What a page of ids that is cut at limit is.
IsPage(page, ids, limit) ==
    /\ page \in [items : Seq(ids), nextCursor : ids \cup {NoCursor},
                 hasMore : BOOLEAN]
    /\ \A k, l \in 1 .. Len(page.items) :
          k < l => page.items[k] < page.items[l]
    /\ \A m \in ToSet(page.items), k \in ids \ ToSet(page.items) : k < m
    /\ Cardinality(ToSet(page.items)) = Min({limit, Cardinality(ids)})
    /\ page.hasMore <=> ToSet(page.items) # ids
    /\ page.hasMore => /\ Len(page.items) > 0
                       /\ page.nextCursor = page.items[1]

\* The rows of the query are cut after the limit and reversed.
LEMMA PageOfIs ==
    ASSUME NEW all, Table(all), NEW limit \in Nat \ {0}, NEW before \in Nat
    PROVE  IsPage(PageOf(all, limit, before), Older(all, before), limit)
  <1> DEFINE ids == Older(all, before)
             N == Cardinality(ids)
             rows == NewestFirst(ids)
             fetched == SubSeq(rows, 1, Min({limit + 1, Len(rows)}))
             more == Len(fetched) > limit
             kept == IF more THEN SubSeq(fetched, 1, limit) ELSE fetched
             P == IF limit <= N THEN limit ELSE N
             items == Reverse(kept)
             page == PageOf(all, limit, before)
  <1>1. Table(ids)
    <2>1. ids \in SUBSET all
      BY DEF Older
    <2>2. QED
      BY <2>1, FS_Subset DEF Table
  <1>2. page = [items |-> items, hasMore |-> more,
                nextCursor |-> IF more THEN kept[Len(kept)] ELSE NoCursor]
    BY DEF PageOf, Fetch
  <1>3. /\ rows \in Seq(ids) /\ Len(rows) = N /\ N \in Nat
        /\ \A m \in ids : \E k \in 1 .. N : rows[k] = m
        /\ \A k, l \in 1 .. N : k < l => rows[k] > rows[l]
        /\ \A k \in 1 .. N : rows[k] \in ids /\ rows[k] \in Nat
    <2>1. \A m \in ids : m \in Nat
      BY <1>1 DEF Table
    <2> HIDE DEF ids
    <2> HIDE DEF rows
    <2>2. rows = NewestFirst(ids)
      BY DEF rows
    <2>3. /\ rows \in Seq(ids) /\ Len(rows) = Cardinality(ids)
          /\ Cardinality(ids) \in Nat
          /\ \A m \in ids : \E k \in 1 .. Len(rows) : rows[k] = m
          /\ \A k, l \in 1 .. Len(rows) : k < l => rows[k] > rows[l]
      BY ONLY <1>1, <2>2, Sorted
    <2>4. \A k \in 1 .. Len(rows) : rows[k] \in ids
      BY ONLY <2>3, ElementOfSeq
    <2>5. N = Len(rows)
      BY ONLY <2>3
    <2> HIDE DEF N
    <2>6. QED
      BY <2>1, <2>3, <2>4, <2>5
  <1> HIDE DEF ids, rows, N, page
  <1>4. /\ fetched \in Seq(ids)
        /\ Len(fetched) = IF limit + 1 <= N THEN limit + 1 ELSE N
        /\ \A k \in 1 .. Len(fetched) : fetched[k] = rows[k]
    BY <1>3, MinOf
  <1>5. more <=> limit < N
    BY <1>3, <1>4
  <1> HIDE DEF fetched
  <1>6. /\ kept \in Seq(ids) /\ Len(kept) = P
        /\ P \in Nat /\ P <= N /\ (limit <= N => P = limit)
        /\ (N < limit => P = N)
        /\ \A k \in 1 .. P : kept[k] = rows[k]
    BY <1>3, <1>4, <1>5
  <1>0. Min({limit, N}) = P
    BY <1>3, MinOf
  <1> HIDE DEF kept, more, P
  <1>7. /\ items \in Seq(ids) /\ Len(items) = P
        /\ \A k \in 1 .. P : items[k] = rows[P - k + 1]
    <2>1. items = [k \in 1 .. P |-> rows[P - k + 1]]
      BY <1>3, <1>6 DEF Reverse
    <2>2. \A k \in 1 .. P : P - k + 1 \in 1 .. N
      BY <1>3, <1>6
    <2>3. \A k \in 1 .. P : rows[P - k + 1] \in ids
      BY <1>3, <2>2
    <2>4. items \in Seq(ids)
      BY ONLY <1>6, <2>1, <2>3, IsASeq
    <2>5. Len(items) = P
      BY ONLY <1>6, <2>1, <2>4, LenProperties
    <2>6. \A k \in 1 .. P : items[k] = rows[P - k + 1]
      BY ONLY <2>1
    <2>7. QED
      BY <2>4, <2>5, <2>6
  <1> HIDE DEF items
  <1>8. ToSet(items) = {rows[k] : k \in 1 .. P}
    <2>1. ToSet(items) = {items[k] : k \in 1 .. P}
      BY <1>7, LenProperties DEF ToSet
    <2>2. \A k \in 1 .. P : /\ P - k + 1 \in 1 .. P
                          /\ items[P - k + 1] = rows[k]
      BY <1>3, <1>6, <1>7
    <2>3. ASSUME NEW k \in 1 .. P PROVE rows[k] \in {items[l] : l \in 1 .. P}
      BY <2>2
    <2>4. ASSUME NEW k \in 1 .. P PROVE items[k] \in {rows[l] : l \in 1 .. P}
      <3>1. P - k + 1 \in 1 .. P /\ items[k] = rows[P - k + 1]
        BY <1>7, <2>2
      <3>2. QED
        BY ONLY <3>1
    <2>5. QED
      BY ONLY <2>1, <2>3, <2>4
  <1>9. \A k, l \in 1 .. P : k < l => items[k] < items[l]
    <2>1. SUFFICES ASSUME NEW k \in 1 .. P, NEW l \in 1 .. P, k < l
                   PROVE  rows[P - k + 1] < rows[P - l + 1]
      BY <1>7
    <2>2. /\ P - l + 1 \in 1 .. N /\ P - k + 1 \in 1 .. N
          /\ P - l + 1 < P - k + 1
      BY <1>3, <1>6, <2>1
    <2>3. QED
      BY <1>3, <2>2
  <1>10. \A k \in 1 .. N : rows[k] \in ToSet(items) <=> k <= P
    <2>1. ASSUME NEW k \in 1 .. N, NEW l \in 1 .. P, rows[k] = rows[l]
          PROVE  k = l
      <3>1. l \in 1 .. N /\ (k < l \/ l < k \/ k = l)
        BY <1>3, <1>6
      <3>2. rows[k] \in Nat /\ rows[l] \in Nat
        BY <1>3, <3>1
      <3>3. ~(rows[k] > rows[l]) /\ ~(rows[l] > rows[k])
        BY ONLY <2>1, <3>2
      <3>4. QED
        BY ONLY <1>3, <3>1, <3>3, k \in 1 .. N
    <2>2. QED
      BY <1>3, <1>6, <1>8, <2>1
  <1>11. \A m \in ToSet(items), k \in ids \ ToSet(items) : k < m
    <2>1. SUFFICES ASSUME NEW m \in ToSet(items), NEW k \in ids \ ToSet(items)
                   PROVE  k < m
      OBVIOUS
    <2>2. PICK i \in 1 .. P : m = rows[i]
      BY <1>8
    <2>3. PICK j \in 1 .. N : k = rows[j]
      BY <1>3
    <2>4. i \in 1 .. N /\ i < j
      BY <1>3, <1>6, <1>10, <2>3
    <2>5. QED
      BY <1>3, <2>2, <2>3, <2>4
  <1>12. Cardinality(ToSet(items)) = P
    <2>1. items \in [1 .. P -> ToSet(items)] /\ P \in Nat
      BY <1>3, <1>6, <1>7 DEF ToSet
    <2>2. IsInjective(items)
      <3>1. SUFFICES ASSUME NEW k \in 1 .. P, NEW l \in 1 .. P, k # l
                     PROVE  items[k] # items[l]
        BY <2>1 DEF IsInjective
      <3>2. k < l \/ l < k
        BY <1>3, <1>6, <3>1
      <3>3. items[k] \in Nat /\ items[l] \in Nat
        <4>1. P - k + 1 \in 1 .. N /\ P - l + 1 \in 1 .. N
          BY <1>3, <1>6
        <4>2. QED
          BY <1>3, <1>7, <4>1
      <3>4. QED
        BY <1>9, <3>2, <3>3
    <2>3. items \in Bijection(1 .. P, ToSet(items))
      BY <2>1, <2>2 DEF Bijection, Injection, Surjection, ToSet
    <2>4. QED
      BY <2>1, <2>3, FS_CountingElements DEF ExistsBijection
  <1>13. more <=> ToSet(items) # ids
    <2>1. ToSet(items) \subseteq ids
      BY <1>3, <1>6, <1>8
    <2>2. CASE limit < N
      <3>1. P + 1 \in 1 .. N /\ ~(P + 1 <= P)
        BY <1>3, <1>6, <2>2
      <3>2. rows[P + 1] \in ids \ ToSet(items)
        BY <1>3, <1>10, <3>1
      <3>3. QED
        BY <1>5, <2>2, <3>2
    <2>3. CASE ~(limit < N)
      <3>1. P = N
        BY <1>3, <1>6, <2>3
      <3>2. ids \subseteq ToSet(items)
        BY <1>3, <1>8, <3>1
      <3>3. QED
        BY <1>5, <2>1, <2>3, <3>2
    <2>4. QED
      BY <2>2, <2>3
  <1>14. more => P > 0 /\ kept[Len(kept)] = items[1]
    BY <1>3, <1>5, <1>6, <1>7
  <1>15. QED
    <2>2. /\ page.items = items /\ page.hasMore = more
          /\ more => page.nextCursor = kept[Len(kept)]
      BY <1>2
    <2>3. page \in [items : Seq(ids), nextCursor : ids \cup {NoCursor},
                    hasMore : BOOLEAN]
      <3>1. more \in BOOLEAN
        BY DEF more
      <3>2. more => kept[Len(kept)] \in ids
        BY <1>3, <1>6, <1>14
      <3>3. QED
        BY <1>2, <1>7, <3>1, <3>2
    <2>4. IsPage(page, ids, limit)
      BY <1>7, <1>9, <1>11, <1>12, <1>13, <1>14, <1>0, <2>2, <2>3
         DEF IsPage, N
    <2>5. QED
      BY <2>4 DEF page, ids

-----------------------------------------------------------------------------
(* The pages of a reader.                                                  *)

PageRecord == [items : Seq(Nat), nextCursor : Nat, hasMore : BOOLEAN]

\* Ids that were taken are positive, and those committed were taken.
TablesOK ==
    /\ nextId \in Nat \ {0}
    /\ table \in SUBSET (1 .. nextId - 1)
    /\ atStart \in SUBSET table
    /\ pages \in Seq(PageRecord)

\* A page goes up from its cursor, if it has one, and its cursor is an id.
PageOK(page) ==
    /\ \A k, l \in 1 .. Len(page.items) :
          k < l => page.items[k] < page.items[l]
    /\ page.hasMore =>
          /\ Len(page.items) > 0 /\ page.nextCursor = page.items[1]
          /\ page.nextCursor > 0

PagesOK ==
    /\ \A i \in 1 .. Len(pages) : PageOK(pages[i])
    /\ \A i, j \in 1 .. Len(pages) : i < j =>
          /\ pages[i].hasMore
          /\ \A k \in 1 .. Len(pages[j].items) :
                pages[j].items[k] < pages[i].nextCursor

HInv == TablesOK /\ PagesOK /\ NothingSkipped

\* The ids of a page go up from its first.
LEMMA PagesAreAscending == ASSUME TablesOK, PagesOK PROVE PagesAreOneList
  <1>1. SUFFICES ASSUME NEW i \in 1 .. Len(pages), NEW j \in 1 .. Len(pages),
                        NEW k \in 1 .. Len(pages[i].items),
                        NEW l \in 1 .. Len(pages[j].items),
                        i > j \/ (i = j /\ k < l)
                 PROVE  pages[i].items[k] < pages[j].items[l]
    BY DEF PagesAreOneList
  <1>2. /\ pages[i] \in PageRecord /\ pages[j] \in PageRecord
        /\ Len(pages) \in Nat
    BY DEF TablesOK
  <1>3. /\ pages[i].items \in Seq(Nat) /\ pages[j].items \in Seq(Nat)
        /\ pages[j].nextCursor \in Nat
    BY <1>2 DEF PageRecord
  <1>4. /\ Len(pages[i].items) \in Nat /\ Len(pages[j].items) \in Nat
        /\ pages[i].items[k] \in Nat /\ pages[j].items[l] \in Nat
    BY <1>3, LenProperties, ElementOfSeq
  <1>5. CASE i = j /\ k < l
    BY <1>5 DEF PagesOK, PageOK
  <1>6. CASE i > j
    <2>1. j < i
      BY <1>2, <1>6
    <2>2. pages[j].hasMore /\ pages[i].items[k] < pages[j].nextCursor
      BY <2>1 DEF PagesOK
    <2>3. pages[j].nextCursor <= pages[j].items[l]
      <3>1. PageOK(pages[j])
        BY DEF PagesOK
      <3>2. pages[j].nextCursor = pages[j].items[1]
        BY ONLY <2>2, <3>1 DEF PageOK
      <3>3. CASE l = 1
        BY ONLY <1>3, <3>2, <3>3
      <3>4. CASE l # 1
        <4>1. 1 \in 1 .. Len(pages[j].items) /\ 1 < l
          BY ONLY l \in 1 .. Len(pages[j].items),
                  Len(pages[j].items) \in Nat, <1>4, <3>4
        <4>2. pages[j].items[1] < pages[j].items[l]
          BY ONLY l \in 1 .. Len(pages[j].items), <3>1, <4>1 DEF PageOK
        <4>3. \A a, b \in Nat : a < b => a <= b
          OBVIOUS
        <4>4. QED
          BY ONLY <1>3, <1>4, <3>2, <4>2, <4>3
      <3>5. QED
        BY <3>3, <3>4
    <2>4. \A a, b, c \in Nat : a < b /\ b <= c => a < c
      OBVIOUS
    <2>5. QED
      BY ONLY <1>3, <1>4, <2>2, <2>3, <2>4
  <1>7. QED
    BY <1>1, <1>5, <1>6

LEMMA HInvInit == ASSUME Init PROVE HInv
  <1>1. /\ nextId = 1 /\ table = {} /\ atStart = {} /\ pages = <<>>
    BY DEF Init
  <1>2. TablesOK /\ NothingSkipped
    BY <1>1 DEF TablesOK, NothingSkipped
  <1>3. PagesOK
    BY <1>1 DEF PagesOK
  <1>4. QED
    BY <1>2, <1>3 DEF HInv

LEMMA TableIsTable == ASSUME TablesOK PROVE Table(table)
  <1>1. IsFiniteSet(1 .. nextId - 1)
    BY FS_Interval DEF TablesOK
  <1>2. IsFiniteSet(table)
    BY <1>1, FS_Subset DEF TablesOK
  <1>3. QED
    BY <1>2 DEF TablesOK, Table

\* What a page of the table adds: everything older than the cursor it was
\* asked with, down to the one it ends with.
LEMMA PageGood ==
    ASSUME TablesOK, NEW limit \in Nat \ {0}, NEW before \in Nat,
           NEW page, page = PageOf(table, limit, before)
    PROVE  /\ page \in PageRecord /\ PageOK(page)
           /\ ToSet(page.items) \subseteq Older(table, before)
           /\ \A m \in Older(table, before) :
                 (page.hasMore => m >= page.nextCursor)
                     => m \in ToSet(page.items)
  <1> DEFINE ids == Older(table, before)
             items == page.items
             given == ToSet(items)
  <1>1. IsPage(page, ids, limit)
    BY TableIsTable, PageOfIs
  <1>2. \A m \in ids : m \in Nat /\ m > 0
    BY DEF TablesOK, Older
  <1> HIDE DEF ids
  <1>3. /\ page \in [items : Seq(ids), nextCursor : ids \cup {NoCursor},
                     hasMore : BOOLEAN]
        /\ items \in Seq(ids)
    BY <1>1 DEF IsPage
  <1>4. page \in PageRecord
    <2>1. Seq(ids) \subseteq Seq(Nat) /\ ids \cup {NoCursor} \subseteq Nat
      BY <1>2 DEF NoCursor
    <2>2. QED
      BY <1>3, <2>1 DEF PageRecord
  <1>5. given \subseteq ids /\ \A k \in 1 .. Len(items) : items[k] \in given
    BY <1>3, LenProperties, ElementOfSeq DEF ToSet
  <1>6. page.hasMore => /\ Len(items) > 0 /\ page.nextCursor = items[1]
                        /\ items[1] \in given
    <2>1. ASSUME Len(items) > 0 PROVE items[1] \in given
      <3>1. 1 \in 1 .. Len(items)
        BY <1>3, <2>1, LenProperties
      <3>2. QED
        BY <1>5, <3>1
    <2>2. QED
      BY <1>1, <2>1 DEF IsPage
  <1>7. PageOK(page)
    <2>1. page.hasMore => page.nextCursor > 0
      BY <1>2, <1>5, <1>6
    <2>2. QED
      BY <1>1, <2>1 DEF PageOK, IsPage
  <1>8. ASSUME NEW m \in ids, page.hasMore => m >= page.nextCursor
        PROVE  m \in given
    <2>1. SUFFICES ASSUME m \notin given PROVE FALSE
      OBVIOUS
    <2>2. page.hasMore
      BY <1>1, <2>1 DEF IsPage
    <2>3. m < items[1]
      BY <1>1, <1>6, <2>1, <2>2 DEF IsPage
    <2>4. m >= items[1] /\ m \in Nat /\ items[1] \in Nat
      BY <1>2, <1>5, <1>6, <1>8, <2>2
    <2>5. QED
      BY <2>3, <2>4
  <1>9. QED
    BY <1>4, <1>5, <1>7, <1>8 DEF ids

LEMMA PageAdded ==
    ASSUME TablesOK, NEW page \in PageRecord, pages' = Append(pages, page)
    PROVE  /\ pages' \in Seq(PageRecord) /\ pages' # <<>>
           /\ Len(pages) \in Nat /\ Len(pages') = Len(pages) + 1
           /\ pages'[Len(pages) + 1] = page /\ Last(pages') = page
           /\ \A i \in 1 .. Len(pages) : pages'[i] = pages[i]
           /\ Shown' = Shown \cup ToSet(page.items)
  <1>1. pages \in Seq(PageRecord)
    BY DEF TablesOK
  <1>2. /\ pages' \in Seq(PageRecord) /\ pages' # <<>>
        /\ Len(pages) \in Nat /\ Len(pages') = Len(pages) + 1
        /\ pages'[Len(pages) + 1] = page
        /\ \A i \in 1 .. Len(pages) : pages'[i] = pages[i]
    BY <1>1
  <1>3. Last(pages') = page
    BY <1>2 DEF Last
  <1>4. Shown' = UNION {ToSet(pages'[i].items) : i \in 1 .. Len(pages) + 1}
    BY <1>2 DEF Shown
  <1>5. \A i : i \in 1 .. Len(pages) + 1
                  <=> i \in 1 .. Len(pages) \/ i = Len(pages) + 1
    BY <1>2
  <1>6. Shown' = Shown \cup ToSet(page.items)
    <2>1. \A m : m \in Shown'
                    <=> \E i \in 1 .. Len(pages) + 1 : m \in ToSet(pages'[i].items)
      BY <1>4
    <2>2. \A m : m \in Shown <=> \E i \in 1 .. Len(pages) : m \in ToSet(pages[i].items)
      BY DEF Shown
    <2>3. \A m : m \in Shown' <=> m \in Shown \/ m \in ToSet(page.items)
      BY <1>2, <1>5, <2>1, <2>2
    <2>4. QED
      BY <2>3
  <1>7. QED
    BY <1>2, <1>3, <1>6

\* The cursor the next page is asked with.
Cursor == IF pages = <<>> THEN NoCursor ELSE Last(pages).nextCursor

\* A page that is read after all the others.
Reading(page, limit) ==
    /\ pages # <<>> => Last(pages).hasMore
    /\ page = PageOf(table, limit, Cursor)
    /\ pages' = Append(pages, page)
    /\ atStart' = IF pages = <<>> THEN table ELSE atStart
    /\ UNCHANGED <<nextId, table>>

LEMMA ReadIsReading ==
    ASSUME NEW limit, FirstPage(limit) \/ NextPage(limit)
    PROVE  \E page : Reading(page, limit)
  <1>1. CASE FirstPage(limit)
    <2>1. <<PageOf(table, limit, NoCursor)>>
              = Append(<<>>, PageOf(table, limit, NoCursor))
      OBVIOUS
    <2>2. QED
      BY <1>1, <2>1 DEF FirstPage, Reading, Cursor
  <1>2. CASE NextPage(limit)
    BY <1>2 DEF NextPage, Reading, Cursor
  <1>3. QED
    BY <1>1, <1>2

\* The page that is asked for with the last cursor is below all the others.
LEMMA LastOfPages ==
    ASSUME TablesOK, PagesOK, pages # <<>>, Last(pages).hasMore
    PROVE  /\ Last(pages) = pages[Len(pages)] /\ Len(pages) \in 1 .. Len(pages)
           /\ Cursor = Last(pages).nextCursor
           /\ Cursor \in Nat \ {0}
           /\ \A i \in 1 .. Len(pages) :
                 /\ pages[i].hasMore /\ pages[i].nextCursor \in Nat
                 /\ Cursor <= pages[i].nextCursor
  <1> DEFINE n == Len(pages)
             last == pages[n]
  <1>1. n \in Nat /\ n \in 1 .. n /\ Last(pages) = last
    BY DEF TablesOK, Last
  <1>2. \A i \in 1 .. n : pages[i] \in PageRecord
    BY ElementOfSeq DEF TablesOK
  <1>3. /\ Cursor = last.nextCursor /\ last.hasMore
        /\ Len(last.items) > 0 /\ last.nextCursor = last.items[1]
        /\ last.nextCursor > 0
    BY <1>1 DEF Cursor, PagesOK, PageOK
  <1>4. \A i \in 1 .. n : pages[i].nextCursor \in Nat
    BY <1>2 DEF PageRecord
  <1>5. ASSUME NEW i \in 1 .. n
        PROVE  pages[i].hasMore /\ Cursor <= pages[i].nextCursor
    <2>1. CASE i = n
      BY <1>3, <1>4, <2>1
    <2>2. CASE i < n
      <3>1. last.items \in Seq(Nat)
        BY <1>1, <1>2 DEF PageRecord
      <3>2. 1 \in 1 .. Len(last.items)
        BY <1>3, <3>1, LenProperties
      <3>3. pages[i].hasMore /\ last.items[1] < pages[i].nextCursor
        BY <1>1, <2>2, <3>2 DEF PagesOK
      <3>4. Cursor \in Nat /\ Cursor < pages[i].nextCursor
        BY <1>1, <1>3, <1>4, <3>3
      <3>5. QED
        BY <1>4, <3>3, <3>4
    <2>3. QED
      BY <1>1, <2>1, <2>2
  <1>6. QED
    BY <1>1, <1>3, <1>4, <1>5

LEMMA HInvReading ==
    ASSUME HInv, NEW limit \in Nat \ {0}, NEW page, Reading(page, limit)
    PROVE  HInv'
  <1> DEFINE n == Len(pages)
  <1>1. TablesOK /\ PagesOK /\ NothingSkipped
    BY DEF HInv
  <1>2. Cursor \in Nat /\ (pages = <<>> => Cursor = NoCursor)
    BY <1>1, LastOfPages DEF Reading, Cursor, NoCursor
  <1>3. /\ page \in PageRecord /\ PageOK(page)
        /\ ToSet(page.items) \subseteq Older(table, Cursor)
        /\ \A m \in Older(table, Cursor) :
              (page.hasMore => m >= page.nextCursor) => m \in ToSet(page.items)
    BY <1>1, <1>2, PageGood DEF Reading
  <1>4. /\ pages' \in Seq(PageRecord) /\ pages' # <<>>
        /\ n \in Nat /\ Len(pages') = n + 1
        /\ pages'[n + 1] = page /\ Last(pages') = page
        /\ \A i \in 1 .. n : pages'[i] = pages[i]
        /\ Shown' = Shown \cup ToSet(page.items)
    BY <1>1, <1>3, PageAdded DEF Reading
  <1>5. TablesOK'
    BY <1>1, <1>4 DEF TablesOK, Reading
  <1>6. PagesOK'
    <2>1. \A i \in 1 .. n + 1 : PageOK(pages'[i])
      <3>1. \A i \in 1 .. n + 1 : i \in 1 .. n \/ i = n + 1
        BY <1>4
      <3>2. QED
        BY <1>1, <1>3, <1>4, <3>1 DEF PagesOK
    <2>2. ASSUME NEW i \in 1 .. n + 1, NEW j \in 1 .. n + 1, i < j
          PROVE  /\ pages'[i].hasMore
                 /\ \A k \in 1 .. Len(pages'[j].items) :
                       pages'[j].items[k] < pages'[i].nextCursor
      <3>1. i \in 1 .. n /\ (j \in 1 .. n \/ j = n + 1)
        BY <1>4, <2>2
      <3>2. CASE j \in 1 .. n
        BY <1>1, <1>4, <2>2, <3>1, <3>2 DEF PagesOK
      <3>3. CASE j = n + 1
        <4>1. pages # <<>> /\ Last(pages).hasMore
          BY <1>4, <3>1 DEF Reading
        <4>2. /\ pages[i].hasMore /\ pages[i].nextCursor \in Nat
              /\ Cursor <= pages[i].nextCursor /\ Cursor \in Nat \ {0}
          BY <1>1, <3>1, <4>1, LastOfPages
        <4>3. ASSUME NEW k \in 1 .. Len(page.items)
              PROVE  page.items[k] < pages[i].nextCursor
          <5>1. page.items[k] \in ToSet(page.items)
            BY <1>3, LenProperties DEF ToSet, PageRecord
          <5>2. page.items[k] \in table /\ page.items[k] < Cursor
            BY <1>3, <4>2, <5>1 DEF Older, NoCursor
          <5>3. page.items[k] \in Nat
            BY <1>1, <5>2 DEF TablesOK
          <5>4. QED
            BY <4>2, <5>2, <5>3
        <4>4. QED
          BY <1>4, <3>1, <3>3, <4>2, <4>3
      <3>4. QED
        BY <3>1, <3>2, <3>3
    <2>3. QED
      BY <1>4, <2>1, <2>2 DEF PagesOK, PageOK
  <1>7. NothingSkipped'
    <2>1. SUFFICES ASSUME NEW m \in atStart', page.hasMore => m >= page.nextCursor
                   PROVE  m \in Shown'
      BY <1>4 DEF NothingSkipped, Reached
    <2>2. m \in table /\ m \in Nat
      BY <1>1 DEF Reading, TablesOK
    <2>3. CASE m \in Older(table, Cursor)
      BY <1>3, <1>4, <2>1, <2>3
    <2>4. CASE m \notin Older(table, Cursor)
      <3>1. pages # <<>>
        BY <1>2, <2>2, <2>4 DEF Older
      <3>2. Last(pages).hasMore /\ Cursor = Last(pages).nextCursor
        BY <3>1 DEF Reading, Cursor
      <3>3. m >= Last(pages).nextCursor
        BY <1>2, <2>2, <2>4, <3>2 DEF Older
      <3>4. m \in Shown
        BY <1>1, <3>1, <3>3 DEF NothingSkipped, Reached, Reading
      <3>5. QED
        BY <1>4, <3>4
    <2>5. QED
      BY <2>3, <2>4
  <1>8. QED
    BY <1>5, <1>6, <1>7 DEF HInv

-----------------------------------------------------------------------------

LEMMA HInvStep == ASSUME HInv, [Next]_vars PROVE HInv'
  <1> USE DEF HInv
  <1>1. CASE Insert
    <2>1. /\ nextId' = nextId + 1 /\ UNCHANGED <<table, pages, atStart>>
          /\ nextId \in Nat \ {0}
      BY <1>1 DEF Insert, TablesOK
    <2>2. TablesOK'
      BY <2>1 DEF TablesOK
    <2>3. PagesOK' /\ NothingSkipped'
      BY <2>1 DEF PagesOK, PageOK, NothingSkipped, Shown, Reached
    <2>4. QED
      BY <2>2, <2>3
  <1>2. CASE Commit
    <2>1. /\ \E m \in 1 .. nextId - 1 : table' = table \cup {m}
          /\ UNCHANGED <<nextId, pages, atStart>>
      BY <1>2 DEF Commit
    <2>2. TablesOK'
      BY <2>1 DEF TablesOK
    <2>3. PagesOK' /\ NothingSkipped'
      BY <2>1 DEF PagesOK, PageOK, NothingSkipped, Shown, Reached
    <2>4. QED
      BY <2>2, <2>3
  <1>3. CASE Read
    <2>1. PICK limit \in 1 .. MaxLimit : FirstPage(limit) \/ NextPage(limit)
      BY <1>3 DEF Read
    <2>2. limit \in Nat \ {0}
      BY HistoryAssumption
    <2>3. QED
      BY <2>1, <2>2, ReadIsReading, HInvReading
  <1>4. CASE UNCHANGED vars
    BY <1>4 DEF vars, TablesOK, PagesOK, PageOK, NothingSkipped, Shown, Reached
  <1>5. QED
    BY <1>1, <1>2, <1>3, <1>4 DEF Next

\* The pages go down from one to the next, each up from the cursor it gives,
\* and what was there at the start is in them down to the last cursor.
THEOREM HistoryInvariance == Spec => []HInv
  BY HInvInit, HInvStep, PTL DEF Spec

\* Every page the query makes of what is committed is the newest messages
\* older than its cursor, as many as the limit allows, and says whether there
\* are more (get_by_room_before and get_messages_cursor).
THEOREM PagesAreNewest == Spec => []PageIsNewest
  <1>1. ASSUME TablesOK PROVE PageIsNewest
    <2>1. SUFFICES ASSUME NEW limit \in 1 .. MaxLimit, NEW before \in 0 .. MaxId + 1
                   PROVE
        LET page  == PageOf(table, limit, before)
            old   == {m \in table : before # NoCursor => m < before}
            given == ToSet(page.items)
        IN  /\ given \subseteq old
            /\ Cardinality(given) = Min({limit, Cardinality(old)})
            /\ \A m \in given, k \in old \ given : k < m
            /\ \A k \in 1 .. Len(page.items) - 1 :
                  page.items[k] < page.items[k + 1]
            /\ page.hasMore <=> given # old
      BY DEF PageIsNewest
    <2> DEFINE page == PageOf(table, limit, before)
               old  == {m \in table : before # NoCursor => m < before}
    <2>2. limit \in Nat \ {0} /\ before \in Nat
      BY HistoryAssumption
    <2>3. old = Older(table, before)
      BY DEF Older
    <2>4. IsPage(page, old, limit) /\ ToSet(page.items) \subseteq old
      <3> HIDE DEF old
      <3>1. IsPage(page, Older(table, before), limit)
        BY <1>1, <2>2, TableIsTable, PageOfIs
      <3>2. ToSet(page.items) \subseteq Older(table, before)
        BY <1>1, <2>2, PageGood
      <3>3. QED
        BY <2>3, <3>1, <3>2
    <2>5. \A k \in 1 .. Len(page.items) - 1 : page.items[k] < page.items[k + 1]
      <3>1. Len(page.items) \in Nat
        BY <2>4, LenProperties DEF IsPage
      <3>2. \A k \in 1 .. Len(page.items) - 1 :
               k \in 1 .. Len(page.items) /\ k + 1 \in 1 .. Len(page.items)
                   /\ k < k + 1
        BY <3>1
      <3>3. QED
        BY <2>4, <3>2 DEF IsPage
    <2>6. QED
      BY <2>4, <2>5 DEF IsPage
  <1>2. QED
    BY <1>1, HistoryInvariance, PTL DEF HInv

\* No message is shown twice or out of place on the pages a client puts one
\* before the other, however the inserts and commits fall between them.
THEOREM PagesJoin == Spec => []PagesAreOneList
  <1>1. HInv => PagesAreOneList
    BY PagesAreAscending DEF HInv
  <1>2. QED
    BY <1>1, HistoryInvariance, PTL

\* No message that was committed when the reading began is skipped.
THEOREM PagesAreComplete == Spec => []NothingSkipped
  BY HistoryInvariance, PTL DEF HInv

\* The cursor goes down with every page, so that a room that is written to
\* faster than it is read is still read to its first message.
THEOREM ReadingDescends == Spec => CursorDescends
  <1>1. ASSUME HInv, [Next]_vars, pages # <<>>, pages' # pages,
               Last(pages').hasMore
        PROVE  Last(pages').nextCursor \in 1 .. Last(pages).nextCursor - 1
    <2>1. PICK limit \in 1 .. MaxLimit : FirstPage(limit) \/ NextPage(limit)
      BY <1>1 DEF Next, Read, Insert, Commit, vars
    <2>2. PICK page : Reading(page, limit)
      BY <2>1, ReadIsReading
    <2>3. limit \in Nat \ {0} /\ TablesOK /\ PagesOK
      BY <1>1, HistoryAssumption DEF HInv
    <2>4. Cursor = Last(pages).nextCursor /\ Cursor \in Nat \ {0}
      BY <1>1, <2>2, <2>3, LastOfPages DEF Reading
    <2>5. /\ page \in PageRecord /\ PageOK(page)
          /\ ToSet(page.items) \subseteq Older(table, Cursor)
      BY <2>2, <2>3, <2>4, PageGood DEF Reading
    <2>6. Last(pages') = page
      BY <2>2, <2>3, <2>5, PageAdded DEF Reading
    <2>7. page.nextCursor \in ToSet(page.items) /\ page.nextCursor \in Nat \ {0}
      <3>1. page.items \in Seq(Nat) /\ page.nextCursor \in Nat
        BY <2>5 DEF PageRecord
      <3>2. Len(page.items) > 0 /\ page.nextCursor = page.items[1]
            /\ page.nextCursor > 0
        BY <1>1, <2>5, <2>6 DEF PageOK
      <3>3. 1 \in 1 .. Len(page.items)
        BY <3>1, <3>2, LenProperties
      <3>4. QED
        BY <3>1, <3>2, <3>3, LenProperties DEF ToSet
    <2>8. page.nextCursor < Cursor
      BY <2>4, <2>5, <2>7 DEF Older, NoCursor
    <2>9. QED
      BY <2>4, <2>6, <2>7, <2>8
  <1>2. QED
    BY <1>1, HistoryInvariance, PTL DEF Spec, CursorDescends
=============================================================================
