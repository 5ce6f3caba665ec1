--------------------------- MODULE MessageHistory ---------------------------
(***************************************************************************)
(* Reading a room's history backwards, page by page, by                    *)
(* get_messages_cursor, while other handlers keep inserting: an id is      *)
(* taken from the sequence at the insert and becomes visible at the        *)
(* commit, so messages can appear in any order of their ids.  Messages are *)
(* named by their ids; limit is whatever the client asks for each page.    *)
(***************************************************************************)
EXTENDS Naturals, Sequences, FiniteSets, FiniteSetsExt, SequencesExt

CONSTANTS MaxId,     \* bound: messages inserted
          MaxLimit   \* the largest limit of the endpoint (100 in the code)

ASSUME HistoryAssumption == MaxId \in Nat /\ MaxLimit \in Nat \ {0}

NoCursor == 0   \* before_id / next_cursor is None; ids start at 1

(***************************************************************************)
(* The query: the rows of the room older than the cursor, newest first,    *)
(* one more than asked for; and what is made of them.                      *)
(***************************************************************************)
\* Mutation: the cursor's own message is fetched again.
UpToCursor(table, before) ==
    IF before = NoCursor THEN table ELSE {m \in table : m <= before}

Older(table, before) ==
    IF before = NoCursor THEN table ELSE {m \in table : m < before}

\* How many of ids are newer than m.
Newer(ids, m) == Cardinality({k \in ids : k > m})

\* ORDER BY id DESC: k - 1 rows are newer than the k-th.
NewestFirst(ids) ==
    [k \in 1 .. Cardinality(ids) |-> CHOOSE m \in ids : Newer(ids, m) = k - 1]

Fetch(table, limit, before) ==
    LET rows == NewestFirst(Older(table, before))
    IN  SubSeq(rows, 1, Min({limit + 1, Len(rows)}))

\* Mutation: limit rows are fetched, and a full page taken to have more.
PageOfFull(table, limit, before) ==
    LET rows == Fetch(table, limit - 1, before)
    IN  [items      |-> Reverse(rows),
         nextCursor |-> IF Len(rows) = limit THEN rows[Len(rows)] ELSE NoCursor,
         hasMore    |-> Len(rows) = limit]

\* Mutation: the cursor is the id of the extra row, which is not in the page.
PageOfExtra(table, limit, before) ==
    LET rows    == Fetch(table, limit, before)
        hasMore == Len(rows) > limit
    IN  [items      |-> Reverse(SubSeq(rows, 1, Min({limit, Len(rows)}))),
         nextCursor |-> IF hasMore THEN Last(rows) ELSE NoCursor,
         hasMore    |-> hasMore]

\* Mutation: next_cursor is the newest id of the page once it is reversed.
PageOfReversed(table, limit, before) ==
    LET rows    == Fetch(table, limit, before)
        hasMore == Len(rows) > limit
    IN  [items      |-> Reverse(SubSeq(rows, 1, Min({limit, Len(rows)}))),
         nextCursor |-> IF hasMore THEN rows[1] ELSE NoCursor,
         hasMore    |-> hasMore]

PageOf(table, limit, before) ==
    LET rows    == Fetch(table, limit, before)
        hasMore == Len(rows) > limit
        page    == IF hasMore THEN SubSeq(rows, 1, limit) ELSE rows
    IN  [items      |-> Reverse(page),
         nextCursor |-> IF hasMore THEN page[Len(page)] ELSE NoCursor,
         hasMore    |-> hasMore]

VARIABLES
    nextId,     \* the sequence behind messages.id
    table,      \* the ids of the committed messages of the room
    pages,      \* the pages the reader was given, the latest last
    atStart     \* the messages that were committed when it asked for the first

vars == <<nextId, table, pages, atStart>>

Init ==
    /\ nextId = 1
    /\ table = {}
    /\ pages = <<>>
    /\ atStart = {}

Insert ==
    /\ nextId <= MaxId
    /\ nextId' = nextId + 1
    /\ UNCHANGED <<table, pages, atStart>>

\* One of the inserts still open commits; which, is up to the database.
Commit ==
    /\ \E m \in (1 .. nextId - 1) \ table : table' = table \cup {m}
    /\ UNCHANGED <<nextId, pages, atStart>>

FirstPage(limit) ==
    /\ pages = <<>>
    /\ pages' = <<PageOf(table, limit, NoCursor)>>
    /\ atStart' = table
    /\ UNCHANGED <<nextId, table>>

\* The client passes next_cursor back, for as long as it gets one.
NextPage(limit) ==
    /\ pages # <<>> /\ Last(pages).hasMore
    /\ pages' = Append(pages, PageOf(table, limit, Last(pages).nextCursor))
    /\ UNCHANGED <<nextId, table, atStart>>

Read == \E limit \in 1 .. MaxLimit : FirstPage(limit) \/ NextPage(limit)

Next == Insert \/ Commit \/ Read

Spec == Init /\ [][Next]_vars

-----------------------------------------------------------------------------

\* Put one before the other, as the client shows them, the pages are one list
\* in ascending order of ids: nothing is shown twice or out of place, whatever
\* was committed between two pages.
PagesAreOneList ==
    \A i, j \in 1 .. Len(pages) :
        \A k \in 1 .. Len(pages[i].items), l \in 1 .. Len(pages[j].items) :
            i > j \/ (i = j /\ k < l) => pages[i].items[k] < pages[j].items[l]

Shown == UNION {ToSet(pages[i].items) : i \in 1 .. Len(pages)}

\* The reader has come to m: down to the cursor, and down to the first
\* message once there is no cursor.
Reached(m) == Last(pages).hasMore => m >= Last(pages).nextCursor

\* A message that was there when the reading began is not skipped.
NothingSkipped ==
    pages # <<>> => \A m \in atStart : Reached(m) => m \in Shown

\* Every page but the first ends further down than the one before, so that
\* reading ends although the room is being written to.
CursorDescends ==
    [][/\ pages # <<>> /\ pages' # pages
       /\ Last(pages').hasMore
       => Last(pages').nextCursor \in 1 .. Last(pages).nextCursor - 1]_vars

\* A page against what it is for, for every limit and cursor: as many of the
\* messages older than the cursor as the limit allows, none of which is older
\* than one that is left out, in ascending order; and has_more tells whether
\* any is left out.
PageIsNewest ==
    \A limit \in 1 .. MaxLimit, before \in 0 .. MaxId + 1 :
        LET page  == PageOf(table, limit, before)
            old   == {m \in table : before # NoCursor => m < before}
            given == ToSet(page.items)
        IN  /\ given \subseteq old
            /\ Cardinality(given) = Min({limit, Cardinality(old)})
            /\ \A m \in given, k \in old \ given : k < m
            /\ \A k \in 1 .. Len(page.items) - 1 :
                  page.items[k] < page.items[k + 1]
            /\ page.hasMore <=> given # old
=============================================================================
