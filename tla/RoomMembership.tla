--------------------------- MODULE RoomMembership ---------------------------
(***************************************************************************)
(* Creating, joining, listing and reading rooms: RoomService over          *)
(* SqlAlchemyRoomRepository, by concurrent requests of any number of nodes *)
(* on one database.                                                        *)
(*                                                                         *)
(* A request is a sequence of statements of its own session; under READ    *)
(* COMMITTED each sees what was committed when it runs.  So what a check   *)
(* found may be out of date when the insert runs, and only the indexes of  *)
(* the deployed schema (alembic 3c19629e0fb9) stand in between: rooms.name *)
(* is unique, room_members is not, although RoomMemberModel declares it.   *)
(* An insert that would duplicate an uncommitted name waits for that        *)
(* transaction to end.                                                     *)
(***************************************************************************)
EXTENDS Naturals, Sequences, FiniteSets

CONSTANTS Requests,  \* the HTTP requests
          Users,     \* the authenticated users
          Names,     \* the names rooms may be given
          Workloads, \* bound: what the requests may ask for together
          MaxSkip,   \* bound: skip of a listing
          Limits     \* the limits a listing is asked with

Ops == {"create", "join", "list", "members"}

ASSUME WorkloadAssumption ==
    Workloads \subseteq [Requests -> [op : Ops, user : Users, name : Names]]

VARIABLES
    op,       \* per request, POST /rooms/, POST /rooms/{id}/join, GET /rooms/
              \* or GET /rooms/{id}/members (of which GET /rooms/{id} is half)
    pc,       \* per request, the statement it does next
    user,     \* per request, current_user
    name,     \* per request, the name of the room to create
    room,     \* per request, the id of the room to create, join or read
    reply,    \* per request, how it was answered
    nextId,   \* the sequence behind rooms.id
    rooms,    \* the committed rows of rooms, and who created them
    members,  \* the committed rows of room_members, in commit order
    shown,    \* history: the ids that some listing has shown
    asked,    \* history: per request, what was known when it began
    answer    \* per members request, the users it was answered

request == <<op, user, name, room>>
reads == <<shown, asked, answer>>
vars == <<op, pc, user, name, room, reply, nextId, rooms, members, reads>>

\* The rows of the two tables; room_members has no key but its own.
Room   == [id : Nat, name : Names, by : Requests, is_private : BOOLEAN]
Member == [room : Nat, user : Users]

PCs == {"idle", "findName", "insertRoom", "commitRoom", "enlist",
        "findRoom", "findMember", "insertMember", "readMembers", "reload",
        "readPage", "done"}

Replies == {"none", "ok", "alreadyExists", "notFound", "serverError"}

\* Rows have all their columns; requests are at a known statement.
TypeOK ==
    /\ op \in [Requests -> Ops]
    /\ pc \in [Requests -> PCs]
    /\ user \in [Requests -> Users]
    /\ name \in [Requests -> Names]
    /\ room \in [Requests -> Nat]
    /\ reply \in [Requests -> Replies]
    /\ nextId \in Nat
    /\ rooms \in SUBSET Room
    /\ members \in Seq(Member)
    /\ shown \in SUBSET Nat
    /\ asked \in [Requests -> [shown : SUBSET Nat, joined : SUBSET Users]]
    /\ answer \in [Requests -> SUBSET Users]

\* Who asks for what does not depend on the state: it is chosen at first.
Init ==
    /\ \E w \in Workloads :
        /\ op = [q \in Requests |-> w[q].op]
        /\ user = [q \in Requests |-> w[q].user]
        /\ name = [q \in Requests |-> w[q].name]
    /\ pc = [q \in Requests |-> "idle"]
    /\ room = [q \in Requests |-> 0]
    /\ reply = [q \in Requests |-> "none"]
    /\ nextId = 1
    /\ rooms = {}
    /\ members = <<>>
    /\ shown = {}
    /\ asked = [q \in Requests |-> [shown |-> {}, joined |-> {}]]
    /\ answer = [q \in Requests |-> {}]

-----------------------------------------------------------------------------
(* The tables.                                                             *)

Goto(q, where) == pc' = [pc EXCEPT ![q] = where]

RoomIds == {x.id : x \in rooms}
NamesTaken == {x.name : x \in rooms}

\* Mutation: the insert is flushed and its transaction left open.
NamesEverInserted ==
    {name[q] : q \in {p \in Requests : room[p] # 0 /\ op[p] = "create"}}

\* The uncommitted inserts that hold an entry of the unique index on name.
NamesPending == {name[q] : q \in {p \in Requests : pc[p] = "commitRoom"}}

IsMember(r, u) ==
    \E i \in 1 .. Len(members) : members[i] = [room |-> r, user |-> u]

\* rooms with the one q inserted.  Only the listing looks at is_private.
WithRoomOf(q, p) ==
    rooms \cup {[id |-> room[q], name |-> name[q], by |-> q, is_private |-> p]}

\* The insert and its commit; refresh() reads the row back after that.
AddMember(q) ==
    /\ members' = Append(members, [room |-> room[q], user |-> user[q]])
    /\ Goto(q, "reload")

Answer(q, what) ==
    /\ Goto(q, "done")
    /\ reply' = [reply EXCEPT ![q] = what]

-----------------------------------------------------------------------------
(* RoomService.create_room.                                                *)

BeginCreate(q) ==
    /\ pc[q] = "idle" /\ op[q] = "create"
    /\ Goto(q, "findName")
    /\ UNCHANGED <<request, reply, nextId, rooms, members, reads>>

FindName(q) ==
    /\ pc[q] = "findName"
    /\ \/ name[q] \in NamesTaken /\ Answer(q, "alreadyExists")
       \/ name[q] \notin NamesTaken /\ Goto(q, "insertRoom") /\ UNCHANGED reply
    /\ UNCHANGED <<request, nextId, rooms, members, reads>>

\* Mutation: the schema has no unique index on rooms.name either.
InsertRoomUnindexed(q) ==
    /\ pc[q] = "insertRoom"
    /\ room' = [room EXCEPT ![q] = nextId]
    /\ nextId' = nextId + 1
    /\ Goto(q, "commitRoom")
    /\ UNCHANGED <<op, user, name, reply, rooms, members, reads>>

\* The insert takes its id, waits out a pending insert of the same name, and
\* then raises IntegrityError if that one was committed.
InsertRoom(q) ==
    /\ pc[q] = "insertRoom" /\ name[q] \notin NamesPending
    /\ room' = [room EXCEPT ![q] = nextId]
    /\ nextId' = nextId + 1
    /\ \/ name[q] \in NamesTaken /\ Answer(q, "serverError")
       \/ name[q] \notin NamesTaken /\ Goto(q, "commitRoom") /\ UNCHANGED reply
    /\ UNCHANGED <<op, user, name, rooms, members, reads>>

\* Mutation: the request is answered before the creator is enlisted.
CommitRoomAnswers(q) ==
    /\ pc[q] = "commitRoom"
    /\ \E p \in BOOLEAN : rooms' = WithRoomOf(q, p)
    /\ Answer(q, "ok")
    /\ UNCHANGED <<request, nextId, members, reads>>

CommitRoom(q) ==
    /\ pc[q] = "commitRoom"
    /\ \E p \in BOOLEAN : rooms' = WithRoomOf(q, p)
    /\ Goto(q, "enlist")
    /\ UNCHANGED <<request, reply, nextId, members, reads>>

\* add_member of the creator, a second transaction.
EnlistCreator(q) ==
    /\ pc[q] = "enlist"
    /\ AddMember(q)
    /\ UNCHANGED <<request, reply, nextId, rooms, reads>>

-----------------------------------------------------------------------------
(* RoomService.join_room.                                                  *)

\* What the clients know when q is sent for room r: the rooms some listing has
\* shown, and the users who were told that they are in r.
Known(q, r) ==
    [shown  |-> shown,
     joined |-> {user[p] : p \in {p \in Requests : op[q] = "members"
                                   /\ op[p] \in {"create", "join"}
                                   /\ reply[p] = "ok" /\ room[p] = r}}]

\* A client may ask for a room it saw listed, or guess the next id.
BeginWithRoom(q, r) ==
    /\ pc[q] = "idle" /\ op[q] \in {"join", "members"}
    /\ room' = [room EXCEPT ![q] = r]
    /\ asked' = [asked EXCEPT ![q] = Known(q, r)]
    /\ Goto(q, "findRoom")
    /\ UNCHANGED <<op, user, name, reply, nextId, rooms, members, shown,
                   answer>>

\* get_room(), the first thing that joining and reading do.
FindRoom(q) ==
    /\ pc[q] = "findRoom"
    /\ \/ room[q] \notin RoomIds /\ Answer(q, "notFound")
       \/ room[q] \in RoomIds /\ op[q] = "join" /\ Goto(q, "findMember")
          /\ UNCHANGED reply
       \/ room[q] \in RoomIds /\ op[q] = "members" /\ Goto(q, "readMembers")
          /\ UNCHANGED reply
    /\ UNCHANGED <<request, nextId, rooms, members, reads>>

\* Mutation: the check looks for any member of the room.
FindAnyMember(q) ==
    /\ pc[q] = "findMember"
    /\ \/ (\E u \in Users : IsMember(room[q], u)) /\ Answer(q, "alreadyExists")
       \/ (\A u \in Users : ~IsMember(room[q], u)) /\ Goto(q, "insertMember")
          /\ UNCHANGED reply
    /\ UNCHANGED <<request, nextId, rooms, members, reads>>

FindMember(q) ==
    /\ pc[q] = "findMember"
    /\ \/ IsMember(room[q], user[q]) /\ Answer(q, "alreadyExists")
       \/ ~IsMember(room[q], user[q]) /\ Goto(q, "insertMember")
          /\ UNCHANGED reply
    /\ UNCHANGED <<request, nextId, rooms, members, reads>>

\* add_member: nothing in the deployed schema objects to a second row.
InsertMember(q) ==
    /\ pc[q] = "insertMember"
    /\ AddMember(q)
    /\ UNCHANGED <<request, reply, nextId, rooms, reads>>

\* The committed row is read back and the request answered.
Reload(q) ==
    /\ pc[q] = "reload"
    /\ Answer(q, "ok")
    /\ UNCHANGED <<request, nextId, rooms, members, reads>>

-----------------------------------------------------------------------------
(* Reading members and listing rooms.                                      *)

ReadMembers(q) ==
    /\ pc[q] = "readMembers"
    /\ answer' = [answer EXCEPT ![q] = {u \in Users : IsMember(room[q], u)}]
    /\ Answer(q, "ok")
    /\ UNCHANGED <<request, nextId, rooms, members, shown, asked>>

BeginList(q) ==
    /\ pc[q] = "idle" /\ op[q] = "list"
    /\ Goto(q, "readPage")
    /\ UNCHANGED <<request, reply, nextId, rooms, members, reads>>

PublicIds == {x.id : x \in {y \in rooms : ~y.is_private}}

\* The rooms past the offset, at most limit of them: any, for want of an order.
Pages(ids, skip, limit) ==
    {page \in SUBSET ids :
        LET left == IF Cardinality(ids) > skip THEN Cardinality(ids) - skip
                                               ELSE 0
        IN  Cardinality(page) = IF left < limit THEN left ELSE limit}

\* Mutation: rooms whose transaction is still open are listed.
ReadPageUncommitted(q) ==
    /\ pc[q] = "readPage"
    /\ shown' = shown \cup PublicIds
                  \cup {room[p] : p \in {p \in Requests : pc[p] = "commitRoom"}}
    /\ Answer(q, "ok")
    /\ UNCHANGED <<request, nextId, rooms, members, asked, answer>>

ReadPage(q) ==
    /\ pc[q] = "readPage"
    /\ \E skip \in 0 .. MaxSkip, limit \in Limits :
          \E page \in Pages(PublicIds, skip, limit) : shown' = shown \cup page
    /\ Answer(q, "ok")
    /\ UNCHANGED <<request, nextId, rooms, members, asked, answer>>

-----------------------------------------------------------------------------

\* The node stops, or loses the database, between two statements: what was
\* not committed is gone, what was stays, although the answer is an error.
Fail(q) ==
    /\ pc[q] \notin {"idle", "done"}
    /\ Answer(q, "serverError")
    /\ UNCHANGED <<request, nextId, rooms, members, reads>>

Step(q) ==
    \/ FindName(q) \/ InsertRoom(q) \/ CommitRoom(q) \/ EnlistCreator(q)
    \/ FindRoom(q) \/ FindMember(q) \/ InsertMember(q) \/ Reload(q)
    \/ ReadMembers(q) \/ ReadPage(q)

Next ==
    \E q \in Requests :
        \/ BeginCreate(q) \/ BeginList(q)
        \/ \E r \in 1 .. nextId : BeginWithRoom(q, r)
        \/ Step(q) \/ Fail(q)

Spec == Init /\ [][Next]_vars

\* A statement that can run is run; nothing obliges a request to arrive.
FairSpec == Spec /\ \A q \in Requests : WF_vars(Step(q))

-----------------------------------------------------------------------------

\* Two rooms never share a name or an id, though every request looked for the
\* name in a transaction before the one that inserts it.
UniqueNames ==
    \A x, y \in rooms : x.name = y.name \/ x.id = y.id => x = y

\* A request that was answered 201 or 200 has left a member: the creator in
\* the room of that name it created, the joiner in a room that exists.  So a
\* room without members is one whose request failed or is not answered yet.
SuccessIsStored ==
    \A q \in Requests : reply[q] = "ok" /\ op[q] \in {"create", "join"} =>
        /\ IsMember(room[q], user[q])
        /\ \E x \in rooms : /\ x.id = room[q]
                            /\ op[q] = "create" => x.name = name[q] /\ x.by = q

\* "already exists" and "already a member" are still true when the client
\* reads them.
RefusalIsTrue ==
    \A q \in Requests : reply[q] = "alreadyExists" =>
        \/ op[q] = "create" /\ name[q] \in NamesTaken
        \/ op[q] = "join" /\ IsMember(room[q], user[q])

\* "Room not found" is never said of a room that a listing had shown, to anyone
\* and on any node, before the request was sent.
ListedIsFound ==
    \A q \in Requests : reply[q] = "notFound" => room[q] \notin asked[q].shown

\* A members listing shows everyone who, when it was asked for, had been told
\* that they created or joined the room.
MembersShown ==
    \A q \in Requests : reply[q] = "ok" /\ op[q] = "members" =>
        asked[q].joined \subseteq answer[q]

\* Every request that arrived is answered: creators of one name, of which
\* the index makes all but one wait, do not wait on each other for ever.
Answered == \A q \in Requests : pc[q] # "idle" ~> pc[q] = "done"

(* What a comment says and the code does not do.                           *)

\* "Enlist a user into a room after validating existence and uniqueness"
\* (room_service.py:56), which RoomMemberModel would index (room_model.py:53).
NoDuplicateMember ==
    \A i, j \in 1 .. Len(members) : members[i] = members[j] => i = j
=============================================================================
