------------------------ MODULE RoomMembershipProofs ------------------------
(***************************************************************************)
(* What RoomMembership guarantees, for any requests, users and names.      *)
(*                                                                         *)
(* The invariant is in two parts: what holds of the tables and of the      *)
(* inserts that are not committed (Tables), and what holds of one request  *)
(* (Request).  The second only gets easier to satisfy as the tables grow,  *)
(* so a step of one request keeps it of all the others (OthersKept).       *)
(***************************************************************************)
EXTENDS RoomMembership, TLAPS

\* An insert that is not committed has its name and its id to itself.
RoomHeld ==
    \A q \in Requests : pc[q] = "commitRoom" =>
        /\ room[q] < nextId /\ room[q] \notin RoomIds
        /\ name[q] \notin NamesTaken
        /\ \A p \in Requests :
              pc[p] = "commitRoom" /\ (name[p] = name[q] \/ room[p] = room[q])
                  => p = q

Tables ==
    /\ RoomHeld
    /\ \A r \in RoomIds : r < nextId
    /\ UniqueNames
    /\ shown \subseteq RoomIds

\* The statements of each operation.
StatementOf(q) ==
    /\ pc[q] \in {"findName", "insertRoom", "commitRoom", "enlist"}
          => op[q] = "create"
    /\ pc[q] \in {"findMember", "insertMember"} => op[q] = "join"
    /\ pc[q] = "findRoom" => op[q] \in {"join", "members"}
    /\ pc[q] = "readMembers" => op[q] = "members"
    /\ pc[q] = "readPage" => op[q] = "list"
    /\ pc[q] = "reload" => op[q] \in {"create", "join"}

Created(q) == \E x \in rooms : x.id = room[q] /\ x.name = name[q] /\ x.by = q

\* What the statements that q is done with have established.
Progress(q) ==
    /\ pc[q] # "done" => reply[q] = "none"
    /\ pc[q] = "enlist" \/ (pc[q] = "reload" /\ op[q] = "create") => Created(q)
    /\ pc[q] \in {"findMember", "insertMember", "readMembers"}
          \/ (pc[q] = "reload" /\ op[q] = "join") => room[q] \in RoomIds
    /\ pc[q] = "reload" => IsMember(room[q], user[q])

\* What was shown and told before q was sent is in the tables.
Asked(q) ==
    /\ asked[q].shown \subseteq RoomIds
    /\ \A u \in asked[q].joined : IsMember(room[q], u)
    /\ op[q] # "members" => asked[q].joined = {}

\* What the invariants say of one request.
Answers(q) ==
    /\ reply[q] = "ok" /\ op[q] = "create" => Created(q)
    /\ reply[q] = "ok" /\ op[q] = "join" => room[q] \in RoomIds
    /\ reply[q] = "ok" /\ op[q] \in {"create", "join"}
          => IsMember(room[q], user[q])
    /\ reply[q] = "ok" /\ op[q] = "members" => asked[q].joined \subseteq answer[q]
    /\ reply[q] = "notFound" => room[q] \notin asked[q].shown
    /\ reply[q] = "alreadyExists" =>
          \/ op[q] = "create" /\ name[q] \in NamesTaken
          \/ op[q] = "join" /\ IsMember(room[q], user[q])

Request(q) == StatementOf(q) /\ Progress(q) /\ Asked(q) /\ Answers(q)

MInv == TypeOK /\ Tables /\ \A q \in Requests : Request(q)

-----------------------------------------------------------------------------

LEMMA MInvImplies ==
    MInv => SuccessIsStored /\ RefusalIsTrue /\ ListedIsFound /\ MembersShown
  BY DEF MInv, Request, Answers, Created, RoomIds, SuccessIsStored,
         RefusalIsTrue, ListedIsFound, MembersShown

LEMMA MInvInit == ASSUME Init PROVE MInv
  <1>1. PICK w \in Workloads :
            /\ op = [q \in Requests |-> w[q].op]
            /\ user = [q \in Requests |-> w[q].user]
            /\ name = [q \in Requests |-> w[q].name]
    BY DEF Init
  <1>2. \A q \in Requests : w[q] \in [op : Ops, user : Users, name : Names]
    BY <1>1, WorkloadAssumption
  <1>3. /\ op \in [Requests -> Ops] /\ user \in [Requests -> Users]
        /\ name \in [Requests -> Names]
    BY <1>1, <1>2
  <1>4. TypeOK
    BY <1>3 DEF Init, TypeOK, PCs, Replies
  <1>5. Tables
    <2>1. rooms = {} /\ shown = {} /\ \A q \in Requests : pc[q] = "idle"
      BY DEF Init
    <2>2. RoomIds = {}
      BY <2>1 DEF RoomIds
    <2>3. QED
      BY <2>1, <2>2 DEF Tables, RoomHeld, UniqueNames
  <1>6. \A q \in Requests : Request(q)
    BY DEF Init, Request, StatementOf, Progress, Asked, Answers
  <1>7. QED
    BY <1>4, <1>5, <1>6 DEF MInv

\* The tables grow.
Grows ==
    /\ rooms \subseteq rooms'
    /\ \A r, u : IsMember(r, u) => IsMember(r, u)'

\* Nothing of p changes.
Same(p) ==
    /\ op'[p] = op[p] /\ user'[p] = user[p] /\ name'[p] = name[p]
    /\ room'[p] = room[p] /\ pc'[p] = pc[p] /\ reply'[p] = reply[p]
    /\ asked'[p] = asked[p] /\ answer'[p] = answer[p]

LEMMA GrownIds ==
    ASSUME Grows
    PROVE  RoomIds \subseteq RoomIds' /\ NamesTaken \subseteq NamesTaken'
  BY DEF Grows, RoomIds, NamesTaken

LEMMA OthersKept ==
    ASSUME NEW p \in Requests, Request(p), Grows, Same(p) PROVE Request(p)'
  <1>1. StatementOf(p)'
    BY DEF Request, Same, StatementOf
  <1>2. Created(p) => Created(p)'
    BY DEF Same, Grows, Created
  <1>3. \A r, u : IsMember(r, u) => \E i \in 1 .. Len(members') :
                                        members'[i] = [room |-> r, user |-> u]
    BY DEF Grows, IsMember
  <1>4. \A u : IsMember(room[p], u) => \E i \in 1 .. Len(members') :
                                members'[i] = [room |-> room'[p], user |-> u]
    BY <1>3 DEF Same
  <1>5. Progress(p)'
    BY <1>2, <1>4, GrownIds DEF Request, Same, Progress, IsMember
  <1>6. Asked(p)'
    BY <1>4, GrownIds DEF Request, Same, Asked, IsMember
  <1>7. Answers(p)'
    BY <1>2, <1>4, GrownIds DEF Request, Same, Answers, IsMember
  <1>8. QED
    BY <1>1, <1>5, <1>6, <1>7 DEF Request

\* So it is enough to look at the tables and at the request that steps.
LEMMA StepKept ==
    ASSUME NEW q \in Requests, MInv, Grows,
           \A p \in Requests \ {q} : Same(p), TypeOK', Tables', Request(q)'
    PROVE  MInv'
  <1>1. ASSUME NEW p \in Requests, p # q PROVE Request(p)'
    BY <1>1, OthersKept DEF MInv
  <1>2. QED
    BY <1>1 DEF MInv

\* A step that neither inserts nor commits a room leaves the tables in order.
LEMMA TablesKept ==
    ASSUME NEW q \in Requests, TypeOK, Tables, rooms' = rooms, name' = name,
           \A p \in Requests \ {q} : pc'[p] = pc[p] /\ room'[p] = room[p],
           pc'[q] # "commitRoom", nextId' \in Nat, nextId =< nextId',
           shown' \subseteq RoomIds
    PROVE  Tables'
  <1>1. RoomIds' = RoomIds /\ NamesTaken' = NamesTaken /\ UniqueNames'
    BY DEF RoomIds, NamesTaken, Tables, UniqueNames
  <1>2. RoomIds \subseteq Nat
    BY DEF TypeOK, Room, RoomIds
  <1>3. \A r \in RoomIds' : r < nextId'
    BY <1>1, <1>2 DEF Tables, TypeOK
  <1>4. ASSUME NEW p \in Requests, pc'[p] = "commitRoom"
        PROVE  /\ p # q /\ pc[p] = "commitRoom" /\ room'[p] = room[p]
               /\ room[p] \in Nat
    BY <1>4 DEF TypeOK
  <1>5. RoomHeld'
    BY <1>1, <1>4 DEF Tables, RoomHeld, TypeOK
  <1>6. QED
    BY <1>1, <1>3, <1>5 DEF Tables

LEMMA MemberAdded ==
    ASSUME NEW q \in Requests, TypeOK, AddMember(q)
    PROVE  /\ members' \in Seq(Member)
           /\ \A r, u : IsMember(r, u) => IsMember(r, u)'
           /\ \A i : i = Len(members') => /\ i \in 1 .. Len(members')
                                         /\ members'[i] = [room |-> room[q],
                                                           user |-> user[q]]
  <1>1. [room |-> room[q], user |-> user[q]] \in Member
    BY DEF TypeOK, Member
  <1>2. members' = Append(members, [room |-> room[q], user |-> user[q]])
    BY DEF AddMember
  <1>3. members \in Seq(Member)
    BY DEF TypeOK
  <1>4. /\ members' \in Seq(Member) /\ Len(members') = Len(members) + 1
        /\ \A i \in 1 .. Len(members) : members'[i] = members[i]
        /\ members'[Len(members) + 1] = [room |-> room[q], user |-> user[q]]
    BY <1>1, <1>2, <1>3
  <1>5. Len(members) \in Nat
    BY <1>3
  <1>6. \A r, u : IsMember(r, u) => IsMember(r, u)'
    BY <1>4, <1>5 DEF IsMember
  <1>7. QED
    BY <1>4, <1>5, <1>6

-----------------------------------------------------------------------------
(* One lemma per action.                                                   *)

\* What the steps that leave the tables and the request itself alone have in
\* common: q goes on to the statement s, or is answered.
Moves(q) ==
    /\ UNCHANGED <<request, rooms, members, asked>>
    /\ nextId' = nextId /\ shown' \subseteq RoomIds
    /\ \E s \in PCs \ {"commitRoom"} : Goto(q, s)
    /\ \A p \in Requests \ {q} : reply'[p] = reply[p] /\ answer'[p] = answer[p]
    /\ reply' \in [Requests -> Replies]
    /\ answer' \in [Requests -> SUBSET Users]
    /\ shown' \in SUBSET Nat

LEMMA MoveKept ==
    ASSUME NEW q \in Requests, MInv, Moves(q),
           StatementOf(q)', Progress(q)', Answers(q)'
    PROVE  MInv'
  <1>1. TypeOK'
    <2>1. pc' \in [Requests -> PCs]
      BY DEF MInv, Moves, TypeOK, Goto
    <2>2. /\ UNCHANGED <<op, user, name, room, rooms, members, asked, nextId>>
          /\ reply' \in [Requests -> Replies] /\ shown' \in SUBSET Nat
          /\ answer' \in [Requests -> SUBSET Users]
      BY DEF Moves, request
    <2>3. TypeOK
      BY DEF MInv
    <2>4. QED
      BY ONLY <2>1, <2>2, <2>3 DEF TypeOK
  <1>2. /\ pc' \in [Requests -> PCs] /\ pc'[q] # "commitRoom"
        /\ \A p \in Requests \ {q} : pc'[p] = pc[p]
    BY <1>1 DEF MInv, Moves, TypeOK, Goto
  <1>3. Tables'
    <2>1. /\ rooms' = rooms /\ name' = name /\ room' = room
          /\ nextId' = nextId /\ shown' \subseteq RoomIds
      BY DEF Moves, request
    <2>2. nextId \in Nat /\ nextId' \in Nat /\ nextId =< nextId'
      BY <2>1 DEF MInv, TypeOK
    <2>3. \A p \in Requests \ {q} : pc'[p] = pc[p] /\ room'[p] = room[p]
      BY <1>2, <2>1
    <2>4. QED
      BY <1>2, <2>1, <2>2, <2>3, TablesKept DEF MInv
  <1>4. Grows
    BY DEF Moves, Grows, IsMember
  <1>5. \A p \in Requests \ {q} : Same(p)
    BY <1>2 DEF Moves, request, Same
  <1>6. Asked(q)'
    BY <1>4, GrownIds DEF MInv, Request, Moves, request, Asked, IsMember
  <1>7. QED
    BY <1>1, <1>3, <1>4, <1>5, <1>6, StepKept DEF Request

LEMMA KeptBeginCreate ==
    ASSUME NEW q \in Requests, MInv, BeginCreate(q) PROVE MInv'
  <1>1. Moves(q)
    BY DEF MInv, Tables, TypeOK, BeginCreate, Moves, reads, PCs
  <1>2. pc'[q] = "findName" /\ op[q] = "create" /\ reply[q] = "none"
    BY DEF MInv, TypeOK, Request, Progress, BeginCreate, Goto
  <1>3. /\ StatementOf(q)' /\ Progress(q)' /\ Answers(q)'
    BY <1>2 DEF BeginCreate, request, StatementOf, Progress, Answers
  <1>4. QED
    BY <1>1, <1>3, MoveKept

LEMMA KeptFindName ==
    ASSUME NEW q \in Requests, MInv, FindName(q) PROVE MInv'
  <1>1. Moves(q)
    BY DEF MInv, Tables, TypeOK, FindName, Moves, Answer, Goto, reads, PCs,
           Replies
  <1>2. op[q] = "create" /\ reply[q] = "none"
    BY DEF MInv, Request, StatementOf, Progress, FindName
  <1>3. CASE name[q] \in NamesTaken
    <2>1. pc'[q] = "done" /\ reply'[q] = "alreadyExists"
      BY <1>3 DEF MInv, TypeOK, FindName, Answer, Goto
    <2>2. StatementOf(q)' /\ Progress(q)' /\ Answers(q)'
      BY <1>2, <1>3, <2>1 DEF FindName, request, StatementOf, Progress,
         Answers, NamesTaken
    <2>3. QED
      BY <1>1, <2>2, MoveKept
  <1>4. CASE name[q] \notin NamesTaken
    <2>1. pc'[q] = "insertRoom" /\ reply'[q] = "none"
      BY <1>2, <1>4 DEF MInv, TypeOK, FindName, Goto
    <2>2. StatementOf(q)' /\ Progress(q)' /\ Answers(q)'
      BY <1>2, <2>1 DEF FindName, request, StatementOf, Progress, Answers
    <2>3. QED
      BY <1>1, <2>2, MoveKept
  <1>5. QED
    BY <1>3, <1>4

LEMMA KeptFindRoom ==
    ASSUME NEW q \in Requests, MInv, FindRoom(q) PROVE MInv'
  <1>1. Moves(q)
    BY DEF MInv, Tables, TypeOK, FindRoom, Moves, Answer, Goto, reads, PCs,
           Replies
  <1>2. op[q] \in {"join", "members"} /\ reply[q] = "none"
    BY DEF MInv, Request, StatementOf, Progress, FindRoom
  <1>3. CASE room[q] \notin RoomIds
    <2>1. pc'[q] = "done" /\ reply'[q] = "notFound"
      BY <1>3 DEF MInv, TypeOK, FindRoom, Answer, Goto
    <2>2. room[q] \notin asked[q].shown
      BY <1>3 DEF MInv, Request, Asked
    <2>3. StatementOf(q)' /\ Progress(q)' /\ Answers(q)'
      BY <2>1, <2>2 DEF FindRoom, request, reads, StatementOf, Progress, Answers
    <2>4. QED
      BY <1>1, <2>3, MoveKept
  <1>4. CASE room[q] \in RoomIds
    <2>1. /\ reply'[q] = "none"
          /\ \/ pc'[q] = "findMember" /\ op[q] = "join"
             \/ pc'[q] = "readMembers" /\ op[q] = "members"
      BY <1>2, <1>4 DEF MInv, TypeOK, FindRoom, Goto
    <2>2. StatementOf(q)' /\ Progress(q)' /\ Answers(q)'
      BY <1>4, <2>1 DEF FindRoom, request, StatementOf, Progress, Answers,
         RoomIds
    <2>3. QED
      BY <1>1, <2>2, MoveKept
  <1>5. QED
    BY <1>3, <1>4

LEMMA KeptFindMember ==
    ASSUME NEW q \in Requests, MInv, FindMember(q) PROVE MInv'
  <1>1. Moves(q)
    BY DEF MInv, Tables, TypeOK, FindMember, Moves, Answer, Goto, reads, PCs,
           Replies
  <1>2. op[q] = "join" /\ reply[q] = "none" /\ room[q] \in RoomIds
    BY DEF MInv, Request, StatementOf, Progress, FindMember
  <1>3. CASE IsMember(room[q], user[q])
    <2>1. pc'[q] = "done" /\ reply'[q] = "alreadyExists"
      BY <1>3 DEF MInv, TypeOK, FindMember, Answer, Goto
    <2>2. StatementOf(q)' /\ Progress(q)' /\ Answers(q)'
      BY <1>2, <1>3, <2>1 DEF FindMember, request, StatementOf, Progress,
         Answers, IsMember
    <2>3. QED
      BY <1>1, <2>2, MoveKept
  <1>4. CASE ~IsMember(room[q], user[q])
    <2>1. pc'[q] = "insertMember" /\ reply'[q] = "none"
      BY <1>2, <1>4 DEF MInv, TypeOK, FindMember, Goto
    <2>2. StatementOf(q)' /\ Progress(q)' /\ Answers(q)'
      BY <1>2, <2>1 DEF FindMember, request, StatementOf, Progress, Answers,
         RoomIds
    <2>3. QED
      BY <1>1, <2>2, MoveKept
  <1>5. QED
    BY <1>3, <1>4

LEMMA KeptReload ==
    ASSUME NEW q \in Requests, MInv, Reload(q) PROVE MInv'
  <1>1. Moves(q)
    BY DEF MInv, Tables, TypeOK, Reload, Moves, Answer, Goto, reads, PCs,
           Replies
  <1>2. pc'[q] = "done" /\ reply'[q] = "ok"
    BY DEF MInv, TypeOK, Reload, Answer, Goto
  <1>3. /\ op[q] \in {"create", "join"} /\ IsMember(room[q], user[q])
        /\ op[q] = "create" => Created(q)
        /\ op[q] = "join" => room[q] \in RoomIds
    BY DEF MInv, Request, StatementOf, Progress, Reload
  <1>4. StatementOf(q)' /\ Progress(q)' /\ Answers(q)'
    BY <1>2, <1>3 DEF Reload, request, StatementOf, Progress, Answers, Created,
       IsMember, RoomIds
  <1>5. QED
    BY <1>1, <1>4, MoveKept

LEMMA KeptReadMembers ==
    ASSUME NEW q \in Requests, MInv, ReadMembers(q) PROVE MInv'
  <1>1. Moves(q)
    BY DEF MInv, Tables, TypeOK, ReadMembers, Moves, Answer, Goto, PCs, Replies
  <1>2. pc'[q] = "done" /\ reply'[q] = "ok"
    BY DEF MInv, TypeOK, ReadMembers, Answer, Goto
  <1>3. /\ op[q] = "members" /\ \A u \in asked[q].joined : IsMember(room[q], u)
        /\ asked[q].joined \subseteq Users
    BY DEF MInv, TypeOK, Request, StatementOf, Asked, ReadMembers
  <1>4. answer'[q] = {u \in Users : IsMember(room[q], u)}
    BY DEF MInv, TypeOK, ReadMembers
  <1>5. StatementOf(q)' /\ Progress(q)' /\ Answers(q)'
    BY <1>2, <1>3, <1>4 DEF ReadMembers, request, StatementOf, Progress, Answers
  <1>6. QED
    BY <1>1, <1>5, MoveKept

LEMMA KeptBeginList ==
    ASSUME NEW q \in Requests, MInv, BeginList(q) PROVE MInv'
  <1>1. Moves(q)
    BY DEF MInv, Tables, TypeOK, BeginList, Moves, Goto, reads, PCs
  <1>2. pc'[q] = "readPage" /\ op[q] = "list" /\ reply[q] = "none"
    BY DEF MInv, TypeOK, Request, Progress, BeginList, Goto
  <1>3. StatementOf(q)' /\ Progress(q)' /\ Answers(q)'
    BY <1>2 DEF BeginList, request, StatementOf, Progress, Answers
  <1>4. QED
    BY <1>1, <1>3, MoveKept

\* Only committed rooms are listed.
LEMMA KeptReadPage ==
    ASSUME NEW q \in Requests, MInv, ReadPage(q) PROVE MInv'
  <1>1. shown' \subseteq RoomIds /\ shown' \in SUBSET Nat
    <2>1. PICK page \in SUBSET PublicIds : shown' = shown \cup page
      BY DEF ReadPage, Pages
    <2>2. PublicIds \subseteq RoomIds
      BY DEF PublicIds, RoomIds
    <2>3. RoomIds \subseteq Nat
      BY DEF MInv, TypeOK, Room, RoomIds
    <2>4. QED
      BY <2>1, <2>2, <2>3 DEF MInv, Tables
  <1>2. Moves(q)
    BY <1>1 DEF MInv, TypeOK, ReadPage, Moves, Answer, Goto, PCs, Replies
  <1>3. pc'[q] = "done" /\ reply'[q] = "ok" /\ op[q] = "list"
    BY DEF MInv, TypeOK, Request, StatementOf, ReadPage, Answer, Goto
  <1>4. StatementOf(q)' /\ Progress(q)' /\ Answers(q)'
    BY <1>3 DEF ReadPage, request, StatementOf, Progress, Answers
  <1>5. QED
    BY <1>2, <1>4, MoveKept

LEMMA KeptFail ==
    ASSUME NEW q \in Requests, MInv, Fail(q) PROVE MInv'
  <1>1. Moves(q)
    BY DEF MInv, Tables, TypeOK, Fail, Moves, Answer, Goto, reads, PCs, Replies
  <1>2. pc'[q] = "done" /\ reply'[q] = "serverError"
    BY DEF MInv, TypeOK, Fail, Answer, Goto
  <1>3. StatementOf(q)' /\ Progress(q)' /\ Answers(q)'
    BY <1>2 DEF Fail, request, StatementOf, Progress, Answers
  <1>4. QED
    BY <1>1, <1>3, MoveKept

\* The client names a room, and what it knows of that room is remembered.
LEMMA KeptBeginWithRoom ==
    ASSUME NEW q \in Requests, NEW r \in Nat, MInv, BeginWithRoom(q, r)
    PROVE  MInv'
  <1>1. /\ pc'[q] = "findRoom" /\ op[q] \in {"join", "members"}
        /\ reply[q] = "none" /\ room'[q] = r /\ asked'[q] = Known(q, r)
        /\ \A p \in Requests \ {q} : /\ pc'[p] = pc[p] /\ room'[p] = room[p]
                                      /\ asked'[p] = asked[p]
    BY DEF MInv, TypeOK, Request, Progress, BeginWithRoom, Goto
  <1>2. Known(q, r) \in [shown : SUBSET Nat, joined : SUBSET Users]
    BY DEF MInv, TypeOK, Known
  <1>3. TypeOK'
    BY <1>2 DEF MInv, TypeOK, BeginWithRoom, Goto, PCs
  <1>4. Tables'
    <2>1. /\ rooms' = rooms /\ name' = name /\ nextId' = nextId
          /\ shown' = shown
      BY DEF BeginWithRoom
    <2>2. nextId' \in Nat /\ nextId =< nextId' /\ shown' \subseteq RoomIds
      BY <2>1 DEF MInv, TypeOK, Tables
    <2>3. QED
      BY <1>1, <2>1, <2>2, TablesKept DEF MInv
  <1>5. Grows
    BY DEF BeginWithRoom, Grows, IsMember
  <1>6. \A p \in Requests \ {q} : Same(p)
    BY <1>1 DEF BeginWithRoom, Same
  <1>7. Asked(q)'
    <2>1. Known(q, r).shown = shown /\ shown \subseteq RoomIds
      BY DEF Known, MInv, Tables
    <2>2. op[q] # "members" => Known(q, r).joined = {}
      BY DEF Known
    <2>3. \A u \in Known(q, r).joined : IsMember(r, u)
      BY DEF Known, MInv, Request, Answers
    <2>4. QED
      BY <1>1, <2>1, <2>2, <2>3 DEF BeginWithRoom, Asked, RoomIds, IsMember
  <1>8. StatementOf(q)' /\ Progress(q)' /\ Answers(q)'
    BY <1>1 DEF BeginWithRoom, StatementOf, Progress, Answers
  <1>9. QED
    BY <1>3, <1>4, <1>5, <1>6, <1>7, <1>8, StepKept DEF Request

\* add_member, in either service.
LEMMA KeptAddMember ==
    ASSUME NEW q \in Requests, MInv, EnlistCreator(q) \/ InsertMember(q)
    PROVE  MInv'
  <1>1. /\ AddMember(q) /\ reply' = reply
        /\ op' = op /\ user' = user /\ name' = name /\ room' = room
        /\ nextId' = nextId /\ rooms' = rooms
        /\ shown' = shown /\ asked' = asked /\ answer' = answer
    BY DEF EnlistCreator, InsertMember, request, reads
  <1>2. /\ pc'[q] = "reload" /\ reply'[q] = "none"
        /\ \A p \in Requests \ {q} : pc'[p] = pc[p]
    BY <1>1 DEF MInv, TypeOK, AddMember, Goto, Request, Progress, EnlistCreator,
       InsertMember
  <1>3. \/ op[q] = "create" /\ Created(q)
        \/ op[q] = "join" /\ room[q] \in RoomIds
    BY DEF MInv, Request, StatementOf, Progress, EnlistCreator, InsertMember
  <1>4. members' \in Seq(Member) /\ Grows
    BY <1>1, MemberAdded DEF MInv, Grows
  <1>5. TypeOK'
    BY <1>1, <1>4 DEF MInv, TypeOK, AddMember, Goto, PCs
  <1>6. Tables'
    <2>1. nextId' \in Nat /\ nextId =< nextId' /\ shown' \subseteq RoomIds
      BY <1>1 DEF MInv, TypeOK, Tables
    <2>2. QED
      BY <1>1, <1>2, <2>1, TablesKept DEF MInv
  <1>7. \A p \in Requests \ {q} : Same(p)
    BY <1>1, <1>2 DEF Same
  <1>8. IsMember(room[q], user[q])'
    <2>1. \A i : i = Len(members') => /\ i \in 1 .. Len(members')
                                    /\ members'[i] = [room |-> room[q],
                                                      user |-> user[q]]
      BY <1>1, MemberAdded DEF MInv
    <2>2. QED
      BY <1>1, <2>1 DEF IsMember
  <1>9. Asked(q)'
    BY <1>1, <1>4, GrownIds DEF MInv, Request, Asked, Grows, IsMember
  <1>10. StatementOf(q)' /\ Progress(q)' /\ Answers(q)'
    BY <1>1, <1>2, <1>3, <1>8 DEF StatementOf, Progress, Answers, Created,
       RoomIds
  <1>11. QED
    BY <1>4, <1>5, <1>6, <1>7, <1>9, <1>10, StepKept DEF Request

\* The index holds the name, and the sequence gives no id twice.
LEMMA KeptInsertRoom ==
    ASSUME NEW q \in Requests, MInv, InsertRoom(q) PROVE MInv'
  <1>1. /\ op' = op /\ user' = user /\ name' = name /\ rooms' = rooms
        /\ members' = members /\ shown' = shown /\ asked' = asked
        /\ answer' = answer /\ nextId' = nextId + 1
        /\ room' = [room EXCEPT ![q] = nextId]
    BY DEF InsertRoom, reads
  <1>2. op[q] = "create" /\ reply[q] = "none"
    BY DEF MInv, Request, StatementOf, Progress, InsertRoom
  <1>3. \/ pc' = [pc EXCEPT ![q] = "done"]
           /\ reply' = [reply EXCEPT ![q] = "serverError"]
        \/ pc' = [pc EXCEPT ![q] = "commitRoom"] /\ reply' = reply
           /\ name[q] \notin NamesTaken
    BY DEF InsertRoom, Answer, Goto
  <1>4. TypeOK'
    <2>1. pc' \in [Requests -> PCs] /\ reply' \in [Requests -> Replies]
      BY <1>3 DEF MInv, TypeOK, PCs, Replies
    <2>2. room' \in [Requests -> Nat] /\ nextId' \in Nat
      BY <1>1 DEF MInv, TypeOK
    <2>3. QED
      BY <1>1, <2>1, <2>2 DEF MInv, TypeOK
  <1>5. \A p \in Requests \ {q} : /\ pc'[p] = pc[p] /\ room'[p] = room[p]
                                  /\ reply'[p] = reply[p]
    BY <1>1, <1>3 DEF MInv, TypeOK
  <1>6. Tables'
    <2>1. nextId \in Nat /\ nextId' \in Nat /\ nextId =< nextId'
      BY <1>1 DEF MInv, TypeOK
    <2>2. shown' \subseteq RoomIds
      BY <1>1 DEF MInv, Tables
    <2>3. CASE pc'[q] # "commitRoom"
      BY <1>1, <1>5, <2>1, <2>2, <2>3, TablesKept DEF MInv
    <2>4. CASE pc'[q] = "commitRoom"
      <3>1. name[q] \notin NamesTaken /\ room'[q] = nextId
        BY <1>1, <1>3, <2>4 DEF MInv, TypeOK
      <3>2. /\ RoomIds' = RoomIds /\ NamesTaken' = NamesTaken /\ UniqueNames'
            /\ RoomIds \subseteq Nat /\ \A r \in RoomIds : r < nextId
        BY <1>1 DEF RoomIds, NamesTaken, MInv, TypeOK, Room, Tables, UniqueNames
      <3>3. nextId \notin RoomIds /\ \A r \in RoomIds : r < nextId'
        BY <1>1, <2>1, <3>2
      <3>4. ASSUME NEW p \in Requests \ {q}, pc[p] = "commitRoom"
            PROVE  name[p] # name[q] /\ room[p] < nextId /\ room[p] \in Nat
        BY <3>4 DEF InsertRoom, NamesPending, MInv, TypeOK, Tables, RoomHeld
      <3>5. RoomHeld'
        <4>1. SUFFICES ASSUME NEW p \in Requests, pc'[p] = "commitRoom"
              PROVE  /\ room'[p] < nextId' /\ room'[p] \notin RoomIds
                     /\ name[p] \notin NamesTaken
                     /\ \A o \in Requests :
                           pc'[o] = "commitRoom"
                           /\ (name[o] = name[p] \/ room'[o] = room'[p])
                               => o = p
          BY <1>1, <3>2 DEF RoomHeld
        <4>2. CASE p = q
          BY <1>1, <1>5, <2>1, <3>1, <3>3, <3>4, <4>2
        <4>3. CASE p # q
          <5>1. /\ pc[p] = "commitRoom" /\ room'[p] = room[p]
                /\ room[p] < nextId /\ room[p] \in Nat
                /\ name[p] # name[q] /\ room[p] # room'[q]
            BY <1>5, <2>1, <3>1, <3>4, <4>1, <4>3
          <5>2. ASSUME NEW o \in Requests, pc'[o] = "commitRoom",
                       name[o] = name[p] \/ room'[o] = room'[p]
                PROVE  o = p
            BY <1>5, <5>1, <5>2 DEF MInv, Tables, RoomHeld
          <5>3. QED
            BY <1>1, <2>1, <5>1, <5>2 DEF MInv, Tables, RoomHeld
        <4>4. QED
          BY <4>2, <4>3
      <3>6. QED
        BY <2>2, <3>2, <3>3, <3>5 DEF Tables
    <2>5. QED
      BY <2>3, <2>4
  <1>7. Grows
    BY <1>1 DEF Grows, IsMember
  <1>8. \A p \in Requests \ {q} : Same(p)
    BY <1>1, <1>5 DEF Same
  <1>9. StatementOf(q)' /\ Progress(q)' /\ Answers(q)'
    BY <1>1, <1>2, <1>3 DEF MInv, TypeOK, StatementOf, Progress, Answers
  <1>10. Asked(q)'
    BY <1>1, <1>2, <1>7, GrownIds DEF MInv, Request, Asked
  <1>11. QED
    BY <1>4, <1>6, <1>7, <1>8, <1>9, <1>10, StepKept DEF Request

\* The row that is committed had its name and its id to itself.
LEMMA KeptCommitRoom ==
    ASSUME NEW q \in Requests, MInv, CommitRoom(q) PROVE MInv'
  <1> DEFINE row(p) == [id |-> room[q], name |-> name[q], by |-> q,
                        is_private |-> p]
  <1>1. PICK p \in BOOLEAN : rooms' = rooms \cup {row(p)}
    BY DEF CommitRoom, WithRoomOf
  <1>2. /\ pc[q] = "commitRoom" /\ pc' = [pc EXCEPT ![q] = "enlist"]
        /\ op' = op /\ user' = user /\ name' = name /\ room' = room
        /\ reply' = reply /\ nextId' = nextId /\ members' = members
        /\ shown' = shown /\ asked' = asked /\ answer' = answer
    BY DEF CommitRoom, Goto, request, reads
  <1>3. op[q] = "create" /\ reply[q] = "none"
    BY <1>2 DEF MInv, Request, StatementOf, Progress
  <1>4. TypeOK'
    <2>1. row(p) \in Room
      BY DEF MInv, TypeOK, Room
    <2>2. QED
      BY <1>1, <1>2, <2>1 DEF MInv, TypeOK, PCs
  <1>5. pc'[q] = "enlist" /\ \A o \in Requests \ {q} : pc'[o] = pc[o]
    BY <1>2 DEF MInv, TypeOK
  <1>6. Grows
    BY <1>1, <1>2 DEF Grows, IsMember
  <1>7. Created(q)'
    <2>1. /\ row(p) \in rooms' /\ row(p).id = room[q]
          /\ row(p).name = name[q] /\ row(p).by = q
      BY <1>1
    <2>2. \E x \in rooms' : x.id = room[q] /\ x.name = name[q] /\ x.by = q
      <3> HIDE DEF row
      <3> QED
        BY <2>1
    <2>3. QED
      BY <1>2, <2>2 DEF Created
  <1>8. Tables'
    <2>1. /\ RoomIds' = RoomIds \cup {room[q]}
          /\ NamesTaken' = NamesTaken \cup {name[q]}
      <3>1. row(p).id = room[q] /\ row(p).name = name[q]
        OBVIOUS
      <3> HIDE DEF row
      <3>2. QED
        BY <1>1, <3>1 DEF RoomIds, NamesTaken
    <2>2. /\ room[q] < nextId /\ room[q] \notin RoomIds
          /\ name[q] \notin NamesTaken
      BY <1>2 DEF MInv, Tables, RoomHeld
    <2>3. RoomHeld'
      BY <1>2, <1>5, <2>1 DEF MInv, Tables, RoomHeld
    <2>4. UniqueNames'
      BY <1>1, <2>2 DEF MInv, Tables, UniqueNames, RoomIds, NamesTaken
    <2>5. QED
      BY <1>2, <2>1, <2>2, <2>3, <2>4 DEF MInv, Tables
  <1>9. \A o \in Requests \ {q} : Same(o)
    BY <1>2, <1>5 DEF Same
  <1>10. StatementOf(q)' /\ Progress(q)' /\ Answers(q)'
    BY <1>2, <1>3, <1>5, <1>7 DEF StatementOf, Progress, Answers
  <1>11. Asked(q)'
    BY <1>2, <1>6, GrownIds DEF MInv, Request, Asked, IsMember
  <1>12. QED
    BY <1>4, <1>6, <1>8, <1>9, <1>10, <1>11, StepKept DEF Request

-----------------------------------------------------------------------------

LEMMA MInvNext == ASSUME MInv, [Next]_vars PROVE MInv'
  <1>1. ASSUME NEW q \in Requests, Step(q) PROVE MInv'
    BY <1>1, KeptFindName, KeptInsertRoom, KeptCommitRoom, KeptAddMember,
       KeptFindRoom, KeptFindMember, KeptReload, KeptReadMembers, KeptReadPage
       DEF Step
  <1>2. ASSUME NEW q \in Requests, NEW r \in 1 .. nextId, BeginWithRoom(q, r)
        PROVE  MInv'
    <2>1. r \in Nat
      BY DEF MInv, TypeOK
    <2>2. QED
      BY <1>2, <2>1, KeptBeginWithRoom
  <1>3. CASE UNCHANGED vars
    <2>1. /\ UNCHANGED <<op, user, name, room, pc, reply, nextId, rooms>>
          /\ UNCHANGED <<members, shown, asked, answer>>
      BY <1>3 DEF vars, reads
    <2>2. TypeOK'
      BY <2>1 DEF MInv, TypeOK
    <2>3. Tables'
      BY <2>1 DEF MInv, Tables, RoomHeld, RoomIds, NamesTaken, UniqueNames
    <2>4. Grows /\ \A p \in Requests : Same(p)
      BY <2>1 DEF Grows, Same, IsMember
    <2>5. \A p \in Requests : Request(p)'
      BY <2>4, OthersKept DEF MInv
    <2>6. QED
      BY <2>2, <2>3, <2>5 DEF MInv
  <1>4. QED
    BY <1>1, <1>2, <1>3, KeptBeginCreate, KeptBeginList, KeptFail DEF Next

\* Tables and requests of RoomService and its repository stay related as MInv
\* says, over any interleaving of statements, commits and failures.
THEOREM MembershipInvariance == Spec => []MInv
  BY MInvInit, MInvNext, PTL DEF Spec

\* The tables and the requests have their types (rooms and requests of the
\* two services, rooms.py).
THEOREM MembershipTyping == Spec => []TypeOK
  <1>1. MInv => TypeOK
    BY DEF MInv
  <1>2. QED
    BY <1>1, MembershipInvariance, PTL

\* No two rooms have one name or one id, however the checks of create_room
\* and the inserts of any number of requests interleave.
THEOREM RoomNamesUnique == Spec => []UniqueNames
  <1>1. MInv => UniqueNames
    BY DEF MInv, Tables
  <1>2. QED
    BY <1>1, MembershipInvariance, PTL

\* A room that was created, or joined, has the member it was answered to.
THEOREM MemberStored == Spec => []SuccessIsStored
  BY MInvImplies, MembershipInvariance, PTL

\* A refused name is taken, a refused joiner is a member.
THEOREM MembershipRefusalTrue == Spec => []RefusalIsTrue
  BY MInvImplies, MembershipInvariance, PTL

\* A room some listing showed is found by every request sent after that.
THEOREM ListedRoomFound == Spec => []ListedIsFound
  BY MInvImplies, MembershipInvariance, PTL

\* Whoever was told of a membership is in every later listing of the room.
THEOREM ToldMembersShown == Spec => []MembersShown
  BY MInvImplies, MembershipInvariance, PTL
=============================================================================
