---------------------------- MODULE Registration ----------------------------
(***************************************************************************)
(* POST /auth/register: AuthService.register over SqlAlchemyUserRepository, *)
(* by concurrent requests of any number of nodes on one database.          *)
(*                                                                         *)
(* Two lookups come before one insert, each a statement that sees what was *)
(* committed when it runs.  The insert makes its entries in the unique     *)
(* indexes of users one after the other, the email's first (they are in    *)
(* the order alembic 3c19629e0fb9 created them); an entry that another     *)
(* open transaction has made is waited for.                                *)
(***************************************************************************)
EXTENDS FiniteSets

CONSTANTS Requests,  \* the HTTP requests
          Emails,
          Usernames,
          Commands   \* bound: what the requests may ask for together

ASSUME RegistrationAssumption ==
    Commands \subseteq [Requests -> [email : Emails, username : Usernames]]

VARIABLES
    cmd,    \* per request, the email and username to register
    pc,     \* per request, the statement it does next
    reply,  \* per request, how register() ended
    users   \* the committed rows of users, and which request made them

vars == <<cmd, pc, reply, users>>

\* A row of users; "by" is the request that inserted it.
User == [email : Emails, username : Usernames, by : Requests]

PCs == {"idle", "findEmail", "findUsername", "insert", "indexUsername",
        "commit", "reload", "done"}

Replies == {"none", "ok", "emailRegistered", "usernameTaken",
            "integrityError", "serverError"}

\* Rows have all their columns; requests are at a known statement.
TypeOK ==
    /\ cmd \in [Requests -> [email : Emails, username : Usernames]]
    /\ pc \in [Requests -> PCs]
    /\ reply \in [Requests -> Replies]
    /\ users \in SUBSET User

\* Who registers as whom does not depend on the state: it is chosen at first.
Init ==
    /\ cmd \in Commands
    /\ pc = [q \in Requests |-> "idle"]
    /\ reply = [q \in Requests |-> "none"]
    /\ users = {}

-----------------------------------------------------------------------------
(* The table of users and its two unique indexes.                          *)

EmailsTaken    == {u.email : u \in users}
UsernamesTaken == {u.username : u \in users}

\* Mutation: IntegrityError leaves the transaction open, get_db rolls nothing
\* back.
EmailsNotRolledBack ==
    {cmd[q].email : q \in {p \in Requests :
        \/ pc[p] \in {"indexUsername", "commit"}
        \/ reply[p] = "integrityError"}}

\* The index entries of the inserts that are not committed.
EmailsPending ==
    {cmd[q].email :
        q \in {p \in Requests : pc[p] \in {"indexUsername", "commit"}}}

UsernamesPending ==
    {cmd[q].username : q \in {p \in Requests : pc[p] = "commit"}}

Goto(q, where) == pc' = [pc EXCEPT ![q] = where]

\* register() ends; an error closes the session and rolls back.
Answer(q, what) ==
    /\ Goto(q, "done")
    /\ reply' = [reply EXCEPT ![q] = what]

-----------------------------------------------------------------------------
(* The request, statement by statement.                                    *)

Begin(q) ==
    /\ pc[q] = "idle"
    /\ Goto(q, "findEmail")
    /\ UNCHANGED <<cmd, reply, users>>

\* Mutation: the lookup also sees rows that are not committed.
FindEmailUncommitted(q) ==
    /\ pc[q] = "findEmail"
    /\ IF cmd[q].email \in EmailsTaken \cup EmailsPending
       THEN Answer(q, "emailRegistered")
       ELSE Goto(q, "findUsername") /\ UNCHANGED reply
    /\ UNCHANGED <<cmd, users>>

FindEmail(q) ==
    /\ pc[q] = "findEmail"
    /\ \/ cmd[q].email \in EmailsTaken /\ Answer(q, "emailRegistered")
       \/ cmd[q].email \notin EmailsTaken /\ Goto(q, "findUsername")
          /\ UNCHANGED reply
    /\ UNCHANGED <<cmd, users>>

FindUsername(q) ==
    /\ pc[q] = "findUsername"
    /\ \/ cmd[q].username \in UsernamesTaken /\ Answer(q, "usernameTaken")
       \/ cmd[q].username \notin UsernamesTaken /\ Goto(q, "insert")
          /\ UNCHANGED reply
    /\ UNCHANGED <<cmd, users>>

InsertEmail(q) ==
    /\ pc[q] = "insert" /\ cmd[q].email \notin EmailsPending
    /\ \/ cmd[q].email \in EmailsTaken /\ Answer(q, "integrityError")
       \/ cmd[q].email \notin EmailsTaken /\ Goto(q, "indexUsername")
          /\ UNCHANGED reply
    /\ UNCHANGED <<cmd, users>>

\* Mutation: only the email is unique.
InsertUsernameUnindexed(q) ==
    /\ pc[q] = "indexUsername"
    /\ Goto(q, "commit")
    /\ UNCHANGED <<cmd, reply, users>>

InsertUsername(q) ==
    /\ pc[q] = "indexUsername" /\ cmd[q].username \notin UsernamesPending
    /\ \/ cmd[q].username \in UsernamesTaken /\ Answer(q, "integrityError")
       \/ cmd[q].username \notin UsernamesTaken /\ Goto(q, "commit")
          /\ UNCHANGED reply
    /\ UNCHANGED <<cmd, users>>

\* Mutation: the row is stored without the request's email.
CommitNameless(q) ==
    /\ pc[q] = "commit"
    /\ users' = users \cup {[username |-> cmd[q].username, by |-> q]}
    /\ Goto(q, "reload")
    /\ UNCHANGED <<cmd, reply>>

\* Mutation: the row is flushed, read back, and never committed.
CommitForgotten(q) ==
    /\ pc[q] = "commit"
    /\ Goto(q, "reload")
    /\ UNCHANGED <<cmd, reply, users>>

Commit(q) ==
    /\ pc[q] = "commit"
    /\ users' = users \cup {[email |-> cmd[q].email,
                             username |-> cmd[q].username, by |-> q]}
    /\ Goto(q, "reload")
    /\ UNCHANGED <<cmd, reply>>

\* refresh() reads the committed row back.
Reload(q) ==
    /\ pc[q] = "reload"
    /\ Answer(q, "ok")
    /\ UNCHANGED <<cmd, users>>

\* The node stops, or loses the database, between two statements: what was
\* not committed is gone, what was stays, although the answer is an error.
Fail(q) ==
    /\ pc[q] \notin {"idle", "done"}
    /\ Answer(q, "serverError")
    /\ UNCHANGED <<cmd, users>>

Step(q) ==
    \/ FindEmail(q) \/ FindUsername(q)
    \/ InsertEmail(q) \/ InsertUsername(q)
    \/ Commit(q) \/ Reload(q)

Next == \E q \in Requests : Begin(q) \/ Step(q) \/ Fail(q)

Spec == Init /\ [][Next]_vars

-----------------------------------------------------------------------------

\* No two accounts share an email or a username, though every request looked
\* for both in statements before the one that inserts them.
UniqueAccounts ==
    \A u, v \in users : u.email = v.email \/ u.username = v.username => u = v

\* 201 means that the account is there, under this email and this username.
SuccessIsStored ==
    \A q \in Requests : reply[q] = "ok" =>
        [email |-> cmd[q].email, username |-> cmd[q].username, by |-> q]
            \in users

\* "already registered" and "already taken" name the field that is in use,
\* and it is in use for good: not by a registration that then failed.  So it
\* is where a duplicate is refused by the unhandled IntegrityError instead.
RefusalIsTrue ==
    \A q \in Requests :
        /\ reply[q] = "emailRegistered" => cmd[q].email \in EmailsTaken
        /\ reply[q] = "usernameTaken" => cmd[q].username \in UsernamesTaken
        /\ reply[q] = "integrityError" => \/ cmd[q].email \in EmailsTaken
                                          \/ cmd[q].username \in UsernamesTaken

\* Requests that wait for each other's index entries do not wait for ever:
\* whatever overlap their emails and usernames have, each is answered.
Answered == \A q \in Requests : pc[q] # "idle" ~> pc[q] = "done"
=============================================================================
