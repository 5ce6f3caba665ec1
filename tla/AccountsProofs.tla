--------------------------- MODULE AccountsProofs ---------------------------
(***************************************************************************)
(* What Registration and Login guarantee, for any requests, emails,        *)
(* usernames and passwords, and for any lifetime and granularity of time.  *)
(*                                                                         *)
(* An account is unique because an insert holds its index entries until it *)
(* is committed: what is pending is neither stored nor pending elsewhere   *)
(* (EmailHeld, UsernameHeld).  What a login relies on are rows that stay.  *)
(***************************************************************************)
EXTENDS Login, TLAPS

\* The row that q stores.
Row(q) == [email |-> cmd[q].email, username |-> cmd[q].username, by |-> q]

HoldsEmail(q)    == pc[q] \in {"indexUsername", "commit"}
HoldsUsername(q) == pc[q] = "commit"

\* An email that an open transaction has entered in its index is nobody else's.
EmailHeld ==
    \A q \in Requests : HoldsEmail(q) =>
        /\ cmd[q].email \notin EmailsTaken
        /\ \A p \in Requests :
              HoldsEmail(p) /\ cmd[p].email = cmd[q].email => p = q

\* The same of a username.
UsernameHeld ==
    \A q \in Requests : HoldsUsername(q) =>
        /\ cmd[q].username \notin UsernamesTaken
        /\ \A p \in Requests :
              HoldsUsername(p) /\ cmd[p].username = cmd[q].username => p = q

\* A request that reads its row back has stored it.
ReloadStored == \A q \in Requests : pc[q] = "reload" => Row(q) \in users

\* A stored row is that of the request it names.
RowsOK == \A u \in users : u = Row(u.by)

RInv ==
    /\ TypeOK
    /\ EmailHeld /\ UsernameHeld
    /\ ReloadStored /\ RowsOK
    /\ UniqueAccounts /\ SuccessIsStored /\ RefusalIsTrue

-----------------------------------------------------------------------------

LEMMA RInvInit == ASSUME Init PROVE RInv
  BY RegistrationAssumption
  DEF Init, RInv, TypeOK, EmailHeld, UsernameHeld, ReloadStored, RowsOK,
      UniqueAccounts, SuccessIsStored, RefusalIsTrue, HoldsEmail,
      HoldsUsername, PCs, Replies, User

\* A step that stores nothing, enters nothing in an index and says nothing new
\* of a row keeps the invariant.
LEMMA QuietStep ==
    ASSUME RInv, NEW q \in Requests,
           UNCHANGED <<cmd, users>>,
           NEW where \in {"findEmail", "findUsername", "insert", "done"},
           Goto(q, where),
           NEW what \in Replies,
           reply' = [reply EXCEPT ![q] = what],
           what = "ok" => pc[q] = "reload" \/ reply[q] = "ok",
           what = "emailRegistered" =>
               cmd[q].email \in EmailsTaken \/ reply[q] = what,
           what = "usernameTaken" =>
               cmd[q].username \in UsernamesTaken \/ reply[q] = what,
           what = "integrityError" =>
               \/ cmd[q].email \in EmailsTaken
               \/ cmd[q].username \in UsernamesTaken
               \/ reply[q] = what
    PROVE  RInv'
  <1>1. TypeOK'
    BY DEF RInv, TypeOK, Goto, PCs
  <1>2. EmailHeld' /\ UsernameHeld'
    BY DEF RInv, TypeOK, Goto, EmailHeld, UsernameHeld, HoldsEmail,
           HoldsUsername, EmailsTaken, UsernamesTaken
  <1>3. ReloadStored' /\ RowsOK' /\ UniqueAccounts'
    BY DEF RInv, TypeOK, Goto, ReloadStored, RowsOK, UniqueAccounts, Row
  <1>4. SuccessIsStored'
    BY DEF RInv, TypeOK, ReloadStored, SuccessIsStored, Row
  <1>5. RefusalIsTrue'
    BY DEF RInv, TypeOK, RefusalIsTrue, EmailsTaken, UsernamesTaken
  <1>6. QED
    BY <1>1, <1>2, <1>3, <1>4, <1>5 DEF RInv

\* Going on without an answer.
LEMMA QuietGoto ==
    ASSUME RInv, NEW q \in Requests,
           NEW where \in {"findEmail", "findUsername", "insert"},
           Goto(q, where), UNCHANGED <<cmd, reply, users>>
    PROVE  RInv'
  <1>1. reply' = [reply EXCEPT ![q] = reply[q]] /\ reply[q] \in Replies
    BY DEF RInv, TypeOK
  <1>2. /\ reply[q] = "integrityError" =>
              \/ cmd[q].email \in EmailsTaken
              \/ cmd[q].username \in UsernamesTaken
              \/ reply[q] = reply[q]
    OBVIOUS
  <1>3. QED
    BY <1>1, QuietStep

LEMMA InsertEmailStep ==
    ASSUME RInv, NEW q \in Requests, InsertEmail(q) PROVE RInv'
  <1>1. CASE cmd[q].email \in EmailsTaken /\ Answer(q, "integrityError")
    BY <1>1, QuietStep DEF Answer, InsertEmail, Replies
  <1>2. CASE /\ cmd[q].email \notin EmailsTaken
             /\ Goto(q, "indexUsername") /\ UNCHANGED reply
    <2>1. cmd[q].email \notin EmailsPending /\ UNCHANGED <<cmd, users, reply>>
      BY <1>2 DEF InsertEmail
    <2>2. TypeOK'
      BY <1>2, <2>1 DEF RInv, TypeOK, Goto, PCs
    <2>3. \A p \in Requests : HoldsEmail(p) => cmd[p].email # cmd[q].email
      BY <2>1 DEF EmailsPending, HoldsEmail
    <2>4. EmailHeld'
      BY <1>2, <2>1, <2>3
      DEF RInv, TypeOK, Goto, EmailHeld, HoldsEmail, EmailsTaken
    <2>5. UsernameHeld'
      BY <1>2, <2>1
      DEF RInv, TypeOK, Goto, UsernameHeld, HoldsUsername, UsernamesTaken
    <2>6. ReloadStored' /\ RowsOK' /\ UniqueAccounts' /\ SuccessIsStored'
      BY <1>2, <2>1
      DEF RInv, TypeOK, Goto, ReloadStored, RowsOK, UniqueAccounts, Row,
          SuccessIsStored
    <2>7. RefusalIsTrue'
      BY <2>1 DEF RInv, RefusalIsTrue, EmailsTaken, UsernamesTaken
    <2>8. QED
      BY <2>2, <2>4, <2>5, <2>6, <2>7 DEF RInv
  <1>3. QED
    BY <1>1, <1>2 DEF InsertEmail

LEMMA InsertUsernameStep ==
    ASSUME RInv, NEW q \in Requests, InsertUsername(q) PROVE RInv'
  <1>1. CASE cmd[q].username \in UsernamesTaken /\ Answer(q, "integrityError")
    BY <1>1, QuietStep DEF Answer, InsertUsername, Replies
  <1>2. CASE /\ cmd[q].username \notin UsernamesTaken
             /\ Goto(q, "commit") /\ UNCHANGED reply
    <2>1. /\ pc[q] = "indexUsername" /\ cmd[q].username \notin UsernamesPending
          /\ UNCHANGED <<cmd, users, reply>>
      BY <1>2 DEF InsertUsername
    <2>2. TypeOK'
      BY <1>2, <2>1 DEF RInv, TypeOK, Goto, PCs
    <2>3. \A p \in Requests :
              HoldsUsername(p) => cmd[p].username # cmd[q].username
      BY <2>1 DEF UsernamesPending, HoldsUsername
    <2>4. EmailHeld'
      BY <1>2, <2>1
      DEF RInv, TypeOK, Goto, EmailHeld, HoldsEmail, EmailsTaken
    <2>5. UsernameHeld'
      BY <1>2, <2>1, <2>3
      DEF RInv, TypeOK, Goto, UsernameHeld, HoldsUsername, UsernamesTaken
    <2>6. ReloadStored' /\ RowsOK' /\ UniqueAccounts' /\ SuccessIsStored'
      BY <1>2, <2>1
      DEF RInv, TypeOK, Goto, ReloadStored, RowsOK, UniqueAccounts, Row,
          SuccessIsStored
    <2>7. RefusalIsTrue'
      BY <2>1 DEF RInv, RefusalIsTrue, EmailsTaken, UsernamesTaken
    <2>8. QED
      BY <2>2, <2>4, <2>5, <2>6, <2>7 DEF RInv
  <1>3. QED
    BY <1>1, <1>2 DEF InsertUsername

\* What q held is now stored, and nobody else holds it.
LEMMA CommitStep ==
    ASSUME RInv, NEW q \in Requests, Commit(q) PROVE RInv'
  <1>1. /\ pc[q] = "commit" /\ users' = users \cup {Row(q)}
        /\ Goto(q, "reload") /\ UNCHANGED <<cmd, reply>>
    BY DEF Commit, Row
  <1>2. Row(q) \in User
    BY RegistrationAssumption DEF RInv, TypeOK, Row, User
  <1>3. TypeOK'
    BY <1>1, <1>2 DEF RInv, TypeOK, Goto, PCs
  <1>4. /\ EmailsTaken' = EmailsTaken \cup {cmd[q].email}
        /\ UsernamesTaken' = UsernamesTaken \cup {cmd[q].username}
    <2>1. /\ EmailsTaken' = {u.email : u \in users \cup {Row(q)}}
          /\ UsernamesTaken' = {u.username : u \in users \cup {Row(q)}}
      BY <1>1 DEF EmailsTaken, UsernamesTaken
    <2>2. Row(q).email = cmd[q].email /\ Row(q).username = cmd[q].username
      BY DEF Row
    <2>3. \A x : x \in EmailsTaken' <=> x \in EmailsTaken \cup {cmd[q].email}
      BY <2>1, <2>2 DEF EmailsTaken
    <2>4. \A x : x \in UsernamesTaken' <=>
                  x \in UsernamesTaken \cup {cmd[q].username}
      BY <2>1, <2>2 DEF UsernamesTaken
    <2>5. QED
      BY <2>3, <2>4
  <1>5. /\ cmd[q].email \notin EmailsTaken
        /\ cmd[q].username \notin UsernamesTaken
    BY <1>1 DEF RInv, EmailHeld, UsernameHeld, HoldsEmail, HoldsUsername
  <1>6. EmailHeld' /\ UsernameHeld'
    BY <1>1, <1>4
    DEF RInv, TypeOK, Goto, EmailHeld, UsernameHeld, HoldsEmail, HoldsUsername
  <1>7. ReloadStored' /\ RowsOK'
    BY <1>1 DEF RInv, TypeOK, Goto, ReloadStored, RowsOK, Row
  <1>8. UniqueAccounts'
    <2>1. \A u \in users :
              u.email # Row(q).email /\ u.username # Row(q).username
      BY <1>5 DEF EmailsTaken, UsernamesTaken, Row
    <2>2. QED
      BY <1>1, <2>1 DEF RInv, UniqueAccounts
  <1>9. SuccessIsStored' /\ RefusalIsTrue'
    BY <1>1, <1>4 DEF RInv, SuccessIsStored, RefusalIsTrue
  <1>10. QED
    BY <1>3, <1>6, <1>7, <1>8, <1>9 DEF RInv

-----------------------------------------------------------------------------

LEMMA RInvNext == ASSUME RInv, [Next]_vars PROVE RInv'
  <1>1. CASE UNCHANGED vars
    BY <1>1
    DEF RInv, TypeOK, EmailHeld, UsernameHeld, ReloadStored, RowsOK, Row,
        UniqueAccounts, SuccessIsStored, RefusalIsTrue, HoldsEmail,
        HoldsUsername, EmailsTaken, UsernamesTaken, vars
  <1>2. ASSUME NEW q \in Requests, Begin(q) PROVE RInv'
    BY <1>2, QuietGoto DEF Begin
  <1>3. ASSUME NEW q \in Requests, FindEmail(q) PROVE RInv'
    <2>1. CASE cmd[q].email \in EmailsTaken /\ Answer(q, "emailRegistered")
      BY <1>3, <2>1, QuietStep DEF FindEmail, Answer, Replies
    <2>2. CASE Goto(q, "findUsername") /\ UNCHANGED reply
      BY <1>3, <2>2, QuietGoto DEF FindEmail
    <2>3. QED
      BY <1>3, <2>1, <2>2 DEF FindEmail
  <1>4. ASSUME NEW q \in Requests, FindUsername(q) PROVE RInv'
    <2>1. CASE cmd[q].username \in UsernamesTaken /\ Answer(q, "usernameTaken")
      BY <1>4, <2>1, QuietStep DEF FindUsername, Answer, Replies
    <2>2. CASE Goto(q, "insert") /\ UNCHANGED reply
      BY <1>4, <2>2, QuietGoto DEF FindUsername
    <2>3. QED
      BY <1>4, <2>1, <2>2 DEF FindUsername
  <1>5. ASSUME NEW q \in Requests, Reload(q) PROVE RInv'
    BY <1>5, QuietStep DEF Reload, Answer, Replies
  <1>6. ASSUME NEW q \in Requests, Fail(q) PROVE RInv'
    BY <1>6, QuietStep DEF Fail, Answer, Replies
  <1>7. QED
    BY <1>1, <1>2, <1>3, <1>4, <1>5, <1>6, InsertEmailStep,
       InsertUsernameStep, CommitStep DEF Next, Step

LEMMA AccountsStep == AccountsNext => [Next]_vars
  BY DEF AccountsNext

\* What is pending in an index is held by one request, and stored by none.
THEOREM RegistrationInvariance == AccountsSpec => []RInv
  <1>1. AccountsInit => RInv
    BY RInvInit DEF AccountsInit
  <1>2. RInv /\ [AccountsNext]_<<vars, loginVars>> => RInv'
    BY RInvNext, AccountsStep DEF vars
  <1>3. QED
    BY <1>1, <1>2, PTL DEF AccountsSpec

\* Every reachable state of the registrations is well typed.
THEOREM AccountsTyping == AccountsSpec => []TypeOK
  BY RegistrationInvariance, PTL DEF RInv

\* No two accounts share an email or a username.
THEOREM AccountsUnique == AccountsSpec => []UniqueAccounts
  BY RegistrationInvariance, PTL DEF RInv

\* A registration that was answered 201 is stored.
THEOREM SuccessStored == AccountsSpec => []SuccessIsStored
  BY RegistrationInvariance, PTL DEF RInv

\* A registration that was refused for a duplicate met one.
THEOREM RefusalTrue == AccountsSpec => []RefusalIsTrue
  BY RegistrationInvariance, PTL DEF RInv

\* The requests that hold the index entry which q is to make next.
WaitsFor(q) ==
    {p \in Requests :
        \/ pc[q] = "insert" /\ HoldsEmail(p) /\ cmd[p].email = cmd[q].email
        \/ /\ pc[q] = "indexUsername" /\ HoldsUsername(p)
           /\ cmd[p].username = cmd[q].username}

\* A request waits for one other at a time, that one perhaps for a third, and
\* the third for none.
WaitsAreShort ==
    \A q \in Requests :
        /\ \A p, r \in WaitsFor(q) : p = r
        /\ \A p \in WaitsFor(q) : \A r \in WaitsFor(p) : WaitsFor(r) = {}

\* Registrations that hold an index entry and wait for another one, as an
\* insert into two indexes does, never wait in a circle, whatever overlap
\* their emails and usernames have.
THEOREM NoCircularWait == AccountsSpec => []WaitsAreShort
  <1>1. ASSUME RInv, NEW q \in Requests,
               NEW p \in WaitsFor(q), NEW r \in WaitsFor(q)
        PROVE  p = r
    BY <1>1 DEF RInv, EmailHeld, UsernameHeld, HoldsEmail, HoldsUsername,
                WaitsFor
  <1>2. ASSUME NEW q \in Requests, NEW p \in WaitsFor(q), NEW r \in WaitsFor(p)
        PROVE  WaitsFor(r) = {}
    BY <1>2 DEF HoldsEmail, HoldsUsername, WaitsFor
  <1>3. RInv => WaitsAreShort
    BY <1>1, <1>2 DEF WaitsAreShort
  <1>4. QED
    BY <1>3, RegistrationInvariance, PTL

-----------------------------------------------------------------------------
(* Logins.                                                                 *)

Cred  == [email : Emails, password : Passwords, known : BOOLEAN]
Token == [sub : Requests, iat : Nat, used : Nat, exp : Nat]

LoginTyping ==
    /\ at \in [Logins -> {"idle", "find", "invalid", "token", "welcome",
                          "expired", "gone"}]
    /\ cred \in [Logins -> {NoCred} \cup Cred]
    /\ token \in [Logins -> {NoToken} \cup Token]
    /\ \A l \in Logins :
        /\ at[l] # "idle" => cred[l] \in Cred
        /\ at[l] \in {"token", "welcome", "expired", "gone"} =>
              token[l] \in Token

\* A client that was told 201 finds the row it was told of.
KnownStored ==
    \A l \in Logins : cred[l].known =>
        \E u \in users : /\ u.email = cred[l].email
                         /\ PasswordOf[u.by] = cred[l].password

\* The token is the account's that the password let in.
SubjectStored ==
    \A l \in Logins : at[l] \in {"token", "welcome", "expired", "gone"} =>
        \E u \in users :
            /\ u.by = token[l].sub /\ u.email = cred[l].email
            /\ Head72[cred[l].password] = Head72[PasswordOf[u.by]]

\* exp is the lifetime's end, cut to the second.
ExpiryCut ==
    \A l \in Logins : at[l] \in {"token", "welcome", "expired", "gone"} =>
        LET end == token[l].iat + Lifetime
            exp == token[l].exp * TicksPerSecond
        IN  exp <= end /\ end < exp + TicksPerSecond

LInv ==
    /\ LoginTyping /\ KnownStored /\ SubjectStored /\ ExpiryCut
    /\ RegisteredCanLogin /\ TokenLifetime

LEMMA LInvInit == ASSUME AccountsInit PROVE LInv
  BY DEF Init, AccountsInit, LInv, LoginTyping, KnownStored, SubjectStored,
         ExpiryCut, RegisteredCanLogin, TokenLifetime, NoCred, NoToken

\* Cutting to whole seconds loses less than one.
LEMMA WholeSecondsCut ==
    ASSUME NEW t \in Nat
    PROVE  /\ WholeSeconds(t) \in Nat
           /\ WholeSeconds(t) * TicksPerSecond <= t
           /\ t < WholeSeconds(t) * TicksPerSecond + TicksPerSecond
  <1>1. TicksPerSecond \in Nat /\ TicksPerSecond > 0
    BY LoginAssumption
  <1>2. /\ t \div TicksPerSecond \in Nat
        /\ (t \div TicksPerSecond) * TicksPerSecond <= t
        /\ t < (t \div TicksPerSecond) * TicksPerSecond + TicksPerSecond
    BY <1>1, SMTT(60)
  <1>3. QED
    BY <1>2 DEF WholeSeconds

\* Rows stay.
LEMMA RowsStay == ASSUME [Next]_vars PROVE users \subseteq users'
  BY DEF vars, Next, Begin, Step, FindEmail, FindUsername, InsertEmail,
         InsertUsername, Commit, Reload, Fail

LEMMA LoginsKept ==
    ASSUME LInv, UNCHANGED loginVars, users \subseteq users' PROVE LInv'
  <1>1. LoginTyping' /\ ExpiryCut' /\ RegisteredCanLogin' /\ TokenLifetime'
    BY DEF LInv, loginVars, LoginTyping, ExpiryCut, RegisteredCanLogin,
           TokenLifetime
  <1>2. KnownStored' /\ SubjectStored'
    BY DEF LInv, loginVars, KnownStored, SubjectStored
  <1>3. QED
    BY <1>1, <1>2 DEF LInv

LEMMA BeginLoginStep ==
    ASSUME RInv, LInv, UNCHANGED vars,
           NEW l \in Logins, NEW q \in Requests, NEW p \in Passwords,
           BeginLogin(l, q, p)
    PROVE  LInv'
  <1> DEFINE known == \E r \in Requests : /\ reply[r] = "ok"
                                         /\ cmd[r].email = cmd[q].email
                                         /\ PasswordOf[r] = p
             it == [email |-> cmd[q].email, password |-> p, known |-> known]
  <1>1. /\ at[l] = "idle" /\ at' = [at EXCEPT ![l] = "find"]
        /\ cred' = [cred EXCEPT ![l] = it] /\ UNCHANGED <<token, users>>
    BY DEF BeginLogin, vars
  <1>2. it \in Cred
    <2>1. cmd[q].email \in Emails
      BY RegistrationAssumption DEF RInv, TypeOK
    <2>2. known \in BOOLEAN
      OBVIOUS
    <2>3. QED
      BY <2>1, <2>2 DEF Cred
  <1>3. known => \E u \in users : u.email = it.email /\ PasswordOf[u.by] = p
    BY DEF RInv, SuccessIsStored
  <1> HIDE DEF known
  <1>4. LoginTyping'
    BY <1>1, <1>2 DEF LInv, LoginTyping
  <1>5. KnownStored'
    BY <1>1, <1>3 DEF LInv, LoginTyping, KnownStored
  <1>6. SubjectStored' /\ ExpiryCut' /\ RegisteredCanLogin' /\ TokenLifetime'
    BY <1>1
    DEF LInv, LoginTyping, SubjectStored, ExpiryCut, RegisteredCanLogin,
        TokenLifetime
  <1>7. QED
    BY <1>4, <1>5, <1>6 DEF LInv

LEMMA AuthenticateStep ==
    ASSUME RInv, LInv, UNCHANGED vars, NEW l \in Logins, Authenticate(l)
    PROVE  LInv'
  <1>1. at[l] = "find" /\ cred[l] \in Cred /\ UNCHANGED <<cred, users>>
    BY DEF Authenticate, LInv, LoginTyping, vars
  <1>2. CASE Matching(l) = {} /\ at' = [at EXCEPT ![l] = "invalid"]
             /\ UNCHANGED token
    <2>1. ~cred[l].known
      BY <1>2 DEF LInv, KnownStored, Matching, verify_password, hash_password
    <2>2. LoginTyping' /\ KnownStored' /\ SubjectStored' /\ ExpiryCut'
      BY <1>1, <1>2
      DEF LInv, LoginTyping, KnownStored, SubjectStored, ExpiryCut
    <2>3. RegisteredCanLogin' /\ TokenLifetime'
      BY <1>1, <1>2, <2>1
      DEF LInv, LoginTyping, RegisteredCanLogin, TokenLifetime
    <2>4. QED
      BY <2>2, <2>3 DEF LInv
  <1>3. ASSUME NEW u \in Matching(l), NEW now \in 0 .. TicksPerSecond - 1,
               at' = [at EXCEPT ![l] = "token"],
               token' = [token EXCEPT ![l] =
                           [sub |-> u.by, iat |-> now, used |-> now,
                            exp |-> WholeSeconds(now + Lifetime)]]
        PROVE  LInv'
    <2> DEFINE it == [sub |-> u.by, iat |-> now, used |-> now,
                      exp |-> WholeSeconds(now + Lifetime)]
    <2>1. /\ now \in Nat /\ Lifetime \in Nat /\ TicksPerSecond \in Nat
      BY LoginAssumption
    <2>2. /\ it.exp \in Nat
          /\ it.exp * TicksPerSecond <= now + Lifetime
          /\ now + Lifetime < it.exp * TicksPerSecond + TicksPerSecond
      <3>1. now + Lifetime \in Nat
        BY <2>1
      <3>2. QED
        BY <3>1, WholeSecondsCut
    <2>3. /\ u \in users /\ u.email = cred[l].email
          /\ Head72[cred[l].password] = Head72[PasswordOf[u.by]]
      BY DEF Matching, verify_password, hash_password
    <2>4. it \in Token
      BY <2>1, <2>2, <2>3 DEF RInv, TypeOK, User, Token
    <2>5. /\ it.sub = u.by /\ it.iat = now
          /\ at' = [at EXCEPT ![l] = "token"]
          /\ token' = [token EXCEPT ![l] = it]
      BY <1>3
    <2> HIDE DEF it
    <2>6. LoginTyping' /\ KnownStored' /\ RegisteredCanLogin'
      BY <1>1, <2>4, <2>5
      DEF LInv, LoginTyping, KnownStored, RegisteredCanLogin
    <2>7. SubjectStored'
      BY <1>1, <2>3, <2>5 DEF LInv, LoginTyping, SubjectStored
    <2>8. ExpiryCut'
      BY <1>1, <2>2, <2>5 DEF LInv, LoginTyping, ExpiryCut
    <2>9. TokenLifetime'
      BY <1>1, <2>5 DEF LInv, LoginTyping, TokenLifetime
    <2>10. QED
      BY <2>6, <2>7, <2>8, <2>9 DEF LInv
  <1>4. QED
    BY <1>2, <1>3 DEF Authenticate

LEMMA UseTokenStep ==
    ASSUME RInv, LInv, UNCHANGED vars, NEW l \in Logins, UseToken(l)
    PROVE  LInv'
  <1>1. PICK now \in token[l].used .. token[l].iat + Lifetime + TicksPerSecond :
            /\ token' = [token EXCEPT ![l].used = now]
            /\ at' = [at EXCEPT ![l] = get_user_from_token(token[l], now)]
    BY DEF UseToken
  <1>2. at[l] \in {"token", "welcome"} /\ UNCHANGED <<cred, users>>
    BY DEF UseToken, vars
  <1>3. token[l] \in Token /\ cred[l] \in Cred
    BY <1>2 DEF LInv, LoginTyping
  <1>4. /\ token[l].iat \in Nat /\ token[l].used \in Nat /\ token[l].exp \in Nat
        /\ Lifetime \in Nat /\ TicksPerSecond \in Nat
    BY <1>3, LoginAssumption DEF Token
  <1>5. now \in Nat
    BY <1>4
  <1>6. \E u \in users :
            /\ u.by = token[l].sub /\ u.email = cred[l].email
            /\ Head72[cred[l].password] = Head72[PasswordOf[u.by]]
    BY <1>2 DEF LInv, SubjectStored
  <1> DEFINE it    == [token[l] EXCEPT !.used = now]
             there == IF decode_access_token(token[l].exp, now) THEN "welcome"
                                                                ELSE "expired"
  <1>7. token' = [token EXCEPT ![l] = it] /\ at' = [at EXCEPT ![l] = there]
    BY <1>1, <1>6 DEF get_user_from_token
  <1>8. /\ it \in Token /\ it.used = now /\ it.iat = token[l].iat
        /\ it.sub = token[l].sub /\ it.exp = token[l].exp
    BY <1>3, <1>5 DEF Token
  <1>9. /\ there \in {"welcome", "expired"}
        /\ there = "welcome" <=> now < token[l].exp * TicksPerSecond
    BY DEF decode_access_token
  <1>10. /\ token[l].exp * TicksPerSecond <= token[l].iat + Lifetime
         /\ token[l].iat + Lifetime <
               token[l].exp * TicksPerSecond + TicksPerSecond
    BY <1>2 DEF LInv, ExpiryCut
  <1>11. /\ there = "welcome" => now - token[l].iat < Lifetime
         /\ there = "expired" => now - token[l].iat > Lifetime - TicksPerSecond
    <2>1. token[l].exp * TicksPerSecond \in Nat
      BY <1>4
    <2>2. QED
      BY <1>4, <1>5, <1>9, <1>10, <2>1
  <1> HIDE DEF it, there
  <1>12. LoginTyping' /\ KnownStored' /\ RegisteredCanLogin'
    BY <1>2, <1>3, <1>7, <1>8, <1>9
    DEF LInv, LoginTyping, KnownStored, RegisteredCanLogin
  <1>13. SubjectStored' /\ ExpiryCut'
    BY <1>2, <1>6, <1>7, <1>8, <1>10
    DEF LInv, LoginTyping, SubjectStored, ExpiryCut
  <1>14. TokenLifetime'
    BY <1>7, <1>8, <1>9, <1>11 DEF LInv, LoginTyping, TokenLifetime
  <1>15. QED
    BY <1>12, <1>13, <1>14 DEF LInv

LEMMA LInvNext ==
    ASSUME RInv, LInv, [AccountsNext]_<<vars, loginVars>> PROVE LInv'
  <1>1. CASE Next /\ UNCHANGED loginVars
    BY <1>1, RowsStay, LoginsKept
  <1>2. ASSUME NEW l \in Logins, LoginStep(l), UNCHANGED vars PROVE LInv'
    BY <1>2, BeginLoginStep, AuthenticateStep, UseTokenStep DEF LoginStep
  <1>3. CASE UNCHANGED <<vars, loginVars>>
    BY <1>3, RowsStay, LoginsKept DEF vars
  <1>4. QED
    BY <1>1, <1>2, <1>3 DEF AccountsNext

\* The invariant of the logins, beside that of the registrations.
THEOREM LoginInvariance == AccountsSpec => []LInv
  <1>1. AccountsInit => LInv
    BY LInvInit
  <1>2. RInv /\ LInv /\ [AccountsNext]_<<vars, loginVars>> => LInv'
    BY LInvNext
  <1>3. QED
    BY <1>1, <1>2, RegistrationInvariance, PTL DEF AccountsSpec

\* A client that was told 201 can log in.
THEOREM LoginFindsAccount == AccountsSpec => []RegisteredCanLogin
  BY LoginInvariance, PTL DEF LInv

LEMMA OwnersInvariant == LInv => TokenIsOwners
  BY DEF LInv, SubjectStored, TokenIsOwners

\* A token is issued for, and only for, the stored account whose password was
\* given.
THEOREM TokenOfOwner == AccountsSpec => []TokenIsOwners
  BY LoginInvariance, OwnersInvariant, PTL

\* A token is accepted for its lifetime, less than a second less.
THEOREM TokenLives == AccountsSpec => []TokenLifetime
  BY LoginInvariance, PTL DEF LInv
=============================================================================
