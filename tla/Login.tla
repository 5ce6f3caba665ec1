------------------------------- MODULE Login -------------------------------
(***************************************************************************)
(* POST /auth/login and the use of the token it returns, beside the        *)
(* registrations of module Registration: AuthService.authenticate and      *)
(* get_user_from_token, and the JWT half of core/security.py as deployed    *)
(* (requirements.txt installs bcrypt and pyjwt; the fallbacks never run).   *)
(*                                                                         *)
(* Time is counted in ticks, of which a second has TicksPerSecond: "exp"    *)
(* has whole seconds, and the clock it is compared with has not.           *)
(*                                                                         *)
(* Accounts are never deleted or deactivated, so is_active is TRUE.        *)
(***************************************************************************)
EXTENDS Registration, Naturals

CONSTANTS Logins,         \* the login requests, each with the token it gets
          Passwords,
          PasswordOf,     \* the password a registration request gives
          Head72,         \* the first 72 bytes of a password
          TicksPerSecond,
          Lifetime        \* ACCESS_TOKEN_EXPIRE_MINUTES, in ticks

ASSUME LoginAssumption ==
    /\ PasswordOf \in [Requests -> Passwords]
    /\ Head72 \in [Passwords -> Passwords]
    /\ \A p \in Passwords : Head72[Head72[p]] = Head72[p]
    /\ TicksPerSecond \in Nat \ {0}
    /\ Lifetime \in Nat /\ Lifetime % TicksPerSecond = 0

VARIABLES
    at,    \* per login, how far it or the use of its token has come
    cred,  \* per login, the email and password, and whether a registration
           \* with these was already answered 201 when it was sent
    token  \* per login, the sub, iat and exp of its token, and when it was used

loginVars == <<at, cred, token>>

NoCred  == [known |-> FALSE]
NoToken == [used |-> 0]

AccountsInit ==
    /\ Init
    /\ at = [l \in Logins |-> "idle"]
    /\ cred = [l \in Logins |-> NoCred]
    /\ token = [l \in Logins |-> NoToken]

-----------------------------------------------------------------------------
(* core/security.py.                                                       *)

\* bcrypt is given the first 72 bytes of the password.
hash_password(p) == Head72[p]
verify_password(p, hashed) == Head72[p] = hashed

\* Mutation: the lifetime is rounded up to the next second.
RoundedUp(t) == (t + TicksPerSecond) \div TicksPerSecond

\* PyJWT writes the datetime "expire" as whole seconds.
WholeSeconds(t) == t \div TicksPerSecond

\* It refuses a token from "exp" on.
decode_access_token(exp, now) == now < exp * TicksPerSecond

-----------------------------------------------------------------------------

BeginLogin(l, q, p) ==
    /\ at[l] = "idle"
    /\ at' = [at EXCEPT ![l] = "find"]
    /\ cred' = [cred EXCEPT ![l] =
                  [email |-> cmd[q].email, password |-> p,
                   known |-> \E r \in Requests :
                                /\ reply[r] = "ok"
                                /\ cmd[r].email = cmd[q].email
                                /\ PasswordOf[r] = p]]
    /\ UNCHANGED token

\* Mutation: any registration with this email and password will do.
MatchingRequests(l) ==
    {[by |-> q] : q \in {r \in Requests :
        /\ pc[r] = "done" /\ cmd[r].email = cred[l].email
        /\ verify_password(cred[l].password, hash_password(PasswordOf[r]))}}

\* The rows a login with this email and password is let in by.
Matching(l) ==
    {u \in users : /\ u.email = cred[l].email
                   /\ verify_password(cred[l].password,
                                      hash_password(PasswordOf[u.by]))}

\* authenticate(): one lookup by email; the token is issued some part of a
\* second after the last whole one.
Authenticate(l) ==
    /\ at[l] = "find"
    /\ \/ /\ Matching(l) = {}
          /\ at' = [at EXCEPT ![l] = "invalid"]
          /\ UNCHANGED token
       \/ \E u \in Matching(l), now \in 0 .. TicksPerSecond - 1 :
          /\ at' = [at EXCEPT ![l] = "token"]
          /\ token' = [token EXCEPT ![l] =
                         [sub |-> u.by, iat |-> now, used |-> now,
                          exp |-> WholeSeconds(now + Lifetime)]]
    /\ UNCHANGED cred

\* Decode, then one lookup by id.
get_user_from_token(t, now) ==
    IF ~decode_access_token(t.exp, now) THEN "expired"
    ELSE IF \E u \in users : u.by = t.sub THEN "welcome"
    ELSE "gone"

\* get_current_user() of a request, or a WebSocket that is being opened, at
\* some time after the login.
UseToken(l) ==
    /\ at[l] \in {"token", "welcome"}
    /\ \E now \in token[l].used .. token[l].iat + Lifetime + TicksPerSecond :
        /\ token' = [token EXCEPT ![l].used = now]
        /\ at' = [at EXCEPT ![l] = get_user_from_token(token[l], now)]
    /\ UNCHANGED cred

LoginStep(l) ==
    \/ \E q \in Requests, p \in Passwords : BeginLogin(l, q, p)
    \/ Authenticate(l) \/ UseToken(l)

AccountsNext ==
    \/ Next /\ UNCHANGED loginVars
    \/ \E l \in Logins : LoginStep(l) /\ UNCHANGED vars

\* A statement of a registration that can run is run; nothing obliges a request
\* to arrive.
AccountsSpec ==
    /\ AccountsInit /\ [][AccountsNext]_<<vars, loginVars>>
    /\ \A q \in Requests : WF_vars(Step(q))

-----------------------------------------------------------------------------

\* A client that was told "201 Created" before it logs in, through any node,
\* with that email and password, is not told "invalid email or password".
RegisteredCanLogin ==
    \A l \in Logins : at[l] = "invalid" => ~cred[l].known

\* A token belongs to the one account of the email it was asked for with, and
\* to nobody who registered that email and was refused or is not stored yet:
\* what was presented is what the stored registration gave, 72 bytes of it.
TokenIsOwners ==
    \A l \in Logins : at[l] \in {"token", "welcome", "expired"} =>
        \E u \in users : /\ u.by = token[l].sub /\ u.email = cred[l].email
                         /\ Head72[cred[l].password] = Head72[PasswordOf[u.by]]

\* A token's user is always there, and the token is refused no later than its
\* lifetime after the login and not a whole second sooner.
TokenLifetime ==
    \A l \in Logins :
        LET age == token[l].used - token[l].iat
        IN  /\ at[l] # "gone"
            /\ at[l] = "welcome" => age < Lifetime
            /\ at[l] = "expired" => age > Lifetime - TicksPerSecond
=============================================================================
