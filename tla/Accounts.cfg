\* Three registrations with every overlap, and a login, at half-second ticks.
SPECIFICATION AccountsSpec
CONSTANTS
    q1 = q1
    e1 = e1
    n1 = n1
    p1 = p1
    p2 = p2
    p2x = p2x
    Requests = {q1, q2, q3}
    Emails = {e1, e2}
    Usernames = {n1, n2}
    Commands <- Overlaps
    Logins = {l1}
    Passwords = {p1, p2, p2x}
    PasswordOf <- TwoPasswords
    Head72 <- SamePrefix
    TicksPerSecond = 2
    Lifetime = 2
CHECK_DEADLOCK FALSE
INVARIANTS
    TypeOK
    UniqueAccounts
    SuccessIsStored
    RefusalIsTrue
    RegisteredCanLogin
    TokenIsOwners
    TokenLifetime
PROPERTY Answered
