\* Three requests of two users, rooms of two names.
SPECIFICATION FairSpec
CONSTANTS
    Requests = {q1, q2, q3}
    Users = {u1, u2}
    Names = {n1, n2}
    Workloads <- Mixtures
    MaxSkip = 1
    Limits = {1, 2}
CHECK_DEADLOCK FALSE
INVARIANTS
    UniqueNames
    SuccessIsStored
    RefusalIsTrue
    ListedIsFound
    MembersShown
PROPERTY Answered
