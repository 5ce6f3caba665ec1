\* Five messages, pages of up to three, any order of commits.
SPECIFICATION Spec
CONSTANTS
    MaxId = 5
    MaxLimit = 3
CHECK_DEADLOCK FALSE
INVARIANTS
    PageIsNewest
    PagesAreOneList
    NothingSkipped
PROPERTY CursorDescends
