\* Three nodes on an empty database, each started up to twice.
SPECIFICATION Spec
CONSTANTS
    Nodes = {a, b, c}
    MaxStarts = 2
CHECK_DEADLOCK FALSE
INVARIANTS
    SchemaWhole
    StartedOnWhole
PROPERTY StartEnds
