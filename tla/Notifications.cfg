SPECIFICATION MCSpec
CONSTANTS
    n1 = n1
    n2 = n2
    Notes = {n1, n2}
    Instances = {s1, s2}
    Readers = {q1}
    NoNote = NoNote
    MaxAttempts = 2
    MaxLosses = 1
INVARIANTS
    
    ReadNotPushed
PROPERTIES
    EveryPushEnds
\* Once every push has ended nothing is left to do.
CHECK_DEADLOCK FALSE
