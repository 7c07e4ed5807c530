SPECIFICATION AccountSpec
CONSTANTS
    Credentials = {d1}
    NoCredential = NoCredential
    Clerks = {p1, p2}
INVARIANT ReviewedFileKept
\* Nothing may be left to decide.
CHECK_DEADLOCK FALSE
