CONSTANTS
    Pid = 7
    Null = Null
    NotRead = NotRead
    CommChars <- MCCommChars
    MaxCommLen = 3
    FieldCounts <- MCFieldCounts

SPECIFICATION Spec

\* Each line is read and parsed once: the behaviour ends there.
CHECK_DEADLOCK FALSE

INVARIANTS
    TypeOK
    StatFieldsParsed
