CONSTANTS
    NoMatch = NoMatch
    Absent = Absent
    Lines <- MCLines
    Captures <- MCCaptures
    KeyChoices <- MCKeyChoices
    GroupSize = 2

SPECIFICATION Spec

\* One event group passes through the processor once.
CHECK_DEADLOCK FALSE

INVARIANTS
    TypeOK
    EventsAccounted
    ParsedKeysWin
    ParseFailureHandled
