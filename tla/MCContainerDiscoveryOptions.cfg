CONSTANTS
    f1 = f1
    f2 = f2
    WrongType = WrongType
    Null = Null
    Absent = Absent
    NotObject = NotObject
    FieldNames <- MCFieldNames
    RegexStrs <- MCRegexStrs
    MapChoices <- MCMapChoices
    TagMapChoices <- MCTagMapChoices
    EnvChoices <- MCEnvChoices
    LabelChoices <- MCLabelChoices

SPECIFICATION Spec

\* Init runs once per plugin instance and a container is tagged once:
\* every behaviour ends after at most two steps.
CHECK_DEADLOCK FALSE

INVARIANTS
    TypeOK
    InitResultAsSpecified
    FiltersAsSpecified
    TagsAsConfigured
