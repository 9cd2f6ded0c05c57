------------------------ MODULE ProcessorParseRegexNative ------------------------
(***************************************************************************)
(* ProcessorParseRegexNative run by its ProcessorInstance on one event     *)
(* group, as its unit test pins it down.  The instance counts the group's  *)
(* events in, the processor handles the events one by one and the instance *)
(* counts the events left out.  A line is abstracted to the groups the     *)
(* configured regex captures from it, or NoMatch.  SourceKey is "content"  *)
(* and RenamedSourceKey is "rawLog", as in every case of the test.         *)
(***************************************************************************)
EXTENDS Naturals, Sequences, SequencesExt

CONSTANTS
    Lines,        \* values the source key can hold
    Captures,     \* Captures[l]: the groups the regex captures from line l, or NoMatch
    NoMatch,
    KeyChoices,   \* values of Keys
    GroupSize,    \* events in the group
    Absent        \* an event without the source key

SourceKey == "content"
RenamedSourceKey == "rawLog"

\* The group: each event has the source key holding a line, or not.
Events == Lines \cup {Absent}
EventContents(v) == IF v = Absent THEN [k \in {"other"} |-> "x"] ELSE [k \in {SourceKey} |-> v]

Configs == [mKeys : KeyChoices, wholeLine : BOOLEAN,
            keepingSourceWhenParseFail : BOOLEAN, keepingSourceWhenParseSucceed : BOOLEAN]

\* Regex "(.*)" with one key is the whole-line mode.
ValidConfig(c) == c.wholeLine => Len(c.mKeys) = 1

VARIABLES
    config,     \* the processor's parsed config
    input,      \* the events of the group, by position
    output,     \* contents of the events still in the group, by input position
    pc,         \* "begin" | "process" | "end" | "done"
    next,       \* position of the next event to process
    counters    \* the instance's and the processor's counters

vars == <<config, input, output, pc, next, counters>>

Init ==
    /\ config \in {c \in Configs : ValidConfig(c)}
    /\ input \in [1..GroupSize -> Events]
    /\ output = [i \in 1..GroupSize |-> EventContents(input[i])]
    /\ pc = "begin"
    /\ next = 1
    /\ counters = [in |-> 0, out |-> 0, discarded |-> 0, failed |-> 0, keyNotFound |-> 0]

\* ProcessorInstance::Process, before the processor: count the events in.
ProcessorInstanceBegin ==
    /\ pc = "begin"
    /\ counters' = [counters EXCEPT !.in = @ + GroupSize]
    /\ pc' = "process"
    /\ UNCHANGED <<config, input, output, next>>

\* Mutant of Parsed: a line is rejected unless it captures more groups than
\* there are keys.
ParsedOffByOne(c, line) ==
    IF c.wholeLine THEN [k \in {c.mKeys[1]} |-> line]
    ELSE IF Captures[line] = NoMatch \/ Len(Captures[line]) <= Len(c.mKeys) THEN NoMatch
    ELSE [k \in ToSet(c.mKeys) |-> Captures[line][CHOOSE i \in DOMAIN c.mKeys : c.mKeys[i] = k]]

\* The keys the parser sets on success, or NoMatch.
Parsed(c, line) ==
    IF c.wholeLine THEN [k \in {c.mKeys[1]} |-> line]
    ELSE IF Captures[line] = NoMatch \/ Len(Captures[line]) < Len(c.mKeys) THEN NoMatch
    ELSE [k \in ToSet(c.mKeys) |-> Captures[line][CHOOSE i \in DOMAIN c.mKeys : c.mKeys[i] = k]]

\* Mutant of ParsedContents: the parsed keys are set before the raw line is
\* copied to RenamedSourceKey.
ParsedContentsRawLast(c, contents, line, kv) ==
    LET rest == [k \in DOMAIN contents \ {SourceKey} |-> contents[k]]
        parsed == kv @@ rest
    IN IF c.keepingSourceWhenParseSucceed THEN (RenamedSourceKey :> line) @@ parsed ELSE parsed

\* The contents of a parsed event: the source key removed, the raw line
\* kept under RenamedSourceKey if configured, then the parsed keys set.
ParsedContents(c, contents, line, kv) ==
    LET rest == [k \in DOMAIN contents \ {SourceKey} |-> contents[k]]
        kept == IF c.keepingSourceWhenParseSucceed THEN (RenamedSourceKey :> line) @@ rest ELSE rest
    IN kv @@ kept

\* Mutant of SkipEventWithoutSourceKey: the loop does not move past the event.
SkipEventWithoutSourceKeyNoAdvance ==
    /\ pc = "process"
    /\ next <= GroupSize
    /\ SourceKey \notin DOMAIN output[next]
    /\ counters' = [counters EXCEPT !.keyNotFound = @ + 1]
    /\ UNCHANGED <<config, input, output, pc, next>>

\* ProcessEvent on an event without the source key: counted, left as it is.
SkipEventWithoutSourceKey ==
    /\ pc = "process"
    /\ next <= GroupSize
    /\ SourceKey \notin DOMAIN output[next]
    /\ counters' = [counters EXCEPT !.keyNotFound = @ + 1]
    /\ next' = next + 1
    /\ UNCHANGED <<config, input, output, pc>>

\* ProcessEvent on an event whose line parses.
ParseEvent ==
    /\ pc = "process"
    /\ next <= GroupSize
    /\ SourceKey \in DOMAIN output[next]
    /\ LET line == output[next][SourceKey]
           kv == Parsed(config, line)
       IN /\ kv # NoMatch
          /\ output' = [output EXCEPT ![next] = ParsedContents(config, output[next], line, kv)]
    /\ next' = next + 1
    /\ UNCHANGED <<config, input, pc, counters>>

\* ProcessEvent on an event whose line does not parse: a regex mismatch is
\* counted as failed, a key-count mismatch is not; the event loses the
\* source key and keeps the line under RenamedSourceKey, or is discarded.
HandleParseFailure ==
    /\ pc = "process"
    /\ next <= GroupSize
    /\ SourceKey \in DOMAIN output[next]
    /\ LET line == output[next][SourceKey]
           failed == IF Captures[line] = NoMatch THEN 1 ELSE 0
           rest == [k \in DOMAIN output[next] \ {SourceKey} |-> output[next][k]]
       IN /\ Parsed(config, line) = NoMatch
          /\ IF config.keepingSourceWhenParseFail
               THEN /\ output' = [output EXCEPT ![next] = (RenamedSourceKey :> line) @@ rest]
                    /\ counters' = [counters EXCEPT !.failed = @ + failed]
             ELSE /\ output' = [i \in DOMAIN output \ {next} |-> output[i]]
                  /\ counters' = [counters EXCEPT !.failed = @ + failed, !.discarded = @ + 1]
    /\ next' = next + 1
    /\ UNCHANGED <<config, input, pc>>

\* The processor has handled every event.
ProcessDone ==
    /\ pc = "process"
    /\ next > GroupSize
    /\ pc' = "end"
    /\ UNCHANGED <<config, input, output, next, counters>>

\* Mutant of ProcessorInstanceEnd: the events out are the group's size
\* taken before the processor ran.
ProcessorInstanceEndBeforeErase ==
    /\ pc = "end"
    /\ counters' = [counters EXCEPT !.out = @ + GroupSize]
    /\ pc' = "done"
    /\ UNCHANGED <<config, input, output, next>>

\* ProcessorInstance::Process, after the processor: count the events out.
ProcessorInstanceEnd ==
    /\ pc = "end"
    /\ counters' = [counters EXCEPT !.out = @ + Cardinality(DOMAIN output)]
    /\ pc' = "done"
    /\ UNCHANGED <<config, input, output, next>>

Next ==
    \/ ProcessorInstanceBegin
    \/ SkipEventWithoutSourceKey
    \/ ParseEvent
    \/ HandleParseFailure
    \/ ProcessDone
    \/ ProcessorInstanceEnd

Spec == Init /\ [][Next]_vars

-----------------------------------------------------------------------------
TypeOK ==
    /\ config \in Configs
    /\ input \in [1..GroupSize -> Events]
    /\ DOMAIN output \subseteq 1..GroupSize
    /\ pc \in {"begin", "process", "end", "done"}
    /\ next \in 1..GroupSize + 1
    /\ counters \in [{"in", "out", "discarded", "failed", "keyNotFound"} -> 0..GroupSize]

\* What the test expects of a line: it parses when the regex matches and
\* captures a group for every key (whole-line mode: always), and then the
\* i-th key gets the i-th group.
Parses(line) ==
    config.wholeLine \/ (Captures[line] # NoMatch /\ Len(Captures[line]) >= Len(config.mKeys))
GroupFor(line, i) == IF config.wholeLine THEN line ELSE Captures[line][i]

\* After ProcessorInstance::Process, the instance's counters and the
\* processor's agree: every event counted in is counted out or discarded.
EventsAccounted ==
    pc = "done" => counters.in = counters.out + counters.discarded

\* A parsed event holds every key with its captured group, even when a key
\* is the source key or RenamedSourceKey; the raw line is kept under
\* RenamedSourceKey only when asked for and no key takes that name, and the
\* source key survives only as a parsed key.
ParsedKeysWin ==
    pc = "done" =>
        \A i \in 1..GroupSize :
            input[i] \in Lines /\ Parses(input[i]) =>
                LET ev == output[i]
                    keys == ToSet(config.mKeys)
                IN /\ \A j \in DOMAIN config.mKeys :
                         config.mKeys[j] \in DOMAIN ev /\ ev[config.mKeys[j]] = GroupFor(input[i], j)
                   /\ RenamedSourceKey \notin keys =>
                         /\ RenamedSourceKey \in DOMAIN ev <=> config.keepingSourceWhenParseSucceed
                         /\ RenamedSourceKey \in DOMAIN ev => ev[RenamedSourceKey] = input[i]
                   /\ SourceKey \in DOMAIN ev => SourceKey \in keys

\* An event whose line does not parse is discarded unless
\* KeepingSourceWhenParseFail, in which case it holds just the raw line
\* under RenamedSourceKey; a parsed event is never dropped; events without
\* the source key pass untouched; the failure counters count regex
\* mismatches and missing source keys.
ParseFailureHandled ==
    pc = "done" =>
        /\ \A i \in 1..GroupSize :
              /\ input[i] \in Lines /\ ~Parses(input[i]) =>
                    IF config.keepingSourceWhenParseFail
                      THEN i \in DOMAIN output /\ output[i] = (RenamedSourceKey :> input[i])
                    ELSE i \notin DOMAIN output
              /\ input[i] \in Lines /\ Parses(input[i]) => i \in DOMAIN output
              /\ input[i] = Absent => i \in DOMAIN output /\ output[i] = EventContents(Absent)
        /\ counters.failed = Cardinality({i \in 1..GroupSize : input[i] \in Lines /\ ~config.wholeLine
                                                             /\ Captures[input[i]] = NoMatch})
        /\ counters.keyNotFound = Cardinality({i \in 1..GroupSize : input[i] = Absent})
=============================================================================
