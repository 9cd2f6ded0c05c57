------------------------ MODULE ProcessEntityCollector ------------------------
(***************************************************************************)
(* ProcessEntityCollector reads /proc/<pid>/stat and parses it into a      *)
(* ProcessStat.  The kernel writes "pid (comm) state ppid ...": comm is    *)
(* the raw task name and may hold spaces and parentheses, so the parser    *)
(* takes the name between the first '(' and the LAST ')', splits the rest  *)
(* at spaces, and indexes the words by EnumProcessStat minus the offset of *)
(* `state`; a line with fewer words than `processor` (field 38) needs is   *)
(* refused.  A character is a one-character string; the value of a field   *)
(* is abstracted to one token, the decimal string of its field number.     *)
(***************************************************************************)
EXTENDS Naturals, Sequences, SequencesExt

CONSTANTS
    Pid,          \* the pid the collector reads
    CommChars,    \* characters a task name is built from
    MaxCommLen,   \* bound: length of a task name
    FieldCounts,  \* numbers of fields the kernel writes after comm
    Null,         \* ParseProcessStat returned nullptr
    NotRead       \* the line has not been read yet

\* EnumProcessStat, restricted to pid, comm and the fields ProcessStat keeps.
EnumProcessStat ==
    [pid |-> 0, comm |-> 1, state |-> 2, ppid |-> 3, tty_nr |-> 6, minflt |-> 9,
     majflt |-> 11, utime |-> 13, stime |-> 14, cutime |-> 15, cstime |-> 16,
     priority |-> 17, nice |-> 18, num_threads |-> 19, starttime |-> 21,
     vsize |-> 22, rss |-> 23, processor |-> 38]

\* constexpr operator-(EnumProcessStat a, EnumProcessStat b)
EnumMinus(a, b) == EnumProcessStat[a] - EnumProcessStat[b]

\* The /proc fields ProcessStat is filled from.
ProcessStatFields == DOMAIN EnumProcessStat \ {"pid", "comm"}

\* The words of s between single spaces (std split, empty words kept).
RECURSIVE SplitWords(_)
SplitWords(s) ==
    LET i == SelectInSeq(s, LAMBDA ch : ch = " ")
    IN IF i = 0 THEN <<s>>
       ELSE <<SubSeq(s, 1, i - 1)>> \o SplitWords(SubSeq(s, i + 1, Len(s)))

\* Mutant of ParseProcessStat: the name ends at the first ')'.
ParseProcessStatFirstClose(pid, line) ==
    LET open == SelectInSeq(line, LAMBDA ch : ch = "(")
        close == SelectInSeq(line, LAMBDA ch : ch = ")")
        words == SplitWords(SubSeq(line, close + 2, Len(line)))
    IN IF open = 0 \/ close = 0 \/ Len(words) < EnumMinus("processor", "state") + 1 THEN Null
       ELSE [pid |-> pid, name |-> SubSeq(line, open + 1, close - 1),
             fields |-> [f \in ProcessStatFields |-> words[EnumMinus(f, "state") + 1]]]

\* Mutant of ParseProcessStat: the rest of the line starts right after ')'.
ParseProcessStatKeepingSpace(pid, line) ==
    LET open == SelectInSeq(line, LAMBDA ch : ch = "(")
        close == SelectLastInSeq(line, LAMBDA ch : ch = ")")
        words == SplitWords(SubSeq(line, close + 1, Len(line)))
    IN IF open = 0 \/ close = 0 \/ Len(words) < EnumMinus("processor", "state") + 1 THEN Null
       ELSE [pid |-> pid, name |-> SubSeq(line, open + 1, close - 1),
             fields |-> [f \in ProcessStatFields |-> words[EnumMinus(f, "state") + 1]]]

\* ParseProcessStat(pid, line): nullptr without both parentheses or with
\* fewer words than processor - state + 1; otherwise the name and the
\* word of each field, indexed from `state`.
ParseProcessStat(pid, line) ==
    LET open == SelectInSeq(line, LAMBDA ch : ch = "(")
        close == SelectLastInSeq(line, LAMBDA ch : ch = ")")
        words == SplitWords(SubSeq(line, close + 2, Len(line)))
    IN IF open = 0 \/ close = 0 \/ Len(words) < EnumMinus("processor", "state") + 1 THEN Null
       ELSE [pid |-> pid, name |-> SubSeq(line, open + 1, close - 1),
             fields |-> [f \in ProcessStatFields |-> words[EnumMinus(f, "state") + 1]]]

-----------------------------------------------------------------------------
(* Reference: the line the kernel writes (proc(5)).                        *)

FieldValue(j) == <<ToString(j)>>

\* "pid (comm) v2 v3 ... vn" with n - 1 fields after comm.
StatLine(comm, n) ==
    <<"p", " ", "(">> \o comm \o <<")">>
        \o FlattenSeq([i \in 1..n |-> <<" ">> \o FieldValue(i + 1)])

VARIABLES
    comm,      \* the task name the kernel writes
    nFields,   \* fields written after comm
    result     \* what ParseProcessStat returned

vars == <<comm, nFields, result>>

Init ==
    /\ comm \in BoundedSeq(CommChars, MaxCommLen)
    /\ nFields \in FieldCounts
    /\ result = NotRead

\* ReadNewProcessStat(pid): read the stat line and parse it.
ReadNewProcessStat ==
    /\ result = NotRead
    /\ result' = ParseProcessStat(Pid, StatLine(comm, nFields))
    /\ UNCHANGED <<comm, nFields>>

Next == ReadNewProcessStat

Spec == Init /\ [][Next]_vars

-----------------------------------------------------------------------------
Words == {FieldValue(j) : j \in 2..EnumProcessStat["processor"] + 20}

TypeOK ==
    /\ comm \in Seq(CommChars)
    /\ result \in {NotRead, Null}
                  \cup [pid : {Pid}, name : Seq(CommChars), fields : [ProcessStatFields -> Words]]

\* A stat line is parsed whatever its task name holds (spaces, '(' or ')'):
\* it is refused exactly when it stops before field 38 (processor), and
\* otherwise the name is the whole task name and every ProcessStat field
\* gets the value of its own /proc field, not a neighbour's.
StatFieldsParsed ==
    result # NotRead =>
        result = IF nFields + 1 >= EnumProcessStat["processor"]
                   THEN [pid |-> Pid, name |-> comm,
                         fields |-> [f \in ProcessStatFields |-> FieldValue(EnumProcessStat[f])]]
                   ELSE Null
=============================================================================
