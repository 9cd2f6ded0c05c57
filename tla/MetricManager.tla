---------------------------- MODULE MetricManager ----------------------------
(***************************************************************************)
(* WriteMetrics / ReadMetrics.  A plugin creates a MetricsRecordRef,       *)
(* commits it to the WriteMetrics list (head insertion under the           *)
(* WriteMetrics mutex) and adds to its counters lock-free; destroying the  *)
(* ref marks the record deleted.  ReadMetrics::UpdateMetrics takes a       *)
(* snapshot under the mutex: live records are copied into the new read     *)
(* list with their counters, which are reset to 0, and deleted records are *)
(* unlinked and freed.  Labels and counter names are abstracted away; each *)
(* record has one counter.  Commit is split into reading and writing the   *)
(* list head, the two steps the mutex makes atomic.                        *)
(***************************************************************************)
EXTENDS Naturals, Sequences, SequencesExt

CONSTANTS
    Refs,     \* MetricsRecordRefs, one per plugin instance
    MaxAdd    \* bound: ADD_COUNTER calls per record

ASSUME MaxAdd \in Nat \ {0}

VARIABLES
    ref,        \* "none" | "created" | "committing" | "live" | "dropped" | "freed"
    writeList,  \* WriteMetrics list, head first
    headSeen,   \* the list a committing thread read before linking its record
    mutex,      \* WriteMetrics::mMutex: "free" or its holder
    value,      \* the record's counter in the WriteMetrics list
    readList,   \* ReadMetrics list: record -> counter value of the last snapshot
    added,      \* history: total added to a record's counter
    exported    \* history: total exposed through read snapshots

vars == <<ref, writeList, headSeen, mutex, value, readList, added, exported>>

Init ==
    /\ ref = [r \in Refs |-> "none"]
    /\ writeList = <<>>
    /\ headSeen = [r \in Refs |-> <<>>]
    /\ mutex = "free"
    /\ value = [r \in Refs |-> 0]
    /\ readList = [r \in {} |-> 0]
    /\ added = [r \in Refs |-> 0]
    /\ exported = [r \in Refs |-> 0]

\* CreateMetricsRecordRef: the ref owns a new record, not yet listed.
CreateMetricsRecordRef(r) ==
    /\ ref[r] = "none"
    /\ ref' = [ref EXCEPT ![r] = "created"]
    /\ UNCHANGED <<writeList, headSeen, mutex, value, readList, added, exported>>

\* Mutant of CommitRead: the list head is read without taking the mutex.
CommitReadUnlocked(r) ==
    /\ ref[r] = "created"
    /\ headSeen' = [headSeen EXCEPT ![r] = writeList]
    /\ ref' = [ref EXCEPT ![r] = "committing"]
    /\ UNCHANGED <<writeList, mutex, value, readList, added, exported>>

\* CommitMetricsRecordRef, first half: lock the mutex and read the head.
CommitRead(r) ==
    /\ ref[r] = "created"
    /\ mutex = "free"
    /\ mutex' = r
    /\ headSeen' = [headSeen EXCEPT ![r] = writeList]
    /\ ref' = [ref EXCEPT ![r] = "committing"]
    /\ UNCHANGED <<writeList, value, readList, added, exported>>

\* CommitMetricsRecordRef, second half: link the record before the head
\* read, make it the head and unlock.
CommitWrite(r) ==
    /\ ref[r] = "committing"
    /\ writeList' = <<r>> \o headSeen[r]
    /\ mutex' = IF mutex = r THEN "free" ELSE mutex
    /\ ref' = [ref EXCEPT ![r] = "live"]
    /\ UNCHANGED <<headSeen, value, readList, added, exported>>

\* ADD_COUNTER by the plugin that owns the ref (atomic, no lock).
AddCounter(r) ==
    /\ ref[r] \in {"created", "committing", "live"}
    /\ added[r] < MaxAdd
    /\ value' = [value EXCEPT ![r] = @ + 1]
    /\ added' = [added EXCEPT ![r] = @ + 1]
    /\ UNCHANGED <<ref, writeList, headSeen, mutex, readList, exported>>

\* ~MetricsRecordRef of a committed ref: the record is marked deleted and
\* stays in the list until the next snapshot.
DropRef(r) ==
    /\ ref[r] = "live"
    /\ ref' = [ref EXCEPT ![r] = "dropped"]
    /\ UNCHANGED <<writeList, headSeen, mutex, value, readList, added, exported>>

\* Mutant of UpdateMetrics: the snapshot copies the counters without
\* resetting them.
UpdateMetricsNoReset ==
    LET live == {writeList[i] : i \in {j \in DOMAIN writeList : ref[writeList[j]] = "live"}}
    IN /\ mutex = "free"
       /\ readList' = [r \in live |-> value[r]]
       /\ exported' = [r \in Refs |-> IF r \in live THEN exported[r] + value[r] ELSE exported[r]]
       /\ writeList' = SelectSeq(writeList, LAMBDA r : ref[r] # "dropped")
       /\ ref' = [r \in Refs |-> IF ref[r] = "dropped" THEN "freed" ELSE ref[r]]
       /\ UNCHANGED <<headSeen, mutex, value, added>>

\* Mutant of UpdateMetrics: the snapshot is taken without the mutex.
UpdateMetricsUnlocked ==
    LET live == {writeList[i] : i \in {j \in DOMAIN writeList : ref[writeList[j]] = "live"}}
    IN /\ readList' = [r \in live |-> value[r]]
       /\ exported' = [r \in Refs |-> IF r \in live THEN exported[r] + value[r] ELSE exported[r]]
       /\ value' = [r \in Refs |-> IF r \in live THEN 0 ELSE value[r]]
       /\ writeList' = SelectSeq(writeList, LAMBDA r : ref[r] # "dropped")
       /\ ref' = [r \in Refs |-> IF ref[r] = "dropped" THEN "freed" ELSE ref[r]]
       /\ UNCHANGED <<headSeen, mutex, added>>

\* ReadMetrics::UpdateMetrics -> WriteMetrics::DoSnapshot under the mutex:
\* collect every live record into the new read list and reset its counter,
\* unlink and free every deleted record, then swap the read list.
UpdateMetrics ==
    LET live == {writeList[i] : i \in {j \in DOMAIN writeList : ref[writeList[j]] = "live"}}
    IN /\ mutex = "free"
       /\ readList' = [r \in live |-> value[r]]
       /\ exported' = [r \in Refs |-> IF r \in live THEN exported[r] + value[r] ELSE exported[r]]
       /\ value' = [r \in Refs |-> IF r \in live THEN 0 ELSE value[r]]
       /\ writeList' = SelectSeq(writeList, LAMBDA r : ref[r] # "dropped")
       /\ ref' = [r \in Refs |-> IF ref[r] = "dropped" THEN "freed" ELSE ref[r]]
       /\ UNCHANGED <<headSeen, mutex, added>>

Next ==
    \/ \E r \in Refs : CreateMetricsRecordRef(r)
    \/ \E r \in Refs : CommitRead(r)
    \/ \E r \in Refs : CommitWrite(r)
    \/ \E r \in Refs : AddCounter(r)
    \/ \E r \in Refs : DropRef(r)
    \/ UpdateMetrics

Spec == Init /\ [][Next]_vars

-----------------------------------------------------------------------------
TypeOK ==
    /\ ref \in [Refs -> {"none", "created", "committing", "live", "dropped", "freed"}]
    /\ writeList \in Seq(Refs)
    /\ mutex \in Refs \cup {"free"}
    /\ value \in [Refs -> 0..MaxAdd]
    /\ DOMAIN readList \subseteq Refs
    /\ added \in [Refs -> 0..MaxAdd] /\ exported \in [Refs -> 0..MaxAdd]

\* Concurrent CommitMetricsRecordRef calls and snapshots never lose a
\* record: every committed record whose ref is alive, or destroyed but not
\* yet collected, is linked exactly once in the WriteMetrics list.
CommittedRecordListed ==
    \A r \in Refs :
        ref[r] \in {"live", "dropped"} =>
            Cardinality({i \in DOMAIN writeList : writeList[i] = r}) = 1

\* A record freed by a snapshot is never reachable from the WriteMetrics
\* list again (no use after free by a later snapshot).
NoFreedRecordListed ==
    \A i \in DOMAIN writeList : ref[writeList[i]] # "freed"

\* While a ref is alive, every ADD_COUNTER is counted once: what the read
\* snapshots have exposed plus what the write counter holds is what was added.
LiveCountsConserved ==
    \A r \in Refs :
        ref[r] = "live" => exported[r] + value[r] = added[r]

\* Spec invariant 8: a dropped MetricsRecordRef is visible to one more
\* updateMetrics(), so its final value is exposed before it is collected.
FinalValueExposed ==
    \A r \in Refs : ref[r] = "freed" => exported[r] = added[r]
=============================================================================
