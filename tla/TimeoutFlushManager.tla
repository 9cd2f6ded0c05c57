------------------------- MODULE TimeoutFlushManager -------------------------
(***************************************************************************)
(* TimeoutFlushManager: records (config, batch key) -> {updateTime,        *)
(* timeoutSecs, flusher}.  A processor thread refreshes records            *)
(* (UpdateRecord), the flush thread scans them once per second             *)
(* (FlushTimeoutBatch) and calls the due flushers with the mutex released, *)
(* and the reload thread hands a stopped pipeline's flushers to the        *)
(* manager (UnregisterFlushers), which drops them at the end of its next   *)
(* scan.  A flusher object is identified by <<config, generation>>: every  *)
(* re-apply of a config builds a new one.  Time is relative: a record     *)
(* holds the age of its batch in seconds (now - updateTime), which the     *)
(* flush thread's one-second sleep advances; ages saturate one second past *)
(* the latest a batch may wait, which keeps the state space finite while   *)
(* a late flush stays visible.                                             *)
(* Stopping a pipeline, the reload thread holds the lock its flushers'     *)
(* FlushBatch also takes while it calls UnregisterFlushers, which needs    *)
(* mMutex; so the flush thread must not hold mMutex while it calls         *)
(* flushers (spec 5).  mMutex is held only inside one step of the model   *)
(* (an UpdateRecord, a scan, an UnregisterFlushers, the final clear).      *)
(***************************************************************************)
EXTENDS Integers, FiniteSets

CONSTANTS
    Configs,     \* pipeline config names
    BatchKeys,   \* (flusherIndex, batchKey) pairs of a config
    TimeoutOf,   \* timeoutSecs a batch key is registered with
    MaxGen       \* bound: applies of each config

ASSUME /\ TimeoutOf \in [BatchKeys -> Nat]
       /\ MaxGen \in Nat \ {0}

Flushers == Configs \X (1..MaxGen)
\* The latest age a batch may reach before its flush is taken.
MaxWait(t) == IF t = 0 THEN 1 ELSE t
AgeCap(t) == MaxWait(t) + 1
Records == [cfg : Configs, key : BatchKeys, age : Nat,
            timeout : Nat, flusher : Flushers]

VARIABLES
    records,     \* mTimeoutRecords
    deleted,     \* mDeletedFlushers: flushers owned by the manager until its next scan ends
    lifetime,    \* flusher object: "unborn" | "owned" (by its pipeline) | "deferred" | "destroyed"
    pipeline,    \* per config: current generation and whether it is running
    flushPc,     \* flush thread: "idle" | "calling" (mutex released, calling flushers)
    scanned,     \* the flush thread has scanned in the current second
    snapshot,    \* due records taken by the current scan, not yet flushed
    stopping     \* configs whose reload thread holds the flusher lock, about to unregister

vars == <<records, deleted, lifetime, pipeline, flushPc, scanned, snapshot, stopping>>

\* Mutant of Due: a record counts as due only once strictly older than its timeout.
DueStrict(r) == r.age > r.timeout

\* A record whose batch has waited timeoutSecs (FlushTimeoutBatch's test).
Due(r) == r.age >= r.timeout

Init ==
    /\ records = {}
    /\ deleted = {}
    /\ lifetime = [f \in Flushers |-> IF f[2] = 1 THEN "owned" ELSE "unborn"]
    /\ pipeline = [c \in Configs |-> [gen |-> 1, running |-> TRUE]]
    /\ flushPc = "idle"
    /\ scanned = FALSE
    /\ snapshot = {}
    /\ stopping = {}

\* Mutant of UpdateRecord: a new record is added beside the existing one.
UpdateRecordAppending(c, b) ==
    /\ pipeline[c].running
    /\ records' = records \cup {[cfg |-> c, key |-> b, age |-> 0,
                                 timeout |-> TimeoutOf[b], flusher |-> <<c, pipeline[c].gen>>]}
    /\ UNCHANGED <<deleted, lifetime, pipeline, flushPc, scanned, snapshot, stopping>>

\* UpdateRecord(config, flusherIndex, key, timeoutSecs, flusher), called by
\* the batcher of a running pipeline: insert the record, or refresh its
\* updateTime if the (config, key) record exists.
UpdateRecord(c, b) ==
    /\ pipeline[c].running
    /\ records' = {r \in records : r.cfg # c \/ r.key # b}
                  \cup {[cfg |-> c, key |-> b, age |-> 0,
                         timeout |-> TimeoutOf[b], flusher |-> <<c, pipeline[c].gen>>]}
    /\ UNCHANGED <<deleted, lifetime, pipeline, flushPc, scanned, snapshot, stopping>>

\* FlushTimeoutBatch, first part, under the mutex: take and erase every
\* due record, then release the mutex.
FlushTimeoutBatchScan ==
    /\ flushPc = "idle"
    /\ ~scanned
    /\ snapshot' = {r \in records : Due(r)}
    /\ records' = {r \in records : ~Due(r)}
    /\ scanned' = TRUE
    /\ flushPc' = "calling"
    /\ UNCHANGED <<deleted, lifetime, pipeline, stopping>>

\* FlushTimeoutBatch, second part, mutex released: flusher->FlushBatch(key),
\* which waits while the reload thread holds the flusher's lock.
CallFlusher(r) ==
    /\ flushPc = "calling"
    /\ r \in snapshot
    /\ r.cfg \notin stopping
    /\ snapshot' = snapshot \ {r}
    /\ UNCHANGED <<records, deleted, lifetime, pipeline, flushPc, scanned, stopping>>

\* Mutant of ClearDeletedFlushers: the deferred flushers are dropped before
\* the due flushers have been called.
ClearDeletedFlushersEarly ==
    /\ flushPc = "calling"
    /\ deleted' = {}
    /\ lifetime' = [f \in Flushers |-> IF f \in deleted THEN "destroyed" ELSE lifetime[f]]
    /\ flushPc' = IF snapshot = {} THEN "idle" ELSE "calling"
    /\ UNCHANGED <<records, pipeline, scanned, snapshot, stopping>>

\* Mutant of ClearDeletedFlushers: the scan ends without clearing
\* mDeletedFlushers.
ClearDeletedFlushersKeepingList ==
    /\ flushPc = "calling"
    /\ snapshot = {}
    /\ flushPc' = "idle"
    /\ UNCHANGED <<records, deleted, lifetime, pipeline, scanned, snapshot, stopping>>

\* FlushTimeoutBatch, last part, with the mutex taken again:
\* clear mDeletedFlushers, destroying them, and unlock.
ClearDeletedFlushers ==
    /\ flushPc = "calling"
    /\ snapshot = {}
    /\ deleted' = {}
    /\ lifetime' = [f \in Flushers |-> IF f \in deleted THEN "destroyed" ELSE lifetime[f]]
    /\ flushPc' = "idle"
    /\ UNCHANGED <<records, pipeline, scanned, snapshot, stopping>>

\* The flush thread sleeps until the next second: every batch ages.
Tick ==
    /\ flushPc = "idle"
    /\ scanned
    /\ records' = {[r EXCEPT !.age = IF @ < AgeCap(r.timeout) THEN @ + 1 ELSE @] : r \in records}
    /\ scanned' = FALSE
    /\ UNCHANGED <<deleted, lifetime, pipeline, flushPc, snapshot, stopping>>

\* The reload thread starts stopping the pipeline of c: it takes the lock
\* that the pipeline's flushers' FlushBatch also takes.
StopPipeline(c) ==
    /\ pipeline[c].running
    /\ c \notin stopping
    /\ stopping' = stopping \cup {c}
    /\ UNCHANGED <<records, deleted, lifetime, pipeline, flushPc, scanned, snapshot>>

\* UnregisterFlushers(config, flushers), called by the reload thread with
\* that lock held: under mMutex, erase the config's records and move its
\* flushers into mDeletedFlushers; then the reload thread releases its lock.
UnregisterFlushers(c) ==
    LET f == <<c, pipeline[c].gen>>
    IN /\ c \in stopping
       /\ records' = {r \in records : r.cfg # c}
       /\ deleted' = deleted \cup {f}
       /\ lifetime' = [lifetime EXCEPT ![f] = "deferred"]
       /\ pipeline' = [pipeline EXCEPT ![c].running = FALSE]
       /\ stopping' = stopping \ {c}
       /\ UNCHANGED <<flushPc, scanned, snapshot>>

\* The reload thread applies the config again, building a new flusher.
ApplyPipeline(c) ==
    /\ ~pipeline[c].running
    /\ pipeline[c].gen < MaxGen
    /\ pipeline' = [pipeline EXCEPT ![c] = [gen |-> @.gen + 1, running |-> TRUE]]
    /\ lifetime' = [lifetime EXCEPT ![<<c, pipeline[c].gen + 1>>] = "owned"]
    /\ UNCHANGED <<records, deleted, flushPc, scanned, snapshot, stopping>>

Next ==
    \/ \E c \in Configs, b \in BatchKeys : UpdateRecord(c, b)
    \/ FlushTimeoutBatchScan
    \/ \E r \in snapshot : CallFlusher(r)
    \/ ClearDeletedFlushers
    \/ Tick
    \/ \E c \in Configs : StopPipeline(c)
    \/ \E c \in Configs : UnregisterFlushers(c)
    \/ \E c \in Configs : ApplyPipeline(c)

Spec == Init /\ [][Next]_vars

\* The flush thread loops for the agent's lifetime: scan, call the due
\* flushers, clear mDeletedFlushers, sleep one second.  Each of its steps
\* is weakly fair, and so is the passing of time.  A reload thread that
\* has begun stopping a pipeline goes on to UnregisterFlushers.  Batchers
\* and the reload thread are otherwise not obliged to do anything.
FairSpec ==
    /\ Spec
    /\ WF_vars(FlushTimeoutBatchScan)
    /\ WF_vars(\E r \in snapshot : CallFlusher(r))
    /\ WF_vars(ClearDeletedFlushers)
    /\ WF_vars(Tick)
    /\ \A c \in Configs : WF_vars(UnregisterFlushers(c))

-----------------------------------------------------------------------------
TypeOK ==
    /\ records \subseteq Records
    /\ \A r \in records : r.age <= AgeCap(r.timeout)
    \* mTimeoutRecords maps each (config, key) to one record
    /\ \A r1, r2 \in records : r1.cfg = r2.cfg /\ r1.key = r2.key => r1 = r2
    /\ deleted \subseteq Flushers
    /\ lifetime \in [Flushers -> {"unborn", "owned", "deferred", "destroyed"}]
    /\ pipeline \in [Configs -> [gen : 1..MaxGen, running : BOOLEAN]]
    /\ scanned \in BOOLEAN
    /\ flushPc \in {"idle", "calling"}
    /\ snapshot \subseteq Records
    /\ stopping \subseteq Configs

\* No flusher is called after it is destroyed: every flusher a record or the
\* running scan still refers to is alive, although UnregisterFlushers can
\* run while the flush thread calls flushers with the mutex released.
NoFlushOfDestroyedFlusher ==
    \A r \in records \cup snapshot : lifetime[r.flusher] # "destroyed"

\* A flusher handed over by UnregisterFlushers is destroyed after the flush
\* thread's next scan: mDeletedFlushers does not keep flushers, and what
\* they own, alive forever.
DeferredFlusherDestroyed ==
    \A f \in Flushers : lifetime[f] = "deferred" ~> lifetime[f] = "destroyed"

\* A batch waits at most its timeoutSecs for its flush to be taken, and a
\* batch with timeout 0 at most until the next scan: the record of a batch
\* refreshed by UpdateRecord never ages past that.
BatchFlushedInTime ==
    \A r \in records :
        r.age <= MaxWait(r.timeout)
=============================================================================
