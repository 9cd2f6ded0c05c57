----------------------- MODULE ExactlyOnceQueueManager -----------------------
(***************************************************************************)
(* The exactly-once queue pair of a pipeline (ExactlyOnceQueueManager):    *)
(* a bounded process queue per QueueKey, scheduled by priority tier, and   *)
(* a sender queue whose items are each paired with a persistent            *)
(* RangeCheckpoint (state Unsent | Sending | Acked).  Actors: the Input    *)
(* (PushProcessQueue), processor workers (pop, then PushSenderQueue), the  *)
(* sender loop (GetAvailableSenderQueueItems), the flusher's send          *)
(* callback (RemoveSenderQueueItem / re-queue), the pipeline manager       *)
(* (CreateOrUpdateQueue, DeleteQueue, Disable/EnablePop) and the GC        *)
(* (ClearTimeoutQueues).  The agent may crash: every queue, item and      *)
(* send is lost and only the persisted checkpoints survive; the restarted  *)
(* agent re-applies the pipelines and each queue is rebuilt from them.     *)
(***************************************************************************)
EXTENDS Naturals, Sequences, FiniteSets

CONSTANTS
    Keys,                  \* QueueKeys, one per exactly-once pipeline
    Ckpts,                 \* indices of the RangeCheckpoint vector of a queue
    HashKeys,              \* shard hash keys a range can be sent under
    MaxPriority,           \* ProcessQueueManager::sMaxPriority
    ProcessQueueCapacity,  \* capacity of a BoundedProcessQueue
    MaxSeq,                \* bound: ranges read per (key, hash key)
    MaxCrashes             \* bound: crashes of the agent process

ASSUME /\ Keys # {} /\ Ckpts # {} /\ HashKeys # {}
       /\ MaxPriority \in Nat
       /\ ProcessQueueCapacity \in Nat \ {0}
       /\ MaxSeq \in Nat \ {0}
       /\ MaxCrashes \in Nat

CkptStates == {"Unsent", "Sending", "Acked"}
\* Send outcomes the flusher reports: ok, retry(after), fail-permanent.
SendResults == {"ok", "retry", "fail"}

\* A queue item: the range <<hash, seq>> read into checkpoint ckpt of queue key.
Items == [key : Keys, ckpt : Ckpts, hash : HashKeys, seq : 1..MaxSeq]

\* A range of a queue: the seq-th range read under a hash key.
Ranges == [key : Keys, hash : HashKeys, seq : 1..MaxSeq]

VARIABLES
    queues,        \* keys with a queue pair (mProcessQueues, mSenderQueues)
    priority,      \* tier list each process queue sits in (mProcessPriorityQueue)
    popEnabled,    \* Disable/EnablePopProcessQueue gate
    processQueue,  \* BoundedProcessQueue contents, FIFO
    processing,    \* items popped by a processor worker, not yet in the sender queue
    senderQueue,   \* ExactlyOnceSenderQueue: items waiting for or in a send
    sending,       \* items handed to the flusher whose callback has not run
    checkpoint,    \* persistent RangeCheckpoints, survive queue deletion
    deletion,      \* mQueueDeletionTimeMap: "none" | "pending" | "elapsed"
    nextSeq,       \* the Input's read position per (key, hash key)
    applied,       \* history: keys whose pipeline config is currently applied
    delivered,     \* history: ranges the backend has received
    crashes,       \* crashes of the agent so far
    okCount        \* history: sends of each range that completed ok

vars == <<queues, priority, popEnabled, processQueue, processing, senderQueue,
          sending, checkpoint, deletion, nextSeq, applied, delivered, crashes, okCount>>

RangeOf(it) == [key |-> it.key, hash |-> it.hash, seq |-> it.seq]

-----------------------------------------------------------------------------
(* Helpers                                                                 *)

\* Some checkpoint of queue k sent under hash key h is in state Sending.
HashSending(k, h) ==
    \E c \in Ckpts : checkpoint[k][c].hash = h /\ checkpoint[k][c].state = "Sending"

\* ProcessQueueManager may pop from k: it exists, pop is enabled, it is non-empty.
Poppable(k) == k \in queues /\ popEnabled[k] /\ processQueue[k] # <<>>

\* IsValidToPushProcessQueue(key): the queue exists and is not full.  The
\* Input asks before it reads the next range; between the question and its
\* PushProcessQueue only pops (which keep the answer) or the reaping of a
\* deleted queue (after which the push returns 2 and nothing is read) can
\* intervene, so the model takes the two as one step.
IsValidToPushProcessQueue(k) == k \in queues /\ Len(processQueue[k]) < ProcessQueueCapacity

\* Mutant of Reapable: the drained check forgets the sender queue.
ReapableIgnoringSenderQueue(k) ==
    /\ deletion[k] = "elapsed"
    /\ processQueue[k] = <<>>

\* A queue the GC may reap: grace window elapsed and both queues drained.
Reapable(k) ==
    /\ deletion[k] = "elapsed"
    /\ processQueue[k] = <<>>
    /\ senderQueue[k] = {}

-----------------------------------------------------------------------------
Init ==
    /\ queues = {}
    /\ priority = [k \in Keys |-> 0]
    /\ popEnabled = [k \in Keys |-> TRUE]
    /\ processQueue = [k \in Keys |-> <<>>]
    /\ processing = {}
    /\ senderQueue = [k \in Keys |-> {}]
    /\ sending = {}
    /\ checkpoint = [k \in Keys |-> [c \in Ckpts |->
                        [hash |-> CHOOSE h \in HashKeys : TRUE, seq |-> 0, state |-> "Acked"]]]
    /\ deletion = [k \in Keys |-> "none"]
    /\ nextSeq = [k \in Keys |-> [h \in HashKeys |-> 0]]
    /\ applied = {}
    /\ delivered = {}
    /\ crashes = 0
    /\ okCount = [r \in Ranges |-> 0]

\* The sender-queue items a new queue of k is built with: the range of
\* each persisted checkpoint left Sending is rebuilt and re-sent (spec S4).
\* An Unsent range has no send to resume: its item is still with the
\* Input or a worker, or was lost in a crash, and is not rebuilt here.
RebuiltItems(k) ==
    {[key |-> k, ckpt |-> c, hash |-> checkpoint[k][c].hash, seq |-> checkpoint[k][c].seq] :
        c \in {c \in Ckpts : checkpoint[k][c].state = "Sending"}}

\* Mutant of CreateOrUpdateQueue: a re-applied key keeps its deletion entry.
CreateOrUpdateQueueKeepingDeletion(k, p) ==
    /\ k \notin queues \/ priority[k] # p \/ deletion[k] # "none"
    /\ priority' = [priority EXCEPT ![k] = p]
    /\ applied' = applied \cup {k}
    /\ IF k \in queues
         THEN UNCHANGED <<queues, popEnabled, processQueue, senderQueue>>
         ELSE /\ queues' = queues \cup {k}
              /\ popEnabled' = [popEnabled EXCEPT ![k] = TRUE]
              /\ processQueue' = [processQueue EXCEPT ![k] = <<>>]
              /\ senderQueue' = [senderQueue EXCEPT ![k] = RebuiltItems(k)]
    /\ UNCHANGED <<processing, sending, checkpoint, deletion, nextSeq, delivered, crashes, okCount>>

\* Mutant of CreateOrUpdateQueue: the rebuilt checkpoints are reset to
\* Unsent, as if no send of theirs had started.
CreateOrUpdateQueueResettingSending(k, p) ==
    /\ k \notin queues \/ priority[k] # p \/ deletion[k] # "none"
    /\ priority' = [priority EXCEPT ![k] = p]
    /\ deletion' = [deletion EXCEPT ![k] = "none"]
    /\ applied' = applied \cup {k}
    /\ IF k \in queues
         THEN UNCHANGED <<queues, popEnabled, processQueue, senderQueue, checkpoint>>
         ELSE /\ queues' = queues \cup {k}
              /\ popEnabled' = [popEnabled EXCEPT ![k] = TRUE]
              /\ processQueue' = [processQueue EXCEPT ![k] = <<>>]
              /\ senderQueue' = [senderQueue EXCEPT ![k] = RebuiltItems(k)]
              /\ checkpoint' = [checkpoint EXCEPT ![k] = [c \in Ckpts |->
                     IF @[c].state = "Sending" THEN [@[c] EXCEPT !.state = "Unsent"] ELSE @[c]]]
    /\ UNCHANGED <<processing, sending, nextSeq, delivered, crashes, okCount>>

\* CreateOrUpdateQueue(key, priority, ctx, checkpoints): create the queue
\* pair, its sender queue rebuilt from the persisted checkpoints, or move
\* an existing process queue to another tier; either way a pending
\* deletion of the key is cancelled.
CreateOrUpdateQueue(k, p) ==
    /\ k \notin queues \/ priority[k] # p \/ deletion[k] # "none"
    /\ priority' = [priority EXCEPT ![k] = p]
    /\ deletion' = [deletion EXCEPT ![k] = "none"]
    /\ applied' = applied \cup {k}
    /\ IF k \in queues
         THEN UNCHANGED <<queues, popEnabled, processQueue, senderQueue>>
         ELSE /\ queues' = queues \cup {k}
              /\ popEnabled' = [popEnabled EXCEPT ![k] = TRUE]
              /\ processQueue' = [processQueue EXCEPT ![k] = <<>>]
              /\ senderQueue' = [senderQueue EXCEPT ![k] = RebuiltItems(k)]
    /\ UNCHANGED <<processing, sending, checkpoint, nextSeq, delivered, crashes, okCount>>

\* DeleteQueue(key): record the deletion time; removal is left to the GC.
DeleteQueue(k) ==
    /\ k \in queues
    /\ deletion[k] = "none"
    /\ deletion' = [deletion EXCEPT ![k] = "pending"]
    /\ applied' = applied \ {k}
    /\ UNCHANGED <<queues, priority, popEnabled, processQueue, processing,
                   senderQueue, sending, checkpoint, nextSeq, delivered, crashes, okCount>>

\* Time passes beyond the deletion grace window of a deleted queue.
GraceWindowElapses(k) ==
    /\ deletion[k] = "pending"
    /\ deletion' = [deletion EXCEPT ![k] = "elapsed"]
    /\ UNCHANGED <<queues, priority, popEnabled, processQueue, processing,
                   senderQueue, sending, checkpoint, nextSeq, applied, delivered, crashes, okCount>>

\* ClearTimeoutQueues(): reap every queue whose window elapsed and that is drained.
ClearTimeoutQueues ==
    LET reaped == {k \in queues : Reapable(k)}
    IN /\ reaped # {}
       /\ queues' = queues \ reaped
       /\ deletion' = [k \in Keys |-> IF k \in reaped THEN "none" ELSE deletion[k]]
       /\ UNCHANGED <<priority, popEnabled, processQueue, processing, senderQueue,
                      sending, checkpoint, nextSeq, applied, delivered, crashes, okCount>>

DisablePopProcessQueue(k) ==
    /\ k \in queues /\ popEnabled[k]
    /\ popEnabled' = [popEnabled EXCEPT ![k] = FALSE]
    /\ UNCHANGED <<queues, priority, processQueue, processing, senderQueue,
                   sending, checkpoint, deletion, nextSeq, applied, delivered, crashes, okCount>>

EnablePopProcessQueue(k) ==
    /\ k \in queues /\ ~popEnabled[k]
    /\ popEnabled' = [popEnabled EXCEPT ![k] = TRUE]
    /\ UNCHANGED <<queues, priority, processQueue, processing, senderQueue,
                   sending, checkpoint, deletion, nextSeq, applied, delivered, crashes, okCount>>

\* Mutant of PushProcessQueue: the bounded queue does not check its capacity.
PushProcessQueueUnbounded(k, c, h) ==
    LET it == [key |-> k, ckpt |-> c, hash |-> h, seq |-> nextSeq[k][h] + 1]
    IN /\ k \in queues
       /\ checkpoint[k][c].state = "Acked"
       /\ nextSeq[k][h] < MaxSeq
       /\ ~HashSending(k, h)
       /\ processQueue' = [processQueue EXCEPT ![k] = Append(@, it)]
       /\ checkpoint' = [checkpoint EXCEPT ![k][c] =
                            [hash |-> h, seq |-> it.seq, state |-> "Unsent"]]
       /\ nextSeq' = [nextSeq EXCEPT ![k][h] = it.seq]
       /\ UNCHANGED <<queues, priority, popEnabled, processing, senderQueue,
                      sending, deletion, applied, delivered, crashes, okCount>>

\* Mutant of PushProcessQueue: the range is read into any checkpoint, not
\* only a free (Acked) one.
PushProcessQueueAnyCheckpoint(k, c, h) ==
    LET it == [key |-> k, ckpt |-> c, hash |-> h, seq |-> nextSeq[k][h] + 1]
    IN /\ IsValidToPushProcessQueue(k)
       /\ nextSeq[k][h] < MaxSeq
       /\ ~HashSending(k, h)
       /\ processQueue' = [processQueue EXCEPT ![k] = Append(@, it)]
       /\ checkpoint' = [checkpoint EXCEPT ![k][c] =
                            [hash |-> h, seq |-> it.seq, state |-> "Unsent"]]
       /\ nextSeq' = [nextSeq EXCEPT ![k][h] = it.seq]
       /\ UNCHANGED <<queues, priority, popEnabled, processing, senderQueue,
                      sending, deletion, applied, delivered, crashes, okCount>>

\* The Input reads the next range of hash key h into the free (Acked)
\* checkpoint c and calls PushProcessQueue(key, item).  The manager refuses
\* the range while h has a Sending checkpoint, and the bounded queue refuses
\* it when full: the Input then backs off, a step that changes nothing.
PushProcessQueue(k, c, h) ==
    LET it == [key |-> k, ckpt |-> c, hash |-> h, seq |-> nextSeq[k][h] + 1]
    IN /\ IsValidToPushProcessQueue(k)
       /\ checkpoint[k][c].state = "Acked"
       /\ nextSeq[k][h] < MaxSeq
       /\ ~HashSending(k, h)
       /\ processQueue' = [processQueue EXCEPT ![k] = Append(@, it)]
       /\ checkpoint' = [checkpoint EXCEPT ![k][c] =
                            [hash |-> h, seq |-> it.seq, state |-> "Unsent"]]
       /\ nextSeq' = [nextSeq EXCEPT ![k][h] = it.seq]
       /\ UNCHANGED <<queues, priority, popEnabled, processing, senderQueue,
                      sending, deletion, applied, delivered, crashes, okCount>>

\* ProcessQueueManager pops the head of a queue for a processor worker:
\* strict priority between tiers (0 first), any queue within a tier.
PopProcessQueue(k) ==
    /\ Poppable(k)
    /\ ~\E j \in Keys : Poppable(j) /\ priority[j] < priority[k]
    /\ processing' = processing \cup {Head(processQueue[k])}
    /\ processQueue' = [processQueue EXCEPT ![k] = Tail(@)]
    /\ UNCHANGED <<queues, priority, popEnabled, senderQueue, sending,
                   checkpoint, deletion, nextSeq, applied, delivered, crashes, okCount>>

\* PushSenderQueue(key, item) from the worker that processed it.  Queue not
\* found (status 2): the item is dropped and its checkpoint stays Unsent.
\* Otherwise the checkpoint goes Unsent -> Sending and is persisted before
\* the item is released to the sender loop (spec 4.6).  The only refusal
\* of a hash key with a Sending checkpoint is the Input's, at
\* PushProcessQueue; this push has no such check (status 0, 1 or 2 only).
PushSenderQueue(it) ==
    /\ it \in processing
    /\ processing' = processing \ {it}
    /\ \/ /\ it.key \notin queues
          /\ UNCHANGED <<senderQueue, checkpoint>>
       \/ /\ it.key \in queues
          /\ senderQueue' = [senderQueue EXCEPT ![it.key] = @ \cup {it}]
          /\ checkpoint' = [checkpoint EXCEPT ![it.key][it.ckpt].state = "Sending"]
    /\ UNCHANGED <<queues, priority, popEnabled, processQueue, sending,
                   deletion, nextSeq, applied, delivered, crashes, okCount>>

\* Mutant of GetAvailableSenderQueueItems: a retried item is re-sent
\* without persisting its checkpoint as Sending again.
GetAvailableWithoutPersist(it) ==
    LET ck == checkpoint[it.key][it.ckpt]
    IN /\ it.key \in queues
       /\ it \in senderQueue[it.key]
       /\ it \notin sending
       /\ ck.state \in {"Sending", "Unsent"}
       /\ sending' = sending \cup {it}
       /\ UNCHANGED <<queues, priority, popEnabled, processQueue, processing,
                      senderQueue, checkpoint, deletion, nextSeq, applied, delivered, crashes, okCount>>

\* GetAvailableSenderQueueItems: the sender loop takes an item not yet in a
\* send and hands it to the flusher.  An item re-queued after a retry has an
\* Unsent checkpoint, which must be made Sending (and persisted) again first.
GetAvailableSenderQueueItems(it) ==
    LET ck == checkpoint[it.key][it.ckpt]
    IN /\ it.key \in queues
       /\ it \in senderQueue[it.key]
       /\ it \notin sending
       /\ ck.state \in {"Sending", "Unsent"}
       /\ checkpoint' = [checkpoint EXCEPT ![it.key][it.ckpt].state = "Sending"]
       /\ sending' = sending \cup {it}
       /\ UNCHANGED <<queues, priority, popEnabled, processQueue, processing,
                      senderQueue, deletion, nextSeq, applied, delivered, crashes, okCount>>

\* The flusher's send completes and its callback runs.  ok: the backend has
\* the range; RemoveSenderQueueItem removes the item and the checkpoint is
\* durably Acked.  retry: the backend may or may not have it; the checkpoint
\* returns to Unsent and the item stays queued.  fail: the item is dropped
\* and the checkpoint is kept Sending for the operator.
OnSendDone(it, r) ==
    LET k == it.key
    IN /\ it \in sending
       /\ sending' = sending \ {it}
       /\ \/ /\ r = "ok"
             /\ delivered' = delivered \cup {RangeOf(it)}
             /\ okCount' = [okCount EXCEPT ![RangeOf(it)] = @ + 1]
             /\ senderQueue' = [senderQueue EXCEPT ![k] = @ \ {it}]
             /\ checkpoint' = [checkpoint EXCEPT ![k][it.ckpt].state = "Acked"]
          \/ /\ r = "retry"
             /\ \E got \in BOOLEAN :
                  delivered' = IF got THEN delivered \cup {RangeOf(it)} ELSE delivered
             /\ checkpoint' = [checkpoint EXCEPT ![k][it.ckpt].state = "Unsent"]
             /\ UNCHANGED <<senderQueue, okCount>>
          \/ /\ r = "fail"
             /\ senderQueue' = [senderQueue EXCEPT ![k] = @ \ {it}]
             /\ UNCHANGED <<checkpoint, delivered, okCount>>
       /\ UNCHANGED <<queues, priority, popEnabled, processQueue, processing,
                      deletion, nextSeq, applied, crashes>>

\* The agent process dies.  Queues, items in every stage, sends and the GC
\* map are memory and are lost; checkpoints and the Input's read offsets
\* are persisted and survive.  A send in progress may already have
\* completed ok at the backend without its callback having run.
Crash ==
    /\ crashes < MaxCrashes
    /\ crashes' = crashes + 1
    /\ \E okDone \in SUBSET sending :
          /\ delivered' = delivered \cup {RangeOf(it) : it \in okDone}
          /\ okCount' = [r \in Ranges |->
                           IF \E it \in okDone : RangeOf(it) = r THEN okCount[r] + 1 ELSE okCount[r]]
    /\ queues' = {}
    /\ priority' = [k \in Keys |-> 0]
    /\ popEnabled' = [k \in Keys |-> TRUE]
    /\ processQueue' = [k \in Keys |-> <<>>]
    /\ processing' = {}
    /\ senderQueue' = [k \in Keys |-> {}]
    /\ sending' = {}
    /\ deletion' = [k \in Keys |-> "none"]
    /\ applied' = {}
    /\ UNCHANGED <<checkpoint, nextSeq>>

-----------------------------------------------------------------------------
Next ==
    \/ \E k \in Keys, p \in 0..MaxPriority : CreateOrUpdateQueue(k, p)
    \/ \E k \in Keys : DeleteQueue(k)
    \/ \E k \in Keys : GraceWindowElapses(k)
    \/ ClearTimeoutQueues
    \/ \E k \in Keys : DisablePopProcessQueue(k)
    \/ \E k \in Keys : EnablePopProcessQueue(k)
    \/ \E k \in Keys, c \in Ckpts, h \in HashKeys : PushProcessQueue(k, c, h)
    \/ \E k \in Keys : PopProcessQueue(k)
    \/ \E it \in processing : PushSenderQueue(it)
    \/ \E k \in Keys : \E it \in senderQueue[k] : GetAvailableSenderQueueItems(it)
    \/ \E it \in sending, r \in SendResults : OnSendDone(it, r)
    \/ Crash

Spec == Init /\ [][Next]_vars

-----------------------------------------------------------------------------
(* Properties                                                              *)

TypeOK ==
    /\ queues \subseteq Keys
    /\ priority \in [Keys -> 0..MaxPriority]
    /\ popEnabled \in [Keys -> BOOLEAN]
    /\ \A k \in Keys : processQueue[k] \in Seq(Items) /\ Len(processQueue[k]) <= ProcessQueueCapacity
    /\ processing \subseteq Items
    /\ senderQueue \in [Keys -> SUBSET Items]
    /\ sending \subseteq Items
    /\ checkpoint \in [Keys -> [Ckpts -> [hash : HashKeys, seq : 0..MaxSeq, state : CkptStates]]]
    /\ deletion \in [Keys -> {"none", "pending", "elapsed"}]
    /\ nextSeq \in [Keys -> [HashKeys -> 0..MaxSeq]]
    /\ applied \subseteq Keys
    /\ crashes \in 0..MaxCrashes
    /\ okCount \in [Ranges -> 0..(MaxCrashes + 1)]

\* At-most-one in flight per hash key (spec 4.6): at no instant are two
\* checkpoints of one queue that share a hash key both Sending.  The only
\* check is the Input's, at PushProcessQueue, and it is stale by the time
\* a worker's PushSenderQueue makes the range Sending: two ranges of one
\* hash key read while neither was Sending both become Sending.
AtMostOneSendingPerHash ==
    \A k \in Keys, h \in HashKeys :
        Cardinality({c \in Ckpts : checkpoint[k][c].hash = h
                                   /\ checkpoint[k][c].state = "Sending"}) <= 1

\* Durable-before-send: every item the flusher holds, including one re-sent
\* after a retry, has its own range persisted as Sending in its checkpoint.
DurableBeforeSend ==
    \A it \in sending :
        checkpoint[it.key][it.ckpt] = [hash |-> it.hash, seq |-> it.seq, state |-> "Sending"]

\* The GC (ClearTimeoutQueues) never reaps the queues of a pipeline whose
\* config is applied, also when the pipeline was deleted and re-applied
\* (CreateOrUpdateQueue) inside the deletion grace window.
AppliedQueueNotReaped == applied \subseteq queues

\* The GC never reaps a queue while one of its items is in a send: the
\* send callback must still find the item (RemoveSenderQueueItem), or its
\* checkpoint would stay Sending forever.
InFlightItemHasQueue ==
    \A it \in sending : it.key \in queues /\ it \in senderQueue[it.key]

-----------------------------------------------------------------------------
(* Refinement of RangeDelivery                                             *)

\* The state of range r as the persistent checkpoints and the sender queue
\* show it.  A range read but held by no checkpoint any more was acked:
\* PushProcessQueue reuses only an Acked checkpoint.  A Sending range
\* whose item left the sender queue was failed permanently (parked).
RangeState(r) ==
    LET holders == {c \in Ckpts : checkpoint[r.key][c].hash = r.hash
                                  /\ checkpoint[r.key][c].seq = r.seq}
        st == checkpoint[r.key][CHOOSE c \in holders : TRUE].state
    IN IF r.seq > nextSeq[r.key][r.hash] THEN "unread"
       ELSE IF holders = {} \/ st = "Acked" THEN "acked"
       ELSE IF st = "Unsent" THEN "read"
       ELSE IF \E it \in senderQueue[r.key] : RangeOf(it) = r THEN "inflight"
       ELSE "parked"

Abstract == INSTANCE RangeDelivery
    WITH range <- [r \in Ranges |-> RangeState(r)]

\* The queue pair implements the range lifecycle of spec 4.6 under every
\* interleaving of Input, workers, sender loop, callbacks, reloads and GC:
\* ranges are read in order, and only while their hash key is free, and
\* an acked or parked range never becomes unsent or sending again (no ack
\* regression), even when its checkpoint is reused for a later range.
RangeDeliveryRefined == Abstract!Spec

\* Exactly-once (spec 8, invariant 6): across the agent's lifetime, and so
\* across a crash and restart, at most one send of a range completes ok.
AtMostOneOkSendPerRange == \A r \in Ranges : okCount[r] <= 1

\* Per hash key, the backend receives ranges in read order: no range is
\* delivered before every earlier range of its hash key was delivered.
DeliveredInOrderPerHash ==
    \A d \in delivered : \A s \in 1..(d.seq - 1) :
        [key |-> d.key, hash |-> d.hash, seq |-> s] \in delivered
=============================================================================
