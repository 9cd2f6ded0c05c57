---------------------------- MODULE RangeDelivery ----------------------------
(***************************************************************************)
(* What the exactly-once queue promises (spec 4.6), one range at a time.   *)
(* The Input reads the ranges of a (queue, hash key) in order, and only    *)
(* while no other range of its hash key is in a send or parked after a     *)
(* permanent failure; a read range is sent with no further check.  A send  *)
(* ends acked (delivered), retried (maybe delivered, read again) or        *)
(* parked for the operator.  An acked range never changes again.  A crash  *)
(* of the agent parks every range in a send (some may have reached the     *)
(* backend); when a queue is rebuilt after it, its parked ranges are sent  *)
(* again.                                                                  *)
(***************************************************************************)
EXTENDS Naturals

CONSTANTS Keys, HashKeys, MaxSeq

Ranges == [key : Keys, hash : HashKeys, seq : 1..MaxSeq]
RangeStates == {"unread", "read", "inflight", "acked", "parked"}

VARIABLES
    range,      \* state of each range
    delivered   \* ranges the backend has received

vars == <<range, delivered>>

\* Another range of r's hash key holds the hash key (in a send, or parked).
HashBusy(r) ==
    \E q \in Ranges : /\ q # r /\ q.key = r.key /\ q.hash = r.hash
                      /\ range[q] \in {"inflight", "parked"}

Init ==
    /\ range = [r \in Ranges |-> "unread"]
    /\ delivered = {}

\* The Input reads the next range of a hash key that no send holds.
Read(r) ==
    /\ range[r] = "unread"
    /\ r.seq > 1 => range[[r EXCEPT !.seq = r.seq - 1]] # "unread"
    /\ ~HashBusy(r)
    /\ range' = [range EXCEPT ![r] = "read"]
    /\ UNCHANGED delivered

Send(r) ==
    /\ range[r] = "read"
    /\ range' = [range EXCEPT ![r] = "inflight"]
    /\ UNCHANGED delivered

Ack(r) ==
    /\ range[r] = "inflight"
    /\ range' = [range EXCEPT ![r] = "acked"]
    /\ delivered' = delivered \cup {r}

Retry(r) ==
    /\ range[r] = "inflight"
    /\ range' = [range EXCEPT ![r] = "read"]
    /\ delivered' \in {delivered, delivered \cup {r}}

Park(r) ==
    /\ range[r] = "inflight"
    /\ range' = [range EXCEPT ![r] = "parked"]
    /\ UNCHANGED delivered

\* The agent crashes: every send in progress is parked; any of them may
\* have reached the backend.
Crash ==
    /\ \E got \in SUBSET {r \in Ranges : range[r] = "inflight"} :
          delivered' = delivered \cup got
    /\ range' = [r \in Ranges |-> IF range[r] = "inflight" THEN "parked" ELSE range[r]]

\* The queue of key k is rebuilt and re-sends every parked range of k.
Resend(k) ==
    /\ range' = [r \in Ranges |-> IF r.key = k /\ range[r] = "parked" THEN "inflight" ELSE range[r]]
    /\ UNCHANGED delivered

Next ==
    \/ \E r \in Ranges : Read(r) \/ Send(r) \/ Ack(r) \/ Retry(r) \/ Park(r)
    \/ Crash
    \/ \E k \in Keys : Resend(k)

Spec == Init /\ [][Next]_vars
=============================================================================
