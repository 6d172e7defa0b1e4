------------------------ MODULE KeyedCoalescingWorker ------------------------
(***************************************************************************)
(* KeyedCoalescingWorker of packages/shared: one fiber, a queue of keys,   *)
(* and a transactional record of the latest value of each key, the keys    *)
(* queued and the keys active.  The terminal manager persists histories    *)
(* with it.                                                                *)
(*                                                                         *)
(* merge is the caller's.  A value is modelled by the sequence of the      *)
(* numbers of the enqueues it was merged from, in order (merge is \o): any *)
(* associative merge is an image of this one, so a value lost or merged in *)
(* the wrong order shows.                                                  *)
(***************************************************************************)
EXTENDS Naturals, Sequences, FiniteSets

CONSTANTS Keys,
          NoKey,        \* the worker holds no key
          MaxEnqueues   \* bound on the values enqueued for each key

ASSUME KeyedAssumption == NoKey \notin Keys /\ MaxEnqueues \in Nat

VARIABLES
    sent,      \* history: number of enqueues of each key
    attempted, \* history: the values processed for each key, concatenated
    latest,    \* latestByKey: the pending value of each key, <<>> for none
    queued,    \* queuedKeys
    active,    \* activeKeys
    queue,     \* the TxQueue of keys
    worker,    \* where the fiber is
    key,       \* the key it holds
    value,     \* the value it processes
    drains     \* the drainKey call of each key

record == <<latest, queued, active>>
fiber == <<worker, key, value>>
vars == <<sent, attempted, record, queue, fiber, drains>>

Init ==
    /\ sent = [k \in Keys |-> 0]
    /\ attempted = [k \in Keys |-> <<>>]
    /\ latest = [k \in Keys |-> <<>>]
    /\ queued = {} /\ active = {}
    /\ queue = <<>>
    /\ worker = "take" /\ key = NoKey /\ value = <<>>
    /\ drains = [k \in Keys |-> "idle"]

(* Mutation: the newer value replaces the pending one instead of being     *)
(* merged.                                                                 *)
EnqueueReplaces(k) ==
    /\ sent[k] < MaxEnqueues
    /\ sent' = [sent EXCEPT ![k] = @ + 1]
    /\ latest' = [latest EXCEPT ![k] = << sent'[k] >>]
    /\ \/ /\ k \in queued \cup active
          /\ UNCHANGED <<queued, queue>>
       \/ /\ k \notin queued \cup active
          /\ queued' = queued \cup {k}
          /\ queue' = Append(queue, k)
    /\ UNCHANGED <<attempted, active, fiber, drains>>

(* enqueue, one transaction: merge the value; the key is offered to the    *)
(* queue unless it is there already or active.                             *)
Enqueue(k) ==
    /\ sent[k] < MaxEnqueues
    /\ sent' = [sent EXCEPT ![k] = @ + 1]
    /\ latest' = [latest EXCEPT ![k] = Append(@, sent'[k])]
    /\ \/ /\ k \in queued \cup active
          /\ UNCHANGED <<queued, queue>>
       \/ /\ k \notin queued \cup active
          /\ queued' = queued \cup {k}
          /\ queue' = Append(queue, k)
    /\ UNCHANGED <<attempted, active, fiber, drains>>

(* The fiber takes a key from the queue,                                   *)
Take ==
    /\ worker = "take"
    /\ queue # <<>>
    /\ key' = Head(queue)
    /\ queue' = Tail(queue)
    /\ worker' = "taken"
    /\ UNCHANGED <<sent, attempted, record, value, drains>>

(* in a second transaction claims the pending value and marks the key      *)
(* active (or finds none and loops),                                       *)
Claim ==
    /\ worker = "taken"
    /\ queued' = queued \ {key}
    /\ \/ /\ latest[key] = <<>>
          /\ worker' = "take" /\ key' = NoKey
          /\ UNCHANGED <<latest, active, value>>
       \/ /\ latest[key] # <<>>
          /\ value' = latest[key]
          /\ latest' = [latest EXCEPT ![key] = <<>>]
          /\ active' = active \cup {key}
          /\ worker' = "process"
          /\ UNCHANGED key
    /\ UNCHANGED <<sent, attempted, queue, drains>>

(* The processing of the value ends, well                                  *)
EndOfAttempt(next) ==
    /\ worker = "process"
    /\ attempted' = [attempted EXCEPT ![key] = @ \o value]
    /\ value' = <<>>
    /\ worker' = next
    /\ UNCHANGED <<sent, record, queue, key, drains>>

ProcessEnds == EndOfAttempt("continue")

(* or badly.                                                               *)
ProcessFails == EndOfAttempt("cleanup")

(* Mutation: the key becomes inactive without looking for newer values.    *)
ContinueForgets ==
    /\ worker = "continue"
    /\ active' = active \ {key}
    /\ worker' = "take" /\ key' = NoKey
    /\ UNCHANGED <<sent, attempted, latest, queued, queue, value, drains>>

(* processKey after a success: the value that arrived meanwhile is taken   *)
(* over at once, without going through the queue; or the key is inactive.  *)
Continue ==
    /\ worker = "continue"
    /\ \/ /\ latest[key] = <<>>
          /\ active' = active \ {key}
          /\ worker' = "take" /\ key' = NoKey
          /\ UNCHANGED <<latest, value>>
       \/ /\ latest[key] # <<>>
          /\ value' = latest[key]
          /\ latest' = [latest EXCEPT ![key] = <<>>]
          /\ worker' = "process"
          /\ UNCHANGED <<active, key>>
    /\ UNCHANGED <<sent, attempted, queued, queue, drains>>

(* Mutation: a failed key with a pending value is not queued again.        *)
CleanupForgets ==
    /\ worker = "cleanup"
    /\ active' = active \ {key}
    /\ worker' = "take" /\ key' = NoKey
    /\ UNCHANGED <<sent, attempted, latest, queued, queue, value, drains>>

(* Mutation: the worker lets go of the key before it is offered again.     *)
CleanupDropsKey ==
    /\ worker = "cleanup"
    /\ active' = active \ {key}
    /\ \/ /\ latest[key] # <<>> /\ key \notin queued
          /\ queued' = queued \cup {key}
          /\ worker' = "requeue"
       \/ /\ latest[key] = <<>> \/ key \in queued
          /\ worker' = "take"
          /\ UNCHANGED queued
    /\ key' = NoKey
    /\ UNCHANGED <<sent, attempted, latest, queue, value, drains>>

(* cleanupFailedKey: the key is inactive, and is marked queued again if a  *)
(* newer value is pending;                                                 *)
Cleanup ==
    /\ worker = "cleanup"
    /\ active' = active \ {key}
    /\ \/ /\ latest[key] # <<>> /\ key \notin queued
          /\ queued' = queued \cup {key}
          /\ worker' = "requeue"
          /\ UNCHANGED key
       \/ /\ latest[key] = <<>> \/ key \in queued
          /\ worker' = "take" /\ key' = NoKey
          /\ UNCHANGED queued
    /\ UNCHANGED <<sent, attempted, latest, queue, value, drains>>

(* the offer follows in a transaction of its own.                          *)
Requeue ==
    /\ worker = "requeue"
    /\ queue' = Append(queue, key)
    /\ worker' = "take" /\ key' = NoKey
    /\ UNCHANGED <<sent, attempted, record, value, drains>>

CallDrain(k) ==
    /\ drains[k] = "idle"
    /\ drains' = [drains EXCEPT ![k] = "waiting"]
    /\ UNCHANGED <<sent, attempted, record, queue, fiber>>

(* Mutation: a drain does not look at the key being processed.             *)
DrainIgnoresActive(k) ==
    /\ drains[k] = "waiting"
    /\ latest[k] = <<>> /\ k \notin queued
    /\ drains' = [drains EXCEPT ![k] = "returned"]
    /\ UNCHANGED <<sent, attempted, record, queue, fiber>>

(* drainKey retries while the key is pending, queued or active.            *)
DrainReturns(k) ==
    /\ drains[k] = "waiting"
    /\ latest[k] = <<>> /\ k \notin queued \cup active
    /\ drains' = [drains EXCEPT ![k] = "returned"]
    /\ UNCHANGED <<sent, attempted, record, queue, fiber>>

Fiber == Take \/ Claim \/ ProcessEnds \/ ProcessFails \/ Continue \/ Cleanup \/ Requeue

Next ==
    \/ Fiber
    \/ \E k \in Keys : Enqueue(k) \/ CallDrain(k) \/ DrainReturns(k)

Spec == Init /\ [][Next]_vars

(* The fiber is scheduled, every attempt ends one way or the other, and a  *)
(* waiting transaction is retried when the record changes.                 *)
FairSpec ==
    /\ Spec
    /\ WF_vars(Fiber)
    /\ \A k \in Keys : WF_vars(DrainReturns(k))

-----------------------------------------------------------------------------
TypeOK ==
    /\ sent \in [Keys -> Nat]
    /\ attempted \in [Keys -> Seq(Nat)]
    /\ latest \in [Keys -> Seq(Nat)]
    /\ queued \subseteq Keys /\ active \subseteq Keys
    /\ queue \in Seq(Keys)
    /\ worker \in {"take", "taken", "process", "continue", "cleanup", "requeue"}
    /\ key \in Keys \cup {NoKey}
    /\ value \in Seq(Nat)
    /\ drains \in [Keys -> {"idle", "waiting", "returned"}]

(* No wakeup is lost and none is doubled: a pending value's key is active  *)
(* or marked queued, and a key marked queued is in the queue, or in the    *)
(* worker's hand before its claim or its requeue - at one place only       *)
(* ("merged atomically instead of creating duplicate queued items").       *)
InHand == IF worker \in {"taken", "requeue"} THEN {key} ELSE {}
NoLostWakeup ==
    /\ \A k \in Keys : latest[k] # <<>> => k \in queued \cup active
    /\ \A i, j \in DOMAIN queue : queue[i] = queue[j] => i = j
    /\ queued = {queue[i] : i \in DOMAIN queue} \cup InHand
    /\ \A i \in DOMAIN queue : queue[i] \notin InHand

(* The values attempted, in hand and pending for a key are, in order and   *)
(* once each, the values that were enqueued for it.                        *)
ValuesConserved ==
    \A k \in Keys :
        attempted[k] \o (IF k = key THEN value ELSE <<>>) \o latest[k]
            = [i \in 1..sent[k] |-> i]

Promise == INSTANCE CoalescingQueue WITH
               started <- [k \in Keys |-> sent[k] - Len(latest[k])],
               ended <- [k \in Keys |-> Len(attempted[k])]

(* Attempts cover everything sent, one key at a time, and drainKey returns *)
(* only when "that key has no queued, pending, or active work left".       *)
ImplementsCoalescingQueue == Promise!Spec

(* Every value enqueued is attempted, itself or merged into a later one,   *)
(* also after failures of the processing.                                  *)
ValuesAttempted ==
    \A k \in Keys : \A n \in 1..MaxEnqueues :
        (sent[k] >= n) ~> (Len(attempted[k]) >= n)

(* ... and a drain of a key returns once its callers stop enqueueing.      *)
DrainsReturn ==
    \A k \in Keys : (drains[k] = "waiting") ~> (drains[k] = "returned")
=============================================================================
