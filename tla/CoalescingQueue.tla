--------------------------- MODULE CoalescingQueue ---------------------------
(***************************************************************************)
(* What a keyed coalescing worker promises.  The values sent for a key are *)
(* numbered; an attempt covers everything sent and not yet covered, one    *)
(* attempt is under way at a time, and a drain of a key returns only at a  *)
(* moment when attempts have ended for every value sent for that key.      *)
(***************************************************************************)
EXTENDS Naturals

CONSTANTS Keys

VARIABLES sent,      \* how many values were sent for each key
          started,   \* how many of them an attempt has taken up
          ended,     \* and how many of those attempts covered that have ended
          drains     \* the drain of each key

vars == <<sent, started, ended, drains>>

Init ==
    /\ sent = [k \in Keys |-> 0]
    /\ started = [k \in Keys |-> 0]
    /\ ended = [k \in Keys |-> 0]
    /\ drains = [k \in Keys |-> "idle"]

Send(k) ==
    /\ sent' = [sent EXCEPT ![k] = @ + 1]
    /\ UNCHANGED <<started, ended, drains>>

Start(k) ==
    /\ \A j \in Keys : started[j] = ended[j]
    /\ started[k] < sent[k]
    /\ started' = [started EXCEPT ![k] = sent[k]]
    /\ UNCHANGED <<sent, ended, drains>>

End(k) ==
    /\ ended[k] < started[k]
    /\ ended' = [ended EXCEPT ![k] = started[k]]
    /\ UNCHANGED <<sent, started, drains>>

Ask(k) ==
    /\ drains[k] = "idle"
    /\ drains' = [drains EXCEPT ![k] = "waiting"]
    /\ UNCHANGED <<sent, started, ended>>

Return(k) ==
    /\ drains[k] = "waiting"
    /\ ended[k] = sent[k]
    /\ drains' = [drains EXCEPT ![k] = "returned"]
    /\ UNCHANGED <<sent, started, ended>>

Next == \E k \in Keys : Send(k) \/ Start(k) \/ End(k) \/ Ask(k) \/ Return(k)

Spec == Init /\ [][Next]_vars
=============================================================================
