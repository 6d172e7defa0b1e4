------------------------------ MODULE WorkQueue ------------------------------
(***************************************************************************)
(* What a drainable worker promises: items are processed one at a time in  *)
(* the order they were accepted, and a drain returns only at a moment when *)
(* every accepted item has been processed.                                 *)
(***************************************************************************)
EXTENDS Naturals, Sequences

CONSTANTS Items, Waiters

VARIABLES accepted,   \* the items accepted so far
          finished,   \* the items whose processing has ended
          drains      \* the state of each call of drain

vars == <<accepted, finished, drains>>

Init ==
    /\ accepted = <<>>
    /\ finished = <<>>
    /\ drains = [w \in Waiters |-> "idle"]

Accept(x) ==
    /\ accepted' = Append(accepted, x)
    /\ UNCHANGED <<finished, drains>>

Finish ==
    /\ Len(finished) < Len(accepted)
    /\ finished' = Append(finished, accepted[Len(finished) + 1])
    /\ UNCHANGED <<accepted, drains>>

Ask(w) ==
    /\ drains[w] = "idle"
    /\ drains' = [drains EXCEPT ![w] = "waiting"]
    /\ UNCHANGED <<accepted, finished>>

Return(w) ==
    /\ drains[w] = "waiting"
    /\ finished = accepted
    /\ drains' = [drains EXCEPT ![w] = "returned"]
    /\ UNCHANGED <<accepted, finished>>

Next ==
    \/ \E x \in Items : Accept(x)
    \/ Finish
    \/ \E w \in Waiters : Ask(w) \/ Return(w)

Spec == Init /\ [][Next]_vars
=============================================================================
