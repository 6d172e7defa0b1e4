--------------------------- MODULE DrainableWorker ---------------------------
(***************************************************************************)
(* DrainableWorker of packages/shared: an unbounded transactional queue,   *)
(* one scoped fiber that takes and processes items for ever, and a counter *)
(* of outstanding items on which drain waits.  The reactors of the server  *)
(* (provider commands, runtime ingestion, checkpoints, thread deletion)    *)
(* and the agent-awareness relay each own one.                             *)
(*                                                                         *)
(* The worker is a fiber of a scope.  It ends when the item's processing   *)
(* fails (the reactors let a cause made of interrupts through) and when    *)
(* the scope closes: the fiber is interrupted first, then the queue is     *)
(* shut down.                                                              *)
(***************************************************************************)
EXTENDS Naturals, Sequences

CONSTANTS Items,        \* what can be enqueued
          Waiters,      \* calls of drain
          MaxEnqueues   \* bound on calls of enqueue

ASSUME WorkerAssumption == MaxEnqueues \in Nat

VARIABLES
    accepted,     \* history: items the queue accepted
    refused,      \* history: number of offers a closed queue refused
    finished,     \* history: items whose processing has ended
    queue,        \* the TxQueue
    held,         \* the item taken from it, as a sequence of at most one
    worker,       \* where the fiber is
    alive,        \* whether the fiber will loop
    outstanding,  \* the TxRef that drain reads
    scope,        \* the scope of the worker
    drains        \* each call of drain

state == <<queue, held, worker, alive, outstanding, scope>>
history == <<accepted, refused, finished>>
vars == <<history, state, drains>>

Init ==
    /\ accepted = <<>> /\ refused = 0 /\ finished = <<>>
    /\ queue = <<>> /\ held = <<>>
    /\ worker = "take" /\ alive = TRUE
    /\ outstanding = 0
    /\ scope = "open"
    /\ drains = [w \in Waiters |-> "idle"]

(* enqueue: offer and count in one transaction.  A queue that was shut     *)
(* down refuses the offer, but the item is counted all the same.           *)
Enqueue(x) ==
    /\ Len(accepted) + refused < MaxEnqueues
    /\ \/ /\ scope # "closed"
          /\ queue' = Append(queue, x)
          /\ accepted' = Append(accepted, x)
          /\ UNCHANGED refused
       \/ /\ scope = "closed"
          /\ refused' = refused + 1
          /\ UNCHANGED <<queue, accepted>>
    /\ outstanding' = outstanding + 1
    /\ UNCHANGED <<finished, held, worker, alive, scope, drains>>

(* Mutation: an item is counted only while it is in the queue.             *)
TakeUncounts ==
    /\ worker = "take"
    /\ queue # <<>>
    /\ held' = << Head(queue) >>
    /\ queue' = Tail(queue)
    /\ worker' = "taken"
    /\ outstanding' = outstanding - 1
    /\ UNCHANGED <<history, alive, scope, drains>>

(* The fiber: take an item,                                                *)
Take ==
    /\ worker = "take"
    /\ queue # <<>>
    /\ held' = << Head(queue) >>
    /\ queue' = Tail(queue)
    /\ worker' = "taken"
    /\ UNCHANGED <<history, alive, outstanding, scope, drains>>

(* run process on it,                                                      *)
Process ==
    /\ worker = "taken"
    /\ worker' = "process"
    /\ UNCHANGED <<history, queue, held, alive, outstanding, scope, drains>>

(* The processing of the held item has ended, one way or another.          *)
EndOfItem ==
    /\ worker = "process"
    /\ finished' = finished \o held
    /\ held' = <<>>
    /\ worker' = "settle"

ProcessEnds ==
    /\ EndOfItem
    /\ UNCHANGED <<accepted, refused, queue, alive, outstanding, scope, drains>>

ProcessFails ==
    /\ EndOfItem
    /\ alive' = FALSE
    /\ UNCHANGED <<accepted, refused, queue, outstanding, scope, drains>>

(* Mutations: the count is taken back only when the processing succeeded;  *)
(* the count is not taken back; the fiber does not loop.                   *)
SettleForgets ==
    /\ worker = "settle"
    /\ worker' = IF alive THEN "take" ELSE "ended"
    /\ UNCHANGED <<history, queue, held, alive, outstanding, scope, drains>>
SettleOnce ==
    /\ worker = "settle"
    /\ outstanding' = outstanding - 1
    /\ worker' = "ended"
    /\ UNCHANGED <<history, queue, held, alive, scope, drains>>
SettleSuccessOnly ==
    /\ worker = "settle"
    /\ outstanding' = IF alive THEN outstanding - 1 ELSE outstanding
    /\ worker' = IF alive THEN "take" ELSE "ended"
    /\ UNCHANGED <<history, queue, held, alive, scope, drains>>

(* and, whatever happened to it, take the count back; then loop.           *)
Settle ==
    /\ worker = "settle"
    /\ outstanding' = outstanding - 1
    /\ worker' = IF alive THEN "take" ELSE "ended"
    /\ UNCHANGED <<history, queue, held, alive, scope, drains>>

(* The scope closes: the fiber is interrupted.  A process under way ends   *)
(* and is counted back; an item taken but not yet started is dropped with  *)
(* its count.                                                              *)
Interrupt ==
    /\ scope = "open"
    /\ scope' = "closing"
    /\ alive' = FALSE
    /\ \/ /\ worker \in {"take", "taken"}
          /\ worker' = "ended"
          /\ UNCHANGED <<finished, held>>
       \/ EndOfItem
       \/ /\ worker \in {"settle", "ended"}
          /\ UNCHANGED <<finished, held, worker>>
    /\ UNCHANGED <<accepted, refused, queue, outstanding, drains>>

(* ... and when it has ended the queue is emptied and shut down.           *)
Shutdown ==
    /\ scope = "closing"
    /\ worker = "ended"
    /\ scope' = "closed"
    /\ queue' = <<>>
    /\ UNCHANGED <<history, held, worker, alive, outstanding, drains>>

(* drain: a transaction that retries while items are outstanding.          *)
CallDrain(w) ==
    /\ drains[w] = "idle"
    /\ drains' = [drains EXCEPT ![w] = "waiting"]
    /\ UNCHANGED <<history, state>>

DrainReturns(w) ==
    /\ drains[w] = "waiting"
    /\ outstanding = 0
    /\ drains' = [drains EXCEPT ![w] = "returned"]
    /\ UNCHANGED <<history, state>>

Fiber == Take \/ Process \/ ProcessEnds \/ Settle

Next ==
    \/ \E x \in Items : Enqueue(x)
    \/ Fiber
    \/ ProcessFails
    \/ Interrupt
    \/ Shutdown
    \/ \E w \in Waiters : CallDrain(w) \/ DrainReturns(w)

Spec == Init /\ [][Next]_vars

(* The fiber is scheduled, and a transaction waiting on the counter is     *)
(* retried when the counter changes.                                       *)
FairSpec ==
    /\ Spec
    /\ WF_vars(Fiber)
    /\ \A w \in Waiters : WF_vars(DrainReturns(w))

-----------------------------------------------------------------------------
TypeOK ==
    /\ accepted \in Seq(Items)
    /\ refused \in Nat
    /\ finished \in Seq(Items)
    /\ queue \in Seq(Items)
    /\ held \in Seq(Items)
    /\ worker \in {"take", "taken", "process", "settle", "ended"}
    /\ alive \in BOOLEAN
    /\ outstanding \in Nat
    /\ scope \in {"open", "closing", "closed"}
    /\ drains \in [Waiters -> {"idle", "waiting", "returned"}]

(* While the worker lives the counter is the backlog: the items queued and *)
(* the one in hand, so a count of zero is an empty queue and an idle       *)
(* worker, and the counter never leaks (the promise of the module's        *)
(* header: "empty and the current item has finished processing").          *)
Unsettled == IF worker = "settle" THEN 1 ELSE 0
CountIsBacklog ==
    /\ outstanding = (Len(accepted) + refused + Unsettled) - Len(finished)
    /\ scope # "closed" => accepted = finished \o held \o queue

(* Every item processed once and in order, and drains that return only     *)
(* when nothing accepted is left: the worker is a WorkQueue, even if it    *)
(* fails or its scope closes.                                              *)
Promise == INSTANCE WorkQueue
ImplementsWorkQueue == Promise!Spec

(* Every accepted item is processed, unless the processing of one fails or *)
(* the scope closes - the reactors on this worker see to the first: they   *)
(* catch what their handlers throw.                                        *)
ItemsProcessed ==
    \A n \in 1..MaxEnqueues : (Len(accepted) >= n) ~> (Len(finished) >= n \/ ~alive)

(* ... and every drain returns once callers stop adding items.             *)
DrainsReturn ==
    \A w \in Waiters : (drains[w] = "waiting") ~> (drains[w] = "returned" \/ ~alive)
=============================================================================
