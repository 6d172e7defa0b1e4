------------------------- MODULE OrchestrationEngine -------------------------
(***************************************************************************)
(* The orchestration engine: the single writer of the event log.           *)
(*                                                                         *)
(* Callers dispatch commands; one worker takes them from an unbounded      *)
(* queue, answers repeated command ids from the stored receipt, decides on *)
(* the in-memory read model, appends the events, projects them and writes  *)
(* the receipt in one SQL transaction, publishes the events to the hot     *)
(* stream and completes the caller's Deferred.                             *)
(*                                                                         *)
(* Durable: log, receipts, tables (the projection tables).  In memory, and *)
(* lost by a crash: queue, readModel, the worker, published, the waiting   *)
(* callers.  The storage is an environment that may fail at the places in  *)
(* Faults.                                                                 *)
(***************************************************************************)
EXTENDS CommandDecider

CONSTANTS CommandIds,   \* ids the callers mint
          Commands,     \* commands they send
          Faults,       \* places where an operation may fail
          MaxCalls,     \* bound on calls of dispatch
          MaxFaults,    \* bound on failed operations
          MaxCrashes    \* bound on crashes of the server process

FaultPlaces == {"lookup", "eventId", "transaction", "acknowledge", "reconcile", "receipt"}

ASSUME EngineAssumption ==
    /\ Commands \subseteq Command
    /\ Faults \subseteq FaultPlaces
    /\ MaxCalls \in Nat /\ MaxFaults \in Nat /\ MaxCrashes \in Nat

VARIABLES
    log,         \* orchestration_events: the event and the command of each sequence number
    receipts,    \* orchestration_command_receipts
    tables,      \* what the projection tables hold of projects and threads
    queue,       \* commandQueue: numbers of the calls not yet taken
    calls,       \* every call of dispatch so far, with what its Deferred holds
    readModel,   \* commandReadModel
    pc,          \* where the worker is in processEnvelope
    current,     \* the call being processed
    plan,        \* planned events not yet appended
    staged,      \* the open transaction: its log, its tables, nextCommandReadModel
    outcome,     \* what the worker will put into the Deferred
    unpublished, \* committed events the worker has still to publish
    published,   \* sequence numbers published since the server started
    bootSequence,\* snapshotSequence of the read model the server started from
    stale,       \* history: some reconciliation failed since the server started
    everStale,   \* history: and one failed at any time
    unrecorded,  \* history: the ids of which a refusal could not be stored
    faults, crashes

durable == <<log, receipts, tables>>
worker == <<pc, current, plan, staged, outcome, unpublished>>
environment == <<faults, crashes>>
history == <<bootSequence, stale, everStale, unrecorded>>
vars == <<durable, queue, calls, readModel, worker, published, history, environment>>

-----------------------------------------------------------------------------
Entry == [command : CommandIds, event : Event]
Model == [model : ReadModel, sequence : Nat]

Receipt == [status : {"none", "accepted", "rejected"}, sequence : Nat]
NoReceipt == [status |-> "none", sequence |-> 0]
Accepted(n) == [status |-> "accepted", sequence |-> n]
Rejected(n) == [status |-> "rejected", sequence |-> n]

(* A Deferred: waiting, completed, or gone with the process that held it.  *)
Reply == [status : {"waiting", "ok", "rejected", "failed", "lost"}, sequence : Nat]
Waiting == [status |-> "waiting", sequence |-> 0]
Lost == [status |-> "lost", sequence |-> 0]
Ok(n) == [status |-> "ok", sequence |-> n]
Refused == [status |-> "rejected", sequence |-> 0]
Failed == [status |-> "failed", sequence |-> 0]

Call == [id : CommandIds, command : Commands, reply : Reply]

WorkerStates == {"down", "idle", "lookup", "decide", "transaction", "publish",
                 "reconcile", "replay", "receipt", "reply"}

EmptyModel == [model |-> EmptyReadModel, sequence |-> 0]
NothingStaged == [log |-> <<>>, tables |-> EmptyReadModel, readModel |-> EmptyModel]

ThisId == calls[current].id
ThisCommand == calls[current].command

(* projectEvent of projector.ts: the fold step, with the event's sequence. *)
Projected(rm, e, n) == [model |-> ProjectOnto(rm.model, e), sequence |-> n]

Numbers(from, to) == [i \in 1..(to - from) |-> from + i]

(* An operation of the environment fails: rationed by MaxFaults.           *)
Fault(place) ==
    /\ place \in Faults
    /\ faults < MaxFaults
    /\ faults' = faults + 1
    /\ UNCHANGED crashes

-----------------------------------------------------------------------------
Init ==
    /\ log = <<>>
    /\ receipts = [id \in CommandIds |-> NoReceipt]
    /\ tables = EmptyReadModel
    /\ queue = <<>>
    /\ calls = <<>>
    /\ readModel = EmptyModel
    /\ pc = "idle"
    /\ current = 0
    /\ plan = <<>>
    /\ staged = NothingStaged
    /\ outcome = Waiting
    /\ unpublished = <<>>
    /\ published = <<>>
    /\ bootSequence = 0
    /\ stale = FALSE
    /\ everStale = FALSE
    /\ unrecorded = {}
    /\ faults = 0
    /\ crashes = 0

(* dispatch: a Deferred and an envelope on the queue.  A caller that saw   *)
(* no answer, or a failure, may send the same command again under its id;  *)
(* an id is never reused for another command.                              *)
Dispatch(id, c) ==
    /\ pc # "down"
    /\ Len(calls) < MaxCalls
    /\ \A k \in DOMAIN calls : calls[k].id = id => calls[k].command = c
    /\ calls' = Append(calls, [id |-> id, command |-> c, reply |-> Waiting])
    /\ queue' = Append(queue, Len(calls) + 1)
    /\ UNCHANGED <<durable, readModel, worker, published, history, environment>>

(* The worker takes the next envelope.                                     *)
Take ==
    /\ pc = "idle"
    /\ queue # <<>>
    /\ current' = Head(queue)
    /\ queue' = Tail(queue)
    /\ pc' = "lookup"
    /\ UNCHANGED <<durable, calls, readModel, plan, staged, outcome, unpublished,
                   published, history, environment>>

(* Mutation: an accepted receipt does not stop the command.                *)
LookupIgnoresAccepted ==
    /\ pc = "lookup"
    /\ LET r == receipts[ThisId] IN
       \/ /\ r.status = "rejected"
          /\ outcome' = Refused
          /\ pc' = "reply"
       \/ /\ r.status # "rejected"
          /\ pc' = "decide"
          /\ UNCHANGED outcome
    /\ UNCHANGED <<durable, queue, calls, readModel, current, plan, staged, unpublished,
                   published, history, environment>>

(* getByCommandId: an accepted receipt answers with its sequence, a        *)
(* rejected one with PreviouslyRejected; both skip the reconciliation.     *)
LookupReceipt ==
    /\ pc = "lookup"
    /\ LET r == receipts[ThisId] IN
       \/ /\ r.status = "accepted"
          /\ outcome' = Ok(r.sequence)
          /\ pc' = "reply"
       \/ /\ r.status = "rejected"
          /\ outcome' = Refused
          /\ pc' = "reply"
       \/ /\ r.status = "none"
          /\ pc' = "decide"
          /\ UNCHANGED outcome
    /\ UNCHANGED <<durable, queue, calls, readModel, current, plan, staged, unpublished,
                   published, history, environment>>

LookupFails ==
    /\ pc = "lookup"
    /\ Fault("lookup")
    /\ outcome' = Failed
    /\ pc' = "reconcile"
    /\ UNCHANGED <<durable, queue, calls, readModel, current, plan, staged, unpublished,
                   published, history>>

(* decideOrchestrationCommand on the in-memory model; the transaction is   *)
(* opened on what is durable now.                                          *)
DecideCommand ==
    /\ pc = "decide"
    /\ LET events == Decide(readModel.model, ThisCommand) IN
       \/ /\ events = <<>>
          /\ outcome' = Refused
          /\ pc' = "reconcile"
          /\ UNCHANGED <<plan, staged>>
       \/ /\ events # <<>>
          /\ plan' = events
          /\ staged' = [log |-> log, tables |-> tables, readModel |-> readModel]
          /\ pc' = "transaction"
          /\ UNCHANGED outcome
    /\ UNCHANGED <<durable, queue, calls, readModel, current, unpublished, published,
                   history, environment>>

(* A failing random source is mapped to the same invariant error as a      *)
(* command the model forbids.                                              *)
EventIdFails ==
    /\ pc = "decide"
    /\ Decide(readModel.model, ThisCommand) # <<>>
    /\ Fault("eventId")
    /\ outcome' = Refused
    /\ pc' = "reconcile"
    /\ UNCHANGED <<durable, queue, calls, readModel, current, plan, staged, unpublished,
                   published, history>>

(* Mutation: only the last event of a command reaches the tables.          *)
AppendProjectsLast ==
    /\ pc = "transaction"
    /\ plan # <<>>
    /\ LET e == Head(plan)
           n == Len(staged.log) + 1
       IN  staged' = [log |-> Append(staged.log, [command |-> ThisId, event |-> e]),
                      tables |-> IF Tail(plan) = <<>> THEN ProjectOnto(staged.tables, e)
                                 ELSE staged.tables,
                      readModel |-> Projected(staged.readModel, e, n)]
    /\ plan' = Tail(plan)
    /\ UNCHANGED <<durable, queue, calls, readModel, pc, current, outcome, unpublished,
                   published, history, environment>>

(* One round of the loop in the transaction: append, project onto the next *)
(* read model, project onto the tables.                                    *)
AppendNext ==
    /\ pc = "transaction"
    /\ plan # <<>>
    /\ LET e == Head(plan)
           n == Len(staged.log) + 1
       IN  staged' = [log |-> Append(staged.log, [command |-> ThisId, event |-> e]),
                      tables |-> ProjectOnto(staged.tables, e),
                      readModel |-> Projected(staged.readModel, e, n)]
    /\ plan' = Tail(plan)
    /\ UNCHANGED <<durable, queue, calls, readModel, pc, current, outcome, unpublished,
                   published, history, environment>>

(* An append, a projector or the receipt fails: the rollback drops the     *)
(* whole transaction.                                                      *)
TransactionFails ==
    /\ pc = "transaction"
    /\ Fault("transaction")
    /\ staged' = NothingStaged
    /\ plan' = <<>>
    /\ outcome' = Failed
    /\ pc' = "reconcile"
    /\ UNCHANGED <<durable, queue, calls, readModel, current, unpublished, published, history>>

(* Mutation: the receipt names the first sequence instead of the last.     *)
MakeDurableFirstSequence ==
    /\ log' = staged.log
    /\ tables' = staged.tables
    /\ receipts' = [receipts EXCEPT ![ThisId] = Accepted(Len(log) + 1)]

(* What a commit makes durable: the events, the tables, and the accepted   *)
(* receipt with the last sequence.                                         *)
MakeDurable ==
    /\ log' = staged.log
    /\ tables' = staged.tables
    /\ receipts' = [receipts EXCEPT ![ThisId] = Accepted(Len(staged.log))]

(* Mutation: only the last event of the command is published.              *)
CommitPublishesLast ==
    /\ pc = "transaction"
    /\ plan = <<>>
    /\ MakeDurable
    /\ readModel' = staged.readModel
    /\ unpublished' = << Len(staged.log) >>
    /\ outcome' = Ok(Len(staged.log))
    /\ staged' = NothingStaged
    /\ pc' = "publish"
    /\ UNCHANGED <<queue, calls, current, plan, published, history, environment>>

Commit ==
    /\ pc = "transaction"
    /\ plan = <<>>
    /\ MakeDurable
    /\ readModel' = staged.readModel
    /\ unpublished' = Numbers(Len(log), Len(staged.log))
    /\ outcome' = Ok(Len(staged.log))
    /\ staged' = NothingStaged
    /\ pc' = "publish"
    /\ UNCHANGED <<queue, calls, current, plan, published, history, environment>>

(* The commit happens but its acknowledgement is an error: the events are  *)
(* durable and the in-memory model is not advanced.                        *)
CommitUnacknowledged ==
    /\ pc = "transaction"
    /\ plan = <<>>
    /\ Fault("acknowledge")
    /\ MakeDurable
    /\ outcome' = Failed
    /\ staged' = NothingStaged
    /\ pc' = "reconcile"
    /\ UNCHANGED <<queue, calls, readModel, current, plan, unpublished, published, history>>

(* What remains once events are published or there were none: only a        *)
(* refusal still writes a receipt.                                         *)
AfterFailure == IF outcome.status = "rejected" THEN "receipt" ELSE "reply"

(* Events reach the hot stream one by one, in the order of the log.        *)
Publish ==
    /\ pc = "publish"
    /\ unpublished # <<>>
    /\ published' = Append(published, Head(unpublished))
    /\ unpublished' = Tail(unpublished)
    /\ UNCHANGED <<durable, queue, calls, readModel, pc, current, plan, staged, outcome,
                   history, environment>>

PublishDone ==
    /\ pc = "publish"
    /\ unpublished = <<>>
    /\ pc' = AfterFailure
    /\ UNCHANGED <<durable, queue, calls, readModel, current, plan, staged, outcome,
                   unpublished, published, history, environment>>

(* Mutation: a failed dispatch is taken to have persisted nothing.         *)
ReconcileNothing ==
    /\ pc = "reconcile"
    /\ pc' = AfterFailure
    /\ UNCHANGED <<durable, queue, calls, readModel, current, plan, staged, outcome, unpublished,
                   published, history, environment>>

(* Mutation: with nothing to reconcile the worker goes on to the next      *)
(* envelope.                                                               *)
ReconcileSwallows ==
    /\ pc = "reconcile"
    /\ \/ /\ readModel.sequence = Len(log)
          /\ pc' = "idle"
          /\ current' = 0
          /\ outcome' = Waiting
          /\ UNCHANGED staged
       \/ /\ readModel.sequence < Len(log)
          /\ staged' = [NothingStaged EXCEPT !.readModel = readModel]
          /\ pc' = "replay"
          /\ UNCHANGED <<current, outcome>>
    /\ UNCHANGED <<durable, queue, calls, readModel, plan, unpublished,
                   published, history, environment>>

(* reconcileReadModelAfterDispatchFailure: the events persisted since the  *)
(* dispatch began are read back,                                           *)
Reconcile ==
    /\ pc = "reconcile"
    /\ \/ /\ readModel.sequence = Len(log)
          /\ pc' = AfterFailure
          /\ UNCHANGED staged
       \/ /\ readModel.sequence < Len(log)
          /\ staged' = [NothingStaged EXCEPT !.readModel = readModel]
          /\ pc' = "replay"
    /\ UNCHANGED <<durable, queue, calls, readModel, current, plan, outcome, unpublished,
                   published, history, environment>>

(* folded over a copy of the read model,                                   *)
ReplayNext ==
    /\ pc = "replay"
    /\ LET n == staged.readModel.sequence + 1 IN
       /\ n <= Len(log)
       /\ staged' = [staged EXCEPT !.readModel = Projected(@, log[n].event, n)]
    /\ UNCHANGED <<durable, queue, calls, readModel, pc, current, plan, outcome, unpublished,
                   published, history, environment>>

(* Mutation: reconciled events are not published.                          *)
ReplayDoneSilently ==
    /\ pc = "replay"
    /\ staged.readModel.sequence = Len(log)
    /\ readModel' = staged.readModel
    /\ staged' = NothingStaged
    /\ pc' = "publish"
    /\ UNCHANGED <<durable, queue, calls, current, plan, outcome, unpublished, published,
                   history, environment>>

(* which then becomes the read model, and the events are published.        *)
ReplayDone ==
    /\ pc = "replay"
    /\ staged.readModel.sequence = Len(log)
    /\ readModel' = staged.readModel
    /\ unpublished' = Numbers(readModel.sequence, Len(log))
    /\ staged' = NothingStaged
    /\ pc' = "publish"
    /\ UNCHANGED <<durable, queue, calls, current, plan, outcome, published,
                   history, environment>>

(* Reading or projecting the events fails: a warning, and the read model   *)
(* stays behind.                                                           *)
ReconcileFails ==
    /\ pc \in {"reconcile", "replay"}
    /\ Fault("reconcile")
    /\ stale' = (stale \/ readModel.sequence < Len(log))
    /\ everStale' = (everStale \/ readModel.sequence < Len(log))
    /\ staged' = NothingStaged
    /\ pc' = AfterFailure
    /\ UNCHANGED <<durable, queue, calls, readModel, current, plan, outcome,
                   unpublished, published, bootSequence, unrecorded>>

(* Mutation: a refusal is answered and not remembered.                     *)
StoreNoRejection ==
    /\ pc = "receipt"
    /\ pc' = "reply"
    /\ UNCHANGED <<durable, queue, calls, readModel, current, plan, staged, outcome,
                   unpublished, published, history, environment>>

(* An invariant error is remembered under the command id.                  *)
StoreRejection ==
    /\ pc = "receipt"
    /\ receipts' = [receipts EXCEPT ![ThisId] = Rejected(readModel.sequence)]
    /\ pc' = "reply"
    /\ UNCHANGED <<log, tables, queue, calls, readModel, current, plan, staged, outcome,
                   unpublished, published, history, environment>>

StoreRejectionFails ==
    /\ pc = "receipt"
    /\ Fault("receipt")
    /\ unrecorded' = unrecorded \cup {ThisId}
    /\ pc' = "reply"
    /\ UNCHANGED <<durable, queue, calls, readModel, current, plan, staged, outcome,
                   unpublished, published, bootSequence, stale, everStale>>

(* Mutation: only successes complete the Deferred.                         *)
CompleteSuccessOnly ==
    /\ pc = "reply"
    /\ calls' = IF outcome.status = "ok" THEN [calls EXCEPT ![current].reply = outcome]
                ELSE calls
    /\ pc' = "idle"
    /\ current' = 0
    /\ outcome' = Waiting
    /\ UNCHANGED <<durable, queue, readModel, plan, staged, unpublished, published,
                   history, environment>>

(* Deferred.succeed or Deferred.fail; the worker loops.                    *)
CompleteCall ==
    /\ pc = "reply"
    /\ calls' = [calls EXCEPT ![current].reply = outcome]
    /\ pc' = "idle"
    /\ current' = 0
    /\ outcome' = Waiting
    /\ UNCHANGED <<durable, queue, readModel, plan, staged, unpublished, published,
                   history, environment>>

(* The process dies: an open transaction rolls back, the queue and the     *)
(* Deferreds are gone.                                                     *)
Crash ==
    /\ pc # "down"
    /\ crashes < MaxCrashes
    /\ crashes' = crashes + 1
    /\ pc' = "down"
    /\ queue' = <<>>
    /\ calls' = [k \in DOMAIN calls |->
                    IF calls[k].reply = Waiting THEN [calls[k] EXCEPT !.reply = Lost]
                    ELSE calls[k]]
    /\ readModel' = EmptyModel
    /\ current' = 0
    /\ plan' = <<>>
    /\ staged' = NothingStaged
    /\ outcome' = Waiting
    /\ unpublished' = <<>>
    /\ published' = <<>>
    /\ UNCHANGED <<durable, history, faults>>

(* Mutation: the engine starts from the empty read model.                  *)
StartEmpty ==
    /\ pc = "down"
    /\ readModel' = [model |-> EmptyReadModel, sequence |-> Len(log)]
    /\ bootSequence' = Len(log)
    /\ stale' = FALSE
    /\ pc' = "idle"
    /\ UNCHANGED <<durable, queue, calls, current, plan, staged, outcome, unpublished,
                   published, everStale, unrecorded, environment>>

(* The layer is built again: the projectors resume (they are level with    *)
(* the log, which one transaction moves together with them) and            *)
(* getCommandReadModel reads the tables.                                   *)
Start ==
    /\ pc = "down"
    /\ readModel' = [model |-> tables, sequence |-> Len(log)]
    /\ bootSequence' = Len(log)
    /\ stale' = FALSE
    /\ pc' = "idle"
    /\ UNCHANGED <<durable, queue, calls, current, plan, staged, outcome, unpublished,
                   published, everStale, unrecorded, environment>>

WorkerStep ==
    \/ Take
    \/ LookupReceipt
    \/ DecideCommand
    \/ AppendNext
    \/ Commit
    \/ Publish
    \/ PublishDone
    \/ Reconcile
    \/ ReplayNext
    \/ ReplayDone
    \/ StoreRejection
    \/ CompleteCall

StorageFault ==
    \/ LookupFails
    \/ EventIdFails
    \/ TransactionFails
    \/ CommitUnacknowledged
    \/ ReconcileFails
    \/ StoreRejectionFails

Next ==
    \/ \E id \in CommandIds, c \in Commands : Dispatch(id, c)
    \/ WorkerStep
    \/ StorageFault
    \/ Crash
    \/ Start

Spec == Init /\ [][Next]_vars

(* The worker fiber runs whenever it can, and a supervisor restarts the    *)
(* process.  Nothing obliges a caller, a fault or a crash.                 *)
FairSpec == Spec /\ WF_vars(WorkerStep) /\ WF_vars(Start)

-----------------------------------------------------------------------------
(***************************************************************************)
(* Types.                                                                  *)
(***************************************************************************)
TypeOK ==
    /\ log \in Seq(Entry)
    /\ receipts \in [CommandIds -> Receipt]
    /\ tables \in ReadModel
    /\ queue \in Seq(Nat)
    /\ calls \in Seq(Call)
    /\ readModel \in Model
    /\ pc \in WorkerStates
    /\ current \in Nat
    /\ plan \in Seq(Event)
    /\ staged \in [log : Seq(Entry), tables : ReadModel, readModel : Model]
    /\ outcome \in Reply
    /\ unpublished \in Seq(Nat)
    /\ published \in Seq(Nat)
    /\ bootSequence \in Nat
    /\ stale \in BOOLEAN /\ everStale \in BOOLEAN
    /\ unrecorded \subseteq CommandIds
    /\ faults \in Nat /\ crashes \in Nat

(* However often a command id is dispatched, retried, interrupted by a     *)
(* fault or by a crash, its events are in the log at most once: they form  *)
(* one block that ends at the sequence its accepted receipt names (the     *)
(* deduplication "via command receipts" of OrchestrationEngineShape).      *)
AppliedOnce ==
    /\ \A i \in 1..Len(log) :
          LET r == receipts[log[i].command] IN
          /\ r.status = "accepted"
          /\ r.sequence \in i..Len(log)
          /\ \A j \in i..r.sequence : log[j].command = log[i].command
    /\ \A id \in CommandIds :
          receipts[id].status = "accepted" =>
              /\ receipts[id].sequence \in 1..Len(log)
              /\ log[receipts[id].sequence].command = id

(* Between commands the in-memory read model is the projection tables, at  *)
(* the end of the log; commands are decided on what is stored.  The        *)
(* exception the code admits is a reconciliation that failed.              *)
ReadModelIsStored ==
    (pc \in {"idle", "lookup", "decide", "transaction"} /\ ~stale) =>
        /\ readModel.model = tables
        /\ readModel.sequence = Len(log)

(* The tables are the replay of the whole log: what a bootstrap of the     *)
(* projectors from nothing would build.                                    *)
Events == [i \in 1..Len(log) |-> log[i].event]
TablesAreReplay == tables = Replay(Events)

(* The log is a serial execution of the accepted commands: the block of    *)
(* each command is exactly what the decider plans on the replay of the log *)
(* before it.                                                              *)
BlockStart(n) ==
    CHOOSE s \in 1..n : /\ \A j \in s..n : log[j].command = log[n].command
                        /\ s = 1 \/ log[s - 1].command # log[n].command
SerialExecution ==
    ~everStale =>
        \A k \in DOMAIN calls :
            LET r == receipts[calls[k].id]
                s == BlockStart(r.sequence)
            IN  r.status = "accepted" =>
                    SubSeq(Events, s, r.sequence) =
                        Decide(Replay(SubSeq(Events, 1, s - 1)), calls[k].command)

(* A subscriber of the hot stream sees, since the start of the server, the *)
(* events of the log in order, none twice and none left out, and no event  *)
(* before it is durable.                                                   *)
PublishedInOrder ==
    /\ \A i \in 1..Len(published) : published[i] <= Len(log)
    /\ ~stale => published = Numbers(bootSequence, bootSequence + Len(published))

(* ... even after a failed reconciliation nothing is published twice or    *)
(* out of order.                                                           *)
PublishedAscending ==
    \A i, j \in 1..Len(published) : i < j => published[i] < published[j]

(* When the worker rests, everything committed since the start is out.     *)
NothingWithheld ==
    (pc \in {"idle", "lookup", "decide"} /\ ~stale) =>
        Len(published) = Len(log) - bootSequence

(* The three together: whatever fails between a commit and its publication *)
(* the hot stream is the log since the start, no less and no more, also    *)
(* when the events reach it from the reconciliation.                       *)
HotStreamExact == PublishedInOrder /\ PublishedAscending /\ NothingWithheld

(* An answer is final.  A caller told a sequence finds it in the receipt   *)
(* whatever happens later; a caller told a refusal finds that there,       *)
(* unless a refusal of its id could not be stored.  So two callers of one  *)
(* id are never told different sequences, and one is told a success and    *)
(* the other a refusal only in that case.                                  *)
AnswersAreDurable ==
    \A k \in DOMAIN calls :
        LET id == calls[k].id
            reply == calls[k].reply
        IN  /\ reply.status = "ok" => receipts[id] = Accepted(reply.sequence)
            /\ reply.status = "rejected" =>
                   receipts[id].status = "rejected" \/ id \in unrecorded

(* No caller is forgotten and none is served twice: whoever waits is on    *)
(* the queue once, or is the call the worker has in hand, also when the    *)
(* lookup, the transaction, the reconciliation or the receipt failed, and  *)
(* nobody else is.                                                         *)
NobodyForgotten ==
    /\ \A i, j \in DOMAIN queue : i < j => queue[i] < queue[j]
    /\ \A k \in DOMAIN calls :
          calls[k].reply = Waiting <=> (k = current \/ k \in Range(queue))
    /\ current # 0 <=> pc \notin {"idle", "down"}

(* No step rewrites the log: the durable log only grows at its end.        *)
LogOnlyGrows == [][IsPrefix(log, log')]_vars

(* A stored receipt is never overwritten although the statement is an      *)
(* upsert.                                                                 *)
ReceiptsAreFinal ==
    [][\A id \in CommandIds :
          receipts[id].status # "none" => receipts'[id] = receipts[id]]_vars

(* Every caller of dispatch is answered or loses the process it asked.     *)
CallsAnswered ==
    \A k \in 1..MaxCalls :
        (k \in DOMAIN calls) ~> (k \in DOMAIN calls /\ calls[k].reply # Waiting)

-----------------------------------------------------------------------------
(***************************************************************************)
(* The promise: with receipts as the decisions, and the recorded decision  *)
(* of every answered call as the answers, the engine implements            *)
(* CommandLog.  It holds where reconciliations and receipt writes do not   *)
(* fail.                                                                   *)
(***************************************************************************)
Told == {k \in DOMAIN calls : calls[k].reply.status \in {"ok", "rejected"}}

(* A refusal carries no sequence to its caller; what was recorded with it  *)
(* is the abstract verdict.                                                *)
AnswerTold(k) ==
    IF calls[k].reply.status = "ok" THEN Accepted(calls[k].reply.sequence)
    ELSE Rejected(receipts[calls[k].id].sequence)

PlanAfter(events, c) == Decide(Replay(events), c)

Promise == INSTANCE CommandLog WITH
               Plan <- PlanAfter,
               decided <- receipts,
               answers <- {<<calls[k].id, AnswerTold(k)>> : k \in Told}

ImplementsCommandLog == Promise!Spec

(* What subscribers may rely on: with the sequence of the last event       *)
(* published since the start as its position, the hot stream is a          *)
(* DomainEventStream, also across crashes.                                 *)
Subscribers == INSTANCE DomainEventStream WITH
                   Batches <- SeqOf(Event, Cardinality(Threads) + 1),
                   log <- Events,
                   published <- IF pc = "down" THEN Len(log)
                                ELSE bootSequence + Len(published)

ImplementsEventStream == Subscribers!Spec
=============================================================================
