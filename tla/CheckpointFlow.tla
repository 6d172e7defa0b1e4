---------------------------- MODULE CheckpointFlow ----------------------------
(***************************************************************************)
(* The checkpoints of one thread: how the git refs, the table of turns and *)
(* the in-memory read model follow the turns of an agent.                  *)
(*                                                                         *)
(* Two workers write.  ProviderRuntimeIngestion turns a diff reported by   *)
(* the agent into a placeholder checkpoint (status "missing").             *)
(* CheckpointReactor, one worker fed by domain events and runtime events,  *)
(* captures the workspace into a ref and records a real checkpoint,        *)
(* captures a baseline before a turn, and carries out reverts.  Each reads *)
(* the tables, works, and dispatches later: the other one, the agent and   *)
(* the clients go on in between.                                           *)
(*                                                                         *)
(* Only the reactor touches the refs, so that what it reads and what it    *)
(* does to the refs is one step; the dispatch that follows is another.     *)
(* Its input queue is filled by two fibers: the two orders are kept, and   *)
(* merged in any way.                                                      *)
(***************************************************************************)
EXTENDS Naturals, Sequences, FiniteSetsExt

CONSTANTS MaxTurns,     \* bound on the turns of the thread
          MaxNumber,    \* bound on the number of a checkpoint
          MaxReports,   \* bound on the diffs the agent reports
          MaxReverts,   \* bound on revert requests
          MaxFailures   \* bound on faults: failing operations, lost runtime events

ASSUME CheckpointAssumption ==
    /\ MaxTurns \in Nat /\ MaxReports \in Nat /\ MaxReverts \in Nat /\ MaxFailures \in Nat
    /\ MaxNumber \in Nat /\ MaxNumber >= MaxTurns

Turns == 1..MaxTurns

(* A placeholder decided before a revert and recorded after it leaves a    *)
(* gap, and the next turn is numbered past the gap: the numbers can exceed *)
(* MaxTurns.                                                               *)
Counts == 0..MaxNumber

VARIABLES
    tables,       \* projection_turns: the checkpoint columns of each turn
    model,        \* checkpoints of the thread in the engine's read model
    activeTurn,   \* activeTurnId of the projected session, 0 for null
    domain,       \* domain events on their way to the reactor
    runtime,      \* runtime events on their way to the reactor
    ingestion,    \* runtime events on their way to the ingestion
    placeholder,  \* what the ingestion has decided to dispatch
    job,          \* what the reactor has yet to dispatch
    refs,         \* checkpoint refs: the turn each count was captured for
    running,      \* the turn the provider is running, 0 for none
    begun,        \* turns the provider has started
    requested,    \* turn starts requested by clients
    reports,      \* number of diffs reported
    complaints,   \* turns with a capture failure activity, 0 for a revert failure
    unreported,   \* history: those whose failure activity could not be stored
    reverts, failures

projections == <<tables, model>>
provider == <<running, begun, requested, reports>>
outcomes == <<complaints, unreported>>
bounds == <<reverts, failures>>
vars == <<projections, activeTurn, domain, runtime, ingestion, placeholder, job, refs,
          provider, outcomes, bounds>>

-----------------------------------------------------------------------------
(* A checkpoint row; count 0 stands for NULL columns.  The ref of a        *)
(* captured row names its count; a placeholder's names no ref.             *)
Row == [count : Counts, status : {"none", "missing", "ready", "error"}, captured : BOOLEAN]
NoRow == [count |-> 0, status |-> "none", captured |-> FALSE]
IsReal(row) == row.status \in {"ready", "error"}

MaxCount(rows) == Max({rows[t].count : t \in Turns} \cup {0})

Baseline == 0
NoRef == MaxTurns + 1

NoPlaceholder == [turn |-> 0, count |-> 0]
Idle == [step |-> "idle", turn |-> 0, count |-> 0, status |-> "none"]

(* Mutation: a checkpoint does not take its count from another turn.       *)
RecordKeepingConflict(rows, t, row) == [rows EXCEPT ![t] = row]

(* thread.turn-diff-completed on projection_turns: another turn with the   *)
(* same count loses its checkpoint; the row of the turn is overwritten.    *)
RecordInTables(rows, t, row) ==
    [u \in Turns |-> IF u = t THEN row
                     ELSE IF rows[u].count = row.count THEN NoRow ELSE rows[u]]

(* The same event on the read model: a placeholder does not overwrite a    *)
(* real checkpoint, and counts may coincide.                               *)
RecordInModel(rows, t, row) ==
    IF IsReal(rows[t]) /\ row.status = "missing" THEN rows ELSE [rows EXCEPT ![t] = row]

(* thread.reverted on either.                                              *)
Retained(rows, count) ==
    [t \in Turns |-> IF rows[t].count <= count THEN rows[t] ELSE NoRow]

(* The engine commits thread.turn.diff.complete and publishes the event.   *)
CommitDiff(t, row) ==
    /\ tables' = RecordInTables(tables, t, row)
    /\ model' = RecordInModel(model, t, row)
    /\ domain' = Append(domain, [kind |-> "diff", turn |-> t,
                                 count |-> row.count, status |-> row.status])

-----------------------------------------------------------------------------
Init ==
    /\ tables = [t \in Turns |-> NoRow] /\ model = [t \in Turns |-> NoRow]
    /\ activeTurn = 0
    /\ domain = <<>> /\ runtime = <<>> /\ ingestion = <<>>
    /\ placeholder = NoPlaceholder
    /\ job = Idle
    /\ refs = [n \in Counts |-> NoRef]
    /\ running = 0 /\ begun = 0 /\ requested = 0 /\ reports = 0
    /\ complaints = {} /\ unreported = {}
    /\ reverts = 0 /\ failures = 0

-----------------------------------------------------------------------------
(***************************************************************************)
(* Clients and the agent.                                                  *)
(***************************************************************************)
(* A client sends a message.  Its two events, thread.message-sent and      *)
(* thread.turn-start-requested, ask for the same baseline: one stands for  *)
(* both.                                                                   *)
RequestTurn ==
    /\ requested < MaxTurns
    /\ requested' = requested + 1
    /\ domain' = Append(domain, [kind |-> "start", turn |-> 0, count |-> 0, status |-> "none"])
    /\ UNCHANGED <<projections, activeTurn, runtime, ingestion, placeholder, job, refs,
                   running, begun, reports, outcomes, bounds>>

(* A client asks for a revert, to any number and at any time: only the web *)
(* client waits until it sees the session rest.                            *)
RequestRevert ==
    /\ reverts < MaxReverts
    /\ reverts' = reverts + 1
    /\ \E n \in Counts :
           domain' = Append(domain, [kind |-> "revert", turn |-> 0, count |-> n,
                                     status |-> "none"])
    /\ UNCHANGED <<projections, activeTurn, runtime, ingestion, placeholder, job, refs,
                   provider, outcomes, failures>>

(* A runtime event goes to the ingestion and, filtered, to the reactor.    *)
Emit(event) ==
    /\ ingestion' = Append(ingestion, event)
    /\ runtime' = IF event.kind = "diff" THEN runtime ELSE Append(runtime, event)

(* The provider starts a requested turn, reports diffs if it is one that   *)
(* does, and completes.                                                    *)
TurnStarts ==
    /\ running = 0
    /\ begun < requested
    /\ begun' = begun + 1
    /\ running' = begun + 1
    /\ Emit([kind |-> "started", turn |-> begun + 1, status |-> "none"])
    /\ UNCHANGED <<projections, activeTurn, domain, placeholder, job, refs, requested,
                   reports, outcomes, bounds>>

ReportDiff ==
    /\ running # 0
    /\ reports < MaxReports
    /\ reports' = reports + 1
    /\ Emit([kind |-> "diff", turn |-> running, status |-> "none"])
    /\ UNCHANGED <<projections, activeTurn, domain, placeholder, job, refs, running,
                   begun, requested, outcomes, bounds>>

(* checkpointStatusFromRuntime: of a completed turn "ready", of a failed   *)
(* one "error", of an interrupted one "missing".  The mutation records the *)
(* status of the runtime as it is.                                         *)
CompletionStatusUnmapped == {"completed", "failed", "interrupted"}
CompletionStatus == {"ready", "error", "missing"}

TurnCompletes ==
    /\ running # 0
    /\ running' = 0
    /\ \E status \in CompletionStatus :
           Emit([kind |-> "completed", turn |-> running, status |-> status])
    /\ UNCHANGED <<projections, activeTurn, domain, placeholder, job, refs, begun,
                   requested, reports, outcomes, bounds>>

-----------------------------------------------------------------------------
(***************************************************************************)
(* ProviderRuntimeIngestion.                                               *)
(***************************************************************************)
(* turn.started and turn.completed set the session, unless another turn    *)
(* is active.                                                              *)
IngestLifecycle ==
    /\ placeholder = NoPlaceholder
    /\ ingestion # <<>>
    /\ LET e == Head(ingestion) IN
       /\ e.kind # "diff"
       /\ activeTurn' = IF activeTurn \notin {0, e.turn} THEN activeTurn
                        ELSE IF e.kind = "started" THEN e.turn ELSE 0
    /\ ingestion' = Tail(ingestion)
    /\ UNCHANGED <<projections, domain, runtime, placeholder, job, refs, provider, outcomes, bounds>>

(* turn.diff.updated: a turn with a checkpoint is left alone, another one  *)
(* is numbered after the highest,                                          *)
IngestDiff ==
    /\ placeholder = NoPlaceholder
    /\ ingestion # <<>>
    /\ Head(ingestion).kind = "diff"
    /\ LET e == Head(ingestion) IN
       \/ tables[e.turn].count # 0 /\ UNCHANGED placeholder
       \/ /\ tables[e.turn].count = 0
          /\ MaxCount(tables) + 1 \in Counts
          /\ placeholder' = [turn |-> e.turn, count |-> MaxCount(tables) + 1]
    /\ ingestion' = Tail(ingestion)
    /\ UNCHANGED <<projections, activeTurn, domain, runtime, job, refs, provider, outcomes, bounds>>

(* and the placeholder is dispatched.                                      *)
DispatchPlaceholder ==
    /\ placeholder # NoPlaceholder
    /\ CommitDiff(placeholder.turn,
                  [count |-> placeholder.count, status |-> "missing", captured |-> FALSE])
    /\ placeholder' = NoPlaceholder
    /\ UNCHANGED <<activeTurn, runtime, ingestion, job, refs, provider, outcomes,
                   bounds>>

-----------------------------------------------------------------------------
(***************************************************************************)
(* CheckpointReactor.                                                      *)
(***************************************************************************)
others == <<activeTurn, ingestion, placeholder, provider, reverts>>

Fault == failures < MaxFailures /\ failures' = failures + 1
NoFault == UNCHANGED failures

(* The failure activity of a turn, or of a revert, is dispatched.  That may *)
(* fail as well - the fault that made it necessary may be the reason - and  *)
(* is logged at most.                                                       *)
Complain(about) == complaints' = complaints \cup {about} /\ UNCHANGED unreported
ComplaintFails(about) == unreported' = unreported \cup {about} /\ UNCHANGED complaints

FaultOf(about) == Fault /\ (Complain(about) \/ ComplaintFails(about))
Refusal(about) == \/ NoFault /\ Complain(about)
                  \/ Fault /\ ComplaintFails(about)

TakeDomain(kind) ==
    /\ job = Idle
    /\ domain # <<>>
    /\ Head(domain).kind = kind
    /\ domain' = Tail(domain)
    /\ UNCHANGED <<projections, runtime, others>>

TakeRuntime(kind) ==
    /\ job = Idle
    /\ runtime # <<>>
    /\ Head(runtime).kind = kind
    /\ runtime' = Tail(runtime)
    /\ UNCHANGED <<projections, domain, others>>

(* ensurePreTurnBaseline: the ref of the highest count is captured if it   *)
(* does not exist; a failure is only logged.                               *)
EnsureBaseline ==
    /\ TakeDomain("start") \/ TakeRuntime("started")
    /\ LET n == MaxCount(tables) IN
       \/ /\ NoFault
          /\ refs' = IF refs[n] = NoRef THEN [refs EXCEPT ![n] = Baseline] ELSE refs
       \/ Fault /\ UNCHANGED refs
    /\ UNCHANGED <<job, outcomes>>

(* captureAndDispatchCheckpoint up to the dispatch: the ref is written,    *)
(* and a missing previous ref costs the summary of the turn.  Git may      *)
(* fail.                                                                   *)
Capture(t, n, status) ==
    \/ /\ n \in Counts
       /\ refs' = [refs EXCEPT ![n] = t]
       /\ job' = [step |-> "record", turn |-> t, count |-> n, status |-> status]
       /\ \/ refs[n - 1] # NoRef /\ NoFault /\ UNCHANGED outcomes
          \/ refs[n - 1] = NoRef /\ Refusal(t)
    \/ /\ FaultOf(t)
       /\ UNCHANGED <<refs, job>>

Skip == NoFault /\ UNCHANGED <<refs, job, outcomes>>

(* captureCheckpointFromTurnCompletion: not while another turn is active,  *)
(* not for a turn with a real checkpoint; the count of a placeholder is    *)
(* used again.                                                             *)
CaptureFromTurnCompletion ==
    /\ TakeRuntime("completed")
    /\ LET e == Head(runtime)
           row == tables[e.turn]
       IN  IF activeTurn \notin {0, e.turn} \/ IsReal(row) THEN Skip
           ELSE Capture(e.turn,
                        IF row.status = "missing" THEN row.count ELSE MaxCount(tables) + 1,
                        e.status)

(* Mutation: a turn with any checkpoint, its placeholder too, is skipped.  *)
CaptureUnlessTracked ==
    /\ TakeDomain("diff")
    /\ LET e == Head(domain) IN
       IF e.status # "missing" \/ tables[e.turn].count # 0 THEN Skip
       ELSE Capture(e.turn, e.count, "ready")

(* captureCheckpointFromPlaceholder: of a real checkpoint, or of a turn    *)
(* that has one by now, nothing; otherwise the count of the event.         *)
CaptureFromPlaceholder ==
    /\ TakeDomain("diff")
    /\ LET e == Head(domain) IN
       IF e.status # "missing" \/ IsReal(tables[e.turn]) THEN Skip
       ELSE Capture(e.turn, e.count, "ready")

(* The checkpoint is dispatched, or that fails.                            *)
RecordCheckpoint ==
    /\ job.step = "record"
    /\ job' = Idle
    /\ \/ /\ NoFault
          /\ CommitDiff(job.turn, [count |-> job.count, status |-> job.status,
                                   captured |-> TRUE])
          /\ UNCHANGED outcomes
       \/ /\ FaultOf(job.turn)
          /\ UNCHANGED <<projections, domain>>
    /\ UNCHANGED <<others, runtime, refs>>

(* handleRevertRequested: the target is a captured checkpoint, or the      *)
(* beginning of the thread, which HEAD can stand for.                      *)
Restorable(n) ==
    \/ n = 0
    \/ \E t \in Turns : tables[t].count = n /\ tables[t].captured /\ refs[n] # NoRef

(* Mutation: the ref reverted to is deleted with the stale ones.           *)
StaleRefsAndTarget(n) ==
    {tables[t].count : t \in {u \in Turns : tables[u].captured /\ tables[u].count >= n}}

StaleRefs(n) == {tables[t].count : t \in {u \in Turns : tables[u].captured /\ tables[u].count > n}}

Without(stale) == [n \in Counts |-> IF n \in stale THEN NoRef ELSE refs[n]]

(* The workspace is restored, the conversation rolled back and the refs    *)
(* past the target deleted; a failure in between leaves any of them.       *)
RevertWorkspace ==
    /\ TakeDomain("revert")
    /\ LET n == Head(domain).count
           possible == n <= MaxCount(tables) /\ Restorable(n)
       IN  \/ /\ possible
              /\ NoFault
              /\ refs' = Without(StaleRefs(n))
              /\ job' = [Idle EXCEPT !.step = "complete", !.count = n]
              /\ UNCHANGED outcomes
           \/ /\ possible
              /\ FaultOf(0)
              /\ \E stale \in SUBSET StaleRefs(n) : refs' = Without(stale)
              /\ UNCHANGED job
           \/ /\ ~possible
              /\ Refusal(0)
              /\ UNCHANGED <<refs, job>>

(* thread.revert.complete, or its dispatch fails.  (Its failure activity  *)
(* is then tried twice; here it is once.)                                  *)
CompleteRevert ==
    /\ job.step = "complete"
    /\ job' = Idle
    /\ \/ /\ NoFault
          /\ tables' = Retained(tables, job.count)
          /\ model' = Retained(model, job.count)
          /\ UNCHANGED outcomes
       \/ /\ FaultOf(0)
          /\ UNCHANGED projections
    /\ UNCHANGED <<others, domain, runtime, refs>>

(* streamEvents "does not reliably deliver" to this reactor.               *)
LoseRuntime ==
    /\ runtime # <<>>
    /\ Fault
    /\ runtime' = Tail(runtime)
    /\ UNCHANGED <<projections, others, job, domain, refs, outcomes>>

-----------------------------------------------------------------------------
Clients == RequestTurn \/ RequestRevert
Agent == TurnStarts \/ ReportDiff \/ TurnCompletes
Ingestion == IngestLifecycle \/ IngestDiff \/ DispatchPlaceholder
Reactor ==
    \/ EnsureBaseline
    \/ CaptureFromTurnCompletion \/ CaptureFromPlaceholder \/ RecordCheckpoint
    \/ RevertWorkspace \/ CompleteRevert

Next == Clients \/ Agent \/ Ingestion \/ Reactor \/ LoseRuntime

Spec == Init /\ [][Next]_vars

(* The fiber of the reactor runs.  Nothing obliges a client, the agent or,  *)
(* for what is promised here, the ingestion.                                *)
FairSpec == Spec /\ WF_vars(Reactor)

-----------------------------------------------------------------------------
DomainEvent ==
    [kind : {"start", "revert"}, turn : {0}, count : Counts, status : {"none"}]
    \cup [kind : {"diff"}, turn : Turns, count : Counts, status : CompletionStatus]
RuntimeEvent ==
    [kind : {"started", "diff"}, turn : Turns, status : {"none"}]
    \cup [kind : {"completed"}, turn : Turns, status : CompletionStatus]
Job ==
    {Idle}
    \cup [step : {"record"}, turn : Turns, count : Counts, status : CompletionStatus]
    \cup [step : {"complete"}, turn : {0}, count : Counts, status : {"none"}]

(* The variables have the values the code can give them: a checkpoint has  *)
(* one of three statuses and a number within the bound, queues hold events *)
(* of the kinds their workers accept.                                      *)
TypeOK ==
    /\ tables \in [Turns -> Row] /\ model \in [Turns -> Row]
    /\ activeTurn \in 0..MaxTurns
    /\ domain \in Seq(DomainEvent)
    /\ runtime \in Seq(RuntimeEvent) /\ ingestion \in Seq(RuntimeEvent)
    /\ placeholder \in {NoPlaceholder} \cup [turn : Turns, count : Counts]
    /\ job \in Job
    /\ refs \in [Counts -> 0..NoRef]
    /\ requested \in 0..MaxTurns /\ begun \in 0..requested /\ running \in 0..begun
    /\ complaints \subseteq 0..MaxTurns /\ unreported \subseteq 0..MaxTurns
    /\ reports \in Nat /\ reverts \in Nat /\ failures \in Nat

(* No two turns of the table have a checkpoint of the same number, though  *)
(* two workers number turns from tables they have read some time before    *)
(* and the read model does get two.                                        *)
CountsDistinct ==
    \A t, u \in Turns : t # u /\ tables[t].count # 0 => tables[t].count # tables[u].count

(* The turns whose capture has failed, and 0 when a revert has.            *)
Failed == complaints \cup unreported

(* The ref a captured checkpoint names was captured for its turn.  It may  *)
(* hold another turn whose capture is about to be recorded over it or has  *)
(* failed to be, and be missing, or captured again as a baseline, when a   *)
(* revert is about to remove the checkpoint or has failed to: then the     *)
(* thread has a failure activity that says so, or that failed as well.     *)
RefHoldsTurn ==
    \A t \in Turns :
        LET n == tables[t].count IN
        tables[t].captured =>
            \/ refs[n] = t
            \/ refs[n] \in Turns \cap Failed
            \/ refs[n] = job.turn /\ n = job.count /\ job.step = "record"
            \/ refs[n] \in {NoRef, Baseline} /\ 0 \in Failed
            \/ refs[n] = NoRef /\ n > job.count /\ job.step = "complete"

(* Every placeholder, and every "missing" of an interruption, is replaced, *)
(* reverted or complained about, whatever clients and the agent go on      *)
(* doing, unless the complaint failed as well: lost runtime events,        *)
(* skipped captures and placeholders written over captures are all         *)
(* repaired by the placeholder's own event.                                *)
PlaceholdersReplaced ==
    \A t \in Turns :
        tables[t].status = "missing" ~> (tables[t].status # "missing" \/ t \in Failed)

(* ProviderRuntimeIngestion: a real capture "should not be clobbered" by a *)
(* placeholder.                                                            *)
RealStays == [][\A t \in Turns : IsReal(tables[t]) => tables'[t].status # "missing"]_vars
=============================================================================
