------------------------- MODULE CheckpointFlowProofs -------------------------
(***************************************************************************)
(* Theorems about CheckpointFlow for any number of turns, reports, reverts *)
(* and failures: the types, that no two turns of the table share a number, *)
(* and that the ref a captured checkpoint names is its own.                *)
(***************************************************************************)
EXTENDS CheckpointFlow, TLAPS

-----------------------------------------------------------------------------
(* Lemmas about the operators of CheckpointFlow.                           *)

(* Recording a checkpoint gives rows.                                      *)
LEMMA RecordType ==
    ASSUME NEW rows \in [Turns -> Row], NEW t \in Turns, NEW row \in Row
    PROVE  /\ RecordInTables(rows, t, row) \in [Turns -> Row]
           /\ RecordInModel(rows, t, row) \in [Turns -> Row]
<1>1. NoRow \in Row
  BY CheckpointAssumption DEF NoRow, Row, Counts
<1> QED
  BY <1>1 DEF RecordInTables, RecordInModel

(* So does a revert.                                                       *)
LEMMA RetainedType ==
    ASSUME NEW rows \in [Turns -> Row], NEW n
    PROVE  Retained(rows, n) \in [Turns -> Row]
<1>1. NoRow \in Row
  BY CheckpointAssumption DEF NoRow, Row, Counts
<1> QED
  BY <1>1 DEF Retained

(* A committed diff keeps the types of what it touches.                    *)
LEMMA CommitDiffType ==
    ASSUME TypeOK, NEW t \in Turns, NEW row \in Row,
           row.status \in CompletionStatus, CommitDiff(t, row)
    PROVE  /\ tables' \in [Turns -> Row] /\ model' \in [Turns -> Row]
           /\ domain' \in Seq(DomainEvent)
<1>1. tables' \in [Turns -> Row] /\ model' \in [Turns -> Row]
  BY RecordType DEF CommitDiff, TypeOK
<1>2. row.count \in Counts
  BY DEF Row
<1>3. [kind |-> "diff", turn |-> t, count |-> row.count, status |-> row.status] \in DomainEvent
  BY <1>2 DEF DomainEvent
<1> QED
  BY <1>1, <1>3 DEF CommitDiff, TypeOK

-----------------------------------------------------------------------------
(***************************************************************************)
(* Type correctness.                                                       *)
(***************************************************************************)
LEMMA InitType == Init => TypeOK
<1> SUFFICES ASSUME Init PROVE TypeOK
  OBVIOUS
<1>1. NoRow \in Row /\ 0 \in Counts
  BY CheckpointAssumption DEF NoRow, Row, Counts
<1>2. NoRef \in 0..NoRef /\ 0 \in 0..MaxTurns
  BY CheckpointAssumption DEF NoRef
<1> QED
  BY <1>1, <1>2 DEF Init, TypeOK, Job

(* What clients and the agent do.                                          *)
LEMMA OutsideType == TypeOK /\ (Clients \/ Agent) => TypeOK'
<1> SUFFICES ASSUME TypeOK, Clients \/ Agent PROVE TypeOK'
  OBVIOUS
<1>1. CASE RequestTurn
  <2>1. [kind |-> "start", turn |-> 0, count |-> 0, status |-> "none"] \in DomainEvent
    BY CheckpointAssumption DEF DomainEvent, Counts
  <2>2. domain' \in Seq(DomainEvent)
    BY <1>1, <2>1 DEF RequestTurn, TypeOK
  <2>3. requested' \in 0..MaxTurns /\ begun' \in 0..requested'
    BY <1>1, CheckpointAssumption DEF RequestTurn, TypeOK
  <2> QED
    BY <1>1, <2>2, <2>3 DEF RequestTurn, TypeOK, projections, outcomes, bounds
<1>2. CASE RequestRevert
  <2>1. PICK n \in Counts :
           domain' = Append(domain, [kind |-> "revert", turn |-> 0, count |-> n,
                                     status |-> "none"])
    BY <1>2 DEF RequestRevert
  <2>3. [kind |-> "revert", turn |-> 0, count |-> n, status |-> "none"] \in DomainEvent
    BY DEF DomainEvent
  <2>4. domain' \in Seq(DomainEvent)
    BY <2>1, <2>3 DEF TypeOK
  <2> QED
    BY <1>2, <2>4 DEF RequestRevert, TypeOK, projections, provider, outcomes
<1>3. \A event \in RuntimeEvent :
         Emit(event) => ingestion' \in Seq(RuntimeEvent) /\ runtime' \in Seq(RuntimeEvent)
  BY DEF Emit, TypeOK
<1>4. CASE TurnStarts
  <2>1. begun + 1 \in Turns
    BY <1>4, CheckpointAssumption DEF TurnStarts, TypeOK, Turns
  <2>2. [kind |-> "started", turn |-> begun + 1, status |-> "none"] \in RuntimeEvent
    BY <2>1 DEF RuntimeEvent
  <2>3. ingestion' \in Seq(RuntimeEvent) /\ runtime' \in Seq(RuntimeEvent)
    BY <1>3, <1>4, <2>2 DEF TurnStarts
  <2>4. begun' \in 0..requested' /\ running' \in 0..begun'
    BY <1>4, CheckpointAssumption DEF TurnStarts, TypeOK
  <2> QED
    BY <1>4, <2>3, <2>4 DEF TurnStarts, TypeOK, projections, outcomes, bounds
<1>5. ASSUME running # 0 PROVE running \in Turns
  BY <1>5, CheckpointAssumption DEF TypeOK, Turns
<1>6. CASE ReportDiff
  <2>1. [kind |-> "diff", turn |-> running, status |-> "none"] \in RuntimeEvent
    BY <1>5, <1>6 DEF ReportDiff, RuntimeEvent
  <2>2. ingestion' \in Seq(RuntimeEvent) /\ runtime' \in Seq(RuntimeEvent)
    BY <1>3, <1>6, <2>1 DEF ReportDiff
  <2> QED
    BY <1>6, <2>2 DEF ReportDiff, TypeOK, projections, outcomes, bounds
<1>7. CASE TurnCompletes
  <2>1. PICK status \in CompletionStatus :
           Emit([kind |-> "completed", turn |-> running, status |-> status])
    BY <1>7 DEF TurnCompletes
  <2>2. [kind |-> "completed", turn |-> running, status |-> status] \in RuntimeEvent
    BY <1>5, <1>7 DEF TurnCompletes, RuntimeEvent
  <2>3. ingestion' \in Seq(RuntimeEvent) /\ runtime' \in Seq(RuntimeEvent)
    BY <1>3, <2>1, <2>2
  <2>4. running' \in 0..begun'
    BY <1>7, CheckpointAssumption DEF TurnCompletes, TypeOK
  <2> QED
    BY <1>7, <2>3, <2>4 DEF TurnCompletes, TypeOK, projections, outcomes, bounds
<1> QED
  BY <1>1, <1>2, <1>4, <1>6, <1>7 DEF Clients, Agent

(* What the ingestion does.                                                *)
LEMMA IngestionType == TypeOK /\ Ingestion => TypeOK'
<1> SUFFICES ASSUME TypeOK, Ingestion PROVE TypeOK'
  OBVIOUS
<1>1. ASSUME ingestion # <<>>
      PROVE  Head(ingestion) \in RuntimeEvent /\ Tail(ingestion) \in Seq(RuntimeEvent)
  BY <1>1 DEF TypeOK
<1>2. \A e \in RuntimeEvent : e.turn \in Turns
  BY DEF RuntimeEvent
<1>3. CASE IngestLifecycle
  <2>1. Head(ingestion).turn \in 0..MaxTurns
    BY <1>1, <1>2, <1>3, CheckpointAssumption DEF IngestLifecycle, Turns
  <2>2. activeTurn' \in 0..MaxTurns
    BY <1>3, <2>1, CheckpointAssumption DEF IngestLifecycle, TypeOK
  <2> QED
    BY <1>1, <1>3, <2>2 DEF IngestLifecycle, TypeOK, projections, provider, outcomes, bounds
<1>4. CASE IngestDiff
  <2>1. placeholder' \in {NoPlaceholder} \cup [turn : Turns, count : Counts]
    BY <1>1, <1>2, <1>4 DEF IngestDiff, TypeOK
  <2> QED
    BY <1>1, <1>4, <2>1 DEF IngestDiff, TypeOK, projections, provider, outcomes, bounds
<1>5. CASE DispatchPlaceholder
  <2> DEFINE row == [count |-> placeholder.count, status |-> "missing", captured |-> FALSE]
  <2>1. placeholder.turn \in Turns /\ row \in Row /\ row.status \in CompletionStatus
    BY <1>5 DEF DispatchPlaceholder, TypeOK, Row, CompletionStatus
  <2>2. CommitDiff(placeholder.turn, row)
    BY <1>5 DEF DispatchPlaceholder
  <2>3. /\ tables' \in [Turns -> Row] /\ model' \in [Turns -> Row]
        /\ domain' \in Seq(DomainEvent)
    BY <2>1, <2>2, CommitDiffType
  <2> QED
    BY <1>5, <2>3 DEF DispatchPlaceholder, TypeOK, provider, outcomes, bounds
<1> QED
  BY <1>3, <1>4, <1>5 DEF Ingestion

(* Taking an input leaves the rest typed.                                  *)
LEMMA TakeType ==
    ASSUME TypeOK
    PROVE  /\ \A kind : TakeDomain(kind) =>
                 /\ Head(domain) \in DomainEvent /\ Head(domain).kind = kind
                 /\ domain' \in Seq(DomainEvent) /\ runtime' = runtime
           /\ \A kind : TakeRuntime(kind) =>
                 /\ Head(runtime) \in RuntimeEvent /\ Head(runtime).kind = kind
                 /\ runtime' \in Seq(RuntimeEvent) /\ domain' = domain
<1>1. ASSUME NEW kind, TakeDomain(kind)
      PROVE  /\ Head(domain) \in DomainEvent /\ Head(domain).kind = kind
             /\ domain' \in Seq(DomainEvent) /\ runtime' = runtime
  BY <1>1 DEF TakeDomain, TypeOK
<1>2. ASSUME NEW kind, TakeRuntime(kind)
      PROVE  /\ Head(runtime) \in RuntimeEvent /\ Head(runtime).kind = kind
             /\ runtime' \in Seq(RuntimeEvent) /\ domain' = domain
  BY <1>2 DEF TakeRuntime, TypeOK
<1> QED
  BY <1>1, <1>2

(* A fault or a refusal is noted, in the thread or not at all.             *)
LEMMA FailureNoted ==
    ASSUME TypeOK, NEW a \in 0..MaxTurns, FaultOf(a) \/ Refusal(a)
    PROVE  /\ failures' \in Nat
           /\ complaints' \subseteq 0..MaxTurns /\ unreported' \subseteq 0..MaxTurns
           /\ Failed' = Failed \cup {a}
<1>1. failures' \in Nat
  BY DEF FaultOf, Refusal, Fault, NoFault, TypeOK
<1>2. Complain(a) \/ ComplaintFails(a)
  BY DEF FaultOf, Refusal
<1> QED
  BY <1>1, <1>2 DEF Complain, ComplaintFails, TypeOK, Failed

LEMMA NothingNoted ==
    ASSUME TypeOK, NoFault, UNCHANGED outcomes
    PROVE  /\ failures' \in Nat
           /\ complaints' \subseteq 0..MaxTurns /\ unreported' \subseteq 0..MaxTurns
           /\ Failed' = Failed
BY DEF NoFault, outcomes, TypeOK, Failed

(* The part of TypeOK that the reactor and its inputs can disturb.         *)
ReactorTyped ==
    /\ domain \in Seq(DomainEvent) /\ runtime \in Seq(RuntimeEvent)
    /\ job \in Job
    /\ refs \in [Counts -> 0..NoRef]
    /\ complaints \subseteq 0..MaxTurns /\ unreported \subseteq 0..MaxTurns
    /\ failures \in Nat

LEMMA ReactorFrame ==
    ASSUME TypeOK, ReactorTyped', UNCHANGED <<projections, others>>
    PROVE  TypeOK'
BY DEF TypeOK, ReactorTyped, projections, others, provider

(* A capture of a turn under any number.                                   *)
LEMMA CaptureType ==
    ASSUME TypeOK, NEW t \in Turns, NEW n, NEW status \in CompletionStatus,
           Capture(t, n, status) \/ Skip
    PROVE  /\ job' \in Job
           /\ refs' \in [Counts -> 0..NoRef]
           /\ complaints' \subseteq 0..MaxTurns /\ unreported' \subseteq 0..MaxTurns
           /\ failures' \in Nat
<1>1. t \in 0..NoRef /\ t \in 0..MaxTurns
  BY CheckpointAssumption DEF Turns, NoRef
<1>2. /\ complaints' \subseteq 0..MaxTurns /\ unreported' \subseteq 0..MaxTurns
      /\ failures' \in Nat
  <2>1. (NoFault /\ UNCHANGED outcomes) \/ FaultOf(t) \/ Refusal(t)
    BY DEF Capture, Skip
  <2> QED
    BY <1>1, <2>1, FailureNoted, NothingNoted
<1>3. refs' \in [Counts -> 0..NoRef]
  BY <1>1 DEF Capture, Skip, TypeOK
<1>4. job' \in Job
  BY DEF Capture, Skip, Job, TypeOK
<1> QED
  BY <1>2, <1>3, <1>4

(* What the reactor does, and the loss of its inputs.                      *)
LEMMA ReactorType == TypeOK /\ (Reactor \/ LoseRuntime) => TypeOK'
<1> SUFFICES ASSUME TypeOK, Reactor \/ LoseRuntime PROVE TypeOK'
  OBVIOUS
<1>1. CASE EnsureBaseline
  <2>1. domain' \in Seq(DomainEvent) /\ runtime' \in Seq(RuntimeEvent)
    BY <1>1, TakeType DEF EnsureBaseline, TypeOK
  <2>2. Baseline \in 0..NoRef
    BY CheckpointAssumption DEF Baseline, NoRef
  <2>3. refs' \in [Counts -> 0..NoRef]
    BY <1>1, <2>2 DEF EnsureBaseline, TypeOK
  <2>4. failures' \in Nat
    BY <1>1 DEF EnsureBaseline, Fault, NoFault, TypeOK
  <2>5. UNCHANGED <<projections, others>>
    BY <1>1 DEF EnsureBaseline, TakeDomain, TakeRuntime
  <2>6. ReactorTyped'
    BY <1>1, <2>1, <2>3, <2>4 DEF EnsureBaseline, ReactorTyped, TypeOK, outcomes
  <2> QED
    BY <2>5, <2>6, ReactorFrame
<1>2. CASE CaptureFromTurnCompletion
  <2> DEFINE e == Head(runtime)
             n == IF tables[e.turn].status = "missing" THEN tables[e.turn].count
                  ELSE MaxCount(tables) + 1
  <2>1. /\ e \in RuntimeEvent /\ e.kind = "completed"
        /\ runtime' \in Seq(RuntimeEvent) /\ domain' \in Seq(DomainEvent)
    BY <1>2, TakeType DEF CaptureFromTurnCompletion, TypeOK
  <2>2. e.turn \in Turns /\ e.status \in CompletionStatus
    BY <2>1 DEF RuntimeEvent
  <2>3. Capture(e.turn, n, e.status) \/ Skip
    BY <1>2 DEF CaptureFromTurnCompletion
  <2>4. ReactorTyped'
    <3> HIDE DEF e, n
    <3> QED
      BY <2>1, <2>2, <2>3, CaptureType DEF ReactorTyped
  <2>5. UNCHANGED <<projections, others>>
    BY <1>2 DEF CaptureFromTurnCompletion, TakeRuntime
  <2> QED
    BY <2>4, <2>5, ReactorFrame
<1>3. CASE CaptureFromPlaceholder
  <2> DEFINE e == Head(domain)
  <2>1. /\ e \in DomainEvent /\ e.kind = "diff"
        /\ runtime' \in Seq(RuntimeEvent) /\ domain' \in Seq(DomainEvent)
    BY <1>3, TakeType DEF CaptureFromPlaceholder, TypeOK
  <2>2. e.turn \in Turns
    BY <2>1 DEF DomainEvent
  <2>3. Capture(e.turn, e.count, "ready") \/ Skip
    BY <1>3 DEF CaptureFromPlaceholder
  <2>4. "ready" \in CompletionStatus
    BY DEF CompletionStatus
  <2>5. ReactorTyped'
    <3> HIDE DEF e
    <3> QED
      BY <2>1, <2>2, <2>3, <2>4, CaptureType DEF ReactorTyped
  <2>6. UNCHANGED <<projections, others>>
    BY <1>3 DEF CaptureFromPlaceholder, TakeDomain
  <2> QED
    BY <2>5, <2>6, ReactorFrame
<1>4. CASE RecordCheckpoint
  <2> DEFINE row == [count |-> job.count, status |-> job.status, captured |-> TRUE]
  <2>1. job.turn \in Turns /\ job.count \in Counts /\ job.status \in CompletionStatus
    BY <1>4 DEF RecordCheckpoint, TypeOK, Job, Idle
  <2>2. row \in Row /\ row.status \in CompletionStatus
    BY <2>1 DEF Row, CompletionStatus
  <2>3. job' \in Job
    BY <1>4 DEF RecordCheckpoint, Job
  <2>4. /\ complaints' \subseteq 0..MaxTurns /\ unreported' \subseteq 0..MaxTurns
        /\ failures' \in Nat
    <3>1. job.turn \in 0..MaxTurns
      BY <2>1, CheckpointAssumption DEF Turns
    <3>2. (NoFault /\ UNCHANGED outcomes) \/ FaultOf(job.turn)
      BY <1>4 DEF RecordCheckpoint
    <3> QED
      BY <3>1, <3>2, FailureNoted, NothingNoted
  <2>5. /\ tables' \in [Turns -> Row] /\ model' \in [Turns -> Row]
        /\ domain' \in Seq(DomainEvent)
    <3>1. CASE CommitDiff(job.turn, row)
      BY <2>1, <2>2, <3>1, CommitDiffType
    <3>2. CASE UNCHANGED <<projections, domain>>
      BY <3>2 DEF TypeOK, projections
    <3> QED
      BY <1>4, <3>1, <3>2 DEF RecordCheckpoint
  <2> QED
    BY <1>4, <2>3, <2>4, <2>5 DEF RecordCheckpoint, TypeOK, others, provider
<1>5. CASE RevertWorkspace
  <2>1. /\ Head(domain) \in DomainEvent
        /\ domain' \in Seq(DomainEvent) /\ runtime' \in Seq(RuntimeEvent)
    BY <1>5, TakeType DEF RevertWorkspace, TypeOK
  <2>2. Head(domain).count \in Counts
    BY <2>1 DEF DomainEvent
  <2>3. \A stale : Without(stale) \in [Counts -> 0..NoRef]
    BY CheckpointAssumption DEF Without, TypeOK, NoRef
  <2>4. job' \in Job
    BY <1>5, <2>2 DEF RevertWorkspace, Job, TypeOK, Idle
  <2>5. refs' \in [Counts -> 0..NoRef]
    BY <1>5, <2>3 DEF RevertWorkspace, TypeOK
  <2>6. /\ complaints' \subseteq 0..MaxTurns /\ unreported' \subseteq 0..MaxTurns
        /\ failures' \in Nat
    <3>1. (NoFault /\ UNCHANGED outcomes) \/ FaultOf(0) \/ Refusal(0)
      BY <1>5 DEF RevertWorkspace
    <3>2. 0 \in 0..MaxTurns
      BY CheckpointAssumption
    <3> QED
      BY <3>1, <3>2, FailureNoted, NothingNoted
  <2>7. UNCHANGED <<projections, others>>
    BY <1>5 DEF RevertWorkspace, TakeDomain
  <2> QED
    BY <2>1, <2>4, <2>5, <2>6, <2>7, ReactorFrame DEF ReactorTyped
<1>6. CASE CompleteRevert
  <2>1. tables' \in [Turns -> Row] /\ model' \in [Turns -> Row]
    <3>1. CASE tables' = Retained(tables, job.count) /\ model' = Retained(model, job.count)
      BY <3>1, RetainedType DEF TypeOK
    <3>2. CASE UNCHANGED projections
      BY <3>2 DEF TypeOK, projections
    <3> QED
      BY <1>6, <3>1, <3>2 DEF CompleteRevert
  <2>2. /\ complaints' \subseteq 0..MaxTurns /\ unreported' \subseteq 0..MaxTurns
        /\ failures' \in Nat
    <3>1. (NoFault /\ UNCHANGED outcomes) \/ FaultOf(0)
      BY <1>6 DEF CompleteRevert
    <3>2. 0 \in 0..MaxTurns
      BY CheckpointAssumption
    <3> QED
      BY <3>1, <3>2, FailureNoted, NothingNoted
  <2>3. job' \in Job
    BY <1>6 DEF CompleteRevert, Job
  <2> QED
    BY <1>6, <2>1, <2>2, <2>3 DEF CompleteRevert, TypeOK, others, provider
<1>7. CASE LoseRuntime
  <2>1. runtime' \in Seq(RuntimeEvent) /\ failures' \in Nat
    BY <1>7 DEF LoseRuntime, TypeOK, Fault
  <2> QED
    BY <1>7, <2>1, ReactorFrame DEF LoseRuntime, ReactorTyped, TypeOK, outcomes
<1> QED
  BY <1>1, <1>2, <1>3, <1>4, <1>5, <1>6, <1>7 DEF Reactor

(* TypeOK: statuses come from the runtime only through                     *)
(* checkpointStatusFromRuntime, and every number is within the bound.      *)
THEOREM TypeCorrectness == Spec => []TypeOK
<1>1. TypeOK /\ [Next]_vars => TypeOK'
  <2>1. TypeOK /\ UNCHANGED vars => TypeOK'
    BY DEF vars, projections, provider, outcomes, bounds, TypeOK
  <2> QED
    BY <2>1, OutsideType, IngestionType, ReactorType DEF Next
<1> QED
  BY <1>1, InitType, PTL DEF Spec

-----------------------------------------------------------------------------
(***************************************************************************)
(* Numbers are distinct.  Recording a checkpoint takes its number from any *)
(* other turn, and a revert only removes checkpoints.                      *)
(***************************************************************************)
LEMMA RecordKeepsDistinct ==
    ASSUME CountsDistinct, NEW t \in Turns, NEW row, CommitDiff(t, row)
    PROVE  CountsDistinct'
<1> SUFFICES ASSUME NEW u \in Turns, NEW v \in Turns, u # v, tables'[u].count # 0
             PROVE  tables'[u].count # tables'[v].count
  BY DEF CountsDistinct
<1>1. tables' = RecordInTables(tables, t, row)
  BY DEF CommitDiff
<1>2. NoRow.count = 0
  BY DEF NoRow
<1> QED
  BY <1>1, <1>2 DEF RecordInTables, CountsDistinct

THEOREM NumbersAreDistinct == Spec => []CountsDistinct
<1>1. Init => CountsDistinct
  BY DEF Init, CountsDistinct, NoRow
<1>2. TypeOK /\ CountsDistinct /\ [Next]_vars => CountsDistinct'
  <2> SUFFICES ASSUME TypeOK, CountsDistinct, [Next]_vars PROVE CountsDistinct'
    OBVIOUS
  <2>1. CASE UNCHANGED tables
    BY <2>1 DEF CountsDistinct
  <2>2. CASE DispatchPlaceholder
    <3>1. placeholder.turn \in Turns
      BY <2>2 DEF DispatchPlaceholder, TypeOK
    <3> QED
      BY <2>2, <3>1, RecordKeepsDistinct DEF DispatchPlaceholder
  <2>3. CASE RecordCheckpoint
    <3>1. job.turn \in Turns
      BY <2>3 DEF RecordCheckpoint, TypeOK, Job, Idle
    <3> QED
      BY <2>1, <2>3, <3>1, RecordKeepsDistinct DEF RecordCheckpoint, projections
  <2>4. CASE CompleteRevert
    <3>1. CASE tables' = Retained(tables, job.count)
      BY <3>1 DEF Retained, CountsDistinct, NoRow
    <3> QED
      BY <2>1, <2>4, <3>1 DEF CompleteRevert, projections
  <2>5. CASE Clients \/ Agent \/ IngestLifecycle \/ IngestDiff \/ LoseRuntime
    BY <2>1, <2>5 DEF Clients, RequestTurn, RequestRevert, Agent, TurnStarts, ReportDiff,
       TurnCompletes, IngestLifecycle, IngestDiff, LoseRuntime, projections
  <2>6. CASE EnsureBaseline \/ CaptureFromTurnCompletion \/ CaptureFromPlaceholder \/ RevertWorkspace
    BY <2>1, <2>6 DEF EnsureBaseline, CaptureFromTurnCompletion, CaptureFromPlaceholder,
       RevertWorkspace, TakeDomain, TakeRuntime, projections
  <2>7. CASE UNCHANGED vars
    BY <2>1, <2>7 DEF vars, projections
  <2> QED
    BY <2>2, <2>3, <2>4, <2>5, <2>6, <2>7 DEF Next, Ingestion, Reactor
<1> QED
  BY <1>1, <1>2, TypeCorrectness, PTL DEF Spec

-----------------------------------------------------------------------------
(***************************************************************************)
(* Refs hold their turns.  What is inductive is RefHoldsTurn with a fact   *)
(* about the reactor: the ref of a checkpoint it is about to record holds  *)
(* the turn it is about to record.                                         *)
(***************************************************************************)
JobHoldsRef == job.step = "record" => refs[job.count] = job.turn

(* RefHoldsTurn for one turn whose checkpoint has number n.                *)
Held(t, n) ==
    \/ refs[n] = t
    \/ refs[n] \in Turns \cap Failed
    \/ refs[n] = job.turn /\ n = job.count /\ job.step = "record"
    \/ refs[n] \in {NoRef, Baseline} /\ 0 \in Failed
    \/ refs[n] = NoRef /\ n > job.count /\ job.step = "complete"

RefInv == RefHoldsTurn /\ JobHoldsRef

LEMMA RefHoldsTurnIsHeld ==
    RefHoldsTurn <=> \A t \in Turns : tables[t].captured => Held(t, tables[t].count)
BY DEF RefHoldsTurn, Held

(* Writing a row: what it replaces is released, and what it names is held. *)
LEMMA RecordHeld ==
    ASSUME RefHoldsTurn, NEW t \in Turns, NEW row, CommitDiff(t, row),
           UNCHANGED <<refs, Failed>>,
           row.captured => refs[row.count] = t,
           UNCHANGED job \/ (job' = Idle /\ job.step = "record" /\ job.count = row.count)
    PROVE  RefHoldsTurn'
<1> SUFFICES ASSUME NEW u \in Turns, tables'[u].captured
             PROVE  Held(u, tables[u].count)'
  BY DEF RefHoldsTurn, Held
<1>1. tables' = RecordInTables(tables, t, row)
  BY DEF CommitDiff
<1>2. CASE u = t
  <2>1. tables'[u] = row
    BY <1>1, <1>2 DEF RecordInTables
  <2> QED
    BY <1>2, <2>1 DEF Held
<1>3. CASE u # t
  <2>1. tables'[u] = tables[u] /\ tables[u].count # row.count
    BY <1>1, <1>3 DEF RecordInTables, NoRow
  <2>2. Held(u, tables[u].count)
    BY <2>1, RefHoldsTurnIsHeld
  <2> QED
    BY <2>1, <2>2 DEF Held, Idle
<1> QED
  BY <1>2, <1>3

(* A capture overwrites at most the ref it is about to record.             *)
LEMMA CaptureHeld ==
    ASSUME TypeOK, RefInv, job = Idle, UNCHANGED tables,
           NEW t \in Turns, NEW n, NEW status, Capture(t, n, status) \/ Skip
    PROVE  RefInv'
<1>1. CASE UNCHANGED <<refs, job>> /\ Failed \subseteq Failed'
  BY <1>1 DEF RefInv, RefHoldsTurn, JobHoldsRef, Idle
<1>2. ASSUME n \in Counts,
             refs' = [refs EXCEPT ![n] = t],
             job' = [step |-> "record", turn |-> t, count |-> n, status |-> status],
             Failed \subseteq Failed'
      PROVE  RefInv'
  <2>1. refs'[n] = t
    BY <1>2 DEF TypeOK
  <2>2. ASSUME NEW u \in Turns, tables[u].captured
        PROVE  Held(u, tables[u].count)'
    <3>1. CASE tables[u].count = n
      BY <1>2, <2>1, <3>1 DEF Held
    <3>2. CASE tables[u].count # n
      <4>1. refs'[tables[u].count] = refs[tables[u].count]
        BY <1>2, <3>2 DEF TypeOK, Row
      <4>2. Held(u, tables[u].count)
        BY <2>2, RefHoldsTurnIsHeld DEF RefInv
      <4> QED
        BY <1>2, <4>1, <4>2 DEF Held, Idle
    <3> QED
      BY <3>1, <3>2
  <2> QED
    BY <1>2, <2>1, <2>2 DEF RefInv, RefHoldsTurn, Held, JobHoldsRef
<1>3. Failed \subseteq Failed'
  <2>1. (NoFault /\ UNCHANGED outcomes) \/ FaultOf(t) \/ Refusal(t)
    BY DEF Capture, Skip
  <2>2. t \in 0..MaxTurns
    BY CheckpointAssumption DEF Turns
  <2> QED
    BY <2>1, <2>2, FailureNoted, NothingNoted
<1> QED
  BY <1>1, <1>2, <1>3 DEF Capture, Skip

LEMMA ReactorHeld == TypeOK /\ RefInv /\ Reactor => RefInv'
<1> SUFFICES ASSUME TypeOK, RefInv, Reactor PROVE RefInv'
  OBVIOUS
<1>1. CASE EnsureBaseline
  <2>1. job = Idle /\ UNCHANGED <<job, tables, Failed>>
    BY <1>1 DEF EnsureBaseline, TakeDomain, TakeRuntime, projections, outcomes, Failed
  <2>2. \A n \in Counts : refs'[n] = refs[n] \/ (refs[n] = NoRef /\ refs'[n] = Baseline)
    <3> DEFINE k == MaxCount(tables)
    <3>1. UNCHANGED refs \/ (refs[k] = NoRef /\ refs' = [refs EXCEPT ![k] = Baseline])
      BY <1>1 DEF EnsureBaseline
    <3> HIDE DEF k
    <3> QED
      BY <3>1 DEF TypeOK
  <2>3. NoRef \notin Turns
    BY CheckpointAssumption DEF NoRef, Turns
  <2>4. ASSUME NEW t \in Turns, tables[t].captured
        PROVE  Held(t, tables[t].count)'
    <3>1. tables[t].count \in Counts
      BY DEF TypeOK, Row
    <3>2. Held(t, tables[t].count)
      BY <2>4, RefHoldsTurnIsHeld DEF RefInv
    <3> QED
      BY <2>1, <2>2, <2>3, <3>1, <3>2 DEF Held, Idle
  <2> QED
    BY <2>1, <2>4 DEF RefInv, RefHoldsTurn, Held, JobHoldsRef, Idle
<1>2. CASE CaptureFromTurnCompletion
  <2> DEFINE e == Head(runtime)
             n == IF tables[e.turn].status = "missing" THEN tables[e.turn].count
                  ELSE MaxCount(tables) + 1
  <2>1. e \in RuntimeEvent
    BY <1>2, TakeType DEF CaptureFromTurnCompletion
  <2>2. e.turn \in Turns
    BY <2>1 DEF RuntimeEvent
  <2>3. job = Idle /\ UNCHANGED tables
    BY <1>2 DEF CaptureFromTurnCompletion, TakeRuntime, projections
  <2>4. Capture(e.turn, n, e.status) \/ Skip
    BY <1>2 DEF CaptureFromTurnCompletion
  <2> HIDE DEF e, n
  <2> QED
    BY <2>2, <2>3, <2>4, CaptureHeld
<1>3. CASE CaptureFromPlaceholder
  <2> DEFINE e == Head(domain)
  <2>1. e \in DomainEvent /\ e.kind = "diff"
    BY <1>3, TakeType DEF CaptureFromPlaceholder
  <2>2. e.turn \in Turns
    BY <2>1 DEF DomainEvent
  <2>3. job = Idle /\ UNCHANGED tables
    BY <1>3 DEF CaptureFromPlaceholder, TakeDomain, projections
  <2>4. Capture(e.turn, e.count, "ready") \/ Skip
    BY <1>3 DEF CaptureFromPlaceholder
  <2> HIDE DEF e
  <2> QED
    BY <2>2, <2>3, <2>4, CaptureHeld
<1>4. CASE RecordCheckpoint
  <2>1. job.turn \in Turns /\ job.step = "record" /\ job' = Idle /\ UNCHANGED refs
    BY <1>4 DEF RecordCheckpoint, TypeOK, Job, Idle
  <2>2. refs[job.count] = job.turn
    BY <2>1 DEF RefInv, JobHoldsRef
  <2>3. CASE UNCHANGED Failed /\ CommitDiff(job.turn, [count |-> job.count,
                                         status |-> job.status, captured |-> TRUE])
    BY <2>1, <2>2, <2>3, RecordHeld DEF RefInv, JobHoldsRef, Idle
  <2>4. CASE UNCHANGED tables /\ Failed' = Failed \cup {job.turn}
    BY <2>1, <2>2, <2>4 DEF RefInv, RefHoldsTurn, JobHoldsRef, Idle
  <2>5. job.turn \in 0..MaxTurns
    BY <2>1, CheckpointAssumption DEF Turns
  <2> QED
    BY <1>4, <2>3, <2>4, <2>5, FailureNoted, NothingNoted DEF RecordCheckpoint, projections
<1>5. CASE RevertWorkspace
  <2> DEFINE n == Head(domain).count
  <2>1. job = Idle /\ UNCHANGED tables
    BY <1>5 DEF RevertWorkspace, TakeDomain, projections
  <2>3. \A t \in Turns : tables[t].count \in Counts
    BY DEF TypeOK, Row
  <2>4. CASE /\ refs' = Without(StaleRefs(n)) /\ UNCHANGED Failed
             /\ job' = [Idle EXCEPT !.step = "complete", !.count = n]
    <3>1. ASSUME NEW t \in Turns, tables[t].captured
          PROVE  Held(t, tables[t].count)'
      <4>1. Held(t, tables[t].count)
        BY <3>1, RefHoldsTurnIsHeld DEF RefInv
      <4>2. tables[t].count \in StaleRefs(n) <=> tables[t].count > n
        BY <3>1 DEF StaleRefs
      <4>3. refs'[tables[t].count] = IF tables[t].count > n THEN NoRef
                                     ELSE refs[tables[t].count]
        BY <2>3, <2>4, <4>2 DEF Without
      <4> HIDE DEF n
      <4> QED
        BY <2>1, <2>4, <4>1, <4>3 DEF Held, Idle
    <3> QED
      BY <2>1, <2>4, <3>1 DEF RefInv, RefHoldsTurn, Held, JobHoldsRef, Idle
  <2>5. CASE /\ \E stale \in SUBSET StaleRefs(n) : refs' = Without(stale)
             /\ Failed' = Failed \cup {0} /\ UNCHANGED job
    <3>1. ASSUME NEW t \in Turns, tables[t].captured
          PROVE  Held(t, tables[t].count)'
      <4>1. Held(t, tables[t].count)
        BY <3>1, RefHoldsTurnIsHeld DEF RefInv
      <4>2. refs'[tables[t].count] \in {refs[tables[t].count], NoRef}
        <5>1. PICK stale : refs' = Without(stale)
          BY <2>5
        <5>2. tables[t].count \in Counts
          BY <2>3
        <5> QED
          BY <5>1, <5>2 DEF Without
      <4>3. 0 \in Failed' /\ Failed \subseteq Failed'
        BY <2>5
      <4> QED
        BY <2>1, <2>5, <4>1, <4>2, <4>3 DEF Held, Idle
    <3> QED
      BY <2>1, <2>5, <3>1 DEF RefInv, RefHoldsTurn, Held, JobHoldsRef, Idle
  <2>6. CASE Failed' = Failed \cup {0} /\ UNCHANGED <<refs, job>>
    BY <2>1, <2>6 DEF RefInv, RefHoldsTurn, JobHoldsRef, Idle
  <2>7. 0 \in 0..MaxTurns
    BY CheckpointAssumption
  <2> QED
    BY <1>5, <2>4, <2>5, <2>6, <2>7, FailureNoted, NothingNoted DEF RevertWorkspace
<1>6. CASE CompleteRevert
  <2>1. job.step = "complete" /\ job' = Idle /\ UNCHANGED refs
    BY <1>6 DEF CompleteRevert
  <2>2. CASE tables' = Retained(tables, job.count) /\ UNCHANGED Failed
    <3>1. ASSUME NEW t \in Turns, tables'[t].captured
          PROVE  Held(t, tables[t].count)'
      <4>1. tables'[t] = tables[t] /\ tables[t].count <= job.count
        BY <2>2, <3>1 DEF Retained, NoRow
      <4>2. tables[t].count \in Nat /\ job.count \in Nat
        BY DEF TypeOK, Row, Job, Idle, Counts
      <4>3. Held(t, tables[t].count)
        BY <3>1, <4>1, RefHoldsTurnIsHeld DEF RefInv
      <4> QED
        BY <2>1, <2>2, <4>1, <4>2, <4>3 DEF Held
    <3> QED
      BY <2>1, <3>1 DEF RefInv, RefHoldsTurn, Held, JobHoldsRef, Idle
  <2>3. CASE UNCHANGED tables /\ Failed' = Failed \cup {0}
    BY <2>1, <2>3 DEF RefInv, RefHoldsTurn, JobHoldsRef, Idle
  <2>4. 0 \in 0..MaxTurns
    BY CheckpointAssumption
  <2> QED
    BY <1>6, <2>2, <2>3, <2>4, FailureNoted, NothingNoted DEF CompleteRevert, projections
<1> QED
  BY <1>1, <1>2, <1>3, <1>4, <1>5, <1>6 DEF Reactor

(* RefHoldsTurn: whatever the interleaving of two workers, clients and     *)
(* failures, a captured checkpoint can be diffed and restored from a ref   *)
(* of its own turn, or the thread has a failure activity, or the dispatch  *)
(* of that failed as well.                                                 *)
THEOREM RefsHoldTheirTurns == Spec => []RefHoldsTurn
<1>1. Init => RefInv
  BY DEF Init, RefInv, RefHoldsTurn, JobHoldsRef, NoRow, Idle
<1>2. TypeOK /\ RefInv /\ [Next]_vars => RefInv'
  <2> SUFFICES ASSUME TypeOK, RefInv, [Next]_vars PROVE RefInv'
    OBVIOUS
  <2>1. CASE UNCHANGED <<tables, refs, job, Failed>>
    BY <2>1 DEF RefInv, RefHoldsTurn, JobHoldsRef
  <2>2. CASE DispatchPlaceholder
    <3>1. placeholder.turn \in Turns
      BY <2>2 DEF DispatchPlaceholder, TypeOK
    <3> DEFINE row == [count |-> placeholder.count, status |-> "missing", captured |-> FALSE]
    <3>2. CommitDiff(placeholder.turn, row) /\ ~row.captured
      BY <2>2 DEF DispatchPlaceholder
    <3>3. UNCHANGED <<refs, Failed, job>>
      BY <2>2 DEF DispatchPlaceholder, outcomes, Failed
    <3>4. RefHoldsTurn'
      BY <3>1, <3>2, <3>3, RecordHeld DEF RefInv
    <3> QED
      BY <3>3, <3>4 DEF RefInv, JobHoldsRef
  <2>3. CASE Clients \/ Agent \/ IngestLifecycle \/ IngestDiff \/ LoseRuntime
    BY <2>1, <2>3 DEF Clients, RequestTurn, RequestRevert, Agent, TurnStarts, ReportDiff,
       TurnCompletes, IngestLifecycle, IngestDiff, LoseRuntime, projections, outcomes, Failed
  <2>4. CASE UNCHANGED vars
    BY <2>1, <2>4 DEF vars, projections, outcomes, Failed
  <2> QED
    BY <2>2, <2>3, <2>4, ReactorHeld DEF Next, Ingestion
<1>3. RefInv => RefHoldsTurn
  BY DEF RefInv
<1> QED
  BY <1>1, <1>2, <1>3, TypeCorrectness, PTL DEF Spec
=============================================================================
