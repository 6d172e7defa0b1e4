# TLA+ models of vArena

vArena packages a fork of *T3 Code* (`src/t3code`), a server that drives coding
agents and shows their threads in a web, a desktop and a mobile client. In front
of it stand a small gateway (`src/gateway`) and deployment files (`src/deploy`).
The logic that must not go wrong is in `src/t3code/apps/server` and in the two
packages it shares with the clients: an event-sourced engine is the only writer of
a log of events; projectors turn the log into tables; the clients follow the
tables through subscriptions; reactors turn events into calls of the agents.

This directory holds TLA+ models of those parts, the TLC configurations that
check them on small instances, and proofs of the main results for every value of
the constants.

Paths are relative to `src/t3code/apps/server/src` unless they start with
`packages`, `apps` or `src`.

## 1. The system

| Part | State | Operations | Talks to |
|---|---|---|---|
| orchestration engine (`orchestration/Layers/OrchestrationEngine.ts`) | command queue, in-memory read model, hot stream (PubSub), one worker | `dispatch`, `processEnvelope`, reconciliation, `streamDomainEvents`, `readEvents` | event store, receipts, pipeline (one SQL transaction); every consumer of the stream |
| command decider (`decider.ts`, `commandInvariants.ts`) | none (pure) | 23 command types to events or a refusal | engine |
| in-memory projector (`projector.ts`) | the read model it folds | one case per event type | engine |
| event store, receipts (`persistence/Layers/OrchestrationEventStore.ts`, `OrchestrationCommandReceipts.ts`) | log; one receipt per command id | append, read in pages; upsert, lookup | SQLite |
| projection pipeline (`orchestration/Layers/ProjectionPipeline.ts`) | nine projectors with tables and a cursor each; attachment files | `bootstrap`, `projectEvent` | event store, tables, file system |
| snapshot queries (`ProjectionSnapshotQuery.ts`) | none | shell snapshot, thread detail, snapshot sequence | tables |
| WebSocket server (`ws.ts`) | one stream per subscription | `subscribeShell`, `subscribeThread` and others | queries, hot stream, clients |
| clients (`packages/client-runtime`, `apps/web/src/environments/runtime/service.ts`) | shell list, threads, last applied version | subscription loop, reducers | WebSocket server |
| drainable worker (`packages/shared/src/DrainableWorker.ts`) | queue, count of outstanding items, a fiber | `enqueue`, `drain` | used by the five reactors |
| keyed coalescing worker (`packages/shared/src/KeyedCoalescingWorker.ts`) | queue of keys, latest value, queued and active keys, a fiber | `enqueue`, `drainKey` | used by the terminal manager |
| provider command reactor, runtime ingestion, checkpoint reactor, thread deletion reactor | a drainable worker, sessions, buffers of streamed text | one handler per event | hot stream, provider adapters, `dispatch` |
| VCS status broadcaster (`vcs/VcsStatusBroadcaster.ts`) | cache of statuses, publications, one poller per directory with a count of subscribers | `refreshStatus`, `refreshLocalStatus`, `streamStatus` | git manager, WebSocket server, reactors |
| terminal manager (`terminal/Layers/Manager.ts`) | sessions, histories on disk | open, write, close, restart | pty, keyed worker |
| authentication (`auth/`) | pairing grants, sessions | issue, consume, revoke, expire | HTTP, WebSocket |
| provider service, git, startup, relay, user interface, gateway | see `PROJECT.json` | | |

How they interact. A client dispatches a command over the WebSocket and waits. The
engine's worker decides it, and in one SQL transaction appends the events, runs
every projector and stores the receipt; then it publishes the events on the hot
stream and answers. Subscriptions and reactors hear the hot stream; a reactor puts
what concerns it on its drainable worker and dispatches new commands as it works.
When the process starts, the projectors catch up with the log and the engine takes
its read model from the tables; the hot stream starts empty.

What is hard: a retry of a command that took effect; a crash or an error between
the commit and its acknowledgement; a read model in memory beside one in tables;
events that reach the stream from a success path and from a repair path;
subscriptions put together from a snapshot and a live stream; statements without a
transaction between them; folds of the same events written three times; workers
whose wakeups and counts are spread over several transactions; replays cut short by
a limit; two workers that number checkpoints from tables they read a while ago, and
git refs that no transaction covers; a cache that is changed in one step and
announced in the next, with a poller shared by whoever watches. `PROJECT.json` lists each hazard at
the line where it bites with the property that watches it.

What makes each part correct:

* engine: an id takes effect once; answers are final; memory, tables, log and
  stream agree; every caller is answered;
* decider and projector: a command is decided on the state its predecessors left,
  and the fold of the events is that state;
* workers: nothing lost, nothing doubled, no lost wakeup, drains that return when
  and only when the work is done;
* feeds: the client shows the server's state, never goes back, and what it may miss
  is exactly known;
* pipeline: no projector repeats, skips or reorders an event; who serves is level
  with the log;
* checkpoints: numbers are distinct, a ref holds the turn its checkpoint says, and no
  placeholder stays;
* version control status: who watches shows what was last read, and the poller runs
  exactly while somebody watches;
* not modelled yet - provider reactor: every intent is processed once; terminals: no
  output lost at close; authentication: a grant is consumed once, a revoked session is
  refused.

## 2. Plan

In the order of importance. Steps 1 to 9 are done; the rest is the plan.

1. `CommandDecider`, `OrchestrationEngine`: the single writer with all its error
   paths; abstract specification `CommandLog`; inductive invariant and proofs.
2. `DrainableWorker` with `WorkQueue`; proofs.
3. `KeyedCoalescingWorker` with `CoalescingQueue`; proofs.
4. `DomainEventStream`: the engine as its subscribers see it; the engine is checked
   to implement it, and the feeds are built on it.
5. `ShellFeed`, `ThreadFeed`: the subscriptions, composed with `DomainEventStream`.
6. `ProjectionPipeline`: cursors, bootstrap, crash, upgrade; proofs.
7. `ThreadHistory`: a thread as the tables and as the clients fold it, with reverts;
   `ThreadFeed` carries it.
8. `CheckpointFlow`: captures, placeholders and reverts between the ingestion and the
   checkpoint reactor; proofs.
9. `VcsStatus`: cache, publications, poller and watchers; proofs.
10. `ProviderCommandReactor`: intents and sessions on `DomainEventStream` and
    `WorkQueue`, and the loss of intents in a crash; abstract specification: an intent
    queue (each intent at most once, and lost only with its process).
11. `RuntimeIngestion`: buffered assistant text; every delta in one message, in order,
    across buffer limits and completion.
12. `TerminalManager` on `CoalescingQueue`; scope closing of the keyed worker.
13. Pairing grants and sessions (`auth/PairingGrantStore.ts`, `auth/SessionStore.ts`);
    the session directory and its reaper; the command gate of `serverRuntimeStartup.ts`;
    the gateway's tokens; the attachment side effects of the pipeline.
14. Proofs: every invariant, action property and refinement that a passing run checks is
    proved (section 5). For the parts above, the proof of a module is to follow its first run.

## 3. Modules

### CommandDecider, OrchestrationEngine, CommandLog

`CommandDecider` is pure. `Decide(rm, c)` gives the events planned for a command,
and the empty sequence for a refusal; `ProjectOnto(rm, e)` is the fold step of
`projector.ts`. Of the read model the model keeps what the decisions read: which
projects and threads exist, the project of a thread, and the archived and deleted
marks. `project.delete` with `force` is the only command that expands: to a
deletion for each thread of the project that is not deleted, and then its own.
`thread.turn.start` gives two events. Commands that only require an existing thread and give one
event that leaves these marks alone are members of one set.

`OrchestrationEngine` has one action per step of `processEnvelope`. `pc` says where
the worker is.

| Action | Code |
|---|---|
| `Dispatch` | `dispatch`: Deferred and envelope |
| `Take` | the worker takes an envelope, remembers `dispatchStartSequence` (the read model does not change before the reconciliation uses it) |
| `LookupReceipt`, `LookupFails` | `getByCommandId`; a stored receipt answers |
| `DecideCommand`, `EventIdFails` | the decider; a failing generator of ids is wrapped as an invariant error |
| `AppendNext`, `TransactionFails` | append and projection of the next event in the open transaction (`staged`) |
| `Commit`, `CommitUnacknowledged` | the accepted receipt and the commit; or a commit whose acknowledgement is an error |
| `Publish`, `PublishDone` | the hot stream |
| `Reconcile`, `ReplayNext`, `ReplayDone`, `ReconcileFails` | the repair of the read model after a failure |
| `StoreRejection`, `StoreRejectionFails` | the rejected receipt of an invariant error |
| `CompleteCall` | the Deferred |
| `Crash`, `Start` | the process dies; the layer is built again |

A SQL transaction is atomic, and its `AUTOINCREMENT` rolls back with it, so the
sequence of an event is its index in `log`. `outcome` is what the Deferred will
hold.

`CommandLog` is the promise: a log that grows by what is planned (the parameter `Plan`)
on the events before, a verdict per id that never changes, and answers that repeat
the verdict. The refinement takes the receipts as the verdicts, and as `Plan` what the
decider plans on the replay of the log (`PlanAfter`).

### DrainableWorker, WorkQueue; KeyedCoalescingWorker, CoalescingQueue

`DrainableWorker` separates what the code separates: `enqueue` (counter and offer
in one transaction), take, process, and the settling of the counter in `ensuring`.
The processing may fail, which ends the fiber, and the scope may close at any
moment, which interrupts the fiber and shuts the queue down. `WorkQueue` promises
that items finish in the order in which they were accepted and that a drain returns
only when nothing accepted is unfinished.

`KeyedCoalescingWorker` has one action per transaction, the requeue after a failed
attempt included, which is a transaction apart from the mark that announces it.
`merge` is the caller's; values are the sequences of the enqueues they were merged
from. `CoalescingQueue` promises that one key is attempted at a time, that the
attempts cover everything sent, and that `drainKey` returns only when nothing of
its key is left.

### DomainEventStream, ShellFeed, ThreadHistory, ThreadFeed

`DomainEventStream` is the log and how far it is published. Commits wait until the
previous ones are out; a restart gives up on what was not. `OrchestrationEngine`
is checked and proved to implement it while no reconciliation fails, and both feeds instance it.

`ShellFeed` follows a subscription from `subscribe` in the transport to the list of
threads on the client. The order is the code's: the snapshot is loaded, its element
is pulled, and only then does `Stream.concat` run the live stream, which subscribes
to the PubSub (`StartLive`). A row is the sequence of the last event on it. An event
is a `RowEvent`; as the decider has it, two events of one command on the same thread
only change it, so that a removal or a restoration is the one event of its command on
that thread (`ShellAssumption`). The
variable `guarded`, chosen at the start, tells the web store, which compares sequences
and stamps, from the shared reducer, which applies everything.

`ThreadHistory` is pure: what an event of a thread does to its tables (`ProjectRows`,
`RowsReverted`) and to the thread of a client (`ApplyToThread`, `ClientReverted`). A
message or a delta is the sequence of its event; a turn has a checkpoint count, or 0.
The three places that decide what a revert keeps differ in the messages of users. The
tables keep the messages that the retained turns answer and fill up with the earliest
others (`UsersRetained`); the web store, and the read model of the engine with the same
function, keep the earliest; the shared reducer keeps them all. They differ in checkpoints as well. The tables take a
number away from every other turn and let a placeholder replace a capture (`RowsCaptured`); a
client does neither (`ClientCaptured`), and it reverts by the numbers it shows. What is retained of a text is
selected by a recursive function (`Select`), which does what `SelectSeq` does and which proofs can expand.

`ThreadFeed` follows a subscription to one thread. Commands append what clients, the
ingestion and the checkpoint reactor send (`SendMessage`, `StartTurn`, `StreamText`,
`PlacePlaceholder`, `CaptureCompleted`, `CaptureFromPlaceholder`, `Revert`) and project it in the same
step. The ingestion and the reactor read the tables, work, and dispatch later. What a worker has
read is what the tables held (`past`, one state for each prefix of the log) at some moment since the last event
of its own, which no event of its own can be earlier than (`Since`, `FromIngestion`, `FromReactor`):
so two turns can be given one number, and a turn a placeholder after its capture. The queues of the workers are left
out, which allows more than the code does - an event may be handled late, or again. The statements of
`getThreadDetailById` run one by one: `ReadMessages` stands for the messages,
`ReadCheckpoints` for the rest (two groups are enough for a torn read); `SendSnapshot`
is the separate query of the snapshot sequence, which no client looks at. The client
(`store`: "web" or "shared") replaces its thread by a snapshot and folds what it
receives live.

### ProjectionPipeline

A projector is a place in the list of projectors, with a cursor and the events whose
effect it holds; `installed` are those of the version that runs. A command moves all
installed projectors in its transaction; `bootstrap` takes them one by one and
applies one event per transaction, from pages of `PageSize`, up to `Limit` events.
`Upgrade` is a start of a version that brings any further projectors, without a cursor.

### CheckpointFlow

One thread, its git refs, `projection_turns` (`tables`) and the read model of the
engine (`model`).

| Action | Code |
|---|---|
| `RequestTurn`, `RequestRevert` | `thread.turn.start`, `thread.checkpoint.revert` of clients |
| `TurnStarts`, `ReportDiff`, `TurnCompletes` | the agent process (external): `turn.started`, `turn.diff.updated`, `turn.completed` |
| `IngestLifecycle`, `IngestDiff`, `DispatchPlaceholder` | `ProviderRuntimeIngestion`: the active turn; the look at the tables and, later, the dispatch of the placeholder |
| `EnsureBaseline` | `ensurePreTurnBaselineFrom...` |
| `CaptureFromTurnCompletion`, `CaptureFromPlaceholder`, `RecordCheckpoint` | `CheckpointReactor`: decision and capture, then the dispatch |
| `RevertWorkspace`, `CompleteRevert` | `handleRevertRequested`: workspace, conversation and refs, then the dispatch |
| `LoseRuntime` | `streamEvents` "does not reliably deliver" |

`RecordInTables` and `RecordInModel` are the same event in the two places: the tables
take the number away from any other turn and overwrite, the read model refuses a
placeholder over a real checkpoint. A ref is represented by the turn the workspace was
captured for.

An operation that fails is told by a failure activity on the thread (`complaints`), whose
dispatch may fail as well; that is logged and swallowed, and the history variable `unreported`
remembers it. `Failed` is both. The process does not die in this model: the events that
wait for the reactor are in memory, and what it says of placeholders holds while it lives. A revert may be
requested at any time and to any number, since the decider refuses none.

### VcsStatus

A fiber (a watcher's stream, a refresh, a loop of the poller) has a place `pc`. A refresh
reads git (`ReadStatus`), changes the cache (`StoreRefresh`) and publishes (`Publish`) in
three steps; a first load stores without publishing (`StoreFirst`). A stream subscribes,
looks the cache up, retains the poller, opens, and releases in its finalizer
(`Subscribe` to `Interrupt`). The local and the remote part of a status, and the
directories, do not touch each other, so that a behaviour follows one part of one
directory (`kind`). `skewed` records that the last change of the cache was not published
in its place, and `leaked` the streams that ended between the retain and the finalizer.

## 4. Runs

TLC, all states of the instance. The number is the count of distinct states.

| Run | Configuration | Instance | States | Shows |
|---|---|---|---|---|
| `engine_safety` | `OrchestrationEngine_safety.cfg` | 3 ids, 4 calls, 4 kinds of command, all fault places, 2 faults, 1 crash; ids symmetric | 1.64M | log, receipts, tables, read model and stream agree; no caller is forgotten |
| `engine_promise` | `OrchestrationEngine_promise.cfg` | 3 ids, 3 calls, 2 faults other than of the reconciliation and of a rejected receipt, 1 crash, fair | 428k | implements `CommandLog` and `DomainEventStream`; every caller is answered or loses its process |
| `drainable` | `DrainableWorker.cfg` | 2 items, 4 enqueues, 2 drains, failures and closing, fair | 12k | counter exact, implements `WorkQueue`; items processed and drains return while the fiber lives |
| `keyed` | `KeyedCoalescingWorker.cfg` | 2 keys, 3 enqueues each, failing attempts, fair | 6.8k | no lost wakeup, values conserved, implements `CoalescingQueue`; every value attempted, drains return |
| `shell_clients` | `ShellFeed_clients.cfg` | 2 threads, 2 stamps, 3 events, 1 drop, 1 failing read, both kinds of client, fair | 473k | stale only by loss, never older, snapshots repair, the client catches up |
| `thread_safety` | `ThreadFeed_safety.cfg` | 2 turns, 5 events, 1 drop, both clients | 13.8M | differs from the tables only at the seam and by numbers the tables gave away, text does not disappear otherwise |
| `pipeline_restart` | `ProjectionPipeline_restart.cfg` | 3 projectors, any of them new in an upgrade, pages of 3, limit 5, 9 events, 3 crashes, fair | 70k | no event repeated or out of order, level when serving if within the limit, and it gets to serve |
| `checkpoints` | `CheckpointFlow_history.cfg` | 2 turns, 1 diff, 1 revert, 1 fault (an operation that fails, with or without its failure activity, or a lost event), fair | 1.79M | numbers distinct, refs hold their turns, placeholders replaced |
| `vcs_watchers` | `VcsStatus_watchers.cfg` | 2 watchers, 1 refresh, 2 loops, 2 statuses, 1 change, 1 fault, fair | 1.42M | the poller follows its watchers, nothing is missed, watchers learn |
| `thread_revert`, `pipeline_backlog`, `checkpoint_clobber` | `ThreadFeed_revert.cfg`, `ProjectionPipeline_backlog.cfg`, `CheckpointFlow_clobber.cfg` | | | the three disagreements of section 7 |

Why these bounds are enough. Four calls of three ids contain two commands that
build on one another, a retry of either and one more command after the repair; two
faults let a repair of a failure fail as well; a crash stands in every gap of every
such history. The four command kinds contain creation, a command that expands, one
that depends on it, and one refused afterwards. Two keys and three values let a
key have a value in hand, one pending, one still to come, with a second key in the
queue. Two rows and three events contain a removal, a restoration, and events before,
in and after the gap, and one drop gives two connections with different snapshots. Five
events of a thread are enough for two messages, a turn, its capture and a revert to it,
which is where tables and web store keep different messages, in every position
relative to the statements of the snapshot and the subscription. They are also enough for two
turns that start, get the same number from the two workers, and are reverted. In the pipeline, three
projectors, pages of 3 and a log of 9 put page boundaries, limit and end of the log
at different places. Two turns are enough for two workers to number different turns
alike, and a revert to 0, to 1 or to a number nobody has meets them in every order;
`MaxNumber` is above `MaxTurns` because a placeholder recorded after a revert leaves a
gap. Two watchers and two loops let a released poller overlap its successor; two
statuses tell a stale one from a current one.

The bounds `MaxCalls`, `MaxFaults`, `MaxCrashes`, `MaxEnqueues`, `MaxEvents`, `MaxDrops`,
`MaxFailures`, `MaxTurns`, `MaxNumber`, `MaxReports`, `MaxReverts` and `MaxChanges` are guards of
the environment's actions only, with one exception: a placeholder or a capture that would exceed `MaxNumber`
is not decided. The run `thread_safety` has a `VIEW` of the variables that tell its states
apart; the tables and their history are functions of the log. All runs have `CHECK_DEADLOCK FALSE`, because with the bounds used
up and nothing waiting each of these systems rests; that they do not stop
earlier is what the liveness properties show.

Fairness. The engine's worker is a fiber that runs as long as its process lives
(`WF` of its steps) and a stopped process is restarted (`WF` of `Start`, and of `Bootstrap` in
the pipeline). Nothing is assumed of callers, faults and crashes. Faults are
alternatives to the steps of the worker, and are finitely many in an instance. The
workers' fibers are fair, and a transaction that waits is retried by the runtime when
its references change (`WF` of each `DrainReturns`). An attempt of the keyed worker and
the processing of an item are assumed to end; when the latter fails the fiber of the
drainable worker ends, and its liveness properties say so. The shell feed assumes that
the server's fibers run, that the transport delivers while it is up, and that the
client's loop retries, which it does after transport errors only: `CatchesUp` admits a
loop that has given up after a load that failed. `CheckpointFlow` assumes that the
fiber of the reactor runs, and nothing of the ingestion, of clients and of the
agent; `VcsStatus` that fibers which can run do and timers fire, and nothing of
watchers who come, ask or leave. No strong fairness is used.

### Properties worth a note

* `AppliedOnce`: the events of an id form one block that ends at the sequence of
  its accepted receipt; two blocks of one id cannot exist, whatever was retried.
* `SerialExecution`: every block is what the decider plans on the replay of the log
  before it. It fails, as it should, once a reconciliation failed; the condition
  `~everStale` says so, and `AnswersAreDurable` holds even then.
* `TablesAreReplay`: the tables are the fold of the log from nothing, although they
  were built one event at a time inside transactions that may roll back.
* `HotStreamExact`: the hot stream is the log since the start, in order and without gaps, and
  nothing is withheld when the worker rests; events reach it from the success path and from
  the reconciliation. After a failed reconciliation it is still ascending and durable.
* `NobodyForgotten`: a call without an answer is on the queue once or in the hands of the
  worker, on every error path. With fairness it gives `CallsAnswered`.
* `AnswersAreDurable`: who was told a sequence or a refusal finds it in the receipt for ever,
  so that two callers of one id never hear different things. The one exception is a refusal
  whose receipt could not be stored, which the history variable `unrecorded` remembers.
* `StaleOnlyByLoss`: the exact price of the subscription's order. A row may only be
  wrong if the event that decides it fell between snapshot and subscription or could
  not be read. That needs the guard of the web store never to refuse what is needed.
* `SnapshotRepairs`: the guard compares stamps when the sequences are equal; the property says when a
  snapshot can be refused by a client that is not up to date, which is when the
  stamp of the last event is not newer than that of the snapshot applied before.
* `DiffersOnlyAtSeam`: a client to which no event was lost has, when all is delivered, the
  checkpoints and the text of the tables, through reverts and late captures; only a delta
  that was in the snapshot and was carried as well is shown twice. It excepts the turns whose
  checkpoint the tables gave away while the client was live (`Contested`): to another turn that was numbered
  alike, or to a placeholder after the capture, until the turn is captured again. The client keeps
  those, and the text of turns a revert found so is where the two may differ for good (all turns
  but `Uncut`). The web store has as many messages of users as the tables, though not always the
  same ones, whatever was contested; the shared reducer has more (section 7).
* `NothingDisappears`: text the tables hold is lost only by a revert, and only if a checkpoint was recorded
  between the statement that read the checkpoints and the subscription, or the turn's number was
  contested.
* `LevelWithinLimit`: a server that serves holds the whole log in every projector that
  was never more than the limit behind at a start, which is what `Start` of the engine
  builds on.
* `CountsDistinct`: holds of the tables because a record takes its number away from any other
  turn; the read model does get two turns with one number.
* `RefHoldsTurn`: lists the exceptions the code has, each with the failure that led to it -
  told by a failure activity, or by nothing if that could not be dispatched - or the dispatch that
  is about to end it.
* `PlaceholdersReplaced`: the placeholder's own event repairs lost runtime events, skipped
  captures and placeholders written over captures, while the process lives; what is left
  is left by a failure (`Failed`).
* `NothingMissed`, `WatchersLearn`: a watcher that has delivered everything shows the cache
  unless a publication is on its way or the last change was overtaken, interrupted or never
  announced (`skewed`); and while the interval is set and the repository rests, it gets to
  show what git has.

### Mutations

Operators marked "Mutation" in the modules are not part of the specifications. Each is
a plausible mistake in the code (a dropped guard, a missing reset, an order swapped)
in the place of one definition. `PROJECT.json` pairs each property with one that
violates it, so that no property holds by the shape of its model.

## 5. Proofs

Checked by TLAPS for every value of the constants, from the `ASSUME` of the modules.

`OrchestrationEngineProofs`. `AppliedOnce` and `AnswersAreDurable` are not inductive:
they say nothing of the worker between its steps. The invariant `IInv` adds

* `CurrentOK`: the worker holds a call of the list, and while it may still append, the id of
  that call has no receipt;
* `DecidingOK`: the plan and the staged log hold only events of the current id;
* `StagedOK`: the staged log extends the durable log, so a commit only adds a block
  at its end;
* `OutcomeOK`: an outcome "ok" is what the receipt of the current id says, and a refusal about
  to be told is stored or in `unrecorded`.

From it follow `TypeCorrectness`, `ExactlyOnce`, `DurableAnswers`, and, step by step,
`FinalReceipts` and `AppendOnlyLog`.

That tables, read model and log agree is a fact about `Replay`, a recursive function on the
log. What it computes is shown by induction in the form of the least number (a non-empty set of
numbers has a least one, `LeastNumber`): a replay of a sequence of events is a sequence of read
models of which each is the projection of the one before; it exists (`ReplayExists`), there is one only
(`ReplayIsUnique`), and so `Replay` of one event more is one projection more (`ReplayOfAppend`).
`Stored` says that the tables are the replay of the log, inside a transaction that of the staged
log, and that the read model, unless stale, is the replay of the log up to its own sequence.
`MemoryIsStored` and `TablesAreTheReplay` follow. For `LogIsSerial`, `SerialOK` adds that the
block of an accepted command is what the decider plans on the replay of the log where the block
begins, and, for the command in hand, that its plan was made on the log that is there
(`PlanFollows`).

The rest of the module is about the callers and the stream. `WaitersOK` is `NobodyForgotten` with two facts about the
order of the queue (it ascends, and the call in hand is older than all that wait) and that an
ending command has an outcome; `NoCallerForgotten` follows. For the hot stream,
`Horizon` is the sequence up to which events are out: that of the read model, or, while the worker
publishes, the end of the log less what is unpublished. `HotInv` says that the read model is at the
end of the log where it must be (`ModelFollows`), that what waits to be published is the rest of
the log (`PendingFollows`) and that what was published reaches up to the horizon
(`PublishedFollows`): the ranges the two paths publish join without overlap. `StreamIsLog`
follows.

The two refinements take these invariants together. `EngineImplementsEventStream`: a commit
appends the whole plan of one command, and is an abstract commit because everything before it is
published; a publication moves the abstract horizon by one; a crash and a start are its restart.
`EngineImplementsCommandLog`: a commit is `Accept`, since the plan was made on the replay of the
log; the receipt of a refusal is `Refuse`; the completion of a call is `Answer`, if it tells
a verdict. Both assume that no
reconciliation fails (`"reconcile"` is not in `Faults`), after which the engine decides on a read
model that is not the log, and the second that the receipt of a refusal is written
(`"receipt"` is not in `Faults`), since otherwise a caller is told a refusal that nothing records and a retry may
be accepted. The run `engine_promise` has the same fault places; everything else may fail, and crashes are
unrestricted.

`DrainableWorkerProofs`. `InHand` (what the worker holds where), `Accounted`
(accepted is finished, in hand and queued, in this order), `Counted` and
`ClosedIsEnded` make `CountIsBacklog` inductive; the step to `WorkQueue` then follows action by
action (`Implementation`).

`KeyedCoalescingWorkerProofs`. `Holding`, `KeyMarked` (the key in hand is active, or
marked queued), `Pending`, `Placed` (a key marked queued is at exactly one place) and
`ValuesConserved`. `Wakeups` and `Conservation` are parts of it, and `Implementation` shows the
refinement: a claim is the abstract `Start`, the end of an attempt is `End`.

`ProjectionPipelineProofs`. `Ordered` (cursor, order), `Whole` (a projector that was never left behind
holds an interval of the log from its first event), `PageFollows` (the page in hand continues the
cursor) and `Levelled` (the bootstrap has levelled what it has passed, and the limit covers what
is left of the rest) are inductive for any limit and page size; `NoEventRepeated` and
`LevelUnlessBehind` follow.

`CheckpointFlowProofs`. `CountsDistinct` is inductive, from the clearing of a number by its
record. `RefHoldsTurn` needs `JobHoldsRef`: the ref of a checkpoint that is about to be
recorded holds the turn it is recorded for - a revert or a baseline cannot come in between, since the reactor is
one worker.

`VcsStatusProofs`. `PollerIsOwned` from `CountIsExact`, `LoopsAreOwned` and that at most one
finalizer interrupts a loop (`OneOwner`), by counting the streams that hold the poller.
`WatchersMissNothing` from `ViewInv`: what is read is a status, only local parts are loaded
first, a closed stream has an empty mailbox, nobody shows anything before the cache has
something, and publications in a mailbox (`MailSettled`) and views (`ViewSettled`) agree with
the cache unless it is unsettled.

`ShellFeedProofs`. Of the tables: the newest version of a row, its last removal and the event that
decides it (`DecisiveAt`), after which the row does not change (`DecidedOnce`) however the log grows
(`PrefixRows`). Of what is on its way, `WireInv`: a snapshot comes first and is the tables after its
sequence, not before what is applied; events follow in order; and an event no later than which
the row was decided carries the row as it is now, because `toShellStreamEvent` reads the row when it
forwards. `RepairedBySnapshot` follows. `SeenOK` orders versions: what was shown, then what is on the
wire, from its head to its end, then the tables; `RowsNeverOlder` follows. `StaleOnlyByLostEvents` needs for each row that
its decisive event is on the wire, or what is there leaves the row right (`Follows`); that the guard
of the web store refuses nothing the row still needs (`GuardIsSafe`); and that events behind a
snapshot which has the row decided carry it as it is (`SnapshotCovers`). The last is where the
assumption on commands matters: a removal that a pending snapshot has overtaken would take a row
away that a later event of the same command had restored.

`ThreadFeedProofs`. The invariant is about the history `h` of the tables, which is the variable `past`: what they
held after each prefix of the log (`IsHistory`). Everything the client is sent or shows is put in relation to one moment of it.
A snapshot has the messages of one moment and the checkpoints of the same or a later one
(`SnapshotOf`), which a live stream puts no further than one event beyond its subscription: an engine
commits the next command only after the events of the last one are out, so that the seam between
snapshot and stream is one commit wide, which here is one event. A thread that has folded `n` events of a stream with nothing
lost (`Shows(h, n)`) has the checkpoints of moment `n` and its text with at most one delta of the
seam repeated. Each event keeps that (`FoldedAlike`): before the first one the thread is like the tables
before the event, with the checkpoints from before or after it, or already is what the tables are after
it, and then applying the event again must change nothing but repeat a delta. For a revert this is
`RetainedAgain`, and for the messages of users it compares what two different rules retain
(`UsersAlike`, from `UsersRetainedAre` and `HowManyEarliest`: the tables keep as many messages as the
earliest `n` would be, because the retained turns are at most `n`, which is why no two checkpoints may have
one number, `CountsDiffer`). `ClientsShowTheTables` follows. For `TextStays` the invariant also says that
the thread shows nothing later than the snapshot that is on its way (`ShownBy`), and of the history
that deleted text does not come back (`HistoryOK`): text on display that the tables hold now was in
them at every moment since, the one a snapshot or a revert goes to included. Two turns numbered alike are why
`CountsDiffer` holds of the tables only, by their clearing, and the relation of a thread to a moment is one of the turns
that are not contested (`Shows` speaks of `SameCheckpoint` for these, and of the text of `Uncut`). What a filter and an
append do to a text is induction over its length, again in the form of the least number
(`SelectFromAppend`, `SelectFromBoth`, `RepeatsSelected`).

Only model-checked: the nine liveness properties (`CallsAnswered`, `ItemsProcessed`, `ValuesAttempted`,
the two `DrainsReturn`, `CatchesUp`, `Serves`, `PlaceholdersReplaced`, `WatchersLearn`), since `ENABLED`
and fairness are out of the prover's reach.

## 6. What is abstracted and what is not modelled

* Payloads, wording, metrics, logs, schema validation. A decoding error of a stored row
  is a fault of the operation that reads.
* The check of a source plan in `thread.turn.start`, and in the decider everything of a thread
  other than existence, project, archived and deleted.
* In `ThreadHistory`: plans and activities, which are bound to turns as text is but replaced by id; the
  caps on the number of messages, plans, activities and checkpoints; `latestTurn` and the session;
  of the statuses of checkpoints, whether they are "missing". A message and the request of its turn
  are one event.
* In `CheckpointFlow`: the content of a workspace is the turn it was captured for; threads without
  a workspace or session, for which every handler returns early.
* In `VcsStatus`: durations (a sleeping loop may wake at any time); the result `GitManager` keeps for a
  second is folded into the moment of the read; one part of one directory; `getStatus`, which
  only tests call.
* `getThreadShellById` also reads with several statements; a torn row is replaced by the next
  forwarded event on the thread and the model reads a row at once.
* Projects in the shell: they follow the same rules as threads.
* The closing of the scope of the keyed worker, which belongs to the terminal manager.
* Hazards that were met and that no model covers: a diff reported in the middle of a turn is captured as
  "ready" (`CheckpointReactor.ts:471`); attachment files are removed before the transaction is known to
  commit (`ProjectionPipeline.ts:1522`); the read model the engine starts from has no checkpoints,
  messages or plans (`projector.ts:626`); an intent a reactor has taken is gone when the process dies
  (`ProviderCommandReactor.ts:1078`); the end of a turn may be handled after the next has begun
  (`CheckpointReactor.ts:365`).
* The parts with status `not_modelled` in `PROJECT.json`, each with its reason. By lines they are most
  of the repository: generated protocol schemas, user interfaces, adapters of external agents and
  deployment scripts, of which little has state that interleavings could break.
* What the project takes as given: SQLite transactions are atomic and durable, one connection
  serialises the statements, `Queue`, `PubSub`, `TxQueue` and `TxRef` of Effect do what they
  document, and a command id is not reused for another command.

## 7. Disagreements found while modelling

Each is a run that TLC ends with a violation.

1. `thread_revert`. The comment on `retainMessagesAfterRevert` of the shared reducer
   (`packages/client-runtime/src/threadDetailReducer.ts:565`) calls the messages without a turn "pre-turn-0
   user messages" and keeps them. The decider leaves every message of a user without a turn
   (`decider.ts:433`), so that a client of this reducer, the mobile app, keeps all of them
   through a revert, while the tables delete those past it.
2. `pipeline_backlog`. `bootstrap` replays at most 1000 events per projector, the default
   limit of `readFromSequence`. A projector that a new version brings to a longer log
   starts to serve short of it, and the first command moves its cursor past the gap for good.
3. `checkpoint_clobber`. A real capture "should not be clobbered" by a placeholder
   (`ProviderRuntimeIngestion.ts:1630`). The ingestion looks at the tables and dispatches later; a
   capture recorded in between is overwritten in `projection_turns`, which has not the guard the read
   model has, until the placeholder's own event repairs it.

Two more things a reader should know of, which the properties state exactly: `subscribeShell` and
`subscribeThread` subscribe to the hot stream only after the snapshot was sent, so that an event
committed in between is in neither (`StaleOnlyByLoss`, `DiffersOnlyAtSeam`); and a thread snapshot is not
a point in time. And one more of the checkpoints: where the two workers give two turns one number, the tables take it
from one of them and no client is told, so that both stay on display until the next snapshot and a
revert cuts the two histories differently (`Contested`).

Some hazards are delimited and not excluded: the properties name the states the code gets into and show that there are
no others. A failed reconciliation (`everStale`), an unstored refusal (`unrecorded`), a client whose loop has given
up (`abandoned`), the seams of the feeds, contested checkpoints, publications out of place
(`skewed`), a failure whose activity failed too (`unreported`). The notes in `PROJECT.json` say so at
each.
