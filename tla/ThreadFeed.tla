------------------------------ MODULE ThreadFeed ------------------------------
(***************************************************************************)
(* subscribeThread: how a client follows one thread.  The server reads the *)
(* tables of the thread one statement after the other, then the snapshot   *)
(* sequence, sends the thread, and subscribes to the hot stream; it        *)
(* forwards the events themselves, and the client folds them with a fold   *)
(* of its own (ThreadHistory).                                             *)
(*                                                                         *)
(* Applying a delta of text twice shows it twice; every other event may be *)
(* applied again without harm.  Nobody compares sequences.                 *)
(***************************************************************************)
EXTENDS ThreadHistory, FiniteSetsExt

CONSTANTS MaxEvents,    \* bound on the length of the log
          MaxDrops      \* bound on disconnects and restarts of the server

ASSUME ThreadAssumption ==
    /\ MaxTurns \in Nat /\ MaxEvents \in Nat /\ MaxDrops \in Nat

VARIABLES
    log, published,  \* the server's event log and hot stream
    rows,            \* the tables of the thread
    past,            \* history: what they held after each prefix of the log
    begun,           \* the turns the provider has started
    phase,           \* the subscription
    loading,         \* what the statements have read so far
    cursor,          \* the last event its live stream has taken
    wire,            \* what was sent and not yet received
    store,           \* the client: "web" or "shared"
    thread,          \* the thread it shows
    startedAt,       \* history: published when the live stream was subscribed
    readAt,          \* history: the log when the messages it shows were read
    drops

server == <<log, published, rows, past, begun>>
subscription == <<phase, loading, cursor, wire>>
client == <<store, thread, readAt>>
vars == <<server, subscription, client, startedAt, drops>>

(* What tells states apart: rows and past are functions of the log.        *)
view == <<log, published, begun, subscription, client, startedAt, drops>>

Stream == INSTANCE DomainEventStream WITH Batches <- {<<e>> : e \in Event}

-----------------------------------------------------------------------------
NothingRead == [thread |-> NoThread, at |-> 0]

Init ==
    /\ Stream!Init
    /\ rows = NoRows /\ past = [n \in {0} |-> NoRows] /\ begun = 0
    /\ phase = "closed" /\ loading = NothingRead /\ cursor = 0 /\ wire = <<>>
    /\ store \in {"web", "shared"}
    /\ thread = NoThread /\ readAt = 0
    /\ startedAt = 0
    /\ drops = 0

-----------------------------------------------------------------------------
(* What the commands of clients, of the ingestion and of the checkpoint    *)
(* reactor append: one event, projected in the same transaction.           *)
Record(e) ==
    /\ Stream!Commit(<<e>>)
    /\ rows' = ProjectRows(rows, e, Len(log) + 1)
    /\ past' = [n \in 0..Len(log) + 1 |-> IF n = Len(log) + 1 THEN rows' ELSE past[n]]
    /\ UNCHANGED <<subscription, client, startedAt, drops>>

(* A client sends a message.                                               *)
SendMessage == Record([kind |-> "user"]) /\ UNCHANGED begun

(* The provider answers it with a new turn, or goes on with the turn it is *)
(* in - which changes nothing when no message waits -, or starts a turn of *)
(* its own.                                                                *)
StartTurn ==
    \E t \in {begun, begun + 1} \cap Turns :
        /\ t = begun => rows.request # 0
        /\ begun' = t
        /\ Record([kind |-> "started", turn |-> t])

StreamText ==
    /\ begun # 0
    /\ Record([kind |-> "delta", turn |-> begun])
    /\ UNCHANGED begun

(* The checkpoints come from two workers, the ingestion and the reactor.   *)
(* Each reads the tables, works, and dispatches later; the other one and   *)
(* the clients commit in between.  What a worker has read is what the      *)
(* tables held at some moment since its own previous event.  The queues of *)
(* the workers are left out: an event may be handled late, or again.       *)
FromIngestion ==
    {i \in DOMAIN log : \/ log[i].kind \in {"started", "delta"}
                        \/ log[i].kind = "diff" /\ log[i].status = "placeholder"}
FromReactor ==
    {i \in DOMAIN log : \/ log[i].kind = "reverted"
                        \/ log[i].kind = "diff" /\ log[i].status # "placeholder"}

Since(own) == Max({0} \cup own)..Len(log)

Counts(held) == {held.count[t] : t \in Turns} \cup {0}

Capture(t, n, status) ==
    /\ Record([kind |-> "diff", turn |-> t, count |-> n, status |-> status])
    /\ UNCHANGED begun

(* The ingestion puts a placeholder, numbered after the highest, on a turn *)
(* without a checkpoint.                                                   *)
PlacePlaceholder ==
    \E m \in Since(FromIngestion), t \in 1..begun :
        /\ past[m].count[t] = 0
        /\ Capture(t, Max(Counts(past[m])) + 1, "placeholder")

(* The reactor captures a turn that has completed, late perhaps, or not at *)
(* all, with the number of its placeholder if it has one,                  *)
CaptureCompleted ==
    \E m \in Since(FromReactor), t \in 1..begun, status \in {"interrupted", "real"} :
        LET n == past[m].count[t] IN
        /\ t \notin past[m].real
        /\ Capture(t, IF n # 0 THEN n ELSE Max(Counts(past[m])) + 1, status)

(* or with the number of an event that recorded a "missing" checkpoint.    *)
CaptureFromPlaceholder ==
    \E m \in Since(FromReactor) : \E i \in 1..m :
        /\ log[i].kind = "diff" /\ log[i].status # "real"
        /\ log[i].turn \notin past[m].real
        /\ Capture(log[i].turn, log[i].count, "real")

(* It reverts the thread to a checkpoint it has read or to the beginning.  *)
Revert ==
    \E m \in Since(FromReactor) : \E n \in Counts(past[m]) :
        /\ Record([kind |-> "reverted", count |-> n])
        /\ UNCHANGED begun

Commit ==
    /\ Len(log) < MaxEvents /\ published = Len(log)
    /\ \/ SendMessage \/ StartTurn \/ StreamText
       \/ PlacePlaceholder \/ CaptureCompleted \/ CaptureFromPlaceholder \/ Revert

Publish ==
    /\ Stream!PublishNext
    /\ UNCHANGED <<rows, past, begun, subscription, client, startedAt, drops>>

-----------------------------------------------------------------------------
Subscribe ==
    /\ phase = "closed"
    /\ phase' = "messages"
    /\ UNCHANGED <<server, loading, cursor, wire, client, startedAt, drops>>

(* getThreadDetailById: the messages,                                      *)
ReadMessages ==
    /\ phase = "messages"
    /\ loading' = [thread |-> [NoThread EXCEPT !.users = rows.users, !.text = rows.text],
                   at |-> Len(log)]
    /\ phase' = "checkpoints"
    /\ UNCHANGED <<server, cursor, wire, client, startedAt, drops>>

(* the plans, activities, and checkpoints - commands may commit in between *)
(* -                                                                       *)
ReadCheckpoints ==
    /\ phase = "checkpoints"
    /\ loading' = [loading EXCEPT !.thread.count = rows.count,
                                   !.thread.real = rows.real]
    /\ phase' = "sequence"
    /\ UNCHANGED <<server, cursor, wire, client, startedAt, drops>>

(* and getSnapshotSequence, which the clients do not look at; the thread   *)
(* is sent.                                                                *)
SendSnapshot ==
    /\ phase = "sequence"
    /\ wire' = << [kind |-> "snapshot", read |-> loading] >>
    /\ loading' = NothingRead
    /\ phase' = "loaded"
    /\ UNCHANGED <<server, cursor, client, startedAt, drops>>

(* A statement fails, or there is no such thread: not a transport error,   *)
(* and the client's loop gives up.                                         *)
LoadFails ==
    /\ phase \in {"messages", "checkpoints", "sequence"}
    /\ phase' = "abandoned"
    /\ loading' = NothingRead
    /\ UNCHANGED <<server, cursor, wire, client, startedAt, drops>>

(* The snapshot element has been pulled; the live stream subscribes now.   *)
StartLive ==
    /\ phase = "loaded"
    /\ phase' = "live"
    /\ cursor' = published
    /\ startedAt' = published
    /\ UNCHANGED <<server, loading, wire, client, drops>>

(* The events a client folds pass the filter of the feed.                  *)
Forward ==
    /\ phase = "live"
    /\ cursor < published
    /\ cursor' = cursor + 1
    /\ wire' = Append(wire, [kind |-> "event", sequence |-> cursor'])
    /\ UNCHANGED <<server, phase, loading, client, startedAt, drops>>

-----------------------------------------------------------------------------
(* applyStreamItem: a snapshot replaces the thread, an event is folded     *)
(* into it.                                                                *)
ReceiveSnapshot(item) ==
    /\ item.kind = "snapshot"
    /\ thread' = item.read.thread
    /\ readAt' = item.read.at

ReceiveEvent(item) ==
    /\ item.kind = "event"
    /\ thread' = ApplyToThread(store, thread, log[item.sequence], item.sequence)
    /\ UNCHANGED readAt

(* Mutation: what was sent last is received first.                         *)
DeliverLastFirst ==
    /\ wire # <<>>
    /\ ReceiveSnapshot(wire[Len(wire)]) \/ ReceiveEvent(wire[Len(wire)])
    /\ wire' = SubSeq(wire, 1, Len(wire) - 1)
    /\ UNCHANGED <<server, phase, loading, cursor, store, startedAt, drops>>

Deliver ==
    /\ wire # <<>>
    /\ ReceiveSnapshot(Head(wire)) \/ ReceiveEvent(Head(wire))
    /\ wire' = Tail(wire)
    /\ UNCHANGED <<server, phase, loading, cursor, store, startedAt, drops>>

Close ==
    /\ phase \notin {"closed", "abandoned"}
    /\ drops < MaxDrops
    /\ drops' = drops + 1
    /\ phase' = "closed"
    /\ loading' = NothingRead
    /\ wire' = <<>>
    /\ cursor' = 0 /\ startedAt' = 0 /\ readAt' = 0
    /\ UNCHANGED <<rows, past, begun, store, thread>>

Disconnect == Close /\ UNCHANGED <<log, published>>
ServerRestarts == Close /\ Stream!Restart

Next ==
    \/ Commit \/ Publish
    \/ Subscribe
    \/ ReadMessages \/ ReadCheckpoints \/ SendSnapshot \/ LoadFails
    \/ StartLive \/ Forward \/ Deliver
    \/ Disconnect \/ ServerRestarts

Spec == Init /\ [][Next]_vars

-----------------------------------------------------------------------------
Settled == phase = "live" /\ wire = <<>> /\ cursor = Len(log)

(* Every event is in what was read or was carried live; those after        *)
(* startedAt and up to readAt were both.                                   *)
Unbroken == startedAt <= readAt

(* The event i takes the checkpoint of a turn away in the tables, which the *)
(* client keeps: it records another turn with the same number, or puts a   *)
(* placeholder over a capture.  A capture of the turn itself settles it.   *)
TakesAway(i, t) ==
    /\ log[i].kind = "diff"
    /\ \/ log[i].turn # t /\ past[i - 1].count[t] = log[i].count
       \/ log[i].turn = t /\ log[i].status # "real" /\ t \in past[i - 1].real

Recaptures(i, t) == log[i].kind = "diff" /\ log[i].turn = t /\ log[i].status = "real"

Contested(t, n) ==
    \E i \in startedAt + 1 .. n :
        TakesAway(i, t) /\ \A j \in i + 1 .. n : ~Recaptures(j, t)

(* Turns a revert did not find contested.                                  *)
Uncut(n) ==
    {t \in Turns : \A i \in startedAt + 1 .. n :
                       log[i].kind = "reverted" => ~Contested(t, i - 1)}

Shown(text) == {text[i] : i \in DOMAIN text}
Of(text, turns) == Select(text, [at : Nat, turn : turns])
SeenOnce(text) ==
    Select(text, [at : Nat \ (startedAt + 1 .. readAt), turn : Turns])

(* A client to which no event was lost between its snapshot and the hot    *)
(* stream has, once all is delivered, the text and the checkpoints of the  *)
(* tables, through any reverts and late captures, but for a delta that was *)
(* in the snapshot and was carried as well, which it shows twice - and but *)
(* for turns whose checkpoint the tables gave away while it was live: it   *)
(* keeps that, and reverts by it.  The web store has as many messages of   *)
(* users as the tables, if not always the same ones; the shared reducer    *)
(* has all that were ever sent.                                            *)
DiffersOnlyAtSeam ==
    Settled /\ Unbroken =>
        LET uncut == Uncut(Len(log))
            ours == Of(thread.text, uncut)
            theirs == Of(rows.text, uncut)
        IN  /\ \A t \in Turns : ~Contested(t, Len(log)) =>
                   /\ thread.count[t] = rows.count[t]
                   /\ t \in thread.real <=> t \in rows.real
            /\ Shown(ours) = Shown(theirs)
            /\ SeenOnce(ours) = SeenOnce(theirs)
            /\ store = "web" => Cardinality(thread.users) = Cardinality(rows.users)
            /\ store = "shared" => rows.users \subseteq thread.users

(* Text that a client shows and the tables still hold does not disappear,  *)
(* neither with a revert that arrives late or again nor with the snapshot  *)
(* of a new connection.  Only after a checkpoint was lost at the seam, or  *)
(* was given away by the tables, can a revert take away the text of its    *)
(* turn.                                                                   *)
NothingDisappears ==
    [][LET item == Head(wire) IN
       \A delta \in (Shown(thread.text) \cap Shown(rows.text)) \ Shown(thread'.text) :
           /\ item.kind = "event" /\ log[item.sequence].kind = "reverted"
           /\ Unbroken => Contested(delta.turn, item.sequence - 1)]_thread

(* The comment on the shared reducer: what it retains without a turn are   *)
(* "pre-turn-0 user messages".  Every message of a user is without a turn, *)
(* and with everything delivered it shows some the tables have not.        *)
RevertsAlike ==
    Settled /\ Unbroken /\ store = "shared" => thread.users = rows.users
=============================================================================
