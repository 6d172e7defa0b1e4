------------------------------ MODULE ShellFeed ------------------------------
(***************************************************************************)
(* subscribeShell: how the list of threads of a client follows the tables  *)
(* of the server.  A subscription loads a snapshot of the rows, sends it,  *)
(* and only then subscribes to the hot stream; for each event it sends the *)
(* row as it is when the event is forwarded.  The transport subscribes     *)
(* again after a disconnect.                                               *)
(*                                                                         *)
(* There are two clients of this feed: the web store keeps the version it  *)
(* has applied and refuses what is not newer, the shared reducer applies   *)
(* everything.  Which one is on the other end is chosen at the start.      *)
(*                                                                         *)
(* A row is represented by its version, the sequence of the last event on  *)
(* it, and 0 when the list does not show it.  "archived" stands also for   *)
(* thread.deleted, which the feed treats alike.                            *)
(***************************************************************************)
EXTENDS Naturals, Sequences, FiniteSetsExt

CONSTANTS Rows,         \* the threads
          Batches,      \* what commands commit: sequences of [row, kind, at]
          MaxEvents,    \* bound on the length of the log
          MaxDrops,     \* bound on disconnects and restarts of the server
          MaxFailures   \* bound on failing reads

(* An event on a thread.  One command changes a row any number of times,   *)
(* or archives, restores or deletes it, once.                              *)
RowEvent == [row : Rows, kind : {"changed", "archived", "unarchived"}, at : Nat]

ASSUME ShellAssumption ==
    /\ MaxEvents \in Nat /\ MaxDrops \in Nat /\ MaxFailures \in Nat
    /\ Batches \subseteq Seq(RowEvent)
    /\ \A batch \in Batches : \A i, j \in DOMAIN batch :
          i # j /\ batch[i].row = batch[j].row => batch[i].kind = "changed"

VARIABLES
    log, published,  \* the server's event log and hot stream
    phase,           \* the subscription: closed, asked, loaded, live, abandoned
    cursor,          \* the last event its live stream has taken
    wire,            \* what was sent and not yet received
    shell,           \* client: the version shown of each row
    applied,         \* client: lastAppliedProjectionVersion
    lost,            \* history: events the client will not hear of
    seen,            \* history: newest version of each row ever shown
    guarded,         \* TRUE: the web store; FALSE: the shared reducer
    drops, failures

subscription == <<phase, cursor, wire>>
client == <<shell, applied, seen, guarded>>
bounds == <<drops, failures>>
vars == <<log, published, subscription, client, lost, bounds>>

Stream == INSTANCE DomainEventStream

-----------------------------------------------------------------------------
(* The tables after the first n events.                                    *)
Events(row, n) == {i \in 1..n : log[i].row = row}
Version(row, n) == Max(Events(row, n) \cup {0})
ArchivedAt(row, n) ==
    Max({i \in Events(row, n) : log[i].kind = "archived"} \cup {0})
Archived(row, n) ==
    \A i \in Events(row, n) : i > ArchivedAt(row, n) => log[i].kind # "unarchived"
Row(row, n) ==
    IF ArchivedAt(row, n) # 0 /\ Archived(row, n) THEN 0 ELSE Version(row, n)
Table(n) == [row \in Rows |-> Row(row, n)]

(* updatedAt of a shell snapshot: the latest stamp of the shown rows and   *)
(* of the projection state, which the last event stamped.                  *)
UpdatedAt(n) ==
    Max({log[i].at : i \in ({Row(row, n) : row \in Rows} \cup {n}) \ {0}} \cup {0})

SnapshotItem == [kind |-> "snapshot", sequence |-> Len(log),
                 updatedAt |-> UpdatedAt(Len(log)), rows |-> Table(Len(log))]
UpsertItem(row, n) == [kind |-> "upserted", sequence |-> n, row |-> row,
                       version |-> Row(row, Len(log))]
RemoveItem(row, n) == [kind |-> "removed", sequence |-> n, row |-> row, version |-> 0]

NoVersion == [sequence |-> 0, updatedAt |-> 0]

Init ==
    /\ Stream!Init
    /\ phase = "closed" /\ cursor = 0 /\ wire = <<>>
    /\ shell = [row \in Rows |-> 0]
    /\ applied = NoVersion
    /\ seen = [row \in Rows |-> 0]
    /\ guarded \in BOOLEAN
    /\ lost = {}
    /\ drops = 0 /\ failures = 0

-----------------------------------------------------------------------------
(* The decider archives a thread that is not archived, and restores one    *)
(* that is.                                                                *)
Legal(e) ==
    /\ e.kind = "archived" => Row(e.row, Len(log)) # 0
    /\ e.kind = "unarchived" => /\ Version(e.row, Len(log)) # 0
                                /\ Row(e.row, Len(log)) = 0

Commit ==
    \E batch \in Batches :
        /\ Len(log) + Len(batch) <= MaxEvents
        /\ \A i \in DOMAIN batch : Legal(batch[i])
        /\ Stream!Commit(batch)
        /\ UNCHANGED <<subscription, client, lost, bounds>>

Publish ==
    /\ Stream!PublishNext
    /\ UNCHANGED <<subscription, client, lost, bounds>>

(* Mutation: the loop does not subscribe again after a disconnect.         *)
SubscribeOnce ==
    /\ phase = "closed" /\ drops = 0
    /\ phase' = "asked"
    /\ UNCHANGED <<log, published, cursor, wire, client, lost, bounds>>

(* The client's subscription loop opens the stream, again after each drop. *)
Subscribe ==
    /\ phase = "closed"
    /\ phase' = "asked"
    /\ UNCHANGED <<log, published, cursor, wire, client, lost, bounds>>

(* getShellSnapshot, one transaction; the live stream is put together but  *)
(* not run.                                                                *)
LoadSnapshot ==
    /\ phase = "asked"
    /\ phase' = "loaded"
    /\ wire' = << SnapshotItem >>
    /\ cursor' = Len(log)
    /\ UNCHANGED <<log, published, client, lost, bounds>>

(* A load that fails is not a transport error: the loop gives up.          *)
LoadFails ==
    /\ phase = "asked"
    /\ failures < MaxFailures
    /\ failures' = failures + 1
    /\ phase' = "abandoned"
    /\ UNCHANGED <<log, published, cursor, wire, client, lost, drops>>

(* The snapshot element has been pulled; concat runs the live stream,      *)
(* which subscribes to the PubSub now.                                     *)
StartLive ==
    /\ phase = "loaded"
    /\ phase' = "live"
    /\ cursor' = published
    /\ lost' = lost \cup (cursor + 1)..published
    /\ UNCHANGED <<log, published, wire, client, bounds>>

(* Mutation: an unarchived thread is not sent.                             *)
ForwardIgnoresRestored ==
    /\ phase = "live"
    /\ cursor < published
    /\ LET e == log[cursor + 1] IN
       wire' = IF e.kind = "archived" THEN Append(wire, RemoveItem(e.row, cursor + 1))
               ELSE IF e.kind = "unarchived" \/ Row(e.row, Len(log)) = 0 THEN wire
               ELSE Append(wire, UpsertItem(e.row, cursor + 1))
    /\ cursor' = cursor + 1
    /\ UNCHANGED <<log, published, phase, client, lost, bounds>>

(* toShellStreamEvent: a removal says so; any other event sends the row as *)
(* the tables have it now, and nothing if it is not listed.                *)
Forward ==
    /\ phase = "live"
    /\ cursor < published
    /\ LET e == log[cursor + 1] IN
       \/ /\ e.kind = "archived"
          /\ wire' = Append(wire, RemoveItem(e.row, cursor + 1))
       \/ /\ e.kind # "archived" /\ Row(e.row, Len(log)) # 0
          /\ wire' = Append(wire, UpsertItem(e.row, cursor + 1))
       \/ /\ e.kind # "archived" /\ Row(e.row, Len(log)) = 0
          /\ UNCHANGED wire
    /\ cursor' = cursor + 1
    /\ UNCHANGED <<log, published, phase, client, lost, bounds>>

(* The row cannot be read: the event is dropped without a word.            *)
ForwardFails ==
    /\ phase = "live"
    /\ cursor < published
    /\ log[cursor + 1].kind # "archived"
    /\ failures < MaxFailures
    /\ failures' = failures + 1
    /\ cursor' = cursor + 1
    /\ lost' = lost \cup {cursor + 1}
    /\ UNCHANGED <<log, published, phase, wire, client, drops>>

-----------------------------------------------------------------------------
(* Mutation: snapshots are compared by their sequence alone.               *)
NewerSequence(item) ==
    \/ ~guarded
    \/ applied.sequence < item.sequence

(* shouldApplyProjectionSnapshot, shouldApplyProjectionEvent.              *)
ShouldApplySnapshot(item) ==
    \/ ~guarded
    \/ applied.sequence < item.sequence
    \/ applied.sequence = item.sequence /\ applied.updatedAt < item.updatedAt

ShouldApplyEvent(item) == ~guarded \/ applied.sequence < item.sequence

Show(rows) ==
    /\ shell' = rows
    /\ seen' = [row \in Rows |-> Max({seen[row], rows[row]})]
    /\ UNCHANGED guarded

ApplySnapshot(item) ==
    /\ item.kind = "snapshot"
    /\ ShouldApplySnapshot(item)
    /\ Show(item.rows)
    /\ applied' = [sequence |-> item.sequence, updatedAt |-> item.updatedAt]
    /\ lost' = {i \in lost : i > item.sequence}

ApplyEvent(item) ==
    /\ item.kind # "snapshot"
    /\ ShouldApplyEvent(item)
    /\ Show([shell EXCEPT ![item.row] = item.version])
    /\ applied' = [applied EXCEPT !.sequence = item.sequence]
    /\ UNCHANGED lost

RefuseItem(item) ==
    /\ ~(IF item.kind = "snapshot" THEN ShouldApplySnapshot(item) ELSE ShouldApplyEvent(item))
    /\ UNCHANGED <<client, lost>>

(* Mutation: what was sent last is received first.                         *)
DeliverLastFirst ==
    /\ wire # <<>>
    /\ LET item == wire[Len(wire)] IN
       ApplySnapshot(item) \/ ApplyEvent(item) \/ RefuseItem(item)
    /\ wire' = SubSeq(wire, 1, Len(wire) - 1)
    /\ UNCHANGED <<log, published, phase, cursor, bounds>>

(* The client receives the next item.                                      *)
Deliver ==
    /\ wire # <<>>
    /\ LET item == Head(wire) IN
       ApplySnapshot(item) \/ ApplyEvent(item) \/ RefuseItem(item)
    /\ wire' = Tail(wire)
    /\ UNCHANGED <<log, published, phase, cursor, bounds>>

(* The connection goes, and what was on its way with it.                   *)
Close ==
    /\ phase \in {"asked", "loaded", "live"}
    /\ drops < MaxDrops
    /\ drops' = drops + 1
    /\ phase' = "closed"
    /\ wire' = <<>>
    /\ UNCHANGED <<cursor, client, lost, failures>>

Disconnect == Close /\ UNCHANGED <<log, published>>
ServerRestarts == Close /\ Stream!Restart

Server == Publish \/ LoadSnapshot \/ StartLive \/ Forward
Client == Subscribe \/ Deliver

Next ==
    \/ Commit
    \/ Server
    \/ Client
    \/ LoadFails \/ ForwardFails
    \/ Disconnect \/ ServerRestarts

Spec == Init /\ [][Next]_vars

(* The fibers of the server run, the transport delivers while it is up,    *)
(* and the subscription loop retries.  Nothing obliges a command, a        *)
(* failure or a disconnect.                                                *)
FairSpec == Spec /\ WF_vars(Server) /\ WF_vars(Client)

-----------------------------------------------------------------------------
Item ==
    [kind : {"snapshot"}, sequence : Nat, updatedAt : Nat, rows : [Rows -> Nat]]
    \cup [kind : {"upserted", "removed"}, sequence : Nat, row : Rows, version : Nat]

TypeOK ==
    /\ log \in Seq(RowEvent)
    /\ published \in 0..Len(log)
    /\ phase \in {"closed", "asked", "loaded", "live", "abandoned"}
    /\ cursor \in 0..Len(log)
    /\ wire \in Seq(Item)
    /\ shell \in [Rows -> Nat] /\ seen \in [Rows -> Nat]
    /\ applied \in [sequence : Nat, updatedAt : Nat]
    /\ guarded \in BOOLEAN
    /\ lost \subseteq 1..Len(log)
    /\ drops \in Nat /\ failures \in Nat

(* Nothing is under way any more.                                          *)
Settled == phase = "live" /\ wire = <<>> /\ cursor = Len(log)

(* The event that must reach the client for a row to be right: its last    *)
(* one, or the removal if the row is not listed.                           *)
Decisive(row) ==
    IF Row(row, Len(log)) # 0 THEN Version(row, Len(log)) ELSE ArchivedAt(row, Len(log))

(* Once all is delivered a row of the client is the row of the server,     *)
(* unless the event that decides it was lost: committed between the        *)
(* snapshot and the subscription to the hot stream, or its row could not   *)
(* be read.  Whatever the guard of the web store refuses, late events and  *)
(* reconnections included, costs nothing else.                             *)
StaleOnlyByLoss ==
    Settled =>
        \A row \in Rows :
            Decisive(row) \notin lost => shell[row] = Row(row, Len(log))

(* A row on display is the newest the client ever had of it: neither a     *)
(* late event nor the snapshot of a new connection brings back older       *)
(* content.                                                                *)
NeverOlder ==
    \A row \in Rows : shell[row] # 0 => shell[row] = seen[row]

(* A snapshot replaces what the client shows, and so repairs what was      *)
(* lost.  The web store may refuse it without being up to date only if the *)
(* last event is stamped no later than the snapshot applied before - the   *)
(* stamp comes from the client that sent the command.                      *)
SnapshotRepairs ==
    [][(Deliver /\ Head(wire).kind = "snapshot" /\ shell' # Head(wire).rows) =>
          log[Head(wire).sequence].at <= applied.updatedAt]_vars

(* A client catches up with every event, however often it is disconnected, *)
(* unless its loop has given up after a load that failed.                  *)
CatchesUp ==
    \A n \in 1..MaxEvents :
        (Len(log) >= n) ~> (applied.sequence >= n \/ Settled \/ phase = "abandoned")

=============================================================================
