----------------------------- MODULE ThreadHistory -----------------------------
(***************************************************************************)
(* The history of one thread as the events of its log fold it: into the    *)
(* tables, and into the thread a client shows.  The two folds are written  *)
(* apart in the code, and so they are here; they disagree about reverts,   *)
(* and about two turns whose checkpoints have the same number.             *)
(*                                                                         *)
(* A message of a user is never bound to a turn.  What binds it is the row *)
(* of the turn that answers it, which the clients do not get.  The text of *)
(* the agent comes in deltas bound to their turn; plans and activities,    *)
(* bound likewise but replaced by id, fare as the deltas do and are left   *)
(* out, as are the caps on how many entries are kept.  Messages, deltas    *)
(* and checkpoints are represented by the sequences of their events, which *)
(* stand for their times of creation as well.                              *)
(***************************************************************************)
EXTENDS Naturals, Sequences, FiniteSets

CONSTANT MaxTurns  \* bound on the turns of the provider

Turns == 1..MaxTurns

(* A checkpoint is a placeholder of the ingestion or a capture of the      *)
(* reactor, real but for the one of an interrupted turn.                   *)
Statuses == {"placeholder", "interrupted", "real"}

Event ==
    [kind : {"user"}]                               \* message and request of a turn
    \cup [kind : {"started", "delta"}, turn : Turns]  \* session-set; streamed text
    \cup [kind : {"diff"}, turn : Turns, count : Nat, status : Statuses]
    \cup [kind : {"reverted"}, count : Nat]

(* What both sides hold.  A count of 0 is a turn without a checkpoint; the *)
(* turns in real have one whose status is not "missing".                   *)
NoThread == [users |-> {}, text |-> <<>>, count |-> [t \in Turns |-> 0], real |-> {}]

(* The tables, with the columns of projection_turns a client does not get: *)
(* the message a turn answers, and the request that waits for its turn.    *)
NoRows == [users |-> {}, text |-> <<>>, count |-> [t \in Turns |-> 0], real |-> {},
           pending |-> [t \in Turns |-> 0], request |-> 0]

Delta(e, i) == [at |-> i, turn |-> e.turn]

(* The deltas of a text that are in a set, in their order: SelectSeq with a  *)
(* set, as a recursive function, which proofs can expand.                   *)
Select(text, deltas) ==
    LET taken[i \in 0..Len(text)] ==
            IF i = 0 THEN <<>>
            ELSE IF text[i] \in deltas THEN Append(taken[i - 1], text[i])
            ELSE taken[i - 1]
    IN  taken[Len(text)]

RetainedTurns(thread, n) == {t \in Turns : thread.count[t] \in 1..n}
RetainedText(thread, turns) == Select(thread.text, [at : Nat, turn : turns])
RetainedCounts(thread, turns) ==
    [t \in Turns |-> IF t \in turns THEN thread.count[t] ELSE 0]

(* The first k of a set of messages. *)
Earliest(messages, k) ==
    {i \in messages : Cardinality({j \in messages : j < i}) < k}

-----------------------------------------------------------------------------
(* The turn whose checkpoint an event makes real. *)
RealTurns(e) == IF e.status = "real" THEN {e.turn} ELSE {}

(* Mutation: the tables keep as many messages as the turn count says, and  *)
(* do not look at what the turns answer.                                   *)
UsersRetainedUnbound(rows, turns, n) == Earliest(rows.users, n + 1)

(* retainProjectionMessagesAfterRevert: the messages the retained turns    *)
(* answer, and the earliest others until there are n.                      *)
UsersRetained(rows, turns, n) ==
    LET answered == {rows.pending[t] : t \in turns} \cap rows.users
        missing == IF Cardinality(answered) < n THEN n - Cardinality(answered) ELSE 0
    IN  answered \cup Earliest(rows.users \ answered, missing)

RowsReverted(rows, n) ==
    LET turns == RetainedTurns(rows, n) IN
    [users |-> UsersRetained(rows, turns, n),
     text |-> RetainedText(rows, turns),
     count |-> RetainedCounts(rows, turns),
     real |-> rows.real \cap turns,
     pending |-> [t \in Turns |-> IF t \in turns THEN rows.pending[t] ELSE 0],
     request |-> 0]

(* thread.turn-diff-completed: another turn with the same count loses its  *)
(* checkpoint; the one of the turn is overwritten.                         *)
RowsCaptured(rows, e) ==
    LET cleared == {t \in Turns \ {e.turn} : rows.count[t] = e.count} IN
    [rows EXCEPT !.count = [t \in Turns |-> IF t = e.turn THEN e.count
                                            ELSE IF t \in cleared THEN 0 ELSE rows.count[t]],
                 !.real = (rows.real \ (cleared \cup {e.turn})) \cup RealTurns(e)]

(* The projectors of messages and turns on the event of sequence i.        *)
ProjectRows(rows, e, i) ==
    CASE e.kind = "user" -> [rows EXCEPT !.users = @ \cup {i}, !.request = i]
      [] e.kind = "started" ->
            [rows EXCEPT !.pending[e.turn] = IF @ = 0 THEN rows.request ELSE @,
                         !.request = 0]
      [] e.kind = "delta" -> [rows EXCEPT !.text = Append(@, Delta(e, i))]
      [] e.kind = "diff" -> RowsCaptured(rows, e)
      [] e.kind = "reverted" -> RowsReverted(rows, e.count)

-----------------------------------------------------------------------------
(* A client is the web store or the shared reducer.  The web store keeps   *)
(* as many messages of users as turns, the earliest ones, as the read      *)
(* model of the engine does; the reducer keeps what is not bound to a      *)
(* turn, and so all of them.                                               *)
ClientReverted(store, thread, n) ==
    LET turns == RetainedTurns(thread, n) IN
    [users |-> IF store = "web" THEN Earliest(thread.users, n) ELSE thread.users,
     text |-> RetainedText(thread, turns),
     count |-> RetainedCounts(thread, turns),
     real |-> thread.real \cap turns]

(* A placeholder does not replace a real checkpoint, and two turns may     *)
(* have one of the same count.                                             *)
ClientCaptured(thread, e) ==
    IF e.turn \in thread.real /\ e.status # "real" THEN thread
    ELSE [thread EXCEPT !.count[e.turn] = e.count, !.real = @ \cup RealTurns(e)]

(* applyThreadDetailEvent.                                                 *)
ApplyToThread(store, thread, e, i) ==
    CASE e.kind = "user" -> [thread EXCEPT !.users = @ \cup {i}]
      [] e.kind = "started" -> thread
      [] e.kind = "delta" -> [thread EXCEPT !.text = Append(@, Delta(e, i))]
      [] e.kind = "diff" -> ClientCaptured(thread, e)
      [] e.kind = "reverted" -> ClientReverted(store, thread, e.count)
=============================================================================
