-------------------------- MODULE ProjectionPipeline --------------------------
(***************************************************************************)
(* The projectors that turn the event log into tables.  Each keeps the     *)
(* sequence of the last event it applied (projection_state).  While the    *)
(* server serves, the transaction of a command appends its events and runs *)
(* every projector on them.  When it starts, bootstrap takes the           *)
(* projectors one after the other and replays to each the events after its *)
(* cursor, one transaction per event, read in pages of PageSize and up to  *)
(* Limit of them: bootstrap does not give readFromSequence a limit, and    *)
(* the default applies.                                                    *)
(*                                                                         *)
(* A new version of the server may bring a projector that has no cursor    *)
(* yet; it starts at 0.                                                    *)
(***************************************************************************)
EXTENDS Naturals, Sequences

CONSTANTS Projectors,   \* how many there are; a name is a place in their list
          Limit,        \* DEFAULT_READ_FROM_SEQUENCE_LIMIT
          PageSize,     \* READ_PAGE_SIZE
          MaxEvents,    \* bound on the length of the log
          MaxCrashes    \* bound on crashes of the server

Names == 1..Projectors

ASSUME PipelineAssumption ==
    /\ Projectors \in Nat
    /\ Limit \in Nat \ {0} /\ PageSize \in Nat \ {0}
    /\ MaxEvents \in Nat /\ MaxCrashes \in Nat

VARIABLES
    last,       \* the last sequence of the log
    cursor,     \* projection_state: lastAppliedSequence, 0 without a row
    applied,    \* the events whose effect each projector's tables hold
    installed,  \* the projectors of the version that runs
    phase,      \* down, bootstrap or serving
    next,       \* bootstrap: position in the list of projectors
    page,       \* bootstrap: events read and not yet applied
    remaining,  \* bootstrap: how many more this projector may read
    behind,     \* history: projectors once found more than Limit behind
    crashes

durable == <<last, cursor, applied>>
reading == <<next, page, remaining>>
vars == <<durable, installed, phase, reading, behind, crashes>>

Init ==
    /\ last = 0
    /\ cursor = [p \in Names |-> 0]
    /\ applied = [p \in Names |-> <<>>]
    /\ installed \in SUBSET Names
    /\ phase = "down"
    /\ next = 0 /\ page = <<>> /\ remaining = 0
    /\ behind = {} /\ crashes = 0

Smaller(m, n) == IF m < n THEN m ELSE n
Interval(from, to) == [i \in 1..(to - from) |-> from + i]

(* The bootstrap goes through the projectors of its version in the order   *)
(* of their list: the first of them after place n, or past them all.       *)
Following(n) ==
    {p \in installed \cup {Projectors + 1} :
        n < p /\ \A q \in installed : q <= n \/ p <= q}

Start ==
    /\ phase = "down"
    /\ phase' = "bootstrap"
    /\ next' \in Following(0)
    /\ page' = <<>> /\ remaining' = Limit
    /\ behind' = behind \cup {p \in installed : last - cursor[p] > Limit}
    /\ UNCHANGED <<durable, installed, crashes>>

(* Mutation: a page begins at the cursor itself.                           *)
ReadPageInclusive ==
    /\ phase = "bootstrap" /\ next \in Names
    /\ page = <<>> /\ remaining > 0 /\ cursor[next] < last
    /\ LET from == IF cursor[next] = 0 THEN 0 ELSE cursor[next] - 1
           to == Smaller(last, from + Smaller(remaining, PageSize))
       IN  /\ page' = Interval(from, to)
           /\ remaining' = remaining - (to - from)
    /\ UNCHANGED <<durable, installed, phase, next, behind, crashes>>

(* readFromSequence: the next page of events after the cursor.             *)
ReadPage ==
    /\ phase = "bootstrap" /\ next \in Names
    /\ page = <<>> /\ remaining > 0 /\ cursor[next] < last
    /\ LET to == Smaller(last, cursor[next] + Smaller(remaining, PageSize)) IN
       /\ page' = Interval(cursor[next], to)
       /\ remaining' = remaining - (to - cursor[next])
    /\ UNCHANGED <<durable, installed, phase, next, behind, crashes>>

(* runProjectorForEvent: the effect and the cursor in one transaction.     *)
Replay ==
    /\ phase = "bootstrap" /\ page # <<>>
    /\ cursor' = [cursor EXCEPT ![next] = Head(page)]
    /\ applied' = [applied EXCEPT ![next] = Append(@, Head(page))]
    /\ page' = Tail(page)
    /\ UNCHANGED <<last, installed, phase, next, remaining, behind, crashes>>

(* Mutations: the replay of a projector ends only at the limit; the limit  *)
(* is not renewed for the next projector.                                  *)
StopOnlyAtLimit ==
    /\ phase = "bootstrap" /\ next \in Names
    /\ page = <<>> /\ remaining = 0
    /\ next' \in Following(next)
    /\ remaining' = Limit
    /\ UNCHANGED <<durable, installed, phase, page, behind, crashes>>
KeepRemaining ==
    /\ phase = "bootstrap" /\ next \in Names
    /\ page = <<>> /\ (remaining = 0 \/ cursor[next] = last)
    /\ next' \in Following(next)
    /\ UNCHANGED <<durable, installed, phase, page, remaining, behind, crashes>>

(* No more events, or the limit reached: on to the next projector.         *)
NextProjector ==
    /\ phase = "bootstrap" /\ next \in Names
    /\ page = <<>> /\ (remaining = 0 \/ cursor[next] = last)
    /\ next' \in Following(next)
    /\ remaining' = Limit
    /\ UNCHANGED <<durable, installed, phase, page, behind, crashes>>

Serve ==
    /\ phase = "bootstrap" /\ next = Projectors + 1
    /\ phase' = "serving"
    /\ next' = 0 /\ page' = <<>> /\ remaining' = 0
    /\ UNCHANGED <<durable, installed, behind, crashes>>

(* A command commits n events: appended and projected in one transaction.  *)
Project(n) ==
    /\ phase = "serving"
    /\ last + n <= MaxEvents
    /\ last' = last + n
    /\ cursor' = [p \in Names |-> IF p \in installed THEN last + n ELSE cursor[p]]
    /\ applied' = [p \in Names |->
                      IF p \in installed THEN applied[p] \o Interval(last, last + n)
                      ELSE applied[p]]
    /\ UNCHANGED <<installed, phase, reading, behind, crashes>>

(* The process stops, in the middle of a bootstrap as well.                *)
Crash ==
    /\ phase # "down"
    /\ crashes < MaxCrashes
    /\ crashes' = crashes + 1
    /\ phase' = "down"
    /\ next' = 0 /\ page' = <<>> /\ remaining' = 0
    /\ UNCHANGED <<durable, installed, behind>>

(* The next start is of a version that may have more projectors.           *)
Upgrade ==
    /\ phase = "down"
    /\ \E more \in SUBSET Names : installed' = installed \cup more
    /\ UNCHANGED <<durable, phase, reading, behind, crashes>>

Bootstrap == Start \/ ReadPage \/ Replay \/ NextProjector \/ Serve

Next ==
    \/ Bootstrap
    \/ \E n \in 1..2 : Project(n)
    \/ Crash
    \/ Upgrade

Spec == Init /\ [][Next]_vars

(* A stopped server is started again and its bootstrap runs.               *)
FairSpec == Spec /\ WF_vars(Bootstrap)

-----------------------------------------------------------------------------
(* The cursors and pages are sequences of the log, and the bootstrap is at *)
(* a projector of the list or past its end.                                *)
TypeOK ==
    /\ last \in Nat
    /\ cursor \in [Names -> Nat]
    /\ applied \in [Names -> Seq(Nat)]
    /\ installed \subseteq Names
    /\ phase \in {"down", "bootstrap", "serving"}
    /\ next \in 0..(Projectors + 1)
    /\ page \in Seq(Nat)
    /\ remaining \in Nat
    /\ behind \subseteq Names
    /\ crashes \in Nat

(* However often the server stops, in a transaction or in a bootstrap, no  *)
(* projector applies an event twice or out of order, and its cursor is the *)
(* last event whose effect its tables hold.                                *)
AppliedOnceInOrder ==
    \A p \in Names :
        /\ \A i, j \in DOMAIN applied[p] : i < j => applied[p][i] < applied[p][j]
        /\ cursor[p] = IF applied[p] = <<>> THEN 0 ELSE applied[p][Len(applied[p])]

(* When the server serves, every projector holds the whole log, unless it  *)
(* was once more than Limit events behind when the server started.  This   *)
(* is what the engine relies on when it takes its read model from the      *)
(* tables.                                                                 *)
Level(p) == applied[p] = Interval(0, last)
LevelWithinLimit == phase = "serving" => \A p \in installed \ behind : Level(p)

(* What the comment on bootstrap says ("Bootstrap projections by replaying *)
(* persisted events"), without exception.                                  *)
LevelWhenServing == phase = "serving" => \A p \in installed : Level(p)

(* The server gets to serve, whatever is left to replay.                   *)
Serves == []<>(phase = "serving")
=============================================================================
