----------------------------- MODULE CommandLog -----------------------------
(***************************************************************************)
(* What dispatch promises, without a queue, a worker, a transaction or a   *)
(* crash: a log of events that is a serial execution of commands, each     *)
(* command id decided once, and answers that only repeat that decision.    *)
(***************************************************************************)
EXTENDS Naturals, Sequences

CONSTANTS CommandIds, Commands,
          Plan(_, _)  \* the events of a command, decided after the events before it

VARIABLES log,      \* the events, each with the id of its command
          decided,  \* what was decided for each id
          answers   \* the pairs <<id, verdict>> some caller was told

vars == <<log, decided, answers>>

Undecided == [status |-> "none", sequence |-> 0]
Verdict(status, n) == [status |-> status, sequence |-> n]

Events == [i \in 1..Len(log) |-> log[i].event]

Init ==
    /\ log = <<>>
    /\ decided = [id \in CommandIds |-> Undecided]
    /\ answers = {}

(* The command takes effect: all its events, in one step, decided on the   *)
(* state the log stands for; a command that plans none is not accepted.   *)
Accept(id, c) ==
    LET events == Plan(Events, c) IN
    /\ decided[id] = Undecided
    /\ events # <<>>
    /\ log' = log \o [i \in 1..Len(events) |-> [command |-> id, event |-> events[i]]]
    /\ decided' = [decided EXCEPT ![id] = Verdict("accepted", Len(log'))]
    /\ UNCHANGED answers

(* The command is refused for good; the log does not change.               *)
Refuse(id) ==
    /\ decided[id] = Undecided
    /\ decided' = [decided EXCEPT ![id] = Verdict("rejected", Len(log))]
    /\ UNCHANGED <<log, answers>>

(* A caller is told what was decided ...                                   *)
Answer(id) ==
    /\ decided[id] # Undecided
    /\ answers' = answers \cup {<<id, decided[id]>>}
    /\ UNCHANGED <<log, decided>>

Next == \E id \in CommandIds :
            \/ \E c \in Commands : Accept(id, c)
            \/ Refuse(id)
            \/ Answer(id)

Spec == Init /\ [][Next]_vars
=============================================================================
