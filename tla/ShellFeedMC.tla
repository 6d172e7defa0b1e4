----------------------------- MODULE ShellFeedMC -----------------------------
(* Small instances of ShellFeed for TLC.                                   *)
EXTENDS ShellFeed

CONSTANTS r1, r2,
          Stamps   \* the times commands are stamped with

ShellEvents == [row : Rows, kind : {"changed", "archived", "unarchived"}, at : Stamps]

(* Single events, the two of a turn start, and the removals of a project   *)
(* deleted with its threads.                                               *)
ShellBatches ==
    {<<e>> : e \in ShellEvents}
    \cup {<<e, e>> : e \in {x \in ShellEvents : x.kind = "changed"}}
    \cup {<< [row |-> r1, kind |-> "archived", at |-> t],
             [row |-> r2, kind |-> "archived", at |-> t] >> : t \in Stamps}
=============================================================================
