------------------------- MODULE DomainEventStream -------------------------
(***************************************************************************)
(* The orchestration engine as its subscribers see it: a durable log that  *)
(* grows by the events of one command at a time, and a hot stream          *)
(* (streamDomainEvents, a PubSub) on which the events appear one by one,   *)
(* in order, before the next command is committed.  A stream subscribed to *)
(* at some moment carries what is published from that moment on.           *)
(*                                                                         *)
(* OrchestrationEngine implements this module; the feeds of the WebSocket  *)
(* server are built on it.                                                 *)
(***************************************************************************)
EXTENDS Naturals, Sequences

CONSTANTS Batches      \* what a command can commit: sequences of events

VARIABLES log,         \* the committed events
          published    \* how many of them are out, or never will be

vars == <<log, published>>

Init == log = <<>> /\ published = 0

Commit(batch) ==
    /\ published = Len(log)
    /\ batch # <<>>
    /\ log' = log \o batch
    /\ UNCHANGED published

(* Mutation: events go out before they are committed.                      *)
PublishEagerly ==
    /\ published <= Len(log)
    /\ published' = published + 1
    /\ UNCHANGED log

PublishNext ==
    /\ published < Len(log)
    /\ published' = published + 1
    /\ UNCHANGED log

(* The process dies: what was committed and not published never will be.   *)
Restart ==
    /\ published' = Len(log)
    /\ UNCHANGED log

Next == (\E batch \in Batches : Commit(batch)) \/ PublishNext \/ Restart

Spec == Init /\ [][Next]_vars
=============================================================================
