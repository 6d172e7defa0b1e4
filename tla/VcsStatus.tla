------------------------------ MODULE VcsStatus ------------------------------
(***************************************************************************)
(* The version control status of one repository as its watchers see it:    *)
(* VcsStatusBroadcaster between GitManager and the clients' fold of the    *)
(* stream.                                                                 *)
(*                                                                         *)
(* A status has two parts, local and remote, cached with their             *)
(* fingerprints.  Refreshes (of clients, of the reactors, and of a poller  *)
(* that runs while somebody watches) read git, change the cache, and then  *)
(* publish the part if its fingerprint has changed.  A watcher subscribes  *)
(* to the publications, takes a snapshot from the cache, reading git only  *)
(* for a local part nobody has cached, retains the poller, and follows.    *)
(*                                                                         *)
(* The parts are read, cached and published apart, and so are the          *)
(* directories: a behaviour follows one part of one directory.  A fiber    *)
(* can be preempted, or interrupted, between any two steps.  Durations are *)
(* left out: a sleeping loop may wake at any time.                         *)
(***************************************************************************)
EXTENDS Naturals, Sequences, FiniteSets

CONSTANTS Watchers,     \* subscriptions to the stream, reused when they end
          Jobs,         \* refreshes that run at the same time
          Loops,        \* fibers of the poller; a released one overlaps its successor
          Statuses,     \* what the fingerprint of a part tells apart
          None,         \* no status, no loop
          MaxChanges,   \* bound on the changes of the repository
          MaxFaults     \* bound on failing git commands and on streams interrupted
                        \* before they have their finalizer

Tasks == Watchers \cup Jobs \cup Loops

ASSUME StatusAssumption ==
    /\ Watchers \cap Jobs = {} /\ Watchers \cap Loops = {} /\ Jobs \cap Loops = {}
    /\ IsFiniteSet(Watchers)
    /\ Statuses # {} /\ None \notin Statuses /\ None \notin Loops
    /\ MaxChanges \in Nat /\ MaxFaults \in Nat

VARIABLES
    kind,         \* the part that is followed: "local" or "remote"
    repository,   \* what git would say
    cache,        \* cacheRef
    poller,       \* pollersRef: the loop and its subscriberCount
    pc,           \* where each fiber is
    value,        \* what a refresh has read
    doomed,       \* the loop a watcher's finalizer is interrupting
    mailbox,      \* publications a watcher has not delivered yet
    view,         \* the status the client of each watcher shows
    enabled,      \* automaticGitFetchInterval is not zero
    skewed,       \* the cache has changed since it was last published
    leaked,       \* streams that ended without releasing the poller
    changes, failures

work == <<pc, value>>
streams == <<mailbox, view>>
polling == <<poller, doomed, leaked>>
bounds == <<changes, failures>>
vars == <<kind, repository, cache, polling, work, streams, enabled, skewed, bounds>>

Nobody == [loop |-> None, count |-> 0]

Init ==
    /\ kind \in {"local", "remote"}
    /\ repository = CHOOSE s \in Statuses : TRUE   \* they are only told apart
    /\ cache = None
    /\ poller = Nobody
    /\ pc = [t \in Tasks |-> "idle"]
    /\ value = [t \in Tasks |-> None]
    /\ doomed = [w \in Watchers |-> None]
    /\ mailbox = [w \in Watchers |-> None]
    /\ view = [w \in Watchers |-> None]
    /\ enabled \in BOOLEAN
    /\ skewed = FALSE /\ leaked = 0 /\ changes = 0 /\ failures = 0

-----------------------------------------------------------------------------
(* The world around: the repository changes, the setting is changed.       *)

Change ==
    /\ changes < MaxChanges /\ changes' = changes + 1
    /\ repository' \in Statuses \ {repository}
    /\ UNCHANGED <<kind, cache, polling, work, streams, enabled, skewed, failures>>

SetInterval ==
    /\ kind = "remote"
    /\ enabled' = ~enabled
    /\ UNCHANGED <<kind, repository, cache, polling, work, streams, skewed, bounds>>

-----------------------------------------------------------------------------
(* Reading git and updating the cache, by refreshes and by first loads.    *)

(* A fiber leaves what it was reading for another place. *)
GoTo(t, place) ==
    /\ pc' = [pc EXCEPT ![t] = place]
    /\ value' = [value EXCEPT ![t] = None]

(* Where a refresh ends: the loop sleeps, with a longer delay after a      *)
(* failure, a caller has its answer.                                       *)
Rest(t) == IF t \in Loops THEN "sleep" ELSE "idle"

(* A refresh invalidates the result GitManager keeps for a second, and     *)
(* then looks up: git is read at some moment in between, by this fiber or  *)
(* by one that shares the lookup.  A first load that gets a kept result is *)
(* one that has read git earlier.                                          *)
ReadStatus(t) ==
    /\ pc[t] = "read"
    /\ value' = [value EXCEPT ![t] = repository]
    /\ pc' = [pc EXCEPT ![t] = "store"]
    /\ UNCHANGED <<kind, repository, cache, polling, streams, enabled, skewed, bounds>>

(* Mutation: the failure is not caught in the loop. *)
ReadFailsUncaught(t) ==
    /\ pc[t] = "read"
    /\ failures + leaked < MaxFaults /\ failures' = failures + 1
    /\ GoTo(t, IF t \in Watchers THEN "failed" ELSE "idle")
    /\ UNCHANGED <<kind, repository, cache, polling, streams, enabled, skewed, changes>>

(* A failed read ends a refresh, and fails the stream of a watcher, whose  *)
(* client then gives up.                                                   *)
ReadFails(t) ==
    /\ pc[t] = "read"
    /\ failures + leaked < MaxFaults /\ failures' = failures + 1
    /\ GoTo(t, IF t \in Watchers THEN "failed" ELSE Rest(t))
    /\ UNCHANGED <<kind, repository, cache, polling, streams, enabled, skewed, changes>>

(* A refresh updates the cache and goes on to publish a new fingerprint.   *)
StoreRefresh(t) ==
    /\ t \notin Watchers /\ pc[t] = "store"
    /\ cache' = value[t]
    /\ IF cache # value[t]
       THEN pc' = [pc EXCEPT ![t] = "publish"] /\ UNCHANGED value
       ELSE GoTo(t, Rest(t))
    /\ UNCHANGED <<kind, repository, polling, streams, enabled, skewed, bounds>>

(* The first load of a watcher updates the cache without publishing: a     *)
(* value that another fiber has put there meanwhile is changed silently.   *)
StoreFirst(w) ==
    /\ pc[w] = "store"
    /\ cache' = value[w]
    /\ skewed' = (skewed \/ cache \notin {None, value[w]})
    /\ view' = [view EXCEPT ![w] = value[w]]
    /\ GoTo(w, "retaining")
    /\ UNCHANGED <<kind, repository, polling, mailbox, enabled, bounds>>

Subscribed == {w \in Watchers : pc[w] \notin {"idle", "failed", "closing", "stopping"}}

(* Mutation: a watcher subscribes when its snapshot has gone out. *)
PublishToOpen(t) ==
    /\ pc[t] = "publish"
    /\ mailbox' = [w \in Watchers |-> IF pc[w] = "live" THEN value[t] ELSE mailbox[w]]
    /\ skewed' = (cache # value[t])
    /\ GoTo(t, Rest(t))
    /\ UNCHANGED <<kind, repository, cache, polling, view, enabled, bounds>>

Publish(t) ==
    /\ pc[t] = "publish"
    /\ mailbox' = [w \in Watchers |-> IF w \in Subscribed THEN value[t] ELSE mailbox[w]]
    /\ skewed' = (cache # value[t])
    /\ GoTo(t, Rest(t))
    /\ UNCHANGED <<kind, repository, cache, polling, view, enabled, bounds>>

(* refreshLocalStatus and refreshStatus are called by clients, after their *)
(* git actions, and by the reactors.                                       *)
Request(j) ==
    /\ pc[j] = "idle"
    /\ pc' = [pc EXCEPT ![j] = "read"]
    /\ UNCHANGED <<kind, repository, cache, polling, value, streams, enabled, skewed, bounds>>

(* A fiber that is interrupted between the cache and the publication       *)
(* leaves the change unpublished.                                          *)
Unpublished(t) == skewed \/ pc[t] = "publish"

(* The connection of a client that asked for a refresh goes away.          *)
Abandon(j) ==
    /\ pc[j] # "idle"
    /\ GoTo(j, "idle")
    /\ skewed' = Unpublished(j)
    /\ UNCHANGED <<kind, repository, cache, polling, streams, enabled, bounds>>

-----------------------------------------------------------------------------
(* The loop of the poller, which refreshes the remote part only: where the *)
(* local part is followed it is forked and interrupted, and sleeps.        *)

Wake(f) ==
    /\ kind = "remote" /\ pc[f] = "sleep"
    /\ pc' = [pc EXCEPT ![f] = "check"]
    /\ UNCHANGED <<kind, repository, cache, polling, value, streams, enabled, skewed, bounds>>

(* The setting is read at every turn. *)
CheckInterval(f) ==
    /\ pc[f] = "check"
    /\ pc' = [pc EXCEPT ![f] = IF enabled THEN "read" ELSE "sleep"]
    /\ UNCHANGED <<kind, repository, cache, polling, value, streams, enabled, skewed, bounds>>

-----------------------------------------------------------------------------
(* streamStatus, from the subscription to the finalizer.                   *)

Subscribe(w) ==
    /\ pc[w] = "idle"
    /\ pc' = [pc EXCEPT ![w] = "subscribed"]
    /\ UNCHANGED <<kind, repository, cache, polling, value, streams, enabled, skewed, bounds>>

(* getOrLoadLocalStatus loads the local part if nobody has; the remote     *)
(* part is shown as it is cached, known or not.                            *)
LookUp(w) ==
    /\ pc[w] = "subscribed"
    /\ IF kind = "local" /\ cache = None
       THEN pc' = [pc EXCEPT ![w] = "read"] /\ UNCHANGED view
       ELSE pc' = [pc EXCEPT ![w] = "retaining"] /\ view' = [view EXCEPT ![w] = cache]
    /\ UNCHANGED <<kind, repository, cache, polling, value, mailbox, enabled, skewed, bounds>>

FreeLoops == {f \in Loops : pc[f] = "idle"}

(* Mutation: the lookup and the fork are not one transaction. *)
RetainForking(w) ==
    /\ pc[w] = "retaining"
    /\ FreeLoops # {}
    /\ LET f == CHOOSE g \in FreeLoops : TRUE IN
       /\ poller' = [loop |-> f, count |-> poller.count + 1]
       /\ pc' = [pc EXCEPT ![w] = "retained", ![f] = "check"]
    /\ UNCHANGED <<kind, repository, cache, doomed, leaked, value, streams, enabled, skewed, bounds>>

(* retainRemotePoller: the first watcher forks the loop, which refreshes   *)
(* at once if the snapshot has no remote part.                             *)
Retain(w) ==
    /\ pc[w] = "retaining"
    /\ IF poller # Nobody
       THEN /\ poller' = [poller EXCEPT !.count = @ + 1]
            /\ pc' = [pc EXCEPT ![w] = "retained"]
       ELSE LET f == CHOOSE g \in FreeLoops : TRUE
                known == kind = "local" \/ view[w] # None IN
            /\ FreeLoops # {}
            /\ poller' = [loop |-> f, count |-> 1]
            /\ pc' = [pc EXCEPT ![w] = "retained", ![f] = IF known THEN "sleep" ELSE "check"]
    /\ UNCHANGED <<kind, repository, cache, doomed, leaked, value, streams, enabled, skewed, bounds>>

(* The stream runs, and from here on has its finalizer. *)
Open(w) ==
    /\ pc[w] = "retained"
    /\ pc' = [pc EXCEPT ![w] = "live"]
    /\ UNCHANGED <<kind, repository, cache, polling, value, streams, enabled, skewed, bounds>>

(* applyGitStatusStreamEvent: an update replaces its part. *)
Deliver(w) ==
    /\ pc[w] = "live" /\ mailbox[w] # None
    /\ view' = [view EXCEPT ![w] = mailbox[w]]
    /\ mailbox' = [mailbox EXCEPT ![w] = None]
    /\ UNCHANGED <<kind, repository, cache, polling, work, enabled, skewed, bounds>>

(* The client unsubscribes or its connection goes away. *)
Leave(w) ==
    /\ pc[w] \in {"subscribed", "read", "store", "retaining", "retained", "live"}
    /\ IF pc[w] = "retained"
       THEN failures + leaked < MaxFaults /\ leaked' = leaked + 1
       ELSE UNCHANGED leaked
    /\ GoTo(w, IF pc[w] = "live" THEN "closing" ELSE "idle")
    /\ mailbox' = [mailbox EXCEPT ![w] = None]
    /\ view' = [view EXCEPT ![w] = None]
    /\ UNCHANGED <<kind, repository, cache, poller, doomed, enabled, skewed, bounds>>

(* Mutation: the comparison admits the last subscription. *)
ReleaseKeeping(w) ==
    /\ pc[w] = "closing"
    /\ poller' = [poller EXCEPT !.count = @ - 1]
    /\ pc' = [pc EXCEPT ![w] = "idle"]
    /\ UNCHANGED <<kind, repository, cache, doomed, leaked, value, streams, enabled, skewed, bounds>>

(* releaseRemotePoller: the last one takes the loop out of the table and   *)
(* then interrupts it.                                                     *)
Release(w) ==
    /\ pc[w] = "closing"
    /\ IF poller.count > 1
       THEN /\ poller' = [poller EXCEPT !.count = @ - 1]
            /\ pc' = [pc EXCEPT ![w] = "idle"]
            /\ UNCHANGED doomed
       ELSE /\ poller' = Nobody
            /\ pc' = [pc EXCEPT ![w] = IF poller = Nobody THEN "idle" ELSE "stopping"]
            /\ doomed' = [doomed EXCEPT ![w] = poller.loop]
    /\ UNCHANGED <<kind, repository, cache, leaked, value, streams, enabled, skewed, bounds>>

Interrupt(w) ==
    /\ pc[w] = "stopping"
    /\ pc' = [pc EXCEPT ![w] = "idle", ![doomed[w]] = "idle"]
    /\ value' = [value EXCEPT ![doomed[w]] = None]
    /\ skewed' = Unpublished(doomed[w])
    /\ doomed' = [doomed EXCEPT ![w] = None]
    /\ UNCHANGED <<kind, repository, cache, poller, leaked, streams, enabled, bounds>>

-----------------------------------------------------------------------------
RefreshStep(t) ==
    ReadStatus(t) \/ ReadFails(t) \/ StoreRefresh(t) \/ Publish(t)

WatcherStep(w) ==
    \/ LookUp(w) \/ ReadStatus(w) \/ ReadFails(w) \/ StoreFirst(w)
    \/ Retain(w) \/ Open(w) \/ Deliver(w) \/ Release(w) \/ Interrupt(w)

LoopStep(f) == Wake(f) \/ CheckInterval(f) \/ RefreshStep(f)

Next ==
    \/ Change \/ SetInterval
    \/ \E w \in Watchers : Subscribe(w) \/ WatcherStep(w) \/ Leave(w)
    \/ \E j \in Jobs : Request(j) \/ RefreshStep(j) \/ Abandon(j)
    \/ \E f \in Loops : LoopStep(f)

Spec == Init /\ [][Next]_vars

(* Fibers that can run do, timers fire and publications are delivered.     *)
(* Nobody has to watch, to ask for a refresh, or to leave.                 *)
FairSpec ==
    /\ Spec
    /\ \A w \in Watchers : WF_vars(WatcherStep(w))
    /\ \A j \in Jobs : WF_vars(RefreshStep(j))
    /\ \A f \in Loops : WF_vars(LoopStep(f))

-----------------------------------------------------------------------------
(* Fibers are where the code can have them, and what is read, cached,      *)
(* published or shown is a status: a poller in the table has subscribers.  *)
TypeOK ==
    /\ kind \in {"local", "remote"}
    /\ repository \in Statuses
    /\ cache \in Statuses \cup {None}
    /\ poller \in {Nobody} \cup [loop : Loops, count : Nat \ {0}]
    /\ pc \in [Tasks -> {"idle", "read", "store", "publish", "check", "sleep",
                         "subscribed", "retaining", "retained", "live", "closing", "stopping",
                         "failed"}]
    /\ value \in [Tasks -> Statuses \cup {None}]
    /\ doomed \in [Watchers -> Loops \cup {None}]
    /\ mailbox \in [Watchers -> Statuses \cup {None}]
    /\ view \in [Watchers -> Statuses \cup {None}]
    /\ enabled \in BOOLEAN /\ skewed \in BOOLEAN
    /\ leaked \in Nat /\ changes \in Nat /\ failures \in Nat

Holding == {w \in Watchers : pc[w] \in {"retained", "live", "closing"}}

(* The poller is counted exactly: it is in the table with one subscription *)
(* for each stream that has retained and not released it, and for each     *)
(* that was interrupted before it had its finalizer.                       *)
CountIsExact == poller.count = Cardinality(Holding) + leaked

(* A loop runs while it is the poller of the table or while the finalizer  *)
(* that took it out is interrupting it: releases and retains that overlap  *)
(* leave no loop behind and stop none that is watched.                     *)
LoopsAreOwned ==
    \A f \in Loops :
        pc[f] # "idle" <=> (poller.loop = f \/ \E w \in Watchers : doomed[w] = f)

PollerFollowsWatchers == CountIsExact /\ LoopsAreOwned

(* What a watcher shows once its mailbox is empty is what the cache has,   *)
(* unless a publication is still on its way or the last change of the      *)
(* cache was not published in its place: overtaken by an older one,        *)
(* interrupted before it, or made by a first load.                         *)
NothingMissed ==
    \A w \in Watchers :
        pc[w] = "live" /\ mailbox[w] = None /\ view[w] # cache =>
            skewed \/ \E t \in Tasks : pc[t] = "publish"

(* While the interval is set and the repository rests, a watcher gets to   *)
(* show the remote status git has, whoever else comes and goes, whatever   *)
(* fails on the way, and whichever older read comes in late; unless a      *)
(* publication has gone missing.                                           *)
WatchersLearn ==
    \A w \in Watchers :
        <>[](pc[w] = "live" /\ enabled /\ kind = "remote") =>
            <>[](view[w] = repository \/ skewed)
=============================================================================
