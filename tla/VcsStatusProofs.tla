--------------------------- MODULE VcsStatusProofs ---------------------------
(***************************************************************************)
(* Theorems about VcsStatus for any number of watchers, refreshes, loops   *)
(* and statuses: the types, that the poller is counted exactly and no loop *)
(* is left behind, and that no watcher misses a publication.               *)
(***************************************************************************)
EXTENDS VcsStatus, FiniteSetTheorems, TLAPS

-----------------------------------------------------------------------------
(***************************************************************************)
(* Type correctness.                                                       *)
(***************************************************************************)
LEMMA InitType == Init => TypeOK
<1> SUFFICES ASSUME Init PROVE TypeOK
  OBVIOUS
<1>1. repository \in Statuses
  BY StatusAssumption DEF Init
<1> QED
  BY <1>1 DEF Init, TypeOK, Nobody

(* A fiber that is told where to go keeps the types. *)
LEMMA GoToType ==
    ASSUME TypeOK, NEW t \in Tasks,
           NEW place \in {"idle", "retaining", "failed", "sleep", "closing"}, GoTo(t, place)
    PROVE  /\ pc' \in [Tasks -> {"idle", "read", "store", "publish", "check", "sleep",
                         "subscribed", "retaining", "retained", "live", "closing", "stopping",
                         "failed"}]
           /\ value' \in [Tasks -> Statuses \cup {None}]
BY DEF GoTo, TypeOK

LEMMA RefreshType ==
    ASSUME TypeOK, NEW t \in Tasks, RefreshStep(t)
    PROVE  TypeOK'
<1> USE DEF bounds, polling, streams
<1>1. CASE ReadStatus(t)
  BY <1>1 DEF ReadStatus, TypeOK
<1>2. CASE ReadFails(t)
  <2>1. (IF t \in Watchers THEN "failed" ELSE Rest(t)) \in {"failed", "sleep", "idle"}
    BY DEF Rest
  <2>2. GoTo(t, IF t \in Watchers THEN "failed" ELSE Rest(t))
    BY <1>2 DEF ReadFails
  <2> QED
    BY <1>2, <2>1, <2>2, GoToType DEF ReadFails, TypeOK
<1>3. CASE StoreRefresh(t)
  <2>1. CASE cache # value[t]
    BY <1>3, <2>1 DEF StoreRefresh, TypeOK
  <2>2. CASE cache = value[t]
    <3>1. Rest(t) \in {"sleep", "idle"} /\ GoTo(t, Rest(t))
      BY <1>3, <2>2 DEF StoreRefresh, Rest
    <3> QED
      BY <1>3, <3>1, GoToType DEF StoreRefresh, TypeOK
  <2> QED
    BY <2>1, <2>2
<1>4. CASE Publish(t)
  <2>1. Rest(t) \in {"sleep", "idle"} /\ GoTo(t, Rest(t))
    BY <1>4 DEF Publish, Rest
  <2>2. mailbox' \in [Watchers -> Statuses \cup {None}]
    BY <1>4 DEF Publish, TypeOK
  <2> QED
    BY <1>4, <2>1, <2>2, GoToType DEF Publish, TypeOK
<1> QED
  BY <1>1, <1>2, <1>3, <1>4 DEF RefreshStep

LEMMA WatcherType ==
    ASSUME TypeOK, NEW w \in Watchers, Subscribe(w) \/ WatcherStep(w) \/ Leave(w)
    PROVE  TypeOK'
<1> USE DEF bounds, polling, streams, work
<1>0. w \in Tasks
  BY DEF Tasks
<1>1. CASE Subscribe(w)
  BY <1>0, <1>1 DEF Subscribe, TypeOK
<1>2. CASE LookUp(w)
  BY <1>0, <1>2 DEF LookUp, TypeOK
<1>3. CASE ReadStatus(w) \/ ReadFails(w)
  BY <1>0, <1>3, RefreshType DEF RefreshStep
<1>4. CASE StoreFirst(w)
  <2>1. GoTo(w, "retaining")
    BY <1>4 DEF StoreFirst
  <2>2. skewed' \in BOOLEAN /\ view' \in [Watchers -> Statuses \cup {None}]
    BY <1>0, <1>4 DEF StoreFirst, TypeOK
  <2> QED
    BY <1>0, <1>4, <2>1, <2>2, GoToType DEF StoreFirst, TypeOK
<1>5. CASE Retain(w)
  <2>1. CASE poller # Nobody
    BY <1>0, <1>5, <2>1 DEF Retain, TypeOK
  <2>2. CASE poller = Nobody
    <3> DEFINE f == CHOOSE g \in FreeLoops : TRUE
    <3>1. f \in Loops
      BY <1>5, <2>2 DEF Retain, FreeLoops
    <3>2. poller' = [loop |-> f, count |-> 1]
      BY <1>5, <2>2 DEF Retain
    <3>3. poller' \in [loop : Loops, count : Nat \ {0}]
      BY <3>1, <3>2
    <3>4. PICK start \in {"sleep", "check"} :
            pc' = [pc EXCEPT ![w] = "retained", ![f] = start]
      BY <1>5, <2>2 DEF Retain
    <3>5. pc' \in [Tasks -> {"idle", "read", "store", "publish", "check", "sleep",
                         "subscribed", "retaining", "retained", "live", "closing", "stopping",
                         "failed"}]
      BY <1>0, <3>1, <3>4 DEF TypeOK
    <3> QED
      BY <1>5, <3>3, <3>5 DEF Retain, TypeOK
  <2> QED
    BY <2>1, <2>2
<1>6. CASE Open(w)
  BY <1>0, <1>6 DEF Open, TypeOK
<1>7. CASE Deliver(w)
  BY <1>0, <1>7 DEF Deliver, TypeOK
<1>8. CASE Release(w)
  <2>1. CASE poller.count > 1
    <3>1. poller \in [loop : Loops, count : Nat \ {0}]
      BY <2>1 DEF TypeOK, Nobody
    <3>2. poller' \in [loop : Loops, count : Nat \ {0}]
      BY <1>8, <2>1, <3>1 DEF Release
    <3> QED
      BY <1>0, <1>8, <2>1, <3>2 DEF Release, TypeOK
  <2>2. CASE ~(poller.count > 1)
    <3>1. poller.loop \in Loops \cup {None}
      BY DEF TypeOK, Nobody
    <3>2. pc' \in [Tasks -> {"idle", "read", "store", "publish", "check", "sleep",
                         "subscribed", "retaining", "retained", "live", "closing", "stopping",
                         "failed"}]
      BY <1>0, <1>8, <2>2 DEF Release, TypeOK
    <3>3. doomed' \in [Watchers -> Loops \cup {None}] /\ poller' = Nobody
      BY <1>8, <2>2, <3>1 DEF Release, TypeOK
    <3> QED
      BY <1>8, <3>2, <3>3 DEF Release, TypeOK
  <2> QED
    BY <2>1, <2>2
<1>9. CASE Interrupt(w)
  <2>1. skewed' \in BOOLEAN
    BY <1>9 DEF Interrupt, Unpublished, TypeOK
  <2> QED
    BY <1>0, <1>9, <2>1 DEF Interrupt, TypeOK
<1>10. CASE Leave(w)
  <2>1. (IF pc[w] = "live" THEN "closing" ELSE "idle") \in {"closing", "idle"}
        /\ GoTo(w, IF pc[w] = "live" THEN "closing" ELSE "idle")
    BY <1>10 DEF Leave
  <2>2. leaked' \in Nat
    BY <1>10 DEF Leave, TypeOK
  <2> QED
    BY <1>0, <1>10, <2>1, <2>2, GoToType DEF Leave, TypeOK
<1> QED
  BY <1>1, <1>2, <1>3, <1>4, <1>5, <1>6, <1>7, <1>8, <1>9, <1>10 DEF WatcherStep

LEMMA NextType == TypeOK /\ [Next]_vars => TypeOK'
<1> SUFFICES ASSUME TypeOK, [Next]_vars PROVE TypeOK'
  OBVIOUS
<1> USE DEF bounds, polling, streams, work
<1>1. CASE Change \/ SetInterval
  <2>1. CASE Change
    BY <2>1 DEF Change, TypeOK
  <2>2. CASE SetInterval
    <3>1. enabled' \in BOOLEAN
      BY <2>2, Zenon DEF SetInterval
    <3> QED
      BY <2>2, <3>1 DEF SetInterval, TypeOK
  <2> QED
    BY <1>1, <2>1, <2>2
<1>2. CASE \E w \in Watchers : Subscribe(w) \/ WatcherStep(w) \/ Leave(w)
  BY <1>2, WatcherType
<1>3. ASSUME NEW j \in Jobs, Request(j) \/ RefreshStep(j) \/ Abandon(j)
      PROVE  TypeOK'
  <2>0. j \in Tasks
    BY DEF Tasks
  <2>1. CASE Request(j)
    BY <2>0, <2>1 DEF Request, TypeOK
  <2>2. CASE RefreshStep(j)
    BY <2>0, <2>2, RefreshType
  <2>3. CASE Abandon(j)
    <3>1. GoTo(j, "idle") /\ skewed' \in BOOLEAN
      BY <2>3 DEF Abandon, Unpublished, TypeOK
    <3> QED
      BY <2>0, <2>3, <3>1, GoToType DEF Abandon, TypeOK
  <2> QED
    BY <1>3, <2>1, <2>2, <2>3
<1>4. ASSUME NEW f \in Loops, LoopStep(f)
      PROVE  TypeOK'
  <2>0. f \in Tasks
    BY DEF Tasks
  <2>1. CASE Wake(f) \/ CheckInterval(f)
    BY <2>0, <2>1 DEF Wake, CheckInterval, TypeOK
  <2> QED
    BY <1>4, <2>0, <2>1, RefreshType DEF LoopStep
<1>5. CASE UNCHANGED vars
  BY <1>5 DEF vars, TypeOK
<1> QED
  BY <1>1, <1>2, <1>3, <1>4, <1>5 DEF Next

(* The variables keep their types; a poller in the table always has a      *)
(* subscriber.                                                             *)
THEOREM TypeCorrectness == Spec => []TypeOK
<1> QED
  BY InitType, NextType, PTL DEF Spec

-----------------------------------------------------------------------------
(***************************************************************************)
(* The poller.  A finalizer that interrupts a loop is the only one that    *)
(* does, and not of the loop in the table.                                 *)
(***************************************************************************)
OneOwner ==
    /\ \A w \in Watchers : pc[w] = "stopping" <=> doomed[w] # None
    /\ \A w \in Watchers : doomed[w] # None => doomed[w] # poller.loop
    /\ \A v, w \in Watchers : v # w /\ doomed[v] # None => doomed[v] # doomed[w]

PollerInv == TypeOK /\ CountIsExact /\ LoopsAreOwned /\ OneOwner

LEMMA HoldingCounts ==
    /\ IsFiniteSet(Holding) /\ Cardinality(Holding) \in Nat
    /\ \A w \in Holding : Cardinality(Holding) \in Nat \ {0}
<1>1. IsFiniteSet(Holding) /\ Cardinality(Holding) \in Nat
  BY StatusAssumption, FS_Subset, FS_CardinalityType DEF Holding
<1>2. Holding # {} => Cardinality(Holding) # 0
  BY <1>1, FS_EmptySet
<1> QED
  BY <1>1, <1>2

(* What the poller's invariant is about only changes when a watcher        *)
(* retains, leaves, releases or interrupts, or a loop ends.                *)
LEMMA PollerUnmoved ==
    ASSUME PollerInv, TypeOK', UNCHANGED polling,
           \A w \in Watchers : pc'[w] = pc[w] \/
               (pc[w] \notin {"retained", "live", "closing", "stopping"} /\
                pc'[w] \notin {"retained", "live", "closing", "stopping"}) \/
               (pc[w] = "retained" /\ pc'[w] = "live") \/ (pc[w] = "live" /\ pc'[w] = "closing"),
           \A f \in Loops : pc'[f] = "idle" <=> pc[f] = "idle"
    PROVE  PollerInv'
<1>1. Holding' = Holding
  BY DEF Holding
<1>2. CountIsExact'
  BY <1>1 DEF PollerInv, CountIsExact, polling
<1>3. LoopsAreOwned' /\ OneOwner'
  BY DEF PollerInv, LoopsAreOwned, OneOwner, polling
<1> QED
  BY <1>2, <1>3 DEF PollerInv

LEMMA RefreshPoller ==
    ASSUME PollerInv, NEW t \in Tasks, t \notin Watchers, RefreshStep(t), TypeOK'
    PROVE  PollerInv'
<1>1. UNCHANGED polling
  BY DEF RefreshStep, ReadStatus, ReadFails, StoreRefresh, Publish
<1>2. \A u \in Tasks : u # t => pc'[u] = pc[u]
  BY DEF PollerInv, TypeOK, RefreshStep, ReadStatus, ReadFails, StoreRefresh, Publish, GoTo
<1>3. pc[t] # "idle" /\ (t \in Loops => pc'[t] # "idle")
  BY DEF PollerInv, TypeOK, RefreshStep, ReadStatus, ReadFails, StoreRefresh, Publish, GoTo, Rest
<1> QED
  BY <1>1, <1>2, <1>3, PollerUnmoved DEF Tasks

LEMMA RetainPoller ==
    ASSUME PollerInv, NEW w \in Watchers, Retain(w), TypeOK'
    PROVE  PollerInv'
<1>0. w \in Tasks /\ w \notin Loops /\ w \notin Holding
  BY StatusAssumption DEF Tasks, Retain, Holding
<1>1. CASE poller # Nobody
  <2>1. pc' = [pc EXCEPT ![w] = "retained"] /\ UNCHANGED <<doomed, leaked>>
        /\ poller' = [poller EXCEPT !.count = @ + 1]
    BY <1>1 DEF Retain
  <2>2. Holding' = Holding \cup {w}
    BY <1>0, <2>1 DEF Holding, PollerInv, TypeOK
  <2>3. Cardinality(Holding') = Cardinality(Holding) + 1
    BY <1>0, <2>2, HoldingCounts, FS_AddElement
  <2>4. poller' .count = poller.count + 1 /\ poller'.loop = poller.loop
    BY <2>1, <1>1 DEF PollerInv, TypeOK
  <2>5. CountIsExact'
    BY <2>1, <2>3, <2>4, HoldingCounts DEF CountIsExact, PollerInv, TypeOK
  <2>6. LoopsAreOwned' /\ OneOwner'
    BY <1>0, <2>1, <2>4 DEF LoopsAreOwned, OneOwner, PollerInv, TypeOK, Retain, Tasks
  <2> QED
    BY <2>5, <2>6 DEF PollerInv
<1>2. CASE poller = Nobody
  <2> DEFINE f == CHOOSE g \in FreeLoops : TRUE
  <2>1. f \in Loops /\ pc[f] = "idle" /\ f \in Tasks /\ f \notin Watchers /\ f # None
    BY <1>2, StatusAssumption DEF Retain, FreeLoops, Tasks
  <2>2. PICK start \in {"sleep", "check"} :
          pc' = [pc EXCEPT ![w] = "retained", ![f] = start]
    BY <1>2 DEF Retain
  <2>3. poller' = [loop |-> f, count |-> 1] /\ UNCHANGED <<doomed, leaked>>
    BY <1>2 DEF Retain
  <2> HIDE DEF f
  <2>4. \A u \in Tasks : pc'[u] = IF u = w THEN "retained" ELSE IF u = f THEN start ELSE pc[u]
    BY <1>0, <2>1, <2>2 DEF PollerInv, TypeOK
  <2>5. Holding' = Holding \cup {w}
    BY <1>0, <2>1, <2>4 DEF Holding, Tasks
  <2>6. Cardinality(Holding') = Cardinality(Holding) + 1
    BY <1>0, <2>5, HoldingCounts, FS_AddElement
  <2>7. CountIsExact'
    BY <1>2, <2>3, <2>6, HoldingCounts DEF CountIsExact, PollerInv, TypeOK, Nobody
  <2>8. \A v \in Watchers : doomed[v] # f
    BY <2>1 DEF PollerInv, LoopsAreOwned
  <2>9. LoopsAreOwned'
    <3> SUFFICES ASSUME NEW g \in Loops
                 PROVE  pc'[g] # "idle" <=> (poller'.loop = g \/ \E v \in Watchers : doomed'[v] = g)
      BY DEF LoopsAreOwned
    <3>1. g # w /\ g \in Tasks
      BY <1>0 DEF Tasks
    <3>2. pc[g] # "idle" <=> \E v \in Watchers : doomed[v] = g
      BY <1>2, StatusAssumption DEF PollerInv, LoopsAreOwned, Nobody
    <3> QED
      BY <2>3, <2>4, <3>1, <3>2
  <2>10. OneOwner'
    BY <1>0, <2>1, <2>3, <2>4, <2>8 DEF OneOwner, PollerInv, Retain, Tasks
  <2> QED
    BY <2>7, <2>9, <2>10 DEF PollerInv
<1> QED
  BY <1>1, <1>2

LEMMA ReleasePoller ==
    ASSUME PollerInv, NEW w \in Watchers, Release(w), TypeOK'
    PROVE  PollerInv'
<1>0. w \in Tasks /\ w \notin Loops /\ w \in Holding
  BY StatusAssumption DEF Tasks, Release, Holding
<1>1. poller \in [loop : Loops, count : Nat \ {0}] /\ poller # Nobody
  <2>1. poller.count # 0
    BY <1>0, HoldingCounts DEF PollerInv, CountIsExact, TypeOK
  <2> QED
    BY <2>1 DEF PollerInv, TypeOK, Nobody
<1>2. \A u \in Tasks : u # w => pc'[u] = pc[u]
  BY <1>0 DEF Release, PollerInv, TypeOK
<1>3. pc'[w] \in {"idle", "stopping"} /\ leaked' = leaked
  BY <1>0 DEF Release, PollerInv, TypeOK
<1>4. Holding' = Holding \ {w}
  BY <1>0, <1>2, <1>3 DEF Holding, Tasks
<1>5. Cardinality(Holding') = Cardinality(Holding) - 1
  BY <1>0, <1>4, HoldingCounts, FS_RemoveElement
<1>6. CASE poller.count > 1
  <2>1. poller'.count = poller.count - 1 /\ poller'.loop = poller.loop
        /\ doomed' = doomed /\ pc'[w] = "idle"
    BY <1>0, <1>1, <1>6 DEF Release, PollerInv, TypeOK
  <2>2. CountIsExact'
    BY <1>0, <1>1, <1>3, <1>5, <2>1, HoldingCounts DEF CountIsExact, PollerInv, TypeOK
  <2>3. pc[w] = "closing"
    BY DEF Release
  <2>4. LoopsAreOwned' /\ OneOwner'
    BY <1>0, <1>2, <2>1, <2>3 DEF LoopsAreOwned, OneOwner, PollerInv, Tasks
  <2> QED
    BY <2>2, <2>4 DEF PollerInv
<1>7. CASE ~(poller.count > 1)
  <2>1. poller' = Nobody /\ pc'[w] = "stopping"
        /\ doomed' = [doomed EXCEPT ![w] = poller.loop]
    BY <1>0, <1>1, <1>7 DEF Release, PollerInv, TypeOK
  <2>2. CountIsExact'
    BY <1>0, <1>1, <1>3, <1>5, <1>7, <2>1, HoldingCounts DEF CountIsExact, PollerInv, TypeOK, Nobody
  <2>3. poller.loop \in Loops /\ poller.loop # None /\ poller'.loop = None
    BY <1>1, <2>1, StatusAssumption DEF Nobody
  <2>4. pc[w] = "closing" /\ doomed[w] = None
    BY DEF Release, PollerInv, OneOwner
  <2>5. \A v \in Watchers : doomed'[v] = IF v = w THEN poller.loop ELSE doomed[v]
    BY <2>1 DEF PollerInv, TypeOK
  <2>6. LoopsAreOwned'
    <3> SUFFICES ASSUME NEW g \in Loops
                 PROVE  pc'[g] # "idle" <=> (poller'.loop = g \/ \E v \in Watchers : doomed'[v] = g)
      BY DEF LoopsAreOwned
    <3>1. g # w /\ g \in Tasks /\ g # None
      BY <1>0, StatusAssumption DEF Tasks
    <3>2. pc'[g] # "idle" <=> (poller.loop = g \/ \E v \in Watchers : doomed[v] = g)
      BY <1>2, <3>1 DEF PollerInv, LoopsAreOwned
    <3> QED
      BY <2>3, <2>4, <2>5, <3>1, <3>2
  <2>7. OneOwner'
    BY <1>0, <1>2, <2>1, <2>3, <2>4, <2>5 DEF OneOwner, PollerInv, Tasks
  <2> QED
    BY <2>2, <2>6, <2>7 DEF PollerInv
<1> QED
  BY <1>6, <1>7

LEMMA InterruptPoller ==
    ASSUME PollerInv, NEW w \in Watchers, Interrupt(w), TypeOK'
    PROVE  PollerInv'
<1> DEFINE f == doomed[w]
<1>0. w \in Tasks /\ w \notin Loops /\ pc[w] = "stopping"
  BY StatusAssumption DEF Tasks, Interrupt
<1>1. f \in Loops /\ f \in Tasks /\ f \notin Watchers /\ f # None /\ f # poller.loop
  BY <1>0, StatusAssumption DEF PollerInv, OneOwner, TypeOK, Tasks
<1>2. /\ pc' = [pc EXCEPT ![w] = "idle", ![f] = "idle"]
      /\ doomed' = [doomed EXCEPT ![w] = None]
      /\ poller' = poller /\ leaked' = leaked
  BY DEF Interrupt
<1> HIDE DEF f
<1>3. \A u \in Tasks : pc'[u] = IF u \in {w, f} THEN "idle" ELSE pc[u]
  BY <1>0, <1>1, <1>2 DEF PollerInv, TypeOK
<1>4. \A v \in Watchers : doomed'[v] = IF v = w THEN None ELSE doomed[v]
  BY <1>2 DEF PollerInv, TypeOK
<1>5. Holding' = Holding
  BY <1>0, <1>1, <1>3 DEF Holding, Tasks
<1>6. CountIsExact'
  BY <1>2, <1>5 DEF CountIsExact, PollerInv
<1>7. \A v \in Watchers : v # w => doomed[v] # f
  BY <1>1 DEF PollerInv, OneOwner, f
<1>8. LoopsAreOwned'
  <2> SUFFICES ASSUME NEW g \in Loops
               PROVE  pc'[g] # "idle" <=> (poller'.loop = g \/ \E v \in Watchers : doomed'[v] = g)
    BY DEF LoopsAreOwned
  <2>1. g # w /\ g \in Tasks /\ g # None
    BY <1>0, StatusAssumption DEF Tasks
  <2>2. pc[g] # "idle" <=> (poller.loop = g \/ \E v \in Watchers : doomed[v] = g)
    BY DEF PollerInv, LoopsAreOwned
  <2>3. CASE g = f
    BY <1>1, <1>2, <1>3, <1>4, <1>7, <2>1, <2>3
  <2>4. CASE g # f
    BY <1>2, <1>3, <1>4, <2>1, <2>2, <2>4 DEF f
  <2> QED
    BY <2>3, <2>4
<1>9. \A v \in Watchers : pc'[v] = IF v = w THEN "idle" ELSE pc[v]
  BY <1>1, <1>3 DEF Tasks
<1>10. OneOwner'
  <2>1. ASSUME NEW v \in Watchers PROVE pc'[v] = "stopping" <=> doomed'[v] # None
    BY <1>4, <1>9 DEF OneOwner, PollerInv
  <2>2. ASSUME NEW v \in Watchers, doomed'[v] # None PROVE doomed'[v] # poller'.loop
    BY <1>2, <1>4, <2>2 DEF OneOwner, PollerInv
  <2>3. ASSUME NEW u \in Watchers, NEW v \in Watchers, u # v, doomed'[u] # None
        PROVE  doomed'[u] # doomed'[v]
    <3>1. u # w /\ doomed'[u] = doomed[u] /\ doomed[u] # None
      BY <1>4, <2>3
    <3>2. doomed[u] # doomed[v]
      BY <2>3, <3>1 DEF OneOwner, PollerInv
    <3> QED
      BY <1>4, <2>3, <3>1, <3>2
  <2> QED
    BY <2>1, <2>2, <2>3 DEF OneOwner
<1> QED
  BY <1>6, <1>8, <1>10 DEF PollerInv

LEMMA LeavePoller ==
    ASSUME PollerInv, NEW w \in Watchers, Leave(w), TypeOK'
    PROVE  PollerInv'
<1>0. w \in Tasks /\ w \notin Loops
  BY StatusAssumption DEF Tasks
<1>1. \A u \in Tasks : u # w => pc'[u] = pc[u]
  BY <1>0 DEF Leave, GoTo, PollerInv, TypeOK
<1>2. UNCHANGED <<poller, doomed>>
  BY DEF Leave
<1>3. CASE pc[w] = "retained"
  <2>1. pc'[w] = "idle" /\ leaked' = leaked + 1
    BY <1>0, <1>3 DEF Leave, GoTo, PollerInv, TypeOK
  <2>2. w \in Holding /\ Holding' = Holding \ {w}
    BY <1>0, <1>1, <1>3, <2>1 DEF Holding, Tasks
  <2>3. Cardinality(Holding') = Cardinality(Holding) - 1
    BY <2>2, HoldingCounts, FS_RemoveElement
  <2>4. CountIsExact'
    BY <1>2, <2>1, <2>2, <2>3, HoldingCounts DEF CountIsExact, PollerInv, TypeOK
  <2>5. LoopsAreOwned' /\ OneOwner'
    BY <1>0, <1>1, <1>2, <1>3, <2>1 DEF LoopsAreOwned, OneOwner, PollerInv, Tasks
  <2> QED
    BY <2>4, <2>5 DEF PollerInv
<1>4. CASE pc[w] # "retained"
  <2>1. UNCHANGED polling
    BY <1>2, <1>4 DEF Leave, polling
  <2>2. pc'[w] = IF pc[w] = "live" THEN "closing" ELSE "idle"
    BY <1>0 DEF Leave, GoTo, PollerInv, TypeOK
  <2>3. pc[w] \in {"subscribed", "read", "store", "retaining", "live"}
    BY <1>4 DEF Leave
  <2> QED
    BY <1>0, <1>1, <2>1, <2>2, <2>3, PollerUnmoved DEF Tasks
<1> QED
  BY <1>3, <1>4

LEMMA WatcherPoller ==
    ASSUME PollerInv, NEW w \in Watchers, Subscribe(w) \/ WatcherStep(w) \/ Leave(w), TypeOK'
    PROVE  PollerInv'
<1>0. w \in Tasks /\ w \notin Loops
  BY StatusAssumption DEF Tasks
<1>1. CASE Subscribe(w) \/ LookUp(w) \/ ReadStatus(w) \/ ReadFails(w) \/ StoreFirst(w)
           \/ Open(w) \/ Deliver(w)
  <2>1. UNCHANGED polling
    BY <1>1 DEF Subscribe, LookUp, ReadStatus, ReadFails, StoreFirst, Open, Deliver
  <2>2. \A u \in Tasks : u # w => pc'[u] = pc[u]
    BY <1>0, <1>1 DEF Subscribe, LookUp, ReadStatus, ReadFails, StoreFirst, Open, Deliver, GoTo,
                      work, PollerInv, TypeOK
  <2>3. \/ pc'[w] = pc[w]
        \/ pc[w] = "retained" /\ pc'[w] = "live"
        \/ /\ pc[w] \in {"idle", "subscribed", "read", "store"}
           /\ pc'[w] \in {"subscribed", "read", "retaining", "store", "failed"}
    BY <1>0, <1>1 DEF Subscribe, LookUp, ReadStatus, ReadFails, StoreFirst, Open, Deliver, GoTo,
                      work, PollerInv, TypeOK
  <2> QED
    BY <1>0, <2>1, <2>2, <2>3, PollerUnmoved DEF Tasks
<1>2. CASE Retain(w)
  BY <1>2, RetainPoller
<1>3. CASE Release(w)
  BY <1>3, ReleasePoller
<1>4. CASE Interrupt(w)
  BY <1>4, InterruptPoller
<1>5. CASE Leave(w)
  BY <1>5, LeavePoller
<1> QED
  BY <1>1, <1>2, <1>3, <1>4, <1>5 DEF WatcherStep

LEMMA InitPoller == Init => PollerInv
<1> SUFFICES ASSUME Init PROVE PollerInv
  OBVIOUS
<1>1. Holding = {}
  BY DEF Init, Holding, Tasks
<1>2. CountIsExact
  BY <1>1, FS_EmptySet DEF Init, CountIsExact, Nobody
<1>3. LoopsAreOwned /\ OneOwner
  BY StatusAssumption DEF Init, LoopsAreOwned, OneOwner, Nobody, Tasks
<1> QED
  BY <1>2, <1>3, InitType DEF PollerInv

LEMMA NextPoller == PollerInv /\ [Next]_vars => PollerInv'
<1> SUFFICES ASSUME PollerInv, [Next]_vars PROVE PollerInv'
  OBVIOUS
<1>0. TypeOK'
  BY NextType DEF PollerInv
<1>1. CASE Change \/ SetInterval \/ UNCHANGED vars
  <2>1. UNCHANGED polling /\ UNCHANGED pc
    BY <1>1 DEF Change, SetInterval, vars, work
  <2> QED
    BY <1>0, <2>1, PollerUnmoved
<1>2. CASE \E w \in Watchers : Subscribe(w) \/ WatcherStep(w) \/ Leave(w)
  BY <1>0, <1>2, WatcherPoller
<1>3. ASSUME NEW j \in Jobs, Request(j) \/ RefreshStep(j) \/ Abandon(j)
      PROVE  PollerInv'
  <2>0. j \in Tasks /\ j \notin Watchers /\ j \notin Loops
    BY StatusAssumption DEF Tasks
  <2>1. CASE Request(j) \/ Abandon(j)
    <3>1. UNCHANGED polling /\ \A u \in Tasks : u # j => pc'[u] = pc[u]
      BY <2>0, <2>1 DEF Request, Abandon, GoTo, PollerInv, TypeOK
    <3> QED
      BY <1>0, <2>0, <3>1, PollerUnmoved DEF Tasks
  <2> QED
    BY <1>0, <1>3, <2>0, <2>1, RefreshPoller
<1>4. ASSUME NEW f \in Loops, LoopStep(f)
      PROVE  PollerInv'
  <2>0. f \in Tasks /\ f \notin Watchers
    BY StatusAssumption DEF Tasks
  <2>1. CASE Wake(f) \/ CheckInterval(f)
    <3>1. /\ UNCHANGED polling /\ \A u \in Tasks : u # f => pc'[u] = pc[u]
          /\ pc[f] # "idle" /\ pc'[f] # "idle"
      BY <2>0, <2>1 DEF Wake, CheckInterval, PollerInv, TypeOK
    <3> QED
      BY <1>0, <2>0, <3>1, PollerUnmoved DEF Tasks
  <2> QED
    BY <1>0, <1>4, <2>0, <2>1, RefreshPoller DEF LoopStep
<1> QED
  BY <1>1, <1>2, <1>3, <1>4 DEF Next

(* However retains, releases, interruptions and leaks overlap, the poller  *)
(* of the table is counted exactly, runs, and no other loop does but those *)
(* that are being interrupted.                                             *)
THEOREM PollerIsOwned == Spec => []PollerFollowsWatchers
<1>1. PollerInv => PollerFollowsWatchers
  BY DEF PollerInv, PollerFollowsWatchers
<1> QED
  BY <1>1, InitPoller, NextPoller, PTL DEF Spec

-----------------------------------------------------------------------------
(***************************************************************************)
(* What watchers show.  A watcher with a snapshot, and a publication in    *)
(* any mailbox, agree with the cache unless it is unsettled; the cache     *)
(* starts empty, and while it is nobody shows or is sent anything.         *)
(***************************************************************************)
Unsettled == skewed \/ \E t \in Tasks : pc[t] = "publish"

Shows == {"retaining", "retained", "live"}

ReadsStatuses == \A t \in Tasks : pc[t] \in {"store", "publish"} => value[t] \in Statuses

LoadsAreLocal == \A w \in Watchers : pc[w] \in {"read", "store"} => kind = "local"

ClosedIsEmpty == \A w \in Watchers : pc[w] \in {"idle", "closing", "stopping"} => mailbox[w] = None

NothingYet ==
    cache = None =>
        /\ \A t \in Tasks : pc[t] # "publish"
        /\ \A w \in Watchers : mailbox[w] = None /\ view[w] = None
        /\ kind = "local" => \A w \in Watchers : pc[w] \notin Shows

MailSettled ==
    \A w \in Watchers : pc[w] # "failed" /\ mailbox[w] \notin {None, cache} => Unsettled

ViewSettled ==
    \A w \in Watchers : pc[w] \in Shows /\ mailbox[w] = None /\ view[w] # cache => Unsettled

ViewInv ==
    /\ TypeOK /\ ReadsStatuses /\ LoadsAreLocal /\ ClosedIsEmpty
    /\ NothingYet /\ MailSettled /\ ViewSettled

(* Steps that touch neither the cache nor what is sent and shown.          *)
LEMMA ViewUnmoved ==
    ASSUME ViewInv, TypeOK', UNCHANGED <<kind, cache, mailbox, view>>,
           Unsettled => Unsettled',
           \A t \in Tasks : pc'[t] = "publish" => pc[t] = "publish",
           ReadsStatuses',
           \A w \in Watchers :
               \/ pc'[w] = pc[w]
               \/ pc[w] \in Shows /\ pc'[w] \in Shows
               \/ pc[w] = "idle" /\ pc'[w] = "subscribed"
               \/ pc[w] = "read" /\ pc'[w] \in {"store", "failed"}
               \/ pc[w] \in {"closing", "stopping"} /\ pc'[w] \in {"idle", "stopping"}
    PROVE  ViewInv'
<1>1. LoadsAreLocal' /\ ClosedIsEmpty'
  BY DEF ViewInv, LoadsAreLocal, ClosedIsEmpty, Shows
<1>2. NothingYet'
  BY DEF ViewInv, NothingYet, Shows
<1>3. MailSettled' /\ ViewSettled'
  BY DEF ViewInv, ClosedIsEmpty, MailSettled, ViewSettled, Shows
<1> QED
  BY <1>1, <1>2, <1>3 DEF ViewInv

(* A fiber that is not publishing leaves the others as unsettled as they   *)
(* were.                                                                   *)
LEMMA StaysUnsettled ==
    ASSUME Unsettled, NEW t \in Tasks, pc[t] # "publish", skewed' = skewed,
           \A u \in Tasks : u # t => pc'[u] = pc[u]
    PROVE  Unsettled'
BY DEF Unsettled

LEMMA StoreRefreshView ==
    ASSUME ViewInv, NEW t \in Tasks, StoreRefresh(t), TypeOK'
    PROVE  ViewInv'
<1>0. t \notin Watchers /\ pc[t] = "store" /\ cache' = value[t]
      /\ UNCHANGED <<kind, mailbox, view, skewed>>
  BY DEF StoreRefresh, streams
<1>1. \A u \in Tasks : u # t => pc'[u] = pc[u] /\ value'[u] = value[u]
  BY DEF StoreRefresh, GoTo, ViewInv, TypeOK
<1>2. \A w \in Watchers : pc'[w] = pc[w]
  BY <1>0, <1>1 DEF Tasks
<1>3. value[t] \in Statuses /\ cache' # None
  BY <1>0, StatusAssumption DEF ViewInv, ReadsStatuses
<1>4. CASE cache # value[t]
  <2>1. pc'[t] = "publish" /\ value' = value
    BY <1>4 DEF StoreRefresh, ViewInv, TypeOK
  <2>2. Unsettled'
    BY <2>1 DEF Unsettled
  <2>3. ReadsStatuses'
    BY <1>0, <1>1, <2>1 DEF ViewInv, ReadsStatuses
  <2> QED
    BY <1>0, <1>2, <1>3, <2>2, <2>3 DEF ViewInv, LoadsAreLocal, ClosedIsEmpty, NothingYet,
       MailSettled, ViewSettled
<1>5. CASE cache = value[t]
  <2>1. pc'[t] \in {"sleep", "idle"}
    BY <1>5 DEF StoreRefresh, GoTo, Rest, ViewInv, TypeOK
  <2>2. Unsettled => Unsettled'
    BY <1>0, <1>1, StaysUnsettled
  <2>3. ReadsStatuses'
    BY <1>1, <2>1 DEF ViewInv, ReadsStatuses
  <2>4. \A u \in Tasks : pc'[u] = "publish" => pc[u] = "publish"
    BY <1>1, <2>1
  <2> QED
    BY <1>0, <1>2, <1>5, <2>2, <2>3, <2>4, ViewUnmoved
<1> QED
  BY <1>4, <1>5

LEMMA PublishView ==
    ASSUME ViewInv, NEW t \in Tasks, t \notin Watchers, Publish(t), TypeOK'
    PROVE  ViewInv'
<1>0. pc[t] = "publish" /\ skewed' = (cache # value[t]) /\ UNCHANGED <<kind, cache, view>>
  BY DEF Publish
<1>1. \A u \in Tasks : u # t => pc'[u] = pc[u] /\ value'[u] = value[u]
  BY DEF Publish, GoTo, ViewInv, TypeOK
<1>2. \A w \in Watchers : pc'[w] = pc[w]
  BY <1>1 DEF Tasks
<1>3. pc'[t] \in {"sleep", "idle"}
  BY DEF Publish, GoTo, Rest, ViewInv, TypeOK
<1>4. value[t] \in Statuses /\ value[t] # None /\ cache # None
  BY <1>0, StatusAssumption DEF ViewInv, ReadsStatuses, NothingYet
<1>5. \A w \in Watchers : mailbox'[w] = IF w \in Subscribed THEN value[t] ELSE mailbox[w]
  BY DEF Publish
<1>6. ReadsStatuses'
  BY <1>1, <1>3 DEF ViewInv, ReadsStatuses
<1>7. LoadsAreLocal' /\ ClosedIsEmpty' /\ NothingYet'
  BY <1>0, <1>2, <1>4, <1>5 DEF ViewInv, LoadsAreLocal, ClosedIsEmpty, NothingYet, Subscribed
<1>8. MailSettled'
  <2> SUFFICES ASSUME NEW w \in Watchers, pc'[w] # "failed", mailbox'[w] \notin {None, cache'}
               PROVE  Unsettled'
    BY DEF MailSettled
  <2>1. w \in Subscribed
    BY <1>2, <1>5 DEF ViewInv, ClosedIsEmpty, Subscribed
  <2>2. skewed' = TRUE
    BY <1>0, <1>5, <2>1
  <2> QED
    BY <2>2 DEF Unsettled
<1>9. ViewSettled'
  <2> SUFFICES ASSUME NEW w \in Watchers, pc'[w] \in Shows, mailbox'[w] = None
               PROVE  FALSE
    BY DEF ViewSettled
  <2>1. w \in Subscribed
    BY <1>2 DEF Subscribed, Shows
  <2> QED
    BY <1>4, <1>5, <2>1
<1> QED
  BY <1>6, <1>7, <1>8, <1>9 DEF ViewInv

LEMMA LookUpView ==
    ASSUME ViewInv, NEW w \in Watchers, LookUp(w), TypeOK'
    PROVE  ViewInv'
<1>0. w \in Tasks /\ pc[w] = "subscribed" /\ UNCHANGED <<kind, cache, mailbox, value, skewed>>
  BY DEF LookUp, Tasks
<1>1. \A u \in Tasks : u # w => pc'[u] = pc[u]
  BY DEF LookUp, ViewInv, TypeOK
<1>2. \A v \in Watchers : v # w => pc'[v] = pc[v] /\ view'[v] = view[v]
  BY <1>1 DEF LookUp, ViewInv, TypeOK, Tasks
<1>3. Unsettled => Unsettled'
  BY <1>0, <1>1, StaysUnsettled
<1>4. pc'[w] \in {"read", "retaining"} /\ (pc'[w] = "read" => kind = "local" /\ view'[w] = view[w])
      /\ (pc'[w] = "retaining" => view'[w] = cache /\ ~(kind = "local" /\ cache = None))
  BY <1>0 DEF LookUp, ViewInv, TypeOK
<1>5. ReadsStatuses' /\ LoadsAreLocal' /\ ClosedIsEmpty'
  BY <1>0, <1>1, <1>2, <1>4 DEF ViewInv, ReadsStatuses, LoadsAreLocal, ClosedIsEmpty
<1>6. NothingYet'
  BY <1>0, <1>1, <1>2, <1>4 DEF ViewInv, NothingYet, Shows
<1>7. MailSettled' /\ ViewSettled'
  BY <1>0, <1>2, <1>3, <1>4 DEF ViewInv, MailSettled, ViewSettled, Shows
<1> QED
  BY <1>5, <1>6, <1>7 DEF ViewInv

LEMMA StoreFirstView ==
    ASSUME ViewInv, NEW w \in Watchers, StoreFirst(w), TypeOK'
    PROVE  ViewInv'
<1>0. /\ w \in Tasks /\ pc[w] = "store" /\ cache' = value[w] /\ kind' = kind /\ mailbox' = mailbox
      /\ skewed' = (skewed \/ cache \notin {None, value[w]})
  BY DEF StoreFirst, Tasks
<1>1. \A u \in Tasks : u # w => pc'[u] = pc[u] /\ value'[u] = value[u]
  BY DEF StoreFirst, GoTo, ViewInv, TypeOK
<1>2. \A v \in Watchers : v # w => pc'[v] = pc[v] /\ view'[v] = view[v]
  BY <1>1 DEF StoreFirst, ViewInv, TypeOK, Tasks
<1>3. pc'[w] = "retaining" /\ view'[w] = value[w]
  BY <1>0 DEF StoreFirst, GoTo, ViewInv, TypeOK
<1>4. value[w] \in Statuses /\ value[w] # None /\ kind = "local"
  BY <1>0, StatusAssumption DEF ViewInv, ReadsStatuses, LoadsAreLocal
<1>5. ReadsStatuses' /\ LoadsAreLocal' /\ ClosedIsEmpty' /\ NothingYet'
  BY <1>0, <1>1, <1>2, <1>3, <1>4 DEF ViewInv, ReadsStatuses, LoadsAreLocal, ClosedIsEmpty, NothingYet
<1>6. Unsettled => Unsettled'
  BY <1>0, <1>1 DEF Unsettled
<1>7. cache \notin {None, value[w]} => Unsettled'
  BY <1>0 DEF Unsettled
<1>8. CASE cache = None
  <2>1. \A v \in Watchers : mailbox[v] = None /\ pc[v] \notin Shows
    BY <1>4, <1>8 DEF ViewInv, NothingYet
  <2> QED
    BY <1>0, <1>2, <1>3, <1>5, <2>1 DEF ViewInv, MailSettled, ViewSettled
<1>9. CASE cache # None
  <2>1. MailSettled' /\ ViewSettled'
    BY <1>0, <1>2, <1>3, <1>6, <1>7, <1>9 DEF ViewInv, MailSettled, ViewSettled
  <2> QED
    BY <1>5, <2>1 DEF ViewInv
<1> QED
  BY <1>8, <1>9

LEMMA DeliverView ==
    ASSUME ViewInv, NEW w \in Watchers, Deliver(w), TypeOK'
    PROVE  ViewInv'
<1>0. /\ pc[w] = "live" /\ mailbox[w] # None
      /\ UNCHANGED <<kind, cache, pc, value, skewed>>
  BY DEF Deliver, work
<1>1. \A v \in Watchers : /\ view'[v] = IF v = w THEN mailbox[w] ELSE view[v]
                          /\ mailbox'[v] = IF v = w THEN None ELSE mailbox[v]
  BY DEF Deliver, ViewInv, TypeOK
<1>2. Unsettled' <=> Unsettled
  BY <1>0 DEF Unsettled
<1>3. cache # None
  BY <1>0 DEF ViewInv, NothingYet
<1>4. ReadsStatuses' /\ LoadsAreLocal' /\ ClosedIsEmpty' /\ NothingYet'
  BY <1>0, <1>1, <1>3 DEF ViewInv, ReadsStatuses, LoadsAreLocal, ClosedIsEmpty, NothingYet
<1>5. MailSettled' /\ ViewSettled'
  BY <1>0, <1>1, <1>2 DEF ViewInv, MailSettled, ViewSettled
<1> QED
  BY <1>4, <1>5 DEF ViewInv

LEMMA LeaveView ==
    ASSUME ViewInv, NEW w \in Watchers, Leave(w), TypeOK'
    PROVE  ViewInv'
<1>0. /\ w \in Tasks /\ UNCHANGED <<kind, cache, skewed>> /\ pc[w] # "publish"
  BY DEF Leave, Tasks
<1>1. \A u \in Tasks : u # w => pc'[u] = pc[u] /\ value'[u] = value[u]
  BY DEF Leave, GoTo, ViewInv, TypeOK
<1>2. \A v \in Watchers : /\ v # w => pc'[v] = pc[v]
                          /\ view'[v] = IF v = w THEN None ELSE view[v]
                          /\ mailbox'[v] = IF v = w THEN None ELSE mailbox[v]
  BY <1>1 DEF Leave, ViewInv, TypeOK, Tasks
<1>3. pc'[w] \in {"closing", "idle"}
  BY <1>0 DEF Leave, GoTo, ViewInv, TypeOK
<1>4. Unsettled => Unsettled'
  BY <1>0, <1>1, StaysUnsettled
<1>5. ReadsStatuses' /\ LoadsAreLocal' /\ ClosedIsEmpty'
  BY <1>0, <1>1, <1>2, <1>3 DEF ViewInv, ReadsStatuses, LoadsAreLocal, ClosedIsEmpty
<1>6. NothingYet'
  BY <1>0, <1>1, <1>2, <1>3 DEF ViewInv, NothingYet, Shows
<1>7. MailSettled' /\ ViewSettled'
  BY <1>0, <1>2, <1>3, <1>4 DEF ViewInv, MailSettled, ViewSettled, Shows
<1> QED
  BY <1>5, <1>6, <1>7 DEF ViewInv

(* A read, whoever makes it, is of a status.                               *)
LEMMA ReadView ==
    ASSUME ViewInv, NEW t \in Tasks, ReadStatus(t) \/ ReadFails(t), TypeOK'
    PROVE  ViewInv'
<1>0. pc[t] = "read" /\ UNCHANGED <<kind, cache, mailbox, view, skewed>>
  BY DEF ReadStatus, ReadFails, streams
<1>1. \A u \in Tasks : u # t => pc'[u] = pc[u] /\ value'[u] = value[u]
  BY DEF ReadStatus, ReadFails, GoTo, ViewInv, TypeOK
<1>2. \/ pc'[t] = "store" /\ value'[t] \in Statuses
      \/ pc'[t] = "failed"
      \/ t \notin Watchers /\ pc'[t] \in {"sleep", "idle"}
  BY DEF ReadStatus, ReadFails, GoTo, Rest, ViewInv, TypeOK
<1>3. ReadsStatuses'
  BY <1>1, <1>2 DEF ViewInv, ReadsStatuses
<1>4. Unsettled => Unsettled'
  BY <1>0, <1>1, StaysUnsettled
<1>5. \A u \in Tasks : pc'[u] = "publish" => pc[u] = "publish"
  BY <1>1, <1>2
<1>6. \A w \in Watchers : pc'[w] = pc[w] \/ (pc[w] = "read" /\ pc'[w] \in {"store", "failed"})
  BY <1>0, <1>1, <1>2 DEF Tasks
<1> QED
  BY <1>0, <1>3, <1>4, <1>5, <1>6, ViewUnmoved

LEMMA RefreshView ==
    ASSUME ViewInv, NEW t \in Tasks, t \notin Watchers, RefreshStep(t), TypeOK'
    PROVE  ViewInv'
BY ReadView, StoreRefreshView, PublishView DEF RefreshStep

LEMMA RetainView ==
    ASSUME ViewInv, NEW w \in Watchers, Retain(w), TypeOK'
    PROVE  ViewInv'
<1>0. w \in Tasks /\ pc[w] = "retaining" /\ UNCHANGED <<kind, cache, mailbox, view, value, skewed>>
  BY DEF Retain, Tasks, streams
<1>1. \A v \in Watchers : pc'[v] = IF v = w THEN "retained" ELSE pc[v]
  <2>1. CASE poller # Nobody
    BY <1>0, <2>1 DEF Retain, ViewInv, TypeOK, Tasks
  <2>2. CASE poller = Nobody
    <3> DEFINE f == CHOOSE g \in FreeLoops : TRUE
    <3>1. f \in Loops /\ f \notin Watchers
      BY <2>2, StatusAssumption DEF Retain, FreeLoops
    <3>2. PICK start \in {"sleep", "check"} :
            pc' = [pc EXCEPT ![w] = "retained", ![f] = start]
      BY <2>2 DEF Retain
    <3> HIDE DEF f
    <3> QED
      BY <1>0, <3>1, <3>2 DEF ViewInv, TypeOK, Tasks
  <2> QED
    BY <2>1, <2>2
<1>2. \A u \in Tasks : pc'[u] = pc[u] \/ pc[u] = "idle" \/ u = w
  <2>1. CASE poller # Nobody
    BY <2>1 DEF Retain, ViewInv, TypeOK
  <2>2. CASE poller = Nobody
    <3> DEFINE f == CHOOSE g \in FreeLoops : TRUE
    <3>1. pc[f] = "idle"
      BY <2>2 DEF Retain, FreeLoops
    <3>2. PICK start \in {"sleep", "check"} :
            pc' = [pc EXCEPT ![w] = "retained", ![f] = start]
      BY <2>2 DEF Retain
    <3> HIDE DEF f
    <3> QED
      BY <3>1, <3>2 DEF ViewInv, TypeOK
  <2> QED
    BY <2>1, <2>2
<1>3. \A u \in Tasks : pc'[u] \in {"store", "publish"} => pc'[u] = pc[u]
  <2>1. CASE poller # Nobody
    BY <2>1 DEF Retain, ViewInv, TypeOK
  <2>2. CASE poller = Nobody
    <3> DEFINE f == CHOOSE g \in FreeLoops : TRUE
    <3>2. PICK start \in {"sleep", "check"} :
            pc' = [pc EXCEPT ![w] = "retained", ![f] = start]
      BY <2>2 DEF Retain
    <3> HIDE DEF f
    <3> QED
      BY <3>2 DEF ViewInv, TypeOK
  <2> QED
    BY <2>1, <2>2
<1>4. ReadsStatuses'
  BY <1>0, <1>3 DEF ViewInv, ReadsStatuses
<1>5. Unsettled => Unsettled'
  BY <1>0, <1>2 DEF Unsettled
<1>6. \A v \in Watchers : pc'[v] = pc[v] \/ (pc[v] \in Shows /\ pc'[v] \in Shows)
  BY <1>0, <1>1 DEF Shows
<1> QED
  BY <1>0, <1>3, <1>4, <1>5, <1>6, ViewUnmoved

LEMMA InterruptView ==
    ASSUME ViewInv, PollerInv, NEW w \in Watchers, Interrupt(w), TypeOK'
    PROVE  ViewInv'
<1> DEFINE f == doomed[w]
<1>0. w \in Tasks /\ pc[w] = "stopping" /\ UNCHANGED <<kind, cache, mailbox, view>>
  BY DEF Interrupt, Tasks, streams
<1>1. f \in Loops /\ f \notin Watchers
  BY <1>0, StatusAssumption DEF PollerInv, OneOwner, TypeOK
<1>2. pc' = [pc EXCEPT ![w] = "idle", ![f] = "idle"] /\ value' = [value EXCEPT ![f] = None]
      /\ skewed' = (skewed \/ pc[f] = "publish")
  BY DEF Interrupt, Unpublished
<1> HIDE DEF f
<1>3. \A u \in Tasks : /\ pc'[u] = IF u \in {w, f} THEN "idle" ELSE pc[u]
                       /\ u # f => value'[u] = value[u]
  BY <1>0, <1>1, <1>2 DEF ViewInv, TypeOK
<1>4. ReadsStatuses'
  BY <1>3 DEF ViewInv, ReadsStatuses
<1>5. Unsettled => Unsettled'
  BY <1>0, <1>2, <1>3 DEF Unsettled
<1>6. \A v \in Watchers : pc'[v] = pc[v] \/ (pc[v] = "stopping" /\ pc'[v] = "idle")
  BY <1>0, <1>1, <1>3 DEF Tasks
<1>7. \A u \in Tasks : pc'[u] = "publish" => pc[u] = "publish"
  BY <1>3
<1> QED
  BY <1>0, <1>4, <1>5, <1>6, <1>7, ViewUnmoved

LEMMA WatcherView ==
    ASSUME ViewInv, PollerInv, TypeOK', NEW w \in Watchers,
           Subscribe(w) \/ WatcherStep(w) \/ Leave(w)
    PROVE  ViewInv'
<1>0. w \in Tasks
  BY DEF Tasks
<1>1. CASE Subscribe(w) \/ Open(w) \/ Release(w)
  <2>1. UNCHANGED <<kind, cache, mailbox, view, value, skewed>>
    BY <1>1 DEF Subscribe, Open, Release, streams
  <2>2. \A u \in Tasks : u # w => pc'[u] = pc[u]
    BY <1>1 DEF Subscribe, Open, Release, ViewInv, TypeOK
  <2>3. \/ pc[w] = "idle" /\ pc'[w] = "subscribed"
        \/ pc[w] = "retained" /\ pc'[w] = "live"
        \/ pc[w] = "closing" /\ pc'[w] \in {"idle", "stopping"}
    BY <1>0, <1>1 DEF Subscribe, Open, Release, ViewInv, TypeOK
  <2>4. ReadsStatuses'
    BY <2>1, <2>2, <2>3 DEF ViewInv, ReadsStatuses
  <2>5. Unsettled => Unsettled'
    BY <1>0, <2>1, <2>2, <2>3, StaysUnsettled
  <2>6. \A u \in Tasks : pc'[u] = "publish" => pc[u] = "publish"
    BY <2>2, <2>3
  <2>7. \A v \in Watchers : v # w => pc'[v] = pc[v]
    BY <2>2 DEF Tasks
  <2> QED
    BY <2>1, <2>3, <2>4, <2>5, <2>6, <2>7, ViewUnmoved DEF Shows
<1>2. CASE LookUp(w)
  BY <1>2, LookUpView
<1>3. CASE ReadStatus(w) \/ ReadFails(w)
  BY <1>0, <1>3, ReadView
<1>4. CASE StoreFirst(w)
  BY <1>4, StoreFirstView
<1>5. CASE Retain(w)
  BY <1>5, RetainView
<1>6. CASE Deliver(w)
  BY <1>6, DeliverView
<1>7. CASE Interrupt(w)
  BY <1>7, InterruptView
<1>8. CASE Leave(w)
  BY <1>8, LeaveView
<1> QED
  BY <1>1, <1>2, <1>3, <1>4, <1>5, <1>6, <1>7, <1>8 DEF WatcherStep

(* Requests, their interruption, and what the loop does by itself. *)
LEMMA TaskView ==
    ASSUME ViewInv, TypeOK', NEW t \in Tasks, t \notin Watchers,
           Request(t) \/ Abandon(t) \/ Wake(t) \/ CheckInterval(t)
    PROVE  ViewInv'
<1>1. UNCHANGED <<kind, cache, mailbox, view>> /\ (skewed => skewed')
      /\ (Abandon(t) /\ pc[t] = "publish" => skewed')
  <2>1. CASE Abandon(t)
    <3>1. UNCHANGED <<kind, cache, mailbox, view>> /\ skewed' = (skewed \/ pc[t] = "publish")
      BY <2>1 DEF Abandon, Unpublished, streams
    <3> QED
      BY <3>1
  <2>2. CASE ~Abandon(t)
    BY <2>2 DEF Request, Wake, CheckInterval, streams
  <2> QED
    BY <2>1, <2>2
<1>2. \A u \in Tasks : u # t => pc'[u] = pc[u] /\ value'[u] = value[u]
  BY DEF Request, Abandon, Wake, CheckInterval, GoTo, ViewInv, TypeOK
<1>3. pc'[t] \in {"idle", "read", "check", "sleep"}
  BY DEF Request, Abandon, Wake, CheckInterval, GoTo, ViewInv, TypeOK
<1>4. pc[t] = "publish" => Abandon(t)
  BY DEF Request, Wake, CheckInterval
<1>5. Unsettled => Unsettled'
  BY <1>1, <1>2, <1>4 DEF Unsettled
<1>6. ReadsStatuses'
  BY <1>2, <1>3 DEF ViewInv, ReadsStatuses
<1>7. \A u \in Tasks : pc'[u] = "publish" => pc[u] = "publish"
  BY <1>2, <1>3
<1>8. \A v \in Watchers : pc'[v] = pc[v]
  BY <1>2 DEF Tasks
<1> QED
  BY <1>1, <1>5, <1>6, <1>7, <1>8, ViewUnmoved

LEMMA InitView == Init => ViewInv
<1> SUFFICES ASSUME Init PROVE ViewInv
  OBVIOUS
<1>1. TypeOK
  BY InitType
<1>2. ReadsStatuses /\ LoadsAreLocal /\ ClosedIsEmpty /\ NothingYet /\ MailSettled /\ ViewSettled
  BY DEF Init, ReadsStatuses, LoadsAreLocal, ClosedIsEmpty, NothingYet, MailSettled, ViewSettled,
     Tasks, Shows
<1> QED
  BY <1>1, <1>2 DEF ViewInv

LEMMA NextView == ViewInv /\ PollerInv /\ [Next]_vars => ViewInv'
<1> SUFFICES ASSUME ViewInv, PollerInv, [Next]_vars PROVE ViewInv'
  OBVIOUS
<1>0. TypeOK'
  BY NextType DEF ViewInv
<1>1. CASE Change \/ SetInterval \/ UNCHANGED vars
  <2>1. UNCHANGED <<kind, cache, mailbox, view, pc, value, skewed>>
    BY <1>1 DEF Change, SetInterval, vars, work, streams
  <2>2. ReadsStatuses' /\ (Unsettled => Unsettled')
    BY <2>1 DEF ViewInv, ReadsStatuses, Unsettled
  <2> QED
    BY <1>0, <2>1, <2>2, ViewUnmoved
<1>2. CASE \E w \in Watchers : Subscribe(w) \/ WatcherStep(w) \/ Leave(w)
  BY <1>0, <1>2, WatcherView
<1>3. ASSUME NEW j \in Jobs, Request(j) \/ RefreshStep(j) \/ Abandon(j)
      PROVE  ViewInv'
  <2>1. j \in Tasks /\ j \notin Watchers
    BY StatusAssumption DEF Tasks
  <2> QED
    BY <1>0, <1>3, <2>1, RefreshView, TaskView
<1>4. ASSUME NEW f \in Loops, LoopStep(f)
      PROVE  ViewInv'
  <2>1. f \in Tasks /\ f \notin Watchers
    BY StatusAssumption DEF Tasks
  <2> QED
    BY <1>0, <1>4, <2>1, RefreshView, TaskView DEF LoopStep
<1> QED
  BY <1>1, <1>2, <1>3, <1>4 DEF Next

(* Whatever reads, loads, publications, interruptions and deliveries       *)
(* overlap, a watcher who has received everything shows what is cached,    *)
(* but while a publication is on its way or after one has gone missing.    *)
THEOREM WatchersMissNothing == Spec => []NothingMissed
<1>1. ViewInv => NothingMissed
  BY DEF ViewInv, ViewSettled, NothingMissed, Unsettled, Shows
<1> QED
  BY <1>1, InitView, NextView, InitPoller, NextPoller, PTL DEF Spec
=============================================================================
