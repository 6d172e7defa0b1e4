---------------------- MODULE OrchestrationEngineProofs ----------------------
(***************************************************************************)
(* Theorems about OrchestrationEngine for every set of ids, commands and   *)
(* faults: type correctness, exactly-once application of a command id,     *)
(* finality of receipts and answers, a log that only grows, tables that    *)
(* are the replay of the log, a log that is a serial execution; and about  *)
(* what it owes to others: no caller is forgotten, the hot stream is the   *)
(* log since the start, and, where reconciliations and writes of refusals  *)
(* do not fail, the engine implements what its subscribers and its callers *)
(* are promised.                                                           *)
(***************************************************************************)
EXTENDS OrchestrationEngine, FiniteSetTheorems, SequenceTheorems,
        WellFoundedInduction, TLAPS

-----------------------------------------------------------------------------
(* Lemmas about the operators of CommandDecider.                           *)

(* An enumeration of a set of threads is a sequence of its elements.       *)
LEMMA ThreadEnumeration ==
    ASSUME NEW S \in SUBSET Threads
    PROVE  /\ Cardinality(S) \in Nat
           /\ SetToSeq(S) \in [1..Cardinality(S) -> S]
<1>1. IsFiniteSet(S)
  BY DeciderAssumption, FS_Subset
<1>2. Cardinality(S) \in Nat /\ ExistsBijection(1..Cardinality(S), S)
  BY <1>1, FS_CardinalityType
<1>3. PICK f : f \in Bijection(1..Cardinality(S), S)
  BY <1>2 DEF ExistsBijection
<1>4. f \in [1..Cardinality(S) -> S] /\ IsInjective(f)
  BY <1>3 DEF Bijection, Injection
<1> QED
  BY <1>2, <1>4 DEF SetToSeq

(* Whatever is decided is a sequence of events.                            *)
LEMMA DecideType ==
    ASSUME NEW rm \in ReadModel, NEW c \in Command
    PROVE  Decide(rm, c) \in Seq(Event)
<1>1. CASE c \in ProjectCommand
  <2>1. \A type \in {"project.created", "project.meta-updated"} :
           OnProject(type, c.project) \in Event
    BY <1>1 DEF ProjectCommand, OnProject, Event, ProjectEvent
  <2> QED
    BY <1>1, <2>1 DEF ProjectCommand, Decide
<1>2. CASE c \in ProjectDelete
  <2> DEFINE live == ActiveThreads(rm, c.project)
             deletions == [i \in 1..Cardinality(live) |->
                              OnThread("thread.deleted", SetToSeq(live)[i])]
  <2>1. c.type = "project.delete" /\ c.project \in Projects
    BY <1>2 DEF ProjectDelete
  <2>2. live \in SUBSET Threads
    BY DEF ActiveThreads
  <2>3. Cardinality(live) \in Nat /\ SetToSeq(live) \in [1..Cardinality(live) -> live]
    BY <2>2, ThreadEnumeration
  <2>4. \A i \in 1..Cardinality(live) : OnThread("thread.deleted", SetToSeq(live)[i]) \in Event
    BY <2>2, <2>3 DEF OnThread, Event, ThreadEvent
  <2>5. deletions \in Seq(Event)
    BY <2>3, <2>4
  <2>6. OnProject("project.deleted", c.project) \in Event
    BY <2>1 DEF OnProject, Event, ProjectEvent
  <2>7. Append(deletions, OnProject("project.deleted", c.project)) \in Seq(Event)
    BY <2>5, <2>6
  <2>8. DecideProjectDelete(rm, c) \in Seq(Event)
    BY <2>7 DEF DecideProjectDelete
  <2> QED
    BY <2>1, <2>8 DEF Decide
<1>3. CASE c \in ThreadCreate
  <2>1. [type |-> "thread.created", thread |-> c.thread, project |-> c.project] \in Event
    BY <1>3 DEF ThreadCreate, Event, ThreadCreated
  <2>2. DecideThreadCreate(rm, c) \in Seq(Event)
    BY <2>1 DEF DecideThreadCreate
  <2> QED
    BY <1>3, <2>2 DEF ThreadCreate, Decide
<1>4. CASE c \in ThreadCommand
  <2>1. \A type \in {"thread.deleted", "thread.archived", "thread.unarchived",
                     "thread.message-sent", "thread.turn-start-requested", "thread.changed"} :
           OnThread(type, c.thread) \in Event
    BY <1>4 DEF ThreadCommand, OnThread, Event, ThreadEvent
  <2>2. DecideOnThread(rm, c) \in Seq(Event)
    BY <2>1 DEF DecideOnThread
  <2> QED
    BY <1>4, <2>2 DEF ThreadCommand, Decide
<1> QED
  BY <1>1, <1>2, <1>3, <1>4 DEF Command

(* Projecting an event keeps a read model a read model.                    *)
LEMMA ProjectOntoType ==
    ASSUME NEW rm \in ReadModel, NEW e \in Event
    PROVE  ProjectOnto(rm, e) \in ReadModel
<1>1. CASE e \in ProjectEvent
  BY <1>1 DEF ProjectEvent, ProjectOnto, SetProject, ReadModel
<1>2. CASE e \in ThreadCreated
  BY <1>2 DEF ThreadCreated, ProjectOnto, ReadModel, ThreadEntry
<1>3. CASE e \in ThreadEvent
  <2>1. e.thread \in Threads /\ rm.thread[e.thread] \in ThreadEntry
    BY <1>3 DEF ThreadEvent, ReadModel
  <2>2. /\ [rm.thread[e.thread] EXCEPT !.deleted = TRUE] \in ThreadEntry
        /\ [rm.thread[e.thread] EXCEPT !.archived = TRUE] \in ThreadEntry
        /\ [rm.thread[e.thread] EXCEPT !.archived = FALSE] \in ThreadEntry
    BY <2>1 DEF ThreadEntry
  <2>3. \A entry \in ThreadEntry : UpdateThread(rm, e.thread, entry) \in ReadModel
    BY <2>1 DEF UpdateThread, ReadModel
  <2> QED
    BY <1>3, <2>2, <2>3 DEF ThreadEvent, ProjectOnto
<1> QED
  BY <1>1, <1>2, <1>3 DEF Event

LEMMA EmptyReadModelType == EmptyReadModel \in ReadModel
  BY DEF EmptyReadModel, ReadModel, ThreadEntry

-----------------------------------------------------------------------------
(***************************************************************************)
(* What a replay computes.  Its models are a recursive function of the     *)
(* length; that there is exactly one is shown by induction.                *)
(***************************************************************************)
(* A non-empty set of numbers has a least one: induction, as a fact about  *)
(* sets.                                                                   *)
LEMMA LeastNumber ==
    ASSUME NEW T, T \subseteq Nat, T # {}
    PROVE  \E n \in T : \A m \in T : n <= m
<1> DEFINE Less == OpToRel(<, Nat)
<1>1. Less = {ss \in Nat \X Nat : ss[1] < ss[2]}
  BY DEF OpToRel
<1>2. IsWellFoundedOn(Less, Nat)
  BY NatLessThanWellFounded
<1>3. PICK n \in T : \A m \in T : <<m, n>> \notin Less
  <2> HIDE DEF Less
  <2> QED
    BY <1>2, WFMin
<1>4. \A m \in T : ~(m < n)
  BY <1>1, <1>3
<1> HIDE DEF Less
<1> QED
  BY <1>4

(* w gives the read model after each prefix of the events.                 *)
IsReplay(w, events) ==
    w = [n \in 0..Len(events) |->
            IF n = 0 THEN EmptyReadModel ELSE ProjectOnto(w[n - 1], events[n])]

LEMMA ReplayIsUnique ==
    ASSUME NEW events \in Seq(Event), NEW w, NEW v, IsReplay(w, events), IsReplay(v, events)
    PROVE  w = v
<1> DEFINE Wrong == {n \in 0..Len(events) : w[n] # v[n]}
<1>1. CASE Wrong = {}
  <2>1. \A n \in 0..Len(events) : w[n] = v[n]
    BY <1>1
  <2>2. /\ w = [n \in 0..Len(events) |-> w[n]]
        /\ v = [n \in 0..Len(events) |-> v[n]]
    BY DEF IsReplay
  <2> QED
    BY <2>1, <2>2
<1>2. CASE Wrong # {}
  <2>0. Wrong \subseteq Nat
    OBVIOUS
  <2>1. PICK n \in Wrong : \A m \in Wrong : n <= m
    <3> HIDE DEF Wrong
    <3> QED
      BY <1>2, <2>0, LeastNumber
  <2>2. n # 0
    BY <2>1 DEF IsReplay
  <2>3. n \in 1..Len(events) /\ n - 1 \in 0..Len(events) /\ n - 1 \notin Wrong
    BY <2>1, <2>2
  <2>4. w[n - 1] = v[n - 1]
    BY <2>3
  <2>5. /\ w[n] = ProjectOnto(w[n - 1], events[n])
        /\ v[n] = ProjectOnto(v[n - 1], events[n])
    BY <2>3 DEF IsReplay
  <2> QED
    BY <2>1, <2>4, <2>5
<1> QED
  BY <1>1, <1>2

(* One event more extends the models by one.                               *)
LEMMA ReplayExtends ==
    ASSUME NEW events \in Seq(Event), NEW e \in Event, NEW w, IsReplay(w, events)
    PROVE  LET n == Len(events)
               next == [i \in 0..n + 1 |-> IF i <= n THEN w[i] ELSE ProjectOnto(w[n], e)]
           IN  IsReplay(next, Append(events, e))
<1> DEFINE n == Len(events)
           next == [i \in 0..n + 1 |-> IF i <= n THEN w[i] ELSE ProjectOnto(w[n], e)]
           longer == Append(events, e)
<1>1. /\ n \in Nat /\ Len(longer) = n + 1 /\ longer[n + 1] = e
      /\ \A i \in 1..n : longer[i] = events[i]
  OBVIOUS
<1>2. ASSUME NEW i \in 0..n + 1
      PROVE  next[i] = IF i = 0 THEN EmptyReadModel ELSE ProjectOnto(next[i - 1], longer[i])
  <2>1. CASE i = 0
    BY <1>1, <2>1 DEF IsReplay
  <2>2. CASE i \in 1..n
    <3>1. i - 1 \in 0..n /\ next[i - 1] = w[i - 1] /\ next[i] = w[i]
      BY <1>1, <2>2
    <3>2. w[i] = ProjectOnto(w[i - 1], events[i])
      BY <1>1, <2>2 DEF IsReplay
    <3> QED
      BY <1>1, <2>2, <3>1, <3>2
  <2>3. CASE i = n + 1
    <3>1. i - 1 = n /\ next[i - 1] = w[n] /\ next[i] = ProjectOnto(w[n], e)
      BY <1>1, <2>3
    <3> QED
      BY <1>1, <2>3, <3>1
  <2> QED
    BY <1>1, <2>1, <2>2, <2>3
<1>3. next = [i \in 0..n + 1 |->
                 IF i = 0 THEN EmptyReadModel ELSE ProjectOnto(next[i - 1], longer[i])]
  <2> HIDE DEF next
  <2>1. next = [i \in 0..n + 1 |-> next[i]]
    BY DEF next
  <2> QED
    BY <1>2, <2>1
<1> HIDE DEF next
<1>4. IsReplay(next, longer)
  BY <1>1, <1>3 DEF IsReplay
<1> QED
  BY <1>4 DEF next

(* The models of a replay exist: by induction over the length.             *)
LEMMA ReplayExists ==
    ASSUME NEW events \in Seq(Event)
    PROVE  \E w : IsReplay(w, events)
<1> DEFINE Bad == {n \in Nat : \E s \in Seq(Event) : Len(s) = n /\ ~\E w : IsReplay(w, s)}
<1>1. Bad \subseteq Nat
  OBVIOUS
<1>2. CASE Bad = {}
  BY <1>2
<1>3. CASE Bad # {}
  <2>1. PICK n \in Bad : \A m \in Bad : n <= m
    <3> HIDE DEF Bad
    <3> QED
      BY <1>1, <1>3, LeastNumber
  <2>2. PICK s \in Seq(Event) : Len(s) = n /\ ~\E w : IsReplay(w, s)
    BY <2>1
  <2>3. CASE n = 0
    <3>1. IsReplay([i \in {0} |-> EmptyReadModel], s)
      BY <2>2, <2>3 DEF IsReplay
    <3> QED
      BY <2>2, <3>1
  <2>4. CASE n # 0
    <3>1. PICK front \in Seq(Event), e \in Event : s = Append(front, e)
      <4>1. n \in Nat \ {0}
        BY <2>1, <2>4
      <4> DEFINE front == [i \in 1..n - 1 |-> s[i]]
      <4>2. front \in Seq(Event) /\ s[n] \in Event /\ Len(front) = n - 1
        BY <2>2, <4>1
      <4>3. s = Append(front, s[n])
        BY <2>2, <4>1, <4>2
      <4> QED
        BY <4>2, <4>3
    <3>2. Len(front) \in Nat /\ Len(front) < n
      BY <2>1, <2>2, <3>1
    <3>3. Len(front) \notin Bad
      BY <2>1, <3>2
    <3>4. PICK w : IsReplay(w, front)
      BY <3>2, <3>3
    <3> QED
      BY <2>2, <3>1, <3>4, ReplayExtends
  <2> QED
    BY <2>3, <2>4
<1> QED
  BY <1>2, <1>3

(* ... and Replay is the last of them.                                     *)
LEMMA ReplayIs ==
    ASSUME NEW events \in Seq(Event), NEW w, IsReplay(w, events)
    PROVE  Replay(events) = w[Len(events)]
<1> DEFINE after == CHOOSE v : IsReplay(v, events)
<1>1. after = w
  BY ReplayIsUnique
<1>2. Replay(events) = after[Len(events)]
  BY DEF Replay, IsReplay
<1> QED
  BY <1>1, <1>2

(* What a replay of no event and of one event more compute.                *)
LEMMA ReplayOfNothing == Replay(<<>>) = EmptyReadModel
<1>1. IsReplay([i \in {0} |-> EmptyReadModel], <<>>)
  BY DEF IsReplay
<1> QED
  BY <1>1, ReplayIs

LEMMA ReplayOfAppend ==
    ASSUME NEW events \in Seq(Event), NEW e \in Event
    PROVE  Replay(Append(events, e)) = ProjectOnto(Replay(events), e)
<1>1. PICK w : IsReplay(w, events)
  BY ReplayExists
<1> DEFINE n == Len(events)
           next == [i \in 0..n + 1 |-> IF i <= n THEN w[i] ELSE ProjectOnto(w[n], e)]
<1>2. IsReplay(next, Append(events, e))
  BY <1>1, ReplayExtends
<1>3. n \in Nat /\ Append(events, e) \in Seq(Event) /\ Len(Append(events, e)) = n + 1
  OBVIOUS
<1>4. next[n + 1] = ProjectOnto(w[n], e)
  BY <1>3
<1>5. Replay(events) = w[n]
  BY <1>1, ReplayIs
<1>6. Replay(Append(events, e)) = next[n + 1]
  <2> HIDE DEF next
  <2> QED
    BY <1>2, <1>3, ReplayIs
<1> QED
  BY <1>4, <1>5, <1>6

-----------------------------------------------------------------------------
(***************************************************************************)
(* The inductive invariant.  It says what the worker may rely on at each   *)
(* place of processEnvelope: the call it holds exists, an id it is         *)
(* deciding has no receipt yet, the open transaction extends the log by    *)
(* entries of that id only, and the answer it is about to give is already  *)
(* in the receipt, or is a refusal that could not be stored.               *)
(***************************************************************************)
CurrentOK ==
    /\ pc \notin {"down", "idle"} => current \in 1..Len(calls)
    /\ pc \in {"down", "idle"} => outcome = Waiting
    /\ \A i \in 1..Len(queue) : queue[i] \in 1..Len(calls)

Undecided(id) == receipts[id].status = "none"

DecidingOK ==
    /\ pc \in {"decide", "transaction"} => Undecided(ThisId)
    /\ pc = "receipt" => outcome.status = "rejected"
    /\ pc \in {"reconcile", "replay", "publish", "receipt"} /\ outcome.status = "rejected" =>
           Undecided(ThisId)

StagedOK ==
    pc = "transaction" =>
        /\ Len(log) <= Len(staged.log)
        /\ plan # <<>> \/ Len(log) < Len(staged.log)
        /\ \A i \in 1..Len(log) : staged.log[i] = log[i]
        /\ \A i \in 1..Len(staged.log) : i > Len(log) => staged.log[i].command = ThisId

Remembered(id) == receipts[id].status = "rejected" \/ id \in unrecorded

OutcomeOK ==
    /\ outcome.status = "ok" => receipts[ThisId] = Accepted(outcome.sequence)
    /\ pc = "reply" /\ outcome.status = "rejected" => Remembered(ThisId)

IInv ==
    /\ TypeOK
    /\ CurrentOK
    /\ DecidingOK
    /\ StagedOK
    /\ OutcomeOK
    /\ AppliedOnce
    /\ AnswersAreDurable

Staging == [log : Seq(Entry), tables : ReadModel, readModel : Model]

LEMMA NothingStagedType ==
    /\ EmptyModel \in Model
    /\ NothingStaged \in Staging
<1>1. EmptyModel \in Model
  BY EmptyReadModelType DEF EmptyModel, Model
<1> QED
  BY <1>1, EmptyReadModelType DEF NothingStaged, Staging

LEMMA InitialState == Init => IInv
<1> SUFFICES ASSUME Init PROVE IInv
  OBVIOUS
<1>1. TypeOK
  <2>1. NoReceipt \in Receipt /\ Waiting \in Reply
    BY DEF NoReceipt, Receipt, Waiting, Reply
  <2>2. /\ log \in Seq(Entry) /\ queue \in Seq(Nat) /\ calls \in Seq(Call)
        /\ plan \in Seq(Event) /\ unpublished \in Seq(Nat) /\ published \in Seq(Nat)
    BY DEF Init
  <2>3. receipts \in [CommandIds -> Receipt] /\ tables \in ReadModel /\ outcome \in Reply
    BY <2>1, EmptyReadModelType DEF Init
  <2>4. readModel \in Model /\ staged \in Staging
    BY NothingStagedType DEF Init
  <2>5. /\ pc \in WorkerStates /\ current \in Nat /\ bootSequence \in Nat
        /\ stale \in BOOLEAN /\ everStale \in BOOLEAN /\ unrecorded \subseteq CommandIds
        /\ faults \in Nat /\ crashes \in Nat
    BY DEF Init, WorkerStates
  <2> QED
    BY <2>2, <2>3, <2>4, <2>5 DEF TypeOK, Staging
<1>2. CurrentOK /\ DecidingOK /\ StagedOK /\ OutcomeOK /\ AppliedOnce /\ AnswersAreDurable
  BY DEF Init, CurrentOK, DecidingOK, StagedOK, OutcomeOK, AppliedOnce, AnswersAreDurable,
         Waiting, NoReceipt
<1> QED
  BY <1>1, <1>2 DEF IInv

(* The call the worker holds is a call.                                    *)
LEMMA CurrentCall ==
    ASSUME TypeOK, CurrentOK, pc \notin {"down", "idle"}
    PROVE  /\ current \in DOMAIN calls
           /\ calls[current] \in Call
           /\ ThisId \in CommandIds
           /\ ThisCommand \in Command
<1>1. current \in 1..Len(calls) /\ calls \in Seq(Call)
  BY DEF TypeOK, CurrentOK
<1>2. current \in DOMAIN calls /\ calls[current] \in Call
  BY <1>1
<1>3. calls[current].id \in CommandIds /\ calls[current].command \in Commands
  BY <1>2 DEF Call
<1> QED
  BY <1>2, <1>3, EngineAssumption DEF ThisId, ThisCommand

LEMMA NumbersType ==
    ASSUME NEW m \in Nat, NEW n \in Nat PROVE Numbers(m, n) \in Seq(Nat)
<1>1. CASE m <= n
  <2>1. n - m \in Nat
    BY <1>1
  <2> QED
    BY <2>1 DEF Numbers
<1>2. CASE n < m
  <2>1. 1..(n - m) = {}
    BY <1>2
  <2> QED
    BY <2>1 DEF Numbers
<1> QED
  BY <1>1, <1>2

(* Every step keeps the types.                                             *)
LEMMA TypeStep == IInv /\ [Next]_vars => TypeOK'
<1> SUFFICES ASSUME IInv, [Next]_vars PROVE TypeOK'
  OBVIOUS
<1> USE DEF durable, worker, environment, history
<1>0. TypeOK /\ CurrentOK
  BY DEF IInv
<1>1. ASSUME NEW id \in CommandIds, NEW c \in Commands, Dispatch(id, c)
      PROVE  TypeOK'
  <2>1. [id |-> id, command |-> c, reply |-> Waiting] \in Call
    BY DEF Call, Reply, Waiting
  <2> QED
    BY <1>0, <1>1, <2>1 DEF Dispatch, TypeOK
<1>2. CASE Take
  BY <1>0, <1>2 DEF Take, TypeOK, WorkerStates
<1>3. CASE LookupReceipt
  BY <1>0, <1>3, CurrentCall
     DEF LookupReceipt, TypeOK, WorkerStates, Receipt, Reply, Ok, Refused
<1>4. CASE DecideCommand
  <2>1. Decide(readModel.model, ThisCommand) \in Seq(Event)
    BY <1>0, <1>4, CurrentCall, DecideType DEF DecideCommand, TypeOK, Model
  <2> QED
    BY <1>0, <1>4, <2>1 DEF DecideCommand, TypeOK, WorkerStates, Reply, Refused
<1>5. CASE AppendNext
  <2>1. Head(plan) \in Event /\ Tail(plan) \in Seq(Event)
    BY <1>0, <1>5 DEF AppendNext, TypeOK
  <2>2. [command |-> ThisId, event |-> Head(plan)] \in Entry
    BY <1>0, <1>5, <2>1, CurrentCall DEF AppendNext, Entry
  <2>3. /\ ProjectOnto(staged.tables, Head(plan)) \in ReadModel
        /\ ProjectOnto(staged.readModel.model, Head(plan)) \in ReadModel
    BY <1>0, <2>1, ProjectOntoType DEF TypeOK, Model
  <2> QED
    BY <1>0, <1>5, <2>1, <2>2, <2>3 DEF AppendNext, TypeOK, Projected, Model
<1>6. CASE Commit
  <2>1. /\ Len(log) \in Nat /\ Len(staged.log) \in Nat
        /\ staged.log \in Seq(Entry) /\ staged.tables \in ReadModel /\ staged.readModel \in Model
    BY <1>0 DEF TypeOK
  <2>2. Accepted(Len(staged.log)) \in Receipt /\ Ok(Len(staged.log)) \in Reply
    BY <2>1 DEF Accepted, Receipt, Ok, Reply
  <2>3. Numbers(Len(log), Len(staged.log)) \in Seq(Nat)
    BY <2>1, NumbersType
  <2>4. receipts' \in [CommandIds -> Receipt] /\ log' \in Seq(Entry) /\ tables' \in ReadModel
    BY <1>0, <1>6, <2>1, <2>2 DEF Commit, MakeDurable, TypeOK
  <2>5. staged' \in Staging /\ readModel' \in Model /\ outcome' \in Reply
        /\ unpublished' \in Seq(Nat) /\ pc' \in WorkerStates
    BY <1>6, <2>1, <2>2, <2>3, NothingStagedType DEF Commit, WorkerStates
  <2> QED
    BY <1>0, <1>6, <2>4, <2>5 DEF Commit, TypeOK, Staging
<1>7. CASE Publish
  BY <1>0, <1>7 DEF Publish, TypeOK
<1>8. CASE PublishDone
  BY <1>0, <1>8 DEF PublishDone, AfterFailure, TypeOK, WorkerStates
<1>9. CASE Reconcile
  BY <1>0, <1>9, NothingStagedType
     DEF Reconcile, AfterFailure, TypeOK, WorkerStates, Staging
<1>10. CASE ReplayNext
  <2> DEFINE n == staged.readModel.sequence + 1
  <2>1. n \in 1..Len(log)
    BY <1>0, <1>10 DEF ReplayNext, TypeOK, Model
  <2>2. log[n] \in Entry /\ log[n].event \in Event
    <3>1. log \in Seq(Entry)
      BY <1>0 DEF TypeOK
    <3>2. log[n] \in Entry
      BY <2>1, <3>1
    <3> QED
      BY <3>2 DEF Entry
  <2>3. ProjectOnto(staged.readModel.model, log[n].event) \in ReadModel
    BY <1>0, <2>2, ProjectOntoType DEF TypeOK, Model
  <2>4. Projected(staged.readModel, log[n].event, n) \in Model
    BY <2>1, <2>3 DEF Projected, Model
  <2> QED
    BY <1>0, <1>10, <2>4 DEF ReplayNext, TypeOK
<1>11. CASE ReplayDone
  BY <1>0, <1>11, NumbersType, NothingStagedType
     DEF ReplayDone, TypeOK, WorkerStates, Model, Staging
<1>12. CASE StoreRejection
  BY <1>0, <1>12, CurrentCall
     DEF StoreRejection, TypeOK, WorkerStates, Rejected, Receipt, Model
<1>13. CASE CompleteCall
  <2>1. [calls[current] EXCEPT !.reply = outcome] \in Call
    BY <1>0, <1>13, CurrentCall DEF CompleteCall, TypeOK, Call
  <2> QED
    BY <1>0, <1>13, <2>1, CurrentCall
       DEF CompleteCall, TypeOK, WorkerStates, Waiting, Reply
<1>14. CASE LookupFails
  BY <1>0, <1>14 DEF LookupFails, Fault, TypeOK, WorkerStates, Failed, Reply
<1>15. CASE EventIdFails
  BY <1>0, <1>15 DEF EventIdFails, Fault, TypeOK, WorkerStates, Refused, Reply
<1>16. CASE TransactionFails
  BY <1>0, <1>16, NothingStagedType
     DEF TransactionFails, Fault, TypeOK, WorkerStates, Failed, Reply, Staging
<1>17. CASE CommitUnacknowledged
  BY <1>0, <1>17, CurrentCall, NothingStagedType
     DEF CommitUnacknowledged, MakeDurable, Fault, TypeOK, WorkerStates, Accepted, Receipt,
         Failed, Reply, Staging
<1>18. CASE ReconcileFails
  BY <1>0, <1>18, NothingStagedType
     DEF ReconcileFails, AfterFailure, Fault, TypeOK, WorkerStates, Staging
<1>19. CASE StoreRejectionFails
  BY <1>0, <1>19, CurrentCall DEF StoreRejectionFails, Fault, TypeOK, WorkerStates
<1>20. CASE Crash
  <2>0. calls \in Seq(Call) /\ calls \in [1..Len(calls) -> Call] /\ Len(calls) \in Nat
    BY <1>0 DEF TypeOK
  <2>1. \A k \in 1..Len(calls) :
           calls[k] \in Call /\ [calls[k] EXCEPT !.reply = Lost] \in Call
    BY <2>0 DEF Call, Lost, Reply
  <2>2. calls' \in Seq(Call)
    <3>1. calls' = [k \in 1..Len(calls) |->
                       IF calls[k].reply = Waiting THEN [calls[k] EXCEPT !.reply = Lost]
                       ELSE calls[k]]
      BY <1>20, <2>0 DEF Crash
    <3>2. calls' \in [1..Len(calls) -> Call]
      BY <2>1, <3>1
    <3> QED
      BY <2>0, <3>2
  <2>3. /\ staged' \in Staging /\ readModel' \in Model /\ outcome' \in Reply
        /\ pc' \in WorkerStates /\ current' \in Nat /\ crashes' \in Nat
    BY <1>0, <1>20, NothingStagedType DEF Crash, TypeOK, WorkerStates, Waiting, Reply
  <2>4. /\ queue' \in Seq(Nat) /\ plan' \in Seq(Event)
        /\ unpublished' \in Seq(Nat) /\ published' \in Seq(Nat)
    BY <1>20 DEF Crash
  <2>5. UNCHANGED <<log, receipts, tables, bootSequence, stale, everStale, unrecorded, faults>>
    BY <1>20 DEF Crash
  <2> QED
    BY <1>0, <2>2, <2>3, <2>4, <2>5 DEF TypeOK, Staging
<1>21. CASE Start
  <2>1. Len(log) \in Nat /\ tables \in ReadModel
    BY <1>0 DEF TypeOK
  <2>2. /\ readModel' \in Model /\ bootSequence' \in Nat
        /\ stale' \in BOOLEAN /\ pc' \in WorkerStates
    BY <1>21, <2>1 DEF Start, Model, WorkerStates
  <2> QED
    BY <1>0, <1>21, <2>2 DEF Start, TypeOK
<1>22. CASE UNCHANGED vars
  BY <1>0, <1>22 DEF vars, TypeOK
<1> QED
  BY <1>1, <1>2, <1>3, <1>4, <1>5, <1>6, <1>7, <1>8, <1>9, <1>10, <1>11, <1>12, <1>13,
     <1>14, <1>15, <1>16, <1>17, <1>18, <1>19, <1>20, <1>21, <1>22
     DEF Next, WorkerStep, StorageFault

(* Every step keeps what the worker relies on.                             *)
LEMMA WorkerStepOK ==
    IInv /\ [Next]_vars => CurrentOK' /\ DecidingOK' /\ StagedOK' /\ OutcomeOK'
<1> SUFFICES ASSUME IInv, [Next]_vars
             PROVE  CurrentOK' /\ DecidingOK' /\ StagedOK' /\ OutcomeOK'
  OBVIOUS
<1> USE DEF durable, worker, environment, history
<1>0. TypeOK /\ CurrentOK /\ DecidingOK /\ StagedOK /\ OutcomeOK
  BY DEF IInv
<1>1. ASSUME NEW id \in CommandIds, NEW c \in Commands, Dispatch(id, c)
      PROVE  CurrentOK' /\ DecidingOK' /\ StagedOK' /\ OutcomeOK'
  <2>1. calls' = Append(calls, [id |-> id, command |-> c, reply |-> Waiting])
        /\ Len(calls') = Len(calls) + 1
        /\ Len(calls) \in Nat
        /\ \A k \in 1..Len(calls) : calls'[k] = calls[k]
    BY <1>0, <1>1 DEF Dispatch, TypeOK
  <2>2. pc \notin {"down", "idle"} => ThisId' = ThisId /\ ThisCommand' = ThisCommand
    BY <1>0, <1>1, <2>1 DEF Dispatch, CurrentOK, ThisId, ThisCommand
  <2>3. CurrentOK'
    <3>1. queue' = Append(queue, Len(calls) + 1) /\ queue \in Seq(Nat)
      BY <1>0, <1>1 DEF Dispatch, TypeOK
    <3>2. \A i \in 1..Len(queue') : queue'[i] \in 1..Len(calls')
      BY <1>0, <2>1, <3>1 DEF CurrentOK
    <3>3. UNCHANGED <<pc, current, outcome>>
      BY <1>1 DEF Dispatch
    <3> QED
      BY <1>0, <2>1, <3>2, <3>3 DEF CurrentOK
  <2>4. outcome.status = "ok" => pc \notin {"down", "idle"}
    BY <1>0 DEF CurrentOK, Waiting
  <2> QED
    BY <1>0, <1>1, <2>2, <2>3, <2>4 DEF Dispatch, DecidingOK, StagedOK, OutcomeOK, Remembered, Undecided
<1>2. CASE Take
  BY <1>0, <1>2
     DEF Take, Waiting, TypeOK, CurrentOK, DecidingOK, StagedOK, OutcomeOK,
         Remembered, Undecided, ThisId
<1>3. CASE LookupReceipt
  <2>1. receipts[ThisId] \in Receipt
    BY <1>0, <1>3, CurrentCall DEF LookupReceipt, TypeOK
  <2>2. receipts[ThisId].status = "accepted" =>
            receipts[ThisId] = Accepted(receipts[ThisId].sequence)
    BY <2>1 DEF Receipt, Accepted
  <2>3. ThisId' = ThisId /\ UNCHANGED <<receipts, log, staged, plan, calls, queue, current>>
    BY <1>3 DEF LookupReceipt, ThisId
  <2>4. OutcomeOK'
    BY <1>0, <1>3, <2>2, <2>3 DEF LookupReceipt, OutcomeOK, Remembered, Ok, Refused
  <2>5. CurrentOK' /\ DecidingOK' /\ StagedOK'
    BY <1>0, <1>3, <2>3 DEF LookupReceipt, CurrentOK, DecidingOK, StagedOK, Undecided
  <2> QED
    BY <2>4, <2>5
<1>4. CASE DecideCommand
  BY <1>0, <1>4
     DEF DecideCommand, Refused, TypeOK, CurrentOK, DecidingOK, StagedOK, OutcomeOK,
         Remembered, Undecided, ThisId
<1>5. CASE AppendNext
  <2>1. /\ pc = "transaction" /\ plan # <<>> /\ plan' = Tail(plan) /\ ThisId' = ThisId
        /\ UNCHANGED <<log, receipts, calls, queue, current, pc, outcome, unrecorded>>
    BY <1>5 DEF AppendNext, ThisId
  <2>2. staged'.log = Append(staged.log, [command |-> ThisId, event |-> Head(plan)])
    BY <1>5 DEF AppendNext
  <2>3. staged.log \in Seq(Entry) /\ log \in Seq(Entry) /\ plan \in Seq(Event)
    BY <1>0 DEF TypeOK
  <2>4. StagedOK'
    BY <1>0, <2>1, <2>2, <2>3 DEF StagedOK
  <2> QED
    BY <1>0, <2>1, <2>4 DEF CurrentOK, DecidingOK, OutcomeOK, Remembered, Undecided
<1>6. CASE Commit
  BY <1>0, <1>6, CurrentCall
     DEF Commit, MakeDurable, Ok, Accepted, TypeOK, CurrentOK, DecidingOK, StagedOK, OutcomeOK,
         Remembered, Undecided, ThisId
<1>7. CASE Publish
  BY <1>0, <1>7
     DEF Publish, TypeOK, CurrentOK, DecidingOK, StagedOK, OutcomeOK,
         Remembered, Undecided, ThisId
<1>8. CASE PublishDone
  BY <1>0, <1>8
     DEF PublishDone, AfterFailure, TypeOK, CurrentOK, DecidingOK, StagedOK, OutcomeOK,
         Remembered, Undecided, ThisId
<1>9. CASE Reconcile
  BY <1>0, <1>9
     DEF Reconcile, AfterFailure, TypeOK, CurrentOK, DecidingOK, StagedOK, OutcomeOK,
         Remembered, Undecided, ThisId
<1>10. CASE ReplayNext
  BY <1>0, <1>10
     DEF ReplayNext, TypeOK, CurrentOK, DecidingOK, StagedOK, OutcomeOK,
         Remembered, Undecided, ThisId
<1>11. CASE ReplayDone
  BY <1>0, <1>11
     DEF ReplayDone, TypeOK, CurrentOK, DecidingOK, StagedOK, OutcomeOK,
         Remembered, Undecided, ThisId
<1>12. CASE StoreRejection
  BY <1>0, <1>12, CurrentCall
     DEF StoreRejection, Rejected, TypeOK, CurrentOK, DecidingOK, StagedOK, OutcomeOK,
         Remembered, Undecided, ThisId
<1>13. CASE CompleteCall
  BY <1>0, <1>13
     DEF CompleteCall, Waiting, TypeOK, CurrentOK, DecidingOK, StagedOK, OutcomeOK,
         Remembered, Undecided, ThisId
<1>14. CASE LookupFails
  BY <1>0, <1>14
     DEF LookupFails, Failed, Fault, TypeOK, CurrentOK, DecidingOK, StagedOK, OutcomeOK,
         Remembered, Undecided, ThisId
<1>15. CASE EventIdFails
  BY <1>0, <1>15
     DEF EventIdFails, Refused, Fault, TypeOK, CurrentOK, DecidingOK, StagedOK, OutcomeOK,
         Remembered, Undecided, ThisId
<1>16. CASE TransactionFails
  BY <1>0, <1>16
     DEF TransactionFails, Failed, Fault, TypeOK, CurrentOK, DecidingOK, StagedOK, OutcomeOK,
         Remembered, Undecided, ThisId
<1>17. CASE CommitUnacknowledged
  BY <1>0, <1>17
     DEF CommitUnacknowledged, MakeDurable, Failed, Fault, TypeOK, CurrentOK, DecidingOK, StagedOK, OutcomeOK,
         Remembered, Undecided, ThisId
<1>18. CASE ReconcileFails
  BY <1>0, <1>18
     DEF ReconcileFails, AfterFailure, Fault, TypeOK, CurrentOK, DecidingOK, StagedOK, OutcomeOK,
         Remembered, Undecided, ThisId
<1>19. CASE StoreRejectionFails
  BY <1>0, <1>19
     DEF StoreRejectionFails, Fault, TypeOK, CurrentOK, DecidingOK, StagedOK, OutcomeOK,
         Remembered, Undecided, ThisId
<1>20. CASE Crash
  BY <1>0, <1>20
     DEF Crash, Waiting, TypeOK, CurrentOK, DecidingOK, StagedOK, OutcomeOK,
         Remembered, Undecided, ThisId
<1>21. CASE Start
  BY <1>0, <1>21
     DEF Start, TypeOK, CurrentOK, DecidingOK, StagedOK, OutcomeOK,
         Remembered, Undecided, ThisId
<1>22. CASE UNCHANGED vars
  BY <1>0, <1>22
     DEF vars, CurrentOK, DecidingOK, StagedOK, OutcomeOK, Remembered, Undecided, ThisId
<1> QED
  BY <1>1, <1>2, <1>3, <1>4, <1>5, <1>6, <1>7, <1>8, <1>9, <1>10, <1>11, <1>12, <1>13,
     <1>14, <1>15, <1>16, <1>17, <1>18, <1>19, <1>20, <1>21, <1>22
     DEF Next, WorkerStep, StorageFault

(* A commit of the open transaction keeps AppliedOnce: the entries it adds *)
(* are one block of an id that had no entry before.                        *)
LEMMA CommitAppliesOnce ==
    ASSUME IInv, pc = "transaction", plan = <<>>, MakeDurable
    PROVE  AppliedOnce'
<1>0. /\ ThisId \in CommandIds /\ receipts[ThisId].status = "none"
      /\ log \in Seq(Entry) /\ staged.log \in Seq(Entry)
      /\ receipts \in [CommandIds -> Receipt]
  BY CurrentCall DEF IInv, TypeOK, DecidingOK, Undecided
<1>1. /\ Len(log) \in Nat /\ Len(staged.log) \in Nat /\ Len(log) < Len(staged.log)
      /\ \A i \in 1..Len(log) : staged.log[i] = log[i]
      /\ \A i \in 1..Len(staged.log) : i > Len(log) => staged.log[i].command = ThisId
  BY <1>0 DEF IInv, StagedOK
<1>2. /\ log' = staged.log
      /\ receipts'[ThisId] = Accepted(Len(staged.log))
      /\ \A id \in CommandIds : id # ThisId => receipts'[id] = receipts[id]
  BY <1>0 DEF MakeDurable
<1>3. \A i \in 1..Len(log) : log[i].command \in CommandIds /\ log[i].command # ThisId
  <2>1. \A i \in 1..Len(log) : log[i] \in Entry /\ receipts[log[i].command].status = "accepted"
    BY <1>0 DEF IInv, AppliedOnce
  <2> QED
    BY <1>0, <2>1 DEF Entry
<1>4. ASSUME NEW i \in 1..Len(log')
      PROVE  /\ receipts'[log'[i].command].status = "accepted"
             /\ receipts'[log'[i].command].sequence \in i..Len(log')
             /\ \A j \in i..receipts'[log'[i].command].sequence :
                    log'[j].command = log'[i].command
  <2>1. CASE i <= Len(log)
    <3> DEFINE r == receipts[log[i].command]
    <3>1. i \in 1..Len(log) /\ log'[i] = log[i] /\ receipts'[log[i].command] = r
      BY <1>1, <1>2, <1>3, <2>1
    <3>2. /\ r.status = "accepted" /\ r.sequence \in i..Len(log)
          /\ \A j \in i..r.sequence : log[j].command = log[i].command
      BY <3>1 DEF IInv, AppliedOnce
    <3>3. \A j \in i..r.sequence : j \in 1..Len(log) /\ log'[j] = log[j]
      BY <1>1, <1>2, <3>1, <3>2
    <3> QED
      BY <1>1, <1>2, <3>1, <3>2, <3>3
  <2>2. CASE i > Len(log)
    <3>1. \A j \in i..Len(staged.log) :
             j \in 1..Len(staged.log) /\ j > Len(log) /\ log'[j].command = ThisId
      BY <1>1, <1>2, <2>2
    <3>2. log'[i].command = ThisId
      BY <1>1, <1>2, <3>1
    <3> QED
      BY <1>1, <1>2, <3>1, <3>2 DEF Accepted
  <2> QED
    BY <1>1, <1>2, <2>1, <2>2
<1>5. ASSUME NEW id \in CommandIds, receipts'[id].status = "accepted"
      PROVE  /\ receipts'[id].sequence \in 1..Len(log')
             /\ log'[receipts'[id].sequence].command = id
  <2>1. CASE id = ThisId
    BY <1>1, <1>2, <2>1 DEF Accepted
  <2>2. CASE id # ThisId
    <3>1. /\ receipts'[id] = receipts[id]
          /\ receipts[id].sequence \in 1..Len(log)
          /\ log[receipts[id].sequence].command = id
      BY <1>2, <1>5, <2>2 DEF IInv, AppliedOnce
    <3> QED
      BY <1>1, <1>2, <3>1
  <2> QED
    BY <2>1, <2>2
<1> QED
  BY <1>4, <1>5 DEF AppliedOnce

(* A receipt of an id without one keeps every answer given.                *)
LEMMA ReceiptKeepsAnswers ==
    ASSUME IInv, CurrentOK, pc \notin {"down", "idle"}, Undecided(ThisId),
           UNCHANGED <<calls, unrecorded>>,
           NEW r, receipts' = [receipts EXCEPT ![ThisId] = r]
    PROVE  AnswersAreDurable'
<1>1. ThisId \in CommandIds /\ receipts \in [CommandIds -> Receipt] /\ calls \in Seq(Call)
  BY CurrentCall DEF IInv, TypeOK
<1>2. \A k \in DOMAIN calls : calls[k].id \in CommandIds
  <2>1. \A k \in DOMAIN calls : calls[k] \in Call
    BY <1>1
  <2> QED
    BY <2>1 DEF Call
<1>3. ASSUME NEW k \in DOMAIN calls, receipts[calls[k].id].status # "none"
      PROVE  receipts'[calls[k].id] = receipts[calls[k].id]
  BY <1>1, <1>2, <1>3 DEF Undecided
<1>4. \A k \in DOMAIN calls :
         LET id == calls[k].id
             reply == calls[k].reply
         IN  /\ reply.status = "ok" => receipts[id] = Accepted(reply.sequence)
             /\ reply.status = "rejected" =>
                    receipts[id].status = "rejected" \/ id \in unrecorded
  BY DEF IInv, AnswersAreDurable
<1> QED
  BY <1>3, <1>4 DEF AnswersAreDurable, Accepted

(* Every step keeps what the log, the receipts and the answers owe one     *)
(* another.                                                                *)
LEMMA LogStepOK ==
    IInv /\ [Next]_vars => AppliedOnce' /\ AnswersAreDurable'
<1> SUFFICES ASSUME IInv, [Next]_vars PROVE AppliedOnce' /\ AnswersAreDurable'
  OBVIOUS
<1> USE DEF durable, worker, environment, history
<1>0. /\ TypeOK /\ CurrentOK /\ DecidingOK /\ OutcomeOK /\ AppliedOnce /\ AnswersAreDurable
      /\ calls \in Seq(Call)
  BY DEF IInv, TypeOK
<1>1. CASE UNCHANGED <<log, receipts, calls, unrecorded>>
  BY <1>0, <1>1 DEF AppliedOnce, AnswersAreDurable
<1>2. ASSUME NEW id \in CommandIds, NEW c \in Commands, Dispatch(id, c)
      PROVE  AppliedOnce' /\ AnswersAreDurable'
  <2>1. UNCHANGED <<log, receipts, unrecorded>>
    BY <1>2 DEF Dispatch
  <2>2. \A k \in DOMAIN calls' :
           \/ k \in DOMAIN calls /\ calls'[k] = calls[k]
           \/ calls'[k].reply.status = "waiting"
    BY <1>0, <1>2 DEF Dispatch, Waiting
  <2> QED
    BY <1>0, <2>1, <2>2 DEF AppliedOnce, AnswersAreDurable
<1>3. CASE Commit
  BY <1>0, <1>3, CommitAppliesOnce, ReceiptKeepsAnswers DEF Commit, MakeDurable, DecidingOK
<1>4. CASE CommitUnacknowledged
  BY <1>0, <1>4, CommitAppliesOnce, ReceiptKeepsAnswers
     DEF CommitUnacknowledged, MakeDurable, DecidingOK
<1>5. CASE StoreRejection
  <2>1. Undecided(ThisId) /\ ThisId \in CommandIds /\ UNCHANGED <<log, calls>>
    BY <1>0, <1>5, CurrentCall DEF StoreRejection, DecidingOK
  <2>2. AnswersAreDurable'
    BY <1>0, <1>5, <2>1, ReceiptKeepsAnswers DEF StoreRejection
  <2>3. /\ receipts'[ThisId].status = "rejected"
        /\ \A id \in CommandIds : id # ThisId => receipts'[id] = receipts[id]
    BY <1>0, <1>5, <2>1 DEF StoreRejection, Rejected, TypeOK
  <2>4. \A i \in 1..Len(log) : log[i].command \in CommandIds /\ log[i].command # ThisId
    <3>1. \A i \in 1..Len(log) : log[i] \in Entry
      BY <1>0 DEF TypeOK
    <3> QED
      BY <1>0, <2>1, <3>1 DEF Entry, AppliedOnce, Undecided
  <2>5. AppliedOnce'
    BY <1>0, <2>1, <2>3, <2>4 DEF AppliedOnce
  <2> QED
    BY <2>2, <2>5
<1>6. CASE CompleteCall
  <2>1. UNCHANGED <<log, receipts, unrecorded>>
    BY <1>6 DEF CompleteCall
  <2>2. /\ current \in DOMAIN calls /\ DOMAIN calls' = DOMAIN calls
        /\ \A k \in DOMAIN calls : k # current => calls'[k] = calls[k]
        /\ calls'[current].reply = outcome /\ calls'[current].id = ThisId
        /\ \A k \in DOMAIN calls : calls'[k].id = calls[k].id
    BY <1>0, <1>6, CurrentCall DEF CompleteCall, Call, ThisId
  <2>3. AppliedOnce'
    BY <1>0, <2>1 DEF AppliedOnce
  <2>4. /\ outcome.status = "ok" => receipts[ThisId] = Accepted(outcome.sequence)
        /\ outcome.status = "rejected" => Remembered(ThisId)
    BY <1>0, <1>6 DEF CompleteCall, OutcomeOK
  <2> QED
    BY <1>0, <2>1, <2>2, <2>3, <2>4 DEF AnswersAreDurable, Remembered
<1>7. CASE Crash
  <2>1. UNCHANGED <<log, receipts, unrecorded>>
    BY <1>7 DEF Crash
  <2>2. /\ DOMAIN calls' = DOMAIN calls
        /\ \A k \in DOMAIN calls : calls'[k] = calls[k] \/ calls'[k].reply.status = "lost"
    <3>1. \A k \in DOMAIN calls : calls[k] \in Call
      BY <1>0
    <3> QED
      BY <1>0, <1>7, <3>1 DEF Crash, Lost, Call
  <2> QED
    BY <1>0, <2>1, <2>2 DEF AppliedOnce, AnswersAreDurable
<1>8. CASE StoreRejectionFails
  <2>1. UNCHANGED <<log, receipts, calls>> /\ unrecorded \subseteq unrecorded'
    BY <1>8 DEF StoreRejectionFails
  <2> QED
    BY <1>0, <2>1 DEF AppliedOnce, AnswersAreDurable
<1>9. \/ UNCHANGED <<log, receipts, calls, unrecorded>>
      \/ \E id \in CommandIds, c \in Commands : Dispatch(id, c)
      \/ Commit \/ CommitUnacknowledged \/ StoreRejection \/ CompleteCall \/ Crash
      \/ StoreRejectionFails
  BY DEF Next, WorkerStep, StorageFault, vars, Take, LookupReceipt, DecideCommand, AppendNext,
         Publish, PublishDone, Reconcile, ReplayNext, ReplayDone, LookupFails, EventIdFails,
         TransactionFails, ReconcileFails, Start
<1> QED
  BY <1>1, <1>2, <1>3, <1>4, <1>5, <1>6, <1>7, <1>8, <1>9

-----------------------------------------------------------------------------
(* The inductive invariant holds in every reachable state.                 *)
THEOREM Invariance == Spec => []IInv
<1>1. IInv /\ [Next]_vars => IInv'
  BY TypeStep, WorkerStepOK, LogStepOK DEF IInv
<1> QED
  BY InitialState, <1>1, PTL DEF Spec

(* The engine's variables keep their types, for any set of commands.       *)
THEOREM TypeCorrectness == Spec => []TypeOK
<1>1. IInv => TypeOK
  BY DEF IInv
<1> QED
  BY Invariance, <1>1, PTL

(* Whatever is retried, fails or crashes: the events of a command id are   *)
(* in the log at most once, in one block its receipt names.                *)
THEOREM ExactlyOnce == Spec => []AppliedOnce
<1>1. IInv => AppliedOnce
  BY DEF IInv
<1> QED
  BY Invariance, <1>1, PTL

(* An answer, and that a refusal was stored or could not be, stays with the *)
(* receipt of its id for ever.                                             *)
THEOREM DurableAnswers == Spec => []AnswersAreDurable
<1>1. IInv => AnswersAreDurable
  BY DEF IInv
<1> QED
  BY Invariance, <1>1, PTL

(* The upsert of a receipt never meets one.                                *)
THEOREM FinalReceipts == Spec => ReceiptsAreFinal
<1>1. IInv /\ [Next]_vars =>
          [\A id \in CommandIds : receipts[id].status # "none" => receipts'[id] = receipts[id]]_vars
  <2> SUFFICES ASSUME IInv, [Next]_vars, NEW id \in CommandIds, receipts[id].status # "none"
               PROVE  receipts'[id] = receipts[id]
    OBVIOUS
  <2> USE DEF durable, worker, environment, history
  <2>0. TypeOK /\ CurrentOK /\ DecidingOK /\ receipts \in [CommandIds -> Receipt]
    BY DEF IInv, TypeOK
  <2>1. CASE Commit \/ CommitUnacknowledged
    BY <2>0, <2>1, CurrentCall DEF Commit, CommitUnacknowledged, MakeDurable, DecidingOK, Undecided
  <2>2. CASE StoreRejection
    BY <2>0, <2>2, CurrentCall DEF StoreRejection, DecidingOK, Undecided
  <2>3. UNCHANGED receipts \/ Commit \/ CommitUnacknowledged \/ StoreRejection
    BY DEF Next, WorkerStep, StorageFault, vars, Take, LookupReceipt, DecideCommand, AppendNext,
           Publish, PublishDone, Reconcile, ReplayNext, ReplayDone, LookupFails, EventIdFails,
           TransactionFails, ReconcileFails, StoreRejectionFails, Start, Dispatch, CompleteCall,
           Crash
  <2> QED
    BY <2>1, <2>2, <2>3
<1> QED
  BY Invariance, <1>1, PTL DEF Spec, ReceiptsAreFinal

(* No commit rewrites or removes an event.                                 *)
THEOREM AppendOnlyLog == Spec => LogOnlyGrows
<1>1. IInv /\ [Next]_vars => [IsPrefix(log, log')]_vars
  <2> SUFFICES ASSUME IInv, [Next]_vars PROVE IsPrefix(log, log')
    OBVIOUS
  <2> USE DEF durable, worker, environment, history
  <2>0. TypeOK /\ StagedOK /\ log \in Seq(Entry) /\ staged.log \in Seq(Entry)
    BY DEF IInv, TypeOK
  <2>1. CASE Commit \/ CommitUnacknowledged
    <3>1. /\ log' = staged.log /\ Len(log) <= Len(staged.log)
          /\ \A i \in 1..Len(log) : staged.log[i] = log[i]
      BY <2>0, <2>1 DEF Commit, CommitUnacknowledged, MakeDurable, StagedOK
    <3> QED
      BY <2>0, <3>1 DEF IsPrefix
  <2>2. CASE UNCHANGED log
    BY <2>0, <2>2 DEF IsPrefix
  <2>3. UNCHANGED log \/ Commit \/ CommitUnacknowledged
    BY DEF Next, WorkerStep, StorageFault, vars, Take, LookupReceipt, DecideCommand, AppendNext,
           Publish, PublishDone, Reconcile, ReplayNext, ReplayDone, LookupFails, EventIdFails,
           TransactionFails, ReconcileFails, StoreRejection, StoreRejectionFails, Start, Dispatch,
           CompleteCall, Crash
  <2> QED
    BY <2>1, <2>2, <2>3
<1> QED
  BY Invariance, <1>1, PTL DEF Spec, LogOnlyGrows

-----------------------------------------------------------------------------
(***************************************************************************)
(* The tables are the replay of the log, and the read model is what is     *)
(* stored.  ReplayTo gives the model after each prefix of the log (and, in *)
(* a transaction, of the log it has staged).  A reconciliation that reads  *)
(* the missing events walks along these models, which is why it ends at    *)
(* the tables.                                                             *)
(***************************************************************************)
ReplayTo(entries, n) == Replay([i \in 1..n |-> entries[i].event])

LEMMA ReplayToNothing ==
    ASSUME NEW entries PROVE ReplayTo(entries, 0) = EmptyReadModel
<1>1. [i \in 1..0 |-> entries[i].event] = <<>>
  OBVIOUS
<1> QED
  BY <1>1, ReplayOfNothing DEF ReplayTo

LEMMA ReplayToNext ==
    ASSUME NEW entries \in Seq(Entry), NEW n \in 1..Len(entries)
    PROVE  ReplayTo(entries, n) = ProjectOnto(ReplayTo(entries, n - 1), entries[n].event)
<1> DEFINE before == [i \in 1..(n - 1) |-> entries[i].event]
           after == [i \in 1..n |-> entries[i].event]
<1>1. \A i \in 1..n : entries[i].event \in Event
  <2>1. \A i \in 1..n : entries[i] \in Entry
    OBVIOUS
  <2> QED
    BY <2>1 DEF Entry
<1>2. before \in Seq(Event) /\ after \in Seq(Event) /\ n - 1 \in Nat
      /\ Len(before) = n - 1 /\ Len(after) = n
  BY <1>1
<1>3. after = Append(before, entries[n].event)
  BY <1>1, <1>2
<1> HIDE DEF before, after
<1>4. Replay(after) = ProjectOnto(Replay(before), entries[n].event)
  BY <1>1, <1>2, <1>3, ReplayOfAppend
<1> QED
  BY <1>4 DEF ReplayTo, before, after

(* A replay depends on the prefix only.                                    *)
LEMMA ReplayToAgrees ==
    ASSUME NEW entries, NEW more, NEW n \in Nat, \A i \in 1..n : entries[i] = more[i]
    PROVE  ReplayTo(entries, n) = ReplayTo(more, n)
<1>1. [i \in 1..n |-> entries[i].event] = [i \in 1..n |-> more[i].event]
  OBVIOUS
<1> QED
  BY <1>1 DEF ReplayTo

Settled == {"idle", "lookup", "decide", "transaction", "publish", "receipt", "reply"}

MemoryOK ==
    /\ readModel.sequence <= Len(log)
    /\ readModel.model = ReplayTo(log, readModel.sequence)
    /\ pc \in Settled => readModel.sequence = Len(log)
    /\ pc = "transaction" =>
          /\ staged.readModel.sequence = Len(staged.log)
          /\ staged.readModel.model = ReplayTo(staged.log, Len(staged.log))
    /\ pc = "replay" =>
          /\ staged.readModel.sequence \in readModel.sequence..Len(log)
          /\ staged.readModel.model = ReplayTo(log, staged.readModel.sequence)

Stored ==
    /\ tables = ReplayTo(log, Len(log))
    /\ pc = "transaction" => staged.tables = ReplayTo(staged.log, Len(staged.log))
    /\ pc # "down" /\ ~stale => MemoryOK

LEMMA InitiallyStored == Init => Stored
<1> SUFFICES ASSUME Init PROVE Stored
  OBVIOUS
<1>1. log = <<>> /\ Len(log) = 0 /\ tables = EmptyReadModel /\ pc = "idle" /\ readModel = EmptyModel
  BY DEF Init
<1>2. ReplayTo(log, 0) = EmptyReadModel
  BY ReplayToNothing
<1> QED
  BY <1>1, <1>2 DEF Stored, MemoryOK, EmptyModel, Settled

LEMMA StoredStep == IInv /\ Stored /\ [Next]_vars => Stored'
<1> SUFFICES ASSUME IInv, Stored, [Next]_vars PROVE Stored'
  OBVIOUS
<1> USE DEF durable, worker, environment, history
<1>0. /\ TypeOK /\ StagedOK /\ log \in Seq(Entry) /\ staged.log \in Seq(Entry)
      /\ Len(log) \in Nat /\ Len(staged.log) \in Nat
      /\ readModel.sequence \in Nat /\ staged.readModel.sequence \in Nat
  BY DEF IInv, TypeOK, Model
<1>1. CASE AppendNext
  <2> DEFINE e == Head(plan)
             n == Len(staged.log) + 1
  <2>1. /\ pc = "transaction" /\ e \in Event /\ n \in Nat /\ n - 1 = Len(staged.log)
        /\ staged'.log = Append(staged.log, [command |-> ThisId, event |-> e])
        /\ staged'.tables = ProjectOnto(staged.tables, e)
        /\ staged'.readModel = Projected(staged.readModel, e, n)
        /\ UNCHANGED <<log, tables, readModel, pc, stale>>
    BY <1>0, <1>1 DEF AppendNext, TypeOK
  <2>2. /\ Len(staged'.log) = n /\ staged'.log[n].event = e
        /\ \A m \in 1..Len(staged.log) : staged'.log[m] = staged.log[m]
    BY <1>0, <2>1
  <2>3. staged'.log \in Seq(Entry) /\ n \in 1..Len(staged'.log)
    <3>1. [command |-> ThisId, event |-> e] \in Entry
      BY <1>0, <2>1, CurrentCall DEF IInv, Entry
    <3> QED
      BY <1>0, <2>1, <2>2, <3>1
  <2>4. ReplayTo(staged'.log, n) = ProjectOnto(ReplayTo(staged'.log, n - 1), e)
    BY <2>2, <2>3, ReplayToNext
  <2>5. ReplayTo(staged'.log, n - 1) = ReplayTo(staged.log, Len(staged.log))
    <3>1. ReplayTo(staged'.log, Len(staged.log)) = ReplayTo(staged.log, Len(staged.log))
      <4> HIDE DEF n, e
      <4> QED
        BY <1>0, <2>2, ReplayToAgrees
    <3> QED
      BY <2>1, <3>1
  <2> HIDE DEF e, n
  <2>6. staged'.tables = ReplayTo(staged'.log, Len(staged'.log))
    BY <2>1, <2>2, <2>4, <2>5 DEF Stored
  <2>7. ~stale => MemoryOK'
    BY <2>1, <2>2, <2>4, <2>5 DEF Stored, MemoryOK, Projected
  <2> QED
    BY <2>1, <2>6, <2>7 DEF Stored
<1>2. CASE Commit
  BY <1>0, <1>2 DEF Commit, MakeDurable, Stored, MemoryOK, Settled
<1>3. CASE CommitUnacknowledged
  <2>1. /\ pc = "transaction" /\ pc' = "reconcile" /\ log' = staged.log /\ tables' = staged.tables
        /\ UNCHANGED <<readModel, stale>>
        /\ Len(log) <= Len(staged.log) /\ \A i \in 1..Len(log) : staged.log[i] = log[i]
    BY <1>0, <1>3 DEF CommitUnacknowledged, MakeDurable, StagedOK
  <2>2. ReplayTo(staged.log, Len(log)) = ReplayTo(log, Len(log))
    BY <1>0, <2>1, ReplayToAgrees
  <2> QED
    BY <1>0, <2>1, <2>2 DEF Stored, MemoryOK, Settled
<1>4. CASE TransactionFails \/ DecideCommand
  BY <1>0, <1>4 DEF TransactionFails, DecideCommand, Fault, Stored, MemoryOK, Settled
<1>5. CASE ReplayNext
  <2> DEFINE n == staged.readModel.sequence + 1
  <2>1. /\ n \in 1..Len(log) /\ n - 1 = staged.readModel.sequence
        /\ pc = "replay" /\ pc' = "replay"
        /\ staged'.readModel = Projected(staged.readModel, log[n].event, n)
        /\ UNCHANGED <<log, tables, readModel, stale>>
    <3>1. n <= Len(log) /\ pc = "replay" /\ UNCHANGED <<log, tables, readModel, stale, pc>>
      BY <1>5 DEF ReplayNext
    <3>2. staged' = [staged EXCEPT !.readModel = Projected(@, log[n].event, n)]
      BY <1>5 DEF ReplayNext
    <3>3. staged'.readModel = Projected(staged.readModel, log[n].event, n)
      <4> HIDE DEF n
      <4> QED
        BY <1>0, <3>2 DEF TypeOK
    <3> QED
      BY <1>0, <3>1, <3>3
  <2>2. ReplayTo(log, n) = ProjectOnto(ReplayTo(log, n - 1), log[n].event)
    BY <1>0, <2>1, ReplayToNext
  <2>3. ~stale => MemoryOK'
    BY <1>0, <2>1, <2>2 DEF Stored, MemoryOK, Settled, Projected
  <2> QED
    BY <2>1, <2>3 DEF Stored
<1>6. CASE ReplayDone \/ Start \/ Crash
  BY <1>0, <1>6 DEF ReplayDone, Start, Crash, Stored, MemoryOK, Settled
<1>7. CASE Reconcile
  <2>1. /\ UNCHANGED <<log, tables, readModel, stale>> /\ pc = "reconcile"
        /\ \/ readModel.sequence = Len(log) /\ pc' \in {"receipt", "reply"}
           \/ /\ readModel.sequence < Len(log) /\ pc' = "replay"
              /\ staged'.readModel = readModel
    BY <1>7 DEF Reconcile, AfterFailure, NothingStaged
  <2> QED
    BY <1>0, <2>1 DEF Stored, MemoryOK, Settled
<1>8. CASE ReconcileFails
  <2>1. /\ UNCHANGED <<log, tables, readModel>> /\ pc \in {"reconcile", "replay"}
        /\ pc' \in {"receipt", "reply"}
        /\ ~stale' => ~stale /\ ~(readModel.sequence < Len(log))
    BY <1>0, <1>8 DEF ReconcileFails, AfterFailure, TypeOK
  <2>2. ~stale' => MemoryOK'
    BY <1>0, <2>1 DEF Stored, MemoryOK, Settled
  <2> QED
    BY <2>1, <2>2 DEF Stored
<1>9. CASE /\ UNCHANGED <<log, tables, staged, readModel, stale>>
           /\ pc \in Settled \ {"transaction"} /\ pc' \in Settled \ {"transaction"}
  BY <1>9 DEF Stored, MemoryOK, Settled
<1>10. CASE LookupFails \/ EventIdFails
  BY <1>0, <1>10 DEF LookupFails, EventIdFails, Fault, Stored, MemoryOK, Settled
<1>11. CASE UNCHANGED <<log, tables, staged, readModel, stale, pc>>
  BY <1>11 DEF Stored, MemoryOK
<1>12. \/ Take \/ LookupReceipt \/ PublishDone \/ StoreRejection \/ CompleteCall
       \/ StoreRejectionFails
       => <1>9!1
  BY DEF Take, LookupReceipt, PublishDone, AfterFailure, StoreRejection, CompleteCall,
         StoreRejectionFails, Fault, Settled
<1>13. (\E id \in CommandIds, c \in Commands : Dispatch(id, c)) \/ Publish \/ UNCHANGED vars
       => UNCHANGED <<log, tables, staged, readModel, stale, pc>>
  BY DEF Dispatch, Publish, vars
<1> QED
  BY <1>1, <1>2, <1>3, <1>4, <1>5, <1>6, <1>7, <1>8, <1>9, <1>10, <1>11, <1>12, <1>13
     DEF Next, WorkerStep, StorageFault

LEMMA StoredInvariance == Spec => [](IInv /\ Stored)
<1>1. Init => IInv /\ Stored
  BY InitialState, InitiallyStored
<1>2. (IInv /\ Stored) /\ [Next]_vars => (IInv /\ Stored)'
  BY TypeStep, WorkerStepOK, LogStepOK, StoredStep DEF IInv
<1> QED
  BY <1>1, <1>2, PTL DEF Spec

(* Commands are decided on what is stored: between commands, and after any *)
(* number of faults, crashes and restarts, the in-memory read model equals *)
(* the projection tables unless a reconciliation failed.                   *)
THEOREM MemoryIsStored == Spec => []ReadModelIsStored
<1>1. Stored => ReadModelIsStored
  BY DEF Stored, MemoryOK, Settled, ReadModelIsStored
<1> QED
  BY StoredInvariance, <1>1, PTL

(* However the tables came about, event by event in transactions some of   *)
(* which rolled back, they are what a replay of the log from its beginning *)
(* computes.                                                               *)
THEOREM TablesAreTheReplay == Spec => []TablesAreReplay
<1>1. Stored => TablesAreReplay
  BY DEF Stored, ReplayTo, TablesAreReplay, Events
<1> QED
  BY StoredInvariance, <1>1, PTL

-----------------------------------------------------------------------------
(***************************************************************************)
(* The log is a serial execution.  While a transaction is open, what it    *)
(* has staged and what is still planned are together the decision of the   *)
(* command on the model the log stands for; the commit makes it a block,   *)
(* and a block is only ever followed by others.                            *)
(***************************************************************************)
DecidedAt(entries, s, n, c) ==
    [i \in 1..(n - s + 1) |-> entries[s + i - 1].event] = Decide(ReplayTo(entries, s - 1), c)

BlockAt(entries, s, n) ==
    /\ s \in 1..n
    /\ \A j \in s..n : entries[j].command = entries[n].command
    /\ s = 1 \/ entries[s - 1].command # entries[n].command

PlanFollows ==
    LET events == Decide(readModel.model, ThisCommand)
        done == Len(staged.log) - Len(log)
    IN  /\ Len(events) = done + Len(plan)
        /\ \A i \in 1..done : staged.log[Len(log) + i].event = events[i]
        /\ \A i \in 1..Len(plan) : plan[i] = events[done + i]

SerialAt(k) ==
    LET r == receipts[calls[k].id] IN
    r.status = "accepted" =>
        \E s \in Nat : BlockAt(log, s, r.sequence) /\ DecidedAt(log, s, r.sequence, calls[k].command)

SerialOK ==
    /\ stale => everStale
    /\ \A k, l \in 1..Len(calls) :
          calls[k].id = calls[l].id => calls[k].command = calls[l].command
    /\ \A id \in CommandIds :
          receipts[id].status = "accepted" => \E k \in 1..Len(calls) : calls[k].id = id
    /\ ~everStale /\ pc = "transaction" => PlanFollows
    /\ ~everStale => \A k \in 1..Len(calls) : SerialAt(k)

LEMMA BlockStartIs ==
    ASSUME NEW n \in Nat, NEW s \in Nat, BlockAt(log, s, n)
    PROVE  BlockStart(n) = s
<1> DEFINE Start0(t) == /\ \A j \in t..n : log[j].command = log[n].command
                        /\ t = 1 \/ log[t - 1].command # log[n].command
<1>1. s \in 1..n /\ Start0(s)
  BY DEF BlockAt
<1>2. ASSUME NEW t \in 1..n, Start0(t) PROVE t = s
  <2>1. CASE t < s
    <3>1. s - 1 \in t..n /\ s # 1
      BY <1>1, <2>1
    <3> QED
      BY <1>1, <1>2, <3>1
  <2>2. CASE s < t
    <3>1. t - 1 \in s..n /\ t # 1
      BY <1>1, <2>2
    <3> QED
      BY <1>1, <1>2, <3>1
  <2> QED
    BY <1>1, <2>1, <2>2
<1>3. BlockStart(n) = CHOOSE t \in 1..n : Start0(t)
  BY DEF BlockStart
<1> HIDE DEF Start0
<1> QED
  BY <1>1, <1>2, <1>3

(* A block is not changed by what follows it.                              *)
LEMMA BlocksStay ==
    ASSUME NEW entries, NEW more, NEW m \in Nat, \A i \in 1..m : entries[i] = more[i],
           NEW s \in Nat, NEW n \in 1..m, NEW c,
           BlockAt(entries, s, n), DecidedAt(entries, s, n, c)
    PROVE  BlockAt(more, s, n) /\ DecidedAt(more, s, n, c)
<1>1. s \in 1..n /\ s - 1 \in Nat
  BY DEF BlockAt
<1>2. BlockAt(more, s, n)
  BY <1>1 DEF BlockAt
<1>3. ReplayTo(entries, s - 1) = ReplayTo(more, s - 1)
  BY <1>1, ReplayToAgrees
<1>4. [i \in 1..(n - s + 1) |-> entries[s + i - 1].event]
          = [i \in 1..(n - s + 1) |-> more[s + i - 1].event]
  <2>1. \A i \in 1..(n - s + 1) : s + i - 1 \in 1..m
    BY <1>1
  <2> QED
    BY <2>1
<1> QED
  BY <1>2, <1>3, <1>4 DEF DecidedAt

LEMMA InitiallySerial == Init => SerialOK
  BY DEF Init, SerialOK, NoReceipt

(* Steps that keep the log, the receipts and the transaction.              *)
LEMMA QuietKeepsSerial ==
    ASSUME SerialOK, UNCHANGED <<log, receipts, calls>>,
           pc' # "transaction", (stale' => everStale'), (everStale => everStale'),
           everStale \in BOOLEAN, everStale' \in BOOLEAN
    PROVE  SerialOK'
<1>1. ASSUME NEW k \in 1..Len(calls), ~everStale' PROVE SerialAt(k)'
  BY <1>1 DEF SerialOK, SerialAt
<1> QED
  BY <1>1 DEF SerialOK

(* A commit makes the plan of the command a block.                         *)
LEMMA CommitIsSerial ==
    ASSUME IInv, Stored, SerialOK, pc = "transaction", plan = <<>>, MakeDurable,
           UNCHANGED <<calls, stale, everStale>>, pc' # "transaction"
    PROVE  SerialOK'
<1>0. /\ ThisId \in CommandIds /\ receipts[ThisId].status = "none"
      /\ ThisCommand \in Command /\ readModel.model \in ReadModel
      /\ log \in Seq(Entry) /\ staged.log \in Seq(Entry) /\ calls \in Seq(Call)
      /\ receipts \in [CommandIds -> Receipt]
      /\ current \in 1..Len(calls)
  BY CurrentCall DEF IInv, TypeOK, CurrentOK, DecidingOK, Undecided, Model
<1>1. /\ Len(log) \in Nat /\ Len(staged.log) \in Nat /\ Len(log) < Len(staged.log)
      /\ \A i \in 1..Len(log) : staged.log[i] = log[i]
      /\ \A i \in 1..Len(staged.log) : i > Len(log) => staged.log[i].command = ThisId
  BY <1>0 DEF IInv, StagedOK
<1>2. /\ log' = staged.log
      /\ receipts'[ThisId] = Accepted(Len(staged.log))
      /\ \A id \in CommandIds : id # ThisId => receipts'[id] = receipts[id]
  BY <1>0 DEF MakeDurable
<1>3. \A i \in 1..Len(log) : log[i].command # ThisId
  BY <1>0 DEF IInv, AppliedOnce
<1> DEFINE s == Len(log) + 1
           n == Len(staged.log)
           events == Decide(readModel.model, ThisCommand)
<1>4. BlockAt(staged.log, s, n)
  <2>1. s \in 1..n /\ \A j \in s..n : j \in 1..n /\ j > Len(log)
    BY <1>1
  <2>2. s = 1 \/ s - 1 \in 1..Len(log)
    BY <1>1
  <2> QED
    BY <1>1, <1>3, <2>1, <2>2 DEF BlockAt
<1>5. ASSUME ~everStale PROVE DecidedAt(staged.log, s, n, ThisCommand)
  <2>1. ~stale /\ PlanFollows
    BY <1>5 DEF SerialOK
  <2>2. readModel.model = ReplayTo(log, Len(log))
    BY <2>1 DEF Stored, MemoryOK, Settled
  <2>3. ReplayTo(staged.log, s - 1) = readModel.model
    <3>1. ReplayTo(staged.log, Len(log)) = ReplayTo(log, Len(log))
      BY <1>1, ReplayToAgrees
    <3> QED
      BY <1>1, <2>2, <3>1
  <2>4. events \in Seq(Event)
    BY <1>0, DecideType
  <2>5. /\ Len(events) = n - Len(log)
        /\ \A i \in 1..(n - Len(log)) : staged.log[Len(log) + i].event = events[i]
    <3> HIDE DEF events
    <3>1. Len(plan) = 0
      OBVIOUS
    <3> QED
      BY <1>1, <2>1, <2>4, <3>1 DEF PlanFollows, events
  <2>6. events = [i \in 1..(n - s + 1) |-> staged.log[s + i - 1].event]
    <3> HIDE DEF events
    <3>1. n - s + 1 = n - Len(log) /\ \A i \in 1..(n - Len(log)) : s + i - 1 = Len(log) + i
      BY <1>1
    <3> QED
      BY <2>4, <2>5, <3>1
  <2> QED
    BY <2>3, <2>6 DEF DecidedAt
<1>6. ASSUME ~everStale, NEW k \in 1..Len(calls) PROVE SerialAt(k)'
  <2>1. calls[k].id \in CommandIds /\ calls[current].id = ThisId /\ calls[current].command = ThisCommand
    <3>1. calls[k] \in Call
      BY <1>0
    <3> QED
      BY <3>1 DEF Call, ThisId, ThisCommand
  <2>2. CASE calls[k].id = ThisId
    <3>1. calls[k].command = ThisCommand
      BY <1>0, <2>1, <2>2 DEF SerialOK
    <3>2. receipts'[calls'[k].id].sequence = n /\ s \in Nat
      BY <1>1, <1>2, <2>2 DEF Accepted
    <3> QED
      BY <1>2, <1>4, <1>5, <1>6, <3>1, <3>2 DEF SerialAt
  <2>3. CASE calls[k].id # ThisId
    <3> DEFINE r == receipts[calls[k].id]
    <3>1. receipts'[calls[k].id] = r
      BY <1>2, <2>1, <2>3
    <3>2. CASE r.status = "accepted"
      <4>1. r.sequence \in 1..Len(log)
        BY <2>1, <3>2 DEF IInv, AppliedOnce
      <4>2. PICK t \in Nat : /\ BlockAt(log, t, r.sequence)
                             /\ DecidedAt(log, t, r.sequence, calls[k].command)
        BY <1>6, <3>2 DEF SerialOK, SerialAt
      <4>3. /\ BlockAt(staged.log, t, r.sequence)
            /\ DecidedAt(staged.log, t, r.sequence, calls[k].command)
        <5> HIDE DEF r, s, n, events
        <5>1. Len(log) \in Nat /\ \A i \in 1..Len(log) : log[i] = staged.log[i]
          BY <1>1
        <5>2. ASSUME NEW q \in 1..Len(log), NEW c, BlockAt(log, t, q), DecidedAt(log, t, q, c)
              PROVE  BlockAt(staged.log, t, q) /\ DecidedAt(staged.log, t, q, c)
          BY <5>1, <5>2, BlocksStay
        <5> QED
          BY <4>1, <4>2, <5>2
      <4> QED
        BY <1>2, <3>1, <4>3 DEF SerialAt
    <3> QED
      BY <3>1, <3>2 DEF SerialAt
  <2> QED
    BY <2>2, <2>3
<1>7. ASSUME NEW id \in CommandIds, receipts'[id].status = "accepted"
      PROVE  \E k \in 1..Len(calls) : calls[k].id = id
  <2>1. CASE id = ThisId
    BY <1>0, <2>1 DEF ThisId
  <2>2. CASE id # ThisId
    BY <1>2, <1>7, <2>2 DEF SerialOK
  <2> QED
    BY <2>1, <2>2
<1> QED
  BY <1>6, <1>7 DEF SerialOK

LEMMA SerialStep == IInv /\ Stored /\ SerialOK /\ [Next]_vars => SerialOK'
<1> SUFFICES ASSUME IInv, Stored, SerialOK, [Next]_vars PROVE SerialOK'
  OBVIOUS
<1> USE DEF durable, worker, environment, history
<1>0. /\ TypeOK /\ CurrentOK /\ calls \in Seq(Call) /\ Len(calls) \in Nat
      /\ log \in Seq(Entry) /\ staged.log \in Seq(Entry)
      /\ stale \in BOOLEAN /\ everStale \in BOOLEAN
  BY DEF IInv, TypeOK
<1>t. TypeOK'
  BY TypeStep
<1>1. ASSUME NEW id \in CommandIds, NEW c \in Commands, Dispatch(id, c) PROVE SerialOK'
  <2> DEFINE n == Len(calls) + 1
  <2>1. /\ calls' = Append(calls, [id |-> id, command |-> c, reply |-> Waiting])
        /\ \A k \in DOMAIN calls : calls[k].id = id => calls[k].command = c
        /\ UNCHANGED <<log, receipts, pc, current, staged, plan, readModel, stale, everStale>>
    BY <1>1 DEF Dispatch
  <2>2. /\ Len(calls') = n /\ calls'[n].id = id /\ calls'[n].command = c
        /\ \A k \in 1..Len(calls) : calls'[k] = calls[k] /\ k \in DOMAIN calls
        /\ \A k \in 1..n : k \in 1..Len(calls) \/ k = n
    BY <1>0, <2>1
  <2>3. \A k, l \in 1..n : calls'[k].id = calls'[l].id => calls'[k].command = calls'[l].command
    BY <2>1, <2>2 DEF SerialOK
  <2>4. ASSUME NEW i \in CommandIds, receipts[i].status = "accepted"
        PROVE  \E k \in 1..n : calls'[k].id = i
    <3>1. PICK k \in 1..Len(calls) : calls[k].id = i
      BY <2>4 DEF SerialOK
    <3> QED
      BY <1>0, <2>2, <3>1
  <2>5. ASSUME ~everStale, NEW k \in 1..n PROVE SerialAt(k)'
    <3>1. CASE k \in 1..Len(calls)
      <4>1. SerialAt(k)
        BY <2>5, <3>1 DEF SerialOK
      <4> QED
        BY <2>1, <2>2, <3>1, <4>1 DEF SerialAt
    <3>2. CASE k = n
      <4>1. SUFFICES ASSUME receipts[id].status = "accepted" PROVE SerialAt(k)'
        BY <2>1, <2>2, <3>2 DEF SerialAt
      <4>2. PICK l \in 1..Len(calls) : calls[l].id = id
        BY <4>1 DEF SerialOK
      <4>3. SerialAt(l) /\ calls[l].command = c
        BY <2>1, <2>2, <2>5, <4>2 DEF SerialOK
      <4> QED
        BY <2>1, <2>2, <3>2, <4>2, <4>3 DEF SerialAt
    <3> QED
      BY <2>2, <2>5, <3>1, <3>2
  <2>6. ~everStale /\ pc = "transaction" => PlanFollows'
    <3>1. pc = "transaction" => ThisCommand' = ThisCommand
      BY <1>0, <2>1, <2>2 DEF CurrentOK, ThisCommand
    <3> QED
      BY <2>1, <3>1 DEF SerialOK, PlanFollows
  <2> QED
    BY <2>1, <2>2, <2>3, <2>4, <2>5, <2>6 DEF SerialOK
<1>2. CASE DecideCommand
  <2>1. CASE pc' # "transaction"
    BY <1>0, <1>t, <1>2, <2>1, QuietKeepsSerial DEF DecideCommand, SerialOK
  <2>2. CASE pc' = "transaction"
    <3>1. /\ plan' = Decide(readModel.model, ThisCommand) /\ staged'.log = log
          /\ UNCHANGED <<log, receipts, calls, readModel, current, stale, everStale>>
      BY <1>2, <2>2 DEF DecideCommand
    <3>2. plan' \in Seq(Event)
      BY <1>t DEF TypeOK
    <3>3. PlanFollows'
      <4>1. ThisCommand' = ThisCommand
        BY <3>1 DEF ThisCommand
      <4> QED
        BY <1>0, <3>1, <3>2, <4>1 DEF PlanFollows
    <3>4. ~everStale => \A k \in 1..Len(calls) : SerialAt(k)'
      BY <3>1 DEF SerialOK, SerialAt
    <3> QED
      BY <3>1, <3>3, <3>4 DEF SerialOK
  <2> QED
    BY <2>1, <2>2
<1>3. CASE AppendNext
  <2>1. /\ pc = "transaction" /\ plan # <<>> /\ plan' = Tail(plan)
        /\ staged'.log = Append(staged.log, [command |-> ThisId, event |-> Head(plan)])
        /\ UNCHANGED <<log, receipts, calls, readModel, pc, current, stale, everStale>>
    BY <1>3 DEF AppendNext
  <2>2. /\ plan \in Seq(Event) /\ Len(plan) \in Nat /\ Len(plan) > 0 /\ Len(plan') = Len(plan) - 1
        /\ Head(plan) = plan[1]
        /\ \A i \in 1..Len(plan') : plan'[i] = plan[i + 1]
    BY <1>0, <2>1 DEF TypeOK
  <2>3. /\ Len(staged'.log) = Len(staged.log) + 1
        /\ staged'.log[Len(staged.log) + 1].event = Head(plan)
        /\ \A i \in 1..Len(staged.log) : staged'.log[i] = staged.log[i]
        /\ Len(log) \in Nat /\ Len(staged.log) \in Nat /\ Len(log) <= Len(staged.log)
    BY <1>0, <2>1 DEF IInv, StagedOK
  <2>4. ASSUME PlanFollows PROVE PlanFollows'
    <3> DEFINE events == Decide(readModel.model, ThisCommand)
               done == Len(staged.log) - Len(log)
    <3>1. /\ Len(events) = done + Len(plan)
          /\ \A i \in 1..done : staged.log[Len(log) + i].event = events[i]
          /\ \A i \in 1..Len(plan) : plan[i] = events[done + i]
      BY <2>4 DEF PlanFollows
    <3> HIDE DEF events
    <3>2. Len(events) = (done + 1) + Len(plan')
      BY <2>2, <2>3, <3>1
    <3>3. ASSUME NEW i \in 1..(done + 1) PROVE staged'.log[Len(log) + i].event = events[i]
      <4>1. CASE i = done + 1
        <5>1. Len(log) + i = Len(staged.log) + 1 /\ plan[1] = events[done + 1]
          BY <2>2, <2>3, <3>1, <4>1
        <5> QED
          BY <2>2, <2>3, <4>1, <5>1
      <4>2. CASE i # done + 1
        <5>1. i \in 1..done /\ Len(log) + i \in 1..Len(staged.log)
          BY <2>3, <4>2
        <5> QED
          BY <2>3, <3>1, <5>1
      <4> QED
        BY <4>1, <4>2
    <3>4. ASSUME NEW i \in 1..Len(plan') PROVE plan'[i] = events[(done + 1) + i]
      <4>1. i + 1 \in 1..Len(plan) /\ plan'[i] = plan[i + 1]
        BY <2>2
      <4>2. done \in Nat /\ i \in Nat
        BY <2>2, <2>3
      <4>3. (done + 1) + i = done + (i + 1)
        <5> HIDE DEF done
        <5> QED
          BY <4>2
      <4> QED
        BY <3>1, <4>1, <4>3
    <3>5. Decide(readModel'.model, ThisCommand') = events /\ Len(staged'.log) - Len(log') = done + 1
      BY <2>1, <2>3 DEF events, ThisCommand
    <3> HIDE DEF done
    <3>6. log' = log
      BY <2>1
    <3> QED
      BY <3>2, <3>3, <3>4, <3>5, <3>6 DEF PlanFollows
  <2>5. ~everStale => \A k \in 1..Len(calls) : SerialAt(k)'
    BY <2>1 DEF SerialOK, SerialAt
  <2> QED
    BY <2>1, <2>4, <2>5 DEF SerialOK
<1>4. CASE Commit
  BY <1>4, CommitIsSerial DEF Commit
<1>5. CASE CommitUnacknowledged
  BY <1>5, CommitIsSerial DEF CommitUnacknowledged, Fault
<1>6. CASE StoreRejection
  <2>1. /\ ThisId \in CommandIds /\ pc = "receipt" /\ pc' = "reply"
        /\ receipts' = [receipts EXCEPT ![ThisId] = Rejected(readModel.sequence)]
        /\ UNCHANGED <<log, calls, stale, everStale>>
    BY <1>0, <1>6, CurrentCall DEF StoreRejection
  <2>2. \A id \in CommandIds :
           receipts'[id].status = "accepted" => receipts'[id] = receipts[id]
    BY <1>0, <2>1 DEF TypeOK, Rejected
  <2>3. \A k \in 1..Len(calls) : calls[k].id \in CommandIds
    <3>1. \A k \in 1..Len(calls) : calls[k] \in Call
      BY <1>0
    <3> QED
      BY <3>1 DEF Call
  <2>4. ~everStale => \A k \in 1..Len(calls) : SerialAt(k)'
    BY <2>1, <2>2, <2>3 DEF SerialOK, SerialAt
  <2> QED
    BY <2>1, <2>2, <2>4 DEF SerialOK
<1>7. CASE CompleteCall \/ Crash
  <2>1. /\ UNCHANGED <<log, receipts, stale, everStale>> /\ pc' # "transaction"
        /\ Len(calls') = Len(calls)
        /\ \A k \in 1..Len(calls) :
               calls'[k].id = calls[k].id /\ calls'[k].command = calls[k].command
    <3>1. \A k \in 1..Len(calls) : calls[k] \in Call
      BY <1>0
    <3>2. CASE CompleteCall
      BY <1>0, <3>1, <3>2, CurrentCall DEF CompleteCall, Call
    <3>3. CASE Crash
      BY <1>0, <3>1, <3>3 DEF Crash, Call
    <3> QED
      BY <1>7, <3>2, <3>3
  <2>2. ~everStale => \A k \in 1..Len(calls) : SerialAt(k)'
    BY <2>1 DEF SerialOK, SerialAt
  <2> QED
    BY <2>1, <2>2 DEF SerialOK
<1>8. CASE ReconcileFails
  BY <1>0, <1>t, <1>8, QuietKeepsSerial DEF ReconcileFails, AfterFailure, TypeOK, SerialOK
<1>9. CASE Start
  BY <1>0, <1>t, <1>9, QuietKeepsSerial DEF Start, TypeOK
<1>10. CASE Take \/ LookupReceipt \/ LookupFails \/ EventIdFails \/ TransactionFails
  BY <1>0, <1>t, <1>10, QuietKeepsSerial
     DEF Take, LookupReceipt, LookupFails, EventIdFails, TransactionFails, Fault, SerialOK
<1>11. CASE Publish \/ PublishDone \/ Reconcile \/ ReplayNext \/ ReplayDone \/ StoreRejectionFails
  BY <1>0, <1>t, <1>11, QuietKeepsSerial
     DEF Publish, PublishDone, Reconcile, ReplayNext, ReplayDone, StoreRejectionFails,
         AfterFailure, Fault, SerialOK
<1>12. CASE UNCHANGED vars
  <2>1. ~everStale => \A k \in 1..Len(calls) : SerialAt(k)'
    BY <1>12 DEF vars, SerialOK, SerialAt
  <2> QED
    BY <1>12, <2>1 DEF vars, SerialOK, PlanFollows, ThisCommand
<1> QED
  BY <1>1, <1>2, <1>3, <1>4, <1>5, <1>6, <1>7, <1>8, <1>9, <1>10, <1>11, <1>12
     DEF Next, WorkerStep, StorageFault

LEMMA SerialInvariance == Spec => [](IInv /\ Stored /\ SerialOK)
<1>1. Init => SerialOK
  BY InitiallySerial
<1>2. IInv /\ Stored /\ SerialOK /\ [Next]_vars => SerialOK'
  BY SerialStep
<1> QED
  BY StoredInvariance, <1>1, <1>2, PTL DEF Spec

(* As long as every reconciliation succeeds the log is a serial execution: *)
(* each accepted command has one block of events, and it is what the       *)
(* decider plans on the replay of the log before it.                       *)
THEOREM LogIsSerial == Spec => []SerialExecution
<1>1. IInv /\ SerialOK => SerialExecution
  <2> SUFFICES ASSUME IInv, SerialOK, ~everStale, NEW k \in DOMAIN calls,
                      receipts[calls[k].id].status = "accepted"
               PROVE  LET n == receipts[calls[k].id].sequence
                          s == BlockStart(n)
                      IN  SubSeq(Events, s, n) =
                              Decide(Replay(SubSeq(Events, 1, s - 1)), calls[k].command)
    BY DEF SerialExecution
  <2> DEFINE n == receipts[calls[k].id].sequence
  <2>1. calls \in Seq(Call) /\ log \in Seq(Entry) /\ k \in 1..Len(calls) /\ calls[k].id \in CommandIds
    <3>1. calls \in Seq(Call) /\ log \in Seq(Entry) /\ k \in 1..Len(calls)
      BY DEF IInv, TypeOK
    <3>2. calls[k] \in Call
      BY <3>1
    <3> QED
      BY <3>1, <3>2 DEF Call
  <2>2. n \in 1..Len(log)
    BY <2>1 DEF IInv, AppliedOnce
  <2>3. PICK s \in Nat : BlockAt(log, s, n) /\ DecidedAt(log, s, n, calls[k].command)
    BY <2>1 DEF SerialOK, SerialAt
  <2> HIDE DEF n
  <2>4. n \in Nat /\ s \in 1..n /\ BlockStart(n) = s
    BY <2>2, <2>3, BlockStartIs DEF BlockAt
  <2>5. \A i \in 1..Len(log) : log[i].event \in Event
    <3>1. \A i \in 1..Len(log) : log[i] \in Entry
      BY <2>1
    <3> QED
      BY <3>1 DEF Entry
  <2>6. Events \in Seq(Event) /\ Len(Events) = Len(log)
        /\ \A i \in 1..Len(log) : Events[i] = log[i].event
    BY <2>1, <2>5 DEF Events
  <2>7. SubSeq(Events, s, n) = [i \in 1..(n - s + 1) |-> log[s + i - 1].event]
    <3>1. \A i \in 1..(n - s + 1) : s + i - 1 \in 1..Len(log)
      BY <2>2, <2>4
    <3>2. SubSeq(Events, s, n) = [i \in 1..(n - s + 1) |-> Events[s + i - 1]]
      BY <2>2, <2>4, <2>6
    <3> QED
      BY <2>6, <3>1, <3>2
  <2>8. SubSeq(Events, 1, s - 1) = [i \in 1..(s - 1) |-> log[i].event]
    <3>1. \A i \in 1..(s - 1) : i \in 1..Len(log)
      BY <2>2, <2>4
    <3>2. SubSeq(Events, 1, s - 1) = [i \in 1..(s - 1) |-> Events[i]]
      BY <2>2, <2>4, <2>6
    <3> QED
      BY <2>6, <3>1, <3>2
  <2> QED
    BY <2>3, <2>4, <2>7, <2>8 DEF DecidedAt, ReplayTo, n
<1> QED
  BY SerialInvariance, <1>1, PTL

-----------------------------------------------------------------------------
(* Ranges of sequence numbers. *)

LEMMA NumbersAre ==
    ASSUME NEW a \in Nat, NEW b \in Nat, a <= b
    PROVE  /\ Numbers(a, b) \in Seq(Nat)
           /\ Len(Numbers(a, b)) = b - a
           /\ \A i \in 1..(b - a) : Numbers(a, b)[i] = a + i
BY DEF Numbers

LEMMA NumbersEmpty ==
    ASSUME NEW a \in Nat PROVE Numbers(a, a) = <<>>
BY DEF Numbers

LEMMA NumbersTail ==
    ASSUME NEW a \in Nat, NEW b \in Nat, a < b
    PROVE  /\ Head(Numbers(a, b)) = a + 1
           /\ Tail(Numbers(a, b)) = Numbers(a + 1, b)
<1>1. Numbers(a, b) \in Seq(Nat) /\ Len(Numbers(a, b)) = b - a
      /\ \A i \in 1..(b - a) : Numbers(a, b)[i] = a + i
  BY NumbersAre
<1>2. Numbers(a + 1, b) \in Seq(Nat) /\ Len(Numbers(a + 1, b)) = b - a - 1
      /\ \A i \in 1..(b - a - 1) : Numbers(a + 1, b)[i] = a + 1 + i
  BY DEF Numbers
<1>3. Head(Numbers(a, b)) = a + 1
  BY <1>1
<1>4. /\ Tail(Numbers(a, b)) \in Seq(Nat)
      /\ Len(Tail(Numbers(a, b))) = b - a - 1
      /\ \A i \in 1..(b - a - 1) : Tail(Numbers(a, b))[i] = a + 1 + i
  BY <1>1
<1> DEFINE t == Tail(Numbers(a, b))
           u == Numbers(a + 1, b)
<1> HIDE DEF t, u
<1>5. t \in Seq(Nat) /\ u \in Seq(Nat) /\ Len(t) = Len(u)
  BY <1>2, <1>4 DEF t, u
<1>6. \A i \in 1..Len(t) : t[i] = u[i]
  BY <1>2, <1>4 DEF t, u
<1>7. t = u
  BY <1>5, <1>6, SeqEqual
<1> QED
  BY <1>3, <1>7 DEF t, u

LEMMA NumbersAppend ==
    ASSUME NEW a \in Nat, NEW n \in Nat
    PROVE  Append(Numbers(a, a + n), a + n + 1) = Numbers(a, a + n + 1)
<1> DEFINE s == Append(Numbers(a, a + n), a + n + 1)
<1>1. Numbers(a, a + n) \in Seq(Nat) /\ Len(Numbers(a, a + n)) = n
      /\ \A i \in 1..n : Numbers(a, a + n)[i] = a + i
  BY DEF Numbers
<1>2. Numbers(a, a + n + 1) \in Seq(Nat) /\ Len(Numbers(a, a + n + 1)) = n + 1
      /\ \A i \in 1..(n + 1) : Numbers(a, a + n + 1)[i] = a + i
  BY DEF Numbers
<1>3. s \in Seq(Nat) /\ Len(s) = n + 1 /\ \A i \in 1..(n + 1) : s[i] = a + i
  BY <1>1
<1> QED
  BY <1>2, <1>3

-----------------------------------------------------------------------------
(***************************************************************************)
(* Callers.  Those who wait are the one whose call the worker has in hand  *)
(* and those on the queue, which is in the order of the calls and after    *)
(* the one in hand; and the worker comes to the end with an answer.        *)
(***************************************************************************)
Ending == {"reconcile", "replay", "publish", "receipt", "reply"}

WaitersOK ==
    /\ \A i, j \in 1..Len(queue) : i < j => queue[i] < queue[j]
    /\ \A i \in 1..Len(queue) : current < queue[i]
    /\ current # 0 <=> pc \notin {"idle", "down"}
    /\ \A k \in 1..Len(calls) :
          calls[k].reply = Waiting <=> (k = current \/ \E i \in 1..Len(queue) : queue[i] = k)
    /\ pc \in Ending => outcome.status \in {"ok", "rejected", "failed"}

LEMMA InitialWaiters == Init => WaitersOK
  BY DEF Init, WaitersOK, Ending

(* Steps between the taking of a call and its completion.                  *)
LEMMA BusyKeepsWaiters ==
    ASSUME WaitersOK, UNCHANGED <<queue, calls, current>>,
           pc \notin {"idle", "down"}, pc' \notin {"idle", "down"},
           pc' \in Ending => outcome'.status \in {"ok", "rejected", "failed"}
    PROVE  WaitersOK'
  BY DEF WaitersOK

LEMMA WaitersStep == IInv /\ WaitersOK /\ [Next]_vars => WaitersOK'
<1> SUFFICES ASSUME IInv, WaitersOK, [Next]_vars PROVE WaitersOK'
  OBVIOUS
<1> USE DEF durable, worker, environment, history
<1>0. /\ TypeOK /\ CurrentOK
      /\ calls \in Seq(Call) /\ queue \in Seq(Nat) /\ current \in Nat /\ pc \in WorkerStates
      /\ Len(calls) \in Nat /\ Len(queue) \in Nat
      /\ \A i \in 1..Len(queue) : queue[i] \in 1..Len(calls)
      /\ current <= Len(calls)
  <2>1. TypeOK /\ CurrentOK
    BY DEF IInv
  <2>2. calls \in Seq(Call) /\ queue \in Seq(Nat) /\ current \in Nat /\ pc \in WorkerStates
    BY <2>1 DEF TypeOK
  <2>3. Len(calls) \in Nat /\ Len(queue) \in Nat
    BY <2>2
  <2>4. \A i \in 1..Len(queue) : queue[i] \in 1..Len(calls)
    BY <2>1 DEF CurrentOK
  <2>5. current = 0 \/ current \in 1..Len(calls)
    BY <2>1 DEF CurrentOK, WaitersOK
  <2>6. current <= Len(calls)
    BY <2>3, <2>5
  <2> QED
    BY <2>1, <2>2, <2>3, <2>4, <2>6
<1>1. ASSUME NEW id \in CommandIds, NEW c \in Commands, Dispatch(id, c) PROVE WaitersOK'
  <2> DEFINE n == Len(calls) + 1
             new == [id |-> id, command |-> c, reply |-> Waiting]
  <2>1. /\ calls' = Append(calls, new) /\ queue' = Append(queue, n)
        /\ UNCHANGED <<current, pc, outcome>>
    BY <1>1 DEF Dispatch
  <2>2. Len(calls') = n /\ calls'[n] = new /\ \A k \in 1..Len(calls) : calls'[k] = calls[k]
    BY <1>0, <2>1
  <2>3. /\ Len(queue') = Len(queue) + 1 /\ queue'[Len(queue) + 1] = n
        /\ \A i \in 1..Len(queue) : queue'[i] = queue[i] /\ queue[i] < n
    BY <1>0, <2>1
  <2>4. ASSUME NEW i \in 1..Len(queue'), NEW j \in 1..Len(queue'), i < j
        PROVE  queue'[i] < queue'[j]
    <3>1. i \in 1..Len(queue) /\ queue'[i] = queue[i] /\ queue[i] < n
      BY <1>0, <2>3, <2>4
    <3>2. CASE j = Len(queue) + 1
      BY <2>3, <3>1, <3>2
    <3>3. CASE j # Len(queue) + 1
      <4>1. j \in 1..Len(queue) /\ queue'[j] = queue[j]
        BY <1>0, <2>3, <3>3
      <4> QED
        BY <2>4, <3>1, <4>1 DEF WaitersOK
    <3> QED
      BY <3>2, <3>3
  <2>5. \A i \in 1..Len(queue') : current' < queue'[i]
    BY <1>0, <2>1, <2>3 DEF WaitersOK
  <2>6. ASSUME NEW k \in 1..Len(calls')
        PROVE  calls'[k].reply = Waiting
                  <=> (k = current' \/ \E i \in 1..Len(queue') : queue'[i] = k)
    <3>1. CASE k = n
      BY <1>0, <2>2, <2>3, <3>1
    <3>2. CASE k # n
      <4>1. k \in 1..Len(calls)
        BY <1>0, <2>2, <3>2
      <4>2. (\E i \in 1..Len(queue') : queue'[i] = k) <=> \E i \in 1..Len(queue) : queue[i] = k
        BY <1>0, <2>3, <3>2
      <4> QED
        BY <2>1, <2>2, <4>1, <4>2 DEF WaitersOK
    <3> QED
      BY <3>1, <3>2
  <2> QED
    BY <2>1, <2>4, <2>5, <2>6 DEF WaitersOK
<1>2. CASE Take
  <2>1. /\ pc = "idle" /\ pc' = "lookup" /\ current = 0 /\ queue # <<>>
        /\ current' = Head(queue) /\ queue' = Tail(queue) /\ UNCHANGED <<calls, outcome>>
    BY <1>2 DEF Take, WaitersOK
  <2>2. /\ Len(queue') = Len(queue) - 1 /\ current' = queue[1] /\ 1 \in 1..Len(queue)
        /\ \A i \in 1..Len(queue') : queue'[i] = queue[i + 1] /\ i + 1 \in 1..Len(queue)
    BY <1>0, <2>1
  <2>3. ASSUME NEW i \in 1..Len(queue'), NEW j \in 1..Len(queue'), i < j
        PROVE  queue'[i] < queue'[j]
    <3>1. /\ queue'[i] = queue[i + 1] /\ i + 1 \in 1..Len(queue)
          /\ queue'[j] = queue[j + 1] /\ j + 1 \in 1..Len(queue)
      BY <2>2
    <3>2. i + 1 < j + 1
      BY <2>3
    <3> QED
      BY <3>1, <3>2 DEF WaitersOK
  <2>4. ASSUME NEW i \in 1..Len(queue') PROVE current' < queue'[i]
    <3>1. queue'[i] = queue[i + 1] /\ i + 1 \in 1..Len(queue) /\ 1 < i + 1
      BY <2>2
    <3> QED
      BY <2>2, <3>1 DEF WaitersOK
  <2>5. ASSUME NEW k \in 1..Len(calls)
        PROVE  (k = current \/ \E i \in 1..Len(queue) : queue[i] = k)
                  <=> (k = current' \/ \E i \in 1..Len(queue') : queue'[i] = k)
    <3>1. ASSUME NEW i \in 1..Len(queue), queue[i] = k
          PROVE  k = current' \/ \E j \in 1..Len(queue') : queue'[j] = k
      <4>1. CASE i = 1
        BY <2>2, <3>1, <4>1
      <4>2. CASE i # 1
        <5>1. i - 1 \in 1..Len(queue') /\ i - 1 + 1 = i
          BY <1>0, <2>2, <4>2
        <5> QED
          BY <2>2, <3>1, <5>1
      <4> QED
        BY <4>1, <4>2
    <3>2. k # current
      BY <2>1
    <3> QED
      BY <2>2, <3>1, <3>2
  <2>6. current' # 0
    BY <1>0, <2>2
  <2> QED
    BY <2>1, <2>3, <2>4, <2>5, <2>6 DEF WaitersOK, Ending
<1>3. CASE CompleteCall
  <2>1. /\ pc = "reply" /\ pc' = "idle" /\ current' = 0 /\ UNCHANGED queue
        /\ calls' = [calls EXCEPT ![current].reply = outcome]
        /\ current \in 1..Len(calls)
        /\ outcome.status \in {"ok", "rejected", "failed"}
    BY <1>0, <1>3 DEF CompleteCall, WaitersOK, Ending, CurrentOK
  <2>2. /\ Len(calls') = Len(calls) /\ calls'[current].reply = outcome
        /\ \A k \in 1..Len(calls) : k # current => calls'[k] = calls[k]
    BY <1>0, <2>1 DEF Call
  <2>3. outcome # Waiting
    BY <2>1 DEF Waiting
  <2>4. \A i \in 1..Len(queue) : 0 < queue[i] /\ queue[i] # current
    BY <1>0 DEF WaitersOK
  <2> QED
    BY <1>0, <2>1, <2>2, <2>3, <2>4 DEF WaitersOK, Ending
<1>4. CASE Crash
  <2>1. /\ pc' = "down" /\ queue' = <<>> /\ current' = 0
        /\ calls' = [k \in DOMAIN calls |->
                        IF calls[k].reply = Waiting THEN [calls[k] EXCEPT !.reply = Lost]
                        ELSE calls[k]]
    BY <1>4 DEF Crash
  <2>2. DOMAIN calls = 1..Len(calls) /\ DOMAIN calls' = 1..Len(calls) /\ Len(calls') = Len(calls)
    BY <1>0, <2>1
  <2>3. \A k \in 1..Len(calls) : calls'[k].reply # Waiting
    <3> TAKE k \in 1..Len(calls)
    <3>1. calls[k] \in Call
      BY <1>0
    <3>2. CASE calls[k].reply = Waiting
      BY <2>1, <2>2, <3>1, <3>2 DEF Call, Lost, Waiting
    <3>3. CASE calls[k].reply # Waiting
      BY <2>1, <2>2, <3>3
    <3> QED
      BY <3>2, <3>3
  <2> QED
    BY <2>1, <2>2, <2>3 DEF WaitersOK, Ending
<1>5. CASE Start
  BY <1>5 DEF Start, WaitersOK, Ending
<1>6. CASE LookupReceipt \/ LookupFails \/ DecideCommand \/ EventIdFails
  BY <1>6, BusyKeepsWaiters
     DEF LookupReceipt, LookupFails, DecideCommand, EventIdFails, Ending, Ok, Refused, Failed
<1>7. CASE AppendNext \/ TransactionFails \/ Commit \/ CommitUnacknowledged
  BY <1>7, BusyKeepsWaiters
     DEF AppendNext, TransactionFails, Commit, CommitUnacknowledged, Ending, Ok, Failed
<1>8. CASE Publish \/ PublishDone \/ Reconcile \/ ReplayNext \/ ReplayDone \/ ReconcileFails
  BY <1>8, BusyKeepsWaiters
     DEF Publish, PublishDone, Reconcile, ReplayNext, ReplayDone, ReconcileFails, Ending,
         AfterFailure, WaitersOK
<1>9. CASE StoreRejection \/ StoreRejectionFails
  BY <1>9, BusyKeepsWaiters DEF StoreRejection, StoreRejectionFails, Ending, WaitersOK
<1>10. CASE UNCHANGED vars
  BY <1>10 DEF vars, WaitersOK
<1> QED
  BY <1>1, <1>2, <1>3, <1>4, <1>5, <1>6, <1>7, <1>8, <1>9, <1>10
     DEF Next, WorkerStep, StorageFault

LEMMA WaitersInvariance == Spec => [](IInv /\ WaitersOK)
<1>1. Init => IInv /\ WaitersOK
  BY InitialState, InitialWaiters
<1>2. (IInv /\ WaitersOK) /\ [Next]_vars => (IInv /\ WaitersOK)'
  BY TypeStep, WorkerStepOK, LogStepOK, WaitersStep DEF IInv
<1> QED
  BY <1>1, <1>2, PTL DEF Spec

(* No fault and no crash makes the worker forget a caller or serve one     *)
(* twice.                                                                  *)
THEOREM NoCallerForgotten == Spec => []NobodyForgotten
<1>1. IInv /\ WaitersOK => NobodyForgotten
  <2> SUFFICES ASSUME IInv, WaitersOK PROVE NobodyForgotten
    OBVIOUS
  <2>1. /\ DOMAIN queue = 1..Len(queue) /\ DOMAIN calls = 1..Len(calls)
    BY DEF IInv, TypeOK
  <2> QED
    BY <2>1 DEF WaitersOK, NobodyForgotten, Range
<1> QED
  BY WaitersInvariance, <1>1, PTL

-----------------------------------------------------------------------------
(***************************************************************************)
(* The hot stream.  Everything published lies at or before a horizon: the  *)
(* sequence of the read model, or, while the worker publishes, the last    *)
(* committed event that is not waiting to be published.  The next range to *)
(* be published begins at it, whichever of the two paths publishes it; and *)
(* unless a reconciliation failed, what was published reaches up to it.    *)
(***************************************************************************)
Horizon == IF pc = "publish" THEN Len(log) - Len(unpublished) ELSE readModel.sequence

ModelFollows ==
    /\ readModel.sequence <= Len(log)
    /\ pc = "publish" => readModel.sequence = Len(log)
    /\ pc = "transaction" =>
          /\ staged.readModel.sequence <= Len(staged.log)
          /\ Len(log) < Len(staged.log) => staged.readModel.sequence = Len(staged.log)
    /\ pc \in Settled /\ ~stale => readModel.sequence = Len(log)

PendingFollows ==
    /\ Len(unpublished) <= Len(log)
    /\ unpublished = Numbers(Len(log) - Len(unpublished), Len(log))
    /\ pc # "publish" => unpublished = <<>>

PublishedFollows ==
    /\ pc = "down" => published = <<>>
    /\ \A i \in 1..Len(published) : published[i] <= Horizon
    /\ \A i, j \in 1..Len(published) : i < j => published[i] < published[j]
    /\ ~stale => published = Numbers(bootSequence, bootSequence + Len(published))
    /\ ~stale /\ pc # "down" => bootSequence + Len(published) = Horizon

HotInv == ModelFollows /\ PendingFollows /\ PublishedFollows

LEMMA InitialHot == Init => HotInv
<1> SUFFICES ASSUME Init PROVE HotInv
  OBVIOUS
<1>1. Numbers(0, 0) = <<>>
  BY NumbersEmpty
<1> QED
  BY <1>1 DEF Init, HotInv, ModelFollows, PendingFollows, PublishedFollows, Horizon, EmptyModel

(* What the steps may use of the types.                                    *)
LEMMA HotTypes ==
    ASSUME TypeOK
    PROVE  /\ log \in Seq(Entry) /\ Len(log) \in Nat
           /\ readModel.sequence \in Nat
           /\ staged.log \in Seq(Entry) /\ Len(staged.log) \in Nat
           /\ staged.readModel.sequence \in Nat
           /\ unpublished \in Seq(Nat) /\ Len(unpublished) \in Nat
           /\ published \in Seq(Nat) /\ Len(published) \in Nat
           /\ \A i \in 1..Len(published) : published[i] \in Nat
           /\ bootSequence \in Nat /\ stale \in BOOLEAN
BY DEF TypeOK, Model

(* Steps that neither commit nor publish nor move the read model.          *)
LEMMA QuietKeepsHot ==
    ASSUME IInv, HotInv,
           UNCHANGED <<log, readModel, unpublished, published, bootSequence>>,
           pc # "down", pc # "publish",
           pc' \notin {"down", "publish", "transaction"},
           ~stale' => ~stale,
           pc' \in Settled /\ ~stale' => readModel.sequence = Len(log)
    PROVE  HotInv'
BY DEF HotInv, ModelFollows, PendingFollows, PublishedFollows, Horizon

LEMMA HotStep == IInv /\ HotInv /\ [Next]_vars => HotInv'
<1> SUFFICES ASSUME IInv, HotInv, [Next]_vars PROVE HotInv'
  OBVIOUS
<1> USE DEF durable, worker, environment, history
<1>0. TypeOK /\ StagedOK
  BY DEF IInv
<1>t. /\ log \in Seq(Entry) /\ Len(log) \in Nat
      /\ readModel.sequence \in Nat
      /\ staged.log \in Seq(Entry) /\ Len(staged.log) \in Nat
      /\ staged.readModel.sequence \in Nat
      /\ unpublished \in Seq(Nat) /\ Len(unpublished) \in Nat
      /\ published \in Seq(Nat) /\ Len(published) \in Nat
      /\ \A i \in 1..Len(published) : published[i] \in Nat
      /\ bootSequence \in Nat /\ stale \in BOOLEAN
  BY <1>0, HotTypes
<1>1. CASE Commit
  <2>1. /\ pc = "transaction" /\ pc' = "publish" /\ log' = staged.log
        /\ readModel' = staged.readModel
        /\ unpublished' = Numbers(Len(log), Len(staged.log))
        /\ UNCHANGED <<published, bootSequence, stale>>
        /\ Len(log) < Len(staged.log)
    BY <1>0, <1>1, <1>t DEF Commit, MakeDurable, StagedOK
  <2>2. readModel'.sequence = Len(log')
    BY <2>1 DEF HotInv, ModelFollows
  <2>3. Len(unpublished') = Len(log') - Len(log) /\ Len(log') - Len(unpublished') = Len(log)
    <3>0. Len(log) \in Nat /\ Len(staged.log) \in Nat /\ Len(log) <= Len(staged.log)
      BY <1>t, <2>1
    <3>1. Len(Numbers(Len(log), Len(staged.log))) = Len(staged.log) - Len(log)
      BY <3>0, NumbersAre
    <3> QED
      BY <1>t, <2>1, <3>1
  <2>4. Horizon' = Len(log) /\ Horizon = readModel.sequence /\ readModel.sequence <= Len(log)
        /\ (~stale => readModel.sequence = Len(log))
    BY <2>1, <2>3 DEF Horizon, HotInv, ModelFollows, Settled
  <2>5. ModelFollows'
    BY <1>t, <2>1, <2>2 DEF ModelFollows
  <2>6. PendingFollows'
    BY <1>t, <2>1, <2>3 DEF PendingFollows
  <2>7. PublishedFollows'
    BY <1>t, <2>1, <2>4 DEF HotInv, PublishedFollows
  <2> QED
    BY <2>5, <2>6, <2>7 DEF HotInv
<1>2. CASE CommitUnacknowledged
  <2>1. /\ pc = "transaction" /\ pc' = "reconcile" /\ log' = staged.log
        /\ UNCHANGED <<readModel, unpublished, published, bootSequence, stale>>
        /\ Len(log) <= Len(staged.log)
    BY <1>0, <1>2, <1>t DEF CommitUnacknowledged, MakeDurable, StagedOK
  <2>2. unpublished = <<>> /\ Numbers(Len(log'), Len(log')) = <<>> /\ Len(unpublished) = 0
    BY <1>t, <2>1, NumbersEmpty DEF HotInv, PendingFollows
  <2>3. Horizon' = Horizon
    BY <2>1 DEF Horizon
  <2> QED
    BY <1>t, <2>1, <2>2, <2>3
       DEF HotInv, ModelFollows, PendingFollows, PublishedFollows, Settled
<1>3. CASE Publish
  <2> DEFINE h == Len(log) - Len(unpublished)
  <2>1. /\ pc = "publish" /\ pc' = "publish" /\ unpublished # <<>>
        /\ published' = Append(published, Head(unpublished))
        /\ unpublished' = Tail(unpublished)
        /\ UNCHANGED <<log, readModel, staged, bootSequence, stale>>
    BY <1>3 DEF Publish
  <2>2. /\ h \in Nat /\ h < Len(log) /\ unpublished = Numbers(h, Len(log)) /\ Horizon = h
        /\ h + 1 <= Len(log)
    BY <1>t, <2>1 DEF HotInv, PendingFollows, Horizon
  <2>3. Head(unpublished) = h + 1 /\ unpublished' = Numbers(h + 1, Len(log))
    BY <1>t, <2>1, <2>2, NumbersTail
  <2>4. Len(unpublished') = Len(log) - (h + 1)
    <3>0. h + 1 \in Nat /\ Len(log) \in Nat /\ h + 1 <= Len(log)
      BY <1>t, <2>2
    <3>1. Len(Numbers(h + 1, Len(log))) = Len(log) - (h + 1)
      <4> HIDE DEF h
      <4> QED
        BY <3>0, NumbersAre
    <3> QED
      BY <2>3, <3>1
  <2>5. Horizon' = h + 1 /\ Len(log') - Len(unpublished') = h + 1
    BY <1>t, <2>1, <2>2, <2>4 DEF Horizon
  <2>6. PendingFollows'
    BY <1>t, <2>1, <2>2, <2>3, <2>4, <2>5 DEF PendingFollows
  <2>7. ModelFollows'
    BY <2>1 DEF HotInv, ModelFollows
  <2>8. PublishedFollows'
    <3>1. /\ Len(published') = Len(published) + 1 /\ published'[Len(published) + 1] = h + 1
          /\ \A i \in 1..Len(published) : published'[i] = published[i] /\ published[i] <= h
      BY <1>t, <2>1, <2>2, <2>3 DEF HotInv, PublishedFollows
    <3>2. \A i \in 1..Len(published') : published'[i] <= Horizon'
      BY <1>t, <2>2, <2>5, <3>1
    <3>3. ASSUME NEW i \in 1..Len(published'), NEW j \in 1..Len(published'), i < j
          PROVE  published'[i] < published'[j]
      <4>1. i \in 1..Len(published) /\ published'[i] = published[i] /\ published[i] <= h
        BY <1>t, <3>1, <3>3
      <4>2. CASE j = Len(published) + 1
        BY <1>t, <2>2, <3>1, <4>1, <4>2
      <4>3. CASE j # Len(published) + 1
        <5>1. j \in 1..Len(published) /\ published'[j] = published[j]
          BY <1>t, <3>1, <4>3
        <5> QED
          BY <3>3, <4>1, <5>1 DEF HotInv, PublishedFollows
      <4> QED
        BY <4>2, <4>3
    <3>4. ASSUME ~stale
          PROVE  /\ published' = Numbers(bootSequence, bootSequence + Len(published'))
                 /\ bootSequence + Len(published') = Horizon'
      <4>1. /\ published = Numbers(bootSequence, bootSequence + Len(published))
            /\ bootSequence + Len(published) = h
        BY <2>1, <2>2, <3>4 DEF HotInv, PublishedFollows
      <4>2. published' = Append(published, bootSequence + Len(published) + 1)
        BY <2>1, <2>3, <4>1
      <4>3. published' = Numbers(bootSequence, bootSequence + Len(published) + 1)
        BY <1>t, <4>1, <4>2, NumbersAppend
      <4>4. bootSequence + Len(published) + 1 = bootSequence + Len(published')
        BY <1>t, <3>1
      <4> QED
        BY <1>t, <2>5, <4>1, <4>3, <4>4
    <3> QED
      BY <2>1, <3>2, <3>3, <3>4 DEF PublishedFollows
  <2> QED
    BY <2>6, <2>7, <2>8 DEF HotInv
<1>4. CASE PublishDone
  <2>1. /\ pc = "publish" /\ pc' \in {"receipt", "reply"} /\ unpublished = <<>>
        /\ UNCHANGED <<log, readModel, staged, unpublished, published, bootSequence, stale>>
    BY <1>4 DEF PublishDone, AfterFailure
  <2>2. Len(unpublished) = 0 /\ readModel.sequence = Len(log) /\ Horizon' = Horizon
    BY <1>t, <2>1 DEF HotInv, ModelFollows, Horizon
  <2> QED
    BY <1>t, <2>1, <2>2 DEF HotInv, ModelFollows, PendingFollows, PublishedFollows
<1>5. CASE ReplayDone
  <2>1. /\ pc = "replay" /\ pc' = "publish"
        /\ readModel' = staged.readModel /\ readModel'.sequence = Len(log)
        /\ unpublished' = Numbers(readModel.sequence, Len(log))
        /\ UNCHANGED <<log, published, bootSequence, stale>>
        /\ readModel.sequence <= Len(log)
    BY <1>5 DEF ReplayDone, HotInv, ModelFollows
  <2>2. /\ Len(unpublished') = Len(log) - readModel.sequence
        /\ Len(log) - Len(unpublished') = readModel.sequence
    <3>1. Len(Numbers(readModel.sequence, Len(log))) = Len(log) - readModel.sequence
      BY <1>t, <2>1, NumbersAre
    <3> QED
      BY <1>t, <2>1, <3>1
  <2>3. Horizon' = Horizon
    BY <2>1, <2>2 DEF Horizon
  <2> QED
    BY <1>t, <2>1, <2>2, <2>3
       DEF HotInv, ModelFollows, PendingFollows, PublishedFollows
<1>6. CASE Crash
  <2>1. /\ pc' = "down" /\ readModel'.sequence = 0 /\ unpublished' = <<>> /\ published' = <<>>
        /\ UNCHANGED <<log, bootSequence, stale>>
    BY <1>6 DEF Crash, EmptyModel
  <2>2. /\ Numbers(Len(log), Len(log)) = <<>>
        /\ Numbers(bootSequence, bootSequence) = <<>>
    BY <1>t, NumbersEmpty
  <2> QED
    BY <1>t, <2>1, <2>2
       DEF HotInv, ModelFollows, PendingFollows, PublishedFollows, Settled
<1>7. CASE Start
  <2>1. /\ pc = "down" /\ pc' = "idle" /\ readModel'.sequence = Len(log)
        /\ bootSequence' = Len(log) /\ ~stale' /\ published = <<>>
        /\ UNCHANGED <<log, unpublished, published>>
    BY <1>7 DEF Start, HotInv, PublishedFollows
  <2>2. Numbers(Len(log), Len(log)) = <<>>
    BY <1>t, NumbersEmpty
  <2> QED
    BY <1>t, <2>1, <2>2
       DEF HotInv, ModelFollows, PendingFollows, PublishedFollows, Horizon
<1>8. CASE DecideCommand
  <2>1. CASE pc' = "reconcile"
    BY <1>8, <2>1, QuietKeepsHot DEF DecideCommand, Settled
  <2>2. CASE pc' # "reconcile"
    <3>1. /\ pc = "decide" /\ pc' = "transaction"
          /\ staged'.log = log /\ staged'.readModel = readModel
          /\ UNCHANGED <<log, readModel, unpublished, published, bootSequence, stale>>
      BY <1>8, <2>2 DEF DecideCommand
    <3> QED
      BY <1>t, <3>1
         DEF HotInv, ModelFollows, PendingFollows, PublishedFollows, Horizon, Settled
  <2> QED
    BY <2>1, <2>2
<1>9. CASE AppendNext
  <2>1. /\ pc = "transaction" /\ pc' = "transaction"
        /\ Len(staged'.log) = Len(staged.log) + 1
        /\ staged'.readModel.sequence = Len(staged.log) + 1
        /\ UNCHANGED <<log, readModel, unpublished, published, bootSequence, stale>>
    BY <1>t, <1>9 DEF AppendNext, Projected
  <2> QED
    BY <1>t, <2>1
       DEF HotInv, ModelFollows, PendingFollows, PublishedFollows, Horizon
<1>10. CASE ReconcileFails
  <2>1. /\ pc \in {"reconcile", "replay"} /\ pc' \in {"receipt", "reply"}
        /\ stale' = (stale \/ readModel.sequence < Len(log))
        /\ UNCHANGED <<log, readModel, unpublished, published, bootSequence>>
    BY <1>10 DEF ReconcileFails, AfterFailure
  <2>2. ASSUME ~stale' PROVE ~stale /\ readModel.sequence = Len(log)
    <3>1. ~stale /\ ~(readModel.sequence < Len(log))
      BY <2>1, <2>2, Zenon
    <3>2. readModel.sequence <= Len(log)
      BY DEF HotInv, ModelFollows
    <3> QED
      BY <1>t, <3>1, <3>2
  <2> QED
    BY <2>1, <2>2, QuietKeepsHot
<1>11. CASE Take \/ LookupReceipt \/ LookupFails \/ EventIdFails
  BY <1>11, QuietKeepsHot
     DEF Take, LookupReceipt, LookupFails, EventIdFails, HotInv, ModelFollows, Settled
<1>12. CASE TransactionFails \/ StoreRejection \/ StoreRejectionFails \/ CompleteCall
  BY <1>12, QuietKeepsHot
     DEF TransactionFails, StoreRejection, StoreRejectionFails, CompleteCall, HotInv,
         ModelFollows, Settled
<1>13. CASE Reconcile \/ ReplayNext
  BY <1>13, QuietKeepsHot
     DEF Reconcile, ReplayNext, AfterFailure, Settled
<1>14. CASE (\E id \in CommandIds, c \in Commands : Dispatch(id, c)) \/ UNCHANGED vars
  <2>1. UNCHANGED <<log, readModel, unpublished, published, bootSequence, stale, pc, staged>>
    BY <1>14 DEF Dispatch, vars
  <2> QED
    BY <2>1 DEF HotInv, ModelFollows, PendingFollows, PublishedFollows, Horizon
<1> QED
  BY <1>1, <1>2, <1>3, <1>4, <1>5, <1>6, <1>7, <1>8, <1>9, <1>10, <1>11, <1>12, <1>13, <1>14
     DEF Next, WorkerStep, StorageFault

LEMMA HotInvariance == Spec => [](IInv /\ HotInv)
<1>1. Init => IInv /\ HotInv
  BY InitialState, InitialHot
<1>2. (IInv /\ HotInv) /\ [Next]_vars => (IInv /\ HotInv)'
  BY TypeStep, WorkerStepOK, LogStepOK, HotStep DEF IInv
<1> QED
  BY <1>1, <1>2, PTL DEF Spec

(* Whatever fails between a commit and its publication, subscribers get    *)
(* the log since the start, in order and once, up to what the worker rests *)
(* on; after a failed reconciliation there may be gaps, never a repetition *)
(* or a change of order.                                                   *)
THEOREM StreamIsLog == Spec => []HotStreamExact
<1>1. IInv /\ HotInv => HotStreamExact
  <2> SUFFICES ASSUME IInv, HotInv PROVE HotStreamExact
    OBVIOUS
  <2>1. /\ Len(log) \in Nat /\ Len(unpublished) \in Nat /\ readModel.sequence \in Nat
        /\ Len(published) \in Nat /\ bootSequence \in Nat
        /\ \A i \in 1..Len(published) : published[i] \in Nat
    BY HotTypes DEF IInv
  <2>2. Horizon <= Len(log)
    BY <2>1 DEF HotInv, ModelFollows, Horizon
  <2>3. Horizon \in Int
    BY <2>1 DEF Horizon
  <2>4. PublishedInOrder
    BY <2>1, <2>2, <2>3 DEF HotInv, PublishedFollows, PublishedInOrder
  <2>5. PublishedAscending
    BY DEF HotInv, PublishedFollows, PublishedAscending
  <2>6. NothingWithheld
    BY <2>1 DEF HotInv, ModelFollows, PublishedFollows, NothingWithheld, Horizon, Settled
  <2> QED
    BY <2>4, <2>5, <2>6 DEF HotStreamExact
<1> QED
  BY HotInvariance, <1>1, PTL

-----------------------------------------------------------------------------
(***************************************************************************)
(* Without failing reconciliations the read model is never left behind.    *)
(***************************************************************************)
LEMMA NeverStale ==
    ASSUME "reconcile" \notin Faults
    PROVE  Spec => [](~stale /\ ~everStale)
<1>1. Init => ~stale /\ ~everStale
  BY DEF Init
<1>2. (~stale /\ ~everStale) /\ [Next]_vars => (~stale /\ ~everStale)'
  <2> SUFFICES ASSUME ~stale, ~everStale, [Next]_vars PROVE ~stale' /\ ~everStale'
    OBVIOUS
  <2>1. ~ReconcileFails
    BY DEF ReconcileFails, Fault
  <2>2. CASE Start
    BY <2>2 DEF Start
  <2>3. CASE UNCHANGED <<stale, everStale>>
    BY <2>3
  <2>4. Start \/ UNCHANGED <<stale, everStale>>
    BY <2>1
       DEF history, Next, WorkerStep, StorageFault, vars, Take, LookupReceipt, DecideCommand, AppendNext,
           Commit, Publish, PublishDone, Reconcile, ReplayNext, ReplayDone, LookupFails,
           EventIdFails, TransactionFails, StoreRejection, StoreRejectionFails, Dispatch,
           CompleteCall, Crash, CommitUnacknowledged
  <2> QED
    BY <2>2, <2>3, <2>4
<1> QED
  BY <1>1, <1>2, PTL DEF Spec

(* A plan is at most one event for every thread and one more.              *)
LEMMA DecideLength ==
    ASSUME NEW rm \in ReadModel, NEW c \in Command
    PROVE  Len(Decide(rm, c)) <= Cardinality(Threads) + 1
<1>1. IsFiniteSet(Threads) /\ Cardinality(Threads) \in Nat
  BY DeciderAssumption, FS_CardinalityType
<1>2. CASE c \in ProjectCommand
  BY <1>1, <1>2 DEF ProjectCommand, Decide
<1>3. CASE c \in ProjectDelete
  <2> DEFINE live == ActiveThreads(rm, c.project)
             deletions == [i \in 1..Cardinality(live) |->
                              OnThread("thread.deleted", SetToSeq(live)[i])]
             last == OnProject("project.deleted", c.project)
  <2>1. live \subseteq Threads
    BY DEF ActiveThreads
  <2>2. Cardinality(live) \in Nat /\ Cardinality(live) <= Cardinality(Threads)
    BY <1>1, <2>1, ThreadEnumeration, FS_Subset
  <2>3. \A i \in 1..Cardinality(live) : OnThread("thread.deleted", SetToSeq(live)[i]) \in Event
    BY <2>1, <2>2, ThreadEnumeration DEF OnThread, Event, ThreadEvent
  <2>4. deletions \in Seq(Event) /\ Len(deletions) = Cardinality(live)
    <3> HIDE DEF live
    <3> QED
      BY <2>2, <2>3
  <2>5. Len(Append(deletions, last)) = Cardinality(live) + 1
    <3> HIDE DEF deletions, last
    <3> QED
      BY <2>4
  <2>6. Decide(rm, c) \in {<<>>, Append(deletions, last)}
    BY <1>3 DEF ProjectDelete, Decide, DecideProjectDelete
  <2> HIDE DEF deletions, last, live
  <2> QED
    BY <1>1, <2>2, <2>5, <2>6
<1>4. CASE c \in ThreadCreate
  BY <1>1, <1>4 DEF ThreadCreate, Decide, DecideThreadCreate
<1>5. CASE c \in ThreadCommand
  <2>1. c.thread \in Threads /\ Decide(rm, c) = DecideOnThread(rm, c)
    BY <1>5 DEF ThreadCommand, Decide
  <2>2. Cardinality(Threads) # 0
    BY <1>1, <2>1, FS_EmptySet
  <2>3. Len(DecideOnThread(rm, c)) <= 2
    BY DEF DecideOnThread
  <2>4. Len(DecideOnThread(rm, c)) \in Nat
    BY <2>1, DecideType
  <2> QED
    BY <1>1, <2>1, <2>2, <2>3, <2>4
<1> QED
  BY <1>2, <1>3, <1>4, <1>5 DEF Command

-----------------------------------------------------------------------------
(***************************************************************************)
(* Subscribers.  A commit, also one whose acknowledgement is lost, appends *)
(* the plan of one command when everything before it is out; a crash gives *)
(* up what was not yet published; every other step is a publication or     *)
(* invisible.                                                              *)
(***************************************************************************)
Batches == SeqOf(Event, Cardinality(Threads) + 1)
Position == IF pc = "down" THEN Len(log) ELSE bootSequence + Len(published)

Unbroken == IInv /\ Stored /\ SerialOK /\ HotInv /\ ~stale /\ ~everStale

LEMMA EventsAre ==
    ASSUME TypeOK
    PROVE  /\ Events \in Seq(Event) /\ Len(Events) = Len(log) /\ Len(log) \in Nat
           /\ \A i \in 1..Len(log) : Events[i] = log[i].event /\ log[i].event \in Event
<1>1. log \in Seq(Entry)
  BY DEF TypeOK
<1>2. \A i \in 1..Len(log) : log[i] \in Entry
  BY <1>1
<1>3. \A i \in 1..Len(log) : log[i].event \in Event
  BY <1>2 DEF Entry
<1> QED
  BY <1>1, <1>3 DEF Events

(* How to recognise a concatenation.                                       *)
LEMMA Continues ==
    ASSUME NEW S, NEW s \in Seq(S), NEW t \in Seq(S), NEW u \in Seq(S),
           Len(u) = Len(s) + Len(t),
           \A i \in 1..Len(s) : u[i] = s[i],
           \A i \in 1..Len(t) : u[Len(s) + i] = t[i]
    PROVE  u = s \o t
<1>1. Len(s) \in Nat /\ Len(t) \in Nat
  OBVIOUS
<1>2. /\ s \o t \in Seq(S) /\ Len(s \o t) = Len(s) + Len(t)
      /\ \A i \in 1..(Len(s) + Len(t)) :
             (s \o t)[i] = IF i <= Len(s) THEN s[i] ELSE t[i - Len(s)]
  BY ConcatProperties
<1>3. ASSUME NEW i \in 1..Len(u) PROVE (s \o t)[i] = u[i]
  <2>1. CASE i <= Len(s)
    BY <1>1, <1>2, <2>1
  <2>2. CASE i > Len(s)
    <3>1. i - Len(s) \in 1..Len(t) /\ i = Len(s) + (i - Len(s))
      BY <1>1, <2>2
    <3> QED
      BY <1>1, <1>2, <2>2, <3>1
  <2> QED
    BY <1>1, <2>1, <2>2
<1> QED
  BY <1>2, <1>3, SeqEqual

(* What a transaction appends, once nothing is left to plan.               *)
LEMMA CommitAppendsPlan ==
    ASSUME IInv, PlanFollows, pc = "transaction", plan = <<>>, log' = staged.log
    PROVE  LET events == Decide(readModel.model, ThisCommand) IN
           /\ events \in Batches
           /\ events # <<>>
           /\ log' = log \o [i \in 1..Len(events) |-> [command |-> ThisId, event |-> events[i]]]
           /\ Events' = Events \o events
<1> DEFINE events == Decide(readModel.model, ThisCommand)
<1>1. /\ TypeOK /\ ThisCommand \in Command /\ readModel.model \in ReadModel
      /\ log \in Seq(Entry) /\ staged.log \in Seq(Entry)
  BY CurrentCall DEF IInv, TypeOK, Model
<1>2. /\ Len(log) \in Nat /\ Len(staged.log) \in Nat /\ Len(log) < Len(staged.log)
      /\ \A i \in 1..Len(log) : staged.log[i] = log[i]
      /\ \A i \in 1..Len(staged.log) : i > Len(log) => staged.log[i].command = ThisId
  BY <1>1 DEF IInv, StagedOK
<1>3. events \in Seq(Event) /\ Len(events) <= Cardinality(Threads) + 1
  BY <1>1, DecideType, DecideLength
<1>4. /\ Len(events) = Len(staged.log) - Len(log)
      /\ \A i \in 1..Len(events) : staged.log[Len(log) + i].event = events[i]
  <2> HIDE DEF events
  <2>1. Len(plan) = 0
    OBVIOUS
  <2> QED
    BY <1>2, <1>3, <2>1 DEF PlanFollows, events
<1> HIDE DEF events
<1>5. events \in Batches
  <2>1. IsFiniteSet(Threads) /\ Cardinality(Threads) \in Nat
    BY DeciderAssumption, FS_CardinalityType
  <2>2. events \in [1..Len(events) -> Event] /\ Len(events) \in 0..(Cardinality(Threads) + 1)
    BY <1>3, <2>1
  <2> QED
    BY <2>2 DEF Batches, SeqOf
<1>6. events # <<>>
  BY <1>2, <1>4
<1> DEFINE entries == [i \in 1..Len(events) |-> [command |-> ThisId, event |-> events[i]]]
<1>7. log' = log \o entries
  <2>1. \A i \in 1..Len(events) :
           staged.log[Len(log) + i] = [command |-> ThisId, event |-> events[i]]
    <3> TAKE i \in 1..Len(events)
    <3>1. Len(log) + i \in 1..Len(staged.log) /\ Len(log) + i > Len(log)
      BY <1>2, <1>3, <1>4
    <3>2. staged.log[Len(log) + i] \in Entry
      BY <1>1, <3>1
    <3>3. staged.log[Len(log) + i].command = ThisId /\ staged.log[Len(log) + i].event = events[i]
      BY <1>2, <1>4, <3>1
    <3> QED
      BY <3>2, <3>3 DEF Entry
  <2>2. entries \in Seq(Entry) /\ Len(entries) = Len(events)
    <3>1. \A i \in 1..Len(events) : [command |-> ThisId, event |-> events[i]] \in Entry
      <4> TAKE i \in 1..Len(events)
      <4>1. Len(log) + i \in 1..Len(staged.log)
        BY <1>2, <1>3, <1>4
      <4> QED
        BY <1>1, <2>1, <4>1
    <3> QED
      BY <1>3, <3>1
  <2>3. \A i \in 1..Len(entries) : staged.log[Len(log) + i] = entries[i]
    BY <2>1, <2>2
  <2>4. Len(staged.log) = Len(log) + Len(entries)
    BY <1>2, <1>3, <1>4, <2>2
  <2> HIDE DEF entries
  <2> QED
    BY <1>1, <1>2, <2>2, <2>3, <2>4, Continues
<1>8. Events' = Events \o events
  <2> DEFINE after == [i \in 1..Len(staged.log) |-> staged.log[i].event]
  <2>1. /\ Events \in Seq(Event) /\ Len(Events) = Len(log)
        /\ \A i \in 1..Len(log) : Events[i] = log[i].event
    BY <1>1, EventsAre
  <2>2. Events' = after
    BY DEF Events
  <2>3. \A i \in 1..Len(staged.log) : staged.log[i].event \in Event
    <3>1. \A i \in 1..Len(staged.log) : staged.log[i] \in Entry
      BY <1>1
    <3> QED
      BY <3>1 DEF Entry
  <2>4. after \in Seq(Event) /\ Len(after) = Len(staged.log)
    BY <1>2, <2>3
  <2>5. Len(after) = Len(Events) + Len(events)
    BY <1>2, <1>3, <1>4, <2>1, <2>4
  <2>6. \A i \in 1..Len(Events) : after[i] = Events[i]
    BY <1>2, <2>1
  <2>7. \A i \in 1..Len(events) : after[Len(Events) + i] = events[i]
    <3> TAKE i \in 1..Len(events)
    <3>1. Len(log) + i \in 1..Len(staged.log)
      BY <1>2, <1>3, <1>4
    <3> QED
      BY <1>4, <2>1, <3>1
  <2> HIDE DEF after
  <2> QED
    BY <1>3, <2>1, <2>2, <2>4, <2>5, <2>6, <2>7, Continues
<1> QED
  BY <1>5, <1>6, <1>7, <1>8 DEF events

LEMMA StreamStep ==
    ASSUME Unbroken, ~stale', [Next]_vars
    PROVE  [Subscribers!Next]_(Subscribers!vars)
<1> USE DEF durable, worker, environment, history
<1>0. /\ TypeOK /\ log \in Seq(Entry) /\ Len(log) \in Nat
      /\ unpublished \in Seq(Nat) /\ Len(unpublished) \in Nat
      /\ published \in Seq(Nat) /\ Len(published) \in Nat
      /\ readModel.sequence \in Nat /\ bootSequence \in Nat
  BY HotTypes DEF Unbroken, IInv
<1>1. Events \in Seq(Event) /\ Len(Events) = Len(log)
  BY <1>0, EventsAre
<1>2. pc # "down" => Position = Horizon
  BY DEF Position, Unbroken, HotInv, PublishedFollows
<1>3. CASE Commit \/ CommitUnacknowledged
  <2>1. /\ pc = "transaction" /\ pc' # "down" /\ plan = <<>> /\ log' = staged.log
        /\ UNCHANGED <<published, bootSequence>>
    BY <1>3 DEF Commit, CommitUnacknowledged, MakeDurable
  <2>2. PlanFollows
    BY <2>1 DEF Unbroken, SerialOK
  <2>3. PICK batch \in Batches : batch # <<>> /\ Events' = Events \o batch
    BY <2>1, <2>2, CommitAppendsPlan DEF Unbroken
  <2>4. Position = Len(log) /\ Position' = Position
    BY <1>2, <2>1 DEF Unbroken, HotInv, ModelFollows, Horizon, Settled, Position
  <2>5. Subscribers!Commit(batch)
    BY <1>1, <2>3, <2>4 DEF Subscribers!Commit, Position
  <2> QED
    BY <2>3, <2>5 DEF Subscribers!Next, Batches
<1>4. CASE Publish
  <2>1. /\ pc = "publish" /\ pc' = "publish" /\ unpublished # <<>>
        /\ published' = Append(published, Head(unpublished))
        /\ UNCHANGED <<log, bootSequence>>
    BY <1>4 DEF Publish
  <2>2. Len(unpublished) > 0 /\ Len(published') = Len(published) + 1
    BY <1>0, <2>1
  <2>3. Position < Len(log) /\ Position' = Position + 1 /\ Events' = Events
    BY <1>0, <1>2, <2>1, <2>2 DEF Horizon, Position, Events
  <2>4. Subscribers!PublishNext
    BY <1>1, <2>3 DEF Subscribers!PublishNext, Position
  <2> QED
    BY <2>4 DEF Subscribers!Next
<1>5. CASE Crash
  <2>1. Position' = Len(log) /\ Events' = Events
    BY <1>5 DEF Crash, Position, Events
  <2>2. Subscribers!Restart
    BY <1>1, <2>1 DEF Subscribers!Restart, Position
  <2> QED
    BY <2>2 DEF Subscribers!Next
<1>6. ASSUME Position' = Position, Events' = Events
      PROVE  UNCHANGED Subscribers!vars
  BY <1>6 DEF Subscribers!vars, Position
<1>7. CASE Start
  <2>1. published = <<>> /\ Len(published) = 0
    BY <1>7 DEF Start, Unbroken, HotInv, PublishedFollows
  <2>2. Position' = Position /\ Events' = Events
    BY <1>0, <1>7, <2>1 DEF Start, Position, Events
  <2> QED
    BY <1>6, <2>2
<1>8. CASE UNCHANGED <<log, published, bootSequence>> /\ (pc = "down" <=> pc' = "down")
  <2>1. Position' = Position /\ Events' = Events
    BY <1>8 DEF Position, Events
  <2> QED
    BY <1>6, <2>1
<1>9. \/ UNCHANGED <<log, published, bootSequence>> /\ (pc = "down" <=> pc' = "down")
      \/ Commit \/ CommitUnacknowledged \/ Publish \/ Crash \/ Start
  BY DEF Next, WorkerStep, StorageFault, vars, Take, LookupReceipt, DecideCommand, AppendNext,
         PublishDone, Reconcile, ReplayNext, ReplayDone, LookupFails, EventIdFails,
         TransactionFails, ReconcileFails, StoreRejection, StoreRejectionFails, Dispatch,
         CompleteCall, AfterFailure
<1> QED
  BY <1>3, <1>4, <1>5, <1>7, <1>8, <1>9

(* Without failing reconciliations the engine is, for its subscribers, a   *)
(* DomainEventStream: whatever else fails, crashes included, events become *)
(* durable one command at a time and appear in the order of the log.       *)
THEOREM EngineImplementsEventStream ==
    ASSUME "reconcile" \notin Faults
    PROVE  Spec => ImplementsEventStream
<1>1. Init => Subscribers!Init
  BY DEF Init, Subscribers!Init, Events
<1>2. Spec => []Unbroken
  <2>1. Spec => [](~stale /\ ~everStale)
    BY NeverStale
  <2> QED
    BY <2>1, SerialInvariance, HotInvariance, PTL DEF Unbroken
<1>3. Unbroken /\ Unbroken' /\ [Next]_vars => [Subscribers!Next]_(Subscribers!vars)
  <2>1. Unbroken' => ~stale'
    BY DEF Unbroken
  <2> QED
    BY <2>1, StreamStep
<1> QED
  BY <1>1, <1>2, <1>3, PTL DEF Spec, ImplementsEventStream, Subscribers!Spec

-----------------------------------------------------------------------------
(***************************************************************************)
(* Callers of dispatch.  Where storing a refusal does not fail, whoever    *)
(* was refused, or is about to be, has the refusal in the receipt; so no   *)
(* later decision changes what the answers stand for.                      *)
(***************************************************************************)
RefusalsOK ==
    /\ \A id \in CommandIds : receipts[id].status = "none" => receipts[id] = NoReceipt
    /\ \A k \in 1..Len(calls) :
          calls[k].reply.status = "rejected" => receipts[calls[k].id].status = "rejected"
    /\ pc = "reply" /\ outcome.status = "rejected" => receipts[ThisId].status = "rejected"

LEMMA CallsAreCalls ==
    ASSUME TypeOK
    PROVE  /\ calls \in Seq(Call) /\ Len(calls) \in Nat /\ DOMAIN calls = 1..Len(calls)
           /\ \A k \in 1..Len(calls) :
                 /\ calls[k] \in Call /\ calls[k].id \in CommandIds
                 /\ calls[k].command \in Commands /\ calls[k].reply \in Reply
<1>1. calls \in Seq(Call)
  BY DEF TypeOK
<1>2. \A k \in 1..Len(calls) : calls[k] \in Call
  BY <1>1
<1> QED
  BY <1>1, <1>2 DEF Call

(* Steps that write no receipt and complete no call.                       *)
LEMMA QuietKeepsRefusals ==
    ASSUME IInv, RefusalsOK, UNCHANGED <<receipts, calls, current>>,
           pc' = "reply" /\ outcome'.status = "rejected" => receipts[ThisId].status = "rejected"
    PROVE  RefusalsOK'
  BY DEF RefusalsOK, ThisId

LEMMA DecisionKeepsRefusals ==
    ASSUME IInv, RefusalsOK, Undecided(ThisId), pc \notin {"down", "idle"},
           NEW status \in {"accepted", "rejected"}, NEW n,
           receipts' = [receipts EXCEPT ![ThisId] = [status |-> status, sequence |-> n]],
           UNCHANGED <<calls, current>>,
           pc' = "reply" /\ outcome'.status = "rejected" => status = "rejected"
    PROVE  RefusalsOK'
<1>1. /\ ThisId \in CommandIds /\ ThisId' = ThisId
      /\ receipts \in [CommandIds -> Receipt]
      /\ \A k \in 1..Len(calls) : calls[k].id \in CommandIds
  BY CurrentCall, CallsAreCalls DEF IInv, TypeOK, ThisId
<1>2. /\ receipts'[ThisId].status = status
      /\ \A id \in CommandIds : id # ThisId => receipts'[id] = receipts[id]
  BY <1>1
<1> QED
  BY <1>1, <1>2 DEF RefusalsOK, Undecided

LEMMA RefusalsStep ==
    ASSUME "receipt" \notin Faults
    PROVE  IInv /\ RefusalsOK /\ [Next]_vars => RefusalsOK'
<1> SUFFICES ASSUME IInv, RefusalsOK, [Next]_vars PROVE RefusalsOK'
  OBVIOUS
<1> USE DEF durable, worker, environment, history
<1>0. TypeOK /\ CurrentOK /\ DecidingOK /\ calls \in Seq(Call) /\ Len(calls) \in Nat
  BY DEF IInv, TypeOK
<1>1. ASSUME NEW id \in CommandIds, NEW c \in Commands, Dispatch(id, c) PROVE RefusalsOK'
  <2> DEFINE n == Len(calls) + 1
             new == [id |-> id, command |-> c, reply |-> Waiting]
  <2>1. calls' = Append(calls, new) /\ UNCHANGED <<receipts, pc, current, outcome>>
    BY <1>1 DEF Dispatch
  <2>2. Len(calls') = n /\ calls'[n] = new /\ \A k \in 1..Len(calls) : calls'[k] = calls[k]
    BY <1>0, <2>1
  <2>3. \A k \in 1..n : k \in 1..Len(calls) \/ k = n
    BY <1>0
  <2>4. pc = "reply" => ThisId' = ThisId
    BY <1>0, <2>1, <2>2 DEF ThisId, CurrentOK
  <2> QED
    BY <2>1, <2>2, <2>3, <2>4 DEF RefusalsOK, Waiting
<1>2. CASE LookupReceipt
  BY <1>2, QuietKeepsRefusals DEF LookupReceipt, Ok
<1>3. CASE Commit \/ CommitUnacknowledged
  BY <1>0, <1>3, DecisionKeepsRefusals
     DEF Commit, CommitUnacknowledged, MakeDurable, Accepted, DecidingOK
<1>4. CASE StoreRejection
  BY <1>0, <1>4, DecisionKeepsRefusals DEF StoreRejection, Rejected, DecidingOK
<1>5. CASE CompleteCall
  <2>1. current \in 1..Len(calls)
    BY <1>0, <1>5 DEF CompleteCall, CurrentOK
  <2>2. /\ Len(calls') = Len(calls) /\ UNCHANGED receipts /\ pc' = "idle"
        /\ \A k \in 1..Len(calls) :
              /\ calls'[k].id = calls[k].id
              /\ calls'[k].reply = IF k = current THEN outcome ELSE calls[k].reply
    BY <1>0, <1>5, <2>1, CallsAreCalls DEF CompleteCall, Call
  <2>3. outcome.status = "rejected" => receipts[calls[current].id].status = "rejected"
    BY <1>5 DEF CompleteCall, RefusalsOK, ThisId
  <2> QED
    BY <2>1, <2>2, <2>3 DEF RefusalsOK
<1>6. CASE Crash
  <2>1. /\ Len(calls') = Len(calls) /\ UNCHANGED receipts /\ pc' = "down"
        /\ \A k \in 1..Len(calls) :
              /\ calls'[k].id = calls[k].id
              /\ calls'[k].reply \in {Lost, calls[k].reply}
    BY <1>0, <1>6, CallsAreCalls DEF Crash, Call
  <2> QED
    BY <2>1 DEF RefusalsOK, Lost
<1>7. CASE Take \/ Start
  BY <1>7 DEF Take, Start, RefusalsOK
<1>8. CASE LookupFails \/ DecideCommand \/ EventIdFails \/ AppendNext \/ TransactionFails
  BY <1>8, QuietKeepsRefusals
     DEF LookupFails, DecideCommand, EventIdFails, AppendNext, TransactionFails
<1>9. CASE Publish \/ PublishDone \/ Reconcile \/ ReplayNext \/ ReplayDone \/ ReconcileFails
  BY <1>9, QuietKeepsRefusals
     DEF Publish, PublishDone, Reconcile, ReplayNext, ReplayDone, ReconcileFails, AfterFailure
<1>10. ~StoreRejectionFails
  BY DEF StoreRejectionFails, Fault
<1>11. CASE UNCHANGED vars
  BY <1>11 DEF vars, RefusalsOK, ThisId
<1> QED
  BY <1>1, <1>2, <1>3, <1>4, <1>5, <1>6, <1>7, <1>8, <1>9, <1>10, <1>11
     DEF Next, WorkerStep, StorageFault

LEMMA RefusalsInvariance ==
    ASSUME "receipt" \notin Faults
    PROVE  Spec => []RefusalsOK
<1>1. Init => RefusalsOK
  BY DEF Init, RefusalsOK
<1>2. IInv /\ RefusalsOK /\ [Next]_vars => RefusalsOK'
  BY RefusalsStep
<1> QED
  BY Invariance, <1>1, <1>2, PTL DEF Spec

Answers == {<<calls[k].id, AnswerTold(k)>> : k \in Told}

Recorded == IInv /\ Stored /\ SerialOK /\ WaitersOK /\ RefusalsOK /\ ~stale /\ ~everStale

(* The answers given do not change when nobody is told anything.           *)
LEMMA AnswersStay ==
    ASSUME Recorded, Told' = Told,
           \A k \in Told : /\ calls'[k].id = calls[k].id
                           /\ calls'[k].reply = calls[k].reply
                           /\ receipts'[calls[k].id] = receipts[calls[k].id]
    PROVE  Answers' = Answers
<1>1. \A k \in Told : AnswerTold(k)' = AnswerTold(k)
  BY DEF AnswerTold
<1> QED
  BY <1>1 DEF Answers

(* A decision is about an id none of whose callers was told anything.      *)
LEMMA DecisionKeepsAnswers ==
    ASSUME Recorded, Undecided(ThisId), pc \notin {"down", "idle"},
           NEW v, receipts' = [receipts EXCEPT ![ThisId] = v],
           UNCHANGED calls
    PROVE  Answers' = Answers
<1>1. TypeOK /\ ThisId \in CommandIds /\ receipts \in [CommandIds -> Receipt]
  BY CurrentCall DEF Recorded, IInv, TypeOK
<1>2. Told' = Told
  BY DEF Told
<1>3. ASSUME NEW k \in Told PROVE calls[k].id # ThisId
  <2>1. k \in 1..Len(calls) /\ k \in DOMAIN calls
    BY <1>1, <1>3, CallsAreCalls DEF Told
  <2>2. CASE calls[k].reply.status = "ok"
    <3>1. receipts[calls[k].id] = Accepted(calls[k].reply.sequence)
      BY <2>1, <2>2 DEF Recorded, IInv, AnswersAreDurable
    <3>2. receipts[calls[k].id].status = "accepted"
      BY <3>1 DEF Accepted
    <3> QED
      BY <3>2 DEF Undecided
  <2>3. CASE calls[k].reply.status = "rejected"
    BY <2>1, <2>3 DEF Undecided, Recorded, RefusalsOK
  <2> QED
    BY <1>3, <2>2, <2>3 DEF Told
<1>4. \A k \in Told : k \in 1..Len(calls) /\ calls[k].id \in CommandIds
  BY <1>1, CallsAreCalls DEF Told
<1>5. \A k \in Told : receipts'[calls[k].id] = receipts[calls[k].id]
  BY <1>1, <1>3, <1>4
<1> QED
  BY <1>2, <1>5, AnswersStay

LEMMA CommandLogStep ==
    ASSUME Recorded, "receipt" \notin Faults, [Next]_vars
    PROVE  [Promise!Next]_(Promise!vars)
<1> USE DEF durable, worker, environment, history
<1>0. /\ IInv /\ TypeOK /\ CurrentOK /\ DecidingOK /\ OutcomeOK
      /\ calls \in Seq(Call) /\ Len(calls) \in Nat /\ DOMAIN calls = 1..Len(calls)
      /\ log \in Seq(Entry) /\ receipts \in [CommandIds -> Receipt]
  BY CallsAreCalls DEF Recorded, IInv, TypeOK
<1>1. CASE Commit \/ CommitUnacknowledged
  <2>1. /\ pc = "transaction" /\ plan = <<>> /\ log' = staged.log
        /\ receipts' = [receipts EXCEPT ![ThisId] = Accepted(Len(staged.log))]
        /\ UNCHANGED <<calls, current>>
    BY <1>1 DEF Commit, CommitUnacknowledged, MakeDurable
  <2>2. ThisId \in CommandIds /\ ThisCommand \in Commands
    BY <1>0, <2>1, CallsAreCalls DEF CurrentOK, ThisId, ThisCommand
  <2>3. Undecided(ThisId) /\ receipts[ThisId] = NoReceipt
    BY <1>0, <2>1, <2>2 DEF DecidingOK, Undecided, Recorded, RefusalsOK
  <2>4. PlanFollows
    BY <2>1 DEF Recorded, SerialOK
  <2>5. readModel.model = Replay(Events)
    BY <2>1 DEF Recorded, Stored, MemoryOK, Settled, ReplayTo, Events
  <2> DEFINE events == Decide(readModel.model, ThisCommand)
  <2>6. /\ events # <<>>
        /\ log' = log \o [i \in 1..Len(events) |-> [command |-> ThisId, event |-> events[i]]]
    BY <1>0, <2>1, <2>4, CommitAppendsPlan
  <2>7. Answers' = Answers
    BY <2>1, <2>3, DecisionKeepsAnswers
  <2>8. Promise!Accept(ThisId, ThisCommand)
    <3>1. Promise!Events = Events
      BY DEF Promise!Events, Events
    <3>2. PlanAfter(Promise!Events, ThisCommand) = events
      BY <2>5, <3>1 DEF PlanAfter
    <3>3. receipts[ThisId] = Promise!Undecided
      BY <2>3 DEF Promise!Undecided, NoReceipt
    <3>4. receipts' = [receipts EXCEPT ![ThisId] = Promise!Verdict("accepted", Len(log'))]
      BY <2>1 DEF Promise!Verdict, Accepted
    <3> HIDE DEF events
    <3> QED
      BY <2>6, <2>7, <3>2, <3>3, <3>4 DEF Promise!Accept, Answers
  <2> QED
    BY <2>2, <2>8 DEF Promise!Next
<1>2. CASE StoreRejection
  <2>1. /\ pc = "receipt" /\ UNCHANGED <<log, calls>>
        /\ receipts' = [receipts EXCEPT ![ThisId] = Rejected(readModel.sequence)]
    BY <1>2 DEF StoreRejection
  <2>2. ThisId \in CommandIds
    BY <1>0, <2>1, CurrentCall
  <2>3. Undecided(ThisId) /\ receipts[ThisId] = NoReceipt
    BY <1>0, <2>1, <2>2 DEF DecidingOK, Undecided, Recorded, RefusalsOK
  <2>4. readModel.sequence = Len(log)
    BY <2>1 DEF Recorded, Stored, MemoryOK, Settled
  <2>5. Answers' = Answers
    BY <2>1, <2>3, DecisionKeepsAnswers
  <2>6. Promise!Refuse(ThisId)
    BY <2>1, <2>3, <2>4, <2>5
       DEF Promise!Refuse, Promise!Undecided, Promise!Verdict, NoReceipt, Rejected, Answers
  <2> QED
    BY <2>2, <2>6 DEF Promise!Next
<1>3. CASE CompleteCall
  <2>1. /\ pc = "reply" /\ UNCHANGED <<log, receipts>>
        /\ current \in 1..Len(calls) /\ calls' = [calls EXCEPT ![current].reply = outcome]
    BY <1>0, <1>3 DEF CompleteCall, CurrentOK
  <2>2. /\ DOMAIN calls' = DOMAIN calls
        /\ \A k \in 1..Len(calls) :
              /\ calls'[k].id = calls[k].id
              /\ calls'[k].reply = IF k = current THEN outcome ELSE calls[k].reply
    BY <1>0, <2>1, CallsAreCalls DEF Call
  <2>3. calls[current].reply = Waiting /\ outcome.status \in {"ok", "rejected", "failed"}
    BY <2>1 DEF Recorded, WaitersOK, Ending
  <2>4. current \notin Told
    BY <2>3 DEF Told, Waiting
  <2>5. \A k \in Told : k \in 1..Len(calls) /\ k # current /\ AnswerTold(k)' = AnswerTold(k)
    BY <1>0, <2>1, <2>2, <2>4 DEF Told, AnswerTold
  <2>6. CASE outcome.status = "failed"
    <3>1. Told' = Told
      BY <1>0, <2>1, <2>2, <2>4, <2>6 DEF Told
    <3>2. Answers' = Answers
      BY <2>2, <2>5, <3>1 DEF Answers
    <3> QED
      BY <2>1, <3>2 DEF Promise!vars, Answers
  <2>7. CASE outcome.status \in {"ok", "rejected"}
    <3> DEFINE r == receipts[ThisId]
    <3>1. PICK n \in 1..Len(calls) : n = current
      BY <2>1
    <3>2. Told' = Told \cup {n}
      BY <1>0, <2>1, <2>2, <2>4, <2>7, <3>1 DEF Told
    <3>3. ThisId \in CommandIds /\ r \in Receipt /\ calls'[n].id = ThisId
      BY <1>0, <2>1, <2>2, <3>1, CurrentCall DEF ThisId
    <3>4. r.status # "none" /\ AnswerTold(n)' = r
      <4>1. CASE outcome.status = "ok"
        <5>1. r = Accepted(outcome.sequence)
          BY <1>0, <4>1 DEF OutcomeOK
        <5> QED
          BY <2>2, <3>1, <4>1, <5>1 DEF AnswerTold, Accepted
      <4>2. CASE outcome.status = "rejected"
        <5>1. r.status = "rejected"
          BY <2>1, <4>2 DEF Recorded, RefusalsOK
        <5>2. r = Rejected(r.sequence)
          BY <3>3, <5>1 DEF Receipt, Rejected
        <5>3. AnswerTold(n)' = Rejected(r.sequence)
          BY <2>1, <2>2, <3>1, <3>3, <4>2 DEF AnswerTold
        <5> QED
          BY <5>1, <5>2, <5>3
      <4> QED
        BY <2>7, <4>1, <4>2
    <3>5. Answers' = Answers \cup {<<ThisId, r>>}
      <4>1. Answers' = {<<calls'[k].id, AnswerTold(k)'>> : k \in Told \cup {n}}
        BY <3>2 DEF Answers
      <4>2. \A k \in Told : calls'[k].id = calls[k].id /\ AnswerTold(k)' = AnswerTold(k)
        BY <2>2, <2>5
      <4>3. Answers = {<<calls[k].id, AnswerTold(k)>> : k \in Told}
        BY DEF Answers
      <4> HIDE DEF r
      <4> QED
        BY <3>3, <3>4, <4>1, <4>2, <4>3
    <3>6. PICK id \in CommandIds : id = ThisId
      BY <3>3
    <3>7. Promise!Answer(id)
      <4>1. r # Promise!Undecided
        BY <3>4 DEF Promise!Undecided
      <4> QED
        BY <2>1, <3>5, <3>6, <4>1 DEF Promise!Answer, Answers
    <3> QED
      BY <3>6, <3>7 DEF Promise!Next
  <2> QED
    BY <2>3, <2>6, <2>7
<1>4. CASE UNCHANGED <<log, receipts>> /\ Answers' = Answers
  BY <1>4 DEF Promise!vars, Answers
<1>5. ASSUME NEW id \in CommandIds, NEW c \in Commands, Dispatch(id, c)
      PROVE  UNCHANGED <<log, receipts>> /\ Answers' = Answers
  <2> DEFINE n == Len(calls) + 1
             new == [id |-> id, command |-> c, reply |-> Waiting]
  <2>1. calls' = Append(calls, new) /\ UNCHANGED <<log, receipts>>
    BY <1>5 DEF Dispatch
  <2>2. /\ DOMAIN calls' = 1..n /\ calls'[n] = new
        /\ \A k \in 1..Len(calls) : calls'[k] = calls[k]
    BY <1>0, <2>1
  <2>3. Told' = Told
    BY <1>0, <2>2 DEF Told, Waiting
  <2>4. \A k \in Told : calls'[k] = calls[k]
    BY <1>0, <2>2 DEF Told
  <2> QED
    BY <2>1, <2>3, <2>4, AnswersStay
<1>6. CASE Crash
  <2>1. /\ UNCHANGED <<log, receipts>> /\ DOMAIN calls' = DOMAIN calls
        /\ \A k \in 1..Len(calls) :
              /\ calls'[k].id = calls[k].id
              /\ calls'[k].reply = IF calls[k].reply = Waiting THEN Lost ELSE calls[k].reply
    BY <1>0, <1>6, CallsAreCalls DEF Crash, Call
  <2>2. Told' = Told
    BY <1>0, <2>1 DEF Told, Waiting, Lost
  <2>3. \A k \in Told : calls'[k].id = calls[k].id /\ calls'[k].reply = calls[k].reply
    BY <1>0, <2>1 DEF Told, Waiting
  <2> QED
    BY <1>4, <2>1, <2>2, <2>3, AnswersStay
<1>7. CASE UNCHANGED <<log, receipts, calls>>
  <2>1. Answers' = Answers
    BY <1>7 DEF Answers, Told, AnswerTold
  <2> QED
    BY <1>4, <1>7, <2>1
<1>8. ~StoreRejectionFails
  BY DEF StoreRejectionFails, Fault
<1>9. \/ UNCHANGED <<log, receipts, calls>>
      \/ Commit \/ CommitUnacknowledged \/ StoreRejection \/ CompleteCall \/ Crash
      \/ \E id \in CommandIds, c \in Commands : Dispatch(id, c)
  BY <1>8
     DEF Next, WorkerStep, StorageFault, vars, Take, LookupReceipt, DecideCommand, AppendNext,
         Publish, PublishDone, Reconcile, ReplayNext, ReplayDone, LookupFails, EventIdFails,
         TransactionFails, ReconcileFails, Start
<1> QED
  BY <1>1, <1>2, <1>3, <1>4, <1>5, <1>6, <1>7, <1>9

(* For its callers the engine is a CommandLog: with a queue, retries,      *)
(* transactions that roll back, commits that are not acknowledged and      *)
(* crashes, each command takes effect in one step, at most once, decided   *)
(* on the log before it, and answers only repeat what was decided.         *)
THEOREM EngineImplementsCommandLog ==
    ASSUME Faults \cap {"reconcile", "receipt"} = {}
    PROVE  Spec => ImplementsCommandLog
<1>0. "reconcile" \notin Faults /\ "receipt" \notin Faults
  OBVIOUS
<1>1. Init => Promise!Init
  BY DEF Init, Promise!Init, Promise!Undecided, NoReceipt, Told
<1>2. Spec => []Recorded
  <2>1. Spec => [](~stale /\ ~everStale)
    BY <1>0, NeverStale
  <2>2. Spec => []RefusalsOK
    BY <1>0, RefusalsInvariance
  <2> QED
    BY <2>1, <2>2, SerialInvariance, WaitersInvariance, PTL DEF Recorded
<1>3. Recorded /\ [Next]_vars => [Promise!Next]_(Promise!vars)
  BY <1>0, CommandLogStep
<1> QED
  BY <1>1, <1>2, <1>3, PTL DEF Spec, ImplementsCommandLog, Promise!Spec
=============================================================================
