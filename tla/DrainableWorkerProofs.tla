------------------------ MODULE DrainableWorkerProofs ------------------------
(***************************************************************************)
(* Proofs about DrainableWorker, for any items, any number of enqueues and *)
(* drains, and whether or not the worker fails or its scope closes:        *)
(* TypeOK, CountIsBacklog, and that the worker implements WorkQueue.       *)
(***************************************************************************)
EXTENDS DrainableWorker, TLAPS

(* Where the fiber is tells how many items it holds.                       *)
InHand ==
    /\ Len(held) \in {0, 1}
    /\ worker \in {"taken", "process"} => Len(held) = 1
    /\ worker \in {"take", "settle"} => Len(held) = 0

(* Item by item: finished, then held, then queue, are what was accepted.   *)
Accounted ==
    /\ Len(finished) <= Len(accepted)
    /\ \A i \in 1..Len(finished) : accepted[i] = finished[i]
    /\ scope # "closed" =>
         /\ Len(accepted) = Len(finished) + Len(held) + Len(queue)
         /\ \A i \in 1..Len(held) : accepted[Len(finished) + i] = held[i]
         /\ \A i \in 1..Len(queue) : accepted[Len(finished) + Len(held) + i] = queue[i]

Counted == outstanding = (Len(accepted) + refused + Unsettled) - Len(finished)

(* Only a fiber that has ended has a closed queue.                         *)
ClosedIsEnded == scope = "closed" => worker = "ended"

IInv == TypeOK /\ InHand /\ Accounted /\ Counted /\ ClosedIsEnded

-----------------------------------------------------------------------------
(* The initial state satisfies the inductive invariant.                    *)
LEMMA InitInv == Init => IInv
BY DEF Init, IInv, TypeOK, InHand, Accounted, Counted, ClosedIsEnded, Unsettled

(* Elements of a sequence after Append, and of a concatenation.            *)
LEMMA AppendElements ==
    ASSUME NEW S, NEW s \in Seq(S), NEW e \in S
    PROVE  /\ Append(s, e) \in Seq(S)
           /\ Len(Append(s, e)) = Len(s) + 1
           /\ \A i \in 1..Len(s) : Append(s, e)[i] = s[i]
           /\ Append(s, e)[Len(s) + 1] = e
           /\ s \o << e >> = Append(s, e)
OBVIOUS

LEMMA ConcatElements ==
    ASSUME NEW S, NEW s \in Seq(S), NEW t \in Seq(S)
    PROVE  /\ s \o t \in Seq(S)
           /\ Len(s \o t) = Len(s) + Len(t)
           /\ \A i \in 1..Len(s) : (s \o t)[i] = s[i]
           /\ \A i \in 1..Len(t) : (s \o t)[Len(s) + i] = t[i]
OBVIOUS

(* A sequence whose elements are those of two others, in order, is their   *)
(* concatenation.                                                          *)
LEMMA ConcatIs ==
    ASSUME NEW S, NEW s \in Seq(S), NEW t \in Seq(S), NEW u \in Seq(S),
           Len(u) = Len(s) + Len(t),
           \A i \in 1..Len(s) : u[i] = s[i],
           \A i \in 1..Len(t) : u[Len(s) + i] = t[i]
    PROVE  u = s \o t
<1>1. s \o t \in Seq(S) /\ Len(s \o t) = Len(u)
  BY ConcatElements
<1>2. ASSUME NEW i \in 1..Len(u) PROVE u[i] = (s \o t)[i]
  <2>1. CASE i \in 1..Len(s)
    BY <2>1
  <2>2. CASE i \notin 1..Len(s)
    <3>1. i - Len(s) \in 1..Len(t) /\ i = Len(s) + (i - Len(s))
      BY <2>2
    <3>2. u[i] = t[i - Len(s)]
      BY <3>1
    <3>3. (s \o t)[i] = t[i - Len(s)]
      BY <2>2, <3>1
    <3> QED
      BY <3>2, <3>3
  <2> QED
    BY <2>1, <2>2
<1> QED
  BY <1>1, <1>2

(* EndOfItem moves the held item to the end of finished.                   *)
LEMMA EndOfItemInv ==
    ASSUME IInv, EndOfItem
    PROVE  /\ finished' \in Seq(Items) /\ held' \in Seq(Items)
           /\ Len(finished') = Len(finished) + 1 /\ Len(held') = 0
           /\ scope # "closed"
           /\ finished' = Append(finished, accepted[Len(finished) + 1])
           /\ Len(finished) < Len(accepted)
           /\ \A i \in 1..Len(finished') : accepted[i] = finished'[i]
<1> USE DEF IInv, TypeOK, InHand, Accounted, ClosedIsEnded, EndOfItem
<1>1. scope # "closed" /\ Len(held) = 1
  OBVIOUS
<1>2. held = << held[1] >> /\ held[1] \in Items
  BY <1>1
<1>3. accepted[Len(finished) + 1] = held[1]
  BY <1>1
<1>4. finished' = Append(finished, held[1])
  <2>1. finished' = finished \o << held[1] >>
    BY <1>2
  <2>2. finished \o << held[1] >> = Append(finished, held[1])
    BY <1>2, AppendElements
  <2> QED
    BY <2>1, <2>2
<1>5. finished' \in Seq(Items) /\ Len(finished') = Len(finished) + 1
  BY <1>2, <1>4
<1>6. Len(finished) < Len(accepted)
  BY <1>1
<1>7. \A i \in 1..Len(finished') : accepted[i] = finished'[i]
  BY <1>3, <1>4, <1>5
<1> QED
  BY <1>1, <1>3, <1>4, <1>5, <1>6, <1>7

(* Every step preserves the inductive invariant.                           *)
LEMMA StepInv == IInv /\ [Next]_vars => IInv'
<1> SUFFICES ASSUME IInv, [Next]_vars PROVE IInv'
  OBVIOUS
<1>a. /\ Len(accepted) \in Nat /\ Len(finished) \in Nat /\ Len(held) \in Nat
      /\ Len(queue) \in Nat /\ refused \in Nat /\ outstanding \in Nat
      /\ Len(finished) <= Len(accepted)
      /\ outstanding = (Len(accepted) + refused + Unsettled) - Len(finished)
      /\ scope # "closed" => Len(accepted) = Len(finished) + Len(held) + Len(queue)
  BY DEF IInv, TypeOK, Accounted, Counted
<1> USE DEF IInv, TypeOK, InHand, Accounted, Counted, ClosedIsEnded, Unsettled
<1>1. ASSUME NEW x \in Items, Enqueue(x) PROVE IInv'
  <2>1. CASE scope # "closed"
    <3>1. /\ accepted' = Append(accepted, x) /\ queue' = Append(queue, x)
          /\ UNCHANGED <<refused, finished, held, worker, alive, scope, drains>>
          /\ outstanding' = outstanding + 1
      BY <1>1, <2>1 DEF Enqueue
    <3>2. Len(accepted') = Len(accepted) + 1 /\ Len(queue') = Len(queue) + 1
      BY <3>1
    <3>0. accepted \in Seq(Items) /\ queue \in Seq(Items)
      OBVIOUS
    <3>3. \A i \in 1..Len(finished) : accepted'[i] = finished[i]
      BY <3>1
    <3>4. \A i \in 1..Len(held) : accepted'[Len(finished) + i] = held[i]
      BY <3>1, <2>1
    <3>5. ASSUME NEW i \in 1..Len(queue')
          PROVE  accepted'[Len(finished) + Len(held) + i] = queue'[i]
      <4> DEFINE k == Len(finished) + Len(held) + i
      <4>1. CASE i \in 1..Len(queue)
        <5>1. accepted[k] = queue[i]
          BY <2>1, <4>1
        <5>2. k \in 1..Len(accepted)
          <6> HIDE DEF IInv
          <6> QED
            BY <1>a, <2>1, <4>1
        <5>3. accepted'[k] = accepted[k] /\ queue'[i] = queue[i]
          <6> HIDE DEF k, IInv
          <6> QED
            BY <3>1, <4>1, <5>2, AppendElements, <3>0
        <5> QED
          BY <5>1, <5>3
      <4>2. CASE i = Len(queue) + 1
        <5>1. queue'[i] = x /\ accepted'[Len(accepted) + 1] = x
          BY <3>1, <4>2, AppendElements
        <5>2. k = Len(accepted) + 1
          <6> HIDE DEF IInv
          <6> QED
            BY <1>a, <2>1, <4>2
        <5> QED
          BY <5>1, <5>2
      <4> QED
        BY <3>2, <4>1, <4>2
    <3>6. TypeOK' /\ InHand' /\ ClosedIsEnded' /\ Counted'
      BY <2>1, <3>1, <3>2
    <3>7. /\ Len(finished') <= Len(accepted')
          /\ Len(accepted') = Len(finished') + Len(held') + Len(queue')
      <4> HIDE DEF IInv
      <4> QED
        BY <1>a, <2>1, <3>1, <3>2
    <3>8. Accounted'
      <4> HIDE DEF IInv
      <4> QED
        BY <3>1, <3>3, <3>4, <3>5, <3>7
    <3> QED
      BY <3>6, <3>8
  <2>2. CASE scope = "closed"
    BY <1>1, <2>2 DEF Enqueue
  <2> QED
    BY <2>1, <2>2
<1>2. CASE Take
  <2>1. /\ held' = << Head(queue) >> /\ queue' = Tail(queue) /\ queue # <<>>
        /\ worker = "take" /\ worker' = "taken" /\ scope # "closed" /\ Len(held) = 0
        /\ UNCHANGED <<history, alive, outstanding, scope, drains>>
    BY <1>2 DEF Take
  <2>2. /\ held' \in Seq(Items) /\ Len(held') = 1 /\ held'[1] = queue[1]
        /\ queue' \in Seq(Items) /\ Len(queue') = Len(queue) - 1
        /\ \A i \in 1..Len(queue') : queue'[i] = queue[i + 1]
    BY <2>1
  <2>3. ASSUME NEW i \in 1..Len(queue')
        PROVE  accepted[Len(finished) + Len(held') + i] = queue'[i]
    <3>1. i + 1 \in 1..Len(queue)
      BY <2>2
    <3>2. accepted[Len(finished) + Len(held) + (i + 1)] = queue[i + 1]
      BY <2>1, <3>1
    <3> QED
      BY <2>1, <2>2, <3>2
  <2>4. accepted[Len(finished) + 1] = held'[1] /\ Len(queue) >= 1
    <3>1. 1 \in 1..Len(queue)
      BY <2>1
    <3> QED
      BY <2>1, <2>2, <3>1
  <2>5. UNCHANGED <<accepted, refused, finished, alive, outstanding, scope, drains>>
    BY <2>1 DEF history
  <2>6. Len(accepted) = Len(finished) + Len(held') + Len(queue')
    <3> HIDE DEF IInv
    <3> QED
      BY <1>a, <2>1, <2>2
  <2>7. \A i \in 1..Len(held') : accepted[Len(finished) + i] = held'[i]
    BY <2>2, <2>4
  <2> QED
    BY <2>1, <2>2, <2>3, <2>5, <2>6, <2>7
<1>3. CASE Process
  BY <1>3 DEF Process, history
<1>4. ASSUME EndOfItem, UNCHANGED <<accepted, refused, queue, outstanding, drains>>,
             alive' \in BOOLEAN, scope' \in {scope, "closing"}
      PROVE  IInv'
  <2>1. /\ finished' \in Seq(Items) /\ held' \in Seq(Items)
        /\ Len(finished') = Len(finished) + 1 /\ Len(held') = 0
        /\ scope # "closed" /\ Len(finished) < Len(accepted)
        /\ \A i \in 1..Len(finished') : accepted[i] = finished'[i]
    BY <1>4, EndOfItemInv
  <2>2. Len(held) = 1 /\ worker = "process" /\ worker' = "settle"
    BY <1>4 DEF EndOfItem
  <2>3. Len(accepted) = Len(finished') + Len(held') + Len(queue)
    BY <2>1, <2>2
  <2>4. \A i \in 1..Len(queue) : accepted[Len(finished') + Len(held') + i] = queue[i]
    BY <2>1, <2>2
  <2> QED
    BY <1>4, <2>1, <2>2, <2>3, <2>4
<1>5. CASE ProcessEnds
  BY <1>4, <1>5 DEF ProcessEnds
<1>6. CASE ProcessFails
  BY <1>4, <1>6 DEF ProcessFails
<1>7. CASE Settle
  <2>1. /\ UNCHANGED <<accepted, refused, finished, queue, held, alive, scope, drains>>
        /\ outstanding' = outstanding - 1 /\ worker = "settle"
        /\ worker' \in {"take", "ended"} /\ Len(held) = 0
    BY <1>7 DEF Settle, history
  <2>2. outstanding' \in Nat /\ Counted'
    <3> HIDE DEF IInv
    <3> QED
      BY <1>a, <2>1
  <2>3. Accounted' /\ InHand' /\ ClosedIsEnded'
    BY <2>1
  <2> QED
    BY <2>1, <2>2, <2>3
<1>8. CASE Interrupt
  <2>1. CASE EndOfItem
    BY <1>4, <1>8, <2>1 DEF Interrupt
  <2>2. CASE ~EndOfItem
    BY <1>8, <2>2 DEF Interrupt
  <2> QED
    BY <2>1, <2>2
<1>9. CASE Shutdown
  BY <1>9 DEF Shutdown, history
<1>10. ASSUME NEW w \in Waiters, CallDrain(w) \/ DrainReturns(w) PROVE IInv'
  BY <1>10 DEF CallDrain, DrainReturns, history, state
<1>11. CASE UNCHANGED vars
  BY <1>11 DEF vars, history, state
<1> QED
  BY <1>1, <1>2, <1>3, <1>5, <1>6, <1>7, <1>8, <1>9, <1>10, <1>11 DEF Next, Fiber

(* The inductive invariant holds throughout.                               *)
THEOREM Invariance == Spec => []IInv
BY InitInv, StepInv, PTL DEF Spec

(* Every variable has its type.                                            *)
THEOREM TypeCorrectness == Spec => []TypeOK
<1>1. IInv => TypeOK
  BY DEF IInv
<1> QED
  BY Invariance, <1>1, PTL

(* The counter drain waits on is exactly the backlog, and nothing accepted *)
(* is lost or reordered while the scope is open.                           *)
THEOREM ExactBacklog == Spec => []CountIsBacklog
<1>1. IInv => CountIsBacklog
  <2> SUFFICES ASSUME IInv PROVE CountIsBacklog
    OBVIOUS
  <2> USE DEF IInv, TypeOK, InHand, Accounted, Counted
  <2>1. ASSUME scope # "closed" PROVE accepted = finished \o held \o queue
    <3> DEFINE ahead == finished \o held
    <3>1. /\ ahead \in Seq(Items) /\ Len(ahead) = Len(finished) + Len(held)
          /\ \A i \in 1..Len(finished) : ahead[i] = finished[i]
          /\ \A i \in 1..Len(held) : ahead[Len(finished) + i] = held[i]
      BY ConcatElements
    <3>2. ASSUME NEW i \in 1..Len(ahead) PROVE accepted[i] = ahead[i]
      <4>1. CASE i \in 1..Len(finished)
        BY <3>1, <4>1
      <4>2. CASE i \notin 1..Len(finished)
        <5>1. i - Len(finished) \in 1..Len(held) /\ i = Len(finished) + (i - Len(finished))
          BY <3>1, <4>2
        <5> QED
          BY <2>1, <3>1, <5>1
      <4> QED
        BY <4>1, <4>2
    <3>3. /\ Len(accepted) = Len(ahead) + Len(queue)
          /\ \A i \in 1..Len(queue) : accepted[Len(ahead) + i] = queue[i]
      BY <2>1, <3>1
    <3> HIDE DEF ahead
    <3>4. accepted = ahead \o queue
      BY <3>1, <3>2, <3>3, ConcatIs
    <3> QED
      BY <3>4 DEF ahead
  <2> QED
    BY <2>1 DEF CountIsBacklog
<1> QED
  BY Invariance, <1>1, PTL

(* The counter at zero means everything accepted has been processed.       *)
LEMMA ZeroIsDone == IInv /\ outstanding = 0 => finished = accepted
<1> SUFFICES ASSUME IInv, outstanding = 0 PROVE finished = accepted
  OBVIOUS
<1> USE DEF IInv, TypeOK, Accounted, Counted, Unsettled
<1>1. Len(finished) = Len(accepted)
  OBVIOUS
<1> QED
  BY <1>1

(* A drain returns only when every accepted item has been processed, and   *)
(* items are processed once, one at a time, in the order of acceptance:    *)
(* the worker implements WorkQueue.                                        *)
THEOREM Implementation == Spec => ImplementsWorkQueue
<1>1. Init => Promise!Init
  BY DEF Init, Promise!Init
<1>2. IInv /\ [Next]_vars => [Promise!Next]_Promise!vars
  <2> SUFFICES ASSUME IInv, [Next]_vars PROVE [Promise!Next]_Promise!vars
    OBVIOUS
  <2> USE DEF Promise!vars, Promise!Next
  <2>1. ASSUME NEW x \in Items, Enqueue(x) PROVE [Promise!Next]_Promise!vars
    BY <2>1 DEF Enqueue, Promise!Accept
  <2>2. ASSUME EndOfItem, UNCHANGED <<accepted, drains>> PROVE Promise!Next
    BY <2>2, EndOfItemInv DEF Promise!Finish
  <2>3. CASE Take \/ Process \/ Settle \/ Shutdown
    BY <2>3 DEF Take, Process, Settle, Shutdown, history
  <2>4. CASE ProcessEnds \/ ProcessFails
    BY <2>2, <2>4 DEF ProcessEnds, ProcessFails
  <2>5. CASE Interrupt
    BY <2>2, <2>5 DEF Interrupt
  <2>6. ASSUME NEW w \in Waiters, CallDrain(w) PROVE Promise!Next
    BY <2>6 DEF CallDrain, Promise!Ask, history
  <2>7. ASSUME NEW w \in Waiters, DrainReturns(w) PROVE Promise!Next
    BY <2>7, ZeroIsDone DEF DrainReturns, Promise!Return, history
  <2>8. CASE UNCHANGED vars
    BY <2>8 DEF vars, history
  <2> QED
    BY <2>1, <2>3, <2>4, <2>5, <2>6, <2>7, <2>8 DEF Next, Fiber
<1> QED
  BY Invariance, <1>1, <1>2, PTL DEF Spec, Promise!Spec, ImplementsWorkQueue
=============================================================================
