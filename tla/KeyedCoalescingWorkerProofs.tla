--------------------- MODULE KeyedCoalescingWorkerProofs ---------------------
(***************************************************************************)
(* Proofs about KeyedCoalescingWorker, for any set of keys and any number  *)
(* of enqueues: types, NoLostWakeup, ValuesConserved, and that the worker  *)
(* implements CoalescingQueue.                                             *)
(***************************************************************************)
EXTENDS KeyedCoalescingWorker, TLAPS

InQueue(q) == {q[i] : i \in DOMAIN q}
Distinct(q) == \A i, j \in DOMAIN q : q[i] = q[j] => i = j

(* What the fiber holds, by the place it is at.                            *)
Holding ==
    /\ worker = "take" <=> key = NoKey
    /\ worker = "process" <=> value # <<>>
    /\ active = IF worker \in {"process", "continue", "cleanup"} THEN {key} ELSE {}

(* The key the fiber works on is marked queued only before its claim and   *)
(* on its way back to the queue.                                           *)
KeyMarked ==
    worker \in {"process", "continue", "cleanup"} => key \notin queued

Pending == \A k \in Keys : latest[k] # <<>> => k \in queued \cup active

Placed ==
    /\ Distinct(queue)
    /\ queued = InQueue(queue) \cup InHand
    /\ InQueue(queue) \cap InHand = {}

Held(k) == IF k = key THEN value ELSE <<>>

IInv == TypeOK /\ Holding /\ KeyMarked /\ Pending /\ Placed /\ ValuesConserved

-----------------------------------------------------------------------------
(* Facts about sequences.                                                  *)
LEMMA AppendPlaces ==
    ASSUME NEW S, NEW q \in Seq(S), NEW e \in S, e \notin InQueue(q), Distinct(q)
    PROVE  /\ Append(q, e) \in Seq(S)
           /\ InQueue(Append(q, e)) = InQueue(q) \cup {e}
           /\ Distinct(Append(q, e))
<1>1. /\ Append(q, e) \in Seq(S) /\ DOMAIN Append(q, e) = 1..(Len(q) + 1)
      /\ DOMAIN q = 1..Len(q) /\ Len(q) \in Nat
      /\ \A i \in 1..Len(q) : Append(q, e)[i] = q[i]
      /\ Append(q, e)[Len(q) + 1] = e
  OBVIOUS
<1>2. \A i \in 1..(Len(q) + 1) : i \in 1..Len(q) \/ i = Len(q) + 1
  BY <1>1
<1>3. InQueue(Append(q, e)) = InQueue(q) \cup {e}
  BY <1>1, <1>2 DEF InQueue
<1>4. \A i \in 1..Len(q) : q[i] # e
  BY <1>1 DEF InQueue
<1>5. Distinct(Append(q, e))
  BY <1>1, <1>2, <1>4 DEF Distinct
<1> QED
  BY <1>1, <1>3, <1>5

LEMMA TakePlaces ==
    ASSUME NEW S, NEW q \in Seq(S), q # <<>>, Distinct(q)
    PROVE  /\ Head(q) \in S /\ Tail(q) \in Seq(S)
           /\ InQueue(Tail(q)) \cup {Head(q)} = InQueue(q)
           /\ Head(q) \notin InQueue(Tail(q))
           /\ Distinct(Tail(q))
<1>1. /\ Len(q) \in Nat /\ Len(q) >= 1 /\ DOMAIN q = 1..Len(q)
      /\ Tail(q) \in Seq(S) /\ DOMAIN Tail(q) = 1..(Len(q) - 1)
      /\ \A i \in 1..(Len(q) - 1) : Tail(q)[i] = q[i + 1]
      /\ Head(q) = q[1] /\ q[1] \in S
  OBVIOUS
<1>2. \A i \in 1..Len(q) : i = 1 \/ (i - 1 \in 1..(Len(q) - 1) /\ (i - 1) + 1 = i)
  BY <1>1
<1>3. \A i \in 1..(Len(q) - 1) : i + 1 \in 1..Len(q) /\ i + 1 # 1
  BY <1>1
<1>4. 1 \in DOMAIN q
  BY <1>1
<1>5. ASSUME NEW x \in InQueue(q) PROVE x \in InQueue(Tail(q)) \cup {Head(q)}
  <2>1. PICK i \in 1..Len(q) : x = q[i]
    BY <1>1 DEF InQueue
  <2>2. CASE i = 1
    BY <1>1, <2>1, <2>2
  <2>3. CASE i # 1
    <3>1. i - 1 \in DOMAIN Tail(q) /\ Tail(q)[i - 1] = x
      BY <1>1, <1>2, <2>1, <2>3
    <3> QED
      BY <3>1 DEF InQueue
  <2> QED
    BY <2>2, <2>3
<1>6. InQueue(Tail(q)) \cup {Head(q)} \subseteq InQueue(q)
  BY <1>1, <1>3, <1>4 DEF InQueue
<1>7. Head(q) \notin InQueue(Tail(q))
  BY <1>1, <1>3, <1>4 DEF InQueue, Distinct
<1>8. Distinct(Tail(q))
  <2> SUFFICES ASSUME NEW i \in 1..(Len(q) - 1), NEW j \in 1..(Len(q) - 1),
                      Tail(q)[i] = Tail(q)[j]
               PROVE  i = j
    BY <1>1 DEF Distinct
  <2>1. q[i + 1] = q[j + 1]
    BY <1>1
  <2>2. i + 1 = j + 1
    BY <1>1, <1>3, <2>1 DEF Distinct
  <2> QED
    BY <2>2
<1> QED
  BY <1>1, <1>5, <1>6, <1>7, <1>8

LEMMA ConcatNothing ==
    ASSUME NEW S, NEW s \in Seq(S)
    PROVE  s \o <<>> = s
OBVIOUS

LEMMA ConcatAppend ==
    ASSUME NEW S, NEW s \in Seq(S), NEW t \in Seq(S), NEW e \in S
    PROVE  s \o Append(t, e) = Append(s \o t, e)
<1>1. /\ Len(s) \in Nat /\ Len(t) \in Nat
      /\ s \o t \in Seq(S) /\ Len(s \o t) = Len(s) + Len(t)
      /\ Append(t, e) \in Seq(S) /\ Len(Append(t, e)) = Len(t) + 1
      /\ s \o Append(t, e) \in Seq(S)
      /\ Len(s \o Append(t, e)) = Len(s) + Len(t) + 1
      /\ Append(s \o t, e) \in Seq(S)
      /\ Len(Append(s \o t, e)) = Len(s) + Len(t) + 1
  OBVIOUS
<1>2. ASSUME NEW i \in 1..(Len(s) + Len(t) + 1)
      PROVE  (s \o Append(t, e))[i] = Append(s \o t, e)[i]
  <2>1. CASE i <= Len(s)
    BY <1>1, <2>1
  <2>2. CASE i > Len(s) /\ i <= Len(s) + Len(t)
    BY <1>1, <2>2
  <2>3. CASE i = Len(s) + Len(t) + 1
    BY <1>1, <2>3
  <2> QED
    BY <1>1, <2>1, <2>2, <2>3
<1> QED
  BY <1>1, <1>2

LEMMA CountUp ==
    ASSUME NEW n \in Nat
    PROVE  Append([i \in 1..n |-> i], n + 1) = [i \in 1..(n + 1) |-> i]
<1> DEFINE s == [i \in 1..n |-> i]
           t == [i \in 1..(n + 1) |-> i]
<1>1. s \in Seq(Nat) /\ Len(s) = n /\ t \in Seq(Nat) /\ Len(t) = n + 1
  OBVIOUS
<1>2. Append(s, n + 1) \in Seq(Nat) /\ Len(Append(s, n + 1)) = n + 1
  BY <1>1
<1>3. ASSUME NEW i \in 1..(n + 1) PROVE Append(s, n + 1)[i] = t[i]
  <2>1. CASE i \in 1..n
    BY <1>1, <2>1
  <2>2. CASE i = n + 1
    BY <1>1, <2>2
  <2> QED
    BY <2>1, <2>2
<1> HIDE DEF s, t
<1>4. Append(s, n + 1) = t
  BY <1>1, <1>2, <1>3
<1> QED
  BY <1>4 DEF s, t

-----------------------------------------------------------------------------
(* The initial state satisfies the inductive invariant.                    *)
LEMMA InitInv == Init => IInv
<1> SUFFICES ASSUME Init PROVE IInv
  OBVIOUS
<1>1. TypeOK /\ Holding /\ KeyMarked /\ Pending
  BY DEF Init, TypeOK, Holding, KeyMarked, Pending
<1>2. Placed
  BY DEF Init, Placed, Distinct, InQueue, InHand
<1>3. ValuesConserved
  <2> SUFFICES ASSUME NEW k \in Keys
               PROVE  attempted[k] \o (IF k = key THEN value ELSE <<>>) \o latest[k]
                        = [i \in 1..sent[k] |-> i]
    BY DEF ValuesConserved
  <2>1. [i \in 1..0 |-> i] = <<>>
    OBVIOUS
  <2>2. <<>> \o <<>> \o <<>> = <<>>
    OBVIOUS
  <2> QED
    BY <2>1, <2>2 DEF Init
<1> QED
  BY <1>1, <1>2, <1>3 DEF IInv

(* The same as ValuesConserved, key by key.                                *)
Conserved(k) == attempted[k] \o Held(k) \o latest[k] = [i \in 1..sent[k] |-> i]

LEMMA ConservedOK == ValuesConserved <=> \A k \in Keys : Conserved(k)
BY DEF ValuesConserved, Conserved, Held

(* A step that leaves the values alone.                                    *)
LEMMA ValuesAlone ==
    ASSUME IInv, UNCHANGED <<sent, attempted, latest, value>>,
           value = <<>> \/ key' = key
    PROVE  ValuesConserved'
BY DEF IInv, ValuesConserved

(* Taking the pending value of the key in hand when it processes nothing.  *)
LEMMA TakeOver ==
    ASSUME IInv, key \in Keys, value = <<>>, key' = key,
           value' = latest[key], latest' = [latest EXCEPT ![key] = <<>>],
           UNCHANGED <<sent, attempted>>
    PROVE  ValuesConserved'
<1> SUFFICES ASSUME NEW k \in Keys PROVE Conserved(k)'
  BY ConservedOK DEF ValuesConserved, Conserved, Held
<1>1. /\ attempted[k] \in Seq(Nat) /\ latest[k] \in Seq(Nat) /\ Held(k) = <<>>
      /\ Conserved(k)
  BY ConservedOK DEF IInv, TypeOK, Held
<1>2. attempted[k] \o latest[k] = [i \in 1..sent[k] |-> i]
  BY <1>1, ConcatNothing DEF Conserved
<1>3. CASE k = key
  <2>1. Held(k)' = latest[k] /\ latest'[k] = <<>>
    BY <1>3 DEF Held, IInv, TypeOK
  <2>2. attempted[k] \o latest[k] \in Seq(Nat)
    BY <1>1
  <2>3. (attempted[k] \o latest[k]) \o <<>> = attempted[k] \o latest[k]
    BY <2>2, ConcatNothing
  <2> QED
    BY <1>2, <2>1, <2>3 DEF Conserved
<1>4. CASE k # key
  <2>1. Held(k)' = <<>> /\ latest'[k] = latest[k]
    BY <1>4 DEF Held, IInv, TypeOK
  <2> QED
    BY <1>1, <2>1 DEF Conserved
<1> QED
  BY <1>3, <1>4

(* Each kind of step preserves the inductive invariant.                    *)
LEMMA EnqueueInv == ASSUME NEW k \in Keys, IInv, Enqueue(k) PROVE IInv'
<1>1. /\ sent' = [sent EXCEPT ![k] = @ + 1]
      /\ latest' = [latest EXCEPT ![k] = Append(@, sent'[k])]
      /\ UNCHANGED <<attempted, active, worker, key, value, drains>>
      /\ sent[k] \in Nat /\ sent'[k] = sent[k] + 1
  BY DEF Enqueue, fiber, IInv, TypeOK
<1>2. /\ sent' \in [Keys -> Nat] /\ latest' \in [Keys -> Seq(Nat)]
      /\ latest'[k] = Append(latest[k], sent[k] + 1)
  BY <1>1 DEF IInv, TypeOK
<1>3. ValuesConserved'
  <2> SUFFICES ASSUME NEW j \in Keys PROVE Conserved(j)'
    BY ConservedOK DEF ValuesConserved, Conserved, Held
  <2>1. /\ Conserved(j) /\ Held(j)' = Held(j) /\ attempted[j] \in Seq(Nat)
        /\ Held(j) \in Seq(Nat) /\ latest[j] \in Seq(Nat)
    BY <1>1, ConservedOK DEF IInv, TypeOK, Held
  <2>2. CASE j = k
    <3> DEFINE before == attempted[k] \o Held(k)
    <3>1. before \in Seq(Nat)
      BY <2>1, <2>2
    <3>2. before \o Append(latest[k], sent[k] + 1)
             = Append(before \o latest[k], sent[k] + 1)
      <4>1. latest[k] \in Seq(Nat) /\ sent[k] + 1 \in Nat
        BY <1>1, <2>1, <2>2
      <4> HIDE DEF before
      <4> QED
        BY <3>1, <4>1, ConcatAppend
    <3>3. before \o latest[k] = [i \in 1..sent[k] |-> i]
      BY <2>1, <2>2 DEF Conserved
    <3>4. Append(before \o latest[k], sent[k] + 1) = [i \in 1..(sent[k] + 1) |-> i]
      BY <1>1, <3>3, CountUp
    <3>5. attempted'[k] \o Held(k)' \o latest'[k] = before \o Append(latest[k], sent[k] + 1)
      BY <1>1, <1>2, <2>1, <2>2
    <3>6. attempted'[k] \o Held(k)' \o latest'[k] = [i \in 1..sent'[k] |-> i]
      <4> HIDE DEF before
      <4> QED
        BY <1>1, <3>2, <3>4, <3>5
    <3> QED
      BY <2>2, <3>6 DEF Conserved
  <2>3. CASE j # k
    BY <1>1, <2>1, <2>3 DEF Conserved, IInv, TypeOK
  <2> QED
    BY <2>2, <2>3
<1>4. CASE k \in queued \cup active
  <2>1. UNCHANGED <<queued, queue>>
    BY <1>4 DEF Enqueue
  <2>2. TypeOK' /\ Holding' /\ KeyMarked' /\ Placed'
    BY <1>1, <1>2, <2>1
       DEF IInv, TypeOK, Holding, KeyMarked, Placed, Distinct, InQueue, InHand
  <2>3. Pending'
    BY <1>1, <1>4, <2>1 DEF IInv, TypeOK, Pending
  <2> QED
    BY <1>3, <2>2, <2>3 DEF IInv
<1>5. CASE k \notin queued \cup active
  <2>1. queued' = queued \cup {k} /\ queue' = Append(queue, k)
    BY <1>5 DEF Enqueue
  <2>2. k \notin InQueue(queue) /\ k \notin InHand /\ Distinct(queue) /\ queue \in Seq(Keys)
    BY <1>5 DEF IInv, Placed, TypeOK
  <2>3. queue' \in Seq(Keys) /\ InQueue(queue') = InQueue(queue) \cup {k} /\ Distinct(queue')
    BY <2>1, <2>2, AppendPlaces
  <2>4. InHand' = InHand
    BY <1>1 DEF InHand
  <2>5. TypeOK'
    BY <1>1, <1>2, <2>1, <2>3 DEF IInv, TypeOK
  <2>6. Placed'
    BY <2>1, <2>2, <2>3, <2>4 DEF IInv, Placed
  <2>7. Holding' /\ KeyMarked'
    BY <1>1, <1>5, <2>1 DEF IInv, Holding, KeyMarked
  <2>8. Pending'
    BY <1>1, <2>1 DEF IInv, TypeOK, Pending
  <2> QED
    BY <1>3, <2>5, <2>6, <2>7, <2>8 DEF IInv
<1> QED
  BY <1>4, <1>5

LEMMA TakeInv == ASSUME IInv, Take PROVE IInv'
<1>1. /\ worker = "take" /\ queue # <<>> /\ key' = Head(queue) /\ queue' = Tail(queue)
      /\ worker' = "taken" /\ UNCHANGED <<sent, attempted, latest, queued, active, value, drains>>
  BY DEF Take, record
<1>2. /\ Head(queue) \in Keys /\ Tail(queue) \in Seq(Keys)
      /\ InQueue(Tail(queue)) \cup {Head(queue)} = InQueue(queue)
      /\ Head(queue) \notin InQueue(Tail(queue)) /\ Distinct(Tail(queue))
  BY <1>1, TakePlaces DEF IInv, TypeOK, Placed
<1>3. TypeOK' /\ Holding' /\ KeyMarked' /\ Pending'
  BY <1>1, <1>2, KeyedAssumption DEF IInv, TypeOK, Holding, KeyMarked, Pending
<1>4. InHand = {} /\ InHand' = {Head(queue)}
  BY <1>1 DEF InHand
<1>5. Placed'
  BY <1>1, <1>2, <1>4 DEF IInv, Placed
<1>6. ValuesConserved'
  BY <1>1, ValuesAlone DEF IInv, Holding
<1> QED
  BY <1>3, <1>5, <1>6 DEF IInv

LEMMA ClaimInv == ASSUME IInv, Claim PROVE IInv'
<1>1. /\ worker = "taken" /\ queued' = queued \ {key} /\ key \in Keys /\ value = <<>>
      /\ active = {} /\ UNCHANGED <<sent, attempted, queue, drains>>
  BY DEF Claim, IInv, TypeOK, Holding
<1>2. Distinct(queue') /\ InHand' = {} /\ queued' = InQueue(queue')
  <2>1. InHand = {key} /\ queued = InQueue(queue) \cup {key} /\ key \notin InQueue(queue)
    BY <1>1 DEF IInv, Placed, InHand
  <2> QED
    BY <1>1, <2>1 DEF IInv, Placed, InHand, Claim
<1>3. Placed'
  BY <1>2 DEF Placed
<1>4. CASE latest[key] = <<>>
  <2>1. worker' = "take" /\ key' = NoKey /\ UNCHANGED <<latest, active, value>>
    BY <1>4 DEF Claim
  <2>2. TypeOK' /\ Holding' /\ KeyMarked' /\ Pending'
    BY <1>1, <1>4, <2>1 DEF IInv, TypeOK, Holding, KeyMarked, Pending
  <2>3. ValuesConserved'
    BY <1>1, <2>1, ValuesAlone
  <2> QED
    BY <1>3, <2>2, <2>3 DEF IInv
<1>5. CASE latest[key] # <<>>
  <2>1. /\ value' = latest[key] /\ latest' = [latest EXCEPT ![key] = <<>>]
        /\ active' = active \cup {key} /\ worker' = "process" /\ key' = key
    BY <1>5 DEF Claim
  <2>2. TypeOK' /\ Holding' /\ KeyMarked' /\ Pending'
    BY <1>1, <1>5, <2>1, KeyedAssumption DEF IInv, TypeOK, Holding, KeyMarked, Pending
  <2>3. ValuesConserved'
    BY <1>1, <2>1, TakeOver
  <2> QED
    BY <1>3, <2>2, <2>3 DEF IInv
<1> QED
  BY <1>4, <1>5

LEMMA EndInv == ASSUME IInv, ProcessEnds \/ ProcessFails PROVE IInv'
<1>1. /\ worker = "process" /\ attempted' = [attempted EXCEPT ![key] = @ \o value]
      /\ value' = <<>> /\ worker' \in {"continue", "cleanup"} /\ key \in Keys
      /\ UNCHANGED <<sent, latest, queued, active, queue, key, drains>>
  BY DEF ProcessEnds, ProcessFails, EndOfAttempt, record, IInv, TypeOK, Holding
<1>2. attempted' \in [Keys -> Seq(Nat)]
  <2>1. attempted[key] \o value \in Seq(Nat)
    BY <1>1 DEF IInv, TypeOK
  <2> QED
    BY <1>1, <2>1 DEF IInv, TypeOK
<1>3. TypeOK' /\ Holding' /\ KeyMarked' /\ Pending'
  BY <1>1, <1>2, KeyedAssumption DEF IInv, TypeOK, Holding, KeyMarked, Pending
<1>4. Placed'
  BY <1>1 DEF IInv, Placed, InHand
<1>5. ValuesConserved'
  <2> SUFFICES ASSUME NEW k \in Keys PROVE Conserved(k)'
    BY ConservedOK DEF ValuesConserved, Conserved, Held
  <2>1. Conserved(k) /\ Held(k)' = <<>>
    BY <1>1, ConservedOK DEF IInv, Held
  <2>2. CASE k = key
    <3>1. attempted'[k] = attempted[k] \o Held(k) /\ attempted'[k] \in Seq(Nat)
      BY <1>1, <1>2, <2>2 DEF Held, IInv, TypeOK
    <3>2. attempted'[k] \o <<>> = attempted'[k]
      BY <3>1, ConcatNothing
    <3> QED
      BY <1>1, <2>1, <3>1, <3>2 DEF Conserved
  <2>3. CASE k # key
    <3>1. Held(k) = <<>> /\ attempted'[k] = attempted[k]
      BY <1>1, <2>3 DEF Held, IInv, TypeOK
    <3> QED
      BY <1>1, <2>1, <3>1 DEF Conserved
  <2> QED
    BY <2>2, <2>3
<1> QED
  BY <1>3, <1>4, <1>5 DEF IInv

LEMMA ContinueInv == ASSUME IInv, Continue PROVE IInv'
<1>1. /\ worker = "continue" /\ key \in Keys /\ key # NoKey /\ value = <<>> /\ active = {key}
      /\ key \notin queued /\ UNCHANGED <<sent, attempted, queued, queue, drains>>
  BY KeyedAssumption DEF Continue, IInv, TypeOK, Holding, KeyMarked
<1>2. InHand = {} /\ InHand' = {}
  BY <1>1 DEF Continue, InHand
<1>3. Placed'
  BY <1>1, <1>2 DEF IInv, Placed
<1>4. CASE latest[key] = <<>>
  <2>1. active' = {} /\ worker' = "take" /\ key' = NoKey /\ UNCHANGED <<latest, value>>
    BY <1>1, <1>4 DEF Continue
  <2>2. TypeOK' /\ Holding' /\ KeyMarked' /\ Pending'
    BY <1>1, <1>4, <2>1 DEF IInv, TypeOK, Holding, KeyMarked, Pending
  <2>3. ValuesConserved'
    BY <1>1, <2>1, ValuesAlone
  <2> QED
    BY <1>3, <2>2, <2>3 DEF IInv
<1>5. CASE latest[key] # <<>>
  <2>1. /\ value' = latest[key] /\ latest' = [latest EXCEPT ![key] = <<>>]
        /\ worker' = "process" /\ UNCHANGED <<active, key>>
    BY <1>5 DEF Continue
  <2>2. TypeOK' /\ Holding' /\ KeyMarked' /\ Pending'
    BY <1>1, <1>5, <2>1 DEF IInv, TypeOK, Holding, KeyMarked, Pending
  <2>3. ValuesConserved'
    BY <1>1, <2>1, TakeOver
  <2> QED
    BY <1>3, <2>2, <2>3 DEF IInv
<1> QED
  BY <1>4, <1>5

LEMMA CleanupInv == ASSUME IInv, Cleanup PROVE IInv'
<1>1. /\ worker = "cleanup" /\ key \in Keys /\ key # NoKey /\ value = <<>> /\ active = {key}
      /\ active' = {} /\ key \notin queued
      /\ UNCHANGED <<sent, attempted, latest, queue, value, drains>>
  BY KeyedAssumption DEF Cleanup, IInv, TypeOK, Holding, KeyMarked
<1>2. ValuesConserved'
  BY <1>1, ValuesAlone
<1>3. InHand = {} /\ queued = InQueue(queue) /\ Distinct(queue)
  BY <1>1 DEF IInv, Placed, InHand
<1>4. CASE latest[key] # <<>>
  <2>1. queued' = queued \cup {key} /\ worker' = "requeue" /\ key' = key
    BY <1>1, <1>4 DEF Cleanup
  <2>2. TypeOK' /\ Holding' /\ KeyMarked' /\ Pending'
    BY <1>1, <1>4, <2>1 DEF IInv, TypeOK, Holding, KeyMarked, Pending
  <2>3. InHand' = {key}
    BY <2>1 DEF InHand
  <2>4. Placed'
    BY <1>1, <1>3, <2>1, <2>3 DEF Placed
  <2> QED
    BY <1>2, <2>2, <2>4 DEF IInv
<1>5. CASE latest[key] = <<>>
  <2>1. queued' = queued /\ worker' = "take" /\ key' = NoKey
    BY <1>1, <1>5 DEF Cleanup
  <2>2. TypeOK' /\ Holding' /\ KeyMarked' /\ Pending'
    BY <1>1, <1>5, <2>1 DEF IInv, TypeOK, Holding, KeyMarked, Pending
  <2>3. InHand' = {}
    BY <2>1 DEF InHand
  <2>4. Placed'
    BY <1>1, <1>3, <2>1, <2>3 DEF Placed
  <2> QED
    BY <1>2, <2>2, <2>4 DEF IInv
<1> QED
  BY <1>4, <1>5

LEMMA RequeueInv == ASSUME IInv, Requeue PROVE IInv'
<1>1. /\ worker = "requeue" /\ key \in Keys /\ key # NoKey /\ value = <<>>
      /\ queue' = Append(queue, key) /\ worker' = "take" /\ key' = NoKey
      /\ UNCHANGED <<sent, attempted, latest, queued, active, value, drains>>
  BY KeyedAssumption DEF Requeue, record, IInv, TypeOK, Holding
<1>2. /\ InHand = {key} /\ InHand' = {} /\ queued = InQueue(queue) \cup {key}
      /\ key \notin InQueue(queue) /\ Distinct(queue) /\ queue \in Seq(Keys)
  BY <1>1 DEF IInv, Placed, InHand, TypeOK
<1>3. queue' \in Seq(Keys) /\ InQueue(queue') = InQueue(queue) \cup {key} /\ Distinct(queue')
  BY <1>1, <1>2, AppendPlaces
<1>4. TypeOK' /\ Holding' /\ KeyMarked' /\ Pending'
  BY <1>1, <1>3 DEF IInv, TypeOK, Holding, KeyMarked, Pending
<1>5. Placed'
  BY <1>1, <1>2, <1>3 DEF Placed
<1>6. ValuesConserved'
  BY <1>1, ValuesAlone
<1> QED
  BY <1>4, <1>5, <1>6 DEF IInv

LEMMA AloneInv ==
    ASSUME IInv, UNCHANGED <<sent, attempted, record, queue, fiber>>,
           drains' \in [Keys -> {"idle", "waiting", "returned"}]
    PROVE  IInv'
<1>1. UNCHANGED <<sent, attempted, latest, queued, active, queue, worker, key, value>>
  BY DEF record, fiber
<1>2. TypeOK'
  BY <1>1 DEF IInv, TypeOK
<1>3. Holding' /\ KeyMarked' /\ Pending'
  BY <1>1 DEF IInv, Holding, KeyMarked, Pending
<1>4. Placed'
  BY <1>1 DEF IInv, Placed, Distinct, InQueue, InHand
<1>5. ValuesConserved'
  BY <1>1, ValuesAlone
<1> QED
  BY <1>2, <1>3, <1>4, <1>5 DEF IInv

LEMMA StepInv == IInv /\ [Next]_vars => IInv'
<1> SUFFICES ASSUME IInv, [Next]_vars PROVE IInv'
  OBVIOUS
<1>1. ASSUME NEW k \in Keys, CallDrain(k) \/ DrainReturns(k) PROVE IInv'
  <2>1. drains' \in [Keys -> {"idle", "waiting", "returned"}]
    BY <1>1 DEF IInv, TypeOK, CallDrain, DrainReturns
  <2> QED
    BY <1>1, <2>1, AloneInv DEF CallDrain, DrainReturns
<1>2. CASE UNCHANGED vars
  BY <1>2, AloneInv DEF vars, IInv, TypeOK
<1>3. ASSUME NEW k \in Keys, Enqueue(k) PROVE IInv'
  BY <1>3, EnqueueInv
<1>4. CASE Take
  BY <1>4, TakeInv
<1>5. CASE Claim
  BY <1>5, ClaimInv
<1>6. CASE ProcessEnds \/ ProcessFails
  BY <1>6, EndInv
<1>7. CASE Continue
  BY <1>7, ContinueInv
<1>8. CASE Cleanup
  BY <1>8, CleanupInv
<1>9. CASE Requeue
  BY <1>9, RequeueInv
<1> QED
  BY <1>1, <1>2, <1>3, <1>4, <1>5, <1>6, <1>7, <1>8, <1>9 DEF Next, Fiber

(* The inductive invariant holds throughout.                               *)
THEOREM Invariance == Spec => []IInv
BY InitInv, StepInv, PTL DEF Spec

(* Every variable has its type.                                            *)
THEOREM TypeCorrectness == Spec => []TypeOK
<1>1. IInv => TypeOK
  BY DEF IInv
<1> QED
  BY Invariance, <1>1, PTL

(* No pending value waits for a wakeup that will not come, and no key is   *)
(* in two places.                                                          *)
THEOREM Wakeups == Spec => []NoLostWakeup
<1>1. IInv => NoLostWakeup
  BY DEF IInv, Pending, Placed, NoLostWakeup, Distinct, InQueue
<1> QED
  BY Invariance, <1>1, PTL

(* No value is lost, repeated or reordered.                                *)
THEOREM Conservation == Spec => []ValuesConserved
<1>1. IInv => ValuesConserved
  BY DEF IInv
<1> QED
  BY Invariance, <1>1, PTL

-----------------------------------------------------------------------------
(* The lengths of the three parts add up to what was sent.                 *)
LEMMA Lengths ==
    ASSUME IInv, NEW k \in Keys
    PROVE  /\ sent[k] \in Nat /\ Len(attempted[k]) \in Nat /\ Len(latest[k]) \in Nat
           /\ Len(Held(k)) \in Nat
           /\ Len(attempted[k]) + Len(Held(k)) + Len(latest[k]) = sent[k]
           /\ latest[k] = <<>> <=> Len(latest[k]) = 0
<1>1. /\ attempted[k] \in Seq(Nat) /\ Held(k) \in Seq(Nat) /\ latest[k] \in Seq(Nat)
      /\ sent[k] \in Nat
  BY DEF IInv, TypeOK, Held
<1>2. Len(attempted[k] \o Held(k) \o latest[k])
         = Len(attempted[k]) + Len(Held(k)) + Len(latest[k])
  BY <1>1
<1>3. Len([i \in 1..sent[k] |-> i]) = sent[k]
  BY <1>1
<1>4. Conserved(k)
  BY ConservedOK DEF IInv
<1>5. Len(attempted[k]) + Len(Held(k)) + Len(latest[k]) = sent[k]
  BY <1>2, <1>3, <1>4 DEF Conserved
<1>6. latest[k] = <<>> <=> Len(latest[k]) = 0
  BY <1>1
<1>7. /\ Len(attempted[k]) \in Nat /\ Len(latest[k]) \in Nat /\ Len(Held(k)) \in Nat
  BY <1>1
<1> QED
  BY <1>1, <1>5, <1>6, <1>7, Zenon

(* The worker implements CoalescingQueue.                                  *)
THEOREM Implementation == Spec => ImplementsCoalescingQueue
<1> DEFINE started == [k \in Keys |-> sent[k] - Len(latest[k])]
           ended == [k \in Keys |-> Len(attempted[k])]
<1>1. Init => Promise!Init
  BY DEF Init, Promise!Init
<1>2. IInv /\ IInv' /\ [Next]_vars => [Promise!Next]_Promise!vars
  <2> SUFFICES ASSUME IInv, IInv', [Next]_vars PROVE [Promise!Next]_Promise!vars
    OBVIOUS
  <2>a. \A k \in Keys : /\ sent[k] \in Nat /\ Len(attempted[k]) \in Nat
                        /\ Len(latest[k]) \in Nat /\ Len(Held(k)) \in Nat
                        /\ Len(attempted[k]) + Len(Held(k)) + Len(latest[k]) = sent[k]
                        /\ latest[k] = <<>> <=> Len(latest[k]) = 0
    BY Lengths
  <2>b. \A k \in Keys : /\ started[k] = sent[k] - Len(latest[k])
                        /\ ended[k] = Len(attempted[k])
                        /\ started[k] = ended[k] + Len(Held(k))
                        /\ latest[k] # <<>> => started[k] < sent[k]
                        /\ latest[k] = <<>> => started[k] = sent[k]
    <3> SUFFICES ASSUME NEW k \in Keys
                 PROVE  /\ sent[k] - Len(latest[k]) = Len(attempted[k]) + Len(Held(k))
                        /\ latest[k] # <<>> => sent[k] - Len(latest[k]) < sent[k]
                        /\ latest[k] = <<>> => sent[k] - Len(latest[k]) = sent[k]
      BY Zenon
    <3> DEFINE s == sent[k]  a == Len(attempted[k])  h == Len(Held(k))  l == Len(latest[k])
    <3>1. /\ s \in Nat /\ a \in Nat /\ h \in Nat /\ l \in Nat /\ a + h + l = s
          /\ latest[k] = <<>> <=> l = 0
      BY <2>a
    <3> HIDE DEF s, a, h, l
    <3>2. s - l = a + h /\ (l # 0 => s - l < s) /\ (l = 0 => s - l = s)
      BY <3>1
    <3> QED
      BY <3>1, <3>2 DEF s, a, h, l
  <2>c. sent \in [Keys -> Nat] /\ latest \in [Keys -> Seq(Nat)]
        /\ attempted \in [Keys -> Seq(Nat)] /\ drains \in [Keys -> {"idle", "waiting", "returned"}]
    BY DEF IInv, TypeOK
  <2>1. ASSUME NEW k \in Keys, Enqueue(k) PROVE Promise!Next
    <3>1. /\ sent' = [sent EXCEPT ![k] = @ + 1]
          /\ latest' = [latest EXCEPT ![k] = Append(@, sent'[k])]
          /\ UNCHANGED <<attempted, drains>>
      BY <2>1 DEF Enqueue
    <3>2. Len(latest'[k]) = Len(latest[k]) + 1 /\ sent'[k] = sent[k] + 1
      BY <2>c, <3>1
    <3>3. started' = started
      BY <2>a, <2>c, <3>1, <3>2
    <3>4. Promise!Send(k)
      BY <3>1, <3>3 DEF Promise!Send
    <3> QED
      BY <3>4 DEF Promise!Next
  <2>2. ASSUME value = <<>>, key \in Keys, latest[key] # <<>>,
               latest' = [latest EXCEPT ![key] = <<>>], UNCHANGED <<sent, attempted, drains>>
        PROVE  Promise!Next
    <3>1. \A j \in Keys : started[j] = ended[j]
      <4> HIDE DEF started, ended
      <4>1. \A j \in Keys : Len(Held(j)) = 0 /\ ended[j] \in Nat
        BY <2>2, <2>a, <2>b DEF Held
      <4> QED
        BY <2>b, <4>1
    <3>2. started[key] < sent[key]
      BY <2>2, <2>b, Zenon
    <3>3. started' = [started EXCEPT ![key] = sent[key]]
      <4>1. latest'[key] = <<>> /\ \A j \in Keys : j # key => latest'[j] = latest[j]
        BY <2>2, <2>c
      <4>2. sent[key] - Len(latest'[key]) = sent[key]
        <5>1. sent[key] \in Nat /\ Len(latest'[key]) = 0
          BY <2>2, <2>a, <4>1
        <5> QED
          BY <5>1
      <4>3. started' = [j \in Keys |-> sent[j] - Len(latest'[j])]
        BY <2>2
      <4> QED
        BY <2>2, <4>1, <4>2, <4>3
    <3>4. PICK k \in Keys : k = key
      BY <2>2
    <3>5. Promise!Start(k)
      BY <2>2, <3>1, <3>2, <3>3, <3>4 DEF Promise!Start
    <3> QED
      BY <3>5 DEF Promise!Next
  <2>3. CASE Take \/ Cleanup \/ Requeue
    BY <2>3 DEF Take, Cleanup, Requeue, record, Promise!vars
  <2>4. CASE Claim \/ Continue
    <3>1. value = <<>> /\ key \in Keys
      BY <2>4, KeyedAssumption DEF Claim, Continue, IInv, TypeOK, Holding
    <3> QED
      BY <2>2, <2>4, <3>1 DEF Claim, Continue, Promise!vars
  <2>5. CASE ProcessEnds \/ ProcessFails
    <3>1. /\ worker = "process" /\ attempted' = [attempted EXCEPT ![key] = @ \o value]
          /\ key \in Keys /\ value # <<>> /\ value \in Seq(Nat)
          /\ UNCHANGED <<sent, latest, drains>>
      BY <2>5 DEF ProcessEnds, ProcessFails, EndOfAttempt, record, IInv, TypeOK, Holding
    <3>2. Len(Held(key)) > 0 /\ Held(key) = value
      BY <3>1 DEF Held
    <3>3. Len(attempted'[key]) = started[key]
      <4>1. Len(attempted[key] \o value) = Len(attempted[key]) + Len(value)
        BY <2>c, <3>1
      <4> QED
        BY <2>a, <2>b, <2>c, <3>1, <3>2, <4>1
    <3>4. ended[key] < started[key]
      BY <2>a, <2>b, <3>1, <3>2
    <3>5. ended' = [ended EXCEPT ![key] = started[key]]
      BY <2>c, <3>1, <3>3
    <3>6. PICK k \in Keys : k = key
      BY <3>1
    <3>7. Promise!End(k)
      BY <3>1, <3>4, <3>5, <3>6 DEF Promise!End
    <3> QED
      BY <3>7 DEF Promise!Next
  <2>6. ASSUME NEW k \in Keys, CallDrain(k) PROVE Promise!Next
    <3>1. Promise!Ask(k)
      BY <2>6 DEF CallDrain, record, Promise!Ask
    <3> QED
      BY <3>1 DEF Promise!Next
  <2>7. ASSUME NEW k \in Keys, DrainReturns(k) PROVE Promise!Next
    <3>1. latest[k] = <<>> /\ k \notin active
      BY <2>7 DEF DrainReturns
    <3>2. Held(k) = <<>>
      BY <3>1 DEF IInv, Holding, Held
    <3>3. ended[k] = sent[k]
      <4>1. Len(Held(k)) = 0 /\ ended[k] \in Nat /\ started[k] = sent[k]
        BY <2>a, <2>b, <3>1, <3>2
      <4> HIDE DEF started, ended
      <4> QED
        BY <2>b, <4>1
    <3>4. Promise!Return(k)
      BY <2>7, <3>3 DEF DrainReturns, record, Promise!Return
    <3> QED
      BY <3>4 DEF Promise!Next
  <2>8. CASE UNCHANGED vars
    BY <2>8 DEF vars, record, Promise!vars
  <2> QED
    BY <2>1, <2>3, <2>4, <2>5, <2>6, <2>7, <2>8 DEF Next, Fiber
<1> QED
  BY Invariance, <1>1, <1>2, PTL DEF Spec, Promise!Spec, ImplementsCoalescingQueue
=============================================================================
