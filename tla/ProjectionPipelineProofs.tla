---------------------- MODULE ProjectionPipelineProofs ----------------------
(***************************************************************************)
(* Proofs about ProjectionPipeline, for any number of projectors, any      *)
(* limit and any page size: no projector repeats or reorders an event, and *)
(* one that was within the limit is level when the server serves.          *)
(***************************************************************************)
EXTENDS ProjectionPipeline, SequenceTheorems, TLAPS

-----------------------------------------------------------------------------
(* Intervals of the log. *)

LEMMA IntervalIs ==
    ASSUME NEW a \in Nat, NEW b \in Nat, a <= b
    PROVE  /\ Interval(a, b) \in Seq(Nat)
           /\ Len(Interval(a, b)) = b - a
           /\ \A i \in 1..(b - a) : Interval(a, b)[i] = a + i
BY DEF Interval

LEMMA IntervalTail ==
    ASSUME NEW a \in Nat, NEW b \in Nat, a < b
    PROVE  /\ Head(Interval(a, b)) = a + 1
           /\ Tail(Interval(a, b)) = Interval(a + 1, b)
<1>1. Interval(a, b) \in Seq(Nat) /\ Len(Interval(a, b)) = b - a
      /\ \A i \in 1..(b - a) : Interval(a, b)[i] = a + i
  BY IntervalIs
<1>2. Interval(a + 1, b) \in Seq(Nat) /\ Len(Interval(a + 1, b)) = b - a - 1
      /\ \A i \in 1..(b - a - 1) : Interval(a + 1, b)[i] = a + 1 + i
  BY DEF Interval
<1>3. Head(Interval(a, b)) = a + 1
  BY <1>1
<1>4. /\ Tail(Interval(a, b)) \in Seq(Nat)
      /\ Len(Tail(Interval(a, b))) = b - a - 1
      /\ \A i \in 1..(b - a - 1) : Tail(Interval(a, b))[i] = a + 1 + i
  BY <1>1
<1> DEFINE t == Tail(Interval(a, b))
           u == Interval(a + 1, b)
<1> HIDE DEF t, u
<1>5. t \in Seq(Nat) /\ u \in Seq(Nat) /\ Len(t) = Len(u)
  BY <1>2, <1>4 DEF t, u
<1>6. \A i \in 1..Len(t) : t[i] = u[i]
  BY <1>2, <1>4 DEF t, u
<1>7. t = u
  BY <1>5, <1>6, SeqEqual
<1> QED
  BY <1>3, <1>7 DEF t, u

LEMMA IntervalAppend ==
    ASSUME NEW b \in Nat
    PROVE  Append(Interval(0, b), b + 1) = Interval(0, b + 1)
<1>1. Interval(0, b) \in Seq(Nat) /\ Len(Interval(0, b)) = b
      /\ \A i \in 1..b : Interval(0, b)[i] = i
  BY DEF Interval
<1>2. Interval(0, b + 1) \in Seq(Nat) /\ Len(Interval(0, b + 1)) = b + 1
      /\ \A i \in 1..(b + 1) : Interval(0, b + 1)[i] = i
  BY DEF Interval
<1> DEFINE s == Append(Interval(0, b), b + 1)
<1>3. s \in Seq(Nat) /\ Len(s) = b + 1 /\ \A i \in 1..(b + 1) : s[i] = i
  BY <1>1
<1> QED
  BY <1>2, <1>3

LEMMA Joined ==
    ASSUME NEW x \in Seq(Nat), NEW y \in Seq(Nat)
    PROVE  /\ x \o y \in Seq(Nat)
           /\ Len(x \o y) = Len(x) + Len(y)
           /\ \A i \in 1..Len(x) : (x \o y)[i] = x[i]
           /\ \A i \in 1..(Len(x) + Len(y)) : i > Len(x) => (x \o y)[i] = y[i - Len(x)]
OBVIOUS

LEMMA IntervalJoin ==
    ASSUME NEW a \in Nat, NEW b \in Nat, a <= b
    PROVE  Interval(0, a) \o Interval(a, b) = Interval(0, b)
<1>1. Interval(0, a) \in Seq(Nat) /\ Len(Interval(0, a)) = a
      /\ \A i \in 1..a : Interval(0, a)[i] = i
  BY DEF Interval
<1>2. Interval(a, b) \in Seq(Nat) /\ Len(Interval(a, b)) = b - a
      /\ \A i \in 1..(b - a) : Interval(a, b)[i] = a + i
  BY IntervalIs
<1>3. Interval(0, b) \in Seq(Nat) /\ Len(Interval(0, b)) = b
      /\ \A i \in 1..b : Interval(0, b)[i] = i
  BY DEF Interval
<1> DEFINE x == Interval(0, a)
           y == Interval(a, b)
           s == x \o y
<1> HIDE DEF x, y
<1>0. x \in Seq(Nat) /\ y \in Seq(Nat) /\ Len(x) = a /\ Len(y) = b - a
  BY <1>1, <1>2 DEF x, y
<1>4. /\ s \in Seq(Nat)
      /\ Len(s) = a + (b - a)
      /\ \A i \in 1..a : s[i] = x[i]
      /\ \A i \in 1..(a + (b - a)) : i > a => s[i] = y[i - a]
  BY Joined, <1>0
<1> HIDE DEF s
<1> USE DEF x, y
<1>5. s \in Seq(Nat) /\ Len(s) = b
  BY <1>4
<1>6. ASSUME NEW i \in 1..b PROVE s[i] = i
  <2>1. CASE i <= a
    BY <2>1, <1>1, <1>4
  <2>2. CASE a < i
    <3>1. i - a \in 1..(b - a) /\ s[i] = Interval(a, b)[i - a]
      BY <2>2, <1>4
    <3> QED
      BY <3>1, <1>2
  <2> QED
    BY <2>1, <2>2
<1>7. s = Interval(0, b)
  BY <1>3, <1>5, <1>6
<1> QED
  BY <1>7 DEF s, x, y

(* Sequences whose entries ascend up to a bound, as those the projectors   *)
(* apply do.                                                               *)
Ascending(s, c) ==
    /\ \A i \in 1..Len(s) : 1 <= s[i] /\ s[i] <= c
    /\ \A i, j \in 1..Len(s) : i < j => s[i] < s[j]

LEMMA AppendAscends ==
    ASSUME NEW s \in Seq(Nat), NEW c \in Nat, Ascending(s, c)
    PROVE  /\ Append(s, c + 1) \in Seq(Nat)
           /\ Append(s, c + 1) # <<>>
           /\ Append(s, c + 1)[Len(Append(s, c + 1))] = c + 1
           /\ Ascending(Append(s, c + 1), c + 1)
<1> DEFINE t == Append(s, c + 1)
<1>1. t \in Seq(Nat) /\ Len(t) = Len(s) + 1 /\ t[Len(s) + 1] = c + 1
      /\ \A i \in 1..Len(s) : t[i] = s[i]
  OBVIOUS
<1>2. \A i \in 1..Len(s) : s[i] \in Nat
  OBVIOUS
<1> HIDE DEF t
<1>3. \A i \in 1..Len(t) : i \in 1..Len(s) \/ i = Len(s) + 1
  BY <1>1
<1>4. \A i \in 1..Len(t) : 1 <= t[i] /\ t[i] <= c + 1
  BY <1>1, <1>2, <1>3 DEF Ascending
<1>5. ASSUME NEW i \in 1..Len(t), NEW j \in 1..Len(t), i < j PROVE t[i] < t[j]
  <2>1. i \in 1..Len(s)
    BY <1>1, <1>5
  <2>2. CASE j \in 1..Len(s)
    BY <2>1, <2>2, <1>1, <1>5 DEF Ascending
  <2>3. CASE j = Len(s) + 1
    BY <2>1, <2>3, <1>1, <1>2 DEF Ascending
  <2> QED
    BY <2>2, <2>3, <1>3
<1> QED
  BY <1>1, <1>4, <1>5 DEF Ascending, t

LEMMA JoinAscends ==
    ASSUME NEW s \in Seq(Nat), NEW a \in Nat, NEW n \in Nat \ {0}, Ascending(s, a)
    PROVE  /\ s \o Interval(a, a + n) # <<>>
           /\ (s \o Interval(a, a + n))[Len(s \o Interval(a, a + n))] = a + n
           /\ Ascending(s \o Interval(a, a + n), a + n)
<1> DEFINE new == Interval(a, a + n)
           t == s \o new
           k == Len(s)
<1>1. new \in Seq(Nat) /\ Len(new) = n /\ \A i \in 1..n : new[i] = a + i
  BY DEF Interval
<1> HIDE DEF new
<1>2. t \in Seq(Nat) /\ Len(t) = k + n /\ k \in Nat
      /\ (\A i \in 1..k : t[i] = s[i])
      /\ \A i \in 1..(k + n) : i > k => t[i] = new[i - k]
  BY <1>1
<1>3. \A i \in 1..k : s[i] \in Nat
  OBVIOUS
<1> HIDE DEF t, k
<1>4. \A i \in 1..(k + n) : i > k => t[i] = a + (i - k)
  <2> TAKE i \in 1..(k + n)
  <2> HAVE i > k
  <2>1. i - k \in 1..n
    BY <1>2
  <2> QED
    BY <2>1, <1>1, <1>2
<1>5. \A i \in 1..k : 1 <= t[i] /\ t[i] <= a /\ t[i] \in Nat
  BY <1>2, <1>3 DEF Ascending, k
<1>6. \A i \in 1..k, j \in 1..k : i < j => t[i] < t[j]
  BY <1>2 DEF Ascending, k
<1>7. \A i \in 1..(k + n) : 1 <= t[i] /\ t[i] <= a + n
  BY <1>2, <1>4, <1>5
<1>8. ASSUME NEW i \in 1..(k + n), NEW j \in 1..(k + n), i < j PROVE t[i] < t[j]
  <2>1. CASE j <= k
    BY <2>1, <1>2, <1>6, <1>8
  <2>2. CASE i <= k /\ k < j
    BY <2>2, <1>2, <1>4, <1>5
  <2>3. CASE k < i
    BY <2>3, <1>2, <1>4, <1>8
  <2> QED
    BY <2>1, <2>2, <2>3, <1>2
<1>9. t[k + n] = a + n /\ t # <<>>
  BY <1>2, <1>4
<1> QED
  BY <1>2, <1>7, <1>8, <1>9 DEF Ascending, t, new

-----------------------------------------------------------------------------
(* The inductive invariant. *)

(* A projector has applied each event at most once, in order, up to its    *)
(* cursor,                                                                 *)
Ordered(p) ==
    /\ cursor[p] <= last
    /\ Ascending(applied[p], cursor[p])
    /\ cursor[p] = IF applied[p] = <<>> THEN 0 ELSE applied[p][Len(applied[p])]

(* and every one of them, unless it was left behind.                       *)
Whole(p) == p \notin behind => applied[p] = Interval(0, cursor[p])

(* The page holds the events after the cursor of the projector whose turn  *)
(* it is.                                                                  *)
PageFollows ==
    /\ next # 0 => phase = "bootstrap" /\ next \in installed \cup {Projectors + 1}
    /\ phase = "bootstrap" => next # 0
    /\ page # <<>> => next \in Names
    /\ next \in Names =>
          /\ cursor[next] + Len(page) <= last
          /\ page = Interval(cursor[next], cursor[next] + Len(page))

(* The bootstrap has levelled the projectors it has passed, the limit of   *)
(* the one at hand covers what it has to read, and so will that of those   *)
(* to come.                                                                *)
Levelled(p) ==
    /\ phase = "serving" => cursor[p] = last
    /\ phase = "bootstrap" =>
          /\ p < next => cursor[p] = last
          /\ p = next => last <= cursor[p] + Len(page) + remaining
          /\ next < p => last <= cursor[p] + Limit

Inv ==
    /\ TypeOK
    /\ \A p \in Names : Ordered(p) /\ Whole(p)
    /\ PageFollows
    /\ \A p \in installed \ behind : Levelled(p)

USE PipelineAssumption

LEMMA InitInv == Init => Inv
<1> SUFFICES ASSUME Init PROVE Inv
  OBVIOUS
<1>1. TypeOK
  BY DEF Init, TypeOK, Names
<1>2. \A p \in Names : Ordered(p) /\ Whole(p)
  BY DEF Init, Ordered, Ascending, Whole, Interval
<1>3. PageFollows /\ \A p \in installed \ behind : Levelled(p)
  BY DEF Init, PageFollows, Levelled, Names
<1> QED
  BY <1>1, <1>2, <1>3 DEF Inv

(* The projectors and their tables are as they were. *)
LEMMA TablesKept ==
    ASSUME Inv, UNCHANGED durable, behind \subseteq behind', TypeOK'
    PROVE  \A p \in Names : Ordered(p)' /\ Whole(p)'
BY DEF Inv, durable, Ordered, Ascending, Whole, Interval

LEMMA StartInv == ASSUME Inv, Start PROVE Inv'
<1> USE DEF Inv
<1>0. next' \in 0..(Projectors + 1)
  <2>1. next' \in installed \cup {Projectors + 1}
    BY DEF Start, Following
  <2> QED
    BY <2>1 DEF TypeOK, Names
<1>9. behind' \subseteq Names
  BY DEF Start, TypeOK
<1>1. TypeOK'
  BY <1>0, <1>9 DEF Start, TypeOK, durable
<1>2. \A p \in Names : Ordered(p)' /\ Whole(p)'
  BY <1>1, TablesKept DEF Start
<1>3. page' = <<>> /\ next' \in installed \cup {Projectors + 1} /\ next' > 0
      /\ \A q \in installed : q <= 0 \/ next' <= q
  BY DEF Start, Following, TypeOK, Names
<1>4. PageFollows'
  <2>1. ASSUME next' \in Names
        PROVE  <<>> = Interval(cursor[next'], cursor[next'] + 0)
    BY <2>1, <1>1 DEF Interval, TypeOK
  <2> QED
    BY <1>1, <1>2, <1>3, <2>1 DEF PageFollows, Start, durable, Ordered, TypeOK
<1>5. \A p \in (installed \ behind)' : Levelled(p)'
  BY <1>1, <1>3 DEF Start, durable, Levelled, TypeOK, Names
<1> QED
  BY <1>1, <1>2, <1>4, <1>5

LEMMA ReadPageInv == ASSUME Inv, ReadPage PROVE Inv'
<1> USE DEF Inv
<1> DEFINE c == cursor[next]
           to == Smaller(last, c + Smaller(remaining, PageSize))
<1>1. next \in Names /\ next \in installed /\ c \in Nat /\ to \in Nat
      /\ c <= to /\ to <= last /\ to - c <= remaining /\ page = <<>>
  BY DEF ReadPage, PageFollows, TypeOK, Smaller, Names
<1>2. page' = Interval(c, to) /\ remaining' = remaining - (to - c)
  BY DEF ReadPage
<1>3. page' \in Seq(Nat) /\ Len(page') = to - c
  BY <1>1, <1>2, IntervalIs
<1>4. TypeOK'
  BY <1>1, <1>2, <1>3 DEF ReadPage, TypeOK, durable
<1>5. \A p \in Names : Ordered(p)' /\ Whole(p)'
  BY <1>4, TablesKept DEF ReadPage
<1>6. PageFollows'
  BY <1>1, <1>2, <1>3 DEF ReadPage, PageFollows, durable
<1>7. \A p \in (installed \ behind)' : Levelled(p)'
  BY <1>1, <1>2, <1>3 DEF ReadPage, durable, Levelled, TypeOK, Names
<1> QED
  BY <1>4, <1>5, <1>6, <1>7

LEMMA ReplayInv == ASSUME Inv, Replay PROVE Inv'
<1> USE DEF Inv
<1> DEFINE c == cursor[next]
           to == c + Len(page)
<1>1. next \in Names /\ c \in Nat /\ to \in Nat /\ c < to /\ to <= last
      /\ page = Interval(c, to)
  BY DEF Replay, PageFollows, TypeOK
<1>2. Head(page) = c + 1 /\ page' = Interval(c + 1, to) /\ Len(page') = to - (c + 1)
  <2>1. c + 1 \in Nat /\ c + 1 <= to
    BY <1>1
  <2>2. Len(Interval(c + 1, to)) = to - (c + 1)
    BY <2>1, <1>1, IntervalIs
  <2>3. Head(Interval(c, to)) = c + 1 /\ Tail(Interval(c, to)) = Interval(c + 1, to)
    BY <1>1, IntervalTail
  <2>4. page' = Tail(page)
    BY DEF Replay
  <2> QED
    BY <2>2, <2>3, <2>4, <1>1
<1>3. cursor' = [cursor EXCEPT ![next] = c + 1]
      /\ applied' = [applied EXCEPT ![next] = Append(applied[next], c + 1)]
  BY <1>2 DEF Replay
<1>4. TypeOK'
  <2>1. page' \in Seq(Nat)
    BY DEF Replay, TypeOK
  <2> QED
    BY <2>1, <1>1, <1>3 DEF Replay, TypeOK
<1>5. ASSUME NEW p \in Names PROVE Ordered(p)' /\ Whole(p)'
  <2>1. CASE p # next
    BY <2>1, <1>3 DEF Replay, Ordered, Ascending, Whole, Interval, TypeOK
  <2>2. CASE p = next
    <3>1. applied[p] \in Seq(Nat) /\ applied'[p] = Append(applied[p], c + 1)
          /\ cursor'[p] = c + 1
      BY <2>2, <1>1, <1>3 DEF TypeOK
    <3>2. Ordered(p)'
      <4>1. Ascending(applied[p], c) /\ c + 1 <= last
        <5>1. Ascending(applied[p], cursor[p]) /\ last \in Nat
          BY DEF Ordered, TypeOK
        <5> QED
          BY <5>1, <2>2, <1>1
      <4>2. Ascending(applied'[p], c + 1) /\ applied'[p] # <<>>
            /\ applied'[p][Len(applied'[p])] = c + 1
        BY <4>1, <3>1, <1>1, AppendAscends
      <4>3. last' = last
        BY DEF Replay
      <4> QED
        BY <4>1, <4>2, <4>3, <3>1 DEF Ordered
    <3>3. Whole(p)'
      BY <2>2, <3>1, <1>1, IntervalAppend DEF Replay, Whole
    <3> QED
      BY <3>2, <3>3
  <2> QED
    BY <2>1, <2>2
<1>6. PageFollows'
  BY <1>1, <1>2, <1>3 DEF Replay, PageFollows, TypeOK
<1>7. ASSUME NEW p \in installed \ behind PROVE Levelled(p)'
  <2>1. p \in Names /\ next \in Nat /\ cursor[p] \in Nat /\ last \in Nat
    BY DEF TypeOK, Names
  <2>2. phase' = "bootstrap" /\ next' = next /\ last' = last /\ remaining' = remaining
    BY DEF Replay
  <2>3. CASE p = next
    <3>1. cursor'[p] = c + 1 /\ c + 1 + Len(page') = c + Len(page)
      BY <2>1, <2>3, <1>1, <1>2, <1>3 DEF TypeOK
    <3> QED
      BY <2>1, <2>2, <2>3, <3>1 DEF Levelled, Replay
  <2>4. CASE p # next
    BY <2>1, <2>2, <2>4, <1>3 DEF Levelled, Replay
  <2> QED
    BY <2>3, <2>4
<1>8. UNCHANGED <<installed, behind>>
  BY DEF Replay
<1> QED
  BY <1>4, <1>5, <1>6, <1>7, <1>8

LEMMA NextProjectorInv == ASSUME Inv, NextProjector PROVE Inv'
<1> USE DEF Inv
<1>1. TypeOK'
  BY DEF NextProjector, TypeOK, Names, durable, Following
<1>2. \A p \in Names : Ordered(p)' /\ Whole(p)'
  BY <1>1, TablesKept DEF NextProjector
<1>3. page' = <<>> /\ next' \in installed \cup {Projectors + 1} /\ next' > next
      /\ \A q \in installed : q <= next \/ next' <= q
  BY DEF NextProjector, Following
<1>4. PageFollows'
  <2>1. ASSUME next' \in Names
        PROVE  <<>> = Interval(cursor[next'], cursor[next'] + 0)
    BY <2>1, <1>1 DEF Interval, TypeOK, NextProjector, durable
  <2> QED
    BY <1>1, <1>2, <1>3, <2>1 DEF PageFollows, NextProjector, durable, Ordered, TypeOK
<1>5. next \in installed \ behind => cursor[next] = last
  BY DEF NextProjector, Levelled, Ordered, TypeOK
<1>6. \A p \in (installed \ behind)' : Levelled(p)'
  BY <1>1, <1>3, <1>5 DEF NextProjector, durable, Levelled, TypeOK, Names
<1> QED
  BY <1>1, <1>2, <1>4, <1>6

LEMMA ServeInv == ASSUME Inv, Serve PROVE Inv'
<1> USE DEF Inv
<1>1. TypeOK'
  BY DEF Serve, TypeOK, Names, durable
<1>2. \A p \in Names : Ordered(p)' /\ Whole(p)'
  BY <1>1, TablesKept DEF Serve
<1>3. PageFollows'
  BY DEF PageFollows, Serve, Names
<1>4. \A p \in (installed \ behind)' : Levelled(p)'
  BY DEF Serve, durable, Levelled, TypeOK, Names
<1> QED
  BY <1>1, <1>2, <1>3, <1>4

LEMMA ProjectInv == ASSUME Inv, NEW n \in 1..2, Project(n) PROVE Inv'
<1> USE DEF Inv
<1> DEFINE new == Interval(last, last + n)
<1>1. new \in Seq(Nat) /\ Len(new) = n /\ \A i \in 1..n : new[i] = last + i
  BY IntervalIs DEF TypeOK, Interval
<1>2. TypeOK'
  BY <1>1 DEF Project, TypeOK, reading
<1>3. ASSUME NEW p \in Names PROVE Ordered(p)' /\ Whole(p)'
  <2>1. CASE p \notin installed
    BY <2>1 DEF Project, Ordered, Ascending, Whole, Interval, TypeOK
  <2>2. CASE p \in installed
    <3>1. applied[p] \in Seq(Nat) /\ applied'[p] = applied[p] \o new
          /\ cursor'[p] = last + n /\ last' = last + n /\ cursor[p] \in Nat /\ last \in Nat
      BY <2>2 DEF Project, TypeOK
    <3>0. n \in Nat \ {0} /\ last + n \in Nat /\ last <= last + n
      BY <3>1
    <3>2. Ordered(p)'
      <4>1. Ascending(applied[p], last)
        <5>1. Ascending(applied[p], cursor[p]) /\ cursor[p] <= last
          BY DEF Ordered
        <5>2. \A i \in 1..Len(applied[p]) : applied[p][i] \in Nat
          BY <3>1
        <5> QED
          BY <5>1, <5>2, <3>1 DEF Ascending
      <4> DEFINE t == applied[p] \o Interval(last, last + n)
      <4>2. t # <<>> /\ t[Len(t)] = last + n /\ Ascending(t, last + n)
        <5>1. applied[p] \in Seq(Nat) /\ last \in Nat
          BY <3>1
        <5> QED
          BY ONLY <5>1, <4>1, <3>0, JoinAscends
      <4>3. applied'[p] = t
        BY <3>1
      <4> HIDE DEF t
      <4>4. cursor'[p] <= last'
        BY <3>0, <3>1
      <4>5. Ascending(applied'[p], cursor'[p]) /\ applied'[p] # <<>>
            /\ applied'[p][Len(applied'[p])] = cursor'[p]
        BY <4>2, <4>3, <3>1
      <4> QED
        BY <4>4, <4>5 DEF Ordered, Ascending
    <3>3. Whole(p)'
      <4> SUFFICES ASSUME p \notin behind
                   PROVE  applied'[p] = Interval(0, last + n)
        BY <3>1 DEF Project, Whole
      <4>1. applied[p] = Interval(0, last)
        BY <2>2 DEF Project, Whole, Levelled
      <4>2. Interval(0, last) \o Interval(last, last + n) = Interval(0, last + n)
        BY <3>0, <3>1, IntervalJoin
      <4> QED
        BY <4>1, <4>2, <3>1
    <3> QED
      BY <3>2, <3>3
  <2> QED
    BY <2>1, <2>2
<1>4. PageFollows'
  BY DEF Project, PageFollows, reading, Names, TypeOK
<1>5. \A p \in (installed \ behind)' : Levelled(p)'
  BY DEF Project, Levelled, reading, TypeOK
<1> QED
  BY <1>2, <1>3, <1>4, <1>5

LEMMA CrashInv == ASSUME Inv, Crash PROVE Inv'
<1> USE DEF Inv
<1>1. TypeOK'
  BY DEF Crash, TypeOK, Names, durable
<1>2. \A p \in Names : Ordered(p)' /\ Whole(p)'
  BY <1>1, TablesKept DEF Crash
<1>3. PageFollows' /\ \A p \in (installed \ behind)' : Levelled(p)'
  BY DEF PageFollows, Crash, Levelled, Names
<1> QED
  BY <1>1, <1>2, <1>3

LEMMA UpgradeInv == ASSUME Inv, Upgrade PROVE Inv'
<1> USE DEF Inv
<1>1. TypeOK'
  BY DEF Upgrade, TypeOK, durable, reading
<1>2. \A p \in Names : Ordered(p)' /\ Whole(p)'
  BY <1>1, TablesKept DEF Upgrade
<1>3. PageFollows' /\ \A p \in (installed \ behind)' : Levelled(p)'
  BY DEF PageFollows, Upgrade, Levelled, Names, durable, reading
<1> QED
  BY <1>1, <1>2, <1>3

LEMMA NextInv == ASSUME Inv, [Next]_vars PROVE Inv'
<1>1. CASE UNCHANGED vars
  <2> USE DEF Inv, vars, durable, reading
  <2>1. TypeOK' /\ PageFollows' /\ \A p \in (installed \ behind)' : Levelled(p)'
    BY <1>1 DEF TypeOK, PageFollows, Levelled, Interval
  <2>2. \A p \in Names : Ordered(p)' /\ Whole(p)'
    BY <1>1, <2>1, TablesKept
  <2> QED
    BY <2>1, <2>2
<1>2. CASE Bootstrap
  BY <1>2, StartInv, ReadPageInv, ReplayInv, NextProjectorInv, ServeInv DEF Bootstrap
<1>3. CASE \E n \in 1..2 : Project(n)
  BY <1>3, ProjectInv
<1>4. CASE Crash \/ Upgrade
  BY <1>4, CrashInv, UpgradeInv
<1> QED
  BY <1>1, <1>2, <1>3, <1>4 DEF Next

-----------------------------------------------------------------------------
(* The inductive invariant of the bootstrap and of the serving server:     *)
(* cursors, tables, the page at hand and what the limit still allows.      *)
THEOREM Invariance == Spec => []Inv
<1> QED
  BY InitInv, NextInv, PTL DEF Spec

(* The variables keep their types. *)
THEOREM TypeCorrectness == Spec => []TypeOK
<1>1. Inv => TypeOK
  BY DEF Inv
<1> QED
  BY <1>1, Invariance, PTL

(* Crashes, pages and limits never make a projector apply an event twice   *)
(* or out of order, nor move its cursor away from what its tables hold.    *)
THEOREM NoEventRepeated == Spec => []AppliedOnceInOrder
<1>1. Inv => AppliedOnceInOrder
  <2> SUFFICES ASSUME Inv, NEW p \in Names
               PROVE  /\ \A i, j \in DOMAIN applied[p] : i < j => applied[p][i] < applied[p][j]
                      /\ cursor[p] = IF applied[p] = <<>> THEN 0
                                     ELSE applied[p][Len(applied[p])]
    BY DEF AppliedOnceInOrder
  <2>1. DOMAIN applied[p] = 1..Len(applied[p])
    BY DEF Inv, TypeOK
  <2> QED
    BY <2>1 DEF Inv, Ordered, Ascending
<1> QED
  BY <1>1, Invariance, PTL

(* A projector that was never more than the limit behind at a start has    *)
(* the effect of the whole log when the server serves.                     *)
THEOREM LevelUnlessBehind == Spec => []LevelWithinLimit
<1>1. Inv => LevelWithinLimit
  BY DEF Inv, LevelWithinLimit, Level, Levelled, Whole, TypeOK
<1> QED
  BY <1>1, Invariance, PTL
=============================================================================
