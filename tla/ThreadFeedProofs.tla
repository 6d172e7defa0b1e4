--------------------------- MODULE ThreadFeedProofs ---------------------------
(***************************************************************************)
(* Theorems about ThreadFeed for any number of turns, events, disconnects  *)
(* and restarts, and for both clients: a client that lost no event shows,  *)
(* once all is delivered, what the tables hold but at the seam between its *)
(* snapshot and the hot stream, and text on display does not disappear.    *)
(***************************************************************************)
EXTENDS ThreadFeed, FiniteSetTheorems, SequenceTheorems, WellFoundedInduction,
        TLAPS

-----------------------------------------------------------------------------
(* Numbers: least elements, and Max.                                       *)

(* A non-empty set of numbers has a least one.                             *)
LEMMA LeastNumber ==
    ASSUME NEW T, T \subseteq Nat, T # {}
    PROVE  \E n \in T : \A m \in T : n <= m
<1> DEFINE Less == OpToRel(<, Nat)
<1>1. Less = {ss \in Nat \X Nat : ss[1] < ss[2]}
  BY DEF OpToRel
<1>2. IsWellFoundedOn(Less, Nat)
  BY NatLessThanWellFounded
<1>3. PICK n \in T : \A m \in T : <<m, n>> \notin Less
  <2> HIDE DEF Less
  <2> QED
    BY <1>2, WFMin
<1>4. \A m \in T : ~(m < n)
  BY <1>1, <1>3
<1> HIDE DEF Less
<1> QED
  BY <1>4

(* Max of a bounded set is its greatest element.                           *)
LEMMA MaxIs ==
    ASSUME NEW S, S \subseteq Nat, S # {}, NEW bound \in Nat, \A x \in S : x <= bound
    PROVE  Max(S) \in S /\ \A x \in S : x <= Max(S)
<1> DEFINE Above == {u \in Nat : \A x \in S : x <= u}
<1>1. PICK u \in Above : \A v \in Above : u <= v
  <2>1. Above \subseteq Nat /\ Above # {}
    OBVIOUS
  <2> HIDE DEF Above
  <2> QED
    BY <2>1, LeastNumber
<1>2. u \in Nat /\ \A x \in S : x \in Nat /\ x <= u
  BY <1>1
<1>3. u \in S
  <2> SUFFICES ASSUME u \notin S PROVE FALSE
    OBVIOUS
  <2>1. \A x \in S : x <= u - 1
    BY <1>2
  <2>2. u - 1 \in Nat
    <3>1. PICK x \in S : TRUE
      OBVIOUS
    <3>2. x \in Nat /\ x <= u - 1
      BY <1>2, <2>1, <3>1
    <3> QED
      BY <1>2, <3>2
  <2>3. u - 1 \in Above
    BY <2>1, <2>2
  <2>4. u <= u - 1
    BY <1>1, <2>3
  <2> QED
    BY <1>2, <2>4
<1>4. \A x \in S : u >= x
  BY <1>2
<1> HIDE DEF Above
<1> QED
  BY <1>2, <1>3, <1>4 DEF Max

-----------------------------------------------------------------------------
(***************************************************************************)
(* What Select computes: a recursive function of the length, of which      *)
(* there is exactly one by induction.                                      *)
(***************************************************************************)
Deltas == [at : Nat, turn : Turns]

(* w gives the selection from each prefix of the text.                     *)
IsSelection(w, text, S) ==
    w = [i \in 0..Len(text) |->
            IF i = 0 THEN <<>>
            ELSE IF text[i] \in S THEN Append(w[i - 1], text[i]) ELSE w[i - 1]]

LEMMA SelectionIsUnique ==
    ASSUME NEW text \in Seq(Deltas), NEW S, NEW w, NEW v,
           IsSelection(w, text, S), IsSelection(v, text, S)
    PROVE  w = v
<1> DEFINE Wrong == {n \in 0..Len(text) : w[n] # v[n]}
<1>1. CASE Wrong = {}
  <2>1. \A n \in 0..Len(text) : w[n] = v[n]
    BY <1>1
  <2>2. /\ w = [n \in 0..Len(text) |-> w[n]]
        /\ v = [n \in 0..Len(text) |-> v[n]]
    BY DEF IsSelection
  <2> QED
    BY <2>1, <2>2
<1>2. CASE Wrong # {}
  <2>0. Wrong \subseteq Nat
    OBVIOUS
  <2>1. PICK n \in Wrong : \A m \in Wrong : n <= m
    <3> HIDE DEF Wrong
    <3> QED
      BY <1>2, <2>0, LeastNumber
  <2>2. n # 0
    BY <2>1 DEF IsSelection
  <2>3. n \in 1..Len(text) /\ n - 1 \in 0..Len(text) /\ n - 1 \notin Wrong
    BY <2>1, <2>2
  <2>4. w[n - 1] = v[n - 1]
    BY <2>3
  <2>5. /\ w[n] = IF text[n] \in S THEN Append(w[n - 1], text[n]) ELSE w[n - 1]
        /\ v[n] = IF text[n] \in S THEN Append(v[n - 1], text[n]) ELSE v[n - 1]
    BY <2>3 DEF IsSelection
  <2> QED
    BY <2>1, <2>4, <2>5
<1> QED
  BY <1>1, <1>2

(* One delta more extends the selections by one.                           *)
LEMMA SelectionExtends ==
    ASSUME NEW text \in Seq(Deltas), NEW d \in Deltas, NEW S, NEW w, IsSelection(w, text, S)
    PROVE  LET n == Len(text)
               next == [i \in 0..n + 1 |->
                           IF i <= n THEN w[i]
                           ELSE IF d \in S THEN Append(w[n], d) ELSE w[n]]
           IN  IsSelection(next, Append(text, d), S)
<1> DEFINE n == Len(text)
           next == [i \in 0..n + 1 |->
                       IF i <= n THEN w[i]
                       ELSE IF d \in S THEN Append(w[n], d) ELSE w[n]]
           longer == Append(text, d)
<1>1. /\ n \in Nat /\ Len(longer) = n + 1 /\ longer[n + 1] = d
      /\ \A i \in 1..n : longer[i] = text[i]
  OBVIOUS
<1>2. ASSUME NEW i \in 0..n + 1
      PROVE  next[i] = IF i = 0 THEN <<>>
                       ELSE IF longer[i] \in S THEN Append(next[i - 1], longer[i])
                       ELSE next[i - 1]
  <2>1. CASE i = 0
    BY <1>1, <2>1 DEF IsSelection
  <2>2. CASE i \in 1..n
    <3>1. i - 1 \in 0..n /\ next[i - 1] = w[i - 1] /\ next[i] = w[i] /\ i # 0
      BY <1>1, <2>2
    <3>2. i \in 0..Len(text) /\ i # 0
      BY <1>1, <2>2
    <3>3. w[i] = IF text[i] \in S THEN Append(w[i - 1], text[i]) ELSE w[i - 1]
      BY <3>2 DEF IsSelection
    <3> QED
      BY <1>1, <2>2, <3>1, <3>3
  <2>3. CASE i = n + 1
    <3>1. /\ i - 1 = n /\ next[i - 1] = w[n] /\ i # 0
          /\ next[i] = IF d \in S THEN Append(w[n], d) ELSE w[n]
      BY <1>1, <2>3
    <3> QED
      BY <1>1, <2>3, <3>1
  <2> QED
    BY <1>1, <2>1, <2>2, <2>3
<1>3. next = [i \in 0..n + 1 |->
                 IF i = 0 THEN <<>>
                 ELSE IF longer[i] \in S THEN Append(next[i - 1], longer[i])
                 ELSE next[i - 1]]
  <2> HIDE DEF next
  <2>1. next = [i \in 0..n + 1 |-> next[i]]
    BY DEF next
  <2> QED
    BY <1>2, <2>1
<1> HIDE DEF next
<1>4. IsSelection(next, longer, S)
  BY <1>1, <1>3 DEF IsSelection
<1> QED
  BY <1>4 DEF next

(* A text with deltas has a last one.                                      *)
LEMMA LastDelta ==
    ASSUME NEW n \in Nat, NEW text \in Seq(Deltas), Len(text) = n, n # 0
    PROVE  \E front \in Seq(Deltas), d \in Deltas :
               text = Append(front, d) /\ Len(front) \in Nat /\ Len(front) < n
<1> DEFINE front == [i \in 1..n - 1 |-> text[i]]
<1>1. front \in Seq(Deltas) /\ text[n] \in Deltas /\ Len(front) = n - 1
  OBVIOUS
<1>2. text = Append(front, text[n])
  BY <1>1
<1>3. Len(front) \in Nat /\ Len(front) < n
  BY <1>1
<1> HIDE DEF front
<1> QED
  BY <1>1, <1>2, <1>3

(* The selections exist: by induction over the length.                     *)
LEMMA SelectionExists ==
    ASSUME NEW text \in Seq(Deltas), NEW S
    PROVE  \E w : IsSelection(w, text, S)
<1> DEFINE Bad == {n \in Nat : \E s \in Seq(Deltas) :
                                   Len(s) = n /\ ~\E w : IsSelection(w, s, S)}
<1>1. Bad \subseteq Nat
  OBVIOUS
<1>2. CASE Bad = {}
  BY <1>2
<1>3. CASE Bad # {}
  <2>1. PICK n \in Bad : \A m \in Bad : n <= m
    <3> HIDE DEF Bad
    <3> QED
      BY <1>1, <1>3, LeastNumber
  <2>2. PICK s \in Seq(Deltas) : Len(s) = n /\ ~\E w : IsSelection(w, s, S)
    BY <2>1
  <2>3. CASE n = 0
    <3>1. IsSelection([i \in {0} |-> <<>>], s, S)
      BY <2>2, <2>3 DEF IsSelection
    <3> QED
      BY <2>2, <3>1
  <2>4. CASE n # 0
    <3>1. PICK front \in Seq(Deltas), d \in Deltas :
              s = Append(front, d) /\ Len(front) \in Nat /\ Len(front) < n
      BY <2>1, <2>2, <2>4, LastDelta
    <3>2. Len(front) \notin Bad
      BY <2>1, <3>1
    <3>3. PICK w : IsSelection(w, front, S)
      BY <3>1, <3>2
    <3> QED
      BY <2>2, <3>1, <3>3, SelectionExtends
  <2> QED
    BY <2>3, <2>4
<1> QED
  BY <1>2, <1>3

LEMMA SelectIs ==
    ASSUME NEW text \in Seq(Deltas), NEW S, NEW w, IsSelection(w, text, S)
    PROVE  Select(text, S) = w[Len(text)]
<1> DEFINE taken == CHOOSE v : IsSelection(v, text, S)
<1>1. taken = w
  BY SelectionIsUnique
<1>2. Select(text, S) = taken[Len(text)]
  BY DEF Select, IsSelection
<1> QED
  BY <1>1, <1>2

(* What is selected from no delta and from one delta more.                 *)
LEMMA SelectFromNothing == \A S : Select(<<>>, S) = <<>>
<1> SUFFICES ASSUME NEW S PROVE Select(<<>>, S) = <<>>
  OBVIOUS
<1>1. IsSelection([i \in {0} |-> <<>>], <<>>, S)
  BY DEF IsSelection
<1> QED
  BY <1>1, SelectIs

LEMMA SelectFromAppend ==
    ASSUME NEW text \in Seq(Deltas), NEW d \in Deltas, NEW S
    PROVE  Select(Append(text, d), S) =
               IF d \in S THEN Append(Select(text, S), d) ELSE Select(text, S)
<1>1. PICK w : IsSelection(w, text, S)
  BY SelectionExists
<1> DEFINE n == Len(text)
           next == [i \in 0..n + 1 |->
                       IF i <= n THEN w[i]
                       ELSE IF d \in S THEN Append(w[n], d) ELSE w[n]]
<1>2. IsSelection(next, Append(text, d), S)
  BY <1>1, SelectionExtends
<1>3. n \in Nat /\ Append(text, d) \in Seq(Deltas) /\ Len(Append(text, d)) = n + 1
  OBVIOUS
<1>4. next[n + 1] = IF d \in S THEN Append(w[n], d) ELSE w[n]
  BY <1>3
<1>5. Select(text, S) = w[n]
  BY <1>1, SelectIs
<1>6. Select(Append(text, d), S) = next[n + 1]
  <2> HIDE DEF next
  <2> QED
    BY <1>2, <1>3, SelectIs
<1> QED
  BY <1>4, <1>5, <1>6

(* A selection is of deltas of the text, all those in the set.             *)
Holds(text, d) == \E i \in 1..Len(text) : text[i] = d

LEMMA HeldByAppend ==
    ASSUME NEW text \in Seq(Deltas), NEW d \in Deltas
    PROVE  \A x : Holds(Append(text, d), x) <=> Holds(text, x) \/ x = d
<1>1. /\ Len(Append(text, d)) = Len(text) + 1 /\ Len(text) \in Nat
      /\ Append(text, d)[Len(text) + 1] = d
      /\ \A i \in 1..Len(text) : Append(text, d)[i] = text[i]
  OBVIOUS
<1> QED
  BY <1>1 DEF Holds

LEMMA SelectedAre ==
    ASSUME NEW text \in Seq(Deltas), NEW S
    PROVE  /\ Select(text, S) \in Seq(Deltas)
           /\ \A d : Holds(Select(text, S), d) <=> Holds(text, d) /\ d \in S
<1> DEFINE Good(s) == /\ Select(s, S) \in Seq(Deltas)
                      /\ \A d : Holds(Select(s, S), d) <=> Holds(s, d) /\ d \in S
           Bad == {n \in Nat : \E s \in Seq(Deltas) : Len(s) = n /\ ~Good(s)}
<1>1. Bad \subseteq Nat
  OBVIOUS
<1>2. CASE Bad = {}
  BY <1>2
<1>3. CASE Bad # {}
  <2>1. PICK n \in Bad : \A m \in Bad : n <= m
    <3> HIDE DEF Bad
    <3> QED
      BY <1>1, <1>3, LeastNumber
  <2>2. PICK s \in Seq(Deltas) : Len(s) = n /\ ~Good(s)
    BY <2>1
  <2>3. CASE n = 0
    <3>1. s = <<>>
      BY <2>2, <2>3
    <3>2. Select(<<>>, S) = <<>> /\ <<>> \in Seq(Deltas)
      BY SelectFromNothing
    <3>3. \A d : ~Holds(<<>>, d)
      BY DEF Holds
    <3>4. Good(<<>>)
      BY <3>2, <3>3
    <3> QED
      BY <2>2, <3>1, <3>4
  <2>4. CASE n # 0
    <3>1. PICK front \in Seq(Deltas), d \in Deltas :
              s = Append(front, d) /\ Len(front) \in Nat /\ Len(front) < n
      BY <2>1, <2>2, <2>4, LastDelta
    <3>2. Len(front) \notin Bad
      BY <2>1, <3>1
    <3>3. Good(front)
      BY <3>1, <3>2
    <3>4. Select(s, S) = IF d \in S THEN Append(Select(front, S), d) ELSE Select(front, S)
      BY <3>1, SelectFromAppend
    <3>5. \A x : Holds(s, x) <=> Holds(front, x) \/ x = d
      BY <3>1, HeldByAppend
    <3>6. \A x : Holds(Append(Select(front, S), d), x) <=> Holds(Select(front, S), x) \/ x = d
      BY <3>3, HeldByAppend
    <3>7. Good(s)
      <4>1. Select(s, S) \in Seq(Deltas)
        BY <3>3, <3>4
      <4>2. \A x : Holds(Select(s, S), x) <=> Holds(s, x) /\ x \in S
        BY <3>3, <3>4, <3>5, <3>6
      <4> QED
        BY <4>1, <4>2
    <3> QED
      BY <2>2, <3>7
  <2> QED
    BY <2>3, <2>4
<1> QED
  BY <1>2, <1>3

LEMMA AppendToBoth ==
    ASSUME NEW text \in Seq(Deltas), NEW rest \in Seq(Deltas), NEW d \in Deltas
    PROVE  text \o Append(rest, d) = Append(text \o rest, d)
OBVIOUS

(* Two texts one after the other are selected from one after the other.    *)
LEMMA SelectFromBoth ==
    ASSUME NEW text \in Seq(Deltas), NEW rest \in Seq(Deltas), NEW S
    PROVE  Select(text \o rest, S) = Select(text, S) \o Select(rest, S)
<1> DEFINE Good(s) == Select(text \o s, S) = Select(text, S) \o Select(s, S)
           Bad == {n \in Nat : \E s \in Seq(Deltas) : Len(s) = n /\ ~Good(s)}
<1>0. Select(text, S) \in Seq(Deltas)
  BY SelectedAre
<1>1. Bad \subseteq Nat
  OBVIOUS
<1>2. CASE Bad = {}
  BY <1>2
<1>3. CASE Bad # {}
  <2>1. PICK n \in Bad : \A m \in Bad : n <= m
    <3> HIDE DEF Bad
    <3> QED
      BY <1>1, <1>3, LeastNumber
  <2>2. PICK s \in Seq(Deltas) : Len(s) = n /\ ~Good(s)
    BY <2>1
  <2>3. CASE n = 0
    <3>1. s = <<>>
      BY <2>2, <2>3
    <3>2. text \o <<>> = text /\ Select(text, S) \o <<>> = Select(text, S)
      BY <1>0, ConcatEmptySeq
    <3>3. Good(<<>>)
      BY <3>2, SelectFromNothing
    <3> QED
      BY <2>2, <3>1, <3>3
  <2>4. CASE n # 0
    <3>1. PICK front \in Seq(Deltas), d \in Deltas :
              s = Append(front, d) /\ Len(front) \in Nat /\ Len(front) < n
      BY <2>1, <2>2, <2>4, LastDelta
    <3>2. Len(front) \notin Bad
      BY <2>1, <3>1
    <3>3. Good(front)
      BY <3>1, <3>2
    <3>4. PICK both \in Seq(Deltas) : both = text \o front
      BY ConcatProperties
    <3>5. text \o s = Append(both, d)
      BY <3>1, <3>4, AppendToBoth
    <3>6. Select(Append(both, d), S) =
              IF d \in S THEN Append(Select(both, S), d) ELSE Select(both, S)
      BY SelectFromAppend
    <3>7. Select(s, S) = IF d \in S THEN Append(Select(front, S), d) ELSE Select(front, S)
      BY <3>1, SelectFromAppend
    <3>8. Select(front, S) \in Seq(Deltas)
      BY SelectedAre
    <3>9. Append(Select(text, S) \o Select(front, S), d) =
              Select(text, S) \o Append(Select(front, S), d)
      BY <1>0, <3>8, AppendToBoth
    <3>10. Good(s)
      BY <3>3, <3>4, <3>5, <3>6, <3>7, <3>9
    <3> QED
      BY <2>2, <3>10
  <2> QED
    BY <2>3, <2>4
<1> QED
  BY <1>2, <1>3

(* From a text whose deltas are all in the set, all are selected.          *)
LEMMA SelectAll ==
    ASSUME NEW text \in Seq(Deltas), NEW S, \A d : Holds(text, d) => d \in S
    PROVE  Select(text, S) = text
<1> DEFINE Good(s) == (\A d : Holds(s, d) => d \in S) => Select(s, S) = s
           Bad == {n \in Nat : \E s \in Seq(Deltas) : Len(s) = n /\ ~Good(s)}
<1>1. Bad \subseteq Nat
  OBVIOUS
<1>2. CASE Bad = {}
  BY <1>2
<1>3. CASE Bad # {}
  <2>1. PICK n \in Bad : \A m \in Bad : n <= m
    <3> HIDE DEF Bad
    <3> QED
      BY <1>1, <1>3, LeastNumber
  <2>2. PICK s \in Seq(Deltas) : Len(s) = n /\ ~Good(s)
    BY <2>1
  <2>3. CASE n = 0
    <3>1. s = <<>>
      BY <2>2, <2>3
    <3> QED
      BY <2>2, <3>1, SelectFromNothing
  <2>4. CASE n # 0
    <3>1. PICK front \in Seq(Deltas), d \in Deltas :
              s = Append(front, d) /\ Len(front) \in Nat /\ Len(front) < n
      BY <2>1, <2>2, <2>4, LastDelta
    <3>2. Len(front) \notin Bad
      BY <2>1, <3>1
    <3>3. Good(front)
      BY <3>1, <3>2
    <3>4. Select(s, S) = IF d \in S THEN Append(Select(front, S), d) ELSE Select(front, S)
      BY <3>1, SelectFromAppend
    <3>5. \A x : Holds(s, x) <=> Holds(front, x) \/ x = d
      BY <3>1, HeldByAppend
    <3> QED
      BY <2>2, <3>1, <3>3, <3>4, <3>5
  <2> QED
    BY <2>3, <2>4
<1> QED
  BY <1>2, <1>3

-----------------------------------------------------------------------------
(* How many messages are the earliest k of a finite set.                   *)
Before(messages, i) == {j \in messages : j < i}

LEMMA BeforeIsFinite ==
    ASSUME NEW S, IsFiniteSet(S), NEW i
    PROVE  /\ IsFiniteSet(Before(S, i)) /\ Cardinality(Before(S, i)) \in Nat
           /\ Cardinality(Before(S, i)) <= Cardinality(S)
<1>1. Before(S, i) \in SUBSET S
  BY DEF Before
<1> QED
  BY <1>1, FS_Subset, FS_CardinalityType

LEMMA EarlierStill ==
    ASSUME NEW S \in SUBSET Nat, NEW m \in Nat, NEW i \in Nat, m < i
    PROVE  Before(S, m) \in SUBSET Before(S, i)
<1> SUFFICES ASSUME NEW j \in Before(S, m) PROVE j \in Before(S, i)
  OBVIOUS
<1>1. j \in S /\ j \in Nat /\ j < m
  BY DEF Before
<1>2. j < i
  BY <1>1
<1> QED
  BY <1>1, <1>2 DEF Before

LEMMA EarliestIs ==
    ASSUME NEW S, NEW k
    PROVE  Earliest(S, k) = {i \in S : Cardinality(Before(S, i)) < k}
BY DEF Earliest, Before

(* One more of them is the least of the others.                            *)
LEMMA NextEarliest ==
    ASSUME NEW S \in SUBSET Nat, IsFiniteSet(S), NEW k \in Nat,
           Cardinality(Earliest(S, k)) = k, k < Cardinality(S)
    PROVE  Cardinality(Earliest(S, k + 1)) = k + 1
<1> DEFINE E == Earliest(S, k)
           others == S \ E
<1>0. E \subseteq S /\ IsFiniteSet(E) /\ Cardinality(S) \in Nat
  <2>1. E \in SUBSET S
    BY DEF Earliest
  <2> QED
    BY <2>1, FS_Subset, FS_CardinalityType
<1>1. others \subseteq Nat /\ others # {}
  <2>1. E # S
    BY <1>0
  <2> QED
    BY <1>0, <2>1
<1>2. PICK m \in others : \A i \in others : m <= i
  <2> HIDE DEF others
  <2> QED
    BY <1>1, LeastNumber
<1>3. m \in S /\ m \in Nat /\ m \notin E
  BY <1>1, <1>2
<1>4. ~(Cardinality(Before(S, m)) < k)
  BY <1>3, EarliestIs
<1>5. \A i \in E : i < m
  <2> SUFFICES ASSUME NEW i \in E, ~(i < m) PROVE FALSE
    OBVIOUS
  <2>1. i \in S /\ i \in Nat /\ m < i /\ Cardinality(Before(S, i)) < k
    <3>1. i \in S /\ Cardinality(Before(S, i)) < k
      BY EarliestIs
    <3>2. i # m
      BY <1>3
    <3> QED
      BY <1>3, <3>1, <3>2
  <2>2. Before(S, m) \in SUBSET Before(S, i)
    BY <1>3, <2>1, EarlierStill
  <2>3. Cardinality(Before(S, m)) <= Cardinality(Before(S, i))
    BY <2>2, BeforeIsFinite, FS_Subset
  <2>4. Cardinality(Before(S, m)) \in Nat /\ Cardinality(Before(S, i)) \in Nat
    BY BeforeIsFinite
  <2> QED
    BY <1>4, <2>1, <2>3, <2>4
<1>6. Before(S, m) = E
  <2>1. \A i \in Before(S, m) : i \in E
    BY <1>2, <1>3 DEF Before
  <2>2. \A i \in E : i \in Before(S, m)
    BY <1>0, <1>5 DEF Before
  <2> QED
    BY <2>1, <2>2 DEF Before
<1>7. Earliest(S, k + 1) = E \cup {m}
  <2>1. ASSUME NEW i \in E PROVE i \in Earliest(S, k + 1)
    <3>1. i \in S /\ Cardinality(Before(S, i)) < k
      BY <2>1, EarliestIs
    <3>2. Cardinality(Before(S, i)) \in Nat
      BY BeforeIsFinite
    <3> QED
      BY <3>1, <3>2, EarliestIs
  <2>2. m \in Earliest(S, k + 1)
    <3>1. Cardinality(Before(S, m)) < k + 1
      BY <1>6
    <3> QED
      BY <1>3, <3>1, EarliestIs
  <2>3. ASSUME NEW i \in Earliest(S, k + 1), i \notin E, i # m PROVE FALSE
    <3>1. i \in S /\ Cardinality(Before(S, i)) < k + 1
      BY EarliestIs
    <3>2. i \in Nat /\ m < i
      BY <1>2, <1>3, <2>3, <3>1
    <3>3. E \cup {m} \in SUBSET Before(S, i)
      <4>1. m \in Before(S, i)
        BY <1>3, <3>2 DEF Before
      <4> QED
        BY <1>3, <1>6, <3>2, <4>1, EarlierStill
    <3>4. Cardinality(E \cup {m}) = k + 1
      BY <1>0, <1>3, FS_AddElement
    <3>5. k + 1 <= Cardinality(Before(S, i)) /\ Cardinality(Before(S, i)) \in Nat
      BY <3>3, <3>4, BeforeIsFinite, FS_Subset
    <3> QED
      BY <3>1, <3>5
  <2> QED
    BY <2>1, <2>2, <2>3
<1> QED
  BY <1>0, <1>3, <1>7, FS_AddElement

LEMMA HowManyEarliest ==
    ASSUME NEW S \in SUBSET Nat, IsFiniteSet(S), NEW k \in Nat
    PROVE  /\ Earliest(S, k) \subseteq S /\ IsFiniteSet(Earliest(S, k))
           /\ Cardinality(Earliest(S, k)) =
                  IF Cardinality(S) <= k THEN Cardinality(S) ELSE k
<1> DEFINE Good(n) == Cardinality(Earliest(S, n)) =
                          IF Cardinality(S) <= n THEN Cardinality(S) ELSE n
           Bad == {n \in Nat : ~Good(n)}
<1>0. Cardinality(S) \in Nat
  BY FS_CardinalityType
<1>1. \A n \in Nat : Earliest(S, n) \in SUBSET S /\ IsFiniteSet(Earliest(S, n))
  <2>1. \A n \in Nat : Earliest(S, n) \in SUBSET S
    BY DEF Earliest
  <2> QED
    BY <2>1, FS_Subset
<1>2. Bad = {}
  <2> SUFFICES ASSUME Bad # {} PROVE FALSE
    OBVIOUS
  <2>1. Bad \subseteq Nat
    OBVIOUS
  <2>2. PICK n \in Bad : \A l \in Bad : n <= l
    <3> HIDE DEF Bad
    <3> QED
      BY <2>1, LeastNumber
  <2>3. CASE n = 0
    <3>1. Earliest(S, 0) = {}
      <4> SUFFICES ASSUME NEW i \in Earliest(S, 0) PROVE FALSE
        OBVIOUS
      <4>1. Cardinality(Before(S, i)) < 0
        BY EarliestIs
      <4> QED
        BY <4>1, BeforeIsFinite
    <3>2. Cardinality(Earliest(S, 0)) = 0
      BY <3>1, FS_EmptySet
    <3>3. Good(0)
      BY <1>0, <3>2
    <3> QED
      BY <2>2, <2>3, <3>3
  <2>4. CASE n # 0
    <3>1. PICK l \in Nat : n = l + 1
      <4>1. n \in Nat /\ n - 1 \in Nat /\ n = (n - 1) + 1
        BY <2>1, <2>2, <2>4
      <4> QED
        BY <4>1
    <3>2. Good(l)
      BY <2>2, <3>1
    <3>3. CASE Cardinality(S) <= l
      <4>1. Earliest(S, l) = S
        BY <1>0, <1>1, <3>2, <3>3, FS_Subset
      <4>2. Earliest(S, l + 1) = S
        <5>1. ASSUME NEW i \in S PROVE i \in Earliest(S, l + 1)
          <6>1. Cardinality(Before(S, i)) < l
            BY <4>1, EarliestIs
          <6>2. Cardinality(Before(S, i)) \in Nat
            BY BeforeIsFinite
          <6> QED
            BY <3>1, <6>1, <6>2, EarliestIs
        <5> QED
          BY <1>1, <3>1, <5>1
      <4>3. Good(l + 1)
        BY <1>0, <3>1, <3>3, <4>2
      <4> QED
        BY <2>2, <3>1, <4>3
    <3>4. CASE ~(Cardinality(S) <= l)
      <4>1. Cardinality(Earliest(S, l)) = l /\ l < Cardinality(S)
        BY <1>0, <3>1, <3>2, <3>4
      <4>2. Cardinality(Earliest(S, l + 1)) = l + 1
        BY <3>1, <4>1, NextEarliest
      <4>3. Good(l + 1)
        BY <1>0, <3>1, <4>1, <4>2
      <4> QED
        BY <2>2, <3>1, <4>3
    <3> QED
      BY <3>3, <3>4
  <2> QED
    BY <2>3, <2>4
<1>3. Good(k)
  BY <1>2
<1> QED
  BY <1>1, <1>3

-----------------------------------------------------------------------------
(***************************************************************************)
(* The inductive invariant.  h is a name for past, the history of the      *)
(* tables, at the beginning of a step.  It says what is on its way to the  *)
(* client and which moments of that history the snapshot and the thread    *)
(* on display show - the thread but for the turns contested since.         *)
(***************************************************************************)
TableRows == [users : SUBSET Nat, text : Seq(Deltas), count : [Turns -> Nat],
              real : SUBSET Turns, pending : [Turns -> Nat], request : Nat]
Thread == [users : SUBSET Nat, text : Seq(Deltas), count : [Turns -> Nat],
           real : SUBSET Turns]
Read == [thread : Thread, at : Nat]
Item == [kind : {"snapshot"}, read : Read] \cup [kind : {"event"}, sequence : Nat]

TypeOK ==
    /\ log \in Seq(Event)
    /\ published \in 0..Len(log) /\ Len(log) <= published + 1
    /\ past \in [0..Len(log) -> TableRows]
    /\ rows \in TableRows
    /\ begun \in 0..MaxTurns
    /\ phase \in {"closed", "messages", "checkpoints", "sequence", "loaded", "live",
                  "abandoned"}
    /\ loading \in Read
    /\ cursor \in Nat /\ wire \in Seq(Item)
    /\ store \in {"web", "shared"} /\ thread \in Thread
    /\ startedAt \in Nat /\ readAt \in Nat /\ drops \in Nat

(* The tables were empty at first, and every event was projected.          *)
IsHistory(h) ==
    /\ h \in [0..Len(log) -> TableRows]
    /\ h[0] = NoRows
    /\ \A n \in 1..Len(log) : h[n] = ProjectRows(h[n - 1], log[n], n)
    /\ h[Len(log)] = rows
    /\ past = h

(* No two turns have checkpoints of the same number.                       *)
CountsDiffer(count) ==
    \A t, u \in Turns : count[t] = count[u] /\ count[t] # 0 => t = u

UpTo(n) == [at : 1..n, turn : Turns]

(* What the tables hold is from the events projected, and text that was    *)
(* deleted does not come back.                                             *)
HistoryOK(h) ==
    /\ \A n \in 0..Len(log) :
           /\ h[n].users \subseteq 1..n /\ Shown(h[n].text) \subseteq UpTo(n)
           /\ \A t \in Turns : h[n].count[t] <= n
           /\ CountsDiffer(h[n].count)
    /\ \A n \in 1..Len(log) : log[n].kind = "diff" => log[n].count <= n
    /\ \A m, n \in 0..Len(log) :
           m <= n => Shown(h[n].text) \cap UpTo(m) \subseteq Shown(h[m].text)

(* The snapshot, if it is not received yet, comes first, and the events up *)
(* to the cursor come in their order.                                      *)
Waiting == wire # <<>> /\ wire[1].kind = "snapshot"
Delivered == cursor - Len(wire)

WireOK ==
    /\ phase \notin {"loaded", "live"} => wire = <<>>
    /\ phase = "loaded" => Len(wire) <= 1
    /\ \A k \in 1..Len(wire) :
           wire[k].kind = "event" => phase = "live" /\ wire[k].sequence = Delivered + k
    /\ \A k \in 2..Len(wire) : wire[k].kind = "event"
    /\ phase = "live" =>
           /\ startedAt <= cursor /\ cursor <= published
           /\ Waiting => Delivered + 1 = startedAt
           /\ ~Waiting => startedAt <= Delivered

(* A snapshot has the messages of one moment and the checkpoints of the    *)
(* same or a later one - no later than the first event its stream carries. *)
SnapshotOf(h, read) ==
    /\ read.at <= Len(log)
    /\ read.thread.users = h[read.at].users
    /\ read.thread.text = h[read.at].text
    /\ \E c \in read.at..Len(log) :
           /\ read.thread.count = h[c].count /\ read.thread.real = h[c].real
           /\ phase = "live" => c <= startedAt + 1

ShownBy(n) == Shown(thread.text) \subseteq UpTo(n)

LoadingOK(h) ==
    /\ ShownBy(Len(log))
    /\ phase \in {"checkpoints", "sequence"} =>
           /\ loading.at <= Len(log)
           /\ loading.thread.users = h[loading.at].users
           /\ loading.thread.text = h[loading.at].text
           /\ ShownBy(loading.at)
    /\ phase = "sequence" => SnapshotOf(h, loading)
    /\ phase \in {"loaded", "live"} /\ Waiting =>
           SnapshotOf(h, wire[1].read) /\ ShownBy(wire[1].read.at)

(* text is what is held but for one delta, of the event i, that it repeats. *)
Repeats(text, held, i) ==
    \E before \in Seq(Deltas), d \in Deltas, after \in Seq(Deltas) :
        /\ d.at = i
        /\ held = Append(before, d) \o after
        /\ text = Append(Append(before, d), d) \o after

(* A thread has the checkpoints and the text of the tables, but for one    *)
(* delta of the seam and the turns contested, and messages in keeping with *)
(* its store.                                                              *)
SameCheckpoint(x, r, t) ==
    /\ x.count[t] = r.count[t]
    /\ t \in x.real <=> t \in r.real

LikeText(text, held, seam) == text = held \/ \E i \in seam : Repeats(text, held, i)

LikeUsers(st, users, held, n) ==
    /\ users \subseteq 1..n
    /\ st = "web" => Cardinality(users) = Cardinality(held)
    /\ st = "shared" => held \subseteq users

(* The thread on display shows the tables of the moment n.                 *)
Shows(h, n) ==
    /\ ShownBy(n)
    /\ \A t \in Turns : ~Contested(t, n) => SameCheckpoint(thread, h[n], t)
    /\ LikeText(Of(thread.text, Uncut(n)), Of(h[n].text, Uncut(n)), startedAt + 1 .. readAt)
    /\ LikeUsers(store, thread.users, h[n].users, n)

ThreadOK(h) ==
    /\ ~Waiting /\ (phase = "loaded" \/ (phase = "live" /\ Delivered = startedAt)) =>
           SnapshotOf(h, [thread |-> thread, at |-> readAt])
    /\ phase = "live" /\ ~Waiting /\ Unbroken =>
           \A n \in Nat : n = Delivered /\ startedAt < n => Shows(h, n)

IInv(h) ==
    /\ TypeOK
    /\ IsHistory(h)
    /\ HistoryOK(h)
    /\ WireOK
    /\ LoadingOK(h)
    /\ ThreadOK(h)

Inv == \E h : IInv(h)

-----------------------------------------------------------------------------
(* What a text shows, and a text that repeats one of its deltas.           *)

LEMMA ShownIs ==
    ASSUME NEW text \in Seq(Deltas)
    PROVE  /\ Shown(text) \subseteq Deltas
           /\ \A d : d \in Shown(text) <=> Holds(text, d)
<1>1. DOMAIN text = 1..Len(text) /\ \A i \in 1..Len(text) : text[i] \in Deltas
  OBVIOUS
<1> QED
  BY <1>1 DEF Shown, Holds

LEMMA ShownOfSelect ==
    ASSUME NEW text \in Seq(Deltas), NEW S
    PROVE  /\ Shown(Select(text, S)) = Shown(text) \cap S
           /\ Select(text, S) \in Seq(Deltas)
<1>1. PICK s \in Seq(Deltas) : s = Select(text, S)
  BY SelectedAre
<1>2. \A d : Holds(s, d) <=> Holds(text, d) /\ d \in S
  BY <1>1, SelectedAre
<1>3. /\ \A d : d \in Shown(s) <=> Holds(s, d)
      /\ \A d : d \in Shown(text) <=> Holds(text, d)
  BY ShownIs
<1>4. Shown(s) = Shown(text) \cap S
  BY <1>2, <1>3
<1> QED
  BY <1>1, <1>4

LEMMA ShownOfAppend ==
    ASSUME NEW text \in Seq(Deltas), NEW d \in Deltas
    PROVE  /\ Shown(Append(text, d)) = Shown(text) \cup {d}
           /\ Append(text, d) \in Seq(Deltas)
<1>1. PICK s \in Seq(Deltas) : s = Append(text, d)
  BY AppendProperties
<1>2. \A x : Holds(s, x) <=> Holds(text, x) \/ x = d
  BY <1>1, HeldByAppend
<1>3. /\ \A x : x \in Shown(s) <=> Holds(s, x)
      /\ \A x : x \in Shown(text) <=> Holds(text, x)
  BY ShownIs
<1>4. Shown(s) = Shown(text) \cup {d}
  BY <1>2, <1>3
<1> QED
  BY <1>1, <1>4

LEMMA ShownOfBoth ==
    ASSUME NEW text \in Seq(Deltas), NEW rest \in Seq(Deltas)
    PROVE  Shown(text \o rest) = Shown(text) \cup Shown(rest)
<1>1. /\ Len(text) \in Nat /\ Len(rest) \in Nat
      /\ Len(text \o rest) = Len(text) + Len(rest)
      /\ \A i \in 1..Len(text) + Len(rest) :
             (text \o rest)[i] = IF i <= Len(text) THEN text[i] ELSE rest[i - Len(text)]
  BY ConcatProperties, LenProperties
<1>2. /\ DOMAIN (text \o rest) = 1..Len(text) + Len(rest)
      /\ DOMAIN text = 1..Len(text) /\ DOMAIN rest = 1..Len(rest)
  BY <1>1, ConcatProperties, LenProperties
<1>3. ASSUME NEW x \in Shown(text \o rest) PROVE x \in Shown(text) \cup Shown(rest)
  <2>1. PICK i \in 1..Len(text) + Len(rest) : x = (text \o rest)[i]
    BY <1>2 DEF Shown
  <2>2. CASE i <= Len(text)
    BY <1>1, <1>2, <2>1, <2>2 DEF Shown
  <2>3. CASE ~(i <= Len(text))
    <3>1. i - Len(text) \in 1..Len(rest)
      BY <1>1, <2>3
    <3> QED
      BY <1>1, <1>2, <2>1, <2>3, <3>1 DEF Shown
  <2> QED
    BY <2>2, <2>3
<1>4. ASSUME NEW x \in Shown(text) PROVE x \in Shown(text \o rest)
  <2>1. PICK i \in 1..Len(text) : x = text[i]
    BY <1>2 DEF Shown
  <2>2. i \in 1..Len(text) + Len(rest) /\ (text \o rest)[i] = text[i]
    BY <1>1
  <2> QED
    BY <1>2, <2>1, <2>2 DEF Shown
<1>5. ASSUME NEW x \in Shown(rest) PROVE x \in Shown(text \o rest)
  <2>1. PICK i \in 1..Len(rest) : x = rest[i]
    BY <1>2 DEF Shown
  <2>2. Len(text) + i \in 1..Len(text) + Len(rest) /\ ~(Len(text) + i <= Len(text))
    BY <1>1
  <2>3. (text \o rest)[Len(text) + i] = rest[i]
    BY <1>1, <2>2
  <2> QED
    BY <1>2, <2>1, <2>2, <2>3 DEF Shown
<1> QED
  BY <1>3, <1>4, <1>5

(* A repetition is selected with its delta, or not at all.                 *)
LEMMA RepeatsSelected ==
    ASSUME NEW text, NEW held, NEW i, Repeats(text, held, i), NEW S
    PROVE  /\ Select(text, S) = Select(held, S) \/ Repeats(Select(text, S), Select(held, S), i)
           /\ (\A d \in S : d.at # i) => Select(text, S) = Select(held, S)
<1>1. PICK before \in Seq(Deltas), d \in Deltas, after \in Seq(Deltas) :
          /\ d.at = i
          /\ held = Append(before, d) \o after
          /\ text = Append(Append(before, d), d) \o after
  BY DEF Repeats
<1>2. PICK once \in Seq(Deltas) : once = Append(before, d)
  BY AppendProperties
<1>3. PICK twice \in Seq(Deltas) : twice = Append(once, d)
  BY AppendProperties
<1>4. Select(held, S) = Select(once, S) \o Select(after, S)
  BY <1>1, <1>2, SelectFromBoth
<1>5. Select(text, S) = Select(twice, S) \o Select(after, S)
  BY <1>1, <1>2, <1>3, SelectFromBoth
<1>6. Select(once, S) = IF d \in S THEN Append(Select(before, S), d) ELSE Select(before, S)
  BY <1>2, SelectFromAppend
<1>7. Select(twice, S) = IF d \in S THEN Append(Select(once, S), d) ELSE Select(once, S)
  BY <1>3, SelectFromAppend
<1>8. CASE d \in S
  <2>1. Select(before, S) \in Seq(Deltas) /\ Select(after, S) \in Seq(Deltas)
    BY SelectedAre
  <2>2. /\ Select(held, S) = Append(Select(before, S), d) \o Select(after, S)
        /\ Select(text, S) = Append(Append(Select(before, S), d), d) \o Select(after, S)
    BY <1>4, <1>5, <1>6, <1>7, <1>8
  <2>3. Repeats(Select(text, S), Select(held, S), i)
    BY <1>1, <2>1, <2>2 DEF Repeats
  <2> QED
    BY <1>1, <1>8, <2>3
<1>9. CASE d \notin S
  BY <1>4, <1>5, <1>6, <1>7, <1>9
<1> QED
  BY <1>8, <1>9

LEMMA RepeatsAppended ==
    ASSUME NEW text, NEW held, NEW i, Repeats(text, held, i), NEW e \in Deltas
    PROVE  Repeats(Append(text, e), Append(held, e), i)
<1>1. PICK before \in Seq(Deltas), d \in Deltas, after \in Seq(Deltas) :
          /\ d.at = i
          /\ held = Append(before, d) \o after
          /\ text = Append(Append(before, d), d) \o after
  BY DEF Repeats
<1>2. PICK once \in Seq(Deltas) : once = Append(before, d)
  BY AppendProperties
<1>3. PICK twice \in Seq(Deltas) : twice = Append(once, d)
  BY AppendProperties
<1>4. PICK more \in Seq(Deltas) : more = Append(after, e)
  BY AppendProperties
<1>5. Append(held, e) = once \o more
  BY <1>1, <1>2, <1>4, AppendToBoth
<1>6. Append(text, e) = twice \o more
  BY <1>1, <1>2, <1>3, <1>4, AppendToBoth
<1> QED
  BY <1>1, <1>2, <1>3, <1>5, <1>6 DEF Repeats

LEMMA RepeatsLast ==
    ASSUME NEW before \in Seq(Deltas), NEW d \in Deltas
    PROVE  Repeats(Append(Append(before, d), d), Append(before, d), d.at)
<1>1. PICK once \in Seq(Deltas) : once = Append(before, d)
  BY AppendProperties
<1>2. PICK twice \in Seq(Deltas) : twice = Append(once, d)
  BY AppendProperties
<1>3. once \o <<>> = once /\ twice \o <<>> = twice
  BY ConcatEmptySeq
<1>4. <<>> \in Seq(Deltas)
  OBVIOUS
<1> QED
  BY <1>1, <1>2, <1>3, <1>4 DEF Repeats

LEMMA RepeatsShown ==
    ASSUME NEW text, NEW held, NEW i, Repeats(text, held, i)
    PROVE  Shown(text) = Shown(held)
<1>1. PICK before \in Seq(Deltas), d \in Deltas, after \in Seq(Deltas) :
          /\ d.at = i
          /\ held = Append(before, d) \o after
          /\ text = Append(Append(before, d), d) \o after
  BY DEF Repeats
<1>2. PICK once \in Seq(Deltas) : once = Append(before, d)
  BY AppendProperties
<1>3. PICK twice \in Seq(Deltas) : twice = Append(once, d)
  BY AppendProperties
<1>4. Shown(once) = Shown(before) \cup {d} /\ Shown(twice) = Shown(once) \cup {d}
  BY <1>2, <1>3, ShownOfAppend
<1>5. Shown(held) = Shown(once) \cup Shown(after)
  BY <1>1, <1>2, ShownOfBoth
<1>6. Shown(text) = Shown(twice) \cup Shown(after)
  BY <1>1, <1>2, <1>3, ShownOfBoth
<1> QED
  BY <1>4, <1>5, <1>6


(* A text is selected in two steps as in one.                              *)
LEMMA SelectTwice ==
    ASSUME NEW text \in Seq(Deltas), NEW S, NEW T
    PROVE  Select(Select(text, S), T) = Select(text, S \cap T)
<1> DEFINE Good(s) == Select(Select(s, S), T) = Select(s, S \cap T)
           Bad == {n \in Nat : \E s \in Seq(Deltas) : Len(s) = n /\ ~Good(s)}
<1>1. Bad \subseteq Nat
  OBVIOUS
<1>2. CASE Bad = {}
  <2>1. \A n \in Nat, s \in Seq(Deltas) : Len(s) = n => Good(s)
    BY <1>2
  <2>2. Len(text) \in Nat
    OBVIOUS
  <2>3. Good(text)
    BY <2>1, <2>2
  <2> QED
    BY <2>3
<1>3. CASE Bad # {}
  <2>1. PICK n \in Bad : \A m \in Bad : n <= m
    <3> HIDE DEF Bad
    <3> QED
      BY <1>1, <1>3, LeastNumber
  <2>2. PICK s \in Seq(Deltas) : Len(s) = n /\ ~Good(s)
    BY <2>1
  <2>3. CASE n = 0
    <3>1. s = <<>>
      BY <2>2, <2>3
    <3>2. Good(<<>>)
      BY SelectFromNothing
    <3> QED
      BY <2>2, <3>1, <3>2
  <2>4. CASE n # 0
    <3>1. PICK front \in Seq(Deltas), d \in Deltas :
              s = Append(front, d) /\ Len(front) \in Nat /\ Len(front) < n
      BY <2>1, <2>2, <2>4, LastDelta
    <3>2. Len(front) \notin Bad
      <4>1. PICK k \in Nat : k = Len(front) /\ k < n
        BY <3>1
      <4>2. n \in Nat /\ k \notin Bad
        <5>1. n \in Nat /\ ~(n <= k)
          BY <1>1, <2>1, <4>1
        <5> QED
          BY <2>1, <5>1
      <4> QED
        BY <4>1, <4>2
    <3>3. Good(front)
      BY <3>1, <3>2
    <3>4. PICK once \in Seq(Deltas) : once = Select(front, S)
      BY SelectedAre
    <3>5. Select(s, S) = IF d \in S THEN Append(once, d) ELSE once
      BY <3>1, <3>4, SelectFromAppend
    <3>6. Select(s, S \cap T) =
              IF d \in S \cap T THEN Append(Select(front, S \cap T), d)
              ELSE Select(front, S \cap T)
      BY <3>1, SelectFromAppend
    <3>7. Select(Append(once, d), T) =
              IF d \in T THEN Append(Select(once, T), d) ELSE Select(once, T)
      BY SelectFromAppend
    <3>8. Select(once, T) = Select(front, S \cap T)
      BY <3>3, <3>4
    <3>9. Good(s)
      BY <3>5, <3>6, <3>7, <3>8
    <3> QED
      BY <2>2, <3>9
  <2> QED
    BY <2>3, <2>4
<1> QED
  BY <1>2, <1>3

(* The text of some of some turns.                                         *)
LEMMA OfTwice ==
    ASSUME NEW text \in Seq(Deltas), NEW A, NEW B
    PROVE  /\ Of(Of(text, A), B) = Of(text, A \cap B)
           /\ Of(text, A) \in Seq(Deltas)
<1>1. PICK S, T : S = [at : Nat, turn : A] /\ T = [at : Nat, turn : B]
  OBVIOUS
<1>2. S \cap T = [at : Nat, turn : A \cap B]
  BY <1>1
<1>3. Select(Select(text, S), T) = Select(text, S \cap T)
  BY SelectTwice
<1>4. Select(text, S) \in Seq(Deltas)
  BY SelectedAre
<1> QED
  BY <1>1, <1>2, <1>3, <1>4 DEF Of

LEMMA OfAppend ==
    ASSUME NEW text \in Seq(Deltas), NEW d \in Deltas, NEW A
    PROVE  Of(Append(text, d), A) =
               IF d \in [at : Nat, turn : A] THEN Append(Of(text, A), d) ELSE Of(text, A)
<1>1. PICK S : S = [at : Nat, turn : A]
  OBVIOUS
<1>2. Select(Append(text, d), S) = IF d \in S THEN Append(Select(text, S), d) ELSE Select(text, S)
  BY SelectFromAppend
<1> QED
  BY <1>1, <1>2 DEF Of

(* Texts that are alike are alike in what is selected of them.             *)
LEMMA LikeSelected ==
    ASSUME NEW text, NEW held, NEW seam, LikeText(text, held, seam), NEW S
    PROVE  LikeText(Select(text, S), Select(held, S), seam)
<1>1. CASE text = held
  BY <1>1 DEF LikeText
<1>2. CASE \E i \in seam : Repeats(text, held, i)
  <2>1. PICK i \in seam : Repeats(text, held, i)
    BY <1>2
  <2>2. Select(text, S) = Select(held, S) \/ Repeats(Select(text, S), Select(held, S), i)
    BY <2>1, RepeatsSelected
  <2> QED
    BY <2>1, <2>2 DEF LikeText
<1> QED
  BY <1>1, <1>2 DEF LikeText

LEMMA LikeOf ==
    ASSUME NEW text, NEW held, NEW seam, LikeText(text, held, seam), NEW A
    PROVE  LikeText(Of(text, A), Of(held, A), seam)
BY LikeSelected DEF Of

LEMMA LikeAppended ==
    ASSUME NEW text, NEW held, NEW seam, LikeText(text, held, seam), NEW d \in Deltas
    PROVE  LikeText(Append(text, d), Append(held, d), seam)
<1>1. CASE text = held
  BY <1>1 DEF LikeText
<1>2. CASE \E i \in seam : Repeats(text, held, i)
  <2>1. PICK i \in seam : Repeats(text, held, i)
    BY <1>2
  <2>2. Repeats(Append(text, d), Append(held, d), i)
    BY <2>1, RepeatsAppended
  <2> QED
    BY <2>1, <2>2 DEF LikeText
<1> QED
  BY <1>1, <1>2 DEF LikeText

(* Text that repeats a delta shows what the text it is like shows.         *)
LEMMA AlikeShown ==
    ASSUME NEW text, NEW held, NEW seam, LikeText(text, held, seam)
    PROVE  Shown(text) = Shown(held)
BY RepeatsShown DEF LikeText

-----------------------------------------------------------------------------
(* The two folds, event by event.                                          *)

LEMMA DiffTypes ==
    ASSUME NEW e \in Event, e.kind = "diff"
    PROVE  e.turn \in Turns /\ e.count \in Nat /\ e.status \in Statuses
BY DEF Event

LEMMA UsersRetainedAre ==
    ASSUME NEW r \in TableRows, NEW N \in Nat, r.users \subseteq 1..N,
           CountsDiffer(r.count), NEW n \in Nat
    PROVE  LET kept == UsersRetained(r, RetainedTurns(r, n), n) IN
           /\ kept \subseteq r.users
           /\ Cardinality(kept) = IF Cardinality(r.users) <= n THEN Cardinality(r.users) ELSE n
<1> DEFINE turns == RetainedTurns(r, n)
           users == r.users
           answered == {r.pending[t] : t \in turns} \cap users
           missing == IF Cardinality(answered) < n THEN n - Cardinality(answered) ELSE 0
           rest == users \ answered
           added == Earliest(rest, missing)
<1>0. UsersRetained(r, turns, n) = answered \cup added
  BY DEF UsersRetained
<1>1. /\ users \in SUBSET Nat /\ IsFiniteSet(users)
      /\ answered \in SUBSET users /\ rest \in SUBSET users
  <2>1. users \in SUBSET (1..N) /\ IsFiniteSet(1..N)
    BY FS_Interval
  <2>2. IsFiniteSet(users)
    BY <2>1, FS_Subset
  <2> QED
    BY <2>1, <2>2
<1>2. /\ IsFiniteSet(answered) /\ IsFiniteSet(rest)
      /\ Cardinality(users) \in Nat /\ Cardinality(answered) \in Nat
      /\ Cardinality(rest) \in Nat
  <2> HIDE DEF answered, rest, users
  <2> QED
    BY <1>1, FS_Subset, FS_CardinalityType
<1>3. Cardinality(answered) <= n
  <2>1. IsFiniteSet(1..n) /\ Cardinality(1..n) = n
    <3>1. IsFiniteSet(1..n) /\ Cardinality(1..n) = IF 1 > n THEN 0 ELSE n - 1 + 1
      BY FS_Interval
    <3> QED
      BY <3>1
  <2>2. /\ turns \subseteq Turns /\ \A t \in turns : r.count[t] \in 1..n
        /\ r.count \in [Turns -> Nat] /\ r.pending \in [Turns -> Nat]
    BY DEF RetainedTurns, TableRows
  <2> DEFINE f == [t \in turns |-> r.count[t]]
             g == [t \in {u \in turns : r.pending[u] \in users} |-> r.pending[t]]
             asked == {u \in turns : r.pending[u] \in users}
  <2>3. f \in Injection(turns, 1..n)
    <3>1. f \in [turns -> 1..n]
      BY <2>2
    <3>2. \A t, u \in turns : f[t] = f[u] => t = u
      <4> SUFFICES ASSUME NEW t \in turns, NEW u \in turns, f[t] = f[u] PROVE t = u
        OBVIOUS
      <4>1. r.count[t] = r.count[u] /\ r.count[t] # 0 /\ t \in Turns /\ u \in Turns
        BY <2>2
      <4> QED
        BY <4>1 DEF CountsDiffer
    <3> QED
      BY <3>1, <3>2 DEF Injection, IsInjective
  <2>4. IsFiniteSet(turns) /\ Cardinality(turns) <= n
    <3> HIDE DEF f, turns
    <3> QED
      BY <2>1, <2>3, FS_Injection
  <2>5. asked \in SUBSET turns
    OBVIOUS
  <2>6. IsFiniteSet(asked) /\ Cardinality(asked) <= Cardinality(turns)
    <3> HIDE DEF asked, turns
    <3> QED
      BY <2>4, <2>5, FS_Subset
  <2>7. g \in Surjection(asked, answered)
    <3>1. g \in [asked -> answered]
      OBVIOUS
    <3>2. \A i \in answered : \E t \in asked : g[t] = i
      OBVIOUS
    <3> QED
      BY <3>1, <3>2 DEF Surjection
  <2>8. Cardinality(answered) <= Cardinality(asked)
    <3> HIDE DEF asked, answered, g
    <3> QED
      BY <2>6, <2>7, FS_Surjection
  <2>9. Cardinality(asked) \in Nat /\ Cardinality(turns) \in Nat
    <3> HIDE DEF asked, turns
    <3> QED
      BY <2>4, <2>6, FS_CardinalityType
  <2> HIDE DEF asked, answered, turns
  <2> QED
    BY <1>2, <2>4, <2>6, <2>8, <2>9
<1>4. missing = n - Cardinality(answered) /\ missing \in Nat
  <2> HIDE DEF answered
  <2> QED
    BY <1>2, <1>3
<1>5. /\ added \subseteq rest /\ IsFiniteSet(added)
      /\ Cardinality(added) = IF Cardinality(rest) <= missing THEN Cardinality(rest) ELSE missing
  <2>1. rest \in SUBSET Nat
    BY <1>1
  <2> HIDE DEF rest, missing
  <2> QED
    BY <1>2, <1>4, <2>1, HowManyEarliest
<1>6. Cardinality(rest) = Cardinality(users) - Cardinality(answered)
  <2>1. users = answered \cup rest /\ answered \cap rest = {}
    BY <1>1
  <2>2. Cardinality(answered \cap rest) = 0
    BY <2>1, FS_EmptySet
  <2> HIDE DEF users, answered, rest
  <2> QED
    BY <1>2, <2>1, <2>2, FS_Union
<1>7. Cardinality(answered \cup added) = Cardinality(answered) + Cardinality(added)
  <2>1. answered \cap added = {}
    BY <1>5
  <2>2. Cardinality(answered \cap added) = 0
    BY <2>1, FS_EmptySet
  <2> HIDE DEF answered, added
  <2>3. Cardinality(added) \in Nat /\ Cardinality(answered) \in Nat
    BY <1>2, <1>5, FS_CardinalityType
  <2>4. Cardinality(answered \cup added) =
            Cardinality(answered) + Cardinality(added) - Cardinality(answered \cap added)
    BY <1>2, <1>5, FS_Union
  <2> QED
    BY <2>2, <2>3, <2>4
<1>8. answered \cup added \subseteq users
  BY <1>1, <1>5
<1> HIDE DEF answered, added, rest, missing
<1> QED
  BY <1>0, <1>2, <1>3, <1>4, <1>5, <1>6, <1>7, <1>8

LEMMA RetainedTypes ==
    ASSUME NEW turns \in SUBSET Turns, NEW x, x.count \in [Turns -> Nat]
    PROVE  RetainedCounts(x, turns) \in [Turns -> Nat]
BY DEF RetainedCounts

(* What the projectors make of the tables.                                 *)
LEMMA ProjectedTypes ==
    ASSUME NEW r \in TableRows, NEW N \in Nat, r.users \subseteq 1..N, CountsDiffer(r.count),
           NEW e \in Event, NEW i \in Nat
    PROVE  ProjectRows(r, e, i) \in TableRows
<1>0. /\ r.users \in SUBSET Nat /\ r.text \in Seq(Deltas) /\ r.count \in [Turns -> Nat]
      /\ r.real \in SUBSET Turns /\ r.pending \in [Turns -> Nat] /\ r.request \in Nat
      /\ r = [users |-> r.users, text |-> r.text, count |-> r.count, real |-> r.real,
              pending |-> r.pending, request |-> r.request]
  BY DEF TableRows
<1>1. CASE e.kind = "user"
  BY <1>0, <1>1 DEF ProjectRows, TableRows
<1>2. CASE e.kind = "started"
  <2>1. e.turn \in Turns
    BY <1>2 DEF Event
  <2> QED
    BY <1>0, <1>2, <2>1 DEF ProjectRows, TableRows
<1>3. CASE e.kind = "delta"
  <2>1. e.turn \in Turns
    BY <1>3 DEF Event
  <2>2. Delta(e, i) \in Deltas
    BY <2>1 DEF Delta, Deltas
  <2>3. Append(r.text, Delta(e, i)) \in Seq(Deltas)
    BY <1>0, <2>2
  <2>4. ProjectRows(r, e, i) = [r EXCEPT !.text = Append(r.text, Delta(e, i))]
    BY <1>3 DEF ProjectRows
  <2> QED
    BY <1>0, <2>3, <2>4 DEF TableRows
<1>4. CASE e.kind = "diff"
  <2>1. ProjectRows(r, e, i) = RowsCaptured(r, e)
    BY <1>4 DEF ProjectRows
  <2>2. e.turn \in Turns /\ e.count \in Nat
    BY <1>4, DiffTypes
  <2>3. PICK count, real :
            /\ count = [t \in Turns |->
                            IF t = e.turn THEN e.count
                            ELSE IF t \in {u \in Turns \ {e.turn} : r.count[u] = e.count} THEN 0
                            ELSE r.count[t]]
            /\ real = (r.real \ ({u \in Turns \ {e.turn} : r.count[u] = e.count}
                                   \cup {e.turn})) \cup RealTurns(e)
    OBVIOUS
  <2>4. count \in [Turns -> Nat]
    BY <1>0, <2>2, <2>3
  <2>5. real \in SUBSET Turns
    BY <1>0, <2>2, <2>3 DEF RealTurns
  <2>6. RowsCaptured(r, e) = [r EXCEPT !.count = count, !.real = real]
    BY <2>3 DEF RowsCaptured
  <2> QED
    BY <1>0, <2>1, <2>4, <2>5, <2>6 DEF TableRows
<1>5. CASE e.kind = "reverted"
  <2>1. e.count \in Nat
    BY <1>5 DEF Event
  <2> DEFINE turns == RetainedTurns(r, e.count)
  <2>2. turns \subseteq Turns
    BY DEF RetainedTurns
  <2>3. UsersRetained(r, turns, e.count) \in SUBSET Nat
    BY <1>0, <2>1, UsersRetainedAre
  <2>4. RetainedText(r, turns) \in Seq(Deltas)
    BY <1>0, SelectedAre DEF RetainedText
  <2>5. RetainedCounts(r, turns) \in [Turns -> Nat]
    BY <1>0, <2>2, RetainedTypes
  <2>6. [t \in Turns |-> IF t \in turns THEN r.pending[t] ELSE 0] \in [Turns -> Nat]
    BY <1>0
  <2>7. r.real \cap turns \in SUBSET Turns
    BY <1>0
  <2>8. ProjectRows(r, e, i) = RowsReverted(r, e.count)
    BY <1>5 DEF ProjectRows
  <2> QED
    BY <2>3, <2>4, <2>5, <2>6, <2>7, <2>8 DEF RowsReverted, TableRows
<1> QED
  BY <1>1, <1>2, <1>3, <1>4, <1>5 DEF Event

(* What applyThreadDetailEvent makes of a thread.                          *)
LEMMA AppliedTypes ==
    ASSUME NEW st \in {"web", "shared"}, NEW x \in Thread, NEW e \in Event, NEW i \in Nat
    PROVE  ApplyToThread(st, x, e, i) \in Thread
<1>0. /\ x.users \in SUBSET Nat /\ x.text \in Seq(Deltas) /\ x.count \in [Turns -> Nat]
      /\ x.real \in SUBSET Turns
      /\ x = [users |-> x.users, text |-> x.text, count |-> x.count, real |-> x.real]
  BY DEF Thread
<1>1. CASE e.kind = "user"
  BY <1>0, <1>1 DEF ApplyToThread, Thread
<1>2. CASE e.kind = "started"
  BY <1>2 DEF ApplyToThread
<1>3. CASE e.kind = "delta"
  <2>1. e.turn \in Turns
    BY <1>3 DEF Event
  <2>2. Delta(e, i) \in Deltas
    BY <2>1 DEF Delta, Deltas
  <2>3. Append(x.text, Delta(e, i)) \in Seq(Deltas)
    BY <1>0, <2>2
  <2>4. ApplyToThread(st, x, e, i) = [x EXCEPT !.text = Append(x.text, Delta(e, i))]
    BY <1>3 DEF ApplyToThread
  <2> QED
    BY <1>0, <2>3, <2>4 DEF Thread
<1>4. CASE e.kind = "diff"
  <2>1. e.turn \in Turns /\ e.count \in Nat
    BY <1>4, DiffTypes
  <2>2. ApplyToThread(st, x, e, i) = ClientCaptured(x, e)
    BY <1>4 DEF ApplyToThread
  <2>3. [x EXCEPT !.count[e.turn] = e.count, !.real = @ \cup RealTurns(e)] \in Thread
    <3>1. PICK count, real : count = [x.count EXCEPT ![e.turn] = e.count]
                             /\ real = x.real \cup RealTurns(e)
      OBVIOUS
    <3>2. count \in [Turns -> Nat] /\ real \in SUBSET Turns
      BY <1>0, <2>1, <3>1 DEF RealTurns
    <3>3. [x EXCEPT !.count[e.turn] = e.count, !.real = @ \cup RealTurns(e)] =
              [x EXCEPT !.count = count, !.real = real]
      BY <1>0, <3>1
    <3> QED
      BY <1>0, <3>2, <3>3 DEF Thread
  <2> QED
    BY <2>2, <2>3 DEF ClientCaptured
<1>5. CASE e.kind = "reverted"
  <2> DEFINE turns == RetainedTurns(x, e.count)
  <2>1. turns \subseteq Turns
    BY DEF RetainedTurns
  <2>2. (IF st = "web" THEN Earliest(x.users, e.count) ELSE x.users) \in SUBSET Nat
    BY <1>0 DEF Earliest
  <2>3. RetainedText(x, turns) \in Seq(Deltas)
    BY <1>0, SelectedAre DEF RetainedText
  <2>4. RetainedCounts(x, turns) \in [Turns -> Nat]
    BY <1>0, <2>1, RetainedTypes
  <2>5. x.real \cap turns \in SUBSET Turns
    BY <1>0
  <2>6. ApplyToThread(st, x, e, i) = ClientReverted(st, x, e.count)
    BY <1>5 DEF ApplyToThread
  <2> QED
    BY <2>2, <2>3, <2>4, <2>5, <2>6 DEF ClientReverted, Thread
<1> QED
  BY <1>1, <1>2, <1>3, <1>4, <1>5 DEF Event

(* What an event adds to what a thread shows: at most itself; and only a   *)
(* revert takes away.                                                      *)
LEMMA AppliedShows ==
    ASSUME NEW st \in {"web", "shared"}, NEW x \in Thread, NEW e \in Event, NEW i \in Nat
    PROVE  /\ Shown(ApplyToThread(st, x, e, i).text) \subseteq Shown(x.text) \cup [at : {i}, turn : Turns]
           /\ e.kind # "reverted" => Shown(x.text) \subseteq Shown(ApplyToThread(st, x, e, i).text)
<1>0. x.text \in Seq(Deltas)
  BY DEF Thread
<1>1. CASE e.kind \in {"user", "started"}
  BY <1>1 DEF ApplyToThread, Thread
<1>4. CASE e.kind = "diff"
  BY <1>4 DEF ApplyToThread, ClientCaptured, Thread
<1>2. CASE e.kind = "delta"
  <2>1. e.turn \in Turns
    BY <1>2 DEF Event
  <2>2. Delta(e, i) \in Deltas /\ Delta(e, i) \in [at : {i}, turn : Turns]
    BY <2>1 DEF Delta, Deltas
  <2>3. ApplyToThread(st, x, e, i).text = Append(x.text, Delta(e, i))
    BY <1>2 DEF ApplyToThread, Thread
  <2> QED
    BY <1>0, <2>2, <2>3, ShownOfAppend
<1>3. CASE e.kind = "reverted"
  <2> DEFINE S == [at : Nat, turn : RetainedTurns(x, e.count)]
  <2>1. ApplyToThread(st, x, e, i).text = Select(x.text, S)
    BY <1>3 DEF ApplyToThread, ClientReverted, RetainedText
  <2> QED
    BY <1>0, <1>3, <2>1, ShownOfSelect
<1> QED
  BY <1>1, <1>2, <1>3, <1>4 DEF Event

LEMMA ProjectedShows ==
    ASSUME NEW r \in TableRows, NEW e \in Event, NEW i \in Nat
    PROVE  Shown(ProjectRows(r, e, i).text) \subseteq Shown(r.text) \cup [at : {i}, turn : Turns]
<1>0. r.text \in Seq(Deltas)
  BY DEF TableRows
<1>1. CASE e.kind \in {"user", "started"}
  BY <1>1 DEF ProjectRows, TableRows
<1>4. CASE e.kind = "diff"
  BY <1>4 DEF ProjectRows, RowsCaptured, TableRows
<1>2. CASE e.kind = "delta"
  <2>1. e.turn \in Turns
    BY <1>2 DEF Event
  <2>2. Delta(e, i) \in Deltas /\ Delta(e, i) \in [at : {i}, turn : Turns]
    BY <2>1 DEF Delta, Deltas
  <2>3. ProjectRows(r, e, i).text = Append(r.text, Delta(e, i))
    BY <1>2 DEF ProjectRows, TableRows
  <2> QED
    BY <1>0, <2>2, <2>3, ShownOfAppend
<1>3. CASE e.kind = "reverted"
  <2> DEFINE S == [at : Nat, turn : RetainedTurns(r, e.count)]
  <2>1. ProjectRows(r, e, i).text = Select(r.text, S)
    BY <1>3 DEF ProjectRows, RowsReverted, RetainedText
  <2> QED
    BY <1>0, <2>1, ShownOfSelect
<1> QED
  BY <1>1, <1>2, <1>3, <1>4 DEF Event

(* The turns that a revert retains it retains again.                        *)
LEMMA RetainedAgain ==
    ASSUME NEW x, NEW y, x.count \in [Turns -> Nat], NEW n \in Nat,
           y.count = RetainedCounts(x, RetainedTurns(x, n))
    PROVE  RetainedTurns(y, n) = RetainedTurns(x, n)
<1> DEFINE turns == RetainedTurns(x, n)
<1>1. \A t \in Turns : y.count[t] = IF t \in turns THEN x.count[t] ELSE 0
  BY DEF RetainedCounts
<1>2. \A t \in Turns : t \in turns <=> x.count[t] \in 1..n
  BY DEF RetainedTurns
<1>3. \A t \in Turns : y.count[t] \in 1..n <=> t \in turns
  BY <1>1, <1>2
<1> QED
  BY <1>3 DEF RetainedTurns

-----------------------------------------------------------------------------
(* The folds, side by side: an event keeps a thread like the tables.       *)

(* TakesAway and Recaptures, of the event e and the tables r before it.     *)
Takes(e, r, t) ==
    /\ e.kind = "diff"
    /\ \/ e.turn # t /\ r.count[t] = e.count
       \/ e.turn = t /\ e.status # "real" /\ t \in r.real

Settles(e, t) == e.kind = "diff" /\ e.turn = t /\ e.status = "real"

(* The checkpoint of a turn, if the thread has it as the tables have it    *)
(* and the event does not take it away, or as they have it after the event *)
(* already.                                                                *)
LEMMA DiffAlike ==
    ASSUME NEW st \in {"web", "shared"}, NEW x \in Thread, NEW r \in TableRows,
           NEW e \in Event, NEW i \in Nat, NEW t \in Turns,
           NEW p, p = ProjectRows(r, e, i), NEW y, y = ApplyToThread(st, x, e, i),
           e.kind = "diff",
           \/ Settles(e, t)
           \/ SameCheckpoint(x, r, t) /\ ~Takes(e, r, t)
           \/ SameCheckpoint(x, p, t)
    PROVE  SameCheckpoint(y, p, t)
<1>0. /\ x.count \in [Turns -> Nat] /\ r.count \in [Turns -> Nat]
      /\ e.turn \in Turns /\ e.count \in Nat
  BY DiffTypes DEF Thread, TableRows
<1>1. /\ p.count[t] = IF t = e.turn THEN e.count
                      ELSE IF r.count[t] = e.count THEN 0 ELSE r.count[t]
      /\ t \in p.real <=> IF t = e.turn THEN e.status = "real"
                          ELSE t \in r.real /\ r.count[t] # e.count
  BY <1>0 DEF ProjectRows, RowsCaptured, RealTurns, TableRows
<1>2. /\ y.count[t] = IF t = e.turn /\ (t \notin x.real \/ e.status = "real") THEN e.count
                      ELSE x.count[t]
      /\ t \in y.real <=> t \in x.real \/ (t = e.turn /\ e.status = "real")
  BY <1>0 DEF ApplyToThread, ClientCaptured, RealTurns, Thread
<1>3. CASE Settles(e, t)
  BY <1>1, <1>2, <1>3 DEF Settles, SameCheckpoint
<1>4. CASE SameCheckpoint(x, r, t) /\ ~Takes(e, r, t)
  BY <1>1, <1>2, <1>4 DEF Takes, SameCheckpoint
<1>5. CASE SameCheckpoint(x, p, t)
  BY <1>1, <1>2, <1>5 DEF SameCheckpoint
<1> QED
  BY <1>3, <1>4, <1>5

LEMMA RevertAlike ==
    ASSUME NEW st \in {"web", "shared"}, NEW x \in Thread, NEW r \in TableRows,
           NEW e \in Event, NEW i \in Nat, NEW t \in Turns,
           NEW p, p = ProjectRows(r, e, i), NEW y, y = ApplyToThread(st, x, e, i),
           e.kind = "reverted",
           SameCheckpoint(x, r, t) \/ SameCheckpoint(x, p, t)
    PROVE  /\ SameCheckpoint(y, p, t)
           /\ t \in RetainedTurns(x, e.count) <=> t \in RetainedTurns(r, e.count)
<1>0. /\ x.count \in [Turns -> Nat] /\ r.count \in [Turns -> Nat] /\ e.count \in Nat
  BY DEF Thread, TableRows, Event
<1>1. /\ t \in RetainedTurns(x, e.count) <=> x.count[t] \in 1..e.count
      /\ t \in RetainedTurns(r, e.count) <=> r.count[t] \in 1..e.count
  BY DEF RetainedTurns
<1>2. /\ p.count[t] = IF r.count[t] \in 1..e.count THEN r.count[t] ELSE 0
      /\ t \in p.real <=> t \in r.real /\ r.count[t] \in 1..e.count
  BY <1>1 DEF ProjectRows, RowsReverted, RetainedCounts
<1>3. /\ y.count[t] = IF x.count[t] \in 1..e.count THEN x.count[t] ELSE 0
      /\ t \in y.real <=> t \in x.real /\ x.count[t] \in 1..e.count
  BY <1>1 DEF ApplyToThread, ClientReverted, RetainedCounts
<1>4. CASE SameCheckpoint(x, r, t)
  BY <1>1, <1>2, <1>3, <1>4 DEF SameCheckpoint
<1>5. CASE SameCheckpoint(x, p, t)
  <2>1. x.count[t] \in 1..e.count <=> r.count[t] \in 1..e.count
    BY <1>0, <1>2, <1>5 DEF SameCheckpoint
  <2> QED
    BY <1>1, <1>2, <1>3, <1>5, <2>1 DEF SameCheckpoint
<1> QED
  BY <1>4, <1>5

LEMMA CheckpointAlike ==
    ASSUME NEW st \in {"web", "shared"}, NEW x \in Thread, NEW r \in TableRows,
           NEW e \in Event, NEW i \in Nat, NEW t \in Turns,
           NEW p, p = ProjectRows(r, e, i), NEW y, y = ApplyToThread(st, x, e, i),
           \/ Settles(e, t)
           \/ SameCheckpoint(x, r, t) /\ ~Takes(e, r, t)
           \/ SameCheckpoint(x, p, t)
    PROVE  SameCheckpoint(y, p, t)
<1>1. CASE e.kind \in {"user", "started", "delta"}
  <2>1. y.count = x.count /\ y.real = x.real
    BY <1>1 DEF ApplyToThread, Thread
  <2>2. p.count = r.count /\ p.real = r.real
    BY <1>1 DEF ProjectRows, TableRows
  <2> QED
    BY <1>1, <2>1, <2>2 DEF SameCheckpoint, Settles
<1>2. CASE e.kind = "diff"
  BY <1>2, DiffAlike
<1>3. CASE e.kind = "reverted"
  <2>1. SameCheckpoint(x, r, t) \/ SameCheckpoint(x, p, t)
    BY <1>3 DEF Settles
  <2> QED
    BY <1>3, <2>1, RevertAlike
<1> QED
  BY <1>1, <1>2, <1>3 DEF Event

(* The text of some turns, whose checkpoints a revert finds alike.         *)
LEMMA TextsAlike ==
    ASSUME NEW st \in {"web", "shared"}, NEW x \in Thread, NEW r \in TableRows,
           NEW e \in Event, NEW i \in Nat,
           NEW p, p = ProjectRows(r, e, i), NEW y, y = ApplyToThread(st, x, e, i),
           NEW seam, NEW V, NEW U \in SUBSET V,
           LikeText(Of(x.text, V), Of(r.text, V), seam),
           e.kind = "reverted" =>
               \A t \in U : t \in RetainedTurns(x, e.count) <=> t \in RetainedTurns(r, e.count)
    PROVE  LikeText(Of(y.text, U), Of(p.text, U), seam)
<1>0. x.text \in Seq(Deltas) /\ r.text \in Seq(Deltas)
  BY DEF Thread, TableRows
<1>1. \A W \in SUBSET U : LikeText(Of(x.text, W), Of(r.text, W), seam)
  <2> SUFFICES ASSUME NEW W \in SUBSET U PROVE LikeText(Of(x.text, W), Of(r.text, W), seam)
    OBVIOUS
  <2>1. LikeText(Of(Of(x.text, V), W), Of(Of(r.text, V), W), seam)
    BY LikeOf
  <2>2. /\ Of(Of(x.text, V), W) = Of(x.text, V \cap W)
        /\ Of(Of(r.text, V), W) = Of(r.text, V \cap W)
    BY <1>0, OfTwice
  <2>3. V \cap W = W
    OBVIOUS
  <2> QED
    BY <2>1, <2>2, <2>3
<1>2. LikeText(Of(x.text, U), Of(r.text, U), seam)
  BY <1>1
<1>3. CASE e.kind \in {"user", "started", "diff"}
  <2>1. y.text = x.text
    BY <1>3 DEF ApplyToThread, ClientCaptured, Thread
  <2>2. p.text = r.text
    BY <1>3 DEF ProjectRows, RowsCaptured, TableRows
  <2> QED
    BY <1>2, <2>1, <2>2
<1>4. CASE e.kind = "delta"
  <2>0. e.turn \in Turns
    BY <1>4 DEF Event
  <2>1. PICK d \in Deltas : d = Delta(e, i)
    BY <2>0 DEF Delta, Deltas
  <2>2. y.text = Append(x.text, d)
    BY <1>4, <2>1 DEF ApplyToThread, Thread
  <2>3. p.text = Append(r.text, d)
    BY <1>4, <2>1 DEF ProjectRows, TableRows
  <2>4. PICK ours \in Seq(Deltas), theirs \in Seq(Deltas) : ours = x.text /\ theirs = r.text
    BY <1>0
  <2>5. Of(Append(ours, d), U) =
            IF d \in [at : Nat, turn : U] THEN Append(Of(ours, U), d) ELSE Of(ours, U)
    BY OfAppend
  <2>6. Of(Append(theirs, d), U) =
            IF d \in [at : Nat, turn : U] THEN Append(Of(theirs, U), d) ELSE Of(theirs, U)
    BY OfAppend
  <2>7. LikeText(Append(Of(x.text, U), d), Append(Of(r.text, U), d), seam)
    BY <1>2, LikeAppended
  <2> QED
    BY <1>2, <2>2, <2>3, <2>4, <2>5, <2>6, <2>7
<1>5. CASE e.kind = "reverted"
  <2>1. PICK X, R : X = RetainedTurns(x, e.count) /\ R = RetainedTurns(r, e.count)
    OBVIOUS
  <2>2. y.text = Of(x.text, X)
    BY <1>5, <2>1 DEF ApplyToThread, ClientReverted, RetainedText, Of
  <2>3. p.text = Of(r.text, R)
    BY <1>5, <2>1 DEF ProjectRows, RowsReverted, RetainedText, Of
  <2>4. Of(y.text, U) = Of(x.text, X \cap U) /\ Of(p.text, U) = Of(r.text, R \cap U)
    BY <1>0, <2>2, <2>3, OfTwice
  <2>5. X \cap U = R \cap U
    BY <1>5, <2>1
  <2>6. LikeText(Of(x.text, R \cap U), Of(r.text, R \cap U), seam)
    BY <1>1
  <2> QED
    BY <2>4, <2>5, <2>6
<1> QED
  BY <1>3, <1>4, <1>5 DEF Event

LEMMA UsersAlike ==
    ASSUME NEW st \in {"web", "shared"}, NEW x \in Thread, NEW r \in TableRows,
           NEW e \in Event, NEW n \in Nat, r.users \subseteq 1..n, CountsDiffer(r.count),
           NEW i \in Nat, i = n + 1, LikeUsers(st, x.users, r.users, n)
    PROVE  LikeUsers(st, ApplyToThread(st, x, e, i).users, ProjectRows(r, e, i).users, i)
<1>0. /\ x.users \subseteq 1..n
      /\ st = "web" => Cardinality(x.users) = Cardinality(r.users)
      /\ st = "shared" => r.users \subseteq x.users
  BY DEF LikeUsers
<1>1. x.users \subseteq 1..i /\ i \notin x.users /\ i \notin r.users
  BY <1>0
<1>2. IsFiniteSet(x.users) /\ IsFiniteSet(r.users) /\ x.users \in SUBSET Nat
  <2>1. IsFiniteSet(1..n)
    BY FS_Interval
  <2> QED
    BY <1>0, <2>1, FS_Subset
<1>3. CASE e.kind \in {"started", "delta", "diff"}
  <2>1. ApplyToThread(st, x, e, i).users = x.users
    BY <1>3 DEF ApplyToThread, ClientCaptured, Thread
  <2>2. ProjectRows(r, e, i).users = r.users
    BY <1>3 DEF ProjectRows, RowsCaptured, TableRows
  <2> QED
    BY <1>0, <1>1, <2>1, <2>2 DEF LikeUsers
<1>4. CASE e.kind = "user"
  <2>1. ApplyToThread(st, x, e, i).users = x.users \cup {i}
    BY <1>4 DEF ApplyToThread, Thread
  <2>2. ProjectRows(r, e, i).users = r.users \cup {i}
    BY <1>4 DEF ProjectRows, TableRows
  <2>3. Cardinality(x.users \cup {i}) = Cardinality(x.users) + 1
    BY <1>1, <1>2, FS_AddElement
  <2>4. Cardinality(r.users \cup {i}) = Cardinality(r.users) + 1
    BY <1>1, <1>2, FS_AddElement
  <2>5. x.users \cup {i} \subseteq 1..i
    BY <1>1
  <2> QED
    BY <1>0, <2>1, <2>2, <2>3, <2>4, <2>5 DEF LikeUsers
<1>5. CASE e.kind = "reverted"
  <2>0. e.count \in Nat
    BY <1>5 DEF Event
  <2>1. PICK kept : kept = UsersRetained(r, RetainedTurns(r, e.count), e.count)
    OBVIOUS
  <2>2. /\ kept \subseteq r.users
        /\ Cardinality(kept) =
               IF Cardinality(r.users) <= e.count THEN Cardinality(r.users) ELSE e.count
    BY <2>0, <2>1, UsersRetainedAre
  <2>3. ProjectRows(r, e, i).users = kept
    BY <1>5, <2>1 DEF ProjectRows, RowsReverted
  <2>4. CASE st = "web"
    <3>1. ApplyToThread(st, x, e, i).users = Earliest(x.users, e.count)
      BY <1>5, <2>4 DEF ApplyToThread, ClientReverted
    <3>2. /\ Earliest(x.users, e.count) \subseteq x.users
          /\ Cardinality(Earliest(x.users, e.count)) =
                 IF Cardinality(x.users) <= e.count THEN Cardinality(x.users) ELSE e.count
      BY <1>2, <2>0, HowManyEarliest
    <3> QED
      BY <1>0, <1>1, <2>2, <2>3, <2>4, <3>1, <3>2 DEF LikeUsers
  <2>5. CASE st = "shared"
    <3>1. ApplyToThread(st, x, e, i).users = x.users
      BY <1>5, <2>5 DEF ApplyToThread, ClientReverted
    <3> QED
      BY <1>0, <1>1, <2>2, <2>3, <2>5, <3>1 DEF LikeUsers
  <2> QED
    BY <2>4, <2>5
<1> QED
  BY <1>3, <1>4, <1>5 DEF Event

(* An event that is in the snapshot already: the text may be repeated, the *)
(* rest stays.                                                             *)
LEMMA AgainAlike ==
    ASSUME NEW st \in {"web", "shared"}, NEW x \in Thread, NEW r \in TableRows,
           NEW e \in Event, NEW n \in Nat, r.users \subseteq 1..n, CountsDiffer(r.count),
           NEW i \in Nat, i = n + 1,
           x.text = ProjectRows(r, e, i).text, x.users = ProjectRows(r, e, i).users,
           x.count = ProjectRows(r, e, i).count
    PROVE  /\ LikeText(ApplyToThread(st, x, e, i).text, x.text, {i})
           /\ LikeUsers(st, ApplyToThread(st, x, e, i).users, x.users, i)
<1>0. x.text \in Seq(Deltas) /\ r.text \in Seq(Deltas)
  BY DEF Thread, TableRows
<1>1. CASE e.kind \in {"started", "diff"}
  <2>1. /\ ApplyToThread(st, x, e, i).text = x.text
        /\ ApplyToThread(st, x, e, i).users = x.users
    BY <1>1 DEF ApplyToThread, ClientCaptured, Thread
  <2>2. x.users = r.users
    BY <1>1 DEF ProjectRows, RowsCaptured, TableRows
  <2>3. x.users \subseteq 1..i
    BY <2>2
  <2> QED
    BY <2>1, <2>3 DEF LikeText, LikeUsers
<1>2. CASE e.kind = "user"
  <2>1. /\ ApplyToThread(st, x, e, i).text = x.text
        /\ ApplyToThread(st, x, e, i).users = x.users \cup {i}
    BY <1>2 DEF ApplyToThread, Thread
  <2>2. x.users = r.users \cup {i}
    BY <1>2 DEF ProjectRows, TableRows
  <2>3. x.users \cup {i} = x.users /\ x.users \subseteq 1..i
    BY <2>2
  <2> QED
    BY <2>1, <2>3 DEF LikeText, LikeUsers
<1>3. CASE e.kind = "delta"
  <2>0. e.turn \in Turns
    BY <1>3 DEF Event
  <2>1. PICK d \in Deltas : d = Delta(e, i) /\ d.at = i
    <3>1. Delta(e, i) \in Deltas /\ Delta(e, i).at = i
      BY <2>0 DEF Delta, Deltas
    <3> QED
      BY <3>1
  <2>2. /\ ApplyToThread(st, x, e, i).text = Append(x.text, d)
        /\ ApplyToThread(st, x, e, i).users = x.users
    BY <1>3, <2>1 DEF ApplyToThread, Thread
  <2>3. x.text = Append(r.text, d) /\ x.users = r.users
    BY <1>3, <2>1 DEF ProjectRows, TableRows
  <2>4. Repeats(Append(x.text, d), x.text, i)
    BY <1>0, <2>1, <2>3, RepeatsLast
  <2>5. x.users \subseteq 1..i
    BY <2>3
  <2> QED
    BY <2>2, <2>4, <2>5 DEF LikeText, LikeUsers
<1>4. CASE e.kind = "reverted"
  <2>0. e.count \in Nat
    BY <1>4 DEF Event
  <2>1. PICK S : S = [at : Nat, turn : RetainedTurns(r, e.count)]
    OBVIOUS
  <2>2. RetainedTurns(x, e.count) = RetainedTurns(r, e.count)
    <3>1. r.count \in [Turns -> Nat]
      BY DEF TableRows
    <3>2. x.count = RetainedCounts(r, RetainedTurns(r, e.count))
      BY <1>4 DEF ProjectRows, RowsReverted
    <3> QED
      BY <2>0, <3>1, <3>2, RetainedAgain
  <2>3. ApplyToThread(st, x, e, i).text = Select(x.text, S)
    BY <1>4, <2>1, <2>2 DEF ApplyToThread, ClientReverted, RetainedText
  <2>4. x.text = Select(r.text, S)
    BY <1>4, <2>1 DEF ProjectRows, RowsReverted, RetainedText
  <2>5. \A d : Holds(x.text, d) => d \in S
    BY <1>0, <2>4, SelectedAre
  <2>6. Select(x.text, S) = x.text
    BY <1>0, <2>5, SelectAll
  <2>7. PICK kept : kept = UsersRetained(r, RetainedTurns(r, e.count), e.count)
    OBVIOUS
  <2>8. /\ kept \subseteq r.users
        /\ Cardinality(kept) =
               IF Cardinality(r.users) <= e.count THEN Cardinality(r.users) ELSE e.count
    BY <2>0, <2>7, UsersRetainedAre
  <2>9. x.users = kept
    BY <1>4, <2>7 DEF ProjectRows, RowsReverted
  <2>10. IsFiniteSet(x.users) /\ x.users \in SUBSET Nat /\ x.users \subseteq 1..i
    <3>0. x.users \in SUBSET (1..n)
      BY <2>8, <2>9
    <3>1. IsFiniteSet(1..n)
      BY FS_Interval
    <3>2. IsFiniteSet(x.users)
      BY <3>0, <3>1, FS_Subset
    <3> QED
      BY <3>0, <3>2
  <2>11. IsFiniteSet(r.users) /\ Cardinality(r.users) \in Nat
    <3>1. IsFiniteSet(1..n) /\ r.users \in SUBSET (1..n)
      BY FS_Interval
    <3> QED
      BY <3>1, FS_Subset, FS_CardinalityType
  <2>12. LikeUsers(st, ApplyToThread(st, x, e, i).users, x.users, i)
    <3>1. CASE st = "web"
      <4>1. ApplyToThread(st, x, e, i).users = Earliest(x.users, e.count)
        BY <1>4, <3>1 DEF ApplyToThread, ClientReverted
      <4>2. /\ Earliest(x.users, e.count) \subseteq x.users
            /\ Cardinality(Earliest(x.users, e.count)) =
                   IF Cardinality(x.users) <= e.count THEN Cardinality(x.users) ELSE e.count
        BY <2>0, <2>10, HowManyEarliest
      <4>3. Cardinality(x.users) <= e.count
        BY <2>0, <2>8, <2>9, <2>11
      <4> QED
        BY <2>10, <3>1, <4>1, <4>2, <4>3 DEF LikeUsers
    <3>2. CASE st = "shared"
      <4>1. ApplyToThread(st, x, e, i).users = x.users
        BY <1>4, <3>2 DEF ApplyToThread, ClientReverted
      <4> QED
        BY <2>10, <3>2, <4>1 DEF LikeUsers
    <3> QED
      BY <3>1, <3>2
  <2> QED
    BY <2>3, <2>6, <2>12 DEF LikeText
<1> QED
  BY <1>1, <1>2, <1>3, <1>4 DEF Event

-----------------------------------------------------------------------------
(* The server: the log and its history.                                    *)

LEMMA EventTypes ==
    /\ [kind |-> "user"] \in Event
    /\ \A t \in Turns : /\ [kind |-> "started", turn |-> t] \in Event
                        /\ [kind |-> "delta", turn |-> t] \in Event
    /\ \A t \in Turns, n \in Nat, status \in Statuses :
           [kind |-> "diff", turn |-> t, count |-> n, status |-> status] \in Event
    /\ \A n \in Nat : [kind |-> "reverted", count |-> n] \in Event
BY DEF Event

LEMMA NoTypes == NoThread \in Thread /\ NoRows \in TableRows /\ NothingRead \in Read
<1>1. <<>> \in Seq(Deltas) /\ [t \in Turns |-> 0] \in [Turns -> Nat] /\ {} \in SUBSET Nat
  OBVIOUS
<1>2. NoThread \in Thread /\ NoRows \in TableRows
  BY <1>1 DEF NoThread, Thread, NoRows, TableRows
<1> QED
  BY <1>2 DEF NothingRead, Read

LEMMA Moment ==
    ASSUME NEW h, IsHistory(h), HistoryOK(h), TypeOK, NEW n \in 0..Len(log)
    PROVE  /\ h[n] \in TableRows /\ h[n].users \subseteq 1..n /\ CountsDiffer(h[n].count)
           /\ Shown(h[n].text) \subseteq UpTo(n)
           /\ h[n].text \in Seq(Deltas) /\ h[n].count \in [Turns -> Nat]
           /\ \A t \in Turns : h[n].count[t] <= n
<1>1. h[n] \in TableRows
  BY DEF IsHistory
<1>2. h[n].text \in Seq(Deltas) /\ h[n].count \in [Turns -> Nat]
  BY <1>1 DEF TableRows
<1> QED
  BY <1>1, <1>2 DEF HistoryOK

(* A checkpoint has a number that is no greater than that of its event.    *)
Numbered(e) == e.kind = "diff" => e.count <= Len(log) + 1

(* What a worker has read is what the tables held at some moment.          *)
LEMMA SinceIs ==
    ASSUME TypeOK, NEW own \in SUBSET (1..Len(log))
    PROVE  Since(own) \subseteq 0..Len(log)
<1>0. PICK n \in Nat : n = Len(log)
  BY DEF TypeOK
<1>1. PICK S : S = {0} \cup own /\ n = Len(log)
  BY <1>0
<1>2. S \subseteq Nat /\ S # {} /\ \A x \in S : x <= n
  BY <1>1
<1>3. Max(S) \in S
  BY <1>2, MaxIs
<1>4. Max(S) \in Nat
  BY <1>2, <1>3
<1> QED
  BY <1>1, <1>4 DEF Since

LEMMA ReadsAre ==
    ASSUME TypeOK
    PROVE  Since(FromIngestion) \subseteq 0..Len(log) /\ Since(FromReactor) \subseteq 0..Len(log)
<1>1. DOMAIN log = 1..Len(log)
  BY DEF TypeOK
<1>2. FromIngestion \in SUBSET (1..Len(log)) /\ FromReactor \in SUBSET (1..Len(log))
  BY <1>1 DEF FromIngestion, FromReactor
<1> QED
  BY <1>2, SinceIs

LEMMA CountsRead ==
    ASSUME NEW h, TypeOK, IsHistory(h), HistoryOK(h), NEW m \in 0..Len(log)
    PROVE  /\ Counts(past[m]) \subseteq Nat
           /\ Max(Counts(past[m])) + 1 \in Nat /\ Max(Counts(past[m])) + 1 <= Len(log) + 1
           /\ \A t \in Turns : past[m].count[t] \in Nat /\ past[m].count[t] <= Len(log) + 1
<1>0. PICK n \in Nat : n = Len(log)
  BY DEF TypeOK
<1>1. PICK S : S = Counts(past[m]) /\ n = Len(log)
  BY <1>0
<1>2. past = h
  BY DEF IsHistory
<1>3. \A t \in Turns : past[m].count[t] \in Nat /\ past[m].count[t] <= m
  BY <1>2, Moment
<1>4. m \in Nat /\ m <= n
  BY <1>1
<1>5. S \subseteq Nat /\ S # {} /\ \A x \in S : x <= n
  BY <1>1, <1>3, <1>4 DEF Counts
<1>6. Max(S) \in S
  BY <1>5, MaxIs
<1>7. Max(S) \in Nat /\ Max(S) <= n
  BY <1>5, <1>6
<1>8. \A t \in Turns : past[m].count[t] \in Nat /\ past[m].count[t] <= n + 1
  BY <1>3, <1>4
<1> QED
  BY <1>1, <1>5, <1>7, <1>8

(* What a commit is, whatever it is of.                                    *)
Committed(e) ==
    /\ e \in Event /\ Numbered(e)
    /\ published = Len(log)
    /\ log' = log \o <<e>>
    /\ rows' = ProjectRows(rows, e, Len(log) + 1)
    /\ past' = [n \in 0..Len(log) + 1 |-> IF n = Len(log) + 1 THEN rows' ELSE past[n]]
    /\ begun' \in 0..MaxTurns
    /\ UNCHANGED <<published, phase, loading, cursor, wire, store, thread, readAt,
                   startedAt, drops>>

LEMMA CommitIs ==
    ASSUME NEW h, TypeOK, IsHistory(h), HistoryOK(h), Commit
    PROVE  \E e : Committed(e)
<1> USE ThreadAssumption
<1>0. /\ Turns = 1..MaxTurns /\ MaxTurns \in Nat
      /\ begun \in 0..MaxTurns
  BY DEF Turns, TypeOK
<1>1. ASSUME NEW e \in Event, Record(e), Numbered(e), begun' \in 0..MaxTurns
      PROVE  Committed(e)
  BY <1>1 DEF Record, Stream!Commit, Committed, subscription, client
<1>2. CASE SendMessage
  <2>1. Numbered([kind |-> "user"])
    BY DEF Numbered
  <2> QED
    BY <1>0, <1>1, <1>2, <2>1, EventTypes DEF SendMessage
<1>3. CASE StartTurn
  <2>1. PICK t \in Turns : begun' = t /\ Record([kind |-> "started", turn |-> t])
    BY <1>3 DEF StartTurn
  <2>2. Numbered([kind |-> "started", turn |-> t])
    BY DEF Numbered
  <2>3. begun' \in 0..MaxTurns
    BY <1>0, <2>1
  <2> QED
    BY <1>1, <2>1, <2>2, <2>3, EventTypes
<1>4. CASE StreamText
  <2>1. Numbered([kind |-> "delta", turn |-> begun])
    BY DEF Numbered
  <2>2. begun \in Turns /\ begun' \in 0..MaxTurns
    BY <1>0, <1>4 DEF StreamText
  <2> QED
    BY <1>1, <1>4, <2>1, <2>2, EventTypes DEF StreamText
<1>5. ASSUME NEW t \in Turns, NEW n \in Nat, n <= Len(log) + 1, NEW status \in Statuses,
             Capture(t, n, status)
      PROVE  \E e : Committed(e)
  <2>1. Numbered([kind |-> "diff", turn |-> t, count |-> n, status |-> status])
    BY <1>5 DEF Numbered
  <2>2. begun' \in 0..MaxTurns
    BY <1>0, <1>5 DEF Capture
  <2> QED
    BY <1>1, <1>5, <2>1, <2>2, EventTypes DEF Capture
<1>6. CASE PlacePlaceholder
  <2>1. PICK m \in Since(FromIngestion), t \in 1..begun :
            Capture(t, Max(Counts(past[m])) + 1, "placeholder")
    BY <1>6 DEF PlacePlaceholder
  <2>2. m \in 0..Len(log) /\ t \in Turns /\ "placeholder" \in Statuses
    BY <1>0, <2>1, ReadsAre DEF Statuses
  <2>3. PICK n \in Nat : n = Max(Counts(past[m])) + 1 /\ n <= Len(log) + 1
    BY <2>2, CountsRead
  <2> QED
    BY <1>5, <2>1, <2>2, <2>3
<1>7. CASE CaptureCompleted
  <2>1. PICK m \in Since(FromReactor), t \in 1..begun, status \in {"interrupted", "real"} :
            LET n == past[m].count[t] IN
            Capture(t, IF n # 0 THEN n ELSE Max(Counts(past[m])) + 1, status)
    BY <1>7 DEF CaptureCompleted
  <2>2. m \in 0..Len(log) /\ t \in Turns /\ status \in Statuses
    BY <1>0, <2>1, ReadsAre DEF Statuses
  <2>3. PICK n : n = IF past[m].count[t] # 0 THEN past[m].count[t]
                     ELSE Max(Counts(past[m])) + 1
    OBVIOUS
  <2>4. n \in Nat /\ n <= Len(log) + 1
    BY <2>2, <2>3, CountsRead
  <2>5. Capture(t, n, status)
    BY <2>1, <2>3
  <2> QED
    BY <1>5, <2>2, <2>4, <2>5
<1>8. CASE CaptureFromPlaceholder
  <2>1. PICK m \in Since(FromReactor) :
            \E i \in 1..m : log[i].kind = "diff" /\ Capture(log[i].turn, log[i].count, "real")
    BY <1>8 DEF CaptureFromPlaceholder
  <2>2. PICK i \in 1..m : log[i].kind = "diff" /\ Capture(log[i].turn, log[i].count, "real")
    BY <2>1
  <2>3. Len(log) \in Nat /\ log \in Seq(Event) /\ m \in 0..Len(log)
    BY <2>1, ReadsAre DEF TypeOK
  <2>4. i \in 1..Len(log) /\ i \in Nat /\ i <= Len(log)
    BY <2>2, <2>3
  <2>5. log[i] \in Event
    BY <2>3, <2>4
  <2>6. PICK t, n : t = log[i].turn /\ n = log[i].count
    OBVIOUS
  <2>7. t \in Turns /\ n \in Nat /\ "real" \in Statuses
    BY <2>2, <2>5, <2>6, DiffTypes DEF Statuses
  <2>8. n <= i
    BY <2>2, <2>4, <2>6 DEF HistoryOK
  <2>9. n <= Len(log) + 1
    BY <2>3, <2>4, <2>7, <2>8
  <2> QED
    BY <1>5, <2>2, <2>6, <2>7, <2>9
<1>9. CASE Revert
  <2>1. PICK m \in Since(FromReactor) : \E n \in Counts(past[m]) :
            Record([kind |-> "reverted", count |-> n]) /\ begun' = begun
    BY <1>9 DEF Revert
  <2>2. PICK n \in Counts(past[m]) :
            Record([kind |-> "reverted", count |-> n]) /\ begun' = begun
    BY <2>1
  <2>3. n \in Nat
    BY <2>1, <2>2, ReadsAre, CountsRead
  <2>4. Numbered([kind |-> "reverted", count |-> n])
    BY DEF Numbered
  <2> QED
    BY <1>0, <1>1, <2>2, <2>3, <2>4, EventTypes
<1> QED
  BY <1>2, <1>3, <1>4, <1>6, <1>7, <1>8, <1>9 DEF Commit

(* What the projection of a new event makes of the bounds of the tables.   *)
LEMMA ProjectedBounds ==
    ASSUME NEW r \in TableRows, NEW n \in Nat, r.users \subseteq 1..n,
           Shown(r.text) \subseteq UpTo(n), \A t \in Turns : r.count[t] <= n,
           CountsDiffer(r.count),
           NEW e \in Event, NEW i \in Nat, i = n + 1,
           e.kind = "diff" => e.count <= i
    PROVE  LET next == ProjectRows(r, e, i) IN
           /\ next.users \subseteq 1..i /\ Shown(next.text) \subseteq UpTo(i)
           /\ \A t \in Turns : next.count[t] <= i
           /\ CountsDiffer(next.count)
<1>0. r.count \in [Turns -> Nat]
  BY DEF TableRows
<1>1. Shown(ProjectRows(r, e, i).text) \subseteq UpTo(i)
  <2>1. Shown(ProjectRows(r, e, i).text) \subseteq Shown(r.text) \cup [at : {i}, turn : Turns]
    BY ProjectedShows
  <2>2. 1..n \subseteq 1..i /\ i \in 1..i
    OBVIOUS
  <2>3. UpTo(n) \subseteq UpTo(i) /\ [at : {i}, turn : Turns] \subseteq UpTo(i)
    BY <2>2 DEF UpTo
  <2> QED
    BY <2>1, <2>3
<1>2. ProjectRows(r, e, i).users \subseteq 1..i
  <2>1. CASE e.kind = "user"
    <3>1. ProjectRows(r, e, i).users = r.users \cup {i}
      BY <2>1 DEF ProjectRows, TableRows
    <3> QED
      BY <3>1
  <2>2. CASE e.kind \in {"started", "delta", "diff"}
    <3>1. ProjectRows(r, e, i).users = r.users
      BY <2>2 DEF ProjectRows, RowsCaptured, TableRows
    <3> QED
      BY <3>1
  <2>3. CASE e.kind = "reverted"
    <3>0. e.count \in Nat
      BY <2>3 DEF Event
    <3>1. ProjectRows(r, e, i).users = UsersRetained(r, RetainedTurns(r, e.count), e.count)
      BY <2>3 DEF ProjectRows, RowsReverted
    <3>2. ProjectRows(r, e, i).users \subseteq r.users
      BY <3>0, <3>1, UsersRetainedAre
    <3> QED
      BY <3>2
  <2> QED
    BY <2>1, <2>2, <2>3 DEF Event
<1>3. /\ \A t \in Turns : ProjectRows(r, e, i).count[t] <= i
      /\ CountsDiffer(ProjectRows(r, e, i).count)
  <2>1. CASE e.kind \in {"user", "started", "delta"}
    <3>1. ProjectRows(r, e, i).count = r.count
      BY <2>1 DEF ProjectRows, TableRows
    <3> QED
      BY <1>0, <3>1
  <2>2. CASE e.kind = "diff"
    <3>1. e.turn \in Turns /\ e.count \in Nat
      BY <2>2, DiffTypes
    <3>2. \A t \in Turns : ProjectRows(r, e, i).count[t] =
                               IF t = e.turn THEN e.count
                               ELSE IF r.count[t] = e.count THEN 0 ELSE r.count[t]
      BY <1>0, <2>2, <3>1 DEF ProjectRows, RowsCaptured, TableRows
    <3>3. \A t \in Turns : ProjectRows(r, e, i).count[t] <= i
      BY <1>0, <2>2, <3>1, <3>2
    <3>4. CountsDiffer(ProjectRows(r, e, i).count)
      BY <3>2 DEF CountsDiffer
    <3> QED
      BY <3>3, <3>4
  <2>3. CASE e.kind = "reverted"
    <3>1. ProjectRows(r, e, i).count = RetainedCounts(r, RetainedTurns(r, e.count))
      BY <2>3 DEF ProjectRows, RowsReverted
    <3>2. \A t \in Turns : ProjectRows(r, e, i).count[t] =
                               IF t \in RetainedTurns(r, e.count) THEN r.count[t] ELSE 0
      BY <3>1 DEF RetainedCounts
    <3>3. \A t \in Turns : ProjectRows(r, e, i).count[t] <= i
      BY <1>0, <3>2
    <3>4. CountsDiffer(ProjectRows(r, e, i).count)
      BY <3>2 DEF CountsDiffer
    <3> QED
      BY <3>3, <3>4
  <2> QED
    BY <2>1, <2>2, <2>3 DEF Event
<1> QED
  BY <1>1, <1>2, <1>3

LEMMA CommitExtends ==
    ASSUME NEW h, IInv(h), NEW e, Committed(e)
    PROVE  \E g : /\ (TypeOK /\ IsHistory(g) /\ HistoryOK(g))'
                  /\ \A n \in 0..Len(log) : g[n] = h[n]
<1> DEFINE N == Len(log)
<1>1. /\ TypeOK /\ IsHistory(h) /\ HistoryOK(h)
      /\ e \in Event /\ Numbered(e)
      /\ log' = log \o <<e>> /\ rows' = ProjectRows(rows, e, N + 1)
      /\ past' = [n \in 0..N + 1 |-> IF n = N + 1 THEN rows' ELSE past[n]] /\ past = h
  BY DEF IInv, IsHistory, Committed
<1>2. N \in Nat /\ log \in Seq(Event)
  BY <1>1 DEF TypeOK
<1>3. PICK k \in Nat : k = Len(log) + 1
  BY <1>2
<1>4. /\ log' \in Seq(Event) /\ Len(log') = k /\ log'[k] = e
      /\ \A n \in 1..N : log'[n] = log[n]
      /\ k \in Nat /\ k - 1 = N /\ N \in 0..N /\ N + 1 = k
  BY <1>1, <1>2, <1>3
<1>5. /\ rows \in TableRows /\ rows = h[N] /\ rows.users \subseteq 1..N
      /\ CountsDiffer(rows.count) /\ Shown(rows.text) \subseteq UpTo(N)
      /\ \A t \in Turns : rows.count[t] <= N
  <2>1. N \in 0..N /\ rows = h[N]
    BY <1>1, <1>2 DEF IsHistory
  <2>2. \A t \in Turns : rows.count[t] <= N
    BY <1>1, <2>1 DEF HistoryOK
  <2> QED
    BY <1>1, <2>1, <2>2, Moment
<1>6. PICK next : next = ProjectRows(rows, e, k)
  OBVIOUS
<1>7. next \in TableRows
  BY <1>1, <1>2, <1>4, <1>5, <1>6, ProjectedTypes
<1>8. /\ next.users \subseteq 1..k /\ Shown(next.text) \subseteq UpTo(k)
      /\ \A t \in Turns : next.count[t] <= k
      /\ CountsDiffer(next.count)
  <2>1. e.kind = "diff" => e.count <= k
    BY <1>1, <1>3 DEF Numbered
  <2>2. PICK n \in Nat : n = N
    BY <1>2
  <2>3. rows \in TableRows /\ e \in Event /\ k = n + 1
    BY <1>1, <1>3, <1>5, <2>2
  <2>4. /\ rows.users \subseteq 1..n /\ Shown(rows.text) \subseteq UpTo(n)
        /\ \A t \in Turns : rows.count[t] <= n
        /\ CountsDiffer(rows.count)
    BY <1>5, <2>2
  <2> HIDE DEF N
  <2>5. LET made == ProjectRows(rows, e, k) IN
        /\ made.users \subseteq 1..k /\ Shown(made.text) \subseteq UpTo(k)
        /\ \A t \in Turns : made.count[t] <= k
        /\ CountsDiffer(made.count)
    BY <2>1, <2>3, <2>4, ProjectedBounds
  <2> QED
    BY <1>6, <2>5
<1>9. Shown(next.text) \subseteq Shown(rows.text) \cup [at : {k}, turn : Turns]
  BY <1>1, <1>4, <1>5, <1>6, ProjectedShows
<1>10. PICK g : g = [n \in 0..k |-> IF n = k THEN next ELSE h[n]]
  OBVIOUS
<1>11. /\ g[k] = next /\ \A n \in 0..N : g[n] = h[n] /\ n \in 0..k /\ n # k
  BY <1>2, <1>4, <1>10
<1>12. \A n \in 0..k : n = k \/ n \in 0..N
  BY <1>2, <1>4
<1>13. TypeOK'
  <2>0. past' \in [0..k -> TableRows] /\ past' = g
    <3>1. past' = [n \in 0..k |-> IF n = k THEN next ELSE h[n]]
      BY <1>1, <1>3, <1>6
    <3>2. \A n \in 0..N : h[n] \in TableRows
      BY <1>1 DEF IsHistory
    <3>3. \A n \in 0..k : (IF n = k THEN next ELSE h[n]) \in TableRows
      BY <1>7, <1>12, <3>2
    <3> QED
      BY <1>10, <3>1, <3>3
  <2>1. /\ published' \in 0..Len(log') /\ Len(log') <= published' + 1
        /\ rows' \in TableRows
    BY <1>1, <1>2, <1>4, <1>6, <1>7 DEF Committed
  <2> QED
    BY <1>1, <1>4, <2>0, <2>1 DEF TypeOK, Committed
<1>14. IsHistory(g)'
  <2>1. g \in [0..k -> TableRows]
    <3>1. \A n \in 0..N : h[n] \in TableRows
      BY <1>1 DEF IsHistory
    <3> QED
      BY <1>7, <1>10, <1>12, <3>1
  <2>2. g[0] = NoRows
    <3>1. 0 \in 0..N
      BY <1>2
    <3> QED
      BY <1>1, <1>11, <3>1 DEF IsHistory
  <2>3. ASSUME NEW n \in 1..k
        PROVE  g[n] = ProjectRows(g[n - 1], log'[n], n)
    <3>1. CASE n = k
      <4>1. g[n - 1] = rows
        BY <1>4, <1>5, <1>11, <3>1
      <4> QED
        BY <1>4, <1>6, <1>11, <3>1, <4>1
    <3>2. CASE n # k
      <4>1. n \in 1..N /\ n \in 0..N /\ n - 1 \in 0..N
        BY <1>2, <1>4, <3>2
      <4>2. h[n] = ProjectRows(h[n - 1], log[n], n)
        BY <1>1, <4>1 DEF IsHistory
      <4> QED
        BY <1>4, <1>11, <4>1, <4>2
    <3> QED
      BY <3>1, <3>2
  <2>4. g[k] = rows'
    BY <1>1, <1>4, <1>6, <1>11
  <2>5. past' = g
    BY <1>1, <1>3, <1>6, <1>10
  <2> QED
    BY <1>4, <2>1, <2>2, <2>3, <2>4, <2>5 DEF IsHistory
<1>15. HistoryOK(g)'
  <2>1. ASSUME NEW n \in 0..k
        PROVE  /\ g[n].users \subseteq 1..n /\ Shown(g[n].text) \subseteq UpTo(n)
               /\ \A t \in Turns : g[n].count[t] <= n
               /\ CountsDiffer(g[n].count)
    <3>1. CASE n = k
      BY <1>8, <1>11, <3>1
    <3>2. CASE n \in 0..N
      <4>1. g[n] = h[n]
        BY <1>11, <3>2
      <4> QED
        BY <1>1, <3>2, <4>1 DEF HistoryOK
    <3> QED
      BY <1>12, <3>1, <3>2
  <2>2. ASSUME NEW m \in 0..k, NEW n \in 0..k, m <= n
        PROVE  Shown(g[n].text) \cap UpTo(m) \subseteq Shown(g[m].text)
    <3>1. CASE m = n
      BY <3>1
    <3>2. CASE m # n
      <4>1. m \in 0..N /\ g[m] = h[m]
        BY <1>2, <1>4, <1>11, <2>2, <3>2
      <4>2. CASE n = k
        <5>1. Shown(g[n].text) \subseteq Shown(h[N].text) \cup [at : {k}, turn : Turns]
          BY <1>5, <1>9, <1>11, <4>2
        <5>2. k \notin 1..m /\ m <= N
          BY <1>2, <1>4, <4>1
        <5>3. [at : {k}, turn : Turns] \cap UpTo(m) = {}
          BY <5>2 DEF UpTo
        <5>4. Shown(h[N].text) \cap UpTo(m) \subseteq Shown(h[m].text)
          BY <1>1, <1>4, <4>1, <5>2 DEF HistoryOK
        <5> QED
          BY <4>1, <5>1, <5>3, <5>4
      <4>3. CASE n \in 0..N
        <5>1. g[n] = h[n]
          BY <1>11, <4>3
        <5> QED
          BY <1>1, <2>2, <4>1, <4>3, <5>1 DEF HistoryOK
      <4> QED
        BY <1>12, <4>2, <4>3
    <3> QED
      BY <3>1, <3>2
  <2>3. ASSUME NEW n \in 1..k, log'[n].kind = "diff"
        PROVE  log'[n].count <= n
    <3>1. CASE n = k
      BY <1>1, <1>3, <1>4, <2>3, <3>1 DEF Numbered
    <3>2. CASE n # k
      <4>1. n \in 1..N
        BY <1>2, <1>4, <3>2
      <4> QED
        BY <1>1, <1>4, <2>3, <4>1 DEF HistoryOK
    <3> QED
      BY <3>1, <3>2
  <2> QED
    BY <1>4, <2>1, <2>2, <2>3 DEF HistoryOK
<1> QED
  BY <1>11, <1>13, <1>14, <1>15

(* What was contested stays so while the log and its history only grow.    *)
LEMMA SameContest ==
    ASSUME NEW n \in Nat, startedAt \in Nat, startedAt' = startedAt,
           \A i \in 1..n : log'[i] = log[i] /\ past'[i - 1] = past[i - 1]
    PROVE  /\ \A t \in Turns : Contested(t, n)' <=> Contested(t, n)
           /\ Uncut(n)' = Uncut(n)
<1>1. PICK b \in Nat : b = startedAt + 1 /\ b = startedAt' + 1
  OBVIOUS
<1>2. ASSUME NEW i \in 1..n, NEW t \in Turns
      PROVE  /\ TakesAway(i, t)' <=> TakesAway(i, t)
             /\ Recaptures(i, t)' <=> Recaptures(i, t)
  BY DEF TakesAway, Recaptures
<1>3. ASSUME NEW m \in Nat, m <= n, NEW t \in Turns
      PROVE  Contested(t, m)' <=> Contested(t, m)
  <2>1. /\ Contested(t, m) <=>
               \E i \in b..m : TakesAway(i, t) /\ \A j \in i + 1 .. m : ~Recaptures(j, t)
        /\ Contested(t, m)' <=>
               \E i \in b..m : TakesAway(i, t)' /\ \A j \in i + 1 .. m : ~Recaptures(j, t)'
    BY <1>1 DEF Contested
  <2>2. ASSUME NEW i \in b..m
        PROVE  /\ TakesAway(i, t)' <=> TakesAway(i, t)
               /\ \A j \in i + 1 .. m : Recaptures(j, t)' <=> Recaptures(j, t)
    <3>1. i \in 1..n /\ \A j \in i + 1 .. m : j \in 1..n
      BY <1>1, <1>3
    <3> QED
      BY <1>2, <3>1
  <2> QED
    BY <2>1, <2>2
<1>4. Uncut(n)' = Uncut(n)
  <2>1. /\ Uncut(n) = {t \in Turns : \A i \in b..n :
                           log[i].kind = "reverted" => ~Contested(t, i - 1)}
        /\ Uncut(n)' = {t \in Turns : \A i \in b..n :
                           log'[i].kind = "reverted" => ~Contested(t, i - 1)'}
    BY <1>1 DEF Uncut
  <2>2. ASSUME NEW t \in Turns, NEW i \in b..n
        PROVE  log'[i] = log[i] /\ (Contested(t, i - 1)' <=> Contested(t, i - 1))
    <3>1. i \in 1..n /\ i - 1 \in Nat /\ i - 1 <= n
      BY <1>1
    <3>2. PICK m \in Nat : m = i - 1
      BY <3>1
    <3> QED
      BY <1>3, <3>1, <3>2
  <2> QED
    BY <2>1, <2>2
<1> QED
  BY <1>3, <1>4

(* What a thread shows it shows of a longer history.                       *)
LEMMA SameShows ==
    ASSUME NEW h, NEW g, NEW n \in Nat, g[n] = h[n], Shows(h, n),
           startedAt \in Nat, startedAt' = startedAt, readAt' = readAt,
           store' = store, thread' = thread,
           \A i \in 1..n : log'[i] = log[i] /\ past'[i - 1] = past[i - 1]
    PROVE  Shows(g, n)'
<1>1. /\ \A t \in Turns : Contested(t, n)' <=> Contested(t, n)
      /\ Uncut(n)' = Uncut(n)
  BY SameContest
<1> QED
  BY <1>1 DEF Shows, ShownBy

(* A commit changes nothing of what the client was sent.                   *)
LEMMA CommitKeeps ==
    ASSUME NEW h, IInv(h), NEW e, Committed(e), NEW g,
           (TypeOK /\ IsHistory(g) /\ HistoryOK(g))',
           \A n \in 0..Len(log) : g[n] = h[n]
    PROVE  (WireOK /\ LoadingOK(g) /\ ThreadOK(g))'
<1>1. /\ TypeOK /\ WireOK /\ LoadingOK(h) /\ ThreadOK(h) /\ HistoryOK(h)
      /\ phase' = phase /\ loading' = loading /\ cursor' = cursor /\ wire' = wire
      /\ store' = store /\ thread' = thread /\ readAt' = readAt /\ startedAt' = startedAt
      /\ published' = published
  BY DEF IInv, Committed
<1>2. PICK n \in Nat : n = Len(log)
  BY <1>1 DEF TypeOK
<1>3. Len(log') = n + 1
  BY <1>1, <1>2 DEF TypeOK, Committed
<1>4. \A m \in Nat : m <= n => g[m] = h[m]
  BY <1>2
<1>5. ASSUME NEW read, read.at \in Nat, SnapshotOf(h, read)
      PROVE  /\ read.at <= Len(log')
             /\ read.thread.users = g[read.at].users
             /\ read.thread.text = g[read.at].text
             /\ \E c \in read.at..Len(log') :
                    /\ read.thread.count = g[c].count /\ read.thread.real = g[c].real
                    /\ phase = "live" => c <= startedAt + 1
  <2>1. /\ read.at <= n
        /\ read.thread.users = h[read.at].users /\ read.thread.text = h[read.at].text
    BY <1>2, <1>5 DEF SnapshotOf
  <2>2. PICK c \in read.at..n :
            /\ read.thread.count = h[c].count /\ read.thread.real = h[c].real
            /\ phase = "live" => c <= startedAt + 1
    BY <1>2, <1>5 DEF SnapshotOf
  <2>3. c \in Nat /\ c <= n /\ c \in read.at..n + 1
    BY <1>5, <2>2
  <2>4. g[c] = h[c] /\ g[read.at] = h[read.at]
    BY <1>4, <1>5, <2>1, <2>3
  <2> QED
    BY <1>2, <1>3, <1>5, <2>1, <2>2, <2>3, <2>4
<1>6. WireOK'
  BY <1>1 DEF WireOK, Waiting, Delivered
<1>7. LoadingOK(g)'
  <2>1. ShownBy(n + 1)'
    <3>1. Shown(thread.text) \subseteq UpTo(n)
      BY <1>1, <1>2 DEF LoadingOK, ShownBy
    <3>2. 1..n \subseteq 1..n + 1
      OBVIOUS
    <3>3. UpTo(n) \subseteq UpTo(n + 1)
      BY <3>2 DEF UpTo
    <3> QED
      BY <1>1, <3>1, <3>3 DEF ShownBy
  <2>2. loading \in Read /\ loading.at \in Nat
    BY <1>1 DEF TypeOK, Read
  <2>3. phase \in {"checkpoints", "sequence"} =>
            /\ loading.at <= n + 1 /\ loading.at <= n
            /\ loading.thread.users = h[loading.at].users
            /\ loading.thread.text = h[loading.at].text
            /\ ShownBy(loading.at)
    BY <1>1, <1>2, <2>2 DEF LoadingOK
  <2>4. phase \in {"checkpoints", "sequence"} =>
            /\ loading.at <= n + 1
            /\ loading.thread.users = g[loading.at].users
            /\ loading.thread.text = g[loading.at].text
            /\ ShownBy(loading.at)
    BY <1>4, <2>2, <2>3
  <2>5. phase = "sequence" => SnapshotOf(h, loading)
    BY <1>1 DEF LoadingOK
  <2>6. phase \in {"loaded", "live"} /\ Waiting =>
            /\ wire[1].read.at \in Nat
            /\ SnapshotOf(h, wire[1].read) /\ ShownBy(wire[1].read.at)
    <3>1. Waiting => wire[1].read.at \in Nat
      <4> SUFFICES ASSUME Waiting PROVE wire[1].read.at \in Nat
        OBVIOUS
      <4>1. wire[1] \in Item /\ wire[1].kind = "snapshot"
        BY <1>1 DEF TypeOK, Waiting
      <4> QED
        BY <4>1 DEF Item, Read
    <3> QED
      BY <1>1, <3>1 DEF LoadingOK
  <2>7. phase = "sequence" => SnapshotOf(g, loading)'
    BY <1>1, <1>5, <2>2, <2>5 DEF SnapshotOf
  <2>8. phase \in {"loaded", "live"} /\ Waiting =>
            SnapshotOf(g, wire[1].read)' /\ ShownBy(wire[1].read.at)'
    BY <1>1, <1>5, <2>6 DEF SnapshotOf, ShownBy
  <2>9. Waiting' <=> Waiting
    BY <1>1 DEF Waiting
  <2> QED
    BY <1>1, <1>3, <2>1, <2>4, <2>7, <2>8, <2>9 DEF LoadingOK, ShownBy
<1>8. \A i \in 1..n : log'[i] = log[i] /\ past'[i - 1] = past[i - 1]
  <2>1. \A i \in 1..n : i \in 1..Len(log) /\ i - 1 \in 0..n + 1 /\ i - 1 # n + 1
    BY <1>2
  <2>2. log \in Seq(Event) /\ e \in Event /\ log' = log \o <<e>>
    BY <1>1 DEF TypeOK, Committed
  <2>3. past' = [i \in 0..n + 1 |-> IF i = n + 1 THEN rows' ELSE past[i]]
    BY <1>2 DEF Committed
  <2>4. \A i \in 1..n : log'[i] = log[i]
    BY <1>2, <2>2
  <2>5. \A i \in 1..n : past'[i - 1] = past[i - 1]
    BY <2>1, <2>3
  <2> QED
    BY <2>4, <2>5
<1>9. ThreadOK(g)'
  <2>1. (Waiting' <=> Waiting) /\ Delivered' = Delivered /\ (Unbroken' <=> Unbroken)
    BY <1>1 DEF Waiting, Delivered, Unbroken
  <2>2. ASSUME ~Waiting, phase = "loaded" \/ (phase = "live" /\ Delivered = startedAt)
        PROVE  SnapshotOf(g, [thread |-> thread, at |-> readAt])'
    <3>1. SnapshotOf(h, [thread |-> thread, at |-> readAt])
      BY <1>1, <2>2 DEF ThreadOK
    <3>2. [thread |-> thread, at |-> readAt].at \in Nat
      BY <1>1 DEF TypeOK
    <3> QED
      BY <1>1, <1>5, <3>1, <3>2 DEF SnapshotOf
  <2>3. ASSUME phase = "live", ~Waiting, Unbroken,
               NEW m \in Nat, m = Delivered, startedAt < m
        PROVE  Shows(g, m)'
    <3>1. Shows(h, m) /\ startedAt \in Nat
      BY <1>1, <2>3 DEF ThreadOK, TypeOK
    <3>2. m <= n
      BY <1>1, <1>2, <2>3 DEF TypeOK, WireOK, Delivered
    <3>3. g[m] = h[m]
      BY <1>4, <3>2
    <3>4. \A i \in 1..m : log'[i] = log[i] /\ past'[i - 1] = past[i - 1]
      <4>1. \A i \in 1..m : i \in 1..n
        BY <3>2
      <4> QED
        BY <1>8, <4>1
    <3> QED
      BY <1>1, <3>1, <3>3, <3>4, SameShows
  <2> QED
    BY <1>1, <2>1, <2>2, <2>3 DEF ThreadOK
<1> QED
  BY <1>6, <1>7, <1>9

-----------------------------------------------------------------------------
(* The steps that leave the log and the tables alone.                      *)

LEMMA EmptyOrNot == \A S : \A s \in Seq(S) : Len(s) \in Nat /\ (s = <<>> <=> Len(s) = 0)
<1> SUFFICES ASSUME NEW S, NEW s \in Seq(S)
             PROVE  Len(s) \in Nat /\ (s = <<>> <=> Len(s) = 0)
  OBVIOUS
<1>1. s # <<>> => Len(s) \in Nat \ {0}
  BY EmptySeq
<1>2. s = <<>> => Len(s) = 0
  OBVIOUS
<1> QED
  BY <1>1, <1>2

LEMMA InitialInvariant == Init => Inv
<1> SUFFICES ASSUME Init PROVE Inv
  OBVIOUS
<1> USE ThreadAssumption
<1>1. /\ log = <<>> /\ published = 0 /\ rows = NoRows /\ begun = 0 /\ phase = "closed"
      /\ loading = NothingRead /\ cursor = 0 /\ wire = <<>> /\ store \in {"web", "shared"}
      /\ thread = NoThread /\ readAt = 0 /\ startedAt = 0 /\ drops = 0
      /\ past = [n \in {0} |-> NoRows]
  BY DEF Init, Stream!Init
<1>2. Len(log) = 0 /\ log \in Seq(Event) /\ wire \in Seq(Item)
  BY <1>1
<1>3. TypeOK
  <2>1. 0..Len(log) = {0}
    BY <1>2
  <2>2. past \in [0..Len(log) -> TableRows]
    BY <1>1, <2>1, NoTypes
  <2> QED
    BY <1>1, <1>2, <2>2, NoTypes DEF TypeOK
<1>4. PICK h : h = [n \in {0} |-> NoRows] /\ past = h
  BY <1>1
<1>5. h[0] = NoRows /\ 0..Len(log) = {0} /\ h \in [0..Len(log) -> TableRows]
  BY <1>2, <1>4, NoTypes
<1>6. IsHistory(h)
  BY <1>1, <1>2, <1>4, <1>5 DEF IsHistory
<1>7. Shown(<<>>) = {}
  BY DEF Shown
<1>8. HistoryOK(h)
  <2>1. NoRows.users = {} /\ NoRows.text = <<>> /\ \A t \in Turns : NoRows.count[t] = 0
    BY DEF NoRows
  <2>2. CountsDiffer(NoRows.count)
    BY <2>1 DEF CountsDiffer
  <2> QED
    BY <1>2, <1>5, <1>7, <2>1, <2>2 DEF HistoryOK
<1>9. WireOK
  BY <1>1, <1>2 DEF WireOK
<1>10. LoadingOK(h)
  BY <1>1, <1>7 DEF LoadingOK, ShownBy, NoThread
<1>11. ThreadOK(h)
  BY <1>1 DEF ThreadOK
<1> QED
  BY <1>3, <1>6, <1>8, <1>9, <1>10, <1>11 DEF Inv, IInv

LEMMA SameServer ==
    ASSUME NEW h, IsHistory(h), HistoryOK(h), UNCHANGED <<log, rows, past>>
    PROVE  (IsHistory(h) /\ HistoryOK(h))'
BY DEF IsHistory, HistoryOK

(* What was read, sent and shown stays as it is.                           *)
LEMMA SameThread ==
    ASSUME NEW h, TypeOK, IsHistory(h), WireOK, LoadingOK(h), ThreadOK(h),
           UNCHANGED <<log, past, phase, loading, store, thread, readAt, startedAt>>,
           Delivered' = Delivered, Waiting' <=> Waiting, Waiting => wire'[1] = wire[1]
    PROVE  LoadingOK(h)' /\ ThreadOK(h)'
<1>1. LoadingOK(h)'
  BY DEF LoadingOK, ShownBy, SnapshotOf
<1>2. ASSUME phase = "live", ~Waiting, Unbroken, NEW m \in Nat, m = Delivered, startedAt < m
      PROVE  Shows(h, m)'
  <2>1. Shows(h, m) /\ startedAt \in Nat
    BY <1>2 DEF ThreadOK, TypeOK
  <2> QED
    BY <2>1, SameShows
<1>3. ThreadOK(h)'
  BY <1>2 DEF ThreadOK, SnapshotOf, Unbroken
<1> QED
  BY <1>1, <1>3

LEMMA PublishKeeps ==
    ASSUME NEW h, IInv(h), Publish
    PROVE  IInv(h)'
<1>1. /\ TypeOK /\ IsHistory(h) /\ HistoryOK(h) /\ WireOK /\ LoadingOK(h) /\ ThreadOK(h)
      /\ published < Len(log) /\ published' = published + 1
      /\ log' = log /\ rows' = rows /\ past' = past /\ begun' = begun
      /\ phase' = phase /\ loading' = loading /\ cursor' = cursor /\ wire' = wire
      /\ store' = store /\ thread' = thread /\ readAt' = readAt
      /\ startedAt' = startedAt /\ drops' = drops
  BY DEF IInv, Publish, Stream!PublishNext, subscription, client
<1>2. TypeOK'
  BY <1>1 DEF TypeOK
<1>3. WireOK'
  BY <1>1 DEF WireOK, Waiting, Delivered, TypeOK
<1>4. Delivered' = Delivered /\ (Waiting' <=> Waiting)
  BY <1>1 DEF Waiting, Delivered
<1>5. LoadingOK(h)' /\ ThreadOK(h)'
  BY <1>1, <1>4, SameThread
<1> QED
  BY <1>1, <1>2, <1>3, <1>5, SameServer DEF IInv

LEMMA SubscribeKeeps ==
    ASSUME NEW h, IInv(h), Subscribe \/ LoadFails
    PROVE  IInv(h)'
<1>1. /\ TypeOK /\ IsHistory(h) /\ HistoryOK(h) /\ WireOK /\ LoadingOK(h) /\ ThreadOK(h)
      /\ log' = log /\ rows' = rows /\ past' = past /\ published' = published /\ begun' = begun
      /\ cursor' = cursor /\ wire' = wire
      /\ store' = store /\ thread' = thread /\ readAt' = readAt
      /\ startedAt' = startedAt /\ drops' = drops
      /\ phase \notin {"loaded", "live"} /\ phase' \in {"messages", "abandoned"}
      /\ loading' \in {loading, NothingRead}
  BY DEF IInv, Subscribe, LoadFails, server, client
<1>2. TypeOK'
  BY <1>1, NoTypes DEF TypeOK
<1>3. wire = <<>>
  BY <1>1 DEF WireOK
<1>4. WireOK'
  BY <1>1, <1>3 DEF WireOK
<1>5. LoadingOK(h)' /\ ThreadOK(h)'
  BY <1>1 DEF LoadingOK, ThreadOK, ShownBy
<1> QED
  BY <1>1, <1>2, <1>4, <1>5, SameServer DEF IInv

LEMMA ReadMessagesKeeps ==
    ASSUME NEW h, IInv(h), ReadMessages
    PROVE  IInv(h)'
<1>1. /\ TypeOK /\ IsHistory(h) /\ HistoryOK(h) /\ WireOK /\ LoadingOK(h) /\ ThreadOK(h)
      /\ log' = log /\ rows' = rows /\ past' = past /\ published' = published /\ begun' = begun
      /\ cursor' = cursor /\ wire' = wire
      /\ store' = store /\ thread' = thread /\ readAt' = readAt
      /\ startedAt' = startedAt /\ drops' = drops
      /\ phase = "messages" /\ phase' = "checkpoints"
      /\ loading' = [thread |-> [NoThread EXCEPT !.users = rows.users, !.text = rows.text],
                     at |-> Len(log)]
  BY DEF IInv, ReadMessages, server, client
<1>2. Len(log) \in Nat /\ rows \in TableRows /\ h[Len(log)] = rows
  BY <1>1 DEF TypeOK, IsHistory
<1>3. /\ loading'.at = Len(log)
      /\ loading'.thread.users = rows.users /\ loading'.thread.text = rows.text
      /\ loading' \in Read
  <2>1. rows.users \in SUBSET Nat /\ rows.text \in Seq(Deltas)
    BY <1>2 DEF TableRows
  <2>2. PICK x : x = [NoThread EXCEPT !.users = rows.users, !.text = rows.text]
    OBVIOUS
  <2>3. x \in Thread /\ x.users = rows.users /\ x.text = rows.text
    <3>1. NoThread \in Thread
      BY NoTypes
    <3> QED
      BY <2>1, <2>2, <3>1 DEF Thread
  <2>4. loading' = [thread |-> x, at |-> Len(log)]
    BY <1>1, <2>2
  <2> QED
    BY <1>2, <2>3, <2>4 DEF Read
<1>4. TypeOK'
  BY <1>1, <1>3 DEF TypeOK
<1>5. wire = <<>>
  BY <1>1 DEF WireOK
<1>6. WireOK'
  BY <1>1, <1>5 DEF WireOK
<1>7. LoadingOK(h)'
  <2>1. ShownBy(Len(log))
    BY <1>1 DEF LoadingOK
  <2> QED
    BY <1>1, <1>2, <1>3, <2>1 DEF LoadingOK, ShownBy
<1>8. ThreadOK(h)'
  BY <1>1 DEF ThreadOK
<1> QED
  BY <1>1, <1>4, <1>6, <1>7, <1>8, SameServer DEF IInv

LEMMA ReadCheckpointsKeeps ==
    ASSUME NEW h, IInv(h), ReadCheckpoints
    PROVE  IInv(h)'
<1>1. /\ TypeOK /\ IsHistory(h) /\ HistoryOK(h) /\ WireOK /\ LoadingOK(h) /\ ThreadOK(h)
      /\ log' = log /\ rows' = rows /\ past' = past /\ published' = published /\ begun' = begun
      /\ cursor' = cursor /\ wire' = wire
      /\ store' = store /\ thread' = thread /\ readAt' = readAt
      /\ startedAt' = startedAt /\ drops' = drops
      /\ phase = "checkpoints" /\ phase' = "sequence"
      /\ loading' = [loading EXCEPT !.thread.count = rows.count, !.thread.real = rows.real]
  BY DEF IInv, ReadCheckpoints, server, client
<1>2. /\ Len(log) \in Nat /\ rows \in TableRows /\ h[Len(log)] = rows
      /\ loading \in Read
  BY <1>1 DEF TypeOK, IsHistory
<1>3. /\ loading'.at = loading.at /\ loading.at \in Nat
      /\ loading'.thread.users = loading.thread.users
      /\ loading'.thread.text = loading.thread.text
      /\ loading'.thread.count = rows.count /\ loading'.thread.real = rows.real
      /\ loading' \in Read
  <2>1. /\ loading.thread \in Thread /\ loading.at \in Nat
        /\ rows.count \in [Turns -> Nat] /\ rows.real \in SUBSET Turns
    BY <1>2 DEF Read, TableRows
  <2>2. PICK x : x = [loading.thread EXCEPT !.count = rows.count, !.real = rows.real]
    OBVIOUS
  <2>3. /\ x \in Thread /\ x.count = rows.count /\ x.real = rows.real
        /\ x.users = loading.thread.users /\ x.text = loading.thread.text
    BY <2>1, <2>2 DEF Thread
  <2>4. loading' = [thread |-> x, at |-> loading.at]
    BY <1>1, <1>2, <2>2 DEF Read
  <2> QED
    BY <2>1, <2>3, <2>4 DEF Read
<1>4. TypeOK'
  BY <1>1, <1>3 DEF TypeOK
<1>5. wire = <<>>
  BY <1>1 DEF WireOK
<1>6. WireOK'
  BY <1>1, <1>5 DEF WireOK
<1>7. LoadingOK(h)'
  <2>1. /\ ShownBy(Len(log)) /\ ShownBy(loading.at) /\ loading.at <= Len(log)
        /\ loading.thread.users = h[loading.at].users
        /\ loading.thread.text = h[loading.at].text
    BY <1>1 DEF LoadingOK
  <2>2. Len(log) \in loading.at..Len(log)
    BY <1>2, <1>3, <2>1
  <2>3. SnapshotOf(h, loading)'
    BY <1>1, <1>2, <1>3, <2>1, <2>2 DEF SnapshotOf
  <2> QED
    BY <1>1, <1>3, <2>1, <2>3 DEF LoadingOK, ShownBy
<1>8. ThreadOK(h)'
  BY <1>1 DEF ThreadOK
<1> QED
  BY <1>1, <1>4, <1>6, <1>7, <1>8, SameServer DEF IInv

LEMMA SendSnapshotKeeps ==
    ASSUME NEW h, IInv(h), SendSnapshot
    PROVE  IInv(h)'
<1>1. /\ TypeOK /\ IsHistory(h) /\ HistoryOK(h) /\ WireOK /\ LoadingOK(h) /\ ThreadOK(h)
      /\ log' = log /\ rows' = rows /\ past' = past /\ published' = published /\ begun' = begun
      /\ cursor' = cursor
      /\ store' = store /\ thread' = thread /\ readAt' = readAt
      /\ startedAt' = startedAt /\ drops' = drops
      /\ phase = "sequence" /\ phase' = "loaded"
      /\ wire' = << [kind |-> "snapshot", read |-> loading] >>
      /\ loading' = NothingRead
  BY DEF IInv, SendSnapshot, server, client
<1>2. /\ loading \in Read /\ wire' \in Seq(Item) /\ Len(wire') = 1
      /\ wire'[1].kind = "snapshot" /\ wire'[1].read = loading
  <2>1. loading \in Read
    BY <1>1 DEF TypeOK
  <2>2. [kind |-> "snapshot", read |-> loading] \in Item
    BY <2>1 DEF Item
  <2> QED
    BY <1>1, <2>1, <2>2
<1>3. TypeOK'
  BY <1>1, <1>2, NoTypes DEF TypeOK
<1>4. Waiting'
  BY <1>1, <1>2 DEF Waiting
<1>5. WireOK'
  <2>1. \A k \in 1..Len(wire') : k = 1
    BY <1>2
  <2>2. \A k \in 2..Len(wire') : FALSE
    BY <1>2
  <2> QED
    BY <1>1, <1>2, <2>1, <2>2 DEF WireOK
<1>6. LoadingOK(h)'
  <2>1. ShownBy(Len(log)) /\ ShownBy(loading.at) /\ SnapshotOf(h, loading)
    BY <1>1 DEF LoadingOK
  <2>2. SnapshotOf(h, wire[1].read)'
    BY <1>1, <1>2, <2>1 DEF SnapshotOf
  <2> QED
    BY <1>1, <1>2, <2>1, <2>2 DEF LoadingOK, ShownBy
<1>7. ThreadOK(h)'
  BY <1>1, <1>4 DEF ThreadOK
<1> QED
  BY <1>1, <1>3, <1>5, <1>6, <1>7, SameServer DEF IInv

LEMMA StartLiveKeeps ==
    ASSUME NEW h, IInv(h), StartLive
    PROVE  IInv(h)'
<1>1. /\ TypeOK /\ IsHistory(h) /\ HistoryOK(h) /\ WireOK /\ LoadingOK(h) /\ ThreadOK(h)
      /\ log' = log /\ rows' = rows /\ past' = past /\ published' = published /\ begun' = begun
      /\ wire' = wire /\ loading' = loading
      /\ store' = store /\ thread' = thread /\ readAt' = readAt /\ drops' = drops
      /\ phase = "loaded" /\ phase' = "live"
      /\ cursor' = published /\ startedAt' = published
  BY DEF IInv, StartLive, server, client
<1>2. /\ Len(log) \in Nat /\ published \in Nat /\ Len(log) <= published + 1
      /\ wire \in Seq(Item) /\ Len(wire) \in Nat
  BY <1>1 DEF TypeOK
<1>3. TypeOK'
  BY <1>1, <1>2 DEF TypeOK
<1>4. Len(wire) <= 1 /\ (wire # <<>> => Len(wire) = 1 /\ Waiting) /\ (Waiting => wire # <<>>)
  <2>1. Len(wire) <= 1
    BY <1>1 DEF WireOK
  <2>2. wire # <<>> => Len(wire) = 1
    <3>1. wire # <<>> => Len(wire) # 0
      BY <1>2, EmptyOrNot
    <3>2. PICK n \in Nat : n = Len(wire)
      BY <1>2
    <3>3. n <= 1
      BY <2>1, <3>2
    <3>4. n # 0 => n = 1
      BY <3>3
    <3> QED
      BY <3>1, <3>2, <3>4
  <2>3. ASSUME wire # <<>> PROVE Waiting
    <3>1. wire[1] \in Item /\ 1 \in 1..Len(wire)
      BY <1>2, <2>2, <2>3
    <3>2. wire[1].kind # "event"
      BY <1>1, <3>1 DEF WireOK
    <3> QED
      BY <2>3, <3>1, <3>2 DEF Waiting, Item
  <2> QED
    BY <2>1, <2>2, <2>3 DEF Waiting
<1>5. Waiting' <=> Waiting
  BY <1>1 DEF Waiting
<1>6. WireOK'
  <2>1. \A k \in 1..Len(wire) : wire[k].kind # "event"
    BY <1>1 DEF WireOK
  <2>2. \A k \in 2..Len(wire) : FALSE
    BY <1>2, <1>4
  <2>3. Waiting => published - Len(wire) + 1 = published
    BY <1>2, <1>4
  <2>4. ~Waiting => published <= published - Len(wire)
    BY <1>2, <1>4
  <2> QED
    BY <1>1, <1>2, <1>5, <2>1, <2>2, <2>3, <2>4 DEF WireOK, Delivered
<1>7. ASSUME NEW read, read.at \in Nat, SnapshotOf(h, read)
      PROVE  /\ read.at <= Len(log)
             /\ read.thread.users = h[read.at].users
             /\ read.thread.text = h[read.at].text
             /\ \E c \in read.at..Len(log) :
                    /\ read.thread.count = h[c].count /\ read.thread.real = h[c].real
                    /\ c <= published + 1
  <2>1. PICK c \in read.at..Len(log) :
            read.thread.count = h[c].count /\ read.thread.real = h[c].real
    BY <1>7 DEF SnapshotOf
  <2>2. c <= published + 1
    BY <1>2, <1>7, <2>1
  <2> QED
    BY <1>7, <2>1, <2>2 DEF SnapshotOf
<1>8. LoadingOK(h)'
  <2>1. ShownBy(Len(log))
    BY <1>1 DEF LoadingOK
  <2>2. ASSUME Waiting
        PROVE  SnapshotOf(h, wire[1].read)' /\ ShownBy(wire[1].read.at)'
    <3>1. SnapshotOf(h, wire[1].read) /\ ShownBy(wire[1].read.at)
      BY <1>1, <2>2 DEF LoadingOK
    <3>2. wire[1] \in Item
      BY <1>2, <1>4, <2>2
    <3>3. wire[1].read.at \in Nat
      BY <2>2, <3>2 DEF Waiting, Item, Read
    <3> QED
      BY <1>1, <1>7, <3>1, <3>3 DEF SnapshotOf, ShownBy
  <2> QED
    BY <1>1, <1>5, <2>1, <2>2 DEF LoadingOK, ShownBy
<1>9. ThreadOK(h)'
  <2>1. ASSUME ~Waiting
        PROVE  SnapshotOf(h, [thread |-> thread, at |-> readAt])'
    <3>1. SnapshotOf(h, [thread |-> thread, at |-> readAt])
      BY <1>1, <2>1 DEF ThreadOK
    <3>2. [thread |-> thread, at |-> readAt].at \in Nat
      BY <1>1 DEF TypeOK
    <3> QED
      BY <1>1, <1>7, <3>1, <3>2 DEF SnapshotOf
  <2>2. ~(startedAt' < Delivered')
    BY <1>1, <1>2 DEF Delivered
  <2> QED
    BY <1>5, <2>1, <2>2 DEF ThreadOK
<1> QED
  BY <1>1, <1>3, <1>6, <1>8, <1>9, SameServer DEF IInv

LEMMA ForwardKeeps ==
    ASSUME NEW h, IInv(h), Forward
    PROVE  IInv(h)'
<1>1. /\ TypeOK /\ IsHistory(h) /\ HistoryOK(h) /\ WireOK /\ LoadingOK(h) /\ ThreadOK(h)
      /\ log' = log /\ rows' = rows /\ past' = past /\ published' = published /\ begun' = begun
      /\ loading' = loading /\ phase' = phase
      /\ store' = store /\ thread' = thread /\ readAt' = readAt
      /\ startedAt' = startedAt /\ drops' = drops
      /\ phase = "live" /\ cursor < published /\ cursor' = cursor + 1
      /\ wire' = Append(wire, [kind |-> "event", sequence |-> cursor + 1])
  BY DEF IInv, Forward, server, client
<1>2. PICK item : item = [kind |-> "event", sequence |-> cursor + 1]
  OBVIOUS
<1>3. PICK n \in Nat : n = Len(wire)
  BY <1>1 DEF TypeOK
<1>4. cursor \in Nat /\ wire \in Seq(Item) /\ item \in Item
  BY <1>1, <1>2 DEF TypeOK, Item
<1>5. /\ wire' \in Seq(Item) /\ Len(wire') = n + 1 /\ wire'[n + 1] = item
      /\ \A k \in 1..n : wire'[k] = wire[k]
  BY <1>1, <1>2, <1>3, <1>4
<1>6. TypeOK'
  BY <1>1, <1>4, <1>5 DEF TypeOK
<1>7. Delivered' = Delivered /\ item.sequence = Delivered + (n + 1) /\ item.kind = "event"
  BY <1>1, <1>2, <1>3, <1>4, <1>5 DEF Delivered
<1>8. /\ Waiting' <=> Waiting
      /\ Waiting => wire'[1] = wire[1]
  <2>1. CASE n = 0
    <3>1. wire = <<>>
      BY <1>3, <1>4, <2>1, EmptyOrNot
    <3>2. wire'[1].kind # "snapshot"
      BY <1>5, <1>7, <2>1
    <3> QED
      BY <3>1, <3>2 DEF Waiting
  <2>2. CASE n # 0
    <3>1. 1 \in 1..n /\ wire # <<>> /\ wire' # <<>>
      BY <1>3, <1>4, <1>5, <2>2
    <3> QED
      BY <1>5, <3>1 DEF Waiting
  <2> QED
    BY <2>1, <2>2
<1>9. WireOK'
  <2>1. ASSUME NEW k \in 1..n + 1, wire'[k].kind = "event"
        PROVE  wire'[k].sequence = Delivered + k
    <3>1. CASE k = n + 1
      BY <1>5, <1>7, <3>1
    <3>2. CASE k # n + 1
      <4>1. k \in 1..n
        BY <3>2
      <4> QED
        BY <1>1, <1>3, <1>5, <2>1, <4>1 DEF WireOK
    <3> QED
      BY <3>1, <3>2
  <2>2. ASSUME NEW k \in 2..n + 1
        PROVE  wire'[k].kind = "event"
    <3>1. CASE k = n + 1
      BY <1>5, <1>7, <3>1
    <3>2. CASE k # n + 1
      <4>1. k \in 1..n /\ k \in 2..n
        BY <3>2
      <4> QED
        BY <1>1, <1>3, <1>5, <4>1 DEF WireOK
    <3> QED
      BY <3>1, <3>2
  <2>3. /\ startedAt <= cursor + 1 /\ cursor + 1 <= published
        /\ Waiting => Delivered + 1 = startedAt
        /\ ~Waiting => startedAt <= Delivered
    BY <1>1 DEF WireOK, TypeOK
  <2> QED
    BY <1>1, <1>5, <1>7, <1>8, <2>1, <2>2, <2>3 DEF WireOK
<1>10. LoadingOK(h)' /\ ThreadOK(h)'
  BY <1>1, <1>7, <1>8, SameThread
<1> QED
  BY <1>1, <1>6, <1>9, <1>10, SameServer DEF IInv

LEMMA CloseKeeps ==
    ASSUME NEW h, IInv(h), Disconnect \/ ServerRestarts
    PROVE  IInv(h)'
<1>1. /\ TypeOK /\ IsHistory(h) /\ HistoryOK(h) /\ WireOK /\ LoadingOK(h) /\ ThreadOK(h)
      /\ log' = log /\ rows' = rows /\ past' = past /\ begun' = begun
      /\ published' \in {published, Len(log)}
      /\ cursor' = 0 /\ store' = store /\ thread' = thread /\ readAt' = 0
      /\ startedAt' = 0 /\ drops' = drops + 1
      /\ phase' = "closed" /\ loading' = NothingRead /\ wire' = <<>>
  BY DEF IInv, Disconnect, ServerRestarts, Close, Stream!Restart, client
<1>2. TypeOK'
  BY <1>1, NoTypes DEF TypeOK
<1>3. WireOK'
  BY <1>1 DEF WireOK
<1>4. LoadingOK(h)' /\ ThreadOK(h)'
  BY <1>1 DEF LoadingOK, ThreadOK, ShownBy
<1> QED
  BY <1>1, <1>2, <1>3, <1>4, SameServer DEF IInv

-----------------------------------------------------------------------------
(* What the client receives.                                               *)

(* The first of what was sent, and the rest.                               *)
LEMMA FirstSent ==
    ASSUME NEW h, IInv(h), Deliver
    PROVE  /\ wire \in Seq(Item) /\ wire # <<>> /\ Len(wire) \in Nat /\ Len(wire) # 0
           /\ Head(wire) = wire[1] /\ Head(wire) \in Item
           /\ wire' \in Seq(Item) /\ Len(wire') = Len(wire) - 1
           /\ \A k \in 1..Len(wire) - 1 : wire'[k] = wire[k + 1]
<1>1. wire \in Seq(Item) /\ wire # <<>> /\ wire' = Tail(wire)
  BY DEF IInv, TypeOK, Deliver
<1>2. Len(wire) \in Nat /\ Len(wire) # 0
  BY <1>1, EmptyOrNot
<1>3. Head(wire) \in Item /\ Tail(wire) \in Seq(Item) /\ Len(Tail(wire)) = Len(wire) - 1
  BY <1>1, HeadTailProperties
<1>4. \A k \in 1..Len(Tail(wire)) : Tail(wire)[k] = wire[k + 1]
  BY <1>1, HeadTailProperties
<1>5. Head(wire) = wire[1]
  BY <1>1
<1> QED
  BY <1>1, <1>2, <1>3, <1>4, <1>5

LEMMA ReceivedInOrder ==
    ASSUME NEW h, IInv(h), Deliver
    PROVE  /\ WireOK' /\ ~Waiting' /\ Delivered' = Delivered + 1
           /\ Waiting <=> Head(wire).kind = "snapshot"
           /\ phase \in {"loaded", "live"}
<1>1. /\ TypeOK /\ WireOK
      /\ cursor' = cursor /\ phase' = phase /\ startedAt' = startedAt
      /\ published' = published
  BY DEF IInv, Deliver, server
<1>2. PICK n \in Nat : n = Len(wire)
  BY FirstSent
<1>3. /\ n # 0 /\ wire # <<>> /\ Head(wire) = wire[1]
      /\ wire' \in Seq(Item) /\ Len(wire') = n - 1
      /\ \A k \in 1..n - 1 : wire'[k] = wire[k + 1]
  BY <1>2, FirstSent
<1>4. cursor \in Nat /\ startedAt \in Nat
  BY <1>1 DEF TypeOK
<1>5. Delivered = cursor - n /\ Delivered' = cursor - (n - 1)
  BY <1>1, <1>2, <1>3 DEF Delivered
<1>6. Delivered \in Int /\ Delivered' = Delivered + 1
  BY <1>4, <1>5
<1>7. phase \in {"loaded", "live"}
  BY <1>1, <1>3 DEF WireOK
<1>8. ASSUME NEW k \in 1..n - 1
      PROVE  wire'[k].kind = "event" /\ wire'[k].sequence = Delivered' + k /\ phase = "live"
  <2>1. k + 1 \in 2..n /\ k + 1 \in 1..n
    OBVIOUS
  <2>2. wire[k + 1].kind = "event"
    BY <1>1, <1>2, <2>1 DEF WireOK
  <2>3. wire[k + 1].sequence = Delivered + (k + 1) /\ phase = "live"
    BY <1>1, <1>2, <2>1, <2>2 DEF WireOK
  <2> QED
    BY <1>3, <1>6, <2>2, <2>3
<1>9. ~Waiting'
  <2>1. CASE n - 1 = 0
    <3>1. wire' = <<>>
      BY <1>3, <2>1, EmptyOrNot
    <3> QED
      BY <3>1 DEF Waiting
  <2>2. CASE n - 1 # 0
    <3>1. 1 \in 1..n - 1
      BY <1>3, <2>2
    <3>2. wire'[1].kind = "event"
      BY <1>8, <3>1
    <3> QED
      BY <3>2 DEF Waiting
  <2> QED
    BY <2>1, <2>2
<1>10. WireOK'
  <2>1. phase = "loaded" => n <= 1
    BY <1>1, <1>2 DEF WireOK
  <2>2. phase = "live" => startedAt <= cursor /\ cursor <= published
    BY <1>1 DEF WireOK
  <2>3. phase = "live" => Delivered + 1 = startedAt \/ startedAt <= Delivered
    BY <1>1 DEF WireOK
  <2>4. phase = "live" => startedAt <= Delivered'
    BY <1>4, <1>6, <2>3
  <2>5. phase = "loaded" => n - 1 <= 1
    BY <2>1
  <2>6. \A k \in 2..n - 1 : wire'[k].kind = "event"
    BY <1>8
  <2> QED
    BY <1>1, <1>3, <1>7, <1>8, <1>9, <2>2, <2>4, <2>5, <2>6 DEF WireOK
<1> QED
  BY <1>3, <1>6, <1>7, <1>9, <1>10 DEF Waiting

(* The snapshot: the thread of a moment the client knew nothing beyond.    *)
LEMMA SnapshotArrives ==
    ASSUME NEW h, IInv(h), Deliver, Head(wire).kind = "snapshot"
    PROVE  /\ IInv(h)'
           /\ Shown(thread.text) \cap Shown(rows.text) \subseteq Shown(thread'.text)
<1>1. /\ TypeOK /\ IsHistory(h) /\ HistoryOK(h) /\ WireOK /\ LoadingOK(h) /\ ThreadOK(h)
      /\ log' = log /\ rows' = rows /\ past' = past /\ published' = published /\ begun' = begun
      /\ phase' = phase /\ loading' = loading /\ cursor' = cursor
      /\ store' = store /\ startedAt' = startedAt /\ drops' = drops
  BY DEF IInv, Deliver, server
<1>2. thread' = Head(wire).read.thread /\ readAt' = Head(wire).read.at
  BY DEF Deliver, ReceiveSnapshot, ReceiveEvent
<1>3. PICK read : read = Head(wire).read
  OBVIOUS
<1>4. /\ read \in Read /\ read = wire[1].read
      /\ thread' = read.thread /\ readAt' = read.at
  <2>1. Head(wire) \in Item /\ Head(wire) = wire[1]
    BY FirstSent
  <2> QED
    BY <1>2, <1>3, <2>1 DEF Item
<1>5. read.thread \in Thread /\ read.at \in Nat
  BY <1>4 DEF Read
<1>6. /\ Waiting /\ phase \in {"loaded", "live"} /\ WireOK' /\ ~Waiting'
      /\ Delivered' = Delivered + 1
  BY ReceivedInOrder
<1>7. /\ SnapshotOf(h, read) /\ ShownBy(read.at)
      /\ phase = "live" => Delivered' = startedAt
  BY <1>1, <1>4, <1>6 DEF LoadingOK, WireOK
<1>8. TypeOK'
  <2>1. wire' \in Seq(Item)
    BY FirstSent
  <2> QED
    BY <1>1, <1>4, <1>5, <2>1 DEF TypeOK
<1>9. PICK m \in 0..Len(log) : m = read.at
  BY <1>1, <1>5, <1>7 DEF SnapshotOf, TypeOK
<1>10. read.thread.text = h[m].text
  BY <1>7, <1>9 DEF SnapshotOf
<1>11. Shown(h[m].text) \subseteq UpTo(m)
  BY <1>1, Moment
<1>12. LoadingOK(h)'
  <2>1. UpTo(m) \subseteq UpTo(Len(log))
    <3>1. 1..m \subseteq 1..Len(log)
      BY <1>1 DEF TypeOK
    <3> QED
      BY <3>1 DEF UpTo
  <2>2. ShownBy(Len(log))'
    BY <1>1, <1>4, <1>10, <1>11, <2>1 DEF ShownBy
  <2>3. phase \notin {"checkpoints", "sequence"}
    BY <1>6
  <2> QED
    BY <1>1, <1>6, <2>2, <2>3 DEF LoadingOK
<1>13. ThreadOK(h)'
  <2>1. SnapshotOf(h, [thread |-> thread, at |-> readAt])'
    BY <1>1, <1>4, <1>7 DEF SnapshotOf
  <2>2. phase = "live" => ~(startedAt < Delivered')
    BY <1>1, <1>7 DEF TypeOK
  <2> QED
    BY <1>1, <2>1, <2>2 DEF ThreadOK
<1>14. Shown(thread.text) \cap Shown(rows.text) \subseteq Shown(thread'.text)
  <2>1. Shown(thread.text) \subseteq UpTo(m)
    BY <1>7, <1>9 DEF ShownBy
  <2>2. Len(log) \in 0..Len(log) /\ m <= Len(log) /\ rows = h[Len(log)]
    BY <1>1 DEF TypeOK, IsHistory
  <2>3. Shown(h[Len(log)].text) \cap UpTo(m) \subseteq Shown(h[m].text)
    BY <1>1, <2>2 DEF HistoryOK
  <2> QED
    BY <1>4, <1>10, <2>1, <2>2, <2>3
<1> QED
  BY <1>1, <1>6, <1>8, <1>12, <1>13, <1>14, SameServer DEF IInv

(* An event is folded into the thread as into the tables, be the thread    *)
(* like the tables before the event or, at the seam, those after it.       *)
LEMMA FoldedAlike ==
    ASSUME NEW st \in {"web", "shared"}, NEW x \in Thread, NEW r \in TableRows,
           NEW e \in Event, NEW n \in Nat, r.users \subseteq 1..n, CountsDiffer(r.count),
           NEW i \in Nat, i = n + 1, NEW seam, NEW V, NEW U \in SUBSET V,
           NEW p, p = ProjectRows(r, e, i), NEW y, y = ApplyToThread(st, x, e, i),
           e.kind = "reverted" =>
               \A t \in U : t \in RetainedTurns(x, e.count) <=> t \in RetainedTurns(r, e.count),
           \/ /\ LikeText(Of(x.text, V), Of(r.text, V), seam)
              /\ LikeUsers(st, x.users, r.users, n)
           \/ /\ x.text = p.text /\ x.users = p.users /\ x.count = p.count
              /\ i \in seam
    PROVE  /\ LikeText(Of(y.text, U), Of(p.text, U), seam)
           /\ LikeUsers(st, y.users, p.users, i)
<1>1. CASE /\ LikeText(Of(x.text, V), Of(r.text, V), seam)
           /\ LikeUsers(st, x.users, r.users, n)
  <2>1. LikeText(Of(y.text, U), Of(p.text, U), seam)
    BY <1>1, TextsAlike
  <2>2. LikeUsers(st, y.users, p.users, i)
    BY <1>1, UsersAlike
  <2> QED
    BY <2>1, <2>2
<1>2. CASE /\ x.text = p.text /\ x.users = p.users /\ x.count = p.count
           /\ i \in seam
  <2>1. LikeText(y.text, p.text, {i}) /\ LikeUsers(st, y.users, p.users, i)
    BY <1>2, AgainAlike
  <2>2. LikeText(y.text, p.text, seam)
    BY <1>2, <2>1 DEF LikeText
  <2> QED
    BY <2>1, <2>2, LikeOf
<1> QED
  BY <1>1, <1>2

(* The event received is the next of the log, and it is committed.         *)
LEMMA EventReceived ==
    ASSUME NEW h, IInv(h), Deliver, Head(wire).kind = "event"
    PROVE  \E s \in Nat, i \in Nat :
               /\ i = s + 1 /\ s = Delivered /\ i = Delivered'
               /\ s \in 0..Len(log) /\ i \in 0..Len(log) /\ i \in 1..Len(log)
               /\ log[i] \in Event /\ Head(wire).sequence = i
               /\ phase = "live" /\ ~Waiting /\ startedAt <= s
               /\ thread' = ApplyToThread(store, thread, log[i], i)
               /\ readAt' = readAt
               /\ h[i] = ProjectRows(h[s], log[i], i)
<1>1. /\ TypeOK /\ IsHistory(h) /\ WireOK
  BY DEF IInv
<1>2. /\ thread' = ApplyToThread(store, thread, log[Head(wire).sequence], Head(wire).sequence)
      /\ readAt' = readAt
  BY DEF Deliver, ReceiveSnapshot, ReceiveEvent
<1>3. /\ ~Waiting /\ Delivered' = Delivered + 1
  BY ReceivedInOrder
<1>4. /\ Len(wire) \in Nat /\ Len(wire) # 0 /\ Head(wire) = wire[1]
  BY FirstSent
<1>5. 1 \in 1..Len(wire)
  BY <1>4
<1>6. phase = "live" /\ Head(wire).sequence = Delivered + 1
  BY <1>1, <1>4, <1>5 DEF WireOK
<1>7. startedAt <= Delivered /\ cursor <= published
  BY <1>1, <1>3, <1>6 DEF WireOK
<1>8. /\ startedAt \in Nat /\ cursor \in Nat /\ published \in Nat /\ published <= Len(log)
      /\ Len(log) \in Nat /\ log \in Seq(Event)
  BY <1>1 DEF TypeOK
<1>9. PICK s \in Int : s = Delivered
  <2>1. PICK m \in Nat, n \in Nat : m = cursor /\ n = Len(wire)
    BY <1>4, <1>8
  <2>2. m - n \in Int /\ Delivered = m - n
    BY <2>1 DEF Delivered
  <2> QED
    BY <2>2
<1>10. s = cursor - Len(wire) /\ startedAt <= s
  BY <1>7, <1>9 DEF Delivered
<1>11. s \in Nat /\ s + 1 <= Len(log)
  BY <1>4, <1>7, <1>8, <1>10
<1>12. PICK i \in Nat : i = s + 1
  BY <1>11
<1>13. s \in 0..Len(log) /\ i \in 0..Len(log) /\ i \in 1..Len(log) /\ i - 1 = s
  BY <1>8, <1>11, <1>12
<1>14. log[i] \in Event
  BY <1>8, <1>13
<1>15. h[i] = ProjectRows(h[s], log[i], i)
  BY <1>1, <1>13 DEF IsHistory
<1>16. Head(wire).sequence = i /\ Delivered' = i
  BY <1>3, <1>6, <1>9, <1>12
<1> QED
  BY <1>2, <1>3, <1>6, <1>9, <1>10, <1>11, <1>12, <1>13, <1>14, <1>15, <1>16

LEMMA UpToGrows ==
    ASSUME NEW n \in Nat, NEW m \in 0..n
    PROVE  UpTo(m) \subseteq UpTo(n)
<1>1. 1..m \subseteq 1..n
  OBVIOUS
<1> QED
  BY <1>1 DEF UpTo

(* A turn that is not contested after an event was not before, and is not  *)
(* by the event, or the event captures it.                                 *)
LEMMA ContestedBefore ==
    ASSUME NEW s \in Nat, NEW i \in Nat, i = s + 1, startedAt \in Nat, startedAt <= s,
           NEW t \in Turns, ~Contested(t, i)
    PROVE  Recaptures(i, t) \/ (~Contested(t, s) /\ ~TakesAway(i, t))
<1> SUFFICES ASSUME ~Recaptures(i, t) PROVE ~Contested(t, s) /\ ~TakesAway(i, t)
  OBVIOUS
<1>1. ~TakesAway(i, t)
  <2>1. i \in startedAt + 1 .. i /\ \A j \in i + 1 .. i : FALSE
    OBVIOUS
  <2> QED
    BY <2>1 DEF Contested
<1>2. ~Contested(t, s)
  <2> SUFFICES ASSUME Contested(t, s) PROVE FALSE
    OBVIOUS
  <2>1. PICK k \in startedAt + 1 .. s : TakesAway(k, t) /\ \A j \in k + 1 .. s : ~Recaptures(j, t)
    BY DEF Contested
  <2>2. k \in startedAt + 1 .. i
    BY <2>1
  <2>3. \A j \in k + 1 .. i : j = i \/ j \in k + 1 .. s
    BY <2>1
  <2>4. \A j \in k + 1 .. i : ~Recaptures(j, t)
    BY <2>1, <2>3
  <2> QED
    BY <2>1, <2>2, <2>4 DEF Contested
<1> QED
  BY <1>1, <1>2

LEMMA UncutBefore ==
    ASSUME NEW s \in Nat, NEW i \in Nat, i = s + 1, startedAt \in Nat, startedAt <= s
    PROVE  /\ Uncut(i) \in SUBSET Uncut(s)
           /\ log[i].kind = "reverted" => \A t \in Uncut(i) : ~Contested(t, s)
           /\ Uncut(i) \in SUBSET Turns
<1>1. i \in startedAt + 1 .. i /\ i - 1 = s /\ \A j \in startedAt + 1 .. s : j \in startedAt + 1 .. i
  OBVIOUS
<1> QED
  BY <1>1 DEF Uncut

(* Before an event a client to which none was lost is like the tables, or  *)
(* has read them after the event, in part or as a whole.                   *)
LEMMA BeforeEvent ==
    ASSUME NEW h, IInv(h), Unbroken, NEW s \in Nat, NEW i \in Nat, i = s + 1, s = Delivered,
           s \in 0..Len(log), i \in 0..Len(log), phase = "live", ~Waiting, startedAt <= s
    PROVE  /\ Shown(thread.text) \subseteq UpTo(i)
           /\ \/ /\ \/ \A t \in Turns : ~Contested(t, s) => SameCheckpoint(thread, h[s], t)
                    \/ \A t \in Turns : SameCheckpoint(thread, h[i], t)
                 /\ LikeText(Of(thread.text, Uncut(s)), Of(h[s].text, Uncut(s)),
                             startedAt + 1 .. readAt)
                 /\ LikeUsers(store, thread.users, h[s].users, s)
              \/ /\ \A t \in Turns : SameCheckpoint(thread, h[i], t)
                 /\ thread.text = h[i].text /\ thread.users = h[i].users
                 /\ thread.count = h[i].count
                 /\ i \in startedAt + 1 .. readAt
<1>1. /\ TypeOK /\ IsHistory(h) /\ HistoryOK(h) /\ ThreadOK(h)
      /\ readAt \in Nat /\ startedAt \in Nat
  BY DEF IInv, TypeOK
<1>2. s \in 0..i
  OBVIOUS
<1>3. UpTo(s) \subseteq UpTo(i)
  BY <1>2, UpToGrows
<1>4. CASE startedAt < s
  <2>1. Shows(h, s)
    BY <1>1, <1>4 DEF ThreadOK
  <2> QED
    BY <1>3, <2>1 DEF Shows, ShownBy
<1>5. CASE ~(startedAt < s)
  <2>1. startedAt = s
    BY <1>1, <1>5
  <2>2. SnapshotOf(h, [thread |-> thread, at |-> readAt])
    BY <1>1, <2>1 DEF ThreadOK
  <2>3. thread.users = h[readAt].users /\ thread.text = h[readAt].text
    BY <2>2 DEF SnapshotOf
  <2>4. PICK c \in readAt..Len(log) :
            thread.count = h[c].count /\ thread.real = h[c].real /\ c <= startedAt + 1
    BY <2>2 DEF SnapshotOf
  <2>5. startedAt <= readAt
    BY DEF Unbroken
  <2>6. c \in Int /\ s <= readAt /\ readAt <= c /\ c <= i
    BY <1>1, <2>1, <2>4, <2>5
  <2>7. CASE readAt = i
    <3>1. c = i /\ i \in startedAt + 1 .. readAt
      BY <2>1, <2>6, <2>7
    <3>2. Shown(h[i].text) \subseteq UpTo(i)
      BY <1>1, Moment
    <3>3. \A t \in Turns : SameCheckpoint(thread, h[i], t)
      BY <2>4, <3>1 DEF SameCheckpoint
    <3> QED
      BY <2>3, <2>4, <2>7, <3>1, <3>2, <3>3
  <2>8. CASE readAt = s
    <3>1. c = s \/ c = i
      <4>1. c \in Int /\ s <= c /\ c <= i
        BY <2>6, <2>8
      <4> QED
        BY <4>1
    <3>2. \/ \A t \in Turns : SameCheckpoint(thread, h[s], t)
          \/ \A t \in Turns : SameCheckpoint(thread, h[i], t)
      BY <2>4, <3>1 DEF SameCheckpoint
    <3>3. thread.text = h[s].text /\ thread.users = h[s].users
      BY <2>3, <2>8
    <3>4. h[s].users \subseteq 1..s /\ Shown(h[s].text) \subseteq UpTo(s)
      BY <1>1, Moment
    <3>5. LikeText(Of(thread.text, Uncut(s)), Of(h[s].text, Uncut(s)), startedAt + 1 .. readAt)
      BY <3>3 DEF LikeText
    <3>6. LikeUsers(store, thread.users, h[s].users, s)
      BY <3>3, <3>4 DEF LikeUsers
    <3>7. Shown(thread.text) \subseteq UpTo(i)
      BY <1>3, <3>3, <3>4
    <3> QED
      BY <3>2, <3>5, <3>6, <3>7
  <2> QED
    BY <1>1, <2>6, <2>7, <2>8
<1> QED
  BY <1>4, <1>5

(* A revert that the next event is finds the checkpoint of a turn alike,   *)
(* unless it is contested.                                                 *)
LEMMA RetainedAlike ==
    ASSUME NEW h, IInv(h), Deliver, Head(wire).kind = "event", Unbroken,
           NEW s \in Nat, NEW i \in Nat, i = s + 1, s = Delivered,
           s \in 0..Len(log), i \in 0..Len(log), log[i] \in Event, log[i].kind = "reverted",
           phase = "live", ~Waiting, startedAt <= s, h[i] = ProjectRows(h[s], log[i], i),
           NEW t \in Turns, ~Contested(t, s)
    PROVE  t \in RetainedTurns(thread, log[i].count) <=> t \in RetainedTurns(h[s], log[i].count)
<1>1. SameCheckpoint(thread, h[s], t) \/ SameCheckpoint(thread, h[i], t)
  BY BeforeEvent
<1>2. /\ h[s] \in TableRows /\ thread \in Thread /\ store \in {"web", "shared"}
  BY Moment DEF IInv, TypeOK
<1>3. PICK st \in {"web", "shared"}, x \in Thread, r \in TableRows, e \in Event :
          st = store /\ x = thread /\ r = h[s] /\ e = log[i]
  BY <1>2
<1>4. PICK p, y : p = ProjectRows(r, e, i) /\ y = ApplyToThread(st, x, e, i)
  OBVIOUS
<1>5. e.kind = "reverted" /\ (SameCheckpoint(x, r, t) \/ SameCheckpoint(x, p, t))
  BY <1>1, <1>3, <1>4
<1>6. t \in RetainedTurns(x, e.count) <=> t \in RetainedTurns(r, e.count)
  BY <1>4, <1>5, RevertAlike
<1> QED
  BY <1>3, <1>6

(* A client to which no event was lost shows the tables after the event.   *)
LEMMA EventShows ==
    ASSUME NEW h, IInv(h), Deliver, Head(wire).kind = "event", Unbroken,
           NEW i \in Nat, i = Delivered'
    PROVE  Shows(h, i)'
<1>1. /\ TypeOK /\ IsHistory(h) /\ HistoryOK(h) /\ ThreadOK(h)
      /\ store' = store /\ startedAt' = startedAt /\ log' = log /\ past' = past
  BY DEF IInv, Deliver, server
<1>2. PICK s \in Nat :
          /\ i = s + 1 /\ s = Delivered
          /\ s \in 0..Len(log) /\ i \in 0..Len(log)
          /\ log[i] \in Event
          /\ phase = "live" /\ ~Waiting /\ startedAt <= s
          /\ thread' = ApplyToThread(store, thread, log[i], i)
          /\ readAt' = readAt
          /\ h[i] = ProjectRows(h[s], log[i], i)
  BY EventReceived
<1>3. PICK seam, U, V : seam = startedAt + 1 .. readAt /\ U = Uncut(i) /\ V = Uncut(s)
  OBVIOUS
<1>4. /\ h[s] \in TableRows /\ h[s].users \subseteq 1..s /\ CountsDiffer(h[s].count)
  BY <1>1, <1>2, Moment
<1>5. thread \in Thread /\ store \in {"web", "shared"} /\ readAt \in Nat /\ startedAt \in Nat
  BY <1>1 DEF TypeOK
<1>6. /\ U \in SUBSET V /\ U \in SUBSET Turns
      /\ log[i].kind = "reverted" => \A t \in U : ~Contested(t, s)
  BY <1>2, <1>3, <1>5, UncutBefore
<1>7. \A t \in U : log[i].kind = "reverted" =>
          (t \in RetainedTurns(thread, log[i].count) <=> t \in RetainedTurns(h[s], log[i].count))
  BY <1>2, <1>6, RetainedAlike
<1>8. /\ Shown(thread.text) \subseteq UpTo(i)
      /\ \/ /\ \/ \A t \in Turns : ~Contested(t, s) => SameCheckpoint(thread, h[s], t)
               \/ \A t \in Turns : SameCheckpoint(thread, h[i], t)
            /\ LikeText(Of(thread.text, V), Of(h[s].text, V), seam)
            /\ LikeUsers(store, thread.users, h[s].users, s)
         \/ /\ \A t \in Turns : SameCheckpoint(thread, h[i], t)
            /\ thread.text = h[i].text /\ thread.users = h[i].users
            /\ thread.count = h[i].count
            /\ i \in seam
  BY <1>2, <1>3, BeforeEvent
<1>9. PICK st \in {"web", "shared"}, x \in Thread, r \in TableRows, e \in Event :
          st = store /\ x = thread /\ r = h[s] /\ e = log[i]
  BY <1>2, <1>4, <1>5
<1>10. PICK p, y : p = h[i] /\ y = thread'
  OBVIOUS
<1>11. /\ p = ProjectRows(r, e, i) /\ y = ApplyToThread(st, x, e, i)
       /\ r.users \subseteq 1..s /\ CountsDiffer(r.count)
  BY <1>2, <1>4, <1>9, <1>10
<1>12. ASSUME NEW t \in Turns, ~Contested(t, i)
       PROVE  SameCheckpoint(y, p, t)
  <2>1. Recaptures(i, t) \/ (~Contested(t, s) /\ ~TakesAway(i, t))
    BY <1>2, <1>5, <1>12, ContestedBefore
  <2>2. Recaptures(i, t) => Settles(e, t)
    BY <1>9 DEF Recaptures, Settles
  <2>3. Takes(e, r, t) => TakesAway(i, t)
    <3>1. past[i - 1] = r /\ log[i] = e
      BY <1>1, <1>2, <1>9 DEF IsHistory
    <3> QED
      BY <3>1 DEF TakesAway, Takes
  <2>4. (~Contested(t, s) => SameCheckpoint(x, r, t)) \/ SameCheckpoint(x, p, t)
    BY <1>8, <1>9, <1>10
  <2>5. \/ Settles(e, t)
        \/ SameCheckpoint(x, r, t) /\ ~Takes(e, r, t)
        \/ SameCheckpoint(x, p, t)
    BY <2>1, <2>2, <2>3, <2>4
  <2> QED
    BY <1>11, <2>5, CheckpointAlike
<1>13. /\ LikeText(Of(y.text, U), Of(p.text, U), seam)
       /\ LikeUsers(st, y.users, p.users, i)
  <2>1. e.kind = "reverted" =>
            \A t \in U : t \in RetainedTurns(x, e.count) <=> t \in RetainedTurns(r, e.count)
    BY <1>7, <1>9
  <2>2. \/ /\ LikeText(Of(x.text, V), Of(r.text, V), seam)
           /\ LikeUsers(st, x.users, r.users, s)
        \/ /\ x.text = p.text /\ x.users = p.users /\ x.count = p.count
           /\ i \in seam
    BY <1>8, <1>9, <1>10
  <2>3. i = s + 1
    BY <1>2
  <2> QED
    BY <1>6, <1>11, <2>1, <2>2, <2>3, FoldedAlike
<1>14. Shown(thread'.text) \subseteq UpTo(i)
  <2>1. Shown(thread'.text) \subseteq Shown(thread.text) \cup [at : {i}, turn : Turns]
    BY <1>2, <1>5, AppliedShows
  <2>2. i \in 1..i
    BY <1>2
  <2>3. [at : {i}, turn : Turns] \subseteq UpTo(i)
    BY <2>2 DEF UpTo
  <2> QED
    BY <1>8, <2>1, <2>3
<1>15. /\ \A t \in Turns : Contested(t, i)' <=> Contested(t, i)
       /\ Uncut(i)' = Uncut(i)
  BY <1>1, <1>5, SameContest
<1>16. \A t \in Turns : ~Contested(t, i)' => SameCheckpoint(thread', h[i], t)
  BY <1>10, <1>12, <1>15
<1>17. /\ LikeText(Of(thread'.text, Uncut(i)'), Of(h[i].text, Uncut(i)'),
                   startedAt' + 1 .. readAt')
       /\ LikeUsers(store', thread'.users, h[i].users, i)
  BY <1>1, <1>2, <1>3, <1>9, <1>10, <1>13, <1>15
<1> QED
  BY <1>14, <1>16, <1>17 DEF Shows, ShownBy

(* Only a revert takes text away that the tables still hold, of a turn that *)
(* is contested, or from a client to which an event was lost.              *)
LEMMA EventTakes ==
    ASSUME NEW h, IInv(h), Deliver, Head(wire).kind = "event",
           NEW delta \in Shown(thread.text) \cap Shown(rows.text), delta \notin Shown(thread'.text)
    PROVE  /\ log[Head(wire).sequence].kind = "reverted"
           /\ Unbroken => Contested(delta.turn, Head(wire).sequence - 1)
<1>1. /\ TypeOK /\ IsHistory(h) /\ HistoryOK(h)
  BY DEF IInv
<1>2. PICK s \in Nat, i \in Nat :
          /\ i = s + 1 /\ s = Delivered
          /\ s \in 0..Len(log) /\ i \in 0..Len(log)
          /\ log[i] \in Event /\ Head(wire).sequence = i
          /\ phase = "live" /\ ~Waiting /\ startedAt <= s
          /\ thread' = ApplyToThread(store, thread, log[i], i)
          /\ h[i] = ProjectRows(h[s], log[i], i)
  BY EventReceived
<1>3. thread \in Thread /\ store \in {"web", "shared"} /\ thread.text \in Seq(Deltas)
  BY <1>1 DEF TypeOK, Thread
<1>4. log[i].kind = "reverted"
  BY <1>2, <1>3, AppliedShows
<1>5. ASSUME Unbroken, ~Contested(delta.turn, s) PROVE FALSE
  <2>1. Shown(thread.text) \subseteq UpTo(i)
    BY <1>2, <1>5, BeforeEvent
  <2>2. delta \in UpTo(i) /\ delta.turn \in Turns /\ delta.at \in Nat
        /\ delta = [at |-> delta.at, turn |-> delta.turn]
    BY <2>1 DEF UpTo
  <2>3. delta \in Shown(h[i].text)
    <3>1. Len(log) \in 0..Len(log) /\ i <= Len(log) /\ rows = h[Len(log)]
      BY <1>1, <1>2 DEF TypeOK, IsHistory
    <3>2. Shown(h[Len(log)].text) \cap UpTo(i) \subseteq Shown(h[i].text)
      BY <1>1, <1>2, <3>1 DEF HistoryOK
    <3> QED
      BY <2>2, <3>1, <3>2
  <2>4. PICK X, R : X = RetainedTurns(thread, log[i].count) /\ R = RetainedTurns(h[s], log[i].count)
    OBVIOUS
  <2>5. PICK mine, kept : mine = [at : Nat, turn : X] /\ kept = [at : Nat, turn : R]
    OBVIOUS
  <2>6. h[i].text = Select(h[s].text, kept) /\ thread'.text = Select(thread.text, mine)
    BY <1>2, <1>4, <2>4, <2>5
       DEF ProjectRows, RowsReverted, ApplyToThread, ClientReverted, RetainedText
  <2>7. h[s].text \in Seq(Deltas)
    BY <1>1, <1>2, Moment
  <2>8. delta \in kept
    BY <2>3, <2>6, <2>7, ShownOfSelect
  <2>9. delta.turn \in X
    <3>1. delta.turn \in R
      BY <2>5, <2>8
    <3>2. PICK t \in Turns : t = delta.turn
      BY <2>2
    <3>3. t \in RetainedTurns(thread, log[i].count) <=> t \in RetainedTurns(h[s], log[i].count)
      BY <1>2, <1>4, <1>5, <3>2, RetainedAlike
    <3> QED
      BY <2>4, <3>1, <3>2, <3>3
  <2>10. delta \in mine
    BY <2>2, <2>5, <2>9
  <2>11. delta \in Shown(thread'.text)
    BY <1>3, <2>6, <2>10, ShownOfSelect
  <2> QED
    BY <2>11
<1>6. Head(wire).sequence - 1 = s
  BY <1>2
<1> QED
  BY <1>2, <1>4, <1>5, <1>6

LEMMA EventArrives ==
    ASSUME NEW h, IInv(h), Deliver, Head(wire).kind = "event"
    PROVE  IInv(h)'
<1>1. /\ TypeOK /\ IsHistory(h) /\ HistoryOK(h) /\ LoadingOK(h)
      /\ log' = log /\ rows' = rows /\ past' = past /\ published' = published /\ begun' = begun
      /\ phase' = phase /\ loading' = loading /\ cursor' = cursor
      /\ store' = store /\ startedAt' = startedAt /\ drops' = drops
  BY DEF IInv, Deliver, server
<1>2. PICK s \in Nat, i \in Nat :
          /\ i = s + 1 /\ i = Delivered'
          /\ i \in 0..Len(log) /\ i \in 1..Len(log)
          /\ log[i] \in Event /\ Head(wire).sequence = i
          /\ phase = "live" /\ startedAt <= s
          /\ thread' = ApplyToThread(store, thread, log[i], i)
          /\ readAt' = readAt
  BY EventReceived
<1>3. WireOK' /\ ~Waiting' /\ wire' \in Seq(Item)
  BY ReceivedInOrder, FirstSent
<1>4. thread \in Thread /\ store \in {"web", "shared"} /\ startedAt \in Nat
  BY <1>1 DEF TypeOK
<1>5. thread' \in Thread
  BY <1>2, <1>4, AppliedTypes
<1>6. Shown(thread'.text) \subseteq Shown(thread.text) \cup [at : {i}, turn : Turns]
  BY <1>2, <1>4, AppliedShows
<1>7. TypeOK'
  BY <1>1, <1>2, <1>3, <1>5 DEF TypeOK
<1>8. LoadingOK(h)'
  <2>1. [at : {i}, turn : Turns] \subseteq UpTo(Len(log))
    BY <1>2 DEF UpTo
  <2>2. ShownBy(Len(log))'
    BY <1>1, <1>6, <2>1 DEF LoadingOK, ShownBy
  <2>3. phase \notin {"checkpoints", "sequence"}
    BY <1>2
  <2> QED
    BY <1>1, <1>3, <2>2, <2>3 DEF LoadingOK
<1>9. ThreadOK(h)'
  <2>1. phase' = "live" /\ Delivered' # startedAt'
    BY <1>1, <1>2, <1>4
  <2>2. Unbroken' => Unbroken
    BY <1>1, <1>2 DEF Unbroken
  <2>3. ASSUME Unbroken, NEW n \in Nat, n = Delivered' PROVE Shows(h, n)'
    BY <2>3, EventShows
  <2> QED
    BY <2>1, <2>2, <2>3 DEF ThreadOK
<1> QED
  BY <1>1, <1>3, <1>7, <1>8, <1>9, SameServer DEF IInv

-----------------------------------------------------------------------------
(* The theorems.                                                           *)

LEMMA DeliverKeeps ==
    ASSUME NEW h, IInv(h), Deliver
    PROVE  IInv(h)'
<1>1. Head(wire).kind = "snapshot" \/ Head(wire).kind = "event"
  BY DEF Deliver, ReceiveSnapshot, ReceiveEvent
<1> QED
  BY <1>1, SnapshotArrives, EventArrives

LEMMA StutterKeeps ==
    ASSUME NEW h, IInv(h), UNCHANGED vars
    PROVE  IInv(h)'
<1>1. /\ log' = log /\ rows' = rows /\ past' = past /\ published' = published /\ begun' = begun
      /\ phase' = phase /\ loading' = loading /\ cursor' = cursor /\ wire' = wire
      /\ store' = store /\ thread' = thread /\ readAt' = readAt
      /\ startedAt' = startedAt /\ drops' = drops
  BY DEF vars, server, subscription, client
<1>2. (TypeOK /\ WireOK)'
  BY <1>1 DEF IInv, TypeOK, WireOK, Waiting, Delivered
<1>3. (LoadingOK(h) /\ ThreadOK(h))'
  <2>1. Delivered' = Delivered /\ (Waiting' <=> Waiting)
    BY <1>1 DEF Waiting, Delivered
  <2> QED
    BY <1>1, <2>1, SameThread DEF IInv
<1> QED
  BY <1>1, <1>2, <1>3, SameServer DEF IInv

(* Every step keeps the invariant.                                         *)
LEMMA StepKeeps == Inv /\ [Next]_vars => Inv'
<1> SUFFICES ASSUME Inv, [Next]_vars PROVE Inv'
  OBVIOUS
<1>1. PICK h : IInv(h)
  BY DEF Inv
<1>2. CASE Commit
  <2>1. PICK e : Committed(e)
    BY <1>1, <1>2, CommitIs DEF IInv
  <2>2. PICK g : /\ (TypeOK /\ IsHistory(g) /\ HistoryOK(g))'
                 /\ \A n \in 0..Len(log) : g[n] = h[n]
    BY <1>1, <2>1, CommitExtends
  <2>3. (WireOK /\ LoadingOK(g) /\ ThreadOK(g))'
    BY <1>1, <2>1, <2>2, CommitKeeps
  <2>4. IInv(g)'
    BY <2>2, <2>3 DEF IInv
  <2> QED
    BY <2>4 DEF Inv
<1>3. ASSUME ~Commit PROVE IInv(h)'
  <2>1. CASE Publish
    BY <1>1, <2>1, PublishKeeps
  <2>2. CASE Subscribe \/ LoadFails
    BY <1>1, <2>2, SubscribeKeeps
  <2>3. CASE ReadMessages
    BY <1>1, <2>3, ReadMessagesKeeps
  <2>4. CASE ReadCheckpoints
    BY <1>1, <2>4, ReadCheckpointsKeeps
  <2>5. CASE SendSnapshot
    BY <1>1, <2>5, SendSnapshotKeeps
  <2>6. CASE StartLive
    BY <1>1, <2>6, StartLiveKeeps
  <2>7. CASE Forward
    BY <1>1, <2>7, ForwardKeeps
  <2>8. CASE Deliver
    BY <1>1, <2>8, DeliverKeeps
  <2>9. CASE Disconnect \/ ServerRestarts
    BY <1>1, <2>9, CloseKeeps
  <2>10. CASE UNCHANGED vars
    BY <1>1, <2>10, StutterKeeps
  <2> QED
    BY <1>3, <2>1, <2>2, <2>3, <2>4, <2>5, <2>6, <2>7, <2>8, <2>9, <2>10 DEF Next
<1> QED
  BY <1>2, <1>3 DEF Inv

LEMMA Invariance == Spec => []Inv
BY InitialInvariant, StepKeeps, PTL DEF Spec

(* The variables have their types: the log holds events of the thread, at  *)
(* most one of them not yet published, and the tables and what is read,    *)
(* sent and shown hold sets of messages, texts and counts of checkpoints.  *)
THEOREM TypeCorrectness == Spec => []TypeOK
<1>1. Inv => TypeOK
  BY DEF Inv, IInv
<1> QED
  BY <1>1, Invariance, PTL

(* Once everything is delivered, the thread shows the last of the history. *)
LEMMA SettledShows ==
    ASSUME Inv, Settled, Unbroken
    PROVE  LET uncut == Uncut(Len(log)) IN
           /\ \A t \in Turns : ~Contested(t, Len(log)) => SameCheckpoint(thread, rows, t)
           /\ LikeText(Of(thread.text, uncut), Of(rows.text, uncut), startedAt + 1 .. readAt)
           /\ LikeUsers(store, thread.users, rows.users, Len(log))
<1>1. PICK h : IInv(h)
  BY DEF Inv
<1>2. /\ TypeOK /\ IsHistory(h) /\ HistoryOK(h) /\ WireOK /\ ThreadOK(h)
  BY <1>1 DEF IInv
<1>3. PICK n \in Nat : n = Len(log)
  BY <1>2 DEF TypeOK
<1>4. /\ startedAt \in Nat /\ readAt \in Nat /\ rows = h[n] /\ n \in 0..Len(log)
  BY <1>2, <1>3 DEF TypeOK, IsHistory
<1>5. phase = "live" /\ ~Waiting /\ Delivered = n
  <2>1. Len(<<>>) = 0
    OBVIOUS
  <2> QED
    BY <1>3, <2>1 DEF Settled, Waiting, Delivered
<1>6. startedAt <= n
  BY <1>2, <1>5 DEF WireOK
<1>7. CASE startedAt < n
  <2>1. Shows(h, n)
    BY <1>2, <1>5, <1>7 DEF ThreadOK
  <2> QED
    BY <1>3, <1>4, <2>1 DEF Shows
<1>8. CASE startedAt = n
  <2>1. SnapshotOf(h, [thread |-> thread, at |-> readAt])
    BY <1>2, <1>5, <1>8 DEF ThreadOK
  <2>2. /\ thread.users = h[readAt].users /\ thread.text = h[readAt].text
        /\ readAt <= Len(log)
    BY <2>1 DEF SnapshotOf
  <2>3. PICK c \in readAt..Len(log) : thread.count = h[c].count /\ thread.real = h[c].real
    BY <2>1 DEF SnapshotOf
  <2>4. readAt = n
    BY <1>3, <1>4, <1>8, <2>2 DEF Unbroken
  <2>5. c = n
    BY <1>3, <2>3, <2>4
  <2>6. rows.users \subseteq 1..n
    BY <1>2, <1>4, Moment
  <2>7. \A t \in Turns : SameCheckpoint(thread, rows, t)
    BY <1>4, <2>3, <2>5 DEF SameCheckpoint
  <2>8. thread.text = rows.text /\ thread.users = rows.users
    BY <1>4, <2>2, <2>4
  <2> QED
    BY <1>3, <2>6, <2>7, <2>8 DEF LikeText, LikeUsers
<1> QED
  BY <1>4, <1>6, <1>7, <1>8

(* A client to which no event was lost between its snapshot and the hot    *)
(* stream has, once all is delivered, the checkpoints of the tables, but   *)
(* for turns whose checkpoint another turn or a placeholder took in the    *)
(* tables while the client was live - whatever the workers had read when   *)
(* they numbered them; it has the text of the tables, but for a delta that *)
(* was in the snapshot and was carried as well, and that of turns a revert *)
(* found so; the web store has as many messages of users as the tables and *)
(* the shared reducer has all that were sent.                              *)
THEOREM ClientsShowTheTables == Spec => []DiffersOnlyAtSeam
<1>1. ASSUME Inv PROVE DiffersOnlyAtSeam
  <2> SUFFICES ASSUME Settled, Unbroken
               PROVE  LET uncut == Uncut(Len(log))
                          ours == Of(thread.text, uncut)
                          theirs == Of(rows.text, uncut)
                      IN  /\ \A t \in Turns : ~Contested(t, Len(log)) =>
                                 /\ thread.count[t] = rows.count[t]
                                 /\ t \in thread.real <=> t \in rows.real
                          /\ Shown(ours) = Shown(theirs)
                          /\ SeenOnce(ours) = SeenOnce(theirs)
                          /\ store = "web" => Cardinality(thread.users) = Cardinality(rows.users)
                          /\ store = "shared" => rows.users \subseteq thread.users
    BY DEF DiffersOnlyAtSeam
  <2>1. PICK seam, text, held, once :
            /\ seam = startedAt + 1 .. readAt /\ once = [at : Nat \ seam, turn : Turns]
            /\ text = Of(thread.text, Uncut(Len(log))) /\ held = Of(rows.text, Uncut(Len(log)))
    OBVIOUS
  <2>2. /\ \A t \in Turns : ~Contested(t, Len(log)) => SameCheckpoint(thread, rows, t)
        /\ LikeText(text, held, seam)
        /\ LikeUsers(store, thread.users, rows.users, Len(log))
    BY <1>1, <2>1, SettledShows
  <2>3. Shown(text) = Shown(held)
    BY <2>2, AlikeShown
  <2>4. Select(text, once) = Select(held, once)
    <3>1. CASE text = held
      BY <3>1
    <3>2. CASE \E i \in seam : Repeats(text, held, i)
      <4>1. PICK i \in seam : Repeats(text, held, i)
        BY <3>2
      <4>2. \A d \in once : d.at # i
        BY <2>1, <4>1
      <4> QED
        BY <4>1, <4>2, RepeatsSelected
    <3> QED
      BY <2>2, <3>1, <3>2 DEF LikeText
  <2>5. SeenOnce(text) = SeenOnce(held)
    BY <2>1, <2>4 DEF SeenOnce
  <2>6. \A t \in Turns : ~Contested(t, Len(log)) =>
            /\ thread.count[t] = rows.count[t]
            /\ t \in thread.real <=> t \in rows.real
    BY <2>2 DEF SameCheckpoint
  <2>7. /\ store = "web" => Cardinality(thread.users) = Cardinality(rows.users)
        /\ store = "shared" => rows.users \subseteq thread.users
    BY <2>2 DEF LikeUsers
  <2> QED
    BY <2>1, <2>3, <2>5, <2>6, <2>7
<1> QED
  BY <1>1, Invariance, PTL

(* Text that a client shows and the tables still hold does not disappear,  *)
(* but by a revert: of a turn whose checkpoint the tables gave away, or    *)
(* after an event was lost at the seam.                                    *)
THEOREM TextStays == Spec => NothingDisappears
<1> DEFINE item == Head(wire)
           Stays == \A delta \in (Shown(thread.text) \cap Shown(rows.text)) \ Shown(thread'.text) :
                        /\ item.kind = "event" /\ log[item.sequence].kind = "reverted"
                        /\ Unbroken => Contested(delta.turn, item.sequence - 1)
<1>1. ASSUME Inv, [Next]_vars PROVE Stays
  <2>1. PICK h : IInv(h)
    BY <1>1 DEF Inv
  <2>2. CASE Deliver
    <3>1. item.kind = "snapshot" \/ item.kind = "event"
      BY <2>2 DEF Deliver, ReceiveSnapshot, ReceiveEvent
    <3>2. CASE item.kind = "snapshot"
      <4>1. Shown(thread.text) \cap Shown(rows.text) \subseteq Shown(thread'.text)
        BY <2>1, <2>2, <3>2, SnapshotArrives
      <4> QED
        BY <4>1
    <3>3. CASE item.kind = "event"
      BY <2>1, <2>2, <3>3, EventTakes
    <3> QED
      BY <3>1, <3>2, <3>3
  <2>3. CASE ~Deliver
    <3>1. thread' = thread
      <4>1. Commit => thread' = thread
        BY DEF Commit, SendMessage, StartTurn, StreamText, PlacePlaceholder, CaptureCompleted,
               CaptureFromPlaceholder, Capture, Revert, Record, client
      <4>2. ASSUME ~Commit PROVE thread' = thread
        BY <1>1, <2>3, <4>2
           DEF Next, Publish, Subscribe, ReadMessages, ReadCheckpoints, SendSnapshot, LoadFails,
               StartLive, Forward, Disconnect, ServerRestarts, Close, vars, client
      <4> QED
        BY <4>1, <4>2
    <3> QED
      BY <3>1
  <2> QED
    BY <2>2, <2>3
<1>2. Inv /\ [Next]_vars => [Stays]_thread
  BY <1>1
<1> QED
  BY <1>2, Invariance, PTL DEF Spec, NothingDisappears
=============================================================================
