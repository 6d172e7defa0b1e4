--------------------------- MODULE ShellFeedProofs ---------------------------
(***************************************************************************)
(* Theorems about ShellFeed for any threads, commands, disconnects and     *)
(* failures, and for both clients: a row on display never goes back to     *)
(* older content, a snapshot repairs the list, and a settled list is wrong *)
(* only in rows whose decisive event was lost.                             *)
(***************************************************************************)
EXTENDS ShellFeed, SequenceTheorems, WellFoundedInduction, TLAPS

-----------------------------------------------------------------------------
(* Numbers: least elements, bounds, and Max.                               *)

(* A non-empty set of numbers has a least one.                             *)
LEMMA LeastNumber ==
    ASSUME NEW T, T \subseteq Nat, T # {}
    PROVE  \E n \in T : \A m \in T : n <= m
<1> DEFINE Less == OpToRel(<, Nat)
<1>1. Less = {ss \in Nat \X Nat : ss[1] < ss[2]}
  BY DEF OpToRel
<1>2. IsWellFoundedOn(Less, Nat)
  BY NatLessThanWellFounded
<1>3. PICK n \in T : \A m \in T : <<m, n>> \notin Less
  <2> HIDE DEF Less
  <2> QED
    BY <1>2, WFMin
<1>4. \A m \in T : ~(m < n)
  BY <1>1, <1>3
<1> HIDE DEF Less
<1> QED
  BY <1>4

(* Max of a bounded set is its greatest element.                           *)
LEMMA MaxIs ==
    ASSUME NEW S, S \subseteq Nat, S # {}, NEW bound \in Nat, \A x \in S : x <= bound
    PROVE  Max(S) \in S /\ \A x \in S : x <= Max(S)
<1> DEFINE Above == {u \in Nat : \A x \in S : x <= u}
<1>1. PICK u \in Above : \A v \in Above : u <= v
  <2>1. Above \subseteq Nat /\ Above # {}
    OBVIOUS
  <2> HIDE DEF Above
  <2> QED
    BY <2>1, LeastNumber
<1>2. u \in Nat /\ \A x \in S : x \in Nat /\ x <= u
  BY <1>1
<1>3. u \in S
  <2> SUFFICES ASSUME u \notin S PROVE FALSE
    OBVIOUS
  <2>1. \A x \in S : x <= u - 1
    BY <1>2
  <2>2. u - 1 \in Nat
    <3>1. PICK x \in S : TRUE
      OBVIOUS
    <3>2. x \in Nat /\ x <= u - 1
      BY <1>2, <2>1, <3>1
    <3> QED
      BY <1>2, <3>2
  <2>3. u - 1 \in Above
    BY <2>1, <2>2
  <2>4. u <= u - 1
    BY <1>1, <2>3
  <2> QED
    BY <1>2, <2>4
<1>4. \A x \in S : u >= x
  BY <1>2
<1> HIDE DEF Above
<1> QED
  BY <1>2, <1>3, <1>4 DEF Max

(* The stamps of a log are bounded.                                        *)
LEMMA StampsBounded ==
    ASSUME NEW events \in Seq(RowEvent)
    PROVE  \E bound \in Nat : \A i \in 1..Len(events) : events[i].at <= bound
<1> DEFINE Bounded(n) == \E bound \in Nat : \A i \in 1..n : events[i].at <= bound
           Bad == {n \in 0..Len(events) : ~Bounded(n)}
<1>1. \A i \in 1..Len(events) : events[i].at \in Nat
  <2>1. \A i \in 1..Len(events) : events[i] \in RowEvent
    OBVIOUS
  <2> QED
    BY <2>1 DEF RowEvent
<1>2. Len(events) \in Nat /\ Bad \subseteq Nat
  OBVIOUS
<1>3. CASE Bad = {}
  <2>1. Len(events) \in 0..Len(events)
    BY <1>2
  <2>2. Bounded(Len(events))
    BY <1>3, <2>1
  <2> QED
    BY <2>2
<1>4. CASE Bad # {}
  <2>1. PICK n \in Bad : \A m \in Bad : n <= m
    <3> HIDE DEF Bad
    <3> QED
      BY <1>2, <1>4, LeastNumber
  <2>2. n \in 0..Len(events) /\ ~Bounded(n)
    BY <2>1
  <2>3. Bounded(0)
    <3>1. \A i \in 1..0 : events[i].at <= 0
      OBVIOUS
    <3> QED
      BY <3>1
  <2>4. n \in 1..Len(events) /\ n - 1 \in 0..Len(events)
    BY <1>2, <2>2, <2>3
  <2>5. n - 1 \notin Bad
    <3> HIDE DEF Bad
    <3> QED
      BY <2>1, <2>4
  <2>6. PICK bound \in Nat : \A i \in 1..n - 1 : events[i].at <= bound
    BY <2>4, <2>5
  <2>7. n \in Nat /\ events[n].at \in Nat /\ bound + events[n].at \in Nat
    <3> HIDE DEF Bad, Bounded
    <3>1. n \in Nat /\ events[n].at \in Nat
      BY <1>1, <1>2, <2>4
    <3> QED
      BY <2>6, <3>1
  <2>8. \A i \in 1..n : events[i].at <= bound + events[n].at
    <3> HIDE DEF Bad, Bounded
    <3> TAKE i \in 1..n
    <3>1. CASE i = n
      BY <2>7, <3>1
    <3>2. CASE i # n
      <4>1. i \in 1..n - 1 /\ i \in 1..Len(events)
        BY <1>2, <2>4, <2>7, <3>2
      <4>2. events[i].at \in Nat /\ events[i].at <= bound
        BY <1>1, <2>6, <4>1
      <4> QED
        BY <2>7, <4>2
    <3> QED
      BY <3>1, <3>2
  <2>9. Bounded(n)
    BY <2>7, <2>8
  <2> QED
    BY <2>2, <2>9
<1> QED
  BY <1>3, <1>4

-----------------------------------------------------------------------------
(***************************************************************************)
(* Rows.  What the tables hold of a row after n events, in terms of the    *)
(* events on it: the decisive one is the last, or, for a row that is not   *)
(* listed, the last removal.                                               *)
(***************************************************************************)
DecisiveAt(row, n) == IF Row(row, n) # 0 THEN Version(row, n) ELSE ArchivedAt(row, n)

LEMMA LogEvents ==
    ASSUME log \in Seq(RowEvent)
    PROVE  /\ Len(log) \in Nat
           /\ \A i \in 1..Len(log) :
                 /\ log[i] \in RowEvent /\ log[i].row \in Rows /\ log[i].at \in Nat
                 /\ log[i].kind \in {"changed", "archived", "unarchived"}
<1>1. \A i \in 1..Len(log) : log[i] \in RowEvent
  OBVIOUS
<1> QED
  BY <1>1 DEF RowEvent

LEMMA VersionIs ==
    ASSUME NEW row, NEW n \in Nat
    PROVE  /\ Version(row, n) \in Events(row, n) \cup {0}
           /\ \A i \in Events(row, n) : i <= Version(row, n)
           /\ Version(row, n) \in 0..n
<1>1. Events(row, n) \subseteq 1..n
  BY DEF Events
<1>2. Version(row, n) \in Events(row, n) \cup {0}
      /\ \A i \in Events(row, n) \cup {0} : i <= Version(row, n)
  <2>1. Events(row, n) \cup {0} \subseteq Nat /\ \A i \in Events(row, n) \cup {0} : i <= n
    BY <1>1
  <2> QED
    BY <2>1, MaxIs DEF Version
<1> QED
  BY <1>1, <1>2

LEMMA ArchivedAtIs ==
    ASSUME NEW row, NEW n \in Nat
    PROVE  /\ ArchivedAt(row, n) # 0 =>
                 ArchivedAt(row, n) \in Events(row, n) /\ log[ArchivedAt(row, n)].kind = "archived"
           /\ \A i \in Events(row, n) : log[i].kind = "archived" => i <= ArchivedAt(row, n)
           /\ ArchivedAt(row, n) \in 0..n
<1> DEFINE S == {i \in Events(row, n) : log[i].kind = "archived"}
<1>1. S \subseteq Events(row, n) /\ Events(row, n) \subseteq 1..n
  BY DEF Events
<1>2. ArchivedAt(row, n) \in S \cup {0} /\ \A i \in S \cup {0} : i <= ArchivedAt(row, n)
  <2>1. S \cup {0} \subseteq Nat /\ \A i \in S \cup {0} : i <= n
    BY <1>1
  <2>2. ArchivedAt(row, n) = Max(S \cup {0})
    BY DEF ArchivedAt
  <2> HIDE DEF S
  <2> QED
    BY <2>1, <2>2, MaxIs
<1> QED
  BY <1>1, <1>2

LEMMA RowIs ==
    ASSUME NEW row, NEW n \in Nat
    PROVE  /\ Row(row, n) \in {0, Version(row, n)}
           /\ Row(row, n) \in 0..n
           /\ DecisiveAt(row, n) \in 0..n
           /\ DecisiveAt(row, n) # 0 => DecisiveAt(row, n) \in Events(row, n)
           /\ Row(row, n) = 0 /\ DecisiveAt(row, n) # 0 => log[DecisiveAt(row, n)].kind = "archived"
           /\ Row(row, n) = 0 => \A i \in Events(row, n) :
                  DecisiveAt(row, n) # 0 /\ (i > DecisiveAt(row, n) => log[i].kind # "unarchived")
           /\ Row(row, n) # 0 =>
                  /\ DecisiveAt(row, n) = Row(row, n)
                  /\ \A i \in Events(row, n) :
                        i <= Row(row, n) /\ (log[i].kind = "archived" => i < Row(row, n))
<1>1. Row(row, n) \in {0, Version(row, n)}
  BY DEF Row
<1>2. CASE Row(row, n) = 0
  <2>1. (ArchivedAt(row, n) # 0 /\ Archived(row, n)) \/ Version(row, n) = 0
    BY <1>2 DEF Row
  <2>2. DecisiveAt(row, n) = ArchivedAt(row, n)
    BY <1>2 DEF DecisiveAt
  <2>3. Version(row, n) = 0 => Events(row, n) = {}
    <3>1. Events(row, n) \subseteq 1..n
      BY DEF Events
    <3> QED
      BY <3>1, VersionIs
  <2>4. \A i \in Events(row, n) :
           DecisiveAt(row, n) # 0 /\ (i > DecisiveAt(row, n) => log[i].kind # "unarchived")
    BY <2>1, <2>2, <2>3 DEF Archived
  <2> QED
    BY <1>1, <1>2, <2>2, <2>4, ArchivedAtIs
<1>3. CASE Row(row, n) # 0
  <2>1. Row(row, n) = Version(row, n) /\ DecisiveAt(row, n) = Version(row, n)
        /\ ~(ArchivedAt(row, n) # 0 /\ Archived(row, n))
    BY <1>1, <1>3 DEF Row, DecisiveAt
  <2>2. ASSUME NEW i \in Events(row, n), log[i].kind = "archived" PROVE i < Row(row, n)
    <3>1. i <= ArchivedAt(row, n) /\ ArchivedAt(row, n) # 0 /\ i \in 1..n
      BY <2>2, ArchivedAtIs DEF Events
    <3>2. PICK j \in Events(row, n) : j > ArchivedAt(row, n)
      BY <2>1, <3>1 DEF Archived
    <3>3. j \in 1..n /\ j <= Version(row, n)
      BY <3>2, VersionIs DEF Events
    <3> QED
      BY <2>1, <3>1, <3>2, <3>3, ArchivedAtIs, VersionIs
  <2> QED
    BY <1>3, <2>1, <2>2, VersionIs
<1> QED
  BY <1>2, <1>3

(* The row does not change after the event that decides it.                *)
LEMMA DecidedOnce ==
    ASSUME NEW row, NEW n \in Nat, NEW m \in 0..n, DecisiveAt(row, n) <= m
    PROVE  DecisiveAt(row, m) = DecisiveAt(row, n) /\ Row(row, m) = Row(row, n)
<1>1. /\ Events(row, m) \subseteq Events(row, n) /\ Events(row, n) \subseteq 1..n
      /\ \A i \in Events(row, n) : i <= m => i \in Events(row, m)
      /\ m \in Nat
  BY DEF Events
<1>2. CASE Row(row, n) # 0
  <2>1. \A i \in Events(row, n) : i <= m
    <3>1. \A i \in Events(row, n) : i <= Row(row, n) /\ i \in 1..n
      BY <1>1, <1>2, RowIs
    <3>2. Row(row, n) <= m /\ Row(row, n) \in Nat
      BY <1>2, RowIs
    <3> QED
      BY <1>1, <3>1, <3>2
  <2>2. Events(row, m) = Events(row, n)
    BY <1>1, <2>1
  <2> QED
    BY <2>2 DEF Row, DecisiveAt, Version, ArchivedAt, Archived
<1>3. CASE Row(row, n) = 0
  <2>1. CASE DecisiveAt(row, n) = 0
    <3>1. Events(row, n) = {}
      BY <1>3, <2>1, RowIs
    <3>2. Events(row, m) = Events(row, n)
      BY <1>1, <3>1
    <3> QED
      BY <3>2 DEF Row, DecisiveAt, Version, ArchivedAt, Archived
  <2>2. CASE DecisiveAt(row, n) # 0
    <3> DEFINE d == DecisiveAt(row, n)
    <3>1. d = ArchivedAt(row, n) /\ d \in Events(row, n) /\ log[d].kind = "archived"
      BY <1>3, <2>2, ArchivedAtIs DEF DecisiveAt
    <3>2. d \in Events(row, m) /\ \A i \in Events(row, m) : i > d => log[i].kind # "unarchived"
      BY <1>1, <1>3, <3>1, RowIs
    <3>3. ArchivedAt(row, m) = d
      <4>1. d <= ArchivedAt(row, m) /\ ArchivedAt(row, m) \in 0..m
        BY <1>1, <3>1, <3>2, ArchivedAtIs
      <4>2. ArchivedAt(row, m) # 0
        BY <1>1, <3>1, <4>1
      <4>3. ArchivedAt(row, m) <= d
        BY <1>1, <3>1, <4>2, ArchivedAtIs
      <4> QED
        BY <1>1, <3>1, <4>1, <4>3
    <3>4. Row(row, m) = 0
      BY <2>2, <3>2, <3>3 DEF Row, Archived
    <3> QED
      BY <1>3, <3>3, <3>4 DEF DecisiveAt
  <2> QED
    BY <2>1, <2>2
<1> QED
  BY <1>2, <1>3

(* What a longer log says of its beginning.                                *)
LEMMA PrefixRows ==
    ASSUME NEW n \in Nat, \A i \in 1..n : log'[i] = log[i], NEW row
    PROVE  /\ Row(row, n)' = Row(row, n)
           /\ Version(row, n)' = Version(row, n)
           /\ DecisiveAt(row, n)' = DecisiveAt(row, n)
<1>1. Events(row, n)' = Events(row, n)
  BY DEF Events
<1>2. \A i \in Events(row, n) : log'[i] = log[i]
  BY DEF Events
<1>3. ArchivedAt(row, n)' = ArchivedAt(row, n)
  BY <1>1, <1>2 DEF ArchivedAt
<1>4. Archived(row, n)' <=> Archived(row, n)
  BY <1>1, <1>2, <1>3 DEF Archived
<1>5. Version(row, n)' = Version(row, n)
  BY <1>1 DEF Version
<1>6. Row(row, n)' = Row(row, n)
  BY <1>3, <1>4, <1>5 DEF Row
<1> QED
  BY <1>3, <1>5, <1>6 DEF DecisiveAt

LEMMA VersionGrows ==
    ASSUME NEW row, NEW n \in Nat, NEW m \in 0..n
    PROVE  Version(row, m) <= Version(row, n)
<1>1. Events(row, m) \subseteq Events(row, n) /\ m \in Nat
  BY DEF Events
<1> QED
  BY <1>1, VersionIs

-----------------------------------------------------------------------------
(***************************************************************************)
(* The inductive invariant.                                                *)
(***************************************************************************)
(* The events from m to n change rows, or hit each row once: they come     *)
(* from one command.                                                       *)
Clean(m, n) ==
    \A i, j \in m..n : i # j /\ log[i].row = log[j].row => log[i].kind = "changed"

ServerOK == Clean(published + 1, Len(log))

Current(row) == Row(row, Len(log))

SnapshotPending == wire # <<>> /\ wire[1].kind = "snapshot"
IsEvent(i) == wire[i].kind # "snapshot"

(* What is on its way: a snapshot first, then events in order, and an      *)
(* event no later than which nothing was decided carries the row as it is. *)
WireOK ==
    /\ phase \notin {"loaded", "live"} => wire = <<>>
    /\ phase = "loaded" => \A i \in 1..Len(wire) : ~IsEvent(i)
    /\ \A i \in 1..Len(wire) : ~IsEvent(i) => i = 1
    /\ \A i \in 1..Len(wire) : IsEvent(i) =>
          \E n \in 1..cursor, row \in Rows :
              /\ wire[i].sequence = n /\ wire[i].row = row /\ log[n].row = row
              /\ Decisive(row) <= n => wire[i].version = Current(row)
    /\ \A i, j \in 1..Len(wire) :
          IsEvent(i) /\ IsEvent(j) /\ i < j => wire[i].sequence < wire[j].sequence

SnapshotOK ==
    SnapshotPending => \E n \in 0..Len(log) :
        /\ wire[1].sequence = n /\ applied.sequence <= n
        /\ wire[1].rows = Table(n)
        /\ n > 0 => log[n].at <= wire[1].updatedAt
        /\ phase = "loaded" => cursor = n
        /\ phase = "live" => Clean(cursor + 1, n)

AppliedOK ==
    /\ applied.sequence <= Len(log)
    /\ applied.sequence = 0 => \A row \in Rows : shell[row] = 0

(* The versions of a row only go up: those shown, then those on the wire,  *)
(* then the one in the tables.                                             *)
Carries(i, row) ==
    IF wire[i].kind = "snapshot" THEN wire[i].rows[row]
    ELSE IF wire[i].row = row THEN wire[i].version ELSE 0

SeenRow(row) ==
    /\ seen[row] <= Version(row, Len(log))
    /\ shell[row] \in {0, seen[row]}
    /\ \A i \in 1..Len(wire) :
          Carries(i, row) # 0 => Carries(i, row) \in seen[row]..Version(row, Len(log))
    /\ \A i, j \in 1..Len(wire) :
          i < j /\ Carries(i, row) # 0 /\ Carries(j, row) # 0 =>
              Carries(i, row) <= Carries(j, row)

SeenOK == \A row \in Rows : SeenRow(row)

(* A row comes right in one of two ways: its decisive event is on the      *)
(* wire, or what is there leaves it right, once a snapshot before it has   *)
(* arrived.                                                                *)
EventsRight(row) ==
    \A i \in 1..Len(wire) : IsEvent(i) /\ wire[i].row = row => wire[i].version = Current(row)

Underway(row) == \E i \in 1..Len(wire) : IsEvent(i) /\ wire[i].sequence = Decisive(row)

Arrives(row) ==
    /\ EventsRight(row)
    /\ IF SnapshotPending THEN Decisive(row) <= wire[1].sequence ELSE shell[row] = Current(row)

SnapshotCovers(row) ==
    SnapshotPending /\ Decisive(row) <= wire[1].sequence => EventsRight(row)

GuardIsSafe(row) ==
    guarded /\ Decisive(row) \notin lost /\ Decisive(row) <= applied.sequence =>
        shell[row] = Current(row)

Follows(row) ==
    phase \in {"loaded", "live"} /\ Decisive(row) \notin lost /\ Decisive(row) <= cursor =>
        Underway(row) \/ Arrives(row)

RowOK(row) == SnapshotCovers(row) /\ GuardIsSafe(row) /\ Follows(row)

WireInv == TypeOK /\ ServerOK /\ WireOK /\ SnapshotOK /\ AppliedOK

-----------------------------------------------------------------------------
(* Types.                                                                  *)

LEMMA MaxOfTwo ==
    ASSUME NEW a \in Nat, NEW b \in Nat
    PROVE  Max({a, b}) = IF a <= b THEN b ELSE a
<1>1. {a, b} \subseteq Nat /\ {a, b} # {} /\ \A x \in {a, b} : x <= a + b
  OBVIOUS
<1>2. Max({a, b}) \in {a, b} /\ \A x \in {a, b} : x <= Max({a, b})
  BY <1>1, MaxIs
<1> QED
  BY <1>2

(* The stamp of a snapshot is no earlier than the last event's.            *)
LEMMA UpdatedAtIs ==
    ASSUME log \in Seq(RowEvent)
    PROVE  /\ UpdatedAt(Len(log)) \in Nat
           /\ Len(log) > 0 => log[Len(log)].at <= UpdatedAt(Len(log))
<1> DEFINE n == Len(log)
           I == ({Row(row, n) : row \in Rows} \cup {n}) \ {0}
           S == {log[i].at : i \in I} \cup {0}
<1>1. n \in Nat /\ I \subseteq 1..n
  BY LogEvents, RowIs
<1>2. PICK bound \in Nat : \A i \in 1..n : log[i].at <= bound
  BY StampsBounded
<1>3. S \subseteq Nat /\ S # {} /\ \A x \in S : x <= bound
  <2>1. \A i \in I : log[i].at \in Nat /\ log[i].at <= bound
    BY <1>1, <1>2, LogEvents
  <2> HIDE DEF I
  <2> QED
    BY <1>2, <2>1
<1>4. UpdatedAt(n) = Max(S)
  BY DEF UpdatedAt
<1>5. n > 0 => log[n].at \in S
  OBVIOUS
<1> HIDE DEF S
<1> QED
  BY <1>1, <1>3, <1>4, <1>5, MaxIs

LEMMA ItemTypes ==
    ASSUME log \in Seq(RowEvent)
    PROVE  /\ SnapshotItem \in Item
           /\ \A row \in Rows, n \in Nat : UpsertItem(row, n) \in Item /\ RemoveItem(row, n) \in Item
<1>1. Len(log) \in Nat /\ UpdatedAt(Len(log)) \in Nat
  BY UpdatedAtIs
<1>2. \A row \in Rows : Row(row, Len(log)) \in Nat
  BY <1>1, RowIs
<1> QED
  BY <1>1, <1>2 DEF Item, SnapshotItem, UpsertItem, RemoveItem, Table

(* What a commit appends.                                                  *)
LEMMA CommitExtends ==
    ASSUME TypeOK, Commit
    PROVE  /\ log' \in Seq(RowEvent) /\ Len(log) < Len(log')
           /\ \A i \in 1..Len(log) : log'[i] = log[i]
           /\ published = Len(log) /\ Clean(published + 1, Len(log))'
           /\ UNCHANGED <<published, subscription, client, lost, bounds>>
<1>1. PICK batch \in Batches : /\ published = Len(log) /\ batch # <<>> /\ log' = log \o batch
                               /\ UNCHANGED <<published, subscription, client, lost, bounds>>
  BY DEF Commit, Stream!Commit
<1>2. /\ batch \in Seq(RowEvent) /\ log \in Seq(RowEvent)
      /\ \A i, j \in 1..Len(batch) :
            i # j /\ batch[i].row = batch[j].row => batch[i].kind = "changed"
  <2>1. /\ batch \in Seq(RowEvent) /\ log \in Seq(RowEvent)
        /\ \A i, j \in DOMAIN batch :
              i # j /\ batch[i].row = batch[j].row => batch[i].kind = "changed"
    BY ShellAssumption DEF TypeOK
  <2>2. DOMAIN batch = 1..Len(batch)
    BY <2>1
  <2> QED
    BY <2>1, <2>2
<1>3. /\ log' \in Seq(RowEvent) /\ Len(log') = Len(log) + Len(batch)
      /\ \A i \in 1..Len(log) + Len(batch) :
            log'[i] = IF i <= Len(log) THEN log[i] ELSE batch[i - Len(log)]
  BY <1>1, <1>2, ConcatProperties
<1>4. Len(log) \in Nat /\ Len(batch) \in Nat /\ Len(batch) > 0
  BY <1>1, <1>2
<1>5. ASSUME NEW i \in (published + 1)..Len(log'), NEW j \in (published + 1)..Len(log'),
             i # j, log'[i].row = log'[j].row
      PROVE  log'[i].kind = "changed"
  <2>1. /\ i - Len(log) \in 1..Len(batch) /\ j - Len(log) \in 1..Len(batch)
        /\ i - Len(log) # j - Len(log)
    BY <1>1, <1>3, <1>4, <1>5
  <2>2. log'[i] = batch[i - Len(log)] /\ log'[j] = batch[j - Len(log)]
    BY <1>1, <1>3, <1>4, <1>5
  <2> QED
    BY <1>2, <1>5, <2>1, <2>2
<1>6. Clean(published + 1, Len(log))'
  BY <1>1, <1>5 DEF Clean
<1> QED
  BY <1>1, <1>3, <1>4, <1>6

LEMMA InitialTypes == Init => TypeOK
  BY ShellAssumption DEF Init, Stream!Init, TypeOK, NoVersion

LEMMA TypeStep == TypeOK /\ [Next]_vars => TypeOK'
<1> SUFFICES ASSUME TypeOK, [Next]_vars PROVE TypeOK'
  OBVIOUS
<1> USE DEF subscription, client, bounds
<1>0. /\ log \in Seq(RowEvent) /\ Len(log) \in Nat /\ published \in 0..Len(log)
      /\ cursor \in 0..Len(log) /\ wire \in Seq(Item) /\ lost \subseteq 1..Len(log)
  BY DEF TypeOK
<1>1. CASE Commit
  <2>1. /\ log' \in Seq(RowEvent) /\ Len(log') \in Nat /\ Len(log) < Len(log')
        /\ UNCHANGED <<published, phase, cursor, wire, shell, applied, seen, guarded, lost,
                       drops, failures>>
    BY <1>0, <1>1, CommitExtends
  <2>2. 0..Len(log) \subseteq 0..Len(log') /\ 1..Len(log) \subseteq 1..Len(log')
    BY <1>0, <2>1
  <2>3. published' \in 0..Len(log') /\ cursor' \in 0..Len(log') /\ lost' \subseteq 1..Len(log')
    BY <1>0, <2>1, <2>2
  <2> QED
    BY <2>1, <2>3 DEF TypeOK
<1>2. CASE Publish
  BY <1>0, <1>2 DEF Publish, Stream!PublishNext, TypeOK
<1>3. CASE Subscribe
  BY <1>3 DEF Subscribe, TypeOK
<1>4. CASE LoadSnapshot
  <2>1. SnapshotItem \in Item
    BY <1>0, ItemTypes
  <2> QED
    BY <1>0, <1>4, <2>1 DEF LoadSnapshot, TypeOK
<1>5. CASE LoadFails
  BY <1>5 DEF LoadFails, TypeOK
<1>6. CASE StartLive
  BY <1>0, <1>6 DEF StartLive, TypeOK
<1>7. CASE Forward
  <2>1. cursor + 1 \in 1..Len(log) /\ log[cursor + 1].row \in Rows
    BY <1>0, <1>7, LogEvents DEF Forward
  <2>2. wire' \in Seq(Item)
    <3>1. /\ UpsertItem(log[cursor + 1].row, cursor + 1) \in Item
          /\ RemoveItem(log[cursor + 1].row, cursor + 1) \in Item
      BY <1>0, <2>1, ItemTypes
    <3>2. wire' \in {wire, Append(wire, UpsertItem(log[cursor + 1].row, cursor + 1)),
                     Append(wire, RemoveItem(log[cursor + 1].row, cursor + 1))}
      BY <1>7 DEF Forward
    <3>3. \A item \in Item : Append(wire, item) \in Seq(Item)
      BY <1>0
    <3> QED
      BY <1>0, <3>1, <3>2, <3>3
  <2> QED
    BY <1>0, <1>7, <2>1, <2>2 DEF Forward, TypeOK
<1>8. CASE ForwardFails
  BY <1>0, <1>8 DEF ForwardFails, TypeOK
<1>9. CASE Deliver
  <2> DEFINE item == Head(wire)
  <2>1. item \in Item /\ wire' \in Seq(Item)
    BY <1>0, <1>9 DEF Deliver
  <2>2. UNCHANGED <<log, published, phase, cursor, drops, failures>>
    BY <1>9 DEF Deliver
  <2>3. ASSUME NEW rows \in [Rows -> Nat], Show(rows)
        PROVE  shell' \in [Rows -> Nat] /\ seen' \in [Rows -> Nat] /\ guarded' = guarded
    <3>1. \A row \in Rows : Max({seen[row], rows[row]}) \in Nat
      <4> TAKE row \in Rows
      <4>1. seen[row] \in Nat /\ rows[row] \in Nat
        BY <2>3 DEF TypeOK
      <4>2. Max({seen[row], rows[row]}) \in {seen[row], rows[row]}
        BY <4>1, MaxOfTwo
      <4> QED
        BY <4>1, <4>2
    <3> QED
      BY <2>3, <3>1 DEF Show
  <2> HIDE DEF item
  <2>4. CASE ApplySnapshot(item)
    <3>1. item.rows \in [Rows -> Nat] /\ item.sequence \in Nat /\ item.updatedAt \in Nat
      BY <2>1, <2>4 DEF ApplySnapshot, Item
    <3>2. shell' \in [Rows -> Nat] /\ seen' \in [Rows -> Nat] /\ guarded' = guarded
      BY <2>3, <2>4, <3>1 DEF ApplySnapshot
    <3> QED
      BY <1>0, <2>1, <2>2, <2>4, <3>1, <3>2 DEF ApplySnapshot, TypeOK
  <2>5. CASE ApplyEvent(item)
    <3>1. item.row \in Rows /\ item.sequence \in Nat /\ item.version \in Nat
      BY <2>1, <2>5 DEF ApplyEvent, Item
    <3>2. [shell EXCEPT ![item.row] = item.version] \in [Rows -> Nat]
      BY <3>1 DEF TypeOK
    <3>3. shell' \in [Rows -> Nat] /\ seen' \in [Rows -> Nat] /\ guarded' = guarded
      BY <2>3, <2>5, <3>2 DEF ApplyEvent
    <3> QED
      BY <1>0, <2>1, <2>2, <2>5, <3>1, <3>3 DEF ApplyEvent, TypeOK
  <2>6. CASE RefuseItem(item)
    BY <2>1, <2>2, <2>6 DEF RefuseItem, TypeOK
  <2> QED
    BY <1>9, <2>4, <2>5, <2>6 DEF Deliver, item
<1>10. CASE Disconnect \/ ServerRestarts
  <2>1. /\ phase' = "closed" /\ wire' = <<>> /\ drops' = drops + 1
        /\ UNCHANGED <<log, cursor, client, lost, failures>>
        /\ published' \in {published, Len(log)}
    BY <1>10 DEF Disconnect, ServerRestarts, Close, Stream!Restart
  <2> QED
    BY <1>0, <2>1 DEF TypeOK
<1>11. CASE UNCHANGED vars
  BY <1>11 DEF vars, TypeOK
<1> QED
  BY <1>1, <1>2, <1>3, <1>4, <1>5, <1>6, <1>7, <1>8, <1>9, <1>10, <1>11
     DEF Next, Server, Client

-----------------------------------------------------------------------------
(* Rows from one state to the next.                                        *)

LEMMA SameLogSameRows ==
    ASSUME UNCHANGED log, NEW row
    PROVE  /\ \A n : Row(row, n)' = Row(row, n) /\ Version(row, n)' = Version(row, n)
           /\ Decisive(row)' = Decisive(row) /\ Current(row)' = Current(row)
           /\ Version(row, Len(log))' = Version(row, Len(log))
<1>1. \A n : Events(row, n)' = Events(row, n)
  BY DEF Events
<1>2. \A n : Version(row, n)' = Version(row, n)
  BY <1>1 DEF Version
<1>3. \A n : ArchivedAt(row, n)' = ArchivedAt(row, n)
  BY <1>1 DEF ArchivedAt
<1>4. \A n : Archived(row, n)' <=> Archived(row, n)
  BY <1>1, <1>3 DEF Archived
<1>5. \A n : Row(row, n)' = Row(row, n)
  BY <1>2, <1>3, <1>4 DEF Row
<1> QED
  BY <1>2, <1>3, <1>5 DEF Decisive, Current

LEMMA DecidedOnceNext ==
    (\A row : \A n \in Nat : \A m \in 0..n :
        DecisiveAt(row, n) <= m =>
            DecisiveAt(row, m) = DecisiveAt(row, n) /\ Row(row, m) = Row(row, n))'
<1>1. \A row : \A n \in Nat : \A m \in 0..n :
        DecisiveAt(row, n) <= m =>
            DecisiveAt(row, m) = DecisiveAt(row, n) /\ Row(row, m) = Row(row, n)
  BY DecidedOnce
<1> QED
  BY <1>1, PTL

LEMMA VersionGrowsNext ==
    (\A row : \A n \in Nat : \A m \in 0..n : Version(row, m) <= Version(row, n))'
<1>1. \A row : \A n \in Nat : \A m \in 0..n : Version(row, m) <= Version(row, n)
  BY VersionGrows
<1> QED
  BY <1>1, PTL

LEMMA DecisiveNext == (\A row : \A n \in Nat : DecisiveAt(row, n) \in Nat)'
<1>1. \A row : \A n \in Nat : DecisiveAt(row, n) \in Nat
  BY RowIs
<1> QED
  BY <1>1, PTL

LEMMA CommitKeepsRows ==
    ASSUME TypeOK, Commit, NEW row
    PROVE  /\ \A n \in 0..Len(log) : Row(row, n)' = Row(row, n)
           /\ Decisive(row)' <= Len(log) =>
                  Decisive(row)' = Decisive(row) /\ Current(row)' = Current(row)
           /\ Version(row, Len(log)) <= Version(row, Len(log))'
<1>1. /\ Len(log) \in Nat /\ Len(log') \in Nat /\ Len(log) < Len(log')
      /\ \A i \in 1..Len(log) : log'[i] = log[i]
  BY CommitExtends DEF TypeOK
<1>2. \A n \in 0..Len(log) :
         /\ Row(row, n)' = Row(row, n) /\ Version(row, n)' = Version(row, n)
         /\ DecisiveAt(row, n)' = DecisiveAt(row, n)
  <2> TAKE n \in 0..Len(log)
  <2>1. n \in Nat /\ \A i \in 1..n : log'[i] = log[i]
    BY <1>1
  <2> QED
    BY <2>1, PrefixRows
<1>3. PICK m \in Nat : m = Len(log)
  BY <1>1
<1>4. PICK n \in Nat : n = Len(log') /\ m \in 0..n
  BY <1>1, <1>3
<1>5. /\ Decisive(row)' = DecisiveAt(row, n)' /\ Current(row)' = Row(row, n)'
      /\ Version(row, Len(log))' = Version(row, n)'
  BY <1>4 DEF Decisive, DecisiveAt, Current
<1>6. Decisive(row) = DecisiveAt(row, m) /\ Current(row) = Row(row, m)
  BY <1>3 DEF Decisive, DecisiveAt, Current
<1>7. DecisiveAt(row, n)' <= m =>
          DecisiveAt(row, m)' = DecisiveAt(row, n)' /\ Row(row, m)' = Row(row, n)'
  BY <1>4, DecidedOnceNext
<1>8. Version(row, m)' <= Version(row, n)'
  BY <1>4, VersionGrowsNext
<1> QED
  BY <1>1, <1>2, <1>3, <1>5, <1>6, <1>7, <1>8

-----------------------------------------------------------------------------
(* The wire.                                                               *)

LEMMA WireTypes ==
    ASSUME TypeOK
    PROVE  /\ log \in Seq(RowEvent) /\ Len(log) \in Nat /\ published \in 0..Len(log)
           /\ cursor \in 0..Len(log) /\ wire \in Seq(Item) /\ Len(wire) \in Nat
           /\ applied.sequence \in Nat /\ applied.updatedAt \in Nat
           /\ \A i \in 1..Len(wire) :
                 /\ wire[i] \in Item /\ wire[i].sequence \in Nat
                 /\ ~IsEvent(i) => wire[i].rows \in [Rows -> Nat] /\ wire[i].updatedAt \in Nat
                 /\ IsEvent(i) => wire[i].row \in Rows /\ wire[i].version \in Nat
<1>1. \A i \in 1..Len(wire) : wire[i] \in Item
  BY DEF TypeOK
<1> QED
  BY <1>1 DEF TypeOK, Item, IsEvent

(* Steps that leave the log and the wire alone.                            *)
LEMMA SameWire ==
    ASSUME TypeOK, WireOK, UNCHANGED <<log, wire>>, cursor <= cursor', cursor' \in Nat,
           phase' \notin {"loaded", "live"} => wire = <<>>,
           phase' = "loaded" => phase = "loaded"
    PROVE  WireOK'
<1>1. \A i \in 1..Len(wire) : IsEvent(i) => wire[i].sequence \in 1..cursor'
  BY WireTypes DEF WireOK
<1>2. \A row : Decisive(row)' = Decisive(row) /\ Current(row)' = Current(row)
  BY SameLogSameRows
<1> QED
  BY <1>1, <1>2 DEF WireOK, IsEvent

LEMMA NothingOnWire ==
    ASSUME wire' = <<>>
    PROVE  WireOK' /\ SnapshotOK'
<1>1. Len(wire') = 0
  OBVIOUS
<1> QED
  BY <1>1 DEF WireOK, SnapshotOK, SnapshotPending

(* Ranges that start later.                                                *)
LEMMA Later ==
    ASSUME NEW m \in Nat, NEW c \in Nat, m <= c, NEW n \in Nat
    PROVE  \A i \in (c + 1)..n : i \in (m + 1)..n
  OBVIOUS

(* Steps that leave the log, the head of the wire and what is applied.     *)
LEMMA SameSnapshot ==
    ASSUME TypeOK, SnapshotOK, UNCHANGED <<log, applied>>,
           SnapshotPending' => SnapshotPending /\ wire'[1] = wire[1],
           phase' = "loaded" => phase = "loaded" /\ cursor' = cursor,
           NEW m \in Nat, NEW c \in Nat, c = cursor', m <= c,
           phase' = "live" => (phase = "live" /\ m = cursor) \/ Clean(m + 1, Len(log))
    PROVE  SnapshotOK'
<1> SUFFICES ASSUME SnapshotPending, wire'[1] = wire[1] PROVE SnapshotOK'
  BY DEF SnapshotOK
<1>1. PICK n \in 0..Len(log) :
         /\ wire[1].sequence = n /\ applied.sequence <= n
         /\ wire[1].rows = Table(n)
         /\ n > 0 => log[n].at <= wire[1].updatedAt
         /\ phase = "loaded" => cursor = n
         /\ phase = "live" => Clean(cursor + 1, n)
  BY DEF SnapshotOK
<1>2. n \in Nat /\ Len(log) \in Nat /\ \A i \in (m + 1)..n : i \in (m + 1)..Len(log)
  BY WireTypes
<1>3. Table(n)' = Table(n)
  BY SameLogSameRows DEF Table
<1>4. ASSUME phase' = "live" PROVE Clean(cursor + 1, n)'
  <2>1. Clean(m + 1, n)
    BY <1>1, <1>2, <1>4 DEF Clean
  <2>2. \A i \in (c + 1)..n : i \in (m + 1)..n
    BY <1>2, Later
  <2> QED
    BY <2>1, <2>2 DEF Clean
<1> QED
  BY <1>1, <1>3, <1>4 DEF SnapshotOK

LEMMA InitialWire == Init => ServerOK /\ WireOK /\ SnapshotOK /\ AppliedOK
<1> SUFFICES ASSUME Init PROVE ServerOK /\ WireOK /\ SnapshotOK /\ AppliedOK
  OBVIOUS
<1>1. log = <<>> /\ wire = <<>> /\ Len(log) = 0 /\ Len(wire) = 0 /\ published = 0
  BY DEF Init, Stream!Init
<1> QED
  BY <1>1 DEF Init, ServerOK, Clean, WireOK, SnapshotOK, SnapshotPending, AppliedOK, NoVersion

LEMMA CommitKeepsWire ==
    ASSUME WireInv, Commit
    PROVE  ServerOK' /\ WireOK' /\ SnapshotOK' /\ AppliedOK'
<1> USE DEF subscription, client, bounds
<1>1. TypeOK /\ ServerOK /\ WireOK /\ SnapshotOK /\ AppliedOK
  BY DEF WireInv
<1>2. /\ Len(log) \in Nat /\ Len(log') \in Nat /\ Len(log) < Len(log')
      /\ \A i \in 1..Len(log) : log'[i] = log[i]
      /\ UNCHANGED <<published, phase, cursor, wire, shell, applied>>
      /\ cursor \in 0..Len(log) /\ applied.sequence \in Nat
  BY <1>1, CommitExtends, WireTypes DEF TypeOK
<1>3. ServerOK'
  BY <1>1, CommitExtends DEF ServerOK
<1>4. AppliedOK'
  BY <1>1, <1>2 DEF AppliedOK
<1>5. SnapshotOK'
  <2> SUFFICES ASSUME SnapshotPending PROVE SnapshotOK'
    BY <1>2 DEF SnapshotOK, SnapshotPending
  <2>1. PICK n \in 0..Len(log) :
           /\ wire[1].sequence = n /\ applied.sequence <= n
           /\ wire[1].rows = Table(n)
           /\ n > 0 => log[n].at <= wire[1].updatedAt
           /\ phase = "loaded" => cursor = n
           /\ phase = "live" => Clean(cursor + 1, n)
    BY <1>1 DEF SnapshotOK
  <2>2. n \in Nat /\ n \in 0..Len(log')
    BY <1>2
  <2>3. Table(n)' = Table(n)
    BY <1>1, CommitKeepsRows DEF Table
  <2>4. n > 0 => log'[n] = log[n]
    BY <1>2, <2>2
  <2>5. Clean(cursor + 1, n) => Clean(cursor + 1, n)'
    <3>1. \A i \in (cursor + 1)..n : log'[i] = log[i]
      BY <1>2, <2>2
    <3> QED
      BY <1>2, <3>1 DEF Clean
  <2> QED
    BY <1>2, <2>1, <2>2, <2>3, <2>4, <2>5 DEF SnapshotOK
<1>6. WireOK'
  <2>1. ASSUME NEW i \in 1..Len(wire), IsEvent(i)
        PROVE  \E n \in 1..cursor, row \in Rows :
                  /\ wire[i].sequence = n /\ wire[i].row = row /\ log'[n].row = row
                  /\ Decisive(row)' <= n => wire[i].version = Current(row)'
    <3>1. PICK n \in 1..cursor, row \in Rows :
                  /\ wire[i].sequence = n /\ wire[i].row = row /\ log[n].row = row
                  /\ Decisive(row) <= n => wire[i].version = Current(row)
      BY <1>1, <2>1 DEF WireOK
    <3>2. n \in 1..Len(log) /\ log'[n] = log[n]
      BY <1>2
    <3>3. Decisive(row)' <= n =>
              Decisive(row)' = Decisive(row) /\ Current(row)' = Current(row)
      <4>1. Decisive(row)' \in Nat
        BY <1>2, DecisiveNext DEF Decisive, DecisiveAt
      <4> QED
        BY <1>1, <1>2, <3>2, <4>1, CommitKeepsRows
    <3> QED
      BY <3>1, <3>2, <3>3
  <2> QED
    BY <1>1, <1>2, <2>1 DEF WireOK, IsEvent
<1> QED
  BY <1>3, <1>4, <1>5, <1>6

(* The event just forwarded: what is sent of it is the row as it is.       *)
LEMMA ForwardedItem ==
    ASSUME TypeOK, Forward, wire' # wire
    PROVE  \E item \in Item :
              /\ wire' = Append(wire, item) /\ item.kind # "snapshot"
              /\ item.sequence = cursor + 1 /\ item.row = log[cursor + 1].row
              /\ \/ item.version = Current(item.row) /\ item.version # 0
                 \/ item.version = 0 /\ log[cursor + 1].kind = "archived"
              /\ Decisive(item.row) <= cursor + 1 => item.version = Current(item.row)
<1> DEFINE e == log[cursor + 1]
<1>1. /\ Len(log) \in Nat /\ cursor + 1 \in 1..Len(log) /\ e.row \in Rows
      /\ log \in Seq(RowEvent) /\ cursor + 1 \in Nat
  BY WireTypes, LogEvents DEF Forward, TypeOK
<1>2. UpsertItem(e.row, cursor + 1) \in Item /\ RemoveItem(e.row, cursor + 1) \in Item
  BY <1>1, ItemTypes
<1>3. CASE e.kind = "archived"
  <2>1. wire' = Append(wire, RemoveItem(e.row, cursor + 1))
    BY <1>3 DEF Forward
  <2>2. Decisive(e.row) <= cursor + 1 => Current(e.row) = 0
    <3>1. cursor + 1 \in Events(e.row, Len(log))
      BY <1>1 DEF Events
    <3>2. Current(e.row) # 0 => /\ Decisive(e.row) = Current(e.row) /\ Current(e.row) \in Nat
                                /\ cursor + 1 < Current(e.row)
      BY <1>1, <1>3, <3>1, RowIs DEF Decisive, DecisiveAt, Current
    <3> QED
      BY <1>1, <3>2
  <2> QED
    BY <1>2, <1>3, <2>1, <2>2 DEF RemoveItem
<1>4. CASE e.kind # "archived"
  <2>1. wire' = Append(wire, UpsertItem(e.row, cursor + 1)) /\ Current(e.row) # 0
    BY <1>4 DEF Forward, Current
  <2> QED
    BY <1>2, <2>1 DEF UpsertItem, Current
<1> QED
  BY <1>3, <1>4

LEMMA ForwardKeepsWire ==
    ASSUME WireInv, Forward
    PROVE  ServerOK' /\ WireOK' /\ SnapshotOK' /\ AppliedOK'
<1> USE DEF subscription, client, bounds
<1>1. TypeOK /\ ServerOK /\ WireOK /\ SnapshotOK /\ AppliedOK
  BY DEF WireInv
<1>2. /\ phase = "live" /\ phase' = "live" /\ cursor' = cursor + 1
      /\ UNCHANGED <<log, published, applied, shell>>
      /\ Len(log) \in Nat /\ cursor \in 0..Len(log) /\ cursor' \in Nat /\ cursor <= cursor'
      /\ wire \in Seq(Item) /\ Len(wire) \in Nat
  BY <1>1, WireTypes DEF Forward
<1>3. \A row : Decisive(row)' = Decisive(row) /\ Current(row)' = Current(row)
  BY <1>2, SameLogSameRows
<1>4. cursor' # cursor /\ cursor \in Nat /\ phase' # "loaded"
  BY <1>2
<1>5. ServerOK' /\ AppliedOK'
  BY <1>1, <1>2 DEF ServerOK, Clean, AppliedOK
<1>6. CASE wire' = wire
  <2>1. WireOK'
    BY <1>1, <1>2, <1>6, SameWire
  <2>2. SnapshotOK'
    BY <1>1, <1>2, <1>4, <1>6, SameSnapshot DEF SnapshotPending
  <2> QED
    BY <1>5, <2>1, <2>2
<1>7. CASE wire' # wire
  <2>1. PICK item \in Item :
              /\ wire' = Append(wire, item) /\ item.kind # "snapshot"
              /\ item.sequence = cursor + 1 /\ item.row = log[cursor + 1].row
              /\ Decisive(item.row) <= cursor + 1 => item.version = Current(item.row)
    BY <1>1, <1>7, ForwardedItem
  <2>0. PICK k \in Nat : k = Len(wire)
    BY <1>2
  <2>2. /\ Len(wire') = k + 1 /\ wire'[k + 1] = item
        /\ \A i \in 1..Len(wire) : wire'[i] = wire[i]
        /\ \A i \in 1..Len(wire') : i \in 1..Len(wire) \/ i = k + 1
    BY <1>2, <2>0, <2>1
  <2>3. \A i \in 1..Len(wire) : IsEvent(i)' <=> IsEvent(i)
    BY <2>2 DEF IsEvent
  <2>4. IsEvent(k + 1)'
    BY <2>1, <2>2 DEF IsEvent
  <2>5. SnapshotPending' => SnapshotPending /\ wire'[1] = wire[1]
    <3>1. CASE wire = <<>>
      BY <2>1, <2>2, <3>1 DEF SnapshotPending
    <3>2. CASE wire # <<>>
      <4>1. 1 \in 1..Len(wire)
        BY <1>2, <3>2
      <4> QED
        BY <2>2, <3>2, <4>1 DEF SnapshotPending
    <3> QED
      BY <3>1, <3>2
  <2>6. SnapshotOK'
    BY <1>1, <1>2, <1>4, <2>5, SameSnapshot
  <2>7. ASSUME NEW i \in 1..Len(wire'), IsEvent(i)'
        PROVE  \E n \in 1..cursor', row \in Rows :
                  /\ wire'[i].sequence = n /\ wire'[i].row = row /\ log'[n].row = row
                  /\ Decisive(row)' <= n => wire'[i].version = Current(row)'
    <3>1. CASE i \in 1..Len(wire)
      <4>1. wire'[i] = wire[i] /\ IsEvent(i)
        BY <2>2, <2>3, <2>7, <3>1
      <4>2. PICK n \in 1..cursor, row \in Rows :
                /\ wire[i].sequence = n /\ wire[i].row = row /\ log[n].row = row
                /\ Decisive(row) <= n => wire[i].version = Current(row)
        BY <1>1, <3>1, <4>1 DEF WireOK
      <4>3. n \in 1..cursor'
        BY <1>2, <4>2
      <4> QED
        BY <1>2, <1>3, <4>1, <4>2, <4>3
    <3>2. CASE i = k + 1
      <4>1. PICK n \in 1..cursor', row \in Rows :
               n = cursor + 1 /\ row = item.row /\ log[n].row = row
        BY <1>1, <1>2, <2>1, LogEvents DEF Forward, TypeOK
      <4> QED
        BY <1>2, <1>3, <2>1, <2>2, <3>2, <4>1
    <3> QED
      BY <2>2, <2>7, <3>1, <3>2
  <2>8. ASSUME NEW i \in 1..Len(wire'), NEW j \in 1..Len(wire'), IsEvent(i)', IsEvent(j)', i < j
        PROVE  wire'[i].sequence < wire'[j].sequence
    <3>1. i \in 1..Len(wire) /\ wire'[i] = wire[i] /\ IsEvent(i)
      <4>1. i # k + 1
        BY <2>0, <2>2, <2>8
      <4> QED
        BY <2>2, <2>3, <2>8, <4>1
    <3>2. CASE j \in 1..Len(wire)
      BY <1>1, <2>2, <2>3, <2>8, <3>1, <3>2 DEF WireOK
    <3>3. CASE j = k + 1
      <4>1. wire[i].sequence \in 1..cursor
        BY <1>1, <3>1 DEF WireOK
      <4> QED
        BY <1>2, <2>1, <2>2, <3>1, <3>3, <4>1
    <3> QED
      BY <2>2, <2>8, <3>2, <3>3
  <2>9. ASSUME NEW i \in 1..Len(wire'), ~IsEvent(i)' PROVE i = 1
    <3>1. i \in 1..Len(wire) /\ ~IsEvent(i)
      BY <2>2, <2>3, <2>4, <2>9
    <3> QED
      BY <1>1, <3>1 DEF WireOK
  <2>10. phase' \in {"loaded", "live"} /\ phase' # "loaded"
    BY <1>2
  <2>11. WireOK'
    BY <2>7, <2>8, <2>9, <2>10 DEF WireOK
  <2> QED
    BY <1>5, <2>6, <2>11
<1> QED
  BY <1>6, <1>7

(* What the arrival of the first item leaves.                              *)
LEMMA Delivered ==
    ASSUME TypeOK, WireOK, Deliver
    PROVE  /\ wire # <<>> /\ 1 \in 1..Len(wire) /\ Head(wire) = wire[1]
           /\ Len(wire') = Len(wire) - 1
           /\ \A i \in 1..Len(wire') :
                 /\ i + 1 \in 1..Len(wire) /\ wire'[i] = wire[i + 1]
                 /\ IsEvent(i)' /\ IsEvent(i + 1)
           /\ ~SnapshotPending'
           /\ UNCHANGED <<log, published, phase, cursor, bounds>>
<1>1. /\ wire \in Seq(Item) /\ wire # <<>> /\ wire' = Tail(wire)
      /\ UNCHANGED <<log, published, phase, cursor, bounds>>
  BY DEF TypeOK, Deliver
<1>2. /\ Len(wire) \in Nat /\ 1 \in 1..Len(wire) /\ Head(wire) = wire[1]
      /\ Len(wire') = Len(wire) - 1
      /\ \A i \in 1..Len(wire') : i + 1 \in 1..Len(wire) /\ wire'[i] = wire[i + 1] /\ i + 1 # 1
  BY <1>1
<1>3. \A i \in 1..Len(wire') : IsEvent(i + 1)
  BY <1>2 DEF WireOK
<1>4. \A i \in 1..Len(wire') : IsEvent(i)'
  BY <1>2, <1>3 DEF IsEvent
<1>5. ~SnapshotPending'
  <2>1. wire' # <<>> => 1 \in 1..Len(wire')
    <3>1. wire' \in Seq(Item)
      BY <1>1
    <3> QED
      BY <3>1
  <2> QED
    BY <1>4, <2>1 DEF SnapshotPending, IsEvent
<1> QED
  BY <1>1, <1>2, <1>3, <1>4, <1>5

LEMMA DeliverKeepsWire ==
    ASSUME WireInv, Deliver
    PROVE  ServerOK' /\ WireOK' /\ SnapshotOK' /\ AppliedOK'
<1> USE DEF subscription, client, bounds
<1>1. TypeOK /\ ServerOK /\ WireOK /\ SnapshotOK /\ AppliedOK
  BY DEF WireInv
<1>2. /\ 1 \in 1..Len(wire) /\ wire # <<>>
      /\ Len(wire') = Len(wire) - 1 /\ Len(wire) \in Nat
      /\ \A i \in 1..Len(wire') :
            i + 1 \in 1..Len(wire) /\ wire'[i] = wire[i + 1] /\ IsEvent(i)' /\ IsEvent(i + 1)
      /\ UNCHANGED <<log, published, phase, cursor>>
  BY <1>1, Delivered, WireTypes
<1>3. \A row : Decisive(row)' = Decisive(row) /\ Current(row)' = Current(row)
  BY <1>2, SameLogSameRows
<1>4. ServerOK' /\ SnapshotOK'
  BY <1>1, <1>2, Delivered DEF ServerOK, Clean, SnapshotOK
<1>5. WireOK'
  <2>1. phase \notin {"loaded", "live"} => FALSE
    BY <1>1, <1>2 DEF WireOK
  <2>2. phase = "loaded" => \A i \in 1..Len(wire') : ~IsEvent(i)'
    BY <1>1, <1>2 DEF WireOK
  <2>3. ASSUME NEW i \in 1..Len(wire')
        PROVE  \E n \in 1..cursor, row \in Rows :
                  /\ wire'[i].sequence = n /\ wire'[i].row = row /\ log[n].row = row
                  /\ Decisive(row) <= n => wire'[i].version = Current(row)
    <3>1. PICK j \in 1..Len(wire) : j = i + 1 /\ wire'[i] = wire[j] /\ IsEvent(j)
      BY <1>2
    <3>2. \E n \in 1..cursor, row \in Rows :
              /\ wire[j].sequence = n /\ wire[j].row = row /\ log[n].row = row
              /\ Decisive(row) <= n => wire[j].version = Current(row)
      BY <1>1, <3>1 DEF WireOK
    <3> QED
      BY <3>1, <3>2
  <2>4. ASSUME NEW i \in 1..Len(wire'), NEW j \in 1..Len(wire'), i < j
        PROVE  wire'[i].sequence < wire'[j].sequence
    <3>1. i + 1 < j + 1
      BY <1>2, <2>4
    <3> QED
      BY <1>1, <1>2, <3>1 DEF WireOK
  <2> QED
    BY <1>2, <1>3, <2>1, <2>2, <2>3, <2>4 DEF WireOK
<1>6. AppliedOK'
  <2> DEFINE item == wire[1]
  <2>1. Head(wire) = item /\ Len(log) \in Nat /\ cursor \in 0..Len(log)
    BY <1>1, Delivered, WireTypes
  <2>2. CASE ApplySnapshot(item)
    <3>1. applied'.sequence = item.sequence /\ shell' = item.rows /\ SnapshotPending
      BY <1>2, <2>2 DEF ApplySnapshot, Show, SnapshotPending
    <3>2. item.sequence <= Len(log) /\ item.rows = Table(item.sequence)
      BY <1>1, <3>1 DEF SnapshotOK
    <3>3. \A row \in Rows : Table(0)[row] = 0
      BY RowIs DEF Table
    <3> QED
      BY <1>2, <3>1, <3>2, <3>3 DEF AppliedOK
  <2>3. CASE ApplyEvent(item)
    <3>1. applied'.sequence = item.sequence /\ IsEvent(1)
      BY <1>1, <2>3 DEF ApplyEvent, TypeOK, IsEvent
    <3>2. item.sequence \in 1..cursor
      BY <1>1, <1>2, <3>1 DEF WireOK
    <3> QED
      BY <1>2, <2>1, <3>1, <3>2 DEF AppliedOK
  <2>4. CASE RefuseItem(item)
    BY <1>1, <1>2, <2>4 DEF RefuseItem, AppliedOK
  <2> QED
    BY <2>1, <2>2, <2>3, <2>4 DEF Deliver
<1> QED
  BY <1>4, <1>5, <1>6

LEMMA WireStep == WireInv /\ [Next]_vars => WireInv'
<1> SUFFICES ASSUME WireInv, [Next]_vars PROVE WireInv'
  OBVIOUS
<1> USE DEF subscription, client, bounds
<1>0. TypeOK /\ ServerOK /\ WireOK /\ SnapshotOK /\ AppliedOK
  BY DEF WireInv
<1>t. TypeOK'
  BY <1>0, TypeStep
<1>a. /\ Len(log) \in Nat /\ published \in 0..Len(log) /\ cursor \in 0..Len(log)
      /\ wire \in Seq(Item) /\ Len(wire) \in Nat
  BY <1>0, WireTypes
<1>b. UNCHANGED log => \A n : Table(n)' = Table(n)
  BY SameLogSameRows DEF Table
<1>c. phase \notin {"loaded", "live"} => wire = <<>>
  BY <1>0 DEF WireOK
<1>1. CASE Commit
  BY <1>t, <1>1, CommitKeepsWire DEF WireInv
<1>2. CASE Publish
  <2>1. /\ UNCHANGED <<log, wire, phase, cursor, applied, shell>> /\ published' = published + 1
    BY <1>2 DEF Publish, Stream!PublishNext
  <2>2. ServerOK'
    BY <1>0, <1>a, <2>1 DEF ServerOK, Clean
  <2>3. WireOK'
    <3>1. cursor <= cursor' /\ cursor' \in Nat
      BY <1>a, <2>1
    <3> QED
      BY <1>0, <1>c, <2>1, <3>1, SameWire
  <2>4. SnapshotOK'
    <3>1. /\ cursor' \in Nat /\ cursor \in Nat /\ published \in Nat
          /\ SnapshotPending' => SnapshotPending /\ wire'[1] = wire[1]
      BY <1>a, <2>1 DEF SnapshotPending
    <3> QED
      BY <1>0, <2>1, <3>1, SameSnapshot
  <2> QED
    BY <1>0, <1>t, <2>1, <2>2, <2>3, <2>4 DEF WireInv, AppliedOK
<1>3. CASE Subscribe \/ LoadFails
  <2>1. /\ UNCHANGED <<log, published, wire, cursor, applied, shell>> /\ wire = <<>>
        /\ phase' \in {"asked", "abandoned"}
    BY <1>0, <1>3 DEF Subscribe, LoadFails, WireOK
  <2> QED
    BY <1>0, <1>t, <1>a, <2>1, NothingOnWire DEF WireInv, ServerOK, Clean, AppliedOK
<1>4. CASE LoadSnapshot
  <2>1. /\ UNCHANGED <<log, published, applied, shell>>
        /\ wire' = << SnapshotItem >> /\ cursor' = Len(log) /\ phase' = "loaded"
    BY <1>4 DEF LoadSnapshot
  <2>2. Len(wire') = 1 /\ wire'[1] = SnapshotItem /\ ~IsEvent(1)'
    BY <2>1 DEF SnapshotItem, IsEvent
  <2>3. WireOK'
    BY <2>1, <2>2 DEF WireOK
  <2>4. SnapshotOK'
    BY <1>0, <1>a, <1>b, <2>1, <2>2, UpdatedAtIs
       DEF SnapshotOK, SnapshotItem, AppliedOK, TypeOK
  <2> QED
    BY <1>0, <1>t, <2>1, <2>3, <2>4 DEF WireInv, ServerOK, Clean, AppliedOK
<1>5. CASE StartLive
  <2>1. /\ UNCHANGED <<log, published, applied, shell, wire>>
        /\ cursor' = published /\ phase = "loaded" /\ phase' = "live"
    BY <1>5 DEF StartLive
  <2>2. \A i \in 1..Len(wire) : ~IsEvent(i)
    BY <1>0, <2>1 DEF WireOK
  <2>3. WireOK'
    BY <1>0, <2>1, <2>2 DEF WireOK, IsEvent
  <2>4. SnapshotOK'
    <3>1. /\ cursor' \in Nat /\ cursor \in Nat /\ published \in Nat
          /\ SnapshotPending' => SnapshotPending /\ wire'[1] = wire[1]
      BY <1>a, <2>1 DEF SnapshotPending
    <3> QED
      BY <1>0, <2>1, <3>1, SameSnapshot DEF ServerOK
  <2> QED
    BY <1>0, <1>t, <2>1, <2>3, <2>4 DEF WireInv, ServerOK, Clean, AppliedOK
<1>6. CASE Forward
  BY <1>t, <1>6, ForwardKeepsWire DEF WireInv
<1>7. CASE ForwardFails
  <2>1. /\ UNCHANGED <<log, published, applied, shell, wire>>
        /\ cursor' = cursor + 1 /\ phase = "live" /\ phase' = "live"
    BY <1>7 DEF ForwardFails
  <2>2. WireOK'
    BY <1>0, <1>a, <2>1, SameWire
  <2>3. SnapshotOK'
    <3>1. /\ cursor' \in Nat /\ cursor \in Nat /\ published \in Nat /\ cursor <= cursor'
          /\ SnapshotPending' => SnapshotPending /\ wire'[1] = wire[1]
      BY <1>a, <2>1 DEF SnapshotPending
    <3> QED
      BY <1>0, <2>1, <3>1, SameSnapshot
  <2> QED
    BY <1>0, <1>t, <2>1, <2>2, <2>3 DEF WireInv, ServerOK, Clean, AppliedOK
<1>8. CASE Deliver
  BY <1>t, <1>8, DeliverKeepsWire DEF WireInv
<1>9. CASE Disconnect \/ ServerRestarts
  <2>1. /\ UNCHANGED <<log, applied, shell>> /\ wire' = <<>>
        /\ published' \in {published, Len(log)}
    BY <1>9 DEF Disconnect, ServerRestarts, Close, Stream!Restart
  <2>2. ServerOK'
    <3>1. CASE published' = published
      BY <1>0, <2>1, <3>1 DEF ServerOK, Clean
    <3>2. CASE published' = Len(log)
      BY <1>a, <2>1, <3>2 DEF ServerOK, Clean
    <3> QED
      BY <2>1, <3>1, <3>2
  <2> QED
    BY <1>0, <1>t, <2>1, <2>2, NothingOnWire DEF WireInv, AppliedOK
<1>10. CASE UNCHANGED vars
  <2>1. UNCHANGED <<log, published, applied, shell, wire, cursor, phase>>
    BY <1>10 DEF vars
  <2>2. WireOK'
    <3>1. cursor <= cursor' /\ cursor' \in Nat
      BY <1>a, <2>1
    <3> QED
      BY <1>0, <1>c, <2>1, <3>1, SameWire
  <2>3. SnapshotOK'
    <3>1. /\ cursor' \in Nat /\ cursor \in Nat /\ published \in Nat
          /\ SnapshotPending' => SnapshotPending /\ wire'[1] = wire[1]
      BY <1>a, <2>1 DEF SnapshotPending
    <3> QED
      BY <1>0, <2>1, <3>1, SameSnapshot
  <2> QED
    BY <1>0, <1>t, <2>1, <2>2, <2>3 DEF WireInv, ServerOK, Clean, AppliedOK
<1> QED
  BY <1>1, <1>2, <1>3, <1>4, <1>5, <1>6, <1>7, <1>8, <1>9, <1>10
     DEF Next, Server, Client

LEMMA WireInvariance == Spec => []WireInv
<1>1. Init => WireInv
  BY InitialTypes, InitialWire DEF WireInv
<1>2. WireInv /\ [Next]_vars => WireInv'
  BY WireStep
<1> QED
  BY <1>1, <1>2, PTL DEF Spec

-----------------------------------------------------------------------------
(***************************************************************************)
(* Versions seen.  A version on the wire is none or the newest there was:  *)
(* the rows of a snapshot, and what an event carries when it is forwarded. *)
(***************************************************************************)

LEMMA VersionTypesNext == (\A row : \A n \in Nat : Version(row, n) \in Nat)'
<1>1. \A row : \A n \in Nat : Version(row, n) \in Nat
  BY VersionIs
<1> QED
  BY <1>1, PTL

LEMMA CarriesTypes ==
    ASSUME TypeOK, NEW row \in Rows
    PROVE  \A i \in 1..Len(wire) : Carries(i, row) \in Nat
<1>1. \A i \in 1..Len(wire) :
         /\ ~IsEvent(i) => wire[i].rows \in [Rows -> Nat]
         /\ IsEvent(i) => wire[i].version \in Nat
  BY WireTypes
<1> QED
  BY <1>1 DEF Carries, IsEvent

(* Steps that neither show nor send anything.                              *)
LEMMA SeenSame ==
    ASSUME TypeOK, TypeOK', NEW row \in Rows, SeenRow(row), UNCHANGED <<shell, seen>>,
           wire' = wire \/ wire' = <<>>,
           Version(row, Len(log)) <= Version(row, Len(log))'
    PROVE  SeenRow(row)'
<1>1. PICK v \in Nat : v = Version(row, Len(log))
  BY WireTypes, VersionIs
<1>2. PICK w \in Nat : w = Version(row, Len(log))'
  <2>1. Len(log') \in Nat
    BY DEF TypeOK
  <2> QED
    BY <2>1, VersionTypesNext
<1>3. v <= w /\ seen[row] \in Nat
  BY <1>1, <1>2 DEF TypeOK
<1>4. CASE wire' = wire
  <2>1. \A i \in 1..Len(wire) : Carries(i, row)' = Carries(i, row) /\ Carries(i, row) \in Nat
    BY <1>4, CarriesTypes DEF Carries
  <2>2. \A i \in 1..Len(wire) : Carries(i, row) # 0 => Carries(i, row) \in seen[row]..w
    BY <1>1, <1>3, <2>1 DEF SeenRow
  <2> QED
    BY <1>1, <1>2, <1>3, <1>4, <2>1, <2>2 DEF SeenRow
<1>5. CASE wire' = <<>>
  <2>1. Len(wire') = 0
    BY <1>5
  <2> QED
    BY <1>1, <1>2, <1>3, <2>1 DEF SeenRow
<1> QED
  BY <1>4, <1>5

LEMMA InitialSeen == Init => SeenOK
<1> SUFFICES ASSUME Init, NEW row \in Rows PROVE SeenRow(row)
  BY DEF SeenOK
<1>1. log = <<>> /\ Len(log) = 0 /\ Len(wire) = 0 /\ seen[row] = 0 /\ shell[row] = 0
  BY DEF Init, Stream!Init
<1>2. Version(row, Len(log)) \in Nat
  BY <1>1, VersionIs
<1> QED
  BY <1>1, <1>2 DEF SeenRow

LEMMA LoadKeepsSeen ==
    ASSUME TypeOK, LoadSnapshot, NEW row \in Rows, SeenRow(row)
    PROVE  SeenRow(row)'
<1> USE DEF subscription, client, bounds
<1>1. wire' = << SnapshotItem >> /\ UNCHANGED <<log, shell, seen>> /\ Len(wire') = 1
  BY DEF LoadSnapshot
<1>2. Version(row, Len(log))' = Version(row, Len(log))
  BY <1>1, SameLogSameRows
<1>3. /\ Row(row, Len(log)) \in {0, Version(row, Len(log))} /\ Version(row, Len(log)) \in Nat
      /\ seen[row] \in Nat
  BY WireTypes, RowIs, VersionIs DEF TypeOK
<1>4. Carries(1, row)' = Row(row, Len(log))
  BY <1>1 DEF Carries, SnapshotItem, Table
<1> QED
  BY <1>1, <1>2, <1>3, <1>4 DEF SeenRow

LEMMA ForwardKeepsSeen ==
    ASSUME TypeOK, TypeOK', Forward, NEW row \in Rows, SeenRow(row)
    PROVE  SeenRow(row)'
<1> USE DEF subscription, client, bounds
<1>1. UNCHANGED <<log, shell, seen>>
  BY DEF Forward
<1>2. PICK v \in Nat : v = Version(row, Len(log)) /\ v = Version(row, Len(log))'
  BY <1>1, WireTypes, VersionIs, SameLogSameRows
<1>3. CASE wire' = wire
  <2>1. Version(row, Len(log)) <= Version(row, Len(log))'
    BY <1>2
  <2> QED
    BY <1>1, <1>3, <2>1, SeenSame
<1>4. CASE wire' # wire
  <2>1. PICK item \in Item :
              /\ wire' = Append(wire, item) /\ item.kind # "snapshot"
              /\ item.version = Current(item.row) \/ item.version = 0
    BY <1>4, ForwardedItem
  <2>2. PICK k \in Nat : k = Len(wire) /\ Len(wire') = k + 1 /\ wire'[k + 1] = item
                         /\ \A i \in 1..k : wire'[i] = wire[i]
    BY <2>1, WireTypes
  <2>3. \A i \in 1..k : Carries(i, row)' = Carries(i, row) /\ Carries(i, row) \in Nat
    BY <2>2, CarriesTypes DEF Carries
  <2>4. Carries(k + 1, row)' \in {0, v}
    <3>1. Current(row) \in {0, v}
      BY <1>2, WireTypes, RowIs DEF Current
    <3> QED
      BY <2>1, <2>2, <3>1 DEF Carries
  <2>5. seen[row] \in Nat /\ seen[row] <= v
    BY <1>2 DEF TypeOK, SeenRow
  <2>6. \A i \in 1..k : Carries(i, row)' # 0 => Carries(i, row)' \in seen[row]..v
    BY <1>2, <2>2, <2>3 DEF SeenRow
  <2>7. \A i \in 1..k + 1 : Carries(i, row)' # 0 => Carries(i, row)' \in seen[row]..v
    BY <2>2, <2>4, <2>5, <2>6
  <2>8. ASSUME NEW i \in 1..k + 1, NEW j \in 1..k + 1, i < j,
               Carries(i, row)' # 0, Carries(j, row)' # 0
        PROVE  Carries(i, row)' <= Carries(j, row)'
    <3>1. i \in 1..k
      BY <2>2, <2>8
    <3>2. CASE j \in 1..k
      BY <2>2, <2>3, <2>8, <3>1, <3>2 DEF SeenRow
    <3>3. CASE j = k + 1
      BY <2>4, <2>5, <2>6, <2>8, <3>1, <3>3
    <3> QED
      BY <2>2, <3>2, <3>3
  <2> QED
    BY <1>1, <1>2, <2>2, <2>5, <2>7, <2>8 DEF SeenRow
<1> QED
  BY <1>3, <1>4

(* What a delivery shows of a row: what the item carries, or what was      *)
(* shown before.                                                           *)
LEMMA DeliverShows ==
    ASSUME TypeOK, WireOK, Deliver, NEW row \in Rows, SeenRow(row)
    PROVE  \/ shell'[row] = shell[row] /\ seen'[row] = seen[row]
           \/ /\ shell'[row] = Carries(1, row)
              /\ seen'[row] = IF Carries(1, row) = 0 THEN seen[row] ELSE Carries(1, row)
<1> DEFINE item == wire[1]
<1>1. Head(wire) = item /\ item \in Item /\ 1 \in 1..Len(wire)
  BY Delivered, WireTypes
<1>2. /\ seen[row] \in Nat /\ shell \in [Rows -> Nat] /\ shell[row] \in {0, seen[row]}
      /\ Carries(1, row) \in Nat /\ (Carries(1, row) # 0 => seen[row] <= Carries(1, row))
  <2>1. Carries(1, row) # 0 => Carries(1, row) \in seen[row]..Version(row, Len(log))
    BY <1>1 DEF SeenRow
  <2>2. Version(row, Len(log)) \in Nat
    BY WireTypes, VersionIs
  <2> QED
    BY <1>1, <2>1, <2>2, CarriesTypes DEF TypeOK, SeenRow
<1>3. Max({seen[row], shell[row]}) = seen[row]
  BY <1>2, MaxOfTwo
<1>4. Max({seen[row], Carries(1, row)}) =
        IF Carries(1, row) = 0 THEN seen[row] ELSE Carries(1, row)
  BY <1>2, MaxOfTwo
<1>5. CASE ApplySnapshot(item)
  <2>1. shell'[row] = Carries(1, row) /\ seen'[row] = Max({seen[row], Carries(1, row)})
    BY <1>5 DEF ApplySnapshot, Show, Carries
  <2> QED
    BY <1>4, <2>1
<1>6. CASE ApplyEvent(item)
  <2>1. item.kind # "snapshot" /\ item.row \in Rows
    BY <1>1, <1>6 DEF ApplyEvent, Item
  <2>2. /\ shell' = [shell EXCEPT ![item.row] = item.version]
        /\ seen'[row] = Max({seen[row], shell'[row]})
    BY <1>6 DEF ApplyEvent, Show
  <2>3. CASE item.row = row
    <3>1. shell'[row] = Carries(1, row)
      BY <1>2, <2>1, <2>2, <2>3 DEF Carries
    <3> QED
      BY <1>4, <2>2, <3>1
  <2>4. CASE item.row # row
    <3>1. shell'[row] = shell[row]
      BY <1>2, <2>1, <2>2, <2>4
    <3> QED
      BY <1>3, <2>2, <3>1
  <2> QED
    BY <2>3, <2>4
<1>7. CASE RefuseItem(item)
  BY <1>7 DEF RefuseItem, client
<1> QED
  BY <1>1, <1>5, <1>6, <1>7 DEF Deliver

LEMMA DeliverKeepsSeen ==
    ASSUME TypeOK, WireOK, Deliver, NEW row \in Rows, SeenRow(row)
    PROVE  SeenRow(row)'
<1>1. /\ 1 \in 1..Len(wire) /\ Len(wire') = Len(wire) - 1 /\ Len(wire) \in Nat
      /\ \A i \in 1..Len(wire') : i + 1 \in 1..Len(wire) /\ wire'[i] = wire[i + 1]
      /\ UNCHANGED log
  BY Delivered, WireTypes
<1>2. PICK v \in Nat : v = Version(row, Len(log)) /\ v = Version(row, Len(log))'
  BY <1>1, WireTypes, VersionIs, SameLogSameRows
<1>3. /\ \A i \in 1..Len(wire') : Carries(i, row)' = Carries(i + 1, row)
      /\ \A i \in 1..Len(wire) : Carries(i, row) \in Nat
  BY <1>1, CarriesTypes DEF Carries
<1>4. seen[row] \in Nat /\ seen[row] <= v /\ shell[row] \in {0, seen[row]}
  BY <1>2 DEF SeenRow, TypeOK
<1>5. \A i \in 1..Len(wire) : Carries(i, row) # 0 => Carries(i, row) \in seen[row]..v
  BY <1>2 DEF SeenRow
<1>6. \A i, j \in 1..Len(wire) :
         i < j /\ Carries(i, row) # 0 /\ Carries(j, row) # 0 => Carries(i, row) <= Carries(j, row)
  BY DEF SeenRow
<1>7. /\ seen'[row] <= v /\ shell'[row] \in {0, seen'[row]} /\ seen'[row] \in Nat
      /\ \A i \in 2..Len(wire) : Carries(i, row) # 0 => seen'[row] <= Carries(i, row)
  <2>1. \A i \in 2..Len(wire) : i \in 1..Len(wire) /\ 1 < i
    BY <1>1
  <2>2. CASE shell'[row] = shell[row] /\ seen'[row] = seen[row]
    BY <1>3, <1>4, <1>5, <2>1, <2>2
  <2>3. CASE /\ shell'[row] = Carries(1, row)
             /\ seen'[row] = IF Carries(1, row) = 0 THEN seen[row] ELSE Carries(1, row)
    BY <1>1, <1>3, <1>4, <1>5, <1>6, <2>1, <2>3
  <2> QED
    BY <2>2, <2>3, DeliverShows
<1>8. ASSUME NEW i \in 1..Len(wire'), Carries(i, row)' # 0
      PROVE  Carries(i, row)' \in seen'[row]..v
  <2>1. i + 1 \in 2..Len(wire) /\ i + 1 \in 1..Len(wire)
    BY <1>1, <1>8
  <2> QED
    BY <1>3, <1>5, <1>7, <1>8, <2>1
<1>9. ASSUME NEW i \in 1..Len(wire'), NEW j \in 1..Len(wire'), i < j,
             Carries(i, row)' # 0, Carries(j, row)' # 0
      PROVE  Carries(i, row)' <= Carries(j, row)'
  <2>1. i + 1 \in 1..Len(wire) /\ j + 1 \in 1..Len(wire) /\ i + 1 < j + 1
    BY <1>1, <1>9
  <2> QED
    BY <1>3, <1>6, <1>9, <2>1
<1> QED
  BY <1>2, <1>7, <1>8, <1>9 DEF SeenRow

LEMMA SeenStep == WireInv /\ SeenOK /\ [Next]_vars => SeenOK'
<1> SUFFICES ASSUME WireInv, SeenOK, [Next]_vars, NEW row \in Rows PROVE SeenRow(row)'
  BY DEF SeenOK
<1> USE DEF subscription, client, bounds
<1>0. TypeOK /\ WireOK /\ SeenRow(row) /\ TypeOK'
  BY TypeStep DEF WireInv, SeenOK
<1>1. Version(row, Len(log)) \in Nat
  BY <1>0, WireTypes, VersionIs
<1>2. UNCHANGED log => Version(row, Len(log)) <= Version(row, Len(log))'
  BY <1>1, SameLogSameRows
<1>3. CASE Commit
  <2>1. UNCHANGED <<shell, seen, wire>> /\ Version(row, Len(log)) <= Version(row, Len(log))'
    BY <1>0, <1>3, CommitExtends, CommitKeepsRows
  <2> QED
    BY <1>0, <2>1, SeenSame
<1>4. CASE LoadSnapshot
  BY <1>0, <1>4, LoadKeepsSeen
<1>5. CASE Forward
  BY <1>0, <1>5, ForwardKeepsSeen
<1>6. CASE Deliver
  BY <1>0, <1>6, DeliverKeepsSeen
<1>7. CASE Publish \/ Subscribe \/ LoadFails \/ StartLive \/ ForwardFails \/ UNCHANGED vars
  <2>1. UNCHANGED <<log, shell, seen, wire>>
    BY <1>7 DEF Publish, Stream!PublishNext, Subscribe, LoadFails, StartLive, ForwardFails, vars
  <2> QED
    BY <1>0, <1>2, <2>1, SeenSame
<1>8. CASE Disconnect \/ ServerRestarts
  <2>1. UNCHANGED <<log, shell, seen>> /\ wire' = <<>>
    BY <1>8 DEF Disconnect, ServerRestarts, Close, Stream!Restart
  <2> QED
    BY <1>0, <1>2, <2>1, SeenSame
<1> QED
  BY <1>3, <1>4, <1>5, <1>6, <1>7, <1>8 DEF Next, Server, Client

-----------------------------------------------------------------------------
(* Rows that come right.                                                   *)

(* The event that decides a row.                                           *)
LEMMA DecisiveIs ==
    ASSUME TypeOK, NEW row
    PROVE  /\ Decisive(row) \in 0..Len(log) /\ Decisive(row) \in Nat /\ Current(row) \in Nat
           /\ Decisive(row) # 0 => Decisive(row) \in 1..Len(log) /\ log[Decisive(row)].row = row
           /\ Current(row) = 0 /\ Decisive(row) # 0 => log[Decisive(row)].kind = "archived"
           /\ Current(row) # 0 =>
                 /\ Decisive(row) = Current(row)
                 /\ \A i \in 1..Len(log) :
                       log[i].row = row /\ log[i].kind = "archived" => i < Decisive(row)
           /\ \A n \in 0..Len(log) : Decisive(row) <= n => Row(row, n) = Current(row)
<1>1. PICK n \in Nat : n = Len(log)
  BY WireTypes
<1>2. Decisive(row) = DecisiveAt(row, n) /\ Current(row) = Row(row, n)
  BY <1>1 DEF Decisive, DecisiveAt, Current
<1>3. \A i : i \in Events(row, n) <=> i \in 1..n /\ log[i].row = row
  BY DEF Events
<1>4. \A m \in 0..n : DecisiveAt(row, n) <= m => Row(row, m) = Row(row, n)
  BY <1>1, DecidedOnce
<1>5. /\ Decisive(row) \in 0..n /\ Current(row) \in 0..n
      /\ Decisive(row) # 0 => Decisive(row) \in 1..n /\ log[Decisive(row)].row = row
      /\ Current(row) = 0 /\ Decisive(row) # 0 => log[Decisive(row)].kind = "archived"
  BY <1>1, <1>2, <1>3, RowIs
<1>6. Current(row) # 0 =>
         /\ Decisive(row) = Current(row)
         /\ \A i \in 1..n : log[i].row = row /\ log[i].kind = "archived" => i < Decisive(row)
  BY <1>1, <1>2, <1>3, RowIs
<1> QED
  BY <1>1, <1>2, <1>4, <1>5, <1>6

(* Steps that change nothing of the client and send nothing.               *)
LEMMA SameRow ==
    ASSUME NEW row \in Rows, RowOK(row), UNCHANGED <<shell, applied, guarded, lost>>,
           Decisive(row)' = Decisive(row), Current(row)' = Current(row), wire' = wire,
           phase' \in {"loaded", "live"} => phase' = phase /\ cursor' = cursor
    PROVE  RowOK(row)'
<1>1. GuardIsSafe(row)'
  BY DEF RowOK, GuardIsSafe
<1>2. /\ EventsRight(row)' <=> EventsRight(row)
      /\ Underway(row)' <=> Underway(row)
      /\ SnapshotPending' <=> SnapshotPending
  BY DEF EventsRight, Underway, SnapshotPending, IsEvent
<1>3. Arrives(row)' <=> Arrives(row)
  BY <1>2 DEF Arrives
<1> QED
  BY <1>1, <1>2, <1>3 DEF RowOK, SnapshotCovers, Follows

LEMMA ClosedRow ==
    ASSUME NEW row \in Rows, RowOK(row), UNCHANGED <<shell, applied, guarded, lost>>,
           Decisive(row)' = Decisive(row), Current(row)' = Current(row),
           wire' = <<>>, phase' = "closed"
    PROVE  RowOK(row)'
<1>1. GuardIsSafe(row)'
  BY DEF RowOK, GuardIsSafe
<1> QED
  BY <1>1 DEF RowOK, SnapshotCovers, SnapshotPending, Follows

(* A commit decides a row anew, past all the client has, or leaves it.     *)
LEMMA CommitKeepsRow ==
    ASSUME WireInv, Commit, NEW row \in Rows, RowOK(row)
    PROVE  RowOK(row)'
<1> USE DEF subscription, client, bounds
<1>1. TypeOK /\ SnapshotOK /\ AppliedOK
  BY DEF WireInv
<1>2. /\ Len(log) \in Nat /\ Len(log') \in Nat /\ cursor \in 0..Len(log)
      /\ applied.sequence \in Nat /\ applied.sequence <= Len(log)
      /\ UNCHANGED <<phase, cursor, wire, shell, applied, guarded, lost>>
  BY <1>1, CommitExtends, WireTypes DEF TypeOK, AppliedOK
<1>3. Decisive(row)' \in Nat
  BY <1>2, DecisiveNext DEF Decisive, DecisiveAt
<1>4. CASE Decisive(row)' <= Len(log)
  <2>1. Decisive(row)' = Decisive(row) /\ Current(row)' = Current(row)
    BY <1>1, <1>4, CommitKeepsRows
  <2>2. UNCHANGED <<shell, applied, guarded, lost>> /\ wire' = wire /\ phase' = phase
        /\ cursor' = cursor
    BY <1>2
  <2> QED
    BY <2>1, <2>2, SameRow
<1>5. CASE ~(Decisive(row)' <= Len(log))
  <2>1. PICK d \in Nat : d = Decisive(row)' /\ Len(log) < d
    BY <1>2, <1>3, <1>5
  <2>2. SnapshotPending => \E n \in 0..Len(log) : wire[1].sequence = n /\ n < d
    BY <1>1, <1>2, <2>1 DEF SnapshotOK
  <2>3. SnapshotPending' => SnapshotPending
    BY <1>2 DEF SnapshotPending
  <2>4. SnapshotCovers(row)'
    BY <1>2, <2>1, <2>2, <2>3 DEF SnapshotCovers
  <2>5. GuardIsSafe(row)' /\ Follows(row)'
    BY <1>2, <2>1 DEF GuardIsSafe, Follows
  <2> QED
    BY <2>4, <2>5 DEF RowOK
<1> QED
  BY <1>4, <1>5

LEMMA LoadKeepsRow ==
    ASSUME TypeOK, LoadSnapshot, NEW row \in Rows, RowOK(row)
    PROVE  RowOK(row)'
<1> USE DEF subscription, client, bounds
<1>1. /\ wire' = << SnapshotItem >> /\ cursor' = Len(log)
      /\ UNCHANGED <<log, shell, applied, guarded, lost>>
  BY DEF LoadSnapshot
<1>2. PICK d \in Nat : d = Decisive(row) /\ d = Decisive(row)' /\ d <= Len(log)
  BY <1>1, DecisiveIs, SameLogSameRows, WireTypes
<1>3. Current(row)' = Current(row)
  BY <1>1, SameLogSameRows
<1>4. Len(wire') = 1 /\ wire'[1].kind = "snapshot" /\ wire'[1].sequence = Len(log) /\ wire' # <<>>
  BY <1>1 DEF SnapshotItem
<1>5. EventsRight(row)' /\ SnapshotPending'
  BY <1>4 DEF EventsRight, IsEvent, SnapshotPending
<1>6. Arrives(row)'
  BY <1>2, <1>4, <1>5 DEF Arrives
<1>7. GuardIsSafe(row)'
  BY <1>1, <1>2, <1>3 DEF RowOK, GuardIsSafe
<1> QED
  BY <1>5, <1>6, <1>7 DEF RowOK, SnapshotCovers, Follows

(* Events the live stream passes over count as lost.                       *)
LEMMA PassOverKeepsRow ==
    ASSUME TypeOK, StartLive \/ ForwardFails, NEW row \in Rows, RowOK(row)
    PROVE  RowOK(row)'
<1> USE DEF subscription, client, bounds
<1>1. /\ UNCHANGED <<log, wire, shell, applied, guarded>> /\ phase \in {"loaded", "live"}
      /\ lost' = lost \cup (cursor + 1)..cursor'
      /\ cursor \in Nat /\ cursor' \in Nat
  <2>1. CASE StartLive
    BY <2>1, WireTypes DEF StartLive
  <2>2. CASE ForwardFails
    <3>1. (cursor + 1)..(cursor + 1) = {cursor + 1} /\ cursor \in Nat
      BY WireTypes
    <3> QED
      BY <2>2, <3>1 DEF ForwardFails
  <2> QED
    BY <2>1, <2>2
<1>2. PICK d \in Nat : d = Decisive(row) /\ d = Decisive(row)'
  BY <1>1, DecisiveIs, SameLogSameRows
<1>3. Current(row)' = Current(row)
  BY <1>1, SameLogSameRows
<1>4. /\ EventsRight(row)' <=> EventsRight(row)
      /\ Underway(row)' <=> Underway(row)
      /\ SnapshotPending' <=> SnapshotPending
  BY <1>1, <1>2, <1>3 DEF EventsRight, Underway, SnapshotPending, IsEvent
<1>5. Arrives(row)' <=> Arrives(row)
  BY <1>1, <1>2, <1>3, <1>4 DEF Arrives
<1>6. SnapshotCovers(row)'
  BY <1>1, <1>2, <1>4 DEF RowOK, SnapshotCovers
<1>7. GuardIsSafe(row)'
  BY <1>1, <1>2, <1>3 DEF RowOK, GuardIsSafe
<1>8. Follows(row)'
  <2> SUFFICES ASSUME d \notin lost', d <= cursor' PROVE Underway(row) \/ Arrives(row)
    BY <1>2, <1>4, <1>5 DEF Follows
  <2>1. d <= cursor /\ d \notin lost
    BY <1>1
  <2> QED
    BY <1>1, <1>2, <2>1 DEF RowOK, Follows
<1> QED
  BY <1>6, <1>7, <1>8 DEF RowOK

(* What a forwarded event appends is right for a row decided before it; a  *)
(* removal that a pending snapshot has overtaken would be of a command     *)
(* that hits the row once.                                                 *)
LEMMA ForwardKeepsRow ==
    ASSUME WireInv, Forward, NEW row \in Rows, RowOK(row)
    PROVE  RowOK(row)'
<1> USE DEF subscription, client, bounds
<1>0. TypeOK /\ SnapshotOK /\ WireOK
  BY DEF WireInv
<1>1. /\ UNCHANGED <<log, phase, shell, applied, guarded, lost>> /\ phase = "live"
      /\ cursor' = cursor + 1 /\ cursor \in Nat /\ cursor + 1 \in 1..Len(log)
      /\ wire \in Seq(Item) /\ Len(wire) \in Nat /\ Len(log) \in Nat
  BY <1>0, WireTypes DEF Forward
<1>2. PICK d \in Nat : d = Decisive(row) /\ d = Decisive(row)'
  BY <1>0, <1>1, DecisiveIs, SameLogSameRows
<1>3. Current(row)' = Current(row)
  BY <1>1, SameLogSameRows
<1>4. GuardIsSafe(row)'
  BY <1>1, <1>2, <1>3 DEF RowOK, GuardIsSafe
<1>5. CASE wire' = wire
  <2>1. /\ EventsRight(row)' <=> EventsRight(row)
        /\ Underway(row)' <=> Underway(row)
        /\ SnapshotPending' <=> SnapshotPending
    BY <1>2, <1>3, <1>5 DEF EventsRight, Underway, SnapshotPending, IsEvent
  <2>2. Arrives(row)' <=> Arrives(row)
    BY <1>1, <1>2, <1>3, <1>5, <2>1 DEF Arrives
  <2>3. d # cursor + 1
    <3> SUFFICES ASSUME d = cursor + 1 PROVE FALSE
      OBVIOUS
    <3>1. log[d].row = row /\ (Current(row) = 0 => log[d].kind = "archived")
      <4>1. Decisive(row) # 0
        BY <1>1, <1>2
      <4> QED
        BY <1>0, <1>2, <4>1, DecisiveIs
    <3>2. log[d].kind # "archived" /\ Current(row) = 0
      <4>1. \A item : Append(wire, item) # wire
        BY <1>1
      <4> QED
        BY <1>5, <3>1, <4>1 DEF Forward, Current
    <3> QED
      BY <3>1, <3>2
  <2>4. Follows(row)'
    <3> SUFFICES ASSUME d \notin lost, d <= cursor + 1 PROVE Underway(row) \/ Arrives(row)
      BY <1>1, <1>2, <2>1, <2>2 DEF Follows
    <3>1. d <= cursor
      BY <1>1, <2>3
    <3> QED
      BY <1>1, <1>2, <3>1 DEF RowOK, Follows
  <2>5. SnapshotCovers(row)'
    BY <1>2, <1>5, <2>1 DEF RowOK, SnapshotCovers
  <2> QED
    BY <1>4, <2>4, <2>5 DEF RowOK
<1>6. CASE wire' # wire
  <2>1. PICK item \in Item :
              /\ wire' = Append(wire, item) /\ item.kind # "snapshot"
              /\ item.sequence = cursor + 1 /\ item.row = log[cursor + 1].row
              /\ \/ item.version = Current(item.row) /\ item.version # 0
                 \/ item.version = 0 /\ log[cursor + 1].kind = "archived"
              /\ Decisive(item.row) <= cursor + 1 => item.version = Current(item.row)
    BY <1>0, <1>6, ForwardedItem
  <2>2. PICK k \in Nat : k = Len(wire) /\ Len(wire') = k + 1 /\ wire'[k + 1] = item
                         /\ \A i \in 1..k : wire'[i] = wire[i]
    BY <1>1, <2>1
  <2>3. /\ \A i \in 1..k : IsEvent(i)' <=> IsEvent(i)
        /\ IsEvent(k + 1)'
    BY <2>1, <2>2 DEF IsEvent
  <2>4. wire' # <<>> /\ (wire # <<>> => 1 \in 1..k) /\ (wire = <<>> => k = 0)
    BY <1>1, <2>1, <2>2
  <2>5. (SnapshotPending' <=> SnapshotPending) /\ (SnapshotPending => wire'[1] = wire[1])
    BY <2>1, <2>2, <2>4 DEF SnapshotPending
  <2>6. EventsRight(row) /\ (item.row = row => item.version = Current(row)) => EventsRight(row)'
    <3> SUFFICES ASSUME EventsRight(row), item.row = row => item.version = Current(row),
                        NEW i \in 1..Len(wire'), IsEvent(i)', wire'[i].row = row
                 PROVE  wire'[i].version = Current(row)
      BY <1>3 DEF EventsRight
    <3>1. CASE i = k + 1
      BY <2>2, <3>1
    <3>2. CASE i # k + 1
      <4>1. i \in 1..k
        BY <2>2, <3>2
      <4> QED
        BY <2>2, <2>3, <4>1 DEF EventsRight
    <3> QED
      BY <3>1, <3>2
  <2>7. Underway(row) \/ d = cursor + 1 => Underway(row)'
    <3>1. ASSUME Underway(row) PROVE Underway(row)'
      <4>1. PICK i \in 1..k : IsEvent(i) /\ wire[i].sequence = d
        BY <1>2, <2>2, <3>1 DEF Underway
      <4>2. i \in 1..Len(wire') /\ IsEvent(i)' /\ wire'[i].sequence = d
        BY <2>2, <2>3, <4>1
      <4> QED
        BY <1>2, <4>2 DEF Underway
    <3>2. ASSUME d = cursor + 1 PROVE Underway(row)'
      <4>1. k + 1 \in 1..Len(wire') /\ IsEvent(k + 1)' /\ wire'[k + 1].sequence = d
        BY <2>1, <2>2, <2>3, <3>2
      <4> QED
        BY <1>2, <4>1 DEF Underway
    <3> QED
      BY <3>1, <3>2
  <2>8. Follows(row)'
    <3> SUFFICES ASSUME d \notin lost, d <= cursor + 1 PROVE Underway(row)' \/ Arrives(row)'
      BY <1>1, <1>2 DEF Follows
    <3>1. CASE d = cursor + 1
      BY <2>7, <3>1
    <3>2. CASE d # cursor + 1
      <4>1. d <= cursor
        BY <1>1, <3>2
      <4>2. Underway(row) \/ Arrives(row)
        BY <1>1, <1>2, <4>1 DEF RowOK, Follows
      <4>3. ASSUME Arrives(row) PROVE Arrives(row)'
        <5>1. EventsRight(row)'
          BY <1>2, <2>1, <2>6, <4>3 DEF Arrives
        <5> QED
          BY <1>1, <1>2, <1>3, <2>5, <4>3, <5>1 DEF Arrives
      <4> QED
        BY <2>7, <4>2, <4>3
    <3> QED
      BY <3>1, <3>2
  <2>9. SnapshotCovers(row)'
    <3> SUFFICES ASSUME SnapshotPending, d <= wire[1].sequence PROVE EventsRight(row)'
      BY <1>2, <2>5 DEF SnapshotCovers
    <3>1. PICK n \in 0..Len(log) : wire[1].sequence = n /\ Clean(cursor + 1, n)
      BY <1>0, <1>1 DEF SnapshotOK
    <3>2. ASSUME item.row = row PROVE item.version = Current(row)
      <4> SUFFICES ASSUME item.version = 0, log[cursor + 1].kind = "archived", Current(row) # 0
                   PROVE  FALSE
        BY <2>1, <3>2
      <4>1. /\ d = Current(row) /\ cursor + 1 < d /\ log[d].row = row
            /\ log[cursor + 1].row = row
        BY <1>0, <1>1, <1>2, <2>1, <3>2, DecisiveIs
      <4>2. cursor + 1 \in (cursor + 1)..n /\ d \in (cursor + 1)..n /\ cursor + 1 # d
        BY <1>1, <3>1, <4>1
      <4>3. log[cursor + 1].kind = "changed"
        BY <3>1, <4>1, <4>2 DEF Clean
      <4> QED
        BY <4>3
    <3>3. EventsRight(row)
      BY <1>2 DEF RowOK, SnapshotCovers
    <3> QED
      BY <2>6, <3>2, <3>3
  <2> QED
    BY <1>4, <2>8, <2>9 DEF RowOK
<1> QED
  BY <1>5, <1>6

(* What the arrival of the first item leaves of a row: what the client     *)
(* shows, and the events behind.                                           *)
LEMMA DeliverKeepsRow ==
    ASSUME WireInv, Deliver, NEW row \in Rows, RowOK(row)
    PROVE  RowOK(row)'
<1> USE DEF client, bounds
<1> DEFINE item == wire[1]
<1>0. TypeOK /\ SnapshotOK /\ WireOK
  BY DEF WireInv
<1>1. /\ 1 \in 1..Len(wire) /\ Head(wire) = item /\ wire # <<>>
      /\ Len(wire') = Len(wire) - 1 /\ Len(wire) \in Nat
      /\ \A i \in 1..Len(wire') :
            i + 1 \in 1..Len(wire) /\ wire'[i] = wire[i + 1] /\ IsEvent(i)' /\ IsEvent(i + 1)
      /\ ~SnapshotPending' /\ UNCHANGED <<log, phase, cursor>>
      /\ item \in Item /\ applied.sequence \in Nat /\ item.sequence \in Nat
      /\ cursor \in 0..Len(log) /\ Len(log) \in Nat /\ shell \in [Rows -> Nat]
      /\ applied.updatedAt \in Nat
  BY <1>0, Delivered, WireTypes DEF TypeOK
<1>2. PICK d \in Nat : d = Decisive(row) /\ d = Decisive(row)'
  BY <1>0, <1>1, DecisiveIs, SameLogSameRows
<1>3. Current(row)' = Current(row)
  BY <1>1, SameLogSameRows
<1>4. phase \in {"loaded", "live"}
  BY <1>0, <1>1 DEF WireOK
<1>5. SnapshotCovers(row)'
  BY <1>1 DEF SnapshotCovers
<1>6. EventsRight(row) => EventsRight(row)'
  BY <1>1, <1>3 DEF EventsRight
<1>7. ASSUME NEW i \in 1..Len(wire), IsEvent(i), wire[i].sequence = d
      PROVE  /\ i # 1 => Underway(row)'
             /\ i = 1 => EventsRight(row)' /\ item.row = row /\ item.version = Current(row)
  <2>1. ASSUME i # 1 PROVE Underway(row)'
    <3>1. PICK j \in 1..Len(wire') : j + 1 = i
      <4>1. i - 1 \in 1..Len(wire') /\ (i - 1) + 1 = i
        BY <1>1, <2>1
      <4> QED
        BY <4>1
    <3> QED
      BY <1>1, <1>2, <1>7, <3>1 DEF Underway
  <2>2. ASSUME i = 1 PROVE EventsRight(row)' /\ item.row = row /\ item.version = Current(row)
    <3>1. item.row = row /\ item.version = Current(row)
      <4>1. PICK n \in 1..cursor, r \in Rows :
               /\ item.sequence = n /\ item.row = r /\ log[n].row = r
               /\ Decisive(r) <= n => item.version = Current(r)
        BY <1>0, <1>7, <2>2 DEF WireOK
      <4>2. n = d /\ d # 0
        BY <1>7, <2>2, <4>1
      <4>3. log[d].row = row
        BY <1>0, <1>2, <4>2, DecisiveIs
      <4> QED
        <5>1. r = row
          BY <4>1, <4>2, <4>3
        <5>2. Decisive(row) <= n
          BY <1>2, <4>2
        <5> QED
          BY <4>1, <5>1, <5>2
    <3>2. ASSUME NEW j \in 1..Len(wire'), wire'[j].row = row PROVE wire'[j].version = Current(row)
      <4>1. /\ j + 1 \in 1..Len(wire) /\ 1 < j + 1 /\ IsEvent(j + 1) /\ wire'[j] = wire[j + 1]
            /\ wire[j + 1].sequence \in Nat
        BY <1>0, <1>1, WireTypes
      <4>2. wire[1].sequence < wire[j + 1].sequence
        BY <1>0, <1>1, <1>7, <2>2, <4>1 DEF WireOK
      <4>3. d <= wire[j + 1].sequence
        BY <1>1, <1>7, <2>2, <4>1, <4>2
      <4>4. Decisive(row) <= wire[j + 1].sequence => wire[j + 1].version = Current(row)
        BY <1>0, <3>2, <4>1 DEF WireOK
      <4> QED
        BY <1>2, <4>1, <4>3, <4>4
    <3>3. EventsRight(row)'
      BY <1>3, <3>2 DEF EventsRight
    <3> QED
      BY <3>1, <3>3
  <2> QED
    BY <2>1, <2>2
<1>8. Underway(row) => \E i \in 1..Len(wire) : IsEvent(i) /\ wire[i].sequence = d
  BY <1>2 DEF Underway
<1>9. EventsRight(row)' /\ shell'[row] = Current(row) => Arrives(row)'
  BY <1>1, <1>3 DEF Arrives
<1>10. d \notin lost /\ d <= cursor => Underway(row) \/ Arrives(row)
  BY <1>2, <1>4 DEF RowOK, Follows
<1>11. CASE ApplySnapshot(item)
  <2>1. /\ shell' = item.rows /\ applied'.sequence = item.sequence /\ guarded' = guarded
        /\ lost' = {i \in lost : i > item.sequence} /\ ~IsEvent(1) /\ SnapshotPending
    BY <1>1, <1>11 DEF ApplySnapshot, Show, SnapshotPending, IsEvent
  <2>2. d <= item.sequence => shell'[row] = Current(row)
    <3>1. PICK n \in 0..Len(log) : item.sequence = n /\ item.rows = Table(n)
      BY <1>0, <2>1 DEF SnapshotOK
    <3> QED
      BY <1>0, <1>2, <2>1, <3>1, DecisiveIs DEF Table
  <2>3. GuardIsSafe(row)'
    BY <1>2, <1>3, <2>1, <2>2 DEF GuardIsSafe
  <2>4. ASSUME d \notin lost', d <= cursor PROVE Underway(row)' \/ Arrives(row)'
    <3>1. CASE d <= item.sequence
      <4>1. EventsRight(row)
        BY <1>2, <2>1, <3>1 DEF RowOK, SnapshotCovers
      <4> QED
        BY <1>6, <1>9, <2>2, <3>1, <4>1
    <3>2. CASE ~(d <= item.sequence)
      <4>1. d \notin lost
        BY <1>1, <2>1, <2>4, <3>2
      <4>2. ~Arrives(row)
        BY <1>2, <2>1, <3>2 DEF Arrives
      <4> QED
        BY <1>7, <1>8, <1>10, <2>1, <2>4, <4>1, <4>2
    <3> QED
      BY <3>1, <3>2
  <2> QED
    BY <1>1, <1>2, <1>5, <2>3, <2>4 DEF RowOK, Follows
<1>12. CASE ApplyEvent(item)
  <2>1. /\ shell' = [shell EXCEPT ![item.row] = item.version] /\ item.row \in Rows
        /\ applied'.sequence = item.sequence /\ guarded' = guarded /\ lost' = lost
        /\ IsEvent(1) /\ ~SnapshotPending
        /\ guarded => applied.sequence < item.sequence
    <3>1. item.row \in Rows /\ applied \in [sequence : Nat, updatedAt : Nat]
      BY <1>0, <1>1, <1>12 DEF ApplyEvent, Item, TypeOK
    <3> QED
      BY <1>12, <3>1 DEF ApplyEvent, Show, ShouldApplyEvent, SnapshotPending, IsEvent
  <2>2. /\ item.row = row => shell'[row] = item.version
        /\ item.row # row => shell'[row] = shell[row]
    BY <1>1, <2>1
  <2>3. PICK s \in 1..cursor :
           /\ item.sequence = s /\ log[s].row = item.row
           /\ item.row = row /\ d <= s => item.version = Current(row)
    <3>1. PICK n \in 1..cursor, r \in Rows :
             /\ item.sequence = n /\ item.row = r /\ log[n].row = r
             /\ Decisive(r) <= n => item.version = Current(r)
      BY <1>0, <1>1, <2>1 DEF WireOK
    <3> QED
      BY <1>2, <3>1
  <2>4. EventsRight(row) => (item.row = row => item.version = Current(row))
    BY <1>1, <2>1 DEF EventsRight
  <2>5. Arrives(row) => shell'[row] = Current(row)
    BY <2>1, <2>2, <2>4 DEF Arrives
  <2>6. ASSUME guarded, d \notin lost, d <= s PROVE shell'[row] = Current(row)
    <3>1. CASE item.row = row
      BY <2>2, <2>3, <2>6, <3>1
    <3>2. CASE item.row # row /\ d <= applied.sequence
      BY <1>2, <2>2, <2>6, <3>2 DEF RowOK, GuardIsSafe
    <3>3. CASE item.row # row /\ ~(d <= applied.sequence)
      <4>1. d # s
        <5>1. d # 0 => log[d].row = row
          BY <1>0, <1>2, DecisiveIs
        <5> QED
          BY <2>3, <3>3, <5>1
      <4>2. d < s /\ d <= cursor
        BY <1>1, <2>3, <2>6, <4>1
      <4>3. ASSUME NEW i \in 1..Len(wire), IsEvent(i), wire[i].sequence = d PROVE FALSE
        <5>1. i # 1
          BY <2>3, <4>1, <4>3
        <5>2. 1 < i
          BY <1>1, <5>1
        <5>3. wire[1].sequence < wire[i].sequence
          BY <1>0, <1>1, <2>1, <4>3, <5>2 DEF WireOK
        <5> QED
          BY <1>1, <2>3, <4>2, <4>3, <5>3
      <4>4. Arrives(row)
        BY <1>8, <1>10, <2>6, <4>2, <4>3
      <4> QED
        BY <2>5, <4>4
    <3> QED
      BY <3>1, <3>2, <3>3
  <2>7. GuardIsSafe(row)'
    BY <1>2, <1>3, <2>1, <2>3, <2>6 DEF GuardIsSafe
  <2>8. ASSUME d \notin lost, d <= cursor PROVE Underway(row)' \/ Arrives(row)'
    <3>1. CASE Underway(row)
      BY <1>7, <1>8, <1>9, <2>2, <3>1
    <3>2. CASE Arrives(row)
      BY <1>6, <1>9, <2>5, <3>2 DEF Arrives
    <3> QED
      BY <1>10, <2>8, <3>1, <3>2
  <2> QED
    BY <1>1, <1>2, <1>5, <2>1, <2>7, <2>8 DEF RowOK, Follows
<1>13. CASE RefuseItem(item)
  <2>1. UNCHANGED <<shell, applied, guarded, lost>>
    BY <1>13 DEF RefuseItem
  <2>2. guarded /\ item.sequence <= applied.sequence
    BY <1>1, <1>13 DEF RefuseItem, ShouldApplySnapshot, ShouldApplyEvent
  <2>3. GuardIsSafe(row)'
    BY <1>2, <1>3, <2>1 DEF RowOK, GuardIsSafe
  <2>4. d \notin lost /\ d <= item.sequence => shell[row] = Current(row)
    <3>1. d <= item.sequence => d <= applied.sequence
      BY <1>1, <2>2
    <3> QED
      BY <1>2, <2>2, <3>1 DEF RowOK, GuardIsSafe
  <2>5. ASSUME d \notin lost, d <= cursor PROVE Underway(row)' \/ Arrives(row)'
    <3>1. CASE Underway(row)
      <4>1. PICK i \in 1..Len(wire) : IsEvent(i) /\ wire[i].sequence = d
        BY <1>8, <3>1
      <4>2. CASE i # 1
        BY <1>7, <4>1, <4>2
      <4>3. CASE i = 1
        BY <1>1, <1>7, <1>9, <2>1, <2>4, <2>5, <4>1, <4>3
      <4> QED
        BY <4>2, <4>3
    <3>2. CASE Arrives(row)
      <4>1. shell[row] = Current(row)
        BY <1>2, <2>4, <2>5, <3>2 DEF Arrives
      <4> QED
        BY <1>6, <1>9, <2>1, <3>2, <4>1 DEF Arrives
    <3> QED
      BY <1>10, <2>5, <3>1, <3>2
  <2> QED
    BY <1>1, <1>2, <1>5, <2>1, <2>3, <2>5 DEF RowOK, Follows
<1> QED
  BY <1>1, <1>11, <1>12, <1>13 DEF Deliver

LEMMA RowStep ==
    ASSUME WireInv, [Next]_vars, NEW row \in Rows, RowOK(row)
    PROVE  RowOK(row)'
<1> USE DEF subscription, client, bounds
<1>0. TypeOK /\ WireOK
  BY DEF WireInv
<1>1. CASE Commit
  BY <1>1, CommitKeepsRow
<1>2. CASE LoadSnapshot
  BY <1>0, <1>2, LoadKeepsRow
<1>3. CASE StartLive \/ ForwardFails
  BY <1>0, <1>3, PassOverKeepsRow
<1>4. CASE Forward
  BY <1>4, ForwardKeepsRow
<1>5. CASE Deliver
  BY <1>5, DeliverKeepsRow
<1>6. CASE Publish \/ Subscribe \/ LoadFails \/ UNCHANGED vars
  <2>1. /\ UNCHANGED <<log, shell, applied, guarded, lost, wire, cursor>>
        /\ phase' \in {"loaded", "live"} => phase' = phase
    BY <1>6 DEF Publish, Stream!PublishNext, Subscribe, LoadFails, vars
  <2>2. Decisive(row)' = Decisive(row) /\ Current(row)' = Current(row)
    BY <2>1, SameLogSameRows
  <2> QED
    BY <2>1, <2>2, SameRow
<1>7. CASE Disconnect \/ ServerRestarts
  <2>1. UNCHANGED <<log, shell, applied, guarded, lost>> /\ wire' = <<>> /\ phase' = "closed"
    BY <1>7 DEF Disconnect, ServerRestarts, Close, Stream!Restart
  <2>2. Decisive(row)' = Decisive(row) /\ Current(row)' = Current(row)
    BY <2>1, SameLogSameRows
  <2> QED
    BY <2>1, <2>2, ClosedRow
<1> QED
  BY <1>1, <1>2, <1>3, <1>4, <1>5, <1>6, <1>7 DEF Next, Server, Client

LEMMA InitialRows == Init => \A row \in Rows : RowOK(row)
<1> SUFFICES ASSUME Init, NEW row \in Rows PROVE RowOK(row)
  OBVIOUS
<1>1. log = <<>> /\ Len(log) = 0 /\ wire = <<>> /\ shell[row] = 0 /\ phase = "closed"
  BY DEF Init, Stream!Init
<1>2. Current(row) = 0
  BY <1>1, RowIs DEF Current
<1> QED
  BY <1>1, <1>2 DEF RowOK, SnapshotCovers, SnapshotPending, GuardIsSafe, Follows

-----------------------------------------------------------------------------
(* The theorems.                                                           *)

(* Type correctness: the log holds events on known threads, the live       *)
(* stream of the subscription is never ahead of the log, and the wire      *)
(* holds shell items.                                                      *)
THEOREM TypeCorrectness == Spec => []TypeOK
<1>1. WireInv => TypeOK
  BY DEF WireInv
<1> QED
  BY <1>1, WireInvariance, PTL

(* A row on display never goes back to content the client has had newer    *)
(* (store.ts and shellReducer.ts), for both clients and whatever is        *)
(* lost, late, sent again or refused.                                      *)
THEOREM RowsNeverOlder == Spec => []NeverOlder
<1>1. Init => SeenOK
  BY InitialSeen
<1>2. WireInv /\ SeenOK /\ [Next]_vars => SeenOK'
  BY SeenStep
<1>3. SeenOK => NeverOlder
  BY DEF SeenOK, SeenRow, NeverOlder
<1> QED
  BY <1>1, <1>2, <1>3, WireInvariance, PTL DEF Spec

(* A snapshot is refused by a client that is not up to date with it only   *)
(* if the stamp of its last event is no later than one already applied     *)
(* (shouldApplyProjectionSnapshot).                                        *)
THEOREM RepairedBySnapshot == Spec => SnapshotRepairs
<1> DEFINE Refused == Deliver /\ Head(wire).kind = "snapshot" /\ shell' # Head(wire).rows
           Stale == log[Head(wire).sequence].at <= applied.updatedAt
<1>1. ASSUME WireInv, Refused PROVE Stale
  <2>1. TypeOK /\ WireOK /\ SnapshotOK /\ AppliedOK
    BY <1>1 DEF WireInv
  <2>2. /\ Head(wire) = wire[1] /\ wire[1] \in Item /\ SnapshotPending /\ log \in Seq(RowEvent)
        /\ wire[1].sequence \in Nat /\ wire[1].updatedAt \in Nat
        /\ applied.sequence \in Nat /\ applied.updatedAt \in Nat
    <3>1. wire # <<>> /\ 1 \in 1..Len(wire) /\ Head(wire) = wire[1]
      BY <1>1, <2>1, Delivered
    <3>2. SnapshotPending /\ ~IsEvent(1)
      BY <1>1, <3>1 DEF SnapshotPending, IsEvent
    <3> QED
      BY <2>1, <3>1, <3>2, WireTypes
  <2>3. RefuseItem(wire[1])
    BY <1>1, <2>2 DEF Deliver, ApplySnapshot, ApplyEvent, Show
  <2>4. PICK n \in 0..Len(log) :
           /\ wire[1].sequence = n /\ applied.sequence <= n /\ wire[1].rows = Table(n)
           /\ n > 0 => log[n].at <= wire[1].updatedAt
    BY <2>1, <2>2 DEF SnapshotOK
  <2>5. applied.sequence = n /\ wire[1].updatedAt <= applied.updatedAt /\ shell' = shell
    BY <1>1, <2>2, <2>3, <2>4 DEF RefuseItem, ShouldApplySnapshot, client
  <2>6. n # 0
    <3> SUFFICES ASSUME n = 0 PROVE FALSE
      OBVIOUS
    <3>1. \A row \in Rows : Row(row, 0) = 0
      BY RowIs
    <3>2. shell = Table(0)
      BY <2>1, <2>5, <3>1 DEF AppliedOK, Table, TypeOK
    <3> QED
      BY <1>1, <2>2, <2>4, <2>5, <3>2
  <2>7. log[n].at \in Nat /\ log[n].at <= wire[1].updatedAt
    BY <2>2, <2>4, <2>6, LogEvents
  <2> QED
    BY <2>2, <2>4, <2>5, <2>7
<1>2. WireInv => [Refused => Stale]_vars
  BY <1>1
<1>3. [][Refused => Stale]_vars <=> SnapshotRepairs
  BY DEF SnapshotRepairs
<1> HIDE DEF Refused, Stale
<1> QED
  BY <1>2, <1>3, WireInvariance, PTL

(* When everything sent has been received, a row of the client is the row  *)
(* of the server unless the event that decides it was lost in the seam     *)
(* between snapshot and subscription or by a read that failed: neither     *)
(* late events, nor the refusals of the web store, nor reconnections and   *)
(* restarts make a row wrong.                                              *)
THEOREM StaleOnlyByLostEvents == Spec => []StaleOnlyByLoss
<1> DEFINE RowsOK == \A row \in Rows : RowOK(row)
<1>1. Init => RowsOK
  BY InitialRows
<1>2. WireInv /\ RowsOK /\ [Next]_vars => RowsOK'
  BY RowStep
<1>3. WireInv /\ RowsOK => StaleOnlyByLoss
  <2> SUFFICES ASSUME WireInv, RowsOK, Settled, NEW row \in Rows, Decisive(row) \notin lost
               PROVE  shell[row] = Row(row, Len(log))
    BY DEF StaleOnlyByLoss
  <2>1. Len(wire) = 0 /\ ~SnapshotPending /\ phase = "live" /\ cursor = Len(log)
    BY DEF Settled, SnapshotPending
  <2>2. Decisive(row) <= cursor
    BY <2>1, DecisiveIs, WireTypes DEF WireInv
  <2>3. ~Underway(row)
    BY <2>1 DEF Underway
  <2>4. Arrives(row)
    BY <2>1, <2>2, <2>3 DEF RowOK, Follows
  <2> QED
    BY <2>1, <2>4 DEF Arrives, Current
<1> HIDE DEF RowsOK
<1> QED
  BY <1>1, <1>2, <1>3, WireInvariance, PTL DEF Spec

=============================================================================
