--------------------------- MODULE ContentProofs ---------------------------
(***************************************************************************)
(* Proofs about what is computed from the events of a note: the content of *)
(* the note object at every version, whatever snapshots there are, the     *)
(* index of checkboxes that follows the entries of each event, and what    *)
(* replaying a diff makes of a text, by each way there is to apply it.     *)
(***************************************************************************)
EXTENDS CoreNote, TodoIndex, SequenceTheorems, FiniteSetTheorems, TLAPS

Replaying == INSTANCE Folding WITH op <- applyEvent

(* FoldLeft of applyEvent, as the theorems of Folding speak of it.         *)
LEMMA ReplayIsAFold ==
  ASSUME NEW base, NEW stream
  PROVE  FoldLeft(applyEvent, base, stream) = Replaying!Folded(base, stream)
  BY DEF Replaying!Folded, FoldLeft, Replaying!FoldLeft,
         MapThenFoldSet, Replaying!MapThenFoldSet, Max, Replaying!Max

-----------------------------------------------------------------------------
(* Every snapshot holds the replay of the stream up to its sequence.       *)

Replayed(stream, t) == Replaying!Folded(<< >>, SubSeq(stream, 1, t))

IsList(s) == \E S : s \in Seq(S)

IsReplay(snap, stream) ==
  snap.sequence \in 1..Len(stream) /\ snap.lines = Replayed(stream, snap.sequence)

CoreInv ==
  /\ IsList(events) /\ IsList(snapshots)
  /\ \A k \in DOMAIN snapshots : IsReplay(snapshots[k], events)

(* The snapshot that a replay starts from is none, or one of those at or   *)
(* before the version asked for.                                           *)
LEMMA NearestIsUsable ==
  ASSUME NEW snaps, NEW t, Len(snaps) \in Nat, DOMAIN snaps = 1..Len(snaps)
  PROVE  \/ nearestSnapshot(snaps, t) = [sequence |-> 0, lines |-> << >>]
         \/ \E k \in 1..Len(snaps) : nearestSnapshot(snaps, t) = snaps[k] /\ snaps[k].sequence <= t
<1> DEFINE usable == {k \in DOMAIN snaps : \A j \in 1..k : snaps[j].sequence <= t}
<1>1. SUFFICES ASSUME usable # {}
      PROVE  \E k \in 1..Len(snaps) : snaps[Cardinality(usable)] = snaps[k] /\ snaps[k].sequence <= t
  BY DEF nearestSnapshot
<1> DEFINE Beyond == {k \in Nat : k \notin usable /\ k # 0}
<1>2. Len(snaps) + 1 \in Beyond
  OBVIOUS
<1>3. PICK b \in Beyond : \A y \in Beyond : b <= y
  BY <1>2, Replaying!NatMin
<1>4. b - 1 \in Nat /\ usable = 1..(b - 1)
  <2>1. b \in Nat /\ b # 0 /\ b \notin usable
    OBVIOUS
  <2>2. \A k \in 1..(b - 1) : k \in usable
    BY <1>3, <2>1
  <2>3. \A k \in usable : k \in 1..(b - 1)
    <3> SUFFICES ASSUME NEW k \in usable, k >= b PROVE FALSE
      BY <2>1
    <3>1. k \in Nat /\ k <= Len(snaps) /\ b \in DOMAIN snaps /\ 1..b \subseteq 1..k
      BY <2>1
    <3>2. b \in usable
      BY <3>1
    <3> QED BY <3>2, <2>1
  <2> QED BY <2>1, <2>2, <2>3
<1>5. Cardinality(usable) = b - 1
  <2>1. Cardinality(1..(b - 1)) = b - 1
    BY <1>4, FS_Interval
  <2> QED BY <2>1, <1>4
<1>6. b - 1 \in usable
  BY <1>1, <1>4
<1>7. b - 1 \in 1..Len(snaps) /\ snaps[b - 1].sequence <= t
  BY <1>4, <1>6
<1> QED BY <1>5, <1>7

(* Materialising a version through the snapshots is replaying the stream.  *)
LEMMA LinesAreTheReplay ==
  ASSUME CoreInv, NEW t \in 0..HeadSequence
  PROVE  linesAt(events, snapshots, t) = Replayed(events, t)
<1> DEFINE start == nearestSnapshot(snapshots, t)
<1>1. PICK S : events \in Seq(S)
  BY DEF CoreInv, IsList
<1>2. start.sequence \in 0..t /\ start.lines = Replayed(events, start.sequence)
  <2>1. CASE start = [sequence |-> 0, lines |-> << >>]
    <3>1. SubSeq(events, 1, 0) = << >>
      BY <1>1
    <3>2. Replayed(events, 0) = << >>
      BY <3>1, Replaying!FoldOfNothing DEF Replayed
    <3> QED BY <2>1, <3>2 DEF HeadSequence
  <2>2. CASE \E k \in 1..Len(snapshots) : start = snapshots[k] /\ snapshots[k].sequence <= t
    BY <2>2, <1>1 DEF CoreInv, IsList, IsReplay, HeadSequence
  <2>3. Len(snapshots) \in Nat /\ DOMAIN snapshots = 1..Len(snapshots)
    BY DEF CoreInv, IsList
  <2> HIDE DEF start
  <2> QED BY <2>1, <2>2, <2>3, NearestIsUsable DEF start
<1> DEFINE q == start.sequence
           a == SubSeq(events, 1, q)
           b == SubSeq(events, q + 1, t)
<1> HIDE DEF start
<1>3. q \in Nat /\ t \in Nat /\ q <= t /\ t <= Len(events)
  BY <1>2, <1>1 DEF HeadSequence
<1> HIDE DEF q
<1>4. SubSeq(events, 1, t) = a \o b
  BY <1>1, <1>3
<1>5. a \in Seq(S) /\ b \in Seq(S)
  BY <1>1, <1>3
<1>6. Replayed(events, q) = Replaying!Folded(<< >>, a)
  BY DEF Replayed
<1>7. linesAt(events, snapshots, t) = Replaying!Folded(start.lines, b)
  BY ReplayIsAFold DEF linesAt, start, q
<1> HIDE DEF a, b
<1>8. Replaying!Folded(<< >>, a \o b) = Replaying!Folded(Replaying!Folded(<< >>, a), b)
  BY <1>5, Replaying!FoldOfConcat
<1> QED BY <1>2, <1>4, <1>6, <1>7, <1>8 DEF q, Replayed

(* A stream with one event more replays as before up to where it was.      *)
LEMMA ReplayOfLonger ==
  ASSUME NEW S, NEW stream \in Seq(S), NEW e, NEW snap, IsReplay(snap, stream)
  PROVE  IsReplay(snap, Append(stream, e))
<1> DEFINE t == snap.sequence
<1>1. t \in Nat /\ t <= Len(stream) /\ t \in 1..Len(stream)
  BY DEF IsReplay
<1> HIDE DEF t
<1>2. stream \in Seq(S \cup {e}) /\ Append(stream, e) \in Seq(S \cup {e})
  OBVIOUS
<1>3. SubSeq(Append(stream, e), 1, t) = SubSeq(stream, 1, t)
  BY <1>1, <1>2
<1>4. t \in 1..Len(Append(stream, e))
  BY <1>1
<1> QED BY <1>3, <1>4 DEF IsReplay, Replayed, t

LEMMA CoreInvInit == CoreInit => CoreInv
<1> SUFFICES ASSUME CoreInit PROVE CoreInv
  OBVIOUS
<1>1. << >> \in Seq({})
  OBVIOUS
<1>2. IsList(<< >>) /\ DOMAIN << >> = {}
  BY <1>1 DEF IsList
<1> QED BY <1>2 DEF CoreInit, CoreInv

(* An event that is applied leaves the snapshots as they are.              *)
LEMMA CoreInvApply ==
  ASSUME CoreInv, NEW s, NEW p, ApplyEvent(s, p)
  PROVE  CoreInv'
<1>1. PICK S : events \in Seq(S)
  BY DEF CoreInv, IsList
<1>2. events' = Append(events, p) /\ snapshots' = snapshots
  BY DEF ApplyEvent
<1>3. Append(events, p) \in Seq(S \cup {p})
  BY <1>1
<1>4. IsList(events') /\ IsList(snapshots')
  BY <1>2, <1>3 DEF CoreInv, IsList
<1>5. \A k \in DOMAIN snapshots : IsReplay(snapshots[k], Append(events, p))
  BY <1>1, ReplayOfLonger DEF CoreInv
<1> QED BY <1>2, <1>4, <1>5 DEF CoreInv

(* A snapshot that is built holds what materialising gives, wherever it is *)
(* put among the others.                                                   *)
LEMMA CoreInvBuild ==
  ASSUME CoreInv, NEW s, BuildSnapshot(s)
  PROVE  CoreInv'
<1> DEFINE new == [sequence |-> s, lines |-> linesAt(events, snapshots, s)]
<1>1. s \in 1..HeadSequence /\ events' = events /\ snapshots' = WithSnapshot(new)
  BY DEF BuildSnapshot
<1>2. HeadSequence \in Nat
  BY DEF CoreInv, IsList, HeadSequence
<1>3. IsReplay(new, events)
  <2>1. s \in 0..HeadSequence
    BY <1>1, <1>2
  <2> QED BY <2>1, <1>1, LinesAreTheReplay DEF IsReplay, HeadSequence
<1> HIDE DEF new
<1>4. PICK S : snapshots \in Seq(S)
  BY DEF CoreInv, IsList
<1> DEFINE Good == {x \in S \cup {new} : IsReplay(x, events)}
<1>5. snapshots \in Seq(Good) /\ new \in Good
  BY <1>3, <1>4 DEF CoreInv
<1> HIDE DEF Good
<1>6. snapshots' \in Seq(Good)
  <2> DEFINE same == {k \in DOMAIN snapshots : snapshots[k].sequence = new.sequence}
             after == {k \in DOMAIN snapshots : snapshots[k].sequence > new.sequence}
             place == CHOOSE k \in after : \A j \in after : k <= j
  <2>1. CASE same # {}
    <3>1. snapshots' = [k \in DOMAIN snapshots |-> IF k \in same THEN new ELSE snapshots[k]]
      BY <1>1, <2>1 DEF WithSnapshot
    <3> QED BY <3>1, <1>5
  <2>2. CASE same = {} /\ after # {}
    <3>1. snapshots' = InsertAt(snapshots, place, new)
      BY <1>1, <2>2 DEF WithSnapshot
    <3>2. place \in 1..Len(snapshots)
      <4>1. after \in SUBSET Nat
        BY <1>5
      <4>2. \E k \in after : \A j \in after : k <= j
        BY <2>2, <4>1, Replaying!NatMin
      <4>3. place \in after
        BY <4>2
      <4> QED BY <4>3, <1>5
    <3> HIDE DEF place
    <3>3. InsertAt(snapshots, place, new)
            = SubSeq(snapshots, 1, place - 1) \o <<new>> \o SubSeq(snapshots, place, Len(snapshots))
      BY DEF InsertAt
    <3>4. /\ SubSeq(snapshots, 1, place - 1) \in Seq(Good) /\ <<new>> \in Seq(Good)
          /\ SubSeq(snapshots, place, Len(snapshots)) \in Seq(Good)
      BY <3>2, <1>5
    <3> QED BY <3>1, <3>3, <3>4
  <2>3. CASE same = {} /\ after = {}
    <3>1. snapshots' = Append(snapshots, new)
      BY <1>1, <2>3 DEF WithSnapshot
    <3> QED BY <3>1, <1>5
  <2> QED BY <2>1, <2>2, <2>3
<1>7. IsList(events') /\ IsList(snapshots')
  BY <1>1, <1>6 DEF CoreInv, IsList
<1> QED BY <1>1, <1>6, <1>7 DEF CoreInv, Good

LEMMA CoreInvNext == CoreInv /\ [CoreNext]_coreVars => CoreInv'
<1> SUFFICES ASSUME CoreInv, [CoreNext]_coreVars PROVE CoreInv'
  OBVIOUS
<1>1. CASE ApplyRaw
  BY <1>1, CoreInvApply DEF ApplyRaw
<1>2. CASE ApplyDiff
  BY <1>2, CoreInvApply DEF ApplyDiff
<1>3. CASE \E s \in 1..MaxApplied : BuildSnapshot(s)
  BY <1>3, CoreInvBuild
<1>4. CASE UNCHANGED coreVars
  BY <1>4 DEF CoreInv, coreVars
<1> QED BY <1>1, <1>2, <1>3, <1>4 DEF CoreNext

(* Materialising any version of a note through its snapshots gives what    *)
(* replaying its events from the first one gives, for all events and       *)
(* however many snapshots of whatever versions there are                   *)
(* (SnapshotsAreOnlyAnOptimisation; linesAt and BuildSnapshot).            *)
THEOREM EveryVersionIsItsReplay == CoreSpec => []SnapshotsAreOnlyAnOptimisation
<1>1. CoreInv => SnapshotsAreOnlyAnOptimisation
  <2> SUFFICES ASSUME CoreInv, NEW t \in 0..HeadSequence
               PROVE  linesAt(events, snapshots, t) = ReplayFromScratch(t)
    BY DEF SnapshotsAreOnlyAnOptimisation
  <2>1. ReplayFromScratch(t) = Replayed(events, t)
    BY ReplayIsAFold DEF ReplayFromScratch, Replayed
  <2> QED BY <2>1, LinesAreTheReplay
<1> QED BY <1>1, CoreInvInit, CoreInvNext, PTL DEF CoreSpec
-----------------------------------------------------------------------------
(***************************************************************************)
(* The index of checkboxes: the rows follow the replay of an event entry   *)
(* by entry, one statement after the other.                                *)
(***************************************************************************)
Stepping == INSTANCE Folding WITH op <- ApplyShifted

(* What the replay of an event has after some of its entries.              *)
Reached(acc) == \E S : acc \in [lines : Seq(S), offset : Int, panicked : BOOLEAN]

(* The lines after each kind of edit, line by line.                        *)
LineCameIn(new, lines, i, text) ==
  /\ Len(new) = Len(lines) + 1
  /\ new[i] = text
  /\ \A l \in 1..(i - 1) : new[l] = lines[l]
  /\ \A l \in (i + 1)..(Len(lines) + 1) : new[l] = lines[l - 1]

LEMMA LinesAfterInsert ==
  ASSUME NEW S, NEW lines \in Seq(S), NEW i \in 1..(Len(lines) + 1), NEW text
  PROVE  /\ InsertAt(lines, i, text) \in Seq(S \cup {text})
         /\ LineCameIn(InsertAt(lines, i, text), lines, i, text)
<1>1. Len(lines) \in Nat /\ i \in Nat
  OBVIOUS
<1> DEFINE T == S \cup {text}
           a == SubSeq(lines, 1, i - 1)
           b == SubSeq(lines, i, Len(lines))
<1>2. lines \in Seq(T) /\ text \in T
  OBVIOUS
<1>3. a \in Seq(T) /\ Len(a) = i - 1 /\ \A l \in 1..(i - 1) : a[l] = lines[l]
  BY <1>1, <1>2
<1>4. b \in Seq(T) /\ Len(b) = Len(lines) + 1 - i
      /\ \A l \in 1..(Len(lines) + 1 - i) : b[l] = lines[l + i - 1]
  BY <1>1, <1>2
<1> HIDE DEF a, b, T
<1>5. (a \o <<text>>) \in Seq(T) /\ Len(a \o <<text>>) = i
      /\ \A l \in 1..i : (a \o <<text>>)[l] = IF l < i THEN a[l] ELSE text
  BY <1>1, <1>2, <1>3
<1> DEFINE ab == a \o <<text>>
<1> HIDE DEF ab
<1>6. ab \in Seq(T) /\ Len(ab) = i
  BY <1>5 DEF ab
<1>7. ab \o b \in Seq(T) /\ Len(ab \o b) = Len(lines) + 1
      /\ \A l \in 1..(Len(lines) + 1) : (ab \o b)[l] = IF l <= i THEN ab[l] ELSE b[l - i]
  <2>1. Len(ab) + Len(b) = Len(lines) + 1
    BY <1>1, <1>4, <1>6
  <2>2. ab \o b \in Seq(T) /\ Len(ab \o b) = Len(ab) + Len(b)
        /\ \A l \in 1..(Len(ab) + Len(b)) : (ab \o b)[l] = IF l <= Len(ab) THEN ab[l] ELSE b[l - Len(ab)]
    BY <1>4, <1>6, ConcatProperties
  <2> QED BY <1>6, <2>1, <2>2
<1>8. \A l \in 1..(Len(lines) + 1) : l > i => b[l - i] = lines[l - 1]
  BY <1>1, <1>4
<1>9. \A l \in 1..(Len(lines) + 1) : l <= i => ab[l] = IF l < i THEN lines[l] ELSE text
  BY <1>1, <1>2, <1>3, <1>5 DEF ab
<1>10. InsertAt(lines, i, text) = ab \o b
  BY DEF InsertAt, ab, a, b
<1>11. /\ (ab \o b)[i] = text
       /\ \A l \in 1..(i - 1) : (ab \o b)[l] = lines[l]
       /\ \A l \in (i + 1)..(Len(lines) + 1) : (ab \o b)[l] = lines[l - 1]
  BY <1>1, <1>7, <1>8, <1>9
<1> QED BY <1>7, <1>10, <1>11 DEF T, LineCameIn

LEMMA LinesAfterRemove ==
  ASSUME NEW S, NEW lines \in Seq(S), NEW i \in 1..Len(lines)
  PROVE  /\ RemoveAt(lines, i) \in Seq(S)
         /\ Len(RemoveAt(lines, i)) = Len(lines) - 1
         /\ \A l \in 1..(Len(lines) - 1) :
              RemoveAt(lines, i)[l] = IF l < i THEN lines[l] ELSE lines[l + 1]
<1>1. Len(lines) \in Nat /\ i \in Nat
  OBVIOUS
<1> DEFINE a == SubSeq(lines, 1, i - 1)
           b == SubSeq(lines, i + 1, Len(lines))
<1>2. a \in Seq(S) /\ Len(a) = i - 1 /\ \A l \in 1..(i - 1) : a[l] = lines[l]
  BY <1>1
<1>3. b \in Seq(S) /\ Len(b) = Len(lines) - i
      /\ \A l \in 1..(Len(lines) - i) : b[l] = lines[l + i]
  BY <1>1
<1> HIDE DEF a, b
<1>4. (a \o b) \in Seq(S) /\ Len(a \o b) = Len(lines) - 1
      /\ \A l \in 1..(Len(lines) - 1) : (a \o b)[l] = IF l < i THEN a[l] ELSE b[l - (i - 1)]
  <2>1. Len(a) + Len(b) = Len(lines) - 1 /\ \A l \in 1..(Len(lines) - 1) : l <= Len(a) <=> l < i
    BY <1>1, <1>2, <1>3
  <2>2. (a \o b) \in Seq(S) /\ Len(a \o b) = Len(a) + Len(b)
        /\ \A l \in 1..(Len(a) + Len(b)) : (a \o b)[l] = IF l <= Len(a) THEN a[l] ELSE b[l - Len(a)]
    BY <1>2, <1>3, ConcatProperties
  <2> QED BY <1>2, <2>1, <2>2
<1>5. \A l \in 1..(Len(lines) - 1) : l >= i => b[l - (i - 1)] = lines[l + 1]
  BY <1>1, <1>3
<1>6. RemoveAt(lines, i) = a \o b
  BY DEF RemoveAt, a, b
<1> QED BY <1>1, <1>2, <1>4, <1>5, <1>6

LEMMA LinesAfterSet ==
  ASSUME NEW S, NEW lines \in Seq(S), NEW i \in Nat \ {0}, NEW text
  PROVE  /\ SetLine(lines, i, text) \in Seq(S \cup {text, Blank})
         /\ Len(SetLine(lines, i, text)) = IF i > Len(lines) THEN i ELSE Len(lines)
         /\ \A l \in 1..(IF i > Len(lines) THEN i ELSE Len(lines)) :
              SetLine(lines, i, text)[l] =
                IF l = i THEN text ELSE IF l <= Len(lines) THEN lines[l] ELSE Blank
<1>1. Len(lines) \in Nat
  OBVIOUS
<1> DEFINE T == S \cup {text, Blank}
           n == IF i > Len(lines) THEN i ELSE Len(lines)
<1>2. n \in Nat
  BY <1>1
<1>3. \A l \in 1..n : (IF l = i THEN text ELSE IF l <= Len(lines) THEN lines[l] ELSE Blank) \in T
  BY <1>1, <1>2
<1> DEFINE f == [l \in 1..n |-> IF l = i THEN text ELSE IF l <= Len(lines) THEN lines[l] ELSE Blank]
<1>4. SetLine(lines, i, text) = f
  BY DEF SetLine
<1> HIDE DEF n
<1>5. f \in Seq(T) /\ Len(f) = n
  <2>1. f \in [1..n -> T]
    BY <1>3
  <2> HIDE DEF f, T
  <2> QED BY <1>2, <2>1
<1> QED BY <1>4, <1>5 DEF n, T

(* One entry leads from lines to lines, or to a panic for good.            *)
LEMMA EntryLeadsOn ==
  ASSUME NEW acc, Reached(acc), NEW e \in LineEntry
  PROVE  /\ Reached(ApplyShifted(acc, e))
         /\ acc.panicked => ApplyShifted(acc, e).panicked
<1>1. CASE acc.panicked
  BY <1>1 DEF ApplyShifted
<1>2. CASE ~ acc.panicked
  <2> DEFINE i == e.line + acc.offset
  <2>1. PICK S : acc \in [lines : Seq(S), offset : Int, panicked : BOOLEAN]
    BY DEF Reached
  <2>2. i \in Int /\ acc.offset + 1 \in Int /\ acc.offset - 1 \in Int
    BY <2>1 DEF LineEntry
  <2>3. CASE e.op = "insert" /\ i \in 1..(Len(acc.lines) + 1)
    <3>1. InsertAt(acc.lines, i, e.text) \in Seq(S \cup {e.text})
      BY <2>1, <2>3, LinesAfterInsert
    <3>2. ApplyShifted(acc, e) = [acc EXCEPT !.lines = InsertAt(@, i, e.text), !.offset = @ + 1]
      BY <1>2, <2>3 DEF ApplyShifted
    <3> QED BY <1>2, <2>1, <2>2, <3>1, <3>2 DEF Reached
  <2>4. CASE e.op = "delete" /\ i \in 1..Len(acc.lines)
    <3>1. RemoveAt(acc.lines, i) \in Seq(S)
      BY <2>1, <2>4, LinesAfterRemove
    <3>2. ApplyShifted(acc, e) = [acc EXCEPT !.lines = RemoveAt(@, i), !.offset = @ - 1]
      BY <1>2, <2>4 DEF ApplyShifted
    <3> QED BY <1>2, <2>1, <2>2, <3>1, <3>2 DEF Reached
  <2>5. CASE e.op \notin {"insert", "delete"} /\ i >= 1
    <3>1. SetLine(acc.lines, i, e.text) \in Seq(S \cup {e.text, Blank})
      <4>1. i \in Nat \ {0}
        BY <2>2, <2>5
      <4> HIDE DEF i
      <4> QED BY <2>1, <4>1, LinesAfterSet
    <3>2. ApplyShifted(acc, e) = [acc EXCEPT !.lines = SetLine(@, i, e.text)]
      BY <1>2, <2>5 DEF ApplyShifted
    <3> QED BY <1>2, <2>1, <3>1, <3>2 DEF Reached
  <2>6. CASE e.op = "delete" /\ i \notin 1..Len(acc.lines)
    BY <1>2, <2>6 DEF ApplyShifted
  <2>7. CASE \/ e.op = "insert" /\ i \notin 1..(Len(acc.lines) + 1)
             \/ e.op \notin {"insert", "delete"} /\ ~ i >= 1
    <3>1. ApplyShifted(acc, e) = [acc EXCEPT !.panicked = TRUE]
      BY <1>2, <2>7 DEF ApplyShifted
    <3> QED BY <1>2, <2>1, <3>1 DEF Reached
  <2> HIDE DEF i
  <2> QED BY <2>3, <2>4, <2>5, <2>6, <2>7
<1> QED BY <1>1, <1>2
-----------------------------------------------------------------------------
(* Rows tell lines.                                                        *)
Tells(row, lines) ==
  /\ row.line \in DOMAIN lines /\ lines[row.line] \in DOMAIN Boxes
  /\ row.label = Boxes[lines[row.line]].label
  /\ row.state = Boxes[lines[row.line]].state

(* The rows tell what the lines say, but nothing of line i: of all lines   *)
(* when i is 0.                                                            *)
TellAllBut(i, rows, lines) ==
  /\ \A k \in DOMAIN rows : rows[k].line # i /\ Tells(rows[k], lines)
  /\ \A l \in DOMAIN lines \ {i} :
       lines[l] \in DOMAIN Boxes => \E k \in DOMAIN rows : rows[k].line = l

LabelsAreUnique(lines) ==
  \A l, m \in DOMAIN lines :
    lines[l] \in DOMAIN Boxes /\ lines[m] \in DOMAIN Boxes
    /\ Boxes[lines[l]].label = Boxes[lines[m]].label => l = m

(* The rows from line i on, moved by k.                                    *)
Moved(rows, i, k) ==
  [j \in DOMAIN rows |-> IF rows[j].line >= i THEN [rows[j] EXCEPT !.line = @ + k] ELSE rows[j]]

(* A line that is no checkbox needs no row.                                *)
LEMMA NoBoxNoRow ==
  ASSUME NEW S, NEW lines \in Seq(S), NEW rows, NEW i, TellAllBut(i, rows, lines),
         i \in DOMAIN lines => lines[i] \notin DOMAIN Boxes
  PROVE  TellAllBut(0, rows, lines)
<1>1. 0 \notin DOMAIN lines
  OBVIOUS
<1> QED BY <1>1 DEF TellAllBut, Tells

(* Where there is no row, and hence no checkbox, another text may come.    *)
LEMMA SetKeepsTelling ==
  ASSUME NEW S, NEW lines \in Seq(S), NEW rows, NEW i \in Nat \ {0}, NEW text,
         TellAllBut(i, rows, lines), Blank \notin DOMAIN Boxes
  PROVE  TellAllBut(i, rows, SetLine(lines, i, text))
<1> DEFINE new == SetLine(lines, i, text)
<1>1. /\ new \in Seq(S \cup {text, Blank}) /\ Len(new) = IF i > Len(lines) THEN i ELSE Len(lines)
      /\ \A l \in 1..(IF i > Len(lines) THEN i ELSE Len(lines)) :
           new[l] = IF l = i THEN text ELSE IF l <= Len(lines) THEN lines[l] ELSE Blank
  BY LinesAfterSet
<1> HIDE DEF new
<1>2. DOMAIN new = 1..Len(new) /\ DOMAIN lines = 1..Len(lines) /\ Len(lines) \in Nat
  BY <1>1
<1> DEFINE n == IF i > Len(lines) THEN i ELSE Len(lines)
<1>3. n \in Nat /\ Len(lines) <= n /\ DOMAIN new = 1..n
  BY <1>1, <1>2
<1>4. \A l \in 1..n : new[l] = IF l = i THEN text ELSE IF l <= Len(lines) THEN lines[l] ELSE Blank
  BY <1>1
<1> HIDE DEF n
<1>5. \A l \in DOMAIN lines : l \in DOMAIN new /\ (l # i => new[l] = lines[l])
  BY <1>2, <1>3, <1>4
<1>6. \A l \in DOMAIN new \ {i} : new[l] \in DOMAIN Boxes => l \in DOMAIN lines /\ new[l] = lines[l]
  BY <1>2, <1>3, <1>4
<1>7. \A k \in DOMAIN rows : rows[k].line # i /\ Tells(rows[k], new)
  BY <1>5 DEF TellAllBut, Tells
<1>8. \A l \in DOMAIN new \ {i} : new[l] \in DOMAIN Boxes => \E k \in DOMAIN rows : rows[k].line = l
  BY <1>6 DEF TellAllBut
<1> QED BY <1>7, <1>8 DEF TellAllBut, new

(* Moving the rows down makes room for the line inserted.                  *)
LEMMA MoveDown ==
  ASSUME NEW S, NEW lines \in Seq(S), NEW rows \in Seq(Row), NEW i \in 1..(Len(lines) + 1),
         NEW text, TellAllBut(0, rows, lines)
  PROVE  TellAllBut(i, Moved(rows, i, 1), InsertAt(lines, i, text))
<1> DEFINE new == InsertAt(lines, i, text)
           moved == Moved(rows, i, 1)
<1>1. /\ new \in Seq(S \cup {text}) /\ Len(new) = Len(lines) + 1
      /\ new[i] = text
      /\ \A l \in 1..(i - 1) : new[l] = lines[l]
      /\ \A l \in (i + 1)..(Len(lines) + 1) : new[l] = lines[l - 1]
  <2>1. new \in Seq(S \cup {text}) /\ LineCameIn(new, lines, i, text)
    BY LinesAfterInsert
  <2> QED BY <2>1 DEF LineCameIn
<1> HIDE DEF new
<1>2. /\ DOMAIN new = 1..Len(new) /\ DOMAIN lines = 1..Len(lines) /\ Len(lines) \in Nat
      /\ i \in Nat /\ i # 0
  BY <1>1
<1>3. DOMAIN moved = DOMAIN rows
  BY DEF Moved
<1>4. \A k \in DOMAIN rows :
        /\ moved[k].line = IF rows[k].line >= i THEN rows[k].line + 1 ELSE rows[k].line
        /\ moved[k].label = rows[k].label /\ moved[k].state = rows[k].state
  <2>1. \A k \in DOMAIN rows : rows[k] \in Row
    OBVIOUS
  <2> QED BY <2>1 DEF Moved, Row
<1> HIDE DEF moved
<1>5. ASSUME NEW k \in DOMAIN moved PROVE moved[k].line # i /\ Tells(moved[k], new)
  <2>1. Tells(rows[k], lines) /\ rows[k].line \in 1..Len(lines)
    BY <1>2, <1>3 DEF TellAllBut, Tells
  <2>2. moved[k].line # i /\ moved[k].line \in DOMAIN new /\ new[moved[k].line] = lines[rows[k].line]
    BY <1>1, <1>2, <1>3, <1>4, <2>1
  <2> QED BY <1>3, <1>4, <2>1, <2>2 DEF Tells
<1>6. ASSUME NEW l \in DOMAIN new \ {i}, new[l] \in DOMAIN Boxes
      PROVE  \E k \in DOMAIN moved : moved[k].line = l
  <2> DEFINE m == IF l < i THEN l ELSE l - 1
  <2>1. m \in DOMAIN lines \ {0} /\ lines[m] = new[l] /\ (m >= i <=> l > i)
    <3>1. l \in Nat /\ 1 <= l /\ l <= Len(lines) + 1 /\ l # i
      BY <1>1, <1>2
    <3>2. CASE l < i
      <4>1. l \in 1..(i - 1)
        BY <1>2, <3>1, <3>2
      <4> QED BY <1>1, <1>2, <3>1, <3>2, <4>1
    <3>3. CASE l > i
      <4>1. l \in (i + 1)..(Len(lines) + 1)
        BY <1>2, <3>1, <3>3
      <4> QED BY <1>1, <1>2, <3>1, <3>3, <4>1
    <3> QED BY <1>2, <3>1, <3>2, <3>3
  <2>2. PICK k \in DOMAIN rows : rows[k].line = m
    BY <2>1, <1>6 DEF TellAllBut
  <2>3. moved[k].line = l
    <3>1. m = rows[k].line /\ l \in Nat /\ m \in Nat
      BY <1>1, <1>2, <2>1, <2>2
    <3> QED BY <1>2, <1>4, <2>1, <3>1
  <2> QED BY <1>3, <2>3
<1> QED BY <1>5, <1>6 DEF TellAllBut, new, moved

(* Moving the rows up closes the gap of the line deleted.                  *)
LEMMA MoveUp ==
  ASSUME NEW S, NEW lines \in Seq(S), NEW rows \in Seq(Row), NEW i \in 1..Len(lines),
         TellAllBut(i, rows, lines)
  PROVE  TellAllBut(0, Moved(rows, i + 1, -1), RemoveAt(lines, i))
<1> DEFINE new == RemoveAt(lines, i)
           moved == Moved(rows, i + 1, -1)
<1>1. /\ new \in Seq(S) /\ Len(new) = Len(lines) - 1
      /\ \A l \in 1..(Len(lines) - 1) : new[l] = IF l < i THEN lines[l] ELSE lines[l + 1]
  BY LinesAfterRemove
<1> HIDE DEF new
<1>2. /\ DOMAIN new = 1..Len(new) /\ DOMAIN lines = 1..Len(lines) /\ Len(lines) \in Nat
      /\ i \in Nat /\ i # 0
  BY <1>1
<1>3. DOMAIN moved = DOMAIN rows
  BY DEF Moved
<1>4. \A k \in DOMAIN rows :
        /\ moved[k].line = IF rows[k].line >= i + 1 THEN rows[k].line - 1 ELSE rows[k].line
        /\ moved[k].label = rows[k].label /\ moved[k].state = rows[k].state
  <2>1. \A k \in DOMAIN rows : rows[k] \in Row
    OBVIOUS
  <2> QED BY <2>1 DEF Moved, Row
<1> HIDE DEF moved
<1>5. ASSUME NEW k \in DOMAIN moved PROVE moved[k].line # 0 /\ Tells(moved[k], new)
  <2>1. Tells(rows[k], lines) /\ rows[k].line \in 1..Len(lines) /\ rows[k].line # i
    BY <1>2, <1>3 DEF TellAllBut, Tells
  <2>2. moved[k].line # 0 /\ moved[k].line \in DOMAIN new /\ new[moved[k].line] = lines[rows[k].line]
    BY <1>1, <1>2, <1>3, <1>4, <2>1
  <2> QED BY <1>3, <1>4, <2>1, <2>2 DEF Tells
<1>6. ASSUME NEW l \in DOMAIN new \ {0}, new[l] \in DOMAIN Boxes
      PROVE  \E k \in DOMAIN moved : moved[k].line = l
  <2> DEFINE m == IF l < i THEN l ELSE l + 1
  <2>1. m \in DOMAIN lines \ {i} /\ lines[m] = new[l] /\ (m >= i + 1 <=> l >= i)
    BY <1>1, <1>2
  <2>2. PICK k \in DOMAIN rows : rows[k].line = m
    BY <2>1, <1>6 DEF TellAllBut
  <2>3. moved[k].line = l
    <3>1. m = rows[k].line /\ l \in Nat /\ m \in Nat
      BY <1>1, <1>2, <2>1, <2>2
    <3>2. moved[k].line = IF m >= i + 1 THEN m - 1 ELSE m
      BY <1>4, <3>1
    <3> QED BY <1>2, <2>1, <3>1, <3>2
  <2> QED BY <1>3, <2>3
<1> QED BY <1>5, <1>6 DEF TellAllBut, new, moved

(* Without the row of a line the others tell all the other lines.          *)
LEMMA DropTheRow ==
  ASSUME NEW S, NEW lines \in Seq(S), NEW rows \in Seq(Row), NEW k \in DOMAIN rows,
         TellAllBut(0, rows, lines), \A j \in DOMAIN rows : rows[j].line = rows[k].line => j = k
  PROVE  TellAllBut(rows[k].line, RemoveAt(rows, k), lines)
<1> DEFINE new == RemoveAt(rows, k)
<1>1. /\ k \in 1..Len(rows) /\ DOMAIN rows = 1..Len(rows) /\ Len(rows) \in Nat
  OBVIOUS
<1>2. /\ new \in Seq(Row) /\ Len(new) = Len(rows) - 1
      /\ \A j \in 1..(Len(rows) - 1) : new[j] = IF j < k THEN rows[j] ELSE rows[j + 1]
  BY <1>1, LinesAfterRemove
<1> HIDE DEF new
<1>3. DOMAIN new = 1..(Len(rows) - 1)
  BY <1>1, <1>2
<1>4. \A j \in DOMAIN new : \E h \in DOMAIN rows : h # k /\ new[j] = rows[h]
  <2> TAKE j \in DOMAIN new
  <2> DEFINE h == IF j < k THEN j ELSE j + 1
  <2>1. h \in DOMAIN rows /\ h # k /\ new[j] = rows[h]
    BY <1>1, <1>2, <1>3
  <2> QED BY <2>1
<1>5. \A h \in DOMAIN rows : h # k => \E j \in DOMAIN new : new[j] = rows[h]
  <2> SUFFICES ASSUME NEW h \in DOMAIN rows, h # k PROVE \E j \in DOMAIN new : new[j] = rows[h]
    OBVIOUS
  <2> DEFINE j == IF h < k THEN h ELSE h - 1
  <2>1. j \in DOMAIN new /\ new[j] = rows[h]
    BY <1>1, <1>2, <1>3
  <2> QED BY <2>1
<1>6. \A j \in DOMAIN new : new[j].line # rows[k].line /\ Tells(new[j], lines)
  BY <1>4 DEF TellAllBut
<1>7. 0 \notin DOMAIN lines
  OBVIOUS
<1>8. \A l \in DOMAIN lines \ {rows[k].line} :
        lines[l] \in DOMAIN Boxes => \E j \in DOMAIN new : new[j].line = l
  BY <1>5, <1>7 DEF TellAllBut
<1> QED BY <1>6, <1>8 DEF TellAllBut, new
-----------------------------------------------------------------------------
(* The statements keep the table sound, and the status of every todo.      *)

RowsAreSound(rows) ==
  /\ rows \in Seq(Row)
  /\ \A i, j \in DOMAIN rows :
       rows[i].line = rows[j].line \/ rows[i].label = rows[j].label => i = j

StatusIsKept(rows, new) ==
  \A i \in DOMAIN rows, j \in DOMAIN new :
    rows[i].label = new[j].label => rows[i].status = new[j].status

Points == {"idle", "next", "insertRow", "placeRow", "shiftUp", "rewrite", "remove"}

(* A callback has an entry in hand, of the kind that its statement is for. *)
HookIsSound(h) ==
  /\ h \in [at : Points, entries : Seq(LineEntry), offset : Int]
  /\ h.at # "idle" => h.entries # << >>
  /\ h.at \in {"insertRow", "placeRow"} =>
       Head(h.entries).op # "delete" /\ Head(h.entries).text \in DOMAIN Boxes
  /\ h.at = "shiftUp" => Head(h.entries).op = "delete"
  /\ h.at \in {"rewrite", "remove"} =>
       /\ Head(h.entries).op \in {"set", "setEmpty"}
       /\ h.at = "rewrite" <=> Head(h.entries).text \in DOMAIN Boxes

TodoTypes ==
  /\ RowsAreSound(todos)
  /\ DOMAIN hook = TodoClients /\ \A c \in TodoClients : HookIsSound(hook[c])
  /\ \E S : document \in Seq(S)
  /\ todoEvents \in 0..MaxTodoEvents /\ moves \in 0..MaxMoves
  /\ untidy \in BOOLEAN

(* The entry in hand, its line in the text as it is by then, and its box.  *)
LEMMA EntryInHand ==
  ASSUME NEW c \in TodoClients, HookIsSound(hook[c]), Calling(c)
  PROVE  /\ EntryOf(c) \in LineEntry /\ LineOf(c) \in Int
         /\ EntryOf(c) = hook[c].entries[1]
         /\ Len(hook[c].entries) \in Nat \ {0}
         /\ IsBox(c) => BoxOf(c).label \in {Boxes[x].label : x \in DOMAIN Boxes}
                        /\ BoxOf(c).state \in {"open", "checked"}
<1>1. hook[c].entries \in Seq(LineEntry) /\ hook[c].entries # << >> /\ hook[c].offset \in Int
  BY DEF HookIsSound, Calling
<1>2. Head(hook[c].entries) \in LineEntry /\ Head(hook[c].entries) = hook[c].entries[1]
      /\ Len(hook[c].entries) \in Nat \ {0}
  BY <1>1
<1> QED BY <1>1, <1>2, TodoAssumption DEF EntryOf, LineOf, IsBox, BoxOf, LineEntry

LEMMA MovedRowsAreSound ==
  ASSUME RowsAreSound(todos), NEW first \in Int, NEW k \in Int, Shift(first, k)
  PROVE  /\ todos' = Moved(todos, first, k)
         /\ RowsAreSound(todos)' /\ StatusIsKept(todos, todos')
<1>1. todos' = Moved(todos, first, k)
  BY DEF Shift, Moved
<1>2. DOMAIN todos' = DOMAIN todos /\ todos \in Seq(Row) /\ DOMAIN todos = 1..Len(todos)
  BY <1>1 DEF Moved, RowsAreSound
<1>3. \A j \in DOMAIN todos :
        /\ todos[j] \in Row
        /\ todos'[j] = IF todos[j].line >= first THEN [todos[j] EXCEPT !.line = @ + k] ELSE todos[j]
  BY <1>1, <1>2 DEF Moved
<1>4. \A j \in DOMAIN todos :
        /\ todos'[j] \in Row
        /\ todos'[j].line = IF todos[j].line >= first THEN todos[j].line + k ELSE todos[j].line
        /\ todos'[j].label = todos[j].label /\ todos'[j].status = todos[j].status
  <2> TAKE j \in DOMAIN todos
  <2>1. todos[j] \in Row /\ todos[j].line + k \in Int
    <3>1. todos[j] \in Row
      BY <1>2
    <3> QED BY <3>1 DEF Row
  <2>2. CASE todos[j].line >= first
    <3>1. todos'[j] = [todos[j] EXCEPT !.line = @ + k]
      BY <1>3, <2>2
    <3> QED BY <2>1, <2>2, <3>1 DEF Row
  <2>3. CASE ~ (todos[j].line >= first)
    BY <1>3, <2>1, <2>3 DEF Row
  <2> QED BY <2>2, <2>3
<1>5. todos' \in Seq(Row)
  <2>1. todos' \in [1..Len(todos) -> Row] /\ Len(todos) \in Nat
    BY <1>1, <1>2, <1>4 DEF Moved
  <2> QED BY <2>1
<1>6. ASSUME NEW i \in DOMAIN todos, NEW j \in DOMAIN todos,
             todos'[i].line = todos'[j].line \/ todos'[i].label = todos'[j].label
      PROVE  i = j
  <2>1. todos[i].line \in Int /\ todos[j].line \in Int /\ i \in Nat /\ j \in Nat
    BY <1>2, <1>3 DEF Row
  <2>2. ~ (todos[i].line >= first /\ todos[j].line = todos[i].line + k /\ ~ (todos[j].line >= first))
        /\ ~ (todos[j].line >= first /\ todos[i].line = todos[j].line + k /\ ~ (todos[i].line >= first))
    BY <2>1 DEF Shift, ShiftClashes
  <2>3. CASE todos'[i].label = todos'[j].label
    BY <1>4, <2>3 DEF RowsAreSound
  <2>4. CASE todos'[i].line = todos'[j].line
    <3>1. todos[i].line = todos[j].line
      BY <1>4, <2>1, <2>2, <2>4
    <3> QED BY <3>1 DEF RowsAreSound
  <2> QED BY <1>6, <2>3, <2>4
<1>7. StatusIsKept(todos, todos')
  BY <1>2, <1>4 DEF StatusIsKept, RowsAreSound
<1> QED BY <1>1, <1>2, <1>5, <1>6, <1>7 DEF RowsAreSound

LEMMA DroppedRowsAreSound ==
  ASSUME RowsAreSound(todos), NEW line, DropLine(line)
  PROVE  RowsAreSound(todos)' /\ StatusIsKept(todos, todos')
<1>1. CASE UNCHANGED todos
  BY <1>1 DEF RowsAreSound, StatusIsKept
<1>2. CASE \E k \in DOMAIN todos : todos[k].line = line /\ todos' = RemoveAt(todos, k)
  <2>1. PICK k \in DOMAIN todos : todos' = RemoveAt(todos, k)
    BY <1>2
  <2>2. todos \in Seq(Row) /\ DOMAIN todos = 1..Len(todos) /\ Len(todos) \in Nat /\ k \in 1..Len(todos)
    BY DEF RowsAreSound
  <2>3. todos' \in Seq(Row) /\ Len(todos') = Len(todos) - 1
        /\ \A j \in 1..(Len(todos) - 1) : todos'[j] = IF j < k THEN todos[j] ELSE todos[j + 1]
    BY <2>1, <2>2, LinesAfterRemove
  <2> DEFINE Old(j) == IF j < k THEN j ELSE j + 1
  <2>4. DOMAIN todos' = 1..(Len(todos) - 1)
    BY <2>2, <2>3
  <2>5. \A j \in DOMAIN todos' : Old(j) \in DOMAIN todos /\ todos'[j] = todos[Old(j)]
    BY <2>2, <2>3, <2>4
  <2>6. \A i, j \in DOMAIN todos' : Old(i) = Old(j) => i = j
    BY <2>2, <2>4
  <2> HIDE DEF Old
  <2> QED BY <2>3, <2>5, <2>6 DEF RowsAreSound, StatusIsKept
<1> QED BY <1>1, <1>2 DEF DropLine

LEMMA InsertedRowsAreSound ==
  ASSUME RowsAreSound(todos), NEW c \in TodoClients, HookIsSound(hook[c]), InsertRow(c)
  PROVE  RowsAreSound(todos)' /\ StatusIsKept(todos, todos')
<1>1. CASE UNCHANGED todos
  BY <1>1 DEF RowsAreSound, StatusIsKept
<1>2. CASE LabelFree(0, BoxOf(c).label) /\ LineFree(0, LineOf(c)) /\ todos' = Append(todos, NewRow(c))
  <2>1. Calling(c) /\ IsBox(c)
    BY DEF InsertRow, Calling, HookIsSound, IsBox, EntryOf
  <2>2. NewRow(c) \in Row /\ NewRow(c).line = LineOf(c) /\ NewRow(c).label = BoxOf(c).label
    BY <2>1, EntryInHand DEF NewRow, Row, Statuses
  <2>3. todos \in Seq(Row) /\ DOMAIN todos = 1..Len(todos) /\ Len(todos) \in Nat
    BY DEF RowsAreSound
  <2>4. todos' \in Seq(Row) /\ DOMAIN todos' = 1..(Len(todos) + 1) /\ todos'[Len(todos) + 1] = NewRow(c)
        /\ \A j \in 1..Len(todos) : todos'[j] = todos[j]
    BY <1>2, <2>2, <2>3
  <2>5. \A j \in 1..Len(todos) : todos[j].line # LineOf(c) /\ todos[j].label # BoxOf(c).label
    BY <1>2, <2>3 DEF LabelFree, LineFree
  <2>6. \A j \in DOMAIN todos' : j \in 1..Len(todos) \/ j = Len(todos) + 1
    BY <2>3, <2>4
  <2> QED BY <2>2, <2>3, <2>4, <2>5, <2>6 DEF RowsAreSound, StatusIsKept
<1> QED BY <1>1, <1>2 DEF InsertRow

LEMMA PlacedRowsAreSound ==
  ASSUME RowsAreSound(todos), NEW c \in TodoClients, HookIsSound(hook[c]), PlaceRow(c)
  PROVE  RowsAreSound(todos)' /\ StatusIsKept(todos, todos')
<1>1. Calling(c) /\ IsBox(c)
  BY DEF PlaceRow, Calling, HookIsSound, IsBox, EntryOf
<1>2. LineOf(c) \in Int /\ BoxOf(c).state \in {"open", "checked"}
  BY <1>1, EntryInHand
<1> DEFINE New(j) == IF todos[j].label # BoxOf(c).label THEN todos[j]
                     ELSE [todos[j] EXCEPT !.line = LineOf(c), !.state = BoxOf(c).state]
<1>3. todos' = [j \in DOMAIN todos |-> New(j)]
  BY DEF PlaceRow
<1>4. todos \in Seq(Row) /\ DOMAIN todos = 1..Len(todos) /\ Len(todos) \in Nat
      /\ \A j \in DOMAIN todos : todos[j] \in Row
  BY DEF RowsAreSound
<1>5. \A j \in DOMAIN todos :
        /\ New(j) \in Row
        /\ New(j).line = IF todos[j].label # BoxOf(c).label THEN todos[j].line ELSE LineOf(c)
        /\ New(j).label = todos[j].label /\ New(j).status = todos[j].status
  <2> TAKE j \in DOMAIN todos
  <2>1. todos[j] \in Row
    BY <1>4
  <2>2. CASE todos[j].label # BoxOf(c).label
    BY <2>1, <2>2 DEF Row
  <2>3. CASE todos[j].label = BoxOf(c).label
    <3>1. New(j) = [todos[j] EXCEPT !.line = LineOf(c), !.state = BoxOf(c).state]
      BY <2>3
    <3> HIDE DEF New
    <3> QED BY <1>2, <2>1, <2>3, <3>1 DEF Row
  <2> HIDE DEF New
  <2> QED BY <2>2, <2>3
<1> HIDE DEF New
<1>6. DOMAIN todos' = DOMAIN todos /\ \A j \in DOMAIN todos : todos'[j] = New(j)
  BY <1>3
<1>7. todos' \in Seq(Row)
  <2>1. todos' \in [1..Len(todos) -> Row]
    BY <1>3, <1>4, <1>5
  <2> QED BY <1>4, <2>1
<1>8. \A i, j \in DOMAIN todos :
        todos[i].label = BoxOf(c).label /\ todos[j].line = LineOf(c) => i = j
  BY DEF PlaceRow, LineFree
<1>9. \A i, j \in DOMAIN todos : todos'[i].line = todos'[j].line => i = j
  BY <1>5, <1>6, <1>8 DEF RowsAreSound
<1>10. \A i, j \in DOMAIN todos : todos'[i].label = todos'[j].label => i = j
  BY <1>5, <1>6 DEF RowsAreSound
<1> QED BY <1>5, <1>6, <1>7, <1>9, <1>10 DEF RowsAreSound, StatusIsKept

LEMMA RewrittenRowsAreSound ==
  ASSUME RowsAreSound(todos), NEW c \in TodoClients, HookIsSound(hook[c]), RewriteRow(c)
  PROVE  RowsAreSound(todos)' /\ StatusIsKept(todos, todos')
<1>1. Calling(c) /\ IsBox(c)
  BY DEF RewriteRow, Calling, HookIsSound, IsBox, EntryOf
<1>2. /\ BoxOf(c).state \in {"open", "checked"}
      /\ BoxOf(c).label \in {Boxes[x].label : x \in DOMAIN Boxes}
  BY <1>1, EntryInHand
<1> DEFINE New(j) == IF todos[j].line # LineOf(c) THEN todos[j]
                     ELSE [todos[j] EXCEPT !.label = BoxOf(c).label, !.state = BoxOf(c).state]
<1>3. todos' = [j \in DOMAIN todos |-> New(j)]
  BY DEF RewriteRow
<1>4. todos \in Seq(Row) /\ DOMAIN todos = 1..Len(todos) /\ Len(todos) \in Nat
      /\ \A j \in DOMAIN todos : todos[j] \in Row
  BY DEF RowsAreSound
<1>5. \A j \in DOMAIN todos :
        /\ New(j) \in Row
        /\ New(j).label = IF todos[j].line # LineOf(c) THEN todos[j].label ELSE BoxOf(c).label
        /\ New(j).line = todos[j].line /\ New(j).status = todos[j].status
  <2> TAKE j \in DOMAIN todos
  <2>1. todos[j] \in Row
    BY <1>4
  <2>2. CASE todos[j].line # LineOf(c)
    BY <2>1, <2>2 DEF Row
  <2>3. CASE todos[j].line = LineOf(c)
    <3>1. New(j) = [todos[j] EXCEPT !.label = BoxOf(c).label, !.state = BoxOf(c).state]
      BY <2>3
    <3> HIDE DEF New
    <3> QED BY <1>2, <2>1, <2>3, <3>1 DEF Row
  <2> HIDE DEF New
  <2> QED BY <2>2, <2>3
<1> HIDE DEF New
<1>6. DOMAIN todos' = DOMAIN todos /\ \A j \in DOMAIN todos : todos'[j] = New(j)
  BY <1>3
<1>7. todos' \in Seq(Row)
  <2>1. todos' \in [1..Len(todos) -> Row]
    BY <1>3, <1>4, <1>5
  <2> QED BY <1>4, <2>1
<1>8. \A i, j \in DOMAIN todos :
        todos[i].line = LineOf(c) /\ todos[j].label = BoxOf(c).label => i = j
  BY DEF RewriteRow, LabelFree
<1>9. \A i, j \in DOMAIN todos : todos'[i].label = todos'[j].label => i = j
  BY <1>5, <1>6, <1>8 DEF RowsAreSound
<1>10. \A i, j \in DOMAIN todos : todos'[i].line = todos'[j].line => i = j
  BY <1>5, <1>6 DEF RowsAreSound
<1>11. \A i, j \in DOMAIN todos : todos[i].label = todos'[j].label => todos[i].status = todos'[j].status
  BY <1>5, <1>6, <1>8 DEF RowsAreSound
<1> QED BY <1>6, <1>7, <1>9, <1>10, <1>11 DEF RowsAreSound, StatusIsKept

(* A callback goes on to the next entry, or to another statement.          *)
LEMMA HooksGoOn ==
  ASSUME TodoTypes, NEW c \in TodoClients, Calling(c), NEW shift \in Int, NextEntry(c, shift)
  PROVE  DOMAIN hook' = TodoClients /\ \A d \in TodoClients : HookIsSound(hook'[d])
<1>1. /\ hook[c].entries \in Seq(LineEntry) /\ hook[c].entries # << >> /\ hook[c].offset \in Int
      /\ DOMAIN hook = TodoClients /\ \A d \in TodoClients : HookIsSound(hook[d])
  BY DEF TodoTypes, HookIsSound, Calling
<1> DEFINE next == IF Len(hook[c].entries) = 1 THEN NoHook
                   ELSE [at |-> "next", entries |-> Tail(hook[c].entries),
                         offset |-> hook[c].offset + shift]
<1>2. hook' = [hook EXCEPT ![c] = next]
  BY DEF NextEntry
<1>3. HookIsSound(next)
  <2>1. CASE Len(hook[c].entries) = 1
    <3>1. << >> \in Seq(LineEntry)
      OBVIOUS
    <3> QED BY <2>1, <3>1 DEF HookIsSound, NoHook, Points
  <2>2. CASE Len(hook[c].entries) # 1
    <3>1. Tail(hook[c].entries) \in Seq(LineEntry) /\ Tail(hook[c].entries) # << >>
      <4> DEFINE s == hook[c].entries
      <4>1. s \in Seq(LineEntry) /\ s # << >> /\ Len(s) # 1
        BY <1>1, <2>2
      <4> HIDE DEF s
      <4>2. Tail(s) \in Seq(LineEntry) /\ Len(Tail(s)) # 0
        BY <4>1
      <4>3. Tail(s) # << >>
        <5>1. Len(<< >>) = 0
          OBVIOUS
        <5> QED BY <4>2, <5>1
      <4> QED BY <4>2, <4>3 DEF s
    <3>2. next = [at |-> "next", entries |-> Tail(hook[c].entries), offset |-> hook[c].offset + shift]
      BY <2>2
    <3> HIDE DEF next
    <3> QED BY <1>1, <3>1, <3>2 DEF HookIsSound, Points
  <2> QED BY <2>1, <2>2
<1> HIDE DEF next
<1> QED BY <1>1, <1>2, <1>3

LEMMA HooksProceed ==
  ASSUME TodoTypes, NEW c \in TodoClients, Calling(c),
         NEW at \in Points, Proceed(c, at),
         HookIsSound([hook[c] EXCEPT !.at = at])
  PROVE  DOMAIN hook' = TodoClients /\ \A d \in TodoClients : HookIsSound(hook'[d])
<1>1. DOMAIN hook = TodoClients /\ \A d \in TodoClients : HookIsSound(hook[d])
  BY DEF TodoTypes
<1>2. hook' = [hook EXCEPT ![c] = [hook[c] EXCEPT !.at = at]]
  BY DEF Proceed
<1> DEFINE h == [hook[c] EXCEPT !.at = at]
<1> HIDE DEF h
<1>3. hook' = [hook EXCEPT ![c] = h] /\ HookIsSound(h)
  BY <1>2 DEF h
<1> QED BY <1>1, <1>3

(* What a callback needs to have in hand to go on with another statement.  *)
LEMMA HookFor ==
  ASSUME NEW h, HookIsSound(h), h.at # "idle", NEW at \in Points \ {"idle"},
         at \in {"insertRow", "placeRow"} =>
           Head(h.entries).op # "delete" /\ Head(h.entries).text \in DOMAIN Boxes,
         at = "shiftUp" => Head(h.entries).op = "delete",
         at \in {"rewrite", "remove"} =>
           /\ Head(h.entries).op \in {"set", "setEmpty"}
           /\ at = "rewrite" <=> Head(h.entries).text \in DOMAIN Boxes
  PROVE  HookIsSound([h EXCEPT !.at = at])
<1> DEFINE new == [h EXCEPT !.at = at]
<1>1. new.entries = h.entries /\ new.at = at
      /\ new \in [at : Points, entries : Seq(LineEntry), offset : Int]
  BY DEF HookIsSound
<1> HIDE DEF new
<1>2. h.entries # << >>
  BY DEF HookIsSound
<1>3. HookIsSound(new)
  BY <1>1, <1>2 DEF HookIsSound
<1> QED BY <1>3 DEF new

LEMMA TodoTypesInit == TodoInit => TodoTypes
<1> SUFFICES ASSUME TodoInit PROVE TodoTypes
  OBVIOUS
<1>1. RowsAreSound(todos)
  BY DEF TodoInit, RowsAreSound
<1>2. << >> \in Seq({}) /\ << >> \in Seq(LineEntry)
  OBVIOUS
<1>3. HookIsSound(NoHook)
  BY <1>2 DEF HookIsSound, NoHook, Points
<1>4. document \in Seq({})
  BY <1>2 DEF TodoInit
<1>5. DOMAIN hook = TodoClients /\ \A c \in TodoClients : HookIsSound(hook[c])
  BY <1>3 DEF TodoInit
<1>6. todoEvents \in 0..MaxTodoEvents /\ moves \in 0..MaxMoves /\ untidy \in BOOLEAN
  <2>1. MaxTodoEvents \in Nat /\ MaxMoves \in Nat
    BY TodoAssumption
  <2>2. todoEvents = 0 /\ moves = 0 /\ untidy = FALSE
    BY DEF TodoInit
  <2>3. todoEvents \in 0..MaxTodoEvents /\ moves \in 0..MaxMoves
    BY <2>1, <2>2
  <2>4. untidy \in BOOLEAN
    BY <2>2
  <2> QED BY <2>3, <2>4
<1> QED BY <1>1, <1>4, <1>5, <1>6 DEF TodoTypes

(* The statements of a callback leave everything but its rows and itself.  *)
LEMMA HookStepsKeepTypes ==
  ASSUME TodoTypes, NEW c \in TodoClients, HookStep(c)
  PROVE  TodoTypes' /\ StatusIsKept(todos, todos') /\ UNCHANGED moves
<1> DEFINE Sound == RowsAreSound(todos)' /\ StatusIsKept(todos, todos')
           Hooks == DOMAIN hook' = TodoClients /\ \A d \in TodoClients : HookIsSound(hook'[d])
<1>1. /\ RowsAreSound(todos) /\ DOMAIN hook = TodoClients /\ \A d \in TodoClients : HookIsSound(hook[d])
      /\ HookIsSound(hook[c])
  BY DEF TodoTypes
<1>2. Calling(c)
  BY DEF HookStep, ShiftDown, InsertRow, PlaceRow, DeleteRow, ShiftUp, LookUp, RewriteRow, RemoveRow, Calling
<1>3. LineOf(c) \in Int /\ LineOf(c) + 1 \in Int /\ EntryOf(c) \in LineEntry
  BY <1>1, <1>2, EntryInHand
<1>4. EntryOf(c) = Head(hook[c].entries) /\ (IsBox(c) <=> Head(hook[c].entries).text \in DOMAIN Boxes)
      /\ hook[c].at # "idle"
  BY <1>2 DEF EntryOf, IsBox, Calling
<1>5. UNCHANGED todos => Sound
  BY <1>1 DEF RowsAreSound, StatusIsKept
<1>6. ASSUME NEW shift \in Int, NextEntry(c, shift) PROVE Hooks
  BY <1>2, <1>6, HooksGoOn
<1>7. ASSUME NEW at \in Points \ {"idle"}, Proceed(c, at),
             at \in {"insertRow", "placeRow"} => EntryOf(c).op # "delete" /\ IsBox(c),
             at = "shiftUp" => EntryOf(c).op = "delete",
             at \in {"rewrite", "remove"} =>
               EntryOf(c).op \in {"set", "setEmpty"} /\ (at = "rewrite" <=> IsBox(c))
      PROVE  Hooks
  <2>1. HookIsSound([hook[c] EXCEPT !.at = at])
    BY <1>1, <1>4, <1>7, HookFor
  <2> QED BY <1>2, <1>7, <2>1, HooksProceed
<1>8. CASE ShiftDown(c)
  <2>1. Sound
    BY <1>1, <1>3, <1>8, MovedRowsAreSound DEF ShiftDown
  <2>2. EntryOf(c).op # "delete" /\ IF IsBox(c) THEN Proceed(c, "insertRow") ELSE NextEntry(c, 1)
    BY <1>8 DEF ShiftDown
  <2>3. IsBox(c) => Hooks
    BY <1>7, <2>2 DEF Points
  <2>4. ~ IsBox(c) => Hooks
    BY <1>6, <2>2
  <2> QED BY <2>1, <2>3, <2>4, <1>8 DEF ShiftDown, TodoTypes
<1>9. CASE InsertRow(c)
  <2>1. Sound
    BY <1>1, <1>9, InsertedRowsAreSound
  <2>2. EntryOf(c).op # "delete" /\ IsBox(c)
    BY <1>1, <1>4, <1>9 DEF InsertRow, HookIsSound
  <2>3. Hooks
    BY <1>7, <1>9, <2>2 DEF InsertRow, Points
  <2> QED BY <2>1, <2>3, <1>9 DEF InsertRow, TodoTypes
<1>10. CASE PlaceRow(c)
  <2>1. Sound
    BY <1>1, <1>10, PlacedRowsAreSound
  <2>2. (IF EntryOf(c).op = "insert" THEN 1 ELSE 0) \in Int
    OBVIOUS
  <2>3. Hooks
    BY <1>6, <1>10, <2>2 DEF PlaceRow
  <2> QED BY <2>1, <2>3, <1>10 DEF PlaceRow, TodoTypes
<1>11. CASE DeleteRow(c)
  <2>1. Sound
    BY <1>1, <1>11, DroppedRowsAreSound DEF DeleteRow
  <2>2. Hooks
    BY <1>7, <1>11 DEF DeleteRow, Points
  <2> QED BY <2>1, <2>2, <1>11 DEF DeleteRow, TodoTypes
<1>12. CASE ShiftUp(c)
  <2>1. Sound
    BY <1>1, <1>3, <1>12, MovedRowsAreSound DEF ShiftUp
  <2>2. Hooks
    BY <1>6, <1>12 DEF ShiftUp
  <2> QED BY <2>1, <2>2, <1>12 DEF ShiftUp, TodoTypes
<1>13. CASE LookUp(c)
  <2>1. Sound
    BY <1>5, <1>13 DEF LookUp
  <2>2. /\ EntryOf(c).op \in {"set", "setEmpty"} /\ EntryOf(c).op # "delete"
        /\ \/ Proceed(c, "rewrite") /\ IsBox(c)
           \/ Proceed(c, "remove") /\ ~ IsBox(c)
           \/ Proceed(c, "insertRow") /\ IsBox(c)
           \/ NextEntry(c, 0)
    BY <1>13 DEF LookUp
  <2>3. Proceed(c, "rewrite") /\ IsBox(c) => Hooks
    BY <1>7, <2>2 DEF Points
  <2>4. Proceed(c, "remove") /\ ~ IsBox(c) => Hooks
    BY <1>7, <2>2 DEF Points
  <2>5. Proceed(c, "insertRow") /\ IsBox(c) => Hooks
    BY <1>7, <2>2 DEF Points
  <2>6. NextEntry(c, 0) => Hooks
    BY <1>6
  <2> QED BY <2>1, <2>2, <2>3, <2>4, <2>5, <2>6, <1>13 DEF LookUp, TodoTypes
<1>14. CASE RewriteRow(c)
  <2>1. Sound
    BY <1>1, <1>14, RewrittenRowsAreSound
  <2>2. Hooks
    <3>1. NextEntry(c, 0)
      BY <1>14 DEF RewriteRow
    <3> QED BY <1>6, <3>1
  <2> QED BY <2>1, <2>2, <1>14 DEF RewriteRow, TodoTypes
<1>15. CASE RemoveRow(c)
  <2>1. Sound
    BY <1>1, <1>15, DroppedRowsAreSound DEF RemoveRow
  <2>2. Hooks
    BY <1>6, <1>15 DEF RemoveRow
  <2> QED BY <2>1, <2>2, <1>15 DEF RemoveRow, TodoTypes
<1> HIDE DEF Sound, Hooks
<1> QED BY <1>8, <1>9, <1>10, <1>11, <1>12, <1>13, <1>14, <1>15 DEF HookStep

(* The lines that the events of a note make are lines.                     *)
LEMMA AppliedIsReached ==
  ASSUME NEW S, NEW lines \in Seq(S), NEW event \in Seq(LineEntry)
  PROVE  \E v : /\ Stepping!IsRun([lines |-> lines, offset |-> 0, panicked |-> FALSE], event, v)
                /\ Applied(lines, event) = v[Len(event)]
                /\ \A k \in 0..Len(event) : Reached(v[k])
<1> DEFINE base == [lines |-> lines, offset |-> 0, panicked |-> FALSE]
<1>1. Applied(lines, event) = Stepping!Folded(base, event)
  BY DEF Applied, Stepping!Folded, FoldLeft, Stepping!FoldLeft,
         MapThenFoldSet, Stepping!MapThenFoldSet, Max, Stepping!Max
<1>2. Reached(base)
  BY DEF Reached
<1> HIDE DEF base
<1>3. PICK v : Stepping!IsRun(base, event, v) /\ Stepping!Folded(base, event) = v[Len(event)]
  BY Stepping!FoldedIsARun
<1> DEFINE K == {k \in Nat : k <= Len(event) => Reached(v[k])}
<1>4. 0 \in K
  BY <1>2, <1>3 DEF Stepping!IsRun
<1>5. ASSUME NEW k \in Nat, k \in K PROVE k + 1 \in K
  <2>1. SUFFICES ASSUME k + 1 <= Len(event) PROVE Reached(v[k + 1])
    OBVIOUS
  <2>2. k + 1 \in 1..Len(event) /\ (k + 1) - 1 = k /\ Reached(v[k]) /\ event[k + 1] \in LineEntry
    BY <2>1, <1>5
  <2>3. v[k + 1] = ApplyShifted(v[k], event[k + 1])
    BY <2>2, <1>3 DEF Stepping!IsRun
  <2> QED BY <2>2, <2>3, EntryLeadsOn
<1> HIDE DEF K
<1>6. Nat \subseteq K
  BY <1>4, <1>5, Stepping!NatSetInduction
<1>7. \A k \in 0..Len(event) : Reached(v[k])
  <2>1. Len(event) \in Nat
    OBVIOUS
  <2> QED BY <2>1, <1>6 DEF K
<1> QED BY <1>1, <1>3, <1>7 DEF base
-----------------------------------------------------------------------------
(* While a callback runs, the text goes through the entries that are left, *)
(* and the rows tell where it is.                                          *)

Follows(run, h, text) ==
  /\ run[0].offset = h.offset /\ run[Len(h.entries)].lines = text
  /\ \A k \in 0..Len(h.entries) : Reached(run[k]) /\ ~ run[k].panicked
  /\ \A k \in 1..Len(h.entries) :
       /\ run[k] = ApplyShifted(run[k - 1], h.entries[k])
       /\ LabelsAreUnique(run[k].lines)
       /\ h.entries[k].op = "delete" => Len(run[k].lines) < Len(run[k - 1].lines)

LineAt(h) == Head(h.entries).line + h.offset

Stage(rows, run, h) ==
  /\ h.at \in {"next", "rewrite", "remove"} => TellAllBut(0, rows, run[0].lines)
  /\ h.at = "rewrite" => \E k \in DOMAIN rows : rows[k].line = LineAt(h)
  /\ h.at = "shiftUp" => TellAllBut(LineAt(h), rows, run[0].lines)
  /\ h.at = "insertRow" => TellAllBut(LineAt(h), rows, run[1].lines)
  /\ h.at = "placeRow" => TellAllBut(0, rows, run[1].lines)

RowsFollow ==
  ~ untidy =>
    /\ \A c, d \in TodoClients : Calling(c) /\ Calling(d) => c = d
    /\ (\A c \in TodoClients : ~ Calling(c)) => TellAllBut(0, todos, document)
    /\ \A c \in TodoClients :
         Calling(c) => \E run : Follows(run, hook[c], document) /\ Stage(todos, run, hook[c])

(* What the entry in hand does to the text.                                *)
LEMMA EntryIsApplied ==
  ASSUME NEW h, HookIsSound(h), h.at # "idle", NEW run, NEW text, Follows(run, h, text)
  PROVE  LET e == Head(h.entries)
             i == LineAt(h)
         IN  /\ i \in Int
             /\ \E S : run[0].lines \in Seq(S)
             /\ \E S : run[1].lines \in Seq(S)
             /\ LabelsAreUnique(run[1].lines)
             /\ e.op = "insert" =>
                  /\ i \in 1..(Len(run[0].lines) + 1)
                  /\ run[1].lines = InsertAt(run[0].lines, i, e.text)
                  /\ run[1].offset = h.offset + 1
             /\ e.op = "delete" =>
                  /\ i \in 1..Len(run[0].lines)
                  /\ run[1].lines = RemoveAt(run[0].lines, i)
                  /\ run[1].offset = h.offset - 1
             /\ e.op \in {"set", "setEmpty"} =>
                  /\ i \in Nat \ {0}
                  /\ run[1].lines = SetLine(run[0].lines, i, e.text)
                  /\ run[1].offset = h.offset
<1> DEFINE e == Head(h.entries)
           i == LineAt(h)
           acc == run[0]
<1>1. h.entries \in Seq(LineEntry) /\ h.entries # << >> /\ h.offset \in Int
  BY DEF HookIsSound
<1>2. e \in LineEntry /\ e = h.entries[1] /\ 1 \in 1..Len(h.entries) /\ 0 \in 0..Len(h.entries)
      /\ 1 \in 0..Len(h.entries)
  BY <1>1
<1>3. /\ Reached(run[0]) /\ Reached(run[1]) /\ ~ run[0].panicked /\ ~ run[1].panicked
      /\ run[0].offset = h.offset
      /\ run[1] = ApplyShifted(run[0], e) /\ LabelsAreUnique(run[1].lines)
      /\ e.op = "delete" => Len(run[1].lines) < Len(run[0].lines)
  BY <1>2 DEF Follows
<1> HIDE DEF e
<1>4. i \in Int /\ i = e.line + acc.offset
  BY <1>1, <1>2, <1>3 DEF LineAt, LineEntry, e
<1>5. PICK S : acc \in [lines : Seq(S), offset : Int, panicked : BOOLEAN]
  BY <1>3 DEF Reached
<1>6. \E R : run[1].lines \in Seq(R)
  BY <1>3 DEF Reached
<1> HIDE DEF i, acc
<1>7. run[1] = ApplyShifted(acc, e) /\ ~ acc.panicked
  BY <1>3 DEF acc
<1>8. CASE e.op = "insert"
  <2>1. i \in 1..(Len(acc.lines) + 1)
    <3> SUFFICES ASSUME i \notin 1..(Len(acc.lines) + 1) PROVE FALSE
      OBVIOUS
    <3>1. run[1] = [acc EXCEPT !.panicked = TRUE]
      BY <1>4, <1>7, <1>8 DEF ApplyShifted
    <3> QED BY <1>3, <1>5, <3>1
  <2>2. run[1] = [acc EXCEPT !.lines = InsertAt(@, i, e.text), !.offset = @ + 1]
    BY <1>4, <1>7, <1>8, <2>1 DEF ApplyShifted
  <2>3. run[1].lines = InsertAt(acc.lines, i, e.text) /\ run[1].offset = acc.offset + 1
    BY <1>5, <2>2
  <2> QED BY <1>3, <1>4, <1>5, <1>6, <1>8, <2>1, <2>3 DEF acc, e, i
<1>9. CASE e.op = "delete"
  <2>1. i \in 1..Len(acc.lines)
    <3> SUFFICES ASSUME i \notin 1..Len(acc.lines) PROVE FALSE
      OBVIOUS
    <3>1. run[1] = acc
      BY <1>4, <1>7, <1>9 DEF ApplyShifted
    <3>2. Len(acc.lines) \in Nat
      BY <1>5
    <3> QED BY <1>3, <1>9, <3>1, <3>2 DEF acc
  <2>2. run[1] = [acc EXCEPT !.lines = RemoveAt(@, i), !.offset = @ - 1]
    BY <1>4, <1>7, <1>9, <2>1 DEF ApplyShifted
  <2>3. run[1].lines = RemoveAt(acc.lines, i) /\ run[1].offset = acc.offset - 1
    BY <1>5, <2>2
  <2> QED BY <1>3, <1>4, <1>5, <1>6, <1>9, <2>1, <2>3 DEF acc, e, i
<1>10. CASE e.op \in {"set", "setEmpty"}
  <2>1. i >= 1
    <3> SUFFICES ASSUME ~ i >= 1 PROVE FALSE
      OBVIOUS
    <3>1. run[1] = [acc EXCEPT !.panicked = TRUE]
      BY <1>4, <1>7, <1>10 DEF ApplyShifted
    <3> QED BY <1>3, <1>5, <3>1
  <2>2. run[1] = [acc EXCEPT !.lines = SetLine(@, i, e.text)]
    BY <1>4, <1>7, <1>10, <2>1 DEF ApplyShifted
  <2>3. run[1].lines = SetLine(acc.lines, i, e.text) /\ run[1].offset = acc.offset
    BY <1>5, <2>2
  <2>4. i \in Nat \ {0}
    BY <1>4, <2>1
  <2> QED BY <1>3, <1>4, <1>5, <1>6, <1>10, <2>3, <2>4 DEF acc, e, i
<1>11. e.op \in LineOps
  BY <1>2 DEF LineEntry
<1> QED BY <1>8, <1>9, <1>10, <1>11 DEF LineOps

(* When the rows tell the text after the entry in hand, the callback has   *)
(* caught up with it and goes on.                                          *)
LEMMA GoingOnFollows ==
  ASSUME TodoTypes, RowsFollow, NEW c \in TodoClients, Calling(c), UNCHANGED <<document, untidy>>,
         NEW shift \in Int, NextEntry(c, shift),
         NEW run, ~ untidy => Follows(run, hook[c], document),
         ~ untidy => TellAllBut(0, todos', run[1].lines) /\ run[1].offset = hook[c].offset + shift
  PROVE  RowsFollow'
<1> SUFFICES ASSUME ~ untidy PROVE RowsFollow'
  BY DEF RowsFollow
<1> DEFINE h == hook[c]
           n == Len(h.entries)
<1>1. h.entries \in Seq(LineEntry) /\ h.entries # << >> /\ DOMAIN hook = TodoClients
      /\ HookIsSound(h) /\ n \in Nat \ {0}
  BY DEF TodoTypes, HookIsSound, Calling
<1>2. \A d \in TodoClients : d # c => ~ Calling(d) /\ hook'[d] = hook[d]
  BY DEF RowsFollow, NextEntry
<1>3. \A d \in TodoClients : d # c => ~ Calling(d)'
  BY <1>2 DEF Calling
<1>4. CASE n = 1
  <2>1. hook'[c] = NoHook
    BY <1>1, <1>4 DEF NextEntry
  <2>2. \A d \in TodoClients : ~ Calling(d)'
    BY <1>3, <2>1 DEF Calling, NoHook
  <2>3. run[1].lines = document'
    BY <1>4 DEF Follows
  <2> QED BY <2>2, <2>3 DEF RowsFollow
<1>5. CASE n # 1
  <2> DEFINE k == [at |-> "next", entries |-> Tail(h.entries), offset |-> h.offset + shift]
             v == [j \in 0..(n - 1) |-> run[j + 1]]
  <2>1. hook'[c] = k
    BY <1>1, <1>5 DEF NextEntry
  <2>2. /\ Len(k.entries) = n - 1 /\ n - 1 \in Nat /\ n \in Nat /\ n >= 1
        /\ \A j \in 1..(n - 1) : k.entries[j] = h.entries[j + 1]
    BY <1>1, <1>5
  <2>3. /\ run[1].offset = k.offset /\ run[n].lines = document'
        /\ \A j \in 0..n : Reached(run[j]) /\ ~ run[j].panicked
        /\ \A j \in 1..n :
             /\ run[j] = ApplyShifted(run[j - 1], h.entries[j])
             /\ LabelsAreUnique(run[j].lines)
             /\ h.entries[j].op = "delete" => Len(run[j].lines) < Len(run[j - 1].lines)
    BY DEF Follows
  <2>4. \A j \in 0..(n - 1) : v[j] = run[j + 1]
    OBVIOUS
  <2> HIDE DEF v, k, n
  <2> DEFINE m == n - 1
  <2>5. m \in Nat /\ n = m + 1
    BY <2>2
  <2>6. \A j \in 0..m : v[j] = run[j + 1]
    BY <2>4
  <2> HIDE DEF m
  <2>7. v[0] = run[1] /\ v[m] = run[n]
    BY <2>5, <2>6
  <2>8. \A j \in 0..m : Reached(v[j]) /\ ~ v[j].panicked
    <3> TAKE j \in 0..m
    <3>1. j + 1 \in 0..n /\ v[j] = run[j + 1]
      BY <2>5, <2>6
    <3> QED BY <2>3, <3>1
  <2>9. ASSUME NEW j \in 1..m
        PROVE  /\ v[j] = ApplyShifted(v[j - 1], k.entries[j])
               /\ LabelsAreUnique(v[j].lines)
               /\ k.entries[j].op = "delete" => Len(v[j].lines) < Len(v[j - 1].lines)
    <3>1. v[j] = run[j + 1] /\ v[j - 1] = run[j] /\ k.entries[j] = h.entries[j + 1]
          /\ j + 1 \in 1..n /\ (j + 1) - 1 = j
      <4>1. j \in 0..m /\ j - 1 \in 0..m /\ (j - 1) + 1 = j /\ j + 1 \in 1..n /\ (j + 1) - 1 = j
        BY <2>5
      <4>2. k.entries[j] = h.entries[j + 1]
        BY <2>2 DEF m
      <4> QED BY <2>6, <4>1, <4>2
    <3> QED BY <2>3, <3>1
  <2>10. Len(k.entries) = m
    BY <2>2 DEF m
  <2>11. Follows(v, k, document')
    BY <2>3, <2>7, <2>8, <2>9, <2>10 DEF Follows
  <2>12. Stage(todos', v, k)
    <3>1. k.at = "next"
      BY DEF k
    <3> QED BY <2>7, <3>1 DEF Stage
  <2>13. Calling(c)'
    BY <2>1 DEF Calling, k
  <2>14. \A d \in TodoClients : Calling(d)' => d = c
    BY <1>3
  <2>15. \E u : Follows(u, hook'[c], document') /\ Stage(todos', u, hook'[c])
    BY <2>1, <2>11, <2>12
  <2> QED BY <2>13, <2>14, <2>15 DEF RowsFollow
<1> QED BY <1>4, <1>5

(* A statement that leads to another one of the same entry.                *)
LEMMA ProceedingFollows ==
  ASSUME TodoTypes, RowsFollow, NEW c \in TodoClients, Calling(c), UNCHANGED <<document, untidy>>,
         NEW at \in Points \ {"idle"}, Proceed(c, at),
         NEW run, ~ untidy => Follows(run, hook[c], document),
         ~ untidy => Stage(todos', run, [hook[c] EXCEPT !.at = at])
  PROVE  RowsFollow'
<1> SUFFICES ASSUME ~ untidy PROVE RowsFollow'
  BY DEF RowsFollow
<1> DEFINE k == [hook[c] EXCEPT !.at = at]
<1>1. DOMAIN hook = TodoClients /\ HookIsSound(hook[c])
  BY DEF TodoTypes
<1>2. hook' = [hook EXCEPT ![c] = k]
  BY DEF Proceed
<1>3. k.at = at /\ k.entries = hook[c].entries /\ k.offset = hook[c].offset
  BY <1>1 DEF HookIsSound
<1>4. Stage(todos', run, k)
  OBVIOUS
<1> HIDE DEF k
<1>5. hook'[c] = k /\ \A d \in TodoClients : d # c => hook'[d] = hook[d] /\ ~ Calling(d)
  BY <1>1, <1>2 DEF RowsFollow
<1>6. Calling(c)' /\ \A d \in TodoClients : Calling(d)' => d = c
  BY <1>3, <1>5 DEF Calling
<1>7. Follows(run, k, document')
  BY <1>3 DEF Follows
<1>8. \E u : Follows(u, hook'[c], document') /\ Stage(todos', u, hook'[c])
  BY <1>4, <1>5, <1>7
<1> QED BY <1>6, <1>8 DEF RowsFollow

(* The row of a checkbox that came in has no other row's label.            *)
LEMMA NewLabelIsFree ==
  ASSUME NEW S, NEW lines \in Seq(S), NEW rows, NEW i \in DOMAIN lines, LabelsAreUnique(lines),
         lines[i] \in DOMAIN Boxes, NEW other, TellAllBut(other, rows, lines)
  PROVE  \A k \in DOMAIN rows : rows[k].label = Boxes[lines[i]].label => rows[k].line = i
<1> TAKE k \in DOMAIN rows
<1>1. Tells(rows[k], lines)
  BY DEF TellAllBut
<1> QED BY <1>1 DEF Tells, LabelsAreUnique

(* One row more tells one line more.                                       *)
LEMMA OneRowMore ==
  ASSUME NEW S, NEW lines \in Seq(S), NEW R, NEW rows \in Seq(R), NEW row \in R, TellAllBut(row.line, rows, lines),
         Tells(row, lines)
  PROVE  TellAllBut(0, Append(rows, row), lines)
<1> DEFINE new == Append(rows, row)
<1>1. /\ DOMAIN rows = 1..Len(rows) /\ Len(rows) \in Nat /\ DOMAIN new = 1..(Len(rows) + 1)
      /\ new[Len(rows) + 1] = row /\ \A k \in 1..Len(rows) : new[k] = rows[k]
  OBVIOUS
<1>2. 0 \notin DOMAIN lines
  OBVIOUS
<1> HIDE DEF new
<1>3. \A k \in DOMAIN new : k \in DOMAIN rows \/ k = Len(rows) + 1
  BY <1>1
<1>4. \A k \in DOMAIN new : new[k].line # 0 /\ Tells(new[k], lines)
  <2> TAKE k \in DOMAIN new
  <2>1. Tells(new[k], lines)
    BY <1>1, <1>3 DEF TellAllBut
  <2> QED BY <2>1, <1>2 DEF Tells
<1>5. \A k \in DOMAIN rows : k \in DOMAIN new /\ new[k] = rows[k]
  BY <1>1
<1>6. Len(rows) + 1 \in DOMAIN new
  BY <1>1
<1>7. \A l \in DOMAIN lines \ {0} : lines[l] \in DOMAIN Boxes => \E k \in DOMAIN new : new[k].line = l
  <2> TAKE l \in DOMAIN lines \ {0}
  <2>1. CASE l = row.line
    BY <2>1, <1>1, <1>6
  <2>2. CASE l # row.line
    BY <2>2, <1>5 DEF TellAllBut
  <2> QED BY <2>1, <2>2
<1> QED BY <1>4, <1>7 DEF TellAllBut, new

(* Rows that change neither line nor label nor state tell what they told.  *)
LEMMA SameTelling ==
  ASSUME NEW rows, NEW new, NEW i, NEW lines, DOMAIN new = DOMAIN rows,
         \A k \in DOMAIN rows :
           new[k].line = rows[k].line /\ new[k].label = rows[k].label /\ new[k].state = rows[k].state
  PROVE  TellAllBut(i, rows, lines) => TellAllBut(i, new, lines)
BY DEF TellAllBut, Tells

(* A row that is rewritten tells the line as it is then.                   *)
LEMMA RewrittenRowTells ==
  ASSUME NEW S, NEW lines \in Seq(S), NEW rows, NEW new, NEW i \in Nat \ {0}, NEW text \in DOMAIN Boxes,
         TellAllBut(0, rows, lines), Blank \notin DOMAIN Boxes,
         \E k \in DOMAIN rows : rows[k].line = i,
         DOMAIN new = DOMAIN rows,
         \A k \in DOMAIN rows : rows[k].line # i => new[k] = rows[k],
         \A k \in DOMAIN rows : rows[k].line = i =>
           new[k].line = i /\ new[k].label = Boxes[text].label /\ new[k].state = Boxes[text].state
  PROVE  TellAllBut(0, new, SetLine(lines, i, text))
<1> DEFINE l2 == SetLine(lines, i, text)
<1>1. i \in DOMAIN lines
  BY DEF TellAllBut, Tells
<1>2. i <= Len(lines) /\ DOMAIN lines = 1..Len(lines) /\ Len(lines) \in Nat
  BY <1>1
<1>3. l2 \in Seq(S \cup {text, Blank}) /\ Len(l2) = Len(lines)
      /\ \A l \in 1..Len(lines) : l2[l] = IF l = i THEN text ELSE lines[l]
  <2>1. /\ l2 \in Seq(S \cup {text, Blank}) /\ Len(l2) = IF i > Len(lines) THEN i ELSE Len(lines)
        /\ \A l \in 1..(IF i > Len(lines) THEN i ELSE Len(lines)) :
             l2[l] = IF l = i THEN text ELSE IF l <= Len(lines) THEN lines[l] ELSE Blank
    BY LinesAfterSet
  <2>2. \A l \in 1..Len(lines) : l2[l] = IF l = i THEN text ELSE lines[l]
    BY <1>2 DEF SetLine
  <2> HIDE DEF l2
  <2>3. Len(l2) = Len(lines)
    <3>1. Len(l2) = IF i > Len(lines) THEN i ELSE Len(lines)
      BY <2>1
    <3> QED BY <1>2, <3>1
  <2> QED BY <2>1, <2>2, <2>3
<1> HIDE DEF l2
<1>4. DOMAIN l2 = DOMAIN lines /\ 0 \notin DOMAIN l2
  BY <1>2, <1>3
<1>5. l2[i] = text /\ \A l \in DOMAIN lines : l # i => l2[l] = lines[l]
  BY <1>1, <1>2, <1>3
<1>6. ASSUME NEW k \in DOMAIN new PROVE new[k].line # 0 /\ Tells(new[k], l2)
  <2>1. Tells(rows[k], lines)
    BY DEF TellAllBut
  <2>2. CASE rows[k].line = i
    BY <1>1, <1>4, <1>5, <2>2 DEF Tells
  <2>3. CASE rows[k].line # i
    BY <1>4, <1>5, <2>1, <2>3 DEF Tells
  <2> QED BY <2>2, <2>3
<1>7. ASSUME NEW l \in DOMAIN l2 \ {0}, l2[l] \in DOMAIN Boxes PROVE \E k \in DOMAIN new : new[k].line = l
  <2>1. CASE l = i
    BY <2>1
  <2>2. CASE l # i
    BY <1>4, <1>5, <1>7, <2>2 DEF TellAllBut
  <2> QED BY <2>1, <2>2
<1> QED BY <1>6, <1>7 DEF TellAllBut, l2

(* Where no row is, and after a DELETE, the others tell the other lines.    *)
LEMMA NoRowToTell ==
  ASSUME RowsAreSound(todos), NEW i, LineFree(0, i), NEW S, NEW lines \in Seq(S),
         TellAllBut(0, todos, lines)
  PROVE  TellAllBut(i, todos, lines)
<1>1. 0 \notin DOMAIN todos /\ 0 \notin DOMAIN lines
  BY DEF RowsAreSound
<1>2. \A k \in DOMAIN todos : todos[k].line # i
  BY <1>1 DEF LineFree
<1> QED BY <1>1, <1>2 DEF TellAllBut

LEMMA DroppedRowIsUntold ==
  ASSUME RowsAreSound(todos), NEW i, DropLine(i), NEW S, NEW lines \in Seq(S),
         TellAllBut(0, todos, lines)
  PROVE  TellAllBut(i, todos', lines)
<1>1. CASE LineFree(0, i) /\ UNCHANGED todos
  BY <1>1, NoRowToTell
<1>2. CASE \E k \in DOMAIN todos : todos[k].line = i /\ todos' = RemoveAt(todos, k)
  <2>1. PICK k \in DOMAIN todos : todos[k].line = i /\ todos' = RemoveAt(todos, k)
    BY <1>2
  <2>2. todos \in Seq(Row) /\ \A j \in DOMAIN todos : todos[j].line = todos[k].line => j = k
    BY DEF RowsAreSound
  <2>3. TellAllBut(todos[k].line, RemoveAt(todos, k), lines)
    BY <2>2, DropTheRow
  <2> QED BY <2>1, <2>3
<1> QED BY <1>1, <1>2 DEF DropLine

(* Each statement brings the rows on with the text.                        *)
LEMMA HookStepsFollow ==
  ASSUME TodoTypes, RowsFollow, NEW c \in TodoClients, HookStep(c)
  PROVE  RowsFollow'
<1> SUFFICES ASSUME ~ untidy PROVE RowsFollow'
  <2>1. UNCHANGED untidy
    BY DEF HookStep, ShiftDown, InsertRow, PlaceRow, DeleteRow, ShiftUp, LookUp, RewriteRow, RemoveRow
  <2> QED BY <2>1 DEF RowsFollow
<1>1. UNCHANGED <<document, untidy>>
  BY DEF HookStep, ShiftDown, InsertRow, PlaceRow, DeleteRow, ShiftUp, LookUp, RewriteRow, RemoveRow
<1>2. Calling(c)
  BY DEF HookStep, ShiftDown, InsertRow, PlaceRow, DeleteRow, ShiftUp, LookUp, RewriteRow, RemoveRow, Calling
<1> DEFINE h == hook[c]
           e == EntryOf(c)
           i == LineOf(c)
<1>3. HookIsSound(h) /\ RowsAreSound(todos) /\ h.at # "idle"
  BY <1>2 DEF TodoTypes, Calling
<1>4. PICK run : Follows(run, h, document) /\ Stage(todos, run, h)
  BY <1>2 DEF RowsFollow
<1>5. e = Head(h.entries) /\ i = LineAt(h) /\ (IsBox(c) <=> e.text \in DOMAIN Boxes)
  BY DEF EntryOf, LineOf, LineAt, IsBox
<1> DEFINE old == run[0].lines
           new == run[1].lines
<1>6. /\ i \in Int
      /\ LabelsAreUnique(new)
      /\ e.op = "insert" =>
           i \in 1..(Len(old) + 1) /\ new = InsertAt(old, i, e.text) /\ run[1].offset = h.offset + 1
      /\ e.op = "delete" =>
           i \in 1..Len(old) /\ new = RemoveAt(old, i) /\ run[1].offset = h.offset - 1
      /\ e.op \in {"set", "setEmpty"} =>
           i \in Nat \ {0} /\ new = SetLine(old, i, e.text) /\ run[1].offset = h.offset
  BY <1>3, <1>4, <1>5, EntryIsApplied
<1>7. PICK S : old \in Seq(S)
  BY <1>3, <1>4, EntryIsApplied
<1>8. PICK T : new \in Seq(T)
  BY <1>3, <1>4, EntryIsApplied
<1>9. Blank \notin DOMAIN Boxes /\ todos \in Seq(Row)
  BY <1>3, TodoAssumption DEF RowsAreSound
<1>10. ASSUME NEW shift \in Int, NextEntry(c, shift), TellAllBut(0, todos', new),
              run[1].offset = h.offset + shift
       PROVE  RowsFollow'
  BY <1>1, <1>2, <1>4, <1>10, GoingOnFollows
<1>11. ASSUME NEW at \in Points \ {"idle"}, Proceed(c, at), Stage(todos', run, [h EXCEPT !.at = at])
       PROVE  RowsFollow'
  BY <1>1, <1>2, <1>4, <1>11, ProceedingFollows
<1>12. ASSUME NEW at, at \in Points \ {"idle"},
              at \in {"next", "rewrite", "remove"} => TellAllBut(0, todos', old),
              at = "rewrite" => \E k \in DOMAIN todos' : todos'[k].line = i,
              at = "shiftUp" => TellAllBut(i, todos', old),
              at = "insertRow" => TellAllBut(i, todos', new),
              at = "placeRow" => TellAllBut(0, todos', new)
       PROVE  Stage(todos', run, [h EXCEPT !.at = at])
  <2> DEFINE k == [h EXCEPT !.at = at]
  <2>1. k.at = at /\ k.entries = h.entries /\ k.offset = h.offset
    BY <1>3 DEF HookIsSound
  <2> HIDE DEF k
  <2>2. LineAt(k) = i
    BY <2>1, <1>5 DEF LineAt
  <2>3. Stage(todos', run, k)
    BY <1>12, <2>1, <2>2 DEF Stage
  <2> QED BY <2>3 DEF k
<1>13. /\ e.op = "insert" => new[i] = e.text /\ i \in DOMAIN new
       /\ e.op \in {"set", "setEmpty"} => new[i] = e.text /\ i \in DOMAIN new
  <2>1. CASE e.op = "insert"
    <3>1. LineCameIn(new, old, i, e.text)
      BY <1>6, <1>7, <2>1, LinesAfterInsert
    <3>2. i \in 1..Len(new) /\ DOMAIN new = 1..Len(new)
      BY <1>6, <1>7, <1>8, <2>1, <3>1 DEF LineCameIn
    <3> QED BY <2>1, <3>1, <3>2 DEF LineCameIn
  <2>2. CASE e.op \in {"set", "setEmpty"}
    <3>1. i \in Nat \ {0} /\ new = SetLine(old, i, e.text) /\ Len(old) \in Nat
      BY <1>6, <1>7, <2>2
    <3> HIDE DEF new, old, i
    <3>2. i \in 1..(IF i > Len(old) THEN i ELSE Len(old))
      BY <3>1
    <3> QED BY <2>2, <3>1, <3>2 DEF SetLine
  <2> QED BY <2>1, <2>2
<1>14. e.op \in LineOps
  BY <1>2, <1>3, EntryInHand DEF LineEntry
<1>15. h.at \in {"insertRow", "placeRow"} => e.op \in {"insert", "set", "setEmpty"} /\ IsBox(c)
  BY <1>3, <1>5, <1>14 DEF HookIsSound, LineOps
<1> HIDE DEF e, i, old, new, h
<1>16. ASSUME h.at \in {"insertRow", "placeRow"}
       PROVE  new[i] = e.text /\ i \in DOMAIN new /\ new[i] \in DOMAIN Boxes
              /\ BoxOf(c) = Boxes[new[i]]
  <2>1. new[i] = e.text /\ i \in DOMAIN new
    BY <1>13, <1>15, <1>16
  <2> QED BY <1>5, <1>15, <1>16, <2>1 DEF BoxOf, e
<1>17. CASE ShiftDown(c)
  <2>1. /\ h.at = "next" /\ e.op = "insert" /\ Shift(i, 1)
        /\ IF IsBox(c) THEN Proceed(c, "insertRow") ELSE NextEntry(c, 1)
    BY <1>17 DEF ShiftDown, h, e, i
  <2>2. todos' = Moved(todos, i, 1)
    BY <1>3, <1>6, <2>1, MovedRowsAreSound
  <2>3. TellAllBut(i, todos', new)
    <3>1. TellAllBut(0, todos, old) /\ i \in 1..(Len(old) + 1) /\ new = InsertAt(old, i, e.text)
      BY <1>4, <1>6, <2>1 DEF Stage, old
    <3> QED BY <1>7, <1>9, <2>2, <3>1, MoveDown
  <2>4. CASE IsBox(c)
    <3>1. Stage(todos', run, [h EXCEPT !.at = "insertRow"])
      BY <1>12, <2>3 DEF Points
    <3> QED BY <1>11, <2>1, <2>4, <3>1 DEF Points
  <2>5. CASE ~ IsBox(c)
    <3>1. TellAllBut(0, todos', new)
      BY <1>5, <1>8, <1>13, <2>1, <2>3, <2>5, NoBoxNoRow
    <3>2. NextEntry(c, 1) /\ run[1].offset = h.offset + 1
      BY <1>6, <2>1, <2>5
    <3> QED BY <1>10, <3>1, <3>2
  <2> QED BY <2>4, <2>5
<1>18. CASE InsertRow(c)
  <2>1. /\ h.at = "insertRow" /\ Proceed(c, "placeRow")
        /\ \/ ~ LabelFree(0, BoxOf(c).label) /\ UNCHANGED todos
           \/ LabelFree(0, BoxOf(c).label) /\ todos' = Append(todos, NewRow(c))
    BY <1>18 DEF InsertRow, h
  <2>2. TellAllBut(i, todos, new)
    BY <1>4, <1>5, <2>1 DEF Stage, new
  <2>3. new[i] \in DOMAIN Boxes /\ i \in DOMAIN new /\ BoxOf(c) = Boxes[new[i]]
    BY <1>16, <2>1
  <2>4. LabelFree(0, BoxOf(c).label)
    <3>1. \A k \in DOMAIN todos : todos[k].label = BoxOf(c).label => todos[k].line = i
      BY <1>6, <1>8, <2>2, <2>3, NewLabelIsFree
    <3>2. \A k \in DOMAIN todos : todos[k].line # i
      BY <2>2 DEF TellAllBut
    <3> QED BY <3>1, <3>2 DEF LabelFree
  <2>5. NewRow(c) \in Row /\ NewRow(c).line = i /\ Tells(NewRow(c), new)
    <3>1. NewRow(c) = [line |-> i, label |-> BoxOf(c).label, state |-> BoxOf(c).state, status |-> "backlog"]
      BY DEF NewRow, i
    <3>2. BoxOf(c).label \in {Boxes[x].label : x \in DOMAIN Boxes} /\ BoxOf(c).state \in {"open", "checked"}
      BY <1>2, <1>3, <1>15, <2>1, EntryInHand DEF h
    <3> QED BY <1>6, <2>3, <3>1, <3>2 DEF Tells, Row, Statuses
  <2>6. TellAllBut(0, todos', new)
    BY <1>8, <1>9, <2>1, <2>2, <2>4, <2>5, OneRowMore
  <2>7. Stage(todos', run, [h EXCEPT !.at = "placeRow"])
    BY <1>12, <2>6 DEF Points
  <2> QED BY <1>11, <2>1, <2>7 DEF Points
<1>19. CASE PlaceRow(c)
  <2> DEFINE shift == IF e.op = "insert" THEN 1 ELSE 0
             New(j) == IF todos[j].label # BoxOf(c).label THEN todos[j]
                       ELSE [todos[j] EXCEPT !.line = i, !.state = BoxOf(c).state]
  <2>1. h.at = "placeRow" /\ NextEntry(c, shift) /\ todos' = [j \in DOMAIN todos |-> New(j)]
    BY <1>19 DEF PlaceRow, h, e, i
  <2>2. TellAllBut(0, todos, new)
    BY <1>4, <2>1 DEF Stage, new
  <2>3. new[i] \in DOMAIN Boxes /\ i \in DOMAIN new /\ BoxOf(c) = Boxes[new[i]]
    BY <1>16, <2>1
  <2>4. \A k \in DOMAIN todos : todos[k].label = BoxOf(c).label => todos[k].line = i
    BY <1>6, <1>8, <2>2, <2>3, NewLabelIsFree
  <2>5. ASSUME NEW k \in DOMAIN todos
        PROVE  New(k).line = todos[k].line /\ New(k).label = todos[k].label /\ New(k).state = todos[k].state
    <3>1. todos[k] \in Row
      BY <1>9
    <3>2. CASE todos[k].label # BoxOf(c).label
      BY <3>2
    <3>3. CASE todos[k].label = BoxOf(c).label
      <4>1. New(k) = [todos[k] EXCEPT !.line = i, !.state = BoxOf(c).state]
        BY <3>3
      <4>2. todos[k].line = i /\ Tells(todos[k], new)
        BY <2>2, <2>4, <3>3 DEF TellAllBut
      <4>3. todos[k].state = BoxOf(c).state
        BY <2>3, <4>2 DEF Tells
      <4> HIDE DEF New
      <4> QED BY <3>1, <4>1, <4>2, <4>3 DEF Row
    <3> QED BY <3>2, <3>3
  <2> HIDE DEF New
  <2>6. TellAllBut(0, todos', new)
    <3>1. DOMAIN todos' = DOMAIN todos /\ \A k \in DOMAIN todos : todos'[k] = New(k)
      BY <2>1
    <3> QED BY <2>2, <2>5, <3>1, SameTelling
  <2>7. shift \in Int /\ run[1].offset = h.offset + shift
    <3>1. CASE e.op = "insert"
      BY <1>6, <3>1
    <3>2. CASE e.op # "insert"
      <4>1. run[1].offset = h.offset /\ h.offset \in Int /\ shift = 0
        BY <1>3, <1>6, <1>15, <2>1, <3>2 DEF HookIsSound
      <4> QED BY <4>1
    <3> QED BY <3>1, <3>2
  <2> QED BY <1>10, <2>1, <2>6, <2>7
<1>20. CASE DeleteRow(c)
  <2>1. h.at = "next" /\ e.op = "delete" /\ DropLine(i) /\ Proceed(c, "shiftUp")
    BY <1>20 DEF DeleteRow, h, e, i
  <2>2. TellAllBut(0, todos, old) /\ i \in 1..Len(old)
    BY <1>4, <1>6, <2>1 DEF Stage, old
  <2>3. TellAllBut(i, todos', old)
    BY <1>3, <1>7, <2>1, <2>2, DroppedRowIsUntold
  <2>4. Stage(todos', run, [h EXCEPT !.at = "shiftUp"])
    BY <1>12, <2>3 DEF Points
  <2> QED BY <1>11, <2>1, <2>4 DEF Points
<1>21. CASE ShiftUp(c)
  <2>1. h.at = "shiftUp" /\ Shift(i + 1, -1) /\ NextEntry(c, -1)
    BY <1>21 DEF ShiftUp, h, i
  <2>2. e.op = "delete"
    BY <1>3, <1>5, <2>1 DEF HookIsSound
  <2>3. TellAllBut(i, todos, old) /\ i \in 1..Len(old) /\ new = RemoveAt(old, i)
        /\ run[1].offset = h.offset - 1
    BY <1>4, <1>5, <1>6, <2>1, <2>2 DEF Stage, old
  <2>4. todos' = Moved(todos, i + 1, -1)
    BY <1>3, <1>6, <2>1, MovedRowsAreSound
  <2>5. TellAllBut(0, todos', new)
    BY <1>7, <1>9, <2>3, <2>4, MoveUp
  <2>6. run[1].offset = h.offset + (-1)
    BY <1>3, <2>3 DEF HookIsSound
  <2> QED BY <1>10, <2>1, <2>5, <2>6
<1>22. ASSUME e.op \in {"set", "setEmpty"}, TellAllBut(i, todos', old)
       PROVE  TellAllBut(i, todos', new)
  BY <1>6, <1>7, <1>9, <1>22, SetKeepsTelling
<1>23. ASSUME e.op \in {"set", "setEmpty"}, TellAllBut(i, todos', new), ~ IsBox(c)
       PROVE  TellAllBut(0, todos', new)
  BY <1>5, <1>8, <1>13, <1>23, NoBoxNoRow
<1>24. CASE LookUp(c)
  <2>1. /\ h.at = "next" /\ e.op \in {"set", "setEmpty"} /\ UNCHANGED todos
        /\ \/ ~ LineFree(0, i) /\ Proceed(c, "rewrite")
           \/ Proceed(c, "remove")
           \/ LineFree(0, i) /\ IsBox(c) /\ Proceed(c, "insertRow")
           \/ LineFree(0, i) /\ ~ IsBox(c) /\ NextEntry(c, 0)
    BY <1>24 DEF LookUp, h, e, i
  <2>2. TellAllBut(0, todos', old)
    BY <1>4, <2>1 DEF Stage, old
  <2>3. LineFree(0, i) => TellAllBut(i, todos', new)
    <3> SUFFICES ASSUME LineFree(0, i) PROVE TellAllBut(i, todos', new)
      OBVIOUS
    <3>1. TellAllBut(i, todos', old)
      BY <1>3, <1>7, <2>1, <2>2, NoRowToTell
    <3> QED BY <1>22, <2>1, <3>1
  <2>4. CASE ~ LineFree(0, i) /\ Proceed(c, "rewrite")
    <3>1. \E k \in DOMAIN todos' : todos'[k].line = i
      BY <2>1, <2>4 DEF LineFree
    <3>2. Stage(todos', run, [h EXCEPT !.at = "rewrite"])
      BY <1>12, <2>2, <3>1 DEF Points
    <3> QED BY <1>11, <2>4, <3>2 DEF Points
  <2>5. CASE Proceed(c, "remove")
    <3>1. Stage(todos', run, [h EXCEPT !.at = "remove"])
      BY <1>12, <2>2 DEF Points
    <3> QED BY <1>11, <2>5, <3>1 DEF Points
  <2>6. CASE LineFree(0, i) /\ IsBox(c) /\ Proceed(c, "insertRow")
    <3>1. Stage(todos', run, [h EXCEPT !.at = "insertRow"])
      BY <1>12, <2>3, <2>6 DEF Points
    <3> QED BY <1>11, <2>6, <3>1 DEF Points
  <2>7. CASE LineFree(0, i) /\ ~ IsBox(c) /\ NextEntry(c, 0)
    <3>1. TellAllBut(0, todos', new)
      BY <1>23, <2>1, <2>3, <2>7
    <3>2. run[1].offset = h.offset + 0
      BY <1>3, <1>6, <2>1 DEF HookIsSound
    <3> QED BY <1>10, <2>7, <3>1, <3>2
  <2> QED BY <2>1, <2>4, <2>5, <2>6, <2>7
<1>25. CASE RewriteRow(c)
  <2> DEFINE New(j) == IF todos[j].line # i THEN todos[j]
                       ELSE [todos[j] EXCEPT !.label = BoxOf(c).label, !.state = BoxOf(c).state]
  <2>1. /\ h.at = "rewrite" /\ NextEntry(c, 0) /\ todos' = [j \in DOMAIN todos |-> New(j)]
        /\ \A j \in DOMAIN todos : todos[j].line = i => LabelFree(j, BoxOf(c).label)
    BY <1>25 DEF RewriteRow, h, i
  <2>2. e.op \in {"set", "setEmpty"} /\ e.text \in DOMAIN Boxes /\ BoxOf(c) = Boxes[e.text]
    BY <1>3, <1>5, <2>1 DEF HookIsSound, BoxOf, e
  <2>3. TellAllBut(0, todos, old)
    BY <1>4, <2>1 DEF Stage, old
  <2>4. \A k \in DOMAIN todos :
          /\ todos[k].line # i => New(k) = todos[k]
          /\ todos[k].line = i =>
               New(k).line = i /\ New(k).label = BoxOf(c).label /\ New(k).state = BoxOf(c).state
    <3> TAKE k \in DOMAIN todos
    <3>1. todos[k] \in Row
      BY <1>9
    <3> QED BY <3>1 DEF Row
  <2> HIDE DEF New
  <2>5. DOMAIN todos' = DOMAIN todos /\ \A k \in DOMAIN todos : todos'[k] = New(k)
    BY <2>1
  <2>6. \E k \in DOMAIN todos : todos[k].line = i
    BY <1>4, <1>5, <2>1 DEF Stage
  <2>7. TellAllBut(0, todos', SetLine(old, i, e.text))
    <3>1. i \in Nat \ {0}
      BY <1>6, <2>2
    <3>2. /\ \A k \in DOMAIN todos : todos[k].line # i => todos'[k] = todos[k]
          /\ \A k \in DOMAIN todos : todos[k].line = i =>
               /\ todos'[k].line = i
               /\ todos'[k].label = Boxes[e.text].label /\ todos'[k].state = Boxes[e.text].state
      BY <2>2, <2>4, <2>5
    <3> QED BY <1>7, <1>9, <2>2, <2>3, <2>5, <2>6, <3>1, <3>2, RewrittenRowTells
  <2>8. new = SetLine(old, i, e.text) /\ run[1].offset = h.offset + 0
    BY <1>3, <1>6, <2>2 DEF HookIsSound
  <2> QED BY <1>10, <2>1, <2>7, <2>8
<1>26. CASE RemoveRow(c)
  <2>1. h.at = "remove" /\ DropLine(i) /\ NextEntry(c, 0)
    BY <1>26 DEF RemoveRow, h, i
  <2>2. e.op \in {"set", "setEmpty"} /\ ~ IsBox(c)
    BY <1>3, <1>5, <2>1 DEF HookIsSound
  <2>3. TellAllBut(i, todos', old)
    <3>1. TellAllBut(0, todos, old)
      BY <1>4, <2>1 DEF Stage, old
    <3> QED BY <1>3, <1>7, <2>1, <3>1, DroppedRowIsUntold
  <2>4. TellAllBut(0, todos', new)
    BY <1>22, <1>23, <2>2, <2>3
  <2>5. run[1].offset = h.offset + 0
    BY <1>3, <1>6, <2>2 DEF HookIsSound
  <2> QED BY <1>10, <2>1, <2>4, <2>5
<1> QED BY <1>17, <1>18, <1>19, <1>20, <1>21, <1>24, <1>25, <1>26 DEF HookStep

(* A replay that ends without a panic went through none.                   *)
LEMMA NoPanicOnTheWay ==
  ASSUME NEW base, NEW event \in Seq(LineEntry), NEW v, Stepping!IsRun(base, event, v),
         \A k \in 0..Len(event) : Reached(v[k]), ~ v[Len(event)].panicked,
         NEW k \in 0..Len(event)
  PROVE  ~ v[k].panicked
<1> SUFFICES ASSUME v[k].panicked PROVE FALSE
  OBVIOUS
<1> DEFINE n == Len(event)
           T == {j \in Nat : k + j <= n => v[k + j].panicked}
<1>1. n \in Nat /\ k \in Nat /\ k <= n
  OBVIOUS
<1>2. 0 \in T
  BY <1>1
<1>3. ASSUME NEW j \in Nat, j \in T PROVE j + 1 \in T
  <2>1. SUFFICES ASSUME k + (j + 1) <= n PROVE v[k + (j + 1)].panicked
    OBVIOUS
  <2>2. k + j \in 0..n /\ k + (j + 1) \in 1..n /\ (k + (j + 1)) - 1 = k + j /\ v[k + j].panicked
    BY <1>1, <1>3, <2>1
  <2>3. v[k + (j + 1)] = ApplyShifted(v[k + j], event[k + (j + 1)]) /\ event[k + (j + 1)] \in LineEntry
    BY <2>2 DEF Stepping!IsRun
  <2> QED BY <2>2, <2>3, EntryLeadsOn
<1> HIDE DEF T
<1>4. n - k \in T
  BY <1>1, <1>2, <1>3, Stepping!NatSetInduction
<1>5. k + (n - k) = n /\ n - k \in Nat
  BY <1>1
<1> QED BY <1>4, <1>5 DEF T

(* A tidy event is one that a callback can follow.                         *)
LEMMA TidyEventsAreFollowed ==
  ASSUME NEW S, document \in Seq(S), NEW event \in Seq(LineEntry), Tidy(event),
         ~ Applied(document, event).panicked,
         NEW h, h = [at |-> "next", entries |-> event, offset |-> 0]
  PROVE  \E run : Follows(run, h, applyEvent(document, event)) /\ run[0].lines = document
<1> DEFINE base == [lines |-> document, offset |-> 0, panicked |-> FALSE]
           n == Len(event)
<1>1. PICK v : /\ Stepping!IsRun(base, event, v)
               /\ Applied(document, event) = v[n]
               /\ \A k \in 0..n : Reached(v[k])
  BY AppliedIsReached
<1>2. n \in Nat
  OBVIOUS
<1>3. \A k \in 0..n : ~ v[k].panicked
  BY <1>1, NoPanicOnTheWay
<1>4. ASSUME NEW k \in 0..n PROVE After(event, k) = v[k].lines
  <2> DEFINE part == SubSeq(event, 1, k)
  <2>1. /\ part \in Seq(LineEntry) /\ Len(part) = k
        /\ \A j \in 1..k : part[j] = event[j] /\ j \in 1..n
    BY <1>2
  <2> HIDE DEF part
  <2>2. Stepping!IsRun(base, part, v)
    BY <1>1, <2>1 DEF Stepping!IsRun
  <2>3. Stepping!Folded(base, part) = v[k]
    BY <2>1, <2>2, Stepping!FoldIsTheRun
  <2>4. Applied(document, part) = Stepping!Folded(base, part)
    BY DEF Applied, Stepping!Folded, FoldLeft, Stepping!FoldLeft,
           MapThenFoldSet, Stepping!MapThenFoldSet, Max, Stepping!Max
  <2>5. After(event, k) = applyEvent(document, part)
    BY DEF After, part
  <2> QED BY <1>3, <2>3, <2>4, <2>5 DEF applyEvent
<1>5. v[0] = base /\ \A k \in 1..n : v[k] = ApplyShifted(v[k - 1], event[k])
  BY <1>1 DEF Stepping!IsRun
<1> HIDE DEF base
<1>6. v[0].offset = 0 /\ v[0].lines = document
  BY <1>5 DEF base
<1>7. ASSUME NEW k \in 1..n
      PROVE  /\ LabelsAreUnique(v[k].lines)
             /\ event[k].op = "delete" => Len(v[k].lines) < Len(v[k - 1].lines)
  <2>1. k \in 0..n /\ k - 1 \in 0..n /\ k \in DOMAIN event
    BY <1>2
  <2>2. After(event, k) = v[k].lines /\ After(event, k - 1) = v[k - 1].lines
    BY <1>4, <2>1
  <2>3. /\ \A r, s \in Scan(v[k].lines) : r.label = s.label => r = s
        /\ event[k].op = "delete" => Len(v[k].lines) < Len(v[k - 1].lines)
    BY <2>1, <2>2 DEF Tidy
  <2>4. LabelsAreUnique(v[k].lines)
    <3> DEFINE lines == v[k].lines
               At(l) == [line |-> l, label |-> Boxes[lines[l]].label, state |-> Boxes[lines[l]].state]
    <3> SUFFICES ASSUME NEW l \in DOMAIN lines, NEW m \in DOMAIN lines,
                        lines[l] \in DOMAIN Boxes, lines[m] \in DOMAIN Boxes,
                        Boxes[lines[l]].label = Boxes[lines[m]].label
                 PROVE  l = m
      BY DEF LabelsAreUnique
    <3>1. At(l) \in Scan(lines) /\ At(m) \in Scan(lines)
      BY DEF Scan
    <3>2. At(l) = At(m)
      BY <2>3, <3>1
    <3> QED BY <3>2
  <2> QED BY <2>3, <2>4
<1>8. applyEvent(document, event) = v[n].lines
  BY <1>1, <1>3 DEF applyEvent
<1>9. Follows(v, h, applyEvent(document, event))
  <2>1. h.entries = event /\ h.offset = 0
    OBVIOUS
  <2> HIDE DEF n
  <2>2. Len(h.entries) = n
    BY <2>1 DEF n
  <2> QED BY <1>1, <1>3, <1>5, <1>6, <1>7, <1>8, <2>1, <2>2 DEF Follows
<1> QED BY <1>6, <1>9

LEMMA TodosMoved ==
  ASSUME RowsAreSound(todos), NEW i \in DOMAIN todos, NEW status \in Statuses, MoveTodo(i, status)
  PROVE  /\ RowsAreSound(todos)'
         /\ \A n, lines : TellAllBut(n, todos, lines) => TellAllBut(n, todos', lines)
         /\ DOMAIN todos' = DOMAIN todos /\ \A k \in DOMAIN todos : todos'[k].line = todos[k].line
<1>1. todos \in Seq(Row) /\ DOMAIN todos = 1..Len(todos) /\ Len(todos) \in Nat
  BY DEF RowsAreSound
<1> DEFINE new == [todos[i] EXCEPT !.status = status]
<1>2. todos' = [todos EXCEPT ![i] = new]
  BY DEF MoveTodo
<1>3. todos[i] \in Row
  BY <1>1
<1>4. new \in Row /\ new.line = todos[i].line /\ new.label = todos[i].label /\ new.state = todos[i].state
  BY <1>3 DEF Row
<1> HIDE DEF new
<1>5. DOMAIN todos' = DOMAIN todos /\ todos' \in Seq(Row)
  BY <1>1, <1>2, <1>4
<1>6. \A k \in DOMAIN todos :
        /\ todos'[k].line = todos[k].line /\ todos'[k].label = todos[k].label
        /\ todos'[k].state = todos[k].state
  BY <1>1, <1>2, <1>4
<1>7. RowsAreSound(todos)'
  BY <1>5, <1>6 DEF RowsAreSound
<1> QED BY <1>5, <1>6, <1>7, SameTelling

TodoInv == TodoTypes /\ RowsFollow

LEMMA TodoInvInit == TodoInit => TodoInv
<1> SUFFICES ASSUME TodoInit PROVE RowsFollow
  BY TodoTypesInit DEF TodoInv
<1>1. \A c \in TodoClients : ~ Calling(c)
  BY DEF TodoInit, Calling, NoHook
<1>2. TellAllBut(0, todos, document)
  BY DEF TodoInit, TellAllBut
<1> QED BY <1>1, <1>2 DEF RowsFollow

(* An append hands the plugin an event that begins where the rows are.     *)
LEMMA AppendKeepsTodoInv ==
  ASSUME TodoInv, NEW c \in TodoClients, NEW event \in TodoEvents, AppendTodos(c, event)
  PROVE  TodoInv'
<1> DEFINE h == [at |-> "next", entries |-> event, offset |-> 0]
<1>1. event \in Seq(LineEntry) /\ event # << >>
  BY TodoAssumption
<1>2. PICK S : document \in Seq(S)
  BY DEF TodoInv, TodoTypes
<1>3. /\ ~ Applied(document, event).panicked /\ document' = applyEvent(document, event)
      /\ hook' = [hook EXCEPT ![c] = h] /\ UNCHANGED <<todos, moves>>
      /\ todoEvents < MaxTodoEvents /\ todoEvents' = todoEvents + 1
      /\ untidy' = (untidy \/ (\E d \in TodoClients : Calling(d)) \/ ~ Tidy(event))
  BY DEF AppendTodos
<1>4. HookIsSound(h)
  BY <1>1 DEF HookIsSound, Points
<1>5. DOMAIN hook = TodoClients /\ \A d \in TodoClients : HookIsSound(hook[d])
  BY DEF TodoInv, TodoTypes
<1>6. \E T : document' \in Seq(T)
  <2>1. PICK v : /\ Applied(document, event) = v[Len(event)]
                 /\ \A k \in 0..Len(event) : Reached(v[k])
    BY <1>1, <1>2, AppliedIsReached
  <2>2. Len(event) \in 0..Len(event)
    BY <1>1
  <2>3. Reached(Applied(document, event))
    BY <2>1, <2>2
  <2> QED BY <1>3, <2>3 DEF applyEvent, Reached
<1> HIDE DEF h
<1>7. DOMAIN hook' = TodoClients /\ hook'[c] = h /\ \A d \in TodoClients : d # c => hook'[d] = hook[d]
  BY <1>3, <1>5
<1>8. TodoTypes'
  <2>1. todoEvents' \in 0..MaxTodoEvents /\ moves' \in 0..MaxMoves
    <3>1. todoEvents \in 0..MaxTodoEvents /\ moves \in 0..MaxMoves /\ MaxTodoEvents \in Nat
      BY TodoAssumption DEF TodoInv, TodoTypes
    <3> QED BY <1>3, <3>1
  <2>2. untidy' \in BOOLEAN
    BY <1>3
  <2>3. RowsAreSound(todos)'
    BY <1>3 DEF TodoInv, TodoTypes, RowsAreSound
  <2>4. \A d \in TodoClients : HookIsSound(hook'[d])
    BY <1>4, <1>5, <1>7
  <2> QED BY <1>6, <1>7, <2>1, <2>2, <2>3, <2>4 DEF TodoTypes
<1>9. RowsFollow'
  <2> SUFFICES ASSUME ~ untidy' PROVE RowsFollow'
    BY DEF RowsFollow
  <2>1. ~ untidy /\ (\A d \in TodoClients : ~ Calling(d)) /\ Tidy(event)
    BY <1>3
  <2>2. PICK run : Follows(run, h, document') /\ run[0].lines = document
    BY <1>1, <1>2, <1>3, <2>1, TidyEventsAreFollowed DEF h
  <2>3. TellAllBut(0, todos', document)
    BY <1>3, <2>1 DEF TodoInv, RowsFollow
  <2>4. Stage(todos', run, h)
    BY <2>2, <2>3 DEF Stage, h
  <2>5. Calling(c)' /\ \A d \in TodoClients : Calling(d)' => d = c
    BY <1>7, <2>1 DEF Calling, h
  <2>6. \E u : Follows(u, hook'[c], document') /\ Stage(todos', u, hook'[c])
    BY <1>7, <2>2, <2>4
  <2> QED BY <2>5, <2>6 DEF RowsFollow
<1> QED BY <1>8, <1>9 DEF TodoInv

LEMMA TodoInvStep ==
  TodoInv /\ [TodoNext]_todoVars => TodoInv' /\ (moves' = moves => StatusIsKept(todos, todos'))
<1> SUFFICES ASSUME TodoInv, [TodoNext]_todoVars
             PROVE  TodoInv' /\ (moves' = moves => StatusIsKept(todos, todos'))
  OBVIOUS
<1>1. UNCHANGED todos => StatusIsKept(todos, todos')
  BY DEF TodoInv, TodoTypes, RowsAreSound, StatusIsKept
<1>2. CASE \E c \in TodoClients : HookStep(c)
  BY <1>2, HookStepsKeepTypes, HookStepsFollow DEF TodoInv
<1>3. CASE (\E c \in TodoClients : HookFails(c)) \/ RestartPlugin
  <2>1. /\ UNCHANGED <<document, todos, todoEvents, moves>> /\ untidy' = TRUE
        /\ \/ \E c \in TodoClients : hook' = [hook EXCEPT ![c] = NoHook]
           \/ hook' = [c \in TodoClients |-> NoHook]
    BY <1>3 DEF HookFails, RestartPlugin
  <2>2. HookIsSound(NoHook)
    <3>1. << >> \in Seq(LineEntry)
      OBVIOUS
    <3> QED BY <3>1 DEF HookIsSound, NoHook, Points
  <2>3. DOMAIN hook' = TodoClients /\ \A d \in TodoClients : HookIsSound(hook'[d])
    <3>1. DOMAIN hook = TodoClients /\ \A d \in TodoClients : HookIsSound(hook[d])
      BY DEF TodoInv, TodoTypes
    <3> QED BY <2>1, <2>2, <3>1
  <2>4. TodoTypes'
    BY <2>1, <2>3 DEF TodoInv, TodoTypes, RowsAreSound
  <2> QED BY <1>1, <2>1, <2>4 DEF TodoInv, RowsFollow
<1>4. CASE \E c \in TodoClients, event \in TodoEvents : AppendTodos(c, event)
  <2>1. UNCHANGED todos
    BY <1>4 DEF AppendTodos
  <2> QED BY <1>1, <1>4, <2>1, AppendKeepsTodoInv
<1>5. CASE \E lines \in TodoDocuments : ReplaceText(lines)
  <2>1. PICK lines \in TodoDocuments : ReplaceText(lines)
    BY <1>5
  <2>2. /\ UNCHANGED <<todos, hook, moves>> /\ document' = lines
        /\ untidy' = (untidy \/ lines # document)
        /\ todoEvents < MaxTodoEvents /\ todoEvents' = todoEvents + 1
    BY <2>1 DEF ReplaceText
  <2>3. \E S : document' \in Seq(S)
    BY <2>2, TodoAssumption
  <2>4. todoEvents' \in 0..MaxTodoEvents /\ untidy' \in BOOLEAN
    <3>1. todoEvents \in 0..MaxTodoEvents /\ MaxTodoEvents \in Nat
      BY TodoAssumption DEF TodoInv, TodoTypes
    <3>2. todoEvents' \in 0..MaxTodoEvents
      BY <2>2, <3>1
    <3>3. untidy' \in BOOLEAN
      BY <2>2
    <3> QED BY <3>2, <3>3
  <2>5. TodoTypes'
    BY <2>2, <2>3, <2>4 DEF TodoInv, TodoTypes, RowsAreSound
  <2>6. RowsFollow'
    <3> SUFFICES ASSUME ~ untidy' PROVE RowsFollow'
      BY DEF RowsFollow
    <3>1. UNCHANGED <<document, todos, hook>> /\ ~ untidy
      BY <2>2
    <3> QED BY <3>1 DEF TodoInv, RowsFollow, Calling
  <2> QED BY <1>1, <2>2, <2>5, <2>6 DEF TodoInv
<1>6. CASE \E i \in DOMAIN todos, status \in Statuses : MoveTodo(i, status)
  <2>1. PICK i \in DOMAIN todos, status \in Statuses : MoveTodo(i, status)
    BY <1>6
  <2>2. moves < MaxMoves /\ moves' = moves + 1 /\ UNCHANGED <<document, hook, todoEvents, untidy>>
    BY <2>1 DEF MoveTodo
  <2>3. moves \in 0..MaxMoves /\ MaxMoves \in Nat /\ RowsAreSound(todos)
    BY TodoAssumption DEF TodoInv, TodoTypes
  <2>4. moves' \in 0..MaxMoves /\ moves' # moves
    BY <2>2, <2>3
  <2>5. /\ RowsAreSound(todos)'
        /\ \A n, lines : TellAllBut(n, todos, lines) => TellAllBut(n, todos', lines)
        /\ DOMAIN todos' = DOMAIN todos /\ \A k \in DOMAIN todos : todos'[k].line = todos[k].line
    BY <2>1, <2>3, TodosMoved
  <2>6. TodoTypes'
    BY <2>2, <2>4, <2>5 DEF TodoInv, TodoTypes
  <2>7. \A run, h : Stage(todos, run, h) => Stage(todos', run, h)
    BY <2>5 DEF Stage
  <2>8. RowsFollow'
    BY <2>2, <2>5, <2>7 DEF TodoInv, RowsFollow, Calling
  <2> QED BY <2>4, <2>6, <2>8 DEF TodoInv
<1>7. CASE UNCHANGED todoVars
  <2>1. UNCHANGED <<document, todos, hook, todoEvents, moves, untidy>>
    BY <1>7 DEF todoVars
  <2> QED BY <1>1, <2>1 DEF TodoInv, TodoTypes, RowsAreSound, RowsFollow, Calling
<1> QED BY <1>2, <1>3, <1>4, <1>5, <1>6, <1>7 DEF TodoNext

(* What the plugin builds up from the entries of events, statement by      *)
(* statement, is what a scan of the text would find.                       *)
THEOREM IndexIsAlwaysTheScan == TodoSpec => []IndexIsTheScan
<1>1. TodoInv => IndexIsTheScan
  <2> SUFFICES ASSUME TodoInv, ~ untidy, \A c \in TodoClients : ~ Calling(c)
               PROVE  Scan(document) =
                        {[line |-> r.line, label |-> r.label, state |-> r.state] : r \in Range(todos)}
    BY DEF IndexIsTheScan
  <2> DEFINE Told(k) == [line |-> todos[k].line, label |-> todos[k].label, state |-> todos[k].state]
             Found(l) == [line |-> l, label |-> Boxes[document[l]].label, state |-> Boxes[document[l]].state]
  <2>1. TellAllBut(0, todos, document)
    BY DEF TodoInv, RowsFollow
  <2>2. {[line |-> r.line, label |-> r.label, state |-> r.state] : r \in Range(todos)}
        = {Told(k) : k \in DOMAIN todos}
    BY DEF Range
  <2>3. Scan(document) = {Found(l) : l \in {m \in DOMAIN document : document[m] \in DOMAIN Boxes}}
    BY DEF Scan
  <2>4. \A k \in DOMAIN todos :
          /\ todos[k].line \in {m \in DOMAIN document : document[m] \in DOMAIN Boxes}
          /\ Told(k) = Found(todos[k].line)
    BY <2>1 DEF TellAllBut, Tells
  <2>5. 0 \notin DOMAIN document
    BY DEF TodoInv, TodoTypes
  <2>6. \A l \in {m \in DOMAIN document : document[m] \in DOMAIN Boxes} :
          \E k \in DOMAIN todos : todos[k].line = l
    BY <2>1, <2>5 DEF TellAllBut
  <2> HIDE DEF Told, Found
  <2> QED BY <2>2, <2>3, <2>4, <2>6
<1> QED BY <1>1, TodoInvInit, TodoInvStep, PTL DEF TodoSpec

(* The rows keep their types, and no two of them share a line or a label   *)
(* (TodoTypeOK), whatever the callbacks do between each other's statements.*)
THEOREM TodoIsTyped == TodoSpec => []TodoTypeOK
<1>1. TodoInv => TodoTypeOK
  <2> SUFFICES ASSUME TodoInv PROVE TodoTypeOK
    OBVIOUS
  <2>1. RowsAreSound(todos) /\ todoEvents \in 0..MaxTodoEvents /\ moves \in 0..MaxMoves
    BY DEF TodoInv, TodoTypes
  <2>2. untidy \in BOOLEAN
    BY Zenon DEF TodoInv, TodoTypes
  <2>3. \A c \in TodoClients : hook[c].at \in Points
    BY DEF TodoInv, TodoTypes, HookIsSound
  <2> QED
    BY <2>1, <2>2, <2>3 DEF TodoTypeOK, RowsAreSound, Points
<1> QED BY <1>1, TodoInvInit, TodoInvStep, PTL DEF TodoSpec

(* No callback, and nothing that runs beside it, takes a todo back from    *)
(* where it was moved on a board.                                          *)
THEOREM StatusStaysTheBoards == TodoSpec => StatusIsTheBoards
<1>1. TodoInv /\ [TodoNext]_todoVars =>
        [moves' = moves =>
           \A r \in Range(todos), s \in Range(todos)' :
             r.label = s.label => r.status = s.status]_todoVars
  BY TodoInvStep DEF StatusIsKept, Range
<1> QED BY <1>1, TodoInvInit, TodoInvStep, PTL DEF TodoSpec, StatusIsTheBoards

-----------------------------------------------------------------------------
(* The entries of a diff.                                                  *)
Rewriting == INSTANCE Folding WITH op <- AddRewrite
PlainEdits == INSTANCE Folding WITH op <- ApplyPlain

EditsOf(S) == [line : Nat, op : LineOps, text : S \cup {Blank}]
WritesOf(S) == [line : Nat \ {0}, op : {"set", "setEmpty"}, text : S]

Rewrites(old, new, i) == Rewriting!Folded(<< >>, SubSeq(Compared(old, new), 1, i))

LEMMA RewritesGrow ==
  ASSUME NEW S, NEW old \in Seq(S), NEW new \in Seq(S)
  PROVE  /\ Rewrites(old, new, 0) = << >>
         /\ FoldLeft(AddRewrite, << >>, Compared(old, new)) = Rewrites(old, new, Len(new))
         /\ \A i \in 0..Len(new) - 1 :
              Rewrites(old, new, i + 1) = AddRewrite(Rewrites(old, new, i), Compared(old, new)[i + 1])
         /\ \A i \in 0..Len(new) :
              Rewrites(old, new, i) \in Seq(WritesOf(S)) /\ Rewrites(old, new, i) \in Seq(EditsOf(S))
  <1> DEFINE R == [line : Nat \ {0}, text : S, old : Seq(S)]
             c == Compared(old, new)
             n == Len(new)
  <1>1. n \in Nat
    OBVIOUS
  <1>2. c \in Seq(R) /\ Len(c) = n
    <2>1. ASSUME NEW i \in 1..n PROVE c[i] \in R
      <3>1. i <= Len(old) => <<old[i]>> \in Seq(S)
        OBVIOUS
      <3>2. << >> \in Seq(S) /\ new[i] \in S
        OBVIOUS
      <3> QED
        BY <3>1, <3>2 DEF Compared
    <2>2. c \in [1..n -> R]
      BY <2>1 DEF Compared
    <2> HIDE DEF c, R, n
    <2>3. \A f \in [1..n -> R] : f \in Seq(R) /\ Len(f) = n
      BY <1>1
    <2> QED
      BY <2>2, <2>3, Zenon
  <1> HIDE DEF c, R, n
  <1>3. Rewrites(old, new, 0) = << >>
    <2>1. SubSeq(c, 1, 0) = << >>
      BY <1>2
    <2> QED
      BY <2>1, Rewriting!FoldOfNothing DEF Rewrites, c
  <1>4. FoldLeft(AddRewrite, << >>, c) = Rewrites(old, new, n)
    <2>1. SubSeq(c, 1, n) = c
      BY <1>1, <1>2
    <2>2. FoldLeft(AddRewrite, << >>, c) = Rewriting!Folded(<< >>, c)
      BY DEF Rewriting!Folded, FoldLeft, Rewriting!FoldLeft,
             MapThenFoldSet, Rewriting!MapThenFoldSet, Max, Rewriting!Max
    <2> QED
      BY <2>1, <2>2 DEF Rewrites, c
  <1>5. ASSUME NEW i \in 0..n - 1
        PROVE  Rewrites(old, new, i + 1) = AddRewrite(Rewrites(old, new, i), c[i + 1])
    <2>1. SubSeq(c, 1, i) \in Seq(R) /\ c[i + 1] \in R /\ SubSeq(c, 1, i + 1) = Append(SubSeq(c, 1, i), c[i + 1])
      BY <1>1, <1>2
    <2>2. Rewriting!Folded(<< >>, Append(SubSeq(c, 1, i), c[i + 1]))
            = AddRewrite(Rewriting!Folded(<< >>, SubSeq(c, 1, i)), c[i + 1])
      BY <2>1, Rewriting!FoldOfAppend
    <2> QED
      BY <2>1, <2>2 DEF Rewrites, c
  <1>6. ASSUME NEW i \in 0..n
        PROVE  Rewrites(old, new, i) \in Seq(WritesOf(S)) /\ Rewrites(old, new, i) \in Seq(EditsOf(S))
    <2>1. SubSeq(c, 1, i) \in Seq(R)
      BY <1>1, <1>2
    <2>2. << >> \in Seq(WritesOf(S))
      OBVIOUS
    <2>3. \A r \in Seq(WritesOf(S)), l \in R : AddRewrite(r, l) \in Seq(WritesOf(S))
      <3> SUFFICES ASSUME NEW r \in Seq(WritesOf(S)), NEW l \in R PROVE AddRewrite(r, l) \in Seq(WritesOf(S))
        OBVIOUS
      <3>1. \A o \in {"set", "setEmpty"} : Entry(l.line, o, l.text) \in WritesOf(S)
        BY DEF R, Entry, WritesOf
      <3> QED
        BY <3>1 DEF AddRewrite
    <2>4. Rewrites(old, new, i) \in Seq(WritesOf(S))
      BY <2>1, <2>2, <2>3, Rewriting!FoldStaysWithin DEF Rewrites, c
    <2>5. WritesOf(S) \subseteq EditsOf(S)
      BY DEF WritesOf, EditsOf, LineOps
    <2> QED
      BY <2>4, <2>5
  <1> QED
    BY <1>3, <1>4, <1>5, <1>6 DEF n, c

(* The text when the first i lines are the new ones.                       *)
Half(old, new, i) ==
  [k \in 1..(IF i > Len(old) THEN i ELSE Len(old)) |-> IF k <= i THEN new[k] ELSE old[k]]

LEMMA HalfGrows ==
  ASSUME NEW S, NEW old \in Seq(S), NEW new \in Seq(S), NEW i \in 0..Len(new) - 1
  PROVE  LET l == Compared(old, new)[i + 1]
         IN  /\ l.line = i + 1 /\ l.text = new[i + 1]
             /\ l.old = <<l.text>> => Half(old, new, i + 1) = Half(old, new, i)
             /\ SetLine(Half(old, new, i), i + 1, new[i + 1]) = Half(old, new, i + 1)
  <1> DEFINE l == Compared(old, new)[i + 1]
  <1>1. i \in Nat /\ Len(old) \in Nat /\ Len(new) \in Nat /\ i + 1 \in 1..Len(new)
    OBVIOUS
  <1>2. l = [line |-> i + 1, text |-> new[i + 1],
             old |-> IF i + 1 <= Len(old) THEN <<old[i + 1]>> ELSE << >>]
    BY <1>1 DEF Compared
  <1> HIDE DEF l
  <1>3. ASSUME l.old = <<l.text>> PROVE Half(old, new, i + 1) = Half(old, new, i)
    <2>1. l.old[1] = l.text /\ Len(l.old) = 1
      BY <1>3
    <2>2. i + 1 <= Len(old) /\ old[i + 1] = new[i + 1]
      <3>1. CASE i + 1 <= Len(old)
        BY <1>2, <2>1, <3>1
      <3>2. CASE ~ (i + 1 <= Len(old))
        <4>1. l.old = << >> /\ Len(<< >>) = 0
          BY <1>2, <3>2
        <4> QED
          BY <2>1, <4>1
      <3> QED
        BY <3>1, <3>2
    <2> QED
      BY <1>1, <2>2 DEF Half
  <1>4. SetLine(Half(old, new, i), i + 1, new[i + 1]) = Half(old, new, i + 1)
    <2>1. /\ DOMAIN Half(old, new, i) = 1..(IF i > Len(old) THEN i ELSE Len(old))
          /\ Len(Half(old, new, i)) = IF i > Len(old) THEN i ELSE Len(old)
      BY <1>1 DEF Half
    <2>2. \A k \in 1..(IF i > Len(old) THEN i ELSE Len(old)) :
             Half(old, new, i)[k] = IF k <= i THEN new[k] ELSE old[k]
      BY DEF Half
    <2> HIDE DEF l
    <2> QED
      BY <1>1, <2>1, <2>2 DEF SetLine, Half
  <1> QED
    BY <1>2, <1>3, <1>4 DEF l

LEMMA WholeText ==
  ASSUME NEW S, NEW old \in Seq(S), NEW new \in Seq(S)
  PROVE  /\ Half(old, new, 0) = old
         /\ \A i \in 0..Len(new) : Half(old, new, i) \in Seq(S)
         /\ SubSeq(Half(old, new, Len(new)), 1, Len(new)) = new
         /\ Len(Half(old, new, Len(new))) = IF Len(new) > Len(old) THEN Len(new) ELSE Len(old)
  <1>1. Half(old, new, 0) = old
    BY DEF Half
  <1>2. \A i \in 0..Len(new) : Half(old, new, i) \in Seq(S)
    BY DEF Half
  <1>3. Len(Half(old, new, Len(new))) = IF Len(new) > Len(old) THEN Len(new) ELSE Len(old)
    BY DEF Half
  <1>4. SubSeq(Half(old, new, Len(new)), 1, Len(new)) = new
    BY <1>2, <1>3 DEF Half
  <1> QED
    BY <1>1, <1>2, <1>3, <1>4

-----------------------------------------------------------------------------
(* Replaying the rewrites of a diff.                                       *)
LEMMA PlainRewrites ==
  ASSUME NEW S, NEW old \in Seq(S), NEW new \in Seq(S)
  PROVE  PlainEdits!Folded(old, Rewrites(old, new, Len(new))) = Half(old, new, Len(new))
  <1> DEFINE n == Len(new)
             T == {i \in Nat : i <= n => PlainEdits!Folded(old, Rewrites(old, new, i)) = Half(old, new, i)}
  <1>1. n \in Nat
    OBVIOUS
  <1>2. 0 \in T
    <2>1. PlainEdits!Folded(old, << >>) = old
      BY PlainEdits!FoldOfNothing
    <2> QED
      BY <2>1, RewritesGrow, WholeText
  <1>3. ASSUME NEW i \in Nat, i \in T PROVE i + 1 \in T
    <2> SUFFICES ASSUME i + 1 <= n
                 PROVE  PlainEdits!Folded(old, Rewrites(old, new, i + 1)) = Half(old, new, i + 1)
      OBVIOUS
    <2> DEFINE r == Rewrites(old, new, i)
               l == Compared(old, new)[i + 1]
               e == Entry(l.line, IF l.text = Blank THEN "setEmpty" ELSE "set", l.text)
    <2>1. i \in 0..n - 1 /\ i \in 0..n
      BY <1>1
    <2>2. r \in Seq(EditsOf(S)) /\ Rewrites(old, new, i + 1) = AddRewrite(r, l)
      BY <2>1, RewritesGrow
    <2>3. PlainEdits!Folded(old, r) = Half(old, new, i)
      BY <1>3, <2>1
    <2>4. /\ l.line = i + 1 /\ l.text = new[i + 1]
          /\ l.old = <<l.text>> => Half(old, new, i + 1) = Half(old, new, i)
          /\ SetLine(Half(old, new, i), i + 1, new[i + 1]) = Half(old, new, i + 1)
      BY <2>1, HalfGrows
    <2>5. e \in EditsOf(S)
      BY <1>1, <2>1, <2>4 DEF Entry, EditsOf, LineOps
    <2>6. ApplyPlain(Half(old, new, i), e) = Half(old, new, i + 1)
      BY <2>4 DEF ApplyPlain, Entry
    <2> HIDE DEF l, e, r
    <2>7. PlainEdits!Folded(old, Append(r, e)) = ApplyPlain(PlainEdits!Folded(old, r), e)
      BY <2>2, <2>5, PlainEdits!FoldOfAppend
    <2>8. Rewrites(old, new, i + 1) = IF l.old = <<l.text>> THEN r ELSE Append(r, e)
      BY <2>2 DEF AddRewrite, e
    <2> QED
      BY <2>3, <2>4, <2>6, <2>7, <2>8
  <1>4. Nat \subseteq T
    <2> HIDE DEF T
    <2> QED
      BY <1>2, <1>3, PlainEdits!NatSetInduction
  <1> QED
    BY <1>1, <1>4

(* One line after the other is taken from the end.                         *)
LEMMA LastLineDeleted ==
  ASSUME NEW S, NEW text \in Seq(S), NEW k \in 1..Len(text)
  PROVE  /\ SubSeq(text, 1, k) \in Seq(S) /\ k \in DOMAIN SubSeq(text, 1, k)
         /\ RemoveAt(SubSeq(text, 1, k), k) = SubSeq(text, 1, k - 1)
         /\ DeleteLine(SubSeq(text, 1, k), k) = SubSeq(text, 1, k - 1)
  <1> DEFINE s == SubSeq(text, 1, k)
  <1>1. s \in Seq(S) /\ Len(s) = k /\ DOMAIN s = 1..k
    OBVIOUS
  <1>2. SubSeq(s, 1, k - 1) = SubSeq(text, 1, k - 1)
    OBVIOUS
  <1>3. SubSeq(s, k + 1, k) = << >>
    BY <1>1
  <1>4. SubSeq(text, 1, k - 1) \in Seq(S)
    OBVIOUS
  <1>5. SubSeq(text, 1, k - 1) \o << >> = SubSeq(text, 1, k - 1)
    BY <1>4
  <1> HIDE DEF s
  <1>6. RemoveAt(s, k) = SubSeq(text, 1, k - 1)
    BY <1>1, <1>2, <1>3, <1>5 DEF RemoveAt
  <1>7. DeleteLine(s, k) = SubSeq(text, 1, k - 1)
    BY <1>1, <1>6 DEF DeleteLine
  <1> QED
    BY <1>1, <1>6, <1>7 DEF s

Surplus(old, new) == IF Len(old) > Len(new) THEN Len(old) - Len(new) ELSE 0

LEMMA DeletesAre ==
  ASSUME NEW S, NEW old \in Seq(S), NEW new \in Seq(S)
  PROVE  LET d == DeletesOf(old, new)
             m == Surplus(old, new)
         IN  /\ d \in Seq(EditsOf(S)) /\ Len(d) = m /\ m \in Nat
             /\ d \in Seq({e \in EditsOf(S) : e.op = "delete"})
             /\ \A k \in 1..m : d[k] = Entry(Len(old) + 1 - k, "delete", Blank)
             /\ SubSeq(d, 1, 0) = << >> /\ SubSeq(d, 1, m) = d
             /\ \A k \in 0..m - 1 : SubSeq(d, 1, k + 1) = Append(SubSeq(d, 1, k), d[k + 1])
  <1> DEFINE d == DeletesOf(old, new)
             m == Surplus(old, new)
  <1>1. m \in Nat /\ m <= Len(old)
    BY DEF Surplus
  <1>2. d = [k \in 1..m |-> Entry(Len(old) + 1 - k, "delete", Blank)]
    BY DEF DeletesOf, Surplus
  <1> HIDE DEF m
  <1> DEFINE deletes == {e \in EditsOf(S) : e.op = "delete"}
  <1>3. \A k \in 1..m : Entry(Len(old) + 1 - k, "delete", Blank) \in deletes
    BY <1>1 DEF Entry, EditsOf, LineOps
  <1>8. deletes \subseteq EditsOf(S)
    OBVIOUS
  <1> HIDE DEF d, deletes
  <1>4. d \in [1..m -> deletes]
    BY <1>2, <1>3
  <1>5. d \in Seq(deletes) /\ d \in Seq(EditsOf(S)) /\ Len(d) = m
    BY <1>1, <1>4, <1>8
  <1>6. SubSeq(d, 1, 0) = << >> /\ SubSeq(d, 1, m) = d
    BY <1>1, <1>5
  <1>7. \A k \in 0..m - 1 : SubSeq(d, 1, k + 1) = Append(SubSeq(d, 1, k), d[k + 1])
    BY <1>1, <1>5
  <1> QED
    BY <1>1, <1>2, <1>5, <1>6, <1>7 DEF d, m, deletes

LEMMA PlainDeletes ==
  ASSUME NEW S, NEW old \in Seq(S), NEW new \in Seq(S), NEW text \in Seq(S),
         Surplus(old, new) # 0 => Len(text) = Len(old)
  PROVE  PlainEdits!Folded(text, DeletesOf(old, new)) = SubSeq(text, 1, Len(text) - Surplus(old, new))
  <1> DEFINE d == DeletesOf(old, new)
             m == Surplus(old, new)
             T == {j \in Nat : j <= m => PlainEdits!Folded(text, SubSeq(d, 1, j)) = SubSeq(text, 1, Len(text) - j)}
  <1>1. /\ d \in Seq(EditsOf(S)) /\ Len(d) = m /\ m \in Nat
        /\ \A k \in 1..m : d[k] = Entry(Len(old) + 1 - k, "delete", Blank)
        /\ SubSeq(d, 1, 0) = << >> /\ SubSeq(d, 1, m) = d
        /\ \A k \in 0..m - 1 : SubSeq(d, 1, k + 1) = Append(SubSeq(d, 1, k), d[k + 1])
    BY DeletesAre
  <1>2. m # 0 => m <= Len(text) /\ Len(text) = Len(old)
    BY DEF Surplus
  <1> HIDE DEF m, d
  <1>3. 0 \in T
    <2>1. SubSeq(text, 1, Len(text) - 0) = text
      OBVIOUS
    <2>2. PlainEdits!Folded(text, << >>) = text
      BY PlainEdits!FoldOfNothing
    <2> QED
      BY <1>1, <2>1, <2>2
  <1>4. ASSUME NEW j \in Nat, j \in T PROVE j + 1 \in T
    <2> SUFFICES ASSUME j + 1 <= m
                 PROVE  PlainEdits!Folded(text, SubSeq(d, 1, j + 1)) = SubSeq(text, 1, Len(text) - (j + 1))
      OBVIOUS
    <2> DEFINE k == Len(text) - j
    <2>1. j \in 0..m - 1 /\ j + 1 \in 1..m /\ k \in 1..Len(text) /\ Len(text) - (j + 1) = k - 1
      BY <1>1, <1>2
    <2>2. d[j + 1] = Entry(k, "delete", Blank) /\ d[j + 1] \in EditsOf(S)
      BY <1>1, <1>2, <2>1
    <2>3. SubSeq(d, 1, j) \in Seq(EditsOf(S))
      BY <1>1, <2>1
    <2>4. PlainEdits!Folded(text, SubSeq(d, 1, j)) = SubSeq(text, 1, k)
      BY <1>1, <1>4
    <2>5. PlainEdits!Folded(text, Append(SubSeq(d, 1, j), d[j + 1]))
            = ApplyPlain(PlainEdits!Folded(text, SubSeq(d, 1, j)), d[j + 1])
      BY <2>2, <2>3, PlainEdits!FoldOfAppend
    <2>6. DeleteLine(SubSeq(text, 1, k), k) = SubSeq(text, 1, k - 1)
      BY <2>1, LastLineDeleted
    <2>7. ApplyPlain(SubSeq(text, 1, k), d[j + 1]) = SubSeq(text, 1, k - 1)
      BY <2>2, <2>6 DEF ApplyPlain, Entry
    <2> QED
      BY <1>1, <2>1, <2>4, <2>5, <2>7
  <1>5. Nat \subseteq T
    <2> HIDE DEF T
    <2> QED
      BY <1>3, <1>4, PlainEdits!NatSetInduction
  <1>6. PlainEdits!Folded(text, SubSeq(d, 1, m)) = SubSeq(text, 1, Len(text) - m)
    BY <1>1, <1>5
  <1> QED
    BY <1>1, <1>6 DEF d, m

(* Every diff, replayed by the SQLite provider.                            *)
LEMMA PlainDiff ==
  ASSUME NEW S, NEW old \in Seq(S), NEW new \in Seq(S)
  PROVE  /\ DiffLines(old, new) \in Seq(EditsOf(S))
         /\ FoldLeft(ApplyPlain, old, DiffLines(old, new)) = new
  <1> DEFINE r == Rewrites(old, new, Len(new))
             d == DeletesOf(old, new)
             full == Half(old, new, Len(new))
  <1>1. Len(new) \in 0..Len(new)
    OBVIOUS
  <1>2. r \in Seq(EditsOf(S)) /\ DiffLines(old, new) = r \o d
    BY <1>1, RewritesGrow DEF DiffLines
  <1>3. d \in Seq(EditsOf(S))
    BY DeletesAre
  <1>4. /\ full \in Seq(S) /\ SubSeq(full, 1, Len(new)) = new
        /\ Len(full) = IF Len(new) > Len(old) THEN Len(new) ELSE Len(old)
    BY <1>1, WholeText
  <1>5. (Surplus(old, new) # 0 => Len(full) = Len(old)) /\ Len(full) - Surplus(old, new) = Len(new)
    BY <1>4 DEF Surplus
  <1>6. PlainEdits!Folded(old, r) = full
    BY PlainRewrites
  <1> HIDE DEF r, d, full
  <1>7. PlainEdits!Folded(full, d) = new
    BY <1>4, <1>5, PlainDeletes DEF d
  <1>8. PlainEdits!Folded(old, r \o d) = PlainEdits!Folded(PlainEdits!Folded(old, r), d)
    BY <1>2, <1>3, PlainEdits!FoldOfConcat
  <1>9. FoldLeft(ApplyPlain, old, r \o d) = PlainEdits!Folded(old, r \o d)
    BY DEF PlainEdits!Folded, FoldLeft, PlainEdits!FoldLeft,
           MapThenFoldSet, PlainEdits!MapThenFoldSet, Max, PlainEdits!Max
  <1>10. r \o d \in Seq(EditsOf(S))
    BY <1>2, <1>3
  <1> QED
    BY <1>2, <1>6, <1>7, <1>8, <1>9, <1>10

(* A text has no diff to itself.                                           *)
LEMMA NoDiff ==
  ASSUME NEW S, NEW old \in Seq(S)
  PROVE  DiffLines(old, old) = << >>
  <1> DEFINE T == {i \in Nat : i <= Len(old) => Rewrites(old, old, i) = << >>}
  <1>1. 0 \in T
    BY RewritesGrow
  <1>2. ASSUME NEW i \in Nat, i \in T PROVE i + 1 \in T
    <2> SUFFICES ASSUME i + 1 <= Len(old) PROVE Rewrites(old, old, i + 1) = << >>
      OBVIOUS
    <2>1. i \in 0..Len(old) - 1 /\ i + 1 \in 1..Len(old) /\ i <= Len(old)
      OBVIOUS
    <2>2. Rewrites(old, old, i + 1) = AddRewrite(Rewrites(old, old, i), Compared(old, old)[i + 1])
      BY <2>1, RewritesGrow
    <2>3. Compared(old, old)[i + 1] = [line |-> i + 1, text |-> old[i + 1], old |-> <<old[i + 1]>>]
      BY <2>1 DEF Compared
    <2> QED
      BY <1>2, <2>1, <2>2, <2>3 DEF AddRewrite
  <1>3. Nat \subseteq T
    <2> HIDE DEF T
    <2> QED
      BY <1>1, <1>2, Rewriting!NatSetInduction
  <1>4. Rewrites(old, old, Len(old)) = << >>
    BY <1>3
  <1>5. DeletesOf(old, old) = << >>
    <2>1. DeletesOf(old, old) \in Seq(EditsOf(S)) /\ Len(DeletesOf(old, old)) = 0
      <3>1. Surplus(old, old) = 0
        BY DEF Surplus
      <3> HIDE DEF Surplus
      <3> QED
        BY <3>1, DeletesAre
    <2> QED
      BY <2>1
  <1>6. << >> \o << >> = << >>
    OBVIOUS
  <1> QED
    BY <1>4, <1>5, <1>6, RewritesGrow DEF DiffLines

(* What SqliteNotes assumes of the line edits (ContentAssumption) holds,   *)
(* whatever the texts of the lines are: the contents are closed under      *)
(* every event, the diff of two contents is empty only if they are the     *)
(* same, and it turns the one into the other.                              *)
THEOREM LineEditsMeetTheAssumption ==
  ASSUME NEW S
  PROVE  LET Texts == {t \in Seq(S \cup {Blank}) : joinLines(t) = t}
             Lists == Seq(EditsOf(S)) \ {<< >>}
         IN  /\ EmptyString \in Texts
             /\ \A c \in Texts, p \in Lists : applyEntriesToContent(c, p) \in Texts
             /\ \A c, d \in Texts :
                  LET diff == DiffLines(SplitLines(c), SplitLines(d))
                  IN  IF c = d THEN diff = << >>
                      ELSE diff \in Lists /\ applyEntriesToContent(c, diff) = d
  <1> DEFINE W == S \cup {Blank}
             Docs == {t \in Seq(W) : joinLines(t) = t}
             Lists == Seq(EditsOf(S)) \ {<< >>}
  <1>1. EditsOf(W) = EditsOf(S)
    BY DEF EditsOf
  <1>2. EmptyString \in Docs
    <2>1. << >> \in Seq(W) /\ << >> # <<Blank>>
      OBVIOUS
    <2> QED
      BY <2>1 DEF EmptyString, joinLines
  <1>3. ASSUME NEW t \in Seq(W) PROVE joinLines(t) \in Docs
    <2>1. << >> \in Seq(W) /\ << >> # <<Blank>>
      OBVIOUS
    <2> QED
      BY <2>1 DEF EmptyString, joinLines
  <1>4. ASSUME NEW c \in Docs, NEW p \in Lists PROVE applyEntriesToContent(c, p) \in Docs
    <2>1. \A t \in Seq(W), e \in EditsOf(S) : ApplyPlain(t, e) \in Seq(W)
      <3> SUFFICES ASSUME NEW t \in Seq(W), NEW e \in EditsOf(S) PROVE ApplyPlain(t, e) \in Seq(W)
        OBVIOUS
      <3>1. e.line \in Nat /\ e.text \in W /\ Blank \in W
        BY DEF EditsOf
      <3>2. SetLine(t, e.line, e.text) \in Seq(W)
        <4>1. Len(t) \in Nat /\ \A k \in 1..Len(t) : t[k] \in W
          OBVIOUS
        <4> DEFINE len == IF e.line > Len(t) THEN e.line ELSE Len(t)
        <4>2. len \in Nat
          BY <3>1, <4>1
        <4>3. \A k \in 1..len : (IF k = e.line THEN e.text ELSE IF k <= Len(t) THEN t[k] ELSE Blank) \in W
          BY <3>1, <4>1
        <4> HIDE DEF W
        <4>4. SetLine(t, e.line, e.text) \in [1..len -> W]
          BY <4>3 DEF SetLine
        <4> HIDE DEF len
        <4> QED
          BY <4>2, <4>4
      <3>3. DeleteLine(t, e.line) \in Seq(W)
        BY <3>1 DEF DeleteLine, RemoveAt
      <3> QED
        BY <3>2, <3>3 DEF ApplyPlain
    <2>2. PlainEdits!Folded(c, p) \in Seq(W)
      BY <2>1, PlainEdits!FoldStaysWithin
    <2>3. FoldLeft(ApplyPlain, c, p) = PlainEdits!Folded(c, p)
      BY DEF PlainEdits!Folded, FoldLeft, PlainEdits!FoldLeft,
             MapThenFoldSet, PlainEdits!MapThenFoldSet, Max, PlainEdits!Max
    <2> QED
      BY <1>3, <2>2, <2>3 DEF applyEntriesToContent, SplitLines
  <1>5. ASSUME NEW c \in Docs, NEW d \in Docs
        PROVE  /\ c = d => DiffLines(c, d) = << >>
               /\ c # d => DiffLines(c, d) \in Lists /\ applyEntriesToContent(c, DiffLines(c, d)) = d
    <2>1. DiffLines(c, d) \in Seq(EditsOf(S)) /\ FoldLeft(ApplyPlain, c, DiffLines(c, d)) = d
      BY <1>1, PlainDiff
    <2>2. DiffLines(c, d) = << >> => c = d
      <3>1. FoldLeft(ApplyPlain, c, << >>) = PlainEdits!Folded(c, << >>)
        BY DEF PlainEdits!Folded, FoldLeft, PlainEdits!FoldLeft,
               MapThenFoldSet, PlainEdits!MapThenFoldSet, Max, PlainEdits!Max
      <3> QED
        BY <2>1, <3>1, PlainEdits!FoldOfNothing
    <2>3. applyEntriesToContent(c, DiffLines(c, d)) = d
      BY <2>1 DEF applyEntriesToContent, SplitLines
    <2>4. c = d => DiffLines(c, d) = << >>
      BY NoDiff
    <2> QED
      BY <2>1, <2>2, <2>3, <2>4
  <1> QED
    BY <1>2, <1>4, <1>5 DEF SplitLines

-----------------------------------------------------------------------------
(* The same diffs, replayed by the note object.                            *)
Unmoved(lines) == [lines |-> lines, offset |-> 0, panicked |-> FALSE]

LEMMA ShiftedRewrites ==
  ASSUME NEW S, NEW old \in Seq(S), NEW new \in Seq(S)
  PROVE  Stepping!Folded(Unmoved(old), Rewrites(old, new, Len(new))) = Unmoved(Half(old, new, Len(new)))
  <1> DEFINE n == Len(new)
             T == {i \in Nat : i <= n => Stepping!Folded(Unmoved(old), Rewrites(old, new, i)) = Unmoved(Half(old, new, i))}
  <1>1. n \in Nat
    OBVIOUS
  <1>2. 0 \in T
    <2>1. Stepping!Folded(Unmoved(old), << >>) = Unmoved(old)
      BY Stepping!FoldOfNothing
    <2> QED
      BY <2>1, RewritesGrow, WholeText
  <1>3. ASSUME NEW i \in Nat, i \in T PROVE i + 1 \in T
    <2> SUFFICES ASSUME i + 1 <= n
                 PROVE  Stepping!Folded(Unmoved(old), Rewrites(old, new, i + 1)) = Unmoved(Half(old, new, i + 1))
      OBVIOUS
    <2> DEFINE r == Rewrites(old, new, i)
               l == Compared(old, new)[i + 1]
               e == Entry(l.line, IF l.text = Blank THEN "setEmpty" ELSE "set", l.text)
    <2>1. i \in 0..n - 1 /\ i \in 0..n
      BY <1>1
    <2>2. r \in Seq(EditsOf(S)) /\ Rewrites(old, new, i + 1) = AddRewrite(r, l)
      BY <2>1, RewritesGrow
    <2>3. Stepping!Folded(Unmoved(old), r) = Unmoved(Half(old, new, i))
      BY <1>3, <2>1
    <2>4. /\ l.line = i + 1 /\ l.text = new[i + 1]
          /\ l.old = <<l.text>> => Half(old, new, i + 1) = Half(old, new, i)
          /\ SetLine(Half(old, new, i), i + 1, new[i + 1]) = Half(old, new, i + 1)
      BY <2>1, HalfGrows
    <2>5. e \in EditsOf(S)
      BY <1>1, <2>1, <2>4 DEF Entry, EditsOf, LineOps
    <2>6. ApplyShifted(Unmoved(Half(old, new, i)), e) = Unmoved(Half(old, new, i + 1))
      <3>1. e.line = i + 1 /\ e.text = new[i + 1] /\ e.op \notin {"insert", "delete"}
        BY <2>4 DEF Entry
      <3> HIDE DEF e, l
      <3>2. e.line + 0 = i + 1 /\ i + 1 >= 1
        BY <3>1
      <3> QED
        BY <2>4, <3>1, <3>2 DEF ApplyShifted, Unmoved
    <2> HIDE DEF l, e, r
    <2>7. Stepping!Folded(Unmoved(old), Append(r, e)) = ApplyShifted(Stepping!Folded(Unmoved(old), r), e)
      BY <2>2, <2>5, Stepping!FoldOfAppend
    <2>8. Rewrites(old, new, i + 1) = IF l.old = <<l.text>> THEN r ELSE Append(r, e)
      BY <2>2 DEF AddRewrite, e
    <2> QED
      BY <2>3, <2>4, <2>6, <2>7, <2>8
  <1>4. Nat \subseteq T
    <2> HIDE DEF T
    <2> QED
      BY <1>2, <1>3, Stepping!NatSetInduction
  <1> QED
    BY <1>1, <1>4

(* A diff applied by the note object: its rewrites, then its deletes.      *)
LEMMA ShiftedDiff ==
  ASSUME NEW S, NEW old \in Seq(S), NEW new \in Seq(S)
  PROVE  Applied(old, DiffLines(old, new))
           = Stepping!Folded(Unmoved(Half(old, new, Len(new))), DeletesOf(old, new))
  <1> DEFINE r == Rewrites(old, new, Len(new))
             d == DeletesOf(old, new)
  <1>1. Len(new) \in 0..Len(new)
    OBVIOUS
  <1>2. r \in Seq(EditsOf(S)) /\ DiffLines(old, new) = r \o d
    BY <1>1, RewritesGrow DEF DiffLines
  <1>3. d \in Seq(EditsOf(S))
    BY DeletesAre
  <1>4. Stepping!Folded(Unmoved(old), r) = Unmoved(Half(old, new, Len(new)))
    BY ShiftedRewrites
  <1> HIDE DEF r, d
  <1>5. Stepping!Folded(Unmoved(old), r \o d) = Stepping!Folded(Stepping!Folded(Unmoved(old), r), d)
    BY <1>2, <1>3, Stepping!FoldOfConcat
  <1>6. FoldLeft(ApplyShifted, Unmoved(old), r \o d) = Stepping!Folded(Unmoved(old), r \o d)
    BY DEF Stepping!Folded, FoldLeft, Stepping!FoldLeft,
           MapThenFoldSet, Stepping!MapThenFoldSet, Max, Stepping!Max
  <1> QED
    BY <1>2, <1>4, <1>5, <1>6 DEF Applied, Unmoved, d

(* DiffLines keeps its promise ("feed them directly into an Event") where  *)
(* the new text is at most one line shorter.  The run diff_replay shows    *)
(* that it does not where two lines are to be deleted: applyEvent shifts   *)
(* the second delete by the first.                                         *)
THEOREM ShortDiffsReplay ==
  ASSUME NEW S, NEW old \in Seq(S), NEW new \in Seq(S), Len(old) <= Len(new) + 1
  PROVE  applyEvent(old, DiffLines(old, new)) = new
  <1> DEFINE d == DeletesOf(old, new)
             m == Surplus(old, new)
             full == Half(old, new, Len(new))
  <1>1. /\ d \in Seq(EditsOf(S)) /\ Len(d) = m /\ m \in Nat
        /\ \A k \in 1..m : d[k] = Entry(Len(old) + 1 - k, "delete", Blank)
        /\ SubSeq(d, 1, 0) = << >> /\ SubSeq(d, 1, m) = d
        /\ \A k \in 0..m - 1 : SubSeq(d, 1, k + 1) = Append(SubSeq(d, 1, k), d[k + 1])
    BY DeletesAre
  <1>2. /\ full \in Seq(S) /\ SubSeq(full, 1, Len(new)) = new
        /\ Len(full) = IF Len(new) > Len(old) THEN Len(new) ELSE Len(old)
    BY WholeText
  <1>3. m \in {0, 1} /\ Len(full) - m = Len(new) /\ (m = 1 => Len(full) = Len(old) /\ Len(old) \in 1..Len(full))
    BY <1>2 DEF Surplus
  <1>4. Applied(old, DiffLines(old, new)) = Stepping!Folded(Unmoved(full), d)
    BY ShiftedDiff
  <1> HIDE DEF d, m, full
  <1>5. Stepping!Folded(Unmoved(full), << >>) = Unmoved(full)
    BY Stepping!FoldOfNothing
  <1>6. CASE m = 0
    <2>1. d = << >> /\ full = new
      <3>1. SubSeq(full, 1, Len(full)) = full
        BY <1>2
      <3> QED
        BY <1>1, <1>2, <1>3, <1>6, <3>1
    <2> QED
      BY <1>4, <1>5, <2>1 DEF applyEvent, Unmoved
  <1>7. CASE m = 1
    <2>1. d = Append(<< >>, d[1]) /\ d[1] = Entry(Len(full), "delete", Blank) /\ d[1] \in EditsOf(S)
      <3>1. 0 \in 0..m - 1 /\ 1 \in 1..m /\ 0 + 1 = 1 /\ Len(full) + 1 - 1 = Len(full)
        BY <1>2, <1>7
      <3>2. SubSeq(d, 1, 0 + 1) = Append(SubSeq(d, 1, 0), d[0 + 1])
        BY <1>1, <3>1
      <3>3. d = Append(<< >>, d[1])
        BY <1>1, <1>7, <3>1, <3>2
      <3>4. d[1] = Entry(Len(full), "delete", Blank)
        BY <1>1, <1>3, <1>7, <3>1
      <3>5. d[1] \in EditsOf(S)
        BY <1>2, <3>4 DEF Entry, EditsOf, LineOps
      <3> QED
        BY <3>3, <3>4, <3>5
    <2>2. << >> \in Seq(EditsOf(S))
      OBVIOUS
    <2>3. Stepping!Folded(Unmoved(full), Append(<< >>, d[1]))
            = ApplyShifted(Stepping!Folded(Unmoved(full), << >>), d[1])
      BY <2>1, <2>2, Stepping!FoldOfAppend
    <2>4. Len(full) \in 1..Len(full) /\ SubSeq(full, 1, Len(full)) = full
      BY <1>2, <1>3, <1>7
    <2>5. RemoveAt(full, Len(full)) = new
      <3>1. RemoveAt(SubSeq(full, 1, Len(full)), Len(full)) = SubSeq(full, 1, Len(full) - 1)
        BY <1>2, <2>4, LastLineDeleted
      <3> QED
        BY <1>2, <1>3, <1>7, <2>4, <3>1
    <2>6. ApplyShifted(Unmoved(full), d[1]) = [lines |-> new, offset |-> -1, panicked |-> FALSE]
      <3>1. d[1].line + 0 = Len(full) /\ d[1].op = "delete" /\ d[1].op # "insert"
        BY <2>1, <2>4 DEF Entry
      <3>2. ApplyShifted(Unmoved(full), d[1])
              = [Unmoved(full) EXCEPT !.lines = RemoveAt(@, Len(full)), !.offset = @ - 1]
        BY <2>4, <3>1 DEF ApplyShifted, Unmoved
      <3>3. 0 - 1 = -1
        OBVIOUS
      <3> QED
        BY <2>5, <3>2, <3>3 DEF Unmoved
    <2> QED
      BY <1>4, <1>5, <2>1, <2>3, <2>6 DEF applyEvent
  <1> QED
    BY <1>3, <1>6, <1>7

-----------------------------------------------------------------------------
(* The same diffs, replayed by the file provider: the writes first, then   *)
(* the deletes in descending order.                                        *)
FileWrites == INSTANCE Folding WITH op <- WriteLine
FileDrops == INSTANCE Folding WITH op <- DeleteLine
FileDeletes == INSTANCE Folding WITH op <- AddDelete

LEMMA TheseThreeFold ==
  ASSUME NEW lines, NEW entries, NEW deletes
  PROVE  /\ FoldLeft(WriteLine, lines, entries) = FileWrites!Folded(lines, entries)
         /\ FoldLeft(DeleteLine, lines, deletes) = FileDrops!Folded(lines, deletes)
         /\ FoldLeft(AddDelete, << >>, entries) = FileDeletes!Folded(<< >>, entries)
  <1>1. FoldLeft(WriteLine, lines, entries) = FileWrites!Folded(lines, entries)
    BY DEF FileWrites!Folded, FoldLeft, FileWrites!FoldLeft,
           MapThenFoldSet, FileWrites!MapThenFoldSet, Max, FileWrites!Max
  <1>2. FoldLeft(DeleteLine, lines, deletes) = FileDrops!Folded(lines, deletes)
    BY DEF FileDrops!Folded, FoldLeft, FileDrops!FoldLeft,
           MapThenFoldSet, FileDrops!MapThenFoldSet, Max, FileDrops!Max
  <1>3. FoldLeft(AddDelete, << >>, entries) = FileDeletes!Folded(<< >>, entries)
    BY DEF FileDeletes!Folded, FoldLeft, FileDeletes!FoldLeft,
           MapThenFoldSet, FileDeletes!MapThenFoldSet, Max, FileDeletes!Max
  <1> QED
    BY <1>1, <1>2, <1>3

(* The rewrites of a diff write, and delete nothing.                       *)
LEMMA FileRewrites ==
  ASSUME NEW S, NEW old \in Seq(S), NEW new \in Seq(S)
  PROVE  /\ FileWrites!Folded(old, Rewrites(old, new, Len(new))) = Half(old, new, Len(new))
         /\ FileDeletes!Folded(<< >>, Rewrites(old, new, Len(new))) = << >>
  <1> DEFINE n == Len(new)
             T == {i \in Nat : i <= n => /\ FileWrites!Folded(old, Rewrites(old, new, i)) = Half(old, new, i)
                                          /\ FileDeletes!Folded(<< >>, Rewrites(old, new, i)) = << >>}
  <1>1. n \in Nat
    OBVIOUS
  <1>2. 0 \in T
    <2>1. FileWrites!Folded(old, << >>) = old /\ FileDeletes!Folded(<< >>, << >>) = << >>
      BY FileWrites!FoldOfNothing, FileDeletes!FoldOfNothing
    <2> QED
      BY <2>1, RewritesGrow, WholeText
  <1>3. ASSUME NEW i \in Nat, i \in T PROVE i + 1 \in T
    <2> SUFFICES ASSUME i + 1 <= n
                 PROVE  /\ FileWrites!Folded(old, Rewrites(old, new, i + 1)) = Half(old, new, i + 1)
                        /\ FileDeletes!Folded(<< >>, Rewrites(old, new, i + 1)) = << >>
      OBVIOUS
    <2> DEFINE r == Rewrites(old, new, i)
               l == Compared(old, new)[i + 1]
               e == Entry(l.line, IF l.text = Blank THEN "setEmpty" ELSE "set", l.text)
    <2>1. i \in 0..n - 1 /\ i \in 0..n
      BY <1>1
    <2>2. r \in Seq(EditsOf(S)) /\ Rewrites(old, new, i + 1) = AddRewrite(r, l)
      BY <2>1, RewritesGrow
    <2>3. FileWrites!Folded(old, r) = Half(old, new, i) /\ FileDeletes!Folded(<< >>, r) = << >>
      BY <1>3, <2>1
    <2>4. /\ l.line = i + 1 /\ l.text = new[i + 1]
          /\ l.old = <<l.text>> => Half(old, new, i + 1) = Half(old, new, i)
          /\ SetLine(Half(old, new, i), i + 1, new[i + 1]) = Half(old, new, i + 1)
      BY <2>1, HalfGrows
    <2>5. e \in EditsOf(S)
      BY <1>1, <2>1, <2>4 DEF Entry, EditsOf, LineOps
    <2>6. WriteLine(Half(old, new, i), e) = Half(old, new, i + 1) /\ AddDelete(<< >>, e) = << >>
      BY <2>4 DEF WriteLine, AddDelete, Entry
    <2> HIDE DEF l, e, r
    <2>7. FileWrites!Folded(old, Append(r, e)) = WriteLine(FileWrites!Folded(old, r), e)
      BY <2>2, <2>5, FileWrites!FoldOfAppend
    <2>8. FileDeletes!Folded(<< >>, Append(r, e)) = AddDelete(FileDeletes!Folded(<< >>, r), e)
      BY <2>2, <2>5, FileDeletes!FoldOfAppend
    <2>9. Rewrites(old, new, i + 1) = IF l.old = <<l.text>> THEN r ELSE Append(r, e)
      BY <2>2 DEF AddRewrite, e
    <2> QED
      BY <2>3, <2>4, <2>6, <2>7, <2>8, <2>9
  <1>4. Nat \subseteq T
    <2> HIDE DEF T
    <2> QED
      BY <1>2, <1>3, FileWrites!NatSetInduction
  <1> QED
    BY <1>1, <1>4

(* The numbers of the lines from the last one down.                        *)
Downwards(last, m) == [k \in 1..m |-> last + 1 - k]

(* The deletes of a diff write nothing, and are collected as they come.    *)
LEMMA FileDeletesOnly ==
  ASSUME NEW S, NEW old \in Seq(S), NEW new \in Seq(S), NEW text
  PROVE  /\ FileWrites!Folded(text, DeletesOf(old, new)) = text
         /\ FileDeletes!Folded(<< >>, DeletesOf(old, new)) = Downwards(Len(old), Surplus(old, new))
  <1> DEFINE d == DeletesOf(old, new)
             m == Surplus(old, new)
             T == {j \in Nat : j <= m => /\ FileWrites!Folded(text, SubSeq(d, 1, j)) = text
                                          /\ FileDeletes!Folded(<< >>, SubSeq(d, 1, j)) = Downwards(Len(old), j)}
  <1>1. /\ d \in Seq(EditsOf(S)) /\ Len(d) = m /\ m \in Nat
        /\ \A k \in 1..m : d[k] = Entry(Len(old) + 1 - k, "delete", Blank)
        /\ SubSeq(d, 1, 0) = << >> /\ SubSeq(d, 1, m) = d
        /\ \A k \in 0..m - 1 : SubSeq(d, 1, k + 1) = Append(SubSeq(d, 1, k), d[k + 1])
    BY DeletesAre
  <1>2. m <= Len(old) /\ Len(old) \in Nat
    BY DEF Surplus
  <1> HIDE DEF m, d
  <1>3. 0 \in T
    <2>1. Downwards(Len(old), 0) = << >>
      BY DEF Downwards
    <2> QED
      BY <1>1, <2>1, FileWrites!FoldOfNothing, FileDeletes!FoldOfNothing
  <1>4. ASSUME NEW j \in Nat, j \in T PROVE j + 1 \in T
    <2> SUFFICES ASSUME j + 1 <= m
                 PROVE  /\ FileWrites!Folded(text, SubSeq(d, 1, j + 1)) = text
                        /\ FileDeletes!Folded(<< >>, SubSeq(d, 1, j + 1)) = Downwards(Len(old), j + 1)
      OBVIOUS
    <2> DEFINE e == d[j + 1]
               down == Downwards(Len(old), j)
    <2>1. j \in 0..m - 1 /\ j + 1 \in 1..m /\ j <= m
      BY <1>1
    <2>2. e = Entry(Len(old) - j, "delete", Blank) /\ e \in EditsOf(S)
      <3>1. Len(old) + 1 - (j + 1) = Len(old) - j
        BY <1>2
      <3>2. e = Entry(Len(old) - j, "delete", Blank)
        BY <1>1, <2>1, <3>1
      <3> QED
        BY <1>1, <1>2, <2>1, <3>2 DEF Entry, EditsOf, LineOps
    <2>3. SubSeq(d, 1, j) \in Seq(EditsOf(S)) /\ SubSeq(d, 1, j + 1) = Append(SubSeq(d, 1, j), e)
      BY <1>1, <2>1
    <2>4. FileWrites!Folded(text, SubSeq(d, 1, j)) = text /\ FileDeletes!Folded(<< >>, SubSeq(d, 1, j)) = down
      BY <1>4, <2>1
    <2>5. WriteLine(text, e) = text
      BY <2>2 DEF WriteLine, Entry
    <2>6. AddDelete(down, e) = Downwards(Len(old), j + 1)
      <3>1. down \in Seq(Int) /\ Len(down) = j /\ DOMAIN down = 1..j
        BY <1>2 DEF Downwards
      <3>2. \A k \in 1..j : down[k] = Len(old) + 1 - k
        BY DEF Downwards
      <3>3. {k \in 1..j : down[k] >= Len(old) - j} = 1..j
        BY <1>2, <3>2
      <3>4. Cardinality(1..j) = j
        <4>1. Cardinality(1..j) = IF 1 > j THEN 0 ELSE j - 1 + 1
          BY FS_Interval
        <4> QED
          BY <4>1
      <3>5. e.line = Len(old) - j /\ e.op = "delete"
        BY <2>2 DEF Entry
      <3> HIDE DEF e, down
      <3>6. AddDelete(down, e) = InsertAt(down, j + 1, Len(old) - j)
        BY <3>1, <3>3, <3>4, <3>5 DEF AddDelete
      <3>7. Len(old) - j \in Int
        BY <1>2
      <3>8. InsertAt(down, j + 1, Len(old) - j) = Append(down, Len(old) - j)
        <4>1. SubSeq(down, 1, (j + 1) - 1) = down
          BY <3>1
        <4>2. SubSeq(down, j + 1, Len(down)) = << >>
          BY <3>1
        <4>3. <<Len(old) - j>> \o << >> = <<Len(old) - j>>
          BY <3>7
        <4>4. down \o <<Len(old) - j>> = Append(down, Len(old) - j)
          BY <3>1, <3>7
        <4>5. InsertAt(down, j + 1, Len(old) - j) = down \o <<Len(old) - j>> \o << >>
          BY <4>1, <4>2 DEF InsertAt
        <4>6. (down \o <<Len(old) - j>>) \o << >> = down \o <<Len(old) - j>>
          BY <3>1, <3>7, <4>4
        <4> QED
          BY <4>4, <4>5, <4>6
      <3>9. Append(down, Len(old) - j) = Downwards(Len(old), j + 1)
        <4>1. /\ Len(Append(down, Len(old) - j)) = j + 1
              /\ \A k \in 1..j + 1 : Append(down, Len(old) - j)[k] = IF k = j + 1 THEN Len(old) - j ELSE down[k]
          BY <3>1, <3>7
        <4>2. Append(down, Len(old) - j) \in Seq(Int)
          BY <3>1, <3>7
        <4>3. \A k \in 1..j + 1 : Append(down, Len(old) - j)[k] = Len(old) + 1 - k
          BY <1>2, <3>2, <4>1
        <4>4. Append(down, Len(old) - j) = [k \in 1..j + 1 |-> Append(down, Len(old) - j)[k]]
          BY <4>1, <4>2
        <4> QED
          BY <4>3, <4>4 DEF Downwards
      <3> QED
        BY <3>6, <3>8, <3>9
    <2> HIDE DEF e, down
    <2>9. SubSeq(d, 1, j) \in Seq(EditsOf(S)) /\ e \in EditsOf(S)
      BY <2>2, <2>3
    <2>7. FileWrites!Folded(text, Append(SubSeq(d, 1, j), e)) = WriteLine(FileWrites!Folded(text, SubSeq(d, 1, j)), e)
      BY <2>9, FileWrites!FoldOfAppend
    <2>8. FileDeletes!Folded(<< >>, Append(SubSeq(d, 1, j), e))
            = AddDelete(FileDeletes!Folded(<< >>, SubSeq(d, 1, j)), e)
      BY <2>9, FileDeletes!FoldOfAppend
    <2> QED
      BY <2>3, <2>4, <2>5, <2>6, <2>7, <2>8
  <1>5. Nat \subseteq T
    <2> HIDE DEF T
    <2> QED
      BY <1>3, <1>4, FileDeletes!NatSetInduction
  <1>6. /\ FileWrites!Folded(text, SubSeq(d, 1, m)) = text
        /\ FileDeletes!Folded(<< >>, SubSeq(d, 1, m)) = Downwards(Len(old), m)
    BY <1>1, <1>5
  <1> QED
    BY <1>1, <1>6 DEF d, m

(* Lines dropped from the last one down.                                   *)
LEMMA DropDownwards ==
  ASSUME NEW S, NEW text \in Seq(S), NEW m \in 0..Len(text)
  PROVE  FileDrops!Folded(text, Downwards(Len(text), m)) = SubSeq(text, 1, Len(text) - m)
  <1> DEFINE T == {j \in Nat : j <= m => FileDrops!Folded(text, Downwards(Len(text), j)) = SubSeq(text, 1, Len(text) - j)}
  <1>1. m \in Nat /\ Len(text) \in Nat /\ m <= Len(text)
    OBVIOUS
  <1>2. 0 \in T
    <2>1. SubSeq(text, 1, Len(text) - 0) = text
      OBVIOUS
    <2>2. Downwards(Len(text), 0) = << >>
      BY DEF Downwards
    <2> QED
      BY <2>1, <2>2, FileDrops!FoldOfNothing
  <1>3. ASSUME NEW j \in Nat, j \in T PROVE j + 1 \in T
    <2> SUFFICES ASSUME j + 1 <= m
                 PROVE  FileDrops!Folded(text, Downwards(Len(text), j + 1)) = SubSeq(text, 1, Len(text) - (j + 1))
      OBVIOUS
    <2> DEFINE k == Len(text) - j
               down == Downwards(Len(text), j)
    <2>1. j <= m /\ k \in 1..Len(text) /\ Len(text) - (j + 1) = k - 1 /\ k \in Int
      BY <1>1
    <2>2. down \in Seq(Int) /\ Len(down) = j
      BY <1>1 DEF Downwards
    <2>3. Downwards(Len(text), j + 1) = Append(down, k)
      <3>1. \A i \in 1..j : down[i] = Len(text) + 1 - i
        BY DEF Downwards
      <3> HIDE DEF down
      <3>2. /\ Append(down, k) \in Seq(Int) /\ Len(Append(down, k)) = j + 1
            /\ \A i \in 1..j + 1 : Append(down, k)[i] = IF i = j + 1 THEN k ELSE down[i]
        BY <2>1, <2>2
      <3>3. \A i \in 1..j + 1 : Append(down, k)[i] = Len(text) + 1 - i
        BY <1>1, <3>1, <3>2
      <3>4. Append(down, k) = [i \in 1..j + 1 |-> Append(down, k)[i]]
        BY <3>2
      <3> QED
        BY <3>3, <3>4 DEF Downwards
    <2>4. FileDrops!Folded(text, down) = SubSeq(text, 1, k)
      BY <1>3, <2>1
    <2>5. DeleteLine(SubSeq(text, 1, k), k) = SubSeq(text, 1, k - 1)
      BY <2>1, LastLineDeleted
    <2> HIDE DEF down, k
    <2>6. down \in Seq(Int) /\ k \in Int
      BY <2>1, <2>2
    <2>7. FileDrops!Folded(text, Append(down, k)) = DeleteLine(FileDrops!Folded(text, down), k)
      BY <2>6, FileDrops!FoldOfAppend
    <2> QED
      BY <2>1, <2>3, <2>4, <2>5, <2>7
  <1>4. Nat \subseteq T
    <2> HIDE DEF T
    <2> QED
      BY <1>2, <1>3, FileDrops!NatSetInduction
  <1> QED
    BY <1>1, <1>4

(* Every diff does what DiffLines promises in the cache of the file        *)
(* provider, which takes the deletes of an event from the highest line     *)
(* down, however many there are.                                           *)
THEOREM FileDiffsReplay ==
  ASSUME NEW S, NEW old \in Seq(S), NEW new \in Seq(S)
  PROVE  applyEntriesToLines(old, DiffLines(old, new)) = new
  <1> DEFINE r == Rewrites(old, new, Len(new))
             d == DeletesOf(old, new)
             m == Surplus(old, new)
             full == Half(old, new, Len(new))
  <1>1. Len(new) \in 0..Len(new)
    OBVIOUS
  <1>2. r \in Seq(EditsOf(S)) /\ DiffLines(old, new) = r \o d
    BY <1>1, RewritesGrow DEF DiffLines
  <1>3. d \in Seq(EditsOf(S))
    BY DeletesAre
  <1>4. /\ full \in Seq(S) /\ SubSeq(full, 1, Len(new)) = new
        /\ Len(full) = IF Len(new) > Len(old) THEN Len(new) ELSE Len(old)
    BY <1>1, WholeText
  <1>5. m \in 0..Len(full) /\ Len(full) - m = Len(new)
    BY <1>4 DEF Surplus
  <1>6. Downwards(Len(old), m) = Downwards(Len(full), m)
    <2>1. m # 0 => Len(full) = Len(old)
      BY <1>4 DEF Surplus
    <2>2. m = 0 => Downwards(Len(old), m) = << >> /\ Downwards(Len(full), m) = << >>
      BY DEF Downwards
    <2> QED
      BY <2>1, <2>2
  <1>7. FileWrites!Folded(old, r) = full /\ FileDeletes!Folded(<< >>, r) = << >>
    BY FileRewrites
  <1>8. FileWrites!Folded(full, d) = full /\ FileDeletes!Folded(<< >>, d) = Downwards(Len(old), m)
    BY FileDeletesOnly
  <1>9. FileDrops!Folded(full, Downwards(Len(full), m)) = new
    BY <1>4, <1>5, DropDownwards
  <1> HIDE DEF r, d, m, full
  <1>10. FileWrites!Folded(old, r \o d) = FileWrites!Folded(FileWrites!Folded(old, r), d)
    BY <1>2, <1>3, FileWrites!FoldOfConcat
  <1>11. FileDeletes!Folded(<< >>, r \o d) = FileDeletes!Folded(FileDeletes!Folded(<< >>, r), d)
    BY <1>2, <1>3, FileDeletes!FoldOfConcat
  <1>12. FoldLeft(WriteLine, old, r \o d) = full
    BY <1>7, <1>8, <1>10, TheseThreeFold
  <1>13. FoldLeft(AddDelete, << >>, r \o d) = Downwards(Len(full), m)
    BY <1>6, <1>7, <1>8, <1>11, TheseThreeFold
  <1>14. FoldLeft(DeleteLine, full, Downwards(Len(full), m)) = new
    BY <1>9, TheseThreeFold
  <1> QED
    BY <1>2, <1>12, <1>13, <1>14 DEF applyEntriesToLines

-----------------------------------------------------------------------------
(* Types of the note object.  They hold as long as no replay panics; no    *)
(* diff makes one panic, whatever text it is applied to.                   *)

LEMMA EntryKeepsText ==
  ASSUME NEW acc \in [lines : Seq(LineText), offset : Int, panicked : BOOLEAN], NEW e \in LineEntry
  PROVE  /\ ApplyShifted(acc, e) \in [lines : Seq(LineText), offset : Int, panicked : BOOLEAN]
         /\ e.op = "delete" /\ acc.panicked = FALSE => ApplyShifted(acc, e).panicked = FALSE
  <1> DEFINE A == [lines : Seq(LineText), offset : Int, panicked : BOOLEAN]
             i == e.line + acc.offset
  <1>1. /\ acc = [lines |-> acc.lines, offset |-> acc.offset, panicked |-> acc.panicked]
        /\ acc.lines \in Seq(LineText) /\ acc.offset \in Int /\ acc.panicked \in BOOLEAN
    OBVIOUS
  <1>2. e.line \in Nat /\ e.text \in LineText /\ LineText \cup {e.text} = LineText /\ LineText \cup {e.text, Blank} = LineText
    BY DEF LineEntry, LineText
  <1>3. i \in Int /\ acc.offset + 1 \in Int /\ acc.offset - 1 \in Int
    BY <1>1, <1>2
  <1>4. CASE acc.panicked
    BY <1>4 DEF ApplyShifted
  <1>5. CASE ~ acc.panicked
    <2> HIDE DEF i
    <2>1. CASE e.op = "insert" /\ i \in 1..(Len(acc.lines) + 1)
      <3>1. InsertAt(acc.lines, i, e.text) \in Seq(LineText)
        BY <1>1, <1>2, <2>1, LinesAfterInsert
      <3>2. ApplyShifted(acc, e) = [acc EXCEPT !.lines = InsertAt(@, i, e.text), !.offset = @ + 1]
        BY <1>5, <2>1 DEF ApplyShifted, i
      <3> QED
        BY <1>1, <1>3, <2>1, <3>1, <3>2
    <2>2. CASE e.op = "delete" /\ i \in 1..Len(acc.lines)
      <3>1. RemoveAt(acc.lines, i) \in Seq(LineText)
        BY <1>1, <2>2, LinesAfterRemove
      <3>2. ApplyShifted(acc, e) = [acc EXCEPT !.lines = RemoveAt(@, i), !.offset = @ - 1]
        BY <1>5, <2>2 DEF ApplyShifted, i
      <3> QED
        BY <1>1, <1>3, <1>5, <3>1, <3>2
    <2>3. CASE e.op = "delete" /\ i \notin 1..Len(acc.lines)
      BY <1>5, <2>3 DEF ApplyShifted, i
    <2>4. CASE e.op \notin {"insert", "delete"} /\ i >= 1
      <3>1. SetLine(acc.lines, i, e.text) \in Seq(LineText)
        <4>1. i \in Nat \ {0}
          BY <1>3, <2>4
        <4> QED
          BY <1>1, <1>2, <4>1, LinesAfterSet
      <3>2. ApplyShifted(acc, e) = [acc EXCEPT !.lines = SetLine(@, i, e.text)]
        BY <1>5, <2>4 DEF ApplyShifted, i
      <3> QED
        BY <1>1, <2>4, <3>1, <3>2
    <2>5. CASE \/ e.op = "insert" /\ i \notin 1..(Len(acc.lines) + 1)
               \/ e.op \notin {"insert", "delete"} /\ ~ i >= 1
      <3>1. ApplyShifted(acc, e) = [acc EXCEPT !.panicked = TRUE]
        BY <1>5, <2>5 DEF ApplyShifted, i
      <3> QED
        BY <1>1, <2>5, <3>1
    <2> QED
      BY <2>1, <2>2, <2>3, <2>4, <2>5
  <1> QED
    BY <1>1, <1>4, <1>5

(* An event makes a text of a text, or panics.                             *)
LEMMA EventKeepsText ==
  ASSUME NEW lines \in Seq(LineText), NEW p \in Seq(LineEntry)
  PROVE  applyEvent(lines, p) \in Seq(LineText) \/ applyEvent(lines, p) = Panic
  <1> DEFINE A == [lines : Seq(LineText), offset : Int, panicked : BOOLEAN]
  <1>1. Applied(lines, p) = Stepping!Folded(Unmoved(lines), p)
    BY DEF Applied, Unmoved, Stepping!Folded, FoldLeft, Stepping!FoldLeft,
           MapThenFoldSet, Stepping!MapThenFoldSet, Max, Stepping!Max
  <1>2. Unmoved(lines) \in A
    BY DEF Unmoved
  <1>3. \A a \in A, e \in LineEntry : ApplyShifted(a, e) \in A
    BY EntryKeepsText
  <1> HIDE DEF A
  <1>4. Applied(lines, p) \in A
    BY <1>1, <1>2, <1>3, Stepping!FoldStaysWithin
  <1> QED
    BY <1>4 DEF applyEvent, A

(* A diff writes before it deletes, so that no write is shifted, and the   *)
(* delete of a line that is not there does nothing.                        *)
LEMMA DiffsNeverPanic ==
  ASSUME NEW old \in Seq(LineText), NEW new \in Seq(LineText), NEW lines \in Seq(LineText)
  PROVE  /\ DiffLines(old, new) \in Seq(LineEntry)
         /\ applyEvent(lines, DiffLines(old, new)) \in Seq(LineText)
  <1> DEFINE r == Rewrites(old, new, Len(new))
             d == DeletesOf(old, new)
             dels == {e \in EditsOf(LineText) : e.op = "delete"}
             Still == {Unmoved(x) : x \in Seq(LineText)}
             Going == {a \in [lines : Seq(LineText), offset : Int, panicked : BOOLEAN] : a.panicked = FALSE}
  <1>1. EditsOf(LineText) = LineEntry /\ WritesOf(LineText) \subseteq LineEntry /\ dels \subseteq LineEntry
    BY DEF EditsOf, WritesOf, LineEntry, LineText, LineOps
  <1>2. Len(new) \in 0..Len(new)
    OBVIOUS
  <1>3. r \in Seq(WritesOf(LineText)) /\ r \in Seq(EditsOf(LineText)) /\ DiffLines(old, new) = r \o d
    BY <1>2, RewritesGrow DEF DiffLines
  <1>4. d \in Seq(dels) /\ d \in Seq(EditsOf(LineText))
    BY DeletesAre
  <1>5. \A a \in Still, e \in WritesOf(LineText) : ApplyShifted(a, e) \in Still
    <2> SUFFICES ASSUME NEW x \in Seq(LineText), NEW e \in WritesOf(LineText) PROVE ApplyShifted(Unmoved(x), e) \in Still
      OBVIOUS
    <2>1. e.line \in Nat \ {0} /\ e.op \notin {"insert", "delete"} /\ e.text \in LineText
      BY DEF WritesOf
    <2>2. e.line + 0 = e.line /\ e.line >= 1
      BY <2>1
    <2>3. ApplyShifted(Unmoved(x), e) = Unmoved(SetLine(x, e.line, e.text))
      BY <2>1, <2>2 DEF ApplyShifted, Unmoved
    <2>4. LineText \cup {e.text, Blank} = LineText
      BY <2>1 DEF LineText
    <2>5. SetLine(x, e.line, e.text) \in Seq(LineText)
      BY <2>1, <2>4, LinesAfterSet
    <2> QED
      BY <2>3, <2>5
  <1>6. \A a \in Going, e \in dels : ApplyShifted(a, e) \in Going
    <2> SUFFICES ASSUME NEW a \in Going, NEW e \in dels PROVE ApplyShifted(a, e) \in Going
      OBVIOUS
    <2>1. e \in LineEntry /\ e.op = "delete"
      BY <1>1
    <2>2. a \in [lines : Seq(LineText), offset : Int, panicked : BOOLEAN] /\ a.panicked = FALSE
      OBVIOUS
    <2>3. /\ ApplyShifted(a, e) \in [lines : Seq(LineText), offset : Int, panicked : BOOLEAN]
          /\ ApplyShifted(a, e).panicked = FALSE
      BY <2>1, <2>2, EntryKeepsText
    <2> QED
      BY <2>3
  <1>7. Unmoved(lines) \in Still /\ Still \subseteq Going
    <2>1. \A x \in Seq(LineText) : Unmoved(x) \in [lines : Seq(LineText), offset : Int, panicked : BOOLEAN]
      BY DEF Unmoved
    <2>2. \A x \in Seq(LineText) : Unmoved(x).panicked = FALSE
      BY DEF Unmoved
    <2> QED
      BY <2>1, <2>2
  <1> HIDE DEF r, d, dels, Still, Going
  <1>8. Stepping!Folded(Unmoved(lines), r) \in Still
    BY <1>3, <1>5, <1>7, Stepping!FoldStaysWithin
  <1>9. Stepping!Folded(Unmoved(lines), r) \in Going
    BY <1>7, <1>8
  <1>10. Stepping!Folded(Stepping!Folded(Unmoved(lines), r), d) \in Going
    BY <1>4, <1>6, <1>9, Stepping!FoldStaysWithin
  <1>11. Stepping!Folded(Unmoved(lines), r \o d) = Stepping!Folded(Stepping!Folded(Unmoved(lines), r), d)
    BY <1>3, <1>4, Stepping!FoldOfConcat
  <1>12. Applied(lines, r \o d) = Stepping!Folded(Unmoved(lines), r \o d)
    BY DEF Applied, Unmoved, Stepping!Folded, FoldLeft, Stepping!FoldLeft,
           MapThenFoldSet, Stepping!MapThenFoldSet, Max, Stepping!Max
  <1>13. applyEvent(lines, r \o d) \in Seq(LineText)
    BY <1>10, <1>11, <1>12 DEF applyEvent, Going
  <1>14. r \o d \in Seq(LineEntry)
    BY <1>1, <1>3, <1>4
  <1> QED
    BY <1>3, <1>13, <1>14

-----------------------------------------------------------------------------
(* An event that makes no replay panic.  Note.ApplyEvent looks at the line *)
(* numbers of an event alone, so that raw callers could apply another.     *)
NeverPanics(p) == \A lines \in Seq(LineText) : applyEvent(lines, p) \in Seq(LineText)

Harmless == {p \in Seq(LineEntry) : NeverPanics(p)}

Ascends(snaps) == \A j, k \in DOMAIN snaps : j < k => snaps[j].sequence < snaps[k].sequence

CoreTypes ==
  /\ events \in Seq(Harmless) /\ HeadSequence <= MaxApplied
  /\ snapshots \in Seq(Snapshot) /\ Ascends(snapshots)
  /\ \A k \in DOMAIN snapshots : snapshots[k].sequence <= HeadSequence
  /\ diffed \in {NotADiff} \cup {<<d>> : d \in Targets}

LEMMA CheckpointSequence == \A x \in Snapshot : x.sequence \in Nat
  BY CoreAssumption DEF Snapshot

LEMMA CheckpointsHaveSequences ==
  ASSUME NEW snaps \in Seq(Snapshot)
  PROVE  \A k \in DOMAIN snaps : snaps[k].sequence \in Nat
  <1>1. \A k \in DOMAIN snaps : snaps[k] \in Snapshot
    OBVIOUS
  <1> QED
    BY <1>1, CheckpointSequence

LEMMA CoreTypesInit == CoreInit => CoreTypes
  <1> SUFFICES ASSUME CoreInit PROVE CoreTypes
    OBVIOUS
  <1>1. << >> \in Seq(Harmless) /\ << >> \in Seq(Snapshot) /\ Len(<< >>) = 0 /\ DOMAIN << >> = {}
    OBVIOUS
  <1> QED
    BY <1>1, CoreAssumption DEF CoreInit, CoreTypes, HeadSequence, Ascends

(* What is materialised is a text.                                         *)
LEMMA LinesAreText ==
  ASSUME CoreInv, CoreTypes, NEW t \in 0..HeadSequence
  PROVE  linesAt(events, snapshots, t) \in Seq(LineText)
  <1>1. linesAt(events, snapshots, t) = Replaying!Folded(<< >>, SubSeq(events, 1, t))
    BY LinesAreTheReplay DEF Replayed
  <1>2. SubSeq(events, 1, t) \in Seq(Harmless)
    BY DEF CoreTypes, HeadSequence
  <1>3. << >> \in Seq(LineText)
    OBVIOUS
  <1>4. \A lines \in Seq(LineText), p \in Harmless : applyEvent(lines, p) \in Seq(LineText)
    BY DEF Harmless, NeverPanics
  <1>5. Replaying!Folded(<< >>, SubSeq(events, 1, t)) \in Seq(LineText)
    BY <1>2, <1>3, <1>4, Replaying!FoldStaysWithin
  <1> QED
    BY <1>1, <1>5

LEMMA ApplyKeepsCoreTypes ==
  ASSUME CoreTypes, NEW s, NEW p \in Harmless, ApplyEvent(s, p),
         diffed' \in {NotADiff} \cup {<<d>> : d \in Targets}
  PROVE  CoreTypes'
  <1>1. events' = Append(events, p) /\ snapshots' = snapshots /\ HeadSequence < MaxApplied
    BY DEF ApplyEvent
  <1>2. events' \in Seq(Harmless) /\ Len(events') = Len(events) + 1 /\ Len(events) \in Nat
    BY <1>1 DEF CoreTypes
  <1>3. HeadSequence' <= MaxApplied /\ HeadSequence <= HeadSequence'
    BY <1>1, <1>2, CoreAssumption DEF HeadSequence
  <1>4. \A k \in DOMAIN snapshots' : snapshots'[k].sequence <= HeadSequence'
    <2>1. snapshots \in Seq(Snapshot) /\ HeadSequence \in Nat /\ HeadSequence' \in Nat
      BY <1>2 DEF CoreTypes, HeadSequence
    <2>2. \A k \in DOMAIN snapshots : snapshots[k].sequence \in Nat /\ snapshots[k].sequence <= HeadSequence
      BY <2>1, CheckpointsHaveSequences DEF CoreTypes
    <2> QED
      BY <1>1, <1>3, <2>1, <2>2
  <1>5. snapshots' \in Seq(Snapshot) /\ Ascends(snapshots')
    BY <1>1 DEF CoreTypes
  <1> QED
    BY <1>2, <1>3, <1>4, <1>5 DEF CoreTypes

(* The checkpoints ascend wherever a new one is put among them.            *)
LEMMA PlacedInOrder ==
  ASSUME NEW snaps \in Seq(Snapshot), Ascends(snaps), NEW new \in Snapshot,
         NEW place \in 1..Len(snaps), snaps[place].sequence > new.sequence,
         \A j \in 1..Len(snaps) : snaps[j].sequence > new.sequence => place <= j,
         \A j \in 1..Len(snaps) : snaps[j].sequence # new.sequence
  PROVE  /\ InsertAt(snaps, place, new) \in Seq(Snapshot)
         /\ Ascends(InsertAt(snaps, place, new))
         /\ \A k \in DOMAIN InsertAt(snaps, place, new) :
              InsertAt(snaps, place, new)[k] = new
              \/ \E j \in DOMAIN snaps : InsertAt(snaps, place, new)[k] = snaps[j]
  <1> DEFINE more == InsertAt(snaps, place, new)
             n == Len(snaps)
  <1>1. n \in Nat /\ DOMAIN snaps = 1..n /\ place \in 1..(n + 1) /\ place \in Nat
    OBVIOUS
  <1>2. more \in Seq(Snapshot \cup {new}) /\ LineCameIn(more, snaps, place, new)
    BY <1>1, LinesAfterInsert
  <1> HIDE DEF more, n
  <1>3. Snapshot \cup {new} = Snapshot
    OBVIOUS
  <1>4. more \in Seq(Snapshot) /\ Len(more) = n + 1 /\ DOMAIN more = 1..(n + 1)
    BY <1>1, <1>2, <1>3 DEF LineCameIn, n
  <1>5. \A k \in 1..(n + 1) : more[k] = IF k < place THEN snaps[k] ELSE IF k = place THEN new ELSE snaps[k - 1]
    BY <1>1, <1>2 DEF LineCameIn, n
  <1>6. new.sequence \in Nat /\ \A j \in 1..n : snaps[j].sequence \in Nat
    <2>1. \A j \in DOMAIN snaps : snaps[j].sequence \in Nat
      BY CheckpointsHaveSequences
    <2> QED
      BY <1>1, <2>1, CheckpointSequence
  <1>7. \A i, j \in 1..n : i < j => snaps[i].sequence < snaps[j].sequence
    BY <1>1 DEF Ascends
  <1>8. \A j \in 1..n : j < place => snaps[j].sequence < new.sequence
    BY <1>1, <1>6 DEF n
  <1>9. \A j \in 1..n : place <= j => new.sequence < snaps[j].sequence
    <2> SUFFICES ASSUME NEW j \in 1..n, place <= j PROVE new.sequence < snaps[j].sequence
      OBVIOUS
    <2>1. CASE j = place
      BY <1>6, <2>1
    <2>2. CASE j # place
      <3>1. place < j /\ place \in 1..n
        BY <1>1, <2>2 DEF n
      <3>2. snaps[place].sequence < snaps[j].sequence
        BY <1>7, <3>1
      <3> QED
        BY <1>6, <3>1, <3>2
    <2> QED
      BY <2>1, <2>2
  <1>10. Ascends(more)
    <2> SUFFICES ASSUME NEW i \in 1..(n + 1), NEW j \in 1..(n + 1), i < j
                 PROVE  more[i].sequence < more[j].sequence
      BY <1>4 DEF Ascends
    <2>1. CASE j < place
      <3>1. i \in 1..n /\ j \in 1..n /\ i < place
        BY <1>1, <2>1 DEF n
      <3> QED
        BY <1>5, <1>7, <2>1, <3>1
    <2>2. CASE j = place
      <3>1. i \in 1..n /\ i < place
        BY <1>1, <2>2 DEF n
      <3> QED
        BY <1>5, <1>8, <2>2, <3>1
    <2>3. CASE place < j /\ i < place
      <3>1. i \in 1..n /\ j - 1 \in 1..n /\ i < j - 1
        BY <1>1, <2>3 DEF n
      <3> QED
        BY <1>5, <1>7, <2>3, <3>1
    <2>4. CASE place < j /\ i = place
      <3>1. j - 1 \in 1..n /\ place <= j - 1
        BY <1>1, <2>4
      <3> QED
        BY <1>5, <1>9, <2>4, <3>1
    <2>5. CASE place < j /\ place < i
      <3>1. i - 1 \in 1..n /\ j - 1 \in 1..n /\ i - 1 < j - 1
        BY <1>1, <2>5
      <3> QED
        BY <1>5, <1>7, <2>5, <3>1
    <2> QED
      BY <1>1, <2>1, <2>2, <2>3, <2>4, <2>5
  <1>11. \A k \in 1..(n + 1) : more[k] = new \/ \E j \in 1..n : more[k] = snaps[j]
    <2> SUFFICES ASSUME NEW k \in 1..(n + 1) PROVE more[k] = new \/ \E j \in 1..n : more[k] = snaps[j]
      OBVIOUS
    <2>1. CASE k < place
      BY <1>1, <1>5, <2>1 DEF n
    <2>2. CASE k = place
      BY <1>5, <2>2
    <2>3. CASE place < k
      <3>1. k - 1 \in 1..n
        BY <1>1, <2>3
      <3> QED
        BY <1>1, <1>5, <2>3, <3>1
    <2> QED
      BY <1>1, <2>1, <2>2, <2>3
  <1> QED
    BY <1>1, <1>4, <1>10, <1>11 DEF more, n

LEMMA BuildKeepsCoreTypes ==
  ASSUME CoreInv, CoreTypes, NEW s, BuildSnapshot(s)
  PROVE  CoreTypes'
  <1> DEFINE new == [sequence |-> s, lines |-> linesAt(events, snapshots, s)]
             same == {k \in DOMAIN snapshots : snapshots[k].sequence = new.sequence}
             after == {k \in DOMAIN snapshots : snapshots[k].sequence > new.sequence}
             place == CHOOSE k \in after : \A j \in after : k <= j
             n == Len(snapshots)
  <1>1. s \in 1..HeadSequence /\ UNCHANGED <<events, diffed>> /\ snapshots' = WithSnapshot(new)
    BY DEF BuildSnapshot
  <1>2. HeadSequence \in Nat /\ HeadSequence <= MaxApplied /\ MaxApplied \in Nat
    BY CoreAssumption DEF CoreTypes, HeadSequence
  <1>3. new \in Snapshot /\ new.sequence = s
    <2>1. s \in 1..MaxApplied /\ s \in 0..HeadSequence
      BY <1>1, <1>2
    <2>2. linesAt(events, snapshots, s) \in Seq(LineText)
      BY <2>1, LinesAreText
    <2> QED
      BY <2>1, <2>2 DEF Snapshot
  <1> HIDE DEF new
  <1>4. snapshots \in Seq(Snapshot) /\ n \in Nat /\ DOMAIN snapshots = 1..n /\ Ascends(snapshots)
    BY DEF CoreTypes
  <1> HIDE DEF n
  <1>5. s \in Nat /\ \A k \in 1..n : snapshots[k].sequence \in Nat /\ snapshots[k].sequence <= HeadSequence
    <2>1. \A k \in DOMAIN snapshots : snapshots[k].sequence \in Nat
      BY <1>4, CheckpointsHaveSequences
    <2> QED
      BY <1>1, <1>2, <1>4, <2>1 DEF CoreTypes
  <1>6. /\ snapshots' \in Seq(Snapshot) /\ Ascends(snapshots')
        /\ \A k \in DOMAIN snapshots' : snapshots'[k] = new \/ \E j \in DOMAIN snapshots : snapshots'[k] = snapshots[j]
    <2>1. CASE same # {}
      <3>1. snapshots' = [k \in 1..n |-> IF k \in same THEN new ELSE snapshots[k]]
        BY <1>1, <1>4, <2>1 DEF WithSnapshot
      <3>2. \A k \in 1..n : k \in same <=> snapshots[k].sequence = new.sequence
        BY <1>4
      <3> HIDE DEF same
      <3>3. snapshots' \in [1..n -> Snapshot]
        BY <1>3, <1>4, <3>1
      <3>4. \A k \in 1..n : snapshots'[k].sequence = snapshots[k].sequence
        BY <3>1, <3>2
      <3>5. snapshots' \in Seq(Snapshot) /\ DOMAIN snapshots' = 1..n
        BY <1>4, <3>3
      <3>6. Ascends(snapshots')
        BY <1>4, <3>4, <3>5 DEF Ascends
      <3> QED
        BY <1>4, <3>1, <3>5, <3>6
    <2>2. CASE same = {} /\ after # {}
      <3>1. snapshots' = InsertAt(snapshots, place, new)
        BY <1>1, <2>2 DEF WithSnapshot
      <3>2. place \in after /\ \A j \in after : place <= j
        <4>1. after \in SUBSET Nat
          BY <1>4
        <4>2. \E k \in after : \A j \in after : k <= j
          BY <2>2, <4>1, Replaying!NatMin
        <4> QED
          BY <4>2
      <3> HIDE DEF place
      <3>3. place \in 1..n /\ snapshots[place].sequence > new.sequence
        BY <1>4, <3>2
      <3>4. \A j \in 1..n : snapshots[j].sequence > new.sequence => place <= j
        BY <1>4, <3>2
      <3>5. \A j \in 1..n : snapshots[j].sequence # new.sequence
        BY <1>4, <2>2
      <3>6. place \in 1..Len(snapshots) /\ new \in Snapshot
        BY <1>3, <3>3 DEF n
      <3>7. \A j \in 1..Len(snapshots) : snapshots[j].sequence > new.sequence => place <= j
        BY <3>4 DEF n
      <3>8. \A j \in 1..Len(snapshots) : snapshots[j].sequence # new.sequence
        BY <3>5 DEF n
      <3>9. /\ InsertAt(snapshots, place, new) \in Seq(Snapshot)
            /\ Ascends(InsertAt(snapshots, place, new))
            /\ \A k \in DOMAIN InsertAt(snapshots, place, new) :
                 InsertAt(snapshots, place, new)[k] = new
                 \/ \E j \in DOMAIN snapshots : InsertAt(snapshots, place, new)[k] = snapshots[j]
        BY <1>4, <3>3, <3>6, <3>7, <3>8, PlacedInOrder
      <3> QED
        BY <3>1, <3>9
    <2>3. CASE same = {} /\ after = {}
      <3>1. snapshots' = Append(snapshots, new)
        BY <1>1, <2>3 DEF WithSnapshot
      <3>2. /\ snapshots' \in Seq(Snapshot) /\ DOMAIN snapshots' = 1..(n + 1)
            /\ \A k \in 1..(n + 1) : snapshots'[k] = IF k = n + 1 THEN new ELSE snapshots[k]
        BY <1>3, <1>4, <3>1 DEF n
      <3>3. \A j \in 1..n : snapshots[j].sequence < new.sequence
        <4>1. \A j \in 1..n : ~ (snapshots[j].sequence > new.sequence) /\ snapshots[j].sequence # new.sequence
          BY <1>4, <2>3
        <4> QED
          BY <1>3, <1>5, <4>1
      <3>4. Ascends(snapshots')
        <4> SUFFICES ASSUME NEW i \in 1..(n + 1), NEW j \in 1..(n + 1), i < j
                     PROVE  snapshots'[i].sequence < snapshots'[j].sequence
          BY <3>2 DEF Ascends
        <4>1. i \in 1..n /\ i # n + 1
          BY <1>4
        <4>2. CASE j = n + 1
          BY <3>2, <3>3, <4>1, <4>2
        <4>3. CASE j # n + 1
          <5>1. j \in 1..n
            BY <1>4, <4>3
          <5>2. snapshots[i].sequence < snapshots[j].sequence
            BY <1>4, <4>1, <5>1 DEF Ascends
          <5> QED
            BY <3>2, <4>1, <4>3, <5>2
        <4> QED
          BY <4>2, <4>3
      <3>5. \A k \in 1..(n + 1) : k # n + 1 => k \in 1..n
        BY <1>4
      <3> QED
        BY <1>4, <3>2, <3>4, <3>5
    <2> QED
      BY <2>1, <2>2, <2>3
  <1>7. HeadSequence' = HeadSequence
    BY <1>1 DEF HeadSequence
  <1>8. \A k \in DOMAIN snapshots' : snapshots'[k].sequence <= HeadSequence'
    BY <1>1, <1>2, <1>3, <1>4, <1>5, <1>6, <1>7
  <1> QED
    BY <1>1, <1>2, <1>6, <1>7, <1>8 DEF CoreTypes

LEMMA CoreTypesStep ==
  ASSUME \A p \in RawPayloads : NeverPanics(p), CoreInv, CoreTypes, [CoreNext]_coreVars
  PROVE  CoreTypes'
  <1>1. CASE ApplyRaw
    <2>1. PICK s \in 1..MaxApplied, p \in RawPayloads : ApplyEvent(s, p) /\ diffed' = NotADiff
      BY <1>1 DEF ApplyRaw
    <2>2. p \in Harmless
      BY CoreAssumption DEF Harmless
    <2> QED
      BY <2>1, <2>2, ApplyKeepsCoreTypes
  <1>2. CASE ApplyDiff
    <2>1. PICK d \in Targets : /\ ApplyEvent(HeadSequence + 1, DiffLines(SplitLines(Content), d))
                               /\ diffed' = <<d>>
      BY <1>2 DEF ApplyDiff
    <2>2. HeadSequence \in 0..HeadSequence
      BY DEF CoreTypes, HeadSequence
    <2>3. linesAt(events, snapshots, HeadSequence) \in Seq(LineText)
      BY <2>2, LinesAreText
    <2>4. Content \in Seq(LineText)
      <3>1. << >> \in Seq(LineText)
        OBVIOUS
      <3> QED
        BY <2>3, <3>1 DEF Content, joinLines, EmptyString
    <2>5. d \in Seq(LineText)
      BY CoreAssumption
    <2>6. DiffLines(SplitLines(Content), d) \in Harmless
      BY <2>4, <2>5, DiffsNeverPanic DEF Harmless, NeverPanics, SplitLines
    <2> QED
      BY <2>1, <2>6, ApplyKeepsCoreTypes
  <1>3. CASE \E s \in 1..MaxApplied : BuildSnapshot(s)
    BY <1>3, BuildKeepsCoreTypes
  <1>4. CASE UNCHANGED coreVars
    BY <1>4 DEF CoreTypes, coreVars, HeadSequence, Ascends
  <1> QED
    BY <1>1, <1>2, <1>3, <1>4 DEF CoreNext

(* The note object keeps its types (CoreTypeOK): the events are entry      *)
(* lists, the snapshots are texts of versions there are, in ascending      *)
(* order wherever AddSnapshot puts a new one, as long as no raw event      *)
(* makes a replay panic.                                                   *)
THEOREM CoreIsTyped ==
  ASSUME \A p \in RawPayloads : NeverPanics(p)
  PROVE  CoreSpec => []CoreTypeOK
  <1>1. CoreTypes => CoreTypeOK
    <2> SUFFICES ASSUME CoreTypes PROVE CoreTypeOK
      OBVIOUS
    <2>1. Harmless \subseteq Seq(LineEntry)
      BY DEF Harmless
    <2>2. events \in Seq(Seq(LineEntry))
      BY <2>1 DEF CoreTypes
    <2> QED
      BY <2>2 DEF CoreTypes, CoreTypeOK, Ascends
  <1>2. CoreInv /\ CoreTypes /\ [CoreNext]_coreVars => CoreTypes'
    BY CoreTypesStep
  <1> QED
    BY <1>1, <1>2, CoreInvInit, CoreInvNext, CoreTypesInit, PTL DEF CoreSpec
=============================================================================
