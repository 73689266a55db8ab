------------------------------ MODULE CoreNote ------------------------------
(***************************************************************************)
(* core.Note: one note in memory, as the memory provider, the .notx parser *)
(* and every replaying client hold it.  The event stream is append-only;   *)
(* content at any sequence is the replay of the stream, started from the   *)
(* nearest snapshot when there is one.                                     *)
(***************************************************************************)
EXTENDS NoteContent, FiniteSets

CONSTANTS RawPayloads,  \* entry lists raw callers append
          Targets,      \* documents an editor wants the note to become
          MaxApplied    \* bound: longest event stream explored

ASSUME CoreAssumption ==
  /\ RawPayloads \subseteq Seq(LineEntry) /\ Targets \subseteq Seq(LineText)
  /\ MaxApplied \in Nat \ {0}

VARIABLES events,      \* the entry lists of the applied events, by sequence
          snapshots,   \* the checkpoints, in the order of the slice
          diffed       \* observation: <<d>> when the last event is the diff
                       \* made to turn the note into document d

coreVars == <<events, snapshots, diffed>>

NotADiff == << >>

HeadSequence == Len(events)

Snapshot == [sequence : 1..MaxApplied, lines : Seq(LineText)]

CoreTypeOK ==
  /\ events \in Seq(Seq(LineEntry))
  /\ snapshots \in Seq(Snapshot)
  /\ \A k \in DOMAIN snapshots : snapshots[k].sequence <= HeadSequence
  /\ \A j, k \in DOMAIN snapshots : j < k => snapshots[j].sequence < snapshots[k].sequence
  /\ diffed \in {NotADiff} \cup {<<d>> : d \in Targets}

-----------------------------------------------------------------------------
(* The last checkpoint before the first one that is beyond target.         *)
nearestSnapshot(snaps, target) ==
  LET usable == {k \in DOMAIN snaps : \A j \in 1..k : snaps[j].sequence <= target}
  IN  IF usable = {} THEN [sequence |-> 0, lines |-> << >>]
      ELSE snaps[Cardinality(usable)]

(* Faulty variant: the event the checkpoint stands for is applied again.   *)
linesFromSnapshotEvent(stream, snaps, target) ==
  LET start == nearestSnapshot(snaps, target)
  IN  FoldLeft(applyEvent, start.lines,
               SubSeq(stream, IF start.sequence = 0 THEN 1 ELSE start.sequence, target))

linesAt(stream, snaps, target) ==
  LET start == nearestSnapshot(snaps, target)
  IN  FoldLeft(applyEvent, start.lines, SubSeq(stream, start.sequence + 1, target))

Content == joinLines(linesAt(events, snapshots, HeadSequence))

(* Sorted insert; a checkpoint of the same sequence is replaced.           *)
WithSnapshot(s) ==
  LET same == {k \in DOMAIN snapshots : snapshots[k].sequence = s.sequence}
      after == {k \in DOMAIN snapshots : snapshots[k].sequence > s.sequence}
  IN  IF same # {}
      THEN [k \in DOMAIN snapshots |-> IF k \in same THEN s ELSE snapshots[k]]
      ELSE IF after # {}
      THEN InsertAt(snapshots, CHOOSE k \in after : \A j \in after : k <= j, s)
      ELSE Append(snapshots, s)

-----------------------------------------------------------------------------
CoreInit == events = << >> /\ snapshots = << >> /\ diffed = NotADiff

(* Note.ApplyEvent with the next sequence; any other sequence, an empty    *)
(* entry list or a line number below 1 is refused and changes nothing.     *)
InTurn(sequence, entries) ==
  /\ sequence = HeadSequence + 1
  /\ entries # << >>
  /\ \A k \in DOMAIN entries : entries[k].line >= 1

ApplyEvent(sequence, entries) ==
  /\ HeadSequence < MaxApplied
  /\ InTurn(sequence, entries)
  /\ events' = Append(events, entries)
  /\ UNCHANGED snapshots

ApplyRaw == \E s \in 1..MaxApplied, p \in RawPayloads :
              ApplyEvent(s, p) /\ diffed' = NotADiff

(* What service.ReplaceContent hands to the note: the diff between its     *)
(* content and the wanted document.                                        *)
ApplyDiff == \E d \in Targets :
               /\ ApplyEvent(HeadSequence + 1, DiffLines(SplitLines(Content), d))
               /\ diffed' = <<d>>

BuildSnapshot(sequence) ==
  /\ sequence \in 1..HeadSequence
  /\ snapshots' = WithSnapshot([sequence |-> sequence, lines |-> linesAt(events, snapshots, sequence)])
  /\ UNCHANGED <<events, diffed>>

CoreNext == ApplyRaw \/ ApplyDiff \/ \E s \in 1..MaxApplied : BuildSnapshot(s)

CoreSpec == CoreInit /\ [][CoreNext]_coreVars

-----------------------------------------------------------------------------
(* The event stream is the source of truth: materialising any version      *)
(* through the checkpoints gives what replaying the stream from its first  *)
(* event gives (linesAt, nearestSnapshot; core/snapshot.go:8-11).          *)
ReplayFromScratch(target) == FoldLeft(applyEvent, << >>, SubSeq(events, 1, target))

SnapshotsAreOnlyAnOptimisation ==
  \A t \in 0..HeadSequence : linesAt(events, snapshots, t) = ReplayFromScratch(t)

(* The promise of DiffLines: its entries can be fed directly into an event *)
(* and replaying that event gives the wanted document.                     *)
DiffReplaysToTarget == diffed # NotADiff => Content = joinLines(diffed[1])
=============================================================================
