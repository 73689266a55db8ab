--------------------------- MODULE BackgroundProofs ---------------------------
(***************************************************************************)
(* Proofs about the goroutines that derive rows from note texts, each in   *)
(* its own specification: the paragraph runner, the metadata inference     *)
(* runner, the note analysis runner and the scorer, for every number of    *)
(* notes, rows, edits, events, days and faults, every cap and every        *)
(* capacity.  The last theorems are about all four as MCBackground has     *)
(* them.                                                                   *)
(***************************************************************************)
EXTENDS MCBackground, FiniteSetTheorems, TLAPS

-----------------------------------------------------------------------------
(* The paragraph runner.                                                   *)
(* The text is never behind the head, and an append in progress is one     *)
(* ahead of it.                                                            *)
HeadsAreSane ==
  /\ \A n \in Notes : head[n] <= written[n] /\ paraHead[n] <= head[n]
  /\ appending # None =>
       head[appending] < MaxSeq /\ written[appending] = head[appending] + 1

(* A polled row is behind the head it was polled with, and no note is      *)
(* polled twice or polled while it is in hand.                             *)
BatchIsSane ==
  /\ \A k \in 1..Len(batch) :
       /\ paraHead[batch[k].note] < batch[k].head
       /\ batch[k].head <= head[batch[k].note]
       /\ batch[k].note # work.note
  /\ \A j, k \in 1..Len(batch) : j # k => batch[j].note # batch[k].note

(* The note in hand is behind, and its text at least as new as its head.   *)
WorkIsSane ==
  /\ work.at = "idle" => work = Idle
  /\ work.at # "idle" =>
       /\ work.note \in Notes
       /\ paraHead[work.note] < work.head
       /\ work.head <= head[work.note]
       /\ work.head <= work.of
       /\ work.of <= written[work.note]

ParagraphsAreSane == ParagraphTypeOK /\ HeadsAreSane /\ BatchIsSane /\ WorkIsSane

-----------------------------------------------------------------------------
LEMMA ParagraphsSaneInit == ParagraphInit => ParagraphsAreSane
  <1> SUFFICES ASSUME ParagraphInit PROVE ParagraphsAreSane
    OBVIOUS
  <1> USE ParagraphNameAssumption, ParagraphBoundAssumption DEF ParagraphInit
  <1>1. ParagraphTypeOK
    BY DEF ParagraphTypeOK, Seqs, Idle
  <1>2. HeadsAreSane /\ BatchIsSane /\ WorkIsSane
    BY DEF HeadsAreSane, BatchIsSane, WorkIsSane, Idle
  <1> QED
    BY <1>1, <1>2 DEF ParagraphsAreSane

LEMMA BatchRows ==
  ASSUME ParagraphTypeOK, NEW k \in 1..Len(batch)
  PROVE  batch[k] \in [note : Notes, head : Seqs]
  <1> DEFINE Pair == [note : Notes, head : Seqs]
  <1>1. batch \in Seq(Pair)
    BY DEF ParagraphTypeOK
  <1> HIDE DEF Pair
  <1>2. batch[k] \in Pair
    BY <1>1
  <1> QED
    BY <1>2 DEF Pair

(* What the runner knows survives a step that leaves it alone, lets heads  *)
(* and texts grow and changes the column only to -1.                       *)
LEMMA RunnerUntouched ==
  ASSUME ParagraphsAreSane, ParagraphTypeOK', HeadsAreSane', UNCHANGED <<batch, work>>,
         \A n \in Notes : head'[n] >= head[n] /\ written'[n] >= written[n],
         \A n \in Notes : paraHead'[n] = paraHead[n] \/ paraHead'[n] = -1
  PROVE  ParagraphsAreSane'
  <1> USE DEF ParagraphsAreSane
  <1>0. \A n \in Notes : /\ head[n] \in Nat /\ head'[n] \in Nat /\ paraHead[n] \in Int
                         /\ written[n] \in Nat /\ written'[n] \in Nat
    BY ParagraphBoundAssumption DEF ParagraphTypeOK, Seqs
  <1>1. ASSUME NEW k \in 1..Len(batch)
        PROVE  /\ paraHead'[batch[k].note] < batch[k].head
               /\ batch[k].head <= head'[batch[k].note]
               /\ batch[k].note # work.note
    <2>1. batch[k].note \in Notes /\ batch[k].head \in Nat
      BY BatchRows, ParagraphBoundAssumption DEF Seqs
    <2>2. /\ paraHead[batch[k].note] < batch[k].head
          /\ batch[k].head <= head[batch[k].note]
          /\ batch[k].note # work.note
      BY DEF BatchIsSane
    <2> QED
      BY <1>0, <2>1, <2>2
  <1>2. BatchIsSane'
    BY <1>1 DEF BatchIsSane
  <1>3. work.head \in Nat /\ work.of \in Nat
    BY ParagraphBoundAssumption DEF ParagraphTypeOK, Seqs
  <1>4. WorkIsSane'
    BY <1>0, <1>3 DEF WorkIsSane
  <1> QED
    BY <1>2, <1>4

(* Requests leave the runner alone; heads and texts only grow, and the     *)
(* column only changes to -1.                                              *)
LEMMA RequestKeepsSane == ParagraphsAreSane /\ Request => ParagraphsAreSane'
  <1> SUFFICES ASSUME ParagraphsAreSane, Request PROVE ParagraphsAreSane'
    OBVIOUS
  <1> USE ParagraphNameAssumption, ParagraphBoundAssumption DEF ParagraphsAreSane
  <1>1. ParagraphTypeOK' /\ HeadsAreSane'
    <2>1. CASE \E n \in Notes : StoreContent(n)
      <3>1. PICK n \in Notes : StoreContent(n)
        BY <2>1
      <3>2. written[n] + 1 \in Seqs /\ head[n] + 1 \in Seqs
        BY <3>1 DEF StoreContent, ParagraphTypeOK, Seqs
      <3>3. ParagraphTypeOK'
        BY <3>1, <3>2 DEF StoreContent, ParagraphTypeOK, graphVars, runnerVars
      <3>4. HeadsAreSane'
        BY <3>1, <3>2 DEF StoreContent, NoAppendRuns, ParagraphTypeOK, HeadsAreSane, Seqs,
                          graphVars, runnerVars
      <3> QED
        BY <3>3, <3>4
    <2>2. CASE \E n \in Notes : SetDeleted(n)
      BY <2>2 DEF SetDeleted, NoAppendRuns, ParagraphTypeOK, HeadsAreSane, graphVars, runnerVars
    <2>3. CASE StoreHead
      <3>1. head[appending] + 1 \in Seqs /\ appending \in Notes
        BY <2>3 DEF StoreHead, ParagraphTypeOK, HeadsAreSane, Seqs
      <3>2. ParagraphTypeOK'
        BY <2>3, <3>1 DEF StoreHead, ParagraphTypeOK, graphVars, runnerVars
      <3>3. SUFFICES ASSUME NEW n \in Notes
                     PROVE  head'[n] <= written'[n] /\ paraHead'[n] <= head'[n]
        BY <2>3, <3>2 DEF StoreHead, HeadsAreSane
      <3>4. /\ head[n] \in Int /\ written[n] \in Int /\ paraHead[n] \in Int
            /\ head[n] <= written[n] /\ paraHead[n] <= head[n]
        BY DEF ParagraphTypeOK, HeadsAreSane, Seqs
      <3>5. head'[n] = IF n = appending THEN head[n] + 1 ELSE head[n]
        BY <2>3, <3>1 DEF StoreHead, ParagraphTypeOK
      <3>6. written'[n] = written[n] /\ paraHead'[n] = paraHead[n]
        BY <2>3 DEF StoreHead, graphVars
      <3>7. n = appending => written[n] = head[n] + 1
        BY <2>3 DEF StoreHead, HeadsAreSane
      <3> QED
        BY <3>4, <3>5, <3>6, <3>7
    <2>4. CASE AppendFails
      BY <2>4 DEF AppendFails, Fault, ParagraphTypeOK, HeadsAreSane, graphVars, runnerVars
    <2>5. CASE \E done \in 0..3 : ResetGraph(done)
      <3>1. PICK done \in 0..3 : ResetGraph(done)
        BY <2>5
      <3>2. resets' \in 0..MaxResets /\ faults' \in 0..MaxParagraphFaults
        BY <3>1 DEF ResetGraph, Fault, ParagraphTypeOK
      <3>3. hollow' \in SUBSET Notes
        BY <3>1 DEF ResetGraph, ParagraphTypeOK
      <3>4. /\ paraHead' \in [Notes -> Seqs \cup {-1}]
            /\ paragraphs' \in [Notes -> [run : Nat, of : Seqs, whole : BOOLEAN] \cup {None}]
            /\ relations' \in [Notes -> Nat \cup {None}]
        BY <3>1 DEF ResetGraph, ParagraphTypeOK
      <3>5. ParagraphTypeOK'
        BY <3>1, <3>2, <3>3, <3>4 DEF ResetGraph, ParagraphTypeOK, noteVars, runnerVars
      <3>6. HeadsAreSane'
        BY <3>1 DEF ResetGraph, ParagraphTypeOK, HeadsAreSane, Seqs, noteVars
      <3> QED
        BY <3>5, <3>6
    <2> QED
      BY <2>1, <2>2, <2>3, <2>4, <2>5 DEF Request
  <1>2. UNCHANGED <<batch, work>>
    BY DEF Request, StoreContent, SetDeleted, StoreHead, AppendFails, ResetGraph, runnerVars
  <1>3. \A n \in Notes : head'[n] >= head[n] /\ written'[n] >= written[n]
    <2>1. CASE StoreHead
      BY <2>1 DEF StoreHead, ParagraphTypeOK, Seqs
    <2>2. CASE \E n \in Notes : StoreContent(n)
      BY <2>2 DEF StoreContent, ParagraphTypeOK, Seqs
    <2>3. CASE UNCHANGED <<head, written>>
      BY <2>3 DEF ParagraphTypeOK, Seqs
    <2> QED
      BY <2>1, <2>2, <2>3 DEF Request, SetDeleted, AppendFails, ResetGraph, noteVars
  <1>4. \A n \in Notes : paraHead'[n] = paraHead[n] \/ paraHead'[n] = -1
    BY DEF Request, StoreContent, SetDeleted, StoreHead, AppendFails, ResetGraph, graphVars, ParagraphTypeOK
  <1>5. ParagraphsAreSane'
    BY <1>1, <1>2, <1>3, <1>4, RunnerUntouched
  <1> QED
    BY <1>5

(* A poll takes distinct notes of the queue, each with its present head.   *)
LEMMA PollIsSane ==
  ASSUME ParagraphTypeOK, batch' \in Polls
  PROVE  /\ batch' \in Seq([note : Notes, head : Seqs])
         /\ \A k \in 1..Len(batch') : /\ Needs(batch'[k].note)
                                      /\ batch'[k].note \in Notes
                                      /\ batch'[k].head = head[batch'[k].note]
         /\ \A j, k \in 1..Len(batch') : j # k => batch'[j].note # batch'[k].note
  <1> DEFINE size == IF Cardinality(Unprocessed) < BatchLimit
                     THEN Cardinality(Unprocessed) ELSE BatchLimit
  <1>1. size \in Nat
    <2>1. IsFiniteSet(Unprocessed)
      BY ParagraphNameAssumption, FS_Subset DEF Unprocessed
    <2> QED
      BY <2>1, FS_CardinalityType, ParagraphBoundAssumption
  <1>2. PICK order \in [1..size -> Unprocessed] :
          /\ \A j, k \in 1..size : order[j] = order[k] => j = k
          /\ batch' = [k \in 1..size |-> [note |-> order[k], head |-> head[order[k]]]]
    BY Zenon DEF Polls
  <1> HIDE DEF size
  <1>3. \A k \in 1..size : /\ order[k] \in Notes /\ Needs(order[k])
                           /\ head[order[k]] \in Seqs
    BY <1>2 DEF Unprocessed, ParagraphTypeOK
  <1>4. batch' \in Seq([note : Notes, head : Seqs]) /\ Len(batch') = size
    BY <1>1, <1>2, <1>3
  <1> QED
    BY <1>2, <1>3, <1>4

(* The runner puts the note in hand aside or moves on with it, and what it *)
(* has yet to take is unchanged.                                           *)
LEMMA WorkGoesOn ==
  ASSUME ParagraphsAreSane, ParagraphTypeOK', UNCHANGED <<head, written, appending, paraHead, batch>>,
         work.at # "idle",
         \/ work' = Idle
         \/ \E at \in {"delete", "insert", "relate", "mark"} : work' = [work EXCEPT !.at = at]
  PROVE  ParagraphsAreSane'
  <1> USE DEF ParagraphsAreSane
  <1>1. HeadsAreSane'
    BY DEF HeadsAreSane
  <1>2. \A k \in 1..Len(batch) : batch[k].note # None /\ batch[k].note # work.note
    BY BatchRows, ParagraphNameAssumption DEF BatchIsSane
  <1>3. work'.note = work.note \/ work'.note = None
    BY DEF Idle, ParagraphTypeOK
  <1>4. BatchIsSane'
    BY <1>2, <1>3 DEF BatchIsSane
  <1>5. WorkIsSane'
    BY DEF WorkIsSane, Idle, ParagraphTypeOK
  <1> QED
    BY <1>1, <1>4, <1>5

LEMMA RunnerKeepsSane == ParagraphsAreSane /\ (Runner \/ NoteFails \/ RestartParagraphs) => ParagraphsAreSane'
  <1> SUFFICES ASSUME ParagraphsAreSane, Runner \/ NoteFails \/ RestartParagraphs PROVE ParagraphsAreSane'
    OBVIOUS
  <1> USE ParagraphNameAssumption, ParagraphBoundAssumption
  <1>1. CASE Poll
    <2> USE DEF ParagraphsAreSane
    <2>1. work = Idle /\ work' = Idle /\ UNCHANGED <<noteVars, graphVars, runs, resets, faults, hollow>>
      BY <1>1 DEF Poll
    <2>2. ParagraphTypeOK
      OBVIOUS
    <2>3. /\ batch' \in Seq([note : Notes, head : Seqs])
          /\ \A k \in 1..Len(batch') : /\ Needs(batch'[k].note)
                                       /\ batch'[k].note \in Notes
                                       /\ batch'[k].head = head[batch'[k].note]
          /\ \A j, k \in 1..Len(batch') : j # k => batch'[j].note # batch'[k].note
      BY <1>1, <2>2, PollIsSane DEF Poll
    <2>4. ParagraphTypeOK' /\ HeadsAreSane' /\ WorkIsSane'
      BY <2>1, <2>3 DEF ParagraphTypeOK, HeadsAreSane, WorkIsSane, noteVars, graphVars
    <2>5. ASSUME NEW k \in 1..Len(batch')
          PROVE  /\ paraHead[batch'[k].note] < batch'[k].head
                 /\ batch'[k].head <= head[batch'[k].note]
                 /\ batch'[k].note # None
      <3>1. /\ Needs(batch'[k].note)
            /\ batch'[k].note \in Notes
            /\ batch'[k].head = head[batch'[k].note]
        BY <2>3, Zenon
      <3>2. head[batch'[k].note] \in Nat
        BY <3>1 DEF ParagraphTypeOK, Seqs
      <3> QED
        BY <3>1, <3>2 DEF Needs
    <2>6. BatchIsSane'
      BY <2>1, <2>3, <2>5 DEF BatchIsSane, Idle, noteVars, graphVars
    <2> QED
      BY <2>4, <2>6
  <1>2. CASE TakeNote
    <2> USE DEF ParagraphsAreSane
    <2> DEFINE n == Head(batch).note
    <2>1. batch # << >> /\ batch \in Seq([note : Notes, head : Seqs])
      BY <1>2 DEF TakeNote, ParagraphTypeOK
    <2>2. Head(batch) = batch[1] /\ 1 \in 1..Len(batch)
      BY <2>1
    <2>3. batch[1] \in [note : Notes, head : Seqs]
      BY <2>2, BatchRows
    <2>4. /\ batch' \in Seq([note : Notes, head : Seqs])
          /\ Len(batch') = Len(batch) - 1
          /\ \A k \in 1..Len(batch') : batch'[k] = batch[k + 1] /\ k + 1 \in 1..Len(batch)
      BY <1>2, <2>1 DEF TakeNote
    <2>5. work' = [at |-> IF written[n] \in blank[n] THEN "mark" ELSE "delete",
                   note |-> n, head |-> Head(batch).head, of |-> written[n]]
      BY <1>2 DEF TakeNote
    <2>6. UNCHANGED <<noteVars, graphVars, runs, resets, faults, hollow>>
      BY <1>2 DEF TakeNote
    <2>7. n \in Notes /\ written[n] \in Seqs /\ Head(batch).head \in Seqs
      BY <2>2, <2>3 DEF ParagraphTypeOK
    <2>8. ParagraphTypeOK'
      BY <2>4, <2>5, <2>6, <2>7 DEF ParagraphTypeOK, noteVars, graphVars
    <2>9. /\ paraHead[n] < Head(batch).head
          /\ Head(batch).head <= head[n]
          /\ head[n] <= written[n]
      BY <2>2, <2>7 DEF BatchIsSane, HeadsAreSane
    <2>10. HeadsAreSane'
      BY <2>6 DEF HeadsAreSane, noteVars, graphVars
    <2>11. WorkIsSane'
      BY <2>5, <2>6, <2>7, <2>9 DEF WorkIsSane, noteVars, graphVars, ParagraphTypeOK, Seqs
    <2>12. work'.note = batch[1].note
      BY <2>2, <2>5
    <2>13. \A k \in 1..Len(batch') : batch'[k].note # work'.note
      <3> SUFFICES ASSUME NEW k \in 1..Len(batch') PROVE batch'[k].note # batch[1].note
        BY <2>12
      <3>1. batch'[k] = batch[k + 1] /\ k + 1 \in 1..Len(batch) /\ k + 1 # 1
        BY <2>4
      <3> QED
        BY <2>2, <3>1 DEF BatchIsSane
    <2>14. ASSUME NEW k \in 1..Len(batch')
           PROVE  /\ paraHead[batch'[k].note] < batch'[k].head
                  /\ batch'[k].head <= head[batch'[k].note]
                  /\ batch'[k].note # work'.note
      BY <2>4, <2>13 DEF BatchIsSane
    <2>15. ASSUME NEW j \in 1..Len(batch'), NEW k \in 1..Len(batch'), j # k
           PROVE  batch'[j].note # batch'[k].note
      <3>1. /\ batch'[j] = batch[j + 1] /\ j + 1 \in 1..Len(batch)
            /\ batch'[k] = batch[k + 1] /\ k + 1 \in 1..Len(batch)
            /\ j + 1 # k + 1
        BY <2>4, <2>15
      <3> QED
        BY <3>1 DEF BatchIsSane
    <2>16. BatchIsSane'
      BY <2>6, <2>14, <2>15 DEF BatchIsSane, noteVars, graphVars
    <2> QED
      BY <2>8, <2>10, <2>11, <2>16
  <1>3. CASE DeleteOld \/ InsertParagraphs \/ InsertRelations \/ NoteFails
    <2>1. work.at # "idle"
      BY <1>3 DEF DeleteOld, InsertParagraphs, InsertRelations, NoteFails, Does,
                  ParagraphsAreSane, WorkIsSane
    <2>2. UNCHANGED <<noteVars, paraHead, batch>>
      BY <1>3 DEF DeleteOld, InsertParagraphs, InsertRelations, NoteFails
    <2>3. \/ work' = Idle
          \/ \E at \in {"delete", "insert", "relate", "mark"} : work' = [work EXCEPT !.at = at]
      BY <1>3 DEF DeleteOld, InsertParagraphs, InsertRelations, NoteFails, Goes
    <2>4. runs' \in Nat /\ faults' \in 0..MaxParagraphFaults /\ resets' \in 0..MaxResets /\ hollow' \subseteq Notes
      <3>1. runs \in Nat /\ faults \in 0..MaxParagraphFaults /\ resets \in 0..MaxResets /\ hollow \subseteq Notes
        BY DEF ParagraphsAreSane, ParagraphTypeOK
      <3>2. runs' \in {runs, runs + 1} /\ faults' \in {faults, faults + 1} \cap 0..MaxParagraphFaults
        <4>1. CASE NoteFails
          <5>1. runs' \in {runs, runs + 1}
            BY <4>1 DEF NoteFails
          <5>2. faults < MaxParagraphFaults /\ faults' = faults + 1
            BY <4>1 DEF NoteFails, Fault
          <5> QED
            BY <3>1, <5>1, <5>2
        <4>2. CASE DeleteOld \/ InsertParagraphs \/ InsertRelations
          BY <3>1, <4>2 DEF DeleteOld, InsertParagraphs, InsertRelations
        <4> QED
          BY <1>3, <4>1, <4>2
      <3>3. resets' = resets /\ hollow' \subseteq hollow
        BY <1>3 DEF DeleteOld, InsertParagraphs, InsertRelations, NoteFails
      <3> QED
        BY <3>1, <3>2, <3>3
    <2>5. work' \in [at : {"idle", "delete", "insert", "relate", "mark"},
                     note : Notes \cup {None}, head : Seqs, of : Seqs]
      <3>1. work \in [at : {"idle", "delete", "insert", "relate", "mark"},
                      note : Notes \cup {None}, head : Seqs, of : Seqs]
        BY DEF ParagraphsAreSane, ParagraphTypeOK
      <3>2. CASE work' = Idle
        BY <3>2 DEF Idle, Seqs
      <3>3. CASE \E at \in {"delete", "insert", "relate", "mark"} : work' = [work EXCEPT !.at = at]
        BY <3>1, <3>3
      <3> QED
        BY <2>3, <3>2, <3>3
    <2>6. /\ paragraphs' \in [Notes -> [run : Nat, of : Seqs, whole : BOOLEAN] \cup {None}]
          /\ relations' \in [Notes -> Nat \cup {None}]
      <3>1. CASE DeleteOld
        BY <3>1 DEF DeleteOld, ParagraphsAreSane, ParagraphTypeOK
      <3>2. CASE InsertParagraphs
        <4>1. Rows(runs + 1, TRUE) \in [run : Nat, of : Seqs, whole : BOOLEAN]
          BY DEF Rows, ParagraphsAreSane, ParagraphTypeOK
        <4> QED
          BY <3>2, <4>1 DEF InsertParagraphs, ParagraphsAreSane, ParagraphTypeOK
      <3>3. CASE InsertRelations
        BY <3>3 DEF InsertRelations, ParagraphsAreSane, ParagraphTypeOK
      <3>4. CASE NoteFails
        <4>1. Rows(runs + 1, FALSE) \in [run : Nat, of : Seqs, whole : BOOLEAN]
          BY DEF Rows, ParagraphsAreSane, ParagraphTypeOK
        <4>2. runs \in Nat /\ relations \in [Notes -> Nat \cup {None}]
          BY DEF ParagraphsAreSane, ParagraphTypeOK
        <4>3. relations' \in [Notes -> Nat \cup {None}]
          BY <3>4, <4>2 DEF NoteFails
        <4> DEFINE Row == [run : Nat, of : Seqs, whole : BOOLEAN]
        <4>4. paragraphs \in [Notes -> Row \cup {None}]
          BY DEF ParagraphsAreSane, ParagraphTypeOK
        <4>5. Rows(runs + 1, FALSE) \in Row
          BY <4>1
        <4>6. \/ paragraphs' = paragraphs
              \/ paragraphs' = [paragraphs EXCEPT ![work.note] = Rows(runs + 1, FALSE)]
          BY <3>4 DEF NoteFails
        <4> HIDE DEF Row
        <4>7. paragraphs' \in [Notes -> Row \cup {None}]
          BY <4>4, <4>5, <4>6
        <4> QED
          BY <4>3, <4>7 DEF Row
      <3> QED
        BY <1>3, <3>1, <3>2, <3>3, <3>4
    <2>7. ParagraphTypeOK'
      BY <2>2, <2>4, <2>5, <2>6 DEF ParagraphsAreSane, ParagraphTypeOK, noteVars
    <2> QED
      BY <2>1, <2>2, <2>3, <2>7, WorkGoesOn DEF noteVars
  <1>4. CASE MarkProcessed
    <2> USE DEF ParagraphsAreSane
    <2>1. /\ work.at = "mark" /\ work' = Idle
          /\ paraHead' = [paraHead EXCEPT ![work.note] = work.head]
          /\ UNCHANGED <<noteVars, paragraphs, relations, batch, runs, resets, faults, hollow>>
      BY <1>4 DEF MarkProcessed, Does
    <2>2. work.note \in Notes /\ work.head \in Seqs /\ work.head <= head[work.note]
      BY <2>1 DEF WorkIsSane, ParagraphTypeOK
    <2>3. ParagraphTypeOK' /\ HeadsAreSane' /\ WorkIsSane'
      BY <2>1, <2>2 DEF ParagraphTypeOK, HeadsAreSane, WorkIsSane, Idle, noteVars, Seqs
    <2>4. ASSUME NEW k \in 1..Len(batch)
          PROVE  paraHead'[batch[k].note] = paraHead[batch[k].note] /\ batch[k].note # None
      BY <2>1, BatchRows DEF BatchIsSane, ParagraphTypeOK
    <2>5. BatchIsSane'
      BY <2>1, <2>4 DEF BatchIsSane, noteVars, Idle
    <2> QED
      BY <2>3, <2>5
  <1>5. CASE RestartParagraphs
    BY <1>5 DEF RestartParagraphs, Fault, ParagraphsAreSane, ParagraphTypeOK, HeadsAreSane, BatchIsSane, WorkIsSane, Idle,
                graphVars, Seqs
  <1> QED
    BY <1>1, <1>2, <1>3, <1>4, <1>5 DEF Runner

LEMMA ParagraphsSaneNext == ParagraphsAreSane /\ [ParagraphNext]_paragraphVars => ParagraphsAreSane'
  <1> SUFFICES ASSUME ParagraphsAreSane, [ParagraphNext]_paragraphVars PROVE ParagraphsAreSane'
    OBVIOUS
  <1>1. CASE UNCHANGED paragraphVars
    BY <1>1 DEF paragraphVars, noteVars, graphVars, runnerVars, ParagraphsAreSane, ParagraphTypeOK, HeadsAreSane,
                BatchIsSane, WorkIsSane
  <1> QED
    BY <1>1, RequestKeepsSane, RunnerKeepsSane DEF ParagraphNext

LEMMA ParagraphsAlwaysSane == ParagraphSpec => []ParagraphsAreSane
  BY ParagraphsSaneInit, ParagraphsSaneNext, PTL DEF ParagraphSpec

(* Type correctness of every reachable state of the queue and the runner.  *)
THEOREM ParagraphsAreTyped == ParagraphSpec => []ParagraphTypeOK
  <1>1. ParagraphsAreSane => ParagraphTypeOK
    BY DEF ParagraphsAreSane
  <1> QED
    BY ParagraphsAlwaysSane, <1>1, PTL

(* No note is ever processed "in the future" (MarkProcessed against        *)
(* AppendEvent).                                                           *)
THEOREM ColumnNeverAhead == ParagraphSpec => []NeverInTheFuture
  <1>1. ParagraphsAreSane => NeverInTheFuture
    BY DEF ParagraphsAreSane, HeadsAreSane, NeverInTheFuture
  <1> QED
    BY ParagraphsAlwaysSane, <1>1, PTL

-----------------------------------------------------------------------------
(* What a run knows of the rows of the note in hand, unless a rebuild took *)
(* them away.                                                              *)
RowsOfTheNoteInHand ==
  /\ work.at = "insert" => relations[work.note] = None
  /\ work.at = "relate" /\ work.note \notin hollow =>
       paragraphs[work.note] = Rows(runs, TRUE)
  /\ work.at = "mark" /\ work.note \notin hollow =>
       work.of \in blank[work.note] \/ Shows(work.note, work.of)

RowsAreSane == RelationsResolve /\ QueueRevealsChanges /\ RowsOfTheNoteInHand

ParagraphInv == ParagraphsAreSane /\ RowsAreSane

LEMMA RowsInit == ParagraphInit => RowsAreSane
  BY ParagraphNameAssumption DEF ParagraphInit, RowsAreSane, RelationsResolve, QueueRevealsChanges,
     UpToDate, RowsOfTheNoteInHand, Idle

(* A step that leaves the rows and the column alone and only adds versions *)
(* of the text.                                                            *)
LEMMA TextGrows ==
  ASSUME ParagraphInv, NEW n \in Notes, paragraphs' = paragraphs, UNCHANGED <<head, paraHead>>,
         UpToDate(n), written'[n] \in Nat, written'[n] >= written[n],
         blank[n] \subseteq blank'[n]
  PROVE  UpToDate(n)'
  <1>1. head[n] \in Nat /\ written[n] \in Nat
    BY ParagraphBoundAssumption DEF ParagraphInv, ParagraphsAreSane, ParagraphTypeOK, Seqs
  <1>2. head[n]..written[n] \subseteq head[n]..written'[n]
    BY <1>1
  <1> QED
    BY <1>2 DEF UpToDate, Shows

LEMMA RequestKeepsRows == ParagraphInv /\ ParagraphsAreSane' /\ Request => RowsAreSane'
  <1> SUFFICES ASSUME ParagraphInv, ParagraphsAreSane', Request PROVE RowsAreSane'
    OBVIOUS
  <1> USE ParagraphNameAssumption, ParagraphBoundAssumption DEF ParagraphInv
  <1>0. UNCHANGED <<batch, work, runs>>
    BY DEF Request, StoreContent, SetDeleted, StoreHead, AppendFails, ResetGraph, runnerVars
  <1>1. CASE \E n \in Notes : StoreContent(n)
    <2>1. PICK n \in Notes : StoreContent(n)
      BY <1>1
    <2>2. UNCHANGED <<head, paraHead, paragraphs, relations, hollow>>
      BY <2>1 DEF StoreContent, graphVars
    <2>3. /\ written \in [Notes -> Seqs] /\ written' \in [Notes -> Seqs]
          /\ blank \in [Notes -> SUBSET Seqs] /\ head \in [Notes -> Seqs]
      BY DEF ParagraphsAreSane, ParagraphTypeOK
    <2>4. \A m \in Notes : written'[m] >= written[m] /\ written'[m] \in Nat
      BY <2>1, <2>3 DEF StoreContent, Seqs
    <2>5. \A m \in Notes : blank[m] \subseteq blank'[m]
      BY <2>1, <2>3 DEF StoreContent
    <2>6. RelationsResolve'
      BY <2>2 DEF RowsAreSane, RelationsResolve
    <2>7. QueueRevealsChanges'
      BY <2>2, <2>4, <2>5, TextGrows DEF RowsAreSane, QueueRevealsChanges
    <2>8. RowsOfTheNoteInHand'
      BY <1>0, <2>2, <2>5 DEF RowsAreSane, RowsOfTheNoteInHand, Shows, Rows, ParagraphsAreSane, WorkIsSane
    <2> QED
      BY <2>6, <2>7, <2>8 DEF RowsAreSane
  <1>2. CASE StoreHead
    <2>1. /\ appending \in Notes /\ head' = [head EXCEPT ![appending] = @ + 1]
          /\ UNCHANGED <<written, blank, paraHead, paragraphs, relations, hollow>>
      BY <1>2 DEF StoreHead, graphVars, ParagraphsAreSane, ParagraphTypeOK
    <2>2. RelationsResolve' /\ RowsOfTheNoteInHand'
      BY <1>0, <2>1 DEF RowsAreSane, RelationsResolve, RowsOfTheNoteInHand, Shows, Rows
    <2>3. ASSUME NEW n \in Notes, n \notin hollow PROVE UpToDate(n)'
      <3>1. CASE n = appending
        BY <2>1, <3>1 DEF UpToDate, ParagraphsAreSane, ParagraphTypeOK, HeadsAreSane, Seqs
      <3>2. CASE n # appending
        <4>1. head'[n] = head[n] /\ UpToDate(n)
          BY <2>1, <2>3, <3>2 DEF ParagraphsAreSane, ParagraphTypeOK, RowsAreSane, QueueRevealsChanges
        <4> QED
          BY <2>1, <4>1 DEF UpToDate, Shows
      <3> QED
        BY <3>1, <3>2
    <2> QED
      BY <2>1, <2>2, <2>3 DEF RowsAreSane, QueueRevealsChanges
  <1>3. CASE AppendFails \/ \E n \in Notes : SetDeleted(n)
    <2>1. UNCHANGED <<head, written, blank, paraHead, paragraphs, relations, hollow>>
      BY <1>3 DEF AppendFails, SetDeleted, graphVars
    <2> QED
      BY <1>0, <2>1 DEF RowsAreSane, RelationsResolve, QueueRevealsChanges, UpToDate,
                        RowsOfTheNoteInHand, Shows, Rows
  <1>4. CASE \E done \in 0..3 : ResetGraph(done)
    <2>1. PICK done \in 0..3 : ResetGraph(done)
      BY <1>4
    <2>2. UNCHANGED <<head, written, blank>>
      BY <2>1 DEF ResetGraph, noteVars
    <2>3. relations' = IF done >= 1 THEN [n \in Notes |-> None] ELSE relations
      BY <2>1 DEF ResetGraph
    <2>4. paragraphs' = IF done >= 2 THEN [n \in Notes |-> None] ELSE paragraphs
      BY <2>1 DEF ResetGraph
    <2>5. paraHead' = IF done = 3 THEN [n \in Notes |-> -1] ELSE paraHead
      BY <2>1 DEF ResetGraph
    <2>6. /\ hollow \subseteq hollow'
          /\ done = 2 => hollow' = hollow \cup Notes
          /\ done >= 2 /\ work.at \in {"relate", "mark"} => work.note \in hollow'
      BY <2>1 DEF ResetGraph, ParagraphsAreSane, WorkIsSane, ParagraphTypeOK
    <2>7. RelationsResolve'
      BY <2>3, <2>4, <2>6 DEF RowsAreSane, RelationsResolve
    <2>8. RowsOfTheNoteInHand'
      BY <1>0, <2>2, <2>3, <2>4, <2>6
         DEF RowsAreSane, RowsOfTheNoteInHand, Shows, Rows, ParagraphsAreSane, WorkIsSane
    <2>9. ASSUME NEW n \in Notes, n \notin hollow' PROVE UpToDate(n)'
      <3>1. CASE done = 3
        BY <2>2, <2>5, <3>1 DEF UpToDate, ParagraphsAreSane, ParagraphTypeOK, Seqs
      <3>2. CASE done \in 0..1
        <4>1. UpToDate(n)
          BY <2>6, <2>9 DEF RowsAreSane, QueueRevealsChanges
        <4> QED
          BY <2>2, <2>4, <2>5, <3>2, <4>1 DEF UpToDate, Shows
      <3> QED
        BY <2>6, <2>9, <3>1, <3>2
    <2> QED
      BY <2>7, <2>8, <2>9 DEF RowsAreSane, QueueRevealsChanges
  <1> QED
    BY <1>1, <1>2, <1>3, <1>4 DEF Request

LEMMA RunnerKeepsRows == ParagraphInv /\ ParagraphsAreSane' /\ (Runner \/ NoteFails \/ RestartParagraphs) => RowsAreSane'
  <1> SUFFICES ASSUME ParagraphInv, ParagraphsAreSane', Runner \/ NoteFails \/ RestartParagraphs PROVE RowsAreSane'
    OBVIOUS
  <1> USE ParagraphNameAssumption, ParagraphBoundAssumption DEF ParagraphInv
  <1>0. UNCHANGED <<head, written, blank>>
    BY DEF Runner, Poll, TakeNote, DeleteOld, InsertParagraphs, InsertRelations,
           MarkProcessed, NoteFails, RestartParagraphs, noteVars
  <1>1. CASE Poll \/ TakeNote \/ RestartParagraphs
    <2>1. UNCHANGED <<paraHead, paragraphs, relations, hollow>>
      BY <1>1 DEF Poll, TakeNote, RestartParagraphs, graphVars
    <2>2. RelationsResolve' /\ QueueRevealsChanges'
      BY <1>0, <2>1 DEF RowsAreSane, RelationsResolve, QueueRevealsChanges, UpToDate, Shows
    <2>3. RowsOfTheNoteInHand'
      <3>1. CASE Poll
        BY <3>1 DEF Poll, RowsOfTheNoteInHand, Idle
      <3>2. CASE TakeNote
        <4>1. \/ work'.at = "delete"
              \/ work'.at = "mark" /\ work'.of \in blank[work'.note]
          BY <3>2 DEF TakeNote
        <4> QED
          BY <1>0, <4>1 DEF RowsOfTheNoteInHand
      <3>3. CASE RestartParagraphs
        BY <3>3 DEF RestartParagraphs, RowsOfTheNoteInHand, Idle
      <3> QED
        BY <1>1, <3>1, <3>2, <3>3
    <2> QED
      BY <2>2, <2>3 DEF RowsAreSane
  <1>2. CASE DeleteOld \/ InsertParagraphs \/ InsertRelations \/ NoteFails
    <2>1. work.at # "idle" /\ work.note \in Notes
      BY <1>2 DEF DeleteOld, InsertParagraphs, InsertRelations, NoteFails, Does,
                  ParagraphsAreSane, WorkIsSane
    <2>2. paraHead' = paraHead
      BY <1>2 DEF DeleteOld, InsertParagraphs, InsertRelations, NoteFails
    <2>3. \A n \in Notes \ {work.note} :
            paragraphs'[n] = paragraphs[n] /\ relations'[n] = relations[n]
      BY <1>2 DEF DeleteOld, InsertParagraphs, InsertRelations, NoteFails, ParagraphsAreSane, ParagraphTypeOK
    <2>4. hollow' = hollow \/ hollow' = hollow \ {work.note}
      BY <1>2 DEF DeleteOld, InsertParagraphs, InsertRelations, NoteFails
    <2>5. ASSUME NEW n \in Notes, n \notin hollow' PROVE UpToDate(n)'
      <3>1. CASE n = work.note
        <4>1. paraHead[n] < work.head /\ work.head <= head[n]
          BY <2>1, <3>1 DEF ParagraphsAreSane, WorkIsSane
        <4>2. paraHead[n] \in Int /\ work.head \in Int /\ head[n] \in Int
          BY DEF ParagraphsAreSane, ParagraphTypeOK, Seqs
        <4> QED
          BY <1>0, <2>2, <4>1, <4>2 DEF UpToDate
      <3>2. CASE n # work.note
        <4>1. UpToDate(n) /\ paragraphs'[n] = paragraphs[n]
          BY <2>3, <2>4, <2>5, <3>2 DEF RowsAreSane, QueueRevealsChanges
        <4> QED
          BY <1>0, <2>2, <4>1 DEF UpToDate, Shows
      <3> QED
        BY <3>1, <3>2
    <2>6. SUFFICES /\ work.note \notin hollow' /\ relations'[work.note] # None =>
                        /\ paragraphs'[work.note] # None
                        /\ paragraphs'[work.note].run = relations'[work.note]
                   /\ RowsOfTheNoteInHand'
      BY <2>3, <2>4, <2>5 DEF RowsAreSane, RelationsResolve, QueueRevealsChanges
    <2> DEFINE n == work.note
    <2>7. paragraphs \in [Notes -> [run : Nat, of : Seqs, whole : BOOLEAN] \cup {None}]
          /\ relations \in [Notes -> Nat \cup {None}] /\ runs \in Nat
      BY DEF ParagraphsAreSane, ParagraphTypeOK
    <2>0. Rows(runs, TRUE) # None
      <3>1. Rows(runs, TRUE) \in [run : Nat, of : Nat, whole : BOOLEAN]
        BY DEF Rows, ParagraphsAreSane, ParagraphTypeOK, Seqs
      <3> QED
        BY <3>1
    <2>8. CASE DeleteOld
      <3>1. relations'[n] = None /\ work'.at = "insert" /\ work'.note = n
        BY <2>1, <2>7, <2>8 DEF DeleteOld, Goes, ParagraphsAreSane, ParagraphTypeOK
      <3> QED
        BY <3>1 DEF RowsOfTheNoteInHand
    <2>9. CASE InsertParagraphs
      <3>1. /\ paragraphs'[n] = Rows(runs + 1, TRUE) /\ relations'[n] = None
            /\ work'.at = "relate" /\ work'.note = n /\ work'.of = work.of
            /\ runs' = runs + 1
        BY <2>1, <2>7, <2>9
           DEF InsertParagraphs, Does, Goes, ParagraphsAreSane, ParagraphTypeOK, RowsAreSane, RowsOfTheNoteInHand
      <3> QED
        BY <3>1 DEF RowsOfTheNoteInHand, Rows
    <2>10. CASE InsertRelations
      <3>1. /\ UNCHANGED <<paragraphs, hollow>>
            /\ relations'[n] = runs \/ relations'[n] = relations[n]
            /\ work.at = "relate" /\ work'.at = "mark" /\ work'.note = n /\ work'.of = work.of
        BY <2>1, <2>7, <2>10 DEF InsertRelations, Does, Goes, ParagraphsAreSane, ParagraphTypeOK
      <3>2. n \notin hollow => paragraphs[n] = Rows(runs, TRUE) /\ Rows(runs, TRUE) # None
        BY <2>0, <2>1, <3>1 DEF RowsAreSane, RowsOfTheNoteInHand
      <3> QED
        BY <1>0, <2>1, <3>1, <3>2
           DEF RowsOfTheNoteInHand, RowsAreSane, RelationsResolve, Rows, Shows
    <2>11. CASE NoteFails
      <3>1. RowsOfTheNoteInHand'
        BY <2>11 DEF NoteFails, RowsOfTheNoteInHand, Idle
      <3>2. hollow' = hollow
        BY <2>11 DEF NoteFails
      <3>3. CASE UNCHANGED <<paragraphs, relations>>
        BY <2>1, <3>1, <3>2, <3>3 DEF RowsAreSane, RelationsResolve
      <3>4. CASE relations'[n] = None
        BY <3>1, <3>4
      <3>5. CASE /\ work.at = "relate" /\ relations'[n] = runs /\ paragraphs' = paragraphs
        <4>1. n \notin hollow => paragraphs[n] = Rows(runs, TRUE) /\ Rows(runs, TRUE) # None
          BY <2>0, <2>1, <3>5 DEF RowsAreSane, RowsOfTheNoteInHand
        <4> QED
          BY <3>1, <3>2, <3>5, <4>1 DEF Rows
      <3>6. work.at = "insert" => relations[n] = None
        BY DEF RowsAreSane, RowsOfTheNoteInHand
      <3> QED
        BY <2>1, <2>7, <2>11, <3>3, <3>4, <3>5, <3>6 DEF NoteFails
    <2> QED
      BY <1>2, <2>8, <2>9, <2>10, <2>11
  <1>3. CASE MarkProcessed
    <2>1. /\ work.at = "mark" /\ work' = Idle
          /\ paraHead' = [paraHead EXCEPT ![work.note] = work.head]
          /\ UNCHANGED <<paragraphs, relations, hollow>>
      BY <1>3 DEF MarkProcessed, Does
    <2>2. RelationsResolve' /\ RowsOfTheNoteInHand'
      BY <2>1 DEF RowsAreSane, RelationsResolve, RowsOfTheNoteInHand, Idle
    <2>3. ASSUME NEW n \in Notes, n \notin hollow PROVE UpToDate(n)'
      <3>1. CASE n = work.note
        <4>1. work.of \in blank[n] \/ Shows(n, work.of)
          BY <2>1, <2>3, <3>1 DEF RowsAreSane, RowsOfTheNoteInHand
        <4>2. /\ paraHead'[n] = work.head
              /\ work.head <= work.of /\ work.of <= written[n]
              /\ work.head \in Nat /\ work.of \in Nat /\ written[n] \in Nat
          BY <2>1, <3>1 DEF ParagraphsAreSane, WorkIsSane, ParagraphTypeOK, Seqs
        <4> QED
          BY <1>0, <2>1, <4>1, <4>2 DEF UpToDate, Shows
      <3>2. CASE n # work.note
        <4>1. UpToDate(n) /\ paraHead'[n] = paraHead[n]
          BY <2>1, <2>3, <3>2 DEF RowsAreSane, QueueRevealsChanges, ParagraphsAreSane, ParagraphTypeOK
        <4> QED
          BY <1>0, <2>1, <4>1 DEF UpToDate, Shows
      <3> QED
        BY <3>1, <3>2
    <2> QED
      BY <2>1, <2>2, <2>3 DEF RowsAreSane, QueueRevealsChanges
  <1> QED
    BY <1>1, <1>2, <1>3 DEF Runner

LEMMA ParagraphInvInit == ParagraphInit => ParagraphInv
  BY ParagraphsSaneInit, RowsInit DEF ParagraphInv

LEMMA ParagraphInvStep == ParagraphInv /\ [ParagraphNext]_paragraphVars => ParagraphInv'
  <1> SUFFICES ASSUME ParagraphInv, [ParagraphNext]_paragraphVars PROVE ParagraphInv'
    OBVIOUS
  <1>1. ParagraphsAreSane'
    BY ParagraphsSaneNext DEF ParagraphInv
  <1>2. CASE UNCHANGED paragraphVars
    BY <1>1, <1>2 DEF paragraphVars, noteVars, graphVars, runnerVars, ParagraphInv, RowsAreSane, RelationsResolve,
                      QueueRevealsChanges, UpToDate, RowsOfTheNoteInHand, Shows, Rows
  <1> QED
    BY <1>1, <1>2, RequestKeepsRows, RunnerKeepsRows DEF ParagraphNext, ParagraphInv

LEMMA ParagraphInvAlways == ParagraphSpec => []ParagraphInv
  BY ParagraphInvInit, ParagraphInvStep, PTL DEF ParagraphSpec

(* A note that is not in the queue has no change the column does not       *)
(* reveal (processNoteParagraphs against AppendEvent and ResetGraph).      *)
THEOREM NoHiddenChange == ParagraphSpec => []QueueRevealsChanges
  <1>1. ParagraphInv => QueueRevealsChanges
    BY DEF ParagraphInv, RowsAreSane
  <1> QED
    BY ParagraphInvAlways, <1>1, PTL

(* Relations name stored paragraphs, although deletion, insertion and      *)
(* relating are closures of their own.                                     *)
THEOREM NoDanglingRelation == ParagraphSpec => []RelationsResolve
  <1>1. ParagraphInv => RelationsResolve
    BY DEF ParagraphInv, RowsAreSane
  <1> QED
    BY ParagraphInvAlways, <1>1, PTL

(* Outside a rebuild the column only moves forward, although it is stored  *)
(* without being looked at.                                                *)
THEOREM ColumnAdvances == ParagraphSpec => ClaimsOnlyAdvance
  <1>1. ASSUME ParagraphsAreSane, [ParagraphNext]_paragraphVars, resets' = resets, NEW n \in Notes
        PROVE  paraHead'[n] >= paraHead[n]
    <2>1. paraHead[n] \in Int
      BY <1>1, ParagraphBoundAssumption DEF ParagraphsAreSane, ParagraphTypeOK, Seqs
    <2>2. CASE MarkProcessed
      <3>1. work.note \in Notes /\ paraHead[work.note] < work.head /\ work.head \in Nat
        BY <1>1, <2>2, ParagraphBoundAssumption DEF MarkProcessed, Does, ParagraphsAreSane, WorkIsSane, ParagraphTypeOK, Seqs
      <3>2. paraHead' = [paraHead EXCEPT ![work.note] = work.head]
        BY <2>2 DEF MarkProcessed
      <3> QED
        BY <2>1, <3>1, <3>2 DEF ParagraphsAreSane, ParagraphTypeOK
    <2>3. CASE \E done \in 0..3 : ResetGraph(done)
      BY <1>1, <2>3 DEF ResetGraph, ParagraphsAreSane, ParagraphTypeOK
    <2>4. CASE UNCHANGED paraHead
      BY <2>1, <2>4
    <2> QED
      BY <1>1, <2>2, <2>3, <2>4
         DEF ParagraphNext, Request, Runner, StoreContent, SetDeleted, StoreHead, AppendFails, Poll,
             TakeNote, DeleteOld, InsertParagraphs, InsertRelations, NoteFails, RestartParagraphs,
             paragraphVars, graphVars
  <1>2. ParagraphsAreSane /\ [ParagraphNext]_paragraphVars => [resets' = resets => \A n \in Notes : paraHead'[n] >= paraHead[n]]_paragraphVars
    BY <1>1
  <1> QED
    BY ParagraphsAlwaysSane, <1>2, PTL DEF ParagraphSpec, ClaimsOnlyAdvance

-----------------------------------------------------------------------------
(* The metadata inference runner.                                          *)
Suggestion ==
  [note : Notes, title : Titles \cup {None}, project : Projects \cup {None},
   status : {"pending", "accepted", "rejected"}, hash : Topics \cup {None},
   day : Nat, compared : Topics \cup {None}]

(* What the runner may have in hand at each point of runInferenceForNote.  *)
InHand ==
  {NotInferring}
  \cup [at : {"note"}, note : Notes]
  \cup [at : {"cap", "pending", "rejection"}, note : Notes, needsTitle : BOOLEAN, needsProject : BOOLEAN]
  \cup [at : {"title"}, note : Notes, compared : Topics \cup {None},
        needsTitle : BOOLEAN, needsProject : BOOLEAN]
  \cup [at : {"project"}, note : Notes, compared : Topics \cup {None},
        needsProject : BOOLEAN, title : Titles \cup {None}]
  \cup [at : {"store"}, note : Notes, compared : Topics \cup {None},
        title : Titles \cup {None}, project : Projects \cup {None}]

HeadersAreTyped ==
  /\ title \in [Notes -> Titles \cup {None}] /\ project \in [Notes -> Projects \cup {None}]
  /\ topic \in [Notes -> Topics \cup {None}]
  /\ burst \in [Notes -> [topic : Topics, project : Projects \cup {None}] \cup {None}]

RowsAreTyped ==
  /\ inferences \in Seq(Suggestion)
  /\ \A i \in DOMAIN inferences : inferences[i].day \in 1..today

RunnerIsTyped ==
  /\ inferenceCh \in Seq(Notes) /\ Len(inferenceCh) <= InferenceCap
  /\ inferring \in InHand /\ inFlight = {inferring.note} \ {None}

CountsAreTyped ==
  /\ today \in 1..MaxDays /\ edits \in 0..MaxEdits /\ upsets \in 0..MaxUpsets
  /\ forgone \subseteq Notes

InferenceTypes == HeadersAreTyped /\ RowsAreTyped /\ RunnerIsTyped /\ CountsAreTyped

(* A step changes some of the parts; the others follow from these facts.   *)
LEMMA HeadersStayTyped ==
  ASSUME HeadersAreTyped, UNCHANGED <<headerVars, topic, burst>> PROVE HeadersAreTyped'
  BY DEF HeadersAreTyped, headerVars

LEMMA RowsStayTyped == ASSUME RowsAreTyped, UNCHANGED <<inferences, today>> PROVE RowsAreTyped'
  BY DEF RowsAreTyped

LEMMA RunnerStaysTyped ==
  ASSUME RunnerIsTyped, UNCHANGED <<inferenceCh, inFlight, inferring>> PROVE RunnerIsTyped'
  BY DEF RunnerIsTyped

LEMMA CountsStayTyped ==
  ASSUME CountsAreTyped, UNCHANGED <<today, edits, upsets, forgone>> PROVE CountsAreTyped'
  BY DEF CountsAreTyped

(* The runner's hand holds a note unless it waits at the channel.          *)
LEMMA HandHoldsANote ==
  ASSUME inferring \in InHand
  PROVE  inferring.at # "receive" => inferring.note \in Notes
  BY DEF InHand, NotInferring

LEMMA InferenceTypesInit == InferenceInit => InferenceTypes
  <1> SUFFICES ASSUME InferenceInit PROVE InferenceTypes
    OBVIOUS
  <1> USE InferenceAssumption DEF InferenceInit
  <1>1. HeadersAreTyped
    BY DEF HeadersAreTyped
  <1>2. RowsAreTyped
    BY DEF RowsAreTyped
  <1>3. RunnerIsTyped
    BY DEF RunnerIsTyped, InHand, NotInferring
  <1>4. CountsAreTyped
    BY DEF CountsAreTyped
  <1> QED
    BY <1>1, <1>2, <1>3, <1>4 DEF InferenceTypes

(* An edit of a note.                                                      *)
LEMMA EditsAreTyped ==
  ASSUME InferenceTypes, NEW n \in Notes,
         \/ \E w \in Topics \cup {None} : Write(n, w)
         \/ \E v \in Titles \cup {None} : SetTitle(n, v)
         \/ \E p \in Projects \cup {None} : SetProject(n, p)
         \/ StampBursts(n)
  PROVE  InferenceTypes'
  <1> USE InferenceAssumption DEF InferenceTypes
  <1>1. ASSUME NEW w \in Topics \cup {None}, Write(n, w) PROVE InferenceTypes'
    <2> USE <1>1 DEF Write
    <2>1. HeadersAreTyped'
      BY DEF HeadersAreTyped, headerVars
    <2>2. RowsAreTyped'
      BY RowsStayTyped
    <2>3. RunnerIsTyped'
      BY DEF RunnerIsTyped
    <2>4. CountsAreTyped'
      BY DEF CountsAreTyped, Edit
    <2> QED
      BY <2>1, <2>2, <2>3, <2>4
  <1>2. ASSUME NEW v \in Titles \cup {None}, SetTitle(n, v) PROVE InferenceTypes'
    <2>1. HeadersAreTyped'
      BY <1>2 DEF SetTitle, HeadersAreTyped
    <2>2. CountsAreTyped'
      BY <1>2 DEF SetTitle, CountsAreTyped, Edit
    <2> QED
      BY <1>2, <2>1, <2>2, RowsStayTyped, RunnerStaysTyped DEF SetTitle
  <1>3. ASSUME NEW p \in Projects \cup {None}, SetProject(n, p) PROVE InferenceTypes'
    <2>1. HeadersAreTyped'
      BY <1>3 DEF SetProject, HeadersAreTyped
    <2>2. CountsAreTyped'
      BY <1>3 DEF SetProject, CountsAreTyped, Edit
    <2> QED
      BY <1>3, <2>1, <2>2, RowsStayTyped, RunnerStaysTyped DEF SetProject
  <1>4. CASE StampBursts(n)
    <2>1. HeadersAreTyped'
      BY <1>4 DEF StampBursts, HeadersAreTyped, headerVars
    <2> QED
      BY <1>4, <2>1, RowsStayTyped, RunnerStaysTyped, CountsStayTyped DEF StampBursts
  <1> QED
    BY <1>1, <1>2, <1>3, <1>4

LEMMA DaysAreTyped == InferenceTypes /\ NextDay => InferenceTypes'
  <1> SUFFICES ASSUME InferenceTypes, NextDay PROVE InferenceTypes'
    OBVIOUS
  <1> USE DEF InferenceTypes, NextDay
  <1>1. RowsAreTyped' /\ CountsAreTyped'
    BY InferenceAssumption DEF RowsAreTyped, CountsAreTyped
  <1> QED
    BY <1>1, HeadersStayTyped, RunnerStaysTyped

(* The runner goes on or stops after a query of its own.                   *)
LEMMA ReadsAreTyped ==
  ASSUME InferenceTypes, inferring.at # "receive", RunnerReads,
         \/ Stop
         \/ inferring' \in InHand /\ inferring'.note = inferring.note /\ UNCHANGED inFlight
  PROVE  InferenceTypes'
  <1> USE DEF InferenceTypes, RunnerReads
  <1>1. RunnerIsTyped'
    BY DEF RunnerIsTyped, Stop, InHand, NotInferring
  <1> QED
    BY <1>1, HeadersStayTyped, RowsStayTyped, CountsStayTyped

LEMMA RunnerStepsAreTyped == InferenceTypes /\ InferenceRunner => InferenceTypes'
  <1> SUFFICES ASSUME InferenceTypes, InferenceRunner PROVE InferenceTypes'
    OBVIOUS
  <1> USE InferenceAssumption
  <1>0. inferring \in InHand /\ (inferring.at # "receive" => inferring.note \in Notes)
    BY HandHoldsANote DEF InferenceTypes, RunnerIsTyped
  <1>1. CASE ReceiveNote
    <2> USE <1>1 DEF ReceiveNote, InferenceTypes
    <2>1. Head(inferenceCh) \in Notes /\ inferenceCh' \in Seq(Notes) /\ Len(inferenceCh') <= InferenceCap
      BY DEF RunnerIsTyped
    <2>2. inFlight = {}
      BY DEF RunnerIsTyped, Infers, InHand, NotInferring
    <2>3. inferring' = [at |-> "note", note |-> Head(inferenceCh)] /\ inFlight' = {Head(inferenceCh)}
      BY <2>2
    <2>4. inferring' \in InHand /\ inferring'.note = Head(inferenceCh)
      BY <2>1, <2>3 DEF InHand
    <2>5. inFlight' = {inferring'.note} \ {None}
      BY <2>1, <2>3, <2>4
    <2>6. RunnerIsTyped'
      BY <2>1, <2>4, <2>5 DEF RunnerIsTyped
    <2> QED
      BY <2>6, HeadersStayTyped, RowsStayTyped, CountsStayTyped
  <1>2. CASE ReadNote
    <2> USE <1>2 DEF ReadNote, Infers
    <2> DEFINE t == title[inferring.note] = None
               p == project[inferring.note] = None
    <2>1. t \in BOOLEAN /\ p \in BOOLEAN
      OBVIOUS
    <2>2. \/ Stop
          \/ /\ inferring' = [at |-> "cap", note |-> inferring.note, needsTitle |-> t, needsProject |-> p]
             /\ UNCHANGED inFlight
      OBVIOUS
    <2> HIDE DEF t, p
    <2>3. Stop \/ (inferring' \in InHand /\ inferring'.note = inferring.note /\ UNCHANGED inFlight)
      BY <1>0, <2>1, <2>2 DEF InHand
    <2> QED
      BY <2>3, ReadsAreTyped
  <1>3. CASE CheckCap
    <2> USE <1>3 DEF CheckCap, Infers
    <2>1. Stop \/ (inferring' \in InHand /\ inferring'.note = inferring.note /\ UNCHANGED inFlight)
      BY <1>0 DEF InHand, Continue, NotInferring
    <2> QED
      BY <2>1, ReadsAreTyped
  <1>4. CASE CheckPending
    <2> USE <1>4 DEF CheckPending, Infers
    <2>1. Stop \/ (inferring' \in InHand /\ inferring'.note = inferring.note /\ UNCHANGED inFlight)
      BY <1>0 DEF InHand, Continue, NotInferring
    <2> QED
      BY <2>1, ReadsAreTyped
  <1>5. CASE CheckRejection
    <2> USE <1>5 DEF CheckRejection, Infers
    <2>1. TokensOf(inferring.note) \in Topics \cup {None}
      BY <1>0 DEF TokensOf, InferenceTypes, HeadersAreTyped
    <2>2. inferring.needsTitle \in BOOLEAN /\ inferring.needsProject \in BOOLEAN
      BY <1>0 DEF InHand, NotInferring
    <2>3. Stop \/ (inferring' \in InHand /\ inferring'.note = inferring.note /\ UNCHANGED inFlight)
      BY <1>0, <2>1, <2>2 DEF InHand
    <2> QED
      BY <2>3, ReadsAreTyped
  <1>6. CASE ReadTitle
    <2> USE <1>6 DEF ReadTitle, Infers
    <2>1. FoundTitle(inferring.note) \in Titles \cup {None}
      BY <1>0 DEF FoundTitle, InferenceTypes, HeadersAreTyped
    <2>2. inferring.compared \in Topics \cup {None} /\ inferring.needsProject \in BOOLEAN
      BY <1>0 DEF InHand, NotInferring
    <2>3. inferring' \in InHand /\ inferring'.note = inferring.note /\ UNCHANGED inFlight
      BY <1>0, <2>1, <2>2 DEF InHand
    <2> QED
      BY <2>3, ReadsAreTyped
  <1>7. CASE ReadProject
    <2> USE <1>7 DEF ReadProject, Infers
    <2>1. FoundProjects(inferring.note) \subseteq Projects \cup {None}
      BY DEF FoundProjects
    <2>2. inferring.compared \in Topics \cup {None} /\ inferring.title \in Titles \cup {None}
      BY <1>0 DEF InHand, NotInferring
    <2>3. Stop \/ (inferring' \in InHand /\ inferring'.note = inferring.note /\ UNCHANGED inFlight)
      BY <1>0, <2>1, <2>2 DEF InHand
    <2> QED
      BY <2>3, ReadsAreTyped
  <1>8. CASE StoreInference
    <2> USE <1>8 DEF StoreInference, Infers, InferenceTypes
    <2>1. /\ inferring.compared \in Topics \cup {None}
          /\ inferring.title \in Titles \cup {None} /\ inferring.project \in Projects \cup {None}
      BY <1>0 DEF InHand, NotInferring
    <2>2. RowsAreTyped'
      <3> DEFINE row == [note |-> inferring.note, title |-> inferring.title, project |-> inferring.project,
                         status |-> "pending", hash |-> None, day |-> today,
                         compared |-> inferring.compared]
      <3>1. row \in Suggestion /\ row.day = today /\ today \in 1..today
        BY <1>0, <2>1 DEF CountsAreTyped, Suggestion
      <3>2. inferences' = inferences \/ inferences' = Append(inferences, row)
        OBVIOUS
      <3> HIDE DEF row
      <3>3. CASE inferences' = Append(inferences, row)
        <4>1. inferences' \in Seq(Suggestion)
          BY <3>1, <3>3 DEF RowsAreTyped
        <4>2. ASSUME NEW i \in DOMAIN inferences' PROVE inferences'[i].day \in 1..today
          BY <3>1, <3>3, <4>2 DEF RowsAreTyped
        <4> QED
          BY <4>1, <4>2 DEF RowsAreTyped
      <3> QED
        BY <3>2, <3>3, RowsStayTyped
    <2>3. RunnerIsTyped'
      BY <1>0 DEF RunnerIsTyped, Stop, InHand, NotInferring
    <2> QED
      BY <2>2, <2>3, HeadersStayTyped, CountsStayTyped
  <1> QED
    BY <1>1, <1>2, <1>3, <1>4, <1>5, <1>6, <1>7, <1>8 DEF InferenceRunner

LEMMA UpsetsAreTyped == InferenceTypes /\ (InferenceFails \/ RestartEngine) => InferenceTypes'
  <1> SUFFICES ASSUME InferenceTypes, InferenceFails \/ RestartEngine PROVE InferenceTypes'
    OBVIOUS
  <1> USE DEF InferenceTypes
  <1>1. inferring.at # "receive" => inferring.note \in Notes
    BY HandHoldsANote DEF RunnerIsTyped
  <1>2. CASE InferenceFails
    <2> USE <1>2 DEF InferenceFails
    <2>1. RunnerIsTyped'
      BY DEF RunnerIsTyped, Stop, InHand, NotInferring
    <2>2. CountsAreTyped'
      BY <1>1, InferenceAssumption DEF CountsAreTyped, Upset, Infers
    <2> QED
      BY <2>1, <2>2, HeadersStayTyped, RowsStayTyped
  <1>3. CASE RestartEngine
    <2> USE <1>3 DEF RestartEngine
    <2>1. RunnerIsTyped'
      BY InferenceAssumption DEF RunnerIsTyped, InHand, NotInferring
    <2>2. inferring.note \in Notes \cup {None}
      BY DEF RunnerIsTyped, InHand, NotInferring
    <2>3. ToSet(inferenceCh) \subseteq Notes
      BY DEF RunnerIsTyped, ToSet
    <2>4. CountsAreTyped'
      BY <2>2, <2>3, InferenceAssumption DEF CountsAreTyped, Upset
    <2> QED
      BY <2>1, <2>4, HeadersStayTyped, RowsStayTyped
  <1> QED
    BY <1>2, <1>3

LEMMA ReviewsAreTyped ==
  ASSUME InferenceTypes, NEW i \in DOMAIN inferences,
         \/ \E acceptTitle, acceptProject \in BOOLEAN : AcceptInference(i, acceptTitle, acceptProject)
         \/ \E acceptProject \in BOOLEAN : AcceptFails(i, acceptProject)
         \/ RejectInference(i)
  PROVE  InferenceTypes'
  <1> USE InferenceAssumption DEF InferenceTypes
  <1>0. inferences[i] \in Suggestion /\ inferences[i].note \in Notes
    <2>1. inferences[i] \in Suggestion
      BY DEF RowsAreTyped
    <2> QED
      BY <2>1 DEF Suggestion
  <1>1. ASSUME NEW v \in Titles \cup {None}, NEW p \in Projects \cup {None},
               Apply(inferences[i].note, v, p), topic' = topic
        PROVE  HeadersAreTyped'
    <2> DEFINE n == inferences[i].note
    <2>1. n \in Notes
      BY <1>0
    <2>2. /\ title' = IF v = None THEN title ELSE [title EXCEPT ![n] = v]
          /\ project' = IF p = None THEN project ELSE [project EXCEPT ![n] = p]
          /\ burst' = IF p # None /\ burst[n] # None /\ burst[n].project = None
                      THEN [burst EXCEPT ![n].project = p] ELSE burst
      BY <1>1 DEF Apply
    <2> HIDE DEF n
    <2>3. title' \in [Notes -> Titles \cup {None}] /\ project' \in [Notes -> Projects \cup {None}]
      BY <2>1, <2>2 DEF HeadersAreTyped
    <2>4. burst' \in [Notes -> [topic : Topics, project : Projects \cup {None}] \cup {None}]
      BY <2>1, <2>2 DEF HeadersAreTyped
    <2> QED
      BY <1>1, <2>3, <2>4 DEF HeadersAreTyped
  <1>2. ASSUME NEW row \in Suggestion, row.day = inferences[i].day,
               inferences' = [inferences EXCEPT ![i] = row], today' = today
        PROVE  RowsAreTyped'
    BY <1>2 DEF RowsAreTyped
  <1>3. ASSUME NEW acceptTitle \in BOOLEAN, NEW acceptProject \in BOOLEAN,
               AcceptInference(i, acceptTitle, acceptProject)
        PROVE  InferenceTypes'
    <2> USE <1>3 DEF AcceptInference
    <2>1. HeadersAreTyped'
      <3> DEFINE v == IF acceptTitle THEN inferences[i].title ELSE None
                 p == IF acceptProject THEN inferences[i].project ELSE None
      <3>1. v \in Titles \cup {None} /\ p \in Projects \cup {None}
        BY <1>0 DEF Suggestion
      <3>2. Apply(inferences[i].note, v, p)
        OBVIOUS
      <3> QED
        BY <1>1, <3>1, <3>2
    <2>2. RowsAreTyped'
      <3> DEFINE row == [inferences[i] EXCEPT !.status = "accepted"]
      <3>1. row \in Suggestion /\ row.day = inferences[i].day
        BY <1>0 DEF Suggestion
      <3>2. inferences' = [inferences EXCEPT ![i] = row] /\ today' = today
        OBVIOUS
      <3> QED
        BY <1>2, <3>1, <3>2
    <2> QED
      BY <2>1, <2>2, RunnerStaysTyped, CountsStayTyped
  <1>4. ASSUME NEW acceptProject \in BOOLEAN, AcceptFails(i, acceptProject) PROVE InferenceTypes'
    <2> USE <1>4 DEF AcceptFails
    <2>1. HeadersAreTyped'
      <3> DEFINE v == inferences[i].title
                 p == IF acceptProject THEN inferences[i].project ELSE None
      <3>1. v \in Titles \cup {None} /\ p \in Projects \cup {None}
        BY <1>0 DEF Suggestion
      <3>2. Apply(inferences[i].note, v, p)
        OBVIOUS
      <3> QED
        BY <1>1, <3>1, <3>2
    <2>2. CountsAreTyped'
      BY DEF CountsAreTyped, Upset
    <2> QED
      BY <2>1, <2>2, RowsStayTyped, RunnerStaysTyped
  <1>5. CASE RejectInference(i)
    <2> USE <1>5 DEF RejectInference
    <2>1. TokensOf(inferences[i].note) \in Topics \cup {None}
      BY <1>0 DEF TokensOf, HeadersAreTyped
    <2>2. RowsAreTyped'
      <3> DEFINE row == [inferences[i] EXCEPT !.status = "rejected", !.hash = TokensOf(inferences[i].note)]
      <3>1. row \in Suggestion /\ row.day = inferences[i].day
        BY <1>0, <2>1 DEF Suggestion
      <3>2. inferences' = [inferences EXCEPT ![i] = row] /\ today' = today
        OBVIOUS
      <3> QED
        BY <1>2, <3>1, <3>2
    <2> QED
      BY <2>2, HeadersStayTyped, RunnerStaysTyped, CountsStayTyped
  <1> QED
    BY <1>3, <1>4, <1>5

LEMMA InferenceTypesStep == InferenceTypes /\ [InferenceNext]_inferVars => InferenceTypes'
  <1> SUFFICES ASSUME InferenceTypes, [InferenceNext]_inferVars PROVE InferenceTypes'
    OBVIOUS
  <1>1. CASE UNCHANGED inferVars
    BY <1>1, HeadersStayTyped, RowsStayTyped, RunnerStaysTyped, CountsStayTyped
    DEF InferenceTypes, inferVars, headerVars
  <1> QED
    BY <1>1, EditsAreTyped, DaysAreTyped, RunnerStepsAreTyped, UpsetsAreTyped, ReviewsAreTyped
    DEF InferenceNext

(* Types of the columns, the channel, the map of notes in flight and what  *)
(* the runner has in hand (runInferenceRunner), after any failure.         *)
THEOREM InferenceIsTyped == InferenceSpec => []InferenceTypeOK
  <1>1. InferenceTypes => InferenceTypeOK
    <2> SUFFICES ASSUME InferenceTypes PROVE InferenceTypeOK
      OBVIOUS
    <2>1. ASSUME NEW i \in DOMAIN inferences
          PROVE  inferences[i] \in
                   [note : Notes, title : Titles \cup {None}, project : Projects \cup {None},
                    status : {"pending", "accepted", "rejected"}, hash : Topics \cup {None},
                    day : 1..today, compared : Topics \cup {None}]
      <3>1. inferences[i] \in Suggestion /\ inferences[i].day \in 1..today
        BY DEF InferenceTypes, RowsAreTyped
      <3> QED
        BY <3>1 DEF Suggestion
    <2> QED
      BY <2>1 DEF InferenceTypes, HeadersAreTyped, RunnerIsTyped, CountsAreTyped, InferenceTypeOK
  <1> QED
    BY InferenceTypesInit, InferenceTypesStep, <1>1, PTL DEF InferenceSpec

-----------------------------------------------------------------------------
(* A note has one pending suggestion.                                      *)
OnePending ==
  \A i, j \in DOMAIN inferences :
    /\ inferences[i].status = "pending" /\ inferences[j].status = "pending"
    /\ inferences[i].note = inferences[j].note
    => i = j

CreatedOn(n, d) == {i \in Of(n) : inferences[i].day = d}

CapIsKept == \A n \in Notes : \A d \in 1..today : Cardinality(CreatedOn(n, d)) <= MaxRerunsPerDay

(* What the checks of the runner found still holds when it stores: nobody  *)
(* else creates a suggestion, and without one nobody can reject one.       *)
CapIsOpen ==
  inferring.at \in {"pending", "rejection", "title", "project", "store"} =>
    Cardinality(CreatedOn(inferring.note, today)) < MaxRerunsPerDay

NoneIsPending ==
  inferring.at \in {"rejection", "title", "project", "store"} => Pending(inferring.note) = {}

TextIsNew ==
  inferring.at \in {"title", "project", "store"} =>
    inferring.compared \notin RejectedTokens(inferring.note)

TablesAreKept == OnePending /\ CapIsKept /\ RejectedTextIsLeftAlone

FindingsHold == CapIsOpen /\ NoneIsPending /\ TextIsNew

InferenceInv == InferenceTypes /\ TablesAreKept /\ FindingsHold

LEMMA InferenceInvInit == InferenceInit => InferenceInv
  <1> SUFFICES ASSUME InferenceInit PROVE InferenceInv
    OBVIOUS
  <1>1. inferences = << >> /\ inferring = NotInferring /\ DOMAIN inferences = {} /\ today = 1
    BY DEF InferenceInit
  <1>2. OnePending /\ RejectedTextIsLeftAlone
    BY <1>1 DEF OnePending, RejectedTextIsLeftAlone, Pending, Of
  <1>3. CapIsKept
    <2>1. \A n, d : CreatedOn(n, d) = {}
      BY <1>1 DEF CreatedOn, Of
    <2> QED
      BY <2>1, FS_EmptySet, InferenceAssumption DEF CapIsKept
  <1>4. FindingsHold
    BY <1>1 DEF FindingsHold, CapIsOpen, NoneIsPending, TextIsNew, NotInferring
  <1> QED
    BY <1>2, <1>3, <1>4, InferenceTypesInit DEF InferenceInv, TablesAreKept

(* Steps that leave the suggestions and the runner alone.                  *)
LEMMA OthersKeepFindings ==
  ASSUME TablesAreKept, FindingsHold, UNCHANGED <<inferences, today, inferring>>
  PROVE  TablesAreKept' /\ FindingsHold'
  BY DEF TablesAreKept, OnePending, CapIsKept, CreatedOn, RejectedTextIsLeftAlone, RejectedTokens,
         Pending, Rejected, Of, FindingsHold, CapIsOpen, NoneIsPending, TextIsNew

LEMMA TablesStay ==
  ASSUME TablesAreKept, UNCHANGED <<inferences, today>> PROVE TablesAreKept'
  BY DEF TablesAreKept, OnePending, CapIsKept, CreatedOn, RejectedTextIsLeftAlone, RejectedTokens,
         Pending, Rejected, Of

(* The counts are of finite sets.                                          *)
LEMMA CountsAreNumbers ==
  ASSUME InferenceTypes, NEW n, NEW d
  PROVE  IsFiniteSet(CreatedOn(n, d)) /\ Cardinality(CreatedOn(n, d)) \in Nat
  <1>1. DOMAIN inferences = 1..Len(inferences) /\ Len(inferences) \in Nat
    BY DEF InferenceTypes, RowsAreTyped
  <1>2. IsFiniteSet(1..Len(inferences))
    BY <1>1, FS_Interval
  <1>3. CreatedOn(n, d) \subseteq 1..Len(inferences)
    BY <1>1 DEF CreatedOn, Of
  <1> QED
    BY <1>2, <1>3, FS_Subset, FS_CardinalityType

(* The runner goes on from one query to the next with the same note.       *)
LEMMA HandGoesOn ==
  ASSUME InferenceTypes, NEW at, inferring.at \in {"cap", "pending"}, Continue(at)
  PROVE  inferring'.at = at /\ inferring'.note = inferring.note
  BY DEF InferenceTypes, RunnerIsTyped, InHand, NotInferring, Continue

(* The runner's queries: each adds one finding to those it has made.       *)
LEMMA QueriesKeepFindings ==
  ASSUME InferenceTypes, FindingsHold, UNCHANGED <<inferences, today>>,
         \/ ReceiveNote \/ ReadNote \/ CheckCap \/ CheckPending \/ CheckRejection
         \/ ReadTitle \/ ReadProject \/ InferenceFails \/ RestartEngine
  PROVE  FindingsHold'
  <1> DEFINE found(at) ==
               /\ at \in {"pending", "rejection", "title", "project", "store"} =>
                    Cardinality(CreatedOn(inferring.note, today)) < MaxRerunsPerDay
               /\ at \in {"rejection", "title", "project", "store"} => Pending(inferring.note) = {}
               /\ at \in {"title", "project", "store"} =>
                    inferring'.compared \notin RejectedTokens(inferring.note)
  <1>1. \A n, d : CreatedOn(n, d)' = CreatedOn(n, d)
    BY DEF CreatedOn, Of
  <1>2. \A n : Pending(n)' = Pending(n) /\ RejectedTokens(n)' = RejectedTokens(n)
    BY DEF Pending, Rejected, RejectedTokens, Of
  <1>3. ASSUME inferring'.note = inferring.note, found(inferring'.at) PROVE FindingsHold'
    BY <1>1, <1>2, <1>3 DEF FindingsHold, CapIsOpen, NoneIsPending, TextIsNew
  <1>4. ASSUME inferring'.at \in {"receive", "note", "cap"} PROVE FindingsHold'
    BY <1>4 DEF FindingsHold, CapIsOpen, NoneIsPending, TextIsNew
  <1>5. Stop => FindingsHold'
    BY <1>4 DEF Stop, NotInferring
  <1>6. CASE ReceiveNote
    <2>1. CASE UNCHANGED inferring
      BY <1>1, <1>2, <2>1 DEF FindingsHold, CapIsOpen, NoneIsPending, TextIsNew
    <2>2. CASE inferring' = [at |-> "note", note |-> Head(inferenceCh)]
      BY <1>4, <2>2
    <2> QED
      BY <1>6, <2>1, <2>2 DEF ReceiveNote
  <1>7. CASE ReadNote
    BY <1>4, <1>5, <1>7 DEF ReadNote
  <1>8. CASE CheckCap
    <2>1. CASE ~ (Cardinality(CreatedToday(inferring.note)) >= MaxRerunsPerDay) /\ Continue("pending")
      <3>1. inferring'.at = "pending" /\ inferring'.note = inferring.note
        BY <2>1, <1>8, HandGoesOn DEF CheckCap, Infers
      <3>2. CreatedOn(inferring.note, today) = CreatedToday(inferring.note)
        BY DEF CreatedOn, CreatedToday
      <3>3. Cardinality(CreatedOn(inferring.note, today)) < MaxRerunsPerDay
        BY <2>1, <3>2, CountsAreNumbers, InferenceAssumption
      <3> QED
        BY <1>3, <3>1, <3>3
    <2> QED
      BY <1>5, <1>8, <2>1 DEF CheckCap
  <1>9. CASE CheckPending
    <2>1. CASE Pending(inferring.note) = {} /\ Continue("rejection")
      <3>1. inferring'.at = "rejection" /\ inferring'.note = inferring.note
        BY <2>1, <1>9, HandGoesOn DEF CheckPending, Infers
      <3>2. Cardinality(CreatedOn(inferring.note, today)) < MaxRerunsPerDay
        BY <1>9 DEF CheckPending, Infers, FindingsHold, CapIsOpen
      <3> QED
        BY <1>3, <2>1, <3>1, <3>2
    <2> QED
      BY <1>5, <1>9, <2>1 DEF CheckPending
  <1>10. CASE CheckRejection
    <2>1. /\ Cardinality(CreatedOn(inferring.note, today)) < MaxRerunsPerDay
          /\ Pending(inferring.note) = {}
      BY <1>10 DEF CheckRejection, Infers, FindingsHold, CapIsOpen, NoneIsPending
    <2>2. CASE /\ TokensOf(inferring.note) \notin RejectedHash(inferring.note)
               /\ inferring'.at = "title" /\ inferring'.note = inferring.note
               /\ inferring'.compared = TokensOf(inferring.note)
      BY <1>3, <2>1, <2>2 DEF RejectedHash
    <2> QED
      BY <1>5, <1>10, <2>2 DEF CheckRejection
  <1>11. ASSUME inferring.at \in {"title", "project"}, inferring'.at \in {"project", "store"},
                inferring'.note = inferring.note, inferring'.compared = inferring.compared
         PROVE  FindingsHold'
    BY <1>3, <1>11 DEF FindingsHold, CapIsOpen, NoneIsPending, TextIsNew
  <1>12. CASE ReadTitle
    BY <1>11, <1>12 DEF ReadTitle, Infers
  <1>13. CASE ReadProject
    BY <1>5, <1>11, <1>13 DEF ReadProject, Infers
  <1>14. CASE InferenceFails
    BY <1>5, <1>14 DEF InferenceFails
  <1>15. CASE RestartEngine
    BY <1>4, <1>15 DEF RestartEngine, NotInferring
  <1> QED
    BY <1>6, <1>7, <1>8, <1>9, <1>10, <1>12, <1>13, <1>14, <1>15

(* A suggestion is stored behind the checks.                               *)
LEMMA StoringKeepsInv ==
  ASSUME InferenceInv, StoreInference
  PROVE  TablesAreKept' /\ FindingsHold'
  <1> DEFINE n == inferring.note
             last == Len(inferences)
             row == [note |-> n, title |-> inferring.title, project |-> inferring.project,
                     status |-> "pending", hash |-> None, day |-> today,
                     compared |-> inferring.compared]
  <1>1. /\ Cardinality(CreatedOn(n, today)) < MaxRerunsPerDay /\ Pending(n) = {}
        /\ inferring.compared \notin RejectedTokens(n)
    BY DEF StoreInference, Infers, InferenceInv, FindingsHold, CapIsOpen, NoneIsPending, TextIsNew
  <1>2. inferences' = Append(inferences, row) /\ today' = today /\ Stop
    BY <1>1 DEF StoreInference
  <1>3. FindingsHold'
    BY <1>2 DEF Stop, NotInferring, FindingsHold, CapIsOpen, NoneIsPending, TextIsNew
  <1>4. inferences \in Seq(Suggestion) /\ last \in Nat /\ DOMAIN inferences = 1..last
    BY DEF InferenceInv, InferenceTypes, RowsAreTyped
  <1>5. row.note = n /\ row.status = "pending" /\ row.day = today /\ row.compared = inferring.compared
    OBVIOUS
  <1> HIDE DEF row, n
  <1>6. /\ DOMAIN inferences' = 1..(last + 1) /\ inferences'[last + 1] = row
        /\ \A i \in 1..last : inferences'[i] = inferences[i]
        /\ last + 1 \notin 1..last /\ 1..(last + 1) = 1..last \cup {last + 1}
    BY <1>2, <1>4
  <1> HIDE DEF last
  <1>7. \A m : Rejected(m)' = Rejected(m)
    BY <1>4, <1>5, <1>6 DEF Rejected, Of
  <1>8. \A m : RejectedTokens(m)' = RejectedTokens(m)
    <2>1. \A m : \A i \in Rejected(m) : inferences'[i].hash = inferences[i].hash
      BY <1>4, <1>6 DEF Rejected, Of
    <2> QED
      BY <1>7, <2>1 DEF RejectedTokens
  <1>9. \A m : Pending(m)' = Pending(m) \cup (IF m = n THEN {last + 1} ELSE {})
    BY <1>4, <1>5, <1>6 DEF Pending, Of
  <1>10. OnePending'
    <2>1. \A i \in 1..last : inferences[i].status = "pending" => inferences[i].note # n
      BY <1>1, <1>4 DEF Pending, Of
    <2> QED
      BY <1>4, <1>5, <1>6, <2>1 DEF OnePending, InferenceInv, TablesAreKept
  <1>11. RejectedTextIsLeftAlone'
    <2> SUFFICES ASSUME NEW m \in Notes, NEW i \in Pending(m)'
                 PROVE  inferences'[i].compared \notin RejectedTokens(m)'
      BY DEF RejectedTextIsLeftAlone
    <2>1. CASE i \in Pending(m)
      <3>1. inferences'[i] = inferences[i]
        BY <1>4, <1>6, <2>1 DEF Pending, Of
      <3> QED
        BY <1>8, <2>1, <3>1 DEF RejectedTextIsLeftAlone, InferenceInv, TablesAreKept
    <2>2. CASE i = last + 1 /\ m = n
      BY <1>1, <1>5, <1>6, <1>8, <2>2
    <2> QED
      BY <1>9, <2>1, <2>2
  <1>12. CapIsKept'
    <2> SUFFICES ASSUME NEW m \in Notes, NEW d \in 1..today
                 PROVE  Cardinality(CreatedOn(m, d)') <= MaxRerunsPerDay
      BY <1>2 DEF CapIsKept
    <2>1. IsFiniteSet(CreatedOn(m, d)) /\ Cardinality(CreatedOn(m, d)) \in Nat
      BY CountsAreNumbers DEF InferenceInv
    <2>2. CASE m = n /\ d = today
      <3>1. CreatedOn(m, d)' = CreatedOn(m, d) \cup {last + 1}
        BY <1>4, <1>5, <1>6, <2>2 DEF CreatedOn, Of
      <3>2. Cardinality(CreatedOn(m, d)') <= Cardinality(CreatedOn(m, d)) + 1
        BY <2>1, <3>1, FS_AddElement
      <3>3. Cardinality(CreatedOn(m, d)') \in Nat
        BY <2>1, <3>1, FS_AddElement, FS_CardinalityType
      <3> QED
        BY <1>1, <2>1, <2>2, <3>2, <3>3, InferenceAssumption
    <2>3. CASE ~ (m = n /\ d = today)
      <3>1. CreatedOn(m, d)' = CreatedOn(m, d)
        BY <1>4, <1>5, <1>6, <2>3 DEF CreatedOn, Of
      <3> QED
        BY <3>1 DEF CapIsKept, InferenceInv, TablesAreKept
    <2> QED
      BY <2>2, <2>3
  <1> QED
    BY <1>3, <1>10, <1>11, <1>12 DEF TablesAreKept

(* A new day begins without suggestions.                                   *)
LEMMA NewDayKeepsInv ==
  ASSUME InferenceInv, NextDay
  PROVE  TablesAreKept' /\ FindingsHold'
  <1>1. today' = today + 1 /\ UNCHANGED <<inferences, inferring>>
    BY DEF NextDay
  <1>2. today \in Nat /\ \A i \in DOMAIN inferences : inferences[i].day \in 1..today
    BY DEF InferenceInv, InferenceTypes, RowsAreTyped, CountsAreTyped
  <1>3. \A m, d : CreatedOn(m, d)' = CreatedOn(m, d)
    BY <1>1 DEF CreatedOn, Of
  <1>4. \A m : Cardinality(CreatedOn(m, today + 1)) = 0
    <2>1. \A m : CreatedOn(m, today + 1) = {}
      BY <1>2 DEF CreatedOn, Of
    <2> QED
      BY <2>1, FS_EmptySet
  <1>5. CapIsKept'
    <2> SUFFICES ASSUME NEW m \in Notes, NEW d \in 1..(today + 1)
                 PROVE  Cardinality(CreatedOn(m, d)) <= MaxRerunsPerDay
      BY <1>1, <1>3 DEF CapIsKept
    <2>1. CASE d \in 1..today
      BY <2>1 DEF CapIsKept, InferenceInv, TablesAreKept
    <2>2. CASE d = today + 1
      BY <1>4, <2>2, InferenceAssumption
    <2> QED
      BY <1>2, <2>1, <2>2
  <1>6. CapIsOpen'
    <2> SUFFICES ASSUME inferring.at \in {"pending", "rejection", "title", "project", "store"}
                 PROVE  Cardinality(CreatedOn(inferring.note, today + 1)) < MaxRerunsPerDay
      BY <1>1, <1>3 DEF CapIsOpen
    <2>1. Cardinality(CreatedOn(inferring.note, today)) < MaxRerunsPerDay
      BY DEF InferenceInv, FindingsHold, CapIsOpen
    <2> QED
      BY <1>4, <2>1, CountsAreNumbers, InferenceAssumption DEF InferenceInv
  <1> QED
    BY <1>1, <1>5, <1>6 DEF InferenceInv, TablesAreKept, FindingsHold, OnePending, RejectedTextIsLeftAlone,
      NoneIsPending, TextIsNew, RejectedTokens, Pending, Rejected, Of

(* A decision takes the one pending suggestion of its note away.           *)
LEMMA DecisionKeepsInv ==
  ASSUME InferenceInv, NEW i \in DOMAIN inferences, NEW status \in {"accepted", "rejected"}, NEW tokens,
         inferences[i].status = "pending",
         inferences' = [inferences EXCEPT ![i] = [@ EXCEPT !.status = status, !.hash = tokens]],
         UNCHANGED <<inferring, today>>
  PROVE  TablesAreKept' /\ FindingsHold'
  <1> DEFINE n == inferences[i].note
  <1>1. inferences[i] \in Suggestion /\ DOMAIN inferences' = DOMAIN inferences
    BY DEF InferenceInv, InferenceTypes, RowsAreTyped
  <1>2. /\ inferences'[i].status = status /\ inferences'[i].note = n
        /\ inferences'[i].day = inferences[i].day
        /\ \A j \in DOMAIN inferences \ {i} : inferences'[j] = inferences[j]
    BY <1>1 DEF Suggestion
  <1> HIDE DEF n
  <1>3. \A m, d : CreatedOn(m, d)' = CreatedOn(m, d)
    BY <1>1, <1>2 DEF CreatedOn, Of, n
  <1>4. \A m : Pending(m)' = Pending(m) \ {i}
    BY <1>1, <1>2 DEF Pending, Of, n
  <1>5. Pending(n) = {i}
    BY DEF Pending, Of, n, InferenceInv, TablesAreKept, OnePending
  <1>6. ASSUME NEW m, m # n PROVE RejectedTokens(m)' = RejectedTokens(m)
    <2>1. Rejected(m)' = Rejected(m) /\ i \notin Rejected(m) /\ Rejected(m) \subseteq DOMAIN inferences
      BY <1>1, <1>2, <1>6 DEF Rejected, Of, n
    <2>2. \A j \in Rejected(m) : inferences'[j].hash = inferences[j].hash
      BY <1>2, <2>1
    <2> QED
      BY <2>1, <2>2 DEF RejectedTokens
  <1>7. CapIsKept' /\ CapIsOpen'
    BY <1>3 DEF InferenceInv, TablesAreKept, FindingsHold, CapIsKept, CapIsOpen
  <1>8. OnePending'
    BY <1>1, <1>2, <1>5 DEF OnePending, Pending, Of, n, InferenceInv, TablesAreKept
  <1>9. RejectedTextIsLeftAlone'
    <2> SUFFICES ASSUME NEW m \in Notes, NEW j \in Pending(m) \ {i}
                 PROVE  inferences'[j].compared \notin RejectedTokens(m)'
      BY <1>4 DEF RejectedTextIsLeftAlone
    <2>1. m # n /\ inferences'[j] = inferences[j]
      BY <1>2, <1>5 DEF Pending, Of
    <2> QED
      BY <1>6, <2>1 DEF RejectedTextIsLeftAlone, InferenceInv, TablesAreKept
  <1>10. NoneIsPending' /\ TextIsNew'
    <2>1. NoneIsPending'
      BY <1>4 DEF NoneIsPending, InferenceInv, FindingsHold
    <2>2. ASSUME inferring.at \in {"title", "project", "store"}
          PROVE  RejectedTokens(inferring.note)' = RejectedTokens(inferring.note)
      BY <1>5, <1>6, <2>2 DEF NoneIsPending, InferenceInv, FindingsHold
    <2> QED
      BY <2>1, <2>2 DEF TextIsNew, InferenceInv, FindingsHold
  <1> QED
    BY <1>7, <1>8, <1>9, <1>10 DEF TablesAreKept, FindingsHold

LEMMA InferenceInvStep == InferenceInv /\ [InferenceNext]_inferVars => InferenceInv'
  <1> SUFFICES ASSUME InferenceInv, [InferenceNext]_inferVars PROVE TablesAreKept' /\ FindingsHold'
    BY InferenceTypesStep DEF InferenceInv
  <1>0. InferenceTypes /\ TablesAreKept /\ FindingsHold
    BY DEF InferenceInv
  <1>1. ASSUME NEW n \in Notes,
               \/ \E w \in Topics \cup {None} : Write(n, w)
               \/ \E v \in Titles \cup {None} : SetTitle(n, v)
               \/ \E p \in Projects \cup {None} : SetProject(n, p)
               \/ StampBursts(n)
        PROVE  TablesAreKept' /\ FindingsHold'
    BY <1>0, <1>1, OthersKeepFindings DEF Write, SetTitle, SetProject, StampBursts
  <1>2. CASE NextDay
    BY <1>2, NewDayKeepsInv
  <1>3. CASE StoreInference
    BY <1>3, StoringKeepsInv
  <1>4. CASE \/ ReceiveNote \/ ReadNote \/ CheckCap \/ CheckPending \/ CheckRejection
             \/ ReadTitle \/ ReadProject \/ InferenceFails \/ RestartEngine
    <2>1. UNCHANGED <<inferences, today>>
      BY <1>4 DEF ReceiveNote, ReadNote, CheckCap, CheckPending, CheckRejection, ReadTitle, ReadProject,
                  InferenceFails, RestartEngine, RunnerReads
    <2> QED
      BY <1>0, <1>4, <2>1, QueriesKeepFindings, TablesStay
  <1>5. ASSUME NEW i \in DOMAIN inferences, NEW acceptTitle, NEW acceptProject,
               AcceptInference(i, acceptTitle, acceptProject)
        PROVE  TablesAreKept' /\ FindingsHold'
    <2>1. inferences[i] \in Suggestion
      BY <1>0 DEF InferenceTypes, RowsAreTyped
    <2>2. inferences' = [inferences EXCEPT ![i] = [@ EXCEPT !.status = "accepted", !.hash = inferences[i].hash]]
      BY <1>5, <2>1 DEF AcceptInference, Suggestion
    <2> QED
      BY <1>5, <2>2, DecisionKeepsInv DEF AcceptInference
  <1>6. ASSUME NEW i \in DOMAIN inferences, NEW acceptProject, AcceptFails(i, acceptProject)
        PROVE  TablesAreKept' /\ FindingsHold'
    BY <1>0, <1>6, OthersKeepFindings DEF AcceptFails
  <1>7. ASSUME NEW i \in DOMAIN inferences, RejectInference(i)
        PROVE  TablesAreKept' /\ FindingsHold'
    <2>1. inferences' = [inferences EXCEPT ![i] =
                           [@ EXCEPT !.status = "rejected", !.hash = TokensOf(inferences[i].note)]]
      BY <1>7 DEF RejectInference
    <2> QED
      BY <1>7, <2>1, DecisionKeepsInv DEF RejectInference
  <1>8. CASE UNCHANGED inferVars
    BY <1>0, <1>8, OthersKeepFindings DEF inferVars
  <1> QED
    BY <1>1, <1>2, <1>3, <1>4, <1>5, <1>6, <1>7, <1>8 DEF InferenceNext, InferenceRunner

(* However often a note is offered to the runner, and whatever is decided  *)
(* between the checks of runInferenceForNote and its insertion, a note has *)
(* one pending suggestion at most and no more of a day than the cap.       *)
THEOREM SuggestionsStayLimited == InferenceSpec => []SuggestionsAreLimited
  <1>1. InferenceInv => SuggestionsAreLimited
    <2> SUFFICES ASSUME InferenceInv, NEW n \in Notes
                 PROVE  /\ Cardinality(Pending(n)) <= 1
                        /\ \A d \in 1..today : Cardinality({i \in Of(n) : inferences[i].day = d}) <= MaxRerunsPerDay
      BY DEF SuggestionsAreLimited
    <2>1. \A i, j \in Pending(n) : i = j
      BY DEF Pending, Of, InferenceInv, TablesAreKept, OnePending
    <2>2. Cardinality(Pending(n)) <= 1
      <3>1. CASE Pending(n) = {}
        BY <3>1, FS_EmptySet
      <3>2. ASSUME NEW i, Pending(n) = {i} PROVE Cardinality(Pending(n)) <= 1
        <4>1. Cardinality({i}) = 1
          BY FS_Singleton
        <4> QED
          BY <3>2, <4>1
      <3> QED
        BY <2>1, <3>1, <3>2
    <2> QED
      BY <2>2 DEF InferenceInv, TablesAreKept, CapIsKept, CreatedOn
  <1> QED
    BY InferenceInvInit, InferenceInvStep, <1>1, PTL DEF InferenceSpec

(* A pending suggestion was never made from the text that the last         *)
(* rejection of its note recorded (shouldSkipDueToRejection).              *)
THEOREM RejectionsAreRespected == InferenceSpec => []RejectedTextIsLeftAlone
  <1>1. InferenceInv => RejectedTextIsLeftAlone
    BY DEF InferenceInv, TablesAreKept
  <1> QED
    BY InferenceInvInit, InferenceInvStep, <1>1, PTL DEF InferenceSpec

-----------------------------------------------------------------------------
(* The note analysis runner: its types.                                    *)
(* Every row of the poll and every run is about a note, with a head that   *)
(* its events reach.                                                       *)
Heads == 0..MaxEvents

PolledRow == [note : Notes, seq : Heads, place : Places]

HandIsTyped ==
  \/ hand = Empty
  \/ hand \in [at : {"bare", "analysis", "peers"}, note : Notes, seq : Heads, place : Places,
               of : Heads, subject : Subjects \cup {None}]
  \/ /\ hand.at \in {"delete", "insert"} /\ hand.note \in Notes
     /\ DOMAIN hand.scored \subseteq Notes \ {hand.note}
     /\ \A m \in DOMAIN hand.scored : hand.scored[m] \in Kin

WriterIsTyped ==
  /\ headSeq \in [Notes -> Heads] /\ content \in [Notes -> NoteText]
  /\ place \in [Notes -> Places] /\ gone \subseteq Notes
  /\ recency \in SetToSeqs(Notes)
  /\ committing \in Notes \cup {None} /\ (committing # None => headSeq[committing] < MaxEvents)

IsTypedFor(n) ==
  analyses[n] = NotAnalysed \/ analyses[n] \in
    [seq : Heads, of : Heads, subject : Subjects \cup {None}, place : Places]

AnalysesAreTyped == DOMAIN analyses = Notes /\ \A n \in Notes : IsTypedFor(n)

RelationsAreTyped ==
  /\ DOMAIN noteRelations = Notes
  /\ \A n \in Notes :
       /\ DOMAIN noteRelations[n] \subseteq Notes \ {n}
       /\ \A m \in DOMAIN noteRelations[n] : noteRelations[n][m] \in Kin

PollIsTyped == polled \in Seq(PolledRow)

AnalysisTypes ==
  /\ WriterIsTyped /\ AnalysesAreTyped /\ RelationsAreTyped /\ PollIsTyped /\ HandIsTyped
  /\ unrelated \subseteq Notes /\ incidents \in 0..MaxIncidents

Selecting == INSTANCE Folding WITH op <- AddIfBehind

(* The poll finds notes, in the order that it lists them.                  *)
LEMMA DueNotes ==
  ASSUME recency \in Seq(Notes)
  PROVE  Due \in Seq(Notes)
  <1> DEFINE rows == FoldLeft(AddIfBehind, << >>, recency)
  <1>1. rows = Selecting!Folded(<< >>, recency)
    BY DEF Selecting!Folded, FoldLeft, Selecting!FoldLeft,
           MapThenFoldSet, Selecting!MapThenFoldSet, Max, Selecting!Max
  <1>2. \A r \in Seq(Notes), n \in Notes : AddIfBehind(r, n) \in Seq(Notes)
    BY DEF AddIfBehind
  <1>3. Selecting!Folded(<< >>, recency) \in Seq(Notes)
    <2>1. << >> \in Seq(Notes)
      OBVIOUS
    <2> QED
      BY <1>2, <2>1, Selecting!FoldStaysWithin
  <1> HIDE DEF rows
  <1>4. rows \in Seq(Notes)
    BY <1>1, <1>3
  <1>5. Due = SubSeq(rows, 1, IF Len(rows) < PollLimit THEN Len(rows) ELSE PollLimit)
    BY DEF Due, rows
  <1> QED
    BY <1>4, <1>5, AnalysisAssumption

(* A sequence whose k-th element is taken out and put at its end.           *)
LEMMA MovedToTheEnd ==
  ASSUME NEW S, NEW r \in Seq(S), NEW k \in 1..Len(r), NEW x \in S
  PROVE  LET moved == Append(RemoveAt(r, k), x)
         IN  /\ moved \in [1..Len(r) -> S]
             /\ \A i \in 1..Len(r) : moved[i] = IF i < k THEN r[i] ELSE IF i < Len(r) THEN r[i + 1] ELSE x
  <1> DEFINE a == SubSeq(r, 1, k - 1)
             b == SubSeq(r, k + 1, Len(r))
             moved == Append(RemoveAt(r, k), x)
  <1>1. a \in Seq(S) /\ Len(a) = k - 1 /\ \A i \in 1..(k - 1) : a[i] = r[i]
    OBVIOUS
  <1>2. b \in Seq(S) /\ Len(b) = Len(r) - k /\ \A i \in 1..(Len(r) - k) : b[i] = r[k + i]
    OBVIOUS
  <1>3. moved = Append(a \o b, x)
    BY DEF RemoveAt
  <1>4. Len(r) \in Nat /\ k \in Nat /\ 1 <= k /\ k <= Len(r)
    OBVIOUS
  <1> HIDE DEF a, b, moved
  <1>5. a \o b \in Seq(S) /\ Len(a \o b) = Len(r) - 1
    <2>1. a \in Seq(S) /\ b \in Seq(S)
      BY <1>1, <1>2
    <2>2. a \o b \in Seq(S) /\ Len(a \o b) = Len(a) + Len(b)
      BY <2>1
    <2> QED
      BY <1>1, <1>2, <1>4, <2>2
  <1>6. \A i \in 1..(Len(r) - 1) : (a \o b)[i] = IF i < k THEN r[i] ELSE r[i + 1]
    <2>1. ASSUME NEW i \in 1..(Len(r) - 1), i < k PROVE (a \o b)[i] = r[i]
      BY <1>1, <1>2, <1>4, <2>1
    <2>2. ASSUME NEW i \in 1..(Len(r) - 1), ~ (i < k) PROVE (a \o b)[i] = r[i + 1]
      <3>1. (a \o b)[i] = b[i - (k - 1)] /\ i - (k - 1) \in 1..(Len(r) - k)
        BY <1>1, <1>2, <1>4, <2>2
      <3> QED
        BY <1>2, <1>4, <3>1
    <2> QED
      BY <2>1, <2>2
  <1>7. moved \in Seq(S) /\ Len(moved) = Len(r) /\ moved[Len(r)] = x
        /\ \A i \in 1..(Len(r) - 1) : moved[i] = (a \o b)[i]
    BY <1>3, <1>4, <1>5
  <1>8. moved \in [1..Len(r) -> S]
    BY <1>7
  <1>9. \A i \in 1..Len(r) : moved[i] = IF i < k THEN r[i] ELSE IF i < Len(r) THEN r[i + 1] ELSE x
    <2> SUFFICES ASSUME NEW i \in 1..Len(r)
                 PROVE  moved[i] = IF i < k THEN r[i] ELSE IF i < Len(r) THEN r[i + 1] ELSE x
      OBVIOUS
    <2>1. CASE i = Len(r)
      BY <1>4, <1>7, <2>1
    <2>2. CASE i # Len(r)
      <3>1. i \in 1..(Len(r) - 1) /\ i < Len(r)
        BY <1>4, <2>2
      <3>2. moved[i] = (a \o b)[i]
        BY <1>7, <3>1
      <3> QED
        BY <1>6, <3>1, <3>2
    <2> QED
      BY <2>1, <2>2
  <1> QED
    BY <1>8, <1>9 DEF moved

(* A note that is moved to the end of the order leaves it one.             *)
LEMMA OrderStays ==
  ASSUME recency \in SetToSeqs(Notes), NEW n \in Notes, Touched(n)
  PROVE  recency' \in SetToSeqs(Notes)
  <1> DEFINE c == Cardinality(Notes)
  <1>1. c \in Nat
    BY AnalysisAssumption, FS_CardinalityType
  <1>2. recency \in [1..c -> Notes] /\ \A i, j \in 1..c : i # j => recency[i] # recency[j]
    BY DEF SetToSeqs
  <1> HIDE DEF c
  <1>3. PICK k \in 1..c : recency[k] = n /\ recency' = Append(RemoveAt(recency, k), n)
    BY <1>2 DEF Touched
  <1>4. recency \in Seq(Notes) /\ Len(recency) = c
    BY <1>1, <1>2
  <1>5. recency' \in [1..c -> Notes]
        /\ \A i \in 1..c : recency'[i] = IF i < k THEN recency[i] ELSE IF i < c THEN recency[i + 1] ELSE n
    <2>1. k \in 1..Len(recency)
      BY <1>4
    <2>2. /\ Append(RemoveAt(recency, k), n) \in [1..Len(recency) -> Notes]
          /\ \A i \in 1..Len(recency) :
               Append(RemoveAt(recency, k), n)[i]
                 = IF i < k THEN recency[i] ELSE IF i < Len(recency) THEN recency[i + 1] ELSE n
      BY <1>4, <2>1, MovedToTheEnd
    <2> QED
      BY <1>3, <1>4, <2>2, Zenon
  <1>6. \A i, j \in 1..c : i # j => recency'[i] # recency'[j]
    BY <1>1, <1>2, <1>3, <1>5
  <1> QED
    BY <1>5, <1>6 DEF SetToSeqs, c

LEMMA AnalysisTypesInit == AnalysisInit => AnalysisTypes
  <1> SUFFICES ASSUME AnalysisInit PROVE AnalysisTypes
    OBVIOUS
  <1> USE AnalysisAssumption DEF AnalysisInit
  <1>1. WriterIsTyped
    BY DEF WriterIsTyped, NoteText, Heads
  <1>2. AnalysesAreTyped /\ RelationsAreTyped
    BY DEF AnalysesAreTyped, IsTypedFor, RelationsAreTyped
  <1>3. PollIsTyped /\ HandIsTyped
    BY DEF PollIsTyped, HandIsTyped
  <1> QED
    BY <1>1, <1>2, <1>3 DEF AnalysisTypes

(* While there is room for an event, the head of no note is at the bound.  *)
LEMMA RoomForAnEvent ==
  ASSUME headSeq \in [Notes -> Heads], Cardinality(Stored) < MaxEvents, NEW n \in Notes
  PROVE  headSeq[n] < MaxEvents
  <1> SUFFICES ASSUME headSeq[n] = MaxEvents PROVE FALSE
    BY AnalysisAssumption DEF Heads
  <1> DEFINE own == {<<n, k>> : k \in 1..MaxEvents}
  <1>1. MaxEvents \in Nat
    BY AnalysisAssumption
  <1>2. own \subseteq Stored
    BY <1>1 DEF Stored
  <1>3. IsFiniteSet(Stored)
    <2>1. IsFiniteSet(Notes \X (1..MaxEvents))
      <3>1. IsFiniteSet(1..MaxEvents)
        BY <1>1, FS_Interval
      <3> HIDE DEF own
      <3> QED
        BY <3>1, AnalysisAssumption, FS_Product
    <2> QED
      BY <2>1, FS_Subset DEF Stored
  <1>4. IsFiniteSet(own) /\ Cardinality(own) <= Cardinality(Stored)
    BY <1>2, <1>3, FS_Subset
  <1>5. Cardinality(own) = MaxEvents
    <2>1. IsFiniteSet(1..MaxEvents) /\ Cardinality(1..MaxEvents) = MaxEvents
      BY <1>1, FS_Interval
    <2>2. own = {n} \X (1..MaxEvents)
      OBVIOUS
    <2>3. IsFiniteSet({n}) /\ Cardinality({n}) = 1
      BY FS_Singleton
    <2> HIDE DEF own
    <2>4. Cardinality({n} \X (1..MaxEvents)) = 1 * MaxEvents
      BY <2>1, <2>3, FS_Product
    <2> QED
      BY <1>1, <2>2, <2>4
  <1> QED
    BY <1>1, <1>3, <1>4, <1>5, FS_CardinalityType

LEMMA WriterKeepsAnalysisTypes ==
  ASSUME AnalysisTypes, WriterIsTyped', incidents' \in 0..MaxIncidents,
         UNCHANGED <<analyses, noteRelations, polled, hand, unrelated>>
  PROVE  AnalysisTypes'
  <1>1. AnalysesAreTyped' /\ RelationsAreTyped'
    BY DEF AnalysisTypes, AnalysesAreTyped, IsTypedFor, RelationsAreTyped
  <1>2. PollIsTyped' /\ HandIsTyped'
    BY DEF AnalysisTypes, PollIsTyped, HandIsTyped
  <1> QED
    BY <1>1, <1>2 DEF AnalysisTypes

LEMMA IncidentsAreCounted ==
  ASSUME AnalysisTypes, Incident
  PROVE  incidents' \in 0..MaxIncidents
  BY AnalysisAssumption DEF AnalysisTypes, Incident

LEMMA CommitTextKeepsTypes ==
  ASSUME AnalysisTypes, NEW n \in Notes, NEW subject \in Subjects, CommitText(n, subject)
  PROVE  AnalysisTypes'
  <1>1. headSeq[n] \in Heads /\ headSeq[n] < MaxEvents
    BY RoomForAnEvent DEF CommitText, AnalysisTypes, WriterIsTyped
  <1>2. headSeq[n] + 1 \in 0..MaxEvents
    BY <1>1, AnalysisAssumption DEF Heads
  <1>3. content' \in [Notes -> NoteText]
    BY <1>2 DEF CommitText, AnalysisTypes, WriterIsTyped, NoteText
  <1>4. WriterIsTyped'
    BY <1>1, <1>3 DEF CommitText, AnalysisTypes, WriterIsTyped
  <1> QED
    BY <1>4, WriterKeepsAnalysisTypes DEF CommitText, runnerState, AnalysisTypes

LEMMA CommitHeadKeepsTypes == AnalysisTypes /\ CommitHead => AnalysisTypes'
  <1> SUFFICES ASSUME AnalysisTypes, CommitHead PROVE AnalysisTypes'
    OBVIOUS
  <1>1. committing \in Notes /\ headSeq[committing] + 1 \in Heads
    BY AnalysisAssumption DEF CommitHead, AnalysisTypes, WriterIsTyped, Heads
  <1>2. headSeq' \in [Notes -> Heads]
    BY <1>1 DEF CommitHead, AnalysisTypes, WriterIsTyped
  <1>3. recency' \in SetToSeqs(Notes)
    BY <1>1, OrderStays DEF CommitHead, AnalysisTypes, WriterIsTyped
  <1>4. WriterIsTyped'
    BY <1>2, <1>3 DEF CommitHead, AnalysisTypes, WriterIsTyped
  <1> QED
    BY <1>4, WriterKeepsAnalysisTypes DEF CommitHead, runnerState, AnalysisTypes

LEMMA IncidentsKeepTypes ==
  ASSUME AnalysisTypes,
         \/ CommitCutShort
         \/ \E n \in Notes : FlipDeleted(n) \/ \E p \in Places : MoveNote(n, p)
  PROVE  AnalysisTypes'
  <1>1. CASE CommitCutShort
    <2>1. WriterIsTyped'
      BY <1>1 DEF CommitCutShort, AnalysisTypes, WriterIsTyped
    <2>2. incidents' \in 0..MaxIncidents
      BY <1>1, IncidentsAreCounted DEF CommitCutShort
    <2> QED
      BY <1>1, <2>1, <2>2, WriterKeepsAnalysisTypes DEF CommitCutShort, runnerState
  <1>2. ASSUME NEW n \in Notes, FlipDeleted(n) PROVE AnalysisTypes'
    <2>1. recency' \in SetToSeqs(Notes)
      BY <1>2, OrderStays DEF FlipDeleted, AnalysisTypes, WriterIsTyped
    <2>2. WriterIsTyped'
      BY <1>2, <2>1 DEF FlipDeleted, AnalysisTypes, WriterIsTyped
    <2>3. incidents' \in 0..MaxIncidents
      BY <1>2, IncidentsAreCounted DEF FlipDeleted
    <2> QED
      BY <1>2, <2>2, <2>3, WriterKeepsAnalysisTypes DEF FlipDeleted, runnerState
  <1>3. ASSUME NEW n \in Notes, NEW p \in Places, MoveNote(n, p) PROVE AnalysisTypes'
    <2>1. recency' \in SetToSeqs(Notes)
      BY <1>3, OrderStays DEF MoveNote, AnalysisTypes, WriterIsTyped
    <2>2. WriterIsTyped'
      BY <1>3, <2>1 DEF MoveNote, AnalysisTypes, WriterIsTyped
    <2>3. incidents' \in 0..MaxIncidents
      BY <1>3, IncidentsAreCounted DEF MoveNote
    <2> QED
      BY <1>3, <2>2, <2>3, WriterKeepsAnalysisTypes DEF MoveNote, runnerState
  <1> QED
    BY <1>1, <1>2, <1>3

(* A step of the runner leaves the writer's columns alone.                 *)
LEMMA RunnerKeepsEditTypes ==
  ASSUME AnalysisTypes, UNCHANGED <<headSeq, content, place, gone, recency>>,
         committing' \in {committing, None}
  PROVE  WriterIsTyped'
  BY DEF AnalysisTypes, WriterIsTyped

LEMMA OrderListsNotes ==
  ASSUME AnalysisTypes
  PROVE  recency \in Seq(Notes)
  <1>1. Cardinality(Notes) \in Nat /\ recency \in [1..Cardinality(Notes) -> Notes]
    BY AnalysisAssumption, FS_CardinalityType DEF AnalysisTypes, WriterIsTyped, SetToSeqs
  <1> QED
    BY <1>1

LEMMA PollKeepsTypes == AnalysisTypes /\ PollNotes => AnalysisTypes'
  <1> SUFFICES ASSUME AnalysisTypes, PollNotes PROVE AnalysisTypes'
    OBVIOUS
  <1>1. Due \in Seq(Notes)
    BY OrderListsNotes, DueNotes
  <1>2. \A k \in DOMAIN Due : Due[k] \in Notes
    BY <1>1
  <1>3. polled' \in Seq(PolledRow)
    <2> DEFINE Row(k) == [note |-> Due[k], seq |-> headSeq[Due[k]], place |-> place[Due[k]]]
    <2>1. \A k \in DOMAIN Due : Row(k) \in PolledRow
      BY <1>2 DEF AnalysisTypes, WriterIsTyped, PolledRow
    <2>2. polled' = [k \in DOMAIN Due |-> Row(k)]
      BY DEF PollNotes
    <2>3. Len(Due) \in Nat /\ DOMAIN Due = 1..Len(Due)
      BY <1>1
    <2> HIDE DEF Row
    <2> QED
      BY <2>1, <2>2, <2>3
  <1>4. WriterIsTyped'
    BY RunnerKeepsEditTypes DEF PollNotes, editVars
  <1>5. AnalysesAreTyped' /\ RelationsAreTyped' /\ HandIsTyped'
    BY DEF AnalysisTypes, AnalysesAreTyped, IsTypedFor, RelationsAreTyped, HandIsTyped, PollNotes
  <1> QED
    BY <1>3, <1>4, <1>5 DEF AnalysisTypes, PollIsTyped, PollNotes

LEMMA TakeRowKeepsTypes == AnalysisTypes /\ TakeRow => AnalysisTypes'
  <1> SUFFICES ASSUME AnalysisTypes, TakeRow PROVE AnalysisTypes'
    OBVIOUS
  <1>1. polled # << >> /\ polled' = Tail(polled)
    BY DEF TakeRow
  <1>2. Head(polled) \in PolledRow /\ polled' \in Seq(PolledRow)
    BY <1>1 DEF AnalysisTypes, PollIsTyped
  <1> DEFINE row == Head(polled)
  <1>3. row.note \in Notes /\ row.seq \in Heads /\ row.place \in Places
    BY <1>2 DEF PolledRow
  <1>4. content[row.note].of \in Heads /\ content[row.note].subject \in Subjects \cup {None}
    BY <1>3 DEF AnalysisTypes, WriterIsTyped, NoteText, Heads
  <1>5. PICK bare \in BOOLEAN :
          hand' = [at |-> IF bare THEN "bare" ELSE "analysis",
                   note |-> row.note, seq |-> row.seq, place |-> row.place, of |-> content[row.note].of,
                   subject |-> IF bare THEN None ELSE content[row.note].subject]
    BY DEF TakeRow
  <1> HIDE DEF row
  <1>6. HandIsTyped'
    BY <1>3, <1>4, <1>5 DEF HandIsTyped
  <1>7. WriterIsTyped'
    BY RunnerKeepsEditTypes DEF TakeRow, editVars
  <1>8. AnalysesAreTyped' /\ RelationsAreTyped'
    BY DEF AnalysisTypes, AnalysesAreTyped, IsTypedFor, RelationsAreTyped, TakeRow
  <1> QED
    BY <1>2, <1>6, <1>7, <1>8 DEF AnalysisTypes, PollIsTyped, TakeRow

(* Storing an analysis.                                                    *)
LEMMA StoreKeepsTypes == AnalysisTypes /\ (StoreBareAnalysis \/ StoreAnalysis) => AnalysisTypes'
  <1> SUFFICES ASSUME AnalysisTypes, StoreBareAnalysis \/ StoreAnalysis PROVE AnalysisTypes'
    OBVIOUS
  <1>1. hand \in [at : {"bare", "analysis", "peers"}, note : Notes, seq : Heads, place : Places,
                  of : Heads, subject : Subjects \cup {None}]
    BY DEF AnalysisTypes, HandIsTyped, StoreBareAnalysis, StoreAnalysis, Has, Empty
  <1>2. analyses' = Analysed
    BY DEF StoreBareAnalysis, StoreAnalysis
  <1>3. AnalysesAreTyped'
    <2>1. DOMAIN analyses' = Notes
      BY <1>2 DEF Analysed, AnalysisTypes, AnalysesAreTyped
    <2>2. ASSUME NEW n \in Notes PROVE IsTypedFor(n)'
      BY <1>1, <1>2 DEF Analysed, AnalysisTypes, AnalysesAreTyped, IsTypedFor
    <2> QED
      BY <2>1, <2>2 DEF AnalysesAreTyped
  <1>4. HandIsTyped'
    <2>1. hand' = Empty \/ hand' = [hand EXCEPT !.at = "peers"]
      BY DEF StoreBareAnalysis, StoreAnalysis
    <2> QED
      BY <1>1, <2>1 DEF HandIsTyped
  <1>5. WriterIsTyped'
    BY RunnerKeepsEditTypes DEF StoreBareAnalysis, StoreAnalysis, editVars
  <1>6. RelationsAreTyped' /\ PollIsTyped'
    BY DEF AnalysisTypes, RelationsAreTyped, PollIsTyped, StoreBareAnalysis, StoreAnalysis
  <1> QED
    BY <1>3, <1>4, <1>5, <1>6 DEF AnalysisTypes, StoreBareAnalysis, StoreAnalysis

LEMMA LoadPeersKeepsTypes == AnalysisTypes /\ LoadPeers => AnalysisTypes'
  <1> SUFFICES ASSUME AnalysisTypes, LoadPeers PROVE AnalysisTypes'
    OBVIOUS
  <1>1. hand.note \in Notes
    BY DEF AnalysisTypes, HandIsTyped, LoadPeers, Empty
  <1> DEFINE peers == PeersOf(hand.note, hand.place, hand.subject)
             scored == [m \in peers |-> <<hand.subject, analyses[m].subject>>]
  <1>2. peers \subseteq Notes \ {hand.note} /\ \A m \in peers : <<hand.subject, analyses[m].subject>> \in Kin
    BY DEF PeersOf
  <1>3. hand' = [at |-> "delete", note |-> hand.note, scored |-> scored]
    BY DEF LoadPeers
  <1>4. DOMAIN scored = peers /\ \A m \in peers : scored[m] \in Kin
    BY <1>2
  <1> HIDE DEF peers, scored
  <1>5. HandIsTyped'
    BY <1>1, <1>2, <1>3, <1>4 DEF HandIsTyped
  <1>6. WriterIsTyped'
    BY RunnerKeepsEditTypes DEF LoadPeers, editVars
  <1>7. AnalysesAreTyped' /\ RelationsAreTyped' /\ PollIsTyped'
    BY DEF AnalysisTypes, AnalysesAreTyped, IsTypedFor, RelationsAreTyped, PollIsTyped, LoadPeers
  <1> QED
    BY <1>5, <1>6, <1>7 DEF AnalysisTypes, LoadPeers

LEMMA RelationsKeepTypes == AnalysisTypes /\ (DeleteRelations \/ InsertNoteRelations) => AnalysisTypes'
  <1> SUFFICES ASSUME AnalysisTypes, DeleteRelations \/ InsertNoteRelations PROVE AnalysisTypes'
    OBVIOUS
  <1>1. /\ hand.at \in {"delete", "insert"} /\ hand.note \in Notes
        /\ DOMAIN hand.scored \subseteq Notes \ {hand.note}
        /\ \A m \in DOMAIN hand.scored : hand.scored[m] \in Kin
    BY DEF AnalysisTypes, HandIsTyped, DeleteRelations, InsertNoteRelations, Has, Empty
  <1>2. PICK rows \in {<< >>, hand.scored} : noteRelations' = [noteRelations EXCEPT ![hand.note] = rows]
    BY DEF DeleteRelations, InsertNoteRelations
  <1>3. RelationsAreTyped'
    <2>1. DOMAIN rows \subseteq Notes \ {hand.note} /\ \A m \in DOMAIN rows : rows[m] \in Kin
      BY <1>1
    <2>2. DOMAIN noteRelations' = Notes
      BY <1>2 DEF AnalysisTypes, RelationsAreTyped
    <2>3. ASSUME NEW n \in Notes
          PROVE  /\ DOMAIN noteRelations'[n] \subseteq Notes \ {n}
                 /\ \A m \in DOMAIN noteRelations'[n] : noteRelations'[n][m] \in Kin
      BY <1>2, <2>1 DEF AnalysisTypes, RelationsAreTyped
    <2> QED
      BY <2>2, <2>3 DEF RelationsAreTyped
  <1>4. HandIsTyped'
    <2>1. hand' = Empty \/ hand' = [hand EXCEPT !.at = "insert"]
      BY DEF DeleteRelations, InsertNoteRelations
    <2>2. CASE hand' = [hand EXCEPT !.at = "insert"]
      <3>1. hand'.at = "insert" /\ hand'.note = hand.note /\ hand'.scored = hand.scored
        BY <1>1, <2>2
      <3> QED
        BY <1>1, <3>1 DEF HandIsTyped
    <2> QED
      BY <2>1, <2>2 DEF HandIsTyped
  <1>5. WriterIsTyped'
    BY RunnerKeepsEditTypes DEF DeleteRelations, InsertNoteRelations, editVars
  <1>6. AnalysesAreTyped' /\ PollIsTyped'
    BY DEF AnalysisTypes, AnalysesAreTyped, IsTypedFor, PollIsTyped, DeleteRelations, InsertNoteRelations
  <1>7. unrelated' \subseteq Notes
    BY DEF AnalysisTypes, DeleteRelations, InsertNoteRelations
  <1> QED
    BY <1>3, <1>4, <1>5, <1>6, <1>7 DEF AnalysisTypes, DeleteRelations, InsertNoteRelations

LEMMA FailuresKeepTypes == AnalysisTypes /\ (AnalysisFails \/ RestartRunner) => AnalysisTypes'
  <1> SUFFICES ASSUME AnalysisTypes, AnalysisFails \/ RestartRunner PROVE AnalysisTypes'
    OBVIOUS
  <1>1. GivenUp \subseteq Notes
    BY DEF GivenUp, AnalysisTypes, HandIsTyped, Empty
  <1>2. WriterIsTyped'
    BY RunnerKeepsEditTypes DEF AnalysisFails, RestartRunner, editVars
  <1>3. AnalysesAreTyped' /\ RelationsAreTyped' /\ HandIsTyped'
    BY DEF AnalysisTypes, AnalysesAreTyped, IsTypedFor, RelationsAreTyped, HandIsTyped,
           AnalysisFails, RestartRunner
  <1>4. PollIsTyped'
    <2>1. polled' = polled \/ polled' = << >>
      BY DEF AnalysisFails, RestartRunner
    <2>2. << >> \in Seq(PolledRow) /\ polled \in Seq(PolledRow)
      BY DEF AnalysisTypes, PollIsTyped
    <2>3. polled' \in Seq(PolledRow)
      BY <2>1, <2>2
    <2> QED
      BY <2>3 DEF PollIsTyped
  <1>5. incidents' \in 0..MaxIncidents
    BY IncidentsAreCounted DEF AnalysisFails, RestartRunner
  <1> QED
    BY <1>1, <1>2, <1>3, <1>4, <1>5 DEF AnalysisTypes, AnalysisFails, RestartRunner

LEMMA AnalysisTypesStep == AnalysisTypes /\ [AnalysisNext]_analysisVars => AnalysisTypes'
  <1> SUFFICES ASSUME AnalysisTypes, [AnalysisNext]_analysisVars PROVE AnalysisTypes'
    OBVIOUS
  <1>1. ASSUME NEW n \in Notes, NEW s \in Subjects, CommitText(n, s) PROVE AnalysisTypes'
    BY <1>1, CommitTextKeepsTypes
  <1>2. ASSUME \/ CommitCutShort
               \/ \E n \in Notes : FlipDeleted(n) \/ \E p \in Places : MoveNote(n, p)
        PROVE  AnalysisTypes'
    BY <1>2, IncidentsKeepTypes
  <1>3. CASE AnalysisRunner
    BY <1>3, PollKeepsTypes, TakeRowKeepsTypes, StoreKeepsTypes, LoadPeersKeepsTypes, RelationsKeepTypes
       DEF AnalysisRunner
  <1>4. CASE UNCHANGED analysisVars
    BY <1>4, WriterKeepsAnalysisTypes DEF analysisVars, editVars, WriterIsTyped, AnalysisTypes
  <1> QED
    BY <1>1, <1>2, <1>3, <1>4, CommitHeadKeepsTypes, FailuresKeepTypes DEF AnalysisNext

LEMMA AnalysisTypesAlways == AnalysisSpec => []AnalysisTypes
  BY AnalysisTypesInit, AnalysisTypesStep, PTL DEF AnalysisSpec

LEMMA AnalysisIsTyped == AnalysisSpec => []AnalysisTypeOK
  <1>1. AnalysisTypes => AnalysisTypeOK
    BY DEF AnalysisTypes, AnalysisTypeOK, WriterIsTyped, AnalysesAreTyped, IsTypedFor, RelationsAreTyped, Heads
  <1> QED
    BY <1>1, AnalysisTypesAlways, PTL

-----------------------------------------------------------------------------
(* The note analysis runner: what its analyses claim.                      *)
(* The head of a note is the number of an event, and so is its text's.     *)
NumbersAreSane ==
  /\ headSeq \in [Notes -> Nat]
  /\ content \in [Notes -> [of : Nat, subject : Subjects \cup {None}]]
  /\ committing \in Notes \cup {None}

(* The text is stored before the head: it is never older, and an append in *)
(* progress is one ahead.                                                  *)
TextLeads ==
  /\ \A n \in Notes : headSeq[n] <= content[n].of
  /\ committing # None => content[committing].of = headSeq[committing] + 1

(* What the poll read of a note is no more than its head of now.           *)
RowIsOld(row) == row.note \in Notes => row.seq \in Nat /\ row.seq <= headSeq[row.note]

PollIsOld ==
  /\ \E S : polled \in Seq(S)
  /\ \A k \in DOMAIN polled : RowIsOld(polled[k])

(* The note in hand has a text that is at least as new as the head it was  *)
(* polled with.                                                            *)
HandIsOld ==
  hand.at \in {"bare", "analysis"} =>
    RowIsOld(hand) /\ (hand.note \in Notes => hand.of \in Nat /\ hand.seq <= hand.of)

AnalysesAreSane == \A n \in Notes : analyses[n].seq \in Int /\ analyses[n].of \in Int

AnalysisInv ==
  /\ NumbersAreSane /\ TextLeads /\ PollIsOld /\ HandIsOld
  /\ DOMAIN analyses = Notes /\ AnalysesAreSane /\ AnalysisIsCurrent

-----------------------------------------------------------------------------
LEMMA AnalysisInvInit == AnalysisInit => AnalysisInv
  <1> SUFFICES ASSUME AnalysisInit PROVE AnalysisInv
    OBVIOUS
  <1> USE DEF AnalysisInit
  <1>1. NumbersAreSane /\ TextLeads
    BY DEF NumbersAreSane, TextLeads
  <1>2. PollIsOld /\ HandIsOld
    BY DEF PollIsOld, HandIsOld, Empty
  <1>3. DOMAIN analyses = Notes /\ AnalysesAreSane /\ AnalysisIsCurrent
    BY DEF AnalysesAreSane, AnalysisIsCurrent, NotAnalysed
  <1> QED
    BY <1>1, <1>2, <1>3 DEF AnalysisInv

(* A step of the writer lets heads and texts grow and leaves the runner    *)
(* alone.                                                                  *)
LEMMA WriterKeepsAnalysisInv ==
  ASSUME AnalysisInv, NumbersAreSane', TextLeads', UNCHANGED <<analyses, polled, hand>>,
         \A n \in Notes : headSeq'[n] >= headSeq[n]
  PROVE  AnalysisInv'
  <1> USE DEF AnalysisInv
  <1>1. ASSUME NEW row, RowIsOld(row)
        PROVE  row.note \in Notes => row.seq \in Nat /\ row.seq <= headSeq'[row.note]
    BY <1>1 DEF RowIsOld, NumbersAreSane
  <1>2. PollIsOld'
    BY <1>1 DEF PollIsOld, RowIsOld
  <1>3. HandIsOld'
    BY <1>1 DEF HandIsOld, RowIsOld
  <1>4. AnalysesAreSane' /\ DOMAIN analyses' = Notes
    BY DEF AnalysesAreSane
  <1>5. AnalysisIsCurrent'
    BY DEF AnalysisIsCurrent, AnalysesAreSane, NumbersAreSane
  <1> QED
    BY <1>2, <1>3, <1>4, <1>5

LEMMA CommitTextKeepsAnalysisInv ==
  ASSUME AnalysisInv, NEW n \in Notes, NEW s \in Subjects, CommitText(n, s)
  PROVE  AnalysisInv'
  <1> USE AnalysisAssumption DEF AnalysisInv
  <1>1. content' = [content EXCEPT ![n] = [of |-> headSeq[n] + 1, subject |-> s]] /\ headSeq' = headSeq
    BY DEF CommitText
  <1>2. NumbersAreSane'
    BY <1>1 DEF CommitText, NumbersAreSane
  <1>3. content[n].of = headSeq[n] /\ committing' = n /\ n # None
    BY DEF CommitText
  <1>4. \A m \in Notes : content'[m].of = IF m = n THEN headSeq[n] + 1 ELSE content[m].of
    BY <1>1 DEF NumbersAreSane
  <1>5. TextLeads'
    BY <1>1, <1>3, <1>4 DEF TextLeads, NumbersAreSane
  <1>6. UNCHANGED <<analyses, polled, hand>>
    BY DEF CommitText, runnerState
  <1> QED
    BY <1>1, <1>2, <1>5, <1>6, WriterKeepsAnalysisInv DEF NumbersAreSane

LEMMA CommitHeadKeepsAnalysisInv == AnalysisInv /\ CommitHead => AnalysisInv'
  <1> SUFFICES ASSUME AnalysisInv, CommitHead PROVE AnalysisInv'
    OBVIOUS
  <1> USE AnalysisAssumption DEF AnalysisInv
  <1>1. committing \in Notes /\ committing' = None /\ content' = content
    BY DEF CommitHead, NumbersAreSane
  <1>2. headSeq' = [headSeq EXCEPT ![committing] = @ + 1]
    BY DEF CommitHead
  <1>3. NumbersAreSane'
    BY <1>1, <1>2 DEF NumbersAreSane
  <1>4. TextLeads'
    BY <1>1, <1>2 DEF TextLeads, NumbersAreSane
  <1>5. \A n \in Notes : headSeq'[n] >= headSeq[n]
    BY <1>1, <1>2 DEF NumbersAreSane
  <1>6. UNCHANGED <<analyses, polled, hand>>
    BY DEF CommitHead, runnerState
  <1> QED
    BY <1>3, <1>4, <1>5, <1>6, WriterKeepsAnalysisInv

(* Moves, deletions and what is cut short leave heads and texts alone.     *)
LEMMA HeadersKeepAnalysisInv ==
  ASSUME AnalysisInv, UNCHANGED <<headSeq, content, analyses, polled, hand>>,
         committing' \in {committing, None}
  PROVE  AnalysisInv'
  <1> USE DEF AnalysisInv
  <1>1. NumbersAreSane' /\ TextLeads'
    BY DEF NumbersAreSane, TextLeads
  <1>2. \A n \in Notes : headSeq'[n] >= headSeq[n]
    BY DEF NumbersAreSane
  <1> QED
    BY <1>1, <1>2, WriterKeepsAnalysisInv

-----------------------------------------------------------------------------
(* A step of the runner leaves the writer's columns alone.                 *)
LEMMA RunnerKeepsText ==
  ASSUME NumbersAreSane, TextLeads, UNCHANGED <<headSeq, content>>, committing' \in {committing, None}
  PROVE  NumbersAreSane' /\ TextLeads'
  BY DEF NumbersAreSane, TextLeads

LEMMA PollKeepsAnalysisInv == AnalysisTypes /\ AnalysisInv /\ PollNotes => AnalysisInv'
  <1> SUFFICES ASSUME AnalysisTypes, AnalysisInv, PollNotes PROVE AnalysisInv'
    OBVIOUS
  <1> USE DEF AnalysisInv
  <1>1. NumbersAreSane' /\ TextLeads' /\ headSeq' = headSeq
    BY RunnerKeepsText DEF PollNotes, editVars
  <1>2. Due \in Seq(Notes) /\ \A k \in DOMAIN Due : Due[k] \in Notes
    <2>1. Due \in Seq(Notes)
      BY OrderListsNotes, DueNotes
    <2> QED
      BY <2>1
  <1>3. polled' \in Seq(PolledRow)
    BY PollKeepsTypes DEF AnalysisTypes, PollIsTyped
  <1>4. ASSUME NEW k \in DOMAIN polled'
        PROVE  polled'[k].note \in Notes =>
                 polled'[k].seq \in Nat /\ polled'[k].seq <= headSeq'[polled'[k].note]
    BY <1>1, <1>2 DEF PollNotes, NumbersAreSane
  <1>5. PollIsOld'
    BY <1>3, <1>4 DEF PollIsOld, RowIsOld
  <1>6. HandIsOld' /\ AnalysesAreSane' /\ AnalysisIsCurrent' /\ DOMAIN analyses' = Notes
    BY <1>1 DEF HandIsOld, AnalysesAreSane, AnalysisIsCurrent, RowIsOld, PollNotes
  <1> QED
    BY <1>1, <1>5, <1>6

LEMMA TakeRowKeepsAnalysisInv == AnalysisInv /\ TakeRow => AnalysisInv'
  <1> SUFFICES ASSUME AnalysisInv, TakeRow PROVE AnalysisInv'
    OBVIOUS
  <1> USE DEF AnalysisInv
  <1>1. NumbersAreSane' /\ TextLeads' /\ UNCHANGED <<headSeq, content, analyses>>
    BY RunnerKeepsText DEF TakeRow, editVars
  <1>2. polled # << >> /\ polled' = Tail(polled)
    BY DEF TakeRow
  <1>3. PICK S : polled \in Seq(S)
    BY DEF PollIsOld
  <1>4. /\ polled' \in Seq(S)
        /\ \E k \in DOMAIN polled : Head(polled) = polled[k]
        /\ \A j \in DOMAIN polled' : \E k \in DOMAIN polled : polled'[j] = polled[k]
    BY <1>2, <1>3
  <1>5. PollIsOld'
    BY <1>1, <1>3, <1>4 DEF PollIsOld, RowIsOld
  <1>6. RowIsOld(Head(polled))
    BY <1>4 DEF PollIsOld
  <1>7. HandIsOld'
    <2>1. /\ hand'.note = Head(polled).note /\ hand'.seq = Head(polled).seq
          /\ hand'.of = content[Head(polled).note].of
      BY DEF TakeRow
    <2> QED
      BY <1>1, <1>6, <2>1 DEF HandIsOld, RowIsOld, NumbersAreSane, TextLeads
  <1> QED
    BY <1>1, <1>5, <1>7 DEF AnalysesAreSane, AnalysisIsCurrent

(* The analysis is stored with the head of the poll and the text of the    *)
(* hand.                                                                   *)
LEMMA StoreKeepsAnalysisInv ==
  ASSUME AnalysisInv, hand.at \in {"bare", "analysis"}, analyses' = Analysed,
         UNCHANGED <<editVars, polled>>, hand'.at \notin {"bare", "analysis"}
  PROVE  AnalysisInv'
  <1> USE DEF AnalysisInv
  <1>1. NumbersAreSane' /\ TextLeads' /\ headSeq' = headSeq
    BY RunnerKeepsText DEF editVars
  <1>2. PollIsOld' /\ HandIsOld'
    BY <1>1 DEF PollIsOld, RowIsOld, HandIsOld
  <1>3. ASSUME NEW n \in Notes
        PROVE  /\ analyses'[n].seq \in Int /\ analyses'[n].of \in Int
               /\ analyses'[n].seq <= analyses'[n].of /\ analyses'[n].seq <= headSeq'[n]
    <2>1. CASE n = hand.note
      BY <1>1, <2>1 DEF Analysed, HandIsOld, RowIsOld
    <2>2. CASE n # hand.note
      BY <1>1, <2>2 DEF Analysed, AnalysesAreSane, AnalysisIsCurrent
    <2> QED
      BY <2>1, <2>2
  <1>4. DOMAIN analyses' = Notes
    BY DEF Analysed
  <1> QED
    BY <1>1, <1>2, <1>3, <1>4 DEF AnalysesAreSane, AnalysisIsCurrent

(* Steps after the analysis was stored, and failures.                      *)
LEMMA RelationsKeepAnalysisInv ==
  ASSUME AnalysisInv, UNCHANGED <<headSeq, content, analyses>>, committing' \in {committing, None},
         polled' \in {polled, << >>}, hand'.at \notin {"bare", "analysis"}
  PROVE  AnalysisInv'
  <1> USE DEF AnalysisInv
  <1>1. NumbersAreSane' /\ TextLeads'
    BY RunnerKeepsText
  <1>2. ASSUME polled' = polled PROVE PollIsOld'
    <2>1. PICK S : polled \in Seq(S)
      BY DEF PollIsOld
    <2>2. polled' \in Seq(S)
      BY <1>2, <2>1
    <2>3. \A k \in DOMAIN polled' : RowIsOld(polled'[k])
      BY <1>2 DEF PollIsOld
    <2>4. ASSUME NEW k \in DOMAIN polled' PROVE RowIsOld(polled[k])'
      BY <1>2, <2>3 DEF RowIsOld
    <2> QED
      BY <2>2, <2>4 DEF PollIsOld
  <1>3. ASSUME polled' = << >> PROVE PollIsOld'
    <2>1. << >> \in Seq({}) /\ DOMAIN << >> = {}
      OBVIOUS
    <2>2. \E S : polled' \in Seq(S)
      BY <1>3, <2>1
    <2>3. DOMAIN polled' = {}
      BY <1>3, <2>1
    <2> QED
      BY <2>2, <2>3 DEF PollIsOld
  <1>4. HandIsOld'
    BY DEF HandIsOld
  <1> QED
    BY <1>1, <1>2, <1>3, <1>4 DEF AnalysesAreSane, AnalysisIsCurrent

LEMMA AnalysisInvStep == AnalysisTypes /\ AnalysisInv /\ [AnalysisNext]_analysisVars => AnalysisInv'
  <1> SUFFICES ASSUME AnalysisTypes, AnalysisInv, [AnalysisNext]_analysisVars PROVE AnalysisInv'
    OBVIOUS
  <1>1. ASSUME NEW n \in Notes, NEW s \in Subjects, CommitText(n, s) PROVE AnalysisInv'
    BY <1>1, CommitTextKeepsAnalysisInv
  <1>2. CASE CommitHead
    BY <1>2, CommitHeadKeepsAnalysisInv
  <1>3. ASSUME NEW n \in Notes, NEW p \in Places, MoveNote(n, p) PROVE AnalysisInv'
    BY <1>3, HeadersKeepAnalysisInv DEF MoveNote, runnerState
  <1>4. ASSUME NEW n \in Notes, FlipDeleted(n) PROVE AnalysisInv'
    BY <1>4, HeadersKeepAnalysisInv DEF FlipDeleted, runnerState
  <1>5. CASE CommitCutShort
    BY <1>5, HeadersKeepAnalysisInv DEF CommitCutShort, runnerState
  <1>6. CASE AnalysisRunner
    <2>1. CASE PollNotes
      BY <2>1, PollKeepsAnalysisInv
    <2>2. CASE TakeRow
      BY <2>2, TakeRowKeepsAnalysisInv
    <2>3. CASE StoreBareAnalysis
      BY <2>3, StoreKeepsAnalysisInv DEF StoreBareAnalysis, Has, Empty
    <2>4. CASE StoreAnalysis
      BY <2>4, StoreKeepsAnalysisInv DEF StoreAnalysis, Has
    <2>5. CASE LoadPeers
      <3>1. hand'.at = "delete"
        BY <2>5 DEF LoadPeers
      <3>2. UNCHANGED <<headSeq, content, committing, analyses, polled>>
        BY <2>5 DEF LoadPeers, editVars
      <3> QED
        BY <3>1, <3>2, RelationsKeepAnalysisInv
    <2>6. CASE DeleteRelations
      <3>1. hand' = Empty \/ hand' = [hand EXCEPT !.at = "insert"]
        BY <2>6 DEF DeleteRelations
      <3>2. hand.at = "delete"
        BY <2>6 DEF DeleteRelations, Has
      <3>3. UNCHANGED <<headSeq, content, committing, analyses, polled>>
        BY <2>6 DEF DeleteRelations, editVars
      <3>4. CASE hand' = Empty
        BY <3>4, <3>3, RelationsKeepAnalysisInv DEF Empty
      <3>5. CASE hand' = [hand EXCEPT !.at = "insert"]
        <4>1. hand'.at \notin {"bare", "analysis"}
          BY <3>2, <3>5
        <4> QED
          BY <4>1, <3>3, RelationsKeepAnalysisInv
      <3> QED
        BY <3>1, <3>4, <3>5
    <2>7. CASE InsertNoteRelations
      BY <2>7, RelationsKeepAnalysisInv DEF InsertNoteRelations, Empty, editVars
    <2> QED
      BY <1>6, <2>1, <2>2, <2>3, <2>4, <2>5, <2>6, <2>7 DEF AnalysisRunner
  <1>7. CASE AnalysisFails
    BY <1>7, RelationsKeepAnalysisInv DEF AnalysisFails, Empty, editVars
  <1>8. CASE RestartRunner
    BY <1>8, RelationsKeepAnalysisInv DEF RestartRunner, Empty
  <1>9. CASE UNCHANGED analysisVars
    BY <1>9, HeadersKeepAnalysisInv DEF analysisVars, editVars
  <1> QED
    BY <1>1, <1>2, <1>3, <1>4, <1>5, <1>6, <1>7, <1>8, <1>9 DEF AnalysisNext

(* An edit is never hidden from the poll (runNoteAnalysis): however poll,  *)
(* reads and the statements of appends interleave, and whatever fails, the *)
(* analysed text is at least as new as the head that its analysis claims.  *)
THEOREM NoEditIsHidden == AnalysisSpec => []AnalysisIsCurrent
  <1>1. AnalysisInv => AnalysisIsCurrent
    BY DEF AnalysisInv
  <1> QED
    BY AnalysisInvInit, AnalysisInvStep, AnalysisTypesAlways, <1>1, PTL DEF AnalysisSpec

-----------------------------------------------------------------------------
(* The relations of the note analysis runner.  GivenUp holds the notes     *)
(* whose relations are not to be relied on: those of runs given up, and    *)
(* the note in hand from its analysis to its relations.                    *)
HandIsARun ==
  \/ hand = Empty
  \/ /\ hand.at \in {"bare", "analysis", "peers"}
     /\ hand = [at |-> hand.at, note |-> hand.note, seq |-> hand.seq, place |-> hand.place,
                of |-> hand.of, subject |-> hand.subject]
  \/ /\ hand.at \in {"delete", "insert"}
     /\ hand = [at |-> hand.at, note |-> hand.note, scored |-> hand.scored]

(* A run reads the peers for the analysis that it has stored.              *)
HandTellsAnalysis ==
  /\ hand.at = "bare" => hand.subject = None
  /\ hand.at = "peers" /\ hand.note \in Notes =>
       analyses[hand.note].subject = hand.subject /\ analyses[hand.note].place = hand.place

(* n has to find m: its analysis sees that of m and scores with it.        *)
Finds(n, m) ==
  /\ n # m /\ analyses[m] # NotAnalysed
  /\ Sees(analyses[n].place, analyses[m].place)
  /\ <<analyses[n].subject, analyses[m].subject>> \in Kin

(* While a note is in hand no other analysis changes: its scores stay.     *)
HandFoundPeers ==
  hand.at \in {"delete", "insert"} /\ hand.note \in Notes =>
    \A m \in Notes : Finds(hand.note, m) =>
      m \in DOMAIN hand.scored /\ hand.scored[m] = <<analyses[hand.note].subject, analyses[m].subject>>

(* NoRelationIsMissed for a note whose run has not stored its analysis too.*)
PairIsRelated(n, m) ==
  Finds(n, m) /\ Finds(m, n) => Relates(n, m) \/ Relates(m, n)

RelationsInv ==
  /\ DOMAIN analyses = Notes /\ DOMAIN noteRelations = Notes
  /\ HandIsARun /\ HandTellsAnalysis /\ HandFoundPeers
  /\ \A n, m \in Notes \ GivenUp : PairIsRelated(n, m)

LEMMA RelationsInvInit == AnalysisInit => RelationsInv
  BY DEF AnalysisInit, RelationsInv, HandIsARun, HandTellsAnalysis, HandFoundPeers, Empty, PairIsRelated, Finds

(* What a step leaves alone when it leaves analyses and relations alone.   *)
LEMMA TablesKeepRelationsInv ==
  ASSUME RelationsInv, UNCHANGED <<analyses, noteRelations>>,
         HandIsARun', HandTellsAnalysis', HandFoundPeers', GivenUp \subseteq GivenUp'
  PROVE  RelationsInv'
  BY DEF RelationsInv, PairIsRelated, Finds, Relates

LEMMA WriterKeepsRelationsInv ==
  ASSUME RelationsInv, UNCHANGED runnerState
  PROVE  RelationsInv'
  <1>1. UNCHANGED <<analyses, noteRelations, hand, unrelated>>
    BY DEF runnerState
  <1> QED
    BY <1>1 DEF RelationsInv, HandIsARun, HandTellsAnalysis, HandFoundPeers, PairIsRelated, Finds, Relates, GivenUp

LEMMA PollKeepsRelationsInv ==
  ASSUME RelationsInv, UNCHANGED <<analyses, noteRelations, hand, unrelated>>
  PROVE  RelationsInv'
  BY DEF RelationsInv, HandIsARun, HandTellsAnalysis, HandFoundPeers, PairIsRelated, Finds, Relates, GivenUp

LEMMA TakeRowKeepsRelationsInv == RelationsInv /\ TakeRow => RelationsInv'
  <1> SUFFICES ASSUME RelationsInv, TakeRow PROVE RelationsInv'
    OBVIOUS
  <1>1. UNCHANGED <<analyses, noteRelations, unrelated>> /\ hand = Empty
    BY DEF TakeRow
  <1>2. PICK bare \in BOOLEAN :
          hand' = [at |-> IF bare THEN "bare" ELSE "analysis", note |-> Head(polled).note,
                   seq |-> Head(polled).seq, place |-> Head(polled).place,
                   of |-> content[Head(polled).note].of,
                   subject |-> IF bare THEN None ELSE content[Head(polled).note].subject]
    BY DEF TakeRow
  <1>3. HandIsARun' /\ HandTellsAnalysis' /\ HandFoundPeers'
    BY <1>2 DEF HandIsARun, HandTellsAnalysis, HandFoundPeers
  <1>4. GivenUp \subseteq GivenUp'
    BY <1>1, <1>2 DEF GivenUp, Empty
  <1> QED
    BY <1>1, <1>3, <1>4, TablesKeepRelationsInv

(* The analyses of the other notes stay.                                   *)
LEMMA AnalysedChangesOne ==
  ASSUME DOMAIN analyses = Notes, analyses' = Analysed
  PROVE  /\ DOMAIN analyses' = Notes
         /\ \A n \in Notes : n # hand.note => analyses'[n] = analyses[n]
         /\ hand.note \in Notes =>
              analyses'[hand.note].subject = hand.subject /\ analyses'[hand.note].place = hand.place
  BY DEF Analysed

(* The analysis of a note without text scores with none.                   *)
LEMMA BareKeepsRelationsInv == RelationsInv /\ StoreBareAnalysis => RelationsInv'
  <1> SUFFICES ASSUME RelationsInv, StoreBareAnalysis PROVE RelationsInv'
    OBVIOUS
  <1>1. hand.at = "bare" /\ hand' = Empty /\ analyses' = Analysed /\ UNCHANGED <<noteRelations, unrelated>>
    BY DEF StoreBareAnalysis, Has
  <1>2. HandIsARun' /\ HandTellsAnalysis' /\ HandFoundPeers'
    BY <1>1 DEF HandIsARun, HandTellsAnalysis, HandFoundPeers, Empty
  <1>3. GivenUp = unrelated /\ GivenUp' = unrelated
    BY <1>1 DEF GivenUp, Empty
  <1>4. hand.subject = None
    BY <1>1 DEF RelationsInv, HandTellsAnalysis
  <1>5. ASSUME NEW n \in Notes \ GivenUp', NEW m \in Notes \ GivenUp', Finds(n, m)', Finds(m, n)'
        PROVE  Relates(n, m)' \/ Relates(m, n)'
    <2>1. n # hand.note /\ m # hand.note
      BY <1>1, <1>4, <1>5, AnalysedChangesOne, AnalysisAssumption DEF Finds, RelationsInv
    <2>2. analyses'[n] = analyses[n] /\ analyses'[m] = analyses[m]
      BY <1>1, <2>1, AnalysedChangesOne DEF RelationsInv
    <2>3. Finds(n, m) /\ Finds(m, n)
      BY <1>5, <2>2 DEF Finds
    <2> QED
      BY <1>1, <1>3, <2>2, <2>3 DEF RelationsInv, PairIsRelated, Relates
  <1> QED
    BY <1>1, <1>2, <1>5, AnalysedChangesOne DEF RelationsInv, PairIsRelated

LEMMA StoreKeepsRelationsInv == RelationsInv /\ StoreAnalysis => RelationsInv'
  <1> SUFFICES ASSUME RelationsInv, StoreAnalysis PROVE RelationsInv'
    OBVIOUS
  <1>1. /\ hand.at = "analysis" /\ hand' = [hand EXCEPT !.at = "peers"] /\ analyses' = Analysed
        /\ UNCHANGED <<noteRelations, unrelated>>
    BY DEF StoreAnalysis, Has
  <1>2. hand' = [at |-> "peers", note |-> hand.note, seq |-> hand.seq, place |-> hand.place,
                 of |-> hand.of, subject |-> hand.subject]
    BY <1>1 DEF RelationsInv, HandIsARun, Empty
  <1>3. HandIsARun' /\ HandTellsAnalysis' /\ HandFoundPeers'
    BY <1>1, <1>2, AnalysedChangesOne DEF HandIsARun, HandTellsAnalysis, HandFoundPeers, RelationsInv
  <1>4. GivenUp = unrelated /\ GivenUp' = unrelated \cup {hand.note}
    BY <1>1, <1>2 DEF GivenUp
  <1>5. ASSUME NEW n \in Notes \ GivenUp', NEW m \in Notes \ GivenUp', Finds(n, m)', Finds(m, n)'
        PROVE  Relates(n, m)' \/ Relates(m, n)'
    <2>2. analyses'[n] = analyses[n] /\ analyses'[m] = analyses[m]
      BY <1>1, <1>4, AnalysedChangesOne DEF RelationsInv
    <2>3. Finds(n, m) /\ Finds(m, n)
      BY <1>5, <2>2 DEF Finds
    <2> QED
      BY <1>1, <1>4, <2>2, <2>3 DEF RelationsInv, PairIsRelated, Relates
  <1> QED
    BY <1>1, <1>3, <1>5, AnalysedChangesOne DEF RelationsInv, PairIsRelated

LEMMA LoadPeersKeepsRelationsInv == RelationsInv /\ LoadPeers => RelationsInv'
  <1> SUFFICES ASSUME RelationsInv, LoadPeers PROVE RelationsInv'
    OBVIOUS
  <1> DEFINE peers == PeersOf(hand.note, hand.place, hand.subject)
  <1>1. /\ hand.at = "peers" /\ UNCHANGED <<analyses, noteRelations, unrelated>>
        /\ hand' = [at |-> "delete", note |-> hand.note,
                    scored |-> [m \in peers |-> <<hand.subject, analyses[m].subject>>]]
    BY DEF LoadPeers
  <1>2. HandIsARun' /\ HandTellsAnalysis'
    BY <1>1 DEF HandIsARun, HandTellsAnalysis
  <1>3. ASSUME hand.note \in Notes, NEW m \in Notes, Finds(hand.note, m) PROVE m \in peers
    BY <1>1, <1>3 DEF RelationsInv, HandTellsAnalysis, Finds, PeersOf
  <1>4. HandFoundPeers'
    <2> SUFFICES ASSUME hand.note \in Notes, NEW m \in Notes, Finds(hand.note, m)
                 PROVE  m \in DOMAIN hand'.scored /\ hand'.scored[m] = <<analyses[hand.note].subject, analyses[m].subject>>
      BY <1>1 DEF HandFoundPeers, Finds
    <2>1. m \in peers
      BY <1>3
    <2> HIDE DEF peers
    <2> QED
      BY <1>1, <2>1 DEF RelationsInv, HandTellsAnalysis
  <1>5. GivenUp \subseteq GivenUp'
    BY <1>1 DEF GivenUp
  <1> QED
    BY <1>1, <1>2, <1>4, <1>5, TablesKeepRelationsInv

(* The run of the note in hand ends: what it has to find, it relates.      *)
LEMMA RunEndKeepsRelationsInv ==
  ASSUME RelationsInv, UNCHANGED analyses, NEW found,
         noteRelations' = [noteRelations EXCEPT ![hand.note] = found],
         hand' = Empty, hand.at \in {"delete", "insert"}, unrelated' = unrelated \ {hand.note},
         hand.note \in Notes => \A m \in Notes : Finds(hand.note, m) =>
           m \in DOMAIN found /\ found[m] = <<analyses[hand.note].subject, analyses[m].subject>>
  PROVE  RelationsInv'
  <1>1. HandIsARun' /\ HandTellsAnalysis' /\ HandFoundPeers'
    BY DEF HandIsARun, HandTellsAnalysis, HandFoundPeers, Empty
  <1>2. GivenUp = unrelated \cup {hand.note} /\ GivenUp' = unrelated \ {hand.note}
    BY DEF GivenUp, Empty
  <1>3. DOMAIN noteRelations' = Notes /\ DOMAIN analyses' = Notes
    BY DEF RelationsInv
  <1>4. ASSUME NEW n \in Notes \ GivenUp', NEW m \in Notes \ GivenUp', Finds(n, m), Finds(m, n)
        PROVE  Relates(n, m)' \/ Relates(m, n)'
    <2>1. ASSUME n # hand.note, m # hand.note PROVE Relates(n, m)' \/ Relates(m, n)'
      BY <1>2, <1>4, <2>1 DEF RelationsInv, PairIsRelated, Relates
    <2>2. ASSUME n = hand.note PROVE Relates(n, m)'
      BY <1>4, <2>2 DEF RelationsInv, Relates
    <2>3. ASSUME m = hand.note PROVE Relates(m, n)'
      BY <1>4, <2>3 DEF RelationsInv, Relates
    <2> QED
      BY <2>1, <2>2, <2>3
  <1>5. ASSUME NEW n \in Notes \ GivenUp', NEW m \in Notes \ GivenUp' PROVE PairIsRelated(n, m)'
    BY <1>4 DEF PairIsRelated, Finds
  <1> QED
    BY <1>1, <1>3, <1>5 DEF RelationsInv

LEMMA DeleteKeepsRelationsInv == RelationsInv /\ DeleteRelations => RelationsInv'
  <1> SUFFICES ASSUME RelationsInv, DeleteRelations PROVE RelationsInv'
    OBVIOUS
  <1>1. /\ hand.at = "delete" /\ UNCHANGED analyses
        /\ noteRelations' = [noteRelations EXCEPT ![hand.note] = << >>]
    BY DEF DeleteRelations, Has
  <1>2. CASE DOMAIN hand.scored = {}
    <2>1. hand' = Empty /\ unrelated' = unrelated \ {hand.note}
      BY <1>2 DEF DeleteRelations
    <2>2. hand.note \in Notes => \A m \in Notes : ~ Finds(hand.note, m)
      BY <1>1, <1>2 DEF RelationsInv, HandFoundPeers
    <2> QED
      BY <1>1, <2>1, <2>2, RunEndKeepsRelationsInv
  <1>3. CASE DOMAIN hand.scored # {}
    <2>1. hand' = [hand EXCEPT !.at = "insert"] /\ UNCHANGED unrelated
      BY <1>3 DEF DeleteRelations
    <2>2. hand' = [at |-> "insert", note |-> hand.note, scored |-> hand.scored]
      BY <1>1, <2>1 DEF RelationsInv, HandIsARun, Empty
    <2>3. HandIsARun' /\ HandTellsAnalysis' /\ HandFoundPeers'
      BY <1>1, <2>2 DEF HandIsARun, HandTellsAnalysis, HandFoundPeers, RelationsInv, Finds
    <2>4. GivenUp = unrelated \cup {hand.note} /\ GivenUp' = GivenUp
      BY <1>1, <2>1, <2>2 DEF GivenUp
    <2>5. \A n, m \in Notes \ GivenUp' : PairIsRelated(n, m)'
      BY <1>1, <2>4 DEF RelationsInv, PairIsRelated, Finds, Relates
    <2> QED
      BY <1>1, <2>3, <2>5 DEF RelationsInv
  <1> QED
    BY <1>2, <1>3

LEMMA InsertKeepsRelationsInv == RelationsInv /\ InsertNoteRelations => RelationsInv'
  <1> SUFFICES ASSUME RelationsInv, InsertNoteRelations PROVE RelationsInv'
    OBVIOUS
  <1>1. /\ hand.at = "insert" /\ UNCHANGED analyses /\ hand' = Empty /\ unrelated' = unrelated \ {hand.note}
        /\ noteRelations' = [noteRelations EXCEPT ![hand.note] = hand.scored]
    BY DEF InsertNoteRelations, Has
  <1> QED
    BY <1>1, RunEndKeepsRelationsInv DEF RelationsInv, HandFoundPeers

(* A failure or a restart gives the relations of the note in hand up.      *)
LEMMA GivingUpKeepsRelationsInv ==
  ASSUME RelationsInv, UNCHANGED <<analyses, noteRelations>>, hand' = Empty, unrelated' = GivenUp
  PROVE  RelationsInv'
  <1>1. HandIsARun' /\ HandTellsAnalysis' /\ HandFoundPeers'
    BY DEF HandIsARun, HandTellsAnalysis, HandFoundPeers, Empty
  <1>2. GivenUp' = GivenUp
    BY DEF GivenUp, Empty
  <1> QED
    BY <1>1, <1>2, TablesKeepRelationsInv

LEMMA RelationsInvStep == RelationsInv /\ [AnalysisNext]_analysisVars => RelationsInv'
  <1> SUFFICES ASSUME RelationsInv, [AnalysisNext]_analysisVars PROVE RelationsInv'
    OBVIOUS
  <1>1. ASSUME NEW n \in Notes, NEW s \in Subjects, CommitText(n, s) PROVE RelationsInv'
    BY <1>1, WriterKeepsRelationsInv DEF CommitText
  <1>2. ASSUME NEW n \in Notes, NEW p \in Places, MoveNote(n, p) PROVE RelationsInv'
    BY <1>2, WriterKeepsRelationsInv DEF MoveNote
  <1>3. ASSUME NEW n \in Notes, FlipDeleted(n) PROVE RelationsInv'
    BY <1>3, WriterKeepsRelationsInv DEF FlipDeleted
  <1>4. CASE CommitHead \/ CommitCutShort
    BY <1>4, WriterKeepsRelationsInv DEF CommitHead, CommitCutShort
  <1>5. CASE PollNotes
    BY <1>5, PollKeepsRelationsInv DEF PollNotes
  <1>6. CASE AnalysisRunner /\ ~ PollNotes
    BY <1>6, TakeRowKeepsRelationsInv, BareKeepsRelationsInv, StoreKeepsRelationsInv,
       LoadPeersKeepsRelationsInv, DeleteKeepsRelationsInv, InsertKeepsRelationsInv DEF AnalysisRunner
  <1>7. CASE AnalysisFails \/ RestartRunner
    BY <1>7, GivingUpKeepsRelationsInv DEF AnalysisFails, RestartRunner
  <1>8. CASE UNCHANGED analysisVars
    BY <1>8, PollKeepsRelationsInv DEF analysisVars
  <1> QED
    BY <1>1, <1>2, <1>3, <1>4, <1>5, <1>6, <1>7, <1>8 DEF AnalysisNext

(* Two analysed notes that see each other and score have a relation in one *)
(* direction at least (loadPeerAnalyses, replaceNoteRelations), whatever   *)
(* appends, moves, failures and restarts come between: unless the run of   *)
(* one of them is on or was given up, the one analysed last found the      *)
(* other with the analyses that both still have.                           *)
THEOREM RelationsAreFound == AnalysisSpec => []NoRelationIsMissed
  <1>1. RelationsInv => NoRelationIsMissed
    BY AnalysisAssumption DEF RelationsInv, NoRelationIsMissed, PairIsRelated, Finds, GivenUp
  <1> QED
    BY RelationsInvInit, RelationsInvStep, <1>1, PTL DEF AnalysisSpec

-----------------------------------------------------------------------------
(* The scorer.  Its type invariant is inductive.                           *)

(* What fits into the channel, of ids that are ids.                        *)
LEMMA FittingStaysTyped ==
  ASSUME ScorerTypeOK, NEW ids \in Seq(Ids)
  PROVE  Fits(ids) \in Seq(Ids) /\ Len(Fits(ids)) <= ChannelCap
  <1> DEFINE room == ChannelCap - Len(scorerCh)
             size == IF Len(ids) < room THEN Len(ids) ELSE room
             some == SubSeq(ids, 1, size)
  <1>1. scorerCh \in Seq(Ids) /\ room \in Nat /\ Len(scorerCh) \in Nat /\ ChannelCap = Len(scorerCh) + room
    BY ScorerAssumption DEF ScorerTypeOK
  <1>2. size \in Nat /\ size <= Len(ids) /\ size <= room
    BY <1>1
  <1>3. some \in Seq(Ids) /\ Len(some) = size
    BY <1>2
  <1>4. Fits(ids) = scorerCh \o some
    BY DEF Fits
  <1> HIDE DEF room, size, some
  <1>5. Fits(ids) \in Seq(Ids) /\ Len(Fits(ids)) = Len(scorerCh) + Len(some)
    <2>1. scorerCh \in Seq(Ids) /\ some \in Seq(Ids)
      BY <1>1, <1>3
    <2>2. (scorerCh \o some) \in Seq(Ids) /\ Len(scorerCh \o some) = Len(scorerCh) + Len(some)
      BY <2>1
    <2> QED
      BY <1>4, <2>2
  <1> QED
    BY <1>1, <1>2, <1>3, <1>5

(* The candidates that wait can be put in order: there are finitely many.  *)
LEMMA WaitingIsListed ==
  ASSUME ScorerTypeOK, NEW found \in SetToSeqs(Waiting)
  PROVE  found \in Seq(Ids)
  <1>1. Waiting \subseteq Ids
    BY ScorerAssumption DEF Waiting, Unscored, ScorerTypeOK, Ids
  <1>2. IsFiniteSet(Waiting)
    <2>1. IsFiniteSet(1..MaxRows)
      BY ScorerAssumption, FS_Interval
    <2> QED
      BY <1>1, <2>1, FS_Subset DEF Ids
  <1>3. Cardinality(Waiting) \in Nat
    BY <1>2, FS_CardinalityType
  <1>4. found \in [1..Cardinality(Waiting) -> Waiting]
    BY DEF SetToSeqs
  <1> QED
    BY <1>1, <1>3, <1>4

LEMMA InsertedRows ==
  ASSUME ScorerTypeOK, NEW count \in 1..MaxRows, Inserted(count)
  PROVE  /\ drawn' \in 0..MaxRows
         /\ DOMAIN candidates' \subseteq 1..drawn'
         /\ \A id \in DOMAIN candidates' : candidates'[id] \in Candidate
         /\ NewIds(count) \in Seq(Ids)
  <1>1. drawn \in Nat /\ count \in Nat /\ drawn + count <= MaxRows /\ drawn' = drawn + count
    BY ScorerAssumption DEF ScorerTypeOK, Inserted
  <1>2. drawn' \in 0..MaxRows
    BY <1>1, ScorerAssumption
  <1> DEFINE known == DOMAIN candidates
             fresh == (drawn + 1)..(drawn + count)
             new == [pending |-> TRUE, scored |-> FALSE, whole |-> TRUE]
  <1>3. candidates' = [id \in known \cup fresh |-> IF id \in known THEN candidates[id] ELSE new]
    BY DEF Inserted
  <1>4. known \subseteq 1..drawn /\ \A id \in known : candidates[id] \in Candidate
    BY DEF ScorerTypeOK
  <1>5. new \in Candidate
    BY DEF Candidate
  <1>6. known \cup fresh \subseteq 1..drawn'
    BY <1>1, <1>4
  <1> HIDE DEF known, fresh, new
  <1>7. DOMAIN candidates' \subseteq 1..drawn' /\ \A id \in DOMAIN candidates' : candidates'[id] \in Candidate
    BY <1>3, <1>4, <1>5, <1>6
  <1>8. NewIds(count) \in Seq(Ids)
    BY <1>1, ScorerAssumption DEF NewIds, Ids
  <1> QED
    BY <1>2, <1>7, <1>8

(* Decisions, purges, sweeps and scores change rows that are there.        *)
LEMMA RowsStayCandidates ==
  ASSUME ScorerTypeOK,
         DOMAIN candidates' \subseteq DOMAIN candidates,
         \A id \in DOMAIN candidates' : candidates'[id] \in Candidate,
         scoring' \in {0, scoring}, UNCHANGED <<drawn, scorerCh, writing, outbox, crashes, tried>>
  PROVE  ScorerTypeOK'
  BY ScorerAssumption DEF ScorerTypeOK

LEMMA ReviewsKeepTypes ==
  ASSUME ScorerTypeOK, NEW id \in DOMAIN candidates, Decide(id) \/ Purge(id) \/ Sweep(id)
  PROVE  ScorerTypeOK'
  <1>1. /\ DOMAIN candidates' \subseteq DOMAIN candidates
        /\ \A k \in DOMAIN candidates' : candidates'[k] \in Candidate
    <2>1. \A k \in DOMAIN candidates : candidates[k] \in Candidate
      BY DEF ScorerTypeOK
    <2>2. CASE Decide(id)
      BY <2>1, <2>2 DEF Decide, Candidate
    <2>3. CASE Purge(id)
      BY <2>1, <2>3 DEF Purge
    <2>4. CASE Sweep(id)
      BY <2>1, <2>4 DEF Sweep, Candidate
    <2> QED
      BY <2>2, <2>3, <2>4
  <1> QED
    BY <1>1, RowsStayCandidates DEF Decide, Purge, Sweep

LEMMA ScorerTypesStep == ScorerTypeOK /\ [ScorerNext]_scorerVars => ScorerTypeOK'
  <1> SUFFICES ASSUME ScorerTypeOK, [ScorerNext]_scorerVars PROVE ScorerTypeOK'
    OBVIOUS
  <1>1. ASSUME NEW count \in 1..MaxRows, InsertByEvent(count) \/ InsertByIndex(count) PROVE ScorerTypeOK'
    <2>1. Inserted(count)
      BY <1>1 DEF InsertByEvent, InsertByIndex
    <2>2. /\ drawn' \in 0..MaxRows /\ DOMAIN candidates' \subseteq 1..drawn'
          /\ \A id \in DOMAIN candidates' : candidates'[id] \in Candidate
          /\ NewIds(count) \in Seq(Ids)
      BY <2>1, InsertedRows
    <2>3. writing' \in Seq(Ids) /\ outbox' \in Seq(Ids)
      <3>1. writing \in Seq(Ids) /\ outbox \in Seq(Ids)
        BY DEF ScorerTypeOK
      <3>2. (outbox \o NewIds(count)) \in Seq(Ids)
        BY <2>2, <3>1
      <3> QED
        BY <1>1, <2>2, <3>1, <3>2 DEF InsertByEvent, InsertByIndex
    <2> QED
      BY <1>1, <2>2, <2>3 DEF InsertByEvent, InsertByIndex, ScorerTypeOK
  <1>2. CASE SendFromWriter
    <2>1. Head(writing) \in Ids /\ Tail(writing) \in Seq(Ids)
      BY <1>2 DEF SendFromWriter, ScorerTypeOK
    <2>2. scorerCh' \in Seq(Ids) /\ Len(scorerCh') <= ChannelCap
      <3>1. <<Head(writing)>> \in Seq(Ids)
        BY <2>1
      <3> QED
        BY <1>2, <3>1, FittingStaysTyped DEF SendFromWriter
    <2> QED
      BY <1>2, <2>1, <2>2 DEF SendFromWriter, ScorerTypeOK
  <1>3. CASE SendFromIndex
    <2>1. Head(outbox) \in Ids /\ Tail(outbox) \in Seq(Ids)
      BY <1>3 DEF SendFromIndex, ScorerTypeOK
    <2>2. scorerCh' \in Seq(Ids) /\ Len(scorerCh') <= ChannelCap
      <3>1. <<Head(outbox)>> \in Seq(Ids)
        BY <2>1
      <3> QED
        BY <1>3, <3>1, FittingStaysTyped DEF SendFromIndex
    <2> QED
      BY <1>3, <2>1, <2>2 DEF SendFromIndex, ScorerTypeOK
  <1>4. CASE Receive
    <2>1. /\ Head(scorerCh) \in Ids /\ Tail(scorerCh) \in Seq(Ids)
          /\ Len(Tail(scorerCh)) <= ChannelCap
      BY <1>4, ScorerAssumption DEF Receive, ScorerTypeOK
    <2>2. scoring' \in 0..MaxRows
      BY <1>4, ScorerAssumption DEF Receive, ScorerTypeOK
    <2> QED
      BY <1>4, <2>1, <2>2 DEF Receive, ScorerTypeOK
  <1>5. CASE WriteScore
    <2>1. /\ DOMAIN candidates' \subseteq DOMAIN candidates
          /\ \A k \in DOMAIN candidates' : candidates'[k] \in Candidate
      BY <1>5 DEF WriteScore, ScorerTypeOK, Candidate
    <2> QED
      BY <1>5, <2>1, RowsStayCandidates DEF WriteScore
  <1>6. CASE Reconcile
    <2>1. PICK found \in SetToSeqs(Waiting) : scorerCh' = Fits(found)
      BY <1>6 DEF Reconcile
    <2>2. scorerCh' \in Seq(Ids) /\ Len(scorerCh') <= ChannelCap
      BY <2>1, WaitingIsListed, FittingStaysTyped
    <2> QED
      BY <1>6, <2>2 DEF Reconcile, ScorerTypeOK
  <1>7. CASE RestartScorer
    <2>1. crashes' \in 0..MaxCrashes
      BY <1>7, ScorerAssumption DEF RestartScorer, ScorerTypeOK
    <2>2. << >> \in Seq(Ids) /\ Len(<< >>) = 0
      OBVIOUS
    <2> QED
      BY <1>7, <2>1, <2>2, ScorerAssumption DEF RestartScorer, ScorerTypeOK
  <1>8. CASE UNCHANGED scorerVars
    BY <1>8 DEF scorerVars, ScorerTypeOK
  <1> QED
    BY <1>1, <1>2, <1>3, <1>4, <1>5, <1>6, <1>7, <1>8, ReviewsKeepTypes DEF ScorerNext

LEMMA ScorerIsTyped == ScorerSpec => []ScorerTypeOK
  <1>1. ScorerInit => ScorerTypeOK
    <2>1. << >> \in Seq(Ids) /\ Len(<< >>) = 0 /\ DOMAIN << >> = {}
      OBVIOUS
    <2> QED
      BY <2>1, ScorerAssumption DEF ScorerInit, ScorerTypeOK
  <1> QED
    BY <1>1, ScorerTypesStep, PTL DEF ScorerSpec

-----------------------------------------------------------------------------
(* In MCBackground one of the parts moves at a time: each of them goes on  *)
(* as it does alone, and what is proved of it holds there.                 *)
LEMMA BackgroundSteps ==
  BackgroundSpec => ScorerSpec /\ InferenceSpec /\ AnalysisSpec /\ ParagraphSpec
  <1>1. BackgroundInit => ScorerInit /\ InferenceInit /\ AnalysisInit /\ ParagraphInit
    BY DEF BackgroundInit
  <1>2. [BackgroundNext]_backgroundVars =>
          [ScorerNext]_scorerVars /\ [InferenceNext]_inferVars
          /\ [AnalysisNext]_analysisVars /\ [ParagraphNext]_paragraphVars
    BY DEF BackgroundNext, backgroundVars
  <1> QED
    BY <1>1, <1>2, PTL DEF BackgroundSpec, ScorerSpec, InferenceSpec, AnalysisSpec, ParagraphSpec

(* The tables, channels and counters of all four goroutines keep their     *)
(* types: among them, that the scorer's channel never holds more than its  *)
(* capacity (candidate_scorer.go), and that a relation of a note is with   *)
(* another note and names subjects that score (note_runner.go).            *)
THEOREM BackgroundIsTyped == BackgroundSpec => []BackgroundTypeOK
  BY BackgroundSteps, ScorerIsTyped, InferenceIsTyped, AnalysisIsTyped, ParagraphsAreTyped, PTL
     DEF BackgroundTypeOK

(* What the four goroutines promise holds together, in the specification   *)
(* that they are checked in: no edit is hidden from the paragraph runner   *)
(* nor from the analysis runner, no relation dangles or is missed, and     *)
(* suggestions stay limited and respect a rejection.                       *)
THEOREM BackgroundIsSafe ==
  BackgroundSpec =>
    /\ [](NeverInTheFuture /\ QueueRevealsChanges /\ RelationsResolve)
    /\ [](SuggestionsAreLimited /\ RejectedTextIsLeftAlone)
    /\ [](AnalysisIsCurrent /\ NoRelationIsMissed)
    /\ ClaimsOnlyAdvance
  BY BackgroundSteps, ColumnNeverAhead, NoHiddenChange, NoDanglingRelation, ColumnAdvances,
     SuggestionsStayLimited, RejectionsAreRespected, NoEditIsHidden, RelationsAreFound, PTL
=============================================================================
