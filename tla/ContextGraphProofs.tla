------------------------- MODULE ContextGraphProofs -------------------------
(***************************************************************************)
(* Proofs about ContextGraph, for every number of notes, projects, topics, *)
(* lines, bursts, requests and failures.                                   *)
(***************************************************************************)
EXTENDS ContextGraph, FiniteSetTheorems, WellFoundedInduction, TLAPS

-----------------------------------------------------------------------------
(* What the statements of the closures do to the candidates.               *)

LEMMA StoredPairs ==
  ASSUME NEW pairs, InsertCandidates(pairs)
  PROVE  /\ DOMAIN cands' = DOMAIN cands \cup pairs
         /\ \A pair \in DOMAIN cands : cands'[pair] = cands[pair]
         /\ \A pair \in pairs \ DOMAIN cands :
              cands'[pair] = [notes |-> {bursts[b].note : b \in pair}, status |-> "pending"]
  BY DEF InsertCandidates, With

LEMMA RemovedPairs ==
  ASSUME NEW pairs, cands' = Without(cands, pairs)
  PROVE  /\ DOMAIN cands' = DOMAIN cands \ pairs
         /\ \A pair \in DOMAIN cands' : cands'[pair] = cands[pair]
  BY DEF Without

(* The rows of table candidate_relations have their columns.               *)
CandidatesAreTyped ==
  \A pair \in DOMAIN cands :
    /\ cands[pair] = [notes |-> cands[pair].notes, status |-> cands[pair].status]
    /\ cands[pair].status \in {"pending", "promoted", "dismissed"}

LEMMA MarkedPair ==
  ASSUME NEW marked, NEW status \in {"promoted", "dismissed"}, CandidatesAreTyped,
         cands' = WithStatus(marked, status)
  PROVE  /\ DOMAIN cands' = DOMAIN cands
         /\ \A pair \in DOMAIN cands :
              /\ cands'[pair].notes = cands[pair].notes
              /\ pair # marked => cands'[pair] = cands[pair]
              /\ pair = marked => cands'[pair].status = status
         /\ CandidatesAreTyped'
<1>1. DOMAIN cands' = DOMAIN cands
  BY DEF WithStatus
<1>2. ASSUME NEW pair \in DOMAIN cands, pair # marked
      PROVE  cands'[pair] = cands[pair]
  BY <1>2 DEF WithStatus
<1>3. ASSUME NEW pair \in DOMAIN cands, pair = marked
      PROVE  cands'[pair] = [notes |-> cands[pair].notes, status |-> status]
  <2>1. cands'[pair] = [cands[pair] EXCEPT !.status = status]
    BY <1>3 DEF WithStatus
  <2>2. cands[pair] = [notes |-> cands[pair].notes, status |-> cands[pair].status]
    BY DEF CandidatesAreTyped
  <2> QED
    BY <2>1, <2>2
<1> QED
  BY <1>1, <1>2, <1>3 DEF CandidatesAreTyped

-----------------------------------------------------------------------------
(* What the closure in hand holds.                                         *)

Purges(j) ==
  /\ j = [at |-> j.at, note |-> j.note, panics |-> j.panics, gone |-> j.gone, todo |-> j.todo]
  /\ j.at \in {"purge", "purgePairs"}
Extracts(j) ==
  /\ j = [at |-> j.at, note |-> j.note, panics |-> j.panics, todo |-> j.todo, since |-> j.since]
  /\ j.at \in {"extract", "store", "pair"}
Deletes(j) == j = [at |-> j.at, note |-> j.note] /\ j.at \in {"unburst", "unpair"}
Matches(j) == j = [at |-> "match", note |-> j.note, project |-> j.project]
Marks(j) == j = [at |-> "mark", pair |-> j.pair]

JobIsSound ==
  job = FreeJob \/ Purges(job) \/ Extracts(job) \/ Deletes(job) \/ Matches(job) \/ Marks(job)

LEMMA JobPhases ==
  ASSUME JobIsSound
  PROVE  /\ job.at = "free" <=> job = FreeJob
         /\ job.at \in {"purge", "purgePairs"} => Purges(job)
         /\ job.at \in {"extract", "store", "pair"} => Extracts(job)
         /\ job.at \in {"unburst", "unpair"} => Deletes(job)
         /\ job.at = "mark" => Marks(job)
<1>1. FreeJob.at = "free" /\ (Matches(job) => job.at = "match") /\ (Marks(job) => job.at = "mark")
  BY DEF FreeJob, Matches, Marks
<1> QED
  BY <1>1 DEF JobIsSound, Purges, Extracts, Deletes

LEMMA ExtractIsSound ==
  ASSUME NEW n, NEW panics, NEW todo, NEW j, j = Extract(n, panics, todo)
  PROVE  j = FreeJob \/ (Extracts(j) /\ j.at = "extract")
  BY DEF Extract, Extracts

(* Every step leaves a closure of a known shape in hand, or none.          *)
LEMMA JobStaysSound ==
  ASSUME JobIsSound, [GraphNext]_graphVars
  PROVE  JobIsSound'
<1>1. ASSUME NEW n \in GraphNotes, BeginEvent(n)
      PROVE  JobIsSound'
  <2>1. PICK edit \in Edits :
          LET affected == GroupAffectedLines(edit.touched, WindowLines, edit.total)
              windows == Windows(edit.touched, WindowLines, ChunkSize, edit.total)
              panics == \E w \in windows : ~ Sliceable(w, edit.total)
          IN  \E worded \in SUBSET windows, ok \in BOOLEAN : \E topic \in [worded -> Topics] :
                LET todo == {[at |-> w, topic |-> topic[w]] : w \in worded}
                    gone == {b \in BurstsOf(n) : ok /\ \E r \in affected : Overlaps(bursts[b].at, r)}
                IN  job' = IF gone = {} THEN Extract(n, panics, todo)
                           ELSE [at |-> "purge", note |-> n, panics |-> panics,
                                 gone |-> gone, todo |-> todo]
    BY <1>1, ZenonT(60) DEF BeginEvent
  <2>2. PICK panics, todo, gone :
          job' = IF gone = {} THEN Extract(n, panics, todo)
                 ELSE [at |-> "purge", note |-> n, panics |-> panics, gone |-> gone, todo |-> todo]
    BY <2>1
  <2>3. CASE gone = {}
    BY <2>2, <2>3, ExtractIsSound DEF JobIsSound
  <2>4. CASE gone # {}
    BY <2>2, <2>4 DEF JobIsSound, Purges
  <2> QED
    BY <2>3, <2>4
<1>2. CASE PurgeBursts
  BY <1>2, JobPhases DEF PurgeBursts, JobIsSound, Purges
<1>3. CASE PurgePairs
  BY <1>3, ExtractIsSound DEF PurgePairs, JobIsSound
<1>4. ASSUME NEW todo, job.at \in {"extract", "store", "pair"}, job' = AfterWindow(todo)
      PROVE  JobIsSound'
  BY <1>4, JobPhases DEF AfterWindow, JobIsSound, Extracts
<1>5. CASE StoreBurst
  <2>1. job.at \in {"extract", "store"}
    BY <1>5 DEF StoreBurst
  <2>2. PICK rest : \/ job' = [job EXCEPT !.at = "pair", !.todo = rest]
                    \/ job' = AfterWindow(rest)
    BY <1>5 DEF StoreBurst
  <2>3. CASE job' = [job EXCEPT !.at = "pair", !.todo = rest]
    <3>1. Extracts(job)
      BY <2>1, JobPhases
    <3>2. Extracts(job')
      BY <3>1, <2>3 DEF Extracts
    <3> QED
      BY <3>2 DEF JobIsSound
  <2> QED
    BY <1>4, <2>1, <2>2, <2>3
<1>6. CASE PairBurst
  BY <1>4, <1>6 DEF PairBurst
<1>7. CASE DeleteBursts
  BY <1>7, JobPhases DEF DeleteBursts, JobIsSound, Deletes
<1>8. ASSUME NEW n, NEW p, Stamp(n, p)
      PROVE  JobIsSound'
  BY <1>8 DEF Stamp, JobIsSound, Matches
<1>9. ASSUME NEW n, DeleteNote(n)
      PROVE  JobIsSound'
  BY <1>9 DEF DeleteNote, JobIsSound, Deletes
<1>10. ASSUME NEW pair, Promote(pair)
       PROVE  JobIsSound'
  BY <1>10 DEF Promote, JobIsSound, Marks
<1>11. ASSUME \/ \E n, p, old, d : UpdateNote(n, p, old, d)
              \/ \E pair : Dismiss(pair)
              \/ \E moment : Sweep(moment)
              \/ UNCHANGED graphVars
       PROVE  JobIsSound'
  BY <1>11 DEF UpdateNote, Dismiss, Sweep, graphVars, JobIsSound, Purges, Extracts, Deletes, Matches, Marks
<1>12. ASSUME SkipEvent \/ Match \/ DeletePairs \/ MarkPromoted \/ ExtractionPanics \/ GraphCrash
       PROVE  JobIsSound'
  BY <1>12 DEF SkipEvent, Match, DeletePairs, MarkPromoted, ExtractionPanics, GraphCrash,
               GraphRestart, JobIsSound
<1> QED
  BY <1>1, <1>2, <1>3, <1>5, <1>6, <1>7, <1>8, <1>9, <1>10, <1>11, <1>12 DEF GraphNext, Closure

-----------------------------------------------------------------------------
(* The review: what was decided of a pair, and the links behind it.        *)

(* A closure comes to the mark only once the links of its pair are stored. *)
MarkFollowsLinks == job.at = "mark" => job.pair \in Pairs /\ links[job.pair] > 0

PromotedAreLinked ==
  \A pair \in DOMAIN cands : cands[pair].status = "promoted" => pair \in Pairs /\ links[pair] > 0

ReviewInv ==
  /\ JobIsSound /\ CandidatesAreTyped
  /\ links \in [Pairs -> Nat]
  /\ MarkFollowsLinks /\ PromotedAreLinked

(* The rows whose removal a closure may ask for.                           *)
PendingOnes(pairs) == \A pair \in pairs \cap DOMAIN cands : cands[pair].status = "pending"

(* What a step does to the candidates and the links.                       *)
LEMMA ReviewSteps ==
  ASSUME ReviewInv, [GraphNext]_graphVars
  PROVE  \/ links' = links /\ (job' = job \/ job'.at # "mark")
            /\ (\/ cands' = cands
                \/ \E pairs : InsertCandidates(pairs)
                \/ \E pairs : cands' = Without(cands, pairs) /\ PendingOnes(pairs))
         \/ \E pair \in Pairs : Promote(pair) \/ Dismiss(pair)
         \/ MarkPromoted
<1>1. ASSUME NEW todo, job' = AfterWindow(todo)
      PROVE  job'.at # "mark"
  <2>1. CASE todo = {}
    BY <1>1, <2>1 DEF AfterWindow, FreeJob
  <2>2. CASE todo # {}
    <3>1. job' = [job EXCEPT !.at = "store", !.todo = todo]
      BY <1>1, <2>2 DEF AfterWindow
    <3> QED
      BY <3>1 DEF ReviewInv, JobIsSound, FreeJob, Purges, Extracts, Deletes, Matches, Marks
  <2> QED
    BY <2>1, <2>2
<1>2. ASSUME NEW n \in GraphNotes, BeginEvent(n)
      PROVE  job'.at # "mark" /\ UNCHANGED <<cands, links>>
  <2>1. PICK panics, todo, gone :
          job' = IF gone = {} THEN Extract(n, panics, todo)
                 ELSE [at |-> "purge", note |-> n, panics |-> panics, gone |-> gone, todo |-> todo]
    BY <1>2, ZenonT(60) DEF BeginEvent
  <2>2. job'.at # "mark"
    BY <2>1 DEF Extract, FreeJob
  <2> QED
    BY <1>2, <2>2 DEF BeginEvent, rowVars
<1>3. ASSUME NEW n \in GraphNotes, NEW p \in Projects, Stamp(n, p)
      PROVE  job'.at # "mark" /\ UNCHANGED <<cands, links>>
  BY <1>3 DEF Stamp, FreeJob
<1>4. ASSUME NEW n \in GraphNotes, DeleteNote(n)
      PROVE  job'.at # "mark" /\ UNCHANGED <<cands, links>>
  BY <1>4 DEF DeleteNote, rowVars
<1>5. CASE PurgeBursts
  <2>1. Purges(job)
    BY <1>5, JobPhases DEF PurgeBursts, ReviewInv
  <2>2. job' = [job EXCEPT !.at = "purgePairs"]
    BY <1>5 DEF PurgeBursts
  <2> QED
    BY <1>5, <2>1, <2>2 DEF PurgeBursts, Purges
<1>6. CASE PurgePairs
  <2>1. job'.at # "mark"
    BY <1>6 DEF PurgePairs, Extract, FreeJob
  <2>2. cands' = cands \/ cands' = Without(cands, PendingOf(job.gone))
    BY <1>6 DEF PurgePairs
  <2>3. PendingOnes(PendingOf(job.gone))
    BY DEF PendingOnes, PendingOf
  <2> QED
    BY <1>6, <2>1, <2>2, <2>3 DEF PurgePairs
<1>7. CASE StoreBurst
  <2>1. Extracts(job)
    BY <1>7, JobPhases DEF StoreBurst, ReviewInv
  <2>2. PICK rest : \/ job' = [job EXCEPT !.at = "pair", !.todo = rest]
                    \/ job' = AfterWindow(rest)
    BY <1>7 DEF StoreBurst
  <2>3. job' = [job EXCEPT !.at = "pair", !.todo = rest] => job'.at # "mark"
    BY <2>1 DEF Extracts
  <2> QED
    BY <1>1, <1>7, <2>2, <2>3 DEF StoreBurst
<1>8. CASE PairBurst
  BY <1>1, <1>8 DEF PairBurst
<1>9. CASE Match
  BY <1>9 DEF Match, FreeJob
<1>10. CASE DeleteBursts
  <2>1. Deletes(job)
    BY <1>10, JobPhases DEF DeleteBursts, ReviewInv
  <2>2. job' = [job EXCEPT !.at = "unpair"] \/ job' = FreeJob
    BY <1>10 DEF DeleteBursts
  <2>3. job'.at # "mark"
    BY <2>1, <2>2 DEF Deletes, FreeJob
  <2> QED
    BY <1>10, <2>3 DEF DeleteBursts
<1>11. CASE DeletePairs
  <2>1. cands' = cands \/ cands' = Without(cands, PendingOfNote(job.note))
    BY <1>11 DEF DeletePairs
  <2>2. PendingOnes(PendingOfNote(job.note))
    BY DEF PendingOnes, PendingOfNote
  <2> QED
    BY <1>11, <2>1, <2>2 DEF DeletePairs, FreeJob
<1>12. ASSUME \/ \E n, p, old, d : UpdateNote(n, p, old, d)
              \/ \E moment : Sweep(moment)
              \/ UNCHANGED graphVars
       PROVE  UNCHANGED <<cands, links, job>>
  BY <1>12 DEF UpdateNote, Sweep, graphVars, rowVars
<1>13. ASSUME SkipEvent \/ ExtractionPanics \/ GraphCrash
       PROVE  job'.at # "mark" /\ UNCHANGED <<cands, links>>
  BY <1>13 DEF SkipEvent, ExtractionPanics, GraphCrash, GraphRestart, FreeJob, rowVars
<1> QED
  BY <1>2, <1>3, <1>4, <1>5, <1>6, <1>7, <1>8, <1>9, <1>10, <1>11, <1>12, <1>13 DEF GraphNext, Closure

LEMMA ReviewInvInit == GraphInit => ReviewInv
<1> SUFFICES ASSUME GraphInit PROVE ReviewInv
  OBVIOUS
<1>1. DOMAIN cands = {}
  BY DEF GraphInit
<1>2. job = FreeJob /\ job.at # "mark"
  BY DEF GraphInit, FreeJob
<1> QED
  BY <1>1, <1>2 DEF GraphInit, ReviewInv, JobIsSound, CandidatesAreTyped, MarkFollowsLinks, PromotedAreLinked

LEMMA ReviewInvHolds ==
  ASSUME ReviewInv, [GraphNext]_graphVars
  PROVE  ReviewInv'
<1>1. JobIsSound'
  BY JobStaysSound DEF ReviewInv
<1>2. ASSUME links' = links, job' = job \/ job'.at # "mark",
             \/ cands' = cands
             \/ \E pairs : InsertCandidates(pairs)
             \/ \E pairs : cands' = Without(cands, pairs) /\ PendingOnes(pairs)
      PROVE  ReviewInv'
  <2>1. \A pair \in DOMAIN cands' :
          \/ pair \in DOMAIN cands /\ cands'[pair] = cands[pair]
          \/ \E notes : cands'[pair] = [notes |-> notes, status |-> "pending"]
    BY <1>2, StoredPairs, RemovedPairs
  <2>2. CandidatesAreTyped' /\ PromotedAreLinked'
    BY <1>2, <2>1 DEF ReviewInv, CandidatesAreTyped, PromotedAreLinked
  <2>3. MarkFollowsLinks'
    BY <1>2 DEF ReviewInv, MarkFollowsLinks
  <2> QED
    BY <1>1, <1>2, <2>2, <2>3 DEF ReviewInv
<1>3. ASSUME NEW pair \in Pairs, Promote(pair)
      PROVE  ReviewInv'
  <2>1. /\ cands' = cands
        /\ \/ links' = links /\ job' = FreeJob
           \/ links' = [links EXCEPT ![pair] = @ + 1] /\ job' = [at |-> "mark", pair |-> pair]
    BY <1>3 DEF Promote
  <2>2. /\ links' \in [Pairs -> Nat]
        /\ \A other \in Pairs : links[other] > 0 => links'[other] > 0
        /\ job'.at = "mark" => job'.pair = pair /\ links'[pair] > 0
    BY <2>1 DEF ReviewInv, FreeJob
  <2> QED
    BY <1>1, <2>1, <2>2 DEF ReviewInv, CandidatesAreTyped, MarkFollowsLinks, PromotedAreLinked
<1>4. ASSUME NEW pair \in Pairs, Dismiss(pair)
      PROVE  ReviewInv'
  <2>1. cands' = WithStatus(pair, "dismissed") /\ links' = links /\ job' = job
    BY <1>4 DEF Dismiss
  <2>2. /\ DOMAIN cands' = DOMAIN cands /\ CandidatesAreTyped'
        /\ \A other \in DOMAIN cands : cands'[other].status = "promoted" => cands[other].status = "promoted"
    BY <2>1, MarkedPair DEF ReviewInv
  <2> QED
    BY <1>1, <2>1, <2>2 DEF ReviewInv, MarkFollowsLinks, PromotedAreLinked
<1>5. CASE MarkPromoted
  <2>1. job.at = "mark" /\ links' = links /\ job' = FreeJob
    BY <1>5 DEF MarkPromoted
  <2>2. job.pair \in Pairs /\ links[job.pair] > 0
    BY <2>1 DEF ReviewInv, MarkFollowsLinks
  <2>3. cands' = cands \/ cands' = WithStatus(job.pair, "promoted")
    BY <1>5 DEF MarkPromoted
  <2>4. /\ DOMAIN cands' = DOMAIN cands /\ CandidatesAreTyped'
        /\ \A pair \in DOMAIN cands :
             cands'[pair].status = "promoted" => cands[pair].status = "promoted" \/ pair = job.pair
    BY <2>3, MarkedPair DEF ReviewInv, CandidatesAreTyped
  <2> QED
    BY <1>1, <2>1, <2>2, <2>4 DEF ReviewInv, MarkFollowsLinks, PromotedAreLinked, FreeJob
<1> QED
  BY <1>2, <1>3, <1>4, <1>5, ReviewSteps

(* Links are stored before the mark (PromoteCandidate): for any pairs,     *)
(* requests and failures, a promoted candidate has its links.              *)
THEOREM PromotedAlwaysHasLinks == GraphSpec => []PromotedHasLinks
<1>1. ReviewInv => PromotedHasLinks
  BY DEF ReviewInv, PromotedAreLinked, PromotedHasLinks
<1> QED
  BY <1>1, ReviewInvInit, ReviewInvHolds, PTL DEF GraphSpec

(* No edit, deletion, indexing or second review, in any order, deletes a   *)
(* reviewed candidate or offers it for review again.                       *)
THEOREM ReviewsAreKept == GraphSpec => ReviewIsKept
<1>1. ASSUME ReviewInv, [GraphNext]_graphVars
      PROVE  \A pair \in Reviewed : pair \in DOMAIN cands' /\ cands'[pair].status # "pending"
  <2> SUFFICES ASSUME NEW pair \in Reviewed
               PROVE  pair \in DOMAIN cands' /\ cands'[pair].status # "pending"
    OBVIOUS
  <2>1. pair \in DOMAIN cands /\ cands[pair].status # "pending"
    BY DEF Reviewed
  <2>2. CASE \/ cands' = cands
             \/ \E pairs : InsertCandidates(pairs)
             \/ \E pairs : cands' = Without(cands, pairs) /\ PendingOnes(pairs)
    BY <2>1, <2>2, StoredPairs, RemovedPairs DEF PendingOnes
  <2>3. ASSUME NEW marked, NEW status \in {"promoted", "dismissed"}, cands' = WithStatus(marked, status)
        PROVE  pair \in DOMAIN cands' /\ cands'[pair].status # "pending"
    BY <1>1, <2>1, <2>3, MarkedPair DEF ReviewInv
  <2>4. \/ cands' = cands
        \/ \E pairs : InsertCandidates(pairs)
        \/ \E pairs : cands' = Without(cands, pairs) /\ PendingOnes(pairs)
        \/ \E marked : cands' = WithStatus(marked, "promoted") \/ cands' = WithStatus(marked, "dismissed")
    BY <1>1, ReviewSteps DEF Promote, Dismiss, MarkPromoted
  <2> QED
    BY <2>2, <2>3, <2>4
<1> QED
  BY <1>1, ReviewInvInit, ReviewInvHolds, PTL DEF GraphSpec, ReviewIsKept

-----------------------------------------------------------------------------
(* The bursts of a candidate.  A closure removes bursts first and the      *)
(* pending pairs that had them by its next statement, so that between the  *)
(* two the closure in hand answers for the pairs that lost one.            *)

IdsAscend ==
  /\ drawn \in Nat
  /\ DOMAIN bursts \subseteq 1..drawn
  /\ \A pair \in DOMAIN cands : pair \subseteq 1..drawn

NotesAreThoseOfBursts ==
  \A pair \in DOMAIN cands :
    /\ \A b \in pair \cap DOMAIN bursts : bursts[b].note \in cands[pair].notes
    /\ pair \subseteq DOMAIN bursts => \A n \in cands[pair].notes : \E b \in pair : bursts[b].note = n

NewBurstIsStored == job.at = "pair" => drawn \in DOMAIN bursts

InHand(pair, b) ==
  \/ job.at = "purgePairs" /\ b \in job.gone
  \/ job.at = "unpair" /\ job.note \in cands[pair].notes

PendingResolveOrInHand ==
  ~ lost =>
    \A pair \in DOMAIN cands :
      cands[pair].status = "pending" =>
        \A b \in pair : b \in DOMAIN bursts \cup swept \/ InHand(pair, b)

PairInv == ReviewInv /\ IdsAscend /\ NotesAreThoseOfBursts /\ NewBurstIsStored /\ PendingResolveOrInHand

(* Steps that keep every row, and of a candidate at most decide it.        *)
LEMMA KeptRows ==
  ASSUME PairInv, ReviewInv',
         drawn' = drawn, swept' = swept,
         DOMAIN bursts' = DOMAIN bursts,
         \A b \in DOMAIN bursts : bursts'[b].note = bursts[b].note,
         DOMAIN cands' = DOMAIN cands,
         \A pair \in DOMAIN cands :
           /\ cands'[pair].notes = cands[pair].notes
           /\ cands'[pair].status = "pending" => cands[pair].status = "pending",
         lost' \/ (~ lost /\ job.at \notin {"purgePairs", "unpair"}),
         job'.at # "pair"
  PROVE  PairInv'
<1>1. IdsAscend' /\ NotesAreThoseOfBursts' /\ NewBurstIsStored'
  BY DEF PairInv, IdsAscend, NotesAreThoseOfBursts, NewBurstIsStored
<1>2. PendingResolveOrInHand'
  BY DEF PairInv, PendingResolveOrInHand, InHand
<1> QED
  BY <1>1, <1>2 DEF PairInv

(* Steps that store candidates between bursts that are stored.             *)
LEMMA StoredRows ==
  ASSUME PairInv, ReviewInv', NEW pairs, InsertCandidates(pairs),
         \A pair \in pairs : pair \subseteq DOMAIN bursts,
         UNCHANGED <<drawn, swept, bursts>>,
         lost' \/ ~ lost, job.at \notin {"purgePairs", "unpair"}, job'.at # "pair"
  PROVE  PairInv'
<1>1. \A pair \in DOMAIN cands' :
        \/ pair \in DOMAIN cands /\ cands'[pair] = cands[pair]
        \/ /\ pair \subseteq DOMAIN bursts
           /\ cands'[pair] = [notes |-> {bursts[b].note : b \in pair}, status |-> "pending"]
  BY StoredPairs
<1>2. IdsAscend' /\ NewBurstIsStored'
  BY <1>1 DEF PairInv, IdsAscend, NewBurstIsStored
<1>3. NotesAreThoseOfBursts'
  BY <1>1 DEF PairInv, NotesAreThoseOfBursts
<1>4. PendingResolveOrInHand'
  BY <1>1 DEF PairInv, PendingResolveOrInHand, InHand
<1> QED
  BY <1>2, <1>3, <1>4 DEF PairInv

(* Steps that remove candidates, and with them those in hand.              *)
LEMMA RemovedRows ==
  ASSUME PairInv, ReviewInv', NEW pairs, cands' = Without(cands, pairs) \/ (lost' /\ cands' = cands),
         ~ lost' => \A pair \in DOMAIN cands \ pairs :
                     cands[pair].status = "pending" => \A b \in pair : ~ InHand(pair, b),
         UNCHANGED <<drawn, swept, bursts>>, lost' \/ ~ lost, job'.at # "pair"
  PROVE  PairInv'
<1>1. \A pair \in DOMAIN cands' :
        /\ pair \in DOMAIN cands /\ cands'[pair] = cands[pair]
        /\ lost' \/ pair \notin pairs
  BY RemovedPairs
<1>2. IdsAscend' /\ NewBurstIsStored' /\ NotesAreThoseOfBursts'
  BY <1>1 DEF PairInv, IdsAscend, NewBurstIsStored, NotesAreThoseOfBursts
<1>3. PendingResolveOrInHand'
  BY <1>1 DEF PairInv, PendingResolveOrInHand
<1> QED
  BY <1>2, <1>3 DEF PairInv

(* Steps that remove bursts which a sweep or the closure in hand accounts  *)
(* for.                                                                    *)
LEMMA RemovedBursts ==
  ASSUME PairInv, ReviewInv', NEW ids, bursts' = Without(bursts, ids) \/ (lost' /\ bursts' = bursts),
         UNCHANGED <<drawn, cands>>, swept \subseteq swept',
         lost' \/ ~ lost, job'.at # "pair",
         lost' \/ job.at \notin {"purgePairs", "unpair"},
         ~ lost' => \A pair \in DOMAIN cands : \A b \in pair \cap DOMAIN bursts :
                     b \in ids => b \in swept' \/ InHand(pair, b)'
  PROVE  PairInv'
<1>1. /\ DOMAIN bursts' \subseteq DOMAIN bursts
      /\ \A b \in DOMAIN bursts' : bursts'[b] = bursts[b]
      /\ lost' \/ \A b \in DOMAIN bursts : b \in ids \/ b \in DOMAIN bursts'
  BY DEF Without
<1>2. IdsAscend' /\ NewBurstIsStored' /\ NotesAreThoseOfBursts'
  BY <1>1 DEF PairInv, IdsAscend, NewBurstIsStored, NotesAreThoseOfBursts
<1>3. ASSUME ~ lost', NEW pair \in DOMAIN cands, cands[pair].status = "pending", NEW b \in pair
      PROVE  b \in DOMAIN bursts' \cup swept' \/ InHand(pair, b)'
  <2>1. b \in DOMAIN bursts \cup swept
    BY <1>3 DEF PairInv, PendingResolveOrInHand, InHand
  <2> QED
    BY <1>1, <1>3, <2>1
<1>4. PendingResolveOrInHand'
  BY <1>3 DEF PendingResolveOrInHand
<1> QED
  BY <1>2, <1>4 DEF PairInv

LEMMA PairInvInit == GraphInit => PairInv
<1> SUFFICES ASSUME GraphInit PROVE PairInv
  OBVIOUS
<1>1. DOMAIN cands = {} /\ DOMAIN bursts = {} /\ drawn = 0 /\ job.at = "free"
  BY DEF GraphInit, FreeJob
<1> QED
  BY <1>1, ReviewInvInit
     DEF PairInv, IdsAscend, NotesAreThoseOfBursts, NewBurstIsStored, PendingResolveOrInHand

LEMMA PairInvHolds ==
  ASSUME PairInv, [GraphNext]_graphVars
  PROVE  PairInv'
<1> FreeJob.at = "free"
  BY DEF FreeJob
<1>1. JobIsSound /\ ReviewInv'
  BY ReviewInvHolds DEF PairInv, ReviewInv
<1>2. ASSUME NEW ok, Statement(ok)
      PROVE  (lost => lost') /\ (~ ok => lost')
  BY <1>2 DEF Statement, faultVars
<1>3. CASE UNCHANGED graphVars
  BY <1>1, <1>3 DEF graphVars, noteVars, rowVars, faultVars, PairInv, IdsAscend, NotesAreThoseOfBursts,
                    NewBurstIsStored, PendingResolveOrInHand, InHand
<1>4. ASSUME NEW n, NEW p, NEW old, NEW d, UpdateNote(n, p, old, d)
      PROVE  PairInv'
  BY <1>1, <1>4, KeptRows DEF UpdateNote, Request, rowVars, faultVars
<1>5. ASSUME NEW n, NEW p, Stamp(n, p)
      PROVE  PairInv'
  <2>1. /\ DOMAIN bursts' = DOMAIN bursts
        /\ \A b \in DOMAIN bursts : bursts'[b].note = bursts[b].note
    BY <1>5 DEF Stamp
  <2>2. job = FreeJob /\ UNCHANGED <<drawn, swept, cands>>
    BY <1>5 DEF Stamp
  <2>3. (lost => lost') /\ job'.at # "pair"
    BY <1>2, <1>5 DEF Stamp
  <2> QED
    BY <1>1, <2>1, <2>2, <2>3, KeptRows
<1>6. ASSUME NEW n \in GraphNotes, BeginEvent(n)
      PROVE  PairInv'
  <2>1. PICK panics, todo, gone :
          job' = IF gone = {} THEN Extract(n, panics, todo)
                 ELSE [at |-> "purge", note |-> n, panics |-> panics, gone |-> gone, todo |-> todo]
    BY <1>6, ZenonT(60) DEF BeginEvent
  <2>2. job'.at # "pair"
    BY <2>1 DEF Extract
  <2>3. lost => lost'
    BY <1>2, <1>6 DEF BeginEvent
  <2> QED
    BY <1>1, <1>6, <2>2, <2>3, KeptRows DEF BeginEvent, rowVars
<1>7. ASSUME NEW n, DeleteNote(n)
      PROVE  PairInv'
  BY <1>1, <1>7, KeptRows DEF DeleteNote, Request, rowVars, faultVars
<1>8. ASSUME NEW pair, Promote(pair)
      PROVE  PairInv'
  <2>1. (lost => lost') /\ job'.at # "pair"
    BY <1>2, <1>8 DEF Promote
  <2> QED
    BY <1>1, <1>8, <2>1, KeptRows DEF Promote, Request
<1>9. ASSUME NEW pair, Dismiss(pair)
      PROVE  PairInv'
  <2>1. /\ DOMAIN cands' = DOMAIN cands
        /\ \A other \in DOMAIN cands :
             /\ cands'[other].notes = cands[other].notes
             /\ cands'[other].status = "pending" => cands[other].status = "pending"
    BY <1>9, MarkedPair DEF Dismiss, PairInv, ReviewInv
  <2> QED
    BY <1>1, <1>9, <2>1, KeptRows DEF Dismiss, Request, faultVars
<1>10. ASSUME NEW moment, Sweep(moment)
       PROVE  PairInv'
  BY <1>1, <1>10, RemovedBursts DEF Sweep, Request, faultVars
<1>11. CASE PurgeBursts
  <2>1. Purges(job) /\ job' = [job EXCEPT !.at = "purgePairs"]
    BY <1>1, <1>11, JobPhases DEF PurgeBursts
  <2>2. job'.at = "purgePairs" /\ job'.gone = job.gone
    BY <2>1 DEF Purges
  <2>3. bursts' = Without(bursts, job.gone) \/ (lost' /\ bursts' = bursts)
    BY <1>2, <1>11 DEF PurgeBursts
  <2>4. lost => lost'
    BY <1>2, <1>11 DEF PurgeBursts
  <2> QED
    BY <1>1, <1>11, <2>2, <2>3, <2>4, RemovedBursts DEF PurgeBursts, InHand
<1>12. CASE PurgePairs
  <2>1. job'.at # "pair"
    BY <1>12 DEF PurgePairs, Extract
  <2>2. cands' = Without(cands, PendingOf(job.gone)) \/ (lost' /\ cands' = cands)
    BY <1>2, <1>12 DEF PurgePairs
  <2>3. \A pair \in DOMAIN cands \ PendingOf(job.gone) :
          cands[pair].status = "pending" => \A b \in pair : ~ InHand(pair, b)
    BY <1>12 DEF PurgePairs, PendingOf, InHand
  <2>4. lost => lost'
    BY <1>2, <1>12 DEF PurgePairs
  <2> QED
    BY <1>1, <1>12, <2>1, <2>2, <2>3, <2>4, RemovedRows DEF PurgePairs
<1>13. CASE SkipEvent
  BY <1>1, <1>13, KeptRows DEF SkipEvent, rowVars, faultVars
<1>14. ASSUME NEW todo, job' = AfterWindow(todo)
       PROVE  job'.at # "pair" \/ ~ Extracts(job)
  BY <1>14 DEF AfterWindow, Extracts
<1>15. CASE StoreBurst
  <2> DEFINE row == [note |-> job.note, project |-> project[job.note], at |-> First(job.todo).at,
                     topic |-> First(job.todo).topic, created |-> job.since]
  <2>1. /\ job.at \in {"extract", "store"} /\ Extracts(job)
        /\ drawn' = drawn + 1
        /\ UNCHANGED <<cands, swept>>
    BY <1>1, <1>15, JobPhases DEF StoreBurst
  <2>2. lost => lost'
    BY <1>2, <1>15 DEF StoreBurst
  <2>3. \/ bursts' = With(bursts, [b \in {drawn + 1} |-> row])
        \/ bursts' = bursts /\ job' = AfterWindow(job.todo \ {First(job.todo)})
    BY <1>15 DEF StoreBurst
  <2>4. /\ \A b \in DOMAIN bursts : b \in DOMAIN bursts' /\ bursts'[b] = bursts[b]
        /\ DOMAIN bursts' \subseteq DOMAIN bursts \cup {drawn + 1}
        /\ job'.at = "pair" => drawn + 1 \in DOMAIN bursts'
    BY <1>14, <2>1, <2>3 DEF With
  <2>5. IdsAscend' /\ NewBurstIsStored'
    BY <2>1, <2>4 DEF PairInv, IdsAscend, NewBurstIsStored
  <2>6. NotesAreThoseOfBursts'
    BY <2>1, <2>4 DEF PairInv, IdsAscend, NotesAreThoseOfBursts
  <2>7. PendingResolveOrInHand'
    BY <2>1, <2>2, <2>4 DEF PairInv, PendingResolveOrInHand, InHand
  <2> QED
    BY <1>1, <2>5, <2>6, <2>7 DEF PairInv
<1>16. CASE PairBurst
  <2>1. PICK stored \in SUBSET SimilarPairs({drawn}, Peers(job.note, project[job.note])) :
          /\ Statement(stored = SimilarPairs({drawn}, Peers(job.note, project[job.note])))
          /\ InsertCandidates(stored) /\ job' = AfterWindow(job.todo)
    BY <1>16 DEF PairBurst
  <2>2. job.at = "pair" /\ Extracts(job) /\ drawn \in DOMAIN bursts
    BY <1>1, <1>16, JobPhases DEF PairBurst, PairInv, NewBurstIsStored
  <2>3. \A pair \in stored : pair \subseteq DOMAIN bursts
    BY <2>1, <2>2 DEF SimilarPairs, Peers
  <2>4. (lost => lost') /\ job'.at # "pair"
    BY <1>2, <1>14, <2>1, <2>2
  <2> QED
    BY <1>1, <1>16, <2>1, <2>2, <2>3, <2>4, StoredRows DEF PairBurst
<1>17. CASE Match
  <2>1. PICK stored \in SUBSET (SimilarPairs(BurstsOf(job.note), Peers(job.note, job.project)) \ Reviewed) :
          /\ Statement(stored = SimilarPairs(BurstsOf(job.note), Peers(job.note, job.project)) \ Reviewed)
          /\ InsertCandidates(stored)
    BY <1>17 DEF Match
  <2>2. \A pair \in stored : pair \subseteq DOMAIN bursts
    BY <2>1 DEF SimilarPairs, BurstsOf, Peers
  <2>3. lost => lost'
    BY <1>2, <2>1
  <2> QED
    BY <1>1, <1>17, <2>1, <2>2, <2>3, StoredRows DEF Match
<1>18. CASE DeleteBursts
  <2>1. Deletes(job) /\ UNCHANGED <<drawn, cands, swept>>
    BY <1>1, <1>18, JobPhases DEF DeleteBursts
  <2>2. \/ bursts' = Without(bursts, BurstsOf(job.note)) /\ job' = [job EXCEPT !.at = "unpair"]
        \/ lost' /\ bursts' = bursts /\ job' = FreeJob
    BY <1>2, <1>18 DEF DeleteBursts
  <2>3. job'.at # "pair" /\ (lost' \/ (job'.at = "unpair" /\ job'.note = job.note))
    BY <2>1, <2>2 DEF Deletes
  <2>4. lost => lost'
    BY <1>2, <1>18 DEF DeleteBursts
  <2>5. ~ lost' => \A pair \in DOMAIN cands : \A b \in pair \cap DOMAIN bursts :
                    b \in BurstsOf(job.note) => InHand(pair, b)'
    BY <2>1, <2>3 DEF BurstsOf, InHand, PairInv, NotesAreThoseOfBursts
  <2> QED
    BY <1>1, <1>18, <2>1, <2>2, <2>3, <2>4, <2>5, RemovedBursts DEF DeleteBursts
<1>19. CASE DeletePairs
  <2>1. cands' = Without(cands, PendingOfNote(job.note)) \/ (lost' /\ cands' = cands)
    BY <1>2, <1>19 DEF DeletePairs
  <2>2. \A pair \in DOMAIN cands \ PendingOfNote(job.note) :
          cands[pair].status = "pending" => \A b \in pair : ~ InHand(pair, b)
    BY <1>19 DEF DeletePairs, PendingOfNote, InHand
  <2>3. lost => lost'
    BY <1>2, <1>19 DEF DeletePairs
  <2> QED
    BY <1>1, <1>19, <2>1, <2>2, <2>3, RemovedRows DEF DeletePairs
<1>20. CASE MarkPromoted
  <2>1. cands' = cands \/ cands' = WithStatus(job.pair, "promoted")
    BY <1>20 DEF MarkPromoted
  <2>2. /\ DOMAIN cands' = DOMAIN cands
        /\ \A other \in DOMAIN cands :
             /\ cands'[other].notes = cands[other].notes
             /\ cands'[other].status = "pending" => cands[other].status = "pending"
    BY <2>1, MarkedPair DEF PairInv, ReviewInv
  <2>3. lost => lost'
    BY <1>2, <1>20 DEF MarkPromoted
  <2> QED
    BY <1>1, <1>20, <2>2, <2>3, KeptRows DEF MarkPromoted
<1>21. ASSUME ExtractionPanics \/ GraphCrash
       PROVE  PairInv'
  BY <1>1, <1>21, KeptRows DEF ExtractionPanics, GraphCrash, GraphRestart, rowVars
<1> QED
  BY <1>3, <1>4, <1>5, <1>6, <1>7, <1>8, <1>9, <1>10, <1>11, <1>12, <1>13, <1>15, <1>16, <1>17, <1>18,
     <1>19, <1>20, <1>21 DEF GraphNext, Closure

(* Between edits, moves, deletions and sweeps in any order, a pending      *)
(* candidate keeps the two bursts its reviewer is to read.                 *)
THEOREM PendingPairsAlwaysResolve == GraphSpec => []PendingPairsResolve
<1>1. PairInv => PendingPairsResolve
  BY DEF PairInv, PendingResolveOrInHand, InHand, PendingPairsResolve, FreeJob
<1> QED
  BY <1>1, PairInvInit, PairInvHolds, PTL DEF GraphSpec

-----------------------------------------------------------------------------
(* Which pairs are offered.  A burst is stored, or stamped with a project, *)
(* before its candidates are: meanwhile the closure in hand owes them.     *)

BurstsAreTyped ==
  \A b \in DOMAIN bursts :
    /\ bursts[b] = [note |-> bursts[b].note, project |-> bursts[b].project, at |-> bursts[b].at,
                    topic |-> bursts[b].topic, created |-> bursts[b].created]
    /\ bursts[b].note \in GraphNotes

DeletedWereHidden ==
  /\ deleted \in [GraphNotes -> BOOLEAN]
  /\ \A n \in GraphNotes : deleted[n] => n \in hidden

JobIsAboutNotes ==
  /\ job.at \in {"purge", "purgePairs", "extract", "store", "pair"} => job.note \in GraphNotes
  /\ job.at \in {"unburst", "unpair"} => job.note \in hidden
  /\ job.at = "purgePairs" /\ ~ lost => job.gone \cap DOMAIN bursts = {}
  /\ job.at = "pair" => bursts[drawn].note = job.note /\ bursts[drawn].project = project[job.note]

Alike(b, c) ==
  /\ bursts[b].note # bursts[c].note
  /\ bursts[b].topic = bursts[c].topic
  /\ bursts[b].project = bursts[c].project /\ bursts[b].project # NoProject
  /\ {bursts[b].note, bursts[c].note} \cap hidden = {}

Owed(b, c) ==
  \/ job.at = "pair" /\ drawn \in {b, c}
  \/ job.at = "match" /\ bursts[b].project = job.project /\ job.note \in {bursts[b].note, bursts[c].note}

AlikeAreOffered ==
  ~ lost => \A b, c \in DOMAIN bursts : Alike(b, c) => {b, c} \in DOMAIN cands \/ Owed(b, c)

OfferInv == PairInv /\ BurstsAreTyped /\ DeletedWereHidden /\ JobIsAboutNotes /\ AlikeAreOffered

LEMMA OfferInvInit == GraphInit => OfferInv
<1> SUFFICES ASSUME GraphInit PROVE OfferInv
  OBVIOUS
<1>1. DOMAIN bursts = {} /\ job.at = "free"
  BY DEF GraphInit, FreeJob
<1> QED
  BY <1>1, PairInvInit DEF GraphInit, OfferInv, BurstsAreTyped, DeletedWereHidden, JobIsAboutNotes, AlikeAreOffered

(* Steps that at most remove bursts and keep the candidates of the others. *)
LEMMA StillOffered ==
  ASSUME OfferInv, PairInv', DeletedWereHidden', JobIsAboutNotes',
         DOMAIN bursts' \subseteq DOMAIN bursts,
         \A b \in DOMAIN bursts' : bursts'[b] = bursts[b],
         hidden \subseteq hidden',
         lost' \/ (~ lost /\ job.at \notin {"pair", "match"}),
         ~ lost' => \A b, c \in DOMAIN bursts' : Alike(b, c)' /\ {b, c} \in DOMAIN cands => {b, c} \in DOMAIN cands'
  PROVE  OfferInv'
<1>1. BurstsAreTyped'
  BY DEF OfferInv, BurstsAreTyped
<1>2. ASSUME ~ lost', NEW b \in DOMAIN bursts', NEW c \in DOMAIN bursts', Alike(b, c)'
      PROVE  {b, c} \in DOMAIN cands'
  <2>1. b \in DOMAIN bursts /\ c \in DOMAIN bursts /\ Alike(b, c)
    BY <1>2 DEF Alike
  <2>2. {b, c} \in DOMAIN cands
    BY <1>2, <2>1 DEF OfferInv, AlikeAreOffered, Owed
  <2> QED
    BY <1>2, <2>2
<1>3. AlikeAreOffered'
  BY <1>2 DEF AlikeAreOffered
<1> QED
  BY <1>1, <1>3 DEF OfferInv

(* A closure that stores what it found pays what it owes.                  *)
LEMMA FoundPairs ==
  ASSUME NEW own, NEW peers, NEW b, NEW c, (b \in own /\ c \in peers) \/ (c \in own /\ b \in peers),
         bursts[b].topic = bursts[c].topic
  PROVE  {b, c} \in SimilarPairs(own, peers)
<1>1. {b, c} = {c, b}
  OBVIOUS
<1>2. {b, c} \in {{x, y} : x \in own, y \in peers}
  BY <1>1
<1> QED
  BY <1>2 DEF SimilarPairs

LEMMA OfferInvHolds ==
  ASSUME OfferInv, [GraphNext]_graphVars
  PROVE  OfferInv'
<1> FreeJob.at = "free"
  BY DEF FreeJob
<1>1. JobIsSound /\ PairInv'
  BY PairInvHolds DEF OfferInv, PairInv, ReviewInv
<1>2. ASSUME NEW ok, Statement(ok)
      PROVE  (lost => lost') /\ (~ ok => lost')
  BY <1>2 DEF Statement, faultVars
<1>3. ASSUME UNCHANGED <<deleted, hidden>>
      PROVE  DeletedWereHidden'
  BY <1>3 DEF OfferInv, DeletedWereHidden
<1>4. CASE UNCHANGED graphVars
  BY <1>1, <1>4 DEF graphVars, noteVars, rowVars, faultVars, OfferInv, BurstsAreTyped, DeletedWereHidden,
                    JobIsAboutNotes, AlikeAreOffered, Alike, Owed
<1>5. ASSUME NEW n \in GraphNotes, NEW p, NEW old, NEW d \in BOOLEAN, UpdateNote(n, p, old, d)
      PROVE  OfferInv'
  <2>1. job = FreeJob /\ UNCHANGED <<job, bursts, cands, lost>>
    BY <1>5 DEF UpdateNote, Request, rowVars, faultVars
  <2>2. hidden \subseteq hidden' /\ DeletedWereHidden'
    BY <1>5 DEF UpdateNote, OfferInv, DeletedWereHidden
  <2>3. JobIsAboutNotes'
    BY <2>1 DEF JobIsAboutNotes
  <2> QED
    BY <1>1, <2>1, <2>2, <2>3, StillOffered
<1>6. ASSUME NEW n \in GraphNotes, NEW p \in Projects, Stamp(n, p)
      PROVE  OfferInv'
  <2>1. job = FreeJob /\ UNCHANGED <<deleted, hidden, cands>>
    BY <1>6 DEF Stamp, noteVars
  <2>2. PICK ok \in BOOLEAN :
          /\ Statement(ok)
          /\ bursts' = [b \in DOMAIN bursts |->
                          IF ok /\ bursts[b].note = n /\ bursts[b].project = NoProject
                          THEN [bursts[b] EXCEPT !.project = p] ELSE bursts[b]]
          /\ job' = IF ok THEN [at |-> "match", note |-> n, project |-> p] ELSE FreeJob
    BY <1>6 DEF Stamp
  <2>3. ASSUME NEW b \in DOMAIN bursts
        PROVE  /\ bursts'[b] = [note |-> bursts[b].note, project |-> bursts'[b].project, at |-> bursts[b].at,
                                topic |-> bursts[b].topic, created |-> bursts[b].created]
               /\ \/ bursts'[b].project = bursts[b].project
                  \/ ok /\ bursts[b].note = n /\ bursts'[b].project = p
    <3>1. bursts[b] = [note |-> bursts[b].note, project |-> bursts[b].project, at |-> bursts[b].at,
                       topic |-> bursts[b].topic, created |-> bursts[b].created]
      BY DEF OfferInv, BurstsAreTyped
    <3>2. CASE ok /\ bursts[b].note = n /\ bursts[b].project = NoProject
      <4>1. bursts'[b] = [bursts[b] EXCEPT !.project = p]
        BY <2>2, <3>2
      <4> QED
        BY <3>1, <3>2, <4>1
    <3>3. CASE ~ (ok /\ bursts[b].note = n /\ bursts[b].project = NoProject)
      BY <2>2, <3>1, <3>3
    <3> QED
      BY <3>2, <3>3
  <2>4. DOMAIN bursts' = DOMAIN bursts /\ BurstsAreTyped'
    BY <2>2, <2>3 DEF OfferInv, BurstsAreTyped
  <2>5. JobIsAboutNotes'
    BY <2>2 DEF JobIsAboutNotes
  <2>6. ASSUME ~ lost', NEW b \in DOMAIN bursts, NEW c \in DOMAIN bursts, Alike(b, c)'
        PROVE  {b, c} \in DOMAIN cands \/ Owed(b, c)'
    <3>1. ~ lost /\ ok
      BY <1>2, <2>2, <2>6
    <3>2. job'.at = "match" /\ job'.note = n /\ job'.project = p
      BY <2>2, <3>1
    <3>3. \A x \in DOMAIN bursts : bursts'[x].note = bursts[x].note /\ bursts'[x].topic = bursts[x].topic
      <4> TAKE x \in DOMAIN bursts
      <4>1. bursts'[x] = [note |-> bursts[x].note, project |-> bursts'[x].project, at |-> bursts[x].at,
                          topic |-> bursts[x].topic, created |-> bursts[x].created]
        BY <2>3
      <4> QED
        BY <4>1
    <3>4. CASE bursts'[b].project = bursts[b].project /\ bursts'[c].project = bursts[c].project
      <4>1. Alike(b, c)
        BY <2>1, <2>6, <3>3, <3>4 DEF Alike
      <4> QED
        BY <2>1, <3>1, <4>1 DEF OfferInv, AlikeAreOffered, Owed
    <3>5. CASE bursts[b].note = n /\ bursts'[b].project = p
      BY <3>2, <3>3, <3>5 DEF Owed
    <3>6. CASE bursts[c].note = n /\ bursts'[c].project = p
      BY <2>6, <3>2, <3>3, <3>6 DEF Owed, Alike
    <3> QED
      BY <2>3, <3>4, <3>5, <3>6
  <2>7. AlikeAreOffered'
    BY <2>1, <2>4, <2>6 DEF AlikeAreOffered
  <2> QED
    BY <1>1, <1>3, <2>1, <2>4, <2>5, <2>7 DEF OfferInv
<1>7. ASSUME NEW n \in GraphNotes, BeginEvent(n)
      PROVE  OfferInv'
  <2>1. PICK panics, todo, gone :
          job' = IF gone = {} THEN Extract(n, panics, todo)
                 ELSE [at |-> "purge", note |-> n, panics |-> panics, gone |-> gone, todo |-> todo]
    BY <1>7 DEF BeginEvent
  <2>2. job' = FreeJob \/ (job'.at \in {"purge", "extract"} /\ job'.note = n)
    BY <2>1 DEF Extract
  <2>3. job = FreeJob /\ (lost => lost') /\ UNCHANGED <<deleted, hidden, bursts, cands>>
    BY <1>2, <1>7 DEF BeginEvent, noteVars, rowVars
  <2>4. JobIsAboutNotes'
    BY <2>2 DEF JobIsAboutNotes
  <2> QED
    BY <1>1, <1>3, <2>3, <2>4, StillOffered
<1>8. ASSUME NEW n \in GraphNotes, DeleteNote(n)
      PROVE  OfferInv'
  <2>1. job = FreeJob /\ UNCHANGED <<bursts, cands, lost>>
    BY <1>8 DEF DeleteNote, Request, rowVars, faultVars
  <2>2. hidden' = hidden \cup {n} /\ DeletedWereHidden'
    BY <1>8 DEF DeleteNote, OfferInv, DeletedWereHidden
  <2>3. JobIsAboutNotes'
    BY <1>8, <2>2 DEF DeleteNote, JobIsAboutNotes
  <2> QED
    BY <1>1, <2>1, <2>2, <2>3, StillOffered
<1>9. ASSUME NEW pair \in Pairs, Promote(pair) \/ Dismiss(pair)
      PROVE  OfferInv'
  <2>1. /\ job = FreeJob /\ job'.at \in {"free", "mark"}
        /\ UNCHANGED <<deleted, hidden, bursts>> /\ DOMAIN cands' = DOMAIN cands
    BY <1>9 DEF Promote, Dismiss, Request, noteVars, WithStatus
  <2>2. lost => lost'
    BY <1>2, <1>9 DEF Promote, Dismiss, faultVars
  <2>3. JobIsAboutNotes'
    BY <2>1 DEF JobIsAboutNotes
  <2> QED
    BY <1>1, <1>3, <2>1, <2>2, <2>3, StillOffered
<1>10. ASSUME NEW moment, Sweep(moment)
       PROVE  OfferInv'
  <2>1. job = FreeJob /\ UNCHANGED <<job, deleted, hidden, cands, lost>>
    BY <1>10 DEF Sweep, Request, noteVars, faultVars
  <2>2. DOMAIN bursts' \subseteq DOMAIN bursts /\ \A b \in DOMAIN bursts' : bursts'[b] = bursts[b]
    BY <1>10 DEF Sweep, Without
  <2>3. JobIsAboutNotes'
    BY <2>1 DEF JobIsAboutNotes
  <2> QED
    BY <1>1, <1>3, <2>1, <2>2, <2>3, StillOffered
<1>11. CASE PurgeBursts
  <2>1. Purges(job) /\ job' = [job EXCEPT !.at = "purgePairs"]
    BY <1>1, <1>11, JobPhases DEF PurgeBursts
  <2>2. job'.at = "purgePairs" /\ job'.gone = job.gone /\ job'.note = job.note
    BY <2>1 DEF Purges
  <2>3. (lost => lost') /\ (bursts' = Without(bursts, job.gone) \/ (lost' /\ bursts' = bursts))
    BY <1>2, <1>11 DEF PurgeBursts
  <2>4. DOMAIN bursts' \subseteq DOMAIN bursts /\ \A b \in DOMAIN bursts' : bursts'[b] = bursts[b]
    BY <2>3 DEF Without
  <2>5. JobIsAboutNotes'
    BY <1>11, <2>2, <2>3 DEF PurgeBursts, Without, OfferInv, JobIsAboutNotes
  <2>6. UNCHANGED <<deleted, hidden, cands>>
    BY <1>11 DEF PurgeBursts, noteVars
  <2> QED
    BY <1>1, <1>3, <1>11, <2>3, <2>4, <2>5, <2>6, StillOffered DEF PurgeBursts
<1>12. CASE PurgePairs
  <2>1. /\ job.at = "purgePairs" /\ job' = Extract(job.note, job.panics, job.todo)
        /\ UNCHANGED <<deleted, hidden, bursts>>
    BY <1>12 DEF PurgePairs, noteVars
  <2>2. job' = FreeJob \/ (job'.at = "extract" /\ job'.note = job.note)
    BY <2>1 DEF Extract
  <2>3. (lost => lost') /\ (cands' = Without(cands, PendingOf(job.gone)) \/ cands' = cands)
    BY <1>2, <1>12 DEF PurgePairs
  <2>4. JobIsAboutNotes'
    BY <2>1, <2>2 DEF OfferInv, JobIsAboutNotes
  <2>5. ASSUME ~ lost', NEW b \in DOMAIN bursts, NEW c \in DOMAIN bursts, {b, c} \in DOMAIN cands
        PROVE  {b, c} \in DOMAIN cands'
    BY <2>1, <2>3, <2>5 DEF OfferInv, JobIsAboutNotes, PendingOf, Without
  <2> QED
    BY <1>1, <1>3, <2>1, <2>3, <2>4, <2>5, StillOffered
<1>13. CASE SkipEvent
  <2>1. job.at = "extract" /\ job' = FreeJob /\ UNCHANGED <<deleted, hidden, bursts, cands, lost>>
    BY <1>13 DEF SkipEvent, noteVars, rowVars, faultVars
  <2>2. JobIsAboutNotes'
    BY <2>1 DEF JobIsAboutNotes
  <2> QED
    BY <1>1, <1>3, <2>1, <2>2, StillOffered
<1>14. ASSUME NEW todo, Extracts(job), job' = AfterWindow(todo)
       PROVE  job' = FreeJob \/ (job'.at = "store" /\ job'.note = job.note)
  BY <1>14 DEF AfterWindow, Extracts
<1>15. CASE StoreBurst
  <2> DEFINE row == [note |-> job.note, project |-> project[job.note], at |-> First(job.todo).at,
                     topic |-> First(job.todo).topic, created |-> job.since]
  <2>1. /\ job.at \in {"extract", "store"} /\ Extracts(job)
        /\ drawn' = drawn + 1
        /\ UNCHANGED <<project, deleted, hidden, cands>>
    BY <1>1, <1>15, JobPhases DEF StoreBurst, noteVars
  <2>2. lost => lost'
    BY <1>2, <1>15 DEF StoreBurst
  <2>3. \/ /\ bursts' = With(bursts, [b \in {drawn + 1} |-> row])
           /\ \/ job' = [job EXCEPT !.at = "pair", !.todo = job.todo \ {First(job.todo)}]
              \/ project[job.note] = NoProject /\ job' = AfterWindow(job.todo \ {First(job.todo)})
        \/ lost' /\ bursts' = bursts /\ job' = AfterWindow(job.todo \ {First(job.todo)})
    BY <1>2, <1>15 DEF StoreBurst
  <2>4. drawn + 1 \notin DOMAIN bursts
    BY DEF OfferInv, PairInv, IdsAscend
  <2>5. /\ \A b \in DOMAIN bursts : b \in DOMAIN bursts' /\ bursts'[b] = bursts[b]
        /\ \A b \in DOMAIN bursts' \ DOMAIN bursts : b = drawn + 1 /\ bursts'[b] = row
    BY <2>3, <2>4 DEF With
  <2>6. job.note \in GraphNotes
    BY <2>1 DEF OfferInv, JobIsAboutNotes
  <2>7. BurstsAreTyped'
    BY <2>5, <2>6 DEF OfferInv, BurstsAreTyped
  <2>8. \/ /\ job'.at = "pair" /\ job'.note = job.note
           /\ bursts'[drawn + 1].note = job.note /\ bursts'[drawn + 1].project = project[job.note]
        \/ /\ lost' \/ project[job.note] = NoProject
           /\ job' = FreeJob \/ (job'.at = "store" /\ job'.note = job.note)
    <3>1. CASE /\ bursts' = With(bursts, [b \in {drawn + 1} |-> row])
               /\ job' = [job EXCEPT !.at = "pair", !.todo = job.todo \ {First(job.todo)}]
      <4>1. job'.at = "pair" /\ job'.note = job.note
        BY <2>1, <3>1 DEF Extracts
      <4>2. bursts'[drawn + 1] = row
        BY <2>4, <3>1 DEF With
      <4> QED
        BY <4>1, <4>2
    <3>2. CASE /\ lost' \/ project[job.note] = NoProject
               /\ job' = AfterWindow(job.todo \ {First(job.todo)})
      BY <1>14, <2>1, <3>2
    <3> QED
      BY <2>3, <3>1, <3>2
  <2>9. JobIsAboutNotes'
    BY <2>1, <2>6, <2>8 DEF JobIsAboutNotes
  <2>10. ASSUME ~ lost', NEW b \in DOMAIN bursts', NEW c \in DOMAIN bursts', Alike(b, c)'
         PROVE  {b, c} \in DOMAIN cands \/ Owed(b, c)'
    <3>1. CASE b \in DOMAIN bursts /\ c \in DOMAIN bursts
      <4>1. Alike(b, c)
        BY <2>1, <2>5, <2>10, <3>1 DEF Alike
      <4> QED
        BY <2>1, <2>2, <2>10, <3>1, <4>1 DEF OfferInv, AlikeAreOffered, Owed
    <3>2. CASE b \notin DOMAIN bursts \/ c \notin DOMAIN bursts
      <4>1. drawn + 1 \in {b, c} /\ bursts'[drawn + 1] = row
        BY <2>5, <2>10, <3>2
      <4>2. project[job.note] # NoProject
        BY <2>10, <4>1 DEF Alike
      <4> QED
        BY <2>1, <2>8, <2>10, <4>1, <4>2 DEF Owed
    <3> QED
      BY <3>1, <3>2
  <2>11. AlikeAreOffered'
    BY <2>1, <2>10 DEF AlikeAreOffered
  <2> QED
    BY <1>1, <1>3, <2>1, <2>7, <2>9, <2>11 DEF OfferInv
<1>16. CASE PairBurst
  <2> DEFINE found == SimilarPairs({drawn}, Peers(job.note, project[job.note]))
  <2>1. PICK stored \in SUBSET found :
          Statement(stored = found) /\ InsertCandidates(stored) /\ job' = AfterWindow(job.todo)
    BY <1>16 DEF PairBurst
  <2>2. job.at = "pair" /\ Extracts(job) /\ UNCHANGED <<deleted, hidden, bursts>>
    BY <1>1, <1>16, JobPhases DEF PairBurst, noteVars
  <2>3. (lost => lost') /\ (stored # found => lost') /\ DOMAIN cands' = DOMAIN cands \cup stored
    BY <1>2, <2>1, StoredPairs
  <2>4. job' = FreeJob \/ (job'.at = "store" /\ job'.note = job.note)
    BY <1>14, <2>1, <2>2
  <2>5. JobIsAboutNotes'
    BY <2>2, <2>4 DEF OfferInv, JobIsAboutNotes
  <2>6. ASSUME NEW b, drawn = b, NEW c \in DOMAIN bursts, Alike(b, c)
        PROVE  {b, c} \in found /\ {c, b} \in found
    <3>1. bursts[b].note = job.note /\ bursts[b].project = project[job.note]
      BY <2>2, <2>6 DEF OfferInv, JobIsAboutNotes
    <3>2. c \in Peers(job.note, project[job.note])
      BY <2>6, <3>1 DEF Peers, Alike, OfferInv, BurstsAreTyped, DeletedWereHidden
    <3> QED
      BY <2>6, <3>2, FoundPairs DEF Alike
  <2>7. ASSUME ~ lost', NEW b \in DOMAIN bursts, NEW c \in DOMAIN bursts, Alike(b, c)
        PROVE  {b, c} \in DOMAIN cands'
    <3>1. {b, c} \in DOMAIN cands \/ drawn \in {b, c}
      BY <2>2, <2>3, <2>7 DEF OfferInv, AlikeAreOffered, Owed
    <3>2. Alike(c, b)
      BY <2>7 DEF Alike
    <3> QED
      BY <2>3, <2>6, <2>7, <3>1, <3>2
  <2>8. BurstsAreTyped' /\ AlikeAreOffered'
    BY <2>2, <2>7 DEF OfferInv, BurstsAreTyped, AlikeAreOffered, Alike
  <2> QED
    BY <1>1, <1>3, <2>2, <2>5, <2>8 DEF OfferInv
<1>17. CASE Match
  <2> DEFINE found == SimilarPairs(BurstsOf(job.note), Peers(job.note, job.project)) \ Reviewed
  <2>1. PICK stored \in SUBSET found : Statement(stored = found) /\ InsertCandidates(stored)
    BY <1>17 DEF Match
  <2>2. job.at = "match" /\ job' = FreeJob /\ UNCHANGED <<deleted, hidden, bursts>>
    BY <1>17 DEF Match, noteVars
  <2>3. (lost => lost') /\ (stored # found => lost') /\ DOMAIN cands' = DOMAIN cands \cup stored
    BY <1>2, <2>1, StoredPairs
  <2>4. JobIsAboutNotes'
    BY <2>2 DEF JobIsAboutNotes
  <2>5. ASSUME ~ lost', NEW b \in DOMAIN bursts, NEW c \in DOMAIN bursts, Alike(b, c)
        PROVE  {b, c} \in DOMAIN cands'
    <3>1. CASE {b, c} \in DOMAIN cands
      BY <2>3, <3>1
    <3>2. CASE bursts[b].project = job.project /\ job.note = bursts[b].note
      <4>1. b \in BurstsOf(job.note) /\ c \in Peers(job.note, job.project)
        BY <2>5, <3>2 DEF Alike, BurstsOf, Peers, OfferInv, BurstsAreTyped, DeletedWereHidden
      <4>2. {b, c} \in SimilarPairs(BurstsOf(job.note), Peers(job.note, job.project))
        BY <2>5, <4>1, FoundPairs DEF Alike
      <4> QED
        BY <2>3, <2>5, <4>2 DEF Reviewed
    <3>3. CASE bursts[b].project = job.project /\ job.note = bursts[c].note
      <4>1. c \in BurstsOf(job.note) /\ b \in Peers(job.note, job.project)
        BY <2>5, <3>3 DEF Alike, BurstsOf, Peers, OfferInv, BurstsAreTyped, DeletedWereHidden
      <4>2. {b, c} \in SimilarPairs(BurstsOf(job.note), Peers(job.note, job.project))
        BY <2>5, <4>1, FoundPairs DEF Alike
      <4> QED
        BY <2>3, <2>5, <4>2 DEF Reviewed
    <3> QED
      BY <2>2, <2>3, <2>5, <3>1, <3>2, <3>3 DEF OfferInv, AlikeAreOffered, Owed
  <2>6. BurstsAreTyped' /\ AlikeAreOffered'
    BY <2>2, <2>5 DEF OfferInv, BurstsAreTyped, AlikeAreOffered, Alike
  <2> QED
    BY <1>1, <1>3, <2>2, <2>4, <2>6 DEF OfferInv
<1>18. CASE DeleteBursts
  <2>1. Deletes(job) /\ job.at = "unburst" /\ UNCHANGED <<deleted, hidden, cands>>
    BY <1>1, <1>18, JobPhases DEF DeleteBursts, noteVars
  <2>2. /\ bursts' = Without(bursts, BurstsOf(job.note)) \/ bursts' = bursts
        /\ job' = [job EXCEPT !.at = "unpair"] \/ job' = FreeJob
        /\ lost => lost'
    BY <1>2, <1>18 DEF DeleteBursts
  <2>3. job' = FreeJob \/ (job'.at = "unpair" /\ job'.note = job.note)
    BY <2>1, <2>2 DEF Deletes
  <2>4. JobIsAboutNotes'
    BY <2>1, <2>3 DEF OfferInv, JobIsAboutNotes
  <2>5. DOMAIN bursts' \subseteq DOMAIN bursts /\ \A b \in DOMAIN bursts' : bursts'[b] = bursts[b]
    BY <2>2 DEF Without
  <2> QED
    BY <1>1, <1>3, <2>1, <2>2, <2>4, <2>5, StillOffered
<1>19. CASE DeletePairs
  <2>1. job.at = "unpair" /\ job' = FreeJob /\ UNCHANGED <<deleted, hidden, bursts>>
    BY <1>19 DEF DeletePairs, noteVars
  <2>2. (lost => lost') /\ (cands' = Without(cands, PendingOfNote(job.note)) \/ cands' = cands)
    BY <1>2, <1>19 DEF DeletePairs
  <2>3. JobIsAboutNotes'
    BY <2>1 DEF JobIsAboutNotes
  <2>4. ASSUME ~ lost', NEW b \in DOMAIN bursts, NEW c \in DOMAIN bursts, Alike(b, c), {b, c} \in DOMAIN cands
        PROVE  {b, c} \in DOMAIN cands'
    <3>1. cands[{b, c}].notes \subseteq {bursts[b].note, bursts[c].note}
      BY <2>4 DEF OfferInv, PairInv, NotesAreThoseOfBursts
    <3>2. job.note \notin cands[{b, c}].notes
      BY <2>1, <2>4, <3>1 DEF OfferInv, JobIsAboutNotes, Alike
    <3> QED
      BY <2>2, <2>4, <3>2 DEF PendingOfNote, Without
  <2>5. ~ lost' => \A b, c \in DOMAIN bursts' : Alike(b, c)' /\ {b, c} \in DOMAIN cands => {b, c} \in DOMAIN cands'
    BY <2>1, <2>4 DEF Alike
  <2> QED
    BY <1>1, <1>3, <2>1, <2>2, <2>3, <2>5, StillOffered
<1>20. CASE MarkPromoted
  <2>1. job.at = "mark" /\ job' = FreeJob /\ UNCHANGED <<deleted, hidden, bursts>>
    BY <1>20 DEF MarkPromoted, noteVars
  <2>2. (lost => lost') /\ DOMAIN cands' = DOMAIN cands
    BY <1>2, <1>20 DEF MarkPromoted, WithStatus
  <2>3. JobIsAboutNotes'
    BY <2>1 DEF JobIsAboutNotes
  <2> QED
    BY <1>1, <1>3, <2>1, <2>2, <2>3, StillOffered
<1>21. CASE ExtractionPanics \/ GraphCrash
  <2>1. job' = FreeJob /\ (~ lost' => ~ lost /\ job = FreeJob) /\ UNCHANGED <<deleted, hidden, bursts, cands>>
    BY <1>21 DEF ExtractionPanics, GraphCrash, GraphRestart, noteVars, rowVars
  <2>2. JobIsAboutNotes'
    BY <2>1 DEF JobIsAboutNotes
  <2> QED
    BY <1>1, <1>3, <2>1, <2>2, StillOffered
<1> QED
  BY <1>4, <1>5, <1>6, <1>7, <1>8, <1>9, <1>10, <1>11, <1>12, <1>13, <1>15, <1>16, <1>17, <1>18, <1>19,
     <1>20, <1>21 DEF GraphNext, Closure

(* For any edits, moves, deletions and indexing in any order, two similar  *)
(* bursts of one project have been offered for review.                     *)
THEOREM NoSimilarPairIsMissed == GraphSpec => []NoPairIsMissed
<1>1. OfferInv => NoPairIsMissed
  BY DEF OfferInv, AlikeAreOffered, Alike, Owed, NoPairIsMissed, FreeJob
<1> QED
  BY <1>1, OfferInvInit, OfferInvHolds, PTL DEF GraphSpec

-----------------------------------------------------------------------------
(* The windows of an event, whatever lines it touches: module Bursts.      *)

(* A set of lines has a first one, and a last one if it is bounded.        *)
LEMMA LeastLine ==
  ASSUME NEW T \in SUBSET Nat, T # {}
  PROVE  \E x \in T : \A y \in T : x <= y
  <1> DEFINE R == {pair \in Nat \X Nat : pair[1] < pair[2]}
  <1>1. IsWellFoundedOn(R, Nat)
    BY NatLessThanWellFounded DEF OpToRel
  <1> HIDE DEF R
  <1>2. PICK x \in T : \A y \in T : ~ (<<y, x>> \in R)
    BY <1>1, WFMin
  <1>3. \A y \in T : <<y, x>> \in R <=> y < x
    BY DEF R
  <1>4. ASSUME NEW y \in T PROVE x <= y
    <2>1. ~ (y < x) /\ x \in Nat /\ y \in Nat
      BY <1>2, <1>3
    <2> QED
      BY <2>1
  <1> QED
    BY <1>4

LEMMA LastLine ==
  ASSUME NEW bound \in Nat, NEW T \in SUBSET Nat, T # {}, \A x \in T : x <= bound
  PROVE  \E x \in T : \A y \in T : y <= x
  <1> DEFINE D == {bound - x : x \in T}
  <1>1. D \in SUBSET Nat /\ D # {}
    <2>1. \A x \in T : bound - x \in Nat
      OBVIOUS
    <2> QED
      BY <2>1
  <1>2. PICK d \in D : \A e \in D : d <= e
    BY <1>1, LeastLine
  <1>3. PICK x \in T : d = bound - x
    BY <1>2
  <1>4. ASSUME NEW y \in T PROVE y <= x
    <2>1. d <= bound - y
      BY <1>2
    <2> QED
      BY <1>3, <2>1
  <1> QED
    BY <1>4

Opening(touched, gap, l) == \A k \in touched : k < l => l - k > gap
Closing(touched, gap, l) == \A k \in touched : k > l => k - l > gap

IsGroup(touched, gap, first, last) ==
  /\ first \in touched /\ last \in touched /\ first <= last
  /\ Opening(touched, gap, first) /\ Closing(touched, gap, last)
  /\ \A l \in touched : first < l /\ l <= last => ~ Opening(touched, gap, l)

(* The groups that Groups describes by its local definitions.              *)
LEMMA GroupsAre ==
  ASSUME NEW touched, NEW windowLines, NEW first, NEW last,
         IsGroup(touched, 2 * windowLines + 1, first, last)
  PROVE  [first |-> first, last |-> last] \in Groups(touched, windowLines)
  <1> DEFINE g == [first |-> first, last |-> last]
  <1>1. g \in [first : touched, last : touched] /\ g.first = first /\ g.last = last
    BY DEF IsGroup
  <1> QED
    BY <1>1 DEF Groups, IsGroup, Opening, Closing

(* Every touched line is in a group.                                       *)
LEMMA LineHasGroup ==
  ASSUME NEW bound \in Nat, NEW touched \in SUBSET (1..bound), NEW gap \in Nat, NEW t \in touched
  PROVE  \E first, last \in touched : IsGroup(touched, gap, first, last) /\ first <= t /\ t <= last
  <1>1. touched \subseteq Nat /\ t \in Nat /\ \A k \in touched : k \in Nat /\ k <= bound
    OBVIOUS
  <1> DEFINE O == {k \in touched : k <= t /\ Opening(touched, gap, k)}
             C == {k \in touched : t <= k /\ Closing(touched, gap, k)}
  <1>2. O # {}
    <2>1. PICK k \in touched : \A j \in touched : k <= j
      BY <1>1, LeastLine
    <2>2. Opening(touched, gap, k)
      BY <1>1, <2>1 DEF Opening
    <2> QED
      BY <2>1, <2>2
  <1>3. C # {}
    <2>1. PICK k \in touched : \A j \in touched : j <= k
      BY <1>1, LastLine
    <2>2. Closing(touched, gap, k)
      BY <1>1, <2>1 DEF Closing
    <2> QED
      BY <2>1, <2>2
  <1>4. PICK first \in O : \A k \in O : k <= first
    <2>1. O \in SUBSET Nat /\ \A k \in O : k <= bound
      BY <1>1
    <2> HIDE DEF O
    <2> QED
      BY <1>2, <2>1, LastLine
  <1>5. PICK last \in C : \A k \in C : last <= k
    <2>1. C \in SUBSET Nat
      BY <1>1
    <2> HIDE DEF C
    <2> QED
      BY <1>3, <2>1, LeastLine
  <1>6. ASSUME NEW l \in touched, first < l, l <= last, Opening(touched, gap, l) PROVE FALSE
    <2>1. t < l
      BY <1>1, <1>4, <1>6
    <2> DEFINE B == {k \in touched : k < l}
    <2>2. B \in SUBSET Nat /\ t \in B /\ \A k \in B : k <= bound
      BY <1>1, <2>1
    <2>3. PICK k \in B : \A j \in B : j <= k
      <3> HIDE DEF B
      <3> QED
        BY <2>2, LastLine
    <2>4. t <= k /\ k < l
      BY <2>2, <2>3
    <2>5. Closing(touched, gap, k)
      <3> SUFFICES ASSUME NEW j \in touched, j > k PROVE j - k > gap
        BY DEF Closing
      <3>1. j >= l
        BY <1>1, <2>3
      <3>2. l - k > gap
        BY <1>6, <2>3 DEF Opening
      <3> QED
        BY <1>1, <3>1, <3>2
    <2>6. last <= k
      BY <1>5, <2>4, <2>5
    <2> QED
      BY <1>1, <1>6, <2>4, <2>6
  <1>7. first \in touched /\ last \in touched /\ first <= t /\ t <= last
    OBVIOUS
  <1>8. IsGroup(touched, gap, first, last)
    <2>1. first <= last
      BY <1>1, <1>7
    <2> QED
      BY <1>6, <1>7, <2>1 DEF IsGroup
  <1> QED
    BY <1>7, <1>8

(* A multiple of the distance between two chunks is followed by the next.  *)
LEMMA Division ==
  ASSUME NEW step \in Nat \ {0}, NEW a \in Nat
  PROVE  a = step * (a \div step) + (a % step) /\ a % step \in Nat /\ a % step < step /\ a \div step \in Int
  OBVIOUS

LEMMA NextChunk ==
  ASSUME NEW step \in Nat \ {0}, NEW a \in Nat, a % step = 0
  PROVE  (a + step) % step = 0
  <1>1. PICK b \in Nat : b = a + step
    OBVIOUS
  <1>2. PICK q \in Int : q = a \div step /\ a = step * q
    BY Division
  <1>3. PICK p \in Int, r \in Nat : r = b % step /\ r < step /\ b = step * p + r
    BY Division
  <1>4. PICK d \in Int : d = q + 1 - p
    OBVIOUS
  <1>5. step * d = step * q + step - step * p
    BY <1>4
  <1>6. step * d = r
    <2>1. PICK x \in Int, y \in Int : x = step * q /\ y = step * p
      OBVIOUS
    <2>2. step * d = x + step - y /\ a = x /\ b = y + r
      BY <1>2, <1>3, <1>5, <2>1
    <2> QED
      BY <1>1, <2>2
  <1>7. d < 0 => step * d < 0
    OBVIOUS
  <1>8. d > 0 => step * d >= step
    OBVIOUS
  <1>9. d = 0 => step * d = 0
    OBVIOUS
  <1>10. r = 0
    BY <1>3, <1>6, <1>7, <1>8, <1>9
  <1> QED
    BY <1>1, <1>3, <1>10

(* A split range has every line in one of its chunks: the last that starts *)
(* at or before it.                                                        *)
LEMMA ChunksCover ==
  ASSUME NEW start \in Nat \ {0}, NEW end \in Nat, NEW chunkSize \in Nat \ {0}, NEW l \in start..end
  PROVE  \E w \in SplitRange([start |-> start, end |-> end], chunkSize) : w.start <= l /\ l <= w.end
  <1> DEFINE r == [start |-> start, end |-> end]
             step == AtLeast(chunkSize - 2, 1)
             Starts == {x \in start..end : /\ (x - start) % step = 0
                                           /\ x = start \/ x - step + chunkSize - 1 < end}
  <1>1. CASE end - start + 1 <= chunkSize
    <2>1. SplitRange(r, chunkSize) = {r}
      BY <1>1 DEF SplitRange
    <2> QED
      BY <2>1
  <1>2. CASE ~ (end - start + 1 <= chunkSize)
    <2>1. SplitRange(r, chunkSize) = {[start |-> s, end |-> AtMost(s + chunkSize - 1, end)] : s \in Starts}
      BY <1>2 DEF SplitRange
    <2>2. step \in Nat \ {0} /\ step <= chunkSize
      BY DEF AtLeast
    <2> HIDE DEF step
    <2>3. start \in Starts
      <3>1. 0 % step = 0 /\ start - start = 0
        BY <2>2
      <3> QED
        BY <3>1
    <2> DEFINE Before == {x \in Starts : x <= l}
    <2>4. Before \in SUBSET Nat /\ Before # {} /\ \A x \in Before : x <= l
      BY <2>3
    <2>5. PICK s \in Before : \A x \in Before : x <= s
      <3>1. l \in Nat
        OBVIOUS
      <3> HIDE DEF Before
      <3> QED
        BY <2>4, <3>1, LastLine
    <2>6. l <= s + chunkSize - 1
      <3> SUFFICES ASSUME s + chunkSize - 1 < l PROVE FALSE
        OBVIOUS
      <3>1. s + step <= l /\ s + step \in start..end
        BY <2>2
      <3>2. ((s + step) - start) % step = 0
        <4>1. s - start \in Nat /\ (s - start) % step = 0 /\ (s + step) - start = (s - start) + step
          BY <2>2
        <4> HIDE DEF Before, Starts
        <4> QED
          BY <2>2, <4>1, NextChunk
      <3>3. (s + step) - step + chunkSize - 1 < end
        BY <2>2
      <3>4. s + step \in Before
        BY <3>1, <3>2, <3>3
      <3> QED
        BY <2>2, <2>5, <3>4
    <2>7. s \in Starts /\ s <= l
      OBVIOUS
    <2> DEFINE w == [start |-> s, end |-> AtMost(s + chunkSize - 1, end)]
    <2>8. w \in SplitRange(r, chunkSize)
      BY <2>1, <2>7
    <2>9. w.start <= l /\ l <= w.end
      BY <2>6, <2>7 DEF AtMost
    <2> QED
      BY <2>8, <2>9
  <1> QED
    BY <1>1, <1>2

(* Every line near a touched one is in a window: for every text, every set *)
(* of touched lines and every width of the windows and the chunks.         *)
THEOREM WindowsCoverEdits ==
  ASSUME NEW bound \in Nat, NEW touched \in SUBSET (1..bound),
         NEW windowLines \in Nat, NEW chunkSize \in Nat \ {0}, NEW total \in Nat
  PROVE  CoversEdits(touched, windowLines, chunkSize, total)
  <1> SUFFICES ASSUME NEW t \in touched, NEW l \in 1..total, l - t <= windowLines, t - l <= windowLines
               PROVE  \E w \in Windows(touched, windowLines, chunkSize, total) : w.start <= l /\ l <= w.end
    BY DEF CoversEdits
  <1>1. 2 * windowLines + 1 \in Nat
    OBVIOUS
  <1>2. PICK first, last \in touched :
          IsGroup(touched, 2 * windowLines + 1, first, last) /\ first <= t /\ t <= last
    BY <1>1, LineHasGroup
  <1>3. [first |-> first, last |-> last] \in Groups(touched, windowLines)
    BY <1>2, GroupsAre
  <1> DEFINE start == AtLeast(first - windowLines, 1)
             end == AtMost(last + windowLines, AtLeast(total, 1))
  <1>4. [start |-> start, end |-> end] \in GroupAffectedLines(touched, windowLines, total)
    BY <1>3 DEF GroupAffectedLines
  <1>5. start \in Nat \ {0} /\ end \in Nat /\ l \in start..end
    BY <1>2 DEF AtLeast, AtMost
  <1> HIDE DEF start, end
  <1>6. PICK w \in SplitRange([start |-> start, end |-> end], chunkSize) : w.start <= l /\ l <= w.end
    BY <1>5, ChunksCover
  <1>7. w \in Windows(touched, windowLines, chunkSize, total)
    BY <1>4, <1>6 DEF Windows
  <1> QED
    BY <1>6, <1>7

(* The lines an event touches are all in the windows cut out of the text   *)
(* after it, with their context.                                           *)
THEOREM EditsAreAlwaysCovered == GraphSpec => []EditsAreCovered
  <1>1. EditsAreCovered
    <2>1. \A windowLines \in 0..2, chunkSize \in 1..4, total \in 0..6, touched \in SUBSET (1..6) :
            CoversEdits(touched, windowLines, chunkSize, total)
      BY WindowsCoverEdits
    <2> QED
      BY <2>1 DEF EditsAreCovered
  <1> QED
    BY <1>1, PTL

-----------------------------------------------------------------------------
(* Types.  A closure stores no more bursts than BeginEvent found windows,  *)
(* and a pair has no more links than there were requests.                  *)

Cut == [at : Window, topic : Topics]

NotesAreTyped ==
  /\ project \in [GraphNotes -> Stamps] /\ before \in [GraphNotes -> Stamps]
  /\ deleted \in [GraphNotes -> BOOLEAN]
  /\ tasks \subseteq GraphNotes \X Projects /\ hidden \subseteq GraphNotes

CountsAreTyped ==
  requests \in 0..MaxRequests /\ failures \in 0..MaxFailures /\ lost \in BOOLEAN

BurstsAreBursts ==
  /\ drawn \in 0..MaxBursts /\ swept \subseteq Ids
  /\ DOMAIN bursts \subseteq 1..drawn /\ \A b \in DOMAIN bursts : bursts[b] \in Burst

CandidatesAreCandidates == DOMAIN cands \subseteq Pairs /\ \A pair \in DOMAIN cands : cands[pair] \in Candidate

LinksAreCounted == links \in [Pairs -> Nat] /\ \A pair \in Pairs : links[pair] <= requests

(* There are ids for the windows in hand, and a closure that is to store   *)
(* one has one.                                                            *)
RoomFor(todo) == IsFiniteSet(todo) /\ drawn + Cardinality(todo) <= MaxBursts

JobHasRoom ==
  /\ job.at \in {"purge", "purgePairs", "extract", "store", "pair"} => RoomFor(job.todo)
  /\ job.at \in {"extract", "store"} /\ ~ job.panics => job.todo # {}

GraphTypes ==
  /\ NotesAreTyped /\ CountsAreTyped /\ BurstsAreBursts /\ CandidatesAreCandidates /\ LinksAreCounted
  /\ job \in Job /\ JobHasRoom

LEMMA GraphTypesInit == GraphInit => GraphTypes
<1> SUFFICES ASSUME GraphInit PROVE GraphTypes
  OBVIOUS
<1> USE GraphBoundAssumption DEF GraphInit
<1>1. NotesAreTyped
  BY DEF NotesAreTyped
<1>4. CountsAreTyped
  <2>1. requests \in 0..MaxRequests /\ failures \in 0..MaxFailures
    OBVIOUS
  <2>2. lost \in BOOLEAN
    OBVIOUS
  <2> QED
    BY <2>1, <2>2, Zenon DEF CountsAreTyped
<1>2. BurstsAreBursts /\ CandidatesAreCandidates /\ LinksAreCounted
  BY DEF BurstsAreBursts, CandidatesAreCandidates, LinksAreCounted
<1>3. job \in Job /\ JobHasRoom
  BY DEF Job, JobHasRoom, FreeJob
<1> QED
  BY <1>1, <1>2, <1>3, <1>4 DEF GraphTypes

-----------------------------------------------------------------------------
(* The windows of an event are windows.                                    *)
LEMMA GroupsAreOfLines ==
  ASSUME NEW touched, NEW windowLines, NEW g \in Groups(touched, windowLines)
  PROVE  g.first \in touched /\ g.last \in touched /\ g.first <= g.last
  BY DEF Groups

LEMMA RangesAreWindows ==
  ASSUME NEW touched \in SUBSET (1..(Lines + 2)), NEW total \in 1..Lines,
         NEW r \in GroupAffectedLines(touched, WindowLines, total)
  PROVE  /\ r = [start |-> r.start, end |-> r.end]
         /\ r.start \in 1..(Lines + 2) /\ r.end \in 1..Lines
  <1>1. PICK g \in Groups(touched, WindowLines) :
          r = [start |-> AtLeast(g.first - WindowLines, 1),
               end   |-> AtMost(g.last + WindowLines, AtLeast(total, 1))]
    BY DEF GroupAffectedLines
  <1>2. g.first \in touched /\ g.last \in touched
    BY GroupsAreOfLines
  <1>3. PICK first \in 1..(Lines + 2), last \in 1..(Lines + 2) : g.first = first /\ g.last = last
    BY <1>2
  <1>4. /\ AtLeast(first - WindowLines, 1) \in 1..(Lines + 2)
        /\ AtMost(last + WindowLines, AtLeast(total, 1)) \in 1..Lines
    BY GraphBoundAssumption DEF AtLeast, AtMost
  <1> QED
    BY <1>1, <1>3, <1>4

LEMMA ChunksAreWindows ==
  ASSUME NEW r, r = [start |-> r.start, end |-> r.end], r.start \in 1..(Lines + 2), r.end \in 1..Lines,
         NEW w \in SplitRange(r, ChunkSize)
  PROVE  w \in Window
  <1>1. CASE w = r
    BY <1>1, GraphBoundAssumption DEF Window
  <1>2. CASE \E s \in r.start..r.end : w = [start |-> s, end |-> AtMost(s + ChunkSize - 1, r.end)]
    <2>1. PICK s \in r.start..r.end : w = [start |-> s, end |-> AtMost(s + ChunkSize - 1, r.end)]
      BY <1>2
    <2>2. PICK first \in 1..(Lines + 2), last \in 1..Lines : r.start = first /\ r.end = last
      OBVIOUS
    <2>3. s \in 1..(Lines + 2) /\ AtMost(s + ChunkSize - 1, last) \in 0..Lines
      BY <2>2, GraphBoundAssumption DEF AtMost
    <2> QED
      BY <2>1, <2>2, <2>3 DEF Window
  <1> QED
    BY <1>1, <1>2 DEF SplitRange

(* The length of the text after an event.                                  *)
LEMMA EditsAreEdits ==
  ASSUME NEW edit \in Edits
  PROVE  edit.touched \in SUBSET (1..(Lines + 2)) /\ edit.total \in 0..Lines
  <1> DEFINE Edit(length, sets, dels) ==
               LET longest == Max(sets \cup {length})
               IN  [touched |-> sets \cup dels, total |-> longest - Cardinality({d \in dels : d <= longest})]
  <1>0. Edits = {Edit(length, sets, dels) :
                  length \in 0..Lines, sets \in SUBSET (1..Lines), dels \in SUBSET (1..Lines + 2)}
    BY DEF Edits
  <1>1. PICK length \in 0..Lines, sets \in SUBSET (1..Lines), dels \in SUBSET (1..Lines + 2) :
          edit = Edit(length, sets, dels)
    <2> HIDE DEF Edit
    <2> QED
      BY <1>0
  <1> DEFINE all == sets \cup {length}
  <1>2. all \in SUBSET Nat /\ all # {} /\ \A x \in all : x <= Lines
    BY GraphBoundAssumption
  <1>3. PICK x \in all : \A y \in all : y <= x
    <2> HIDE DEF all
    <2> QED
      BY <1>2, GraphBoundAssumption, LastLine
  <1>4. Max(all) \in all
    <2>1. \A y \in all : x >= y
      BY <1>2, <1>3
    <2> HIDE DEF all
    <2> QED
      BY <2>1 DEF Max
  <1>5. PICK longest \in 0..Lines : longest = Max(all)
    <2>1. all \subseteq 0..Lines
      BY GraphBoundAssumption
    <2> HIDE DEF all
    <2> QED
      BY <1>4, <2>1
  <1> DEFINE gone == {d \in dels : d <= longest}
  <1>6. Cardinality(gone) \in 0..longest
    <2>1. gone \subseteq 1..longest
      <3> SUFFICES ASSUME NEW d \in dels, d <= longest PROVE d \in 1..longest
        OBVIOUS
      <3>1. d \in 1..(Lines + 2)
        OBVIOUS
      <3> QED
        BY <3>1, GraphBoundAssumption
    <2>2. IsFiniteSet(1..longest) /\ Cardinality(1..longest) = longest
      BY FS_Interval
    <2> HIDE DEF gone
    <2>3. IsFiniteSet(gone) /\ Cardinality(gone) <= longest
      BY <2>1, <2>2, FS_Subset
    <2> QED
      BY <2>3, FS_CardinalityType
  <1>7. edit.touched = sets \cup dels /\ edit.total = longest - Cardinality(gone)
    BY <1>1, <1>5
  <1> QED
    BY <1>6, <1>7, GraphBoundAssumption

LEMMA WindowsAreWindows ==
  ASSUME NEW edit \in Edits
  PROVE  Windows(edit.touched, WindowLines, ChunkSize, edit.total) \subseteq Window
  <1>1. edit.touched \in SUBSET (1..(Lines + 2)) /\ edit.total \in 0..Lines
    BY EditsAreEdits
  <1>2. PICK touched \in SUBSET (1..(Lines + 2)), total \in 0..Lines : edit.touched = touched /\ edit.total = total
    BY <1>1
  <1>3. SUFFICES ASSUME NEW w \in Windows(touched, WindowLines, ChunkSize, total) PROVE w \in Window
    BY <1>2
  <1>4. total # 0 /\ \E r \in GroupAffectedLines(touched, WindowLines, total) : w \in SplitRange(r, ChunkSize)
    BY DEF Windows
  <1>5. total \in 1..Lines
    BY <1>4
  <1> QED
    BY <1>4, <1>5, RangesAreWindows, ChunksAreWindows

LEMMA WindowIsFinite == IsFiniteSet(Window)
  <1>1. IsFiniteSet(1..(Lines + 2)) /\ IsFiniteSet(0..Lines)
    BY GraphBoundAssumption, FS_Interval
  <1> DEFINE P == (1..(Lines + 2)) \X (0..Lines)
             f == [p \in P |-> [start |-> p[1], end |-> p[2]]]
  <1>2. IsFiniteSet(P)
    BY <1>1, FS_Product
  <1>3. f \in Surjection(P, Window)
    <2>1. \A p \in P : f[p] \in Window
      BY DEF Window
    <2>2. ASSUME NEW w \in Window PROVE \E p \in P : w = f[p]
      <3>1. <<w.start, w.end>> \in P /\ w = [start |-> w.start, end |-> w.end]
        BY DEF Window
      <3>2. f[<<w.start, w.end>>] = w
        BY <3>1
      <3> QED
        BY <3>1, <3>2
    <2> QED
      BY <2>1, <2>2 DEF Surjection
  <1> HIDE DEF P, f
  <1> QED
    BY <1>2, <1>3, FS_Surjection

-----------------------------------------------------------------------------
(* The closures that store bursts.                                         *)

(* The windows of an event with what their text is about.                  *)
LEMMA CutsOfWindows ==
  ASSUME NEW worded \in SUBSET Window, NEW topic \in [worded -> Topics],
         NEW todo, todo = {[at |-> w, topic |-> topic[w]] : w \in worded}
  PROVE  /\ todo \in SUBSET Cut /\ IsFiniteSet(worded)
         /\ IsFiniteSet(todo) /\ Cardinality(todo) <= Cardinality(worded)
         /\ worded = {} => todo = {}
  <1> DEFINE f == [w \in worded |-> [at |-> w, topic |-> topic[w]]]
  <1>1. IsFiniteSet(worded)
    BY WindowIsFinite, FS_Subset
  <1>2. f \in Surjection(worded, todo)
    BY DEF Surjection
  <1>3. todo \in SUBSET Cut /\ (worded = {} => todo = {})
    BY DEF Cut
  <1> HIDE DEF f
  <1> QED
    BY <1>1, <1>2, <1>3, FS_Surjection

(* The first window in hand is one of them.                                *)
LEMMA FirstIsInHand ==
  ASSUME NEW todo \in SUBSET Cut, todo # {}
  PROVE  First(todo) \in todo
  <1> DEFINE starts == {w.at.start : w \in todo}
  <1>1. \A w \in todo : w.at.start \in Nat
    BY DEF Cut, Window
  <1>2. starts \in SUBSET Nat /\ starts # {}
    BY <1>1
  <1>3. PICK x \in starts : \A y \in starts : x <= y
    <2> HIDE DEF starts
    <2> QED
      BY <1>2, LeastLine
  <1>4. PICK w \in todo : \A v \in todo : w.at.start <= v.at.start
    BY <1>3
  <1> QED
    BY <1>4 DEF First

LEMMA ExtractIsTyped ==
  ASSUME BurstsAreBursts, NEW n \in GraphNotes, NEW panics \in BOOLEAN, NEW todo \in SUBSET Cut,
         RoomFor(todo), job' = Extract(n, panics, todo), drawn' = drawn
  PROVE  job' \in Job /\ JobHasRoom'
  <1>1. CASE todo = {} /\ ~ panics
    BY <1>1 DEF Extract, FreeJob, Job, JobHasRoom
  <1>2. CASE ~ (todo = {} /\ ~ panics)
    <2>1. job' = [at |-> "extract", note |-> n, panics |-> panics, todo |-> todo, since |-> drawn]
      BY <1>2 DEF Extract
    <2>2. job' \in [at : {"extract", "store", "pair"}, note : GraphNotes, panics : BOOLEAN,
                    todo : SUBSET [at : Window, topic : Topics], since : 0..MaxBursts]
      BY <2>1 DEF BurstsAreBursts, Cut
    <2>3. job' \in Job
      BY <2>2 DEF Job
    <2>4. JobHasRoom'
      BY <1>2, <2>1 DEF JobHasRoom, RoomFor
    <2> QED
      BY <2>3, <2>4
  <1> QED
    BY <1>1, <1>2

(* The shape of a closure, of those that store bursts.                     *)
LEMMA JobsThatExtract ==
  ASSUME job \in Job
  PROVE  /\ job.at \in {"extract", "store", "pair"} =>
              job \in [at : {"extract", "store", "pair"}, note : GraphNotes, panics : BOOLEAN,
                       todo : SUBSET [at : Window, topic : Topics], since : 0..MaxBursts]
         /\ job.at \in {"purge", "purgePairs"} =>
              job \in [at : {"purge", "purgePairs"}, note : GraphNotes, gone : SUBSET Ids, panics : BOOLEAN,
                       todo : SUBSET [at : Window, topic : Topics]]
         /\ job.at \in {"unburst", "unpair"} => job \in [at : {"unburst", "unpair"}, note : GraphNotes]
         /\ job.at = "mark" => job \in [at : {"mark"}, pair : Pairs]
         /\ job.at = "match" => job \in [at : {"match"}, note : GraphNotes, project : Projects]
  BY DEF Job

LEMMA NextWindowIsTyped ==
  ASSUME job \in Job, job.at \in {"extract", "store", "pair"}, NEW todo \in SUBSET Cut,
         IsFiniteSet(todo), drawn' + Cardinality(todo) <= MaxBursts, job' = AfterWindow(todo)
  PROVE  job' \in Job /\ JobHasRoom'
  <1>1. job \in [at : {"extract", "store", "pair"}, note : GraphNotes, panics : BOOLEAN,
                 todo : SUBSET [at : Window, topic : Topics], since : 0..MaxBursts]
    BY JobsThatExtract
  <1>2. CASE todo = {}
    BY <1>2 DEF AfterWindow, FreeJob, Job, JobHasRoom
  <1>3. CASE todo # {}
    <2>1. job' = [job EXCEPT !.at = "store", !.todo = todo]
      BY <1>3 DEF AfterWindow
    <2>2. job' \in [at : {"extract", "store", "pair"}, note : GraphNotes, panics : BOOLEAN,
                    todo : SUBSET [at : Window, topic : Topics], since : 0..MaxBursts]
          /\ job'.todo = todo
      BY <1>1, <2>1 DEF Cut
    <2>3. job' \in Job
      BY <2>2 DEF Job
    <2>4. JobHasRoom'
      BY <1>3, <2>1, <2>2 DEF JobHasRoom, RoomFor
    <2> QED
      BY <2>3, <2>4
  <1> QED
    BY <1>2, <1>3

LEMMA BeginEventIsTyped ==
  ASSUME GraphTypes, NEW n \in GraphNotes, BeginEvent(n)
  PROVE  job' \in Job /\ JobHasRoom'
  <1>1. PICK edit \in Edits :
          LET affected == GroupAffectedLines(edit.touched, WindowLines, edit.total)
              windows == Windows(edit.touched, WindowLines, ChunkSize, edit.total)
              panics == \E w \in windows : ~ Sliceable(w, edit.total)
          IN  \E worded \in SUBSET windows, ok \in BOOLEAN : \E topic \in [worded -> Topics] :
                LET todo == {[at |-> w, topic |-> topic[w]] : w \in worded}
                    gone == {b \in BurstsOf(n) : ok /\ \E r \in affected : Overlaps(bursts[b].at, r)}
                IN  /\ drawn + Cardinality(worded) <= MaxBursts
                    /\ job' = IF gone = {} THEN Extract(n, panics, todo)
                              ELSE [at |-> "purge", note |-> n, panics |-> panics,
                                    gone |-> gone, todo |-> todo]
    BY ZenonT(60) DEF BeginEvent
  <1> DEFINE windows == Windows(edit.touched, WindowLines, ChunkSize, edit.total)
             panics == \E w \in windows : ~ Sliceable(w, edit.total)
  <1>0. PICK worded \in SUBSET windows :
          \E topic \in [worded -> Topics], gone \in SUBSET BurstsOf(n) :
            /\ drawn + Cardinality(worded) <= MaxBursts
            /\ job' = IF gone = {} THEN Extract(n, panics, {[at |-> w, topic |-> topic[w]] : w \in worded})
                      ELSE [at |-> "purge", note |-> n, panics |-> panics,
                            gone |-> gone, todo |-> {[at |-> w, topic |-> topic[w]] : w \in worded}]
    BY <1>1
  <1>2. PICK topic \in [worded -> Topics], gone \in SUBSET BurstsOf(n) :
          /\ drawn + Cardinality(worded) <= MaxBursts
          /\ job' = IF gone = {} THEN Extract(n, panics, {[at |-> w, topic |-> topic[w]] : w \in worded})
                    ELSE [at |-> "purge", note |-> n, panics |-> panics,
                          gone |-> gone, todo |-> {[at |-> w, topic |-> topic[w]] : w \in worded}]
    BY <1>0
  <1>3. worded \in SUBSET Window
    BY WindowsAreWindows
  <1>4. PICK todo : todo = {[at |-> w, topic |-> topic[w]] : w \in worded}
    OBVIOUS
  <1>5. todo \in SUBSET Cut /\ IsFiniteSet(worded) /\ IsFiniteSet(todo) /\ Cardinality(todo) <= Cardinality(worded)
    BY <1>3, <1>4, CutsOfWindows
  <1>6. RoomFor(todo)
    <2>1. Cardinality(worded) \in Nat /\ Cardinality(todo) \in Nat /\ drawn \in Nat
      BY <1>5, FS_CardinalityType, GraphBoundAssumption DEF GraphTypes, BurstsAreBursts
    <2> QED
      BY <1>2, <1>5, <2>1, GraphBoundAssumption DEF RoomFor
  <1>7. PICK p \in BOOLEAN : p = panics
    OBVIOUS
  <1>8. drawn' = drawn /\ BurstsAreBursts
    BY DEF BeginEvent, rowVars, GraphTypes
  <1>9. CASE gone = {}
    <2>1. job' = Extract(n, p, todo)
      BY <1>2, <1>4, <1>7, <1>9
    <2> QED
      BY <1>5, <1>6, <1>8, <2>1, ExtractIsTyped
  <1>10. CASE gone # {}
    <2>1. job' = [at |-> "purge", note |-> n, panics |-> p, gone |-> gone, todo |-> todo]
      BY <1>2, <1>4, <1>7, <1>10
    <2>2. gone \subseteq Ids
      BY GraphBoundAssumption DEF BurstsOf, GraphTypes, BurstsAreBursts, Ids
    <2> HIDE DEF panics
    <2>3. job' \in [at : {"purge", "purgePairs"}, note : GraphNotes, gone : SUBSET Ids, panics : BOOLEAN,
                    todo : SUBSET [at : Window, topic : Topics]]
      BY <1>5, <2>1, <2>2 DEF Cut
    <2>4. job' \in Job
      BY <2>3 DEF Job
    <2>5. JobHasRoom'
      BY <1>6, <1>8, <2>1 DEF JobHasRoom, RoomFor
    <2> QED
      BY <2>4, <2>5
  <1> QED
    BY <1>9, <1>10

LEMMA StoreBurstIsTyped ==
  ASSUME GraphTypes, StoreBurst
  PROVE  BurstsAreBursts' /\ job' \in Job /\ JobHasRoom'
  <1> DEFINE w == First(job.todo)
             rest == job.todo \ {w}
             row == [note |-> job.note, project |-> project[job.note], at |-> w.at, topic |-> w.topic,
                     created |-> job.since]
  <1>1. job \in [at : {"extract", "store", "pair"}, note : GraphNotes, panics : BOOLEAN,
                 todo : SUBSET [at : Window, topic : Topics], since : 0..MaxBursts]
    BY JobsThatExtract DEF GraphTypes, StoreBurst
  <1>2. job.todo \in SUBSET Cut /\ job.todo # {} /\ RoomFor(job.todo)
    BY <1>1 DEF GraphTypes, JobHasRoom, StoreBurst, Cut
  <1>3. w \in job.todo
    BY <1>2, FirstIsInHand
  <1>4. row \in Burst
    <2>1. w \in Cut
      BY <1>2, <1>3
    <2> HIDE DEF w
    <2> QED
      BY <1>1, <2>1 DEF GraphTypes, NotesAreTyped, Burst, Cut
  <1> HIDE DEF w, row
  <1>5. /\ IsFiniteSet(rest) /\ Cardinality(rest) \in Nat
        /\ Cardinality(job.todo) \in Nat /\ Cardinality(rest) = Cardinality(job.todo) - 1
    BY <1>2, <1>3, FS_RemoveElement, FS_CardinalityType DEF RoomFor
  <1>6. rest \in SUBSET Cut
    BY <1>2
  <1> HIDE DEF rest
  <1>7. drawn \in Nat /\ drawn' = drawn + 1 /\ drawn' \in 1..MaxBursts
        /\ drawn' + Cardinality(rest) <= MaxBursts
    BY <1>2, <1>5, GraphBoundAssumption DEF StoreBurst, GraphTypes, BurstsAreBursts, RoomFor
  <1>8. BurstsAreBursts'
    <2>1. bursts' = bursts \/ bursts' = With(bursts, [b \in {drawn + 1} |-> row])
      BY DEF StoreBurst, row, w
    <2>2. DOMAIN bursts \subseteq 1..drawn' /\ \A b \in DOMAIN bursts : bursts[b] \in Burst
      BY <1>7 DEF GraphTypes, BurstsAreBursts
    <2>3. DOMAIN bursts' \subseteq 1..drawn' /\ \A b \in DOMAIN bursts' : bursts'[b] \in Burst
      <3>1. CASE bursts' = With(bursts, [b \in {drawn + 1} |-> row])
        <4>1. /\ DOMAIN bursts' = DOMAIN bursts \cup {drawn'}
              /\ \A b \in DOMAIN bursts' : bursts'[b] = bursts[b] \/ bursts'[b] = row
              /\ \A b \in DOMAIN bursts : bursts'[b] = bursts[b]
              /\ drawn' \notin DOMAIN bursts => bursts'[drawn'] = row
          BY <1>7, <3>1 DEF With
        <4>2. drawn' \in 1..drawn'
          BY <1>7
        <4> QED
          BY <1>4, <2>2, <4>1, <4>2
      <3> QED
        BY <2>1, <2>2, <3>1
    <2>4. swept' \subseteq Ids
      BY DEF StoreBurst, GraphTypes, BurstsAreBursts
    <2> QED
      BY <1>7, <2>3, <2>4 DEF BurstsAreBursts
  <1>9. CASE job' = AfterWindow(rest)
    BY <1>1, <1>5, <1>6, <1>7, <1>8, <1>9, NextWindowIsTyped DEF GraphTypes
  <1>10. CASE job' = [job EXCEPT !.at = "pair", !.todo = rest]
    <2>1. job' \in [at : {"extract", "store", "pair"}, note : GraphNotes, panics : BOOLEAN,
                    todo : SUBSET [at : Window, topic : Topics], since : 0..MaxBursts]
          /\ job'.at = "pair" /\ job'.todo = rest
      BY <1>1, <1>6, <1>10 DEF Cut
    <2>2. job' \in Job
      BY <2>1 DEF Job
    <2>3. JobHasRoom'
      BY <1>5, <1>7, <2>1 DEF JobHasRoom, RoomFor
    <2> QED
      BY <1>8, <2>2, <2>3
  <1> QED
    BY <1>8, <1>9, <1>10 DEF StoreBurst, rest, w

(* Two bursts of different notes are a pair, and its row names notes.      *)
LEMMA SimilarArePairs ==
  ASSUME GraphTypes, NEW own \in SUBSET DOMAIN bursts, NEW peers \in SUBSET DOMAIN bursts,
         \A b \in own, c \in peers : bursts[b].note # bursts[c].note,
         NEW stored \in SUBSET SimilarPairs(own, peers), InsertCandidates(stored)
  PROVE  CandidatesAreCandidates'
  <1>1. stored \subseteq Pairs
    <2> SUFFICES ASSUME NEW pair \in stored PROVE pair \in Pairs
      OBVIOUS
    <2>1. PICK b \in own, c \in peers : pair = {b, c}
      BY DEF SimilarPairs
    <2>2. b # c /\ b \in Ids /\ c \in Ids
      BY GraphBoundAssumption DEF GraphTypes, BurstsAreBursts, Ids
    <2>3. Cardinality({b} \cup {c}) = 2
      <3>1. IsFiniteSet({b}) /\ Cardinality({b}) = 1
        BY FS_Singleton
      <3> QED
        <4>1. c \notin {b}
          BY <2>2
        <4>2. Cardinality({b} \cup {c}) = Cardinality({b}) + 1
          BY <3>1, <4>1, FS_AddElement
        <4> QED
          BY <3>1, <4>2
    <2>4. {b, c} = {b} \cup {c}
      OBVIOUS
    <2> QED
      BY <2>1, <2>2, <2>3, <2>4 DEF Pairs
  <1>2. \A pair \in stored : \A b \in pair : bursts[b].note \in GraphNotes
    BY DEF SimilarPairs, GraphTypes, BurstsAreBursts, Burst
  <1>3. \A pair \in stored : [notes |-> {bursts[b].note : b \in pair}, status |-> "pending"] \in Candidate
    BY <1>2 DEF Candidate
  <1>4. /\ DOMAIN cands' = DOMAIN cands \cup stored
        /\ \A pair \in DOMAIN cands : cands'[pair] = cands[pair]
        /\ \A pair \in stored \ DOMAIN cands :
             cands'[pair] = [notes |-> {bursts[b].note : b \in pair}, status |-> "pending"]
    BY StoredPairs
  <1> QED
    BY <1>1, <1>3, <1>4 DEF GraphTypes, CandidatesAreCandidates

LEMMA DecidedIsTyped ==
  ASSUME CandidatesAreCandidates, NEW pair, NEW status \in {"promoted", "dismissed"},
         cands' = WithStatus(pair, status)
  PROVE  CandidatesAreCandidates'
  BY DEF CandidatesAreCandidates, WithStatus, Candidate

LEMMA FewerCandidates ==
  ASSUME CandidatesAreCandidates, NEW pairs, cands' = Without(cands, pairs)
  PROVE  CandidatesAreCandidates'
  BY DEF CandidatesAreCandidates, Without

LEMMA FewerBursts ==
  ASSUME BurstsAreBursts, NEW ids, bursts' = bursts \/ bursts' = Without(bursts, ids), drawn' = drawn,
         swept' \subseteq Ids
  PROVE  BurstsAreBursts'
  BY DEF BurstsAreBursts, Without

LEMMA StampedBursts ==
  ASSUME BurstsAreBursts, NEW n, NEW p \in Projects, Stamp(n, p)
  PROVE  BurstsAreBursts'
  <1>1. PICK ok \in BOOLEAN :
          bursts' = [b \in DOMAIN bursts |->
                       IF ok /\ bursts[b].note = n /\ bursts[b].project = NoProject
                       THEN [bursts[b] EXCEPT !.project = p] ELSE bursts[b]]
    BY DEF Stamp
  <1>2. ASSUME NEW b \in DOMAIN bursts
        PROVE  bursts[b] \in Burst /\ [bursts[b] EXCEPT !.project = p] \in Burst
    BY DEF BurstsAreBursts, Burst, Stamps
  <1>3. DOMAIN bursts' = DOMAIN bursts /\ \A b \in DOMAIN bursts' : bursts'[b] \in Burst
    BY <1>1, <1>2
  <1>4. drawn' = drawn /\ swept' = swept
    BY DEF Stamp
  <1> QED
    BY <1>3, <1>4 DEF BurstsAreBursts

(* Counters.                                                               *)
LEMMA StatementsAreCounted ==
  ASSUME CountsAreTyped, NEW ok, Statement(ok), requests' = requests
  PROVE  CountsAreTyped'
  <1>1. requests' \in 0..MaxRequests
    BY DEF CountsAreTyped
  <1>2. failures' \in 0..MaxFailures
    BY GraphBoundAssumption DEF CountsAreTyped, Statement, faultVars
  <1>3. lost' \in BOOLEAN
    <2>1. lost' = TRUE \/ lost' = lost
      BY DEF Statement, faultVars
    <2>2. lost \in BOOLEAN
      BY DEF CountsAreTyped
    <2> QED
      BY <2>1, <2>2
  <1> QED
    BY <1>1, <1>2, <1>3, Zenon DEF CountsAreTyped

LEMMA RequestsAreCounted ==
  ASSUME CountsAreTyped, LinksAreCounted, Request
  PROVE  /\ requests' \in 0..MaxRequests
         /\ UNCHANGED links => LinksAreCounted'
  BY GraphBoundAssumption DEF CountsAreTyped, LinksAreCounted, Request

LEMMA FaultsAreCounted ==
  ASSUME CountsAreTyped, failures < MaxFailures, failures' = failures + 1, lost' \in BOOLEAN, requests' = requests
  PROVE  CountsAreTyped'
  <1>1. requests' \in 0..MaxRequests /\ failures' \in 0..MaxFailures
    BY GraphBoundAssumption DEF CountsAreTyped
  <1> QED
    BY <1>1, Zenon DEF CountsAreTyped

(* What a step leaves alone keeps its type.                                *)
LEMMA UntouchedGraph ==
  ASSUME GraphTypes
  PROVE  /\ UNCHANGED <<noteVars, tasks, hidden>> => NotesAreTyped'
         /\ UNCHANGED <<requests, faultVars>> => CountsAreTyped'
         /\ UNCHANGED <<bursts, drawn, swept>> => BurstsAreBursts'
         /\ UNCHANGED cands => CandidatesAreCandidates'
         /\ UNCHANGED <<links, requests>> => LinksAreCounted'
         /\ UNCHANGED <<job, drawn>> => job' \in Job /\ JobHasRoom'
  <1>1. UNCHANGED <<noteVars, tasks, hidden>> => NotesAreTyped'
    BY DEF GraphTypes, NotesAreTyped, noteVars
  <1>2. UNCHANGED <<requests, faultVars>> => CountsAreTyped'
    BY DEF GraphTypes, CountsAreTyped, faultVars
  <1>3. UNCHANGED <<bursts, drawn, swept>> => BurstsAreBursts'
    BY DEF GraphTypes, BurstsAreBursts
  <1>4. UNCHANGED cands => CandidatesAreCandidates'
    BY DEF GraphTypes, CandidatesAreCandidates
  <1>5. UNCHANGED <<links, requests>> => LinksAreCounted'
    BY DEF GraphTypes, LinksAreCounted
  <1>6. UNCHANGED <<job, drawn>> => job' \in Job /\ JobHasRoom'
    BY DEF GraphTypes, JobHasRoom, RoomFor
  <1> QED
    BY <1>1, <1>2, <1>3, <1>4, <1>5, <1>6

(* A closure that holds a note or a pair alone has room.                   *)
LEMMA SmallJobs ==
  ASSUME \/ job' = FreeJob
         \/ \E n \in GraphNotes, at \in {"unburst", "unpair"} : job' = [at |-> at, note |-> n]
         \/ \E n \in GraphNotes, p \in Projects : job' = [at |-> "match", note |-> n, project |-> p]
         \/ \E pair \in Pairs : job' = [at |-> "mark", pair |-> pair]
  PROVE  job' \in Job /\ JobHasRoom'
  <1>1. job' \in Job
    BY DEF FreeJob, Job
  <1>2. job'.at \in {"free", "unburst", "unpair", "match", "mark"}
    BY DEF FreeJob
  <1>3. JobHasRoom'
    BY <1>2 DEF JobHasRoom
  <1> QED
    BY <1>1, <1>3

LEMMA RequestsKeepTypes ==
  ASSUME GraphTypes,
         \/ \E n \in GraphNotes, p \in Stamps, old \in Stamps, d \in BOOLEAN : UpdateNote(n, p, old, d)
         \/ \E n \in GraphNotes : DeleteNote(n)
         \/ \E pair \in Pairs : Promote(pair) \/ Dismiss(pair)
         \/ \E moment : Sweep(moment)
  PROVE  GraphTypes'
  <1>1. ASSUME NEW n \in GraphNotes, NEW p \in Stamps, NEW old \in Stamps, NEW d \in BOOLEAN, UpdateNote(n, p, old, d)
        PROVE  GraphTypes'
    <2>1. NotesAreTyped'
      <3>1. project' \in [GraphNotes -> Stamps] /\ before' \in [GraphNotes -> Stamps]
        BY <1>1 DEF UpdateNote, GraphTypes, NotesAreTyped
      <3>2. deleted' \in [GraphNotes -> BOOLEAN]
        BY <1>1 DEF UpdateNote, GraphTypes, NotesAreTyped
      <3>3. tasks' \subseteq GraphNotes \X Projects
        <4>1. p # NoProject => p \in Projects
          BY DEF Stamps
        <4> QED
          BY <1>1, <4>1 DEF UpdateNote, GraphTypes, NotesAreTyped
      <3>4. hidden' \subseteq GraphNotes
        BY <1>1 DEF UpdateNote, GraphTypes, NotesAreTyped
      <3> QED
        BY <3>1, <3>2, <3>3, <3>4 DEF NotesAreTyped
    <2>2. CountsAreTyped'
      BY <1>1, RequestsAreCounted DEF UpdateNote, GraphTypes, CountsAreTyped, faultVars
    <2>3. LinksAreCounted'
      BY <1>1, RequestsAreCounted DEF UpdateNote, GraphTypes, rowVars
    <2>4. BurstsAreBursts' /\ CandidatesAreCandidates' /\ job' \in Job /\ JobHasRoom'
      BY <1>1, UntouchedGraph DEF UpdateNote, rowVars
    <2> QED
      BY <2>1, <2>2, <2>3, <2>4 DEF GraphTypes
  <1>2. ASSUME NEW n \in GraphNotes, DeleteNote(n) PROVE GraphTypes'
    <2>1. NotesAreTyped'
      BY <1>2 DEF DeleteNote, GraphTypes, NotesAreTyped
    <2>2. CountsAreTyped'
      BY <1>2, RequestsAreCounted DEF DeleteNote, GraphTypes, CountsAreTyped, faultVars
    <2>3. LinksAreCounted'
      BY <1>2, RequestsAreCounted DEF DeleteNote, GraphTypes, rowVars
    <2>4. BurstsAreBursts' /\ CandidatesAreCandidates'
      BY <1>2, UntouchedGraph DEF DeleteNote, rowVars
    <2>5. job' \in Job /\ JobHasRoom'
      BY <1>2, SmallJobs DEF DeleteNote
    <2> QED
      BY <2>1, <2>2, <2>3, <2>4, <2>5 DEF GraphTypes
  <1>3. ASSUME NEW pair \in Pairs, Promote(pair) PROVE GraphTypes'
    <2>1. PICK ok \in BOOLEAN :
            /\ Statement(ok)
            /\ links' = IF ok THEN [links EXCEPT ![pair] = @ + 1] ELSE links
            /\ job' = IF ok THEN [at |-> "mark", pair |-> pair] ELSE FreeJob
      BY <1>3 DEF Promote
    <2>2. requests' \in 0..MaxRequests /\ requests' = requests + 1 /\ requests \in Nat
      BY <1>3, RequestsAreCounted, GraphBoundAssumption DEF Promote, Request, GraphTypes, CountsAreTyped
    <2>3. CountsAreTyped'
      <3>1. failures' \in 0..MaxFailures
        BY <2>1, GraphBoundAssumption DEF Statement, faultVars, GraphTypes, CountsAreTyped
      <3>2. lost' = lost \/ lost' = TRUE
        BY <2>1 DEF Statement, faultVars
      <3>3. lost' \in BOOLEAN
        BY <3>2 DEF GraphTypes, CountsAreTyped
      <3> QED
        BY <2>2, <3>1, <3>3, Zenon DEF CountsAreTyped
    <2>4. LinksAreCounted'
      BY <2>1, <2>2 DEF GraphTypes, LinksAreCounted
    <2>5. job' \in Job /\ JobHasRoom'
      BY <2>1, SmallJobs
    <2>6. NotesAreTyped' /\ BurstsAreBursts' /\ CandidatesAreCandidates'
      BY <1>3, UntouchedGraph DEF Promote
    <2> QED
      BY <2>3, <2>4, <2>5, <2>6 DEF GraphTypes
  <1>4. ASSUME NEW pair \in Pairs, Dismiss(pair) PROVE GraphTypes'
    <2>1. CountsAreTyped' /\ LinksAreCounted'
      BY <1>4, RequestsAreCounted DEF Dismiss, GraphTypes, CountsAreTyped, faultVars
    <2>2. CandidatesAreCandidates'
      BY <1>4, DecidedIsTyped DEF Dismiss, GraphTypes
    <2>3. NotesAreTyped' /\ BurstsAreBursts' /\ job' \in Job /\ JobHasRoom'
      BY <1>4, UntouchedGraph DEF Dismiss
    <2> QED
      BY <2>1, <2>2, <2>3 DEF GraphTypes
  <1>5. ASSUME NEW moment, Sweep(moment) PROVE GraphTypes'
    <2>1. CountsAreTyped' /\ LinksAreCounted'
      BY <1>5, RequestsAreCounted DEF Sweep, GraphTypes, CountsAreTyped, faultVars
    <2>2. BurstsAreBursts'
      <3>1. swept' \subseteq Ids
        <4> DEFINE old == {b \in DOMAIN bursts : bursts[b].created < moment}
        <4>1. swept' = swept \cup old
          BY <1>5 DEF Sweep
        <4>2. old \subseteq DOMAIN bursts
          OBVIOUS
        <4> HIDE DEF old
        <4>3. DOMAIN bursts \subseteq Ids /\ swept \subseteq Ids
          <5>1. drawn \in 0..MaxBursts /\ DOMAIN bursts \subseteq 1..drawn /\ swept \subseteq Ids
            BY DEF GraphTypes, BurstsAreBursts
          <5>2. 1..drawn \subseteq Ids
            BY <5>1, GraphBoundAssumption DEF Ids
          <5> QED
            BY <5>1, <5>2, Zenon
        <4> QED
          BY <4>1, <4>2, <4>3, Zenon
      <3> QED
        BY <1>5, <3>1, FewerBursts DEF Sweep, GraphTypes
    <2>3. NotesAreTyped' /\ CandidatesAreCandidates' /\ job' \in Job /\ JobHasRoom'
      BY <1>5, UntouchedGraph DEF Sweep
    <2> QED
      BY <2>1, <2>2, <2>3 DEF GraphTypes
  <1> QED
    BY <1>1, <1>2, <1>3, <1>4, <1>5

(* A statement of a closure leaves the notes and the requests alone.       *)
LEMMA ClosureKeepsTypes ==
  ASSUME GraphTypes, \E ok : Statement(ok), UNCHANGED <<noteVars, hidden, requests, links>>,
         tasks' \subseteq tasks, BurstsAreBursts', CandidatesAreCandidates', job' \in Job, JobHasRoom'
  PROVE  GraphTypes'
  <1>1. CountsAreTyped'
    BY StatementsAreCounted DEF GraphTypes
  <1>2. NotesAreTyped'
    BY DEF GraphTypes, NotesAreTyped, noteVars
  <1>3. LinksAreCounted'
    BY UntouchedGraph
  <1> QED
    BY <1>1, <1>2, <1>3 DEF GraphTypes

LEMMA ExtractionKeepsTypes ==
  ASSUME GraphTypes, OfferInv,
         \/ \E n \in GraphNotes : BeginEvent(n)
         \/ PurgeBursts \/ PurgePairs \/ StoreBurst \/ PairBurst
  PROVE  GraphTypes'
  <1>1. ASSUME NEW n \in GraphNotes, BeginEvent(n) PROVE GraphTypes'
    <2>1. \E ok : Statement(ok)
      BY <1>1 DEF BeginEvent
    <2>2. job' \in Job /\ JobHasRoom'
      BY <1>1, BeginEventIsTyped
    <2>3. BurstsAreBursts' /\ CandidatesAreCandidates'
      BY <1>1, UntouchedGraph DEF BeginEvent, rowVars
    <2> QED
      BY <1>1, <2>1, <2>2, <2>3, ClosureKeepsTypes DEF BeginEvent, rowVars
  <1>2. CASE PurgeBursts
    <2>1. job' = [job EXCEPT !.at = "purgePairs"] /\ drawn' = drawn
      BY <1>2 DEF PurgeBursts
    <2>2. job \in [at : {"purge", "purgePairs"}, note : GraphNotes, gone : SUBSET Ids, panics : BOOLEAN,
                   todo : SUBSET [at : Window, topic : Topics]]
      BY <1>2, JobsThatExtract DEF GraphTypes, PurgeBursts
    <2>3. job' \in Job
      BY <2>1, <2>2 DEF Job
    <2>4. JobHasRoom'
      BY <1>2, <2>1, <2>2 DEF JobHasRoom, RoomFor, GraphTypes, PurgeBursts
    <2>5. BurstsAreBursts' /\ CandidatesAreCandidates'
      BY <1>2, FewerBursts, UntouchedGraph DEF PurgeBursts, GraphTypes, BurstsAreBursts
    <2> QED
      BY <1>2, <2>3, <2>4, <2>5, ClosureKeepsTypes DEF PurgeBursts
  <1>3. CASE PurgePairs
    <2>1. job \in [at : {"purge", "purgePairs"}, note : GraphNotes, gone : SUBSET Ids, panics : BOOLEAN,
                   todo : SUBSET [at : Window, topic : Topics]]
      BY <1>3, JobsThatExtract DEF GraphTypes, PurgePairs
    <2>2. job.note \in GraphNotes /\ job.panics \in BOOLEAN /\ job.todo \in SUBSET Cut /\ RoomFor(job.todo)
      BY <1>3, <2>1 DEF PurgePairs, GraphTypes, JobHasRoom, Cut
    <2>3. job' \in Job /\ JobHasRoom'
      BY <1>3, <2>2, ExtractIsTyped DEF PurgePairs, GraphTypes
    <2>4. CandidatesAreCandidates'
      BY <1>3, FewerCandidates, UntouchedGraph DEF PurgePairs, GraphTypes
    <2>5. BurstsAreBursts'
      BY <1>3, UntouchedGraph DEF PurgePairs
    <2> QED
      BY <1>3, <2>3, <2>4, <2>5, ClosureKeepsTypes DEF PurgePairs
  <1>4. CASE StoreBurst
    <2>1. \E ok : Statement(ok)
      BY <1>4 DEF StoreBurst
    <2>2. UNCHANGED <<noteVars, hidden, requests, links, tasks, cands>>
      BY <1>4 DEF StoreBurst
    <2> QED
      BY <1>4, <2>1, <2>2, StoreBurstIsTyped, UntouchedGraph, ClosureKeepsTypes
  <1>5. CASE PairBurst
    <2>1. PICK stored \in SUBSET SimilarPairs({drawn}, Peers(job.note, project[job.note])) :
            InsertCandidates(stored)
      BY <1>5 DEF PairBurst
    <2>2. {drawn} \in SUBSET DOMAIN bursts /\ bursts[drawn].note = job.note
      BY <1>5 DEF PairBurst, OfferInv, PairInv, NewBurstIsStored, JobIsAboutNotes
    <2>3. CandidatesAreCandidates'
      BY <2>1, <2>2, SimilarArePairs DEF Peers
    <2>4. job \in [at : {"extract", "store", "pair"}, note : GraphNotes, panics : BOOLEAN,
                   todo : SUBSET [at : Window, topic : Topics], since : 0..MaxBursts]
      BY <1>5, JobsThatExtract DEF GraphTypes, PairBurst
    <2>5. job.todo \in SUBSET Cut /\ RoomFor(job.todo) /\ job' = AfterWindow(job.todo) /\ drawn' = drawn
      BY <1>5, <2>4 DEF PairBurst, GraphTypes, JobHasRoom, Cut
    <2>6. job' \in Job /\ JobHasRoom'
      BY <1>5, <2>5, NextWindowIsTyped DEF GraphTypes, PairBurst, RoomFor
    <2>7. BurstsAreBursts'
      BY <1>5, UntouchedGraph DEF PairBurst
    <2> QED
      BY <1>5, <2>3, <2>6, <2>7, ClosureKeepsTypes DEF PairBurst
  <1> QED
    BY <1>1, <1>2, <1>3, <1>4, <1>5

LEMMA OtherClosuresKeepTypes ==
  ASSUME GraphTypes,
         \/ \E n \in GraphNotes, p \in Projects : Stamp(n, p)
         \/ Match \/ DeleteBursts \/ DeletePairs \/ MarkPromoted
  PROVE  GraphTypes'
  <1>1. ASSUME NEW n \in GraphNotes, NEW p \in Projects, Stamp(n, p) PROVE GraphTypes'
    <2>1. BurstsAreBursts' /\ CandidatesAreCandidates'
      BY <1>1, StampedBursts, UntouchedGraph DEF Stamp, GraphTypes
    <2>2. job' \in Job /\ JobHasRoom'
      BY <1>1, SmallJobs DEF Stamp
    <2> QED
      BY <1>1, <2>1, <2>2, ClosureKeepsTypes DEF Stamp
  <1>2. CASE Match
    <2>1. PICK stored \in SUBSET (SimilarPairs(BurstsOf(job.note), Peers(job.note, job.project)) \ Reviewed) :
            InsertCandidates(stored)
      BY <1>2 DEF Match
    <2>2. BurstsOf(job.note) \subseteq DOMAIN bursts /\ Peers(job.note, job.project) \subseteq DOMAIN bursts
          /\ \A b \in BurstsOf(job.note), c \in Peers(job.note, job.project) : bursts[b].note # bursts[c].note
      BY DEF BurstsOf, Peers
    <2>3. CandidatesAreCandidates'
      BY <2>1, <2>2, SimilarArePairs
    <2>4. BurstsAreBursts' /\ job' \in Job /\ JobHasRoom'
      BY <1>2, SmallJobs, UntouchedGraph DEF Match
    <2> QED
      BY <1>2, <2>3, <2>4, ClosureKeepsTypes DEF Match
  <1>3. CASE DeleteBursts
    <2>1. job \in [at : {"unburst", "unpair"}, note : GraphNotes]
      BY <1>3, JobsThatExtract DEF GraphTypes, DeleteBursts
    <2>2. job' = FreeJob \/ job' = [at |-> "unpair", note |-> job.note]
      BY <1>3, <2>1 DEF DeleteBursts
    <2>3. job' \in Job /\ JobHasRoom'
      BY <2>1, <2>2, SmallJobs
    <2>4. BurstsAreBursts' /\ CandidatesAreCandidates'
      BY <1>3, FewerBursts, UntouchedGraph DEF DeleteBursts, GraphTypes, BurstsAreBursts
    <2> QED
      BY <1>3, <2>3, <2>4, ClosureKeepsTypes DEF DeleteBursts
  <1>4. CASE DeletePairs
    <2>1. CandidatesAreCandidates'
      BY <1>4, FewerCandidates, UntouchedGraph DEF DeletePairs, GraphTypes
    <2>2. BurstsAreBursts' /\ job' \in Job /\ JobHasRoom'
      BY <1>4, SmallJobs, UntouchedGraph DEF DeletePairs
    <2> QED
      BY <1>4, <2>1, <2>2, ClosureKeepsTypes DEF DeletePairs
  <1>5. CASE MarkPromoted
    <2>1. CandidatesAreCandidates'
      BY <1>5, DecidedIsTyped, UntouchedGraph DEF MarkPromoted, GraphTypes
    <2>2. BurstsAreBursts' /\ job' \in Job /\ JobHasRoom'
      BY <1>5, SmallJobs, UntouchedGraph DEF MarkPromoted
    <2> QED
      BY <1>5, <2>1, <2>2, ClosureKeepsTypes DEF MarkPromoted
  <1> QED
    BY <1>1, <1>2, <1>3, <1>4, <1>5

LEMMA EndsKeepTypes ==
  ASSUME GraphTypes, SkipEvent \/ ExtractionPanics \/ GraphCrash \/ UNCHANGED graphVars
  PROVE  GraphTypes'
  <1>1. CASE SkipEvent
    BY <1>1, SmallJobs, UntouchedGraph DEF SkipEvent, GraphTypes, rowVars
  <1>2. CASE UNCHANGED graphVars
    BY <1>2, UntouchedGraph DEF graphVars, GraphTypes, rowVars
  <1>3. ASSUME GraphRestart, failures' = failures \/ (failures < MaxFailures /\ failures' = failures + 1)
        PROVE  GraphTypes'
    <2>1. NotesAreTyped'
      BY <1>3 DEF GraphRestart, GraphTypes, NotesAreTyped, noteVars
    <2>2. lost' \in BOOLEAN
      BY <1>3, Zenon DEF GraphRestart
    <2>3. requests' \in 0..MaxRequests /\ failures' \in 0..MaxFailures
      BY <1>3, GraphBoundAssumption DEF GraphRestart, GraphTypes, CountsAreTyped
    <2>4. CountsAreTyped'
      BY <2>2, <2>3, Zenon DEF CountsAreTyped
    <2> QED
      BY <1>3, <2>1, <2>4, SmallJobs, UntouchedGraph DEF GraphRestart, GraphTypes, rowVars
  <1>4. CASE ExtractionPanics
    BY <1>3, <1>4 DEF ExtractionPanics
  <1>5. CASE GraphCrash
    BY <1>3, <1>5 DEF GraphCrash
  <1> QED
    BY <1>1, <1>2, <1>4, <1>5

LEMMA GraphTypesStep == OfferInv /\ GraphTypes /\ [GraphNext]_graphVars => GraphTypes'
  BY RequestsKeepTypes, ExtractionKeepsTypes, OtherClosuresKeepTypes, EndsKeepTypes DEF GraphNext, Closure

(* The variables keep their types (GraphTypeOK): a closure never stores    *)
(* more bursts than BeginEvent cut windows, so that no id is beyond the    *)
(* last one, and no pair has more link rows than there were requests.      *)
THEOREM GraphIsTyped == GraphSpec => []GraphTypeOK
  <1>1. GraphTypes => GraphTypeOK
    <2> SUFFICES ASSUME GraphTypes PROVE GraphTypeOK
      OBVIOUS
    <2>1. links \in [Pairs -> 0..MaxRequests]
      BY GraphBoundAssumption DEF GraphTypes, LinksAreCounted, CountsAreTyped
    <2> QED
      BY <2>1 DEF GraphTypes, GraphTypeOK, NotesAreTyped, CountsAreTyped, BurstsAreBursts, CandidatesAreCandidates
  <1> QED
    BY <1>1, GraphTypesInit, GraphTypesStep, OfferInvInit, OfferInvHolds, PTL DEF GraphSpec
=============================================================================
