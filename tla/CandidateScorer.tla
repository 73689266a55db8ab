-------------------------- MODULE CandidateScorer --------------------------
(***************************************************************************)
(* The scorer goroutine of the SQLite provider: ids of new candidates      *)
(* reach it over a bounded channel.  Senders drop when it is full, and a   *)
(* ticker puts pending rows without a score back.  The score itself is     *)
(* written by the writer goroutine, which is also the sender of ids of new *)
(* bursts, so each depends on the other.                                   *)
(*                                                                         *)
(* What module ContextGraph does to the rows is here: they are inserted,   *)
(* decided or purged, and their bursts may go.  Ids ascend with insertion. *)
(* Every row is old enough for the next tick.                              *)
(***************************************************************************)
EXTENDS Integers, Sequences, FiniteSets, SequencesExt

CONSTANTS
  ChannelCap,         \* capacity of scorerCh
  MaxRows, MaxCrashes  \* bounds

ASSUME ScorerAssumption ==
  ChannelCap \in Nat /\ MaxRows \in Nat /\ MaxCrashes \in Nat

VARIABLES
  candidates,      \* candidate_relations, by id
  drawn,     \* ids drawn so far
  scorerCh,  \* the scorer's channel
  writing,   \* ids the writer has still to send within its closure
  outbox,    \* ids IndexNoteIntoProject goroutines have still to send
  scoring,   \* the row the scorer has read and will update, or 0
  crashes,
  tried      \* observation: candidates the scorer has looked at

scorerVars == <<candidates, drawn, scorerCh, writing, outbox, scoring, crashes, tried>>

Ids == 1..MaxRows

Candidate == [pending : BOOLEAN, scored : BOOLEAN, whole : BOOLEAN]

ScorerTypeOK ==
  /\ drawn \in 0..MaxRows
  /\ DOMAIN candidates \subseteq 1..drawn /\ \A id \in DOMAIN candidates : candidates[id] \in Candidate
  /\ scorerCh \in Seq(Ids) /\ Len(scorerCh) <= ChannelCap
  /\ writing \in Seq(Ids) /\ outbox \in Seq(Ids)
  /\ scoring \in 0..MaxRows
  /\ crashes \in 0..MaxCrashes
  /\ tried \subseteq Ids

ScorerInit ==
  /\ candidates = << >> /\ drawn = 0
  /\ scorerCh = << >> /\ writing = << >> /\ outbox = << >>
  /\ scoring = 0 /\ crashes = 0 /\ tried = {}

-----------------------------------------------------------------------------
(* No closure runs: the writer can take the next one.                      *)
WriterFree == writing = << >>

(* Faulty variant: room for one more than the channel holds.               *)
FitsOneMore(ids) ==
  LET room == ChannelCap - Len(scorerCh) + 1
  IN  scorerCh \o SubSeq(ids, 1, IF Len(ids) < room THEN Len(ids) ELSE room)

(* The ids in their order, as far as the channel has room.                 *)
Fits(ids) ==
  LET room == ChannelCap - Len(scorerCh)
  IN  scorerCh \o SubSeq(ids, 1, IF Len(ids) < room THEN Len(ids) ELSE room)

Inserted(count) ==
  /\ count <= MaxRows - drawn
  /\ drawn' = drawn + count
  /\ candidates' = [id \in DOMAIN candidates \cup (drawn + 1)..(drawn + count) |->
                IF id \in DOMAIN candidates THEN candidates[id]
                ELSE [pending |-> TRUE, scored |-> FALSE, whole |-> TRUE]]

NewIds(count) == [k \in 1..count |-> drawn + k]

(* extractBurstsForEvent: rows, then sends from within the closure.        *)
InsertByEvent(count) ==
  /\ WriterFree
  /\ Inserted(count)
  /\ writing' = NewIds(count)
  /\ UNCHANGED <<scorerCh, outbox, scoring, crashes, tried>>

(* Faulty variant: a blocking send.                                        *)
SendsBlocking ==
  /\ writing # << >> /\ Len(scorerCh) < ChannelCap
  /\ scorerCh' = Append(scorerCh, Head(writing))
  /\ writing' = Tail(writing)
  /\ UNCHANGED <<candidates, drawn, outbox, scoring, crashes, tried>>

SendFromWriter ==
  /\ writing # << >>
  /\ scorerCh' = Fits(<<Head(writing)>>)
  /\ writing' = Tail(writing)
  /\ UNCHANGED <<candidates, drawn, outbox, scoring, crashes, tried>>

(* IndexNoteIntoProject: the sends follow the closure.                     *)
InsertByIndex(count) ==
  /\ WriterFree
  /\ Inserted(count)
  /\ outbox' = outbox \o NewIds(count)
  /\ UNCHANGED <<scorerCh, writing, scoring, crashes, tried>>

SendFromIndex ==
  /\ outbox # << >>
  /\ scorerCh' = Fits(<<Head(outbox)>>)
  /\ outbox' = Tail(outbox)
  /\ UNCHANGED <<candidates, drawn, writing, scoring, crashes, tried>>

(* A review.                                                               *)
Decide(id) ==
  /\ WriterFree
  /\ candidates' = [candidates EXCEPT ![id].pending = FALSE]
  /\ UNCHANGED <<drawn, scorerCh, writing, outbox, scoring, crashes, tried>>

(* Its bursts are replaced or its note deleted.                            *)
Purge(id) ==
  /\ WriterFree /\ candidates[id].pending
  /\ candidates' = [k \in DOMAIN candidates \ {id} |-> candidates[k]]
  /\ UNCHANGED <<drawn, scorerCh, writing, outbox, scoring, crashes, tried>>

(* SweepBursts takes a burst of the row.                                   *)
Sweep(id) ==
  /\ WriterFree
  /\ candidates' = [candidates EXCEPT ![id].whole = FALSE]
  /\ UNCHANGED <<drawn, scorerCh, writing, outbox, scoring, crashes, tried>>

-----------------------------------------------------------------------------
(* scoreCandidate up to the query: a row that is gone, that lacks a burst  *)
(* or that the full-text table does not know is left alone.                *)
Receive ==
  LET id == Head(scorerCh)
  IN  /\ scoring = 0 /\ scorerCh # << >>
      /\ scorerCh' = Tail(scorerCh)
      /\ tried' = tried \cup {id}
      /\ scoring' \in {0} \cup {k \in DOMAIN candidates : k = id /\ candidates[k].whole}
      /\ UNCHANGED <<candidates, drawn, writing, outbox, crashes>>

WriteScore ==
  /\ WriterFree /\ scoring # 0
  /\ candidates' = [id \in DOMAIN candidates |-> IF id = scoring THEN [candidates[id] EXCEPT !.scored = TRUE] ELSE candidates[id]]
  /\ scoring' = 0
  /\ UNCHANGED <<drawn, scorerCh, writing, outbox, crashes, tried>>

(* The candidates that wait for a score.                                   *)
Unscored == {id \in DOMAIN candidates : candidates[id].pending /\ ~ candidates[id].scored}

(* Faulty variant: rows past the last one that the scorer looked at.       *)
UnscoredAfterLast == {id \in DOMAIN candidates : candidates[id].pending /\ ~ candidates[id].scored /\ \A k \in tried : id > k}

(* ReconcileUnenrichedCandidates: the query names no order.                *)
Waiting == Unscored

Reconcile ==
  /\ scoring = 0
  /\ \E found \in SetToSeqs(Waiting) : scorerCh' = Fits(found)
  /\ UNCHANGED <<candidates, drawn, writing, outbox, scoring, crashes, tried>>

(* The process ends and starts again with its tables.                      *)
RestartScorer ==
  /\ crashes < MaxCrashes /\ crashes' = crashes + 1
  /\ scorerCh' = << >> /\ writing' = << >> /\ outbox' = << >> /\ scoring' = 0
  /\ UNCHANGED <<candidates, drawn, tried>>

ScorerNext ==
  \/ \E count \in 1..MaxRows : InsertByEvent(count) \/ InsertByIndex(count)
  \/ SendFromWriter \/ SendFromIndex
  \/ \E id \in DOMAIN candidates : Decide(id) \/ Purge(id) \/ Sweep(id)
  \/ Receive \/ WriteScore \/ Reconcile
  \/ RestartScorer

ScorerSpec == ScorerInit /\ [][ScorerNext]_scorerVars

(* The writer goes on with its closure and serves the scorer's write, and  *)
(* select chooses among ready cases at random, so that none is passed over *)
(* for ever.                                                               *)
ScorerFairSpec ==
  /\ ScorerSpec
  /\ WF_scorerVars(SendFromWriter)
  /\ SF_scorerVars(WriteScore) /\ SF_scorerVars(Receive) /\ SF_scorerVars(Reconcile)

-----------------------------------------------------------------------------
(* "The write is never blocked": within its closure the writer can always  *)
(* go on, however full the channel is and although the scorer may be       *)
(* waiting for the writer.                                                 *)
WriteIsNeverBlocked == ~ WriterFree => ENABLED SendFromWriter

(* A pending candidate whose id was dropped, or lost in a crash, comes     *)
(* before the scorer in the end.  Provided that the scorer empties its     *)
(* channel now and then, and that the rows waiting for a score fit into    *)
(* it: more rows that cannot be scored would take every place.             *)
EveryCandidateIsOffered ==
  []<>(scorerCh = << >>) /\ <>[](Cardinality(Unscored) <= ChannelCap) =>
    \A id \in Ids : []<>(id \notin Unscored \ tried)
=============================================================================
