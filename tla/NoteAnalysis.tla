---------------------------- MODULE NoteAnalysis ----------------------------
(***************************************************************************)
(* The note analysis runner of the SQLite provider: the tables             *)
(* note_analyses and note_relations, and the one goroutine that polls the  *)
(* notes whose head_seq is ahead of their analysis.                        *)
(*                                                                         *)
(* The goroutine reads beside the writer, also between the statement of an *)
(* append that stores the text and the one that stores the head; analysis, *)
(* deletion and insertion of relations are closures of their own.  The     *)
(* analysis with its head is stored first: what fails after it is not      *)
(* tried again before the next edit.                                       *)
(*                                                                         *)
(* A text is the number of its event and its subject, which stands for the *)
(* concepts and families that AnalyzeNote finds.  The cut to TopNPerNote   *)
(* relations is left out: there are fewer notes.                           *)
(***************************************************************************)
EXTENDS NoteIds, Integers, Sequences, FiniteSets, SequencesExt

CONSTANTS
  SecureNotes,         \* notes whose text the server never has
  Subjects,
  Kin,                 \* pairs of subjects that score MinScore
  Places,              \* project and folder, the folder perhaps None
  FirstPlace,          \* where each note is created
  PollLimit,           \* LIMIT of the poll
  MaxEvents, MaxIncidents   \* bounds

ASSUME AnalysisAssumption ==
  /\ IsFiniteSet(Notes) /\ SecureNotes \subseteq Notes
  /\ None \notin Notes \cup Subjects
  /\ Kin \subseteq Subjects \X Subjects /\ \A p \in Kin : <<p[2], p[1]>> \in Kin
  /\ FirstPlace \in [Notes -> Places]
  /\ PollLimit \in Nat \ {0}
  /\ MaxEvents \in Nat /\ MaxIncidents \in Nat

VARIABLES
  headSeq,        \* notes.head_seq
  content,        \* note_content: event and subject
  place,          \* notes.project_urn and folder_urn
  gone,           \* notes.deleted
  recency,        \* the notes by updated_at
  committing,     \* the note whose append has stored its text and not its head
  analyses,       \* note_analyses
  noteRelations,  \* note_relations of a source: the subjects scored, by target
  polled,         \* runner: the rows of the poll not taken yet
  hand,           \* runner: the note in hand
  incidents,      \* moves, deletions and failures so far
  unrelated       \* observation: notes whose relations were given up

editVars == <<headSeq, content, place, gone, recency, committing>>
analysisVars == <<editVars, analyses, noteRelations, polled, hand, incidents, unrelated>>

Empty == [at |-> "idle", note |-> None]

WriterReady == committing = None

NotAnalysed == [seq |-> -1, of |-> -1, subject |-> None, place |-> None]

AnalysisInit ==
  /\ headSeq = [n \in Notes |-> 0]
  /\ content = [n \in Notes |-> [of |-> 0, subject |-> None]]
  /\ place = FirstPlace
  /\ gone \in SUBSET Notes
  /\ recency \in SetToSeqs(Notes)
  /\ committing = None
  /\ analyses = [n \in Notes |-> NotAnalysed]
  /\ noteRelations = [n \in Notes |-> << >>]
  /\ polled = << >> /\ hand = Empty
  /\ incidents = 0 /\ unrelated = {}

runnerState == <<analyses, noteRelations, polled, hand, unrelated>>

-----------------------------------------------------------------------------
(* The writer.  updated_at grows with each of its statements.              *)
Touched(n) == \E k \in DOMAIN recency : recency[k] = n /\ recency' = Append(RemoveAt(recency, k), n)

(* notes.head_seq counts the events: those of all notes are bounded.       *)
Stored == {e \in Notes \X (1..MaxEvents) : e[2] <= headSeq[e[1]]}

Incident == incidents < MaxIncidents /\ incidents' = incidents + 1

(* AppendEvent up to the text.  A secure note keeps none.  After an append *)
(* that was cut short the next one fails on the events table.              *)
CommitText(n, subject) ==
  /\ WriterReady /\ Cardinality(Stored) < MaxEvents
  /\ content[n].of = headSeq[n]
  /\ content' = [content EXCEPT ![n] = [of |-> headSeq[n] + 1, subject |-> subject]]
  /\ committing' = n
  /\ UNCHANGED <<headSeq, place, gone, recency, runnerState, incidents>>

CommitHead ==
  /\ committing # None
  /\ headSeq' = [headSeq EXCEPT ![committing] = @ + 1]
  /\ Touched(committing)
  /\ committing' = None
  /\ UNCHANGED <<content, place, gone, runnerState, incidents>>

CommitCutShort ==
  /\ committing # None /\ Incident
  /\ committing' = None
  /\ UNCHANGED <<headSeq, content, place, gone, recency, runnerState>>

(* Update: a note is moved, deleted or brought back, its head stays.       *)
MoveNote(n, p) ==
  /\ WriterReady /\ place[n] # p
  /\ Incident
  /\ place' = [place EXCEPT ![n] = p]
  /\ Touched(n)
  /\ UNCHANGED <<headSeq, content, gone, committing, runnerState>>

FlipDeleted(n) ==
  /\ WriterReady
  /\ Incident
  /\ gone' = IF n \in gone THEN gone \ {n} ELSE gone \cup {n}
  /\ Touched(n)
  /\ UNCHANGED <<headSeq, content, place, committing, runnerState>>

-----------------------------------------------------------------------------
(* The runner.                                                             *)

(* n has no analysis or a head ahead of it.                                *)
Behind(n) == n \notin gone /\ analyses[n].seq < headSeq[n]

AddIfBehind(rows, n) == IF Behind(n) THEN Append(rows, n) ELSE rows

(* LIMIT of the rows, those that were left alone longest come first.       *)
Due ==
  LET rows == FoldLeft(AddIfBehind, << >>, recency)
  IN  SubSeq(rows, 1, IF Len(rows) < PollLimit THEN Len(rows) ELSE PollLimit)

PollNotes ==
  /\ hand = Empty /\ polled = << >> /\ Due # << >>
  /\ polled' = [k \in DOMAIN Due |-> [note |-> Due[k], seq |-> headSeq[Due[k]], place |-> place[Due[k]]]]
  /\ UNCHANGED <<editVars, analyses, noteRelations, hand, incidents, unrelated>>

(* The text is read for the note as it is now, head and place are those of *)
(* the poll.  A secure note has no text row; a note that was only created  *)
(* may lack it, since a failure to insert the empty text is ignored.       *)
TakeRow ==
  LET row == Head(polled)
      secure == row.note \in SecureNotes
  IN  /\ hand = Empty /\ polled # << >>
      /\ polled' = Tail(polled)
      /\ \E bare \in BOOLEAN :
           /\ secure => bare
           /\ bare => secure \/ content[row.note].of = 0
           /\ hand' = [at |-> IF bare THEN "bare" ELSE "analysis",
                       note |-> row.note, seq |-> row.seq, place |-> row.place, of |-> content[row.note].of,
                       subject |-> IF bare THEN None ELSE content[row.note].subject]
      /\ UNCHANGED <<editVars, analyses, noteRelations, incidents, unrelated>>

Has(at) == hand.at = at /\ WriterReady

(* Faulty variant: the analysis claims the head of the moment.             *)
ClaimsPresentHead == [analyses EXCEPT ![hand.note] =
  [seq |-> headSeq[hand.note], of |-> hand.of, subject |-> hand.subject, place |-> hand.place]]

Analysed == [analyses EXCEPT ![hand.note] =
  [seq |-> hand.seq, of |-> hand.of, subject |-> hand.subject, place |-> hand.place]]

(* Faulty variant: a note without a text row is passed over.               *)
PassesOver ==
  /\ Has("bare")
  /\ hand' = Empty
  /\ UNCHANGED <<editVars, analyses, noteRelations, polled, incidents, unrelated>>

(* upsertEmptyNoteAnalysis ends the run of a note without a text row.      *)
StoreBareAnalysis ==
  /\ Has("bare")
  /\ analyses' = Analysed
  /\ hand' = Empty
  /\ UNCHANGED <<editVars, noteRelations, polled, incidents, unrelated>>

StoreAnalysis ==
  /\ Has("analysis")
  /\ analyses' = Analysed
  /\ hand' = [hand EXCEPT !.at = "peers"]
  /\ UNCHANGED <<editVars, noteRelations, polled, incidents, unrelated>>

(* loadPeerAnalyses: without a folder the whole project is seen.           *)
Sees(p, q) == p.project = q.project /\ (p.folder = None \/ p.folder = q.folder)

(* Faulty variant: peers that wait for their analysis are left out.        *)
CurrentPeersOf(n, p, subject) ==
  {m \in Notes \ {n} : /\ analyses[m].seq = headSeq[m] /\ Sees(p, analyses[m].place)
                       /\ <<subject, analyses[m].subject>> \in Kin}

(* The analysed notes that score with n.                                   *)
PeersOf(n, p, subject) ==
  {m \in Notes \ {n} : /\ analyses[m] # NotAnalysed /\ Sees(p, analyses[m].place)
                       /\ <<subject, analyses[m].subject>> \in Kin}

LoadPeers ==
  /\ hand.at = "peers"
  /\ hand' = [at |-> "delete", note |-> hand.note,
              scored |-> [m \in PeersOf(hand.note, hand.place, hand.subject) |->
                            <<hand.subject, analyses[m].subject>>]]
  /\ UNCHANGED <<editVars, analyses, noteRelations, polled, incidents, unrelated>>

(* The run ends here if no peer scored.                                    *)
DeleteRelations ==
  /\ Has("delete")
  /\ noteRelations' = [noteRelations EXCEPT ![hand.note] = << >>]
  /\ IF DOMAIN hand.scored = {}
     THEN hand' = Empty /\ unrelated' = unrelated \ {hand.note}
     ELSE hand' = [hand EXCEPT !.at = "insert"] /\ UNCHANGED unrelated
  /\ UNCHANGED <<editVars, analyses, polled, incidents>>

InsertNoteRelations ==
  /\ Has("insert")
  /\ noteRelations' = [noteRelations EXCEPT ![hand.note] = hand.scored]
  /\ hand' = Empty
  /\ unrelated' = unrelated \ {hand.note}
  /\ UNCHANGED <<editVars, analyses, polled, incidents>>

(* The relations of the note in hand are given up once its analysis is in. *)
GivenUp == IF hand.at \in {"peers", "delete", "insert"} THEN unrelated \cup {hand.note} ELSE unrelated

(* A query or a closure fails: a warning, and the next note follows.       *)
AnalysisFails ==
  /\ hand # Empty /\ WriterReady /\ Incident
  /\ hand' = Empty
  /\ unrelated' = GivenUp
  /\ UNCHANGED <<editVars, analyses, noteRelations, polled>>

(* The process ends and starts again with its tables.                      *)
RestartRunner ==
  /\ Incident
  /\ committing' = None /\ polled' = << >> /\ hand' = Empty
  /\ unrelated' = GivenUp
  /\ UNCHANGED <<headSeq, content, place, gone, recency, analyses, noteRelations>>
-----------------------------------------------------------------------------
AnalysisRunner ==
  \/ PollNotes \/ TakeRow
  \/ StoreBareAnalysis \/ StoreAnalysis \/ LoadPeers
  \/ DeleteRelations \/ InsertNoteRelations

AnalysisNext ==
  \/ \E n \in Notes :
       \/ \E subject \in Subjects : CommitText(n, subject)
       \/ \E p \in Places : MoveNote(n, p)
       \/ FlipDeleted(n)
  \/ CommitHead \/ CommitCutShort
  \/ AnalysisRunner \/ AnalysisFails \/ RestartRunner

AnalysisSpec == AnalysisInit /\ [][AnalysisNext]_analysisVars

(* The ticker keeps firing and the writer finishes the closure it runs.    *)
AnalysisFairSpec == AnalysisSpec /\ WF_analysisVars(AnalysisRunner) /\ WF_analysisVars(CommitHead)
-----------------------------------------------------------------------------
NoteText == [of : 0..MaxEvents, subject : Subjects \cup {None}]

AnalysisTypeOK ==
  /\ headSeq \in [Notes -> 0..MaxEvents] /\ content \in [Notes -> NoteText]
  /\ place \in [Notes -> Places] /\ gone \subseteq Notes /\ unrelated \subseteq Notes
  /\ recency \in SetToSeqs(Notes)
  /\ committing \in Notes \cup {None}
  /\ \A n \in Notes :
       /\ analyses[n] = NotAnalysed \/ analyses[n] \in
            [seq : 0..MaxEvents, of : 0..MaxEvents, subject : Subjects \cup {None}, place : Places]
       /\ DOMAIN noteRelations[n] \subseteq Notes \ {n}
       /\ \A m \in DOMAIN noteRelations[n] : noteRelations[n][m] \in Kin
  /\ incidents \in 0..MaxIncidents

(* An edit is never hidden from the poll: the text that was analysed is at *)
(* least as new as the head the analysis claims, however poll, read and    *)
(* append interleave.                                                      *)
AnalysisIsCurrent ==
  \A n \in Notes : analyses[n].seq <= analyses[n].of /\ analyses[n].seq <= headSeq[n]

(* The relation of m to the subject that n and m were analysed with.       *)
Relates(n, m) ==
  m \in DOMAIN noteRelations[n] /\ noteRelations[n][m] = <<analyses[n].subject, analyses[m].subject>>

(* Two notes that see each other and whose analyses score have a relation  *)
(* in one direction at least: the one analysed last finds the other.       *)
(* Unless its run is on or was given up half-way.                          *)
NoRelationIsMissed ==
  \A n, m \in Notes \ (unrelated \cup {hand.note}) :
    /\ n # m /\ NotAnalysed \notin {analyses[n], analyses[m]}
    /\ Sees(analyses[n].place, analyses[m].place) /\ Sees(analyses[m].place, analyses[n].place)
    /\ <<analyses[n].subject, analyses[m].subject>> \in Kin
    => Relates(n, m) \/ Relates(m, n)

(* Every edit is analysed in the end, also one made while its note is in   *)
(* hand, and however many notes are ahead of it in the poll.               *)
EveryEditIsAnalysed == \A n \in Notes : []<>(~ Behind(n))
=============================================================================
