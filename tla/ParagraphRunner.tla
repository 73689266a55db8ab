-------------------------- MODULE ParagraphRunner --------------------------
(***************************************************************************)
(* The paragraph queue of the SQLite provider: the column                  *)
(* notes.paragraph_head_seq, the tables note_paragraphs and                *)
(* paragraph_relations, and the one background goroutine that polls the    *)
(* notes whose column is behind head_seq.                                  *)
(*                                                                         *)
(* The goroutine reads the database directly, also while the writer is     *)
(* between two statements of AppendEvent, and sends each of its writes as  *)
(* a closure of its own; an edit, a deletion or a rebuild of the whole     *)
(* graph may come between any two of them.                                 *)
(*                                                                         *)
(* The text of a note is the number of the event it reflects; blank[n]     *)
(* holds the versions in which SplitParagraphs finds no paragraph.         *)
(***************************************************************************)
EXTENDS NoteIds, Integers, Sequences, FiniteSets

CONSTANTS
  BatchLimit,   \* LIMIT of the poll
  MaxSeq,       \* bound: events per note
  MaxResets,    \* bound: rebuilds of the graph
  MaxParagraphFaults   \* bound: crashes and failing statements

ASSUME ParagraphNameAssumption ==
  /\ IsFiniteSet(Notes)
  /\ None \notin Notes \cup Nat \cup [run : Nat, of : Nat, whole : BOOLEAN]

ASSUME ParagraphBoundAssumption ==
  /\ BatchLimit \in Nat \ {0}
  /\ MaxSeq \in Nat
  /\ MaxResets \in Nat
  /\ MaxParagraphFaults \in Nat

VARIABLES
  head,        \* notes.head_seq
  written,     \* the version of the text in note_content
  blank,       \* the versions without a paragraph
  deleted,     \* notes.deleted
  appending,   \* the note whose append has stored its text and not its head
  paraHead,    \* notes.paragraph_head_seq
  paragraphs,  \* note_paragraphs of a note: the run that wrote them and the text
  relations,   \* paragraph_relations of a note: the run whose ids they hold
  batch,       \* runner: the rows of the poll not taken yet
  work,        \* runner: the note in hand
  runs,        \* runner: identifiers drawn so far
  resets, faults,
  hollow       \* observation: notes a rebuild emptied after their rows were
               \* written and before their run ended

noteVars == <<head, written, blank, deleted, appending>>
graphVars == <<paraHead, paragraphs, relations>>
runnerVars == <<batch, work, runs>>
paragraphVars == <<noteVars, graphVars, runnerVars, resets, faults, hollow>>

Seqs == 0..MaxSeq

Idle == [at |-> "idle", note |-> None, head |-> 0, of |-> 0]

ParagraphTypeOK ==
  /\ head \in [Notes -> Seqs]
  /\ written \in [Notes -> Seqs]
  /\ blank \in [Notes -> SUBSET Seqs]
  /\ deleted \in [Notes -> BOOLEAN]
  /\ appending \in Notes \cup {None}
  /\ paraHead \in [Notes -> Seqs \cup {-1}]
  /\ paragraphs \in [Notes -> [run : Nat, of : Seqs, whole : BOOLEAN] \cup {None}]
  /\ relations \in [Notes -> Nat \cup {None}]
  /\ batch \in Seq([note : Notes, head : Seqs])
  /\ work \in [at : {"idle", "delete", "insert", "relate", "mark"},
               note : Notes \cup {None}, head : Seqs, of : Seqs]
  /\ runs \in Nat
  /\ resets \in 0..MaxResets
  /\ faults \in 0..MaxParagraphFaults
  /\ hollow \in SUBSET Notes

(* Notes as New finds them: empty, and never processed (the default -1).   *)
ParagraphInit ==
  /\ head = [n \in Notes |-> 0]
  /\ written = [n \in Notes |-> 0]
  /\ blank = [n \in Notes |-> {0}]
  /\ deleted \in [Notes -> BOOLEAN]
  /\ appending = None
  /\ paraHead = [n \in Notes |-> -1]
  /\ paragraphs = [n \in Notes |-> None]
  /\ relations = [n \in Notes |-> None]
  /\ batch = << >>
  /\ work = Idle
  /\ runs = 0
  /\ resets = 0
  /\ faults = 0
  /\ hollow = {}

NoAppendRuns == appending = None

Fault == faults < MaxParagraphFaults /\ faults' = faults + 1

-----------------------------------------------------------------------------
(* Requests served by the writer goroutine.                                *)

(* AppendEvent, up to the statement that stores the new text.  After an    *)
(* append that was cut short the next one fails on the events table.       *)
StoreContent(n) ==
  /\ NoAppendRuns
  /\ head[n] < MaxSeq
  /\ written[n] = head[n]
  /\ written' = [written EXCEPT ![n] = head[n] + 1]
  /\ \/ blank' = [blank EXCEPT ![n] = @ \cup {head[n] + 1}]
     \/ UNCHANGED blank
  /\ appending' = n
  /\ UNCHANGED <<head, deleted, graphVars, runnerVars, resets, faults, hollow>>

(* AppendEvent, UPDATE notes SET head_seq.                                 *)
StoreHead ==
  /\ appending # None
  /\ head' = [head EXCEPT ![appending] = @ + 1]
  /\ appending' = None
  /\ UNCHANGED <<written, blank, deleted, graphVars, runnerVars, resets, faults, hollow>>

(* That statement fails: the text stays ahead of the head.                 *)
AppendFails ==
  /\ appending # None
  /\ Fault
  /\ appending' = None
  /\ UNCHANGED <<head, written, blank, deleted, graphVars, runnerVars, resets, hollow>>

(* Update and Delete.                                                      *)
SetDeleted(n) ==
  /\ NoAppendRuns
  /\ deleted' = [deleted EXCEPT ![n] = ~ @]
  /\ UNCHANGED <<head, written, blank, appending, graphVars, runnerVars, resets, faults, hollow>>

(* ResetGraph: three statements, of which the last ones do not happen when *)
(* one fails.                                                              *)
ResetGraph(done) ==
  /\ NoAppendRuns
  /\ resets < MaxResets
  /\ resets' = resets + 1
  /\ IF done = 3 THEN UNCHANGED faults ELSE Fault
  /\ relations' = IF done >= 1 THEN [n \in Notes |-> None] ELSE relations
  /\ paragraphs' = IF done >= 2 THEN [n \in Notes |-> None] ELSE paragraphs
  /\ paraHead' = IF done = 3 THEN [n \in Notes |-> -1] ELSE paraHead
  /\ hollow' = IF done >= 2
               THEN hollow \cup {n \in Notes : work.note = n /\ work.at \in {"relate", "mark"}}
                           \cup (IF done = 2 THEN Notes ELSE {})
               ELSE hollow
  /\ UNCHANGED <<noteVars, runnerVars>>

-----------------------------------------------------------------------------
(* The runner goroutine.                                                   *)

Needs(n) == ~ deleted[n] /\ paraHead[n] < head[n]

(* Faulty variant: only notes that never were processed.                   *)
NewNotes == {n \in Notes : ~ deleted[n] /\ paraHead[n] = -1}

Unprocessed == {n \in Notes : Needs(n)}

(* The rows of one poll: at most BatchLimit notes.  Their order, that of   *)
(* updated_at, is whatever the clients' clocks made it.                    *)
Polls ==
  LET size == IF Cardinality(Unprocessed) < BatchLimit
              THEN Cardinality(Unprocessed) ELSE BatchLimit
      Orders == {order \in [1..size -> Unprocessed] :
                   \A j, k \in 1..size : order[j] = order[k] => j = k}
  IN  {[k \in 1..size |-> [note |-> order[k], head |-> head[order[k]]]] : order \in Orders}

(* One tick of the poll.                                                   *)
Poll ==
  /\ work = Idle
  /\ batch = << >>
  /\ Unprocessed # {}
  /\ batch' \in Polls
  /\ UNCHANGED <<noteVars, graphVars, work, runs, resets, faults, hollow>>

(* Read the text of the next note; without a paragraph in it the note is   *)
(* only marked.                                                            *)
TakeNote ==
  /\ work = Idle
  /\ batch # << >>
  /\ LET n == Head(batch).note
     IN  work' = [at |-> IF written[n] \in blank[n] THEN "mark" ELSE "delete",
                  note |-> n, head |-> Head(batch).head, of |-> written[n]]
  /\ batch' = Tail(batch)
  /\ UNCHANGED <<noteVars, graphVars, runs, resets, faults, hollow>>

Does(at) == work.at = at /\ NoAppendRuns

Goes(at) == work' = [work EXCEPT !.at = at]

(* Faulty variant: the relations of the old rows are left.                 *)
DeletesOnlyParagraphs ==
  /\ Does("delete")
  /\ paragraphs' = [paragraphs EXCEPT ![work.note] = None]
  /\ hollow' = hollow \ {work.note}
  /\ Goes("insert")
  /\ UNCHANGED <<noteVars, paraHead, relations, batch, runs, resets, faults>>

DeleteOld ==
  /\ Does("delete")
  /\ relations' = [relations EXCEPT ![work.note] = None]
  /\ paragraphs' = [paragraphs EXCEPT ![work.note] = None]
  /\ hollow' = hollow \ {work.note}
  /\ Goes("insert")
  /\ UNCHANGED <<noteVars, paraHead, batch, runs, resets, faults>>

(* The rows a run with this number writes.                                 *)
Rows(run, whole) == [run |-> run, of |-> work.of, whole |-> whole]

InsertParagraphs ==
  /\ Does("insert")
  /\ runs' = runs + 1
  /\ paragraphs' = [paragraphs EXCEPT ![work.note] = Rows(runs + 1, TRUE)]
  /\ Goes("relate")
  /\ UNCHANGED <<noteVars, paraHead, relations, batch, resets, faults, hollow>>

(* There may be no pair above the minimal score.                           *)
InsertRelations ==
  /\ Does("relate")
  /\ \/ relations' = [relations EXCEPT ![work.note] = runs]
     \/ UNCHANGED relations
  /\ Goes("mark")
  /\ UNCHANGED <<noteVars, paraHead, paragraphs, batch, runs, resets, faults, hollow>>

(* Faulty variant: the head is read again when the note is marked.         *)
MarksCurrentHead ==
  /\ Does("mark")
  /\ paraHead' = [paraHead EXCEPT ![work.note] = head[work.note]]
  /\ work' = Idle
  /\ UNCHANGED <<noteVars, paragraphs, relations, batch, runs, resets, faults, hollow>>

(* The head of the poll, whatever the column and the head are by now.      *)
MarkProcessed ==
  /\ Does("mark")
  /\ paraHead' = [paraHead EXCEPT ![work.note] = work.head]
  /\ work' = Idle
  /\ UNCHANGED <<noteVars, paragraphs, relations, batch, runs, resets, faults, hollow>>

(* A statement of one of the four closures fails; the earlier ones of that *)
(* closure stay, and the runner goes on with the next note.                *)
NoteFails ==
  /\ work # Idle
  /\ NoAppendRuns
  /\ Fault
  /\ \/ UNCHANGED <<paragraphs, relations, runs>>
     \/ /\ work.at = "delete"
        /\ relations' = [relations EXCEPT ![work.note] = None]
        /\ UNCHANGED <<paragraphs, runs>>
     \/ /\ work.at = "insert"
        /\ runs' = runs + 1
        /\ paragraphs' = [paragraphs EXCEPT ![work.note] = Rows(runs + 1, FALSE)]
        /\ UNCHANGED relations
     \/ /\ work.at = "relate"
        /\ relations' = [relations EXCEPT ![work.note] = runs]
        /\ UNCHANGED <<paragraphs, runs>>
  /\ work' = Idle
  /\ UNCHANGED <<noteVars, paraHead, batch, resets, hollow>>

(* The process dies and is started again: New starts a fresh runner.       *)
RestartParagraphs ==
  /\ Fault
  /\ appending' = None
  /\ batch' = << >>
  /\ work' = Idle
  /\ UNCHANGED <<head, written, blank, deleted, graphVars, runs, resets, hollow>>

-----------------------------------------------------------------------------
Request ==
  \/ \E n \in Notes : StoreContent(n) \/ SetDeleted(n)
  \/ StoreHead \/ AppendFails
  \/ \E done \in 0..3 : ResetGraph(done)

Runner ==
  \/ Poll \/ TakeNote
  \/ DeleteOld \/ InsertParagraphs \/ InsertRelations \/ MarkProcessed

ParagraphNext == Request \/ Runner \/ NoteFails \/ RestartParagraphs

ParagraphSpec == ParagraphInit /\ [][ParagraphNext]_paragraphVars

(* The ticker keeps firing and the writer finishes the closure it runs.    *)
ParagraphFairSpec == ParagraphSpec /\ WF_paragraphVars(Runner) /\ WF_paragraphVars(StoreHead)

-----------------------------------------------------------------------------
(* Properties.                                                             *)

(* The rows of n are a complete set for version v.                         *)
Shows(n, v) == paragraphs[n] # None /\ paragraphs[n].whole /\ paragraphs[n].of = v

(* NOTX_PARAGRAPH_HEURISTIC.md:752-755: a note that is not in the queue    *)
(* has no change the column does not reveal.  Its rows are those of the    *)
(* version at its head, or of the text already stored after it, unless     *)
(* that text has no paragraph; edits during the run, failed statements and *)
(* restarts never break it.  A rebuild that overtakes a run does, which is *)
(* what RebuildRequeuesEveryNote is about.                                 *)
UpToDate(n) ==
  paraHead[n] = head[n] =>
    \E v \in head[n]..written[n] : v \in blank[n] \/ Shows(n, v)

QueueRevealsChanges == \A n \in Notes : n \notin hollow => UpToDate(n)

(* No note is processed "in the future", whatever edits ran meanwhile.     *)
NeverInTheFuture == \A n \in Notes : paraHead[n] <= head[n]

(* MarkProcessed overwrites the column without looking at it; it still     *)
(* only moves forward, except in a rebuild.                                *)
ClaimsOnlyAdvance ==
  [][resets' = resets => \A n \in Notes : paraHead'[n] >= paraHead[n]]_paragraphVars

(* A relation names paragraphs that are stored: deletion and insertion are *)
(* separate closures, yet none of their orders leaves one dangling.        *)
RelationsResolve ==
  \A n \in Notes : relations[n] # None /\ n \notin hollow =>
    paragraphs[n] # None /\ paragraphs[n].run = relations[n]

(* Every change is processed in the end, also one made during a run, cut   *)
(* short by a failure, or asked for again by a rebuild.                    *)
EveryChangeIsProcessed ==
  \A n \in Notes : Needs(n) ~> (~ Needs(n))

(* NOTX_PARAGRAPH_HEURISTIC.md:480: after a rebuild every note is marked   *)
(* as needing processing, so no processed note is without its rows.        *)
RebuildRequeuesEveryNote == faults = 0 => \A n \in Notes : UpToDate(n)
=============================================================================
