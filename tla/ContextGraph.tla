---------------------------- MODULE ContextGraph ----------------------------
(***************************************************************************)
(* The context graph of the SQLite provider: bursts cut from the text      *)
(* around each edit, candidate relations between similar bursts of two     *)
(* notes of a project, and their review.  What happens to the ids of new   *)
(* candidates is in module CandidateScorer.                                *)
(*                                                                         *)
(* The writer goroutine runs one closure at a time, statement by           *)
(* statement without a transaction (job).  Burst ids ascend with creation. *)
(* A candidate is named by its pair of bursts, as pair_key is unique.  Two *)
(* texts are similar when they have the same topic.  The lookback of 100   *)
(* bursts and 30 days lies beyond MaxBursts.  Of the text only the windows *)
(* are kept: an event may find it at any length.                           *)
(***************************************************************************)
EXTENDS Bursts, FiniteSetsExt, TLC

CONSTANTS
  WindowLines,  \* context lines around each changed line
  ChunkSize,    \* lines of a window above which it is split
  GraphNotes, Projects,
  NoProject,    \* the empty project_urn
  Topics,       \* what the similarity of two bursts is decided by
  Lines,        \* bound: lines of a note; events name two lines more
  MaxBursts, MaxRequests, MaxFailures   \* bounds

ASSUME GraphNameAssumption == NoProject \notin Projects

ASSUME GraphBoundAssumption ==
  /\ WindowLines \in Nat /\ ChunkSize \in Nat \ {0}
  /\ Lines \in Nat /\ MaxBursts \in Nat /\ MaxRequests \in Nat /\ MaxFailures \in Nat

VARIABLES
  project, deleted,  \* columns of table notes
  before,            \* the project a note had before its last update
  bursts,            \* context_bursts, by id
  drawn,             \* burst ids drawn so far
  cands,             \* candidate_relations, by pair
  links,             \* how often anchors and backlinks were stored for a pair
  tasks,             \* IndexNoteIntoProject goroutines that wait for the writer
  job,               \* the closure the writer runs
  requests, failures,  \* requests other than appends, failures
  lost,              \* observation: a closure or goroutine was cut short
  swept,             \* observation: bursts a sweep removed
  hidden             \* observation: notes that were deleted at some time

noteVars == <<project, deleted, before>>
rowVars == <<bursts, drawn, cands, links>>
faultVars == <<failures, lost>>
graphVars == <<noteVars, rowVars, tasks, job, requests, faultVars, swept, hidden>>

Ids == 1..MaxBursts
Pairs == {pair \in SUBSET Ids : Cardinality(pair) = 2}
Stamps == Projects \cup {NoProject}
Window == [start : 1..(Lines + 2), end : 0..Lines]

Burst == [note : GraphNotes, project : Stamps, at : Window, topic : Topics, created : 0..MaxBursts]
Candidate == [notes : SUBSET GraphNotes, status : {"pending", "promoted", "dismissed"}]

(* What each closure holds between its statements.                         *)
Job ==
  [at : {"free"}]
    \cup [at : {"purge", "purgePairs"}, note : GraphNotes, gone : SUBSET Ids, panics : BOOLEAN,
          todo : SUBSET [at : Window, topic : Topics]]
    \cup [at : {"extract", "store", "pair"}, note : GraphNotes, panics : BOOLEAN,
          todo : SUBSET [at : Window, topic : Topics], since : 0..MaxBursts]
    \cup [at : {"match"}, note : GraphNotes, project : Projects]
    \cup [at : {"unburst", "unpair"}, note : GraphNotes]
    \cup [at : {"mark"}, pair : Pairs]

GraphTypeOK ==
  /\ project \in [GraphNotes -> Stamps] /\ before \in [GraphNotes -> Stamps]
  /\ deleted \in [GraphNotes -> BOOLEAN]
  /\ drawn \in 0..MaxBursts
  /\ DOMAIN bursts \subseteq 1..drawn /\ \A b \in DOMAIN bursts : bursts[b] \in Burst
  /\ DOMAIN cands \subseteq Pairs /\ \A pair \in DOMAIN cands : cands[pair] \in Candidate
  /\ links \in [Pairs -> 0..MaxRequests]
  /\ tasks \subseteq GraphNotes \X Projects
  /\ job \in Job
  /\ requests \in 0..MaxRequests /\ failures \in 0..MaxFailures /\ lost \in BOOLEAN
  /\ swept \subseteq Ids /\ hidden \subseteq GraphNotes

FreeJob == [at |-> "free"]

GraphInit ==
  /\ project \in [GraphNotes -> Stamps] /\ before = project
  /\ deleted = [n \in GraphNotes |-> FALSE]
  /\ bursts = << >> /\ drawn = 0
  /\ cands = << >> /\ links = [pair \in Pairs |-> 0]
  /\ tasks = {} /\ job = FreeJob
  /\ requests = 0 /\ failures = 0 /\ lost = FALSE
  /\ swept = {} /\ hidden = {}

-----------------------------------------------------------------------------
(* One statement: it succeeds or, as a fault, fails.                       *)
Statement(ok) ==
  IF ok THEN UNCHANGED faultVars
  ELSE failures < MaxFailures /\ failures' = failures + 1 /\ lost' = TRUE

Request == job = FreeJob /\ requests < MaxRequests /\ requests' = requests + 1

With(table, rows) ==
  [k \in DOMAIN table \cup DOMAIN rows |-> IF k \in DOMAIN table THEN table[k] ELSE rows[k]]
Without(table, keys) == [k \in DOMAIN table \ keys |-> table[k]]
WithStatus(pair, status) == [cands EXCEPT ![pair].status = status]

BurstsOf(n) == {b \in DOMAIN bursts : bursts[b].note = n}

(* Faulty variant: only pairs whose older burst is among the ids.          *)
PendingOfFirst(ids) == {pair \in DOMAIN cands : Min(pair) \in ids /\ cands[pair].status = "pending"}

(* Pending candidates that have one of the bursts on either side.          *)
PendingOf(ids) == {pair \in DOMAIN cands : pair \cap ids # {} /\ cands[pair].status = "pending"}

(* Faulty variants: a burst is its own peer; the project is that of the    *)
(* note and not that of the burst.                                         *)
PeersWithOwn(n, p) == {b \in DOMAIN bursts : bursts[b].project = p /\ ~ deleted[bursts[b].note]}
PeersByNote(n, p) == {b \in PeersWithOwn(n, p) : bursts[b].note # n /\ project[bursts[b].note] = p}

(* Recent bursts of other notes that are in the project and not deleted.   *)
Peers(n, p) ==
  {b \in DOMAIN bursts : bursts[b].project = p /\ bursts[b].note # n /\ ~ deleted[bursts[b].note]}

SimilarPairs(own, peers) ==
  {pair \in {{b, c} : b \in own, c \in peers} : \A b, c \in pair : bursts[b].topic = bursts[c].topic}

(* The rows are inserted one by one, and a failed insert is passed over.   *)
InsertCandidates(pairs) ==
  cands' = With(cands, [pair \in pairs |->
                         [notes |-> {bursts[b].note : b \in pair}, status |-> "pending"]])

-----------------------------------------------------------------------------
(* Update writes back what its Get returned; its column project_urn may    *)
(* have changed since (old).  A restored note is not extracted again.      *)
UpdateNote(n, p, old, d) ==
  /\ Request
  /\ old \in {project[n], before[n]}
  /\ project' = [project EXCEPT ![n] = p]
  /\ before' = [before EXCEPT ![n] = project[n]]
  /\ deleted' = [deleted EXCEPT ![n] = d]
  /\ hidden' = IF d THEN hidden \cup {n} ELSE hidden
  /\ tasks' = IF p # NoProject /\ p # old THEN tasks \cup {<<n, p>>} ELSE tasks
  /\ UNCHANGED <<rowVars, job, faultVars, swept>>

(* Events that set some lines of a text of some length and then delete     *)
(* some, the last one first: the lines touched and the length afterwards.  *)
Edits ==
  {LET longest == Max(sets \cup {length})
   IN  [touched |-> sets \cup dels, total |-> longest - Cardinality({d \in dels : d <= longest})] :
     length \in 0..Lines, sets \in SUBSET (1..Lines), dels \in SUBSET (1..Lines + 2)}

(* On to ExtractBursts, which has nothing to do without windows.           *)
Extract(n, panics, todo) ==
  IF todo = {} /\ ~ panics THEN FreeJob
  ELSE [at |-> "extract", note |-> n, panics |-> panics, todo |-> todo, since |-> drawn]

(* AppendEvent up to the query of the overlapping bursts.  Windows without *)
(* enough words, or all windows of an anonymous author, give no burst.     *)
BeginEvent(n) ==
  /\ job = FreeJob
  /\ \E edit \in Edits :
       LET affected == GroupAffectedLines(edit.touched, WindowLines, edit.total)
           windows == Windows(edit.touched, WindowLines, ChunkSize, edit.total)
           panics == \E w \in windows : ~ Sliceable(w, edit.total)
       IN  \E worded \in SUBSET windows, ok \in BOOLEAN : \E topic \in [worded -> Topics] :
             LET todo == {[at |-> w, topic |-> topic[w]] : w \in worded}
                 gone == {b \in BurstsOf(n) : ok /\ \E r \in affected : Overlaps(bursts[b].at, r)}
             IN  /\ panics => worded = {}
                 /\ drawn + Cardinality(worded) <= MaxBursts
                 /\ Statement(ok)
                 /\ job' = IF gone = {} THEN Extract(n, panics, todo)
                           ELSE [at |-> "purge", note |-> n, panics |-> panics,
                                 gone |-> gone, todo |-> todo]
  /\ UNCHANGED <<noteVars, rowVars, tasks, requests, swept, hidden>>

(* DELETE FROM context_bursts.  A failure is only logged.                  *)
PurgeBursts ==
  /\ job.at = "purge"
  /\ \E ok \in BOOLEAN :
       /\ Statement(ok)
       /\ bursts' = IF ok THEN Without(bursts, job.gone) ELSE bursts
  /\ job' = [job EXCEPT !.at = "purgePairs"]
  /\ UNCHANGED <<noteVars, drawn, cands, links, tasks, requests, swept, hidden>>

(* DELETE FROM candidate_relations, pending ones only.                     *)
PurgePairs ==
  /\ job.at = "purgePairs"
  /\ \E ok \in BOOLEAN :
       /\ Statement(ok)
       /\ cands' = IF ok THEN Without(cands, PendingOf(job.gone)) ELSE cands
  /\ job' = Extract(job.note, job.panics, job.todo)
  /\ UNCHANGED <<noteVars, bursts, drawn, links, tasks, requests, swept, hidden>>

First(todo) == CHOOSE w \in todo : \A v \in todo : w.at.start <= v.at.start

(* The event repeats the most recent burst of the note within the skip     *)
(* window.                                                                 *)
SkipEvent ==
  /\ job.at = "extract" /\ ~ job.panics
  /\ \E b \in BurstsOf(job.note) :
       /\ \A c \in BurstsOf(job.note) : bursts[c].created <= bursts[b].created
       /\ bursts[b].topic = First(job.todo).topic
  /\ job' = FreeJob
  /\ UNCHANGED <<noteVars, rowVars, tasks, requests, faultVars, swept, hidden>>

AfterWindow(todo) == IF todo = {} THEN FreeJob ELSE [job EXCEPT !.at = "store", !.todo = todo]

StoreBurst ==
  LET w == First(job.todo)
      rest == job.todo \ {w}
      row == [note |-> job.note, project |-> project[job.note], at |-> w.at, topic |-> w.topic,
              created |-> job.since]
  IN  /\ job.at \in {"extract", "store"} /\ ~ job.panics
      /\ drawn' = drawn + 1
      /\ \E ok \in BOOLEAN :
           /\ Statement(ok)
           /\ bursts' = IF ok THEN With(bursts, [b \in {drawn + 1} |-> row]) ELSE bursts
           /\ job' = IF ok /\ project[job.note] # NoProject
                     THEN [job EXCEPT !.at = "pair", !.todo = rest] ELSE AfterWindow(rest)
      /\ UNCHANGED <<noteVars, cands, links, tasks, requests, swept, hidden>>

(* The candidates of the burst just stored.                                *)
PairBurst ==
  LET found == SimilarPairs({drawn}, Peers(job.note, project[job.note]))
  IN  /\ job.at = "pair"
      /\ \E stored \in SUBSET found :
           /\ Statement(stored = found)
           /\ InsertCandidates(stored)
           /\ job' = AfterWindow(job.todo)
      /\ UNCHANGED <<noteVars, bursts, drawn, links, tasks, requests, swept, hidden>>

-----------------------------------------------------------------------------
(* IndexNoteIntoProject.  A failed stamp ends it.                          *)
Stamp(n, p) ==
  /\ job = FreeJob /\ <<n, p>> \in tasks
  /\ tasks' = tasks \ {<<n, p>>}
  /\ \E ok \in BOOLEAN :
       /\ Statement(ok)
       /\ bursts' = [b \in DOMAIN bursts |->
                       IF ok /\ bursts[b].note = n /\ bursts[b].project = NoProject
                       THEN [bursts[b] EXCEPT !.project = p] ELSE bursts[b]]
       /\ job' = IF ok THEN [at |-> "match", note |-> n, project |-> p] ELSE FreeJob
  /\ UNCHANGED <<noteVars, drawn, cands, links, requests, swept, hidden>>

Reviewed == {pair \in DOMAIN cands : cands[pair].status # "pending"}

(* Every burst of the note with every peer, but for pairs reviewed before. *)
Match ==
  LET found == SimilarPairs(BurstsOf(job.note), Peers(job.note, job.project)) \ Reviewed
  IN  /\ job.at = "match"
      /\ \E stored \in SUBSET found :
           /\ Statement(stored = found)
           /\ InsertCandidates(stored)
      /\ job' = FreeJob
      /\ UNCHANGED <<noteVars, bursts, drawn, links, tasks, requests, swept, hidden>>

-----------------------------------------------------------------------------
(* Provider.Delete: the mark, the bursts, the pending candidates.          *)
DeleteNote(n) ==
  /\ Request
  /\ deleted' = [deleted EXCEPT ![n] = TRUE]
  /\ hidden' = hidden \cup {n}
  /\ job' = [at |-> "unburst", note |-> n]
  /\ UNCHANGED <<project, before, rowVars, tasks, faultVars, swept>>

DeleteBursts ==
  /\ job.at = "unburst"
  /\ \E ok \in BOOLEAN :
       /\ Statement(ok)
       /\ bursts' = IF ok THEN Without(bursts, BurstsOf(job.note)) ELSE bursts
       /\ job' = IF ok THEN [job EXCEPT !.at = "unpair"] ELSE FreeJob
  /\ UNCHANGED <<noteVars, drawn, cands, links, tasks, requests, swept, hidden>>

(* Faulty variant: every candidate of the note.                            *)
AnyOfNote(n) == {pair \in DOMAIN cands : n \in cands[pair].notes}

PendingOfNote(n) == {pair \in DOMAIN cands : n \in cands[pair].notes /\ cands[pair].status = "pending"}

DeletePairs ==
  /\ job.at = "unpair"
  /\ \E ok \in BOOLEAN :
       /\ Statement(ok)
       /\ cands' = IF ok THEN Without(cands, PendingOfNote(job.note)) ELSE cands
  /\ job' = FreeJob
  /\ UNCHANGED <<noteVars, bursts, drawn, links, tasks, requests, swept, hidden>>

(* Faulty variant: the mark follows links that could not be stored.       *)
PromotesAnyway(pair) ==
  /\ Request
  /\ pair \in DOMAIN cands
  /\ \E ok \in BOOLEAN :
       /\ Statement(ok)
       /\ links' = IF ok THEN [links EXCEPT ![pair] = @ + 1] ELSE links
  /\ job' = [at |-> "mark", pair |-> pair]
  /\ UNCHANGED <<noteVars, bursts, drawn, cands, tasks, swept, hidden>>

(* PromoteCandidate up to the backlinks; it does not read the status.      *)
Promote(pair) ==
  /\ Request
  /\ pair \in DOMAIN cands
  /\ \E ok \in BOOLEAN :
       /\ Statement(ok)
       /\ links' = IF ok THEN [links EXCEPT ![pair] = @ + 1] ELSE links
       /\ job' = IF ok THEN [at |-> "mark", pair |-> pair] ELSE FreeJob
  /\ UNCHANGED <<noteVars, bursts, drawn, cands, tasks, swept, hidden>>

MarkPromoted ==
  /\ job.at = "mark"
  /\ \E ok \in BOOLEAN :
       /\ Statement(ok)
       /\ cands' = IF ok THEN WithStatus(job.pair, "promoted") ELSE cands
  /\ job' = FreeJob
  /\ UNCHANGED <<noteVars, bursts, drawn, links, tasks, requests, swept, hidden>>

Dismiss(pair) ==
  /\ Request
  /\ pair \in DOMAIN cands
  /\ cands' = WithStatus(pair, "dismissed")
  /\ UNCHANGED <<noteVars, bursts, drawn, links, tasks, job, faultVars, swept, hidden>>

(* SweepBursts: the oldest bursts, up to some moment.                      *)
Sweep(moment) ==
  LET old == {b \in DOMAIN bursts : bursts[b].created < moment}
  IN  /\ Request
      /\ bursts' = Without(bursts, old)
      /\ swept' = swept \cup old
      /\ UNCHANGED <<noteVars, drawn, cands, links, tasks, job, faultVars, hidden>>

-----------------------------------------------------------------------------
(* The process ends and starts again with its tables.                      *)
GraphRestart ==
  /\ job' = FreeJob /\ tasks' = {}
  /\ lost' = (lost \/ job # FreeJob \/ tasks # {})
  /\ UNCHANGED <<noteVars, rowVars, requests, swept, hidden>>

(* A slice expression out of range in the writer goroutine, which does not *)
(* recover.                                                                *)
ExtractionPanics ==
  /\ job.at = "extract" /\ job.panics
  /\ GraphRestart
  /\ UNCHANGED failures

GraphCrash == failures < MaxFailures /\ failures' = failures + 1 /\ GraphRestart

Closure ==
  \/ PurgeBursts \/ PurgePairs \/ SkipEvent \/ StoreBurst \/ PairBurst
  \/ Match \/ DeleteBursts \/ DeletePairs \/ MarkPromoted \/ ExtractionPanics

GraphNext ==
  \/ \E n \in GraphNotes, p \in Stamps, old \in Stamps, d \in BOOLEAN : UpdateNote(n, p, old, d)
  \/ \E n \in GraphNotes, p \in Projects : Stamp(n, p)
  \/ \E n \in GraphNotes : BeginEvent(n) \/ DeleteNote(n)
  \/ \E pair \in Pairs : Promote(pair) \/ Dismiss(pair)
  \/ \E moment \in 1..MaxBursts : Sweep(moment)
  \/ Closure
  \/ GraphCrash

GraphSpec == GraphInit /\ [][GraphNext]_graphVars

-----------------------------------------------------------------------------
(* A pending candidate has both its bursts, so that a person can read     *)
(* what it is about: unless a sweep took one or a closure was cut short.   *)
PendingPairsResolve ==
  job = FreeJob /\ ~ lost =>
    \A pair \in DOMAIN cands :
      cands[pair].status = "pending" => pair \subseteq DOMAIN bursts \cup swept

(* Whatever the order of edits, moves between projects and indexing, two   *)
(* similar bursts stored for one project have been offered for review.     *)
NoPairIsMissed ==
  job = FreeJob /\ ~ lost =>
    \A b, c \in DOMAIN bursts :
      /\ bursts[b].note # bursts[c].note
      /\ bursts[b].topic = bursts[c].topic
      /\ bursts[b].project = bursts[c].project /\ bursts[b].project # NoProject
      /\ {bursts[b].note, bursts[c].note} \cap hidden = {}
      => {b, c} \in DOMAIN cands

(* Links are stored before the mark: a promoted candidate has them,        *)
(* whatever failed.                                                        *)
PromotedHasLinks ==
  \A pair \in DOMAIN cands : cands[pair].status = "promoted" => links[pair] > 0

(* A reviewed candidate is never deleted nor offered for review again: not *)
(* by an edit of its lines, the deletion of a note or a new indexing.      *)
ReviewIsKept ==
  [][\A pair \in Reviewed : pair \in DOMAIN cands' /\ cands'[pair].status # "pending"]_graphVars

(* Every touched line that is left in the text, and its context, is in a   *)
(* window, for texts of up to six lines.  It is about the functions alone, *)
(* so one moment is enough: before the first burst is stored.              *)
EditsAreCovered ==
  requests = 0 /\ drawn = 0 /\ failures = 0 /\ job.at = "extract" =>
    \A windowLines \in 0..2, chunkSize \in 1..4, total \in 0..6 :
      \A touched \in SUBSET (1..6) : CoversEdits(touched, windowLines, chunkSize, total)

(* "It must never block a write": extraction never ends the process.       *)
ExtractionNeverPanics == [][~ ExtractionPanics]_graphVars

(* A second review of a promoted candidate changes nothing: neither its    *)
(* status nor the links between the notes.                                 *)
PromotedOnce ==
  [][\A pair \in Pairs :
       pair \in DOMAIN cands /\ cands[pair].status = "promoted" =>
         /\ links'[pair] = links[pair]
         /\ pair \in DOMAIN cands' /\ cands'[pair].status = "promoted"]_graphVars
=============================================================================
