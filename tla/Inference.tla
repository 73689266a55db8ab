----------------------------- MODULE Inference -----------------------------
(***************************************************************************)
(* The metadata inference runner of the SQLite provider.  An append to a   *)
(* note without a title or a project offers the note to a bounded channel. *)
(* The one goroutine behind it reads the note, three conditions, the text  *)
(* and the bursts, each by a query of its own beside the writer, and       *)
(* stores a suggestion that a reviewer accepts or rejects.                 *)
(*                                                                         *)
(* A text is its topic, which decides the tokens of its burst and the      *)
(* title that InferTitle finds.  A note is one window of lines, so that    *)
(* each burst replaces the one before; bursts match if their topic is the  *)
(* same.  Suggestions are numbered as they are created.                    *)
(***************************************************************************)
EXTENDS NoteIds, Integers, Sequences, FiniteSets, SequencesExt

CONSTANTS
  Topics, Projects, Titles,
  TitleOf,             \* the title InferTitle finds for a topic, or None
  InferenceCap,        \* capacity of inferenceCh
  MaxRerunsPerDay,
  MinMatches,          \* ProjectMinCandidates
  MaxEdits, MaxDays, MaxUpsets   \* bounds

ASSUME InferenceAssumption ==
  /\ None \notin Notes \cup Topics \cup Projects \cup Titles
  /\ TitleOf \in [Topics -> Titles \cup {None}]
  /\ InferenceCap \in Nat /\ MaxRerunsPerDay \in Nat /\ MinMatches \in Nat \ {0}
  /\ MaxEdits \in Nat /\ MaxDays \in Nat \ {0} /\ MaxUpsets \in Nat

VARIABLES
  title, project,  \* columns of notes
  topic,           \* note_content
  burst,           \* context_bursts of a note: topic and project, or None
  inferences,      \* note_context_inferences, by creation
  inferenceCh,     \* the runner's channel
  inFlight,        \* the runner's map
  inferring,       \* what the runner has in hand
  today,
  edits, upsets,
  forgone          \* observation: notes whose turn an error or a restart took

headerVars == <<title, project>>
inferVars == <<title, project, topic, burst, inferences, inferenceCh, inFlight,
               inferring, today, edits, upsets, forgone>>

NotInferring == [at |-> "receive", note |-> None]

(* Tokens of the latest burst of note n.                                   *)
TokensOf(n) == IF burst[n] = None THEN None ELSE burst[n].topic

Of(n) == {i \in DOMAIN inferences : inferences[i].note = n}
Pending(n) == {i \in Of(n) : inferences[i].status = "pending"}
Rejected(n) == {i \in Of(n) : inferences[i].status = "rejected"}
CreatedToday(n) == {i \in Of(n) : inferences[i].day = today}

(* The tokens of the latest rejection of n, none if it recorded none.      *)
RejectedTokens(n) ==
  {inferences[i].hash : i \in {i \in Rejected(n) : \A j \in Rejected(n) : j <= i}} \ {None}

-----------------------------------------------------------------------------
InferenceInit ==
  /\ title = [n \in Notes |-> None] /\ project = [n \in Notes |-> None]
  /\ topic = [n \in Notes |-> None]
  /\ burst = [n \in Notes |-> None]
  /\ inferences = << >>
  /\ inferenceCh = << >> /\ inFlight = {} /\ inferring = NotInferring
  /\ today = 1 /\ edits = 0 /\ upsets = 0
  /\ forgone = {}

Edit == edits < MaxEdits /\ edits' = edits + 1

(* AppendEvent with extractBurstsForEvent.  A blank text has no burst, and *)
(* the function returns before it offers the note.  A full channel drops.  *)
Write(n, w) ==
  /\ Edit
  /\ topic' = [topic EXCEPT ![n] = w]
  /\ burst' = [burst EXCEPT ![n] = IF w = None THEN None ELSE [topic |-> w, project |-> project[n]]]
  /\ inferenceCh' = IF /\ w # None
                       /\ title[n] = None \/ project[n] = None
                       /\ Len(inferenceCh) < InferenceCap
                    THEN Append(inferenceCh, n) ELSE inferenceCh
  /\ UNCHANGED <<headerVars, inferences, inFlight, inferring, today, upsets, forgone>>

(* Update of one field of the header.                                      *)
SetTitle(n, v) ==
  /\ Edit /\ title' = [title EXCEPT ![n] = v]
  /\ UNCHANGED <<project, topic, burst, inferences, inferenceCh, inFlight, inferring, today, upsets, forgone>>

SetProject(n, v) ==
  /\ Edit /\ project' = [project EXCEPT ![n] = v]
  /\ UNCHANGED <<title, topic, burst, inferences, inferenceCh, inFlight, inferring, today, upsets, forgone>>

(* IndexNoteIntoProject, which follows a move: bursts without a project.   *)
StampBursts(n) ==
  /\ project[n] # None /\ burst[n] # None /\ burst[n].project = None
  /\ burst' = [burst EXCEPT ![n].project = project[n]]
  /\ UNCHANGED <<headerVars, topic, inferences, inferenceCh, inFlight, inferring, today, edits, upsets, forgone>>

NextDay ==
  /\ today < MaxDays /\ today' = today + 1
  /\ UNCHANGED <<headerVars, topic, burst, inferences, inferenceCh, inFlight, inferring, edits, upsets, forgone>>

-----------------------------------------------------------------------------
(* runInferenceRunner and runInferenceForNote.                             *)
Infers(at) == inferring.at = at

(* The channel and the note that the runner has in hand are all it changes.*)
RunnerReads ==
  UNCHANGED <<headerVars, topic, burst, inferences, inferenceCh, today, edits, upsets, forgone>>

Continue(at) == inferring' = [inferring EXCEPT !.at = at] /\ UNCHANGED inFlight

(* Faulty variant: the note stays in the map.                              *)
StopsMarked == inferring' = NotInferring /\ UNCHANGED inFlight

(* Done with the note, with or without a suggestion.                       *)
Stop == inferring' = NotInferring /\ inFlight' = inFlight \ {inferring.note}

ReceiveNote ==
  /\ Infers("receive") /\ inferenceCh # << >>
  /\ inferenceCh' = Tail(inferenceCh)
  /\ IF Head(inferenceCh) \in inFlight
     THEN UNCHANGED <<inferring, inFlight>>
     ELSE /\ inferring' = [at |-> "note", note |-> Head(inferenceCh)]
          /\ inFlight' = inFlight \cup {Head(inferenceCh)}
  /\ UNCHANGED <<headerVars, topic, burst, inferences, today, edits, upsets, forgone>>

ReadNote ==
  LET n == inferring.note
  IN  /\ Infers("note")
      /\ IF title[n] # None /\ project[n] # None
         THEN Stop
         ELSE /\ inferring' = [at |-> "cap", note |-> n,
                               needsTitle |-> title[n] = None, needsProject |-> project[n] = None]
              /\ UNCHANGED inFlight
      /\ RunnerReads

(* Faulty variant: the cap is passed by one.                               *)
PassesTheCap ==
  /\ Infers("cap")
  /\ IF Cardinality(CreatedToday(inferring.note)) > MaxRerunsPerDay THEN Stop ELSE Continue("pending")
  /\ RunnerReads

CheckCap ==
  /\ Infers("cap")
  /\ IF Cardinality(CreatedToday(inferring.note)) >= MaxRerunsPerDay THEN Stop ELSE Continue("pending")
  /\ RunnerReads

CheckPending ==
  /\ Infers("pending")
  /\ IF Pending(inferring.note) # {} THEN Stop ELSE Continue("rejection")
  /\ RunnerReads

(* Faulty variant: the first rejection, not the last.                      *)
FirstRejectedTokens(n) ==
  {inferences[i].hash : i \in {i \in Rejected(n) : \A j \in Rejected(n) : i <= j}} \ {None}

(* ORDER BY created_at DESC LIMIT 1.                                       *)
RejectedHash(n) == RejectedTokens(n)

(* shouldSkipDueToRejection.  The tokens it compares are kept along as an  *)
(* observation.                                                            *)
CheckRejection ==
  LET n == inferring.note
  IN  /\ Infers("rejection")
      /\ IF TokensOf(n) \in RejectedHash(n)
         THEN Stop
         ELSE /\ inferring' = [at |-> "title", note |-> n, compared |-> TokensOf(n),
                               needsTitle |-> inferring.needsTitle, needsProject |-> inferring.needsProject]
              /\ UNCHANGED inFlight
      /\ RunnerReads

FoundTitle(n) == IF topic[n] = None THEN None ELSE TitleOf[topic[n]]

ReadTitle ==
  LET n == inferring.note
  IN  /\ Infers("title")
      /\ inferring' = [at |-> "project", note |-> n, compared |-> inferring.compared,
                       needsProject |-> inferring.needsProject,
                       title |-> IF inferring.needsTitle THEN FoundTitle(n) ELSE None]
      /\ UNCHANGED inFlight
      /\ RunnerReads

(* The notes with a burst of project p like the burst of n.                *)
Matches(n, p) ==
  {m \in Notes \ {n} : burst[m] # None /\ burst[m].project = p /\ burst[m].topic = TokensOf(n)}

(* inferProjectFromDB: the project with most matches, of equal ones any.   *)
FoundProjects(n) ==
  LET matched == {p \in Projects : burst[n] # None /\ Matches(n, p) # {}}
      best == {p \in matched : \A q \in matched : Cardinality(Matches(n, p)) >= Cardinality(Matches(n, q))}
      enough == {p \in best : Cardinality(Matches(n, p)) >= MinMatches}
  IN  IF enough = {} THEN {None} ELSE enough

ReadProject ==
  LET n == inferring.note
  IN  /\ Infers("project")
      /\ \E p \in IF inferring.needsProject THEN FoundProjects(n) ELSE {None} :
           IF inferring.title = None /\ p = None
           THEN Stop
           ELSE /\ inferring' = [at |-> "store", note |-> n, compared |-> inferring.compared,
                                 title |-> inferring.title, project |-> p]
                /\ UNCHANGED inFlight
      /\ RunnerReads

(* The index idx_inferences_note_pending refuses a second pending row.     *)
StoreInference ==
  LET n == inferring.note
  IN  /\ Infers("store")
      /\ inferences' = IF Pending(n) # {} THEN inferences ELSE
           Append(inferences, [note |-> n, title |-> inferring.title, project |-> inferring.project,
                               status |-> "pending", hash |-> None, day |-> today,
                               compared |-> inferring.compared])
      /\ Stop
      /\ UNCHANGED <<headerVars, topic, burst, inferenceCh, today, edits, upsets, forgone>>

Upset == upsets < MaxUpsets /\ upsets' = upsets + 1

(* A query or the insertion fails: a warning, and the note is dropped.     *)
InferenceFails ==
  /\ ~ Infers("receive") /\ Upset
  /\ Stop
  /\ forgone' = forgone \cup {inferring.note}
  /\ UNCHANGED <<headerVars, topic, burst, inferences, inferenceCh, today, edits>>

(* The process ends and starts again: the channel was only in memory.      *)
RestartEngine ==
  /\ Upset
  /\ inferenceCh' = << >> /\ inFlight' = {} /\ inferring' = NotInferring
  /\ forgone' = forgone \cup ToSet(inferenceCh) \cup ({inferring.note} \ {None})
  /\ UNCHANGED <<headerVars, topic, burst, inferences, today, edits>>

-----------------------------------------------------------------------------
(* The review.  A decided suggestion answers ErrNotFound and changes       *)
(* nothing.                                                                *)

(* What the accepted fields do to note and bursts.                         *)
Apply(n, v, p) ==
  /\ title' = IF v = None THEN title ELSE [title EXCEPT ![n] = v]
  /\ project' = IF p = None THEN project ELSE [project EXCEPT ![n] = p]
  /\ burst' = IF p # None /\ burst[n] # None /\ burst[n].project = None
              THEN [burst EXCEPT ![n].project = p] ELSE burst

AcceptInference(i, acceptTitle, acceptProject) ==
  /\ inferences[i].status = "pending"
  /\ acceptTitle \/ acceptProject
  /\ Apply(inferences[i].note, IF acceptTitle THEN inferences[i].title ELSE None,
           IF acceptProject THEN inferences[i].project ELSE None)
  /\ inferences' = [inferences EXCEPT ![i].status = "accepted"]
  /\ UNCHANGED <<topic, inferenceCh, inFlight, inferring, today, edits, upsets, forgone>>

(* One of its statements fails: the title may be stored already, and the   *)
(* project after it, but the suggestion stays pending.                     *)
AcceptFails(i, acceptProject) ==
  /\ inferences[i].status = "pending" /\ Upset
  /\ Apply(inferences[i].note, inferences[i].title, IF acceptProject THEN inferences[i].project ELSE None)
  /\ UNCHANGED <<topic, inferences, inferenceCh, inFlight, inferring, today, edits, forgone>>

(* The tokens recorded are those of the burst at the time of the review.   *)
RejectInference(i) ==
  /\ inferences[i].status = "pending"
  /\ inferences' = [inferences EXCEPT ![i].status = "rejected", ![i].hash = TokensOf(inferences[i].note)]
  /\ UNCHANGED <<headerVars, topic, burst, inferenceCh, inFlight, inferring, today, edits, upsets, forgone>>

InferenceRunner ==
  \/ ReceiveNote \/ ReadNote \/ CheckCap \/ CheckPending \/ CheckRejection
  \/ ReadTitle \/ ReadProject \/ StoreInference

InferenceNext ==
  \/ \E n \in Notes :
       \/ \E w \in Topics \cup {None} : Write(n, w)
       \/ \E v \in Titles \cup {None} : SetTitle(n, v)
       \/ \E p \in Projects \cup {None} : SetProject(n, p)
       \/ StampBursts(n)
  \/ NextDay
  \/ InferenceRunner \/ InferenceFails \/ RestartEngine
  \/ \E i \in DOMAIN inferences :
       \/ \E acceptTitle, acceptProject \in BOOLEAN : AcceptInference(i, acceptTitle, acceptProject)
       \/ \E acceptProject \in BOOLEAN : AcceptFails(i, acceptProject)
       \/ RejectInference(i)

InferenceSpec == InferenceInit /\ [][InferenceNext]_inferVars

(* The runner is one goroutine that is scheduled.                          *)
InferenceFairSpec == InferenceSpec /\ WF_inferVars(InferenceRunner)
-----------------------------------------------------------------------------
InferenceTypeOK ==
  /\ title \in [Notes -> Titles \cup {None}] /\ project \in [Notes -> Projects \cup {None}]
  /\ topic \in [Notes -> Topics \cup {None}]
  /\ burst \in [Notes -> [topic : Topics, project : Projects \cup {None}] \cup {None}]
  /\ \A i \in DOMAIN inferences :
       inferences[i] \in [note : Notes, title : Titles \cup {None}, project : Projects \cup {None},
                          status : {"pending", "accepted", "rejected"}, hash : Topics \cup {None},
                          day : 1..today, compared : Topics \cup {None}]
  /\ inferenceCh \in Seq(Notes) /\ Len(inferenceCh) <= InferenceCap
  /\ inFlight = {inferring.note} \ {None}
  /\ today \in 1..MaxDays /\ edits \in 0..MaxEdits /\ upsets \in 0..MaxUpsets
  /\ forgone \subseteq Notes

(* However often a note is offered, and whatever is decided between the    *)
(* checks of the runner and its insertion, a reviewer finds one pending    *)
(* suggestion of a note at most, and no more than the cap allows of a day. *)
SuggestionsAreLimited ==
  \A n \in Notes :
    /\ Cardinality(Pending(n)) <= 1
    /\ \A d \in 1..today : Cardinality({i \in Of(n) : inferences[i].day = d}) <= MaxRerunsPerDay

(* What a reviewer rejected does not come back for the text it was         *)
(* rejected on: the tokens that the runner compared for a pending          *)
(* suggestion are not those of the latest rejection of its note.           *)
RejectedTextIsLeftAlone ==
  \A n \in Notes : \A i \in Pending(n) :
    inferences[i].compared \notin RejectedTokens(n)

(* The text of n has a title for a note without one, and neither the cap,  *)
(* a suggestion nor a rejection stands against it.                         *)
LacksTitle(n) ==
  /\ title[n] = None /\ FoundTitle(n) # None
  /\ Cardinality(CreatedToday(n)) < MaxRerunsPerDay
  /\ Pending(n) = {}
  /\ TokensOf(n) \notin RejectedTokens(n)

(* A note in the channel gets its suggestion, unless the reasons for one   *)
(* end, an error or a restart takes its turn.                              *)
MissingTitleIsSuggested ==
  \A n \in Notes :
    n \in ToSet(inferenceCh) /\ LacksTitle(n) ~> ~ LacksTitle(n) \/ n \in forgone
=============================================================================
