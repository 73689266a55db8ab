---------------------------- MODULE SqliteNotes ----------------------------
(***************************************************************************)
(* The note tables of the SQLite provider and the service operations that  *)
(* use them.                                                               *)
(*                                                                         *)
(* Every mutation is a closure sent over the channel writeCh to the one    *)
(* writer goroutine, which runs closures one after the other.  A closure   *)
(* is not a transaction: each SQL statement commits by itself, so a reader *)
(* may run between two statements of AppendEvent and a failed statement or *)
(* a crash leaves the earlier ones in the database.  The service           *)
(* operations Update and ReplaceContent read the note outside the writer   *)
(* and send the mutation they computed from what they read.                *)
(*                                                                         *)
(* Line edits are abstracted to the operators Apply and Diff; the model    *)
(* instance gives them the provider's own algorithms (NoteContent).        *)
(* Bursts, candidates, link synchronisation and search rows, which the     *)
(* same closures also touch, are the subject of other modules.             *)
(***************************************************************************)
EXTENDS Integers, Sequences

CONSTANTS
  Notes,          \* note URNs
  Clients,        \* request goroutines
  Titles,         \* note names
  Contents,       \* content strings
  EmptyContent,   \* the empty content string
  Drafts,         \* the documents ReplaceContent is asked for
  Payloads,       \* entry lists an event may carry
  RawPayloads,    \* the entry lists callers of AppendEvent send
  NoEntries,      \* the empty entry list
  NoEvent,        \* no row at this primary key
  Apply(_, _),    \* applyEntriesToContent(content, entries)
  Diff(_, _),     \* DiffLines(SplitLines(old), SplitLines(new))
  None,           \* no value
  MaxSeq,         \* bound: highest sequence a caller uses
  MaxFaults,      \* bound: crashes and failing statements
  WriteChCap      \* capacity of writeCh

NoteTypes == {"normal", "secure"}

ASSUME ContentAssumption ==
  /\ EmptyContent \in Contents
  /\ Drafts \subseteq Contents
  /\ RawPayloads \subseteq Payloads
  /\ NoEvent \notin Payloads
  /\ NoEntries \notin Payloads
  /\ \A c \in Contents, p \in Payloads : Apply(c, p) \in Contents
  /\ \A c, d \in Contents :
       IF c = d THEN Diff(c, d) = NoEntries
                ELSE Diff(c, d) \in Payloads /\ Apply(c, Diff(c, d)) = d

ASSUME NameAssumption ==
  /\ None \notin Notes \cup Clients \cup Titles \cup Contents
  /\ Titles # {}

ASSUME BoundAssumption ==
  /\ MaxSeq \in Nat \ {0}
  /\ MaxFaults \in Nat
  /\ WriteChCap \in Nat \ {0}

VARIABLES
  notes,        \* table notes: one header row per note
  events,       \* table events: events[n][s] is the row at key (n, s)
  content,      \* table note_content; a missing row reads as the empty string
  pendingSync,  \* table pending_sync
  writeCh,      \* closures waiting for the writer, by the client that sent them
  serving,      \* the client whose closure the writer runs, or None
  step,         \* the next statement of that closure
  call,         \* what each client goroutine is doing
  acks,         \* observation: successful replies per note and sequence
  faults        \* crashes and failed statements so far

vars == <<notes, events, content, pendingSync, writeCh, serving, step, call, acks, faults>>

disk == <<notes, events, content, pendingSync>>

Seqs == 1..MaxSeq

Row == [exists : BOOLEAN, type : NoteTypes, title : Titles \cup {None},
        deleted : BOOLEAN, head : 0..MaxSeq]

AbsentRow == [exists |-> FALSE, type |-> "normal", title |-> None,
              deleted |-> FALSE, head |-> 0]

Ops == {"none", "create", "update", "delete", "append", "replace"}

Call == [op : Ops, at : {"idle", "holding", "waiting"}, note : Notes \cup {None},
         type : NoteTypes, title : Titles \cup {None}, deleted : BOOLEAN,
         keepsDeleted : BOOLEAN, seq : 0..MaxSeq,
         payload : Payloads \cup {NoEvent}, want : Contents \cup {None}]

IdleCall == [op |-> "none", at |-> "idle", note |-> None, type |-> "normal",
             title |-> None, deleted |-> FALSE, keepsDeleted |-> FALSE,
             seq |-> 0, payload |-> NoEvent, want |-> None]

TypeOK ==
  /\ notes \in [Notes -> Row]
  /\ events \in [Notes -> [Seqs -> Payloads \cup {NoEvent}]]
  /\ content \in [Notes -> Contents]
  /\ pendingSync \in SUBSET Notes
  /\ writeCh \in Seq(Clients)
  /\ serving \in Clients \cup {None}
  /\ step \in {"idle", "insert", "content", "head", "sync"}
  /\ call \in [Clients -> Call]
  /\ acks \in [Notes -> [Seqs -> Nat]]
  /\ faults \in 0..MaxFaults

Init ==
  /\ notes = [n \in Notes |-> AbsentRow]
  /\ events = [n \in Notes |-> [s \in Seqs |-> NoEvent]]
  /\ content = [n \in Notes |-> EmptyContent]
  /\ pendingSync = {}
  /\ writeCh = << >>
  /\ serving = None
  /\ step = "idle"
  /\ call = [c \in Clients |-> IdleCall]
  /\ acks = [n \in Notes |-> [s \in Seqs |-> 0]]
  /\ faults = 0

-----------------------------------------------------------------------------
(* Get: what buildNote makes of a row and its content.  A secure note, a   *)
(* note at sequence 0 and a note with no content come back as an empty     *)
(* note, whose HeadSequence is 0.                                          *)
GetHead(n) ==
  IF notes[n].type = "secure" \/ content[n] = EmptyContent
  THEN 0 ELSE notes[n].head

(* buildNote seeds the content only when the row's head is at least 1.     *)
GetContent(n) ==
  IF notes[n].type = "secure" \/ notes[n].head < 1
  THEN EmptyContent ELSE content[n]

-----------------------------------------------------------------------------
(* Client goroutines.  A request whose validation fails returns at once    *)
(* and changes nothing, so only the accepted ones are steps.               *)

Starts(c, request) ==
  /\ call[c].at = "idle"
  /\ call' = [call EXCEPT ![c] = request]
  /\ UNCHANGED <<disk, serving, step, acks, faults>>

(* A write that needs no read first goes straight to the channel.          *)
SendsAtOnce(c, request) ==
  /\ Len(writeCh) < WriteChCap
  /\ writeCh' = Append(writeCh, c)
  /\ Starts(c, [request EXCEPT !.at = "waiting"])

CreateNote(c) ==
  \E n \in Notes, ty \in NoteTypes, ti \in Titles :
    SendsAtOnce(c, [IdleCall EXCEPT !.op = "create", !.note = n, !.type = ty, !.title = ti])

DeleteNote(c) ==
  \E n \in Notes : SendsAtOnce(c, [IdleCall EXCEPT !.op = "delete", !.note = n])

(* AppendEvent as both servers offer it: the caller chooses the sequence.  *)
AppendRaw(c) ==
  \E n \in Notes, s \in Seqs, p \in RawPayloads :
    SendsAtOnce(c, [IdleCall EXCEPT !.op = "append", !.note = n, !.seq = s, !.payload = p])

(* noteService.Update, first half: read the note, overlay the fields the   *)
(* caller named, and keep the read values of the others.                   *)
UpdateGet(c) ==
  \E n \in Notes, ti \in Titles \cup {None}, del \in BOOLEAN \cup {None} :
    /\ notes[n].exists
    /\ Starts(c, [IdleCall EXCEPT !.op = "update", !.at = "holding", !.note = n,
                    !.title = IF ti = None THEN notes[n].title ELSE ti,
                    !.deleted = IF del = None THEN notes[n].deleted ELSE del,
                    !.keepsDeleted = del = None])
    /\ UNCHANGED writeCh

(* noteService.ReplaceContent, first half: read the note, diff its content *)
(* with the wanted one, and expect the sequence after the head it read.    *)
ReplaceGet(c) ==
  \E n \in Notes, w \in Drafts :
    /\ notes[n].exists
    /\ notes[n].type = "normal"
    /\ Diff(GetContent(n), w) # NoEntries
    /\ GetHead(n) < MaxSeq
    /\ Starts(c, [IdleCall EXCEPT !.op = "replace", !.at = "holding", !.note = n,
                    !.seq = GetHead(n) + 1, !.payload = Diff(GetContent(n), w),
                    !.want = w])
    /\ UNCHANGED writeCh

(* Faulty variant: the sequence is taken again just before the send, while *)
(* the payload still is the difference with the content read before.       *)
SendsStaleDiff(c) ==
  /\ call[c].at = "holding"
  /\ Len(writeCh) < WriteChCap
  /\ writeCh' = Append(writeCh, c)
  /\ LET fresh == IF call[c].op = "replace" /\ GetHead(call[c].note) < MaxSeq
                  THEN GetHead(call[c].note) + 1 ELSE call[c].seq
     IN  call' = [call EXCEPT ![c].at = "waiting", ![c].seq = fresh]
  /\ UNCHANGED <<disk, serving, step, acks, faults>>

(* Second half of both: the blocking send of the closure.                  *)
SendWrite(c) ==
  /\ call[c].at = "holding"
  /\ Len(writeCh) < WriteChCap
  /\ writeCh' = Append(writeCh, c)
  /\ call' = [call EXCEPT ![c].at = "waiting"]
  /\ UNCHANGED <<disk, serving, step, acks, faults>>

-----------------------------------------------------------------------------
(* The writer goroutine.                                                   *)

(* The closure returns and done unblocks the client.                       *)
Answers(c) ==
  /\ call' = [call EXCEPT ![c] = IdleCall]
  /\ serving' = None
  /\ step' = "idle"

Takes(c, op) ==
  /\ step = "idle"
  /\ writeCh # << >>
  /\ c = Head(writeCh)
  /\ call[c].op = op
  /\ writeCh' = Tail(writeCh)
  /\ UNCHANGED <<acks, faults>>

(* Faulty variant: INSERT OR REPLACE INTO notes.                           *)
ReplacesRow(c) ==
  LET r == call[c] IN
  /\ Takes(c, "create")
  /\ notes' = [notes EXCEPT ![r.note] =
                 [exists |-> TRUE, type |-> r.type, title |-> r.title,
                  deleted |-> FALSE, head |-> 0]]
  /\ Answers(c)
  /\ UNCHANGED <<events, content, pendingSync>>

(* INSERT INTO notes; a URN that is taken is refused (ErrAlreadyExists).   *)
WriteCreate(c) ==
  LET r == call[c] IN
  /\ Takes(c, "create")
  /\ notes' = IF notes[r.note].exists THEN notes
              ELSE [notes EXCEPT ![r.note] =
                      [exists |-> TRUE, type |-> r.type, title |-> r.title,
                       deleted |-> FALSE, head |-> 0]]
  /\ Answers(c)
  /\ UNCHANGED <<events, content, pendingSync>>

(* UPDATE notes SET title, deleted: the whole mutable header as sent.      *)
WriteUpdate(c) ==
  LET r == call[c] IN
  /\ Takes(c, "update")
  /\ notes' = [notes EXCEPT ![r.note].title = r.title, ![r.note].deleted = r.deleted]
  /\ Answers(c)
  /\ UNCHANGED <<events, content, pendingSync>>

(* UPDATE notes SET deleted=1; no row, no change (ErrNotFound).            *)
WriteDelete(c) ==
  LET r == call[c] IN
  /\ Takes(c, "delete")
  /\ notes' = IF notes[r.note].exists
              THEN [notes EXCEPT ![r.note].deleted = TRUE] ELSE notes
  /\ Answers(c)
  /\ UNCHANGED <<events, content, pendingSync>>

(* Faulty variant: only refuses a sequence that is already behind the head. *)
SequenceNotBehind(r) == r.seq > notes[r.note].head

(* Both sequence checks of AppendEvent against head_seq: every caller sets *)
(* ExpectSequence to the event's own sequence.                             *)
SequenceAccepted(r) == r.seq = notes[r.note].head + 1

IsAppend(c) == Takes(c, "append") \/ Takes(c, "replace")

(* Faulty variant: the conflict is dropped and nobody sends to done.       *)
DropsConflict(c) ==
  LET r == call[c] IN
  /\ IsAppend(c)
  /\ IF notes[r.note].exists /\ SequenceAccepted(r)
     THEN serving' = c /\ step' = "insert"
     ELSE UNCHANGED <<serving, step>>
  /\ UNCHANGED <<disk, call>>

WriteAppend(c) ==
  LET r == call[c] IN
  /\ IsAppend(c)
  /\ IF notes[r.note].exists /\ SequenceAccepted(r)
     THEN serving' = c /\ step' = "insert" /\ UNCHANGED call
     ELSE Answers(c)
  /\ UNCHANGED disk

(* INSERT INTO events; PRIMARY KEY (note_urn, sequence).                   *)
InsertEvent(c) ==
  LET r == call[c] IN
  /\ serving = c
  /\ step = "insert"
  /\ IF events[r.note][r.seq] = NoEvent
     THEN /\ events' = [events EXCEPT ![r.note][r.seq] = r.payload]
          /\ step' = IF notes[r.note].type = "normal" THEN "content" ELSE "head"
          /\ UNCHANGED <<serving, call>>
     ELSE Answers(c) /\ UNCHANGED events
  /\ UNCHANGED <<notes, content, pendingSync, writeCh, acks, faults>>

(* Faulty variant: the entries are applied without reading what is stored. *)
ForgetsStoredContent(c) ==
  LET r == call[c] IN
  /\ serving = c
  /\ step = "content"
  /\ content' = [content EXCEPT ![r.note] = Apply(EmptyContent, r.payload)]
  /\ step' = "head"
  /\ UNCHANGED <<notes, events, pendingSync, writeCh, serving, call, acks, faults>>

(* SELECT content, apply the entries, INSERT ... ON CONFLICT DO UPDATE.    *)
UpsertContent(c) ==
  LET r == call[c] IN
  /\ serving = c
  /\ step = "content"
  /\ content' = [content EXCEPT ![r.note] = Apply(@, r.payload)]
  /\ step' = "head"
  /\ UNCHANGED <<notes, events, pendingSync, writeCh, serving, call, acks, faults>>

(* Faulty variant: head_seq is set to the sequence expected next.          *)
SetsNextSequence(c) ==
  LET r == call[c] IN
  /\ serving = c
  /\ step = "head"
  /\ notes' = [notes EXCEPT ![r.note].head = r.seq + 1]
  /\ step' = "sync"
  /\ UNCHANGED <<events, content, pendingSync, writeCh, serving, call, acks, faults>>

(* UPDATE notes SET head_seq.                                              *)
SetHead(c) ==
  LET r == call[c] IN
  /\ serving = c
  /\ step = "head"
  /\ notes' = [notes EXCEPT ![r.note].head = r.seq]
  /\ step' = "sync"
  /\ UNCHANGED <<events, content, pendingSync, writeCh, serving, call, acks, faults>>

(* INSERT INTO pending_sync, whose error is ignored; then success.         *)
MarkSync(c) ==
  LET r == call[c] IN
  /\ serving = c
  /\ step = "sync"
  /\ \/ pendingSync' = pendingSync \cup {r.note} /\ UNCHANGED faults
     \/ UNCHANGED pendingSync /\ faults < MaxFaults /\ faults' = faults + 1
  /\ acks' = [acks EXCEPT ![r.note][r.seq] = @ + 1]
  /\ Answers(c)
  /\ UNCHANGED <<notes, events, content, writeCh>>

(* Faulty variant: the error of the statement is not returned.             *)
IgnoresError(c) ==
  LET r == call[c] IN
  /\ serving = c
  /\ step \in {"insert", "content", "head"}
  /\ faults < MaxFaults
  /\ faults' = faults + 1
  /\ acks' = [acks EXCEPT ![r.note][r.seq] = @ + 1]
  /\ Answers(c)
  /\ UNCHANGED <<disk, writeCh>>

(* A statement of AppendEvent fails: the closure returns its error and the *)
(* statements before it stay committed.                                    *)
StatementFails(c) ==
  /\ serving = c
  /\ step \in {"insert", "content", "head"}
  /\ faults < MaxFaults
  /\ faults' = faults + 1
  /\ Answers(c)
  /\ UNCHANGED <<disk, writeCh, acks>>

(* The process dies and is started again: only the tables survive.         *)
Crash ==
  /\ faults < MaxFaults
  /\ faults' = faults + 1
  /\ writeCh' = << >>
  /\ serving' = None
  /\ step' = "idle"
  /\ call' = [c \in Clients |-> IdleCall]
  /\ UNCHANGED <<disk, acks>>

-----------------------------------------------------------------------------
Client(c) ==
  \/ CreateNote(c) \/ DeleteNote(c) \/ AppendRaw(c)
  \/ UpdateGet(c) \/ ReplaceGet(c) \/ SendWrite(c)

Writer(c) ==
  \/ WriteCreate(c) \/ WriteUpdate(c) \/ WriteDelete(c) \/ WriteAppend(c)
  \/ InsertEvent(c) \/ UpsertContent(c) \/ SetHead(c) \/ MarkSync(c)

Next == (\E c \in Clients : Client(c) \/ Writer(c) \/ StatementFails(c)) \/ Crash

Spec == Init /\ [][Next]_vars

(* The writer goroutine keeps running; a sender blocked on the channel is  *)
(* served in the order of arrival, so it is not overtaken forever.         *)
FairSpec ==
  /\ Spec
  /\ WF_vars(\E c \in Clients : Writer(c))
  /\ \A c \in Clients : SF_vars(SendWrite(c))

-----------------------------------------------------------------------------
(* Properties.                                                             *)

Stored(n) == {s \in Seqs : events[n][s] # NoEvent}

(* The writer is between two statements of an append to n.                 *)
Appending(n) == step \in {"content", "head"} /\ call[serving].note = n

(* AppendEvent, Crash: the sequences of a note have no gap and no          *)
(* duplicate; head_seq is the last one, except that one event may lie      *)
(* beyond it while its append is under way or after a fault cut one short. *)
LogMatchesHead ==
  \A n \in Notes :
    \/ Stored(n) = 1..notes[n].head
    \/ /\ Stored(n) = 1..(notes[n].head + 1)
       /\ Appending(n) \/ faults > 0

(* AppendEvent's sequence check: of all the callers that race for one      *)
(* sequence at most one is told it succeeded, and what it was told stays   *)
(* true whatever fails later: the sequence is covered by head_seq.         *)
AcknowledgedOnceAndKept ==
  \A n \in Notes : \A s \in Seqs :
    /\ acks[n][s] <= 1
    /\ acks[n][s] = 1 => s \in Stored(n) /\ s <= notes[n].head

(* Events are append-only: no statement, failure or restart rewrites or    *)
(* removes a stored event.                                                 *)
EventsAreImmutable ==
  [][\A n \in Notes : \A s \in Seqs :
       events[n][s] # NoEvent => events'[n][s] = events[n][s]]_vars

(* note_content is the replay of the event log: of the events up to        *)
(* head_seq, or of one more while that append is under way or was cut      *)
(* short.  Content of a secure note is never stored.                       *)
Replay(n) ==
  LET upTo[k \in 0..MaxSeq] ==
        IF k = 0 THEN EmptyContent ELSE Apply(upTo[k - 1], events[n][k])
  IN  upTo

ContentReflectsLog ==
  \A n \in Notes :
    IF notes[n].type = "secure" THEN content[n] = EmptyContent
    ELSE \/ content[n] = Replay(n)[notes[n].head]
         \/ /\ Stored(n) = 1..(notes[n].head + 1)
            /\ content[n] = Replay(n)[notes[n].head + 1]

(* ReplaceContent reads and writes in two steps, yet one that reports      *)
(* success has made the content exactly what its caller wanted: nothing    *)
(* written in between is overwritten or mixed in.                          *)
ReplaceIsExact ==
  [][\A c \in Clients :
       (call[c].op = "replace" /\ acks' # acks /\ serving = c)
         => content'[call[c].note] = call[c].want]_vars

(* No caller waits for ever on the write channel or on a reply, whether    *)
(* its write succeeds, is refused or fails.                                *)
EveryCallReturns ==
  \A c \in Clients : call[c].at # "idle" ~> call[c].at = "idle"

(* The tables implement an atomic append-only log: an append takes effect  *)
(* when head_seq moves, and a torn one has not happened.                   *)
LogHeader(n) ==
  IF notes[n].exists
  THEN [exists |-> TRUE, type |-> notes[n].type, title |-> notes[n].title,
        deleted |-> notes[n].deleted]
  ELSE [exists |-> FALSE]

LogOf(n) == [s \in 1..notes[n].head |-> events[n][s]]

Acked == {a \in Notes \X Seqs : acks[a[1]][a[2]] # 0}

NotesLog == INSTANCE NoteLog WITH
  header <- [n \in Notes |-> LogHeader(n)],
  log <- [n \in Notes |-> LogOf(n)],
  acked <- Acked

ImplementsNoteLog == NotesLog!Spec

(* NewNoteAtSequence: the note Get returns reports the note's head.        *)
GetReportsHead ==
  \A n \in Notes : notes[n].type = "normal" => GetHead(n) = notes[n].head

(* NoteUpdate: a field the caller does not name is not changed.            *)
UnnamedFieldIsKept ==
  [][\A c \in Clients :
       (call[c].op = "update" /\ call[c].keepsDeleted /\ WriteUpdate(c))
         => notes'[call[c].note].deleted = notes[call[c].note].deleted]_vars
=============================================================================
