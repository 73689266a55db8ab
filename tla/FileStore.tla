----------------------------- MODULE FileStore -----------------------------
(***************************************************************************)
(* The file provider: one .notx file per note, append-only, and a Badger   *)
(* index that caches header and text and holds the search keys.  One lock  *)
(* makes the operations exclude each other, so the only things that come   *)
(* between the steps of an append are a failed step and the end of the     *)
(* process.  A file operation that is cut short leaves a prefix of what it *)
(* was writing; a Badger transaction is applied as a whole or not at all.  *)
(***************************************************************************)
EXTENDS NoteContent

CONSTANTS FileNotes, Titles,   \* note URNs; note names
          Payloads,   \* entry lists of the events callers append
          Long,       \* a line text beyond the scanner's 64 KiB token limit
          MaxEvents,  \* bound: event blocks in one file
          MaxFaults   \* bound: failed steps, torn writes and ends of the process

ASSUME FileBounds == MaxEvents \in Nat \ {0} /\ MaxFaults \in Nat

(* There is a name to give to a note.                                      *)
ASSUME SomeTitle == Titles # {}

(* Note.ApplyEvent refuses line numbers below one, and applyEvent panics   *)
(* when the deletes before a write shift it below the first line: the end  *)
(* of a process that way is not modelled here.                             *)
ASSUME PayloadsApply ==
  /\ Payloads \subseteq Seq(LineEntry)
  /\ \A p \in Payloads : \A k \in DOMAIN p :
       /\ p[k].line >= 1
       /\ p[k].op # "delete" =>
            p[k].line > Cardinality({j \in 1..(k - 1) : p[j].op = "delete"})

VARIABLES file,    \* file[n]: the note's .notx file
          idx,     \* idx[n]: the note's entry and content in Badger
          terms,   \* terms[n]: the words with a search key for n
          op,      \* the writing operation that holds the lock
          up,      \* the provider is open
          faults,
          acked,   \* history: <<note, sequence, entries>> of appends that returned nil
          wanted,  \* history: the header fields callers last set
          marred   \* marred[n]: "failed" once an append of n ended without
                   \* success, "cut" once a rewrite of its file was torn

vars == <<file, idx, terms, op, up, faults, acked, wanted, marred>>

NoFile == [exists |-> FALSE]
NoEntry == [exists |-> FALSE]
Idle == [at |-> "idle"]
Types == {"normal", "secure"}

Fields == [title : Titles, deleted : BOOLEAN]

-----------------------------------------------------------------------------
(* The .notx format.  A block is one event; the format has no insert, so   *)
(* writeEventToNotx writes one as a set of the same line.                  *)
AsWritten(entries) ==
  [k \in DOMAIN entries |->
     IF entries[k].op = "insert" THEN [entries[k] EXCEPT !.op = "set"] ELSE entries[k]]

Block(sequence, entries) == [sequence |-> sequence, entries |-> AsWritten(entries)]

Stub(title, type) ==
  [exists |-> TRUE, readable |-> TRUE, title |-> title, type |-> type,
   head |-> 0, blocks |-> << >>]

(* bufio.Scanner gives up on a file with an overlong line.                 *)
Scannable(f) ==
  \A k \in DOMAIN f.blocks : \A j \in DOMAIN f.blocks[k].entries :
    f.blocks[k].entries[j].text # Long

(* core.NewNoteFromFile succeeds: the header has its required keys and     *)
(* every block is accepted by Note.ApplyEvent in turn.                     *)
Parses(f) ==
  /\ f.exists /\ f.readable /\ Scannable(f)
  /\ \A k \in DOMAIN f.blocks :
       f.blocks[k].sequence = k /\ f.blocks[k].entries # << >>

ApplyBlock(lines, block) == applyEvent(lines, block.entries)

Replay(f) == joinLines(FoldLeft(ApplyBlock, << >>, f.blocks))

(* What is left of a file whose rewrite is cut short: no usable header, or *)
(* the header and a prefix of the blocks, the last of them perhaps cut.    *)
CutBlocks(blocks) ==
  {SubSeq(blocks, 1, k) : k \in 0..Len(blocks) - 1}
  \cup UNION {{Append(SubSeq(blocks, 1, k - 1),
                      [blocks[k] EXCEPT !.entries = SubSeq(@, 1, m)]) :
               m \in 0..Len(blocks[k].entries) - 1} : k \in DOMAIN blocks}

Cuts(f) ==
  {[f EXCEPT !.readable = FALSE, !.blocks = << >>]}
  \cup {[f EXCEPT !.blocks = b] : b \in CutBlocks(f.blocks)}

-----------------------------------------------------------------------------
(* Badger: one transaction writes the entry, the content and a search key  *)
(* per word.  Keys of words that left the text are not removed, and a      *)
(* secure note gets neither content nor keys.                              *)
Words(content) == {content[k] : k \in DOMAIN content} \ {Blank}

IndexEntry(fields, type, head, content) ==
  [exists |-> TRUE, title |-> fields.title, deleted |-> fields.deleted, type |-> type,
   head |-> head, content |-> IF type = "normal" THEN content ELSE EmptyString]

(* Faulty variant: search keys are written for new entries only.           *)
UpsertKeepsKeys(n, entry) ==
  /\ idx' = [idx EXCEPT ![n] = entry]
  /\ terms' = [terms EXCEPT ![n] = IF idx[n].exists THEN @ ELSE Words(entry.content)]

Upsert(n, entry) ==
  /\ idx' = [idx EXCEPT ![n] = entry]
  /\ terms' = [terms EXCEPT ![n] = @ \cup
                 (IF entry.type = "normal" THEN Words(entry.content) ELSE {})]

(* indexNote of a parsed file: the file has no deleted line and keeps the  *)
(* title of its creation.                                                  *)
FromFile(f) ==
  IndexEntry([title |-> f.title, deleted |-> FALSE], f.type, Len(f.blocks), Replay(f))

(* reconcile, for one file: skipped when its header cannot be read, when   *)
(* Badger's head has reached the header's, and when it does not parse.     *)
Behind(n) ==
  /\ file[n].exists /\ file[n].readable
  /\ idx[n].exists => idx[n].head < file[n].head
  /\ Parses(file[n])

-----------------------------------------------------------------------------
Init ==
  /\ file = [n \in FileNotes |-> NoFile]
  /\ idx = [n \in FileNotes |-> NoEntry]
  /\ terms = [n \in FileNotes |-> {}]
  /\ op = Idle /\ up = TRUE /\ faults = 0
  /\ acked = {}
  /\ wanted = [n \in FileNotes |-> [title |-> CHOOSE t \in Titles : TRUE, deleted |-> FALSE]]
  /\ marred = [n \in FileNotes |-> "clean"]

Free == up /\ op = Idle

Mar(n, how) == marred' = [marred EXCEPT ![n] = IF @ = "cut" THEN @ ELSE how]

Fault == faults < MaxFaults /\ faults' = faults + 1

(* Faulty variant: the path is not looked at before the stub is written.   *)
OverwritesStub(n) ==
  /\ Free
  /\ \E t \in Titles, y \in Types :
       /\ file' = [file EXCEPT ![n] = Stub(t, y)]
       /\ wanted' = [wanted EXCEPT ![n] = [title |-> t, deleted |-> FALSE]]
  /\ op' = [at |-> "stub", note |-> n]
  /\ UNCHANGED <<idx, terms, up, faults, acked, marred>>

(* Create: refused when the file exists; the stub goes first.              *)
WriteStub(n) ==
  /\ Free /\ ~ file[n].exists
  /\ \E t \in Titles, y \in Types :
       /\ file' = [file EXCEPT ![n] = Stub(t, y)]
       /\ wanted' = [wanted EXCEPT ![n] = [title |-> t, deleted |-> FALSE]]
  /\ op' = [at |-> "stub", note |-> n]
  /\ UNCHANGED <<idx, terms, up, faults, acked, marred>>

(* The stub is only partly written: Create returns the error and leaves it,*)
(* or the process ends, and the path is taken from then on.                *)
TearStub(n) ==
  /\ Free /\ ~ file[n].exists /\ Fault
  /\ \E t \in Titles, y \in Types, complete \in BOOLEAN :
       /\ file' = [file EXCEPT ![n] = [Stub(t, y) EXCEPT !.readable = complete]]
       /\ wanted' = [wanted EXCEPT ![n] = [title |-> t, deleted |-> FALSE]]
  /\ UNCHANGED <<idx, terms, op, up, acked, marred>>

IndexStub ==
  /\ op.at = "stub"
  /\ Upsert(op.note, FromFile(file[op.note]))
  /\ op' = Idle
  /\ UNCHANGED <<file, up, faults, acked, wanted, marred>>

(* The index refuses: the stub is removed, and an error of the removal is  *)
(* ignored.                                                                *)
IndexStubFails ==
  /\ op.at = "stub" /\ Fault
  /\ \/ file' = [file EXCEPT ![op.note] = NoFile]
     \/ UNCHANGED file
  /\ op' = Idle
  /\ UNCHANGED <<idx, terms, up, acked, wanted, marred>>

(* AppendEvent validates against Badger, never against the file.           *)
Accepts(n, sequence) == idx[n].exists /\ sequence = idx[n].head + 1

(* writeEventToNotx opens the file for appending; it does not create it.   *)
Appended(n, sequence, entries) ==
  /\ file[n].exists /\ Len(file[n].blocks) < MaxEvents
  /\ file' = [file EXCEPT ![n].blocks = Append(@, Block(sequence, entries))]

(* Faulty variant: the header is left for the next start-up.               *)
SkipsHeader(n, sequence, entries) ==
  /\ Free /\ Accepts(n, sequence)
  /\ Appended(n, sequence, entries)
  /\ op' = [at |-> "index", note |-> n, sequence |-> sequence, entries |-> entries]
  /\ UNCHANGED <<idx, terms, up, faults, acked, wanted, marred>>

WriteEvent(n, sequence, entries) ==
  /\ Free /\ Accepts(n, sequence)
  /\ Appended(n, sequence, entries)
  /\ op' = [at |-> "header", note |-> n, sequence |-> sequence, entries |-> entries]
  /\ UNCHANGED <<idx, terms, up, faults, acked, wanted, marred>>

(* The block is only partly written and the append returns the error.      *)
TearEvent(n, sequence, entries) ==
  /\ Free /\ Accepts(n, sequence) /\ Fault
  /\ \E m \in 0..Len(entries) - 1 : Appended(n, sequence, SubSeq(entries, 1, m))
  /\ Mar(n, "failed")
  /\ UNCHANGED <<idx, terms, op, up, acked, wanted>>

(* Faulty variant: the header names the next sequence.                     *)
HeaderNamesNext ==
  /\ op.at = "header" /\ Scannable(file[op.note])
  /\ file' = [file EXCEPT ![op.note].head = op.sequence + 1]
  /\ op' = [op EXCEPT !.at = "index"]
  /\ UNCHANGED <<idx, terms, up, faults, acked, wanted, marred>>

(* updateNotxHeader reads the whole file and writes it back.               *)
UpdateHeader ==
  /\ op.at = "header" /\ Scannable(file[op.note])
  /\ file' = [file EXCEPT ![op.note].head = IF file[op.note].readable
                                            THEN op.sequence ELSE @]
  /\ op' = [op EXCEPT !.at = "index"]
  /\ UNCHANGED <<idx, terms, up, faults, acked, wanted, marred>>

(* An overlong line makes the scan fail every time; any other failure is a *)
(* fault.  The block stays.                                                *)
HeaderFails ==
  /\ op.at = "header"
  /\ \/ ~ Scannable(file[op.note]) /\ UNCHANGED faults
     \/ Scannable(file[op.note]) /\ Fault
  /\ op' = Idle
  /\ Mar(op.note, "failed")
  /\ UNCHANGED <<file, idx, terms, up, acked, wanted>>

(* os.WriteFile truncates before it writes.                                *)
TearHeader ==
  /\ op.at = "header" /\ Scannable(file[op.note]) /\ Fault
  /\ \E f \in Cuts([file[op.note] EXCEPT !.head = op.sequence]) :
       file' = [file EXCEPT ![op.note] = f]
  /\ op' = Idle
  /\ Mar(op.note, "cut")
  /\ UNCHANGED <<idx, terms, up, acked, wanted>>

(* Faulty variant: the line edits of the SQLite provider, which know no    *)
(* insert.                                                                 *)
PlainContent(n, entries) == applyEntriesToContent(idx[n].content, entries)

NewContent(n, entries) ==
  joinLines(applyEntriesToLines(SplitLines(idx[n].content), entries))

UpsertIndex ==
  /\ op.at = "index"
  /\ LET old == idx[op.note]
     IN  Upsert(op.note, IndexEntry(old, old.type, op.sequence, NewContent(op.note, op.entries)))
  /\ acked' = acked \cup {<<op.note, op.sequence, op.entries>>}
  /\ op' = Idle
  /\ UNCHANGED <<file, up, faults, wanted, marred>>

IndexFails ==
  /\ op.at = "index" /\ Fault
  /\ op' = Idle
  /\ Mar(op.note, "failed")
  /\ UNCHANGED <<file, idx, terms, up, acked, wanted>>

(* Update and Delete change Badger only; the file is not touched.          *)
Update(n, fields) ==
  /\ Free /\ idx[n].exists
  /\ Upsert(n, IndexEntry(fields, idx[n].type, idx[n].head, idx[n].content))
  /\ wanted' = [wanted EXCEPT ![n] = fields]
  /\ UNCHANGED <<file, op, up, faults, acked, marred>>

Delete(n) == Update(n, [title |-> idx[n].title, deleted |-> TRUE])

(* Get of a note Badger does not know: parse the file and index it.        *)
GetUnindexed(n) ==
  /\ Free /\ ~ idx[n].exists /\ Parses(file[n])
  /\ Upsert(n, FromFile(file[n]))
  /\ UNCHANGED <<file, op, up, faults, acked, wanted, marred>>

(* External: somebody copies a .notx file into the directory.              *)
CopyIn(n) ==
  /\ op = Idle /\ ~ file[n].exists
  /\ \E t \in Titles, p \in Payloads :
       LET f == [Stub(t, "normal") EXCEPT !.head = 1, !.blocks = <<Block(1, p)>>]
       IN  /\ Parses(f)
           /\ file' = [file EXCEPT ![n] = f]
           /\ wanted' = [wanted EXCEPT ![n] = [title |-> t, deleted |-> FALSE]]
  /\ UNCHANGED <<idx, terms, op, up, faults, acked, marred>>

Crash ==
  /\ up /\ Fault
  /\ up' = FALSE /\ op' = Idle
  /\ IF op.at \in {"header", "index"} THEN Mar(op.note, "failed") ELSE UNCHANGED marred
  /\ UNCHANGED <<file, idx, terms, acked, wanted>>

(* New: every file that is ahead of Badger is parsed and indexed again.    *)
Restart ==
  /\ ~ up
  /\ up' = TRUE
  /\ idx' = [n \in FileNotes |-> IF Behind(n) THEN FromFile(file[n]) ELSE idx[n]]
  /\ terms' = [n \in FileNotes |-> terms[n] \cup
                 IF Behind(n) /\ file[n].type = "normal" THEN Words(Replay(file[n])) ELSE {}]
  /\ UNCHANGED <<file, op, faults, acked, wanted, marred>>

Next ==
  \/ \E n \in FileNotes :
       \/ WriteStub(n) \/ TearStub(n) \/ Delete(n) \/ GetUnindexed(n) \/ CopyIn(n)
       \/ \E f \in Fields : Update(n, f)
       \/ \E s \in 1..MaxEvents, p \in Payloads : WriteEvent(n, s, p) \/ TearEvent(n, s, p)
  \/ IndexStub \/ IndexStubFails \/ UpdateHeader \/ HeaderFails \/ TearHeader
  \/ UpsertIndex \/ IndexFails \/ Crash \/ Restart

Spec == Init /\ [][Next]_vars

-----------------------------------------------------------------------------
Entries == {AsWritten(p) : p \in Payloads} \cup
           UNION {{AsWritten(SubSeq(p, 1, m)) : m \in 0..Len(p)} : p \in Payloads}

Strings == {Blank} \cup UNION {{p[k].text : k \in DOMAIN p} : p \in Payloads}

Blocks == [sequence : 1..MaxEvents, entries : Entries]

TypeOK ==
  /\ \A n \in FileNotes :
       /\ file[n].exists => /\ file[n].readable \in BOOLEAN /\ file[n].title \in Titles
                            /\ file[n].type \in Types /\ file[n].head \in 0..MaxEvents
                            /\ file[n].blocks \in Seq(Blocks) /\ Len(file[n].blocks) <= MaxEvents
       /\ idx[n].exists => /\ [title |-> idx[n].title, deleted |-> idx[n].deleted] \in Fields
                           /\ idx[n].type \in Types /\ idx[n].head \in 0..MaxEvents
                           /\ idx[n].content \in Seq(Strings)
       /\ terms[n] \subseteq Strings
       /\ wanted[n] \in Fields /\ marred[n] \in {"clean", "failed", "cut"}
  /\ op # Idle => /\ op.at \in {"stub", "header", "index"} /\ op.note \in FileNotes
                  /\ op.at # "stub" => op.sequence \in 1..MaxEvents /\ op.entries \in Payloads
  /\ up \in BOOLEAN /\ faults \in 0..MaxFaults
  /\ acked \subseteq (FileNotes \X (1..MaxEvents) \X Payloads)

(* What an append acknowledged is in the note's file, whatever fails or    *)
(* ends the process later, unless a rewrite of that very file was torn     *)
(* (AppendEvent, writeEventToNotx, Create's check of the path).            *)
AcknowledgedIsOnDisk ==
  \A n \in FileNotes, s \in 1..MaxEvents, e \in Payloads :
    <<n, s, e>> \in acked /\ marred[n] # "cut" =>
      \E k \in DOMAIN file[n].blocks : file[n].blocks[k] = Block(s, e)

(* Block, header, index: Badger never claims a sequence the header does    *)
(* not have, and the header none without its block.  This order is what    *)
(* makes comparing the two heads at start-up safe (AppendEvent, reconcile).*)
IndexNeverLeads ==
  \A n \in FileNotes :
    idx[n].exists /\ marred[n] # "cut" =>
      /\ file[n].exists /\ idx[n].head <= file[n].head
      /\ \A s \in 1..file[n].head :
           \E k \in DOMAIN file[n].blocks : file[n].blocks[k].sequence = s

(* The two appliers of entries agree on an event that writes first and     *)
(* then deletes in ascending order.                                        *)
InOrder(entries) ==
  \A j, k \in DOMAIN entries :
    j < k /\ entries[j].op = "delete" =>
      entries[k].op = "delete" /\ entries[j].line < entries[k].line

(* A note none of whose appends failed is the same thing in the file and   *)
(* in Badger after any number of failures and restarts around it: the file *)
(* parses into exactly the events up to Badger's head, the cached text is  *)
(* their replay, and the header fields are the ones callers last set.      *)
CleanNotesAreWhole ==
  \A n \in FileNotes :
    LET ours == {a[3] : a \in {b \in acked : b[1] = n}}
    IN  Free /\ idx[n].exists /\ marred[n] = "clean" /\ << >> \notin ours =>
          /\ Parses(file[n]) /\ Len(file[n].blocks) = idx[n].head
          /\ (\A e \in ours : InOrder(e)) /\ idx[n].type = "normal" =>
                idx[n].content = Replay(file[n])
          /\ wanted[n] = [title |-> idx[n].title, deleted |-> idx[n].deleted]

(* Search finds a normal note by every word of its text, and a secure note *)
(* by none (index.Upsert, applied to every way a text gets into Badger).   *)
Search(word) == {n \in FileNotes : idx[n].exists /\ idx[n].type # "secure" /\ word \in terms[n]}

SearchFindsText ==
  \A n \in FileNotes :
    /\ idx[n].exists => \A w \in Words(idx[n].content) : n \in Search(w)
    /\ idx[n].exists /\ idx[n].type = "secure" => terms[n] = {}

(* Neither a retried event nor a start-up takes a note's head back, unless *)
(* a rewrite of its file was torn.                                         *)
HeadsOnlyGrow ==
  [][\A n \in FileNotes : idx[n].exists /\ marred[n] # "cut" =>
       idx'[n].exists /\ idx'[n].head >= idx[n].head]_vars
=============================================================================
