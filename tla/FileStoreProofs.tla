--------------------------- MODULE FileStoreProofs ---------------------------
(***************************************************************************)
(* Proofs about FileStore, for every number of notes, events and faults    *)
(* and every list of entries: what the order of block, header and index    *)
(* leaves on disk, and, after them, that the text a note is searched by is *)
(* the text of its file.                                                   *)
(***************************************************************************)
EXTENDS FileStore, SequenceTheorems, FiniteSetTheorems, TLAPS

(* The entries of an event that was written as a whole or torn.            *)
FirstBlocks == UNION {{SubSeq(p, 1, m) : m \in 0..Len(p) - 1} : p \in Payloads}
Written == {AsWritten(p) : p \in Payloads \cup FirstBlocks}
BlockSet == [sequence : Nat, entries : Written]

NotxFile ==
  [exists : {TRUE}, readable : BOOLEAN, title : Titles, type : Types, head : Nat, blocks : Seq(BlockSet)]

(* Badger's head is the header's or, if a step after the header failed,    *)
(* one less; no block is further ahead; every event up to the header's     *)
(* head has a block.                                                       *)
Indexed(f, entry) ==
  /\ f \in NotxFile /\ f.readable
  /\ entry.head \in Nat /\ entry.head <= f.head /\ f.head <= entry.head + 1
  /\ \A s \in 1..f.head : \E k \in DOMAIN f.blocks : f.blocks[k].sequence = s
  /\ \A k \in DOMAIN f.blocks : f.blocks[k].sequence <= entry.head + 1

(* A file that Badger does not know has the blocks its header counts: only *)
(* its creation or somebody else has written to it.                        *)
Unindexed(f) == f = NoFile \/ (f \in NotxFile /\ Len(f.blocks) = f.head)

AcksAreOnDisk(n) ==
  \A s, e : <<n, s, e>> \in acked =>
    idx[n].exists /\ \E k \in DOMAIN file[n].blocks : file[n].blocks[k] = Block(s, e)

Sound(n) ==
  /\ idx[n].exists \in BOOLEAN
  /\ IF idx[n].exists THEN Indexed(file[n], idx[n]) ELSE Unindexed(file[n])
  /\ AcksAreOnDisk(n)

(* The operation between its steps.                                        *)
StubWaits(n) ==
  /\ ~ idx[n].exists
  /\ file[n] \in NotxFile /\ file[n].readable /\ file[n].blocks = << >> /\ file[n].head = 0

EventWaits(n) ==
  /\ idx[n].exists /\ op.sequence = idx[n].head + 1
  /\ \E k \in DOMAIN file[n].blocks : file[n].blocks[k] = Block(op.sequence, op.entries)
  /\ op.at = "index" => file[n].head = op.sequence

Operation ==
  {Idle} \cup [at : {"stub"}, note : FileNotes]
         \cup [at : {"header", "index"}, note : FileNotes, sequence : Nat, entries : Payloads]

Functions ==
  /\ DOMAIN file = FileNotes /\ DOMAIN idx = FileNotes /\ DOMAIN marred = FileNotes
  /\ op \in Operation

NotesAreSound == \A n \in FileNotes : marred[n] = "cut" \/ Sound(n)

OperationIsSound ==
  op # Idle => \/ marred[op.note] = "cut"
               \/ IF op.at = "stub" THEN StubWaits(op.note) ELSE EventWaits(op.note)

IInv == Functions /\ NotesAreSound /\ OperationIsSound

-----------------------------------------------------------------------------
LEMMA IInvInit == Init => IInv
  <1> SUFFICES ASSUME Init PROVE IInv
    OBVIOUS
  <1> USE DEF Init
  <1>1. Functions
    BY DEF Functions, Operation
  <1>2. ASSUME NEW n \in FileNotes PROVE Sound(n)
    BY <1>2 DEF Sound, NoEntry, Unindexed, AcksAreOnDisk
  <1> QED
    BY <1>1, <1>2 DEF IInv, NotesAreSound, OperationIsSound

(* The kinds of operation.                                                 *)
LEMMA OperationKinds ==
  ASSUME Functions
  PROVE  /\ op.at = "stub" => op.note \in FileNotes /\ op # Idle
         /\ op.at \in {"header", "index"} =>
              /\ op # Idle /\ op \in [at : {"header", "index"}, note : FileNotes, sequence : Nat, entries : Payloads]
              /\ op.note \in FileNotes /\ op.sequence \in Nat /\ op.entries \in Payloads
  BY DEF Functions, Operation, Idle

(* A note that a step leaves alone stays sound.                            *)
LEMMA OthersStaySound ==
  ASSUME NEW n \in FileNotes, marred[n] = "cut" \/ Sound(n),
         file'[n] = file[n], idx'[n] = idx[n], marred[n] = "cut" => marred'[n] = "cut",
         \A s, e : <<n, s, e>> \in acked' => <<n, s, e>> \in acked
  PROVE  marred'[n] = "cut" \/ Sound(n)'
  BY DEF Sound, AcksAreOnDisk

(* A step that changes one note.                                           *)
LEMMA OneNoteChanges ==
  ASSUME IInv, NEW n \in FileNotes, Functions',
         \A m \in FileNotes \ {n} :
           /\ file'[m] = file[m] /\ idx'[m] = idx[m] /\ marred'[m] = marred[m]
           /\ \A s, e : <<m, s, e>> \in acked' => <<m, s, e>> \in acked,
         marred'[n] = "cut" \/ Sound(n)',
         OperationIsSound'
  PROVE  IInv'
  <1>1. \A m \in FileNotes \ {n} : marred'[m] = "cut" \/ Sound(m)'
    BY OthersStaySound DEF IInv, NotesAreSound
  <1> QED
    BY <1>1 DEF IInv, NotesAreSound

LEMMA NewBlock ==
  ASSUME NEW s \in Nat, NEW p \in Payloads \cup FirstBlocks PROVE Block(s, p) \in BlockSet
  BY DEF Block, BlockSet, Written

(* A free path: nothing of the note is indexed or acknowledged.            *)
LEMMA FreePathIsUnindexed ==
  ASSUME NEW n \in FileNotes, Sound(n), ~ file[n].exists
  PROVE  ~ idx[n].exists /\ \A s, e : <<n, s, e>> \notin acked
  BY DEF Sound, Indexed, NotxFile, AcksAreOnDisk

LEMMA CreationKeepsIInv ==
  ASSUME IInv, NEW n \in FileNotes, WriteStub(n) \/ TearStub(n) \/ CopyIn(n)
  PROVE  IInv'
  <1>1. ~ file[n].exists /\ UNCHANGED <<idx, acked, marred>>
    BY DEF WriteStub, TearStub, CopyIn
  <1>2. PICK f : file' = [file EXCEPT ![n] = f] /\ f \in NotxFile /\ Len(f.blocks) = f.head
                 /\ (WriteStub(n) => f.readable /\ f.blocks = << >> /\ f.head = 0)
    <2>1. ASSUME NEW t \in Titles, NEW y \in Types
          PROVE  /\ Stub(t, y) \in NotxFile /\ Stub(t, y).blocks = << >> /\ Stub(t, y).head = 0
                 /\ Stub(t, y).readable = TRUE
      BY DEF Stub, NotxFile
    <2>2. CASE WriteStub(n)
      BY <2>1, <2>2 DEF WriteStub
    <2>3. CASE TearStub(n) /\ ~ WriteStub(n)
      <3>1. PICK t \in Titles, y \in Types, complete \in BOOLEAN :
              file' = [file EXCEPT ![n] = [Stub(t, y) EXCEPT !.readable = complete]]
        BY <2>3 DEF TearStub
      <3>2. [Stub(t, y) EXCEPT !.readable = complete] \in NotxFile
        <4>1. Stub(t, y) \in NotxFile
          BY <2>1
        <4> QED
          BY <4>1, Zenon DEF NotxFile
      <3>3. [Stub(t, y) EXCEPT !.readable = complete].blocks = << >>
            /\ [Stub(t, y) EXCEPT !.readable = complete].head = 0
        BY DEF Stub
      <3> QED
        BY <2>3, <3>1, <3>2, <3>3
    <2>4. CASE CopyIn(n) /\ ~ WriteStub(n)
      <3>1. PICK t \in Titles, p \in Payloads :
              file' = [file EXCEPT ![n] = [Stub(t, "normal") EXCEPT !.head = 1, !.blocks = <<Block(1, p)>>]]
        BY <2>4 DEF CopyIn
      <3>2. <<Block(1, p)>> \in Seq(BlockSet) /\ Len(<<Block(1, p)>>) = 1
        BY NewBlock
      <3> DEFINE f == [Stub(t, "normal") EXCEPT !.head = 1, !.blocks = <<Block(1, p)>>]
      <3>3. f \in NotxFile /\ f.head = 1 /\ f.blocks = <<Block(1, p)>>
        BY <3>2 DEF Stub, NotxFile, Types
      <3> QED
        BY <2>4, <3>1, <3>2, <3>3
    <2> QED
      BY <2>2, <2>3, <2>4
  <1>3. Functions' /\ file'[n] = f /\ \A m \in FileNotes \ {n} : file'[m] = file[m]
    <2>1. DOMAIN file = FileNotes /\ DOMAIN idx = FileNotes /\ DOMAIN marred = FileNotes
      BY DEF IInv, Functions
    <2>2. op' = [at |-> "stub", note |-> n] \/ op' = Idle
      BY DEF WriteStub, TearStub, CopyIn, Free
    <2>3. op' \in Operation
      BY <2>2 DEF Operation
    <2> QED
      BY <1>1, <1>2, <2>1, <2>3 DEF Functions
  <1>4. marred[n] # "cut" => ~ idx[n].exists /\ idx[n].exists \in BOOLEAN /\ \A s, e : <<n, s, e>> \notin acked
    BY <1>1, FreePathIsUnindexed DEF IInv, NotesAreSound, Sound
  <1>5. marred'[n] = "cut" \/ Sound(n)'
    BY <1>1, <1>2, <1>3, <1>4 DEF Sound, Unindexed, AcksAreOnDisk
  <1>6. OperationIsSound'
    <2>1. CASE WriteStub(n)
      <3>1. op' = [at |-> "stub", note |-> n]
        BY <2>1 DEF WriteStub
      <3> QED
        BY <1>1, <1>2, <1>3, <1>4, <2>1, <3>1 DEF OperationIsSound, StubWaits
    <2>2. CASE op' = Idle
      BY <2>2 DEF OperationIsSound
    <2> QED
      BY <2>1, <2>2 DEF TearStub, CopyIn, Free
  <1> QED
    BY <1>1, <1>3, <1>5, <1>6, OneNoteChanges

(* The end of a step that neither changes a file nor the index.            *)
LEMMA EndKeepsIInv ==
  ASSUME IInv, UNCHANGED <<file, idx, acked>>, op' = Idle \/ UNCHANGED op,
         DOMAIN marred' = FileNotes, \A n \in FileNotes : marred[n] = "cut" => marred'[n] = "cut"
  PROVE  IInv'
  <1>1. Functions'
    BY DEF IInv, Functions, Operation
  <1>2. NotesAreSound'
    BY OthersStaySound DEF IInv, NotesAreSound
  <1>3. OperationIsSound'
    <2>1. CASE op' = Idle
      BY <2>1 DEF OperationIsSound
    <2>2. CASE UNCHANGED op
      BY <2>2, OperationKinds DEF IInv, Functions, Operation, OperationIsSound, StubWaits, EventWaits
    <2> QED
      BY <2>1, <2>2
  <1> QED
    BY <1>1, <1>2, <1>3 DEF IInv

(* The entry of a file with the blocks its header counts.                  *)
LEMMA FromFileIsIndexed ==
  ASSUME NEW f \in NotxFile, f.readable, Len(f.blocks) = f.head,
         \A k \in DOMAIN f.blocks : f.blocks[k].sequence = k
  PROVE  FromFile(f).exists = TRUE /\ Indexed(f, FromFile(f))
  <1>1. FromFile(f).exists = TRUE /\ FromFile(f).head = f.head
    BY DEF FromFile, IndexEntry
  <1>2. f.head \in Nat /\ DOMAIN f.blocks = 1..f.head
    BY DEF NotxFile
  <1> QED
    BY <1>1, <1>2 DEF Indexed

LEMMA IndexStubKeepsIInv == IInv /\ (IndexStub \/ IndexStubFails) => IInv'
  <1> SUFFICES ASSUME IInv, IndexStub \/ IndexStubFails PROVE IInv'
    OBVIOUS
  <1>0. PICK n \in FileNotes : n = op.note
    BY OperationKinds DEF IInv, IndexStub, IndexStubFails
  <1>1. op # Idle /\ op.at = "stub" /\ op' = Idle /\ UNCHANGED <<acked, marred>>
    BY OperationKinds DEF IInv, IndexStub, IndexStubFails
  <1>2. marred[n] = "cut" \/ (StubWaits(n) /\ Sound(n))
    BY <1>0, <1>1 DEF IInv, OperationIsSound, NotesAreSound
  <1>3. OperationIsSound'
    BY <1>1 DEF OperationIsSound
  <1>4. CASE IndexStub
    <2>1. idx' = [idx EXCEPT ![n] = FromFile(file[n])] /\ UNCHANGED file
      BY <1>0, <1>4 DEF IndexStub, Upsert
    <2>2. Functions' /\ idx'[n] = FromFile(file[n]) /\ \A m \in FileNotes \ {n} : idx'[m] = idx[m]
      BY <1>1, <2>1 DEF IInv, Functions, Operation
    <2>3. ASSUME marred[n] # "cut" PROVE Sound(n)'
      <3>1. FromFile(file[n]).exists = TRUE /\ Indexed(file[n], FromFile(file[n]))
        <4>1. /\ file[n] \in NotxFile /\ file[n].readable
              /\ file[n].blocks = << >> /\ file[n].head = 0
          BY <1>2, <2>3 DEF StubWaits
        <4>2. Len(file[n].blocks) = 0 /\ DOMAIN file[n].blocks = {}
          BY <4>1
        <4> QED
          BY <4>1, <4>2, FromFileIsIndexed
      <3>2. \A s, e : <<n, s, e>> \notin acked
        BY <1>2, <2>3 DEF StubWaits, Sound, AcksAreOnDisk
      <3> QED
        BY <1>1, <2>1, <2>2, <3>1, <3>2 DEF Sound, AcksAreOnDisk
    <2> QED
      BY <1>1, <1>3, <2>1, <2>2, <2>3, OneNoteChanges
  <1>5. CASE IndexStubFails
    <2>1. CASE UNCHANGED file
      BY <1>1, <1>5, <2>1, EndKeepsIInv DEF IndexStubFails, IInv, Functions
    <2>2. CASE file' = [file EXCEPT ![n] = NoFile]
      <3>1. UNCHANGED idx
        BY <1>5 DEF IndexStubFails
      <3>2. Functions' /\ file'[n] = NoFile /\ \A m \in FileNotes \ {n} : file'[m] = file[m]
        BY <1>1, <2>2, <3>1 DEF IInv, Functions, Operation
      <3>3. ASSUME marred[n] # "cut" PROVE Sound(n)'
        BY <1>1, <1>2, <3>1, <3>2, <3>3 DEF StubWaits, Sound, Unindexed, AcksAreOnDisk
      <3> QED
        BY <1>1, <1>3, <3>1, <3>2, <3>3, OneNoteChanges
    <2> QED
      BY <1>0, <1>5, <2>1, <2>2 DEF IndexStubFails
  <1> QED
    BY <1>4, <1>5

-----------------------------------------------------------------------------
(* A block for the next event is appended to the file of an indexed note.  *)
LEMMA AppendedBlock ==
  ASSUME IInv, NEW n \in FileNotes, NEW p \in Payloads \cup FirstBlocks, NEW s \in Nat,
         Accepts(n, s), Appended(n, s, p), UNCHANGED <<idx, acked>>,
         DOMAIN marred' = FileNotes, \A m \in FileNotes \ {n} : marred'[m] = marred[m],
         marred[n] = "cut" => marred'[n] = "cut"
  PROVE  /\ DOMAIN file' = FileNotes /\ \A m \in FileNotes \ {n} : file'[m] = file[m]
         /\ marred'[n] = "cut" \/
              /\ Sound(n)' /\ idx[n].exists /\ s = idx[n].head + 1
              /\ \E k \in DOMAIN file'[n].blocks : file'[n].blocks[k] = Block(s, p)
  <1>1. /\ file' = [file EXCEPT ![n] = [file[n] EXCEPT !.blocks = Append(@, Block(s, p))]]
        /\ DOMAIN file = FileNotes
    BY DEF Appended, IInv, Functions
  <1>2. /\ file'[n] = [file[n] EXCEPT !.blocks = Append(@, Block(s, p))]
        /\ DOMAIN file' = FileNotes /\ \A m \in FileNotes \ {n} : file'[m] = file[m]
    BY <1>1
  <1>3. SUFFICES ASSUME marred[n] # "cut"
                 PROVE  /\ Sound(n)' /\ idx[n].exists /\ s = idx[n].head + 1
                        /\ \E k \in DOMAIN file'[n].blocks : file'[n].blocks[k] = Block(s, p)
    BY <1>2
  <1>4. idx[n].exists /\ s = idx[n].head + 1 /\ Indexed(file[n], idx[n]) /\ AcksAreOnDisk(n)
    BY <1>3 DEF Accepts, IInv, NotesAreSound, Sound
  <1> DEFINE old == file[n].blocks
             new == file'[n].blocks
  <1>5. /\ old \in Seq(BlockSet) /\ new = Append(old, Block(s, p))
        /\ file'[n] \in NotxFile /\ file'[n].head = file[n].head /\ file'[n].readable = file[n].readable
        /\ file[n].head \in Nat
    <2>1. file[n] \in NotxFile
      BY <1>4 DEF Indexed
    <2>2. old \in Seq(BlockSet)
      BY <2>1 DEF NotxFile
    <2>3. Append(old, Block(s, p)) \in Seq(BlockSet)
      BY <2>2, NewBlock
    <2> HIDE DEF old
    <2>4. file'[n] = [file[n] EXCEPT !.blocks = Append(old, Block(s, p))]
      BY <1>2 DEF old
    <2> QED
      BY <2>1, <2>2, <2>3, <2>4 DEF NotxFile
  <1>6. /\ \A k \in DOMAIN old : k \in DOMAIN new /\ new[k] = old[k]
        /\ \E k \in DOMAIN new : new[k] = Block(s, p)
        /\ \A k \in DOMAIN new : k \in DOMAIN old \/ new[k] = Block(s, p)
    <2> HIDE DEF old, new
    <2>1. /\ DOMAIN old = 1..Len(old) /\ Len(old) \in Nat /\ DOMAIN new = 1..(Len(old) + 1)
          /\ new[Len(old) + 1] = Block(s, p) /\ \A k \in 1..Len(old) : new[k] = old[k]
      BY <1>5, NewBlock
    <2> QED
      BY <2>1
  <1>7. Indexed(file'[n], idx[n])
    <2> HIDE DEF old, new
    <2>1. Block(s, p).sequence = s
      BY DEF Block
    <2>2. \A i \in 1..file[n].head : \E k \in DOMAIN new : new[k].sequence = i
      BY <1>4, <1>6 DEF Indexed, old
    <2>3. \A k \in DOMAIN new : new[k].sequence <= idx[n].head + 1
      BY <1>4, <1>6, <2>1 DEF Indexed, old
    <2> QED
      BY <1>4, <1>5, <2>2, <2>3 DEF Indexed, new
  <1>8. AcksAreOnDisk(n)'
    <2> SUFFICES ASSUME NEW t, NEW e, <<n, t, e>> \in acked
                 PROVE  \E k \in DOMAIN new : new[k] = Block(t, e)
      BY <1>4 DEF AcksAreOnDisk
    <2> QED
      BY <1>4, <1>6 DEF AcksAreOnDisk
  <1> QED
    BY <1>4, <1>6, <1>7, <1>8 DEF Sound

LEMMA EventKeepsIInv ==
  ASSUME IInv, NEW n \in FileNotes, NEW s \in Nat, NEW p \in Payloads,
         WriteEvent(n, s, p) \/ TearEvent(n, s, p)
  PROVE  IInv'
  <1>1. CASE WriteEvent(n, s, p)
    <2> USE <1>1 DEF WriteEvent
    <2>1. /\ DOMAIN file' = FileNotes /\ \A m \in FileNotes \ {n} : file'[m] = file[m]
          /\ marred'[n] = "cut" \/
               /\ Sound(n)' /\ idx[n].exists /\ s = idx[n].head + 1
               /\ \E k \in DOMAIN file'[n].blocks : file'[n].blocks[k] = Block(s, p)
      BY AppendedBlock DEF IInv, Functions
    <2>2. op' = [at |-> "header", note |-> n, sequence |-> s, entries |-> p]
      OBVIOUS
    <2>3. Functions'
      BY <2>1, <2>2 DEF IInv, Functions, Operation
    <2>4. OperationIsSound'
      BY <2>1, <2>2 DEF OperationIsSound, EventWaits
    <2> QED
      BY <2>1, <2>3, <2>4, OneNoteChanges
  <1>2. CASE TearEvent(n, s, p)
    <2> USE <1>2 DEF TearEvent
    <2>1. PICK m \in 0..Len(p) - 1 : Appended(n, s, SubSeq(p, 1, m))
      OBVIOUS
    <2>2. SubSeq(p, 1, m) \in FirstBlocks
      BY DEF FirstBlocks
    <2>3. /\ DOMAIN marred' = FileNotes /\ \A k \in FileNotes \ {n} : marred'[k] = marred[k]
          /\ marred[n] = "cut" => marred'[n] = "cut"
      BY DEF Mar, IInv, Functions
    <2>4. /\ DOMAIN file' = FileNotes /\ \A k \in FileNotes \ {n} : file'[k] = file[k]
          /\ marred'[n] = "cut" \/ Sound(n)'
      BY <2>1, <2>2, <2>3, AppendedBlock
    <2>5. Functions' /\ OperationIsSound'
      BY <2>3, <2>4 DEF IInv, Functions, Operation, OperationIsSound, Free
    <2> QED
      BY <2>3, <2>4, <2>5, OneNoteChanges
  <1> QED
    BY <1>1, <1>2

-----------------------------------------------------------------------------
(* A transaction replaces the entry as a whole.                            *)
LEMMA UpsertReplaces ==
  ASSUME NEW n, NEW fields, NEW type, NEW head, NEW content,
         Upsert(n, IndexEntry(fields, type, head, content))
  PROVE  \E entry : idx' = [idx EXCEPT ![n] = entry] /\ entry.head = head /\ entry.exists = TRUE
  <1>1. idx' = [idx EXCEPT ![n] = IndexEntry(fields, type, head, content)]
    BY DEF Upsert
  <1>2. /\ IndexEntry(fields, type, head, content).head = head
        /\ IndexEntry(fields, type, head, content).exists = TRUE
    BY DEF IndexEntry
  <1> QED
    BY <1>1, <1>2

LEMMA HeaderChange ==
  ASSUME NEW f \in NotxFile, NEW h \in Nat, NEW g, g = [f EXCEPT !.head = h]
  PROVE  g \in NotxFile /\ g.head = h /\ g.blocks = f.blocks /\ g.readable = f.readable
  <1>1. f = [exists |-> f.exists, readable |-> f.readable, title |-> f.title, type |-> f.type,
             head |-> f.head, blocks |-> f.blocks]
    BY DEF NotxFile
  <1>2. g = [exists |-> f.exists, readable |-> f.readable, title |-> f.title, type |-> f.type,
             head |-> h, blocks |-> f.blocks]
    BY <1>1
  <1>3. /\ f.exists = TRUE /\ f.readable \in BOOLEAN /\ f.title \in Titles
        /\ f.type \in Types /\ f.blocks \in Seq(BlockSet)
    BY DEF NotxFile
  <1> QED
    BY <1>2, <1>3 DEF NotxFile

(* The header follows the block.                                           *)
LEMMA UpdateHeaderKeepsIInv == IInv /\ UpdateHeader => IInv'
  <1> SUFFICES ASSUME IInv, UpdateHeader PROVE IInv'
    OBVIOUS
  <1> USE DEF UpdateHeader
  <1>0. PICK n \in FileNotes : n = op.note
    BY OperationKinds DEF IInv
  <1>1. /\ op \in [at : {"header", "index"}, note : FileNotes, sequence : Nat, entries : Payloads]
        /\ op # Idle /\ op.at = "header" /\ op' = [op EXCEPT !.at = "index"]
        /\ UNCHANGED <<idx, acked, marred>>
    BY OperationKinds DEF IInv
  <1>2. /\ op'.at = "index" /\ op'.note = n /\ op'.sequence = op.sequence /\ op'.entries = op.entries
        /\ op' \in Operation
    BY <1>0, <1>1 DEF Operation
  <1>3. file' = [file EXCEPT ![n] = [file[n] EXCEPT !.head = IF file[n].readable THEN op.sequence ELSE @]]
    BY <1>0
  <1>4. /\ Functions' /\ \A m \in FileNotes \ {n} : file'[m] = file[m]
        /\ file'[n] = [file[n] EXCEPT !.head = IF file[n].readable THEN op.sequence ELSE @]
    BY <1>1, <1>2, <1>3 DEF IInv, Functions
  <1>5. ASSUME marred[n] # "cut" PROVE Sound(n)' /\ EventWaits(n)'
    <2>1. /\ idx[n].exists /\ op.sequence = idx[n].head + 1
          /\ \E k \in DOMAIN file[n].blocks : file[n].blocks[k] = Block(op.sequence, op.entries)
          /\ Indexed(file[n], idx[n]) /\ AcksAreOnDisk(n)
      BY <1>0, <1>1, <1>5 DEF IInv, OperationIsSound, EventWaits, NotesAreSound, Sound
    <2>2. /\ file'[n] \in NotxFile /\ file'[n].head = op.sequence
          /\ file'[n].blocks = file[n].blocks /\ file'[n].readable
      <3>1. op.sequence \in Nat
        BY <1>1
      <3>2. file[n] \in NotxFile /\ file[n].readable
        BY <2>1 DEF Indexed
      <3>3. file'[n] = [file[n] EXCEPT !.head = op.sequence]
        BY <1>4, <3>2
      <3> QED
        BY <3>1, <3>2, <3>3, HeaderChange
    <2>3. Indexed(file'[n], idx[n])
      <3>1. Block(op.sequence, op.entries).sequence = op.sequence
        BY DEF Block
      <3>2. ASSUME NEW s \in 1..op.sequence PROVE \E k \in DOMAIN file[n].blocks : file[n].blocks[k].sequence = s
        <4>1. CASE s \in 1..file[n].head
          BY <2>1, <4>1 DEF Indexed
        <4>2. CASE s = op.sequence
          BY <2>1, <3>1, <4>2
        <4> QED
          <5>1. op.sequence \in Nat /\ file[n].head \in Nat /\ file[n].head >= op.sequence - 1
            <6>1. file[n] \in NotxFile /\ idx[n].head \in Nat /\ idx[n].head <= file[n].head
              BY <2>1 DEF Indexed
            <6>2. file[n].head \in Nat
              BY <6>1 DEF NotxFile
            <6> QED
              BY <1>1, <2>1, <6>1, <6>2
          <5> QED
            BY <4>1, <4>2, <5>1
      <3> QED
        BY <1>1, <2>1, <2>2, <3>2 DEF Indexed
    <2>4. Sound(n)'
      BY <1>1, <2>1, <2>2, <2>3 DEF Sound, AcksAreOnDisk
    <2>5. EventWaits(n)'
      BY <1>1, <1>2, <2>1, <2>2 DEF EventWaits
    <2> QED
      BY <2>4, <2>5
  <1>6. OperationIsSound'
    BY <1>1, <1>2, <1>5 DEF OperationIsSound
  <1> QED
    BY <1>1, <1>4, <1>5, <1>6, OneNoteChanges

LEMMA HeaderFailuresKeepIInv == IInv /\ (HeaderFails \/ TearHeader \/ IndexFails) => IInv'
  <1> SUFFICES ASSUME IInv, HeaderFails \/ TearHeader \/ IndexFails PROVE IInv'
    OBVIOUS
  <1>0. PICK n \in FileNotes : n = op.note
    BY OperationKinds DEF IInv, HeaderFails, TearHeader, IndexFails
  <1>1. op' = Idle /\ UNCHANGED <<idx, acked>>
    BY DEF HeaderFails, TearHeader, IndexFails
  <1>2. CASE HeaderFails \/ IndexFails
    <2>1. DOMAIN marred' = FileNotes /\ \A m \in FileNotes : marred[m] = "cut" => marred'[m] = "cut"
      BY <1>0, <1>2 DEF HeaderFails, IndexFails, Mar, IInv, Functions
    <2> QED
      BY <1>1, <1>2, <2>1, EndKeepsIInv DEF HeaderFails, IndexFails
  <1>3. CASE TearHeader
    <2>1. PICK f : file' = [file EXCEPT ![n] = f]
      BY <1>0, <1>3 DEF TearHeader
    <2>2. /\ DOMAIN marred' = FileNotes /\ marred'[n] = "cut"
          /\ \A m \in FileNotes \ {n} : marred'[m] = marred[m]
      BY <1>0, <1>3 DEF TearHeader, Mar, IInv, Functions
    <2>3. Functions' /\ \A m \in FileNotes \ {n} : file'[m] = file[m]
      BY <1>1, <2>1, <2>2 DEF IInv, Functions, Operation
    <2>4. OperationIsSound'
      BY <1>1 DEF OperationIsSound
    <2> QED
      BY <1>1, <2>2, <2>3, <2>4, OneNoteChanges
  <1> QED
    BY <1>2, <1>3

(* The index follows the header, and the append is acknowledged.           *)
LEMMA UpsertIndexKeepsIInv == IInv /\ UpsertIndex => IInv'
  <1> SUFFICES ASSUME IInv, UpsertIndex PROVE IInv'
    OBVIOUS
  <1>0. PICK n \in FileNotes : n = op.note
    BY OperationKinds DEF IInv, UpsertIndex
  <1>1. /\ op # Idle /\ op.at = "index" /\ op' = Idle /\ UNCHANGED <<file, marred>>
        /\ op.sequence \in Nat
        /\ acked' = acked \cup {<<n, op.sequence, op.entries>>}
    BY <1>0, OperationKinds DEF IInv, UpsertIndex
  <1>2. PICK entry : idx' = [idx EXCEPT ![n] = entry] /\ entry.head = op.sequence /\ entry.exists = TRUE
    <2> DEFINE entry == IndexEntry(idx[n], idx[n].type, op.sequence, NewContent(n, op.entries))
    <2>1. idx' = [idx EXCEPT ![n] = entry]
      BY <1>0 DEF UpsertIndex, Upsert
    <2>2. entry.head = op.sequence /\ entry.exists = TRUE
      BY DEF IndexEntry
    <2> QED
      BY <2>1, <2>2
  <1>3. Functions' /\ idx'[n] = entry /\ \A m \in FileNotes \ {n} : idx'[m] = idx[m]
    BY <1>1, <1>2 DEF IInv, Functions, Operation
  <1>4. OperationIsSound'
    BY <1>1 DEF OperationIsSound
  <1>5. ASSUME marred[n] # "cut" PROVE Sound(n)'
    <2>1. /\ idx[n].exists /\ op.sequence = idx[n].head + 1 /\ file[n].head = op.sequence
          /\ \E k \in DOMAIN file[n].blocks : file[n].blocks[k] = Block(op.sequence, op.entries)
          /\ Indexed(file[n], idx[n]) /\ AcksAreOnDisk(n)
      BY <1>0, <1>1, <1>5 DEF IInv, OperationIsSound, EventWaits, NotesAreSound, Sound
    <2>2. Indexed(file[n], entry)
      <3>1. file[n].blocks \in Seq(BlockSet)
        BY <2>1 DEF Indexed, NotxFile
      <3>2. \A k \in DOMAIN file[n].blocks : file[n].blocks[k].sequence <= op.sequence + 1
        <4>1. \A k \in DOMAIN file[n].blocks : file[n].blocks[k] \in BlockSet
          BY <3>1
        <4>2. \A k \in DOMAIN file[n].blocks : file[n].blocks[k].sequence \in Nat
          BY <4>1 DEF BlockSet
        <4>3. \A k \in DOMAIN file[n].blocks : file[n].blocks[k].sequence <= op.sequence
          BY <2>1 DEF Indexed
        <4> QED
          BY <1>1, <4>2, <4>3
      <3> QED
        BY <1>1, <1>2, <2>1, <3>2 DEF Indexed
    <2>3. AcksAreOnDisk(n)'
      BY <1>1, <1>2, <1>3, <2>1 DEF AcksAreOnDisk
    <2> QED
      BY <1>1, <1>2, <1>3, <2>2, <2>3 DEF Sound
  <1> QED
    BY <1>1, <1>3, <1>4, <1>5, OneNoteChanges

LEMMA UpdateKeepsIInv ==
  ASSUME IInv, NEW n \in FileNotes, NEW fields, Update(n, fields)
  PROVE  IInv'
  <1>1. op' = op /\ op = Idle /\ UNCHANGED <<file, acked, marred>> /\ idx[n].exists
    BY DEF Update, Free
  <1>2. PICK entry : idx' = [idx EXCEPT ![n] = entry] /\ entry.head = idx[n].head /\ entry.exists = TRUE
    <2>1. Upsert(n, IndexEntry(fields, idx[n].type, idx[n].head, idx[n].content))
      BY DEF Update
    <2> QED
      BY ONLY <2>1, UpsertReplaces
  <1>3. Functions' /\ idx'[n] = entry /\ \A m \in FileNotes \ {n} : idx'[m] = idx[m]
    BY <1>1, <1>2 DEF IInv, Functions
  <1>4. OperationIsSound'
    BY <1>1 DEF OperationIsSound
  <1>5. ASSUME marred[n] # "cut" PROVE Sound(n)'
    <2>1. Indexed(file[n], idx[n]) /\ AcksAreOnDisk(n)
      BY <1>1, <1>5 DEF IInv, NotesAreSound, Sound
    <2>2. Indexed(file[n], entry)
      BY <1>2, <2>1 DEF Indexed
    <2> QED
      BY <1>1, <1>2, <1>3, <2>1, <2>2 DEF Sound, AcksAreOnDisk
  <1> QED
    BY <1>1, <1>3, <1>4, <1>5, OneNoteChanges

(* A note that Badger does not know is read from its file.                 *)
LEMMA GetKeepsIInv == ASSUME IInv, NEW n \in FileNotes, GetUnindexed(n) PROVE IInv'
  <1>1. /\ op' = op /\ op = Idle /\ UNCHANGED <<file, acked, marred>>
        /\ ~ idx[n].exists /\ Parses(file[n])
    BY DEF GetUnindexed, Free
  <1>2. idx' = [idx EXCEPT ![n] = FromFile(file[n])]
    BY DEF GetUnindexed, Upsert
  <1>3. Functions' /\ idx'[n] = FromFile(file[n]) /\ \A m \in FileNotes \ {n} : idx'[m] = idx[m]
    BY <1>1, <1>2 DEF IInv, Functions
  <1>4. OperationIsSound'
    BY <1>1 DEF OperationIsSound
  <1>5. ASSUME marred[n] # "cut" PROVE Sound(n)'
    <2>1. Unindexed(file[n]) /\ AcksAreOnDisk(n)
      BY <1>1, <1>5 DEF IInv, NotesAreSound, Sound
    <2>2. /\ file[n] \in NotxFile /\ file[n].readable /\ Len(file[n].blocks) = file[n].head
          /\ \A k \in DOMAIN file[n].blocks : file[n].blocks[k].sequence = k
      BY <1>1, <2>1 DEF Parses, Unindexed, NoFile
    <2>3. FromFile(file[n]).exists = TRUE /\ Indexed(file[n], FromFile(file[n]))
      BY <2>2, FromFileIsIndexed
    <2> QED
      BY <1>1, <1>3, <2>1, <2>3 DEF Sound, AcksAreOnDisk
  <1> QED
    BY <1>1, <1>3, <1>4, <1>5, OneNoteChanges

(* The file of an indexed note that is behind has exactly the blocks its   *)
(* header counts, so that the new entry is not behind the old one.         *)
LEMMA ReconciledFile ==
  ASSUME NEW n \in FileNotes, Indexed(file[n], idx[n]), idx[n].head < file[n].head, Parses(file[n])
  PROVE  /\ file[n] \in NotxFile /\ file[n].readable /\ Len(file[n].blocks) = file[n].head
         /\ \A k \in DOMAIN file[n].blocks : file[n].blocks[k].sequence = k
  <1>1. /\ file[n] \in NotxFile /\ file[n].readable /\ file[n].head \in Nat /\ idx[n].head \in Nat
        /\ file[n].blocks \in Seq(BlockSet) /\ file[n].head = idx[n].head + 1
    <2>1. /\ file[n] \in NotxFile /\ file[n].readable /\ idx[n].head \in Nat
          /\ file[n].head <= idx[n].head + 1
      BY DEF Indexed
    <2>2. file[n].head \in Nat /\ file[n].blocks \in Seq(BlockSet)
      BY <2>1 DEF NotxFile
    <2> QED
      BY <2>1, <2>2
  <1>2. \A k \in DOMAIN file[n].blocks : file[n].blocks[k].sequence = k
    BY DEF Parses
  <1> DEFINE size == Len(file[n].blocks)
  <1>3. size \in Nat /\ DOMAIN file[n].blocks = 1..size
    BY <1>1
  <1>4. file[n].head <= size
    <2>1. PICK k \in DOMAIN file[n].blocks : file[n].blocks[k].sequence = file[n].head
      BY <1>1 DEF Indexed
    <2> QED
      BY <1>1, <1>2, <1>3, <2>1
  <1>5. size <= file[n].head
    <2>1. CASE size = 0
      BY <1>1, <2>1
    <2>2. CASE size > 0
      <3>1. size \in DOMAIN file[n].blocks /\ file[n].blocks[size].sequence <= idx[n].head + 1
        BY <1>3, <2>2 DEF Indexed
      <3> QED
        BY <1>1, <1>2, <3>1
    <2> QED
      BY <1>3, <2>1, <2>2
  <1> QED
    BY <1>1, <1>2, <1>3, <1>4, <1>5

(* The index after a start-up, and that no head went back.                 *)
LEMMA RestartedNote ==
  ASSUME IInv, Restart, NEW n \in FileNotes, marred[n] # "cut"
  PROVE  Sound(n)' /\ (idx[n].exists => idx'[n].exists /\ idx'[n].head >= idx[n].head)
  <1>1. UNCHANGED <<file, acked, marred>> /\ idx'[n] = IF Behind(n) THEN FromFile(file[n]) ELSE idx[n]
    BY DEF Restart
  <1>2. Sound(n)
    BY DEF IInv, NotesAreSound
  <1>3. CASE ~ Behind(n)
    <2>1. Sound(n)'
      BY <1>1, <1>2, <1>3 DEF Sound, AcksAreOnDisk
    <2> QED
      BY <1>1, <1>2, <1>3, <2>1 DEF Sound, Indexed
  <1>4. CASE Behind(n)
    <2>1. /\ file[n].exists /\ file[n].readable /\ Parses(file[n])
          /\ idx[n].exists => idx[n].head < file[n].head
      BY <1>4 DEF Behind
    <2>2. /\ file[n] \in NotxFile /\ file[n].readable /\ Len(file[n].blocks) = file[n].head
          /\ \A k \in DOMAIN file[n].blocks : file[n].blocks[k].sequence = k
      <3>1. CASE idx[n].exists
        BY <1>2, <2>1, <3>1, ReconciledFile DEF Sound
      <3>2. CASE ~ idx[n].exists
        BY <1>2, <2>1, <3>2 DEF Sound, Unindexed, NoFile, Parses
      <3> QED
        BY <3>1, <3>2
    <2>3. FromFile(file[n]).exists = TRUE /\ Indexed(file[n], FromFile(file[n]))
      BY <2>2, FromFileIsIndexed
    <2>4. Sound(n)'
      BY <1>1, <1>2, <1>4, <2>3 DEF Sound, AcksAreOnDisk
    <2>5. ASSUME idx[n].exists PROVE idx'[n].head >= idx[n].head
      <3>1. FromFile(file[n]).head = file[n].head
        BY <2>2 DEF FromFile, IndexEntry
      <3> QED
        BY <1>1, <1>2, <1>4, <2>1, <2>5, <3>1 DEF Sound, Indexed, NotxFile
    <2> QED
      BY <1>1, <1>4, <2>3, <2>4, <2>5
  <1> QED
    BY <1>3, <1>4

(* No operation survives the end of the process.                           *)
DownIsIdle == up \in BOOLEAN /\ (~ up => op = Idle)

LEMMA DownIsIdleStep == IInv /\ DownIsIdle /\ [Next]_vars => DownIsIdle'
  <1> SUFFICES ASSUME IInv, DownIsIdle, [Next]_vars PROVE DownIsIdle'
    OBVIOUS
  <1> USE DEF DownIsIdle, Free
  <1>1. ASSUME NEW n \in FileNotes,
               \/ WriteStub(n) \/ TearStub(n) \/ Delete(n) \/ GetUnindexed(n) \/ CopyIn(n)
               \/ \E f \in Fields : Update(n, f)
        PROVE  DownIsIdle'
    BY <1>1 DEF WriteStub, TearStub, Delete, Update, GetUnindexed, CopyIn
  <1>2. ASSUME NEW n \in FileNotes, NEW s, NEW p, WriteEvent(n, s, p) \/ TearEvent(n, s, p)
        PROVE  DownIsIdle'
    BY <1>2 DEF WriteEvent, TearEvent
  <1>3. CASE IndexStub \/ IndexStubFails \/ HeaderFails \/ TearHeader \/ UpsertIndex \/ IndexFails
    BY <1>3 DEF IndexStub, IndexStubFails, HeaderFails, TearHeader, UpsertIndex, IndexFails
  <1>4. CASE UpdateHeader
    BY <1>4, OperationKinds DEF UpdateHeader, IInv
  <1>5. CASE Crash \/ Restart
    BY <1>5 DEF Crash, Restart
  <1>6. CASE UNCHANGED vars
    BY <1>6 DEF vars
  <1> QED
    BY <1>1, <1>2, <1>3, <1>4, <1>5, <1>6 DEF Next

LEMMA RestartKeepsIInv == IInv /\ DownIsIdle /\ Restart => IInv'
  <1> SUFFICES ASSUME IInv, DownIsIdle, Restart PROVE IInv'
    OBVIOUS
  <1>1. UNCHANGED <<file, op, acked, marred>> /\ DOMAIN idx' = FileNotes
    BY DEF Restart
  <1>2. Functions'
    BY <1>1 DEF IInv, Functions
  <1>3. NotesAreSound'
    BY <1>1, RestartedNote DEF NotesAreSound
  <1>4. op = Idle
    BY DEF Restart, DownIsIdle
  <1> QED
    BY <1>1, <1>2, <1>3, <1>4 DEF IInv, OperationIsSound

LEMMA IInvStep == IInv /\ DownIsIdle /\ [Next]_vars => IInv'
  <1> SUFFICES ASSUME IInv, DownIsIdle, [Next]_vars PROVE IInv'
    OBVIOUS
  <1>1. ASSUME NEW n \in FileNotes, WriteStub(n) \/ TearStub(n) \/ CopyIn(n) PROVE IInv'
    BY <1>1, CreationKeepsIInv
  <1>2. ASSUME NEW n \in FileNotes, GetUnindexed(n) PROVE IInv'
    BY <1>2, GetKeepsIInv
  <1>3. ASSUME NEW n \in FileNotes, NEW f \in Fields, Update(n, f) PROVE IInv'
    BY <1>3, UpdateKeepsIInv
  <1>4. ASSUME NEW n \in FileNotes, Delete(n) PROVE IInv'
    BY <1>4, UpdateKeepsIInv DEF Delete
  <1>5. ASSUME NEW n \in FileNotes, NEW s \in 1..MaxEvents, NEW p \in Payloads,
               WriteEvent(n, s, p) \/ TearEvent(n, s, p)
        PROVE  IInv'
    BY <1>5, EventKeepsIInv, FileBounds
  <1>6. CASE IndexStub \/ IndexStubFails
    BY <1>6, IndexStubKeepsIInv
  <1>7. CASE UpdateHeader
    BY <1>7, UpdateHeaderKeepsIInv
  <1>8. CASE HeaderFails \/ TearHeader \/ IndexFails
    BY <1>8, HeaderFailuresKeepIInv
  <1>9. CASE UpsertIndex
    BY <1>9, UpsertIndexKeepsIInv
  <1>10. CASE Crash
    <2>1. DOMAIN marred' = FileNotes /\ \A n \in FileNotes : marred[n] = "cut" => marred'[n] = "cut"
      BY <1>10, OperationKinds DEF Crash, Mar, IInv, Functions
    <2> QED
      BY <1>10, <2>1, EndKeepsIInv DEF Crash
  <1>11. CASE Restart
    BY <1>11, RestartKeepsIInv
  <1>12. CASE UNCHANGED vars
    BY <1>12, EndKeepsIInv DEF vars, IInv, Functions
  <1> QED
    BY <1>1, <1>2, <1>3, <1>4, <1>5, <1>6, <1>7, <1>8, <1>9, <1>10, <1>11, <1>12 DEF Next

LEMMA DownIsIdleInit == Init => DownIsIdle
  BY DEF Init, DownIsIdle

LEMMA Invariance == Spec => [](IInv /\ DownIsIdle)
  BY IInvInit, DownIsIdleInit, IInvStep, DownIsIdleStep, PTL DEF Spec

(* An acknowledged append is in its note's file, whatever step of          *)
(* AppendEvent fails or is torn later, and however often the process ends, *)
(* unless os.WriteFile of that file was torn.                              *)
THEOREM AcknowledgedStaysOnDisk == Spec => []AcknowledgedIsOnDisk
  <1>1. IInv => AcknowledgedIsOnDisk
    BY DEF IInv, NotesAreSound, Sound, AcksAreOnDisk, AcknowledgedIsOnDisk
  <1> QED
    BY Invariance, <1>1, PTL

(* Badger is never ahead of the header, nor the header of the blocks, so   *)
(* that reconcile may compare the heads alone.                             *)
THEOREM IndexFollowsFile == Spec => []IndexNeverLeads
  <1>1. IInv => IndexNeverLeads
    <2> SUFFICES ASSUME IInv, NEW n \in FileNotes, idx[n].exists, marred[n] # "cut"
                 PROVE  /\ file[n].exists /\ idx[n].head <= file[n].head
                        /\ \A s \in 1..file[n].head :
                             \E k \in DOMAIN file[n].blocks : file[n].blocks[k].sequence = s
      BY DEF IndexNeverLeads
    <2>1. Indexed(file[n], idx[n])
      BY DEF IInv, NotesAreSound, Sound
    <2> QED
      BY <2>1 DEF Indexed, NotxFile
  <1> QED
    BY Invariance, <1>1, PTL

(* Neither a retry nor a start-up takes a head back.                       *)
LEMMA HeadGrows ==
  ASSUME IInv, [Next]_vars, NEW n \in FileNotes, idx[n].exists, marred[n] # "cut"
  PROVE  idx'[n].exists /\ idx'[n].head >= idx[n].head
  <1>1. Indexed(file[n], idx[n]) /\ idx[n].head \in Nat /\ DOMAIN idx = FileNotes
    BY DEF IInv, NotesAreSound, Sound, Indexed, Functions
  <1>2. CASE idx'[n] = idx[n]
    BY <1>1, <1>2
  <1>3. ASSUME NEW m \in FileNotes, GetUnindexed(m) PROVE idx'[n] = idx[n]
    BY <1>1, <1>3 DEF GetUnindexed, Upsert
  <1>4. ASSUME NEW m \in FileNotes, NEW f, Update(m, f)
        PROVE  idx'[n].exists /\ idx'[n].head >= idx[n].head
    BY <1>1, <1>4 DEF Update, Upsert, IndexEntry
  <1>5. ASSUME NEW m \in FileNotes,
               \/ WriteStub(m) \/ TearStub(m) \/ CopyIn(m)
               \/ \E s \in 1..MaxEvents, p \in Payloads : WriteEvent(m, s, p) \/ TearEvent(m, s, p)
        PROVE  idx'[n] = idx[n]
    BY <1>5 DEF WriteStub, TearStub, CopyIn, WriteEvent, TearEvent
  <1>6. CASE IndexStub
    <2>1. op.note \in FileNotes /\ op # Idle /\ op.note # n
      BY <1>6, OperationKinds DEF IInv, IndexStub, OperationIsSound, StubWaits
    <2> QED
      BY <1>1, <1>2, <1>6, <2>1 DEF IndexStub, Upsert
  <1>7. CASE UpsertIndex
    <2>1. op.note \in FileNotes /\ (op.note = n => op.sequence = idx[n].head + 1)
      BY <1>7, OperationKinds DEF IInv, UpsertIndex, OperationIsSound, EventWaits
    <2>2. idx' = [idx EXCEPT ![op.note] =
                    IndexEntry(idx[op.note], idx[op.note].type, op.sequence, NewContent(op.note, op.entries))]
      BY <1>7 DEF UpsertIndex, Upsert
    <2> QED
      BY <1>1, <2>1, <2>2 DEF IndexEntry
  <1>8. CASE IndexStubFails \/ UpdateHeader \/ HeaderFails \/ TearHeader \/ IndexFails \/ Crash
    BY <1>2, <1>8 DEF IndexStubFails, UpdateHeader, HeaderFails, TearHeader, IndexFails, Crash
  <1>9. CASE Restart
    BY <1>9, RestartedNote
  <1>10. CASE UNCHANGED vars
    BY <1>2, <1>10 DEF vars
  <1> QED
    BY <1>2, <1>3, <1>4, <1>5, <1>6, <1>7, <1>8, <1>9, <1>10 DEF Next, Delete

(* The head of an indexed note grows, except where its file was torn.      *)
THEOREM HeadsNeverGoBack == Spec => HeadsOnlyGrow
  <1>1. IInv /\ [Next]_vars =>
          [\A n \in FileNotes : idx[n].exists /\ marred[n] # "cut" =>
             idx'[n].exists /\ idx'[n].head >= idx[n].head]_vars
    BY HeadGrows
  <1> QED
    BY Invariance, <1>1, PTL DEF Spec, HeadsOnlyGrow

-----------------------------------------------------------------------------
(* The search keys.  The type of a note is the one of its file, and never  *)
(* changes, torn or not.                                                   *)
IsFile(f) ==
  /\ f.exists = TRUE /\ f.type \in Types
  /\ DOMAIN f = {"exists", "readable", "title", "type", "head", "blocks"}

(* A normal note has a key for every word of its text, a secure note and a *)
(* note that Badger does not know have none.                               *)
Searchable(n) ==
  /\ file[n] = NoFile \/ IsFile(file[n])
  /\ idx[n].exists \in BOOLEAN
  /\ IF idx[n].exists
     THEN /\ IsFile(file[n]) /\ idx[n].type = file[n].type
          /\ IF idx[n].type = "normal" THEN Words(idx[n].content) \subseteq terms[n]
             ELSE idx[n].content = EmptyString /\ terms[n] = {}
     ELSE terms[n] = {}

(* The operation indexes a file of its own: a stub is not yet known, and an*)
(* append was validated against an entry.                                  *)
OperationHasNote ==
  /\ op.at = "stub" => IsFile(file[op.note]) /\ ~ idx[op.note].exists
  /\ op.at \in {"header", "index"} => idx[op.note].exists

KeysInv ==
  /\ DOMAIN terms = FileNotes /\ OperationHasNote
  /\ \A n \in FileNotes : Searchable(n)

LEMMA KeysInvInit == Init => KeysInv
  <1> SUFFICES ASSUME Init PROVE KeysInv
    OBVIOUS
  <1>1. DOMAIN terms = FileNotes /\ OperationHasNote
    BY DEF Init, OperationHasNote, Idle
  <1>2. ASSUME NEW n \in FileNotes PROVE Searchable(n)
    <2>1. file[n] = NoFile /\ idx[n].exists = FALSE /\ terms[n] = {}
      BY DEF Init, NoEntry
    <2> QED
      BY <2>1 DEF Searchable
  <1> QED
    BY <1>1, <1>2 DEF KeysInv

(* Whatever text is stored with the type of the file, its words are keys.  *)
LEMMA StoredTextIsSearchable ==
  ASSUME Functions, DOMAIN terms = FileNotes, NEW n \in FileNotes, Searchable(n), UNCHANGED file,
         IsFile(file[n]), NEW fields, NEW head, NEW content,
         Upsert(n, IndexEntry(fields, file[n].type, head, content))
  PROVE  Searchable(n)' /\ idx'[n].exists /\ DOMAIN terms' = FileNotes
         /\ \A m \in FileNotes \ {n} : idx'[m] = idx[m] /\ terms'[m] = terms[m]
  <1> DEFINE entry == IndexEntry(fields, file[n].type, head, content)
  <1>1. /\ entry.exists = TRUE /\ entry.type = file[n].type
        /\ entry.content = IF file[n].type = "normal" THEN content ELSE EmptyString
    BY DEF IndexEntry
  <1> HIDE DEF entry
  <1>2. /\ idx' = [idx EXCEPT ![n] = entry]
        /\ terms' = [terms EXCEPT ![n] = @ \cup
                       (IF entry.type = "normal" THEN Words(entry.content) ELSE {})]
    BY DEF Upsert, entry
  <1>3. /\ idx'[n] = entry /\ terms'[n] = terms[n] \cup (IF entry.type = "normal" THEN Words(entry.content) ELSE {})
        /\ DOMAIN terms' = FileNotes
        /\ \A m \in FileNotes \ {n} : idx'[m] = idx[m] /\ terms'[m] = terms[m]
    BY <1>2 DEF Functions
  <1>4. entry.type # "normal" => terms[n] = {}
    BY <1>1 DEF Searchable
  <1> QED
    BY <1>1, <1>3, <1>4 DEF Searchable, IsFile

(* A note whose rows a step leaves alone, and whose file keeps its type.   *)
LEMMA StaysSearchable ==
  ASSUME NEW n, Searchable(n), idx'[n] = idx[n], terms'[n] = terms[n],
         \/ file'[n] = file[n]
         \/ IsFile(file[n]) /\ IsFile(file'[n]) /\ file'[n].type = file[n].type
         \/ ~ idx[n].exists /\ (file'[n] = NoFile \/ IsFile(file'[n]))
  PROVE  Searchable(n)'
  BY DEF Searchable

(* A step that stores a text of one note.                                  *)
LEMMA StoreKeepsKeysInv ==
  ASSUME KeysInv, Functions, NEW n \in FileNotes, UNCHANGED file, IsFile(file[n]),
         NEW fields, NEW head, NEW content,
         Upsert(n, IndexEntry(fields, file[n].type, head, content)), op' = Idle
  PROVE  KeysInv'
  <1>1. /\ Searchable(n)' /\ DOMAIN terms' = FileNotes
        /\ \A m \in FileNotes \ {n} : idx'[m] = idx[m] /\ terms'[m] = terms[m]
    BY StoredTextIsSearchable DEF KeysInv
  <1>2. \A m \in FileNotes : Searchable(m)'
    BY <1>1, StaysSearchable DEF KeysInv
  <1> QED
    BY <1>1, <1>2 DEF KeysInv, OperationHasNote, Idle

(* A step that writes to the file of one note.                             *)
LEMMA WriteKeepsKeysInv ==
  ASSUME KeysInv, Functions, NEW n \in FileNotes, NEW f, file' = [file EXCEPT ![n] = f],
         UNCHANGED <<idx, terms>>,
         \/ IsFile(file[n]) /\ IsFile(f) /\ f.type = file[n].type
         \/ ~ idx[n].exists /\ (f = NoFile \/ IsFile(f)),
         OperationHasNote'
  PROVE  KeysInv'
  <1>1. file'[n] = f /\ \A m \in FileNotes \ {n} : file'[m] = file[m]
    BY DEF Functions
  <1>2. \A m \in FileNotes : Searchable(m)'
    BY <1>1, StaysSearchable DEF KeysInv
  <1> QED
    BY <1>2 DEF KeysInv

LEMMA RestKeepsKeysInv ==
  ASSUME KeysInv, UNCHANGED <<file, idx, terms>>, op' \in {op, Idle}
  PROVE  KeysInv'
  BY StaysSearchable DEF KeysInv, OperationHasNote, Idle

(* Which notes a file or an entry is there for.                            *)
LEMMA IndexedHasFile ==
  ASSUME KeysInv, NEW n \in FileNotes
  PROVE  /\ file[n].exists => IsFile(file[n])
         /\ idx[n].exists => IsFile(file[n]) /\ idx[n].type = file[n].type
  BY DEF KeysInv, Searchable, NoFile

LEMMA CreationKeepsKeysInv ==
  ASSUME KeysInv, Functions, NEW n \in FileNotes, WriteStub(n) \/ TearStub(n) \/ CopyIn(n)
  PROVE  KeysInv'
  <1>1. ~ file[n].exists /\ UNCHANGED <<idx, terms>> /\ ~ idx[n].exists
    BY IndexedHasFile DEF WriteStub, TearStub, CopyIn, IsFile
  <1>2. PICK f : file' = [file EXCEPT ![n] = f] /\ IsFile(f)
    <2>1. ASSUME NEW t, NEW y \in Types PROVE IsFile(Stub(t, y))
      BY <2>1 DEF Stub, IsFile
    <2>2. CASE WriteStub(n)
      BY <2>1, <2>2 DEF WriteStub
    <2>3. CASE TearStub(n)
      <3>1. PICK t \in Titles, y \in Types, complete \in BOOLEAN :
              file' = [file EXCEPT ![n] = [Stub(t, y) EXCEPT !.readable = complete]]
        BY <2>3 DEF TearStub
      <3> DEFINE stub == Stub(t, y)
      <3>2. IsFile(stub)
        BY <2>1
      <3> HIDE DEF stub
      <3>3. IsFile([stub EXCEPT !.readable = complete])
        BY <3>2 DEF IsFile
      <3> QED
        BY <3>1, <3>3 DEF stub
    <2>4. CASE CopyIn(n)
      <3>1. PICK t \in Titles, p \in Payloads :
              file' = [file EXCEPT ![n] = [Stub(t, "normal") EXCEPT !.head = 1, !.blocks = <<Block(1, p)>>]]
        BY <2>4 DEF CopyIn
      <3>2. IsFile([Stub(t, "normal") EXCEPT !.head = 1, !.blocks = <<Block(1, p)>>])
        BY <2>1 DEF IsFile, Types
      <3> QED
        BY <3>1, <3>2
    <2> QED
      BY <2>2, <2>3, <2>4
  <1>3. file'[n] = f
    BY <1>2 DEF Functions
  <1>4. op' = [at |-> "stub", note |-> n] \/ op' = Idle
    BY DEF WriteStub, TearStub, CopyIn, Free
  <1>5. OperationHasNote'
    BY <1>1, <1>2, <1>3, <1>4 DEF OperationHasNote, Idle
  <1> QED
    BY <1>1, <1>2, <1>5, WriteKeepsKeysInv

LEMMA EventKeepsKeysInv ==
  ASSUME KeysInv, Functions, NEW n \in FileNotes, NEW s, NEW p, WriteEvent(n, s, p) \/ TearEvent(n, s, p)
  PROVE  KeysInv'
  <1>1. UNCHANGED <<idx, terms>> /\ idx[n].exists
    BY DEF WriteEvent, TearEvent, Accepts
  <1>2. PICK q : Appended(n, s, q)
    BY DEF WriteEvent, TearEvent
  <1> DEFINE f == [file[n] EXCEPT !.blocks = Append(@, Block(s, q))]
  <1>3. file' = [file EXCEPT ![n] = f]
    BY <1>2 DEF Appended
  <1>4. IsFile(file[n]) /\ IsFile(f) /\ f.type = file[n].type
    BY <1>1, IndexedHasFile DEF IsFile
  <1>5. op' = [at |-> "header", note |-> n, sequence |-> s, entries |-> p] \/ op' = Idle
    BY DEF WriteEvent, TearEvent, Free
  <1>6. OperationHasNote'
    BY <1>1, <1>5 DEF OperationHasNote, Idle
  <1> HIDE DEF f
  <1> QED
    BY <1>1, <1>3, <1>4, <1>6, WriteKeepsKeysInv

LEMMA HeaderKeepsKeysInv ==
  ASSUME KeysInv, Functions, UpdateHeader \/ TearHeader
  PROVE  KeysInv'
  <1>0. PICK n \in FileNotes : n = op.note
    BY OperationKinds DEF UpdateHeader, TearHeader
  <1>1. UNCHANGED <<idx, terms>> /\ idx[n].exists /\ IsFile(file[n])
    BY <1>0, IndexedHasFile DEF UpdateHeader, TearHeader, KeysInv, OperationHasNote
  <1>2. CASE UpdateHeader
    <2> DEFINE f == [file[n] EXCEPT !.head = IF file[n].readable THEN op.sequence ELSE @]
    <2>1. file' = [file EXCEPT ![n] = f]
      BY <1>0, <1>2 DEF UpdateHeader
    <2>2. IsFile(f) /\ f.type = file[n].type
      BY <1>1 DEF IsFile
    <2>3. op'.at = "index" /\ op'.note = n
      BY <1>0, <1>2, OperationKinds DEF UpdateHeader
    <2>4. OperationHasNote'
      BY <1>1, <2>3 DEF OperationHasNote
    <2> HIDE DEF f
    <2> QED
      BY <1>1, <2>1, <2>2, <2>4, WriteKeepsKeysInv
  <1>3. CASE TearHeader
    <2> DEFINE g == [file[n] EXCEPT !.head = op.sequence]
    <2>1. PICK f \in Cuts(g) : file' = [file EXCEPT ![n] = f]
      BY <1>0, <1>3 DEF TearHeader
    <2>2. IsFile(g) /\ g.type = file[n].type
      BY <1>1 DEF IsFile
    <2> HIDE DEF g
    <2>3. IsFile(f) /\ f.type = g.type
      <3>1. \/ f = [g EXCEPT !.readable = FALSE, !.blocks = << >>]
            \/ \E b \in CutBlocks(g.blocks) : f = [g EXCEPT !.blocks = b]
        BY <2>1 DEF Cuts
      <3> QED
        BY <2>2, <3>1 DEF IsFile
    <2>4. OperationHasNote'
      BY <1>3 DEF OperationHasNote, TearHeader, Idle
    <2> QED
      BY <1>1, <2>1, <2>2, <2>3, <2>4, WriteKeepsKeysInv
  <1> QED
    BY <1>2, <1>3

LEMMA StubKeepsKeysInv ==
  ASSUME KeysInv, Functions, IndexStub \/ IndexStubFails
  PROVE  KeysInv'
  <1>0. PICK n \in FileNotes : n = op.note
    BY OperationKinds DEF IndexStub, IndexStubFails
  <1>1. IsFile(file[n]) /\ ~ idx[n].exists /\ op' = Idle
    BY <1>0 DEF IndexStub, IndexStubFails, KeysInv, OperationHasNote
  <1>2. CASE IndexStub
    BY <1>0, <1>1, <1>2, StoreKeepsKeysInv DEF IndexStub, FromFile
  <1>3. CASE IndexStubFails /\ file' = [file EXCEPT ![n] = NoFile]
    <2>1. OperationHasNote'
      BY <1>1 DEF OperationHasNote, Idle
    <2> QED
      BY <1>1, <1>3, <2>1, WriteKeepsKeysInv DEF IndexStubFails
  <1>4. CASE IndexStubFails /\ UNCHANGED file
    BY <1>1, <1>4, RestKeepsKeysInv DEF IndexStubFails
  <1> QED
    BY <1>0, <1>2, <1>3, <1>4 DEF IndexStubFails

LEMMA RestartKeepsKeysInv == ASSUME KeysInv, Functions, DownIsIdle, Restart PROVE KeysInv'
  <1>1. UNCHANGED <<file, op>> /\ op = Idle /\ DOMAIN terms' = FileNotes
    BY DEF Restart, DownIsIdle
  <1>2. ASSUME NEW n \in FileNotes PROVE Searchable(n)'
    <2>1. CASE ~ Behind(n)
      BY <1>1, <1>2, <2>1, StaysSearchable DEF Restart, KeysInv
    <2>2. CASE Behind(n)
      <3>1. IsFile(file[n]) /\ Searchable(n)
        BY <2>2, IndexedHasFile DEF Behind, KeysInv
      <3>2. /\ idx'[n] = FromFile(file[n])
            /\ terms'[n] = terms[n] \cup IF file[n].type = "normal" THEN Words(Replay(file[n])) ELSE {}
        BY <2>2 DEF Restart
      <3>3. /\ FromFile(file[n]).exists = TRUE /\ FromFile(file[n]).type = file[n].type
            /\ FromFile(file[n]).content = IF file[n].type = "normal" THEN Replay(file[n]) ELSE EmptyString
        BY DEF FromFile, IndexEntry
      <3>4. file[n].type # "normal" => terms[n] = {}
        BY <3>1 DEF Searchable
      <3> QED
        BY <1>1, <3>1, <3>2, <3>3, <3>4 DEF Searchable
    <2> QED
      BY <2>1, <2>2
  <1> QED
    BY <1>1, <1>2 DEF KeysInv, OperationHasNote, Idle

LEMMA KeysInvStep == IInv /\ DownIsIdle /\ KeysInv /\ [Next]_vars => KeysInv'
  <1> SUFFICES ASSUME IInv, DownIsIdle, KeysInv, [Next]_vars PROVE KeysInv'
    OBVIOUS
  <1>0. Functions
    BY DEF IInv
  <1>1. ASSUME NEW n \in FileNotes, WriteStub(n) \/ TearStub(n) \/ CopyIn(n) PROVE KeysInv'
    BY <1>0, <1>1, CreationKeepsKeysInv
  <1>2. ASSUME NEW n \in FileNotes, GetUnindexed(n) PROVE KeysInv'
    <2>1. /\ Upsert(n, FromFile(file[n])) /\ UNCHANGED <<file, op>> /\ op = Idle
          /\ IsFile(file[n])
      BY <1>2, IndexedHasFile DEF GetUnindexed, Free, Parses
    <2> QED
      BY <1>0, <2>1, StoreKeepsKeysInv DEF FromFile
  <1>3. ASSUME NEW n \in FileNotes, NEW f, Update(n, f) PROVE KeysInv'
    <2>1. /\ Upsert(n, IndexEntry(f, file[n].type, idx[n].head, idx[n].content))
          /\ UNCHANGED <<file, op>> /\ op = Idle /\ IsFile(file[n])
      BY <1>3, IndexedHasFile DEF Update, Free
    <2> QED
      BY <1>0, <2>1, StoreKeepsKeysInv
  <1>4. ASSUME NEW n \in FileNotes, NEW s, NEW p, WriteEvent(n, s, p) \/ TearEvent(n, s, p) PROVE KeysInv'
    BY <1>0, <1>4, EventKeepsKeysInv
  <1>5. CASE IndexStub \/ IndexStubFails
    BY <1>0, <1>5, StubKeepsKeysInv
  <1>6. CASE UpdateHeader \/ TearHeader
    BY <1>0, <1>6, HeaderKeepsKeysInv
  <1>7. CASE UpsertIndex
    <2>1. PICK n \in FileNotes : n = op.note
      BY <1>0, <1>7, OperationKinds DEF UpsertIndex
    <2>2. idx[n].exists /\ IsFile(file[n]) /\ idx[n].type = file[n].type
      BY <1>7, <2>1, IndexedHasFile DEF UpsertIndex, KeysInv, OperationHasNote
    <2>3. /\ Upsert(n, IndexEntry(idx[n], file[n].type, op.sequence, NewContent(n, op.entries)))
          /\ UNCHANGED file /\ op' = Idle
      BY <1>7, <2>1, <2>2 DEF UpsertIndex
    <2> QED
      BY <1>0, <2>2, <2>3, StoreKeepsKeysInv
  <1>8. CASE HeaderFails \/ IndexFails \/ Crash
    BY <1>8, RestKeepsKeysInv DEF HeaderFails, IndexFails, Crash
  <1>9. CASE Restart
    BY <1>0, <1>9, RestartKeepsKeysInv
  <1>10. CASE UNCHANGED vars
    BY <1>10, RestKeepsKeysInv DEF vars
  <1> QED
    BY <1>1, <1>2, <1>3, <1>4, <1>5, <1>6, <1>7, <1>8, <1>9, <1>10 DEF Next, Delete

(* Search finds a normal note by every word of its text, however the text  *)
(* got into Badger (Create, AppendEvent, Update, Get, reconcile), and it   *)
(* has no key of a secure note, whatever was torn or cut short.            *)
THEOREM SearchAlwaysFindsText == Spec => []SearchFindsText
  <1>1. KeysInv => SearchFindsText
    <2> SUFFICES ASSUME KeysInv, NEW n \in FileNotes, idx[n].exists
                 PROVE  /\ \A w \in Words(idx[n].content) : n \in Search(w)
                        /\ idx[n].type = "secure" => terms[n] = {}
      BY DEF SearchFindsText
    <2>1. Searchable(n) /\ IsFile(file[n])
      BY IndexedHasFile DEF KeysInv
    <2>2. CASE idx[n].type = "normal"
      BY <2>1, <2>2 DEF Searchable, Search
    <2>3. CASE idx[n].type # "normal"
      <3>1. Words(idx[n].content) = {}
        BY <2>1, <2>3 DEF Searchable, Words, EmptyString
      <3> QED
        BY <2>1, <2>3, <3>1 DEF Searchable
    <2> QED
      BY <2>2, <2>3
  <1> QED
    BY Invariance, KeysInvInit, KeysInvStep, <1>1, PTL DEF Spec

-----------------------------------------------------------------------------
(* The text.  The event is applied twice, by the replay of the file and by *)
(* the update of the index, and each is a fold over its entries.           *)
Shifting == INSTANCE Folding WITH op <- ApplyShifted
Writing == INSTANCE Folding WITH op <- WriteLine
Dropping == INSTANCE Folding WITH op <- DeleteLine
Collecting == INSTANCE Folding WITH op <- AddDelete
Rebuilding == INSTANCE Folding WITH op <- ApplyBlock

(* The folds of the model, as the theorems of Folding speak of them.       *)
LEMMA TheseAreFolds ==
  ASSUME NEW base, NEW seq
  PROVE  /\ FoldLeft(ApplyShifted, base, seq) = Shifting!Folded(base, seq)
         /\ FoldLeft(WriteLine, base, seq) = Writing!Folded(base, seq)
         /\ FoldLeft(DeleteLine, base, seq) = Dropping!Folded(base, seq)
         /\ FoldLeft(AddDelete, base, seq) = Collecting!Folded(base, seq)
         /\ FoldLeft(ApplyBlock, base, seq) = Rebuilding!Folded(base, seq)
  <1>1. FoldLeft(ApplyShifted, base, seq) = Shifting!Folded(base, seq)
    BY DEF Shifting!Folded, FoldLeft, Shifting!FoldLeft,
           MapThenFoldSet, Shifting!MapThenFoldSet, Max, Shifting!Max
  <1>2. FoldLeft(WriteLine, base, seq) = Writing!Folded(base, seq)
    BY DEF Writing!Folded, FoldLeft, Writing!FoldLeft,
           MapThenFoldSet, Writing!MapThenFoldSet, Max, Writing!Max
  <1>3. FoldLeft(DeleteLine, base, seq) = Dropping!Folded(base, seq)
    BY DEF Dropping!Folded, FoldLeft, Dropping!FoldLeft,
           MapThenFoldSet, Dropping!MapThenFoldSet, Max, Dropping!Max
  <1>4. FoldLeft(AddDelete, base, seq) = Collecting!Folded(base, seq)
    BY DEF Collecting!Folded, FoldLeft, Collecting!FoldLeft,
           MapThenFoldSet, Collecting!MapThenFoldSet, Max, Collecting!Max
  <1>5. FoldLeft(ApplyBlock, base, seq) = Rebuilding!Folded(base, seq)
    BY DEF Rebuilding!Folded, FoldLeft, Rebuilding!FoldLeft,
           MapThenFoldSet, Rebuilding!MapThenFoldSet, Max, Rebuilding!Max
  <1> QED
    BY <1>1, <1>2, <1>3, <1>4, <1>5

(* A line is deleted, or there is none to delete.                          *)
LEMMA DeletedLine ==
  ASSUME NEW S, NEW lines \in Seq(S), NEW i \in Int
  PROVE  /\ DeleteLine(lines, i) \in Seq(S)
         /\ i \notin 1..Len(lines) => DeleteLine(lines, i) = lines
         /\ i \in 1..Len(lines) =>
              /\ DeleteLine(lines, i) = RemoveAt(lines, i)
              /\ Len(DeleteLine(lines, i)) = Len(lines) - 1
              /\ \A l \in 1..(Len(lines) - 1) :
                   DeleteLine(lines, i)[l] = IF l < i THEN lines[l] ELSE lines[l + 1]
  <1>1. Len(lines) \in Nat /\ DOMAIN lines = 1..Len(lines)
    OBVIOUS
  <1>2. CASE i \notin 1..Len(lines)
    BY <1>1, <1>2 DEF DeleteLine
  <1>3. CASE i \in 1..Len(lines)
    <2>1. i \in Nat /\ i \in 1..Len(lines)
      BY <1>1, <1>3
    <2> DEFINE a == SubSeq(lines, 1, i - 1)
               b == SubSeq(lines, i + 1, Len(lines))
    <2>2. a \in Seq(S) /\ Len(a) = i - 1 /\ \A l \in 1..(i - 1) : a[l] = lines[l]
      BY <1>1, <2>1
    <2>3. /\ b \in Seq(S) /\ Len(b) = IF i + 1 <= Len(lines) THEN Len(lines) - (i + 1) + 1 ELSE 0
          /\ \A l \in 1..(Len(lines) - (i + 1) + 1) : b[l] = lines[(i + 1) + l - 1]
      <3>1. \A l \in (i + 1)..Len(lines) : lines[l] \in S
        BY <1>1, <2>1
      <3> QED
        BY <1>1, <2>1, <3>1, SubSeqProperties
    <2>4. DeleteLine(lines, i) = a \o b /\ RemoveAt(lines, i) = a \o b
      BY <1>1, <1>3 DEF DeleteLine, RemoveAt
    <2> HIDE DEF a, b
    <2>5. b \in Seq(S) /\ Len(b) = Len(lines) - i /\ \A l \in 1..(Len(lines) - i) : b[l] = lines[l + i]
      <3>1. i \in Nat /\ Len(lines) \in Nat /\ i <= Len(lines)
        BY <1>1, <2>1
      <3>2. Len(b) = IF i + 1 <= Len(lines) THEN Len(lines) - (i + 1) + 1 ELSE 0
        BY <2>3
      <3>3. Len(b) = Len(lines) - i
        BY <3>2, <3>1
      <3>4. ASSUME NEW l \in 1..(Len(lines) - i) PROVE b[l] = lines[l + i]
        <4>1. l \in 1..(Len(lines) - (i + 1) + 1) /\ (i + 1) + l - 1 = l + i
          BY <3>1
        <4>2. b[l] = lines[(i + 1) + l - 1]
          BY <2>3, <4>1
        <4> QED
          BY <4>1, <4>2
      <3> QED
        BY <2>3, <3>3, <3>4
    <2>6. Len(a) + Len(b) = Len(lines) - 1 /\ \A l \in 1..(Len(lines) - 1) : l <= Len(a) <=> l < i
      BY <1>1, <1>3, <2>2, <2>5
    <2>7. (a \o b) \in Seq(S) /\ Len(a \o b) = Len(a) + Len(b)
          /\ \A l \in 1..(Len(a) + Len(b)) : (a \o b)[l] = IF l <= Len(a) THEN a[l] ELSE b[l - Len(a)]
      BY <2>2, <2>5, ConcatProperties
    <2>8. \A l \in 1..(Len(lines) - 1) : l >= i => b[l - (i - 1)] = lines[l + 1]
      BY <1>1, <1>3, <2>5
    <2> QED
      <3>1. \A l \in 1..(Len(lines) - 1) : (a \o b)[l] = IF l < i THEN a[l] ELSE b[l - (i - 1)]
        BY <1>1, <2>1, <2>2, <2>6, <2>7
      <3>2. \A l \in 1..(Len(lines) - 1) : l < i => a[l] = lines[l]
        BY <1>1, <2>1, <2>2
      <3>3. ASSUME NEW l \in 1..(Len(lines) - 1)
            PROVE  (a \o b)[l] = IF l < i THEN lines[l] ELSE lines[l + 1]
        <4>1. CASE l < i
          BY <3>1, <3>2, <4>1
        <4>2. CASE ~ (l < i)
          <5>1. l >= i
            BY <1>1, <2>1, <4>2
          <5> QED
            BY <2>8, <3>1, <4>2, <5>1
        <4> QED
          BY <4>1, <4>2
      <3>4. (a \o b) \in Seq(S) /\ Len(a \o b) = Len(lines) - 1
        BY <2>6, <2>7
      <3> QED
        BY <2>1, <2>4, <3>3, <3>4
  <1> QED
    BY <1>2, <1>3

(* A line can be deleted before or after one above it: what is above it    *)
(* decides how far up it has moved.                                        *)
LEMMA DeletesCommute ==
  ASSUME NEW S, NEW lines \in Seq(S), NEW x \in Int, NEW c \in Nat, c < x
  PROVE  DeleteLine(DeleteLine(lines, x), c)
           = DeleteLine(DeleteLine(lines, c), x - (Len(lines) - Len(DeleteLine(lines, c))))
  <1> DEFINE n == Len(lines)
             dx == DeleteLine(lines, x)
             dc == DeleteLine(lines, c)
  <1>1. n \in Nat /\ x \in Nat
    OBVIOUS
  <1>2. /\ dc \in Seq(S)
        /\ c \notin 1..n => dc = lines
        /\ c \in 1..n => Len(dc) = n - 1 /\ \A l \in 1..(n - 1) : dc[l] = IF l < c THEN lines[l] ELSE lines[l + 1]
    <2>1. c \in Int
      OBVIOUS
    <2> QED
      BY <1>1, <2>1, DeletedLine
  <1>3. /\ dx \in Seq(S)
        /\ x \notin 1..n => dx = lines
        /\ x \in 1..n => Len(dx) = n - 1 /\ \A l \in 1..(n - 1) : dx[l] = IF l < x THEN lines[l] ELSE lines[l + 1]
    BY <1>1, DeletedLine
  <1>4. ASSUME NEW i \in Int
        PROVE  /\ DeleteLine(dx, i) \in Seq(S) /\ DeleteLine(dc, i) \in Seq(S)
               /\ i \notin 1..Len(dx) => DeleteLine(dx, i) = dx
               /\ i \in 1..Len(dx) =>
                    /\ Len(DeleteLine(dx, i)) = Len(dx) - 1
                    /\ \A l \in 1..(Len(dx) - 1) :
                         DeleteLine(dx, i)[l] = IF l < i THEN dx[l] ELSE dx[l + 1]
               /\ i \notin 1..Len(dc) => DeleteLine(dc, i) = dc
               /\ i \in 1..Len(dc) =>
                    /\ Len(DeleteLine(dc, i)) = Len(dc) - 1
                    /\ \A l \in 1..(Len(dc) - 1) :
                         DeleteLine(dc, i)[l] = IF l < i THEN dc[l] ELSE dc[l + 1]
    BY <1>2, <1>3, DeletedLine
  <1> HIDE DEF dx, dc, n
  <1>5. SUFFICES DeleteLine(dx, c) = DeleteLine(dc, x - (n - Len(dc)))
    BY DEF dx, dc, n
  <1>6. CASE c \notin 1..n
    <2>1. dc = lines /\ n - Len(dc) = 0 /\ x - 0 = x
      BY <1>1, <1>2, <1>6 DEF n
    <2>2. DeleteLine(dc, x - (n - Len(dc))) = dx
      BY <2>1 DEF dx
    <2>3. c \notin 1..Len(dx)
      <3>1. Len(dx) = n \/ Len(dx) = n - 1
        BY <1>3 DEF n
      <3> QED
        BY <1>1, <1>6, <3>1
    <2> QED
      BY <1>4, <2>2, <2>3
  <1>7. CASE c \in 1..n /\ x \notin 1..n
    <2>1. dx = lines /\ Len(lines) = n /\ Len(dc) = n - 1
      BY <1>2, <1>3, <1>7 DEF n
    <2>2. DeleteLine(dx, c) = dc
      BY <2>1 DEF dc
    <2>3. x - (n - Len(dc)) = x - 1 /\ x - 1 \notin 1..Len(dc) /\ x - 1 \in Int
      BY <1>1, <1>7, <2>1
    <2> QED
      BY <1>4, <2>2, <2>3
  <1>8. CASE c \in 1..n /\ x \in 1..n
    <2>1. Len(dx) = n - 1 /\ Len(dc) = n - 1
      BY <1>2, <1>3, <1>8
    <2>2. Len(dx) = n - 1 /\ Len(dc) = n - 1 /\ c \in 1..(n - 1) /\ x - 1 \in 1..(n - 1)
          /\ x - (n - Len(dc)) = x - 1 /\ x - 1 \in Int /\ n - 1 \in Nat /\ (n - 1) - 1 = n - 2
      BY <1>1, <1>8, <2>1
    <2> DEFINE p == DeleteLine(dx, c)
               q == DeleteLine(dc, x - 1)
    <2>3. /\ p \in Seq(S) /\ Len(p) = n - 2
          /\ \A l \in 1..(n - 2) : p[l] = IF l < c THEN dx[l] ELSE dx[l + 1]
      <3>1. c \in Int /\ c \in 1..Len(dx) /\ Len(dx) - 1 = n - 2
        BY <1>1, <2>2
      <3> QED
        BY <1>4, <3>1
    <2>4. /\ q \in Seq(S) /\ Len(q) = n - 2
          /\ \A l \in 1..(n - 2) : q[l] = IF l < x - 1 THEN dc[l] ELSE dc[l + 1]
      BY <1>1, <1>4, <2>2
    <2> HIDE DEF p, q
    <2>5. ASSUME NEW l \in 1..(n - 2) PROVE p[l] = q[l]
      <3>1. /\ l \in 1..(n - 1) /\ l + 1 \in 1..(n - 1) /\ l \in Nat
            /\ dx[l] = IF l < x THEN lines[l] ELSE lines[l + 1]
            /\ dx[l + 1] = IF l + 1 < x THEN lines[l + 1] ELSE lines[l + 1 + 1]
            /\ dc[l] = IF l < c THEN lines[l] ELSE lines[l + 1]
            /\ dc[l + 1] = IF l + 1 < c THEN lines[l + 1] ELSE lines[l + 1 + 1]
        BY <1>1, <1>2, <1>3, <1>8
      <3> QED
        BY <1>1, <2>3, <2>4, <3>1
    <2>6. p = q
      BY <2>3, <2>4, <2>5, SeqEqual
    <2> QED
      BY <2>2, <2>6 DEF p, q
  <1> QED
    BY <1>6, <1>7, <1>8

(* What deletes leave of a text is a part of it.                           *)
LEMMA DroppedIsText ==
  ASSUME NEW S, NEW lines \in Seq(S), NEW D \in Seq(Nat)
  PROVE  Dropping!Folded(lines, D) \in Seq(S)
  <1>1. \A x \in Seq(S), c \in Nat : DeleteLine(x, c) \in Seq(S)
    BY DeletedLine
  <1> DEFINE T == Seq(S)
  <1> HIDE DEF T
  <1>2. lines \in T /\ \A x \in T, c \in Nat : DeleteLine(x, c) \in T
    BY <1>1 DEF T
  <1>3. Dropping!Folded(lines, D) \in T
    BY <1>2, Dropping!FoldStaysWithin
  <1> QED
    BY <1>3 DEF T

(* The deletes of an event, each of a line above the one before: deleting  *)
(* the lowest first or last is the same, except that it has moved.         *)
LEMMA LowestLineLast ==
  ASSUME NEW S, NEW lines \in Seq(S), NEW x \in Nat, NEW D \in Seq(Nat),
         \A j \in DOMAIN D : D[j] + j <= x
  PROVE  Dropping!Folded(DeleteLine(lines, x), D)
           = DeleteLine(Dropping!Folded(lines, D), x - (Len(lines) - Len(Dropping!Folded(lines, D))))
  <1> DEFINE first == DeleteLine(lines, x)
             n == Len(D)
             size == Len(lines)
  <1>1. n \in Nat /\ DOMAIN D = 1..n /\ size \in Nat /\ x \in Int /\ first \in Seq(S)
    <2>1. x \in Int
      OBVIOUS
    <2>2. first \in Seq(S)
      BY <2>1, DeletedLine
    <2> QED
      BY <2>1, <2>2
  <1>2. PICK v : Dropping!IsRun(first, D, v) /\ Dropping!Folded(first, D) = v[n]
    BY <1>1, Dropping!FoldedIsARun
  <1>3. PICK w : Dropping!IsRun(lines, D, w) /\ Dropping!Folded(lines, D) = w[n]
    BY Dropping!FoldedIsARun
  <1>4. /\ v[0] = first /\ \A k \in 1..n : v[k] = DeleteLine(v[k - 1], D[k])
        /\ w[0] = lines /\ \A k \in 1..n : w[k] = DeleteLine(w[k - 1], D[k])
    BY <1>2, <1>3 DEF Dropping!IsRun
  <1> DEFINE Holds(k) == /\ w[k] \in Seq(S) /\ size - k <= Len(w[k]) /\ Len(w[k]) <= size
                         /\ v[k] = DeleteLine(w[k], x - (size - Len(w[k])))
             T == {k \in Nat : k <= n => Holds(k)}
  <1>5. 0 \in T
    <2>1. w[0] = lines /\ v[0] = DeleteLine(lines, x)
      BY <1>4
    <2>2. size - 0 <= Len(lines) /\ Len(lines) <= size /\ x - (size - Len(lines)) = x
      BY <1>1
    <2> QED
      BY <2>1, <2>2
  <1>6. ASSUME NEW k \in Nat, k \in T PROVE k + 1 \in T
    <2>1. SUFFICES ASSUME k + 1 <= n PROVE Holds(k + 1)
      OBVIOUS
    <2>2. k + 1 \in 1..n /\ (k + 1) - 1 = k /\ k <= n
      BY <1>1, <2>1
    <2>3. Holds(k)
      BY <1>6, <2>2
    <2>4. PICK c \in Nat : c = D[k + 1]
      BY <1>1, <2>2
    <2>5. PICK u \in Seq(S) : u = w[k]
      BY <2>3
    <2>6. PICK t : t = w[k + 1]
      OBVIOUS
    <2>7. c + (k + 1) <= x /\ size - k <= Len(u) /\ Len(u) <= size /\ Len(u) \in Nat
      BY <1>1, <2>2, <2>3, <2>4, <2>5
    <2>8. PICK y \in Int : y = x - (size - Len(u))
      <3>1. size \in Int /\ Len(u) \in Int /\ x \in Int
        BY <1>1, <2>7
      <3> HIDE DEF size
      <3>2. x - (size - Len(u)) \in Int
        BY <3>1
      <3> QED
        BY <3>2
    <2>9. c \in Int /\ c < y
      BY <1>1, <2>7, <2>8
    <2>10. v[k + 1] = DeleteLine(DeleteLine(u, y), c) /\ t = DeleteLine(u, c)
      BY <1>4, <2>2, <2>3, <2>4, <2>5, <2>6, <2>8
    <2>11. t \in Seq(S) /\ Len(t) \in Nat /\ (Len(t) = Len(u) \/ Len(t) = Len(u) - 1)
      <3>1. t \in Seq(S) /\ (t = u \/ Len(t) = Len(u) - 1)
        BY <2>9, <2>10, DeletedLine
      <3> QED
        BY <3>1
    <2>12. v[k + 1] = DeleteLine(t, y - (Len(u) - Len(t)))
      BY <2>9, <2>10, DeletesCommute
    <2>13. y - (Len(u) - Len(t)) = x - (size - Len(t))
      BY <1>1, <2>7, <2>8, <2>11
    <2>14. size - (k + 1) <= Len(t) /\ Len(t) <= size
      BY <1>1, <2>7, <2>11
    <2> QED
      BY <2>6, <2>11, <2>12, <2>13, <2>14
  <1> HIDE DEF T
  <1>7. Nat \subseteq T
    BY <1>5, <1>6, Dropping!NatSetInduction
  <1>8. n \in T /\ n <= n
    BY <1>1, <1>7
  <1>9. Holds(n)
    BY <1>8 DEF T
  <1> QED
    BY <1>2, <1>3, <1>9

(* A line number that is greater than the ones collected comes first.      *)
LEMMA GreaterComesFirst ==
  ASSUME NEW D \in Seq(Nat), NEW e, e.op = "delete", e.line \in Nat,
         \A j \in DOMAIN D : D[j] < e.line
  PROVE  /\ AddDelete(D, e) = <<e.line>> \o D
         /\ AddDelete(D, e) \in Seq(Nat) /\ Len(AddDelete(D, e)) = Len(D) + 1
         /\ AddDelete(D, e)[1] = e.line
         /\ \A j \in 1..Len(D) : AddDelete(D, e)[j + 1] = D[j]
  <1> DEFINE x == e.line
             larger == {k \in DOMAIN D : D[k] >= x}
  <1>1. Len(D) \in Nat /\ DOMAIN D = 1..Len(D)
    OBVIOUS
  <1>2. \A k \in DOMAIN D : ~ (D[k] >= x)
    <2> TAKE k \in DOMAIN D
    <2>1. D[k] \in Nat /\ D[k] < x /\ x \in Nat
      OBVIOUS
    <2> HIDE DEF x
    <2> QED
      BY <2>1
  <1>3. larger = {}
    BY <1>2
  <1>4. Cardinality(larger) + 1 = 1
    <2>1. Cardinality({}) = 0
      BY FS_EmptySet
    <2> HIDE DEF larger
    <2> QED
      BY <1>3, <2>1
  <1>5. AddDelete(D, e) = InsertAt(D, 1, x)
    BY <1>4 DEF AddDelete
  <1>6. InsertAt(D, 1, x) = (<< >> \o <<x>>) \o D
    <2>1. SubSeq(D, 1, 1 - 1) = << >>
      BY SubSeqEmpty, 1 - 1 < 1
    <2>2. SubSeq(D, 1, Len(D)) = D
      BY SubSeqFull
    <2> QED
      BY <2>1, <2>2 DEF InsertAt
  <1>7. << >> \o <<x>> = <<x>> /\ <<x>> \in Seq(Nat) /\ Len(<<x>>) = 1 /\ <<x>>[1] = x
    OBVIOUS
  <1>8. AddDelete(D, e) = <<x>> \o D
    BY <1>5, <1>6, <1>7
  <1> HIDE DEF x
  <1>9. /\ <<x>> \o D \in Seq(Nat) /\ Len(<<x>> \o D) = Len(<<x>>) + Len(D)
        /\ \A j \in 1..(Len(<<x>>) + Len(D)) : (<<x>> \o D)[j] = IF j <= Len(<<x>>) THEN <<x>>[j] ELSE D[j - Len(<<x>>)]
    BY <1>7, ConcatProperties
  <1>10. Len(<<x>> \o D) = Len(D) + 1 /\ (<<x>> \o D)[1] = x
    BY <1>1, <1>7, <1>9
  <1>11. ASSUME NEW j \in 1..Len(D) PROVE (<<x>> \o D)[j + 1] = D[j]
    <2>1. j + 1 \in 1..(Len(<<x>>) + Len(D)) /\ ~ (j + 1 <= Len(<<x>>)) /\ (j + 1) - Len(<<x>>) = j
      BY <1>1, <1>7
    <2> QED
      BY <1>9, <2>1
  <1> QED
    BY <1>8, <1>9, <1>10, <1>11 DEF x

(* What an event's entries are, as callers send them and as the file has   *)
(* them.                                                                   *)
LEMMA PayloadEntries ==
  ASSUME NEW p \in Payloads
  PROVE  /\ p \in Seq(LineEntry) /\ Len(p) \in Nat /\ DOMAIN p = 1..Len(p)
         /\ AsWritten(p) \in Seq(LineEntry) /\ Len(AsWritten(p)) = Len(p)
         /\ \A k \in 1..Len(p) :
              /\ p[k] \in LineEntry /\ p[k].line \in Nat /\ p[k].line >= 1 /\ p[k].op \in LineOps
              /\ p[k].text \in Strings
              /\ AsWritten(p)[k].line = p[k].line /\ AsWritten(p)[k].text = p[k].text
              /\ p[k].op = "delete" => AsWritten(p)[k].op = "delete"
              /\ p[k].op # "delete" => AsWritten(p)[k].op \in {"set", "setEmpty"}
  <1>1. p \in Seq(LineEntry) /\ \A k \in DOMAIN p : p[k].line >= 1
    BY PayloadsApply
  <1>2. Len(p) \in Nat /\ DOMAIN p = 1..Len(p) /\ \A k \in 1..Len(p) : p[k] \in LineEntry
    BY <1>1
  <1>3. ASSUME NEW k \in 1..Len(p)
        PROVE  /\ p[k].line \in Nat /\ p[k].line >= 1 /\ p[k].op \in LineOps /\ p[k].text \in Strings
               /\ AsWritten(p)[k] \in LineEntry
               /\ AsWritten(p)[k].line = p[k].line /\ AsWritten(p)[k].text = p[k].text
               /\ p[k].op = "delete" => AsWritten(p)[k].op = "delete"
               /\ p[k].op # "delete" => AsWritten(p)[k].op \in {"set", "setEmpty"}
    <2>1. p[k].line \in Nat /\ p[k].line >= 1 /\ p[k].op \in LineOps
      BY <1>1, <1>2 DEF LineEntry
    <2>2. p[k].text \in Strings
      BY <1>2 DEF Strings
    <2>3. AsWritten(p)[k] = IF p[k].op = "insert" THEN [p[k] EXCEPT !.op = "set"] ELSE p[k]
      BY <1>2 DEF AsWritten
    <2>4. CASE p[k].op = "insert"
      <3>1. AsWritten(p)[k] = [line |-> p[k].line, op |-> "set", text |-> p[k].text]
        BY <1>2, <2>3, <2>4 DEF LineEntry
      <3> QED
        BY <1>2, <2>1, <2>2, <2>4, <3>1 DEF LineEntry, LineOps
    <2>5. CASE p[k].op # "insert"
      BY <1>2, <2>1, <2>2, <2>3, <2>5 DEF LineOps
    <2> QED
      BY <2>4, <2>5
  <1>4. AsWritten(p) \in [1..Len(p) -> LineEntry]
    BY <1>2, <1>3 DEF AsWritten
  <1>5. AsWritten(p) \in Seq(LineEntry) /\ Len(AsWritten(p)) = Len(p)
    BY <1>2, <1>4
  <1> QED
    BY <1>1, <1>2, <1>3, <1>5

LEMMA StringsOfLines ==
  ASSUME NEW lines \in Seq(Strings), NEW i \in Nat, i >= 1, NEW text \in Strings
  PROVE  SetLine(lines, i, text) \in Seq(Strings)
  <1>1. Blank \in Strings
    BY DEF Strings
  <1>2. Len(lines) \in Nat /\ \A k \in 1..Len(lines) : lines[k] \in Strings
    OBVIOUS
  <1> DEFINE n == IF i > Len(lines) THEN i ELSE Len(lines)
  <1>3. n \in Nat
    BY <1>2
  <1>4. SetLine(lines, i, text) \in [1..n -> Strings]
    BY <1>1, <1>2 DEF SetLine
  <1> QED
    BY <1>3, <1>4

(* One entry of an event, where nothing panics.                            *)
LEMMA ShiftedEntry ==
  ASSUME NEW acc, acc.panicked = FALSE, NEW e
  PROVE  /\ e.op \in {"set", "setEmpty"} /\ e.line + acc.offset >= 1 =>
              ApplyShifted(acc, e) = [acc EXCEPT !.lines = SetLine(acc.lines, e.line + acc.offset, e.text)]
         /\ e.op = "delete" /\ e.line + acc.offset \in 1..Len(acc.lines) =>
              ApplyShifted(acc, e) = [acc EXCEPT !.lines = RemoveAt(acc.lines, e.line + acc.offset),
                                                !.offset = acc.offset - 1]
         /\ e.op = "delete" /\ e.line + acc.offset \notin 1..Len(acc.lines) => ApplyShifted(acc, e) = acc
  <1>1. CASE e.op \in {"set", "setEmpty"} /\ e.line + acc.offset >= 1
    <2>1. e.op # "insert" /\ e.op # "delete"
      BY <1>1
    <2> QED
      BY <1>1, <2>1 DEF ApplyShifted
  <1>2. CASE e.op = "delete" /\ e.line + acc.offset \in 1..Len(acc.lines)
    BY <1>2 DEF ApplyShifted
  <1>3. CASE e.op = "delete" /\ e.line + acc.offset \notin 1..Len(acc.lines)
    BY <1>3 DEF ApplyShifted
  <1> QED
    BY <1>1, <1>2, <1>3

(* The two appliers agree on an event that writes first and then deletes   *)
(* in ascending order (applyEvent, applyEntriesToLines).                   *)
THEOREM AppliersAgree ==
  ASSUME NEW p \in Payloads, InOrder(p), NEW lines \in Seq(Strings)
  PROVE  applyEvent(lines, AsWritten(p)) = applyEntriesToLines(lines, p)
  <1> DEFINE n == Len(p)
             q == AsWritten(p)
             Dropped(W, D) == Dropping!Folded(W, D)
             acc0 == [lines |-> lines, offset |-> 0, panicked |-> FALSE]
  <1>1. /\ p \in Seq(LineEntry) /\ q \in Seq(LineEntry) /\ Len(q) = n /\ n \in Nat /\ DOMAIN p = 1..n
        /\ \A k \in 1..n :
             /\ p[k].line \in Nat /\ p[k].line >= 1 /\ p[k].text \in Strings
             /\ q[k].line = p[k].line /\ q[k].text = p[k].text
             /\ p[k].op = "delete" => q[k].op = "delete"
             /\ p[k].op # "delete" => q[k].op \in {"set", "setEmpty"}
    BY PayloadEntries
  <1>2. PICK a : Shifting!IsRun(acc0, q, a) /\ Shifting!Folded(acc0, q) = a[n]
    BY <1>1, Shifting!FoldedIsARun
  <1>3. PICK w : Writing!IsRun(lines, p, w) /\ Writing!Folded(lines, p) = w[n]
    BY <1>1, Writing!FoldedIsARun
  <1>4. PICK d : Collecting!IsRun(<< >>, p, d) /\ Collecting!Folded(<< >>, p) = d[n]
    BY <1>1, Collecting!FoldedIsARun
  <1>5. /\ a[0] = acc0 /\ \A k \in 1..n : a[k] = ApplyShifted(a[k - 1], q[k])
        /\ w[0] = lines /\ \A k \in 1..n : w[k] = WriteLine(w[k - 1], p[k])
        /\ d[0] = << >> /\ \A k \in 1..n : d[k] = AddDelete(d[k - 1], p[k])
    BY <1>1, <1>2, <1>3, <1>4 DEF Shifting!IsRun, Writing!IsRun, Collecting!IsRun
  <1> DEFINE State(W, D) == [lines |-> Dropped(W, D), offset |-> Len(Dropped(W, D)) - Len(W), panicked |-> FALSE]
             Holds(k) ==
               /\ w[k] \in Seq(Strings) /\ d[k] \in Seq(Nat)
               /\ a[k] = State(w[k], d[k])
               /\ d[k] # << >> => /\ k # 0 /\ p[k].op = "delete"
                                  /\ \A j \in DOMAIN d[k] : d[k][j] + j <= p[k].line + 1
             T == {k \in Nat : k <= n => Holds(k)}
  <1>6. ASSUME NEW W \in Seq(Strings) PROVE State(W, << >>) = [lines |-> W, offset |-> 0, panicked |-> FALSE]
    <2>1. Dropped(W, << >>) = W
      BY Dropping!FoldOfNothing
    <2>2. Len(W) - Len(W) = 0
      OBVIOUS
    <2> QED
      BY <2>1, <2>2
  <1>7. 0 \in T
    <2>1. << >> \in Seq(Nat)
      OBVIOUS
    <2>2. a[0] = State(w[0], d[0])
      BY <1>5, <1>6
    <2> QED
      BY <1>5, <2>1, <2>2
  <1>8. ASSUME NEW k \in Nat, k \in T PROVE k + 1 \in T
    <2>1. SUFFICES ASSUME k + 1 <= n PROVE Holds(k + 1)
      OBVIOUS
    <2>2. k + 1 \in 1..n /\ (k + 1) - 1 = k /\ k <= n /\ (k # 0 => k \in 1..n) /\ k + 1 # 0
      BY <1>1, <2>1
    <2>3. Holds(k)
      BY <1>8, <2>2
    <2>4. PICK W \in Seq(Strings), D \in Seq(Nat) : W = w[k] /\ D = d[k]
      BY <2>3
    <2>5. PICK e : e = p[k + 1]
      OBVIOUS
    <2>6. PICK f : f = q[k + 1]
      OBVIOUS
    <2>7. /\ e.line \in Nat /\ e.line >= 1 /\ e.text \in Strings /\ f.line = e.line /\ f.text = e.text
          /\ e.op = "delete" => f.op = "delete"
          /\ e.op # "delete" => f.op \in {"set", "setEmpty"}
      BY <1>1, <2>2, <2>5, <2>6
    <2>8. a[k] = State(W, D) /\ a[k + 1] = ApplyShifted(a[k], f)
          /\ w[k + 1] = WriteLine(W, e) /\ d[k + 1] = AddDelete(D, e)
      BY <1>1, <1>5, <2>2, <2>3, <2>4, <2>5, <2>6
    <2>9. D # << >> => /\ k # 0 /\ k \in 1..n /\ p[k].op = "delete"
                       /\ \A j \in DOMAIN D : D[j] + j <= p[k].line + 1
      BY <2>2, <2>3, <2>4
    <2>10. D # << >> => e.op = "delete" /\ p[k].line < e.line /\ p[k].line \in Nat
      <3> SUFFICES ASSUME D # << >> PROVE e.op = "delete" /\ p[k].line < e.line /\ p[k].line \in Nat
        OBVIOUS
      <3>1. k \in DOMAIN p /\ k + 1 \in DOMAIN p /\ k < k + 1 /\ p[k].op = "delete"
        BY <1>1, <2>2, <2>9
      <3> QED
        BY <1>1, <2>5, <3>1 DEF InOrder
    <2> HIDE DEF Holds, T
    <2>11. CASE e.op # "delete"
      <3>1. D = << >>
        BY <2>10, <2>11
      <3>2. d[k + 1] = << >> /\ w[k + 1] = SetLine(W, e.line, e.text)
        BY <2>8, <2>11, <3>1 DEF AddDelete, WriteLine
      <3>3. w[k + 1] \in Seq(Strings)
        BY <2>7, <3>2, StringsOfLines
      <3>4. a[k] = [lines |-> W, offset |-> 0, panicked |-> FALSE]
        BY <1>6, <2>8, <3>1
      <3>5. f.line + 0 = e.line /\ e.line >= 1 /\ f.op # "insert" /\ f.op # "delete"
        BY <2>7, <2>11
      <3>6. a[k + 1] = [lines |-> SetLine(W, e.line, e.text), offset |-> 0, panicked |-> FALSE]
        <4>1. f.line \in Int /\ 0 \in Int /\ f.op \in {"set", "setEmpty"} /\ f.line + 0 >= 1
          BY <2>7, <2>11, <3>5
        <4> QED
          <5>1. PICK acc : acc = a[k]
            OBVIOUS
          <5>2. acc.panicked = FALSE /\ acc.lines = W /\ acc.offset = 0
            BY <3>4, <5>1
          <5>3. ApplyShifted(acc, f) = [acc EXCEPT !.lines = SetLine(W, f.line + 0, f.text)]
            BY <4>1, <5>2, ShiftedEntry
          <5>4. f.line + 0 = e.line
            BY <3>5
          <5> QED
            <6>1. PICK t : t = SetLine(W, e.line, e.text)
              OBVIOUS
            <6>2. ApplyShifted(acc, f) = [acc EXCEPT !.lines = t]
              BY <2>7, <5>3, <5>4, <6>1
            <6>3. acc = [lines |-> W, offset |-> 0, panicked |-> FALSE]
              BY <3>4, <5>1
            <6>4. ApplyShifted(acc, f) = [lines |-> t, offset |-> 0, panicked |-> FALSE]
              BY <6>2, <6>3
            <6> QED
              BY <2>8, <5>1, <6>1, <6>4
      <3>7. a[k + 1] = State(w[k + 1], d[k + 1])
        BY <1>6, <3>2, <3>3, <3>6
      <3> QED
        BY <3>2, <3>3, <3>7 DEF Holds
    <2>12. CASE e.op = "delete"
      <3>1. w[k + 1] = W
        BY <2>8, <2>12 DEF WriteLine
      <3>2. \A j \in DOMAIN D : j \in Nat /\ j >= 1 /\ D[j] \in Nat /\ D[j] + j <= e.line /\ D[j] < e.line
        <4> TAKE j \in DOMAIN D
        <4>1. D # << >> /\ j \in Nat /\ j >= 1 /\ D[j] \in Nat
          OBVIOUS
        <4>2. D[j] + j <= p[k].line + 1 /\ p[k].line < e.line /\ p[k].line \in Nat
          BY <2>9, <2>10, <4>1
        <4> QED
          BY <2>7, <4>1, <4>2
      <3>3. /\ d[k + 1] = <<e.line>> \o D /\ d[k + 1] \in Seq(Nat)
            /\ Len(d[k + 1]) = Len(D) + 1 /\ d[k + 1][1] = e.line
            /\ \A j \in 1..Len(D) : d[k + 1][j + 1] = D[j]
        BY <2>7, <2>8, <2>12, <3>2, GreaterComesFirst
      <3>4. \A j \in DOMAIN d[k + 1] : d[k + 1][j] + j <= e.line + 1
        <4> TAKE j \in DOMAIN d[k + 1]
        <4>1. j \in 1..(Len(D) + 1) /\ Len(D) \in Nat
          BY <3>3
        <4>2. CASE j = 1
          BY <2>7, <3>3, <4>2
        <4>3. CASE j # 1
          <5>1. j - 1 \in 1..Len(D) /\ (j - 1) + 1 = j /\ j - 1 \in DOMAIN D
            BY <4>1, <4>3
          <5>2. d[k + 1][j] = D[j - 1] /\ D[j - 1] + (j - 1) <= e.line /\ D[j - 1] \in Nat
            BY <3>2, <3>3, <5>1
          <5> QED
            BY <2>7, <4>1, <5>2
        <4> QED
          BY <4>2, <4>3
      <3>5. PICK L \in Seq(Strings) : L = Dropped(W, D)
        BY DroppedIsText
      <3>6. PICK M : M = Dropped(W, d[k + 1])
        OBVIOUS
      <3>7. M = DeleteLine(L, e.line - (Len(W) - Len(L)))
        <4>1. <<e.line>> \in Seq(Nat) /\ << >> \in Seq(Nat) /\ Append(<< >>, e.line) = <<e.line>>
          BY <2>7
        <4>2. Dropped(W, <<e.line>>) = DeleteLine(W, e.line)
          <5>1. Dropping!Folded(W, Append(<< >>, e.line)) = DeleteLine(Dropping!Folded(W, << >>), e.line)
            <6>1. PICK z \in Nat, u \in Seq(Nat) : z = e.line /\ u = << >>
              BY <2>7, <4>1
            <6>2. Dropping!Folded(W, Append(u, z)) = DeleteLine(Dropping!Folded(W, u), z)
              BY Dropping!FoldOfAppend
            <6> QED
              BY <6>1, <6>2
          <5> QED
            BY <4>1, <5>1, Dropping!FoldOfNothing
        <4>3. Dropped(W, <<e.line>> \o D) = Dropped(Dropped(W, <<e.line>>), D)
          <5>1. PICK u \in Seq(Nat) : u = <<e.line>>
            BY <4>1
          <5>2. Dropping!Folded(W, u \o D) = Dropping!Folded(Dropping!Folded(W, u), D)
            BY Dropping!FoldOfConcat
          <5> QED
            BY <5>1, <5>2
        <4>4. Dropped(DeleteLine(W, e.line), D) = DeleteLine(Dropped(W, D), e.line - (Len(W) - Len(Dropped(W, D))))
          BY <2>7, <3>2, LowestLineLast
        <4> QED
          BY <3>3, <3>5, <3>6, <4>2, <4>3, <4>4
      <3>8. PICK i \in Int : i = e.line - (Len(W) - Len(L))
        <4>1. e.line \in Int /\ Len(W) \in Int /\ Len(L) \in Int
          BY <2>7
        <4>2. e.line - (Len(W) - Len(L)) \in Int
          BY <4>1
        <4> QED
          BY <4>2
      <3>9. a[k] = [lines |-> L, offset |-> Len(L) - Len(W), panicked |-> FALSE]
        BY <2>8, <3>5
      <3>10. f.line + (Len(L) - Len(W)) = i /\ Len(W) \in Nat /\ Len(L) \in Nat
        BY <2>7, <3>8
      <3>11. a[k + 1] = [lines |-> M, offset |-> Len(M) - Len(W), panicked |-> FALSE]
        <4>1. CASE i \in 1..Len(L)
          <5>1. M = RemoveAt(L, i) /\ Len(M) = Len(L) - 1
            BY <3>7, <3>8, <4>1, DeletedLine
          <5>2. (Len(L) - Len(W)) - 1 = Len(M) - Len(W)
            BY <3>10, <5>1
          <5>3. a[k + 1] = [lines |-> RemoveAt(L, i), offset |-> (Len(L) - Len(W)) - 1, panicked |-> FALSE]
            <6>1. PICK acc : acc = a[k]
              OBVIOUS
            <6>2. acc.panicked = FALSE /\ acc.lines = L /\ acc.offset = Len(L) - Len(W)
              BY <3>9, <6>1
            <6>3. f.op = "delete" /\ f.line + acc.offset = i /\ i \in 1..Len(acc.lines)
              BY <2>7, <2>12, <3>10, <4>1, <6>2
            <6>4. ApplyShifted(acc, f) = [acc EXCEPT !.lines = RemoveAt(acc.lines, f.line + acc.offset),
                                                    !.offset = acc.offset - 1]
              BY <6>2, <6>3, ShiftedEntry, Zenon
            <6>5. PICK t, o : t = RemoveAt(L, i) /\ o = (Len(L) - Len(W)) - 1
              OBVIOUS
            <6>6. ApplyShifted(acc, f) = [acc EXCEPT !.lines = t, !.offset = o]
              BY <6>2, <6>3, <6>4, <6>5
            <6>7. acc = [lines |-> L, offset |-> Len(L) - Len(W), panicked |-> FALSE]
              BY <3>9, <6>1
            <6>8. ApplyShifted(acc, f) = [lines |-> t, offset |-> o, panicked |-> FALSE]
              BY <6>6, <6>7
            <6> QED
              BY <2>8, <6>1, <6>5, <6>8
          <5> QED
            BY <5>1, <5>2, <5>3
        <4>2. CASE i \notin 1..Len(L)
          <5>1. M = L
            BY <3>7, <3>8, <4>2, DeletedLine
          <5>2. a[k + 1] = a[k]
            <6>1. PICK acc : acc = a[k]
              OBVIOUS
            <6>2. acc.panicked = FALSE /\ acc.lines = L /\ acc.offset = Len(L) - Len(W)
              BY <3>9, <6>1
            <6>3. f.op = "delete" /\ f.line + acc.offset = i /\ i \notin 1..Len(acc.lines)
              BY <2>7, <2>12, <3>10, <4>2, <6>2
            <6> QED
              BY <2>8, <6>1, <6>2, <6>3, ShiftedEntry
          <5> QED
            BY <3>9, <5>1, <5>2
        <4> QED
          BY <4>1, <4>2
      <3>12. a[k + 1] = State(w[k + 1], d[k + 1])
        BY <3>1, <3>6, <3>11
      <3> QED
        BY <2>2, <2>5, <2>12, <3>1, <3>3, <3>4, <3>12 DEF Holds
    <2> QED
      BY <2>11, <2>12
  <1> HIDE DEF T
  <1>9. Nat \subseteq T
    BY <1>7, <1>8, Dropping!NatSetInduction
  <1>10. n \in T /\ n <= n
    BY <1>1, <1>9
  <1>11. Holds(n)
    BY <1>10 DEF T
  <1>12. a[n].panicked = FALSE /\ a[n].lines = Dropped(w[n], d[n])
    BY <1>11
  <1>13. Applied(lines, q) = a[n]
    BY <1>2, TheseAreFolds DEF Applied
  <1>14. applyEvent(lines, q) = Dropped(w[n], d[n])
    BY <1>12, <1>13 DEF applyEvent
  <1>15. applyEntriesToLines(lines, p) = Dropped(w[n], d[n])
    BY <1>3, <1>4, TheseAreFolds DEF applyEntriesToLines
  <1> QED
    BY <1>14, <1>15

(* The replay of an event that callers send is a text: its deletes never   *)
(* take a line that is written above the first one.                        *)
LEMMA ReplayedPartIsText ==
  ASSUME NEW p \in Payloads, NEW lines \in Seq(Strings), NEW n \in 0..Len(p),
         NEW q \in Seq(LineEntry), Len(q) = n, \A k \in 1..n : q[k] = AsWritten(p)[k]
  PROVE  applyEvent(lines, q) \in Seq(Strings)
  <1> DEFINE acc0 == [lines |-> lines, offset |-> 0, panicked |-> FALSE]
             Dels(k) == {j \in 1..k : p[j].op = "delete"}
             Acc == [lines : Seq(Strings), offset : Int, panicked : {FALSE}]
  <1>1. /\ q \in Seq(LineEntry) /\ Len(q) = n /\ n \in Nat /\ \A k \in 1..n : k \in DOMAIN p
        /\ \A k \in 1..n :
             /\ p[k].line \in Nat /\ p[k].line >= 1 /\ p[k].text \in Strings
             /\ q[k].line = p[k].line /\ q[k].text = p[k].text
             /\ p[k].op = "delete" => q[k].op = "delete"
             /\ p[k].op # "delete" => q[k].op \in {"set", "setEmpty"}
    BY PayloadEntries
  <1>2. \A k \in 1..n : p[k].op # "delete" => p[k].line > Cardinality(Dels(k - 1))
    BY <1>1, PayloadsApply
  <1>3. PICK a : Shifting!IsRun(acc0, q, a) /\ Shifting!Folded(acc0, q) = a[n]
    BY <1>1, Shifting!FoldedIsARun
  <1>4. a[0] = acc0 /\ \A k \in 1..n : a[k] = ApplyShifted(a[k - 1], q[k])
    BY <1>1, <1>3 DEF Shifting!IsRun
  <1> DEFINE Holds(k) == /\ a[k] \in Acc /\ IsFiniteSet(Dels(k)) /\ Cardinality(Dels(k)) \in Nat
                         /\ a[k].offset + Cardinality(Dels(k)) >= 0
             T == {k \in Nat : k <= n => Holds(k)}
  <1>5. 0 \in T
    <2>1. Dels(0) = {}
      OBVIOUS
    <2>2. IsFiniteSet({}) /\ Cardinality({}) = 0
      BY FS_EmptySet
    <2>3. a[0] \in Acc /\ a[0].offset = 0
      BY <1>4
    <2> HIDE DEF Dels, Acc
    <2>4. IsFiniteSet(Dels(0)) /\ Cardinality(Dels(0)) = 0 /\ 0 + 0 >= 0
      <3>1. PICK none : none = Dels(0) /\ none = {}
        BY <2>1
      <3>2. IsFiniteSet(none) /\ Cardinality(none) = 0
        BY <3>1, FS_EmptySet
      <3> QED
        BY <3>1, <3>2
    <2>5. Holds(0)
      BY <2>3, <2>4
    <2> HIDE DEF Holds
    <2> QED
      BY <2>5
  <1>6. ASSUME NEW k \in Nat, k \in T PROVE k + 1 \in T
    <2> HIDE DEF Holds
    <2>1. SUFFICES ASSUME k + 1 <= n PROVE Holds(k + 1)
      OBVIOUS
    <2>2. k + 1 \in 1..n /\ (k + 1) - 1 = k /\ k <= n
      BY <1>1, <2>1
    <2>3. Holds(k)
      BY <1>6, <2>2
    <2> USE DEF Holds
    <2>4. Holds(k)
      BY <2>3
    <2>5. PICK acc : acc = a[k]
      OBVIOUS
    <2>6. PICK f : f = q[k + 1]
      OBVIOUS
    <2>7. PICK c \in Nat : c = Cardinality(Dels(k))
      BY <2>4
    <2>8. /\ acc.panicked = FALSE /\ acc.lines \in Seq(Strings) /\ acc.offset \in Int /\ acc.offset + c >= 0
          /\ acc = [lines |-> acc.lines, offset |-> acc.offset, panicked |-> FALSE]
      BY <2>4, <2>5, <2>7
    <2>9. a[k + 1] = ApplyShifted(acc, f) /\ f.line \in Nat /\ f.text \in Strings
      BY <1>1, <1>4, <2>2, <2>5, <2>6
    <2>10. CASE p[k + 1].op # "delete"
      <3>1. Dels(k + 1) = Dels(k)
        BY <2>2, <2>10
      <3>2. f.op \in {"set", "setEmpty"} /\ f.line > c
        BY <1>1, <1>2, <2>2, <2>6, <2>7, <2>10
      <3>3. PICK i \in Nat : i = f.line + acc.offset /\ i >= 1
        <4>1. f.line + acc.offset \in Nat /\ f.line + acc.offset >= 1
          BY <2>7, <2>8, <2>9, <3>2
        <4> QED
          BY <4>1
      <3>4. ApplyShifted(acc, f) = [acc EXCEPT !.lines = SetLine(acc.lines, i, f.text)]
        BY <2>8, <3>2, <3>3, ShiftedEntry
      <3>5. PICK t \in Seq(Strings) : t = SetLine(acc.lines, i, f.text)
        BY <2>8, <2>9, <3>3, StringsOfLines
      <3>6. a[k + 1] = [lines |-> t, offset |-> acc.offset, panicked |-> FALSE]
        BY <2>8, <2>9, <3>4, <3>5
      <3> HIDE DEF Dels
      <3> QED
        BY <2>4, <2>7, <2>8, <3>1, <3>6
    <2>11. CASE p[k + 1].op = "delete"
      <3>1. Dels(k + 1) = Dels(k) \cup {k + 1} /\ k + 1 \notin Dels(k)
        BY <2>2, <2>11
      <3>2. f.op = "delete"
        BY <1>1, <2>2, <2>6, <2>11
      <3>3. IsFiniteSet(Dels(k))
        BY <2>4
      <3> HIDE DEF Dels
      <3>4. IsFiniteSet(Dels(k + 1)) /\ Cardinality(Dels(k + 1)) = c + 1
        BY <2>7, <3>1, <3>3, FS_AddElement
      <3>5. PICK i \in Int : i = f.line + acc.offset
        <4>1. f.line + acc.offset \in Int
          BY <2>8, <2>9
        <4> QED
          BY <4>1
      <3>6. CASE i \in 1..Len(acc.lines)
        <4>1. ApplyShifted(acc, f) = [acc EXCEPT !.lines = RemoveAt(acc.lines, i), !.offset = acc.offset - 1]
          <5>1. ApplyShifted(acc, f) = [acc EXCEPT !.lines = RemoveAt(acc.lines, f.line + acc.offset),
                                                  !.offset = acc.offset - 1]
            BY <2>8, <3>2, <3>5, <3>6, ShiftedEntry, Zenon
          <5> QED
            BY <3>5, <5>1
        <4>2. PICK t \in Seq(Strings) : t = RemoveAt(acc.lines, i)
          BY <2>8, <3>6, DeletedLine
        <4>3. PICK o \in Int : o = acc.offset - 1 /\ o + (c + 1) >= 0
          <5>1. acc.offset - 1 \in Int /\ (acc.offset - 1) + (c + 1) >= 0
            BY <2>8
          <5> QED
            BY <5>1
        <4>4. ApplyShifted(acc, f) = [acc EXCEPT !.lines = t, !.offset = o]
          BY <4>1, <4>2, <4>3
        <4>5. a[k + 1] = [lines |-> t, offset |-> o, panicked |-> FALSE]
          BY <2>8, <2>9, <4>4
        <4> QED
          BY <3>4, <4>3, <4>5
      <3>7. CASE i \notin 1..Len(acc.lines)
        <4>1. a[k + 1] = a[k]
          BY <2>5, <2>8, <2>9, <3>2, <3>5, <3>7, ShiftedEntry
        <4>2. acc.offset + (c + 1) >= 0
          BY <2>8
        <4>3. a[k + 1] \in Acc /\ a[k + 1].offset = acc.offset
          BY <2>4, <2>5, <4>1
        <4> HIDE DEF Acc
        <4> QED
          BY <3>4, <4>2, <4>3
      <3> QED
        BY <3>6, <3>7
    <2> QED
      BY <2>10, <2>11
  <1> HIDE DEF T
  <1>7. Nat \subseteq T
    BY <1>5, <1>6, Dropping!NatSetInduction
  <1>8. n \in T /\ n <= n
    BY <1>1, <1>7
  <1>9. Holds(n)
    BY <1>8 DEF T
  <1>10. Applied(lines, q) = a[n]
    BY <1>3, TheseAreFolds DEF Applied
  <1> QED
    BY <1>9, <1>10 DEF applyEvent

LEMMA ReplayedEventIsText ==
  ASSUME NEW p \in Payloads, NEW lines \in Seq(Strings)
  PROVE  applyEvent(lines, AsWritten(p)) \in Seq(Strings)
  <1>1. AsWritten(p) \in Seq(LineEntry) /\ Len(AsWritten(p)) = Len(p) /\ Len(p) \in 0..Len(p)
    BY PayloadEntries
  <1> QED
    BY <1>1, ReplayedPartIsText

(* The cached text and the text of the replay may differ by what joinLines *)
(* takes away: a single blank line.  No event tells them apart.            *)
SameText == {pair \in Seq(Strings) \X Seq(Strings) : joinLines(pair[1]) = joinLines(pair[2])}

LEMMA AlikeTexts ==
  ASSUME NEW x, NEW y, <<x, y>> \in SameText
  PROVE  /\ x \in Seq(Strings) /\ y \in Seq(Strings) /\ joinLines(x) = joinLines(y)
         /\ x = y \/ (x \in {<< >>, <<Blank>>} /\ y \in {<< >>, <<Blank>>})
  BY DEF SameText, joinLines, EmptyString

(* A line written to both, and one deleted from both.                      *)
LEMMA AlikeAfterWrite ==
  ASSUME NEW x, NEW y, <<x, y>> \in SameText, NEW i \in Nat, i >= 1, NEW text \in Strings
  PROVE  <<SetLine(x, i, text), SetLine(y, i, text)>> \in SameText
  <1>1. /\ x \in Seq(Strings) /\ y \in Seq(Strings)
        /\ x = y \/ (x \in {<< >>, <<Blank>>} /\ y \in {<< >>, <<Blank>>})
    BY AlikeTexts
  <1>2. SetLine(x, i, text) \in Seq(Strings) /\ SetLine(y, i, text) \in Seq(Strings)
    BY <1>1, StringsOfLines
  <1> DEFINE written == [k \in 1..i |-> IF k = i THEN text ELSE Blank]
  <1>3. SetLine(<< >>, i, text) = written
    <2>1. Len(<< >>) = 0 /\ i > 0 /\ \A k \in 1..i : ~ (k <= 0)
      OBVIOUS
    <2> QED
      BY <2>1 DEF SetLine
  <1>4. SetLine(<<Blank>>, i, text) = written
    <2>1. Len(<<Blank>>) = 1 /\ <<Blank>>[1] = Blank
      OBVIOUS
    <2>2. (IF i > 1 THEN i ELSE 1) = i /\ \A k \in 1..i : k <= 1 => k = 1
      OBVIOUS
    <2> HIDE DEF Blank
    <2> QED
      BY <2>1, <2>2 DEF SetLine
  <1>5. SetLine(x, i, text) = SetLine(y, i, text)
    BY <1>1, <1>3, <1>4
  <1> QED
    BY <1>2, <1>5 DEF SameText

LEMMA AlikeAfterDelete ==
  ASSUME NEW x, NEW y, <<x, y>> \in SameText, NEW i \in Nat
  PROVE  <<DeleteLine(x, i), DeleteLine(y, i)>> \in SameText
  <1>1. /\ x \in Seq(Strings) /\ y \in Seq(Strings)
        /\ x = y \/ (x \in {<< >>, <<Blank>>} /\ y \in {<< >>, <<Blank>>})
    BY AlikeTexts
  <1>2. DeleteLine(x, i) \in Seq(Strings) /\ DeleteLine(y, i) \in Seq(Strings)
    <2>1. i \in Int
      OBVIOUS
    <2> QED
      BY <1>1, <2>1, DeletedLine
  <1>3. DeleteLine(<< >>, i) = << >>
    BY DEF DeleteLine
  <1>4. DeleteLine(<<Blank>>, i) \in {<< >>, <<Blank>>}
    <2>1. Blank \in Strings
      BY DEF Strings
    <2>2. <<Blank>> \in Seq(Strings)
      BY <2>1
    <2> PICK s \in Seq(Strings) : s = <<Blank>>
      BY <2>2
    <2>3. Len(s) = 1 /\ i \in Int
      OBVIOUS
    <2>4. DeleteLine(s, i) \in Seq(Strings) /\ (DeleteLine(s, i) = s \/ Len(DeleteLine(s, i)) = 1 - 1)
      BY <2>3, DeletedLine
    <2>5. Len(DeleteLine(s, i)) = 1 - 1 => DeleteLine(s, i) = << >>
      BY <2>4
    <2> QED
      BY <2>4, <2>5
  <1>5. \A s, t \in {<< >>, <<Blank>>} : joinLines(s) = joinLines(t)
    BY DEF joinLines, EmptyString
  <1>6. joinLines(DeleteLine(x, i)) = joinLines(DeleteLine(y, i))
    BY <1>1, <1>3, <1>4, <1>5
  <1> QED
    BY <1>2, <1>6 DEF SameText

(* A line number put among the ones that are to be deleted.                *)
LEMMA CollectedNumbers ==
  ASSUME NEW D \in Seq(Nat), NEW i \in Nat
  PROVE  InsertAt(D, Cardinality({k \in DOMAIN D : D[k] >= i}) + 1, i) \in Seq(Nat)
  <1> DEFINE larger == {k \in DOMAIN D : D[k] >= i}
  <1>1. Len(D) \in Nat /\ DOMAIN D = 1..Len(D)
    OBVIOUS
  <1>2. IsFiniteSet(1..Len(D)) /\ Cardinality(1..Len(D)) = Len(D)
    BY <1>1, FS_Interval
  <1>3. larger \subseteq 1..Len(D)
    BY <1>1
  <1> HIDE DEF larger
  <1>4. PICK c \in Nat : c = Cardinality(larger) /\ c <= Len(D)
    <2>1. IsFiniteSet(larger) /\ Cardinality(larger) <= Len(D)
      BY <1>2, <1>3, FS_Subset
    <2> QED
      BY <2>1, FS_CardinalityType
  <1>5. SubSeq(D, 1, (c + 1) - 1) \in Seq(Nat) /\ SubSeq(D, c + 1, Len(D)) \in Seq(Nat)
    BY <1>1, <1>4
  <1>6. InsertAt(D, c + 1, i) \in Seq(Nat)
    BY <1>5 DEF InsertAt
  <1> QED
    BY <1>4, <1>6 DEF larger

(* The index applies an event to two such texts with one result.           *)
LEMMA AlikeAfterEvent ==
  ASSUME NEW x, NEW y, <<x, y>> \in SameText, NEW p \in Payloads
  PROVE  joinLines(applyEntriesToLines(x, p)) = joinLines(applyEntriesToLines(y, p))
  <1> DEFINE S == {e \in LineEntry : e.line >= 1 /\ e.text \in Strings}
  <1>1. p \in Seq(S)
    <2>1. p \in Seq(LineEntry) /\ \A k \in DOMAIN p : p[k] \in S
      BY PayloadEntries
    <2> HIDE DEF S
    <2> QED
      BY <2>1
  <1>2. \A u, v, e : <<u, v>> \in SameText /\ e \in S => <<WriteLine(u, e), WriteLine(v, e)>> \in SameText
    <2> SUFFICES ASSUME NEW u, NEW v, NEW e, <<u, v>> \in SameText, e \in S
                 PROVE  <<WriteLine(u, e), WriteLine(v, e)>> \in SameText
      OBVIOUS
    <2>1. e.line \in Nat /\ e.line >= 1 /\ e.text \in Strings
      BY DEF LineEntry
    <2>2. <<SetLine(u, e.line, e.text), SetLine(v, e.line, e.text)>> \in SameText
      BY <2>1, AlikeAfterWrite
    <2> QED
      BY <2>2 DEF WriteLine
  <1> HIDE DEF S
  <1>3. <<Writing!Folded(x, p), Writing!Folded(y, p)>> \in SameText
    BY <1>1, <1>2, Writing!FoldsStayRelated
  <1>4. PICK D \in Seq(Nat) : D = Collecting!Folded(<< >>, p)
    <2> DEFINE T == Seq(Nat)
    <2>1. << >> \in T
      OBVIOUS
    <2>2. \A d \in T, e \in LineEntry : AddDelete(d, e) \in T
      <3> SUFFICES ASSUME NEW d \in Seq(Nat), NEW e \in LineEntry PROVE AddDelete(d, e) \in Seq(Nat)
        OBVIOUS
      <3>1. e.line \in Nat
        BY DEF LineEntry
      <3> QED
        BY <3>1, CollectedNumbers DEF AddDelete
    <2>3. p \in Seq(LineEntry)
      BY PayloadEntries
    <2> HIDE DEF T
    <2>4. Collecting!Folded(<< >>, p) \in T
      BY <2>1, <2>2, <2>3, Collecting!FoldStaysWithin
    <2> QED
      BY <2>4 DEF T
  <1>5. \A u, v, i : <<u, v>> \in SameText /\ i \in Nat => <<DeleteLine(u, i), DeleteLine(v, i)>> \in SameText
    BY AlikeAfterDelete
  <1>6. <<Dropping!Folded(Writing!Folded(x, p), D), Dropping!Folded(Writing!Folded(y, p), D)>> \in SameText
    BY <1>3, <1>5, Dropping!FoldsStayRelated
  <1> QED
    BY <1>4, <1>6, TheseAreFolds, AlikeTexts DEF applyEntriesToLines

-----------------------------------------------------------------------------
(* A clean note: no append of it failed, so its blocks are the events that *)
(* the index counts and the one on its way, each written as a whole.       *)
WholeBlocks == [sequence : Nat, entries : {AsWritten(p) : p \in Payloads}]

(* The text of the blocks, before joinLines.                               *)
Texted(blocks) == Rebuilding!Folded(<< >>, blocks)

(* The events of n that AppendEvent has acknowledged.                      *)
Ours(n) == {a[3] : a \in {b \in acked : b[1] = n}}

(* An append has written its block of n and not yet told the index.        *)
OnItsWay(n) == op.at \in {"header", "index"} /\ op.note = n

(* The index has the title and the mark that were last set.                *)
FieldsAreKept(n) == wanted[n] = [title |-> idx[n].title, deleted |-> idx[n].deleted]

(* done are the blocks of the events that the index counts.                *)
CountsEvents(n, done) ==
  /\ Len(done) = idx[n].head
  /\ file[n].blocks = IF OnItsWay(n) THEN Append(done, Block(op.sequence, op.entries)) ELSE done
  /\ file[n].head = IF OnItsWay(n) /\ op.at = "index" THEN idx[n].head + 1 ELSE idx[n].head
  /\ (OnItsWay(n) /\ op.at = "header") \/ Scannable(file[n])
  /\ \A k \in DOMAIN done : done[k].sequence = k /\ (done[k].entries = << >> => << >> \in Ours(n))

(* The cached text is theirs, if callers wrote before they deleted.        *)
CachesText(n, done) ==
  (\A e \in Ours(n) : InOrder(e)) /\ idx[n].type = "normal" =>
     idx[n].content = joinLines(Texted(done))

Whole(n) ==
  /\ FieldsAreKept(n)
  /\ \E done \in Seq(WholeBlocks) : CountsEvents(n, done) /\ CachesText(n, done)

(* A file that the index has yet to learn of.                              *)
NotIndexedYet(n) ==
  file[n].exists => /\ file[n].blocks \in Seq(WholeBlocks)
                    /\ wanted[n] = [title |-> file[n].title, deleted |-> FALSE]

(* Inductive, with IInv and DownIsIdle: every clean note is one of both.   *)
WholeInv ==
  /\ DOMAIN wanted = FileNotes
  /\ \A n \in FileNotes : marred[n] = "clean" => IF idx[n].exists THEN Whole(n) ELSE NotIndexedYet(n)

LEMMA WholeInvInit == Init => WholeInv
  BY DEF Init, WholeInv, NotIndexedYet, NoFile, NoEntry

LEMMA BlockIsWhole ==
  ASSUME NEW s \in Nat, NEW p \in Payloads
  PROVE  /\ Block(s, p) \in WholeBlocks /\ Block(s, p).sequence = s /\ Block(s, p).entries = AsWritten(p)
         /\ AsWritten(p) = << >> => p = << >>
  <1>1. Block(s, p) \in WholeBlocks /\ Block(s, p).sequence = s /\ Block(s, p).entries = AsWritten(p)
    BY DEF Block, WholeBlocks
  <1>2. p \in Seq(LineEntry) /\ Len(AsWritten(p)) = Len(p)
    BY PayloadEntries
  <1> QED
    BY <1>1, <1>2

(* What the replay of whole blocks makes.                                  *)
LEMMA ReplayIsText ==
  ASSUME NEW blocks \in Seq(WholeBlocks)
  PROVE  Texted(blocks) \in Seq(Strings)
  <1> DEFINE T == Seq(Strings)
  <1>1. << >> \in T
    OBVIOUS
  <1>2. \A x \in T, b \in WholeBlocks : ApplyBlock(x, b) \in T
    BY ReplayedEventIsText DEF ApplyBlock, WholeBlocks
  <1> HIDE DEF T
  <1>3. Texted(blocks) \in T
    BY <1>1, <1>2, Rebuilding!FoldStaysWithin DEF Texted
  <1> QED
    BY <1>3 DEF T

LEMMA ReplayIsTheText ==
  ASSUME NEW f
  PROVE  Replay(f) = joinLines(Texted(f.blocks))
  BY TheseAreFolds DEF Replay, Texted

(* The update of the cached text is the replay of one more event.          *)
LEMMA CacheFollows ==
  ASSUME NEW done \in Seq(WholeBlocks), NEW s \in Nat, NEW p \in Payloads, InOrder(p)
  PROVE  joinLines(applyEntriesToLines(SplitLines(joinLines(Texted(done))), p))
           = joinLines(Texted(Append(done, Block(s, p))))
  <1>1. PICK x : x = Texted(done)
    OBVIOUS
  <1>2. x \in Seq(Strings)
    BY <1>1, ReplayIsText
  <1>3. Texted(Append(done, Block(s, p))) = applyEvent(x, AsWritten(p))
    BY <1>1, BlockIsWhole, Rebuilding!FoldOfAppend DEF Texted, ApplyBlock
  <1>4. applyEvent(x, AsWritten(p)) = applyEntriesToLines(x, p)
    BY <1>2, AppliersAgree
  <1>5. <<joinLines(x), x>> \in SameText
    <2>1. << >> \in Seq(Strings) /\ << >> # <<Blank>>
      OBVIOUS
    <2>2. joinLines(x) \in Seq(Strings) /\ joinLines(joinLines(x)) = joinLines(x)
      BY <1>2, <2>1 DEF joinLines, EmptyString
    <2> QED
      BY <1>2, <2>2 DEF SameText
  <1> QED
    BY <1>1, <1>3, <1>4, <1>5, AlikeAfterEvent DEF SplitLines

(* A note that a step leaves alone.                                        *)
LEMMA OthersStayWhole ==
  ASSUME WholeInv, NEW n \in FileNotes, marred'[n] = "clean" => marred[n] = "clean",
         file'[n] = file[n], idx'[n] = idx[n], wanted'[n] = wanted[n], Ours(n)' = Ours(n),
         (~ OnItsWay(n) /\ ~ OnItsWay(n)') \/ UNCHANGED op
  PROVE  marred'[n] = "clean" => IF idx'[n].exists THEN Whole(n)' ELSE NotIndexedYet(n)'
  <1> SUFFICES ASSUME marred[n] = "clean"
               PROVE  IF idx'[n].exists THEN Whole(n)' ELSE NotIndexedYet(n)'
    OBVIOUS
  <1>1. CASE idx[n].exists
    <2>1. Whole(n)
      BY <1>1 DEF WholeInv
    <2>2. PICK done \in Seq(WholeBlocks) : CountsEvents(n, done) /\ CachesText(n, done)
      BY <2>1 DEF Whole
    <2>3. CountsEvents(n, done)'
      <3>1. OnItsWay(n)' = OnItsWay(n) /\ (OnItsWay(n) => UNCHANGED op)
        BY DEF OnItsWay
      <3>2. Scannable(file'[n]) = Scannable(file[n])
        OBVIOUS
      <3>3. CASE OnItsWay(n)
        BY <2>2, <3>1, <3>2, <3>3 DEF CountsEvents
      <3>4. CASE ~ OnItsWay(n)
        BY <2>2, <3>1, <3>2, <3>4 DEF CountsEvents
      <3> QED
        BY <3>3, <3>4
    <2>4. CachesText(n, done)'
      BY <2>2 DEF CachesText
    <2>5. FieldsAreKept(n)'
      BY <2>1 DEF Whole, FieldsAreKept
    <2> QED
      BY <1>1, <2>3, <2>4, <2>5 DEF Whole
  <1>2. CASE ~ idx[n].exists
    BY <1>2 DEF WholeInv, NotIndexedYet
  <1> QED
    BY <1>1, <1>2

(* A step that changes one note.                                           *)
LEMMA OneNoteStaysWhole ==
  ASSUME WholeInv, NEW n \in FileNotes, DOMAIN wanted' = FileNotes,
         \A m \in FileNotes \ {n} :
           /\ file'[m] = file[m] /\ idx'[m] = idx[m] /\ marred'[m] = marred[m] /\ wanted'[m] = wanted[m]
           /\ Ours(m)' = Ours(m) /\ ~ OnItsWay(m) /\ ~ OnItsWay(m)',
         marred'[n] = "clean" => IF idx'[n].exists THEN Whole(n)' ELSE NotIndexedYet(n)'
  PROVE  WholeInv'
  <1>1. \A m \in FileNotes \ {n} : marred'[m] = "clean" => IF idx'[m].exists THEN Whole(m)' ELSE NotIndexedYet(m)'
    BY OthersStayWhole
  <1> QED
    BY <1>1 DEF WholeInv

(* Marking a note.                                                         *)
LEMMA MarkedNote ==
  ASSUME Functions, NEW n \in FileNotes, NEW how \in {"failed", "cut"}, Mar(n, how)
  PROVE  marred'[n] # "clean" /\ \A m \in FileNotes \ {n} : marred'[m] = marred[m]
  BY DEF Mar, Functions

(* The end of a step that changes at most the marks.                       *)
LEMMA EndKeepsWhole ==
  ASSUME WholeInv, UNCHANGED <<file, idx, acked, wanted>>,
         \A n \in FileNotes :
           /\ marred'[n] = "clean" => marred[n] = "clean"
           /\ UNCHANGED op \/ marred'[n] # "clean" \/ (~ OnItsWay(n) /\ ~ OnItsWay(n)')
  PROVE  WholeInv'
  <1>1. \A n \in FileNotes : Ours(n)' = Ours(n)
    BY DEF Ours
  <1>2. ASSUME NEW n \in FileNotes, marred'[n] = "clean"
        PROVE  IF idx'[n].exists THEN Whole(n)' ELSE NotIndexedYet(n)'
    BY <1>1, <1>2, OthersStayWhole
  <1> QED
    BY <1>2 DEF WholeInv

(* A parsed file that is indexed.                                          *)
LEMMA IndexedFileIsWhole ==
  ASSUME NEW n \in FileNotes, UNCHANGED <<file, wanted>>, idx'[n] = FromFile(file[n]),
         ~ OnItsWay(n)', Parses(file[n]), file[n] \in NotxFile, file[n].head = Len(file[n].blocks),
         NotIndexedYet(n)
  PROVE  Whole(n)'
  <1> DEFINE f == file[n]
             done == f.blocks
  <1>1. done \in Seq(WholeBlocks) /\ wanted[n] = [title |-> f.title, deleted |-> FALSE]
    BY DEF NotIndexedYet, Parses
  <1>2. /\ idx'[n].head = Len(done) /\ idx'[n].title = f.title /\ idx'[n].deleted = FALSE
        /\ idx'[n].type = "normal" => idx'[n].content = Replay(f)
    BY DEF FromFile, IndexEntry
  <1>3. CountsEvents(n, done)'
    BY <1>2 DEF CountsEvents, Parses
  <1>4. CachesText(n, done)'
    BY <1>2, ReplayIsTheText DEF CachesText
  <1>5. FieldsAreKept(n)'
    BY <1>1, <1>2 DEF FieldsAreKept
  <1> QED
    BY <1>1, <1>3, <1>4, <1>5 DEF Whole

(* One lemma for each step of Next.                                        *)
LEMMA CreationKeepsWhole ==
  ASSUME IInv, WholeInv, NEW n \in FileNotes, WriteStub(n) \/ TearStub(n) \/ CopyIn(n)
  PROVE  WholeInv'
  <1>1. ~ file[n].exists /\ UNCHANGED <<idx, acked, marred>> /\ op = Idle
    BY DEF WriteStub, TearStub, CopyIn, Free
  <1>2. op' = Idle \/ op' = [at |-> "stub", note |-> n]
    BY <1>1 DEF WriteStub, TearStub, CopyIn
  <1>3. \A m : ~ OnItsWay(m) /\ ~ OnItsWay(m)'
    BY <1>1, <1>2 DEF OnItsWay, Idle
  <1>4. PICK f, t : /\ file' = [file EXCEPT ![n] = f]
                    /\ wanted' = [wanted EXCEPT ![n] = [title |-> t, deleted |-> FALSE]]
                    /\ f.title = t /\ f.blocks \in Seq(WholeBlocks)
    <2>1. << >> \in Seq(WholeBlocks)
      OBVIOUS
    <2>2. CASE WriteStub(n)
      <3>1. PICK t \in Titles, y \in Types :
              /\ file' = [file EXCEPT ![n] = Stub(t, y)]
              /\ wanted' = [wanted EXCEPT ![n] = [title |-> t, deleted |-> FALSE]]
        BY <2>2 DEF WriteStub
      <3>2. Stub(t, y).title = t /\ Stub(t, y).blocks = << >>
        BY DEF Stub
      <3> QED
        BY <2>1, <3>1, <3>2
    <2>3. CASE TearStub(n)
      <3>1. PICK t \in Titles, y \in Types, complete \in BOOLEAN :
              /\ file' = [file EXCEPT ![n] = [Stub(t, y) EXCEPT !.readable = complete]]
              /\ wanted' = [wanted EXCEPT ![n] = [title |-> t, deleted |-> FALSE]]
        BY <2>3 DEF TearStub
      <3>2. [Stub(t, y) EXCEPT !.readable = complete].title = t
            /\ [Stub(t, y) EXCEPT !.readable = complete].blocks = << >>
        BY DEF Stub
      <3> QED
        BY <2>1, <3>1, <3>2
    <2>4. CASE CopyIn(n)
      <3>1. PICK t \in Titles, p \in Payloads :
              /\ file' = [file EXCEPT ![n] = [Stub(t, "normal") EXCEPT !.head = 1, !.blocks = <<Block(1, p)>>]]
              /\ wanted' = [wanted EXCEPT ![n] = [title |-> t, deleted |-> FALSE]]
        BY <2>4 DEF CopyIn
      <3> DEFINE f == [Stub(t, "normal") EXCEPT !.head = 1, !.blocks = <<Block(1, p)>>]
      <3>2. f.title = t /\ f.blocks = <<Block(1, p)>>
        BY DEF Stub
      <3>3. <<Block(1, p)>> \in Seq(WholeBlocks)
        BY BlockIsWhole
      <3> QED
        BY <3>1, <3>2, <3>3
    <2> QED
      BY <2>2, <2>3, <2>4
  <1>5. DOMAIN file = FileNotes /\ DOMAIN wanted = FileNotes
    BY DEF IInv, Functions, WholeInv
  <1>6. \A m \in FileNotes \ {n} : file'[m] = file[m] /\ wanted'[m] = wanted[m]
    BY <1>4, <1>5
  <1>7. DOMAIN wanted' = FileNotes
    BY <1>4, <1>5
  <1>8. marred[n] = "clean" => ~ idx[n].exists
    BY <1>1, FreePathIsUnindexed DEF IInv, NotesAreSound
  <1>9. file'[n] = f /\ wanted'[n] = [title |-> t, deleted |-> FALSE]
    BY <1>4, <1>5
  <1>10. marred'[n] = "clean" => IF idx'[n].exists THEN Whole(n)' ELSE NotIndexedYet(n)'
    BY <1>1, <1>4, <1>8, <1>9 DEF NotIndexedYet
  <1>11. \A m \in FileNotes : Ours(m)' = Ours(m)
    BY <1>1 DEF Ours
  <1> QED
    BY <1>1, <1>3, <1>6, <1>7, <1>10, <1>11, OneNoteStaysWhole

LEMMA IndexStubKeepsWhole ==
  ASSUME IInv, WholeInv, IndexStub \/ IndexStubFails
  PROVE  WholeInv'
  <1>1. PICK n \in FileNotes : n = op.note
    BY OperationKinds DEF IInv, IndexStub, IndexStubFails
  <1>2. op.at = "stub" /\ op # Idle /\ op' = Idle /\ UNCHANGED <<acked, marred, wanted>>
    BY OperationKinds DEF IInv, IndexStub, IndexStubFails
  <1>3. marred[n] = "cut" \/ (StubWaits(n) /\ Sound(n))
    BY <1>1, <1>2 DEF IInv, OperationIsSound, NotesAreSound
  <1>4. \A m : ~ OnItsWay(m) /\ ~ OnItsWay(m)'
    BY <1>2 DEF OnItsWay, Idle
  <1>5. DOMAIN file = FileNotes /\ DOMAIN idx = FileNotes /\ DOMAIN wanted = FileNotes
    BY DEF IInv, Functions, WholeInv
  <1>6. \A m \in FileNotes : Ours(m)' = Ours(m)
    BY <1>2 DEF Ours
  <1>7. CASE IndexStub
    <2>1. idx' = [idx EXCEPT ![n] = FromFile(file[n])] /\ UNCHANGED file
      BY <1>1, <1>7 DEF IndexStub, Upsert
    <2>2. idx'[n] = FromFile(file[n]) /\ \A m \in FileNotes \ {n} : idx'[m] = idx[m]
      BY <1>5, <2>1
    <2>3. ASSUME marred[n] = "clean" PROVE Whole(n)' /\ idx'[n].exists
      <3>1. StubWaits(n) /\ NotIndexedYet(n)
        BY <1>3, <2>3 DEF StubWaits, WholeInv
      <3>2. file[n].blocks = << >> /\ file[n].head = 0 /\ file[n] \in NotxFile /\ file[n].readable /\ file[n].exists
        BY <3>1 DEF StubWaits, NotxFile
      <3>3. Len(file[n].blocks) = 0 /\ DOMAIN file[n].blocks = {}
        BY <3>2
      <3>4. Parses(file[n])
        BY <3>2, <3>3 DEF Parses, Scannable
      <3>5. Whole(n)'
        BY <1>2, <1>4, <2>1, <2>2, <3>1, <3>2, <3>3, <3>4, IndexedFileIsWhole
      <3> QED
        BY <2>2, <3>5 DEF FromFile, IndexEntry
    <2> QED
      BY <1>2, <1>4, <1>5, <1>6, <2>1, <2>2, <2>3, OneNoteStaysWhole
  <1>8. CASE IndexStubFails
    <2>1. UNCHANGED idx /\ (UNCHANGED file \/ file' = [file EXCEPT ![n] = NoFile])
      BY <1>1, <1>8 DEF IndexStubFails
    <2>2. \A m \in FileNotes \ {n} : file'[m] = file[m]
      BY <1>5, <2>1
    <2>3. file'[n] = file[n] \/ file'[n] = NoFile
      BY <1>5, <2>1
    <2>4. ASSUME marred[n] = "clean" PROVE ~ idx[n].exists /\ NotIndexedYet(n)
      BY <1>3, <2>4 DEF StubWaits, WholeInv
    <2>5. marred'[n] = "clean" => ~ idx'[n].exists /\ NotIndexedYet(n)'
      <3>1. CASE file'[n] = file[n]
        BY <1>2, <2>1, <2>4, <3>1 DEF NotIndexedYet
      <3>2. CASE file'[n] = NoFile
        <4>1. file'[n].exists = FALSE
          BY <3>2 DEF NoFile
        <4> QED
          BY <1>2, <2>1, <2>4, <4>1 DEF NotIndexedYet
      <3> QED
        BY <2>3, <3>1, <3>2
    <2> QED
      BY <1>2, <1>4, <1>5, <1>6, <2>1, <2>2, <2>5, OneNoteStaysWhole
  <1> QED
    BY <1>7, <1>8

LEMMA EventKeepsWhole ==
  ASSUME IInv, WholeInv, NEW n \in FileNotes, NEW s \in Nat, NEW p \in Payloads,
         WriteEvent(n, s, p) \/ TearEvent(n, s, p)
  PROVE  WholeInv'
  <1>1. op = Idle /\ UNCHANGED <<idx, acked, wanted>> /\ Accepts(n, s)
    BY DEF WriteEvent, TearEvent, Free
  <1>2. PICK q : Appended(n, s, q) /\ (WriteEvent(n, s, p) => q = p)
    BY DEF WriteEvent, TearEvent
  <1>3. DOMAIN file = FileNotes /\ DOMAIN wanted' = FileNotes
    BY <1>1 DEF IInv, Functions, WholeInv
  <1>4. file' = [file EXCEPT ![n] = [file[n] EXCEPT !.blocks = Append(@, Block(s, q))]]
    BY <1>2, <1>3 DEF Appended
  <1>5. /\ file'[n] = [file[n] EXCEPT !.blocks = Append(@, Block(s, q))]
        /\ \A m \in FileNotes \ {n} : file'[m] = file[m]
    BY <1>3, <1>4
  <1>6. op' = Idle \/ op' = [at |-> "header", note |-> n, sequence |-> s, entries |-> p]
    BY <1>1 DEF WriteEvent, TearEvent
  <1>7. \A m \in FileNotes \ {n} : Ours(m)' = Ours(m) /\ ~ OnItsWay(m) /\ ~ OnItsWay(m)'
    BY <1>1, <1>6 DEF Ours, OnItsWay, Idle
  <1>8. CASE TearEvent(n, s, p)
    <2>1. marred'[n] # "clean" /\ \A m \in FileNotes \ {n} : marred'[m] = marred[m]
      BY <1>8, MarkedNote DEF TearEvent, IInv
    <2> QED
      BY <1>1, <1>3, <1>5, <1>7, <2>1, OneNoteStaysWhole
  <1>9. CASE WriteEvent(n, s, p)
    <2>1. UNCHANGED marred /\ op' = [at |-> "header", note |-> n, sequence |-> s, entries |-> p] /\ q = p
      BY <1>2, <1>9 DEF WriteEvent
    <2>2. ASSUME marred[n] = "clean" PROVE Whole(n)' /\ idx'[n].exists
      <3>1. idx[n].exists /\ s = idx[n].head + 1 /\ Whole(n) /\ Indexed(file[n], idx[n])
        BY <1>1, <2>2 DEF Accepts, WholeInv, IInv, NotesAreSound, Sound
      <3>2. PICK done \in Seq(WholeBlocks) : CountsEvents(n, done) /\ CachesText(n, done)
        BY <3>1 DEF Whole
      <3>3. ~ OnItsWay(n) /\ OnItsWay(n)'
        BY <1>1, <2>1 DEF OnItsWay, Idle
      <3>4. /\ Len(done) = idx[n].head /\ file[n].blocks = done /\ file[n].head = idx[n].head
            /\ \A k \in DOMAIN done : done[k].sequence = k /\ (done[k].entries = << >> => << >> \in Ours(n))
        BY <3>2, <3>3 DEF CountsEvents
      <3>5. file'[n].blocks = Append(done, Block(s, p)) /\ file'[n].head = idx[n].head
        BY <1>5, <2>1, <3>1, <3>4 DEF Indexed, NotxFile
      <3>6. op'.at = "header" /\ op'.sequence = s /\ op'.entries = p
        BY <2>1
      <3>7. Ours(n)' = Ours(n)
        BY <1>1 DEF Ours
      <3>8. CountsEvents(n, done)'
        BY <1>1, <3>3, <3>4, <3>5, <3>6, <3>7 DEF CountsEvents
      <3>9. CachesText(n, done)'
        BY <1>1, <3>2, <3>7 DEF CachesText
      <3>10. FieldsAreKept(n)'
        BY <1>1, <3>1 DEF Whole, FieldsAreKept
      <3> QED
        BY <1>1, <3>1, <3>8, <3>9, <3>10 DEF Whole
    <2> QED
      BY <1>1, <1>3, <1>5, <1>7, <2>1, <2>2, OneNoteStaysWhole
  <1> QED
    BY <1>8, <1>9

(* The note of an operation between block, header and index.               *)
LEMMA NoteOnItsWay ==
  ASSUME IInv, WholeInv, op.at \in {"header", "index"}
  PROVE  /\ op.note \in FileNotes /\ OnItsWay(op.note) /\ op.sequence \in Nat /\ op.entries \in Payloads
         /\ \A m \in FileNotes \ {op.note} : ~ OnItsWay(m)
         /\ marred[op.note] = "clean" =>
              /\ idx[op.note].exists /\ Whole(op.note) /\ op.sequence = idx[op.note].head + 1
              /\ Indexed(file[op.note], idx[op.note])
  <1>1. op.note \in FileNotes /\ op # Idle /\ op.at # "stub" /\ op.sequence \in Nat /\ op.entries \in Payloads
    BY OperationKinds DEF IInv
  <1>2. OnItsWay(op.note) /\ \A m \in FileNotes \ {op.note} : ~ OnItsWay(m)
    BY DEF OnItsWay
  <1>3. ASSUME marred[op.note] = "clean"
        PROVE  /\ idx[op.note].exists /\ Whole(op.note) /\ op.sequence = idx[op.note].head + 1
               /\ Indexed(file[op.note], idx[op.note])
    <2>1. EventWaits(op.note) /\ Sound(op.note)
      BY <1>1, <1>3 DEF IInv, OperationIsSound, NotesAreSound
    <2> QED
      BY <1>1, <1>3, <2>1 DEF EventWaits, Sound, WholeInv
  <1> QED
    BY <1>1, <1>2, <1>3

LEMMA FailureKeepsWhole ==
  ASSUME IInv, WholeInv, HeaderFails \/ TearHeader \/ IndexFails
  PROVE  WholeInv'
  <1>1. PICK n \in FileNotes : n = op.note
    BY NoteOnItsWay DEF HeaderFails, TearHeader, IndexFails
  <1>2. op' = Idle /\ UNCHANGED <<idx, acked, wanted>> /\ (Mar(n, "failed") \/ Mar(n, "cut"))
    BY <1>1 DEF HeaderFails, TearHeader, IndexFails
  <1>3. marred'[n] # "clean" /\ \A m \in FileNotes \ {n} : marred'[m] = marred[m]
    BY <1>2, MarkedNote DEF IInv
  <1>4. \A m \in FileNotes \ {n} : file'[m] = file[m]
    <2>1. DOMAIN file = FileNotes
      BY DEF IInv, Functions
    <2> QED
      BY <1>1, <2>1 DEF HeaderFails, TearHeader, IndexFails
  <1>5. \A m \in FileNotes \ {n} : Ours(m)' = Ours(m) /\ ~ OnItsWay(m) /\ ~ OnItsWay(m)'
    BY <1>1, <1>2 DEF Ours, OnItsWay, Idle
  <1>6. DOMAIN wanted' = FileNotes
    BY <1>2 DEF WholeInv
  <1> QED
    BY <1>2, <1>3, <1>4, <1>5, <1>6, OneNoteStaysWhole

LEMMA HeaderKeepsWhole ==
  ASSUME IInv, WholeInv, UpdateHeader
  PROVE  WholeInv'
  <1> USE DEF UpdateHeader
  <1>1. PICK n \in FileNotes : n = op.note
    BY NoteOnItsWay
  <1>2. op.at = "header" /\ op' = [op EXCEPT !.at = "index"] /\ Scannable(file[n])
        /\ UNCHANGED <<idx, acked, marred, wanted>>
    BY <1>1
  <1>3. op \in [at : {"header", "index"}, note : FileNotes, sequence : Nat, entries : Payloads]
    BY <1>2, OperationKinds DEF IInv
  <1>4. op'.at = "index" /\ op'.note = n /\ op'.sequence = op.sequence /\ op'.entries = op.entries
    BY <1>1, <1>2, <1>3
  <1>5. DOMAIN file = FileNotes /\ DOMAIN wanted' = FileNotes
    BY <1>2 DEF IInv, Functions, WholeInv
  <1>6. file' = [file EXCEPT ![n] = [file[n] EXCEPT !.head = IF file[n].readable THEN op.sequence ELSE @]]
    BY <1>1, <1>5
  <1>7. /\ file'[n] = [file[n] EXCEPT !.head = IF file[n].readable THEN op.sequence ELSE @]
        /\ \A m \in FileNotes \ {n} : file'[m] = file[m]
    BY <1>5, <1>6
  <1>8. \A m \in FileNotes \ {n} : Ours(m)' = Ours(m) /\ ~ OnItsWay(m) /\ ~ OnItsWay(m)'
    BY <1>1, <1>2, <1>4 DEF Ours, OnItsWay
  <1>9. ASSUME marred[n] = "clean" PROVE Whole(n)' /\ idx'[n].exists
    <2>1. /\ idx[n].exists /\ Whole(n) /\ op.sequence = idx[n].head + 1 /\ Indexed(file[n], idx[n])
          /\ OnItsWay(n) /\ op.sequence \in Nat
      BY <1>1, <1>2, <1>9, NoteOnItsWay
    <2>2. PICK done \in Seq(WholeBlocks) : CountsEvents(n, done) /\ CachesText(n, done)
      BY <2>1 DEF Whole
    <2>3. file'[n].head = idx[n].head + 1 /\ file'[n].blocks = file[n].blocks
      <3>1. file[n] \in NotxFile /\ file[n].readable
        BY <2>1 DEF Indexed
      <3>2. file'[n] = [file[n] EXCEPT !.head = op.sequence]
        BY <1>7, <3>1
      <3> QED
        BY <2>1, <3>1, <3>2, HeaderChange
    <2>4. Scannable(file'[n])
      BY <1>2, <2>3 DEF Scannable
    <2>5. OnItsWay(n)' /\ Ours(n)' = Ours(n)
      BY <1>2, <1>4 DEF OnItsWay, Ours
    <2>6. CountsEvents(n, done)'
      BY <1>2, <1>4, <2>1, <2>2, <2>3, <2>4, <2>5 DEF CountsEvents
    <2>7. CachesText(n, done)'
      BY <1>2, <2>2, <2>5 DEF CachesText
    <2>8. FieldsAreKept(n)'
      BY <1>2, <2>1 DEF Whole, FieldsAreKept
    <2> QED
      BY <1>2, <2>1, <2>6, <2>7, <2>8 DEF Whole
  <1> QED
    BY <1>2, <1>5, <1>7, <1>8, <1>9, OneNoteStaysWhole

LEMMA UpsertKeepsWhole ==
  ASSUME IInv, WholeInv, UpsertIndex
  PROVE  WholeInv'
  <1>1. PICK n \in FileNotes : n = op.note
    BY NoteOnItsWay DEF UpsertIndex
  <1>2. /\ op.at = "index" /\ op' = Idle /\ UNCHANGED <<file, marred, wanted>>
        /\ acked' = acked \cup {<<n, op.sequence, op.entries>>}
    BY <1>1 DEF UpsertIndex
  <1> DEFINE old == idx[n]
             new == IndexEntry(old, old.type, op.sequence, NewContent(n, op.entries))
  <1>3. idx' = [idx EXCEPT ![n] = new]
    BY <1>1 DEF UpsertIndex, Upsert
  <1>4. DOMAIN idx = FileNotes /\ DOMAIN wanted' = FileNotes
    BY <1>2 DEF IInv, Functions, WholeInv
  <1>5. idx'[n] = new /\ \A m \in FileNotes \ {n} : idx'[m] = idx[m]
    BY <1>3, <1>4
  <1>6. \A m \in FileNotes \ {n} : Ours(m)' = Ours(m)
    BY <1>2 DEF Ours
  <1>7. \A m : ~ OnItsWay(m)'
    BY <1>2 DEF OnItsWay, Idle
  <1>8. \A m \in FileNotes \ {n} : ~ OnItsWay(m)
    BY <1>1 DEF OnItsWay
  <1>9. new.exists = TRUE /\ new.title = old.title /\ new.deleted = old.deleted /\ new.type = old.type
        /\ new.head = op.sequence /\ (old.type = "normal" => new.content = NewContent(n, op.entries))
    BY DEF IndexEntry
  <1>10. ASSUME marred[n] = "clean" PROVE Whole(n)' /\ idx'[n].exists
    <2>1. /\ idx[n].exists /\ Whole(n) /\ op.sequence = idx[n].head + 1 /\ Indexed(file[n], idx[n])
          /\ OnItsWay(n) /\ op.sequence \in Nat /\ op.entries \in Payloads
      BY <1>1, <1>2, <1>10, NoteOnItsWay
    <2>2. PICK before \in Seq(WholeBlocks) : CountsEvents(n, before) /\ CachesText(n, before)
      BY <2>1 DEF Whole
    <2>3. PICK s \in Nat, p \in Payloads : s = op.sequence /\ p = op.entries
      BY <2>1
    <2>4. PICK b \in WholeBlocks : /\ b = Block(s, p) /\ b.sequence = s
                                   /\ b.entries = << >> => p = << >>
      BY BlockIsWhole
    <2>5. PICK done \in Seq(WholeBlocks) : done = Append(before, b)
      <3>1. Append(before, b) \in Seq(WholeBlocks)
        OBVIOUS
      <3> QED
        BY <3>1
    <2>6. /\ Len(before) = idx[n].head /\ file[n].blocks = done /\ file[n].head = s /\ Scannable(file[n])
          /\ \A k \in DOMAIN before : before[k].sequence = k /\ (before[k].entries = << >> => << >> \in Ours(n))
      BY <1>2, <2>1, <2>2, <2>3, <2>4, <2>5 DEF CountsEvents
    <2>7. Ours(n)' = Ours(n) \cup {p}
      <3>1. <<n, s, p>>[1] = n /\ <<n, s, p>>[3] = p
        OBVIOUS
      <3> QED
        BY <1>2, <2>3, <3>1 DEF Ours
    <2>8. /\ Len(before) \in Nat /\ Len(done) = s /\ s = Len(before) + 1 /\ done[s] = b
          /\ \A k \in 1..Len(before) : done[k] = before[k]
      BY <2>1, <2>3, <2>5, <2>6
    <2>9. ASSUME NEW k \in DOMAIN done
          PROVE  done[k].sequence = k /\ (done[k].entries = << >> => << >> \in Ours(n)')
      <3>1. k = s \/ k \in DOMAIN before
        BY <2>8
      <3>2. CASE k = s
        BY <2>4, <2>7, <2>8, <3>2
      <3>3. CASE k \in DOMAIN before
        BY <2>6, <2>7, <2>8, <3>3
      <3> QED
        BY <3>1, <3>2, <3>3
    <2>10. CountsEvents(n, done)'
      BY <1>2, <1>5, <1>7, <1>9, <2>3, <2>6, <2>8, <2>9 DEF CountsEvents
    <2>11. CachesText(n, done)'
      <3> SUFFICES ASSUME \A e \in Ours(n)' : InOrder(e), old.type = "normal"
                   PROVE  new.content = joinLines(Texted(done))
        BY <1>5, <1>9 DEF CachesText
      <3>1. InOrder(p) /\ \A e \in Ours(n) : InOrder(e)
        BY <2>7
      <3>2. old.content = joinLines(Texted(before))
        BY <2>2, <3>1 DEF CachesText
      <3>3. new.content = joinLines(applyEntriesToLines(SplitLines(old.content), p))
        BY <1>9, <2>3 DEF NewContent
      <3>4. joinLines(applyEntriesToLines(SplitLines(joinLines(Texted(before))), p)) = joinLines(Texted(done))
        BY <2>4, <2>5, <3>1, CacheFollows
      <3> QED
        BY <3>2, <3>3, <3>4
    <2>12. FieldsAreKept(n)'
      BY <1>2, <1>5, <1>9, <2>1 DEF Whole, FieldsAreKept
    <2> QED
      BY <1>5, <1>9, <2>10, <2>11, <2>12 DEF Whole
  <1> QED
    BY <1>2, <1>4, <1>5, <1>6, <1>7, <1>8, <1>10, OneNoteStaysWhole

LEMMA FieldsKeepWhole ==
  ASSUME IInv, WholeInv, NEW n \in FileNotes, NEW f, f = [title |-> f.title, deleted |-> f.deleted],
         Update(n, f)
  PROVE  WholeInv'
  <1> USE DEF Update
  <1> DEFINE old == idx[n]
             new == IndexEntry(f, old.type, old.head, old.content)
  <1>1. /\ idx' = [idx EXCEPT ![n] = new] /\ op = Idle /\ idx[n].exists
        /\ wanted' = [wanted EXCEPT ![n] = f] /\ UNCHANGED <<file, op, acked, marred>>
    BY DEF Upsert, Free
  <1>2. DOMAIN idx = FileNotes /\ DOMAIN wanted = FileNotes
    BY DEF IInv, Functions, WholeInv
  <1>3. /\ idx'[n] = new /\ wanted'[n] = f /\ DOMAIN wanted' = FileNotes
        /\ \A m \in FileNotes \ {n} : idx'[m] = idx[m] /\ wanted'[m] = wanted[m]
    BY <1>1, <1>2
  <1>4. \A m : Ours(m)' = Ours(m) /\ ~ OnItsWay(m) /\ ~ OnItsWay(m)'
    BY <1>1 DEF Ours, OnItsWay, Idle
  <1>5. new.exists = TRUE /\ new.title = f.title /\ new.deleted = f.deleted /\ new.type = old.type
        /\ new.head = old.head /\ (old.type = "normal" => new.content = old.content)
    BY DEF IndexEntry
  <1>6. ASSUME marred[n] = "clean" PROVE Whole(n)'
    <2>1. Whole(n)
      BY <1>1, <1>6 DEF WholeInv
    <2>2. PICK done \in Seq(WholeBlocks) : CountsEvents(n, done) /\ CachesText(n, done)
      BY <2>1 DEF Whole
    <2>3. CountsEvents(n, done)'
      BY <1>1, <1>3, <1>4, <1>5, <2>2 DEF CountsEvents
    <2>4. CachesText(n, done)'
      BY <1>1, <1>3, <1>4, <1>5, <2>2 DEF CachesText
    <2>5. FieldsAreKept(n)'
      BY <1>3, <1>5 DEF FieldsAreKept
    <2> QED
      BY <2>3, <2>4, <2>5 DEF Whole
  <1> QED
    BY <1>1, <1>3, <1>4, <1>5, <1>6, OneNoteStaysWhole

(* A clean note that the index does not know: its file has the blocks its  *)
(* header counts.                                                          *)
LEMMA FileNotIndexedYet ==
  ASSUME IInv, WholeInv, NEW n \in FileNotes, marred[n] = "clean", ~ idx[n].exists, Parses(file[n])
  PROVE  file[n] \in NotxFile /\ file[n].head = Len(file[n].blocks) /\ NotIndexedYet(n)
  BY DEF IInv, NotesAreSound, Sound, Unindexed, NoFile, Parses, WholeInv

LEMMA GetKeepsWhole ==
  ASSUME IInv, WholeInv, NEW n \in FileNotes, GetUnindexed(n)
  PROVE  WholeInv'
  <1> USE DEF GetUnindexed
  <1>1. /\ idx' = [idx EXCEPT ![n] = FromFile(file[n])] /\ op = Idle /\ ~ idx[n].exists /\ Parses(file[n])
        /\ UNCHANGED <<file, op, acked, wanted, marred>>
    BY DEF Upsert, Free
  <1>2. DOMAIN idx = FileNotes /\ DOMAIN wanted' = FileNotes
    BY <1>1 DEF IInv, Functions, WholeInv
  <1>3. idx'[n] = FromFile(file[n]) /\ \A m \in FileNotes \ {n} : idx'[m] = idx[m]
    BY <1>1, <1>2
  <1>4. \A m : Ours(m)' = Ours(m) /\ ~ OnItsWay(m) /\ ~ OnItsWay(m)'
    BY <1>1 DEF Ours, OnItsWay, Idle
  <1>5. ASSUME marred[n] = "clean" PROVE Whole(n)'
    BY <1>1, <1>3, <1>4, <1>5, FileNotIndexedYet, IndexedFileIsWhole
  <1>6. idx'[n].exists = TRUE
    BY <1>3 DEF FromFile, IndexEntry
  <1> QED
    BY <1>1, <1>2, <1>3, <1>4, <1>5, <1>6, OneNoteStaysWhole

LEMMA RestartKeepsWhole ==
  ASSUME IInv, DownIsIdle, WholeInv, Restart
  PROVE  WholeInv'
  <1>1. /\ op = Idle /\ UNCHANGED <<file, op, acked, wanted, marred>>
        /\ \A n \in FileNotes : idx'[n] = IF Behind(n) THEN FromFile(file[n]) ELSE idx[n]
    BY DEF Restart, DownIsIdle
  <1>2. \A m : Ours(m)' = Ours(m) /\ ~ OnItsWay(m) /\ ~ OnItsWay(m)'
    BY <1>1 DEF Ours, OnItsWay, Idle
  <1>3. ASSUME NEW n \in FileNotes, marred'[n] = "clean"
        PROVE  IF idx'[n].exists THEN Whole(n)' ELSE NotIndexedYet(n)'
    <2>1. CASE ~ Behind(n)
      BY <1>1, <1>2, <1>3, <2>1, OthersStayWhole
    <2>2. CASE Behind(n)
      <3>1. marred[n] = "clean" /\ Parses(file[n]) /\ idx'[n] = FromFile(file[n])
        BY <1>1, <1>3, <2>2 DEF Behind
      <3>2. ~ idx[n].exists
        <4> SUFFICES ASSUME idx[n].exists PROVE FALSE
          OBVIOUS
        <4>1. idx[n].head < file[n].head
          BY <2>2 DEF Behind
        <4>2. Whole(n) /\ idx[n].head \in Nat
          BY <3>1 DEF WholeInv, IInv, NotesAreSound, Sound, Indexed
        <4>3. file[n].head = idx[n].head
          BY <1>2, <4>2 DEF Whole, CountsEvents
        <4> QED
          BY <4>1, <4>2, <4>3
      <3>3. Whole(n)'
        BY <1>1, <1>2, <3>1, <3>2, FileNotIndexedYet, IndexedFileIsWhole
      <3>4. idx'[n].exists = TRUE
        BY <3>1 DEF FromFile, IndexEntry
      <3> QED
        BY <3>3, <3>4
    <2> QED
      BY <2>1, <2>2
  <1> QED
    BY <1>1, <1>3 DEF WholeInv

LEMMA CrashKeepsWhole ==
  ASSUME IInv, WholeInv, Crash
  PROVE  WholeInv'
  <1>1. op' = Idle /\ UNCHANGED <<file, idx, acked, wanted>>
    BY DEF Crash
  <1>2. \A m : ~ OnItsWay(m)'
    BY <1>1 DEF OnItsWay, Idle
  <1>3. CASE op.at \in {"header", "index"}
    <2>1. PICK n \in FileNotes : n = op.note
      BY <1>3, NoteOnItsWay
    <2>2. Mar(n, "failed")
      BY <1>3, <2>1 DEF Crash
    <2>3. marred'[n] # "clean" /\ \A m \in FileNotes \ {n} : marred'[m] = marred[m]
      BY <2>2, MarkedNote DEF IInv
    <2>4. \A m \in FileNotes \ {n} : ~ OnItsWay(m)
      BY <2>1 DEF OnItsWay
    <2>5. \A m \in FileNotes : m = n \/ m \in FileNotes \ {n}
      OBVIOUS
    <2> QED
      BY <1>1, <1>2, <2>3, <2>4, <2>5, EndKeepsWhole
  <1>4. CASE op.at \notin {"header", "index"}
    <2>1. UNCHANGED marred /\ \A m : ~ OnItsWay(m)
      BY <1>4 DEF Crash, OnItsWay
    <2> QED
      BY <1>1, <1>2, <2>1, EndKeepsWhole
  <1> QED
    BY <1>3, <1>4

LEMMA WholeInvStep == IInv /\ DownIsIdle /\ WholeInv /\ [Next]_vars => WholeInv'
  <1> SUFFICES ASSUME IInv, DownIsIdle, WholeInv, [Next]_vars PROVE WholeInv'
    OBVIOUS
  <1>1. ASSUME NEW n \in FileNotes, WriteStub(n) \/ TearStub(n) \/ CopyIn(n) PROVE WholeInv'
    BY <1>1, CreationKeepsWhole
  <1>2. ASSUME NEW n \in FileNotes, GetUnindexed(n) PROVE WholeInv'
    BY <1>2, GetKeepsWhole
  <1>3. ASSUME NEW n \in FileNotes, Delete(n) PROVE WholeInv'
    BY <1>3, FieldsKeepWhole DEF Delete
  <1>4. ASSUME NEW n \in FileNotes, NEW f \in Fields, Update(n, f) PROVE WholeInv'
    <2>1. f = [title |-> f.title, deleted |-> f.deleted]
      BY DEF Fields
    <2> QED
      BY <1>4, <2>1, FieldsKeepWhole
  <1>5. ASSUME NEW n \in FileNotes, NEW s \in 1..MaxEvents, NEW p \in Payloads,
               WriteEvent(n, s, p) \/ TearEvent(n, s, p)
        PROVE  WholeInv'
    <2>1. s \in Nat
      BY FileBounds
    <2> QED
      BY <1>5, <2>1, EventKeepsWhole
  <1>6. CASE UNCHANGED vars
    <2>1. UNCHANGED <<file, idx, acked, wanted, marred, op>>
      BY <1>6 DEF vars
    <2> QED
      BY <2>1, EndKeepsWhole
  <1> QED
    BY <1>1, <1>2, <1>3, <1>4, <1>5, <1>6, IndexStubKeepsWhole, HeaderKeepsWhole, FailureKeepsWhole,
       UpsertKeepsWhole, CrashKeepsWhole, RestartKeepsWhole DEF Next

(* A note none of whose appends failed is the same in the file and in the  *)
(* index, however often the process ends and whatever fails around it: the *)
(* file parses into the events up to the index's head, the cached text is  *)
(* their replay, and the fields are the ones last set (AppendEvent,        *)
(* applyEntriesToLines, reconcile, Update, Delete).                        *)
THEOREM CleanNotesStayWhole == Spec => []CleanNotesAreWhole
  <1>1. IInv /\ WholeInv => CleanNotesAreWhole
    <2> SUFFICES ASSUME IInv, WholeInv, NEW n \in FileNotes, Free, idx[n].exists, marred[n] = "clean",
                        << >> \notin Ours(n)
                 PROVE  /\ Parses(file[n]) /\ Len(file[n].blocks) = idx[n].head
                        /\ (\A e \in Ours(n) : InOrder(e)) /\ idx[n].type = "normal" =>
                              idx[n].content = Replay(file[n])
                        /\ wanted[n] = [title |-> idx[n].title, deleted |-> idx[n].deleted]
      BY DEF CleanNotesAreWhole, Ours
    <2>1. Whole(n) /\ Indexed(file[n], idx[n])
      BY DEF WholeInv, IInv, NotesAreSound, Sound
    <2>2. PICK done \in Seq(WholeBlocks) : CountsEvents(n, done) /\ CachesText(n, done)
      BY <2>1 DEF Whole
    <2>3. ~ OnItsWay(n)
      BY DEF Free, OnItsWay, Idle
    <2>4. file[n].blocks = done /\ Len(done) = idx[n].head /\ Scannable(file[n])
          /\ \A k \in DOMAIN done : done[k].sequence = k /\ done[k].entries # << >>
      BY <2>2, <2>3 DEF CountsEvents, OnItsWay
    <2>5. file[n].exists = TRUE /\ file[n].readable
      BY <2>1 DEF Indexed, NotxFile
    <2>6. Parses(file[n])
      BY <2>4, <2>5 DEF Parses
    <2> QED
      BY <2>1, <2>2, <2>4, <2>6, ReplayIsTheText DEF Whole, FieldsAreKept, CachesText
  <1> QED
    BY Invariance, WholeInvInit, WholeInvStep, <1>1, PTL DEF Spec

-----------------------------------------------------------------------------
(* Types.  Every block is an event or the first part of one, also after    *)
(* the rewrite of a file was cut short, so that a replay is a text.        *)
StoredFile ==
  [exists : {TRUE}, readable : BOOLEAN, title : Titles, type : Types,
   head : 0..MaxEvents, blocks : {b \in Seq(Blocks) : Len(b) <= MaxEvents}]

IsEntry(e) ==
  /\ e.title \in Titles /\ e.deleted \in BOOLEAN /\ e.type \in Types
  /\ e.head \in 0..MaxEvents /\ e.content \in Seq(Strings)

FilesAreTyped == \A n \in FileNotes : file[n] = NoFile \/ file[n] \in StoredFile

EntriesAreTyped == \A n \in FileNotes : /\ idx[n].exists => IsEntry(idx[n])
                                        /\ terms[n] \subseteq Strings

FieldsAreTyped == DOMAIN wanted = FileNotes /\ \A n \in FileNotes : wanted[n] \in Fields

MarksAreTyped == \A n \in FileNotes : marred[n] \in {"clean", "failed", "cut"}

RestIsTyped ==
  /\ op.at \in {"header", "index"} => op.sequence \in 1..MaxEvents
  /\ up \in BOOLEAN /\ faults \in 0..MaxFaults
  /\ acked \subseteq (FileNotes \X (1..MaxEvents) \X Payloads)

FileTypes == FilesAreTyped /\ EntriesAreTyped /\ FieldsAreTyped /\ MarksAreTyped /\ RestIsTyped

(* The entries of a block.                                                 *)
IsPartOf(e, p, n) ==
  /\ n \in 0..Len(p) /\ e \in Seq(LineEntry) /\ Len(e) = n
  /\ \A k \in 1..n : e[k] = AsWritten(p)[k]

LEMMA PartWritten ==
  ASSUME NEW p \in Payloads, NEW n \in 0..Len(p)
  PROVE  AsWritten(SubSeq(p, 1, n)) \in Entries /\ IsPartOf(AsWritten(SubSeq(p, 1, n)), p, n)
  <1> DEFINE q == SubSeq(p, 1, n)
  <1>1. p \in Seq(LineEntry) /\ Len(p) \in Nat /\ DOMAIN p = 1..Len(p) /\ AsWritten(p) \in Seq(LineEntry)
        /\ Len(AsWritten(p)) = Len(p)
    BY PayloadEntries
  <1>2. DOMAIN q = 1..n /\ n \in Nat /\ \A k \in 1..n : q[k] = p[k] /\ k \in DOMAIN p
    BY <1>1
  <1> HIDE DEF q
  <1>3. \A k \in 1..n : AsWritten(q)[k] = AsWritten(p)[k]
    BY <1>2 DEF AsWritten
  <1>4. AsWritten(q) \in [1..n -> LineEntry]
    <2>1. DOMAIN AsWritten(q) = 1..n /\ AsWritten(q) = [k \in 1..n |-> AsWritten(q)[k]]
      BY <1>2 DEF AsWritten
    <2>2. \A k \in 1..n : AsWritten(p)[k] \in LineEntry
      BY <1>1
    <2> QED
      BY <1>3, <2>1, <2>2
  <1>5. AsWritten(q) \in Seq(LineEntry) /\ Len(AsWritten(q)) = n
    BY <1>2, <1>4
  <1>6. AsWritten(q) \in Entries
    BY DEF Entries, q
  <1> QED
    BY <1>3, <1>5, <1>6 DEF IsPartOf, q

LEMMA EntriesAreParts ==
  ASSUME NEW e \in Entries
  PROVE  \E p \in Payloads : \E n \in 0..Len(p) : IsPartOf(e, p, n)
  <1>1. CASE \E p \in Payloads : e = AsWritten(p)
    <2>1. PICK p \in Payloads : e = AsWritten(p)
      BY <1>1
    <2>2. e \in Seq(LineEntry) /\ Len(e) = Len(p) /\ Len(p) \in 0..Len(p)
      BY <2>1, PayloadEntries
    <2> QED
      BY <2>1, <2>2 DEF IsPartOf
  <1>2. CASE \E p \in Payloads : \E m \in 0..Len(p) : e = AsWritten(SubSeq(p, 1, m))
    BY <1>2, PartWritten
  <1> QED
    BY <1>1, <1>2 DEF Entries

LEMMA PartOfPart ==
  ASSUME NEW e \in Entries, NEW m \in 0..Len(e)
  PROVE  SubSeq(e, 1, m) \in Entries
  <1>1. PICK p \in Payloads, n \in Nat : n \in 0..Len(p) /\ IsPartOf(e, p, n)
    BY EntriesAreParts, PayloadEntries
  <1>2. /\ e \in Seq(LineEntry) /\ Len(e) = n /\ m \in 0..n /\ m \in 0..Len(p) /\ m \in Nat
        /\ \A k \in 1..n : e[k] = AsWritten(p)[k]
    BY <1>1, PayloadEntries DEF IsPartOf
  <1>3. /\ SubSeq(e, 1, m) = [k \in 1..m |-> e[k]]
    BY <1>2
  <1> DEFINE q == AsWritten(SubSeq(p, 1, m))
  <1>4. q \in Entries /\ q \in Seq(LineEntry) /\ Len(q) = m /\ \A k \in 1..m : q[k] = AsWritten(p)[k]
    BY <1>2, PartWritten DEF IsPartOf
  <1> HIDE DEF q
  <1>5. q = [k \in 1..m |-> q[k]]
    BY <1>4
  <1>6. \A k \in 1..m : q[k] = e[k]
    BY <1>2, <1>4
  <1>7. q = SubSeq(e, 1, m)
    BY <1>3, <1>5, <1>6
  <1> QED
    BY <1>4, <1>7

LEMMA ReplayOfBlocksIsText ==
  ASSUME NEW f, f.blocks \in Seq(Blocks)
  PROVE  Replay(f) \in Seq(Strings)
  <1> DEFINE T == Seq(Strings)
  <1>1. << >> \in T
    OBVIOUS
  <1>2. \A x \in T, b \in Blocks : ApplyBlock(x, b) \in T
    <2> SUFFICES ASSUME NEW x \in T, NEW b \in Blocks PROVE ApplyBlock(x, b) \in T
      OBVIOUS
    <2>1. b.entries \in Entries
      BY DEF Blocks
    <2>2. PICK p \in Payloads : \E n \in 0..Len(p) : IsPartOf(b.entries, p, n)
      BY <2>1, EntriesAreParts
    <2>3. PICK n \in 0..Len(p) : IsPartOf(b.entries, p, n)
      BY <2>2
    <2> QED
      BY <2>3, ReplayedPartIsText DEF IsPartOf, ApplyBlock
  <1> HIDE DEF T
  <1>3. Texted(f.blocks) \in T
    BY <1>1, <1>2, Rebuilding!FoldStaysWithin DEF Texted
  <1>4. Replay(f) = joinLines(Texted(f.blocks))
    BY ReplayIsTheText
  <1> QED
    BY <1>1, <1>3, <1>4 DEF joinLines, EmptyString, T

LEMMA EditedIsText ==
  ASSUME NEW p \in Payloads, NEW content \in Seq(Strings)
  PROVE  joinLines(applyEntriesToLines(SplitLines(content), p)) \in Seq(Strings)
  <1> DEFINE S == {e \in LineEntry : e.line >= 1 /\ e.text \in Strings}
             T == Seq(Strings)
  <1>1. p \in Seq(S)
    <2>1. p \in Seq(LineEntry) /\ \A k \in DOMAIN p : p[k] \in S
      BY PayloadEntries
    <2> HIDE DEF S
    <2> QED
      BY <2>1
  <1>2. \A x \in T, e \in S : WriteLine(x, e) \in T
    <2> SUFFICES ASSUME NEW x \in T, NEW e \in S PROVE WriteLine(x, e) \in T
      OBVIOUS
    <2>1. e.line \in Nat /\ e.line >= 1 /\ e.text \in Strings
      BY DEF LineEntry
    <2> QED
      BY <2>1, StringsOfLines DEF WriteLine
  <1> HIDE DEF S, T
  <1>3. Writing!Folded(content, p) \in T
    <2>1. content \in T
      BY DEF T
    <2> QED
      BY <1>1, <1>2, <2>1, Writing!FoldStaysWithin
  <1>4. PICK D \in Seq(Nat) : D = Collecting!Folded(<< >>, p)
    <2> DEFINE U == Seq(Nat)
    <2>1. << >> \in U
      OBVIOUS
    <2>2. \A d \in U, e \in LineEntry : AddDelete(d, e) \in U
      <3> SUFFICES ASSUME NEW d \in Seq(Nat), NEW e \in LineEntry PROVE AddDelete(d, e) \in Seq(Nat)
        OBVIOUS
      <3>1. e.line \in Nat
        BY DEF LineEntry
      <3> QED
        BY <3>1, CollectedNumbers DEF AddDelete
    <2>3. p \in Seq(LineEntry)
      BY PayloadEntries
    <2> HIDE DEF U
    <2>4. Collecting!Folded(<< >>, p) \in U
      BY <2>1, <2>2, <2>3, Collecting!FoldStaysWithin
    <2> QED
      BY <2>4 DEF U
  <1>5. Dropping!Folded(Writing!Folded(content, p), D) \in Seq(Strings)
    BY <1>3, DroppedIsText DEF T
  <1>6. applyEntriesToLines(content, p) \in Seq(Strings)
    BY <1>4, <1>5, TheseAreFolds DEF applyEntriesToLines
  <1>7. << >> \in Seq(Strings)
    OBVIOUS
  <1> QED
    BY <1>6, <1>7 DEF joinLines, SplitLines, EmptyString

-----------------------------------------------------------------------------
LEMMA FileTypesInit == Init => FileTypes
  <1> SUFFICES ASSUME Init PROVE FileTypes
    OBVIOUS
  <1>1. FilesAreTyped /\ EntriesAreTyped /\ MarksAreTyped
    BY DEF Init, FilesAreTyped, EntriesAreTyped, MarksAreTyped, NoEntry
  <1>2. FieldsAreTyped
    <2>1. (CHOOSE t \in Titles : TRUE) \in Titles
      BY SomeTitle
    <2> QED
      BY <2>1 DEF Init, FieldsAreTyped, Fields
  <1>3. RestIsTyped
    BY FileBounds DEF Init, RestIsTyped, Idle
  <1> QED
    BY <1>1, <1>2, <1>3 DEF FileTypes

(* A step that stores a text in Badger.                                    *)
LEMMA StoredEntryIsTyped ==
  ASSUME FileTypes, DOMAIN idx = FileNotes, DOMAIN terms = FileNotes, UNCHANGED file,
         NEW n \in FileNotes, NEW fields, fields.title \in Titles, fields.deleted \in BOOLEAN,
         NEW type \in Types, NEW head \in 0..MaxEvents, NEW content \in Seq(Strings),
         Upsert(n, IndexEntry(fields, type, head, content))
  PROVE  FilesAreTyped' /\ EntriesAreTyped'
  <1> DEFINE entry == IndexEntry(fields, type, head, content)
  <1>1. IsEntry(entry)
    <2>1. << >> \in Seq(Strings)
      OBVIOUS
    <2> QED
      BY <2>1 DEF IndexEntry, IsEntry, EmptyString
  <1>2. Words(entry.content) \subseteq Strings
    <2>1. entry.content \in Seq(Strings)
      BY <1>1 DEF IsEntry
    <2> HIDE DEF entry
    <2> QED
      BY <2>1 DEF Words
  <1> HIDE DEF entry
  <1>3. /\ idx' = [idx EXCEPT ![n] = entry]
        /\ terms' = [terms EXCEPT ![n] = @ \cup
                       (IF entry.type = "normal" THEN Words(entry.content) ELSE {})]
    BY DEF Upsert, entry
  <1>4. /\ idx'[n] = entry /\ terms'[n] \subseteq terms[n] \cup Words(entry.content)
        /\ \A m \in FileNotes \ {n} : idx'[m] = idx[m] /\ terms'[m] = terms[m]
    BY <1>3
  <1>5. EntriesAreTyped'
    BY <1>1, <1>2, <1>4 DEF FileTypes, EntriesAreTyped, IsEntry
  <1> QED
    BY <1>5 DEF FileTypes, FilesAreTyped

(* A step that writes to a file.                                           *)
LEMMA WrittenFileIsTyped ==
  ASSUME FileTypes, DOMAIN file = FileNotes, UNCHANGED <<idx, terms>>, NEW n \in FileNotes,
         NEW f, f = NoFile \/ f \in StoredFile, file' = [file EXCEPT ![n] = f]
  PROVE  FilesAreTyped' /\ EntriesAreTyped'
  BY DEF FileTypes, FilesAreTyped, EntriesAreTyped, IsEntry

LEMMA OthersStayTyped ==
  ASSUME FileTypes
  PROVE  /\ UNCHANGED file => FilesAreTyped'
         /\ UNCHANGED <<idx, terms>> => EntriesAreTyped'
         /\ UNCHANGED wanted => FieldsAreTyped'
         /\ UNCHANGED marred => MarksAreTyped'
  BY DEF FileTypes, FilesAreTyped, EntriesAreTyped, FieldsAreTyped, MarksAreTyped, IsEntry

LEMMA MarkedStaysTyped ==
  ASSUME FileTypes, DOMAIN marred = FileNotes, NEW n \in FileNotes, NEW how \in {"failed", "cut"},
         Mar(n, how)
  PROVE  MarksAreTyped'
  BY DEF FileTypes, MarksAreTyped, Mar

(* What a replay of a file puts into Badger.                               *)
LEMMA ReplayedFile ==
  ASSUME NEW f \in StoredFile
  PROVE  /\ Replay(f) \in Seq(Strings) /\ Len(f.blocks) \in 0..MaxEvents
         /\ f.title \in Titles /\ f.type \in Types
  <1>1. f.blocks \in Seq(Blocks) /\ Len(f.blocks) <= MaxEvents /\ f.title \in Titles /\ f.type \in Types
    BY DEF StoredFile
  <1>2. Replay(f) \in Seq(Strings)
    BY <1>1, ReplayOfBlocksIsText
  <1>3. Len(f.blocks) \in 0..MaxEvents
    BY <1>1, FileBounds
  <1> QED
    BY <1>1, <1>2, <1>3

LEMMA IndexedFileIsTyped ==
  ASSUME FileTypes, DOMAIN idx = FileNotes, DOMAIN terms = FileNotes, UNCHANGED file,
         NEW n \in FileNotes, file[n].exists, Upsert(n, FromFile(file[n]))
  PROVE  FilesAreTyped' /\ EntriesAreTyped'
  <1>1. file[n] \in StoredFile
    BY DEF FileTypes, FilesAreTyped, NoFile
  <1> DEFINE fields == [title |-> file[n].title, deleted |-> FALSE]
  <1>2. /\ Replay(file[n]) \in Seq(Strings) /\ Len(file[n].blocks) \in 0..MaxEvents
        /\ file[n].title \in Titles /\ file[n].type \in Types
    BY <1>1, ReplayedFile
  <1>3. fields.title \in Titles /\ fields.deleted \in BOOLEAN
    BY <1>2
  <1>4. Upsert(n, IndexEntry(fields, file[n].type, Len(file[n].blocks), Replay(file[n])))
    BY DEF FromFile
  <1> HIDE DEF fields
  <1> QED
    BY <1>2, <1>3, <1>4, StoredEntryIsTyped

-----------------------------------------------------------------------------
LEMMA CreationIsTyped ==
  ASSUME IInv, KeysInv, FileTypes, NEW n \in FileNotes, WriteStub(n) \/ TearStub(n) \/ CopyIn(n)
  PROVE  FileTypes'
  <1>1. DOMAIN file = FileNotes /\ UNCHANGED <<idx, terms, up, acked, marred>>
    BY DEF IInv, Functions, WriteStub, TearStub, CopyIn
  <1>2. ASSUME NEW t \in Titles, NEW y \in Types
        PROVE  /\ Stub(t, y) \in StoredFile
               /\ \A complete \in BOOLEAN : [Stub(t, y) EXCEPT !.readable = complete] \in StoredFile
    <2>1. << >> \in Seq(Blocks) /\ Len(<< >>) = 0 /\ 0 \in 0..MaxEvents /\ 0 <= MaxEvents
      BY FileBounds
    <2> QED
      BY <2>1 DEF Stub, StoredFile
  <1>3. ASSUME NEW t \in Titles, NEW p \in Payloads
        PROVE  [Stub(t, "normal") EXCEPT !.head = 1, !.blocks = <<Block(1, p)>>] \in StoredFile
    <2>1. Block(1, p) \in Blocks
      BY FileBounds DEF Block, Blocks, Entries
    <2> DEFINE b == <<Block(1, p)>>
    <2>2. b \in Seq(Blocks) /\ Len(b) = 1 /\ 1 \in 0..MaxEvents /\ 1 <= MaxEvents
      BY <2>1, FileBounds
    <2> HIDE DEF b
    <2> DEFINE stub == Stub(t, "normal")
    <2>3. stub \in StoredFile
      BY <1>2 DEF Types
    <2> HIDE DEF stub
    <2>4. [stub EXCEPT !.head = 1, !.blocks = b] \in StoredFile
      <3>1. PICK g : g = [stub EXCEPT !.head = 1]
        OBVIOUS
      <3>2. g \in StoredFile
        BY <2>2, <2>3, <3>1 DEF StoredFile
      <3>3. [g EXCEPT !.blocks = b] \in StoredFile
        BY <2>2, <3>2 DEF StoredFile
      <3> QED
        BY <3>1, <3>3
    <2> QED
      BY <2>4 DEF b, stub
  <1>4. PICK t \in Titles, f \in StoredFile :
          /\ file' = [file EXCEPT ![n] = f]
          /\ wanted' = [wanted EXCEPT ![n] = [title |-> t, deleted |-> FALSE]]
    <2>1. CASE WriteStub(n)
      BY <1>2, <2>1 DEF WriteStub
    <2>2. CASE TearStub(n)
      BY <1>2, <2>2 DEF TearStub
    <2>3. CASE CopyIn(n)
      BY <1>3, <2>3 DEF CopyIn
    <2> QED
      BY <2>1, <2>2, <2>3
  <1>5. FilesAreTyped' /\ EntriesAreTyped'
    BY <1>1, <1>4, WrittenFileIsTyped
  <1>6. FieldsAreTyped'
    BY <1>4 DEF FileTypes, FieldsAreTyped, Fields
  <1>7. faults' \in 0..MaxFaults
    <2>1. UNCHANGED faults \/ Fault
      BY DEF WriteStub, TearStub, CopyIn
    <2> QED
      BY <2>1, FileBounds DEF FileTypes, RestIsTyped, Fault
  <1>8. op' = op \/ op'.at = "stub"
    <2>1. op' = op \/ op' = [at |-> "stub", note |-> n]
      BY DEF WriteStub, TearStub, CopyIn
    <2> QED
      BY <2>1
  <1>9. RestIsTyped'
    BY <1>1, <1>7, <1>8 DEF FileTypes, RestIsTyped
  <1> QED
    BY <1>1, <1>5, <1>6, <1>9, OthersStayTyped DEF FileTypes

LEMMA EventIsTyped ==
  ASSUME IInv, KeysInv, FileTypes, NEW n \in FileNotes, NEW s \in 1..MaxEvents, NEW p \in Payloads,
         WriteEvent(n, s, p) \/ TearEvent(n, s, p)
  PROVE  FileTypes'
  <1>1. DOMAIN file = FileNotes /\ DOMAIN marred = FileNotes /\ UNCHANGED <<idx, terms, up, acked, wanted>>
    BY DEF IInv, Functions, WriteEvent, TearEvent
  <1>2. PICK q : Appended(n, s, q) /\ AsWritten(q) \in Entries
    <2>1. CASE WriteEvent(n, s, p)
      BY <2>1 DEF WriteEvent, Entries
    <2>2. CASE TearEvent(n, s, p)
      <3>1. PICK m \in 0..Len(p) - 1 : Appended(n, s, SubSeq(p, 1, m))
        BY <2>2 DEF TearEvent
      <3>2. m \in 0..Len(p)
        BY <3>1, PayloadEntries
      <3>3. AsWritten(SubSeq(p, 1, m)) \in Entries
        BY <3>2, PartWritten
      <3> QED
        BY <3>1, <3>3
    <2> QED
      BY <2>1, <2>2
  <1> DEFINE blocks == Append(file[n].blocks, Block(s, q))
             f == [file[n] EXCEPT !.blocks = blocks]
  <1>3. file[n] \in StoredFile /\ Len(file[n].blocks) < MaxEvents
    BY <1>2 DEF FileTypes, FilesAreTyped, Appended, NoFile
  <1>4. blocks \in {b \in Seq(Blocks) : Len(b) <= MaxEvents}
    <2>1. Block(s, q) \in Blocks
      BY <1>2 DEF Block, Blocks
    <2>2. file[n].blocks \in Seq(Blocks)
      BY <1>3 DEF StoredFile
    <2> QED
      BY <1>3, <2>1, <2>2, FileBounds
  <1>5. file' = [file EXCEPT ![n] = f]
    BY <1>2 DEF Appended
  <1> HIDE DEF blocks
  <1>6. f \in StoredFile
    BY <1>3, <1>4 DEF StoredFile
  <1> HIDE DEF f
  <1>7. FilesAreTyped' /\ EntriesAreTyped'
    BY <1>1, <1>5, <1>6, WrittenFileIsTyped
  <1>8. MarksAreTyped'
    BY <1>1, OthersStayTyped, MarkedStaysTyped DEF WriteEvent, TearEvent
  <1>9. faults' \in 0..MaxFaults
    BY FileBounds DEF FileTypes, RestIsTyped, WriteEvent, TearEvent, Fault
  <1>10. op' = op \/ op'.sequence = s
    BY DEF WriteEvent, TearEvent
  <1>11. RestIsTyped'
    BY <1>1, <1>9, <1>10 DEF FileTypes, RestIsTyped
  <1> QED
    BY <1>1, <1>7, <1>8, <1>11, OthersStayTyped DEF FileTypes

(* What is left of a file whose rewrite was cut short.                     *)
LEMMA CutFileIsTyped ==
  ASSUME NEW g \in StoredFile, NEW f \in Cuts(g)
  PROVE  f \in StoredFile
  <1> DEFINE All == {b \in Seq(Blocks) : Len(b) <= MaxEvents}
  <1>1. g.blocks \in Seq(Blocks) /\ Len(g.blocks) \in Nat /\ Len(g.blocks) <= MaxEvents
    BY DEF StoredFile
  <1>2. << >> \in All
    BY FileBounds
  <1>3. \A b \in CutBlocks(g.blocks) : b \in All
    <2> SUFFICES ASSUME NEW blocks, blocks = g.blocks, NEW b \in CutBlocks(blocks) PROVE b \in All
      OBVIOUS
    <2>0. blocks \in Seq(Blocks) /\ Len(blocks) \in Nat /\ Len(blocks) <= MaxEvents
      BY <1>1
    <2>1. CASE \E k \in 0..Len(blocks) - 1 : b = SubSeq(blocks, 1, k)
      BY <2>0, <2>1, FileBounds
    <2>2. CASE \E k \in DOMAIN blocks : \E m \in 0..Len(blocks[k].entries) - 1 :
                 b = Append(SubSeq(blocks, 1, k - 1),
                            [blocks[k] EXCEPT !.entries = SubSeq(@, 1, m)])
      <3>1. PICK k \in DOMAIN blocks : \E m \in 0..Len(blocks[k].entries) - 1 :
                 b = Append(SubSeq(blocks, 1, k - 1),
                            [blocks[k] EXCEPT !.entries = SubSeq(@, 1, m)])
        BY <2>2
      <3>2. k \in 1..Len(blocks) /\ blocks[k] \in Blocks
        BY <2>0, <3>1
      <3>3. PICK m \in 0..Len(blocks[k].entries) - 1 :
              b = Append(SubSeq(blocks, 1, k - 1),
                         [blocks[k] EXCEPT !.entries = SubSeq(blocks[k].entries, 1, m)])
        BY <3>1
      <3>4. blocks[k].entries \in Entries
        BY <3>2 DEF Blocks
      <3>5. blocks[k].entries \in Seq(LineEntry)
        BY <3>4, EntriesAreParts DEF IsPartOf
      <3>6. m \in 0..Len(blocks[k].entries)
        BY <3>3, <3>5
      <3>7. SubSeq(blocks[k].entries, 1, m) \in Entries
        BY <3>4, <3>6, PartOfPart
      <3> DEFINE c == [blocks[k] EXCEPT !.entries = SubSeq(blocks[k].entries, 1, m)]
                 first == SubSeq(blocks, 1, k - 1)
      <3>8. c \in Blocks
        BY <3>2, <3>7 DEF Blocks
      <3>9. first \in Seq(Blocks) /\ Len(first) = k - 1 /\ k <= MaxEvents
        BY <2>0, <3>2, FileBounds
      <3>10. b = Append(first, c)
        BY <3>3
      <3> HIDE DEF c, first
      <3> QED
        BY <3>2, <3>8, <3>9, <3>10
    <2>3. \/ b \in {SubSeq(blocks, 1, k) : k \in 0..Len(blocks) - 1}
          \/ \E k \in DOMAIN blocks :
               b \in {Append(SubSeq(blocks, 1, k - 1), [blocks[k] EXCEPT !.entries = SubSeq(@, 1, m)]) :
                        m \in 0..Len(blocks[k].entries) - 1}
      BY DEF CutBlocks
    <2>4. (\E k \in 0..Len(blocks) - 1 : b = SubSeq(blocks, 1, k)) \/
          \E k \in DOMAIN blocks : \E m \in 0..Len(blocks[k].entries) - 1 :
            b = Append(SubSeq(blocks, 1, k - 1), [blocks[k] EXCEPT !.entries = SubSeq(@, 1, m)])
      BY <2>3
    <2> QED
      BY <2>1, <2>2, <2>4
  <1>4. PICK b \in All : \/ f = [g EXCEPT !.readable = FALSE, !.blocks = b]
                         \/ f = [g EXCEPT !.blocks = b]
    BY <1>2, <1>3 DEF Cuts
  <1>5. b \in Seq(Blocks) /\ Len(b) <= MaxEvents
    BY <1>4
  <1> HIDE DEF All
  <1> QED
    BY <1>4, <1>5 DEF StoredFile

LEMMA HeaderIsTyped ==
  ASSUME IInv, KeysInv, FileTypes, UpdateHeader \/ TearHeader \/ HeaderFails
  PROVE  FileTypes'
  <1>0. PICK n \in FileNotes : n = op.note
    BY OperationKinds DEF UpdateHeader, TearHeader, HeaderFails, IInv
  <1>1. /\ DOMAIN file = FileNotes /\ DOMAIN marred = FileNotes /\ UNCHANGED <<idx, terms, up, acked, wanted>>
        /\ op.sequence \in 1..MaxEvents
    BY DEF IInv, Functions, FileTypes, RestIsTyped, UpdateHeader, TearHeader, HeaderFails
  <1>2. file[n] \in StoredFile
    <2>1. IsFile(file[n])
      BY <1>0, IndexedHasFile DEF UpdateHeader, TearHeader, HeaderFails, KeysInv, OperationHasNote
    <2> QED
      BY <2>1 DEF FileTypes, FilesAreTyped, NoFile, IsFile
  <1>3. ASSUME NEW h \in 0..MaxEvents PROVE [file[n] EXCEPT !.head = h] \in StoredFile
    BY <1>2 DEF StoredFile
  <1>4. op.sequence \in 0..MaxEvents
    BY <1>1, FileBounds
  <1>5. FilesAreTyped' /\ EntriesAreTyped'
    <2>1. CASE UpdateHeader
      <3> DEFINE h == IF file[n].readable THEN op.sequence ELSE file[n].head
      <3>1. file' = [file EXCEPT ![n] = [file[n] EXCEPT !.head = h]]
        BY <1>0, <2>1 DEF UpdateHeader
      <3>2. h \in 0..MaxEvents
        BY <1>2, <1>4 DEF StoredFile
      <3> HIDE DEF h
      <3>3. [file[n] EXCEPT !.head = h] \in StoredFile
        BY <1>3, <3>2
      <3> QED
        BY <1>1, <3>1, <3>3, WrittenFileIsTyped
    <2>2. CASE TearHeader
      <3>1. PICK f \in Cuts([file[n] EXCEPT !.head = op.sequence]) : file' = [file EXCEPT ![n] = f]
        BY <1>0, <2>2 DEF TearHeader
      <3>2. f \in StoredFile
        BY <1>3, <1>4, <3>1, CutFileIsTyped
      <3> QED
        BY <1>1, <3>1, <3>2, WrittenFileIsTyped
    <2>3. CASE HeaderFails
      BY <2>3, OthersStayTyped DEF HeaderFails
    <2> QED
      BY <2>1, <2>2, <2>3
  <1>6. MarksAreTyped'
    BY <1>0, <1>1, OthersStayTyped, MarkedStaysTyped DEF UpdateHeader, TearHeader, HeaderFails
  <1>7. faults' \in 0..MaxFaults
    <2>1. UNCHANGED faults \/ Fault
      BY DEF UpdateHeader, TearHeader, HeaderFails
    <2> QED
      BY <2>1, FileBounds DEF FileTypes, RestIsTyped, Fault
  <1>8. op' = Idle \/ op' = [op EXCEPT !.at = "index"]
    BY DEF UpdateHeader, TearHeader, HeaderFails
  <1>9. op'.at \in {"header", "index"} => op'.sequence = op.sequence
    <2>1. op \in [at : {"header", "index"}, note : FileNotes, sequence : Nat, entries : Payloads]
      BY OperationKinds DEF UpdateHeader, TearHeader, HeaderFails, IInv
    <2> QED
      BY <1>8, <2>1 DEF Idle
  <1>10. RestIsTyped'
    BY <1>1, <1>7, <1>9 DEF FileTypes, RestIsTyped
  <1> QED
    BY <1>1, <1>5, <1>6, <1>10, OthersStayTyped DEF FileTypes

LEMMA IndexStepIsTyped ==
  ASSUME IInv, KeysInv, FileTypes, UpsertIndex
  PROVE  FileTypes'
  <1>0. PICK n \in FileNotes : n = op.note /\ op.entries \in Payloads
    BY OperationKinds DEF UpsertIndex, IInv
  <1>1. /\ DOMAIN idx = FileNotes /\ DOMAIN terms = FileNotes
        /\ UNCHANGED <<file, up, faults, wanted, marred>> /\ op' = Idle
        /\ op.sequence \in 1..MaxEvents
    BY DEF IInv, Functions, KeysInv, FileTypes, RestIsTyped, UpsertIndex
  <1>2. IsEntry(idx[n])
    BY <1>0 DEF FileTypes, EntriesAreTyped, KeysInv, OperationHasNote, UpsertIndex
  <1>3. NewContent(n, op.entries) \in Seq(Strings)
    BY <1>0, <1>2, EditedIsText DEF NewContent, IsEntry
  <1>4. Upsert(n, IndexEntry(idx[n], idx[n].type, op.sequence, NewContent(n, op.entries)))
    BY <1>0 DEF UpsertIndex
  <1>5. op.sequence \in 0..MaxEvents
    BY <1>1, FileBounds
  <1>6. FilesAreTyped' /\ EntriesAreTyped'
    BY <1>1, <1>2, <1>3, <1>4, <1>5, StoredEntryIsTyped DEF IsEntry
  <1>7. RestIsTyped'
    <2>1. acked' = acked \cup {<<op.note, op.sequence, op.entries>>}
      BY DEF UpsertIndex
    <2> QED
      BY <1>0, <1>1, <2>1 DEF FileTypes, RestIsTyped, Idle
  <1> QED
    BY <1>1, <1>6, <1>7, OthersStayTyped DEF FileTypes

LEMMA StubStepIsTyped ==
  ASSUME IInv, KeysInv, FileTypes, IndexStub \/ IndexStubFails
  PROVE  FileTypes'
  <1>0. PICK n \in FileNotes : n = op.note
    BY OperationKinds DEF IndexStub, IndexStubFails, IInv
  <1>1. /\ DOMAIN file = FileNotes /\ DOMAIN idx = FileNotes /\ DOMAIN terms = FileNotes
        /\ UNCHANGED <<up, acked, wanted, marred>> /\ op' = Idle
    BY DEF IInv, Functions, KeysInv, IndexStub, IndexStubFails
  <1>2. FilesAreTyped' /\ EntriesAreTyped'
    <2>1. CASE IndexStub
      <3>1. file[n].exists
        BY <1>0, <2>1 DEF IndexStub, KeysInv, OperationHasNote, IsFile
      <3> QED
        BY <1>0, <1>1, <2>1, <3>1, IndexedFileIsTyped DEF IndexStub
    <2>2. CASE IndexStubFails
      BY <1>0, <1>1, <2>2, WrittenFileIsTyped, OthersStayTyped DEF IndexStubFails
    <2> QED
      BY <2>1, <2>2
  <1>3. faults' \in 0..MaxFaults
    <2>1. UNCHANGED faults \/ Fault
      BY DEF IndexStub, IndexStubFails
    <2> QED
      BY <2>1, FileBounds DEF FileTypes, RestIsTyped, Fault
  <1>4. RestIsTyped'
    BY <1>1, <1>3 DEF FileTypes, RestIsTyped, Idle
  <1> QED
    BY <1>1, <1>2, <1>4, OthersStayTyped DEF FileTypes

LEMMA UpdateIsTyped ==
  ASSUME IInv, KeysInv, FileTypes, NEW n \in FileNotes, NEW f \in Fields, Update(n, f)
  PROVE  FileTypes'
  <1>1. /\ DOMAIN idx = FileNotes /\ DOMAIN terms = FileNotes
        /\ UNCHANGED <<file, op, up, faults, acked, marred>>
    BY DEF IInv, Functions, KeysInv, Update
  <1>2. IsEntry(idx[n])
    BY DEF FileTypes, EntriesAreTyped, Update
  <1>3. FilesAreTyped' /\ EntriesAreTyped'
    BY <1>1, <1>2, StoredEntryIsTyped DEF IsEntry, Update, Fields
  <1>4. FieldsAreTyped'
    BY DEF FileTypes, FieldsAreTyped, Update
  <1>5. RestIsTyped'
    BY <1>1 DEF FileTypes, RestIsTyped
  <1> QED
    BY <1>1, <1>3, <1>4, <1>5, OthersStayTyped DEF FileTypes

LEMMA GetIsTyped ==
  ASSUME IInv, KeysInv, FileTypes, NEW n \in FileNotes, GetUnindexed(n)
  PROVE  FileTypes'
  <1>1. /\ DOMAIN idx = FileNotes /\ DOMAIN terms = FileNotes
        /\ UNCHANGED <<file, op, up, faults, acked, wanted, marred>>
    BY DEF IInv, Functions, KeysInv, GetUnindexed
  <1>2. FilesAreTyped' /\ EntriesAreTyped'
    BY <1>1, IndexedFileIsTyped DEF GetUnindexed, Parses
  <1>3. RestIsTyped'
    BY <1>1 DEF FileTypes, RestIsTyped
  <1> QED
    BY <1>1, <1>2, <1>3, OthersStayTyped DEF FileTypes

LEMMA EndIsTyped ==
  ASSUME IInv, KeysInv, FileTypes, IndexFails \/ Crash
  PROVE  FileTypes'
  <1>1. /\ DOMAIN marred = FileNotes /\ UNCHANGED <<file, idx, terms, acked, wanted>> /\ op' = Idle
        /\ up' \in BOOLEAN /\ Fault
    BY DEF IInv, Functions, FileTypes, RestIsTyped, IndexFails, Crash
  <1>2. op.at \in {"header", "index"} => op.note \in FileNotes
    BY OperationKinds DEF IInv
  <1>3. MarksAreTyped'
    BY <1>1, <1>2, MarkedStaysTyped, OthersStayTyped DEF IndexFails, Crash
  <1>4. RestIsTyped'
    BY <1>1, FileBounds DEF FileTypes, RestIsTyped, Fault, Idle
  <1> QED
    BY <1>1, <1>3, <1>4, OthersStayTyped DEF FileTypes

LEMMA RestartIsTyped ==
  ASSUME IInv, KeysInv, FileTypes, Restart
  PROVE  FileTypes'
  <1>1. UNCHANGED <<file, op, faults, acked, wanted, marred>> /\ up' = TRUE
    BY DEF Restart
  <1>2. ASSUME NEW n \in FileNotes
        PROVE  (idx[n].exists => IsEntry(idx[n]))' /\ (terms[n] \subseteq Strings)'
    <2>0. (idx[n].exists => IsEntry(idx[n])) /\ terms[n] \subseteq Strings
      BY DEF FileTypes, EntriesAreTyped
    <2>1. CASE ~ Behind(n)
      <3>1. idx'[n] = idx[n] /\ terms'[n] = terms[n]
        BY <2>1 DEF Restart
      <3> QED
        BY <2>0, <3>1 DEF IsEntry
    <2>2. CASE Behind(n)
      <3>1. file[n] \in StoredFile
        BY <2>2 DEF Behind, FileTypes, FilesAreTyped, NoFile
      <3>2. /\ Replay(file[n]) \in Seq(Strings) /\ Len(file[n].blocks) \in 0..MaxEvents
            /\ file[n].title \in Titles /\ file[n].type \in Types
        BY <3>1, ReplayedFile
      <3>3. /\ idx'[n] = FromFile(file[n])
            /\ terms'[n] \subseteq terms[n] \cup Words(Replay(file[n]))
        BY <2>2 DEF Restart
      <3>4. IsEntry(FromFile(file[n]))
        <4>1. << >> \in Seq(Strings)
          OBVIOUS
        <4> QED
          BY <3>2, <4>1 DEF FromFile, IndexEntry, IsEntry, EmptyString
      <3>5. Words(Replay(file[n])) \subseteq Strings
        BY <3>2 DEF Words
      <3> QED
        BY <2>0, <3>3, <3>4, <3>5 DEF IsEntry
    <2> QED
      BY <2>1, <2>2
  <1>3. EntriesAreTyped'
    BY <1>2 DEF EntriesAreTyped
  <1>4. RestIsTyped'
    BY <1>1 DEF FileTypes, RestIsTyped
  <1> QED
    BY <1>1, <1>3, <1>4, OthersStayTyped DEF FileTypes

LEMMA FileTypesStep == IInv /\ KeysInv /\ FileTypes /\ [Next]_vars => FileTypes'
  <1> SUFFICES ASSUME IInv, KeysInv, FileTypes, [Next]_vars PROVE FileTypes'
    OBVIOUS
  <1>1. ASSUME NEW n \in FileNotes, Delete(n) PROVE FileTypes'
    <2>1. IsEntry(idx[n])
      BY <1>1 DEF Delete, Update, FileTypes, EntriesAreTyped
    <2>2. [title |-> idx[n].title, deleted |-> TRUE] \in Fields
      BY <2>1 DEF IsEntry, Fields
    <2> QED
      BY <1>1, <2>2, UpdateIsTyped DEF Delete
  <1>2. CASE UNCHANGED vars
    BY <1>2, OthersStayTyped DEF vars, FileTypes, RestIsTyped
  <1> QED
    BY <1>1, <1>2, CreationIsTyped, EventIsTyped, HeaderIsTyped, IndexStepIsTyped, StubStepIsTyped,
       UpdateIsTyped, GetIsTyped, EndIsTyped, RestartIsTyped DEF Next

(* The types, whatever fails or ends the process: a file that a torn write *)
(* left behind is a sequence of events and first parts of events, numbered *)
(* within the bound, and whatever Badger caches is a text made of the lines*)
(* that callers appended (writeEventToNotx, updateNotxHeader, reconcile).  *)
THEOREM FileIsTyped == Spec => []TypeOK
  <1>1. IInv /\ FileTypes => TypeOK
    <2> SUFFICES ASSUME IInv, FileTypes PROVE TypeOK
      OBVIOUS
    <2>1. ASSUME NEW n \in FileNotes
          PROVE  /\ file[n].exists => /\ file[n].readable \in BOOLEAN /\ file[n].title \in Titles
                                      /\ file[n].type \in Types /\ file[n].head \in 0..MaxEvents
                                      /\ file[n].blocks \in Seq(Blocks) /\ Len(file[n].blocks) <= MaxEvents
                 /\ idx[n].exists => /\ [title |-> idx[n].title, deleted |-> idx[n].deleted] \in Fields
                                     /\ idx[n].type \in Types /\ idx[n].head \in 0..MaxEvents
                                     /\ idx[n].content \in Seq(Strings)
                 /\ terms[n] \subseteq Strings
                 /\ wanted[n] \in Fields /\ marred[n] \in {"clean", "failed", "cut"}
      <3>1. file[n].exists => file[n] \in StoredFile
        BY DEF FileTypes, FilesAreTyped, NoFile
      <3>2. idx[n].exists => IsEntry(idx[n])
        BY DEF FileTypes, EntriesAreTyped
      <3>3. terms[n] \subseteq Strings /\ wanted[n] \in Fields /\ marred[n] \in {"clean", "failed", "cut"}
        BY DEF FileTypes, EntriesAreTyped, FieldsAreTyped, MarksAreTyped
      <3> QED
        BY <3>1, <3>2, <3>3 DEF StoredFile, IsEntry, Fields
    <2>2. op # Idle => /\ op.at \in {"stub", "header", "index"} /\ op.note \in FileNotes
                       /\ op.at # "stub" => op.sequence \in 1..MaxEvents /\ op.entries \in Payloads
      BY DEF IInv, Functions, Operation, FileTypes, RestIsTyped
    <2> QED
      BY <2>1, <2>2 DEF TypeOK, FileTypes, RestIsTyped
  <1> QED
    BY Invariance, KeysInvInit, KeysInvStep, FileTypesInit, FileTypesStep, <1>1, PTL DEF Spec
=============================================================================
