--------------------------- MODULE ProviderProofs ---------------------------
(***************************************************************************)
(* Proofs about the SQLite provider, for every number of notes, clients,   *)
(* titles, contents and faults and every line edit that ContentAssumption  *)
(* allows: its writes; what it serves when it has started, what its        *)
(* listings give while notes change, and what its shutdown does to the     *)
(* requests in flight; and the types of the whole.  The writes, the start, *)
(* the listings and the shutdown share no variable.                        *)
(***************************************************************************)
EXTENDS MCProvider, SequenceTheorems, FiniteSetTheorems, TLAPS

(* What is known of the rows, the client goroutines, the channel and the   *)
(* writer between two steps.                                               *)

AppendOps == {"append", "replace"}

RowsAreSane ==
  \A n \in Notes :
    IF notes[n].exists THEN notes[n].title \in Titles ELSE notes[n].head = 0

CallIsSane(k) ==
  /\ k.op = "none" <=> k.at = "idle"
  /\ k.op # "none" => k.note \in Notes
  /\ k.op \in {"create", "update"} => k.title \in Titles
  /\ k.op \in AppendOps => k.seq \in Seqs /\ k.payload \in Payloads
  /\ k.op \in {"update", "replace"} => notes[k.note].exists
  /\ k.op = "replace" => notes[k.note].type = "normal" /\ k.want \in Contents

CallsAreSane == \A c \in Clients : CallIsSane(call[c])

(* A client whose closure waits in the channel waits for it, sent it once, *)
(* and is not the one being served.                                        *)
QueueIsSane ==
  /\ \A i \in 1..Len(writeCh) : /\ call[writeCh[i]].at = "waiting"
                                /\ writeCh[i] # serving
  /\ \A i, j \in 1..Len(writeCh) : i # j => writeCh[i] # writeCh[j]

(* The statements of AppendEvent, by what each leaves for the next.        *)
WriterIsSane ==
  /\ serving = None <=> step = "idle"
  /\ serving # None =>
       LET r == call[serving] IN
       /\ r.op \in AppendOps
       /\ r.at = "waiting"
       /\ notes[r.note].exists
       /\ step # "sync" => r.seq = notes[r.note].head + 1
       /\ step = "sync" => r.seq = notes[r.note].head
       /\ step # "insert" => events[r.note][r.seq] = r.payload
       /\ step = "content" => notes[r.note].type = "normal"

Core == TypeOK /\ RowsAreSane /\ CallsAreSane /\ QueueIsSane /\ WriterIsSane

-----------------------------------------------------------------------------
LEMMA CoreInit == Init => Core
  <1> SUFFICES ASSUME Init PROVE Core
    OBVIOUS
  <1> USE ContentAssumption, NameAssumption, BoundAssumption DEF Init
  <1>1. TypeOK
    BY DEF TypeOK, AbsentRow, Row, IdleCall, Call, Ops, Seqs, NoteTypes
  <1>2. RowsAreSane
    BY DEF RowsAreSane, AbsentRow
  <1>3. CallsAreSane
    BY DEF CallsAreSane, CallIsSane, IdleCall, AppendOps
  <1>4. QueueIsSane /\ WriterIsSane
    BY DEF QueueIsSane, WriterIsSane
  <1> QED
    BY <1>1, <1>2, <1>3, <1>4 DEF Core

(* A client that was idle takes up request k, and either sends it or keeps *)
(* it.                                                                     *)
LEMMA ClientTakesUp ==
  ASSUME Core, NEW c \in Clients, NEW k \in Call,
         call[c].at = "idle" \/ call[c].at = "holding",
         CallIsSane(k),
         call' = [call EXCEPT ![c] = k],
         \/ k.at = "waiting" /\ writeCh' = Append(writeCh, c)
         \/ k.at = "holding" /\ UNCHANGED writeCh,
         UNCHANGED <<disk, serving, step, acks, faults>>
  PROVE  Core'
  <1> USE DEF Core, disk
  <1>0. call[c].at # "waiting"
    OBVIOUS
  <1>a. writeCh' \in Seq(Clients)
    <2>1. writeCh \in Seq(Clients) /\ Append(writeCh, c) \in Seq(Clients)
      BY DEF TypeOK
    <2> QED
      BY <2>1
  <1>b. call' \in [Clients -> Call]
    BY DEF TypeOK
  <1>1. TypeOK'
    BY <1>a, <1>b DEF TypeOK
  <1>2. RowsAreSane'
    BY DEF RowsAreSane
  <1>3. CallsAreSane'
    BY DEF CallsAreSane, CallIsSane, TypeOK
  <1>4. serving # c
    BY <1>0, NameAssumption DEF WriterIsSane, TypeOK
  <1>5. \A i \in 1..Len(writeCh) : writeCh[i] \in Clients /\ writeCh[i] # c
    BY <1>0 DEF QueueIsSane, TypeOK
  <1>6. QueueIsSane'
    <2>1. CASE UNCHANGED writeCh
      BY <1>4, <1>5, <2>1 DEF QueueIsSane, TypeOK
    <2>2. CASE k.at = "waiting" /\ writeCh' = Append(writeCh, c)
      <3>1. Len(writeCh') = Len(writeCh) + 1 /\ writeCh'[Len(writeCh) + 1] = c
        BY <2>2 DEF TypeOK
      <3>2. \A i \in 1..Len(writeCh) : writeCh'[i] = writeCh[i]
        BY <2>2 DEF TypeOK
      <3> QED
        BY <1>4, <1>5, <2>2, <3>1, <3>2 DEF QueueIsSane, TypeOK
    <2> QED
      BY <2>1, <2>2
  <1>7. WriterIsSane'
    BY <1>4 DEF WriterIsSane, TypeOK
  <1> QED
    BY <1>1, <1>2, <1>3, <1>6, <1>7

LEMMA IdleCallIsSane == IdleCall \in Call /\ CallIsSane(IdleCall)
  BY ContentAssumption, BoundAssumption
  DEF IdleCall, Call, Ops, NoteTypes, CallIsSane, AppendOps

(* The writer takes the first closure of the channel.                      *)
LEMMA QueueTail ==
  ASSUME Core, writeCh # << >>
  PROVE  /\ Head(writeCh) \in Clients
         /\ call[Head(writeCh)].at = "waiting"
         /\ Tail(writeCh) \in Seq(Clients)
         /\ \A i \in 1..Len(Tail(writeCh)) :
              /\ Tail(writeCh)[i] # Head(writeCh)
              /\ call[Tail(writeCh)[i]].at = "waiting"
         /\ \A i, j \in 1..Len(Tail(writeCh)) :
              i # j => Tail(writeCh)[i] # Tail(writeCh)[j]
  <1> DEFINE t == Tail(writeCh)
  <1>1. writeCh \in Seq(Clients) /\ QueueIsSane
    BY DEF Core, TypeOK
  <1>2. Len(writeCh) >= 1 /\ Head(writeCh) = writeCh[1] /\ 1 \in 1..Len(writeCh)
    BY <1>1
  <1>3. t \in Seq(Clients) /\ Len(t) = Len(writeCh) - 1
    BY <1>1
  <1>4. \A i \in 1..Len(t) : i + 1 \in 1..Len(writeCh) /\ t[i] = writeCh[i + 1] /\ i + 1 # 1
    BY <1>1, <1>3
  <1> QED
    BY <1>1, <1>2, <1>3, <1>4 DEF QueueIsSane

(* A client whose call ends leaves the channel, if it still is in it, and  *)
(* the writer goes idle; no row loses its identity.                        *)
LEMMA CallEnds ==
  ASSUME Core, TypeOK', RowsAreSane', NEW c \in Clients,
         Answers(c),
         \A n \in Notes : notes[n].exists =>
           notes'[n].exists /\ notes'[n].type = notes[n].type,
         \/ step = "idle" /\ writeCh # << >> /\ c = Head(writeCh) /\ writeCh' = Tail(writeCh)
         \/ serving = c /\ UNCHANGED writeCh
  PROVE  Core'
  <1> USE DEF Core, Answers
  <1>1. CallsAreSane'
    <2> SUFFICES ASSUME NEW d \in Clients PROVE CallIsSane(call[d])'
      BY DEF CallsAreSane
    <2>1. CASE d = c
      BY <2>1, IdleCallIsSane DEF TypeOK, CallIsSane, AppendOps, IdleCall
    <2>2. CASE d # c
      <3>1. call'[d] = call[d] /\ CallIsSane(call[d])
        BY <2>2 DEF TypeOK, CallsAreSane
      <3> QED
        BY <3>1 DEF CallIsSane, AppendOps
    <2> QED
      BY <2>1, <2>2
  <1>2. \A i \in 1..Len(writeCh') : writeCh'[i] # c /\ writeCh'[i] \in Clients
    <2>1. \A i \in 1..Len(writeCh') : writeCh'[i] \in Clients
      BY DEF TypeOK
    <2>2. CASE writeCh # << >> /\ c = Head(writeCh) /\ writeCh' = Tail(writeCh)
      BY <2>1, <2>2, QueueTail
    <2>3. CASE serving = c /\ UNCHANGED writeCh
      BY <2>1, <2>3 DEF QueueIsSane
    <2> QED
      BY <2>2, <2>3
  <1>3. \A i \in 1..Len(writeCh') : call[writeCh'[i]].at = "waiting"
    BY QueueTail DEF TypeOK, QueueIsSane
  <1>4. \A i, j \in 1..Len(writeCh') : i # j => writeCh'[i] # writeCh'[j]
    BY QueueTail DEF TypeOK, QueueIsSane
  <1>5. QueueIsSane'
    BY <1>2, <1>3, <1>4, NameAssumption DEF QueueIsSane, TypeOK
  <1>6. WriterIsSane'
    BY DEF WriterIsSane
  <1> QED
    BY <1>1, <1>5, <1>6

(* A read makes a replace request, and every request, sane.                *)
LEMMA RequestsAreSane ==
  ASSUME Core, NEW n \in Notes
  PROVE  /\ GetHead(n) \in 0..MaxSeq
         /\ GetContent(n) \in Contents
         /\ notes[n].title \in Titles \cup {None}
         /\ notes[n].deleted \in BOOLEAN
         /\ notes[n].exists => notes[n].title \in Titles
         /\ notes[n].exists \in BOOLEAN
         /\ notes[n].type \in NoteTypes
         /\ notes[n].head \in 0..MaxSeq
  BY ContentAssumption, BoundAssumption
  DEF Core, TypeOK, Row, GetHead, GetContent, RowsAreSane

LEMMA ClientKeepsCore ==
  ASSUME Core, NEW c \in Clients, Client(c)
  PROVE  Core'
  <1> USE ContentAssumption, BoundAssumption DEF Starts, SendsAtOnce
  <1>1. CASE CreateNote(c)
    <2>1. PICK n \in Notes, ty \in NoteTypes, ti \in Titles :
            SendsAtOnce(c, [IdleCall EXCEPT !.op = "create", !.note = n, !.type = ty, !.title = ti])
      BY <1>1 DEF CreateNote
    <2> DEFINE k == [IdleCall EXCEPT !.op = "create", !.note = n, !.type = ty, !.title = ti,
                                     !.at = "waiting"]
    <2>2. k \in Call
      BY IdleCallIsSane DEF Call, Ops
    <2>3. k.at = "waiting" /\ CallIsSane(k)
      BY DEF IdleCall, CallIsSane, AppendOps
    <2>4. call' = [call EXCEPT ![c] = k]
      BY <2>1
    <2> HIDE DEF k
    <2> QED
      BY <2>1, <2>2, <2>3, <2>4, ClientTakesUp
  <1>2. CASE DeleteNote(c)
    <2>1. PICK n \in Notes :
            SendsAtOnce(c, [IdleCall EXCEPT !.op = "delete", !.note = n])
      BY <1>2 DEF DeleteNote
    <2> DEFINE k == [IdleCall EXCEPT !.op = "delete", !.note = n, !.at = "waiting"]
    <2>2. k \in Call
      BY IdleCallIsSane DEF Call, Ops
    <2>3. k.at = "waiting" /\ CallIsSane(k)
      BY DEF IdleCall, CallIsSane, AppendOps
    <2>4. call' = [call EXCEPT ![c] = k]
      BY <2>1
    <2> HIDE DEF k
    <2> QED
      BY <2>1, <2>2, <2>3, <2>4, ClientTakesUp
  <1>3. CASE AppendRaw(c)
    <2>1. PICK n \in Notes, s \in Seqs, p \in RawPayloads :
            SendsAtOnce(c, [IdleCall EXCEPT !.op = "append", !.note = n, !.seq = s, !.payload = p])
      BY <1>3 DEF AppendRaw
    <2> DEFINE k == [IdleCall EXCEPT !.op = "append", !.note = n, !.seq = s, !.payload = p,
                                     !.at = "waiting"]
    <2>a. s \in 0..MaxSeq /\ p \in Payloads
      BY DEF Seqs
    <2>2. k \in Call
      BY <2>a, IdleCallIsSane DEF Call, Ops
    <2>3. k.at = "waiting" /\ CallIsSane(k)
      BY <2>a DEF IdleCall, CallIsSane, AppendOps
    <2>4. call' = [call EXCEPT ![c] = k]
      BY <2>1
    <2> HIDE DEF k
    <2> QED
      BY <2>1, <2>2, <2>3, <2>4, ClientTakesUp
  <1>4. CASE UpdateGet(c)
    <2>1. PICK n \in Notes, ti \in Titles \cup {None}, del \in BOOLEAN \cup {None} :
            /\ notes[n].exists
            /\ Starts(c, [IdleCall EXCEPT !.op = "update", !.at = "holding", !.note = n,
                            !.title = IF ti = None THEN notes[n].title ELSE ti,
                            !.deleted = IF del = None THEN notes[n].deleted ELSE del,
                            !.keepsDeleted = del = None])
      BY <1>4 DEF UpdateGet
    <2> DEFINE title == IF ti = None THEN notes[n].title ELSE ti
               deleted == IF del = None THEN notes[n].deleted ELSE del
               keeps == del = None
               k == [IdleCall EXCEPT !.op = "update", !.at = "holding", !.note = n,
                       !.title = title, !.deleted = deleted, !.keepsDeleted = keeps]
    <2>2. title \in Titles /\ deleted \in BOOLEAN /\ keeps \in BOOLEAN
      BY <2>1, RequestsAreSane, NameAssumption
    <2> HIDE DEF title, deleted, keeps
    <2>3. k \in Call
      BY <2>2, IdleCallIsSane DEF Call, Ops
    <2>4. k.at = "holding" /\ CallIsSane(k)
      BY <2>1, <2>2 DEF IdleCall, CallIsSane, AppendOps
    <2>5. call' = [call EXCEPT ![c] = k] /\ UNCHANGED writeCh
      BY <1>4, <2>1 DEF UpdateGet, title, deleted, keeps
    <2> HIDE DEF k
    <2> QED
      BY <2>1, <2>3, <2>4, <2>5, ClientTakesUp
  <1>5. CASE ReplaceGet(c)
    <2>1. PICK n \in Notes, w \in Drafts :
            /\ notes[n].exists
            /\ notes[n].type = "normal"
            /\ Diff(GetContent(n), w) # NoEntries
            /\ GetHead(n) < MaxSeq
            /\ Starts(c, [IdleCall EXCEPT !.op = "replace", !.at = "holding", !.note = n,
                            !.seq = GetHead(n) + 1, !.payload = Diff(GetContent(n), w),
                            !.want = w])
      BY <1>5 DEF ReplaceGet
    <2> DEFINE seq == GetHead(n) + 1
               payload == Diff(GetContent(n), w)
               k == [IdleCall EXCEPT !.op = "replace", !.at = "holding", !.note = n,
                       !.seq = seq, !.payload = payload, !.want = w]
    <2>2. seq \in Seqs /\ seq \in 0..MaxSeq /\ payload \in Payloads /\ w \in Contents
      BY <2>1, RequestsAreSane DEF Seqs
    <2> HIDE DEF seq, payload
    <2>3. k \in Call
      BY <2>2, IdleCallIsSane DEF Call, Ops
    <2>4. k.at = "holding" /\ CallIsSane(k)
      BY <2>1, <2>2 DEF IdleCall, CallIsSane, AppendOps
    <2>5. call' = [call EXCEPT ![c] = k] /\ UNCHANGED writeCh
      BY <1>5, <2>1 DEF ReplaceGet, seq, payload
    <2> HIDE DEF k
    <2> QED
      BY <2>1, <2>3, <2>4, <2>5, ClientTakesUp
  <1>6. CASE SendWrite(c)
    <2> DEFINE k == [call[c] EXCEPT !.at = "waiting"]
    <2>1. CallIsSane(call[c]) /\ call[c] \in Call /\ call[c].at = "holding"
      BY <1>6 DEF SendWrite, Core, CallsAreSane, TypeOK
    <2>2. k \in Call /\ k.at = "waiting" /\ CallIsSane(k)
      BY <2>1 DEF Call, Ops, CallIsSane, AppendOps
    <2>3. call' = [call EXCEPT ![c] = k]
      BY <1>6 DEF SendWrite
    <2> HIDE DEF k
    <2> QED
      BY <1>6, <2>1, <2>2, <2>3, ClientTakesUp DEF SendWrite
  <1> QED
    BY <1>1, <1>2, <1>3, <1>4, <1>5, <1>6 DEF Client

(* A closure that only changes a header: create, update, delete.           *)
LEMMA HeaderWriteKeepsCore ==
  ASSUME Core, NEW c \in Clients,
         WriteCreate(c) \/ WriteUpdate(c) \/ WriteDelete(c)
  PROVE  Core'
  <1> DEFINE r == call[c]
  <1>1. /\ r \in Call /\ CallIsSane(r) /\ r.op \in {"create", "update", "delete"}
        /\ writeCh # << >> /\ c = Head(writeCh) /\ writeCh' = Tail(writeCh) /\ step = "idle"
        /\ Answers(c)
        /\ UNCHANGED <<events, content, pendingSync, acks, faults>>
    BY DEF WriteCreate, WriteUpdate, WriteDelete, Takes, Core, TypeOK, CallsAreSane
  <1>2. r.note \in Notes /\ r.type \in NoteTypes /\ r.title \in Titles \cup {None}
        /\ r.deleted \in BOOLEAN /\ (r.op \in {"create", "update"} => r.title \in Titles)
    BY <1>1 DEF Call, CallIsSane
  <1>3. /\ notes' \in [Notes -> Row]
        /\ RowsAreSane'
        /\ \A n \in Notes : notes[n].exists =>
             notes'[n].exists /\ notes'[n].type = notes[n].type
    <2>1. notes \in [Notes -> Row] /\ RowsAreSane /\ r.note \in Notes
      BY <1>2 DEF Core, TypeOK
    <2>2. ASSUME NEW row \in Row, notes' = [notes EXCEPT ![r.note] = row],
                 IF row.exists THEN row.title \in Titles ELSE row.head = 0,
                 notes[r.note].exists => row.exists /\ row.type = notes[r.note].type
          PROVE  /\ notes' \in [Notes -> Row]
                 /\ RowsAreSane'
                 /\ \A n \in Notes : notes[n].exists =>
                      notes'[n].exists /\ notes'[n].type = notes[n].type
      BY <2>1, <2>2 DEF RowsAreSane
    <2>3. CASE notes' = notes
      BY <2>1, <2>3 DEF RowsAreSane
    <2>4. CASE WriteCreate(c) /\ notes' # notes
      <3> DEFINE row == [exists |-> TRUE, type |-> r.type, title |-> r.title, deleted |-> FALSE, head |-> 0]
      <3>1. ~ notes[r.note].exists /\ notes' = [notes EXCEPT ![r.note] = row] /\ r.title \in Titles
        BY <1>2, <2>4 DEF WriteCreate, Takes
      <3>2. row \in Row
        BY <1>2, BoundAssumption DEF Row
      <3> QED
        BY <2>2, <3>1, <3>2
    <2>5. CASE WriteUpdate(c)
      <3> DEFINE row == [notes[r.note] EXCEPT !.title = r.title, !.deleted = r.deleted]
      <3>1. r.title \in Titles
        BY <1>2, <2>5 DEF WriteUpdate, Takes
      <3>2. notes' = [notes EXCEPT ![r.note] = row]
        BY <2>1, <2>5 DEF WriteUpdate
      <3>3. notes[r.note] \in Row /\ (notes[r.note].exists \/ notes[r.note].head = 0)
        BY <2>1 DEF RowsAreSane
      <3>4. /\ row \in Row /\ row.exists = notes[r.note].exists /\ row.type = notes[r.note].type
            /\ row.title = r.title /\ row.head = notes[r.note].head
        BY <1>2, <3>3 DEF Row
      <3> QED
        BY <2>2, <3>1, <3>2, <3>3, <3>4
    <2>6. CASE WriteDelete(c) /\ notes' # notes
      <3> DEFINE row == [notes[r.note] EXCEPT !.deleted = TRUE]
      <3>1. notes[r.note].exists /\ notes' = [notes EXCEPT ![r.note] = row]
        BY <2>1, <2>6 DEF WriteDelete
      <3>2. notes[r.note] \in Row /\ notes[r.note].title \in Titles
        BY <2>1, <3>1 DEF RowsAreSane
      <3>3. /\ row \in Row /\ row.exists = notes[r.note].exists /\ row.type = notes[r.note].type
            /\ row.title = notes[r.note].title
        BY <3>2 DEF Row
      <3> QED
        BY <2>2, <3>1, <3>2, <3>3
    <2> QED
      BY <2>3, <2>4, <2>5, <2>6
  <1>4. writeCh' \in Seq(Clients)
    BY <1>1, QueueTail
  <1>5. call' \in [Clients -> Call]
    BY <1>1, IdleCallIsSane DEF Answers, Core, TypeOK
  <1>6. TypeOK'
    BY <1>1, <1>3, <1>4, <1>5 DEF Answers, Core, TypeOK
  <1> QED
    BY <1>1, <1>3, <1>6, CallEnds

(* The facts every statement of AppendEvent starts from.                   *)
LEMMA ServedCall ==
  ASSUME Core, NEW c \in Clients, serving = c
  PROVE  /\ call[c].note \in Notes
         /\ call[c].seq \in Seqs
         /\ call[c].payload \in Payloads
         /\ call[c].op \in AppendOps
         /\ notes[call[c].note] \in Row
         /\ notes[call[c].note].exists
         /\ step # "idle"
         /\ step # "sync" => call[c].seq = notes[call[c].note].head + 1
         /\ step = "sync" => call[c].seq = notes[call[c].note].head
         /\ step # "insert" => events[call[c].note][call[c].seq] = call[c].payload
         /\ step = "content" => notes[call[c].note].type = "normal"
  BY NameAssumption DEF Core, TypeOK, CallsAreSane, CallIsSane, WriterIsSane, AppendOps

(* Between two statements only the tables and step change.                 *)
LEMMA StatementKeepsQueue ==
  ASSUME Core, UNCHANGED <<writeCh, serving, call>>
  PROVE  QueueIsSane'
  BY DEF Core, QueueIsSane

LEMMA AppendKeepsCore ==
  ASSUME Core, NEW c \in Clients,
         WriteAppend(c) \/ InsertEvent(c) \/ UpsertContent(c) \/ SetHead(c) \/ MarkSync(c)
         \/ StatementFails(c)
  PROVE  Core'
  <1> DEFINE r == call[c]
  <1>1. CASE WriteAppend(c)
    <2>1. /\ r \in Call /\ CallIsSane(r) /\ r.op \in AppendOps
          /\ writeCh # << >> /\ c = Head(writeCh) /\ writeCh' = Tail(writeCh) /\ step = "idle"
          /\ UNCHANGED <<notes, events, content, pendingSync, acks, faults>>
      BY <1>1 DEF WriteAppend, IsAppend, Takes, Core, TypeOK, CallsAreSane, AppendOps, disk
    <2>2. r.note \in Notes /\ r.seq \in Seqs /\ r.payload \in Payloads
      BY <2>1 DEF CallIsSane, AppendOps
    <2>3. RowsAreSane'
      BY <2>1 DEF Core, RowsAreSane
    <2>4. writeCh' \in Seq(Clients)
      BY <2>1, QueueTail
    <2>5. CASE Answers(c)
      <3>1. call' \in [Clients -> Call]
        BY <2>5, IdleCallIsSane DEF Answers, Core, TypeOK
      <3>2. TypeOK'
        BY <2>1, <2>4, <2>5, <3>1 DEF Answers, Core, TypeOK
      <3> QED
        BY <2>1, <2>3, <2>5, <3>2, CallEnds
    <2>6. CASE /\ notes[r.note].exists /\ r.seq = notes[r.note].head + 1
               /\ serving' = c /\ step' = "insert" /\ UNCHANGED call
      <3>1. TypeOK'
        BY <2>1, <2>4, <2>6 DEF Core, TypeOK
      <3>2. CallsAreSane'
        BY <2>1, <2>6 DEF Core, CallsAreSane, CallIsSane
      <3>3. QueueIsSane'
        BY <2>1, <2>6, QueueTail DEF QueueIsSane
      <3>4. r.at = "waiting"
        BY <2>1, QueueTail
      <3>5. WriterIsSane'
        BY <2>1, <2>6, <3>4, NameAssumption DEF WriterIsSane
      <3> QED
        BY <2>3, <3>1, <3>2, <3>3, <3>5 DEF Core
    <2> QED
      BY <1>1, <2>5, <2>6 DEF WriteAppend, SequenceAccepted
  <1>2. CASE InsertEvent(c)
    <2>1. serving = c /\ step = "insert"
          /\ UNCHANGED <<notes, content, pendingSync, writeCh, acks, faults>>
      BY <1>2 DEF InsertEvent
    <2>2. RowsAreSane'
      BY <2>1 DEF Core, RowsAreSane
    <2>3. CASE Answers(c) /\ UNCHANGED events
      <3>1. call' \in [Clients -> Call]
        BY <2>3, IdleCallIsSane DEF Answers, Core, TypeOK
      <3>2. TypeOK'
        BY <2>1, <2>3, <3>1 DEF Answers, Core, TypeOK
      <3> QED
        BY <2>1, <2>2, <2>3, <3>2, CallEnds
    <2>4. CASE /\ events' = [events EXCEPT ![r.note][r.seq] = r.payload]
               /\ step' = IF notes[r.note].type = "normal" THEN "content" ELSE "head"
               /\ UNCHANGED <<serving, call>>
      <3>1. TypeOK'
        BY <2>1, <2>4, ServedCall DEF Core, TypeOK
      <3>2. CallsAreSane'
        BY <2>1, <2>4 DEF Core, CallsAreSane, CallIsSane
      <3>3. QueueIsSane'
        BY <2>1, <2>4, StatementKeepsQueue
      <3>4. events'[r.note][r.seq] = r.payload
        BY <2>1, <2>4, ServedCall DEF Core, TypeOK
      <3>5. WriterIsSane'
        BY <2>1, <2>4, <3>4, ServedCall, NameAssumption DEF Core, WriterIsSane
      <3> QED
        BY <2>2, <3>1, <3>2, <3>3, <3>5 DEF Core
    <2> QED
      BY <1>2, <2>3, <2>4 DEF InsertEvent
  <1>3. CASE UpsertContent(c)
    <2>1. /\ serving = c /\ step = "content" /\ step' = "head"
          /\ content' = [content EXCEPT ![r.note] = Apply(@, r.payload)]
          /\ UNCHANGED <<notes, events, pendingSync, writeCh, serving, call, acks, faults>>
      BY <1>3 DEF UpsertContent
    <2>2. Apply(content[r.note], r.payload) \in Contents
      BY <2>1, ServedCall, ContentAssumption DEF Core, TypeOK
    <2>3. TypeOK'
      BY <2>1, <2>2 DEF Core, TypeOK
    <2>4. RowsAreSane' /\ CallsAreSane' /\ QueueIsSane'
      BY <2>1, StatementKeepsQueue DEF Core, RowsAreSane, CallsAreSane, CallIsSane
    <2>5. WriterIsSane'
      BY <2>1, NameAssumption DEF Core, WriterIsSane
    <2> QED
      BY <2>3, <2>4, <2>5 DEF Core
  <1>4. CASE SetHead(c)
    <2>1. /\ serving = c /\ step = "head" /\ step' = "sync"
          /\ notes' = [notes EXCEPT ![r.note].head = r.seq]
          /\ UNCHANGED <<events, content, pendingSync, writeCh, serving, call, acks, faults>>
      BY <1>4 DEF SetHead
    <2>2. r.seq \in 0..MaxSeq
      BY <2>1, ServedCall DEF Seqs
    <2>3. TypeOK'
      BY <2>1, <2>2 DEF Core, TypeOK, Row
    <2>4. \A n \in Notes : /\ notes'[n].exists = notes[n].exists
                           /\ notes'[n].type = notes[n].type
                           /\ notes'[n].title = notes[n].title
                           /\ ~ notes[n].exists => notes'[n].head = notes[n].head
      BY <2>1, ServedCall DEF Core, TypeOK, Row
    <2>5. RowsAreSane'
      BY <2>4 DEF Core, RowsAreSane
    <2>6. CallsAreSane'
      BY <2>1, <2>4 DEF Core, CallsAreSane, CallIsSane, AppendOps
    <2>7. QueueIsSane'
      BY <2>1, StatementKeepsQueue
    <2>8. notes'[r.note].head = r.seq
      BY <2>1, ServedCall DEF Core, TypeOK, Row
    <2>9. WriterIsSane'
      BY <2>1, <2>4, <2>8, ServedCall, NameAssumption DEF Core, WriterIsSane
    <2> QED
      BY <2>3, <2>5, <2>6, <2>7, <2>9 DEF Core
  <1>5. CASE MarkSync(c) \/ StatementFails(c)
    <2>1. serving = c /\ Answers(c) /\ UNCHANGED <<notes, events, content, writeCh>>
      BY <1>5 DEF MarkSync, StatementFails, disk
    <2>2. /\ pendingSync' \in SUBSET Notes
          /\ faults' \in 0..MaxFaults
          /\ acks' \in [Notes -> [Seqs -> Nat]]
      <3>1. CASE MarkSync(c)
        <4>1. pendingSync' \in SUBSET Notes /\ faults' \in 0..MaxFaults
          BY <2>1, <3>1, ServedCall, BoundAssumption DEF MarkSync, Core, TypeOK
        <4>2. acks' \in [Notes -> [Seqs -> Nat]]
          BY <2>1, <3>1, ServedCall DEF MarkSync, Core, TypeOK
        <4> QED
          BY <4>1, <4>2
      <3>2. CASE StatementFails(c)
        BY <3>2, BoundAssumption DEF StatementFails, disk, Core, TypeOK
      <3> QED
        BY <1>5, <3>1, <3>2
    <2>3. call' \in [Clients -> Call]
      BY <2>1, IdleCallIsSane DEF Answers, Core, TypeOK
    <2>4. TypeOK' /\ RowsAreSane'
      BY <2>1, <2>2, <2>3 DEF Answers, Core, TypeOK, RowsAreSane
    <2> QED
      BY <2>1, <2>4, CallEnds
  <1> QED
    BY <1>1, <1>2, <1>3, <1>4, <1>5

LEMMA CrashKeepsCore ==
  ASSUME Core, Crash
  PROVE  Core'
  <1> USE DEF Core, Crash, disk
  <1>1. \A c \in Clients : call'[c] = IdleCall
    OBVIOUS
  <1>2. call' \in [Clients -> Call]
    BY IdleCallIsSane
  <1>3. TypeOK'
    BY <1>2, BoundAssumption DEF TypeOK
  <1>4. RowsAreSane' /\ QueueIsSane' /\ WriterIsSane'
    BY DEF RowsAreSane, QueueIsSane, WriterIsSane
  <1>5. CallsAreSane'
    BY <1>1 DEF CallsAreSane, CallIsSane, IdleCall, AppendOps
  <1> QED
    BY <1>3, <1>4, <1>5

LEMMA CoreNext == Core /\ [Next]_vars => Core'
  <1> SUFFICES ASSUME Core, [Next]_vars PROVE Core'
    OBVIOUS
  <1>1. CASE UNCHANGED vars
    BY <1>1 DEF vars, Core, TypeOK, RowsAreSane, CallsAreSane, CallIsSane, QueueIsSane, WriterIsSane
  <1>2. CASE Next
    BY <1>2, ClientKeepsCore, HeaderWriteKeepsCore, AppendKeepsCore, CrashKeepsCore
    DEF Next, Writer
  <1> QED
    BY <1>1, <1>2

LEMMA CoreAlways == Spec => []Core
  BY CoreInit, CoreNext, PTL DEF Spec

(* Type correctness, whatever the interleaving of requests and statements  *)
(* and wherever the process crashes.                                       *)
THEOREM TypeCorrect == Spec => []TypeOK
  BY CoreAlways, PTL DEF Core

-----------------------------------------------------------------------------
(* Which step can change which part of a table.                            *)

(* Only InsertEvent writes the event table, and only at a free key.        *)
LEMMA EventsChange ==
  ASSUME Core, [Next]_vars, events' # events
  PROVE  \E c \in Clients :
           /\ InsertEvent(c) /\ UNCHANGED <<serving, call>>
           /\ step = "insert"
           /\ step' = IF notes[call[c].note].type = "normal" THEN "content" ELSE "head"
           /\ events[call[c].note][call[c].seq] = NoEvent
           /\ events' = [events EXCEPT ![call[c].note][call[c].seq] = call[c].payload]
  <1>1. PICK c \in Clients : InsertEvent(c)
    BY DEF Next, vars, Client, Writer, CreateNote, DeleteNote, AppendRaw, UpdateGet,
           ReplaceGet, SendWrite, SendsAtOnce, Starts, WriteCreate, WriteUpdate,
           WriteDelete, WriteAppend, UpsertContent, SetHead, MarkSync, StatementFails,
           Crash, disk
  <1> QED
    BY <1>1 DEF InsertEvent

(* head_seq moves only in SetHead, from one sequence to the next.          *)
LEMMA HeadChange ==
  ASSUME Core, [Next]_vars, NEW n \in Notes, notes'[n].head # notes[n].head
  PROVE  \E c \in Clients :
           /\ SetHead(c)
           /\ call[c].note = n
           /\ notes'[n].head = notes[n].head + 1
  <1> USE DEF Core, TypeOK, Row
  <1>1. ASSUME NEW c \in Clients PROVE ~ WriteCreate(c) /\ ~ WriteUpdate(c) /\ ~ WriteDelete(c)
    <2>1. WriteCreate(c) => notes'[n].head = notes[n].head
      <3> SUFFICES ASSUME WriteCreate(c), notes'[n] # notes[n]
                   PROVE  notes'[n].head = notes[n].head
        OBVIOUS
      <3>1. ~ notes[n].exists /\ notes'[n].head = 0
        BY DEF WriteCreate
      <3> QED
        BY <3>1 DEF RowsAreSane
    <2>2. WriteUpdate(c) => notes'[n].head = notes[n].head
      <3> SUFFICES ASSUME WriteUpdate(c) PROVE notes'[n].head = notes[n].head
        OBVIOUS
      <3>1. notes' = [notes EXCEPT ![call[c].note] =
                        [@ EXCEPT !.title = call[c].title, !.deleted = call[c].deleted]]
        BY DEF WriteUpdate
      <3> QED
        BY <3>1
    <2>3. WriteDelete(c) => notes'[n].head = notes[n].head
      BY DEF WriteDelete
    <2> QED
      BY <2>1, <2>2, <2>3
  <1>2. PICK c \in Clients : SetHead(c)
    BY <1>1 DEF Next, vars, Client, Writer, CreateNote, DeleteNote, AppendRaw, UpdateGet,
           ReplaceGet, SendWrite, SendsAtOnce, Starts, WriteAppend, InsertEvent,
           UpsertContent, MarkSync, StatementFails, Crash, disk
  <1>3. serving = c /\ step = "head" /\ notes' = [notes EXCEPT ![call[c].note].head = call[c].seq]
    BY <1>2 DEF SetHead
  <1>4. call[c].note = n /\ notes'[n].head = call[c].seq
    BY <1>3, ServedCall
  <1> QED
    BY <1>2, <1>3, <1>4, ServedCall

(* Events are append-only: a stored event is never rewritten or removed by *)
(* a statement, a failure or a restart.                                    *)
THEOREM StoredEventsNeverChange == Spec => EventsAreImmutable
  <1>1. Core /\ [Next]_vars =>
          \A n \in Notes : \A s \in Seqs :
            events[n][s] # NoEvent => events'[n][s] = events[n][s]
    <2> SUFFICES ASSUME Core, [Next]_vars, events' # events,
                        NEW n \in Notes, NEW s \in Seqs, events[n][s] # NoEvent
                 PROVE  events'[n][s] = events[n][s]
      OBVIOUS
    <2>1. PICK c \in Clients :
            /\ events[call[c].note][call[c].seq] = NoEvent
            /\ events' = [events EXCEPT ![call[c].note][call[c].seq] = call[c].payload]
      BY EventsChange
    <2> QED
      BY <2>1 DEF Core, TypeOK
  <1> QED
    BY <1>1, CoreAlways, PTL DEF Spec, EventsAreImmutable

-----------------------------------------------------------------------------
(* LogMatchesHead, key by key: the keys up to the head are taken, and at   *)
(* most the one after it.                                                  *)
LogIsPrefix ==
  \A n \in Notes : \A s \in Seqs :
    /\ s <= notes[n].head => events[n][s] # NoEvent
    /\ s = notes[n].head + 1 /\ events[n][s] # NoEvent => Appending(n) \/ faults > 0
    /\ s > notes[n].head + 1 => events[n][s] = NoEvent

LEMMA LogIsPrefixSuffices == Core /\ LogIsPrefix => LogMatchesHead
  <1> SUFFICES ASSUME Core, LogIsPrefix, NEW n \in Notes
               PROVE  \/ Stored(n) = 1..notes[n].head
                      \/ /\ Stored(n) = 1..(notes[n].head + 1)
                         /\ Appending(n) \/ faults > 0
    BY DEF LogMatchesHead
  <1> DEFINE h == notes[n].head
  <1>1. h \in 0..MaxSeq /\ MaxSeq \in Nat
    BY BoundAssumption DEF Core, TypeOK, Row
  <1>2. CASE h + 1 \in Seqs /\ events[n][h + 1] # NoEvent
    <2>1. Stored(n) = 1..(h + 1)
      BY <1>1, <1>2 DEF Stored, LogIsPrefix, Seqs
    <2>2. Appending(n) \/ faults > 0
      BY <1>1, <1>2 DEF LogIsPrefix
    <2> QED
      BY <2>1, <2>2
  <1>3. CASE ~ (h + 1 \in Seqs /\ events[n][h + 1] # NoEvent)
    <2>1. Stored(n) = 1..h
      BY <1>1, <1>3 DEF Stored, LogIsPrefix, Seqs
    <2> QED
      BY <2>1
  <1> QED
    BY <1>2, <1>3

(* The writer leaves the statements of an append only by a step that       *)
(* completes the log or counts a fault.                                    *)
LEMMA AppendingEnds ==
  ASSUME Core, [Next]_vars, NEW n \in Notes, Appending(n), faults' = 0
  PROVE  Appending(n)' \/ \E c \in Clients : SetHead(c) /\ call[c].note = n
  <1>1. step \in {"content", "head"} /\ serving # None /\ serving \in Clients
        /\ call[serving].note = n /\ call[serving].at = "waiting" /\ faults \in Nat
    BY BoundAssumption DEF Core, TypeOK, WriterIsSane, Appending
  <1>2. CASE UNCHANGED <<step, serving>> /\ call'[serving] = call[serving]
    BY <1>1, <1>2 DEF Appending
  <1>3. CASE \E c \in Clients : Starts(c, call'[c]) \/ SendWrite(c)
    BY <1>1, <1>3 DEF Starts, SendWrite, Appending, Core, TypeOK
  <1>4. CASE \E c \in Clients : UpsertContent(c)
    BY <1>1, <1>4 DEF UpsertContent, Appending
  <1>5. CASE \E c \in Clients : SetHead(c)
    BY <1>1, <1>5 DEF SetHead
  <1>6. CASE Crash \/ \E c \in Clients : StatementFails(c)
    BY <1>1, <1>6 DEF StatementFails, Crash
  <1>7. CASE \E c \in Clients : \/ WriteCreate(c) \/ WriteUpdate(c) \/ WriteDelete(c)
                                \/ WriteAppend(c) \/ InsertEvent(c) \/ MarkSync(c)
    BY <1>1, <1>7 DEF WriteCreate, WriteUpdate, WriteDelete, WriteAppend, IsAppend, Takes,
                      InsertEvent, MarkSync
  <1>8. ASSUME NEW c \in Clients, Client(c)
        PROVE  Starts(c, call'[c]) \/ SendWrite(c)
    <2>1. CASE SendWrite(c)
      BY <2>1
    <2>2. CASE ~ SendWrite(c)
      <3>1. PICK k : Starts(c, k)
        BY <1>8, <2>2 DEF Client, CreateNote, DeleteNote, AppendRaw, UpdateGet, ReplaceGet,
                          SendsAtOnce
      <3>2. call'[c] = k
        BY <3>1 DEF Starts, Core, TypeOK
      <3> QED
        BY <3>1, <3>2
    <2> QED
      BY <2>1, <2>2
  <1> QED
    BY <1>2, <1>3, <1>4, <1>5, <1>6, <1>7, <1>8 DEF Next, vars, Writer

LEMMA FaultsGrow ==
  ASSUME Core, [Next]_vars, faults > 0
  PROVE  faults' > 0
  <1>1. faults \in Nat
    BY BoundAssumption DEF Core, TypeOK
  <1>2. faults' = faults \/ faults' = faults + 1
    <2>1. CASE Crash \/ \E c \in Clients : StatementFails(c) \/ MarkSync(c)
      BY <2>1 DEF Crash, StatementFails, MarkSync
    <2>2. CASE \E c \in Clients : Client(c)
      BY <2>2 DEF Client, CreateNote, DeleteNote, AppendRaw, UpdateGet, ReplaceGet,
                  SendWrite, SendsAtOnce, Starts
    <2>3. CASE \E c \in Clients : \/ WriteCreate(c) \/ WriteUpdate(c) \/ WriteDelete(c)
                                  \/ WriteAppend(c) \/ InsertEvent(c)
                                  \/ UpsertContent(c) \/ SetHead(c)
      BY <2>3 DEF WriteCreate, WriteUpdate, WriteDelete, WriteAppend, IsAppend, Takes,
                  InsertEvent, UpsertContent, SetHead
    <2> QED
      BY <2>1, <2>2, <2>3 DEF Next, vars, Writer
  <1> QED
    BY <1>1, <1>2

LEMMA LogIsPrefixNext ==
  ASSUME Core, Core', LogIsPrefix, [Next]_vars
  PROVE  LogIsPrefix'
  <1> SUFFICES ASSUME NEW n \in Notes, NEW s \in Seqs
               PROVE  /\ s <= notes'[n].head => events'[n][s] # NoEvent
                      /\ s = notes'[n].head + 1 /\ events'[n][s] # NoEvent
                           => Appending(n)' \/ faults' > 0
                      /\ s > notes'[n].head + 1 => events'[n][s] = NoEvent
    BY DEF LogIsPrefix
  <1>0. /\ notes[n].head \in Nat /\ s \in Nat /\ faults \in Nat /\ faults' \in Nat
        /\ NoEvent \notin Payloads
    BY BoundAssumption, ContentAssumption DEF Core, TypeOK, Row, Seqs
  <1>1. CASE events' # events
    <2>1. PICK c \in Clients :
            /\ InsertEvent(c) /\ UNCHANGED <<serving, call>>
            /\ step = "insert"
            /\ step' = IF notes[call[c].note].type = "normal" THEN "content" ELSE "head"
            /\ events[call[c].note][call[c].seq] = NoEvent
            /\ events' = [events EXCEPT ![call[c].note][call[c].seq] = call[c].payload]
      BY <1>1, EventsChange
    <2> DEFINE m == call[c].note
    <2>2. serving = c /\ UNCHANGED notes /\ UNCHANGED faults
      BY <2>1 DEF InsertEvent
    <2>3. m \in Notes /\ call[c].seq \in Seqs /\ call[c].payload # NoEvent
          /\ call[c].seq = notes[m].head + 1
      BY <1>0, <2>1, <2>2, ServedCall
    <2>4. n = m => Appending(n)'
      BY <2>1, <2>2 DEF Appending
    <2>5. ~ Appending(n)
      BY <2>1 DEF Appending
    <2>6. events'[n][s] = IF n = m /\ s = call[c].seq THEN call[c].payload ELSE events[n][s]
      BY <2>1, <2>3 DEF Core, TypeOK
    <2>7. CASE n = m /\ s = call[c].seq
      BY <1>0, <2>2, <2>3, <2>4, <2>6, <2>7
    <2>8. CASE ~ (n = m /\ s = call[c].seq)
      <3>1. events'[n][s] = events[n][s] /\ notes'[n].head = notes[n].head /\ faults' = faults
        BY <2>2, <2>6, <2>8
      <3>2. /\ s <= notes[n].head => events[n][s] # NoEvent
            /\ s = notes[n].head + 1 /\ events[n][s] # NoEvent => faults > 0
            /\ s > notes[n].head + 1 => events[n][s] = NoEvent
        BY <2>5 DEF LogIsPrefix
      <3> QED
        BY <3>1, <3>2
    <2> QED
      BY <2>7, <2>8
  <1>2. CASE UNCHANGED events /\ notes'[n].head # notes[n].head
    <2>1. PICK c \in Clients : /\ SetHead(c)
                               /\ call[c].note = n
                               /\ notes'[n].head = notes[n].head + 1
      BY <1>2, HeadChange
    <2>2. serving = c /\ step = "head"
      BY <2>1 DEF SetHead
    <2>3. /\ call[c].seq = notes[n].head + 1 /\ call[c].seq \in Seqs
          /\ events[n][call[c].seq] # NoEvent
      BY <1>0, <2>1, <2>2, ServedCall
    <2> QED
      BY <1>0, <1>2, <2>1, <2>3 DEF LogIsPrefix
  <1>3. CASE UNCHANGED events /\ notes'[n].head = notes[n].head
    <2>1. CASE faults' = 0 /\ Appending(n)
      <3>1. ASSUME NEW c \in Clients, SetHead(c), call[c].note = n
            PROVE  FALSE
        <4>1. serving = c /\ step = "head"
              /\ notes' = [notes EXCEPT ![call[c].note].head = call[c].seq]
          BY <3>1 DEF SetHead
        <4>2. notes'[n].head = call[c].seq
          BY <3>1, <4>1 DEF Core, TypeOK, Row
        <4> QED
          BY <1>0, <1>3, <3>1, <4>1, <4>2, ServedCall
      <3> QED
        BY <1>3, <2>1, <3>1, AppendingEnds DEF LogIsPrefix
    <2>2. CASE faults' # 0 \/ ~ Appending(n)
      BY <1>0, <1>3, <2>2, FaultsGrow DEF LogIsPrefix
    <2> QED
      BY <2>1, <2>2
  <1> QED
    BY <1>1, <1>2, <1>3

(* The event log has no gap and no duplicate, and head_seq is its last     *)
(* sequence but for one append that is under way or was cut short by a     *)
(* failing statement or a crash.                                           *)
THEOREM LogAlwaysMatchesHead == Spec => []LogMatchesHead
  <1>1. Init => LogIsPrefix
    BY BoundAssumption DEF Init, LogIsPrefix, AbsentRow, Seqs
  <1>2. Core /\ Core' /\ LogIsPrefix /\ [Next]_vars => LogIsPrefix'
    BY LogIsPrefixNext
  <1>3. Spec => []LogIsPrefix
    BY <1>1, <1>2, CoreAlways, PTL DEF Spec
  <1> QED
    BY <1>3, CoreAlways, LogIsPrefixSuffices, PTL

-----------------------------------------------------------------------------
(* An acknowledged sequence was acknowledged once, is covered by the head, *)
(* and is not the one whose append is about to be acknowledged.            *)
AcksAreSane ==
  \A n \in Notes : \A s \in Seqs :
    acks[n][s] # 0 =>
      /\ acks[n][s] = 1
      /\ s <= notes[n].head
      /\ ~ (step = "sync" /\ call[serving].note = n /\ call[serving].seq = s)

(* The writer reaches its last statement only from SetHead, and a client   *)
(* being served does not change its request.                               *)
LEMMA SyncBegins ==
  ASSUME Core, [Next]_vars, step' = "sync"
  PROVE  \/ \E c \in Clients : SetHead(c) /\ serving' = c /\ call' = call
         \/ step = "sync" /\ serving' = serving /\ call'[serving] = call[serving]
  <1>1. CASE UNCHANGED vars
    BY <1>1 DEF vars
  <1>2. CASE \E c \in Clients : SetHead(c)
    BY <1>2 DEF SetHead
  <1>3. CASE Crash \/ \E c \in Clients : StatementFails(c) \/ MarkSync(c)
    BY <1>3 DEF Crash, StatementFails, MarkSync, Answers
  <1>4. CASE \E c \in Clients : WriteCreate(c) \/ WriteUpdate(c) \/ WriteDelete(c)
    BY <1>4 DEF WriteCreate, WriteUpdate, WriteDelete, Answers
  <1>5. CASE \E c \in Clients : WriteAppend(c) \/ InsertEvent(c) \/ UpsertContent(c)
    BY <1>5 DEF WriteAppend, IsAppend, Takes, InsertEvent, UpsertContent, Answers
  <1>6. CASE \E c \in Clients : Client(c)
    <2>1. PICK c \in Clients : /\ call[c].at # "waiting"
                               /\ \E k : call' = [call EXCEPT ![c] = k]
                               /\ UNCHANGED <<serving, step>>
      BY <1>6 DEF Client, CreateNote, DeleteNote, AppendRaw, UpdateGet, ReplaceGet,
                  SendsAtOnce, Starts, SendWrite
    <2>2. serving # None /\ serving \in Clients /\ call[serving].at = "waiting"
      BY <2>1 DEF Core, TypeOK, WriterIsSane
    <2> QED
      BY <2>1, <2>2 DEF Core, TypeOK
  <1> QED
    BY <1>1, <1>2, <1>3, <1>4, <1>5, <1>6 DEF Next, Writer

LEMMA AcksChange ==
  ASSUME Core, [Next]_vars, acks' # acks
  PROVE  \E c \in Clients :
           /\ serving = c /\ step = "sync" /\ step' = "idle"
           /\ acks' = [acks EXCEPT ![call[c].note][call[c].seq] = @ + 1]
           /\ UNCHANGED <<notes, events, content>>
  <1>1. PICK c \in Clients : MarkSync(c)
    BY DEF Next, vars, Client, Writer, CreateNote, DeleteNote, AppendRaw, UpdateGet,
           ReplaceGet, SendWrite, SendsAtOnce, Starts, WriteCreate, WriteUpdate,
           WriteDelete, WriteAppend, IsAppend, Takes, InsertEvent, UpsertContent, SetHead,
           StatementFails, Crash
  <1> QED
    BY <1>1 DEF MarkSync, Answers

LEMMA AcksAreSaneNext ==
  ASSUME Core, Core', AcksAreSane, [Next]_vars
  PROVE  AcksAreSane'
  <1> SUFFICES ASSUME NEW n \in Notes, NEW s \in Seqs, acks'[n][s] # 0
               PROVE  /\ acks'[n][s] = 1
                      /\ s <= notes'[n].head
                      /\ ~ (step' = "sync" /\ call'[serving'].note = n
                                           /\ call'[serving'].seq = s)
    BY DEF AcksAreSane
  <1>0. notes[n].head \in Nat /\ notes'[n].head \in Nat /\ s \in Nat
    BY BoundAssumption DEF Core, TypeOK, Row, Seqs
  <1>1. CASE acks' # acks
    <2>1. PICK c \in Clients :
            /\ serving = c /\ step = "sync" /\ step' = "idle"
            /\ acks' = [acks EXCEPT ![call[c].note][call[c].seq] = @ + 1]
            /\ UNCHANGED <<notes, events, content>>
      BY <1>1, AcksChange
    <2>2. CASE n = call[c].note /\ s = call[c].seq
      <3>1. acks[n][s] = 0 /\ s = notes[n].head
        BY <2>1, <2>2, ServedCall DEF AcksAreSane
      <3>2. acks'[n][s] = acks[n][s] + 1
        BY <2>1, <2>2, ServedCall DEF Core, TypeOK
      <3> QED
        BY <1>0, <2>1, <3>1, <3>2
    <2>3. CASE ~ (n = call[c].note /\ s = call[c].seq)
      <3>1. acks'[n][s] = acks[n][s]
        BY <2>1, <2>3, ServedCall DEF Core, TypeOK
      <3> QED
        BY <2>1, <3>1 DEF AcksAreSane
    <2> QED
      BY <2>2, <2>3
  <1>2. CASE acks' = acks
    <2>1. acks[n][s] = 1 /\ s <= notes[n].head
      BY <1>2 DEF AcksAreSane
    <2>2. s <= notes'[n].head
      <3>1. CASE notes'[n].head = notes[n].head
        BY <2>1, <3>1
      <3>2. CASE notes'[n].head # notes[n].head
        BY <1>0, <2>1, <3>2, HeadChange
      <3> QED
        BY <3>1, <3>2
    <2>3. ASSUME step' = "sync", call'[serving'].note = n, call'[serving'].seq = s
          PROVE  FALSE
      <3>1. CASE step = "sync" /\ serving' = serving /\ call'[serving] = call[serving]
        BY <1>2, <2>1, <2>3, <3>1 DEF AcksAreSane
      <3>2. CASE \E c \in Clients : SetHead(c) /\ serving' = c /\ call' = call
        <4>1. PICK c \in Clients : SetHead(c) /\ serving' = c /\ call' = call
          BY <3>2
        <4>2. call[c].note = n /\ call[c].seq = s /\ serving = c /\ step = "head"
          BY <2>3, <4>1 DEF SetHead
        <4>3. s = notes[n].head + 1
          BY <4>2, ServedCall
        <4> QED
          BY <1>0, <2>1, <4>3
      <3> QED
        BY <2>3, <3>1, <3>2, SyncBegins
    <2> QED
      BY <1>2, <2>1, <2>2, <2>3
  <1> QED
    BY <1>1, <1>2

(* Of the callers that race for one sequence at most one is told it        *)
(* succeeded, and the event it was told about stays in the log below the   *)
(* head whatever fails later.                                              *)
THEOREM AcknowledgementsHold == Spec => []AcknowledgedOnceAndKept
  <1>1. Init => AcksAreSane
    BY DEF Init, AcksAreSane
  <1>2. Core /\ Core' /\ AcksAreSane /\ [Next]_vars => AcksAreSane'
    BY AcksAreSaneNext
  <1>3. Init => LogIsPrefix
    BY BoundAssumption DEF Init, LogIsPrefix, AbsentRow, Seqs
  <1>4. Core /\ Core' /\ LogIsPrefix /\ [Next]_vars => LogIsPrefix'
    BY LogIsPrefixNext
  <1>5. Core /\ AcksAreSane /\ LogIsPrefix => AcknowledgedOnceAndKept
    <2> SUFFICES ASSUME Core, AcksAreSane, LogIsPrefix, NEW n \in Notes, NEW s \in Seqs
                 PROVE  /\ acks[n][s] <= 1
                        /\ acks[n][s] = 1 => s \in Stored(n) /\ s <= notes[n].head
      BY DEF AcknowledgedOnceAndKept
    <2>1. acks[n][s] \in Nat
      BY DEF Core, TypeOK
    <2> QED
      BY <2>1 DEF AcksAreSane, LogIsPrefix, Stored
  <1> QED
    BY <1>1, <1>2, <1>3, <1>4, <1>5, CoreAlways, PTL DEF Spec

-----------------------------------------------------------------------------
(* A note that never had an event has no content.                          *)
FreshIsEmpty ==
  \A n \in Notes :
    notes[n].head = 0 /\ events[n][1] = NoEvent => content[n] = EmptyContent

(* What ReplaceContent computed from its read is still right when it is    *)
(* used: as long as its sequence is free and next, the content is the one  *)
(* it read; from then on the writer is busy with it alone.                 *)
ReplaceFollowsRead ==
  \A c \in Clients :
    call[c].op = "replace" =>
      LET r == call[c]
          n == r.note
      IN  /\ r.seq <= notes[n].head + 1
          /\ ((serving # c \/ step = "insert")
               /\ r.seq = notes[n].head + 1 /\ events[n][r.seq] = NoEvent)
               => Apply(content[n], r.payload) = r.want
          /\ serving = c /\ step = "content" => Apply(content[n], r.payload) = r.want
          /\ serving = c /\ step \in {"head", "sync"} => content[n] = r.want

LEMMA ContentChange ==
  ASSUME Core, [Next]_vars, content' # content
  PROVE  \E c \in Clients :
           /\ UpsertContent(c) /\ serving = c /\ step = "content" /\ step' = "head"
           /\ content' = [content EXCEPT ![call[c].note] = Apply(@, call[c].payload)]
           /\ UNCHANGED <<notes, events, serving, call>>
  <1>1. PICK c \in Clients : UpsertContent(c)
    BY DEF Next, vars, Client, Writer, CreateNote, DeleteNote, AppendRaw, UpdateGet,
           ReplaceGet, SendWrite, SendsAtOnce, Starts, WriteCreate, WriteUpdate,
           WriteDelete, WriteAppend, InsertEvent, SetHead, MarkSync, StatementFails,
           Crash, disk
  <1> QED
    BY <1>1 DEF UpsertContent

LEMMA FreshIsEmptyNext ==
  ASSUME Core, Core', FreshIsEmpty, [Next]_vars
  PROVE  FreshIsEmpty'
  <1> SUFFICES ASSUME NEW n \in Notes, notes'[n].head = 0, events'[n][1] = NoEvent
               PROVE  content'[n] = EmptyContent
    BY DEF FreshIsEmpty
  <1>0. notes[n].head \in Nat /\ 1 \in Seqs /\ NoEvent \notin Payloads
    BY BoundAssumption, ContentAssumption DEF Core, TypeOK, Row, Seqs
  <1>1. notes[n].head = 0
    <2>1. CASE notes'[n].head # notes[n].head
      BY <1>0, <2>1, HeadChange
    <2> QED
      BY <2>1
  <1>2. events[n][1] = NoEvent
    <2>1. CASE events' # events
      <3>1. PICK c \in Clients :
              /\ InsertEvent(c)
              /\ events[call[c].note][call[c].seq] = NoEvent
              /\ events' = [events EXCEPT ![call[c].note][call[c].seq] = call[c].payload]
        BY <2>1, EventsChange
      <3>2. call[c].payload # NoEvent
        BY <1>0, <3>1, ServedCall DEF InsertEvent
      <3> QED
        BY <1>0, <3>1, <3>2 DEF Core, TypeOK
    <2> QED
      BY <2>1
  <1>3. CASE content' # content
    <2>1. PICK c \in Clients :
            /\ serving = c /\ step = "content"
            /\ content' = [content EXCEPT ![call[c].note] = Apply(@, call[c].payload)]
      BY <1>3, ContentChange
    <2>2. call[c].note # n
      BY <1>0, <1>1, <1>2, <2>1, ServedCall
    <2> QED
      BY <1>1, <1>2, <2>1, <2>2 DEF FreshIsEmpty, Core, TypeOK
  <1> QED
    BY <1>1, <1>2, <1>3 DEF FreshIsEmpty

(* A client that holds a replace request after a step either made it in    *)
(* that step or had it before.                                             *)
LEMMA ReplaceCalls ==
  ASSUME Core, [Next]_vars, NEW c \in Clients, call'[c].op = "replace"
  PROVE  \/ ReplaceGet(c)
         \/ /\ call[c].op = "replace"
            /\ call'[c].note = call[c].note /\ call'[c].seq = call[c].seq
            /\ call'[c].payload = call[c].payload /\ call'[c].want = call[c].want
  <1> USE DEF Core, TypeOK
  <1>1. ASSUME NEW d \in Clients, Answers(d)
        PROVE  d # c /\ call'[c] = call[c]
    BY <1>1 DEF Answers, IdleCall
  <1>2. ASSUME NEW d \in Clients, NEW k, call' = [call EXCEPT ![d] = k], k.op # "replace"
        PROVE  call'[c] = call[c]
    BY <1>2
  <1>3. CASE UNCHANGED call
    BY <1>3
  <1>4. CASE Crash
    BY <1>4 DEF Crash, IdleCall
  <1>5. ASSUME NEW d \in Clients, Writer(d) \/ StatementFails(d)
        PROVE  Answers(d) \/ UNCHANGED call
    BY <1>5 DEF Writer, WriteCreate, WriteUpdate, WriteDelete, WriteAppend, InsertEvent,
                UpsertContent, SetHead, MarkSync, StatementFails
  <1>6. ASSUME NEW d \in Clients, CreateNote(d) \/ DeleteNote(d) \/ AppendRaw(d) \/ UpdateGet(d)
        PROVE  call'[c] = call[c]
    <2> USE DEF SendsAtOnce, Starts, IdleCall
    <2>1. CASE CreateNote(d)
      BY <1>2, <2>1 DEF CreateNote
    <2>2. CASE DeleteNote(d)
      BY <1>2, <2>2 DEF DeleteNote
    <2>3. CASE AppendRaw(d)
      BY <1>2, <2>3 DEF AppendRaw
    <2>4. CASE UpdateGet(d)
      BY <1>2, <2>4 DEF UpdateGet
    <2> QED
      BY <1>6, <2>1, <2>2, <2>3, <2>4
  <1>7. ASSUME NEW d \in Clients, ReplaceGet(d)
        PROVE  d = c \/ call'[c] = call[c]
    BY <1>7 DEF ReplaceGet, Starts
  <1>8. ASSUME NEW d \in Clients, SendWrite(d)
        PROVE  /\ call[c].op = "replace"
               /\ call'[c].note = call[c].note /\ call'[c].seq = call[c].seq
               /\ call'[c].payload = call[c].payload /\ call'[c].want = call[c].want
    <2>1. call' = [call EXCEPT ![d] = [@ EXCEPT !.at = "waiting"]] /\ call[c] \in Call
      BY <1>8 DEF SendWrite
    <2> QED
      BY <2>1 DEF Call
  <1> QED
    BY <1>1, <1>3, <1>4, <1>5, <1>6, <1>7, <1>8 DEF Next, vars, Client

(* How the writer comes to be beyond the first statement for client c.     *)
LEMMA StatementBegins ==
  ASSUME Core, [Next]_vars, NEW c \in Clients, serving' = c, step' \in {"content", "head", "sync"}
  PROVE  \/ InsertEvent(c) /\ step = "insert" /\ UNCHANGED content
            /\ events[call[c].note][call[c].seq] = NoEvent
            /\ step' = IF notes[call[c].note].type = "normal" THEN "content" ELSE "head"
         \/ UpsertContent(c) /\ step' = "head"
         \/ SetHead(c) /\ step = "head" /\ step' = "sync" /\ UNCHANGED content
         \/ serving = c /\ step' = step /\ UNCHANGED content
  <1> USE NameAssumption
  <1>1. CASE UNCHANGED vars
    BY <1>1 DEF vars
  <1>2. CASE Crash
    BY <1>2 DEF Crash
  <1>3. ASSUME NEW d \in Clients, Client(d)
        PROVE  UNCHANGED <<serving, step, content>>
    BY <1>3 DEF Client, CreateNote, DeleteNote, AppendRaw, UpdateGet, ReplaceGet,
                SendsAtOnce, Starts, SendWrite, disk
  <1>4. ASSUME NEW d \in Clients,
               \/ WriteCreate(d) \/ WriteUpdate(d) \/ WriteDelete(d) \/ WriteAppend(d)
               \/ MarkSync(d) \/ StatementFails(d)
        PROVE  FALSE
    BY <1>4 DEF WriteCreate, WriteUpdate, WriteDelete, WriteAppend, MarkSync,
                StatementFails, Answers
  <1>5. ASSUME NEW d \in Clients, InsertEvent(d)
        PROVE  InsertEvent(c) /\ step = "insert" /\ UNCHANGED content
            /\ events[call[c].note][call[c].seq] = NoEvent
            /\ step' = IF notes[call[c].note].type = "normal" THEN "content" ELSE "head"
    BY <1>5 DEF InsertEvent, Answers
  <1>6. ASSUME NEW d \in Clients, UpsertContent(d)
        PROVE  UpsertContent(c) /\ step' = "head"
    BY <1>6 DEF UpsertContent
  <1>7. ASSUME NEW d \in Clients, SetHead(d)
        PROVE  SetHead(c) /\ step = "head" /\ step' = "sync" /\ UNCHANGED content
    BY <1>7 DEF SetHead
  <1> QED
    BY <1>1, <1>2, <1>3, <1>4, <1>5, <1>6, <1>7 DEF Next, Writer

LEMMA ReplaceFollowsReadNext ==
  ASSUME Core, Core', LogIsPrefix, FreshIsEmpty, ReplaceFollowsRead, [Next]_vars
  PROVE  ReplaceFollowsRead'
  <1> SUFFICES ASSUME NEW c \in Clients, call'[c].op = "replace",
                      NEW n, n = call'[c].note, NEW s, s = call'[c].seq,
                      NEW p, p = call'[c].payload, NEW w, w = call'[c].want
               PROVE  /\ s <= notes'[n].head + 1
                      /\ ((serving' # c \/ step' = "insert")
                           /\ s = notes'[n].head + 1 /\ events'[n][s] = NoEvent)
                           => Apply(content'[n], p) = w
                      /\ serving' = c /\ step' = "content" => Apply(content'[n], p) = w
                      /\ serving' = c /\ step' \in {"head", "sync"} => content'[n] = w
    BY DEF ReplaceFollowsRead
  <1>0. /\ n \in Notes /\ s \in Seqs /\ s \in Nat /\ p \in Payloads
        /\ notes[n].head \in Nat /\ notes'[n].head \in Nat /\ NoEvent \notin Payloads
    BY BoundAssumption, ContentAssumption
    DEF Core, TypeOK, CallsAreSane, CallIsSane, AppendOps, Row, Seqs
  <1>1. CASE ReplaceGet(c)
    <2>1. PICK m \in Notes, d \in Drafts :
            /\ notes[m].type = "normal"
            /\ Diff(GetContent(m), d) # NoEntries
            /\ call[c].at = "idle"
            /\ call' = [call EXCEPT ![c] =
                 [IdleCall EXCEPT !.op = "replace", !.at = "holding", !.note = m,
                    !.seq = GetHead(m) + 1, !.payload = Diff(GetContent(m), d),
                    !.want = d]]
            /\ UNCHANGED <<notes, events, content, serving, step>>
      BY <1>1 DEF ReplaceGet, Starts, disk
    <2>2. n = m /\ s = GetHead(m) + 1 /\ p = Diff(GetContent(m), d) /\ w = d
      BY <2>1 DEF IdleCall, Core, TypeOK
    <2>3. serving # c
      BY <2>1, NameAssumption DEF Core, WriterIsSane
    <2>4. Apply(GetContent(n), p) = w
      BY <2>1, <2>2, RequestsAreSane, ContentAssumption
    <2>5. s <= notes[n].head + 1
      BY <1>0, <2>2 DEF GetHead
    <2>6. s = notes[n].head + 1 /\ events[n][s] = NoEvent => content[n] = GetContent(n)
      BY <1>0, <2>1, <2>2 DEF GetHead, GetContent, FreshIsEmpty
    <2> QED
      BY <2>1, <2>3, <2>4, <2>5, <2>6
  <1>2. CASE /\ call[c].op = "replace"
             /\ n = call[c].note /\ s = call[c].seq /\ p = call[c].payload /\ w = call[c].want
    <2>1. /\ s <= notes[n].head + 1
          /\ ((serving # c \/ step = "insert") /\ s = notes[n].head + 1 /\ events[n][s] = NoEvent)
               => Apply(content[n], p) = w
          /\ serving = c /\ step = "content" => Apply(content[n], p) = w
          /\ serving = c /\ step \in {"head", "sync"} => content[n] = w
      BY <1>2 DEF ReplaceFollowsRead
    <2>2. notes'[n].head = notes[n].head \/ notes'[n].head = notes[n].head + 1
      BY <1>0, HeadChange
    <2>3. ASSUME s = notes'[n].head + 1, events'[n][s] = NoEvent
          PROVE  Apply(content'[n], p) = w
      <3>1. s = notes[n].head + 1
        BY <1>0, <2>1, <2>2, <2>3
      <3>2. events[n][s] = NoEvent
        <4>1. CASE events' # events
          <5>1. PICK d \in Clients :
                  /\ InsertEvent(d)
                  /\ events' = [events EXCEPT ![call[d].note][call[d].seq] = call[d].payload]
            BY <4>1, EventsChange
          <5>2. call[d].payload # NoEvent
            BY <1>0, <5>1, ServedCall DEF InsertEvent
          <5> QED
            BY <1>0, <2>3, <5>1, <5>2 DEF Core, TypeOK
        <4> QED
          BY <2>3, <4>1
      <3>3. serving # c \/ step = "insert"
        BY <1>0, <1>2, <3>1, <3>2, ServedCall
      <3>4. content'[n] = content[n]
        <4>1. CASE content' # content
          <5>1. PICK d \in Clients :
                  /\ serving = d /\ step = "content"
                  /\ content' = [content EXCEPT ![call[d].note] = Apply(@, call[d].payload)]
            BY <4>1, ContentChange
          <5>2. call[d].note # n
            BY <1>0, <3>1, <3>2, <5>1, ServedCall
          <5> QED
            BY <1>0, <5>1, <5>2 DEF Core, TypeOK
        <4> QED
          BY <4>1
      <3> QED
        BY <2>1, <3>1, <3>2, <3>3, <3>4
    <2>4. ASSUME serving' = c, step' \in {"content", "head", "sync"}
          PROVE  /\ step' = "content" => Apply(content'[n], p) = w
                 /\ step' \in {"head", "sync"} => content'[n] = w
      <3>1. CASE /\ InsertEvent(c) /\ step = "insert" /\ UNCHANGED content
                 /\ events[call[c].note][call[c].seq] = NoEvent
                 /\ step' = IF notes[call[c].note].type = "normal" THEN "content" ELSE "head"
        <4>1. serving = c /\ notes[n].type = "normal"
          BY <1>2, <3>1 DEF InsertEvent, Core, CallsAreSane, CallIsSane
        <4>2. s = notes[n].head + 1
          BY <1>2, <3>1, <4>1, ServedCall
        <4> QED
          BY <1>2, <2>1, <3>1, <4>1, <4>2
      <3>2. CASE UpsertContent(c) /\ step' = "head"
        <4>1. serving = c /\ step = "content"
              /\ content' = [content EXCEPT ![n] = Apply(@, p)]
          BY <1>2, <3>2 DEF UpsertContent
        <4> QED
          BY <1>0, <2>1, <3>2, <4>1 DEF Core, TypeOK
      <3>3. CASE SetHead(c) /\ step = "head" /\ step' = "sync" /\ UNCHANGED content
        BY <2>1, <3>3 DEF SetHead
      <3>4. CASE serving = c /\ step' = step /\ UNCHANGED content
        BY <2>1, <3>4
      <3> QED
        BY <2>4, <3>1, <3>2, <3>3, <3>4, StatementBegins
    <2> QED
      BY <1>0, <2>1, <2>2, <2>3, <2>4
  <1> QED
    BY <1>1, <1>2, ReplaceCalls

(* Optimistic concurrency is enough: although ReplaceContent reads outside *)
(* the writer, a replacement that reports success has made the content     *)
(* exactly the wanted one, whoever else wrote, failed or crashed meanwhile. *)
THEOREM ReplacementIsExact == Spec => ReplaceIsExact
  <1> DEFINE RInv == LogIsPrefix /\ FreshIsEmpty /\ ReplaceFollowsRead
  <1>1. Init => RInv
    BY BoundAssumption
    DEF Init, LogIsPrefix, FreshIsEmpty, ReplaceFollowsRead, AbsentRow, IdleCall, Seqs
  <1>2. Core /\ Core' /\ RInv /\ [Next]_vars => RInv'
    BY LogIsPrefixNext, FreshIsEmptyNext, ReplaceFollowsReadNext
  <1>3. Core /\ RInv /\ [Next]_vars =>
          \A c \in Clients :
            (call[c].op = "replace" /\ acks' # acks /\ serving = c)
              => content'[call[c].note] = call[c].want
    BY AcksChange DEF ReplaceFollowsRead
  <1> HIDE DEF RInv
  <1> QED
    BY <1>1, <1>2, <1>3, CoreAlways, PTL DEF Spec, ReplaceIsExact
-----------------------------------------------------------------------------
(* The content as a replay.  A replay is a recursive function; Folding     *)
(* shows that there is one and that it depends on the events before it.    *)

Replaying == INSTANCE Folding WITH op <- Apply

ReplayOf(row) ==
  LET upTo[k \in 0..MaxSeq] == IF k = 0 THEN EmptyContent ELSE Apply(upTo[k - 1], row[k])
  IN  upTo

RowOfEvents == [Seqs -> Payloads \cup {NoEvent}]

LEMMA ReplaySteps ==
  ASSUME NEW row \in RowOfEvents
  PROVE  Replaying!IsRun(EmptyContent, row, ReplayOf(row))
  <1> DEFINE up == ReplayOf(row)
  <1>1. row \in Seq(Payloads \cup {NoEvent}) /\ Len(row) = MaxSeq /\ MaxSeq \in Nat
    BY BoundAssumption DEF RowOfEvents, Seqs
  <1>2. PICK v : Replaying!IsRun(EmptyContent, row, v)
    BY <1>1, Replaying!FoldedIsARun
  <1>3. v[0] = EmptyContent /\ \A k \in 1..MaxSeq : v[k] = Apply(v[k - 1], row[k])
    BY <1>1, <1>2 DEF Replaying!IsRun
  <1> DEFINE w == [k \in 0..MaxSeq |-> v[k]]
  <1>4. w = [k \in 0..MaxSeq |-> IF k = 0 THEN EmptyContent ELSE Apply(w[k - 1], row[k])]
    <2> SUFFICES ASSUME NEW k \in 0..MaxSeq
                 PROVE  w[k] = IF k = 0 THEN EmptyContent ELSE Apply(w[k - 1], row[k])
      OBVIOUS
    <2>1. CASE k = 0
      BY <2>1, <1>3
    <2>2. CASE k # 0
      <3>1. k \in 1..MaxSeq /\ k - 1 \in 0..MaxSeq
        BY <2>2, <1>1
      <3> QED
        BY <2>2, <3>1, <1>3
    <2> QED
      BY <2>1, <2>2
  <1> HIDE DEF w
  <1>5. up = [k \in 0..MaxSeq |-> IF k = 0 THEN EmptyContent ELSE Apply(up[k - 1], row[k])]
    BY <1>4 DEF ReplayOf
  <1> HIDE DEF up
  <1>6. up[0] = EmptyContent /\ \A k \in 1..MaxSeq : up[k] = Apply(up[k - 1], row[k])
    BY <1>1, <1>5
  <1> QED
    BY <1>1, <1>6 DEF Replaying!IsRun, up

(* A replay up to k does not depend on what follows.                       *)
LEMMA ReplaysAgree ==
  ASSUME NEW row \in RowOfEvents, NEW other \in RowOfEvents, NEW k \in 0..MaxSeq,
         \A s \in 1..k : row[s] = other[s]
  PROVE  ReplayOf(row)[k] = ReplayOf(other)[k]
  <1>1. Len(row) = MaxSeq /\ Len(other) = MaxSeq /\ MaxSeq \in Nat /\ k \in Nat /\ k <= MaxSeq
    BY BoundAssumption DEF RowOfEvents, Seqs
  <1>2. /\ Replaying!IsRun(EmptyContent, row, ReplayOf(row))
        /\ Replaying!IsRun(EmptyContent, other, ReplayOf(other))
    BY ReplaySteps
  <1> QED
    BY <1>1, <1>2, Replaying!RunsAgree

(* One event more is applied to the replay before it.                      *)
LEMMA ReplayGrows ==
  ASSUME NEW row \in RowOfEvents, NEW k \in Seqs
  PROVE  ReplayOf(row)[k] = Apply(ReplayOf(row)[k - 1], row[k])
  <1>1. Len(row) = MaxSeq
    BY BoundAssumption DEF RowOfEvents, Seqs
  <1> QED
    BY <1>1, ReplaySteps DEF Replaying!IsRun, Seqs

LEMMA ReplayOfNothing ==
  ASSUME NEW row \in RowOfEvents
  PROVE  ReplayOf(row)[0] = EmptyContent
  BY ReplaySteps DEF Replaying!IsRun

(* What the content of a note is between two steps, and between two        *)
(* statements of the append that is being served.                          *)

InsertedBeyond(n) ==
  notes[n].head + 1 \in Seqs /\ events[n][notes[n].head + 1] # NoEvent

ContentIsReplay(n) ==
  \/ content[n] = ReplayOf(events[n])[notes[n].head]
  \/ InsertedBeyond(n) /\ content[n] = ReplayOf(events[n])[notes[n].head + 1]

ServedContent(n) ==
  serving # None /\ call[serving].note = n =>
    /\ step = "content" => content[n] = ReplayOf(events[n])[notes[n].head]
    /\ step = "head" => content[n] = ReplayOf(events[n])[notes[n].head + 1]

ContentInv ==
  \A n \in Notes :
    /\ ~ notes[n].exists => content[n] = EmptyContent /\ events[n][1] = NoEvent
    /\ notes[n].type = "secure" => content[n] = EmptyContent
    /\ notes[n].type = "normal" => ContentIsReplay(n) /\ ServedContent(n)

(* Every step other than the statements of an append leaves events,        *)
(* content and heads, and takes no closure to its second statement.        *)
LEMMA OtherSteps ==
  ASSUME Core, [Next]_vars,
         \A c \in Clients : ~ InsertEvent(c) /\ ~ UpsertContent(c) /\ ~ SetHead(c)
  PROVE  /\ UNCHANGED <<events, content>>
         /\ \A n \in Notes :
              /\ notes'[n].head = notes[n].head
              /\ notes[n].exists => notes'[n].exists /\ notes'[n].type = notes[n].type
         /\ step' \in {"content", "head"} => UNCHANGED <<step, serving>> /\ call'[serving] = call[serving]
  <1>1. events' = events
    BY EventsChange
  <1>2. content' = content
    BY ContentChange
  <1>3. \A n \in Notes : notes'[n].head = notes[n].head
    BY HeadChange
  <1>4. ASSUME NEW n \in Notes, notes[n].exists
        PROVE  notes'[n].exists /\ notes'[n].type = notes[n].type
    <2>1. CASE UNCHANGED notes
      BY <2>1, <1>4
    <2>2. ASSUME NEW c \in Clients, WriteCreate(c) \/ WriteUpdate(c) \/ WriteDelete(c)
          PROVE  notes'[n].exists /\ notes'[n].type = notes[n].type
      <3>1. notes \in [Notes -> Row]
        BY DEF Core, TypeOK
      <3>2. CASE WriteCreate(c)
        <4>1. notes'[n] = notes[n]
          BY <1>4, <3>1, <3>2 DEF WriteCreate
        <4> QED
          BY <1>4, <4>1
      <3>3. CASE WriteUpdate(c)
        <4>1. notes' = [notes EXCEPT ![call[c].note] =
                          [@ EXCEPT !.title = call[c].title, !.deleted = call[c].deleted]]
          BY <3>3 DEF WriteUpdate
        <4> QED
          BY <1>4, <3>1, <4>1 DEF Row
      <3>4. CASE WriteDelete(c)
        BY <1>4, <3>1, <3>4 DEF WriteDelete, Row
      <3> QED
        BY <2>2, <3>2, <3>3, <3>4
    <2>3. CASE \E c \in Clients : \/ Client(c) \/ WriteAppend(c) \/ MarkSync(c) \/ StatementFails(c)
      BY <2>3, <2>1 DEF Client, CreateNote, DeleteNote, AppendRaw, UpdateGet, ReplaceGet,
             SendsAtOnce, Starts, SendWrite, WriteAppend, MarkSync, StatementFails, disk
    <2>4. CASE Crash
      BY <2>1, <2>4 DEF Crash, disk
    <2>5. CASE UNCHANGED vars
      BY <2>1, <2>5 DEF vars
    <2> QED
      BY <2>2, <2>3, <2>4, <2>5 DEF Next, Writer
  <1>5. ASSUME step' \in {"content", "head"}
        PROVE  UNCHANGED <<step, serving>> /\ call'[serving] = call[serving]
    <2>1. ASSUME NEW c \in Clients, Client(c)
          PROVE  UNCHANGED <<step, serving>> /\ call'[serving] = call[serving]
      <3>1. UNCHANGED <<step, serving>>
        BY <2>1 DEF Client, CreateNote, DeleteNote, AppendRaw, UpdateGet, ReplaceGet,
               SendsAtOnce, Starts, SendWrite
      <3>2. call[c].at # "waiting" /\ \E k : call' = [call EXCEPT ![c] = k]
        BY <2>1 DEF Client, CreateNote, DeleteNote, AppendRaw, UpdateGet, ReplaceGet,
               SendsAtOnce, Starts, SendWrite
      <3>3. serving # None /\ serving \in Clients /\ call[serving].at = "waiting"
        BY <1>5, <3>1 DEF Core, WriterIsSane, TypeOK
      <3> QED
        BY <3>1, <3>2, <3>3
    <2>2. ASSUME NEW c \in Clients,
                 \/ WriteCreate(c) \/ WriteUpdate(c) \/ WriteDelete(c) \/ WriteAppend(c)
                 \/ MarkSync(c) \/ StatementFails(c)
          PROVE  FALSE
      BY <1>5, <2>2 DEF WriteCreate, WriteUpdate, WriteDelete, WriteAppend, IsAppend, Takes,
             MarkSync, StatementFails, Answers
    <2>3. CASE Crash
      BY <1>5, <2>3 DEF Crash
    <2>4. CASE UNCHANGED vars
      BY <2>4 DEF vars
    <2> QED
      BY <2>1, <2>2, <2>3, <2>4 DEF Next, Writer
  <1> QED
    BY <1>1, <1>2, <1>3, <1>4, <1>5

LEMMA RowsOfEvents ==
  ASSUME Core, NEW n \in Notes
  PROVE  /\ events[n] \in RowOfEvents
         /\ notes[n].head \in 0..MaxSeq /\ notes[n].head \in Nat
         /\ notes[n].type \in NoteTypes
         /\ 1 \in Seqs /\ MaxSeq \in Nat
         /\ NoEvent \notin Payloads
  BY BoundAssumption, ContentAssumption DEF Core, TypeOK, Row, RowOfEvents, Seqs

LEMMA ContentInvInsert ==
  ASSUME Core, ContentInv, NEW c \in Clients, InsertEvent(c), events' # events, Core'
  PROVE  ContentInv'
  <1> DEFINE m == call[c].note
             s == call[c].seq
  <1>1. /\ serving = c /\ step = "insert" /\ events[m][s] = NoEvent
        /\ events' = [events EXCEPT ![m][s] = call[c].payload]
        /\ step' = IF notes[m].type = "normal" THEN "content" ELSE "head"
        /\ UNCHANGED <<serving, call, notes, content>>
    BY DEF InsertEvent
  <1>2. m \in Notes /\ s \in Seqs /\ s = notes[m].head + 1 /\ notes[m].exists
        /\ call[c].payload # NoEvent
    BY <1>1, ServedCall, RowsOfEvents
  <1> HIDE DEF m, s
  <1>3. ASSUME NEW n \in Notes, n # m
        PROVE  events'[n] = events[n]
    BY <1>1, <1>3 DEF Core, TypeOK
  <1>4. events'[m][s] # NoEvent /\ \A k \in 1..notes[m].head : events'[m][k] = events[m][k]
    BY <1>1, <1>2, RowsOfEvents DEF Core, TypeOK
  <1>5. ReplayOf(events'[m])[notes[m].head] = ReplayOf(events[m])[notes[m].head]
    <2>1. events'[m] \in RowOfEvents /\ events[m] \in RowOfEvents /\ notes[m].head \in 0..MaxSeq
      BY <1>2, RowsOfEvents DEF Core, TypeOK, RowOfEvents
    <2> QED
      BY <2>1, <1>4, ReplaysAgree
  <1>6. ~ InsertedBeyond(m)
    BY <1>1, <1>2 DEF InsertedBeyond
  <1>7. notes[m].type = "normal" => content[m] = ReplayOf(events[m])[notes[m].head]
    BY <1>2, <1>6 DEF ContentInv, ContentIsReplay
  <1> SUFFICES ASSUME NEW n \in Notes
               PROVE  /\ ~ notes'[n].exists => content'[n] = EmptyContent /\ events'[n][1] = NoEvent
                      /\ notes'[n].type = "secure" => content'[n] = EmptyContent
                      /\ notes'[n].type = "normal" => ContentIsReplay(n)' /\ ServedContent(n)'
    BY DEF ContentInv
  <1>8. CASE n # m
    <2>1. ContentIsReplay(n)' <=> ContentIsReplay(n)
      BY <1>1, <1>3, <1>8 DEF ContentIsReplay, InsertedBeyond
    <2>2. ServedContent(n)'
      BY <1>1, <1>8 DEF ServedContent, m
    <2> QED
      BY <1>1, <1>3, <1>8, <2>1, <2>2 DEF ContentInv
  <1>9. CASE n = m
    <2>1. notes[m].type = "normal" => ContentIsReplay(n)'
      BY <1>1, <1>5, <1>7, <1>9 DEF ContentIsReplay
    <2>2. notes[m].type = "normal" => ServedContent(n)'
      BY <1>1, <1>5, <1>7, <1>9 DEF ServedContent
    <2> QED
      BY <1>1, <1>2, <1>9, <2>1, <2>2 DEF ContentInv
  <1> QED
    BY <1>8, <1>9

LEMMA ContentInvUpsert ==
  ASSUME Core, ContentInv, NEW c \in Clients, UpsertContent(c)
  PROVE  ContentInv'
  <1> DEFINE m == call[c].note
             s == call[c].seq
  <1>1. /\ serving = c /\ step = "content" /\ step' = "head"
        /\ content' = [content EXCEPT ![m] = Apply(@, call[c].payload)]
        /\ UNCHANGED <<serving, call, notes, events>>
    BY DEF UpsertContent
  <1>2. /\ m \in Notes /\ s \in Seqs /\ s = notes[m].head + 1 /\ notes[m].exists
        /\ events[m][s] = call[c].payload /\ call[c].payload # NoEvent
        /\ notes[m].type = "normal" /\ serving # None
    BY <1>1, ServedCall, RowsOfEvents, NameAssumption
  <1>3. content[m] = ReplayOf(events[m])[notes[m].head]
    BY <1>1, <1>2 DEF ContentInv, ServedContent, m
  <1> HIDE DEF m, s
  <1>4. s - 1 = notes[m].head
    BY <1>2, RowsOfEvents
  <1>5. content'[m] = Apply(content[m], call[c].payload)
    BY <1>1, <1>2 DEF Core, TypeOK
  <1>6. content'[m] = ReplayOf(events[m])[s]
    <2>1. ReplayOf(events[m])[s] = Apply(ReplayOf(events[m])[s - 1], events[m][s])
      BY <1>2, RowsOfEvents, ReplayGrows
    <2> QED
      BY <1>2, <1>3, <1>4, <1>5, <2>1
  <1> SUFFICES ASSUME NEW n \in Notes
               PROVE  /\ ~ notes'[n].exists => content'[n] = EmptyContent /\ events'[n][1] = NoEvent
                      /\ notes'[n].type = "secure" => content'[n] = EmptyContent
                      /\ notes'[n].type = "normal" => ContentIsReplay(n)' /\ ServedContent(n)'
    BY DEF ContentInv
  <1>7. CASE n # m
    <2>1. content'[n] = content[n]
      BY <1>1, <1>7 DEF Core, TypeOK
    <2>2. ContentIsReplay(n)' <=> ContentIsReplay(n)
      BY <1>1, <2>1 DEF ContentIsReplay, InsertedBeyond
    <2>3. ServedContent(n)'
      BY <1>1, <1>7 DEF ServedContent, m
    <2> QED
      BY <1>1, <2>1, <2>2, <2>3 DEF ContentInv
  <1>8. CASE n = m
    <2>1. InsertedBeyond(n)'
      BY <1>1, <1>2, <1>8 DEF InsertedBeyond
    <2>2. ContentIsReplay(n)' /\ ServedContent(n)'
      BY <1>1, <1>2, <1>6, <1>8, <2>1 DEF ContentIsReplay, ServedContent
    <2> QED
      BY <1>1, <1>2, <1>8, <2>2
  <1> QED
    BY <1>7, <1>8

LEMMA ContentInvHead ==
  ASSUME Core, ContentInv, NEW c \in Clients, SetHead(c)
  PROVE  ContentInv'
  <1> DEFINE m == call[c].note
             s == call[c].seq
  <1>1. /\ serving = c /\ step = "head" /\ step' = "sync"
        /\ notes' = [notes EXCEPT ![m].head = s]
        /\ UNCHANGED <<serving, call, content, events>>
    BY DEF SetHead
  <1>2. m \in Notes /\ s \in Seqs /\ s = notes[m].head + 1 /\ notes[m].exists /\ serving # None
    BY <1>1, ServedCall, NameAssumption
  <1>3. notes[m].type = "normal" => content[m] = ReplayOf(events[m])[notes[m].head + 1]
    BY <1>1, <1>2 DEF ContentInv, ServedContent
  <1> HIDE DEF m, s
  <1>4. notes'[m].head = s /\ notes'[m].exists = notes[m].exists /\ notes'[m].type = notes[m].type
    BY <1>1, <1>2 DEF Core, TypeOK, Row
  <1> SUFFICES ASSUME NEW n \in Notes
               PROVE  /\ ~ notes'[n].exists => content'[n] = EmptyContent /\ events'[n][1] = NoEvent
                      /\ notes'[n].type = "secure" => content'[n] = EmptyContent
                      /\ notes'[n].type = "normal" => ContentIsReplay(n)' /\ ServedContent(n)'
    BY DEF ContentInv
  <1>5. ServedContent(n)'
    BY <1>1 DEF ServedContent
  <1>6. CASE n # m
    <2>1. notes'[n] = notes[n]
      BY <1>1, <1>6 DEF Core, TypeOK
    <2>2. ContentIsReplay(n)' <=> ContentIsReplay(n)
      BY <1>1, <2>1 DEF ContentIsReplay, InsertedBeyond
    <2> QED
      BY <1>1, <1>5, <2>1, <2>2 DEF ContentInv
  <1>7. CASE n = m
    <2>1. notes[m].type = "normal" => ContentIsReplay(n)'
      BY <1>1, <1>2, <1>3, <1>4, <1>7 DEF ContentIsReplay
    <2> QED
      BY <1>1, <1>2, <1>4, <1>5, <1>7, <2>1 DEF ContentInv
  <1> QED
    BY <1>6, <1>7

LEMMA ContentInvOther ==
  ASSUME Core, FreshIsEmpty, ContentInv, Core', [Next]_vars,
         \A c \in Clients : ~ InsertEvent(c) /\ ~ UpsertContent(c) /\ ~ SetHead(c)
  PROVE  ContentInv'
  <1>1. /\ UNCHANGED <<events, content>>
        /\ \A n \in Notes :
             /\ notes'[n].head = notes[n].head
             /\ notes[n].exists => notes'[n].exists /\ notes'[n].type = notes[n].type
        /\ step' \in {"content", "head"} =>
             UNCHANGED <<step, serving>> /\ call'[serving] = call[serving]
    BY OtherSteps
  <1> SUFFICES ASSUME NEW n \in Notes
               PROVE  /\ ~ notes'[n].exists => content'[n] = EmptyContent /\ events'[n][1] = NoEvent
                      /\ notes'[n].type = "secure" => content'[n] = EmptyContent
                      /\ notes'[n].type = "normal" => ContentIsReplay(n)' /\ ServedContent(n)'
    BY DEF ContentInv
  <1>2. CASE notes[n].exists
    <2>1. ContentIsReplay(n)' <=> ContentIsReplay(n)
      BY <1>1 DEF ContentIsReplay, InsertedBeyond
    <2>2. ServedContent(n) => ServedContent(n)'
      BY <1>1 DEF ServedContent
    <2> QED
      BY <1>1, <1>2, <2>1, <2>2 DEF ContentInv
  <1>3. CASE ~ notes[n].exists
    <2>1. content[n] = EmptyContent /\ events[n][1] = NoEvent /\ notes[n].head = 0
      BY <1>3 DEF ContentInv, Core, RowsAreSane
    <2>2. ContentIsReplay(n)'
      BY <1>1, <2>1, RowsOfEvents, ReplayOfNothing DEF ContentIsReplay
    <2>3. ServedContent(n)'
      <3>1. SUFFICES ASSUME serving' # None, call'[serving'].note = n, step' \in {"content", "head"}
                     PROVE  FALSE
        BY DEF ServedContent
      <3>2. serving # None /\ call[serving].note = n
        BY <1>1, <3>1
      <3> QED
        BY <1>3, <3>2 DEF Core, WriterIsSane
    <2> QED
      BY <1>1, <2>1, <2>2, <2>3
  <1> QED
    BY <1>2, <1>3

(* The stored content is the replay of the event log: up to the head, or   *)
(* one event further while that append is under way or was cut short, for  *)
(* all line edits, interleavings of statements and requests, failed        *)
(* statements and restarts (ContentReflectsLog).                           *)
THEOREM ContentAlwaysReflectsLog == Spec => []ContentReflectsLog
  <1>1. Init => ContentInv
    <2> SUFFICES ASSUME Init, NEW n \in Notes
                 PROVE  /\ content[n] = EmptyContent /\ events[n][1] = NoEvent
                        /\ ContentIsReplay(n) /\ ServedContent(n)
      BY DEF ContentInv
    <2>1. Core
      BY CoreInit
    <2>2. content[n] = EmptyContent /\ events[n][1] = NoEvent /\ notes[n].head = 0 /\ serving = None
      BY <2>1, RowsOfEvents DEF Init, AbsentRow
    <2>3. ContentIsReplay(n)
      BY <2>1, <2>2, RowsOfEvents, ReplayOfNothing DEF ContentIsReplay
    <2> QED
      BY <2>2, <2>3 DEF ServedContent
  <1>2. Core /\ Core' /\ FreshIsEmpty /\ ContentInv /\ [Next]_vars => ContentInv'
    <2> SUFFICES ASSUME Core, Core', FreshIsEmpty, ContentInv, [Next]_vars PROVE ContentInv'
      OBVIOUS
    <2>1. ASSUME NEW c \in Clients, InsertEvent(c) PROVE ContentInv'
      <3>1. CASE events' # events
        BY <2>1, <3>1, ContentInvInsert
      <3>2. CASE events' = events
        <4>1. step' = "idle" /\ serving' = None /\ UNCHANGED <<notes, content, events>>
          <5>1. call[c].note \in Notes /\ call[c].seq \in Seqs /\ call[c].payload \in Payloads
            BY <2>1, ServedCall DEF InsertEvent
          <5>2. events[call[c].note][call[c].seq] # NoEvent
            BY <2>1, <3>2, <5>1, RowsOfEvents DEF InsertEvent, Core, TypeOK
          <5> QED
            BY <2>1, <3>2, <5>2 DEF InsertEvent, Answers
        <4> QED
          BY <4>1 DEF ContentInv, ContentIsReplay, ServedContent, InsertedBeyond
      <3> QED
        BY <3>1, <3>2
    <2> QED
      BY <2>1, ContentInvUpsert, ContentInvHead, ContentInvOther
  <1>3. Init => FreshIsEmpty
    BY BoundAssumption DEF Init, FreshIsEmpty
  <1>4. Core /\ Core' /\ FreshIsEmpty /\ [Next]_vars => FreshIsEmpty'
    BY FreshIsEmptyNext
  <1>5. Core /\ LogIsPrefix /\ ContentInv => ContentReflectsLog
    <2> SUFFICES ASSUME Core, LogIsPrefix, ContentInv, NEW n \in Notes
                 PROVE  IF notes[n].type = "secure" THEN content[n] = EmptyContent
                        ELSE \/ content[n] = Replay(n)[notes[n].head]
                             \/ /\ Stored(n) = 1..(notes[n].head + 1)
                                /\ content[n] = Replay(n)[notes[n].head + 1]
      BY DEF ContentReflectsLog
    <2>1. Replay(n) = ReplayOf(events[n])
      BY DEF Replay, ReplayOf
    <2>2. InsertedBeyond(n) => Stored(n) = 1..(notes[n].head + 1)
      BY RowsOfEvents DEF InsertedBeyond, LogIsPrefix, Stored, Seqs
    <2>3. notes[n].type \in {"secure", "normal"}
      BY RowsOfEvents DEF NoteTypes
    <2> QED
      BY <2>1, <2>2, <2>3 DEF ContentInv, ContentIsReplay
  <1>6. Init => LogIsPrefix
    BY BoundAssumption DEF Init, LogIsPrefix, AbsentRow, Seqs
  <1>7. Core /\ Core' /\ LogIsPrefix /\ [Next]_vars => LogIsPrefix'
    BY LogIsPrefixNext
  <1> QED
    BY <1>1, <1>2, <1>3, <1>4, <1>5, <1>6, <1>7, CoreAlways, PTL DEF Spec

-----------------------------------------------------------------------------
(* The note tables implement the abstract log: every step of SqliteNotes   *)
(* is, under its refinement mapping, a step of NoteLog or none.            *)

(* The rows of a table up to a sequence, read as a sequence.               *)
LEMMA RowsAsSequence ==
  ASSUME NEW h \in Nat, NEW rows, \A s \in 1..h : rows[s] \in Payloads
  PROVE  /\ [s \in 1..h |-> rows[s]] \in Seq(Payloads)
         /\ Len([s \in 1..h |-> rows[s]]) = h
  OBVIOUS

LEMMA LogIsInTable ==
  ASSUME Core, LogIsPrefix, NEW n \in Notes
  PROVE  /\ notes[n].head \in Nat
         /\ \A s \in 1..notes[n].head :
              s \in Seqs /\ events[n][s] \in Payloads /\ events[n][s] # NoEvent
  BY BoundAssumption DEF Core, TypeOK, Row, LogIsPrefix, Seqs

LEMMA SameLog ==
  ASSUME Core, Core', LogIsPrefix, [Next]_vars, NEW n \in Notes,
         notes'[n].head = notes[n].head
  PROVE  LogOf(n)' = LogOf(n)
  <1>1. \A s \in 1..notes[n].head : s \in Seqs /\ events[n][s] # NoEvent
    BY LogIsInTable
  <1>2. \A s \in 1..notes[n].head : events'[n][s] = events[n][s]
    <2>1. CASE events' # events
      <3>1. PICK c \in Clients :
              /\ events[call[c].note][call[c].seq] = NoEvent
              /\ events' = [events EXCEPT ![call[c].note][call[c].seq] = call[c].payload]
        BY <2>1, EventsChange
      <3> QED
        BY <1>1, <3>1 DEF Core, TypeOK
    <2> QED
      BY <2>1
  <1> QED
    BY <1>2 DEF LogOf

LEMMA GrownLog ==
  ASSUME Core, LogIsPrefix, UNCHANGED events, NEW n \in Notes,
         notes'[n].head = notes[n].head + 1,
         events[n][notes[n].head + 1] \in Payloads
  PROVE  LogOf(n)' = Append(LogOf(n), events[n][notes[n].head + 1])
  <1> DEFINE h == notes[n].head
             f == [s \in 1..h |-> events[n][s]]
             g == [s \in 1..(h + 1) |-> events[n][s]]
             p == events[n][h + 1]
  <1>1. h \in Nat /\ h + 1 \in Nat /\ \A s \in 1..h : events[n][s] \in Payloads
    BY LogIsInTable
  <1>2. f \in Seq(Payloads) /\ Len(f) = h
    BY <1>1, RowsAsSequence
  <1>3. \A s \in 1..(h + 1) : events[n][s] \in Payloads
    BY <1>1
  <1>4. g \in Seq(Payloads) /\ Len(g) = h + 1
    BY <1>1, <1>3, RowsAsSequence
  <1>a. p \in Payloads
    OBVIOUS
  <1>b. \A i \in 1..h : f[i] = events[n][i]
    OBVIOUS
  <1>c. \A i \in 1..(h + 1) : g[i] = events[n][i]
    OBVIOUS
  <1> HIDE DEF f, g, p
  <1>5. Append(f, p) \in Seq(Payloads) /\ Len(Append(f, p)) = h + 1
        /\ (\A i \in 1..h : Append(f, p)[i] = f[i]) /\ Append(f, p)[h + 1] = p
    BY <1>2, <1>a, AppendProperties
  <1>6. \A i \in 1..(h + 1) : g[i] = Append(f, p)[i]
    BY <1>1, <1>5, <1>b, <1>c DEF p
  <1>7. g = Append(f, p)
    BY <1>4, <1>5, <1>6, SeqEqual
  <1> QED
    BY <1>7 DEF LogOf, f, g, p

-----------------------------------------------------------------------------
(* A closure that changes headers makes one abstract step or none.         *)
LEMMA HeaderWriteRefines ==
  ASSUME Core, Core', LogIsPrefix, [Next]_vars,
         NEW c \in Clients, WriteCreate(c) \/ WriteUpdate(c) \/ WriteDelete(c)
  PROVE  [NotesLog!Next]_(NotesLog!vars)
  <1>1. PICK m \in Notes :
          /\ m = call[c].note /\ call[c].type \in NoteTypes /\ call[c].deleted \in BOOLEAN
          /\ call[c].op \in {"create", "update"} => call[c].title \in Titles
          /\ call[c].op = "update" => notes[m].exists
          /\ WriteUpdate(c) => call[c].op = "update"
          /\ WriteCreate(c) => call[c].op = "create"
    BY DEF WriteCreate, WriteUpdate, WriteDelete, Takes, Core, TypeOK, CallsAreSane,
           CallIsSane, Call
  <1>2. UNCHANGED Acked
    BY DEF WriteCreate, WriteUpdate, WriteDelete, Takes, Acked
  <1>3. \A n \in Notes : LogOf(n)' = LogOf(n)
    <2>1. ASSUME NEW n \in Notes PROVE notes'[n].head = notes[n].head
      <3>1. ASSUME NEW d \in Clients, SetHead(d) PROVE FALSE
        BY <3>1, NameAssumption
        DEF SetHead, WriteCreate, WriteUpdate, WriteDelete, Takes
      <3> QED
        BY <3>1, HeadChange
    <2> QED
      BY <2>1, SameLog
  <1>4. UNCHANGED [n \in Notes |-> LogOf(n)]
    BY <1>3
  <1>5. \A n \in Notes \ {m} : notes'[n] = notes[n]
    BY <1>1 DEF WriteCreate, WriteUpdate, WriteDelete, Core, TypeOK
  <1>6. \A n \in Notes \ {m} : LogHeader(n)' = LogHeader(n)
    BY <1>5 DEF LogHeader
  <1>7. [n \in Notes |-> LogHeader(n)]' =
          [[n \in Notes |-> LogHeader(n)] EXCEPT ![m] = LogHeader(m)']
    BY <1>1, <1>6
  <1>8. CASE notes'[m] = notes[m]
    <2>1. LogHeader(m)' = LogHeader(m)
      BY <1>1, <1>8 DEF LogHeader
    <2>2. UNCHANGED [n \in Notes |-> LogHeader(n)]
      BY <1>6, <2>1
    <2> QED
      BY <1>2, <1>4, <2>2 DEF NotesLog!vars
  <1>9. CASE notes'[m] # notes[m]
    <2> USE DEF Core, TypeOK
    <2>a. notes'[m] \in Row /\ notes[m] \in Row
      OBVIOUS
    <2>b. notes'[m].exists /\ (notes[m].exists => notes'[m].type = notes[m].type)
      <3>1. CASE WriteCreate(c)
        BY <1>1, <1>9, <3>1 DEF WriteCreate
      <3>2. CASE WriteUpdate(c)
        <4>1. notes'[m] = [notes[m] EXCEPT !.title = call[c].title, !.deleted = call[c].deleted]
          BY <1>1, <3>2 DEF WriteUpdate
        <4> QED
          BY <1>1, <2>a, <3>2, <4>1 DEF Row
      <3>3. CASE WriteDelete(c)
        BY <1>1, <1>9, <2>a, <3>3 DEF WriteDelete, Row
      <3> QED
        BY <3>1, <3>2, <3>3
    <2>1. notes'[m] \in Row /\ notes[m] \in Row /\ notes'[m].exists
          /\ notes'[m].title \in Titles
      BY <2>a, <2>b DEF RowsAreSane
    <2>2. LogHeader(m)' \in NotesLog!Header
      BY <1>1, <2>1 DEF LogHeader, NotesLog!Header, Row
    <2>3. CASE ~ notes[m].exists
      <3>1. LogHeader(m) = NotesLog!Missing
        BY <1>1, <2>3 DEF LogHeader, NotesLog!Missing
      <3>2. NotesLog!Create(m)
        BY <1>1, <1>2, <1>4, <1>7, <2>2, <3>1 DEF NotesLog!Create
      <3> QED
        BY <1>1, <3>2 DEF NotesLog!Next
    <2>4. CASE notes[m].exists
      <3>1. notes'[m].type = notes[m].type
        BY <2>4, <2>b
      <3>2. LogHeader(m) # NotesLog!Missing /\ LogHeader(m)'.type = LogHeader(m).type
        BY <1>1, <2>1, <2>4, <3>1 DEF LogHeader, NotesLog!Missing
      <3>3. NotesLog!ChangeHeader(m)
        BY <1>1, <1>2, <1>4, <1>7, <2>2, <3>2 DEF NotesLog!ChangeHeader
      <3> QED
        BY <1>1, <3>3 DEF NotesLog!Next
    <2> QED
      BY <2>1, <2>3, <2>4 DEF Row
  <1> QED
    BY <1>8, <1>9

LEMMA HeaderChange ==
  ASSUME Core, [Next]_vars, NEW n \in Notes, LogHeader(n)' # LogHeader(n)
  PROVE  \E c \in Clients : WriteCreate(c) \/ WriteUpdate(c) \/ WriteDelete(c)
  <1>1. ASSUME NEW c \in Clients, SetHead(c)
        PROVE  FALSE
    <2>1. notes' = [notes EXCEPT ![call[c].note].head = call[c].seq]
      BY <1>1 DEF SetHead
    <2>2. /\ notes'[n].exists = notes[n].exists /\ notes'[n].type = notes[n].type
          /\ notes'[n].title = notes[n].title /\ notes'[n].deleted = notes[n].deleted
      BY <2>1 DEF Core, TypeOK, Row
    <2> QED
      BY <2>2 DEF LogHeader
  <1>2. UNCHANGED notes => LogHeader(n)' = LogHeader(n)
    BY DEF LogHeader
  <1> QED
    BY <1>1, <1>2
    DEF Next, vars, Client, Writer, CreateNote, DeleteNote, AppendRaw, UpdateGet,
        ReplaceGet, SendWrite, SendsAtOnce, Starts, WriteAppend, InsertEvent,
        UpsertContent, MarkSync, StatementFails, Crash, disk

(* Every step of the tables is a step of the log or leaves it alone.       *)
LEMMA StepRefines ==
  ASSUME Core, Core', LogIsPrefix, AcksAreSane, AcksAreSane', [Next]_vars
  PROVE  [NotesLog!Next]_(NotesLog!vars)
  <1> DEFINE headers == [n \in Notes |-> LogHeader(n)]
             logs == [n \in Notes |-> LogOf(n)]
  <1>1. CASE \E c \in Clients : WriteCreate(c) \/ WriteUpdate(c) \/ WriteDelete(c)
    BY <1>1, HeaderWriteRefines
  <1>2. CASE ~ \E c \in Clients : WriteCreate(c) \/ WriteUpdate(c) \/ WriteDelete(c)
    <2>1. UNCHANGED headers
      BY <1>2, HeaderChange
    <2>2. CASE acks' # acks
      <3>1. PICK c \in Clients :
              /\ serving = c /\ step = "sync"
              /\ acks' = [acks EXCEPT ![call[c].note][call[c].seq] = @ + 1]
              /\ UNCHANGED <<notes, events, content>>
        BY <2>2, AcksChange
      <3>2. PICK m \in Notes, s \in Seqs : m = call[c].note /\ s = call[c].seq
        BY <3>1, ServedCall
      <3>3. acks[m][s] = 0 /\ s = notes[m].head
        BY <3>1, <3>2, ServedCall DEF AcksAreSane
      <3>4. UNCHANGED logs
        BY <3>1, SameLog
      <3>5. s \in 1..Len(LogOf(m))
        BY <3>3, LogIsInTable, RowsAsSequence DEF LogOf, Seqs
      <3>6. Acked' = Acked \cup {<<m, s>>} /\ <<m, s>> \notin Acked
        <4>1. \A a \in Notes \X Seqs :
                acks'[a[1]][a[2]] = IF a = <<m, s>> THEN acks[m][s] + 1 ELSE acks[a[1]][a[2]]
          BY <3>1, <3>2 DEF Core, TypeOK
        <4> QED
          BY <3>3, <4>1 DEF Acked
      <3>7. NotesLog!Acknowledge(m)
        BY <2>1, <3>4, <3>5, <3>6 DEF NotesLog!Acknowledge
      <3> QED
        BY <3>7 DEF NotesLog!Next
    <2>3. CASE UNCHANGED acks /\ \E n \in Notes : notes'[n].head # notes[n].head
      <3>1. PICK m \in Notes : notes'[m].head # notes[m].head
        BY <2>3
      <3>2. PICK c \in Clients : /\ SetHead(c)
                                 /\ call[c].note = m
                                 /\ notes'[m].head = notes[m].head + 1
        BY <3>1, HeadChange
      <3>3. /\ serving = c /\ step = "head" /\ UNCHANGED events
            /\ notes' = [notes EXCEPT ![m].head = call[c].seq]
        BY <3>2 DEF SetHead
      <3> DEFINE p == events[m][notes[m].head + 1]
      <3>4. p \in Payloads
        BY <3>2, <3>3, ServedCall
      <3>5. LogOf(m)' = Append(LogOf(m), p)
        BY <3>2, <3>3, <3>4, GrownLog
      <3>6. \A n \in Notes \ {m} : LogOf(n)' = LogOf(n)
        BY <3>3, SameLog DEF Core, TypeOK
      <3> HIDE DEF p
      <3>7. logs' = [logs EXCEPT ![m] = Append(@, p)]
        BY <3>5, <3>6
      <3>8. UNCHANGED Acked
        BY <2>3 DEF Acked
      <3>9. notes[m].exists
        BY <3>2, <3>3, ServedCall
      <3>10. headers[m] # NotesLog!Missing
        BY <3>9 DEF LogHeader, NotesLog!Missing
      <3>11. NotesLog!AppendEvent(m)
        BY <2>1, <3>4, <3>7, <3>8, <3>10 DEF NotesLog!AppendEvent
      <3> QED
        BY <3>11 DEF NotesLog!Next
    <2>4. CASE UNCHANGED acks /\ \A n \in Notes : notes'[n].head = notes[n].head
      <3>1. UNCHANGED logs
        BY <2>4, SameLog
      <3>2. UNCHANGED Acked
        BY <2>4 DEF Acked
      <3> QED
        BY <2>1, <3>1, <3>2 DEF NotesLog!vars
    <2> QED
      BY <2>2, <2>3, <2>4
  <1> QED
    BY <1>1, <1>2

LEMMA InitRefines == Init => NotesLog!Init
  <1> SUFFICES ASSUME Init PROVE NotesLog!Init
    OBVIOUS
  <1>1. \A n \in Notes : LogHeader(n) = NotesLog!Missing /\ LogOf(n) = << >>
    <2> SUFFICES ASSUME NEW n \in Notes
                 PROVE  LogHeader(n) = NotesLog!Missing /\ LogOf(n) = << >>
      OBVIOUS
    <2>1. notes[n].head = 0 /\ ~ notes[n].exists
      BY DEF Init, AbsentRow
    <2>2. LogOf(n) \in Seq(Payloads) /\ Len(LogOf(n)) = 0
      BY <2>1, RowsAsSequence DEF LogOf
    <2>3. LogOf(n) = << >>
      BY <2>2, EmptySeq
    <2> QED
      BY <2>1, <2>3 DEF LogHeader, NotesLog!Missing
  <1>2. Acked = {}
    BY DEF Init, Acked
  <1> QED
    BY <1>1, <1>2 DEF NotesLog!Init

(* The statements of the writer, interleaved with every reader, caller,    *)
(* failure and crash, implement indivisible appends to an append-only log. *)
THEOREM TablesImplementNoteLog == Spec => ImplementsNoteLog
  <1>1. Init => LogIsPrefix /\ AcksAreSane
    BY BoundAssumption DEF Init, LogIsPrefix, AcksAreSane, AbsentRow, Seqs
  <1>2. Core /\ Core' /\ LogIsPrefix /\ AcksAreSane /\ [Next]_vars
          => LogIsPrefix' /\ AcksAreSane' /\ [NotesLog!Next]_(NotesLog!vars)
    BY LogIsPrefixNext, AcksAreSaneNext, StepRefines
  <1> QED
    BY <1>1, <1>2, InitRefines, CoreAlways, PTL DEF Spec, ImplementsNoteLog, NotesLog!Spec

-----------------------------------------------------------------------------
(* Start-up.  A recorded version stands for what it brought, the versions  *)
(* are recorded without a gap, and within a start the phase says how far   *)
(* the present version has come.                                           *)

Tables == {"notes", "events", "candidates"}

VersionsHold == \A o \in Objects : Since[o] \in database.applied => o \in database.objects

RecordedUpTo(k) == database.applied = 1..k

TablesBefore(k) == \A j \in 1..3 : j < k => SchemaTables[j] \in database.objects

StepsTaken ==
  /\ phase \in {"fill", "script", "record"} => NewColumns(place) \subseteq database.objects
  /\ phase \in {"script", "record"} /\ place = 9 => "urns_filled" \in database.objects
  /\ phase = "record" /\ place = 7 => "pair_index" \in database.objects

IndexInv ==
  /\ IndexTypeOK
  /\ \E k \in 0..LastVersion : RecordedUpTo(k)
  /\ VersionsHold
  /\ phase = "schema" => place \in 1..4 /\ TablesBefore(place)
  /\ phase \in {"alter", "fill", "script", "record"} =>
       place \in 1..LastVersion + 1 /\ RecordedUpTo(place - 1) /\ TablesBefore(4)
  /\ phase \in {"fill", "script", "record"} => place \in Versions
  /\ StepsTaken
  /\ phase \in {"check", "serving"} => database.objects = Objects /\ database.applied = Versions

LEMMA ObjectNames ==
  /\ Objects = {"notes", "events", "candidates", "pair_key", "pair_index", "event_urn",
                "urns_filled", "snip_type", "paragraph_head_seq"}
  /\ Since["notes"] = 1 /\ Since["events"] = 2 /\ Since["candidates"] = 5
  /\ Since["pair_key"] = 7 /\ Since["pair_index"] = 7 /\ Since["event_urn"] = 9
  /\ Since["urns_filled"] = 9 /\ Since["snip_type"] = 12 /\ Since["paragraph_head_seq"] = 14
  BY DEF Objects, Since

LEMMA SinceIsAVersion == \A o \in Objects : Since[o] \in 1..14
  BY ObjectNames

LEMMA TableNames ==
  /\ Len(SchemaTables) = 3
  /\ SchemaTables[1] = "notes" /\ SchemaTables[2] = "events" /\ SchemaTables[3] = "candidates"
  BY DEF SchemaTables

(* The columns of a version.                                               *)
LEMMA ColumnsOfVersions ==
  ASSUME NEW v \in Versions
  PROVE  /\ NewColumns(v) \subseteq Objects
         /\ \A o \in Objects : Since[o] = v =>
              \/ o \in Tables \/ o \in NewColumns(v)
              \/ o = "urns_filled" /\ v = 9
              \/ o = "pair_index" /\ v = 7
  BY ObjectNames DEF NewColumns, Tables

(* The number schemaVersion finds is the last of the recorded ones.        *)
LEMMA LastRecorded ==
  ASSUME NEW k \in 0..LastVersion, RecordedUpTo(k)
  PROVE  schemaVersion = k
<1>1. CASE k = 0
  BY <1>1 DEF schemaVersion, RecordedUpTo
<1>2. CASE k # 0
  <2>1. k \in 1..k /\ \A w \in 1..k : w <= k
    BY <1>2 DEF LastVersion
  <2>2. \A v \in 1..k : (\A w \in 1..k : w <= v) => v = k
    BY <2>1 DEF LastVersion
  <2> QED
    BY <1>2, <2>1, <2>2 DEF schemaVersion, RecordedUpTo
<1> QED
  BY <1>1, <1>2

-----------------------------------------------------------------------------
LEMMA IndexInitially == IndexInit => IndexInv
<1> SUFFICES ASSUME IndexInit PROVE IndexInv
  OBVIOUS
<1>1. CASE database = NoDatabase
  <2>1. RecordedUpTo(0)
    BY <1>1 DEF NoDatabase, RecordedUpTo
  <2>2. VersionsHold
    BY <1>1 DEF NoDatabase, VersionsHold
  <2>3. IndexTypeOK
    <3>1. phase \in {"down", "schema", "alter", "fill", "script", "record", "check", "reopen", "refused", "serving"}
      BY DEF IndexInit
    <3>2. place \in 0..LastVersion + 1
      BY DEF IndexInit, LastVersion
    <3>3. rebuilding \in BOOLEAN
      BY DEF IndexInit
    <3>4. mishaps \in 0..MaxMishaps
      BY MishapAssumption DEF IndexInit
    <3>5. database \in [exists : BOOLEAN, sound : BOOLEAN, objects : SUBSET Objects, applied : SUBSET Versions]
      BY <1>1 DEF NoDatabase
    <3> QED
      BY <3>1, <3>2, <3>3, <3>4, <3>5 DEF IndexTypeOK
  <2> QED
    BY <2>1, <2>2, <2>3 DEF IndexInit, IndexInv, StepsTaken, LastVersion
<1>2. CASE \E v \in Versions : database = DatabaseOf(v)
  <2> PICK v \in Versions : database = DatabaseOf(v)
    BY <1>2
  <2>1. RecordedUpTo(v) /\ v \in 0..LastVersion
    BY DEF DatabaseOf, RecordedUpTo, Versions, LastVersion
  <2>2. VersionsHold
    BY SinceIsAVersion DEF VersionsHold, DatabaseOf, Versions, LastVersion
  <2>3. {o \in Objects : Since[o] <= v} \in SUBSET Objects /\ 1..v \in SUBSET Versions
    BY DEF Versions, LastVersion
  <2>4. database \in [exists : BOOLEAN, sound : BOOLEAN, objects : SUBSET Objects, applied : SUBSET Versions]
    BY <2>3 DEF DatabaseOf
  <2>5. IndexTypeOK
    <3>1. phase \in {"down", "schema", "alter", "fill", "script", "record", "check", "reopen", "refused", "serving"}
          /\ rebuilding \in BOOLEAN
      BY DEF IndexInit
    <3>2. place \in 0..LastVersion + 1 /\ mishaps \in 0..MaxMishaps
      BY MishapAssumption DEF IndexInit, LastVersion
    <3> QED
      BY <2>4, <3>1, <3>2 DEF IndexTypeOK
  <2> QED
    BY <2>1, <2>2, <2>5 DEF IndexInit, IndexInv, StepsTaken
<1> QED
  BY <1>1, <1>2 DEF IndexInit

(* A step keeps the invariant.  Most change the phase and one part of the  *)
(* database.                                                               *)
DatabaseType ==
  [exists : BOOLEAN, sound : BOOLEAN, objects : SUBSET Objects, applied : SUBSET Versions]

LEMMA MoreObjects ==
  ASSUME IndexInv, NEW S \in SUBSET Objects,
         database' = [database EXCEPT !.objects = @ \cup S]
  PROVE  /\ database' \in DatabaseType
         /\ database'.applied = database.applied
         /\ database'.objects = database.objects \cup S
         /\ VersionsHold'
         /\ \A k : RecordedUpTo(k) => RecordedUpTo(k)'
         /\ \A k : TablesBefore(k) => TablesBefore(k)'
<1>1. database \in DatabaseType
  BY DEF IndexInv, IndexTypeOK, DatabaseType
<1>2. database' \in DatabaseType /\ database'.applied = database.applied
      /\ database'.objects = database.objects \cup S
  BY <1>1 DEF DatabaseType
<1> QED
  BY <1>2 DEF IndexInv, VersionsHold, RecordedUpTo, TablesBefore

LEMMA SameContent ==
  ASSUME IndexInv, database'.objects = database.objects, database'.applied = database.applied
  PROVE  /\ VersionsHold' /\ \E k \in 0..LastVersion : RecordedUpTo(k)'
         /\ \A k : TablesBefore(k) => TablesBefore(k)'
  BY DEF IndexInv, VersionsHold, RecordedUpTo, TablesBefore

LEMMA IndexStep == IndexInv /\ [IndexNext]_indexVars => IndexInv'
<1> SUFFICES ASSUME IndexInv, [IndexNext]_indexVars PROVE IndexInv'
  OBVIOUS
<1>0. database \in DatabaseType /\ place \in 0..LastVersion + 1 /\ place \in Int
      /\ rebuilding \in BOOLEAN /\ mishaps \in 0..MaxMishaps /\ MaxMishaps \in Nat
  BY MishapAssumption DEF IndexInv, IndexTypeOK, DatabaseType, LastVersion
<1>1. CASE OpenDatabase
  <2>1. database' \in DatabaseType /\ database'.objects = database.objects
        /\ database'.applied = database.applied
    BY <1>0, <1>1 DEF OpenDatabase, DatabaseType
  <2>2. phase' = "schema" /\ place' = 1 /\ rebuilding' \in BOOLEAN /\ mishaps' = mishaps
    BY <1>0, <1>1 DEF OpenDatabase, Proceed, DatabaseType
  <2>3. TablesBefore(1)'
    BY DEF TablesBefore
  <2> QED
    <3>1. IndexTypeOK'
      BY <1>0, <2>1, <2>2 DEF IndexTypeOK, DatabaseType, LastVersion
    <3>2. StepsTaken'
      BY <2>2 DEF StepsTaken
    <3> QED
      BY <2>1, <2>2, <2>3, <3>1, <3>2, SameContent DEF IndexInv
<1>2. CASE ApplySchema
  <2> DEFINE t == SchemaTables[place]
  <2>1. place \in 1..3 /\ phase = "schema" /\ TablesBefore(place)
    BY <1>0, <1>2, TableNames DEF ApplySchema, IndexInv
  <2>2. t \in {"notes", "events", "candidates"}
    BY <2>1, TableNames
  <2>3. ColumnsOfNew[t] \subseteq Objects /\ t \in Objects
    BY <2>2, ObjectNames DEF ColumnsOfNew
  <2>4. PICK S \in SUBSET Objects :
          /\ database' = [database EXCEPT !.objects = @ \cup S]
          /\ t \in database.objects \cup S
    <3>1. CASE t \in database.objects
      <4>1. database' = [database EXCEPT !.objects = @ \cup {}]
        BY <1>0, <1>2, <3>1 DEF ApplySchema, WithTable
      <4> WITNESS {} \in SUBSET Objects
      <4> QED
        BY <3>1, <4>1
    <3>2. CASE t \notin database.objects
      <4>1. database' = [database EXCEPT !.objects = @ \cup ({t} \cup ColumnsOfNew[t])]
        BY <1>0, <1>2, <3>2 DEF ApplySchema, WithTable
      <4> QED
        BY <2>3, <4>1
    <3> QED
      BY <3>1, <3>2
  <2>5. /\ database' \in DatabaseType /\ database'.applied = database.applied
        /\ database'.objects = database.objects \cup S /\ VersionsHold'
        /\ \A k : RecordedUpTo(k) => RecordedUpTo(k)'
    BY <2>4, MoreObjects
  <2>6. phase' = "schema" /\ place' = place + 1 /\ UNCHANGED <<rebuilding, mishaps>>
    BY <1>2 DEF ApplySchema, Proceed
  <2>7. \A j \in 1..3 : j < place' => SchemaTables[j] \in database'.objects
    <3> TAKE j \in 1..3
    <3> HAVE j < place'
    <3>1. CASE j = place
      BY <3>1, <2>4, <2>5
    <3>2. CASE j < place
      BY <3>2, <2>1, <2>5 DEF TablesBefore
    <3> QED
      BY <2>1, <2>6, <3>1, <3>2
  <2>8. TablesBefore(place)'
    BY <2>7 DEF TablesBefore
  <2> QED
    <3>1. IndexTypeOK'
      BY <1>0, <2>1, <2>5, <2>6 DEF IndexTypeOK, DatabaseType, LastVersion
    <3>2. StepsTaken'
      BY <2>6 DEF StepsTaken
    <3>3. \E k \in 0..LastVersion : RecordedUpTo(k)'
      BY <2>5 DEF IndexInv
    <3>4. place' \in 1..4
      BY <2>1, <2>6
    <3> QED
      BY <2>5, <2>6, <2>8, <3>1, <3>2, <3>3, <3>4 DEF IndexInv
<1>3. CASE SchemaFails
  <2>1. phase' = "refused" /\ place' = 0 /\ UNCHANGED <<database, rebuilding, mishaps>>
    BY <1>3 DEF SchemaFails, Proceed
  <2>2. IndexTypeOK'
    BY <1>0, <2>1 DEF IndexTypeOK, DatabaseType, LastVersion
  <2>3. StepsTaken'
    BY <2>1 DEF StepsTaken
  <2> QED
    BY <2>1, <2>2, <2>3, SameContent DEF IndexInv
<1>4. CASE SchemaDone
  <2>1. phase = "schema" /\ place = 4
    BY <1>0, <1>4, TableNames DEF SchemaDone, IndexInv
  <2>2. PICK k \in 0..LastVersion : RecordedUpTo(k)
    BY DEF IndexInv
  <2>3. schemaVersion = k
    BY <2>2, LastRecorded
  <2>4. /\ phase' = "alter" /\ place' = k + 1 /\ UNCHANGED <<database, rebuilding, mishaps>>
    BY <1>4, <2>3 DEF SchemaDone, Proceed
  <2>5. place' - 1 = k /\ place' \in 1..LastVersion + 1
    BY <2>2, <2>4 DEF LastVersion
  <2>6. RecordedUpTo(place - 1)' /\ TablesBefore(4)' /\ VersionsHold'
    BY <2>1, <2>2, <2>4, <2>5 DEF IndexInv, RecordedUpTo, TablesBefore, VersionsHold
  <2>7. IndexTypeOK'
    BY <1>0, <2>4, <2>5 DEF IndexInv, IndexTypeOK, LastVersion
  <2>8. RecordedUpTo(k)'
    BY <2>2, <2>4 DEF RecordedUpTo
  <2> QED
    BY <2>2, <2>4, <2>5, <2>6, <2>7, <2>8 DEF IndexInv, StepsTaken
<1>5. CASE AlterTable
  <2>1. /\ phase = "alter" /\ place \in Versions /\ RecordedUpTo(place - 1) /\ TablesBefore(4)
    BY <1>0, <1>5 DEF AlterTable, IndexInv, Versions, LastVersion
  <2>2. NewColumns(place) \in SUBSET Objects
    BY <2>1, ColumnsOfVersions
  <2>3. database' = [database EXCEPT !.objects = @ \cup NewColumns(place)]
    BY <1>5 DEF AlterTable
  <2>4. /\ database' \in DatabaseType /\ database'.objects = database.objects \cup NewColumns(place)
        /\ VersionsHold' /\ \A k : RecordedUpTo(k) => RecordedUpTo(k)'
        /\ TablesBefore(4)'
    BY <2>1, <2>2, <2>3, MoreObjects
  <2>5. phase' = "fill" /\ place' = place /\ UNCHANGED <<rebuilding, mishaps>>
    BY <1>5 DEF AlterTable, Proceed
  <2>6. StepsTaken'
    BY <2>4, <2>5 DEF StepsTaken, NewColumns
  <2>7. RecordedUpTo(place - 1)'
    BY <2>1, <2>4, <2>5 DEF RecordedUpTo
  <2> QED
    BY <1>0, <2>1, <2>4, <2>5, <2>6, <2>7 DEF IndexInv, IndexTypeOK, DatabaseType, Versions, LastVersion
<1>6. CASE FillColumn
  <2> DEFINE S == IF place = 9 THEN {"urns_filled"} ELSE {}
  <2>1. phase = "fill" /\ place \in Versions /\ RecordedUpTo(place - 1) /\ TablesBefore(4)
        /\ NewColumns(place) \subseteq database.objects
    BY <1>6 DEF FillColumn, IndexInv, StepsTaken
  <2>2. S \in SUBSET Objects
    BY ObjectNames
  <2>3. database' = [database EXCEPT !.objects = @ \cup S]
    BY <1>0, <1>6, ObjectNames DEF FillColumn, DatabaseType
  <2> HIDE DEF S
  <2>4. /\ database' \in DatabaseType /\ database'.objects = database.objects \cup S
        /\ VersionsHold' /\ \A k : RecordedUpTo(k) => RecordedUpTo(k)'
        /\ TablesBefore(4)'
    BY <2>1, <2>2, <2>3, MoreObjects
  <2>5. phase' = "script" /\ place' = place /\ UNCHANGED <<rebuilding, mishaps>>
    BY <1>6 DEF FillColumn, Proceed
  <2>6. StepsTaken'
    <3>1. NewColumns(place)' = NewColumns(place)
      BY <2>5 DEF NewColumns
    <3> QED
      BY <2>1, <2>4, <2>5, <3>1 DEF StepsTaken, S
  <2>7. RecordedUpTo(place - 1)'
    BY <2>1, <2>4, <2>5 DEF RecordedUpTo
  <2> QED
    BY <1>0, <2>1, <2>4, <2>5, <2>6, <2>7 DEF IndexInv, IndexTypeOK, DatabaseType, Versions, LastVersion
<1>7. CASE RunScript
  <2> DEFINE S == IF place = 7 THEN {"pair_index"} ELSE {}
  <2>1. phase = "script" /\ place \in Versions /\ RecordedUpTo(place - 1) /\ TablesBefore(4)
        /\ NewColumns(place) \subseteq database.objects
        /\ (place = 9 => "urns_filled" \in database.objects)
    BY <1>7 DEF RunScript, IndexInv, StepsTaken
  <2>2. S \in SUBSET Objects
    BY ObjectNames
  <2>3. database' = [database EXCEPT !.objects = @ \cup S]
    BY <1>0, <1>7, ObjectNames DEF RunScript, DatabaseType
  <2> HIDE DEF S
  <2>4. /\ database' \in DatabaseType /\ database'.objects = database.objects \cup S
        /\ VersionsHold' /\ \A k : RecordedUpTo(k) => RecordedUpTo(k)'
        /\ TablesBefore(4)'
    BY <2>1, <2>2, <2>3, MoreObjects
  <2>5. phase' = "record" /\ place' = place /\ UNCHANGED <<rebuilding, mishaps>>
    BY <1>7 DEF RunScript, Proceed
  <2>6. StepsTaken'
    <3>1. NewColumns(place)' = NewColumns(place)
      BY <2>5 DEF NewColumns
    <3> QED
      BY <2>1, <2>4, <2>5, <3>1 DEF StepsTaken, S
  <2>7. RecordedUpTo(place - 1)'
    BY <2>1, <2>4, <2>5 DEF RecordedUpTo
  <2> QED
    BY <1>0, <2>1, <2>4, <2>5, <2>6, <2>7 DEF IndexInv, IndexTypeOK, DatabaseType, Versions, LastVersion
<1>8. CASE RecordMigration
  <2>1. phase = "record" /\ place \in Versions /\ RecordedUpTo(place - 1) /\ TablesBefore(4)
        /\ NewColumns(place) \subseteq database.objects
        /\ (place = 9 => "urns_filled" \in database.objects)
        /\ (place = 7 => "pair_index" \in database.objects)
    BY <1>8 DEF RecordMigration, IndexInv, StepsTaken
  <2>2. /\ database' \in DatabaseType /\ database'.objects = database.objects
        /\ database'.applied = database.applied \cup {place}
    BY <1>0, <1>8, <2>1 DEF RecordMigration, DatabaseType
  <2>3. phase' = "alter" /\ place' = place + 1 /\ UNCHANGED <<rebuilding, mishaps>>
    BY <1>8 DEF RecordMigration, Proceed
  <2>4. Tables \subseteq database.objects
    BY <2>1, TableNames DEF TablesBefore, Tables
  <2>5. VersionsHold'
    <3> SUFFICES ASSUME NEW o \in Objects, Since[o] \in database'.applied
                 PROVE  o \in database'.objects
      BY DEF VersionsHold
    <3>1. CASE Since[o] \in database.applied
      BY <3>1, <2>2 DEF IndexInv, VersionsHold
    <3>2. CASE Since[o] = place
      BY <3>2, <2>1, <2>2, <2>4, ColumnsOfVersions
    <3> QED
      BY <2>2, <3>1, <3>2
  <2>6. database'.applied = 1..place
    <3>1. place \in 1..15
      BY <2>1 DEF Versions, LastVersion
    <3>2. (1..(place - 1)) \cup {place} = 1..place
      BY <3>1
    <3> QED
      BY <2>1, <2>2, <3>2 DEF RecordedUpTo
  <2>7. place \in 0..LastVersion /\ place' - 1 = place
    BY <2>1, <2>3 DEF Versions, LastVersion
  <2>8. RecordedUpTo(place - 1)'
    BY <2>6, <2>7 DEF RecordedUpTo
  <2>9. TablesBefore(4)'
    BY <2>1, <2>2 DEF TablesBefore
  <2>10. \E k \in 0..LastVersion : RecordedUpTo(k)'
    <3> PICK k \in 0..LastVersion : k = place
      BY <2>7
    <3>1. RecordedUpTo(k)'
      BY <2>6 DEF RecordedUpTo
    <3> QED
      BY <3>1
  <2> QED
    BY <1>0, <2>1, <2>2, <2>3, <2>5, <2>8, <2>9, <2>10
       DEF IndexInv, IndexTypeOK, DatabaseType, StepsTaken, Versions, LastVersion
<1>9. CASE Migrated
  <2>1. phase = "alter" /\ place = 16 /\ RecordedUpTo(place - 1)
    BY <1>0, <1>9 DEF Migrated, IndexInv, LastVersion
  <2>2. database.applied = Versions
    BY <2>1 DEF RecordedUpTo, Versions, LastVersion
  <2>3. database.objects = Objects
    BY <1>0, <2>2, SinceIsAVersion DEF IndexInv, VersionsHold, Versions, LastVersion, DatabaseType
  <2>4. phase' \in {"serving", "check"} /\ place' = 0 /\ UNCHANGED <<database, rebuilding, mishaps>>
    BY <1>9 DEF Migrated, Proceed
  <2>5. IndexTypeOK'
    BY <1>0, <2>4 DEF IndexTypeOK, DatabaseType, LastVersion
  <2>6. StepsTaken'
    BY <2>4 DEF StepsTaken
  <2>7. (database.objects = Objects /\ database.applied = Versions)'
    BY <2>2, <2>3, <2>4
  <2> QED
    BY <2>4, <2>5, <2>6, <2>7, SameContent DEF IndexInv
<1>10. CASE CheckPasses
  <2>1. phase = "check" /\ phase' = "serving" /\ place' = 0 /\ UNCHANGED <<database, rebuilding, mishaps>>
    BY <1>10 DEF CheckPasses, Proceed
  <2>2. IndexTypeOK'
    BY <1>0, <2>1 DEF IndexTypeOK, DatabaseType, LastVersion
  <2>3. StepsTaken'
    BY <2>1 DEF StepsTaken
  <2>4. (database.objects = Objects /\ database.applied = Versions)'
    BY <2>1 DEF IndexInv
  <2> QED
    BY <2>1, <2>2, <2>3, <2>4, SameContent DEF IndexInv
<1>11. CASE CheckFails
  <2>1. database' = NoDatabase /\ phase' = "reopen" /\ place' = 0 /\ rebuilding' = rebuilding
        /\ mishaps' \in 0..MaxMishaps
    BY <1>0, <1>11 DEF CheckFails, Proceed, Mishap
  <2>2. RecordedUpTo(0)' /\ VersionsHold'
    BY <2>1 DEF NoDatabase, RecordedUpTo, VersionsHold
  <2>3. database' \in DatabaseType
    BY <2>1 DEF NoDatabase, DatabaseType
  <2> QED
    BY <1>0, <2>1, <2>2, <2>3 DEF IndexInv, IndexTypeOK, DatabaseType, StepsTaken, LastVersion
<1>12. CASE Reopen
  <2>1. database' \in DatabaseType /\ database'.objects = database.objects
        /\ database'.applied = database.applied
    BY <1>0, <1>12 DEF Reopen, DatabaseType
  <2>2. phase' = "schema" /\ place' = 1 /\ rebuilding' \in BOOLEAN /\ mishaps' = mishaps
    BY <1>12 DEF Reopen, Proceed
  <2>3. TablesBefore(1)'
    BY DEF TablesBefore
  <2>4. IndexTypeOK'
    BY <1>0, <2>1, <2>2 DEF IndexTypeOK, DatabaseType, LastVersion
  <2>5. StepsTaken'
    BY <2>2 DEF StepsTaken
  <2> QED
    BY <2>1, <2>2, <2>3, <2>4, <2>5, SameContent DEF IndexInv
<1>13. CASE StopServer
  <2>1. phase' = "down" /\ place' = 0 /\ rebuilding' = FALSE /\ UNCHANGED <<database, mishaps>>
    BY <1>13 DEF StopServer, Proceed
  <2>2. rebuilding' \in BOOLEAN
    BY <2>1
  <2>3. IndexTypeOK'
    BY <1>0, <2>1, <2>2 DEF IndexTypeOK, DatabaseType, LastVersion
  <2>4. StepsTaken'
    BY <2>1 DEF StepsTaken
  <2> QED
    BY <2>1, <2>3, <2>4, SameContent DEF IndexInv
<1>14. CASE Interrupt
  <2>1. phase' = "down" /\ place' = 0 /\ rebuilding' = FALSE /\ UNCHANGED database
    BY <1>14 DEF Interrupt, Proceed
  <2>2. mishaps' \in 0..MaxMishaps
    BY <1>0, <1>14 DEF Interrupt, Mishap
  <2>3. IndexTypeOK'
    <3>1. rebuilding' \in BOOLEAN
      BY <2>1
    <3> QED
      BY <1>0, <2>1, <2>2, <3>1 DEF IndexTypeOK, DatabaseType, LastVersion
  <2>4. StepsTaken'
    BY <2>1 DEF StepsTaken
  <2> QED
    BY <2>1, <2>3, <2>4, SameContent DEF IndexInv
<1>15. CASE Damage
  <2>1. database' \in DatabaseType /\ database'.objects = database.objects
        /\ database'.applied = database.applied
    BY <1>0, <1>15 DEF Damage, DatabaseType
  <2>2. phase = "down" /\ UNCHANGED <<phase, place, rebuilding>> /\ mishaps' \in 0..MaxMishaps
    BY <1>0, <1>15 DEF Damage, Mishap
  <2> QED
    BY <1>0, <2>1, <2>2 DEF IndexInv, IndexTypeOK, DatabaseType, VersionsHold, RecordedUpTo,
       StepsTaken, LastVersion
<1>16. CASE UNCHANGED indexVars
  BY <1>16 DEF indexVars, IndexInv, IndexTypeOK, VersionsHold, RecordedUpTo, TablesBefore, StepsTaken,
     NewColumns
<1> QED
  BY <1>1, <1>2, <1>3, <1>4, <1>5, <1>6, <1>7, <1>8, <1>9, <1>10, <1>11, <1>12, <1>13, <1>14, <1>15,
     <1>16 DEF IndexNext

(* However often starts were interrupted, statements failed or the file    *)
(* was damaged, and from whatever version: a provider that serves has the  *)
(* whole schema and has recorded all of it (ensureIndex, runMigrations).   *)
THEOREM ServingIsMigrated == IndexSpec => []ServesTheWholeSchema
<1>1. IndexInv => ServesTheWholeSchema
  BY DEF IndexInv, ServesTheWholeSchema
<1> QED
  BY IndexInitially, IndexStep, <1>1, PTL DEF IndexSpec

-----------------------------------------------------------------------------
(* Listings.  A row that nobody has written since the caller began was     *)
(* given once if the token is past it, and not yet if it is still ahead.   *)

Untouched == initial \ touched

ListingInv ==
  /\ ListingTypeOK
  /\ \A u \in Untouched : u \in DOMAIN table /\ table[u].shown
  /\ listing = "ready" => token = NoToken /\ \A u \in Untouched : listed[u] = 0
  /\ ~ restarted /\ listing = "open" =>
       /\ token.stamp > 0
       /\ \A u \in Untouched : listed[u] = IF AfterToken(u) THEN 0 ELSE 1
  /\ ~ restarted /\ listing = "over" => \A u \in Untouched : listed[u] = 1

LEMMA RowsAreNumbers ==
  ASSUME ListingInv
  PROVE  /\ DOMAIN table \subseteq Int /\ IsFiniteSet(DOMAIN table)
         /\ \A u \in DOMAIN table : table[u].stamp \in Int
         /\ token.stamp \in Int /\ token.urn \in Int
<1>1. IsFiniteSet(DOMAIN table)
  BY ListingAssumption, FS_Subset DEF ListingInv, ListingTypeOK
<1>2. DOMAIN table \subseteq Int
  BY ListingAssumption DEF ListingInv, ListingTypeOK
<1>3. \A u \in DOMAIN table : table[u].stamp \in Int
  BY ListingAssumption DEF ListingInv, ListingTypeOK
<1>4. token.stamp \in Int /\ token.urn \in Int
  <2>1. Stamps \cup {0} \subseteq Int /\ Urns \cup {0} \subseteq Int
    BY ListingAssumption
  <2>2. token.stamp \in Stamps \cup {0} /\ token.urn \in Urns \cup {0}
    BY DEF ListingInv, ListingTypeOK
  <2> QED
    BY <2>1, <2>2
<1> QED
  BY <1>1, <1>2, <1>3, <1>4

LEMMA MatchingIsFinite ==
  ASSUME ListingInv, NEW S \in SUBSET Matching
  PROVE  IsFiniteSet(S) /\ Cardinality(S) \in Nat
<1>1. S \subseteq DOMAIN table
  BY DEF Matching, Shown
<1> QED
  BY <1>1, RowsAreNumbers, FS_Subset, FS_CardinalityType

(* When no further row follows, the page is all there is.                  *)
LEMMA LastPageIsWhole ==
  ASSUME ListingInv, ~ (Cardinality(Matching) > PageSize)
  PROVE  Page = Matching
<1> SUFFICES ASSUME NEW u \in Matching PROVE u \in Page
  BY DEF Page
<1> DEFINE Before == {v \in Matching : Precedes(v, u)}
<1>1. Before \subseteq Matching /\ u \notin Before
  BY RowsAreNumbers DEF Precedes, Matching, Shown
<1>2. IsFiniteSet(Matching) /\ Cardinality(Matching) \in Nat /\ Cardinality(Before) \in Nat
  BY <1>1, MatchingIsFinite
<1>3. Cardinality(Before) < Cardinality(Matching)
  BY <1>1, <1>2, FS_Subset
<1>4. Cardinality(Before) < PageSize
  BY <1>2, <1>3, ListingAssumption
<1> QED
  BY <1>4 DEF Page

(* A page has every row before the last one of the page.                   *)
LEMMA PageIsPrefix ==
  ASSUME ListingInv, NEW x \in Page, NEW w \in Matching, Precedes(w, x)
  PROVE  w \in Page
<1> DEFINE Before(y) == {v \in Matching : Precedes(v, y)}
<1>1. x \in Matching /\ Cardinality(Before(x)) < PageSize
  BY DEF Page
<1>2. Before(w) \subseteq Before(x)
  BY <1>1, RowsAreNumbers DEF Precedes, Matching, Shown
<1>3. IsFiniteSet(Before(x)) /\ Cardinality(Before(x)) \in Nat /\ Cardinality(Before(w)) \in Nat
  BY MatchingIsFinite
<1>4. Cardinality(Before(w)) <= Cardinality(Before(x))
  BY <1>2, <1>3, FS_Subset
<1>5. Cardinality(Before(w)) < PageSize
  BY <1>1, <1>3, <1>4, ListingAssumption
<1> QED
  BY <1>5 DEF Page
-----------------------------------------------------------------------------
LEMMA ListingInitially == ListingInit => ListingInv
<1> SUFFICES ASSUME ListingInit PROVE ListingInv
  OBVIOUS
<1>1. PICK present \in SUBSET Urns : table \in [present -> [stamp : Stamps, shown : BOOLEAN]]
  BY DEF ListingInit
<1>2. DOMAIN table \subseteq Urns /\ \A u \in DOMAIN table : table[u] \in [stamp : Stamps, shown : BOOLEAN]
  BY <1>1
<1>3. initial \subseteq Urns /\ touched \subseteq Urns /\ \A u \in Untouched : u \in DOMAIN table /\ table[u].shown
  BY <1>2 DEF ListingInit, Shown, Untouched
<1>4. token \in [stamp : Stamps \cup {0}, urn : Urns \cup {0}]
  BY DEF ListingInit, NoToken
<1>5. listed \in [Urns -> Nat] /\ writes \in 0..MaxWrites
  BY ListingAssumption DEF ListingInit
<1>6. restarted \in BOOLEAN /\ listing = "ready"
  BY DEF ListingInit
<1>7. ListingTypeOK
  BY <1>2, <1>3, <1>4, <1>5, <1>6 DEF ListingTypeOK
<1>8. token = NoToken /\ \A u \in Untouched : listed[u] = 0
  BY <1>3 DEF ListingInit, Untouched
<1> QED
  BY <1>3, <1>6, <1>7, <1>8 DEF ListingInv

LEMMA WriteRowKeeps == ASSUME ListingInv, NEW w \in Urns, WriteRow(w) PROVE ListingInv'
<1>1. PICK row \in [stamp : Stamps, shown : BOOLEAN] :
        table' = [v \in DOMAIN table \cup {w} |-> IF v = w THEN row ELSE table[v]]
  BY DEF WriteRow
<1>2. touched' = touched \cup {w} /\ UNCHANGED <<token, listing, listed, initial, restarted>>
      /\ writes < MaxWrites /\ writes' = writes + 1
  BY DEF WriteRow
<1>3. ListingTypeOK'
  <2>1. DOMAIN table' \subseteq Urns
        /\ \A u \in DOMAIN table' : table'[u] \in [stamp : Stamps, shown : BOOLEAN]
    BY <1>1 DEF ListingInv, ListingTypeOK
  <2>2. writes' \in 0..MaxWrites
    BY <1>2, ListingAssumption DEF ListingInv, ListingTypeOK
  <2> QED
    BY <1>2, <2>1, <2>2 DEF ListingInv, ListingTypeOK
<1>4. Untouched' \subseteq Untouched /\ \A u \in Untouched' : u # w
  BY <1>2 DEF Untouched
<1>5. \A u \in Untouched' : u \in DOMAIN table' /\ table'[u] = table[u]
  BY <1>1, <1>4 DEF ListingInv
<1>6. \A u \in Untouched' : AfterToken(u)' <=> AfterToken(u)
  BY <1>2, <1>5 DEF AfterToken
<1> QED
  BY <1>2, <1>3, <1>4, <1>5, <1>6 DEF ListingInv

LEMMA ListPageKeeps == ASSUME ListingInv, ListPage PROVE ListingInv'
<1>1. UNCHANGED <<table, writes, initial, touched>> /\ ~ restarted /\ listing \in {"ready", "open"}
      /\ listed' = [u \in Urns |-> IF u \in Page THEN listed[u] + 1 ELSE listed[u]]
  BY DEF ListPage
<1>2. Untouched' = Untouched /\ Untouched \subseteq Urns
  BY <1>1 DEF Untouched, ListingInv, ListingTypeOK
<1>3. \A u \in Untouched : u \in DOMAIN table /\ table[u].shown /\ listed[u] \in Nat
  BY <1>2 DEF ListingInv, ListingTypeOK
(* What a row was given so far.                                            *)
<1>4. \A u \in Untouched : listed[u] = IF u \in Matching THEN 0 ELSE 1
  <2>1. CASE listing = "ready"
    BY <1>3, <2>1 DEF ListingInv, NoToken, Matching, Shown
  <2>2. CASE listing = "open"
    BY <1>1, <1>3, <2>2 DEF ListingInv, Matching, Shown
  <2> QED
    BY <1>1, <2>1, <2>2
<1>5. listed' \in [Urns -> Nat]
  BY <1>1 DEF ListingInv, ListingTypeOK
<1>6. Page \subseteq Matching /\ Matching \subseteq DOMAIN table
  BY DEF Page, Matching, Shown
<1>7. CASE ~ (Cardinality(Matching) > PageSize)
  <2>1. token' = NoToken /\ listing' = "over" /\ restarted' = restarted
    BY <1>7 DEF ListPage
  <2>2. Page = Matching
    BY <1>7, LastPageIsWhole
  <2>3. \A u \in Untouched : listed'[u] = 1
    BY <1>1, <1>2, <1>4, <2>2
  <2>4. ListingTypeOK'
    <3>1. token' \in [stamp : Stamps \cup {0}, urn : Urns \cup {0}]
      BY <2>1 DEF NoToken
    <3> QED
      BY <1>1, <1>5, <2>1, <3>1 DEF ListingInv, ListingTypeOK
  <2> QED
    BY <1>1, <1>2, <1>3, <2>1, <2>3, <2>4 DEF ListingInv
<1>8. CASE Cardinality(Matching) > PageSize
  <2>1. PICK x \in Page :
          /\ IsLast(x, Page)
          /\ token' = [stamp |-> table[x].stamp, urn |-> x]
          /\ restarted' = (restarted \/ table[x].stamp <= 0)
          /\ listing' = "open"
    BY <1>8 DEF ListPage
  <2>2. x \in DOMAIN table /\ x \in Matching /\ x \in Int /\ table[x].stamp \in Int
    BY <1>6, RowsAreNumbers
  <2>3. token'.stamp = table[x].stamp /\ token'.urn = x
    BY <2>1
  <2>4. ~ restarted' => token'.stamp > 0
    <3>1. ~ restarted' => ~ (table[x].stamp <= 0)
      BY <2>1
    <3>2. ~ (table[x].stamp <= 0) => table[x].stamp > 0
      BY <2>2
    <3> QED
      BY <2>3, <3>1, <3>2
  (* The new token is past exactly the rows of this page and earlier ones. *)
  <2>5. \A w \in Untouched : AfterToken(w)' <=> w \in Matching /\ w \notin Page
    <3> TAKE w \in Untouched
    <3>1. w \in DOMAIN table /\ w \in Int /\ table[w].stamp \in Int
      BY <1>3, RowsAreNumbers
    <3>2. AfterToken(w)' <=> Precedes(x, w)
      BY <1>1, <2>2, <2>3, <3>1 DEF AfterToken, Precedes
    <3>3. CASE w \in Page
      <4>1. w = x \/ Precedes(w, x)
        BY <2>1, <3>3 DEF IsLast
      <4>2. ~ Precedes(x, w)
        BY <2>2, <3>1, <4>1 DEF Precedes
      <4> QED
        BY <3>2, <3>3, <4>2
    <3>4. CASE w \in Matching /\ w \notin Page
      <4>1. ~ Precedes(w, x) /\ w # x
        BY <3>4, PageIsPrefix
      <4>2. Precedes(x, w)
        BY <2>2, <3>1, <4>1 DEF Precedes
      <4> QED
        BY <3>2, <3>4, <4>2
    <3>5. CASE w \notin Matching
      <4>1. token.stamp > 0 /\ ~ AfterToken(w) /\ AfterToken(x)
        BY <1>3, <2>2, <3>5 DEF Matching, Shown
      <4>2. ~ Precedes(x, w)
        BY <2>2, <3>1, <4>1, RowsAreNumbers DEF AfterToken, Precedes
      <4> QED
        BY <3>2, <3>5, <4>2
    <3> QED
      BY <1>6, <3>3, <3>4, <3>5
  <2>6. \A u \in Untouched : listed'[u] = IF u \in Matching /\ u \notin Page THEN 0 ELSE 1
    BY <1>1, <1>2, <1>4, <1>6
  <2>7. ListingTypeOK'
    <3>1. token' \in [stamp : Stamps \cup {0}, urn : Urns \cup {0}]
      BY <2>1, <2>2 DEF ListingInv, ListingTypeOK
    <3>2. restarted' \in BOOLEAN
      BY <2>1
    <3> QED
      BY <1>1, <1>5, <2>1, <3>1, <3>2 DEF ListingInv, ListingTypeOK
  <2>8. \A u \in Untouched : listed'[u] = IF AfterToken(u)' THEN 0 ELSE 1
    BY <2>5, <2>6
  <2> QED
    BY <1>1, <1>2, <1>3, <2>1, <2>4, <2>7, <2>8 DEF ListingInv
<1> QED
  BY <1>7, <1>8

LEMMA ListingStep == ListingInv /\ [ListingNext]_listingVars => ListingInv'
<1> SUFFICES ASSUME ListingInv, [ListingNext]_listingVars PROVE ListingInv'
  OBVIOUS
<1>1. CASE ListPage
  BY <1>1, ListPageKeeps
<1>2. CASE \E u \in Urns : WriteRow(u)
  BY <1>2, WriteRowKeeps
<1>3. CASE UNCHANGED listingVars
  BY <1>3 DEF listingVars, ListingInv, ListingTypeOK, Untouched, AfterToken
<1> QED
  BY <1>1, <1>2, <1>3 DEF ListingNext

(* For every set of notes, times and writes and every page size: a row     *)
(* that nobody writes is given exactly once (queryNotes).                  *)
THEOREM EveryRowOnce == ListingSpec => []ListedOnce
<1>1. ListingInv => ListedOnce
  <2> SUFFICES ASSUME ListingInv, ~ restarted, NEW u \in Untouched
               PROVE  listed[u] <= 1 /\ (listing = "over" => listed[u] = 1)
    BY DEF ListedOnce, Untouched
  <2> QED
    BY DEF ListingInv, ListingTypeOK
<1> QED
  BY ListingInitially, ListingStep, <1>1, PTL DEF ListingSpec

-----------------------------------------------------------------------------
(* The end of the server.  A transport whose shutdown is done accepts no   *)
(* request and, unless the deadline has passed, has none in flight; writeCh*)
(* is closed only after both shutdowns.                                    *)

WorkersAreSane ==
  /\ worker \in [Workers -> {"absent", "working", "queued", "done", "cut"}]
  /\ queue \in Seq(Workers) /\ writing \in Workers \cup {Nobody}
  /\ \A j, k \in 1..Len(queue) : queue[j] = queue[k] => j = k
  /\ \A k \in 1..Len(queue) : worker[queue[k]] = "queued" /\ queue[k] # writing
  /\ writing # Nobody => worker[writing] = "queued"

ShutdownsAreSane ==
  /\ shutdown \in [Transports -> {"none", "called", "waiting", "done"}]
  /\ transport \in [Transports -> {"starting", "serving", "failing", "returned"}]
  /\ dropped \subseteq Requests
  /\ main = "select" => \A t \in Transports : shutdown[t] = "none"
  /\ \A t \in Transports : shutdown[t] \in {"waiting", "done"} => transport[t] # "serving"
  /\ \A t \in Transports : shutdown[t] = "done" => expired \/ Drained(t)
  /\ main \notin {"select", "shutdown"} => \A t \in Transports : shutdown[t] = "done"
  /\ closed => main \notin {"select", "shutdown"}

LifeInv == WorkersAreSane /\ ShutdownsAreSane /\ NoRequestIsDropped

LEMMA RequestsAreWorkers ==
  /\ Requests \subseteq Workers /\ Runners \subseteq Workers /\ Followers \subseteq Workers
  /\ Requests \cap Runners = {} /\ Requests \cap Followers = {}
  /\ Nobody \notin Workers
  /\ \A r \in Requests : \E t \in Transports : r \in RequestsOf(t)
  /\ \A t \in Transports : RequestsOf(t) \subseteq Requests
  BY WorkerAssumption DEF Requests, Workers, Transports, RequestsOf

LEMMA LifeInitially == LifeInit => LifeInv
<1> SUFFICES ASSUME LifeInit PROVE LifeInv
  OBVIOUS
<1>1. WorkersAreSane
  BY RequestsAreWorkers DEF LifeInit, WorkersAreSane
<1>2. ShutdownsAreSane
  BY DEF LifeInit, ShutdownsAreSane
<1> QED
  BY <1>1, <1>2 DEF LifeInit, LifeInv, NoRequestIsDropped

(* After the shutdowns nobody is dropped before the deadline.              *)
LEMMA NobodyLeft ==
  ASSUME ShutdownsAreSane, main \notin {"select", "shutdown"}, ~ expired,
         NEW r \in Requests
  PROVE  ~ Busy(r)
  BY RequestsAreWorkers DEF ShutdownsAreSane, Drained

(* Steps of the workers: no request becomes busy except by arriving.       *)
LEMMA QuietWorkers ==
  ASSUME ShutdownsAreSane, UNCHANGED <<main, transport, shutdown, expired, closed>>,
         dropped' \subseteq Requests, \A r \in Requests : Busy(r)' => Busy(r)
  PROVE  ShutdownsAreSane'
<1>1. \A t \in Transports : Drained(t) => Drained(t)'
  BY RequestsAreWorkers DEF Drained
<1> QED
  BY <1>1 DEF ShutdownsAreSane

LEMMA WorkerStep ==
  ASSUME WorkersAreSane, NEW w \in Workers, worker[w] # "queued",
         NEW s \in {"working", "done", "cut"},
         worker' = [worker EXCEPT ![w] = s], UNCHANGED <<queue, writing>>
  PROVE  WorkersAreSane'
  BY DEF WorkersAreSane

(* The workers and the writer.                                             *)
LEMMA WorkersKeep ==
  ASSUME LifeInv, Working \/ WriterLoop \/ \E r \in Requests : Arrive(r)
  PROVE  LifeInv'
<1> USE RequestsAreWorkers
<1>1. WorkersAreSane /\ ShutdownsAreSane /\ NoRequestIsDropped /\ dropped \subseteq Requests
  BY DEF LifeInv, ShutdownsAreSane
<1>2. ASSUME NEW r \in Requests, Arrive(r) PROVE LifeInv'
  <2>1. worker' = [worker EXCEPT ![r] = "working"] /\ worker[r] = "absent"
        /\ UNCHANGED <<main, transport, shutdown, expired, closed, queue, writing, dropped, process>>
    BY <1>2 DEF Arrive, serverVars, providerVars
  <2>2. WorkersAreSane'
    BY <1>1, <2>1, WorkerStep
  <2>3. PICK t \in Transports : r \in RequestsOf(t) /\ transport[t] = "serving"
    BY <1>2 DEF Arrive
  <2>4. \A u \in Transports : shutdown[u] = "done" => r \notin RequestsOf(u)
    BY <1>1, <2>3, WorkerAssumption DEF ShutdownsAreSane, Transports, RequestsOf
  <2>5. \A u \in Transports : shutdown[u] = "done" /\ Drained(u) => Drained(u)'
    BY <1>1, <2>1, <2>4 DEF Drained, Busy, WorkersAreSane
  <2>6. ShutdownsAreSane'
    BY <1>1, <2>1, <2>5 DEF ShutdownsAreSane
  <2> QED
    BY <1>1, <2>1, <2>2, <2>6 DEF LifeInv, NoRequestIsDropped
<1>3. ASSUME NEW w \in Workers, Finish(w) \/ RunnerEnds(w) PROVE LifeInv'
  <2>1. worker' = [worker EXCEPT ![w] = "done"] /\ worker[w] = "working"
        /\ UNCHANGED <<main, transport, shutdown, expired, closed, queue, writing, dropped, process>>
    BY <1>3 DEF Finish, RunnerEnds, serverVars, providerVars
  <2>2. WorkersAreSane'
    BY <1>1, <2>1, WorkerStep
  <2>3. \A r \in Requests : Busy(r)' => Busy(r)
    BY <1>1, <2>1 DEF Busy, WorkersAreSane
  <2>4. ShutdownsAreSane'
    BY <1>1, <2>1, <2>3, QuietWorkers
  <2> QED
    BY <1>1, <2>1, <2>2, <2>4 DEF LifeInv, NoRequestIsDropped
<1>4. ASSUME NEW w \in Workers, Send(w) PROVE LifeInv'
  <2>1. worker' = [worker EXCEPT ![w] = "queued"] /\ worker[w] = "working"
        /\ queue' = Append(queue, w)
        /\ UNCHANGED <<main, transport, shutdown, expired, closed, writing, dropped, process>>
    BY <1>4 DEF Send, serverVars
  <2>2. WorkersAreSane'
    <3>1. queue \in Seq(Workers) /\ worker \in [Workers -> {"absent", "working", "queued", "done", "cut"}]
          /\ \A k \in 1..Len(queue) : queue[k] \in Workers /\ queue[k] # w
      BY <1>1, <2>1 DEF WorkersAreSane
    <3>2. Len(queue') = Len(queue) + 1 /\ queue' \in Seq(Workers) /\ Len(queue) \in Nat
          /\ queue'[Len(queue) + 1] = w /\ \A k \in 1..Len(queue) : queue'[k] = queue[k]
      BY <2>1, <3>1
    <3>3. w # writing
      BY <1>1, <2>1 DEF WorkersAreSane
    <3>4. \A j, k \in 1..Len(queue') : queue'[j] = queue'[k] => j = k
      BY <1>1, <3>1, <3>2 DEF WorkersAreSane
    <3>5. \A k \in 1..Len(queue') : worker'[queue'[k]] = "queued" /\ queue'[k] # writing
      BY <1>1, <2>1, <3>1, <3>2, <3>3 DEF WorkersAreSane
    <3>6. writing # Nobody => worker'[writing] = "queued"
      BY <1>1, <2>1, <3>1 DEF WorkersAreSane
    <3> QED
      BY <1>1, <2>1, <3>1, <3>2, <3>4, <3>5, <3>6 DEF WorkersAreSane
  <2>3. \A r \in Requests : Busy(r)' => Busy(r)
    BY <1>1, <2>1 DEF Busy, WorkersAreSane
  <2>4. ShutdownsAreSane'
    BY <1>1, <2>1, <2>3, QuietWorkers
  <2> QED
    BY <1>1, <2>1, <2>2, <2>4 DEF LifeInv, NoRequestIsDropped
<1>5. ASSUME NEW w \in Workers, SendPanics(w) PROVE LifeInv'
  <2>1. worker' = [worker EXCEPT ![w] = "cut"] /\ worker[w] = "working" /\ closed
        /\ UNCHANGED <<main, transport, shutdown, expired, closed, queue, writing>>
    BY <1>5 DEF SendPanics, serverVars, providerVars
  <2>2. WorkersAreSane'
    BY <1>1, <2>1, WorkerStep
  <2>3. \A r \in Requests : Busy(r)' => Busy(r)
    BY <1>1, <2>1 DEF Busy, WorkersAreSane
  <2>4. dropped' \subseteq Requests /\ (~ expired => dropped' = dropped)
        /\ (process' = process \/ process = "running")
    <3>1. ~ expired => \A r \in Requests : ~ Busy(r)
      BY <1>1, <2>1, NobodyLeft DEF ShutdownsAreSane
    <3>2. w \in Requests => Busy(w)
      BY <2>1 DEF Busy
    <3> QED
      BY <1>1, <1>5, <3>1, <3>2 DEF SendPanics, Running
  <2>5. ShutdownsAreSane'
    BY <1>1, <2>1, <2>3, <2>4, QuietWorkers
  <2>6. NoRequestIsDropped'
    BY <1>1, <2>1, <2>4 DEF NoRequestIsDropped
  <2> QED
    BY <2>2, <2>5, <2>6 DEF LifeInv
<1>6. CASE Take
  <2>1. queue # << >> /\ queue' = Tail(queue) /\ writing = Nobody /\ writing' = Head(queue)
        /\ UNCHANGED <<main, transport, shutdown, expired, closed, worker, dropped, process>>
    BY <1>6 DEF Take, serverVars
  <2>2. WorkersAreSane'
    <3>1. queue \in Seq(Workers) /\ Len(queue) \in Nat \ {0} /\ Head(queue) = queue[1]
      BY <1>1, <2>1 DEF WorkersAreSane
    <3>2. queue' \in Seq(Workers) /\ Len(queue') = Len(queue) - 1
          /\ \A k \in 1..Len(queue') : queue'[k] = queue[k + 1]
      BY <2>1, <3>1
    <3>3. \A j, k \in 1..Len(queue') : queue'[j] = queue'[k] => j = k
      BY <1>1, <3>1, <3>2 DEF WorkersAreSane
    <3>4. \A k \in 1..Len(queue') : worker[queue'[k]] = "queued" /\ queue'[k] # queue[1]
      <4> TAKE k \in 1..Len(queue')
      <4>1. k + 1 \in 1..Len(queue) /\ 1 \in 1..Len(queue) /\ k + 1 # 1 /\ queue'[k] = queue[k + 1]
        BY <3>1, <3>2
      <4> QED
        BY <1>1, <4>1 DEF WorkersAreSane
    <3>5. writing' \in Workers /\ worker[writing'] = "queued"
      BY <1>1, <2>1, <3>1 DEF WorkersAreSane
    <3> QED
      BY <1>1, <2>1, <3>1, <3>2, <3>3, <3>4, <3>5 DEF WorkersAreSane
  <2>3. \A r \in Requests : Busy(r)' => Busy(r)
    BY <2>1 DEF Busy
  <2>4. ShutdownsAreSane'
    BY <1>1, <2>1, <2>3, QuietWorkers
  <2> QED
    BY <1>1, <2>1, <2>2, <2>4 DEF LifeInv, NoRequestIsDropped
<1>7. CASE Execute
  <2>1. writing # Nobody /\ writing' = Nobody
        /\ UNCHANGED <<main, transport, shutdown, expired, closed, queue, dropped, process>>
    BY <1>7 DEF Execute, serverVars
  <2>2. writing \in Workers /\ worker[writing] = "queued"
        /\ worker \in [Workers -> {"absent", "working", "queued", "done", "cut"}]
        /\ queue \in Seq(Workers) /\ \A k \in 1..Len(queue) : queue[k] \in Workers
    BY <1>1, <2>1 DEF WorkersAreSane
  <2>3. /\ worker' \in [Workers -> {"absent", "working", "queued", "done", "cut"}]
        /\ \A v \in Workers : v # writing /\ worker[v] # "absent" => worker'[v] = worker[v]
        /\ \A r \in Requests : r # writing => worker'[r] = worker[r]
    BY <1>7, <2>2 DEF Execute
  <2>4. WorkersAreSane'
    BY <1>1, <2>1, <2>2, <2>3 DEF WorkersAreSane
  <2>5. \A r \in Requests : Busy(r)' => Busy(r)
    BY <2>2, <2>3 DEF Busy
  <2>6. ShutdownsAreSane'
    BY <1>1, <2>1, <2>5, QuietWorkers
  <2> QED
    BY <1>1, <2>1, <2>4, <2>6 DEF LifeInv, NoRequestIsDropped
<1>8. CASE WriterEnds
  <2>1. UNCHANGED <<main, transport, shutdown, expired, worker, queue, closed, writing, dropped, process>>
    BY <1>8 DEF WriterEnds, serverVars
  <2> QED
    BY <1>1, <2>1 DEF LifeInv, WorkersAreSane, ShutdownsAreSane, NoRequestIsDropped, Drained, Busy
<1> QED
  BY <1>2, <1>3, <1>4, <1>5, <1>6, <1>7, <1>8 DEF Working, WriterLoop

(* Steps that leave the workers alone.                                     *)
LEMMA SameWorkers ==
  ASSUME WorkersAreSane, UNCHANGED <<worker, queue, writing>>
  PROVE  /\ WorkersAreSane' /\ \A r \in Requests : Busy(r)' <=> Busy(r)
         /\ \A t \in Transports : Drained(t)' <=> Drained(t)
  BY DEF WorkersAreSane, Busy, Drained

LEMMA ServersKeep ==
  ASSUME LifeInv,
         \/ \E t \in Transports : Serving(t) \/ ServeFails(t)
         \/ Stopping \/ Signal \/ Kill
  PROVE  LifeInv'
<1> USE RequestsAreWorkers
<1>1. WorkersAreSane /\ ShutdownsAreSane /\ NoRequestIsDropped /\ dropped \subseteq Requests
  BY DEF LifeInv, ShutdownsAreSane
<1>2. UNCHANGED <<worker, queue, writing>>
  BY DEF Serving, Listen, ServeAfterShutdown, ReportError, ServeFails, Stopping, BeginShutdown, Expire,
         ShutdownsDone, RunReturns, CloseProvider, Exit, CloseListener, ShutdownCompletes,
         ShutdownExpires, Signal, Kill, providerVars
<1>3. /\ WorkersAreSane' /\ \A r \in Requests : Busy(r)' <=> Busy(r)
      /\ \A t \in Transports : Drained(t)' <=> Drained(t)
  BY <1>1, <1>2, SameWorkers
<1>4. ASSUME NEW t \in Transports, Serving(t) \/ ServeFails(t) PROVE LifeInv'
  <2>1. UNCHANGED <<main, shutdown, expired, closed, dropped, process>>
    BY <1>4 DEF Serving, Listen, ServeAfterShutdown, ReportError, ServeFails, providerVars
  <2>2. \E s \in {"serving", "failing", "returned"} :
          /\ transport' = [transport EXCEPT ![t] = s]
          /\ s = "serving" => shutdown[t] \in {"none", "called"}
    BY <1>4 DEF Serving, Listen, ServeAfterShutdown, ReportError, ServeFails
  <2>3. ShutdownsAreSane'
    BY <1>1, <1>3, <2>1, <2>2 DEF ShutdownsAreSane
  <2> QED
    BY <1>1, <1>3, <2>1, <2>3 DEF LifeInv, NoRequestIsDropped
<1>5. CASE BeginShutdown
  <2>1. main = "select" /\ main' = "shutdown" /\ shutdown' = [t \in Transports |-> "called"]
        /\ UNCHANGED <<transport, expired, closed, dropped, process>>
    BY <1>5 DEF BeginShutdown, providerVars
  <2>2. ShutdownsAreSane'
    BY <1>1, <1>3, <2>1 DEF ShutdownsAreSane
  <2> QED
    BY <1>1, <1>3, <2>1, <2>2 DEF LifeInv, NoRequestIsDropped
<1>6. CASE Expire
  <2>1. expired' = TRUE /\ UNCHANGED <<main, transport, shutdown, closed, dropped, process>>
    BY <1>6 DEF Expire, providerVars
  <2>2. ShutdownsAreSane'
    BY <1>1, <1>3, <2>1 DEF ShutdownsAreSane
  <2> QED
    BY <1>3, <2>1, <2>2 DEF LifeInv, NoRequestIsDropped
<1>7. CASE ShutdownsDone \/ RunReturns \/ CloseProvider
  <2>1. UNCHANGED <<transport, shutdown, expired, dropped, process>>
    BY <1>7 DEF ShutdownsDone, RunReturns, CloseProvider, providerVars
  <2>2. \A t \in Transports : shutdown[t] = "done"
    BY <1>1, <1>7 DEF ShutdownsDone, RunReturns, CloseProvider, ShutdownsAreSane
  <2>3. main' \in {"wait", "close", "drain"}
    BY <1>7 DEF ShutdownsDone, RunReturns, CloseProvider
  <2>4. ShutdownsAreSane'
    BY <1>1, <1>3, <2>1, <2>2, <2>3 DEF ShutdownsAreSane
  <2> QED
    BY <1>1, <1>3, <2>1, <2>4 DEF LifeInv, NoRequestIsDropped
<1>8. CASE Exit
  <2>1. main = "drain" /\ main' = "over" /\ UNCHANGED <<transport, shutdown, expired, closed>>
        /\ dropped' = dropped \cup {r \in Requests : Busy(r)} /\ process = "running"
    BY <1>8 DEF Exit, providerVars, Running
  <2>2. ~ expired => dropped' = dropped
    BY <1>1, <2>1, NobodyLeft
  <2>3. dropped' # {} => expired
    BY <1>1, <2>1, <2>2 DEF NoRequestIsDropped
  <2>4. ShutdownsAreSane'
    BY <1>1, <1>3, <2>1 DEF ShutdownsAreSane
  <2> QED
    BY <1>3, <2>1, <2>3, <2>4 DEF LifeInv, NoRequestIsDropped
<1>9. ASSUME NEW t \in Transports, CloseListener(t) PROVE LifeInv'
  <2>1. shutdown[t] = "called" /\ shutdown' = [shutdown EXCEPT ![t] = "waiting"]
        /\ transport' = [transport EXCEPT ![t] = IF @ = "serving" THEN "returned" ELSE @]
        /\ UNCHANGED <<main, expired, closed, dropped, process>>
    BY <1>9 DEF CloseListener, providerVars
  <2>2. ShutdownsAreSane'
    BY <1>1, <1>3, <2>1 DEF ShutdownsAreSane
  <2> QED
    BY <1>1, <1>3, <2>1, <2>2 DEF LifeInv, NoRequestIsDropped
<1>10. ASSUME NEW t \in Transports, ShutdownCompletes(t) \/ ShutdownExpires(t) PROVE LifeInv'
  <2>1. shutdown[t] = "waiting" /\ shutdown' = [shutdown EXCEPT ![t] = "done"]
        /\ (expired \/ Drained(t)) /\ UNCHANGED <<main, transport, expired, closed, process>>
        /\ dropped' \subseteq Requests /\ (expired \/ dropped' = dropped)
    BY <1>1, <1>10 DEF ShutdownCompletes, ShutdownExpires, providerVars, Requests
  <2>2. ShutdownsAreSane'
    BY <1>1, <1>3, <2>1 DEF ShutdownsAreSane
  <2> QED
    BY <1>1, <1>3, <2>1, <2>2 DEF LifeInv, NoRequestIsDropped
<1>11. CASE Signal
  <2>1. UNCHANGED <<main, transport, shutdown, expired, closed, dropped, process>>
    BY <1>11 DEF Signal, providerVars
  <2>2. ShutdownsAreSane'
    BY <1>1, <1>3, <2>1 DEF ShutdownsAreSane
  <2> QED
    BY <1>1, <1>3, <2>1, <2>2 DEF LifeInv, NoRequestIsDropped
<1>12. CASE Kill
  <2>1. UNCHANGED <<main, transport, shutdown, expired, closed>> /\ process' = "killed"
        /\ dropped' \subseteq Requests
    BY <1>1, <1>12 DEF Kill, providerVars, serverVars
  <2>2. ShutdownsAreSane'
    BY <1>1, <1>3, <2>1 DEF ShutdownsAreSane
  <2> QED
    BY <1>3, <2>1, <2>2 DEF LifeInv, NoRequestIsDropped
<1> QED
  BY <1>4, <1>5, <1>6, <1>7, <1>8, <1>9, <1>10, <1>11, <1>12 DEF Stopping

LEMMA LifeStep == LifeInv /\ [LifeNext]_lifeVars => LifeInv'
<1> SUFFICES ASSUME LifeInv, [LifeNext]_lifeVars PROVE LifeInv'
  OBVIOUS
<1>1. CASE UNCHANGED lifeVars
  BY <1>1 DEF lifeVars, serverVars, providerVars, LifeInv, WorkersAreSane, ShutdownsAreSane,
     NoRequestIsDropped, Drained, Busy
<1> QED
  BY <1>1, WorkersKeep, ServersKeep DEF LifeNext

(* Whatever the number of requests, runners and goroutines, the capacity of*)
(* writeCh and the failures of the transports: a request in flight is only *)
(* dropped past the deadline or by the stop command (Server.run, Close).   *)
THEOREM InFlightComplete == LifeSpec => []NoRequestIsDropped
<1>1. LifeInv => NoRequestIsDropped
  BY DEF LifeInv
<1> QED
  BY LifeInitially, LifeStep, <1>1, PTL DEF LifeSpec

-----------------------------------------------------------------------------
(* The types of the modules one by one, and of their composition.          *)
LEMMA IndexIsTyped == IndexSpec => []IndexTypeOK
<1>1. IndexInv => IndexTypeOK
  BY DEF IndexInv
<1> QED
  BY IndexInitially, IndexStep, <1>1, PTL DEF IndexSpec

LEMMA ListingIsTyped == ListingSpec => []ListingTypeOK
<1>1. ListingInv => ListingTypeOK
  BY DEF ListingInv
<1> QED
  BY ListingInitially, ListingStep, <1>1, PTL DEF ListingSpec

(* What LifeInv does not say: the stage of the end and the error channel,  *)
(* which a transport only writes to when it has room.                      *)
StagesAreTyped ==
  /\ main \in {"select", "shutdown", "wait", "close", "drain", "over"}
  /\ errCh \in 0..ErrChCap
  /\ signalled \in BOOLEAN /\ expired \in BOOLEAN
  /\ closed \in BOOLEAN /\ writerEnded \in BOOLEAN
  /\ process \in {"running", "exited", "panicked", "killed"}

LEMMA StagesStayTyped == StagesAreTyped /\ [LifeNext]_lifeVars => StagesAreTyped'
<1> SUFFICES ASSUME StagesAreTyped, [LifeNext]_lifeVars PROVE StagesAreTyped'
  OBVIOUS
<1> USE DEF StagesAreTyped, serverVars, providerVars, ErrChCap
<1>1. ASSUME NEW t \in Transports, Serving(t) \/ ServeFails(t) PROVE StagesAreTyped'
  BY <1>1 DEF Serving, Listen, ServeAfterShutdown, ReportError, ServeFails
<1>2. CASE Stopping
  <2>1. CASE BeginShutdown
    BY <2>1 DEF BeginShutdown
  <2>2. CASE Expire \/ ShutdownsDone \/ RunReturns \/ CloseProvider \/ Exit
    <3>1. errCh' = errCh \/ errCh' = 0
      BY <2>2 DEF Expire, ShutdownsDone, RunReturns, CloseProvider, Exit
    <3>2. errCh' \in 0..2
      BY <3>1
    <3> QED
      BY <2>2, <3>2, Zenon DEF Expire, ShutdownsDone, RunReturns, CloseProvider, Exit
  <2>3. ASSUME NEW t \in Transports, CloseListener(t) \/ ShutdownCompletes(t) \/ ShutdownExpires(t)
        PROVE  StagesAreTyped'
    BY <2>3 DEF CloseListener, ShutdownCompletes, ShutdownExpires
  <2> QED
    BY <1>2, <2>1, <2>2, <2>3 DEF Stopping
<1>3. CASE WriterLoop
  BY <1>3 DEF WriterLoop, Take, Execute, WriterEnds
<1>4. ASSUME NEW w \in Workers, Finish(w) \/ RunnerEnds(w) \/ Send(w) \/ SendPanics(w)
      PROVE  StagesAreTyped'
  BY <1>4 DEF Finish, RunnerEnds, Send, SendPanics
<1>5. CASE Signal \/ Kill
  BY <1>5 DEF Signal, Kill
<1>6. ASSUME NEW r \in Requests, Arrive(r) PROVE StagesAreTyped'
  BY <1>6 DEF Arrive
<1>7. CASE UNCHANGED lifeVars
  BY <1>7 DEF lifeVars
<1> QED
  BY <1>1, <1>2, <1>3, <1>4, <1>5, <1>6, <1>7 DEF LifeNext, Working

LEMMA LifeIsTyped == LifeSpec => []LifeTypeOK
<1>1. LifeInit => StagesAreTyped
  <2>1. 0 \in 0..2
    OBVIOUS
  <2> QED
    BY <2>1, Zenon DEF LifeInit, StagesAreTyped, ErrChCap
<1>2. LifeInv /\ StagesAreTyped => LifeTypeOK
  BY DEF LifeInv, WorkersAreSane, ShutdownsAreSane, StagesAreTyped, LifeTypeOK
<1> QED
  BY LifeInitially, LifeStep, StagesStayTyped, <1>1, <1>2, PTL DEF LifeSpec

(* A step of the provider is a step of each of its parts.                  *)
LEMMA ProviderSteps ==
  [ProviderNext]_<<focus, partVars>> =>
    [Next]_vars /\ [IndexNext]_indexVars /\ [ListingNext]_listingVars /\ [LifeNext]_lifeVars
<1>1. UNCHANGED partVars => UNCHANGED <<vars, indexVars, listingVars, lifeVars>>
  BY DEF partVars
<1> QED
  BY <1>1 DEF ProviderNext

LEMMA ProviderHasItsParts == ProviderSpec => Spec /\ IndexSpec /\ ListingSpec /\ LifeSpec
<1>1. ProviderInit => Init /\ IndexInit /\ ListingInit /\ LifeInit
  BY DEF ProviderInit
<1> QED
  BY <1>1, ProviderSteps, PTL DEF ProviderSpec, Spec, IndexSpec, ListingSpec, LifeSpec

(* The provider keeps the types of its columns, queues and counters from   *)
(* its start to its end: among them, that a note's row holds values of its *)
(* columns, that the error channel is never over its capacity, and that    *)
(* every version recorded is one that there is (provider.go, migrate).     *)
THEOREM ProviderIsTyped == ProviderSpec => []ProviderTypeOK
<1>1. TypeOK /\ IndexTypeOK /\ ListingTypeOK /\ LifeTypeOK => ProviderTypeOK
  BY DEF ProviderTypeOK
<1> QED
  BY <1>1, ProviderHasItsParts, TypeCorrect, IndexIsTyped, ListingIsTyped, LifeIsTyped, PTL

(* What the provider promises holds together, in the specification that it *)
(* is checked in: the tables are the log that the abstract specification   *)
(* is, with the content that its events make; a replacement stores exactly *)
(* the text it was given; no request meets an unmigrated table; a listing  *)
(* gives each row once; and no request is cut off by the end of the server.*)
THEOREM ProviderIsSafe ==
  ProviderSpec =>
    /\ [](LogMatchesHead /\ AcknowledgedOnceAndKept /\ ContentReflectsLog)
    /\ ReplaceIsExact /\ ImplementsNoteLog
    /\ [](ServesTheWholeSchema /\ ListedOnce /\ NoRequestIsDropped)
  BY ProviderHasItsParts, LogAlwaysMatchesHead, AcknowledgementsHold, ContentAlwaysReflectsLog,
     ReplacementIsExact, TablesImplementNoteLog, ServingIsMigrated, EveryRowOnce, InFlightComplete, PTL
=============================================================================
