--------------------------- MODULE StorageProofs ---------------------------
(***************************************************************************)
(* Proofs about the in-memory provider, for every number of notes, clients *)
(* and events; and, from the proofs of the modules one by one, the types   *)
(* of all that is stored.                                                  *)
(***************************************************************************)
EXTENDS MCStorage, ContentProofs, FileStoreProofs, LinkSyncProofs, ContextGraphProofs

-----------------------------------------------------------------------------
(* The in-memory provider.  The object behind a header may fall behind its *)
(* stream, so that nothing can be said of what it counts; but AppendEvent  *)
(* checks the sequence against both, and what is reported or about to be   *)
(* reported is in the stream and is reported once.                         *)

EveryNoteReplays == \A n \in MemoryNotes : Replays(n)

Reported(n, s) == <<n, s>> \in answered \/ \E c \in Appenders : returning[c] = <<n, s>>

MemoryInv ==
  /\ MemoryTypeOK
  /\ EveryNoteReplays
  /\ \A n \in MemoryNotes : headers[n] = Absent => streams[n] = << >>
  /\ \A n \in MemoryNotes, s \in Nat : Reported(n, s) => s \in 1..Len(streams[n])
  /\ \A c, d \in Appenders :
       returning[c] # Nothing /\ returning[c] = returning[d] => c = d
  /\ \A c \in Appenders : returning[c] \notin answered

LEMMA MemoryStarts == MemoryInit => MemoryInv
  BY DEF MemoryInit, MemoryInv, MemoryTypeOK, EveryNoteReplays, Replays, Reported, Absent, Nothing

(* A step that changes only headers and removes none keeps the invariant.  *)
LEMMA HeaderStepKeeps ==
  ASSUME MemoryInv, UNCHANGED <<streams, returning, answered>>,
         headers' \in [MemoryNotes -> MemoryHeader \cup {Absent}], counted' \in [MemoryNotes -> Nat],
         \A m \in MemoryNotes : headers'[m] = Absent => headers[m] = Absent
  PROVE  MemoryInv'
<1>1. MemoryTypeOK' /\ EveryNoteReplays'
  BY DEF MemoryInv, MemoryTypeOK, EveryNoteReplays, Replays
<1>2. \A n \in MemoryNotes, s \in Nat : Reported(n, s)' <=> Reported(n, s)
  BY DEF Reported
<1> QED
  BY <1>1, <1>2 DEF MemoryInv

LEMMA MemoryInvKept == MemoryInv /\ [MemoryNext]_memoryVars => MemoryInv'
<1> SUFFICES ASSUME MemoryInv, [MemoryNext]_memoryVars PROVE MemoryInv'
  OBVIOUS
<1>0. ASSUME NEW n \in MemoryNotes, NEW h \in MemoryHeader,
             headers' = [headers EXCEPT ![n] = h], counted' \in [MemoryNotes -> Nat],
             UNCHANGED <<streams, returning, answered>>
      PROVE MemoryInv'
  <2>1. headers \in [MemoryNotes -> MemoryHeader \cup {Absent}] /\ h # Absent
    <3>1. "type" \in DOMAIN h /\ "type" \notin DOMAIN Absent
      BY DEF MemoryHeader, Absent
    <3> QED
      BY <3>1 DEF MemoryInv, MemoryTypeOK
  <2>2. /\ headers' \in [MemoryNotes -> MemoryHeader \cup {Absent}]
        /\ \A m \in MemoryNotes : headers'[m] = Absent => headers[m] = Absent
    BY <1>0, <2>1
  <2> QED
    BY <1>0, <2>2, HeaderStepKeeps
<1>1. ASSUME NEW n \in MemoryNotes, MemoryCreate(n) PROVE MemoryInv'
  <2>1. PICK h \in MemoryHeader : headers' = [headers EXCEPT ![n] = h]
    BY <1>1 DEF MemoryCreate
  <2>2. streams' = streams /\ counted' \in [MemoryNotes -> Nat]
    BY <1>1 DEF MemoryCreate, MemoryInv, MemoryTypeOK
  <2> QED
    BY <1>0, <1>1, <2>1, <2>2 DEF MemoryCreate
<1>2. ASSUME NEW n \in MemoryNotes, MemoryUpdate(n) PROVE MemoryInv'
  <2>1. PICK h \in MemoryHeader : headers' = [headers EXCEPT ![n] = h]
    BY <1>2 DEF MemoryUpdate
  <2>2. counted' \in [MemoryNotes -> Nat]
    BY <1>2 DEF MemoryUpdate, MemoryInv, MemoryTypeOK
  <2> QED
    BY <1>0, <1>2, <2>1, <2>2 DEF MemoryUpdate
<1>3. ASSUME NEW n \in MemoryNotes, MemoryDelete(n) PROVE MemoryInv'
  <2>1. headers[n] \in MemoryHeader /\ counted' \in [MemoryNotes -> Nat]
    BY <1>3 DEF MemoryDelete, MemoryInv, MemoryTypeOK
  <2>2. [headers[n] EXCEPT !.deleted = TRUE] \in MemoryHeader
    BY <2>1 DEF MemoryHeader
  <2>3. headers' = [headers EXCEPT ![n] = [headers[n] EXCEPT !.deleted = TRUE]]
    BY <1>3 DEF MemoryDelete
  <2> QED
    BY <1>0, <1>3, <2>1, <2>2, <2>3 DEF MemoryDelete
<1> USE DEF MemoryInv, MemoryTypeOK, EveryNoteReplays, Replays, Reported
<1>4. ASSUME NEW c \in Appenders, NEW n \in MemoryNotes, MemoryAppend(c, n) PROVE MemoryInv'
  <2>1. PICK event \in [sequence : 1..MaxStream, body : Bodies], expected \in 0..MaxStream :
          /\ Accepted(n, event, expected)
          /\ streams' = [streams EXCEPT ![n] = Append(@, event)]
          /\ returning' = [returning EXCEPT ![c] = <<n, event.sequence>>]
    BY <1>4 DEF MemoryAppend
  <2>2. /\ event.sequence = Len(streams[n]) + 1 /\ event.body \notin Malformed
        /\ headers[n] # Absent
        /\ event \in [sequence : Nat, body : Bodies] /\ event.sequence \in Nat
    BY <2>1, MemoryAssumption DEF Accepted
  <2>3. streams' \in [MemoryNotes -> Seq([sequence : Nat, body : Bodies])]
    <3> DEFINE Events == [sequence : Nat, body : Bodies]
    <3>1. streams \in [MemoryNotes -> Seq(Events)] /\ event \in Events
      BY <2>2
    <3> HIDE DEF Events
    <3>2. Append(streams[n], event) \in Seq(Events)
      BY <3>1
    <3>3. streams' \in [MemoryNotes -> Seq(Events)]
      BY <2>1, <3>1, <3>2
    <3> QED
      BY <3>3 DEF Events
  <2>4. \A m \in MemoryNotes : Len(streams'[m]) = IF m = n THEN Len(streams[m]) + 1 ELSE Len(streams[m])
    BY <2>1, <2>2
  <2>5. EveryNoteReplays'
    BY <2>1, <2>2, <2>3
  <2>6. MemoryTypeOK'
    <3>1. counted' \in [MemoryNotes -> Nat]
      BY <1>4 DEF MemoryAppend
    <3>2. returning' \in [Appenders -> (MemoryNotes \X Nat) \cup {Nothing}]
      BY <2>1, <2>2
    <3> QED
      BY <1>4, <2>3, <3>1, <3>2 DEF MemoryAppend
  <2>7. \A m \in MemoryNotes : headers'[m] = Absent => streams'[m] = << >>
    BY <1>4, <2>1, <2>2 DEF MemoryAppend
  <2>8. answered' = answered /\ returning'[c] = <<n, event.sequence>>
        /\ \A d \in Appenders \ {c} : returning'[d] = returning[d]
    BY <1>4, <2>1 DEF MemoryAppend
  <2>9. ~ Reported(n, event.sequence)
    BY <2>2
  <2>10. \A m \in MemoryNotes, s \in Nat : Reported(m, s)' => s \in 1..Len(streams'[m])
    <3> TAKE m \in MemoryNotes, s \in Nat
    <3>1. CASE Reported(m, s)
      <4>1. s \in 1..Len(streams[m]) /\ Len(streams[m]) \in Nat
        BY <3>1
      <4>2. Len(streams'[m]) = Len(streams[m]) \/ Len(streams'[m]) = Len(streams[m]) + 1
        BY <2>4
      <4> HIDE DEF Reported, MemoryInv
      <4> QED
        BY <4>1, <4>2
    <3>2. CASE ~ Reported(m, s) /\ Reported(m, s)'
      <4>1. <<m, s>> = <<n, event.sequence>>
        BY <2>8, <3>2
      <4> QED
        BY <2>2, <2>4, <4>1
    <3> QED
      BY <3>1, <3>2
  <2>11. \A d, e \in Appenders : returning'[d] # Nothing /\ returning'[d] = returning'[e] => d = e
    <3> SUFFICES ASSUME NEW d \in Appenders, NEW e \in Appenders,
                        returning'[d] # Nothing, returning'[d] = returning'[e], d # e
                 PROVE FALSE
      OBVIOUS
    <3>1. CASE d # c /\ e # c
      BY <2>8, <3>1
    <3>2. CASE d = c \/ e = c
      BY <2>8, <2>9, <3>2
    <3> QED
      BY <3>1, <3>2
  <2>12. \A d \in Appenders : returning'[d] \notin answered'
    BY <2>8, <2>9
  <2> QED
    BY <2>5, <2>6, <2>7, <2>10, <2>11, <2>12
<1>5. ASSUME NEW c \in Appenders, AppendReturns(c) PROVE MemoryInv'
  <2>1. /\ returning[c] # Nothing /\ returning[c] \in MemoryNotes \X Nat
        /\ answered' = answered \cup {returning[c]}
        /\ returning' = [returning EXCEPT ![c] = Nothing]
        /\ headers' = headers /\ counted' = counted /\ streams' = streams
    BY <1>5 DEF AppendReturns
  <2>2. \A m \in MemoryNotes, s \in Nat : Reported(m, s)' => Reported(m, s)
    BY <2>1 DEF Nothing
  <2>3. Nothing \notin answered'
    BY <2>1 DEF Nothing
  <2>4. \A d \in Appenders : returning'[d] \notin answered'
    BY <2>1, <2>3
  <2>5. MemoryTypeOK'
    <3>1. returning' \in [Appenders -> (MemoryNotes \X Nat) \cup {Nothing}]
      BY <2>1
    <3>2. answered' \subseteq MemoryNotes \X Nat
      BY <2>1
    <3> QED
      BY <2>1, <3>1, <3>2
  <2>6. EveryNoteReplays' /\ \A n \in MemoryNotes : headers'[n] = Absent => streams'[n] = << >>
    BY <2>1 DEF Replays
  <2>7. \A n \in MemoryNotes, s \in Nat : Reported(n, s)' => s \in 1..Len(streams'[n])
    <3> HIDE DEF Reported
    <3> QED
      BY <2>1, <2>2
  <2>8. \A d, e \in Appenders : returning'[d] # Nothing /\ returning'[d] = returning'[e] => d = e
    BY <2>1
  <2> QED
    BY <2>4, <2>5, <2>6, <2>7, <2>8
<1>6. CASE UNCHANGED memoryVars
  BY <1>6 DEF memoryVars
<1> QED
  BY <1>1, <1>2, <1>3, <1>4, <1>5, <1>6 DEF MemoryNext

(* For any notes, clients and events: what a note's stream holds, whatever *)
(* was appended, renamed and deleted in between, Get can replay.           *)
THEOREM NotesReplay == MemorySpec => []EveryNoteReplays
<1>1. MemoryInv => EveryNoteReplays
  BY DEF MemoryInv
<1> QED
  BY <1>1, MemoryStarts, MemoryInvKept, PTL DEF MemorySpec

(* For any notes, clients and events the in-memory provider implements the *)
(* abstract log: each of its steps is one of the log or none.              *)
THEOREM MemoryRefinesLog == MemorySpec => ImplementsMemoryLog
<1> DEFINE bodies == [n \in MemoryNotes |-> [k \in DOMAIN streams[n] |-> streams[n][k].body]]
           served == [n \in MemoryNotes |-> Served(n)]
<1>0. MemoryInv => served = bodies
  BY DEF MemoryInv, EveryNoteReplays, Served
<1>1. MemoryInit => MemoryLog!Init
  <2> SUFFICES ASSUME MemoryInit PROVE MemoryLog!Init
    OBVIOUS
  <2>1. served = [n \in MemoryNotes |-> << >>]
    <3>1. bodies = [n \in MemoryNotes |-> << >>]
      BY DEF MemoryInit
    <3> QED
      BY <1>0, <3>1, MemoryStarts
  <2> QED
    BY <2>1 DEF MemoryInit, MemoryLog!Init, MemoryLog!Missing, Absent
<1>2. MemoryInv /\ [MemoryNext]_memoryVars => [MemoryLog!Next]_(MemoryLog!vars)
  <2> SUFFICES ASSUME MemoryInv, [MemoryNext]_memoryVars
               PROVE MemoryLog!Next \/ UNCHANGED MemoryLog!vars
    OBVIOUS
  <2>0. served = bodies /\ served' = bodies'
    <3>1. MemoryInv /\ MemoryInv'
      BY MemoryInvKept
    <3> QED
      BY <3>1 DEF MemoryInv, EveryNoteReplays, Served
  <2> USE DEF MemoryInv, MemoryTypeOK
  <2>1. ASSUME NEW n \in MemoryNotes, MemoryCreate(n) PROVE MemoryLog!Create(n)
    <3>1. PICK h \in MemoryHeader : headers' = [headers EXCEPT ![n] = h]
      BY <2>1 DEF MemoryCreate
    <3>2. h \in MemoryLog!Header
      BY DEF MemoryHeader, MemoryLog!Header
    <3>3. bodies' = bodies
      <4>1. streams' = streams
        BY <2>1 DEF MemoryCreate
      <4> QED
        BY <4>1
    <3>4. headers[n] = Absent /\ answered' = answered /\ served' = served
      BY <2>0, <2>1, <3>3 DEF MemoryCreate
    <3> QED
      BY <3>1, <3>2, <3>4 DEF MemoryLog!Create, MemoryLog!Missing, Absent
  <2>2. ASSUME NEW n \in MemoryNotes, MemoryUpdate(n) PROVE MemoryLog!ChangeHeader(n)
    <3>1. PICK h \in MemoryHeader : h.type = headers[n].type /\ headers' = [headers EXCEPT ![n] = h]
      BY <2>2 DEF MemoryUpdate
    <3>2. h \in MemoryLog!Header
      BY DEF MemoryHeader, MemoryLog!Header
    <3>3. bodies' = bodies
      BY <2>2 DEF MemoryUpdate
    <3> QED
      BY <2>0, <2>2, <3>1, <3>2, <3>3 DEF MemoryUpdate, MemoryLog!ChangeHeader, MemoryLog!Missing, Absent
  <2>3. ASSUME NEW n \in MemoryNotes, MemoryDelete(n) PROVE MemoryLog!ChangeHeader(n)
    <3>1. headers[n] \in MemoryHeader
      BY <2>3 DEF MemoryDelete
    <3>2. [headers[n] EXCEPT !.deleted = TRUE] \in MemoryLog!Header
      BY <3>1 DEF MemoryHeader, MemoryLog!Header
    <3>3. headers' = [headers EXCEPT ![n] = [headers[n] EXCEPT !.deleted = TRUE]]
      BY <2>3 DEF MemoryDelete
    <3>4. [headers[n] EXCEPT !.deleted = TRUE].type = headers[n].type
      BY <3>1 DEF MemoryHeader
    <3>5. headers[n] # Absent /\ answered' = answered /\ served' = served
      <4>1. bodies' = bodies
        BY <2>3 DEF MemoryDelete
      <4> QED
        BY <2>0, <2>3, <4>1 DEF MemoryDelete
    <3> QED
      BY <3>2, <3>3, <3>4, <3>5 DEF MemoryLog!ChangeHeader, MemoryLog!Missing, Absent
  <2>4. ASSUME NEW c \in Appenders, NEW n \in MemoryNotes, MemoryAppend(c, n)
        PROVE MemoryLog!AppendEvent(n)
    <3>1. PICK event \in [sequence : 1..MaxStream, body : Bodies], expected \in 0..MaxStream :
            Accepted(n, event, expected) /\ streams' = [streams EXCEPT ![n] = Append(@, event)]
      BY <2>4 DEF MemoryAppend
    <3>2. event.body \in Bodies /\ event \in [sequence : Nat, body : Bodies]
      BY <3>1, MemoryAssumption
    <3>3. bodies' = [bodies EXCEPT ![n] = Append(@, event.body)]
      <4>1. ASSUME NEW m \in MemoryNotes
            PROVE bodies'[m] = IF m = n THEN Append(bodies[n], event.body) ELSE bodies[m]
        <5>1. CASE m # n
          BY <3>1, <5>1
        <5>2. CASE m = n
          <6>1. streams[n] \in Seq([sequence : Nat, body : Bodies])
            OBVIOUS
          <6>2. streams'[n] = Append(streams[n], event)
            BY <3>1
          <6>3. bodies'[n] = [k \in 1..Len(streams[n]) + 1 |-> Append(streams[n], event)[k].body]
            <7>1. DOMAIN Append(streams[n], event) = 1..Len(streams[n]) + 1
              BY <3>2, <6>1
            <7>2. bodies'[n] = [k \in DOMAIN streams'[n] |-> streams'[n][k].body]
              OBVIOUS
            <7> QED
              BY <6>2, <7>1, <7>2
          <6>4. bodies[n] = [k \in 1..Len(streams[n]) |-> streams[n][k].body]
            BY <6>1
          <6>5. \A k \in 1..Len(streams[n]) + 1 : Append(streams[n], event)[k].body =
                  IF k = Len(streams[n]) + 1 THEN event.body ELSE streams[n][k].body
            BY <3>2, <6>1
          <6>6. Len(bodies[n]) = Len(streams[n]) /\ bodies[n] \in Seq(Bodies)
            <7>1. \A k \in 1..Len(streams[n]) : streams[n][k].body \in Bodies
              <8> DEFINE Events == [sequence : Nat, body : Bodies]
              <8>1. streams[n] \in Seq(Events)
                BY <6>1
              <8>2. ASSUME NEW e \in Events PROVE e.body \in Bodies
                OBVIOUS
              <8> HIDE DEF Events, MemoryInv
              <8>3. \A k \in 1..Len(streams[n]) : streams[n][k] \in Events
                BY <8>1
              <8> QED
                BY <8>2, <8>3
            <7>2. Len(streams[n]) \in Nat
              BY <6>1
            <7> HIDE DEF bodies
            <7> QED
              BY <6>4, <7>1, <7>2
          <6>7. Append(bodies[n], event.body) =
                  [k \in 1..Len(bodies[n]) + 1 |-> IF k = Len(bodies[n]) + 1 THEN event.body ELSE bodies[n][k]]
            BY <3>2, <6>6
          <6> QED
            BY <5>2, <6>3, <6>4, <6>5, <6>6, <6>7
        <5> QED
          BY <5>1, <5>2
      <4> QED
        BY <4>1
    <3> QED
      BY <2>0, <2>4, <3>1, <3>2, <3>3 DEF MemoryAppend, Accepted, MemoryLog!AppendEvent, MemoryLog!Missing, Absent
  <2>5. ASSUME NEW c \in Appenders, AppendReturns(c)
        PROVE \E n \in MemoryNotes : MemoryLog!Acknowledge(n)
    <3>1. PICK n \in MemoryNotes, s \in Nat : returning[c] = <<n, s>>
      BY <2>5 DEF AppendReturns
    <3>2. s \in 1..Len(streams[n]) /\ <<n, s>> \notin answered
      BY <3>1 DEF Reported
    <3>3. Len(bodies[n]) = Len(streams[n])
      BY SMT
    <3>4. headers' = headers /\ bodies' = bodies /\ answered' = answered \cup {<<n, s>>}
      BY <2>5, <3>1 DEF AppendReturns
    <3> QED
      BY <2>0, <3>2, <3>3, <3>4 DEF MemoryLog!Acknowledge
  <2>6. CASE UNCHANGED memoryVars
    BY <2>0, <2>6 DEF memoryVars, MemoryLog!vars
  <2> QED
    BY <2>1, <2>2, <2>3, <2>4, <2>5, <2>6 DEF MemoryNext, MemoryLog!Next
<1> QED
  BY <1>1, <1>2, MemoryStarts, MemoryInvKept, PTL
  DEF MemorySpec, ImplementsMemoryLog, MemoryLog!Spec

(* Streams, headers and answers keep their types whatever clients do.      *)
THEOREM MemoryIsTyped == MemorySpec => []MemoryTypeOK
  <1>1. MemoryInv => MemoryTypeOK
    BY DEF MemoryInv
  <1> QED
    BY <1>1, MemoryStarts, MemoryInvKept, PTL DEF MemorySpec

-----------------------------------------------------------------------------
(* All that is stored.  The parts share no variable: a step of one leaves  *)
(* the others alone, so that a behaviour of the whole is one of each part. *)
LEMMA PartsKeepTheirSpecs ==
  [StorageNext]_storageVars =>
    /\ [CoreNext]_coreVars /\ [Next]_vars /\ [LinkNext]_linkVars
    /\ [GraphNext]_graphVars /\ [MemoryNext]_memoryVars /\ [TodoNext]_todoVars
  <1> SUFFICES ASSUME StorageNext \/ UNCHANGED storageVars
               PROVE  /\ CoreNext \/ UNCHANGED coreVars
                      /\ Next \/ UNCHANGED vars
                      /\ LinkNext \/ UNCHANGED linkVars
                      /\ GraphNext \/ UNCHANGED graphVars
                      /\ MemoryNext \/ UNCHANGED memoryVars
                      /\ TodoNext \/ UNCHANGED todoVars
    OBVIOUS
  <1> QED
    BY DEF StorageNext, storageVars, ObjectStep, MemoryStep, FileStep, LinkStep, GraphStep, TodoStep

LEMMA StorageHasItsParts ==
  StorageSpec => CoreSpec /\ Spec /\ LinkSpec /\ GraphSpec /\ MemorySpec /\ TodoSpec
  <1>1. StorageInit => CoreInit /\ Init /\ LinkInit /\ GraphInit /\ MemoryInit /\ TodoInit
    BY DEF StorageInit
  <1> QED
    BY <1>1, PartsKeepTheirSpecs, PTL
    DEF StorageSpec, CoreSpec, Spec, LinkSpec, GraphSpec, MemorySpec, TodoSpec

(* The note object, the files, the links, the context graph, the in-memory *)
(* provider and the todos keep their types, for every number of notes,     *)
(* clients, events, failures and faults, when no event that an HTTP client *)
(* sends makes a replay of the note object panic.                          *)
THEOREM StorageIsTyped ==
  ASSUME \A p \in RawPayloads : NeverPanics(p)
  PROVE  StorageSpec => []StorageTypeOK
  <1>1. CoreTypeOK /\ MemoryTypeOK /\ TypeOK /\ LinkTypeOK /\ GraphTypeOK /\ TodoTypeOK => StorageTypeOK
    BY DEF StorageTypeOK
  <1> QED
    BY <1>1, StorageHasItsParts, CoreIsTyped, FileIsTyped, LinksAreTyped, GraphIsTyped, MemoryIsTyped,
       TodoIsTyped, PTL

(* What the stores promise of a note holds together, in the specification  *)
(* that they are checked in: the note object says at each version what its *)
(* events say; the file keeps what was acknowledged, leads the index and   *)
(* agrees with it, and search finds its text; links that no edit touches   *)
(* stay, a lone sync repairs the rest and a renaming changes labels only;  *)
(* pairs are neither missed nor forgotten nor left dangling; the in-memory *)
(* provider is a log; and the index of todos is what a scan would find.    *)
THEOREM StorageIsSafe ==
  StorageSpec =>
    /\ []SnapshotsAreOnlyAnOptimisation
    /\ [](AcknowledgedIsOnDisk /\ IndexNeverLeads /\ CleanNotesAreWhole /\ SearchFindsText)
    /\ [](LoneSyncRepairs /\ StableLinksStay /\ RelabelKeepsText)
    /\ [](PendingPairsResolve /\ NoPairIsMissed /\ PromotedHasLinks /\ EditsAreCovered)
    /\ ReviewIsKept
    /\ ImplementsMemoryLog
    /\ []IndexIsTheScan /\ StatusIsTheBoards
  BY StorageHasItsParts, EveryVersionIsItsReplay,
     AcknowledgedStaysOnDisk, IndexFollowsFile, CleanNotesStayWhole, SearchAlwaysFindsText,
     LoneSyncsRepair, StableRowsStay, RelabelOnlyRelabels,
     PendingPairsAlwaysResolve, NoSimilarPairIsMissed, PromotedAlwaysHasLinks, EditsAreAlwaysCovered,
     ReviewsAreKept, MemoryRefinesLog, IndexIsAlwaysTheScan, StatusStaysTheBoards, PTL
=============================================================================
