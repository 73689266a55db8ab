---------------------------- MODULE MemoryStore ----------------------------
(***************************************************************************)
(* The in-memory provider: a second implementation of repo.NoteRepository. *)
(* One lock makes each operation a single step; a call returns after it    *)
(* has given the lock back.  Behind each header is a note object of its    *)
(* own, which counts the events that were applied to it.                   *)
(***************************************************************************)
EXTENDS Integers, Sequences

CONSTANTS
  MemoryNotes,
  Names,        \* titles
  Bodies,       \* entry lists of events
  Malformed,    \* those of them that Note.ApplyEvent refuses
  Appenders,    \* clients that call AppendEvent
  MaxStream     \* bound: events of a note

ASSUME MemoryAssumption == Malformed \subseteq Bodies /\ MaxStream \in Nat

VARIABLES
  headers,     \* notes: the header of each, or Absent
  counted,     \* the events applied to the object behind the header
  streams,     \* events: the stream of each note
  returning,   \* what an accepted append is about to report, or Nothing
  answered     \* history: <<note, sequence>> reported as appended

memoryVars == <<headers, counted, streams, returning, answered>>

Absent == [exists |-> FALSE]
Nothing == << >>

MemoryHeader == [exists : {TRUE}, type : {"normal", "secure"}, title : Names, deleted : BOOLEAN]

MemoryTypeOK ==
  /\ headers \in [MemoryNotes -> MemoryHeader \cup {Absent}]
  /\ counted \in [MemoryNotes -> Nat]
  /\ streams \in [MemoryNotes -> Seq([sequence : Nat, body : Bodies])]
  /\ returning \in [Appenders -> (MemoryNotes \X Nat) \cup {Nothing}]
  /\ answered \subseteq MemoryNotes \X Nat

MemoryInit ==
  /\ headers = [n \in MemoryNotes |-> Absent]
  /\ counted = [n \in MemoryNotes |-> 0]
  /\ streams = [n \in MemoryNotes |-> << >>]
  /\ returning = [c \in Appenders |-> Nothing]
  /\ answered = {}
-----------------------------------------------------------------------------
MemoryCreate(n) ==
  /\ headers[n] = Absent
  /\ headers' \in {[headers EXCEPT ![n] = h] : h \in MemoryHeader}
  /\ counted' = [counted EXCEPT ![n] = 0]
  /\ streams' = [streams EXCEPT ![n] = << >>]
  /\ UNCHANGED <<returning, answered>>

(* The header is stored as a fresh object, to which no event was applied.  *)
MemoryUpdate(n) ==
  /\ headers[n] # Absent
  /\ \E h \in MemoryHeader :
       /\ h.type = headers[n].type
       /\ headers' = [headers EXCEPT ![n] = h]
  /\ counted' = [counted EXCEPT ![n] = 0]
  /\ UNCHANGED <<streams, returning, answered>>

MemoryDelete(n) ==
  /\ headers[n] # Absent
  /\ headers' = [headers EXCEPT ![n].deleted = TRUE]
  /\ UNCHANGED <<counted, streams, returning, answered>>

(* Faulty variant: only the note object is asked for the next sequence.    *)
TakesNextOfObject(n, event, expected) ==
  /\ headers[n] # Absent
  /\ expected > 0 => Len(streams[n]) = expected - 1
  /\ event.sequence = counted[n] + 1 /\ event.body \notin Malformed

(* AppendEvent accepts an event: the check of ExpectSequence, if one is    *)
(* given, that of the stream and those of Note.ApplyEvent.                 *)
Accepted(n, event, expected) ==
  /\ headers[n] # Absent
  /\ expected > 0 => Len(streams[n]) = expected - 1
  /\ event.sequence = Len(streams[n]) + 1
  /\ event.sequence = counted[n] + 1 /\ event.body \notin Malformed

MemoryAppend(c, n) ==
  /\ returning[c] = Nothing /\ Len(streams[n]) < MaxStream
  /\ \E event \in [sequence : 1..MaxStream, body : Bodies], expected \in 0..MaxStream :
       /\ Accepted(n, event, expected)
       /\ streams' = [streams EXCEPT ![n] = Append(@, event)]
       /\ returning' = [returning EXCEPT ![c] = <<n, event.sequence>>]
  /\ counted' = [counted EXCEPT ![n] = @ + 1]
  /\ UNCHANGED <<headers, answered>>

AppendReturns(c) ==
  /\ returning[c] # Nothing
  /\ answered' = answered \cup {returning[c]}
  /\ returning' = [returning EXCEPT ![c] = Nothing]
  /\ UNCHANGED <<headers, counted, streams>>

MemoryNext ==
  \/ \E n \in MemoryNotes :
       \/ MemoryCreate(n) \/ MemoryUpdate(n) \/ MemoryDelete(n)
       \/ \E c \in Appenders : MemoryAppend(c, n)
  \/ \E c \in Appenders : AppendReturns(c)

MemorySpec == MemoryInit /\ [][MemoryNext]_memoryVars
-----------------------------------------------------------------------------
(* Get replays the stream onto a fresh object by Note.ApplyEvent; a note   *)
(* of which it cannot is never read again (cloneNoteWithEvents).           *)
Replays(n) ==
  \A k \in DOMAIN streams[n] : streams[n][k].sequence = k /\ streams[n][k].body \notin Malformed

Served(n) ==
  IF Replays(n) THEN [k \in DOMAIN streams[n] |-> streams[n][k].body] ELSE << >>

(* The in-memory provider keeps what repo.NoteRepository promises of notes *)
(* and events: what Get serves of a note, whatever was appended, renamed   *)
(* and deleted in between, is the abstract log, and what AppendEvent has   *)
(* reported is in it.                                                      *)
MemoryLog == INSTANCE NoteLog WITH
  Notes <- MemoryNotes, NoteTypes <- {"normal", "secure"}, Titles <- Names, Payloads <- Bodies,
  header <- headers, log <- [n \in MemoryNotes |-> Served(n)], acked <- answered

ImplementsMemoryLog == MemoryLog!Spec
=============================================================================
