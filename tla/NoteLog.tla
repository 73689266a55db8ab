------------------------------ MODULE NoteLog ------------------------------
(***************************************************************************)
(* What a note repository promises its callers (repo.NoteRepository): a    *)
(* set of notes, each with a header and an append-only log of events.  An  *)
(* append is one indivisible step that adds one event at the end of the    *)
(* log of an existing note; an append is acknowledged at most once, and    *)
(* only when its event is in the log.  Nothing here knows of statements,   *)
(* queues, crashes or caches.                                              *)
(***************************************************************************)
EXTENDS Integers, Sequences

CONSTANTS Notes, NoteTypes, Titles, Payloads

VARIABLES header,    \* header[n]: the note's header, or Missing
          log,       \* log[n]: the events of the note, in order
          acked      \* the <<note, sequence>> pairs acknowledged to a caller

vars == <<header, log, acked>>

Missing == [exists |-> FALSE]

Header == [exists : {TRUE}, type : NoteTypes, title : Titles, deleted : BOOLEAN]

Init ==
  /\ header = [n \in Notes |-> Missing]
  /\ log = [n \in Notes |-> << >>]
  /\ acked = {}

(* A new note has an empty event stream.                                   *)
Create(n) ==
  /\ header[n] = Missing
  /\ \E h \in Header : header' = [header EXCEPT ![n] = h]
  /\ UNCHANGED <<log, acked>>

(* Mutable header fields only: the note type never changes.                *)
ChangeHeader(n) ==
  /\ header[n] # Missing
  /\ \E h \in Header :
       /\ h.type = header[n].type
       /\ header' = [header EXCEPT ![n] = h]
  /\ UNCHANGED <<log, acked>>

AppendEvent(n) ==
  /\ header[n] # Missing
  /\ \E p \in Payloads : log' = [log EXCEPT ![n] = Append(@, p)]
  /\ UNCHANGED <<header, acked>>

Acknowledge(n) ==
  /\ \E s \in 1..Len(log[n]) :
       /\ <<n, s>> \notin acked
       /\ acked' = acked \cup {<<n, s>>}
  /\ UNCHANGED <<header, log>>

Next == \E n \in Notes : Create(n) \/ ChangeHeader(n) \/ AppendEvent(n) \/ Acknowledge(n)

Spec == Init /\ [][Next]_vars
=============================================================================
