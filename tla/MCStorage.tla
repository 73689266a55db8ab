----------------------------- MODULE MCStorage -----------------------------
(* What is stored of notes and of the relations between them: the note     *)
(* object in memory, the in-memory provider, the .notx files, the link     *)
(* index and the context graph of the SQLite provider, the index of todos. *)
(* They share nothing, so that a behaviour follows one of them, the focus. *)
EXTENDS MCCoreNote, FileStore, LinkSync, ContextGraph, MemoryStore, TodoIndex

CONSTANTS linking, linked, outside   \* two notes and a uri

VARIABLE focus

storageVars == <<focus, coreVars, vars, linkVars, graphVars, memoryVars, todoVars>>

Symmetry == Permutations(GraphNotes)

MCLong == "long"

(* A write; a write below the end followed by a delete; an insert, which   *)
(* the format stores as a set; an overlong line; an event without entries. *)
MCPayloads ==
  { <<Entry(1, "set", "a")>>,
    <<Entry(2, "set", "b"), Entry(1, "delete", Blank)>>,
    <<Entry(1, "insert", "b")>>,
    <<Entry(1, "set", "long")>>,
    << >> }

LinkTo(n, a) == [type |-> "note", note |-> n, anchor |-> a]

(* One note links to the other under a label that it may share with a link *)
(* outside; the other one has an anchor, a link to it and a title.         *)
MCTexts == [n \in Notes |->
  IF n = linking THEN
         {[kind |-> "matter", title |-> None, anchors |-> {}, links |-> [l \in {"l1"} |-> LinkTo(linked, "a1")]],
          [kind |-> "matter", title |-> None, anchors |-> {"a1"},
           links |-> [l \in {"l1", "l2"} |->
             IF l = "l1" THEN LinkTo(linked, "a1") ELSE [type |-> "uri", uri |-> outside]]],
          [kind |-> "plain", title |-> None, anchors |-> {}, links |-> << >>]}
  ELSE
         {[kind |-> "matter", title |-> l, anchors |-> {"a1"},
           links |-> [k \in {"l2"} |-> [type |-> "self", anchor |-> "a1"]]] : l \in {"l1", "l3"}} \cup {EmptyText}]

(* Two todos, one of them open or checked, and a line that is none.        *)
MCBoxes ==
  [x \in {"a", "A", "b"} |-> [label |-> IF x = "b" THEN "b" ELSE "a",
                              state |-> IF x = "A" THEN "checked" ELSE "open"]]

(* Each edit of two lines, and one beyond the end; edits that move the     *)
(* lines of those after them.                                              *)
MCTodoEvents ==
  {<<Entry(l, "set", t)>> : l \in 1..2, t \in {"a", "A", "b", "p"}} \cup
  {<<Entry(l, "insert", t)>> : l \in 1..2, t \in {"a", "b", "p"}} \cup
  {<<Entry(l, "delete", Blank)>> : l \in 1..2} \cup
  {<<Entry(1, "setEmpty", Blank)>>, <<Entry(3, "set", "b")>>,
   <<Entry(1, "set", "a"), Entry(2, "set", "b")>>,
   <<Entry(1, "insert", "p"), Entry(1, "delete", Blank)>>,
   <<Entry(1, "insert", "b"), Entry(2, "set", "A")>>,
   <<Entry(1, "delete", Blank), Entry(2, "set", "b")>>}

MCTodoDocuments == {<<"b", "a">>}
-----------------------------------------------------------------------------
StorageInit ==
  /\ focus \in {"object", "memory", "file", "links", "graph", "todos"}
  /\ CoreInit /\ Init /\ LinkInit /\ GraphInit /\ MemoryInit /\ TodoInit
  /\ focus # "graph" => project = [n \in GraphNotes |-> NoProject]

ObjectStep == focus = "object" /\ CoreNext
MemoryStep == focus = "memory" /\ MemoryNext
FileStep == focus = "file" /\ Next
LinkStep == focus = "links" /\ LinkNext /\ appends' + calls' <= MaxAppends
GraphStep == focus = "graph" /\ GraphNext /\ requests' + failures' <= MaxRequests
TodoStep == focus = "todos" /\ TodoNext /\ (untidy' => todoEvents' < MaxTodoEvents)

StorageNext ==
  /\ UNCHANGED focus
  /\ \/ ObjectStep /\ UNCHANGED <<memoryVars, vars, linkVars, graphVars, todoVars>>
     \/ MemoryStep /\ UNCHANGED <<coreVars, vars, linkVars, graphVars, todoVars>>
     \/ FileStep /\ UNCHANGED <<coreVars, memoryVars, linkVars, graphVars, todoVars>>
     \/ LinkStep /\ UNCHANGED <<coreVars, memoryVars, vars, graphVars, todoVars>>
     \/ GraphStep /\ UNCHANGED <<coreVars, memoryVars, vars, linkVars, todoVars>>
     \/ TodoStep /\ UNCHANGED <<coreVars, memoryVars, vars, linkVars, graphVars>>

StorageSpec == StorageInit /\ [][StorageNext]_storageVars
-----------------------------------------------------------------------------
(* The variables of each module keep their types, and the checkpoints of a *)
(* note ascend.                                                            *)
StorageTypeOK ==
  CoreTypeOK /\ MemoryTypeOK /\ TypeOK /\ LinkTypeOK /\ GraphTypeOK /\ TodoTypeOK
=============================================================================
