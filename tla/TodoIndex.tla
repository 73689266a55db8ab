----------------------------- MODULE TodoIndex -----------------------------
(***************************************************************************)
(* The index of checkboxes that the todo plugin keeps of a note.  After    *)
(* each append the request hands the event to the plugin, which follows it *)
(* entry by entry, each statement by itself and beside the appends of      *)
(* others, instead of scanning the text again.  The status of a todo is    *)
(* set on a board and is in no text.                                       *)
(*                                                                         *)
(* One note.  Line and label are each unique among its rows.  The projects *)
(* and folders that the rows copy are left out.                            *)
(***************************************************************************)
EXTENDS NoteContent, Functions

CONSTANTS
  Boxes,         \* the lines that are checkboxes: their label and state
  TodoEvents,    \* entry lists of events
  TodoDocuments, \* texts that ReplaceContent stores
  TodoClients,
  MaxTodoEvents, MaxMoves   \* bounds

ASSUME TodoAssumption ==
  /\ MaxTodoEvents \in Nat /\ MaxMoves \in Nat
  /\ TodoEvents \subseteq Seq(LineEntry) \ {<< >>}
  /\ TodoDocuments \subseteq Seq(STRING)
  /\ DOMAIN Boxes \subseteq STRING \ {Blank}
  /\ \A text \in DOMAIN Boxes : Boxes[text].state \in {"open", "checked"}

VARIABLES
  document,   \* the lines that the events of the note make
  todos,      \* engine_snips_todo: the rows, in the order of their rowids
  hook,       \* the callback that a request is in
  todoEvents, moves,
  untidy      \* observation: why rows and text may differ, see below

todoVars == <<document, todos, hook, todoEvents, moves, untidy>>

Statuses == {"backlog", "doing", "done"}

Row == [line : Int, label : {Boxes[x].label : x \in DOMAIN Boxes},
        state : {"open", "checked"}, status : Statuses]

NoHook == [at |-> "idle", entries |-> << >>, offset |-> 0]

TodoTypeOK ==
  /\ todos \in Seq(Row)
  /\ \A i, j \in DOMAIN todos :
       todos[i].line = todos[j].line \/ todos[i].label = todos[j].label => i = j
  /\ \A c \in TodoClients :
       hook[c].at \in {"idle", "next", "insertRow", "placeRow", "shiftUp", "rewrite", "remove"}
  /\ todoEvents \in 0..MaxTodoEvents /\ moves \in 0..MaxMoves
  /\ untidy \in BOOLEAN

TodoInit ==
  /\ document = << >> /\ todos = << >>
  /\ hook = [c \in TodoClients |-> NoHook]
  /\ todoEvents = 0 /\ moves = 0
  /\ untidy = FALSE
-----------------------------------------------------------------------------
Calling(c) == hook[c].at # "idle"

(* parseCheckboxes, with the line numbers of the events.                   *)
Scan(lines) ==
  {[line |-> l, label |-> Boxes[lines[l]].label, state |-> Boxes[lines[l]].state] :
     l \in {k \in DOMAIN lines : lines[k] \in DOMAIN Boxes}}

After(event, k) == applyEvent(document, SubSeq(event, 1, k))

(* The rows can say what the text says while each label is on one line,    *)
(* and the plugin counts its lines as the replay does while each delete    *)
(* finds its line.                                                         *)
Tidy(event) ==
  \A k \in DOMAIN event :
    /\ \A r, s \in Scan(After(event, k)) : r.label = s.label => r = s
    /\ event[k].op = "delete" => Len(After(event, k)) < Len(After(event, k - 1))

(* NoteService.AppendEvent up to the call of the plugin.                   *)
AppendTodos(c, event) ==
  /\ todoEvents < MaxTodoEvents /\ ~ Calling(c)
  /\ ~ Applied(document, event).panicked
  /\ document' = applyEvent(document, event)
  /\ hook' = [hook EXCEPT ![c] = [at |-> "next", entries |-> event, offset |-> 0]]
  /\ todoEvents' = todoEvents + 1
  /\ untidy' = (untidy \/ (\E d \in TodoClients : Calling(d)) \/ ~ Tidy(event))
  /\ UNCHANGED <<todos, moves>>

(* ReplaceContent appends an event and calls no plugin.                    *)
ReplaceText(lines) ==
  /\ todoEvents < MaxTodoEvents
  /\ document' = lines
  /\ todoEvents' = todoEvents + 1
  /\ untidy' = (untidy \/ lines # document)
  /\ UNCHANGED <<todos, hook, moves>>

(* PATCH of a status, by the line that the client was shown.               *)
MoveTodo(i, status) ==
  /\ moves < MaxMoves
  /\ todos' = [todos EXCEPT ![i].status = status]
  /\ moves' = moves + 1
  /\ UNCHANGED <<document, hook, todoEvents, untidy>>
-----------------------------------------------------------------------------
(* The callback: one statement after the other.                            *)

EntryOf(c) == Head(hook[c].entries)
LineOf(c) == EntryOf(c).line + hook[c].offset
IsBox(c) == EntryOf(c).text \in DOMAIN Boxes
BoxOf(c) == Boxes[EntryOf(c).text]

(* Row i may take the line, or the label, if no other row has it.          *)
LineFree(i, line) == \A j \in DOMAIN todos : todos[j].line = line => j = i
LabelFree(i, label) == \A j \in DOMAIN todos : todos[j].label = label => j = i

Proceed(c, at) == hook' = [hook EXCEPT ![c].at = at]

NextEntry(c, shift) ==
  hook' = [hook EXCEPT ![c] =
    IF Len(@.entries) = 1 THEN NoHook
    ELSE [at |-> "next", entries |-> Tail(@.entries), offset |-> @.offset + shift]]

(* DELETE by line, which is the primary key.                               *)
DropLine(line) ==
  \/ LineFree(0, line) /\ UNCHANGED todos
  \/ \E i \in DOMAIN todos : todos[i].line = line /\ todos' = RemoveAt(todos, i)

(* Moving the rows of the lines from first on by k changes one row after   *)
(* the other, and none may arrive on the line of another on the way.       *)
ShiftClashes(first, k) ==
  \E i, j \in DOMAIN todos :
    /\ todos[i].line >= first /\ todos[j].line = todos[i].line + k
    /\ j > i \/ todos[j].line < first

Shift(first, k) ==
  /\ ~ ShiftClashes(first, k)
  /\ todos' = [i \in DOMAIN todos |->
       IF todos[i].line >= first THEN [todos[i] EXCEPT !.line = @ + k] ELSE todos[i]]

(* Faulty variant: the line of the insert itself stays.                    *)
ShiftsBehind(c) ==
  /\ hook[c].at = "next" /\ EntryOf(c).op = "insert"
  /\ Shift(LineOf(c) + 1, 1)
  /\ IF IsBox(c) THEN Proceed(c, "insertRow") ELSE NextEntry(c, 1)
  /\ UNCHANGED <<document, todoEvents, moves, untidy>>

ShiftDown(c) ==
  /\ hook[c].at = "next" /\ EntryOf(c).op = "insert"
  /\ Shift(LineOf(c), 1)
  /\ IF IsBox(c) THEN Proceed(c, "insertRow") ELSE NextEntry(c, 1)
  /\ UNCHANGED <<document, todoEvents, moves, untidy>>

NewRow(c) ==
  [line |-> LineOf(c), label |-> BoxOf(c).label, state |-> BoxOf(c).state, status |-> "backlog"]

(* Faulty variant: a row that is there already is begun anew.              *)
InsertsAnew(c) ==
  /\ hook[c].at = "insertRow" /\ LineFree(0, LineOf(c))
  /\ todos' = Append(SelectSeq(todos, LAMBDA r : r.label # BoxOf(c).label), NewRow(c))
  /\ Proceed(c, "placeRow")
  /\ UNCHANGED <<document, todoEvents, moves, untidy>>

(* INSERT of a label that is not there yet.                                *)
InsertRow(c) ==
  /\ hook[c].at = "insertRow"
  /\ \/ ~ LabelFree(0, BoxOf(c).label) /\ UNCHANGED todos
     \/ /\ LabelFree(0, BoxOf(c).label) /\ LineFree(0, LineOf(c))
        /\ todos' = Append(todos, NewRow(c))
  /\ Proceed(c, "placeRow")
  /\ UNCHANGED <<document, todoEvents, moves, untidy>>

(* UPDATE of line and state of the row with the label.                     *)
PlaceRow(c) ==
  /\ hook[c].at = "placeRow"
  /\ \A i \in DOMAIN todos : todos[i].label = BoxOf(c).label => LineFree(i, LineOf(c))
  /\ todos' = [i \in DOMAIN todos |->
       IF todos[i].label # BoxOf(c).label THEN todos[i]
       ELSE [todos[i] EXCEPT !.line = LineOf(c), !.state = BoxOf(c).state]]
  /\ NextEntry(c, IF EntryOf(c).op = "insert" THEN 1 ELSE 0)
  /\ UNCHANGED <<document, todoEvents, moves, untidy>>

DeleteRow(c) ==
  /\ hook[c].at = "next" /\ EntryOf(c).op = "delete"
  /\ DropLine(LineOf(c))
  /\ Proceed(c, "shiftUp")
  /\ UNCHANGED <<document, todoEvents, moves, untidy>>

ShiftUp(c) ==
  /\ hook[c].at = "shiftUp"
  /\ Shift(LineOf(c) + 1, -1)
  /\ NextEntry(c, -1)
  /\ UNCHANGED <<document, todoEvents, moves, untidy>>

(* A set asks whether the line has a row, and what it does then rests on   *)
(* the answer.                                                             *)
LookUp(c) ==
  /\ hook[c].at = "next" /\ EntryOf(c).op \in {"set", "setEmpty"}
  /\ CASE ~ LineFree(0, LineOf(c)) /\ IsBox(c)   -> Proceed(c, "rewrite")
       [] ~ LineFree(0, LineOf(c)) /\ ~ IsBox(c) -> Proceed(c, "remove")
       [] LineFree(0, LineOf(c)) /\ IsBox(c)     -> Proceed(c, "insertRow")
       [] OTHER                                  -> NextEntry(c, 0)
  /\ UNCHANGED <<document, todos, todoEvents, moves, untidy>>

RewriteRow(c) ==
  /\ hook[c].at = "rewrite"
  /\ \A i \in DOMAIN todos : todos[i].line = LineOf(c) => LabelFree(i, BoxOf(c).label)
  /\ todos' = [i \in DOMAIN todos |->
       IF todos[i].line # LineOf(c) THEN todos[i]
       ELSE [todos[i] EXCEPT !.label = BoxOf(c).label, !.state = BoxOf(c).state]]
  /\ NextEntry(c, 0)
  /\ UNCHANGED <<document, todoEvents, moves, untidy>>

RemoveRow(c) ==
  /\ hook[c].at = "remove"
  /\ DropLine(LineOf(c))
  /\ NextEntry(c, 0)
  /\ UNCHANGED <<document, todoEvents, moves, untidy>>

(* A statement fails, always where it would give two rows one line or one  *)
(* label.  The error is discarded with the rest of the event.              *)
HookFails(c) ==
  /\ Calling(c)
  /\ hook' = [hook EXCEPT ![c] = NoHook]
  /\ untidy' = TRUE
  /\ UNCHANGED <<document, todos, todoEvents, moves>>

(* The process ends and starts again.  Start of the plugin does nothing.   *)
RestartPlugin ==
  /\ \E c \in TodoClients : Calling(c)
  /\ hook' = [c \in TodoClients |-> NoHook]
  /\ untidy' = TRUE
  /\ UNCHANGED <<document, todos, todoEvents, moves>>

HookStep(c) ==
  \/ ShiftDown(c) \/ InsertRow(c) \/ PlaceRow(c) \/ DeleteRow(c) \/ ShiftUp(c)
  \/ LookUp(c) \/ RewriteRow(c) \/ RemoveRow(c)

TodoNext ==
  \/ \E c \in TodoClients : HookStep(c) \/ HookFails(c)
  \/ \E c \in TodoClients, event \in TodoEvents : AppendTodos(c, event)
  \/ \E lines \in TodoDocuments : ReplaceText(lines)
  \/ \E i \in DOMAIN todos, status \in Statuses : MoveTodo(i, status)
  \/ RestartPlugin

TodoSpec == TodoInit /\ [][TodoNext]_todoVars
-----------------------------------------------------------------------------
(* Following the entries of events leads to the same rows as scanning the  *)
(* text that they make, with every insert, delete and rewrite and however  *)
(* lines moved within an event: while callbacks come one after the other,  *)
(* none fails, labels are unique and nothing is replaced.                  *)
IndexIsTheScan ==
  ~ untidy /\ (\A c \in TodoClients : ~ Calling(c)) =>
    Scan(document) =
      {[line |-> r.line, label |-> r.label, state |-> r.state] : r \in Range(todos)}

(* Moves on the board are never overwritten by a callback, whatever others *)
(* run beside it: as long as a todo has a row the row keeps its status     *)
(* (docs/SNIPS.md:760).                                                    *)
StatusIsTheBoards ==
  [][moves' = moves =>
       \A r \in Range(todos), s \in Range(todos)' :
         r.label = s.label => r.status = s.status]_todoVars
=============================================================================
