---------------------------- MODULE NoteContent ----------------------------
(***************************************************************************)
(* Documents and line edits: the pure functions every store of the engine  *)
(* uses to turn an event's line entries into content.                      *)
(*                                                                         *)
(* A document is a sequence of lines; a stored content string is the       *)
(* sequence joinLines yields, so the one collapse the conversion makes     *)
(* (the one-line document holding a blank line and the empty document are  *)
(* both the empty string) is kept.  Line texts are opaque except Blank.    *)
(***************************************************************************)
EXTENDS Integers, Sequences, FiniteSets, SequencesExt, TLC

Blank == ""

EmptyString == << >>

LineOps == {"set", "setEmpty", "delete", "insert"}

(* The text of a line, the blank one among them.                           *)
LineText == STRING \cup {Blank}

(* core.LineEntry: one line-level change of an event.                      *)
LineEntry == [line : Nat, op : LineOps, text : LineText]

Entry(line, op, text) == [line |-> line, op |-> op, text |-> text]

(* strings.Join(lines, "\n"), as the string it yields.                     *)
joinLines(lines) == IF lines = <<Blank>> THEN EmptyString ELSE lines

(* strings.Split(s, "\n"), with the empty string giving no line at all.    *)
SplitLines(string) == string

(* lines[i] := text, filling the gap with blank lines when i is beyond the *)
(* end.                                                                    *)
SetLine(lines, i, text) ==
  [k \in 1..(IF i > Len(lines) THEN i ELSE Len(lines)) |->
     IF k = i THEN text ELSE IF k <= Len(lines) THEN lines[k] ELSE Blank]

(* Deleting a line that does not exist is a no-op.                         *)
DeleteLine(lines, i) == IF i \in DOMAIN lines THEN RemoveAt(lines, i) ELSE lines

-----------------------------------------------------------------------------
(* core.DiffLines: overlapping and appended lines first, in order, then    *)
(* the deletes.                                                            *)

(* Each new line with the old one in its place, if there is one.           *)
Compared(oldLines, newLines) ==
  [i \in 1..Len(newLines) |->
     [line |-> i, text |-> newLines[i],
      old |-> IF i <= Len(oldLines) THEN <<oldLines[i]>> ELSE << >>]]

(* A line that differs from the old one, or that there was not, is set.    *)
AddRewrite(entries, l) ==
  IF l.old = <<l.text>> THEN entries
  ELSE Append(entries, Entry(l.line, IF l.text = Blank THEN "setEmpty" ELSE "set", l.text))

(* The surplus old lines, from the last one down.                          *)
DeletesOf(oldLines, newLines) ==
  [k \in 1..(IF Len(oldLines) > Len(newLines) THEN Len(oldLines) - Len(newLines) ELSE 0) |->
     Entry(Len(oldLines) + 1 - k, "delete", Blank)]

DiffLines(oldLines, newLines) ==
  FoldLeft(AddRewrite, << >>, Compared(oldLines, newLines)) \o DeletesOf(oldLines, newLines)

-----------------------------------------------------------------------------
(* core.applyEvent: entries in order, every line number shifted by the     *)
(* inserts minus the deletes already made by the same event.  An index out *)
(* of the slice panics, which is the value Panic.                          *)
Panic == [panic |-> TRUE]

ApplyShifted(acc, e) ==
  LET i == e.line + acc.offset
      n == Len(acc.lines)
  IN  IF acc.panicked THEN acc
      ELSE CASE e.op = "insert" ->
                  IF i \in 1..(n + 1)
                  THEN [acc EXCEPT !.lines = InsertAt(@, i, e.text), !.offset = @ + 1]
                  ELSE [acc EXCEPT !.panicked = TRUE]
             [] e.op = "delete" ->
                  IF i \in 1..n
                  THEN [acc EXCEPT !.lines = RemoveAt(@, i), !.offset = @ - 1]
                  ELSE acc
             [] OTHER ->
                  IF i >= 1
                  THEN [acc EXCEPT !.lines = SetLine(@, i, e.text)]
                  ELSE [acc EXCEPT !.panicked = TRUE]

Applied(lines, entries) ==
  FoldLeft(ApplyShifted, [lines |-> lines, offset |-> 0, panicked |-> FALSE], entries)

applyEvent(lines, entries) ==
  IF Applied(lines, entries).panicked THEN Panic ELSE Applied(lines, entries).lines

-----------------------------------------------------------------------------
(* sqlite applyEntriesToContent: entries in order, no shift; an insert is  *)
(* not a case of its switch and changes nothing.                           *)
ApplyPlain(lines, e) ==
  CASE e.op \in {"set", "setEmpty"} -> SetLine(lines, e.line, e.text)
    [] e.op = "delete" -> DeleteLine(lines, e.line)
    [] OTHER -> lines

applyEntriesToContent(content, entries) ==
  joinLines(FoldLeft(ApplyPlain, SplitLines(content), entries))

(* file applyEntriesToLines: writes first (an insert falls into the        *)
(* default branch and overwrites the line), then the deletes from the      *)
(* highest line number down.                                               *)
WriteLine(lines, e) == IF e.op = "delete" THEN lines ELSE SetLine(lines, e.line, e.text)

AddDelete(deletes, e) ==
  IF e.op # "delete" THEN deletes
  ELSE InsertAt(deletes, Cardinality({k \in DOMAIN deletes : deletes[k] >= e.line}) + 1, e.line)

applyEntriesToLines(lines, entries) ==
  FoldLeft(DeleteLine, FoldLeft(WriteLine, lines, entries), FoldLeft(AddDelete, << >>, entries))
=============================================================================
