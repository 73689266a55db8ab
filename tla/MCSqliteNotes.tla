--------------------------- MODULE MCSqliteNotes ---------------------------
(* SqliteNotes with the provider's own line edits, on documents of at most *)
(* MCLines lines.                                                          *)
EXTENDS SqliteNotes, NoteContent

CONSTANTS MCLines,     \* longest document
          MCWords      \* texts of the lines that are not blank

MCContents ==
  {d \in UNION {[1..n -> {Blank} \cup MCWords] : n \in 0..MCLines} : d = joinLines(d)}

MCPayloads == {DiffLines(c, d) : c, d \in MCContents} \ {<< >>}

MCDrafts == {d \in MCContents : d = << >> \/ d[1] # Blank}

(* The drafts of a run with two clients.                                   *)
MCPairDrafts == {d \in MCDrafts : Len(d) # 1}

MCRawPayloads == {<<Entry(MCLines, "set", w)>> : w \in MCWords}

MCDiff(old, new) == DiffLines(SplitLines(old), SplitLines(new))
=============================================================================
