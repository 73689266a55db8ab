------------------------------- MODULE Bursts -------------------------------
(***************************************************************************)
(* core/context.go: the line windows around the lines an event touches.    *)
(* A Go slice of ranges in ascending order is a set of ranges here: the    *)
(* order is that of their starts.                                          *)
(***************************************************************************)
EXTENDS Integers, FiniteSets

AtLeast(x, bound) == IF x < bound THEN bound ELSE x
AtMost(x, bound) == IF x > bound THEN bound ELSE x

Overlaps(r, s) == r.start <= s.end /\ r.end >= s.start

(* Touched lines whose windows would meet, to the next gap.                *)
Groups(touched, windowLines) ==
  LET gap == 2 * windowLines + 1
      Opens(l) == \A k \in touched : k < l => l - k > gap
      Closes(l) == \A k \in touched : k > l => k - l > gap
  IN  {g \in [first : touched, last : touched] :
         /\ g.first <= g.last
         /\ Opens(g.first) /\ Closes(g.last)
         /\ \A l \in touched : g.first < l /\ l <= g.last => ~ Opens(l)}

(* The padded groups.  Only the start is held above 1 and only the end     *)
(* below the length of the text after the event.                           *)
GroupAffectedLines(touched, windowLines, total) ==
  {[start |-> AtLeast(g.first - windowLines, 1),
    end   |-> AtMost(g.last + windowLines, AtLeast(total, 1))] : g \in Groups(touched, windowLines)}

(* Faulty variant: chunks follow each other with a line between them.      *)
SplitsWithGaps(r, chunkSize) ==
  IF r.end - r.start + 1 <= chunkSize THEN {r}
  ELSE {[start |-> s, end |-> AtMost(s + chunkSize - 1, r.end)] :
          s \in {x \in r.start..r.end : (x - r.start) % (chunkSize + 1) = 0}}

(* Chunks that share two lines with the next one, up to the first that     *)
(* reaches the end.                                                        *)
SplitRange(r, chunkSize) ==
  IF r.end - r.start + 1 <= chunkSize THEN {r}
  ELSE LET step == AtLeast(chunkSize - 2, 1)
       IN  {[start |-> s, end |-> AtMost(s + chunkSize - 1, r.end)] :
              s \in {x \in r.start..r.end :
                       /\ (x - r.start) % step = 0
                       /\ x = r.start \/ x - step + chunkSize - 1 < r.end}}

(* The windows ExtractBursts cuts out of the text; none in an empty text.  *)
Windows(touched, windowLines, chunkSize, total) ==
  IF total = 0 THEN {} ELSE UNION {SplitRange(r, chunkSize) : r \in GroupAffectedLines(touched, windowLines, total)}

(* The slice expression noteLines[start-1:end] is within bounds.           *)
Sliceable(w, total) == w.start - 1 <= AtMost(w.end, total)

-----------------------------------------------------------------------------
(* Every touched line that is still in the text is in a window, and so is  *)
(* every line of its context.                                              *)
CoversEdits(touched, windowLines, chunkSize, total) ==
  \A t \in touched : \A l \in 1..total :
    l - t <= windowLines /\ t - l <= windowLines =>
      \E w \in Windows(touched, windowLines, chunkSize, total) : w.start <= l /\ l <= w.end
=============================================================================
