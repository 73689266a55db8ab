CONSTANTS
  Notes = {n1}
  None = None
  BatchLimit = 1
  MaxSeq = 1
  MaxResets = 1
  MaxParagraphFaults = 0
SPECIFICATION ParagraphSpec
INVARIANTS RebuildRequeuesEveryNote
