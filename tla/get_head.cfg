CONSTANTS
  Notes = {n1}
  Clients = {c1}
  Titles = {t1}
  MCLines = 2
  MCWords = {"a"}
  Contents <- MCContents
  EmptyContent <- EmptyString
  Drafts <- MCDrafts
  RawPayloads <- MCRawPayloads
  Payloads <- MCPayloads
  NoEntries <- EmptyString
  NoEvent = NoEvent
  Apply <- applyEntriesToContent
  Diff <- MCDiff
  None = None
  MaxSeq = 2
  MaxFaults = 0
  WriteChCap = 1
SPECIFICATION Spec
INVARIANTS GetReportsHead
