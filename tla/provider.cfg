CONSTANTS
  Notes = {n1}
  Clients = {c1, c2}
  Titles = {t1}
  MCLines = 2
  MCWords = {"a"}
  Contents <- MCContents
  EmptyContent <- EmptyString
  Drafts <- MCPairDrafts
  RawPayloads <- MCRawPayloads
  Payloads <- MCPayloads
  NoEntries <- EmptyString
  NoEvent = NoEvent
  Apply <- applyEntriesToContent
  Diff <- MCDiff
  None = None
  MaxSeq = 3
  MaxFaults = 1
  WriteChCap = 1
  MaxMishaps = 2
  Urns = {1, 2, 3}
  Stamps <- MCStamps
  PageSize = 1
  MaxWrites = 1
  HttpRequests = {h1}
  GrpcRequests = {g1}
  Runners = {p1}
  Followers = {f1}
  Nobody = Nobody
  QueueCap = 1
SPECIFICATION ProviderSpec
INVARIANTS ProviderTypeOK LogMatchesHead AcknowledgedOnceAndKept  ServesTheWholeSchema ListedOnce NoRequestIsDropped
PROPERTIES  ImplementsNoteLog EveryCallReturns ServerEnds
CHECK_DEADLOCK FALSE
