CONSTANTS
  Notes = {n1, n2}
  None = None
  ChannelCap = 1
  MaxRows = 2
  MaxCrashes = 1
  Topics = {"w1", "w2"}
  Projects = {p1}
  Titles = {"v1"}
  TitleOf <- MCTitleOf
  InferenceCap = 1
  MaxRerunsPerDay = 2
  MinMatches = 1
  MaxEdits = 3
  MaxDays = 2
  MaxUpsets = 1
  SecureNotes = {}
  Subjects = {"k", "l"}
  Kin <- MCKin
  Places <- MCPlaces
  FirstPlace <- MCFirstPlace
  PollLimit = 1
  MaxEvents = 3
  MaxIncidents = 1
  BatchLimit = 2
  MaxSeq = 1
  MaxResets = 1
  MaxParagraphFaults = 1
SPECIFICATION BackgroundSpec
INVARIANTS BackgroundTypeOK  SuggestionsAreLimited   NoRelationIsMissed  RelationsResolve
PROPERTIES EveryCandidateIsOffered MissingTitleIsSuggested EveryEditIsAnalysed EveryChangeIsProcessed
CHECK_DEADLOCK FALSE
