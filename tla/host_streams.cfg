SPECIFICATION Spec
CONSTANTS
  c1 = c1
  c2 = c2
  Client = {c1, c2}
  NoClient = NoClient
  NoSize = NoSize
  Cols <- Axis
  Rows <- Axis
  Initial <- Large
  HostSize <- Either
  LocalInput = FALSE
  HelloLen = 1
  SizeLen = 1
  ChunkLen <- Uneven
  MaxBacklog = 4
  MaxReplay = 2
  Script <- Silence
  LocalScript <- Silence
  Agenda <- Silence
  MaxOut = 2
  MaxUnread = 1
  MaxWaiting = 1
  MaxHistory = 2
  World = {"rst"}
  Faults = {}
SYMMETRY Symmetry
INVARIANTS TypeOK StreamsUnbroken EverybodyKnowsTheSize HistoryComplete ReplayRecent WithinBudget CountersAddUp
PROPERTIES ImplementsRoom
