SPECIFICATION Spec
CONSTANTS
  c1 = c1
  c2 = c2
  Client = {c1, c2}
  NoClient = NoClient
  NoSize = NoSize
  Cols <- Axis
  Rows <- Axis
  Initial <- Large
  HostSize <- NoTerminal
  LocalInput = TRUE
  HelloLen = 1
  SizeLen = 1
  ChunkLen <- NoLengths
  MaxBacklog = 3
  MaxReplay = 0
  Script <- Typists
  LocalScript <- Detaching
  Agenda <- Queueing
  MaxOut = 0
  MaxUnread = 1
  MaxWaiting = 1
  MaxHistory = 0
  World = {"eof"}
  Faults = {"head", "ctl", "inject", "poll", "input", "accept", "sync", "stdin", "local", "pty", "finish"}
SYMMETRY Symmetry
CONSTRAINT ClientsOrDesk
INVARIANTS InputAdmitted FitsEverybody InputInOrder TextThenReturn QueueConserved
