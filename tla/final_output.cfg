SPECIFICATION Spec
CONSTANTS
  c1 = c1
  c2 = c2
  Client = {c1}
  NoClient = NoClient
  NoSize = NoSize
  Cols <- Axis
  Rows <- Axis
  Initial <- Large
  HostSize <- NoTerminal
  LocalInput = FALSE
  HelloLen = 1
  SizeLen = 1
  ChunkLen <- Uneven
  MaxBacklog = 4
  MaxReplay = 2
  Script <- Silence
  LocalScript <- Silence
  Agenda <- Silence
  MaxOut = 2
  MaxUnread = 2
  MaxWaiting = 1
  MaxHistory = 0
  World = {"exit"}
  Faults = {}
INVARIANT FinalOutputRecorded
