SPECIFICATION LiveSpec
CONSTANTS
  Frontends = {"capture", "host", "join"}
  MaxSignals = 2
  MaxChunks = 3
  MaxTime = 3
INVARIANTS TerminalRestored CaptureFaithful
PROPERTY SignalObeyed
CHECK_DEADLOCK FALSE
