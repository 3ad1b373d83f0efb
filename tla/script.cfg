CONSTANTS
  Symbols <- SymbolsUsed
  Documents <- SmallDocuments
  Words <- WordsUsed
  Numbers <- NumbersUsed
  Wide <- WideNumbers
  Huge <- HugeNumbers
  Durations <- DurationsUsed
SPECIFICATION ScriptSpec
INVARIANTS OnlyWellFormed ReadsBack
CHECK_DEADLOCK FALSE
