CONSTANTS
  Missing = Missing
  Torn = Torn
  Count = 2
  MAX_FAULTS = 3
  MAX_EDITS = 1
SPECIFICATION Spec
INVARIANTS FilesMatchHistory
PROPERTIES HistoryOnlyAdvances ForeignFilesKept TransactionsEnd
