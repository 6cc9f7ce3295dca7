SPECIFICATION HelpfulSpec
CONSTANTS
  Signals <- MCOneSignal
  MaxSignals = 0
  MaxFds = 2
  MaxWait = 4
  MaxBatch = 1
PROPERTIES
  Reconnects
