SPECIFICATION ServedSpec
CONSTANTS
  Signals <- MCOneSignal
  MaxSignals = 1
  MaxFds = 2
  MaxWait = 4
  MaxBatch = 1
PROPERTIES
  SignalExits
