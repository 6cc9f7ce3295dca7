SPECIFICATION ServedSpec
CONSTANTS
  Signals <- MCSignals
  MaxSignals = 2
  MaxFds = 2
  MaxWait = 3
  MaxBatch = 2
INVARIANTS
  TypeOK
  SendOnOpenSocket
  LoggedOutBetweenSessions
  SessionsCloseTheirSocket
  FailedAttemptsAreSpaced
PROPERTIES
  BrokenPipeEnds
  SignalEndsSession

