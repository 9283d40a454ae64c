SPECIFICATION FairSpec
CHECK_DEADLOCK FALSE
CONSTANTS
  Client = {c1, c2}
  Key = {k1, k2}
  Shard = {s1}
  Nil = Nil
  Restored = {k1}
  MaxCommands = 2
  MaxSignals = 1
INVARIANTS
  TypeOK
  ReplayMatches
  AnsweredIsLogged
  TeardownAfterThreads
PROPERTIES
  ShutdownCompletes
  AcceptFailureEnds
