SPECIFICATION FairSpec
CONSTANTS
  t1 = t1
  t2 = t2
  c1 = c1
  c2 = c2
  None = None
  Thread = {t1, t2}
  Client = {c1, c2}
  ClientOf <- TwoClients
  ModeOf <- MixedModeOf
  Key = {"k1"}
  CommandsOf <- ReaderAndWriter
  Breakable = {}
  MaxVer = 1
  MaxJobs = 2
PROPERTY GetAnswered
CHECK_DEADLOCK FALSE
