SPECIFICATION FairSpec
CONSTANTS
  Key = {k1}
  Obj = {o1, o2}
  Nil = Nil
  NoExpiry = NoExpiry
  MaxKeys = 2
  MsPerSec = 2
  MaxEXDurationSec = 3
  MaxAbsTimestamp = 2
  IntMax = 7
  Field = {}
  FieldVal = {}
  SetArg <- MCOne
  SetParams <- MCSetParams
  GetexParams <- MCGetexParams
  ExpiryArg <- MCExpiryArgs
  ExpireOpts <- MCExpireOpts
  Delta = {}
  MaxTime = 4
  MaxLen = 3
INVARIANT NoOrphanExpiry
PROPERTIES ImplementsTTLCache ExpiredReclaimed
