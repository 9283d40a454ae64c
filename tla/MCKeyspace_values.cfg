SPECIFICATION Spec
CONSTANTS
  Key = {k1, k2}
  Obj = {o1, o2, o3}
  Nil = Nil
  NoExpiry = NoExpiry
  MaxKeys = 2
  MsPerSec = 1
  MaxEXDurationSec = 2
  MaxAbsTimestamp = 0
  IntMax = 3
  Field = {f1}
  FieldVal = {x1}
  SetArg <- MCNumbers
  SetParams <- MCPlainOrPX
  GetexParams = {}
  ExpiryArg = {1}
  ExpireOpts = {}
  Delta = {1}
  MaxTime = 1
  MaxLen = 2
SYMMETRY Symmetry
INVARIANT TypeOK
PROPERTY ImplementsTTLCache
