SPECIFICATION Spec
CONSTANTS
  Key = {k1, k2, k3, k4}
  Obj = {o1, o2, o3, o4}
  Nil = Nil
  NoExpiry = NoExpiry
  MaxKeys = 3
  MsPerSec = 1
  MaxEXDurationSec = 3
  MaxAbsTimestamp = 0
  IntMax = 15
  Field = {}
  FieldVal = {}
  SetArg <- MCOne
  SetParams <- MCEvictParams
  GetexParams = {}
  ExpiryArg = {1}
  ExpireOpts = {}
  Delta = {}
  MaxTime = 2
  MaxLen = 4
SYMMETRY Symmetry
INVARIANTS NoAliasing KeyCountExact KeyCountBounded LenCoversKeys
PROPERTY EvictionIsLRU
