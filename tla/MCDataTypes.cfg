SPECIFICATION Spec
CONSTANTS
  Key = {k1, k2}
  Nil = Nil
  NaN = NaN
  minDequeNodeSize = 4
  VarintBase = 4
  Spare = 1
  Elem <- MCElem
  Padding = {3, 21}
  MaxList = 4
  MaxBuf = 12
  Item = {"a", "b", "c"}
  Hash1 <- MCHash1
  Hash2 <- MCHash2
  Seed = {1, 2}
  SeedHash <- MCSeedHash
  CMSDim <- MCCMSDim
  BloomDim <- MCBloomDim
  UintMod = 4
  MaxCount = 5
  Member = {1, 2, 3}
  Score = {1, 2}
  FlagSets <- MCFlagSets
  MaxScore = 2
  Field = {1, 2, 3}
  Counter = {1}
  Incr <- MCIncr
  Text = 99
  MaxExact = 3
  MaxPlain = 2
  MaxInt = 4
  MaxFloat = 6
  Patterns = {{1, 2, 3}, {1, 3}}
  Element = {1, 2}
SYMMETRY Symmetry
INVARIANTS
  TypeOK
  ListsAgree
  DequeLayout
  SketchCounts
  NoFalseNegatives
  TreeMatchesMap
  RanksAgree
  
  ScanComplete
PROPERTY ErrorIsClean
