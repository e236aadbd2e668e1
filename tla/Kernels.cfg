SPECIFICATION LaunchSpec
CONSTANTS
  Width = 4
  Kernels = {"Q4K", "Q5K", "Q6KScalar", "IQ4XS4Warp", "IQ4XSSm86", "Q5KSm86", "IQ4XSQ81", "Q5KDp4a", "IQ4XSPrmt", "Q5KVec", "Q6KVec"}
  RowCounts = {1, 3, 4, 5}
  BlockCounts = {1, 2, 3}
  MaxBlocks = 8
  LayerLanes = 2
  QkHeads = 2
  ValueHeads = 3
  Hidden = 50
  FfnDim = 30
  CtaThreads = 20
  Seeds = {1, 2}
  Prime = 997
INVARIANTS
  NoRace
  ScaledByTheWholeSum
  RowsAreDotProducts
  LoadsAreAligned
  LayerIsTheReference
PROPERTIES
  BarriersAreAligned
