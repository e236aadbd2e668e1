SPECIFICATION RecordsSpec
CONSTANTS
  Sizes = {0, 1, 255, 256, 257, 1000, 4000}
  PageSizes = {0, 1, 96, 256, 512, 4096}
  MaxTensors = 3
  Bits = 13
  Layers = {0, 5}
  Widths = {5120, 512, 384}
  Versions = {1, 2}
  Paired = {"ssm_beta", "ssm_alpha", "attn_norm"}
INVARIANTS
  Disjoint
  Fits
  ReadsAreExact
  ReadyMeansDispatched
  StagesNest
CHECK_DEADLOCK FALSE
