CONSTANTS
  Layers = {0, 5}
  Widths = {512}
  Versions = {1, 2}
  Paired = {}
SPECIFICATION ToolSpec
INVARIANTS
  SmokeTakesABlock
