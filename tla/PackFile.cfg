SPECIFICATION Spec
CONSTANTS
  Handles = {h1, h2, h3}
  Files <- MCFiles
  Addresses = {a1, a2, a3}
  Fds = {3, 4, 5}
  None = None
SYMMETRY Symmetry
INVARIANTS
  OneOwner
  HandlesAreWhole
  ViewsAreInside
PROPERTY
  OwnsByValue
