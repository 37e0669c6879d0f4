SPECIFICATION Spec
CONSTANTS
  MaxOutputs = 3
  Addresses = {a1, a2}
  h1 = h1
  h2 = h2
  Hosts <- MCHosts
  None = None
  Machines <- MCMachines
  Extent <- MCExtent
  Moves <- MCMoves
  OwnMoves <- MCOwnMoves
  Word = 256
INVARIANTS MonitorsAreOwn CursorInBounds PointerFollows
PROPERTIES StartsOnScreen
SYMMETRY Symmetry
