CONSTANTS
  Clients = {c1, c2}
  Nobody = Nobody
  Ctrl = Ctrl
  Esc = Esc
  QueueSize = 2
SPECIFICATION Spec
SYMMETRY Symmetry
INVARIANTS
  KeyboardFollows
  StuckKeysWereHeld
