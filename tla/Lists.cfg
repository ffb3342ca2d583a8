SPECIFICATION MCSpec
CONSTANTS
  Heads = {h1, h2}
  Entries = {e1, e2, e3}
  NULL = NULL
SYMMETRY Symmetry
PROPERTIES
  ImplementsLists
  ImplementsHashLists
