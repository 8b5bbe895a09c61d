SPECIFICATION Spec
CONSTANTS
  Nodes = {n1, n2}
  None = None
  Changing = {n1}
INVARIANT CloseStopsWatcher
