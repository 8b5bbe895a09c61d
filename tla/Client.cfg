SPECIFICATION FairSpec
CONSTANTS
  Nodes = {n1, n2}
  None = None
  Changing = {n1}
INVARIANTS TypeOK ConnectionsInStep
PROPERTIES RepliesAreOwn CallsEnd ServesMembers
