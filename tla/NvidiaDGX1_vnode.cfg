\* The first packet of a node.
SPECIFICATION Spec
CONSTANTS
  NumDGX = 1
  SomeVersions = {"P100"}
  MaxPackets = 1
INVARIANT EntersAtSource
CHECK_DEADLOCK FALSE
