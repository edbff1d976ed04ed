\* Both versions of the machine.  The first packet of each node, and a second one
\* of any node.
SPECIFICATION Spec
CONSTANTS
  NumDGX = 1
  SomeVersions = {"P100", "V100"}
  MaxPackets = 2
PROPERTIES ShortestRoute NoWaitCycle EveryPacketArrives
CHECK_DEADLOCK FALSE
