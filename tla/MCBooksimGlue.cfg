SPECIFICATION Spec
CONSTANTS
  NSwitches = 2
  NInPorts = 2
  NVNets = 2
  SwitchOf <- TwoSwitches
  Msgs <- FourMsgs
  From <- TheFrom
  Dests <- TheDests
  Size <- TheSize
  NLanes = 2
  InjSize = 2
  IntHalf = 4
  Speedup = 2
CHECK_DEADLOCK FALSE
INVARIANTS MapMatchesNetwork EveryCopyOnce NetworkKeepsRunning
