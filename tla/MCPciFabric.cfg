SPECIFICATION FairSpec
CONSTANTS
  NPorts = 2
  Gran = 2
  UpperUnit = 64
  UpperMod = 2
  IOUpper = 48
  AddrMod = 128
  ReqLimit = 1
  RespLimit = 1
  Reqs <- FiveReqs
  Entry <- TheEntry
  Addr <- TheAddr
  Needs <- TheNeeds
  Config <- TheConfig
  UpBus <- TheUpBus
  LinkSize = 2
CHECK_DEADLOCK FALSE
INVARIANTS SlotPerRequest ResponsesGoHome StalledForAReason SwitchHasRoom
PROPERTY AllAnswered
