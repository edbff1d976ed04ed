SPECIFICATION FairSpec
CONSTANTS
  NumVCs = 2
  BufSize = 4
  PrivateOf <- OneEach
  PrivateSize <- OneSlot
  MaxHeldSlots = 2
  IntHalf = 16
  NumInputs = 2
  NumOutputs = 2
  CrossbarDelay = 1
  FlitLatency = 1
  CreditLatency = 1
  Configs <- SomeConfigs
  Dest <- Ports
INVARIANTS VCsQueued OwnersMatch WholePackets CreditsKept RoomBehindCrossbar
PROPERTY AllDelivered
