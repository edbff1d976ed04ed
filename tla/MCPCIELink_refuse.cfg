\* A device may refuse the first TLP of a direction.
SPECIFICATION Spec
CONSTANTS
  up = up
  down = down
  Links <- MCLinks
  MaxQueueSize = 2
  Lanes = 1
  MpsTime = 2
  TLPTime <- ShortLong
  DLLPTime = 1
  LinkDelay = 0
  IntHalf = 8
  SeqMod = 32
  RefuseFirst = TRUE
  MaxTLP <- ThreeTwo
INVARIANTS AckSound
