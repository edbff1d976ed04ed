\* Three TLPs one way and one the other through a replay buffer of two.
\* The event queue runs, devices drain their queues, and packets propagate for a
\* tick: the delay queue of processTxQueue is in use.
SPECIFICATION FairSpec
CONSTANTS
  up = up
  down = down
  Links <- MCLinks
  MaxQueueSize = 2
  Lanes = 1
  MpsTime = 2
  TLPTime <- ShortLong
  DLLPTime = 1
  LinkDelay = 1
  IntHalf = 8
  SeqMod = 32
  RefuseFirst = FALSE
  MaxTLP <- ThreeOne
INVARIANTS NoLoss AckSound ReplayRoom RetryPending InOrder ReplayArmed
PROPERTIES ReliableChannel NotRefusedForever
