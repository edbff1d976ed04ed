\* Two VCs on a shared buffer of three slots, one of them private to both.
SPECIFICATION EitherSpec
CONSTANTS
  NumVCs = 2
  BufSize = 3
  PrivateOf <- OneBuffer
  PrivateSize <- OneSlot
  MaxHeldSlots = 2
  IntHalf = 8
  SomePolicies = {"private", "shared", "limited", "dynamic", "shifting"}
  SomeWaits = {TRUE, FALSE}
  Senders = {"node", "any"}
  NodePolicies = {"shared", "private"}
  NodeWaits = {FALSE}
  MaxPid = 3
  NumClasses = 2
  BeginVC <- LaterFirst
  EndVC <- LastVC
  SomeHolds = {TRUE, FALSE}
  InjSize = 2
  Sizes = {2}
  PriOf <- SamePri
INVARIANTS
  CreditsConserved NoOverflow HolderHasRoom ReservedIsHeld NoInterleaving NoIdleCredit
PROPERTIES LoopSpec NodePacketsLeave
