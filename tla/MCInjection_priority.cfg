SPECIFICATION EitherSpec
CONSTANTS
  NumVCs = 2
  BufSize = 4
  PrivateOf <- OwnBuffer
  PrivateSize <- OneSlot
  MaxHeldSlots = 3
  IntHalf = 8
  SomePolicies = {"private"}
  SomeWaits = {FALSE}
  Senders = {"node"}
  NodePolicies = {"private"}
  NodeWaits = {FALSE}
  MaxPid = 4
  NumClasses = 3
  BeginVC <- FirstVC
  EndVC <- LastVC
  SomeHolds = {FALSE}
  InjSize = 1
  Sizes = {1, 2}
  PriOf <- OneHigh
PROPERTY TakesFreeVC
