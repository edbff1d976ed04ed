SPECIFICATION EnumSpec
CONSTANTS
  NPorts = 2
  Gran = 2
  UpperUnit = 8
  UpperMod = 2
  IOUpper = 8
  AddrMod = 32
  Windows <- SomeWindows
  Regs = {1, 3}
  Uppers = {1}
  BusNumbers <- SomeBuses
INVARIANTS KnownIsCurrent RoutesWhatItAnnounces
