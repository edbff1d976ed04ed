SPECIFICATION EnumSpec
CONSTANTS
  NPorts = 2
  Gran = 2
  UpperUnit = 8
  UpperMod = 2
  IOUpper = 8
  AddrMod = 32
  Windows <- OneWindow
  Regs = {0, 1}
  Uppers = {1}
  BusNumbers <- NoBuses
INVARIANT AcceptsTheRest
