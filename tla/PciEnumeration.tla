--------------------------- MODULE PciEnumeration ---------------------------
(***************************************************************************)
(* Software sets up a bridge: config_class::writeConfig for the registers  *)
(* of PciConfig, in any order and with the access sizes the code tells     *)
(* apart, and what the bridge's neighbours know of its address ranges.     *)
(* A neighbour asks for the ranges when it is sent a range change.         *)
(*                                                                         *)
(* A checkpoint stores every register and flag of this model, so restoring *)
(* one makes a new bridge with the same registers whose neighbours know    *)
(* only what unserialize tells them.                                       *)
(***************************************************************************)
EXTENDS PciRanges

CONSTANTS
  Windows,    \* bound: for each is_switch, the windows <<config, kind>> set up
  Regs,       \* bound: values written to window registers
  Uppers,     \* bound: values written to the upper prefetchable registers
  BusNumbers  \* bound: for each is_switch, the <<config, secondary, subordinate>> written

ASSUME EnumerationAssumption ==
  /\ Regs \subseteq Nat /\ Uppers \subseteq Nat
  /\ \A s \in BOOLEAN : /\ Windows[s] \subseteq Configs \X Kinds
                        /\ BusNumbers[s] \subseteq Configs \X Nat \X Nat

VARIABLES
  isSwitch,  \* is_switch, never changed
  cfg,       \* [Configs -> config_class]
  known      \* [Configs -> the ranges the neighbour of a slave port knows]

enumVars == <<isSwitch, cfg, known>>

Ranges(c) == [p \in Configs |-> GetAddrRanges(c, isSwitch, p)]

(* PciBridge::init tells the neighbour of slavePort; the others ask too. *)
EnumInit ==
  /\ isSwitch \in BOOLEAN
  /\ cfg = [c \in Configs |-> NewConfig]
  /\ known = Ranges(cfg)

-----------------------------------------------------------------------------
(* Mutant: the upstream neighbour is told only of its own registers. *)
NotifiedOwn(c) == {c}

(* The slave ports that send a range change when a window of c was written. *)
Notified(c) == (IF c = 0 \/ ~isSwitch THEN {0} ELSE {}) \cup ({c} \ {0})

(* Only a switch has registered its upstream port with the host. *)
Reachable(c) == c \in Ports \/ isSwitch

WriteWindowRegister(c, r) ==
  /\ Reachable(c)
  /\ cfg' = [cfg EXCEPT ![c] = r]
  /\ known' = [p \in Configs |-> IF p \in Notified(c) THEN Ranges(cfg')[p] ELSE known[p]]
  /\ UNCHANGED isSwitch

(* One register: 8 bits for I/O, 16 bits for memory. *)
WriteBase(c, k, v) == WriteWindowRegister(c, SetBase(cfg[c], k, v))
WriteLimit(c, k, v) == WriteWindowRegister(c, SetLimit(cfg[c], k, v))

(* Base and limit at once: 16 bits for I/O, 32 bits for memory. *)
WriteWindow(c, k, b, l) ==
  WriteWindowRegister(c, SetLimit(SetBase(cfg[c], k, b), k, l))

(* The upper registers.  Those of I/O keep their value: a write to one (16   *)
(* bits) or to both (32 bits) only sets the valid flags.                     *)
WriteBaseUpper(c, v) ==
  WriteWindowRegister(c, [cfg[c] EXCEPT !.baseUpper = v, !.validBase = @ \cup {"pref"}])
WriteLimitUpper(c, v) ==
  WriteWindowRegister(c, [cfg[c] EXCEPT !.limitUpper = v, !.validLimit = @ \cup {"pref"}])
WriteIOUpper(c, b, l) ==
  WriteWindowRegister(c, [cfg[c] EXCEPT !.validBase = @ \cup b, !.validLimit = @ \cup l])

(* The bus numbers: one by one (8 bits), of which the secondary one makes    *)
(* them valid, or together (32 bits).  No range changes.                     *)
WriteBuses(c, r) ==
  Reachable(c) /\ cfg' = [cfg EXCEPT ![c] = r] /\ UNCHANGED <<isSwitch, known>>
WriteSecondary(c, s) == WriteBuses(c, [cfg[c] EXCEPT !.sec = s, !.isValid = TRUE])
WriteSubordinate(c, t) == WriteBuses(c, [cfg[c] EXCEPT !.sub = t])
WriteBusNumbers(c, s, t) == WriteBuses(c, SetBuses(cfg[c], s, t))

(* A restored bridge has the registers of the checkpoint.  Its neighbours    *)
(* asked at start-up, when they were new, and ask again if unserialize sends *)
(* them a range change, as it does from every slave port.                    *)
ToldByUnserialize == Configs
Unserialize ==
  /\ known' = [p \in Configs |->
        IF p \in ToldByUnserialize THEN Ranges(cfg)[p]
        ELSE Ranges([c \in Configs |-> NewConfig])[p]]
  /\ UNCHANGED <<isSwitch, cfg>>

EnumNext ==
  \/ \E w \in Windows[isSwitch], v \in Regs : WriteBase(w[1], w[2], v) \/ WriteLimit(w[1], w[2], v)
  \/ \E w \in Windows[isSwitch], b, l \in Regs : WriteWindow(w[1], w[2], b, l)
  \/ \E w \in Windows[isSwitch], v \in Uppers :
       w[2] = "pref" /\ (WriteBaseUpper(w[1], v) \/ WriteLimitUpper(w[1], v))
  \/ \E w \in Windows[isSwitch], b, l \in SUBSET {"io"} :
       w[2] = "io" /\ b \cup l # {} /\ WriteIOUpper(w[1], b, l)
  \/ \E n \in BusNumbers[isSwitch] :
       \/ WriteSecondary(n[1], n[2])
       \/ WriteSubordinate(n[1], n[3])
       \/ WriteBusNumbers(n[1], n[2], n[3])
  \/ Unserialize

EnumSpec == EnumInit /\ [][EnumNext]_enumVars

-----------------------------------------------------------------------------
(* Properties. *)
Addrs == 0 .. AddrMod - 1
Accepts(p, a) == \E r \in known[p] : InRange(a, r)

(* No neighbour works with stale ranges: whatever the order and the size of  *)
(* the writes, each knows what getAddrRanges would answer now (the flag of   *)
(* writeConfig and the choice of ports that send a range change).            *)
KnownIsCurrent == known = Ranges(cfg)

(* A prefetchable window that ends at the last address.  RangeIn adds one to *)
(* its limit, which gives 0: what is announced is an empty range.            *)
EndsAtTop(r) == WindowLimit(r, "pref") = AddrMod - 1

(* getMasterPort and getAddrRanges read the registers with different tests,  *)
(* one without the valid flags.  They agree: the root complex sends down     *)
(* exactly the addresses it has announced, even between two writes, once the *)
(* I/O windows, which start out open, have been written.  The one exception  *)
(* is a prefetchable window that ends at the last address: getMasterPort     *)
(* sends its addresses down although nobody was told of them.                *)
RoutesWhatItAnnounces ==
  ~isSwitch /\ (\A p \in Ports : "io" \in cfg[p].validBase \cap cfg[p].validLimit) =>
    \A a \in Addrs :
      /\ Accepts(0, a) => GetMasterPort(cfg, a) # 0
      /\ GetMasterPort(cfg, a) # 0 =>
           Accepts(0, a) \/ \E p \in Ports : EndsAtTop(cfg[p]) /\ InWindow(cfg[p], "pref", a)

(* What holds of the registers of the code: a unit is more than one address  *)
(* (1 MB, 4 KB for I/O), 2^32 is a number of whole units and 2^64 one of     *)
(* 2^32, and the windows of memory and I/O, 32-bit numbers, end before the   *)
(* last address.                                                             *)
WindowsFit ==
  /\ Gran > 1
  /\ \E m \in 1 .. UpperUnit : UpperUnit = m * Gran
  /\ \E n \in 1 .. AddrMod : AddrMod = n * UpperUnit
  /\ \A v \in Regs \cup {0} : IOUpper + (v * Gran) + Gran < AddrMod

(* "Need to configure the range as the ~ of downstream ranges" (comment in   *)
(* getAddrRanges): a DMA port with something downstream accepts exactly the  *)
(* addresses that are not downstream of it.                                  *)
AcceptsTheRest ==
  \A p \in Ports :
    (\E k \in Kinds : Announced(cfg[p], k)) =>
      \A a \in Addrs :
        Accepts(p, a) <=> ~\E k \in Kinds : Announced(cfg[p], k) /\ InWindow(cfg[p], k, a)
=============================================================================
