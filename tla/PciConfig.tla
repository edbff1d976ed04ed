----------------------------- MODULE PciConfig ------------------------------
(***************************************************************************)
(* The configuration space of a PCI bridge (gem5/src/mem/PciBridge.cc): the*)
(* bus numbers and address windows that software writes into the bridge,   *)
(* and two uses the bridge makes of them, namely routing a request by      *)
(* address and a response by bus number.  The third is in PciRanges.       *)
(*                                                                         *)
(* A bridge (a root complex or a switch) has NPorts downstream ports, each *)
(* with a config_class; number 0 is the one of a switch's upstream port,   *)
(* storage_ptr4.  A port has three windows.  Window registers count units  *)
(* of Gran addresses (1 MB; 4 KB for I/O).  The bits of a register that    *)
(* software cannot write, the PCIe capability structure and the registers  *)
(* that only the software itself reads are left out; the BARs of the       *)
(* bridge have size 0 in every configuration, and such a BAR does nothing. *)
(***************************************************************************)
EXTENDS Integers, Sequences

CONSTANTS
  NPorts,     \* downstream ports
  Gran,       \* addresses in a unit of a window register
  UpperUnit,  \* addresses in a unit of the upper prefetchable registers (2^32)
  UpperMod,   \* the limit's upper register is read as a uint16_t
  IOUpper,    \* IOBaseUpper and IOLimitUpper, which no write changes, as an address
  AddrMod     \* 2^64: addresses are 0 .. AddrMod - 1; 2^32 is UpperUnit

Ports == 1 .. NPorts
Configs == 0 .. NPorts

ASSUME ConfigAssumption ==
  /\ NPorts \in Nat \ {0} /\ Gran \in Nat \ {0}
  /\ UpperUnit \in Nat /\ UpperMod \in Nat \ {0}
  /\ IOUpper \in Nat /\ AddrMod \in Nat \ {0}

Kinds == {"mem", "pref", "io"}

(* A config_class after initialize_ports with the parameters' defaults. *)
NewConfig ==
  [sec |-> 0, sub |-> 0, isValid |-> FALSE,
   base |-> [k \in Kinds |-> 0], limit |-> [k \in Kinds |-> 0],
   baseUpper |-> 0, limitUpper |-> 0,
   validBase |-> {}, validLimit |-> {}]

-----------------------------------------------------------------------------
(* stored_base * PREFETCH_BASE_SHIFT is a product of ints.  From half of 2^32 *)
(* on it overflows; the compiled code keeps the 32 bits, and the uint64_t it *)
(* is added to gets them with the sign extended.                             *)
IntProduct(v) ==
  IF 2 * (v * Gran) < UpperUnit THEN v * Gran ELSE (v * Gran) - UpperUnit

(* The windows: getMemoryBase and its siblings.  Those of memory and I/O are *)
(* uint32_t and do not overflow.                                             *)
WindowBase(r, k) ==
  CASE k = "mem" -> r.base[k] * Gran
    [] k = "pref" -> ((r.baseUpper * UpperUnit) + IntProduct(r.base[k])) % AddrMod
    [] k = "io" -> IOUpper + (r.base[k] * Gran)

WindowLimit(r, k) ==
  (CASE k = "mem" -> r.limit[k] * Gran
     [] k = "pref" -> (((r.limitUpper % UpperMod) * UpperUnit) + IntProduct(r.limit[k])) % AddrMod
     [] k = "io" -> IOUpper + (r.limit[k] * Gran)) + (Gran - 1)

(* Mutant: the limit is taken as the first address behind the window. *)
InWindowShort(r, k, a) ==
  WindowBase(r, k) <= a /\ a < WindowLimit(r, k) /\ WindowBase(r, k) # 0

(* The test of getMasterPort; it does not look at the valid flags. *)
InWindow(r, k, a) ==
  /\ WindowBase(r, k) <= a /\ a <= WindowLimit(r, k)
  /\ WindowBase(r, k) # 0 /\ WindowLimit(r, k) # 0

(* getMasterPort and getSlavePort: the first port that matches, else the     *)
(* port on the other side, number 0 (masterPort_DMA, slavePort).             *)
FirstPort(hits) ==
  IF hits = {} THEN 0 ELSE CHOOSE p \in hits : \A q \in hits : p <= q
GetMasterPort(c, a) ==
  FirstPort({p \in Ports : \E k \in Kinds : InWindow(c[p], k, a)})
GetSlavePort(c, bus) ==
  FirstPort({p \in Ports : c[p].sec <= bus /\ bus <= c[p].sub /\ c[p].isValid})

-----------------------------------------------------------------------------
(* What a write to a register does to a config_class (writeConfig). *)
SetBase(r, k, v) == [r EXCEPT !.base[k] = v, !.validBase = @ \cup {k}]
SetLimit(r, k, v) == [r EXCEPT !.limit[k] = v, !.validLimit = @ \cup {k}]
SetBuses(r, s, t) == [r EXCEPT !.sec = s, !.sub = t, !.isValid = TRUE]
=============================================================================
