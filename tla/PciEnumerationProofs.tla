------------------------ MODULE PciEnumerationProofs ------------------------
(***************************************************************************)
(* Proofs about the set-up of a bridge, for any number of ports and        *)
(* whatever software writes: its neighbours never work with stale address  *)
(* ranges, and a root complex routes downstream exactly what it announced, *)
(* but for a prefetchable window that ends at the last address.            *)
(*                                                                         *)
(* A write changes one config_class.  The ranges of slave port p depend on *)
(* config p alone, except those of the upstream port of a root complex,    *)
(* which depend on all of them; so it is enough that a write tells the     *)
(* ports of Notified, and that bus numbers are no part of any range.       *)
(***************************************************************************)
EXTENDS PciEnumeration, WellFoundedInduction, TLAPS

(* More time than by default for the provers. *)
USE SMTT(30), ZenonT(30)

-----------------------------------------------------------------------------
(* Ports. *)

(* A nonempty set of ports has a first one. *)
LEMMA FirstExists ==
  ASSUME NEW S \in SUBSET Nat, S # {}
  PROVE  \E x \in S : \A y \in S : x <= y
<1> DEFINE R == OpToRel(<, Nat)
<1>1. IsWellFoundedOn(R, Nat)
  BY NatLessThanWellFounded, ZenonT(30)
<1>2. \A x, y \in Nat : y < x => <<y, x>> \in R
  BY Zenon DEF OpToRel
<1> HIDE DEF R
<1>3. PICK x \in S : \A y \in S : ~(<<y, x>> \in R)
  BY <1>1, WFMin, ZenonT(30)
<1>4. \A y \in S : ~(y < x)
  BY <1>2, <1>3, ZenonT(30)
<1> QED BY <1>4

(* getMasterPort and getSlavePort return one of the ports they look at, or 0.*)
LEMMA FirstPortIsPort ==
  ASSUME NEW S \in SUBSET Ports
  PROVE  FirstPort(S) \in Configs /\ (S # {} => FirstPort(S) \in S)
<1>1. Ports \subseteq Nat /\ Ports \subseteq Configs /\ 0 \in Configs
  BY ConfigAssumption DEF Ports, Configs
<1>2. CASE S = {}
  BY <1>1, <1>2, Zenon DEF FirstPort
<1>3. CASE S # {}
  <2>1. \E x \in S : \A y \in S : x <= y
    BY <1>1, <1>3, FirstExists, Zenon
  <2>2. FirstPort(S) \in S
    BY <1>3, <2>1, Zenon DEF FirstPort
  <2> QED BY <1>1, <2>2, ZenonT(30)
<1> QED BY <1>2, <1>3, Zenon

-----------------------------------------------------------------------------
(* A config_class: which fields it has and what they hold. *)
ConfigClass ==
  [sec : Nat, sub : Nat, isValid : BOOLEAN,
   base : [Kinds -> Nat], limit : [Kinds -> Nat], baseUpper : Nat, limitUpper : Nat,
   validBase : SUBSET Kinds, validLimit : SUBSET Kinds]

CfgOK == isSwitch \in BOOLEAN /\ cfg \in [Configs -> ConfigClass]

(* What the proof carries along: KnownIsCurrent and the shape of a bridge. *)
CurrentInv == CfgOK /\ KnownIsCurrent

-----------------------------------------------------------------------------
(* fill_ranges reads the window registers and flags, not the bus numbers. *)
LEMMA BusesLeaveRanges ==
  ASSUME NEW r, NEW q, q.base = r.base, q.limit = r.limit,
         q.baseUpper = r.baseUpper, q.limitUpper = r.limitUpper,
         q.validBase = r.validBase, q.validLimit = r.validLimit
  PROVE  FillRanges(q) = FillRanges(r)
  BY Zenon DEF FillRanges, FillRange, Announced, WindowBase, WindowLimit

(* A port that is not notified has the ranges it had (getAddrRanges). *)
LEMMA OthersUnchanged ==
  ASSUME CfgOK, NEW c \in Configs, NEW r, NEW p \in Configs, p \notin Notified(c)
  PROVE  GetAddrRanges([cfg EXCEPT ![c] = r], isSwitch, p) = GetAddrRanges(cfg, isSwitch, p)
<1>1. p # c /\ (p = 0 => isSwitch)
  BY Zenon DEF Notified, Configs
<1>2. [cfg EXCEPT ![c] = r][p] = cfg[p]
  BY <1>1, Zenon DEF CfgOK
<1>3. CASE p = 0
  BY <1>1, <1>2, <1>3 DEF GetAddrRanges, Downstream
<1>4. CASE p # 0
  BY <1>2, <1>4 DEF GetAddrRanges
<1> QED BY <1>3, <1>4, Zenon

(* A config_class with the same ranges changes the ranges of no port. *)
LEMMA SameRanges ==
  ASSUME CfgOK, NEW c \in Configs, NEW r, FillRanges(r) = FillRanges(cfg[c]),
         NEW p \in Configs
  PROVE  GetAddrRanges([cfg EXCEPT ![c] = r], isSwitch, p) = GetAddrRanges(cfg, isSwitch, p)
<1> DEFINE d == [cfg EXCEPT ![c] = r]
<1>1. \A q \in Configs : FillRanges(d[q]) = FillRanges(cfg[q])
  BY Zenon DEF CfgOK
<1> HIDE DEF d
<1>2. 0 \in Configs /\ Ports \subseteq Configs
  BY ConfigAssumption DEF Configs, Ports
<1>3. Downstream(d, isSwitch) = Downstream(cfg, isSwitch)
  BY <1>1, <1>2, Zenon DEF Downstream
<1>4. FillRanges(d[p]) = FillRanges(cfg[p])
  BY <1>1, Zenon
<1>5. GetAddrRanges(d, isSwitch, p) = GetAddrRanges(cfg, isSwitch, p)
  BY <1>3, <1>4, Zenon DEF GetAddrRanges
<1> QED BY <1>5, Zenon DEF d

-----------------------------------------------------------------------------
(* Every write of a window register keeps the ranges of all ports current. *)
LEMMA WindowWrite ==
  ASSUME CurrentInv, NEW c \in Configs, NEW r \in ConfigClass, WriteWindowRegister(c, r)
  PROVE  CurrentInv'
<1>1. cfg' = [cfg EXCEPT ![c] = r] /\ isSwitch' = isSwitch
  BY Zenon DEF WriteWindowRegister
<1>2. CfgOK'
  BY <1>1, Zenon DEF CurrentInv, CfgOK
<1>3. \A p \in Configs : known'[p] = GetAddrRanges(cfg', isSwitch, p)
  <2> TAKE p \in Configs
  <2>1. CASE p \in Notified(c)
    BY <2>1, Zenon DEF WriteWindowRegister, Ranges
  <2>2. CASE p \notin Notified(c)
    <3>1. known'[p] = known[p]
      BY <2>2, Zenon DEF WriteWindowRegister
    <3>2. known[p] = GetAddrRanges(cfg, isSwitch, p)
      BY Zenon DEF CurrentInv, KnownIsCurrent, Ranges
    <3> QED BY <1>1, <2>2, <3>1, <3>2, OthersUnchanged, Zenon DEF CurrentInv
  <2> QED BY <2>1, <2>2, Zenon
<1>4. known' = [p \in Configs |-> known'[p]]
  BY Zenon DEF WriteWindowRegister
<1>5. known' = [p \in Configs |-> GetAddrRanges(cfg', isSwitch', p)]
  BY <1>1, <1>3, <1>4, Zenon
<1> QED BY <1>2, <1>5, Zenon DEF CurrentInv, KnownIsCurrent, Ranges

(* A write of bus numbers changes no range, so nobody has to be told. *)
LEMMA BusWrite ==
  ASSUME CurrentInv, NEW c \in Configs, NEW r \in ConfigClass, WriteBuses(c, r),
         FillRanges(r) = FillRanges(cfg[c])
  PROVE  CurrentInv'
<1>1. cfg' = [cfg EXCEPT ![c] = r] /\ isSwitch' = isSwitch /\ known' = known
  BY Zenon DEF WriteBuses
<1>2. CfgOK'
  BY <1>1, Zenon DEF CurrentInv, CfgOK
<1>3. \A p \in Configs : GetAddrRanges(cfg', isSwitch', p) = GetAddrRanges(cfg, isSwitch, p)
  BY <1>1, SameRanges, Zenon DEF CurrentInv
<1>4. known' = [p \in Configs |-> GetAddrRanges(cfg', isSwitch', p)]
  BY <1>1, <1>3, Zenon DEF CurrentInv, KnownIsCurrent, Ranges
<1> QED BY <1>2, <1>4, Zenon DEF CurrentInv, KnownIsCurrent, Ranges

-----------------------------------------------------------------------------
(* The registers that software writes: each write leaves a config_class. *)
LEMMA WritesAreConfigs ==
  ASSUME NEW r \in ConfigClass, NEW k \in Kinds, NEW v \in Nat, NEW w \in Nat,
         NEW b \in SUBSET Kinds, NEW l \in SUBSET Kinds
  PROVE  /\ SetBase(r, k, v) \in ConfigClass
         /\ SetLimit(r, k, v) \in ConfigClass
         /\ [r EXCEPT !.baseUpper = v, !.validBase = @ \cup b] \in ConfigClass
         /\ [r EXCEPT !.limitUpper = v, !.validLimit = @ \cup l] \in ConfigClass
         /\ [r EXCEPT !.validBase = @ \cup b, !.validLimit = @ \cup l] \in ConfigClass
         /\ [r EXCEPT !.sec = v, !.isValid = TRUE] \in ConfigClass
         /\ [r EXCEPT !.sub = v] \in ConfigClass
         /\ SetBuses(r, v, w) \in ConfigClass
<1>1. SetBase(r, k, v) \in ConfigClass
  BY Zenon DEF ConfigClass, SetBase
<1>2. SetLimit(r, k, v) \in ConfigClass
  BY Zenon DEF ConfigClass, SetLimit
<1>3. [r EXCEPT !.baseUpper = v, !.validBase = @ \cup b] \in ConfigClass
  BY Zenon DEF ConfigClass
<1>4. [r EXCEPT !.limitUpper = v, !.validLimit = @ \cup l] \in ConfigClass
  BY Zenon DEF ConfigClass
<1>5. [r EXCEPT !.validBase = @ \cup b, !.validLimit = @ \cup l] \in ConfigClass
  BY Zenon DEF ConfigClass
<1>6. [r EXCEPT !.sec = v, !.isValid = TRUE] \in ConfigClass
  BY Zenon DEF ConfigClass
<1>7. [r EXCEPT !.sub = v] \in ConfigClass
  BY Zenon DEF ConfigClass
<1>8. SetBuses(r, v, w) \in ConfigClass
  BY Zenon DEF ConfigClass, SetBuses
<1> QED BY <1>1, <1>2, <1>3, <1>4, <1>5, <1>6, <1>7, <1>8, Zenon

-----------------------------------------------------------------------------
(* No write and no restore leaves a neighbour with old ranges. *)
LEMMA StepKeepsCurrent ==
  ASSUME CurrentInv, [EnumNext]_enumVars
  PROVE  CurrentInv'
<1>0. isSwitch \in BOOLEAN /\ cfg \in [Configs -> ConfigClass]
  BY Zenon DEF CurrentInv, CfgOK
<1>w. \A w \in Windows[isSwitch] :
        w[1] \in Configs /\ w[2] \in Kinds /\ cfg[w[1]] \in ConfigClass
  BY <1>0, EnumerationAssumption, Zenon
<1>n. \A n \in BusNumbers[isSwitch] :
        n[1] \in Configs /\ n[2] \in Nat /\ n[3] \in Nat /\ cfg[n[1]] \in ConfigClass
  BY <1>0, EnumerationAssumption, Zenon
<1>r. Regs \subseteq Nat /\ Uppers \subseteq Nat
  BY EnumerationAssumption, Zenon
<1>1. ASSUME NEW w \in Windows[isSwitch], NEW v \in Regs,
             WriteBase(w[1], w[2], v) \/ WriteLimit(w[1], w[2], v)
      PROVE  CurrentInv'
  <2>1. /\ SetBase(cfg[w[1]], w[2], v) \in ConfigClass
        /\ SetLimit(cfg[w[1]], w[2], v) \in ConfigClass
    BY <1>w, <1>r, WritesAreConfigs, Zenon
  <2> QED BY <1>1, <1>w, <2>1, WindowWrite, Zenon DEF WriteBase, WriteLimit
<1>2. ASSUME NEW w \in Windows[isSwitch], NEW b \in Regs, NEW l \in Regs,
             WriteWindow(w[1], w[2], b, l)
      PROVE  CurrentInv'
  <2>1. SetLimit(SetBase(cfg[w[1]], w[2], b), w[2], l) \in ConfigClass
    BY <1>w, <1>r, WritesAreConfigs, Zenon
  <2> QED BY <1>2, <1>w, <2>1, WindowWrite, Zenon DEF WriteWindow
<1>3. ASSUME NEW w \in Windows[isSwitch], NEW v \in Uppers,
             WriteBaseUpper(w[1], v) \/ WriteLimitUpper(w[1], v)
      PROVE  CurrentInv'
  <2>1. {"pref"} \in SUBSET Kinds
    BY Zenon DEF Kinds
  <2>2. /\ [cfg[w[1]] EXCEPT !.baseUpper = v, !.validBase = @ \cup {"pref"}] \in ConfigClass
        /\ [cfg[w[1]] EXCEPT !.limitUpper = v, !.validLimit = @ \cup {"pref"}] \in ConfigClass
    BY <1>w, <1>r, <2>1, WritesAreConfigs, Zenon
  <2> QED BY <1>3, <1>w, <2>2, WindowWrite, Zenon DEF WriteBaseUpper, WriteLimitUpper
<1>4. ASSUME NEW w \in Windows[isSwitch], NEW b \in SUBSET {"io"}, NEW l \in SUBSET {"io"},
             WriteIOUpper(w[1], b, l)
      PROVE  CurrentInv'
  <2>1. b \in SUBSET Kinds /\ l \in SUBSET Kinds
    BY Zenon DEF Kinds
  <2>2. [cfg[w[1]] EXCEPT !.validBase = @ \cup b, !.validLimit = @ \cup l] \in ConfigClass
    BY <1>w, <2>1, WritesAreConfigs, Zenon
  <2> QED BY <1>4, <1>w, <2>2, WindowWrite, Zenon DEF WriteIOUpper
<1>5. ASSUME NEW n \in BusNumbers[isSwitch],
             \/ WriteSecondary(n[1], n[2])
             \/ WriteSubordinate(n[1], n[3])
             \/ WriteBusNumbers(n[1], n[2], n[3])
      PROVE  CurrentInv'
  <2> DEFINE old == cfg[n[1]]
             second == [old EXCEPT !.sec = n[2], !.isValid = TRUE]
             subord == [old EXCEPT !.sub = n[3]]
             both == SetBuses(old, n[2], n[3])
  <2>0. "mem" \in Kinds /\ {} \in SUBSET Kinds
    BY Zenon DEF Kinds
  <2>1. second \in ConfigClass /\ subord \in ConfigClass /\ both \in ConfigClass
    BY <1>n, <2>0, WritesAreConfigs, Zenon
  <2>2. old \in ConfigClass
    BY <1>n, Zenon
  <2>3. FillRanges(second) = FillRanges(old)
    BY <2>2, BusesLeaveRanges, Zenon DEF ConfigClass
  <2>4. FillRanges(subord) = FillRanges(old)
    BY <2>2, BusesLeaveRanges, Zenon DEF ConfigClass
  <2>5. FillRanges(both) = FillRanges(old)
    BY <2>2, BusesLeaveRanges, Zenon DEF ConfigClass, SetBuses
  <2>6. CASE WriteSecondary(n[1], n[2])
    BY <1>n, <2>1, <2>3, <2>6, BusWrite, Zenon DEF WriteSecondary
  <2>7. CASE WriteSubordinate(n[1], n[3])
    BY <1>n, <2>1, <2>4, <2>7, BusWrite, Zenon DEF WriteSubordinate
  <2>8. CASE WriteBusNumbers(n[1], n[2], n[3])
    BY <1>n, <2>1, <2>5, <2>8, BusWrite, Zenon DEF WriteBusNumbers
  <2> QED BY <1>5, <2>6, <2>7, <2>8, Zenon
<1>6. CASE Unserialize
  BY <1>6, Zenon DEF Unserialize, ToldByUnserialize, CurrentInv, CfgOK, KnownIsCurrent, Ranges
<1>7. CASE UNCHANGED enumVars
  BY <1>7, Zenon DEF enumVars, CurrentInv, CfgOK, KnownIsCurrent, Ranges
<1> QED BY <1>1, <1>2, <1>3, <1>4, <1>5, <1>6, <1>7, Zenon DEF EnumNext

(* Whatever the number of ports, the registers and the order, sizes and      *)
(* values of the writes, with checkpoints restored in between: each          *)
(* neighbour of the bridge knows what getAddrRanges would answer now.        *)
THEOREM NeighboursUpToDate == EnumSpec => []KnownIsCurrent
<1>1. EnumInit => CurrentInv
  BY ConfigAssumption DEF EnumInit, CurrentInv, CfgOK, KnownIsCurrent, NewConfig, ConfigClass, Kinds
<1>2. CurrentInv /\ [EnumNext]_enumVars => CurrentInv'
  BY StepKeepsCurrent, Zenon
<1>3. CurrentInv => KnownIsCurrent
  BY Zenon DEF CurrentInv
<1> QED BY <1>1, <1>2, <1>3, PTL DEF EnumSpec

-----------------------------------------------------------------------------
(* Routing and announcing.  A register that was not written is zero, so that *)
(* getMasterPort need not look at the valid flags.                           *)
FlagsOK(r) ==
  /\ \A k \in Kinds : /\ r.base[k] \in Regs \cup {0} /\ r.limit[k] \in Regs \cup {0}
                      /\ k \notin r.validBase => r.base[k] = 0
                      /\ k \notin r.validLimit => r.limit[k] = 0
  /\ r.baseUpper \in Uppers \cup {0} /\ r.limitUpper \in Uppers \cup {0}
  /\ "pref" \notin r.validBase => r.baseUpper = 0
  /\ "pref" \notin r.validLimit => r.limitUpper = 0

WritableInv == CurrentInv /\ \A c \in Configs : FlagsOK(cfg[c])

(* Multiples of the unit of a window register. *)
LEMMA Units ==
  ASSUME NEW g \in Nat, g > 1, NEW z \in Int
  PROVE  z * g # g - 1 /\ (z > 0 => z * g >= g) /\ z * g \in Int
<1>1. z * g \in Int
  OBVIOUS
<1>2. z > 0 => z * g >= g
  OBVIOUS
<1>3. z <= 0 => z * g <= 0
  OBVIOUS
<1> QED BY <1>1, <1>2, <1>3

(* The remainder of whole units, by whole units. *)
LEMMA UnitsRemainder ==
  ASSUME NEW g \in Nat \ {0}, NEW n \in Nat \ {0}, NEW t \in Int
  PROVE  (t * g) % (n * g) = (t % n) * g /\ t % n \in 0 .. n - 1
<1> DEFINE N == n * g
           q == t \div n
           y == t % n
           d == (t * g) \div N
           z == (t * g) % N
<1>1. N \in Nat \ {0} /\ t * g \in Int
  OBVIOUS
<1>2. q \in Int /\ y \in 0 .. n - 1 /\ t = q * n + y
  OBVIOUS
<1>3. d \in Int /\ z \in 0 .. N - 1 /\ t * g = d * N + z
  <2> HIDE DEF N
  <2> QED BY <1>1
<1> HIDE DEF q, y, d, z
<1>4. t * g = q * N + y * g
  BY <1>2
<1>5. y * g \in 0 .. N - 1
  <2>1. (n - y) * g >= g /\ (n - y) * g = N - y * g /\ y * g >= 0 /\ y * g \in Int
    BY <1>2
  <2> QED BY <1>1, <2>1
<1>6. d = q
  <2> HIDE DEF N
  <2>1. (d - q) * N = y * g - z
    <3>1. (d - q) * N = d * N - q * N /\ d * N \in Int /\ q * N \in Int
      BY <1>1, <1>2, <1>3
    <3> QED BY <1>1, <1>3, <1>4, <1>5, <3>1
  <2>2. d - q >= 1 => (d - q) * N >= N
    BY <1>1, <1>2, <1>3
  <2>3. d - q <= -1 => (d - q) * N <= -N
    BY <1>1, <1>2, <1>3
  <2> QED BY <1>1, <1>2, <1>3, <1>5, <2>1, <2>2, <2>3
<1>7. z = y * g
  <2> HIDE DEF N
  <2>1. q * N \in Int
    BY <1>1, <1>2
  <2> QED BY <1>1, <1>3, <1>4, <1>5, <1>6, <2>1
<1> QED BY <1>2, <1>7 DEF y, z

(* What the prefetchable registers add up to, in whole units below 2^64. *)
LEMMA PrefetchableUnits ==
  ASSUME WindowsFit, NEW u \in Nat, NEW v \in Nat
  PROVE  \E y \in Nat :
           /\ ((u * UpperUnit) + IntProduct(v)) % AddrMod = y * Gran
           /\ (y * Gran) + Gran <= AddrMod
           /\ u = 0 /\ v = 0 => y = 0
<1>1. PICK m \in Nat \ {0} : UpperUnit = m * Gran
  BY ConfigAssumption DEF WindowsFit
<1>2. PICK n \in Nat \ {0} : AddrMod = n * UpperUnit
  BY ConfigAssumption DEF WindowsFit
<1>3. Gran \in Nat \ {0} /\ UpperUnit \in Nat \ {0} /\ AddrMod \in Nat \ {0}
  BY <1>1, ConfigAssumption
<1>4. PICK w \in Int : IntProduct(v) = w * Gran /\ (v = 0 => w = 0)
  <2>1. v * Gran \in Int /\ (v = 0 => v * Gran = 0) /\ (v - m) * Gran = v * Gran - m * Gran
    BY <1>1, <1>3
  <2>2. CASE 2 * (v * Gran) < UpperUnit
    <3>1. IntProduct(v) = v * Gran
      BY <2>2, Zenon DEF IntProduct
    <3> QED BY <3>1
  <2>3. CASE ~(2 * (v * Gran) < UpperUnit)
    <3>1. IntProduct(v) = v * Gran - UpperUnit
      BY <2>3, Zenon DEF IntProduct
    <3>2. v # 0
      BY <1>3, <2>1, <2>3
    <3>3. IntProduct(v) = (v - m) * Gran /\ v - m \in Int
      BY <1>1, <2>1, <3>1
    <3> QED BY <3>2, <3>3, Zenon
  <2> QED BY <2>2, <2>3, Zenon
<1> DEFINE t == u * m + w
           k == n * m
<1>5. t \in Int /\ k \in Nat \ {0} /\ AddrMod = k * Gran
  BY <1>1, <1>2, <1>3, <1>4
<1>6. (u * UpperUnit) + IntProduct(v) = t * Gran
  BY <1>1, <1>3, <1>4
<1>7. u = 0 /\ v = 0 => t = 0
  BY <1>1, <1>4
<1> HIDE DEF t, k
<1> DEFINE y == t % k
<1>8. (t * Gran) % (k * Gran) = y * Gran /\ y \in 0 .. k - 1
  BY <1>3, <1>5, UnitsRemainder
<1>9. t = 0 => y = 0
  BY <1>5
<1> HIDE DEF y
<1>10. (y * Gran) + Gran <= AddrMod
  <2>1. (k - y) * Gran >= Gran /\ (k - y) * Gran = k * Gran - y * Gran
    BY <1>3, <1>5, <1>8
  <2>2. y * Gran \in Int /\ k * Gran \in Int
    BY <1>3, <1>5, <1>8
  <2> QED BY <1>3, <1>5, <2>1, <2>2
<1>11. y \in Nat
  BY <1>5, <1>8
<1> QED BY <1>5, <1>6, <1>7, <1>8, <1>9, <1>10, <1>11, ZenonT(30)

(* Where a window begins and ends, in units: base and limit of the same      *)
(* window differ by whole units and one address.                             *)
LEMMA WindowUnits ==
  ASSUME WindowsFit, NEW r \in ConfigClass, FlagsOK(r), NEW k \in Kinds
  PROVE  \E o \in Nat, y \in Nat, x \in Nat :
           /\ WindowBase(r, k) = o + y * Gran
           /\ WindowLimit(r, k) = o + x * Gran + (Gran - 1)
           /\ WindowLimit(r, k) + 1 <= AddrMod
           /\ k # "pref" => WindowLimit(r, k) + 1 < AddrMod
           /\ k # "io" => o = 0
           /\ k \notin r.validBase => y = 0
           /\ k \notin r.validLimit => x = 0
<1> DEFINE u == r.limitUpper % UpperMod
<1>2. /\ r.base[k] \in Nat /\ r.limit[k] \in Nat /\ r.baseUpper \in Nat /\ r.limitUpper \in Nat
      /\ Gran \in Nat /\ IOUpper \in Nat /\ AddrMod \in Nat /\ UpperMod \in Nat \ {0}
  BY ConfigAssumption, Zenon DEF ConfigClass
<1>3. u \in Nat /\ (r.limitUpper = 0 => u = 0)
  BY <1>2
<1>4. IOUpper + (r.limit[k] * Gran) + Gran < AddrMod
  BY Zenon DEF WindowsFit, FlagsOK
<1>5. /\ k \notin r.validBase => r.base[k] = 0
      /\ k \notin r.validLimit => r.limit[k] = 0
      /\ "pref" \notin r.validBase => r.baseUpper = 0
      /\ "pref" \notin r.validLimit => r.limitUpper = 0
  BY Zenon DEF FlagsOK
<1>6. CASE k = "mem"
  <2>m. /\ WindowBase(r, k) = r.base[k] * Gran
        /\ WindowLimit(r, k) = r.limit[k] * Gran + (Gran - 1)
    BY <1>6, ZenonT(30) DEF WindowBase, WindowLimit
  <2>1. /\ WindowBase(r, k) = 0 + r.base[k] * Gran
        /\ WindowLimit(r, k) = 0 + r.limit[k] * Gran + (Gran - 1)
    BY <1>2, <2>m
  <2>2. WindowLimit(r, k) + 1 < AddrMod /\ WindowLimit(r, k) + 1 <= AddrMod
    <3>1. r.limit[k] * Gran \in Int
      BY <1>2
    <3> QED BY <1>2, <1>4, <2>1, <3>1
  <2> QED BY <1>2, <1>5, <1>6, <2>1, <2>2, ZenonT(30)
<1>7. CASE k = "io"
  <2>1. /\ WindowBase(r, k) = IOUpper + r.base[k] * Gran
        /\ WindowLimit(r, k) = IOUpper + r.limit[k] * Gran + (Gran - 1)
    BY <1>2, <1>7, Zenon DEF WindowBase, WindowLimit
  <2>2. WindowLimit(r, k) + 1 < AddrMod /\ WindowLimit(r, k) + 1 <= AddrMod
    BY <1>2, <1>4, <2>1
  <2> QED BY <1>2, <1>5, <1>7, <2>1, <2>2, ZenonT(30)
<1>8. CASE k = "pref"
  <2>1. PICK y \in Nat :
          /\ ((r.baseUpper * UpperUnit) + IntProduct(r.base[k])) % AddrMod = y * Gran
          /\ r.baseUpper = 0 /\ r.base[k] = 0 => y = 0
    BY <1>2, PrefetchableUnits, ZenonT(30)
  <2>2. PICK x \in Nat :
          /\ ((u * UpperUnit) + IntProduct(r.limit[k])) % AddrMod = x * Gran
          /\ (x * Gran) + Gran <= AddrMod
          /\ u = 0 /\ r.limit[k] = 0 => x = 0
    BY <1>2, <1>3, PrefetchableUnits, ZenonT(30)
  <2>3. /\ WindowBase(r, k) = y * Gran
        /\ WindowLimit(r, k) = x * Gran + (Gran - 1)
    BY <1>8, <2>1, <2>2, ZenonT(30) DEF WindowBase, WindowLimit
  <2>4. y * Gran \in Int /\ x * Gran \in Int
    BY <1>2, <2>1, <2>2
  <2>5. /\ WindowBase(r, k) = 0 + y * Gran
        /\ WindowLimit(r, k) = 0 + x * Gran + (Gran - 1)
        /\ WindowLimit(r, k) + 1 <= AddrMod
    BY <1>2, <2>2, <2>3, <2>4
  <2>6. (k \notin r.validBase => y = 0) /\ (k \notin r.validLimit => x = 0)
    BY <1>3, <1>5, <1>8, <2>1, <2>2, ZenonT(30)
  <2>7. 0 \in Nat
    OBVIOUS
  <2> QED BY <1>8, <2>1, <2>2, <2>5, <2>6, <2>7, ZenonT(30)
<1> QED BY <1>6, <1>7, <1>8, Zenon DEF Kinds

(* The tests of getMasterPort and of fill_ranges agree on a window, but for  *)
(* a prefetchable one that ends at the last address.                         *)
LEMMA TestsAgree ==
  ASSUME WindowsFit, NEW r \in ConfigClass, FlagsOK(r), NEW k \in Kinds, NEW a \in Nat,
         k = "io" => k \in r.validBase /\ k \in r.validLimit
  PROVE  LET R == RangeIn(WindowBase(r, k), WindowLimit(r, k))
         IN /\ Announced(r, k) /\ InRange(a, R) => InWindow(r, k, a)
            /\ InWindow(r, k, a) =>
                 (Announced(r, k) /\ InRange(a, R)) \/ (k = "pref" /\ EndsAtTop(r))
<1> DEFINE B == WindowBase(r, k)
           E == WindowLimit(r, k)
<1>1. PICK o \in Nat, y \in Nat, x \in Nat :
        /\ B = o + y * Gran /\ E = o + x * Gran + (Gran - 1) /\ E + 1 <= AddrMod
        /\ k # "pref" => E + 1 < AddrMod
        /\ k # "io" => o = 0
        /\ k \notin r.validBase => y = 0
        /\ k \notin r.validLimit => x = 0
  BY WindowUnits
<1>2. Gran \in Nat /\ Gran > 1 /\ AddrMod \in Nat
  BY ConfigAssumption, Zenon DEF WindowsFit
<1>3. /\ y * Gran \in Nat /\ x * Gran \in Nat /\ (y - x) * Gran = y * Gran - x * Gran
      /\ (y = 0 => y * Gran = 0) /\ (x = 0 => x * Gran = 0)
  BY <1>1, <1>2
<1>4. (y - x) * Gran # Gran - 1 /\ (y > 0 => y * Gran >= Gran)
  <2>1. y - x \in Int /\ y \in Int
    BY <1>1
  <2> QED BY <1>2, <2>1, Units, ZenonT(30)
<1>5. B \in Nat /\ E \in Nat /\ B # E
  BY <1>1, <1>2, <1>3, <1>4
<1>6. /\ E + 1 < AddrMod => (E + 1) % AddrMod = E + 1
      /\ E + 1 = AddrMod => (E + 1) % AddrMod = 0
  <2> HIDE DEF E
  <2>1. AddrMod \in Nat \ {0}
    BY ConfigAssumption
  <2>2. E + 1 < AddrMod => (E + 1) % AddrMod = E + 1
    BY <1>5, <2>1
  <2>3. AddrMod % AddrMod = 0
    BY <2>1
  <2> QED BY <2>2, <2>3
<1>7. /\ E + 1 < AddrMod => (InRange(a, RangeIn(B, E)) <=> B <= a /\ a <= E)
      /\ E + 1 = AddrMod => ~InRange(a, RangeIn(B, E)) /\ E = AddrMod - 1
  <2> HIDE DEF B, E
  <2> QED BY <1>2, <1>5, <1>6 DEF InRange, RangeIn
<1>p. E + 1 < AddrMod \/ (E + 1 = AddrMod /\ k = "pref")
  <2> HIDE DEF E
  <2> QED BY <1>1, <1>2, <1>5
<1>e. k = "pref" /\ E = AddrMod - 1 => EndsAtTop(r)
  BY Zenon DEF EndsAtTop
<1>8. InWindow(r, k, a) <=> B <= a /\ a <= E /\ B # 0 /\ E # 0
  BY Zenon DEF InWindow
<1>9. Announced(r, k) <=> k \in r.validBase /\ k \in r.validLimit /\ B < E /\ B # 0
  BY Zenon DEF Announced
<1>10. B # 0 /\ B <= E => k \in r.validBase /\ k \in r.validLimit
  BY <1>1, <1>2, <1>3, <1>4
<1>11. B <= a /\ a <= E => B <= E /\ B < E /\ E # 0
  BY <1>5
<1>12. B < E => E # 0
  BY <1>5
<1> QED BY <1>7, <1>p, <1>e, <1>8, <1>9, <1>10, <1>11, <1>12, ZenonT(30)

(* The elements of two lists, one after the other. *)
LEMMA RangeConcat ==
  ASSUME NEW T, NEW q \in Seq(T), NEW r \in Seq(T)
  PROVE  q \o r \in Seq(T) /\ Range(q \o r) = Range(q) \cup Range(r)
<1>1. /\ q \o r \in Seq(T) /\ DOMAIN (q \o r) = 1 .. Len(q) + Len(r)
      /\ DOMAIN q = 1 .. Len(q) /\ DOMAIN r = 1 .. Len(r)
      /\ Len(q) \in Nat /\ Len(r) \in Nat
  OBVIOUS
<1>2. \A i \in 1 .. Len(q) : (q \o r)[i] = q[i]
  OBVIOUS
<1>3. \A i \in 1 .. Len(r) : (q \o r)[Len(q) + i] = r[i]
  OBVIOUS
<1>4. ASSUME NEW e \in Range(q \o r) PROVE e \in Range(q) \cup Range(r)
  <2>1. PICK i \in 1 .. Len(q) + Len(r) : e = (q \o r)[i]
    BY <1>1, Zenon DEF Range
  <2>2. CASE i <= Len(q)
    BY <1>1, <1>2, <2>1, <2>2 DEF Range
  <2>3. CASE ~(i <= Len(q))
    <3>1. i - Len(q) \in 1 .. Len(r) /\ Len(q) + (i - Len(q)) = i
      BY <1>1, <2>3
    <3> QED BY <1>1, <1>3, <2>1, <3>1, Zenon DEF Range
  <2> QED BY <2>2, <2>3, Zenon
<1>5. ASSUME NEW e \in Range(q) PROVE e \in Range(q \o r)
  <2>1. PICK i \in 1 .. Len(q) : e = q[i]
    BY <1>1, Zenon DEF Range
  <2>2. i \in DOMAIN (q \o r)
    BY <1>1
  <2> QED BY <1>2, <2>1, <2>2, Zenon DEF Range
<1>6. ASSUME NEW e \in Range(r) PROVE e \in Range(q \o r)
  <2>1. PICK i \in 1 .. Len(r) : e = r[i]
    BY <1>1, Zenon DEF Range
  <2>2. Len(q) + i \in DOMAIN (q \o r)
    BY <1>1
  <2> QED BY <1>3, <2>1, <2>2, Zenon DEF Range
<1> QED BY <1>1, <1>4, <1>5, <1>6, Zenon

(* fill_ranges lists the ranges of the windows that were set up. *)
LEMMA FilledRanges ==
  ASSUME NEW r, NEW a
  PROVE  (\E e \in Range(FillRanges(r)) : InRange(a, e)) <=>
           \E k \in Kinds : /\ Announced(r, k)
                            /\ InRange(a, RangeIn(WindowBase(r, k), WindowLimit(r, k)))
<1> DEFINE V(k) == RangeIn(WindowBase(r, k), WindowLimit(r, k))
           Q == {V(k) : k \in Kinds}
<1>1. ASSUME NEW k \in Kinds
      PROVE  /\ FillRange(r, k) \in Seq(Q)
             /\ Range(FillRange(r, k)) = IF Announced(r, k) THEN {V(k)} ELSE {}
  <2>1. V(k) \in Q
    BY Zenon
  <2>2. FillRange(r, k) = IF Announced(r, k) THEN <<V(k)>> ELSE <<>>
    BY Zenon DEF FillRange
  <2> HIDE DEF V, Q
  <2> QED BY <2>1, <2>2 DEF Range
<1> HIDE DEF V, Q
<1>2. "mem" \in Kinds /\ "pref" \in Kinds /\ "io" \in Kinds
  BY Zenon DEF Kinds
<1>m. /\ FillRange(r, "mem") \in Seq(Q) /\ FillRange(r, "pref") \in Seq(Q)
      /\ FillRange(r, "io") \in Seq(Q)
  BY <1>1, <1>2, ZenonT(30)
<1>3. /\ FillRange(r, "mem") \o FillRange(r, "pref") \in Seq(Q)
      /\ Range(FillRange(r, "mem") \o FillRange(r, "pref"))
           = Range(FillRange(r, "mem")) \cup Range(FillRange(r, "pref"))
  BY <1>m, RangeConcat
<1>4. Range(FillRanges(r)) = (Range(FillRange(r, "mem")) \cup Range(FillRange(r, "pref")))
                               \cup Range(FillRange(r, "io"))
  <2> DEFINE q == FillRange(r, "mem") \o FillRange(r, "pref")
  <2>1. q \in Seq(Q)
    BY <1>3, Zenon
  <2> HIDE DEF q
  <2>2. Range(q \o FillRange(r, "io")) = Range(q) \cup Range(FillRange(r, "io"))
    BY <1>m, <2>1, RangeConcat
  <2> QED BY <1>3, <2>2, Zenon DEF FillRanges, q
<1>5. \A e : e \in Range(FillRanges(r)) <=> \E k \in Kinds : Announced(r, k) /\ e = V(k)
  BY <1>1, <1>2, <1>4, ZenonT(30) DEF Kinds
<1> QED BY <1>5, ZenonT(30) DEF V

(* Both tests, for all ports of a root complex. *)
LEMMA RoutesAgree ==
  ASSUME WindowsFit, WritableInv
  PROVE  RoutesWhatItAnnounces
<1> DEFINE AtTop(e) == \E p \in Ports : EndsAtTop(cfg[p]) /\ InWindow(cfg[p], "pref", e)
<1> SUFFICES ASSUME ~isSwitch,
                    \A p \in Ports : "io" \in cfg[p].validBase \cap cfg[p].validLimit,
                    NEW a \in Addrs
             PROVE  /\ Accepts(0, a) => GetMasterPort(cfg, a) # 0
                    /\ GetMasterPort(cfg, a) # 0 => Accepts(0, a) \/ AtTop(a)
  BY Zenon DEF RoutesWhatItAnnounces
<1> DEFINE hits == {p \in Ports : \E k \in Kinds : InWindow(cfg[p], k, a)}
<1>1. a \in Nat /\ 0 \in Configs /\ 0 \notin Ports /\ Ports \subseteq Configs
  BY ConfigAssumption DEF Addrs, Configs, Ports
<1>2. GetMasterPort(cfg, a) # 0 <=> hits # {}
  <2>1. GetMasterPort(cfg, a) = FirstPort(hits) /\ hits \in SUBSET Ports
    BY Zenon DEF GetMasterPort
  <2> HIDE DEF hits
  <2>2. hits = {} => FirstPort(hits) = 0
    BY Zenon DEF FirstPort
  <2> QED BY <1>1, <2>1, <2>2, FirstPortIsPort, Zenon
<1>3. ASSUME NEW p \in Ports
      PROVE  LET told == \E e \in Range(FillRanges(cfg[p])) : InRange(a, e)
             IN /\ told => \E k \in Kinds : InWindow(cfg[p], k, a)
                /\ (\E k \in Kinds : InWindow(cfg[p], k, a)) => told \/ AtTop(a)
  <2> DEFINE V(k) == /\ Announced(cfg[p], k)
                     /\ InRange(a, RangeIn(WindowBase(cfg[p], k), WindowLimit(cfg[p], k)))
  <2>1. cfg[p] \in ConfigClass /\ FlagsOK(cfg[p])
    BY <1>1, Zenon DEF WritableInv, CurrentInv, CfgOK
  <2>2. \A k \in Kinds : k = "io" => k \in cfg[p].validBase /\ k \in cfg[p].validLimit
    BY Zenon
  <2>3. \A k \in Kinds :
          /\ V(k) => InWindow(cfg[p], k, a)
          /\ InWindow(cfg[p], k, a) => V(k) \/ (k = "pref" /\ EndsAtTop(cfg[p]))
    BY <1>1, <2>1, <2>2, TestsAgree, ZenonT(30)
  <2>4. (\E e \in Range(FillRanges(cfg[p])) : InRange(a, e)) <=> \E k \in Kinds : V(k)
    BY FilledRanges, ZenonT(30)
  <2> HIDE DEF V
  <2> QED BY <2>3, <2>4, ZenonT(30)
<1>4. known[0] = UNION {Range(FillRanges(cfg[q])) : q \in Ports}
  BY <1>1, Zenon DEF WritableInv, CurrentInv, KnownIsCurrent, Ranges, GetAddrRanges, Downstream
<1>5. Accepts(0, a) <=> \E p \in Ports : \E e \in Range(FillRanges(cfg[p])) : InRange(a, e)
  BY <1>4, ZenonT(30) DEF Accepts
<1> QED BY <1>2, <1>3, <1>5, ZenonT(30)

(* The registers that software writes keep the flags right: those of a       *)
(* window, the upper ones, the flags alone and the bus numbers.              *)
LEMMA WindowKeepsFlags ==
  ASSUME NEW r \in ConfigClass, FlagsOK(r), NEW k \in Kinds, NEW v \in Regs, NEW w \in Regs
  PROVE  /\ FlagsOK(SetBase(r, k, v)) /\ FlagsOK(SetLimit(r, k, v))
         /\ FlagsOK(SetLimit(SetBase(r, k, v), k, w))
<1>1. FlagsOK(SetBase(r, k, v))
  BY Zenon DEF FlagsOK, ConfigClass, SetBase
<1>2. FlagsOK(SetLimit(r, k, v))
  BY Zenon DEF FlagsOK, ConfigClass, SetLimit
<1>3. FlagsOK(SetLimit(SetBase(r, k, v), k, w))
  BY Zenon DEF FlagsOK, ConfigClass, SetBase, SetLimit
<1> QED BY <1>1, <1>2, <1>3, Zenon

(* The upper prefetchable registers. *)
LEMMA UpperKeepsFlags ==
  ASSUME NEW r \in ConfigClass, FlagsOK(r), NEW u \in Uppers
  PROVE  /\ FlagsOK([r EXCEPT !.baseUpper = u, !.validBase = @ \cup {"pref"}])
         /\ FlagsOK([r EXCEPT !.limitUpper = u, !.validLimit = @ \cup {"pref"}])
<1>1. FlagsOK([r EXCEPT !.baseUpper = u, !.validBase = @ \cup {"pref"}])
  BY Zenon DEF FlagsOK, ConfigClass
<1>2. FlagsOK([r EXCEPT !.limitUpper = u, !.validLimit = @ \cup {"pref"}])
  BY Zenon DEF FlagsOK, ConfigClass
<1> QED BY <1>1, <1>2, Zenon

(* The upper I/O registers, of which only the flags change. *)
LEMMA FlagKeepsFlags ==
  ASSUME NEW r \in ConfigClass, FlagsOK(r), NEW b \in SUBSET {"io"}, NEW l \in SUBSET {"io"}
  PROVE  FlagsOK([r EXCEPT !.validBase = @ \cup b, !.validLimit = @ \cup l])
BY Zenon DEF FlagsOK, ConfigClass

(* The bus numbers. *)
LEMMA BusKeepsFlags ==
  ASSUME NEW r \in ConfigClass, FlagsOK(r), NEW s \in Nat, NEW t \in Nat
  PROVE  /\ FlagsOK([r EXCEPT !.sec = s, !.isValid = TRUE])
         /\ FlagsOK([r EXCEPT !.sub = t]) /\ FlagsOK(SetBuses(r, s, t))
BY Zenon DEF FlagsOK, ConfigClass, SetBuses

(* No write spoils the flags; a bus number or a restore does not touch them. *)
LEMMA StepKeepsFlags ==
  ASSUME WritableInv, [EnumNext]_enumVars
  PROVE  WritableInv'
<1>1. CurrentInv'
  BY StepKeepsCurrent, Zenon DEF WritableInv
<1>2. isSwitch \in BOOLEAN /\ cfg \in [Configs -> ConfigClass] /\ \A c \in Configs : FlagsOK(cfg[c])
  BY Zenon DEF WritableInv, CurrentInv, CfgOK
<1>w. \A w \in Windows[isSwitch] : w[1] \in Configs /\ w[2] \in Kinds /\
        cfg[w[1]] \in ConfigClass /\ FlagsOK(cfg[w[1]])
  BY <1>2, EnumerationAssumption, Zenon
<1>n. \A n \in BusNumbers[isSwitch] : n[1] \in Configs /\ n[2] \in Nat /\ n[3] \in Nat /\
        cfg[n[1]] \in ConfigClass /\ FlagsOK(cfg[n[1]])
  BY <1>2, EnumerationAssumption, Zenon
<1>3. ASSUME NEW c \in Configs, NEW r, cfg' = [cfg EXCEPT ![c] = r], FlagsOK(r)
      PROVE  \A d \in Configs : FlagsOK(cfg'[d])
  <2> TAKE d \in Configs
  <2>1. cfg'[d] = IF d = c THEN r ELSE cfg[d]
    BY <1>2, <1>3, Zenon
  <2> QED BY <1>2, <1>3, <2>1, Zenon
<1> DEFINE Kept == \A d \in Configs : FlagsOK(cfg'[d])
<1>4. ASSUME NEW w \in Windows[isSwitch], NEW v \in Regs,
             WriteBase(w[1], w[2], v) \/ WriteLimit(w[1], w[2], v)
      PROVE  Kept
  <2>1. FlagsOK(SetBase(cfg[w[1]], w[2], v)) /\ FlagsOK(SetLimit(cfg[w[1]], w[2], v))
    BY <1>w, WindowKeepsFlags, Zenon
  <2>2. \/ cfg' = [cfg EXCEPT ![w[1]] = SetBase(cfg[w[1]], w[2], v)]
        \/ cfg' = [cfg EXCEPT ![w[1]] = SetLimit(cfg[w[1]], w[2], v)]
    BY <1>4, ZenonT(30) DEF WriteBase, WriteLimit, WriteWindowRegister
  <2> QED BY <1>3, <1>w, <2>1, <2>2, ZenonT(30)
<1>5. ASSUME NEW w \in Windows[isSwitch], NEW b \in Regs, NEW l \in Regs,
             WriteWindow(w[1], w[2], b, l)
      PROVE  Kept
  <2>1. FlagsOK(SetLimit(SetBase(cfg[w[1]], w[2], b), w[2], l))
    BY <1>w, WindowKeepsFlags, Zenon
  <2>2. cfg' = [cfg EXCEPT ![w[1]] = SetLimit(SetBase(cfg[w[1]], w[2], b), w[2], l)]
    BY <1>5, ZenonT(30) DEF WriteWindow, WriteWindowRegister
  <2> QED BY <1>3, <1>w, <2>1, <2>2, ZenonT(30)
<1>6. ASSUME NEW w \in Windows[isSwitch], NEW v \in Uppers,
             WriteBaseUpper(w[1], v) \/ WriteLimitUpper(w[1], v)
      PROVE  Kept
  <2> DEFINE base == [cfg[w[1]] EXCEPT !.baseUpper = v, !.validBase = @ \cup {"pref"}]
             limit == [cfg[w[1]] EXCEPT !.limitUpper = v, !.validLimit = @ \cup {"pref"}]
  <2>1. FlagsOK(base) /\ FlagsOK(limit)
    BY <1>w, UpperKeepsFlags, ZenonT(30)
  <2>2. cfg' = [cfg EXCEPT ![w[1]] = base] \/ cfg' = [cfg EXCEPT ![w[1]] = limit]
    BY <1>6, Zenon DEF WriteBaseUpper, WriteLimitUpper, WriteWindowRegister
  <2> HIDE DEF base, limit
  <2> QED BY <1>3, <1>w, <2>1, <2>2, ZenonT(30)
<1>7. ASSUME NEW w \in Windows[isSwitch], NEW b \in SUBSET {"io"}, NEW l \in SUBSET {"io"},
             WriteIOUpper(w[1], b, l)
      PROVE  Kept
  <2> DEFINE flagged == [cfg[w[1]] EXCEPT !.validBase = @ \cup b, !.validLimit = @ \cup l]
  <2>1. FlagsOK(flagged)
    BY <1>w, FlagKeepsFlags, ZenonT(30)
  <2>2. cfg' = [cfg EXCEPT ![w[1]] = flagged]
    BY <1>7, Zenon DEF WriteIOUpper, WriteWindowRegister
  <2> HIDE DEF flagged
  <2> QED BY <1>3, <1>w, <2>1, <2>2, ZenonT(30)
<1>8. ASSUME NEW n \in BusNumbers[isSwitch],
             \/ WriteSecondary(n[1], n[2])
             \/ WriteSubordinate(n[1], n[3])
             \/ WriteBusNumbers(n[1], n[2], n[3])
      PROVE  Kept
  <2> DEFINE second == [cfg[n[1]] EXCEPT !.sec = n[2], !.isValid = TRUE]
             subord == [cfg[n[1]] EXCEPT !.sub = n[3]]
             both == SetBuses(cfg[n[1]], n[2], n[3])
  <2>1. FlagsOK(second) /\ FlagsOK(subord) /\ FlagsOK(both)
    BY <1>n, BusKeepsFlags, ZenonT(30)
  <2>2. \/ cfg' = [cfg EXCEPT ![n[1]] = second]
        \/ cfg' = [cfg EXCEPT ![n[1]] = subord]
        \/ cfg' = [cfg EXCEPT ![n[1]] = both]
    BY <1>8, Zenon DEF WriteSecondary, WriteSubordinate, WriteBusNumbers, WriteBuses
  <2> HIDE DEF second, subord, both
  <2> QED BY <1>3, <1>n, <2>1, <2>2, ZenonT(30)
<1>9. ASSUME Unserialize \/ UNCHANGED enumVars PROVE Kept
  BY <1>2, <1>9, Zenon DEF Unserialize, enumVars
<1>10. Kept
  <2> HIDE DEF Kept
  <2> QED BY <1>4, <1>5, <1>6, <1>7, <1>8, <1>9, ZenonT(30) DEF EnumNext
<1> QED BY <1>1, <1>10, Zenon DEF WritableInv

(* getMasterPort and getAddrRanges agree at every moment of the set-up: with *)
(* registers of the code's proportions, the root complex routes downstream   *)
(* exactly the addresses its upstream neighbour was told, whatever was       *)
(* written so far, once the I/O windows have been written; and also those of *)
(* a prefetchable window that ends at the last address (limit 0xFFF, upper   *)
(* register 0), of which it announces an empty range.                        *)
THEOREM RoutesAnnounced == WindowsFit => (EnumSpec => []RoutesWhatItAnnounces)
<1> SUFFICES ASSUME WindowsFit PROVE EnumSpec => []RoutesWhatItAnnounces
  BY Zenon
<1>1. EnumInit => WritableInv
  <2> SUFFICES ASSUME EnumInit PROVE WritableInv
    BY Zenon
  <2>1. CurrentInv
    BY ConfigAssumption, Zenon
    DEF EnumInit, CurrentInv, CfgOK, KnownIsCurrent, NewConfig, ConfigClass, Kinds
  <2>2. FlagsOK(NewConfig)
    BY Zenon DEF FlagsOK, NewConfig
  <2> QED BY <2>1, <2>2, Zenon DEF EnumInit, WritableInv
<1>2. WritableInv /\ [EnumNext]_enumVars => WritableInv'
  BY StepKeepsFlags, Zenon
<1>3. WritableInv => RoutesWhatItAnnounces
  BY RoutesAgree, Zenon
<1> QED BY <1>1, <1>2, <1>3, PTL DEF EnumSpec

=============================================================================
