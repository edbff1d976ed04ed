----------------------------- MODULE PciRanges ------------------------------
(***************************************************************************)
(* The third use of the configuration space: getAddrRanges, with which a   *)
(* bridge tells its neighbours the addresses each slave port accepts.      *)
(***************************************************************************)
EXTENDS PciConfig, Functions
LOCAL INSTANCE TLC

(* Address ranges, with the end outside the range, as AddrRange has it. *)
RangeIn(first, last) == [start |-> first, end |-> (last + 1) % AddrMod]
InRange(a, r) == r.start <= a /\ a < r.end

(* fill_ranges: the windows software has set up. *)
Announced(r, k) ==
  /\ k \in r.validBase /\ k \in r.validLimit
  /\ WindowBase(r, k) < WindowLimit(r, k) /\ WindowBase(r, k) # 0
FillRange(r, k) ==
  IF Announced(r, k) THEN <<RangeIn(WindowBase(r, k), WindowLimit(r, k))>> ELSE <<>>
FillRanges(r) == FillRange(r, "mem") \o FillRange(r, "pref") \o FillRange(r, "io")

(* The loop of getAddrRanges over sorted ranges, for a port that accepts     *)
(* what is not downstream of it.                                             *)
Complement(rs) ==
  LET last == [i \in 0 .. Len(rs) |-> IF i = 0 THEN 0 ELSE (rs[i].end + 1) % AddrMod]
      gaps == {i \in DOMAIN rs : last[i - 1] < rs[i].start}
  IN {RangeIn(last[i - 1], rs[i].start - 1) : i \in gaps}
     \cup (IF last[Len(rs)] = 0 THEN {} ELSE {RangeIn(last[Len(rs)], AddrMod - 1)})

Sorted(rs) == SortSeq(rs, LAMBDA x, y : x.start < y.start)

(* The ranges behind the upstream port of a bridge that is (s) or is not a   *)
(* switch.  A neighbour only asks whether an address is in one of them.      *)
Downstream(c, s) ==
  IF s THEN Range(FillRanges(c[0])) ELSE UNION {Range(FillRanges(c[q])) : q \in Ports}

GetAddrRanges(c, s, p) ==
  IF p = 0 THEN Downstream(c, s) ELSE Complement(Sorted(FillRanges(c[p])))

=============================================================================
