------------------------- MODULE CreditLoopHolders --------------------------
(***************************************************************************)
(* More proofs about CreditLoop, for packet numbers that fit into an int:  *)
(* the packets that hold VCs, the order of their flits and what the router *)
(* expects.                                                                *)
(***************************************************************************)
EXTENDS CreditLoopProofs

(* More time than by default for the provers. *)
USE SMTT(30), ZenonT(30)

-----------------------------------------------------------------------------
(* What holds of the VCs that packets hold when packet numbers fit an int. *)
VCHeld(b, o, v) ==
  /\ o[v] # NoPacket => b.in_use_by[v] >= 0 /\ ~b.tail_sent[v]
  /\ b.wait_for_tail_credit /\ b.vc_occupancy[v] > 0 => b.in_use_by[v] >= 0
  /\ Shared(b) /\ o[v].begun /\ b.vc_occupancy[v] = 0 => b.reserved_slots[v] > 0
Busy(o) == {v \in VCs : o[v] # NoPacket}
HeldFor(b, o) ==
  /\ b.policy \in SomePolicies
  /\ \A v \in VCs : VCHeld(b, o, v)
  /\ Limited(b) => b.active_vcs = Cardinality(Busy(o))
  /\ Limited(b) /\ ShiftingFits => b.max_held_slots \in Nat \ {0}

(* The busy VCs. *)
LEMMA BusyCount ==
  ASSUME NEW o
  PROVE  IsFiniteSet(Busy(o)) /\ Cardinality(Busy(o)) \in 0 .. NumVCs
<1>1. Busy(o) \in SUBSET VCs
  BY Zenon DEF Busy
<1>2. IsFiniteSet(Busy(o)) /\ Cardinality(Busy(o)) <= NumVCs
  BY <1>1, FiniteParts, FS_Subset, Zenon
<1> QED BY <1>2, FS_CardinalityType, BufferAssumption

(* One more, one less. *)
LEMMA BusyMore ==
  ASSUME NEW o, DOMAIN o = VCs, NEW v \in VCs, NEW e, e # NoPacket, o[v] = NoPacket
  PROVE  Cardinality(Busy([o EXCEPT ![v] = e])) = Cardinality(Busy(o)) + 1
<1>1. Busy([o EXCEPT ![v] = e]) = Busy(o) \cup {v} /\ v \notin Busy(o)
  BY Zenon DEF Busy
<1> QED BY <1>1, BusyCount, FS_AddElement, ZenonT(30)

(* The same for a packet that ends or goes on. *)
LEMMA BusyLess ==
  ASSUME NEW o, DOMAIN o = VCs, NEW v \in VCs, NEW e, o[v] # NoPacket
  PROVE  Cardinality(Busy([o EXCEPT ![v] = e])) =
           Cardinality(Busy(o)) - (IF e = NoPacket THEN 1 ELSE 0)
<1> DEFINE p == [o EXCEPT ![v] = e]
<1>0. Cardinality(Busy(o)) \in Nat /\ IsFiniteSet(Busy(p)) /\ Cardinality(Busy(p)) \in Nat
  BY BusyCount, BufferAssumption
<1>1. CASE e = NoPacket
  <2>1. Busy(o) = Busy(p) \cup {v} /\ v \notin Busy(p)
    BY <1>1, Zenon DEF Busy
  <2> HIDE DEF p
  <2>2. Cardinality(Busy(o)) = Cardinality(Busy(p)) + 1
    BY <1>0, <2>1, FS_AddElement, ZenonT(30)
  <2>3. Cardinality(Busy(p)) = Cardinality(Busy(o)) - (IF e = NoPacket THEN 1 ELSE 0)
    BY <1>0, <1>1, <2>2
  <2> QED BY <2>3, Zenon DEF p
<1>2. CASE e # NoPacket
  <2>1. Busy(p) = Busy(o)
    BY <1>2, Zenon DEF Busy
  <2> HIDE DEF p
  <2>2. Cardinality(Busy(p)) = Cardinality(Busy(o)) - (IF e = NoPacket THEN 1 ELSE 0)
    BY <1>0, <1>2, <2>1
  <2> QED BY <2>2, Zenon DEF p
<1> QED BY <1>1, <1>2, Zenon

(* The limit of every policy leaves a slot to each of up to NumVCs packets. *)
LEMMA LimitPositive ==
  ASSUME ShiftingFits, NEW p \in SomePolicies, NEW k \in 1 .. NumVCs
  PROVE  HeldLimit(p, k) \in Nat \ {0}
<1>1. CASE p = "dynamic"
  <2>1. BufSize \div k \in Nat \ {0}
    BY BufferAssumption
  <2> QED BY <1>1, <2>1, Zenon DEF HeldLimit, DynamicLimit
<1>2. CASE p = "shifting"
  BY <1>2, Zenon DEF HeldLimit, ShiftingFits
<1>3. CASE p # "dynamic" /\ p # "shifting"
  BY <1>3, PolicyAssumption, Zenon DEF HeldLimit
<1> QED BY <1>1, <1>2, <1>3, Zenon

(* A change of the number of packets keeps the limit positive. *)
LEMMA LimitKept ==
  ASSUME NEW b, NEW n, SameKind(b, n), b.policy \in SomePolicies, Limited(b),
         NEW k \in 0 .. NumVCs, Active(b, n, k),
         ShiftingFits => b.max_held_slots \in Nat \ {0}
  PROVE  /\ n.active_vcs = k
         /\ ShiftingFits => n.max_held_slots \in Nat \ {0}
<1>1. n.active_vcs = k
  BY Zenon DEF Active
<1>2. ASSUME ShiftingFits PROVE n.max_held_slots \in Nat \ {0}
  <2>1. CASE k > 0
    <3>1. k \in 1 .. NumVCs
      BY <2>1, BufferAssumption
    <3>2. HeldLimit(b.policy, k) \in Nat \ {0}
      BY <1>2, <3>1, LimitPositive, Zenon
    <3> QED BY <2>1, <3>2, Zenon DEF Active
  <2>2. CASE ~(k > 0)
    BY <1>2, <2>2, Zenon DEF Active
  <2> QED BY <2>1, <2>2, Zenon
<1> QED BY <1>1, <1>2, Zenon

(* A packet number that fits is stored as it is. *)
LEMMA ToIntSame ==
  ASSUME NEW k \in 0 .. IntHalf - 1
  PROVE  ToInt(k) = k
<1>1. IntHalf \in Nat \ {0}
  BY BufferAssumption, Zenon
<1>2. (k + IntHalf) % (2 * IntHalf) = k + IntHalf
  BY <1>1
<1> QED BY <1>1, <1>2 DEF ToInt

(* Taking a VC. *)
LEMMA TakeHolds ==
  ASSUME NEW b, NEW o, Keeping(b, o), HeldFor(b, o), NEW v \in VCs, IsAvailableFor(b, v),
         NEW tag \in 0 .. IntHalf - 1, NEW e, e # NoPacket, ~e.begun,
         DOMAIN o = VCs, NEW n, n = TakeBuffer(b, v, tag)
  PROVE  HeldFor(n, [o EXCEPT ![v] = e]) /\ o[v] = NoPacket
<1> DEFINE p == [o EXCEPT ![v] = e]
<1>0. tag \in Int /\ ToInt(tag) >= 0
  BY BufferAssumption, ToIntSame
<1>1. b \in Raw /\ b.in_use_by \in [VCs -> Int] /\ b.tail_sent \in [VCs -> BOOLEAN]
  BY Zenon DEF Keeping, Raw
<1>2. /\ n \in Raw /\ SameKind(b, n) /\ SameCounts(b, n) /\ SameSlots(b, n)
      /\ n.in_use_by = [b.in_use_by EXCEPT ![v] = ToInt(tag)] /\ ToInt(tag) \in Int
      /\ NewTail(b, n, v)
      /\ IF Limited(b) THEN Active(b, n, b.active_vcs + 1) ELSE SameHeld(b, n)
  BY <1>0, <1>1, TakeEffect
<1>3. o[v] = NoPacket
  <2>1. VCHeld(b, o, v)
    BY Zenon DEF HeldFor
  <2>2. b.in_use_by[v] \in Int
    BY <1>1, Zenon
  <2> QED BY <2>1, <2>2 DEF VCHeld, IsAvailableFor
<1>4. ASSUME NEW x \in VCs PROVE VCHeld(n, p, x)
  <2>1. VCHeld(b, o, x)
    BY Zenon DEF HeldFor
  <2>2. /\ n.reserved_slots[x] = b.reserved_slots[x] /\ n.vc_occupancy[x] = b.vc_occupancy[x]
        /\ n.wait_for_tail_credit = b.wait_for_tail_credit /\ (Shared(n) <=> Shared(b))
    BY <1>2, Zenon DEF SameKind, SameCounts, SameSlots, Shared
  <2>3. CASE x = v
    <3>1. p[x] = e /\ n.in_use_by[x] >= 0 /\ ~n.tail_sent[x]
      BY <1>0, <1>1, <1>2, <2>3, Zenon DEF NewTail
    <3> HIDE DEF p
    <3> QED BY <2>2, <2>3, <3>1, Zenon DEF VCHeld
  <2>4. CASE x # v
    <3>1. /\ p[x] = o[x] /\ n.in_use_by[x] = b.in_use_by[x]
          /\ n.tail_sent[x] = b.tail_sent[x]
      BY <1>1, <1>2, <2>4, Zenon DEF NewTail
    <3> HIDE DEF p
    <3> QED BY <2>1, <2>2, <3>1, Zenon DEF VCHeld
  <2> QED BY <2>3, <2>4, Zenon
<1>5. b.policy \in SomePolicies /\ n.policy \in SomePolicies /\ (Limited(n) <=> Limited(b))
  BY <1>2, Zenon DEF HeldFor, SameKind, Limited
<1>6. ASSUME Limited(b)
      PROVE  /\ n.active_vcs = Cardinality(Busy(p))
             /\ ShiftingFits => n.max_held_slots \in Nat \ {0}
  <2> DEFINE k == Cardinality(Busy(p))
  <2>1. k \in 0 .. NumVCs /\ k = Cardinality(Busy(o)) + 1
    BY <1>3, BusyCount, BusyMore, ZenonT(30)
  <2>2. b.active_vcs + 1 = k
    BY <1>6, <2>1, Zenon DEF HeldFor
  <2>3. Active(b, n, k)
    BY <1>2, <1>6, <2>2, Zenon
  <2>4. ShiftingFits => b.max_held_slots \in Nat \ {0}
    BY <1>6, Zenon DEF HeldFor
  <2> HIDE DEF k
  <2>5. /\ n.active_vcs = k
        /\ ShiftingFits => n.max_held_slots \in Nat \ {0}
    BY <1>2, <1>5, <1>6, <2>1, <2>3, <2>4, LimitKept
  <2> QED BY <2>5, Zenon DEF k
<1> HIDE DEF p
<1>7. HeldFor(n, p)
  BY <1>4, <1>5, <1>6, Zenon DEF HeldFor
<1> QED BY <1>3, <1>7, Zenon DEF p

(* Sending a flit of a packet that holds its VC. *)
LEMMA SendHolds ==
  ASSUME NEW b, NEW o, Keeping(b, o), HeldFor(b, o), NEW v \in VCs, NEW tail \in BOOLEAN,
         o[v] # NoPacket, NEW e, tail <=> e = NoPacket, DOMAIN o = VCs,
         NEW n, n = SendingFlit(b, v, tail)
  PROVE  HeldFor(n, [o EXCEPT ![v] = e])
<1> DEFINE p == [o EXCEPT ![v] = e]
<1>1. /\ b \in Raw /\ b.in_use_by \in [VCs -> Int] /\ b.tail_sent \in [VCs -> BOOLEAN]
      /\ b.vc_occupancy \in [VCs -> Nat] /\ b.reserved_slots \in [VCs -> Nat]
      /\ b.reserved_slots[v] \in {0, 1}
  BY Zenon DEF Keeping, Raw, Counting, VCKept
<1>2. /\ n \in Raw /\ SameKind(b, n)
      /\ n.occupancy = b.occupancy + 1
      /\ n.vc_occupancy = [b.vc_occupancy EXCEPT ![v] = @ + 1]
      /\ Ended(b, n, v, tail)
      /\ n.in_use_by = IF tail /\ ~b.wait_for_tail_credit
                       THEN [b.in_use_by EXCEPT ![v] = -1] ELSE b.in_use_by
      /\ ~Shared(b) => SameSlots(b, n)
      /\ Shared(b) /\ b.reserved_slots[v] > 0 => Claims(b, n, v)
      /\ Shared(b) /\ ~(b.reserved_slots[v] > 0) => Fills(b, n, v)
      /\ IF Limited(b) /\ tail THEN Active(b, n, b.active_vcs - 1) ELSE SameHeld(b, n)
  BY <1>1, SendEffect
<1>3. \A x \in VCs \ {v} : n.reserved_slots[x] = b.reserved_slots[x]
  <2>1. CASE ~Shared(b)
    BY <1>2, <2>1, Zenon DEF SameSlots
  <2>2. CASE Shared(b) /\ b.reserved_slots[v] > 0
    BY <1>1, <1>2, <2>2, Zenon DEF Claims
  <2>3. CASE Shared(b) /\ ~(b.reserved_slots[v] > 0)
    BY <1>2, <2>3, Zenon DEF Fills
  <2> QED BY <2>1, <2>2, <2>3, Zenon
<1>4. ASSUME NEW x \in VCs PROVE VCHeld(n, p, x)
  <2>1. VCHeld(b, o, x)
    BY Zenon DEF HeldFor
  <2>2. n.wait_for_tail_credit = b.wait_for_tail_credit /\ (Shared(n) <=> Shared(b))
    BY <1>2, Zenon DEF SameKind, Shared
  <2>3. CASE x = v
    <3>1. p[x] = e /\ n.vc_occupancy[x] > 0
      BY <1>1, <1>2, <2>3
    <3>2. b.in_use_by[x] >= 0 /\ ~b.tail_sent[x]
      BY <2>1, <2>3, Zenon DEF VCHeld
    <3>3. ~tail => n.in_use_by[x] >= 0 /\ ~n.tail_sent[x]
      BY <1>2, <3>2, Zenon DEF Ended
    <3>4. b.wait_for_tail_credit => n.in_use_by[x] >= 0
      BY <1>2, <3>2, Zenon
    <3>5. ~(n.vc_occupancy[x] = 0)
      BY <3>1
    <3> HIDE DEF p
    <3> QED BY <2>2, <3>1, <3>3, <3>4, <3>5, Zenon DEF VCHeld
  <2>4. CASE x # v
    <3>1. /\ p[x] = o[x] /\ n.in_use_by[x] = b.in_use_by[x]
          /\ n.tail_sent[x] = b.tail_sent[x] /\ n.vc_occupancy[x] = b.vc_occupancy[x]
      BY <1>1, <1>2, <2>4 DEF Ended
    <3> HIDE DEF p
    <3> QED BY <1>3, <2>1, <2>2, <2>4, <3>1, Zenon DEF VCHeld
  <2> QED BY <2>3, <2>4, Zenon
<1>5. b.policy \in SomePolicies /\ n.policy \in SomePolicies /\ (Limited(n) <=> Limited(b))
  BY <1>2, Zenon DEF HeldFor, SameKind, Limited
<1>6. ASSUME Limited(b)
      PROVE  /\ n.active_vcs = Cardinality(Busy(p))
             /\ ShiftingFits => n.max_held_slots \in Nat \ {0}
  <2> DEFINE k == Cardinality(Busy(p))
             c == Cardinality(Busy(o))
  <2>1. k \in 0 .. NumVCs /\ c \in 0 .. NumVCs /\ k = c - (IF e = NoPacket THEN 1 ELSE 0)
    BY BusyCount, BusyLess, ZenonT(30)
  <2>2. b.active_vcs = c /\ (ShiftingFits => b.max_held_slots \in Nat \ {0})
    BY <1>6, Zenon DEF HeldFor
  <2> HIDE DEF k, c
  <2>3. /\ n.active_vcs = k
        /\ ShiftingFits => n.max_held_slots \in Nat \ {0}
    <3>1. CASE tail
      <4>1. Active(b, n, b.active_vcs - 1) /\ b.active_vcs - 1 = k
        BY <1>2, <1>6, <2>1, <2>2, <3>1, ZenonT(30)
      <4>2. Active(b, n, k)
        BY <4>1, Zenon
      <4> QED BY <1>2, <1>5, <1>6, <2>1, <2>2, <4>2, LimitKept
    <3>2. CASE ~tail
      <4>1. SameHeld(b, n) /\ k = c
        BY <1>2, <2>1, <3>2, BufferAssumption
      <4> QED BY <2>2, <4>1, Zenon DEF SameHeld
    <3> QED BY <3>1, <3>2, Zenon
  <2> QED BY <2>3, Zenon DEF k
<1> HIDE DEF p
<1>7. HeldFor(n, p)
  BY <1>4, <1>5, <1>6, Zenon DEF HeldFor
<1> QED BY <1>7, Zenon DEF p

(* A credit. *)
LEMMA CreditHolds ==
  ASSUME NEW b, NEW o, Keeping(b, o), HeldFor(b, o), NEW v \in VCs, b.vc_occupancy[v] > 0,
         \A x \in VCs : o[x].begun => o[x] # NoPacket,
         NEW n, n = ProcessCredit(b, v)
  PROVE  HeldFor(n, o)
<1>1. /\ b \in Raw /\ b.in_use_by \in [VCs -> Int] /\ b.tail_sent \in [VCs -> BOOLEAN]
      /\ b.vc_occupancy \in [VCs -> Nat] /\ b.reserved_slots \in [VCs -> Nat]
  BY Zenon DEF Keeping, Raw, Counting
<1>2. /\ n \in Raw /\ SameKind(b, n) /\ SameHeld(b, n) /\ n.tail_sent = b.tail_sent
      /\ n.occupancy = b.occupancy - 1
      /\ n.vc_occupancy = [b.vc_occupancy EXCEPT ![v] = @ - 1]
      /\ n.in_use_by = IF b.wait_for_tail_credit /\ b.vc_occupancy[v] = 1 /\ b.tail_sent[v]
                       THEN [b.in_use_by EXCEPT ![v] = -1] ELSE b.in_use_by
      /\ ~Shared(b) => SameSlots(b, n)
      /\ Shared(b) => IF n.in_use_by[v] >= 0 /\ n.vc_occupancy[v] = 0
                      THEN Claims(n, b, v) ELSE Fills(n, b, v)
  BY <1>1, CreditEffect
<1>3. n.reserved_slots \in [VCs -> Int]
  BY <1>2, Zenon DEF Raw
<1>4. Shared(b) => /\ \A x \in VCs \ {v} : n.reserved_slots[x] = b.reserved_slots[x]
                   /\ n.in_use_by[v] >= 0 /\ n.vc_occupancy[v] = 0 => n.reserved_slots[v] > 0
  <2> SUFFICES ASSUME Shared(b)
               PROVE  /\ \A x \in VCs \ {v} : n.reserved_slots[x] = b.reserved_slots[x]
                      /\ n.in_use_by[v] >= 0 /\ n.vc_occupancy[v] = 0 => n.reserved_slots[v] > 0
    BY Zenon
  <2>1. CASE n.in_use_by[v] >= 0 /\ n.vc_occupancy[v] = 0
    <3>1. b.reserved_slots = [n.reserved_slots EXCEPT ![v] = @ - 1]
      BY <1>2, <2>1, Zenon DEF Claims
    <3> QED BY <1>1, <1>3, <3>1
  <2>2. CASE ~(n.in_use_by[v] >= 0 /\ n.vc_occupancy[v] = 0)
    <3>1. b.reserved_slots = n.reserved_slots
      BY <1>2, <2>2, Zenon DEF Fills
    <3> QED BY <2>2, <3>1, Zenon
  <2> QED BY <2>1, <2>2, Zenon
<1>5. ASSUME NEW x \in VCs PROVE VCHeld(n, o, x)
  <2>1. VCHeld(b, o, x)
    BY Zenon DEF HeldFor
  <2>2. n.wait_for_tail_credit = b.wait_for_tail_credit /\ (Shared(n) <=> Shared(b))
    BY <1>2, Zenon DEF SameKind, Shared
  <2>3. CASE x = v
    <3>1. n.vc_occupancy[x] = b.vc_occupancy[x] - 1 /\ b.vc_occupancy[x] \in Nat
      BY <1>1, <1>2, <2>3, Zenon
    <3>2. o[x] # NoPacket => n.in_use_by[x] >= 0 /\ ~n.tail_sent[x]
      BY <1>2, <2>1, <2>3, Zenon DEF VCHeld
    <3>3. n.vc_occupancy[x] > 0 => n.in_use_by = b.in_use_by
      BY <1>2, <2>3, <3>1
    <3>4. b.wait_for_tail_credit /\ n.vc_occupancy[x] > 0 => n.in_use_by[x] >= 0
      BY <2>1, <2>3, <3>1, <3>3, Zenon DEF VCHeld
    <3>5. Shared(b) /\ o[x].begun /\ n.vc_occupancy[x] = 0 => n.reserved_slots[x] > 0
      BY <1>4, <2>3, <3>2, Zenon
    <3> QED BY <2>2, <3>2, <3>4, <3>5, Zenon DEF VCHeld
  <2>4. CASE x # v
    <3>1. /\ n.in_use_by[x] = b.in_use_by[x]
          /\ n.tail_sent[x] = b.tail_sent[x] /\ n.vc_occupancy[x] = b.vc_occupancy[x]
      BY <1>1, <1>2, <2>4
    <3> QED BY <1>4, <2>1, <2>2, <2>4, <3>1, Zenon DEF VCHeld
  <2> QED BY <2>3, <2>4, Zenon
<1> QED BY <1>2, <1>5, Zenon DEF HeldFor, SameKind, SameHeld, Limited

-----------------------------------------------------------------------------
(* The flits of a VC, from the head of the router's buffer to the sender:     *)
(* the last one ends or does not, as the packet o being sent says.            *)
Ends(s, v, o) ==
  \A i \in OfVC(s, v) :
    (\A k \in OfVC(s, v) : k <= i) =>
      (s[i].tail <=> ~o.begun) /\ (o.begun => s[i].pid = o.pid)

(* t is s without its element p. *)
Without(s, t, p) ==
  /\ p \in 1 .. Len(s) /\ Len(t) = Len(s) - 1
  /\ \A i \in 1 .. Len(t) : t[i] = s[IF i < p THEN i ELSE i + 1]

(* Neither the first element nor a flit of another VC is missed. *)
LEMMA WithoutKeeps ==
  ASSUME NEW X, NEW s \in Seq(X), NEW t \in Seq(X), NEW p, Without(s, t, p), NEW v, NEW o,
         p = 1 \/ s[p].vc # v
  PROVE  (Unmixed(s, v) => Unmixed(t, v)) /\ (Ends(s, v, o) => Ends(t, v, o))
<1> DEFINE at(i) == IF i < p THEN i ELSE i + 1
<1>1. /\ DOMAIN s = 1 .. Len(s) /\ DOMAIN t = 1 .. Len(t) /\ Len(s) \in Nat /\ Len(t) \in Nat
      /\ p \in 1 .. Len(s) /\ Len(t) = Len(s) - 1
      /\ \A i \in 1 .. Len(t) : t[i] = s[at(i)]
  BY SeqLen, Zenon DEF Without
<1>2. \A i \in OfVC(t, v) : i \in 1 .. Len(t) /\ at(i) \in OfVC(s, v) /\ at(i) \in Int
  BY <1>1 DEF OfVC
<1>3. \A i, j \in OfVC(t, v) : i < j => at(i) < at(j)
  <2>1. p \in Int /\ \A i \in OfVC(t, v) : i \in Int
    BY <1>1, <1>2
  <2> QED BY <2>1
<1>4. ASSUME NEW k \in OfVC(s, v)
      PROVE  \/ k = 1 /\ p = 1
             \/ \E m \in OfVC(t, v) : at(m) = k
  <2>1. k \in 1 .. Len(s) /\ s[k].vc = v
    BY <1>1, Zenon DEF OfVC
  <2>2. CASE k = p
    BY <2>1, <2>2, Zenon
  <2>3. CASE k < p
    <3>1. k \in 1 .. Len(t) /\ at(k) = k
      BY <1>1, <2>1, <2>3
    <3>2. k \in OfVC(t, v)
      BY <1>1, <2>1, <3>1, Zenon DEF OfVC
    <3> QED BY <3>1, <3>2, Zenon
  <2>4. CASE p < k
    <3>1. k - 1 \in 1 .. Len(t) /\ at(k - 1) = k
      BY <1>1, <2>1, <2>4
    <3>2. k - 1 \in OfVC(t, v)
      BY <1>1, <2>1, <3>1, Zenon DEF OfVC
    <3> QED BY <3>1, <3>2, Zenon
  <2> QED BY <1>1, <2>1, <2>2, <2>3, <2>4
<1>5. ASSUME NEW i \in OfVC(t, v), NEW m \in OfVC(t, v)
      PROVE  (m <= i => at(m) <= at(i)) /\ i \in Int /\ m \in Int
  BY <1>2
<1>6. \A i \in OfVC(t, v) : t[i] = s[at(i)] /\ (p = 1 => 1 <= at(i))
  BY <1>1, <1>2
<1> HIDE DEF at
<1>7. ASSUME Unmixed(s, v) PROVE Unmixed(t, v)
  <2> SUFFICES ASSUME NEW i \in OfVC(t, v), NEW j \in OfVC(t, v), i < j,
                      \A k \in OfVC(t, v) : k <= i \/ j <= k
               PROVE  Follows(t[i], t[j])
    BY Zenon DEF Unmixed
  <2>1. at(i) \in OfVC(s, v) /\ at(j) \in OfVC(s, v) /\ at(i) < at(j)
    BY <1>2, <1>3, Zenon
  <2>2. ASSUME NEW k \in OfVC(s, v) PROVE k <= at(i) \/ at(j) <= k
    <3>1. CASE k = 1 /\ p = 1
      BY <1>6, <3>1, Zenon
    <3>2. CASE \E m \in OfVC(t, v) : at(m) = k
      <4>1. PICK m \in OfVC(t, v) : at(m) = k
        BY <3>2, Zenon
      <4> QED BY <1>5, <4>1, Zenon
    <3> QED BY <1>4, <3>1, <3>2, Zenon
  <2>3. Follows(s[at(i)], s[at(j)])
    BY <1>7, <2>1, <2>2, Zenon DEF Unmixed
  <2> QED BY <1>6, <2>3, Zenon
<1>8. ASSUME Ends(s, v, o) PROVE Ends(t, v, o)
  <2> SUFFICES ASSUME NEW i \in OfVC(t, v), \A k \in OfVC(t, v) : k <= i
               PROVE  (t[i].tail <=> ~o.begun) /\ (o.begun => t[i].pid = o.pid)
    BY Zenon DEF Ends
  <2>1. at(i) \in OfVC(s, v)
    BY <1>2, Zenon
  <2>2. ASSUME NEW k \in OfVC(s, v) PROVE k <= at(i)
    <3>1. CASE k = 1 /\ p = 1
      BY <1>6, <3>1, Zenon
    <3>2. CASE \E m \in OfVC(t, v) : at(m) = k
      <4>1. PICK m \in OfVC(t, v) : at(m) = k
        BY <3>2, Zenon
      <4> QED BY <1>5, <4>1, Zenon
    <3> QED BY <1>4, <3>1, <3>2, Zenon
  <2>3. (s[at(i)].tail <=> ~o.begun) /\ (o.begun => s[at(i)].pid = o.pid)
    BY <1>8, <2>1, <2>2, Zenon DEF Ends
  <2> QED BY <1>6, <2>3, Zenon
<1> QED BY <1>7, <1>8, Zenon

(* The next flit of the packet o, after which the packet is q. *)
LEMMA NextFlit ==
  ASSUME NEW X, NEW s \in Seq(X), NEW f \in X, NEW v, NEW o, NEW q, f.vc = v,
         Unmixed(s, v), Ends(s, v, o),
         f.head <=> ~o.begun, o.begun => f.pid = o.pid,
         f.tail <=> ~q.begun, q.begun => f.pid = q.pid
  PROVE  Unmixed(Append(s, f), v) /\ Ends(Append(s, f), v, q)
<1> DEFINE t == Append(s, f)
           n == Len(s) + 1
<1>1. /\ DOMAIN s = 1 .. Len(s) /\ Len(s) \in Nat
      /\ DOMAIN t = 1 .. n /\ t[n] = f
      /\ \A i \in 1 .. Len(s) : t[i] = s[i]
  BY SeqAppend, SeqLen
<1> HIDE DEF t
<1>2. /\ OfVC(t, v) = OfVC(s, v) \cup {n}
      /\ \A k \in OfVC(s, v) : k \in 1 .. Len(s) /\ t[k] = s[k] /\ k < n /\ k \in Int /\ ~(n <= k)
  <2>1. \A k \in OfVC(s, v) : k \in 1 .. Len(s) /\ t[k] = s[k] /\ k < n /\ k \in Int /\ ~(n <= k)
    BY <1>1 DEF OfVC
  <2>2. OfVC(t, v) = OfVC(s, v) \cup {n}
    BY <1>1 DEF OfVC
  <2> QED BY <2>1, <2>2, Zenon
<1> HIDE DEF n
<1>3. Unmixed(t, v)
  <2> SUFFICES ASSUME NEW i \in OfVC(t, v), NEW j \in OfVC(t, v), i < j,
                      \A k \in OfVC(t, v) : k <= i \/ j <= k
               PROVE  Follows(t[i], t[j])
    BY Zenon DEF Unmixed
  <2>0. n \in Int
    BY <1>1 DEF n
  <2>1. i \in OfVC(s, v)
    BY <1>2, <2>0
  <2>2. CASE j = n
    <3>1. \A k \in OfVC(s, v) : k <= i
      BY <1>2, <2>2, Zenon
    <3>2. (s[i].tail <=> ~o.begun) /\ (o.begun => s[i].pid = o.pid)
      BY <2>1, <3>1, Zenon DEF Ends
    <3>3. Follows(s[i], f)
      BY <3>2, Zenon DEF Follows
    <3> QED BY <1>1, <1>2, <2>1, <2>2, <3>3, Zenon
  <2>3. CASE j \in OfVC(s, v)
    <3>1. \A k \in OfVC(s, v) : k <= i \/ j <= k
      BY <1>2, Zenon
    <3>2. Follows(s[i], s[j])
      BY <2>1, <2>3, <3>1, Zenon DEF Unmixed
    <3> QED BY <1>2, <2>1, <2>3, <3>2, Zenon
  <2> QED BY <1>2, <2>2, <2>3, Zenon
<1>4. Ends(t, v, q)
  <2> SUFFICES ASSUME NEW i \in OfVC(t, v), \A k \in OfVC(t, v) : k <= i
               PROVE  (t[i].tail <=> ~q.begun) /\ (q.begun => t[i].pid = q.pid)
    BY Zenon DEF Ends
  <2>1. i = n
    BY <1>2, Zenon
  <2> QED BY <1>1, <2>1, Zenon
<1> QED BY <1>3, <1>4, Zenon DEF t

(* A flit of another VC changes nothing. *)
LEMMA OtherFlit ==
  ASSUME NEW X, NEW s \in Seq(X), NEW f \in X, NEW v, NEW o, f.vc # v
  PROVE  (Unmixed(s, v) => Unmixed(Append(s, f), v)) /\ (Ends(s, v, o) => Ends(Append(s, f), v, o))
<1> DEFINE t == Append(s, f)
           n == Len(s) + 1
<1>1. /\ DOMAIN s = 1 .. Len(s) /\ Len(s) \in Nat
      /\ DOMAIN t = 1 .. n /\ t[n] = f
      /\ \A i \in 1 .. Len(s) : t[i] = s[i]
  BY SeqAppend, SeqLen
<1> HIDE DEF t
<1>2. OfVC(t, v) = OfVC(s, v) /\ \A k \in OfVC(s, v) : t[k] = s[k]
  BY <1>1 DEF OfVC
<1>3. Unmixed(s, v) => Unmixed(t, v)
  BY <1>2 DEF Unmixed
<1>4. Ends(s, v, o) => Ends(t, v, o)
  BY <1>2, Zenon DEF Ends
<1> QED BY <1>3, <1>4, Zenon DEF t

(* The three ways in which the flits between sender and router change. *)
LEMMA ConcatAppend ==
  ASSUME NEW X, NEW r \in Seq(X), NEW s \in Seq(X), NEW f \in X
  PROVE  r \o Append(s, f) = Append(r \o s, f) /\ r \o s \in Seq(X)
<1>1. r \o s \in Seq(X) /\ Append(s, f) \in Seq(X) /\ <<f>> \in Seq(X)
  BY SeqConcat, SeqAppend
<1>2. Append(s, f) = s \o <<f>> /\ Append(r \o s, f) = (r \o s) \o <<f>>
  BY <1>1, SeqAppendIs, Zenon
<1>3. (r \o s) \o <<f>> = r \o (s \o <<f>>)
  BY <1>1, SeqConcat, SeqSame
<1> QED BY <1>1, <1>2, <1>3, Zenon

(* The first flit of the second part becomes the last of the first. *)
LEMMA ConcatMove ==
  ASSUME NEW X, NEW r \in Seq(X), NEW s \in Seq(X), s # <<>>
  PROVE  Append(r, Head(s)) \o Tail(s) = r \o s
<1> DEFINE a == Append(r, Head(s))
           t == Tail(s)
<1>1. /\ Head(s) \in X /\ t \in Seq(X) /\ Len(t) = Len(s) - 1 /\ Head(s) = s[1]
      /\ Len(s) \in Nat \ {0} /\ Len(r) \in Nat
      /\ \A i \in 1 .. Len(s) - 1 : t[i] = s[i + 1]
  BY SeqHeadTail, SeqLen
<1>2. /\ a \in Seq(X) /\ Len(a) = Len(r) + 1 /\ a[Len(r) + 1] = Head(s)
      /\ \A i \in 1 .. Len(r) : a[i] = r[i]
  BY <1>1, SeqAppend
<1> HIDE DEF a, t
<1>3. /\ a \o t \in Seq(X) /\ Len(a \o t) = Len(a) + Len(t)
      /\ \A i \in 1 .. Len(a) + Len(t) : (a \o t)[i] = IF i <= Len(a) THEN a[i] ELSE t[i - Len(a)]
      /\ r \o s \in Seq(X) /\ Len(r \o s) = Len(r) + Len(s)
      /\ \A i \in 1 .. Len(r) + Len(s) : (r \o s)[i] = IF i <= Len(r) THEN r[i] ELSE s[i - Len(r)]
  BY <1>1, <1>2, SeqConcat, ZenonT(30)
<1>4. ASSUME NEW i \in 1 .. Len(a) + Len(t) PROVE (a \o t)[i] = (r \o s)[i]
  <2>1. CASE i <= Len(r)
    BY <1>1, <1>2, <1>3, <2>1
  <2>2. CASE i = Len(r) + 1
    <3>1. i - Len(r) = 1 /\ i <= Len(a) /\ ~(i <= Len(r)) /\ i \in 1 .. Len(r) + Len(s)
      BY <1>1, <1>2, <2>2
    <3> QED BY <1>1, <1>2, <1>3, <2>2, <3>1, Zenon
  <2>3. CASE i > Len(r) + 1
    <3> DEFINE j == i - Len(a)
    <3>1. /\ j \in 1 .. Len(s) - 1 /\ j + 1 = i - Len(r) /\ i \in 1 .. Len(r) + Len(s)
          /\ ~(i <= Len(a)) /\ ~(i <= Len(r))
      BY <1>1, <1>2, <2>3
    <3>2. (a \o t)[i] = t[j] /\ (r \o s)[i] = s[j + 1]
      BY <1>3, <3>1, Zenon
    <3> QED BY <1>1, <3>1, <3>2, ZenonT(30)
  <2>4. i <= Len(r) \/ i = Len(r) + 1 \/ i > Len(r) + 1
    BY <1>1, <1>2
  <2> QED BY <2>1, <2>2, <2>3, <2>4, ZenonT(30)
<1>5. Len(a \o t) = Len(r \o s)
  BY <1>1, <1>2, <1>3
<1>6. a \o t = r \o s
  BY <1>3, <1>4, <1>5, SeqSame, Zenon
<1> QED BY <1>6, Zenon DEF a, t

(* The first flit of the second part is gone. *)
LEMMA ConcatTail ==
  ASSUME NEW X, NEW r \in Seq(X), NEW s \in Seq(X), s # <<>>
  PROVE  /\ Without(r \o s, r \o Tail(s), Len(r) + 1) /\ (r \o s)[Len(r) + 1] = Head(s)
         /\ r \o s \in Seq(X) /\ r \o Tail(s) \in Seq(X)
<1> DEFINE t == Tail(s)
           p == Len(r) + 1
<1>1. /\ t \in Seq(X) /\ Len(t) = Len(s) - 1 /\ Head(s) = s[1]
      /\ Len(s) \in Nat \ {0} /\ Len(r) \in Nat
      /\ \A i \in 1 .. Len(s) - 1 : t[i] = s[i + 1]
  BY SeqHeadTail, SeqLen
<1> HIDE DEF t
<1>2. /\ r \o t \in Seq(X) /\ Len(r \o t) = Len(r) + Len(t)
      /\ \A i \in 1 .. Len(r) + Len(t) : (r \o t)[i] = IF i <= Len(r) THEN r[i] ELSE t[i - Len(r)]
      /\ r \o s \in Seq(X) /\ Len(r \o s) = Len(r) + Len(s)
      /\ \A i \in 1 .. Len(r) + Len(s) : (r \o s)[i] = IF i <= Len(r) THEN r[i] ELSE s[i - Len(r)]
  BY <1>1, SeqConcat, ZenonT(30)
<1>3. p \in 1 .. Len(r) + Len(s) /\ ~(p <= Len(r)) /\ p - Len(r) = 1
  BY <1>1
<1>4. (r \o s)[p] = Head(s)
  BY <1>1, <1>2, <1>3, Zenon
<1>5. ASSUME NEW i \in 1 .. Len(r \o t) PROVE (r \o t)[i] = (r \o s)[IF i < p THEN i ELSE i + 1]
  <2>1. CASE i < p
    BY <1>1, <1>2, <2>1
  <2>2. CASE ~(i < p)
    <3> DEFINE j == i - Len(r)
    <3>1. /\ j \in 1 .. Len(s) - 1 /\ j + 1 = (i + 1) - Len(r) /\ ~(i <= Len(r))
          /\ ~(i + 1 <= Len(r)) /\ i + 1 \in 1 .. Len(r) + Len(s)
      BY <1>1, <1>2, <2>2
    <3>2. (r \o t)[i] = t[j] /\ (r \o s)[i + 1] = s[j + 1]
      BY <1>2, <3>1
    <3> QED BY <1>1, <2>2, <3>1, <3>2, Zenon
  <2> QED BY <2>1, <2>2, ZenonT(30)
<1>6. Len(r \o t) = Len(r \o s) - 1
  BY <1>1, <1>2
<1>7. Without(r \o s, r \o t, p)
  BY <1>2, <1>3, <1>5, <1>6, Zenon DEF Without
<1> QED BY <1>2, <1>4, <1>7, Zenon DEF t

(* The first flit of the first part is gone. *)
LEMMA TailConcat ==
  ASSUME NEW X, NEW r \in Seq(X), NEW s \in Seq(X), r # <<>>
  PROVE  /\ Without(r \o s, Tail(r) \o s, 1)
         /\ r \o s \in Seq(X) /\ Tail(r) \o s \in Seq(X)
<1> DEFINE t == Tail(r)
<1>1. /\ t \in Seq(X) /\ Len(t) = Len(r) - 1
      /\ Len(r) \in Nat \ {0} /\ Len(s) \in Nat
      /\ \A i \in 1 .. Len(r) - 1 : t[i] = r[i + 1]
  BY SeqHeadTail, SeqLen
<1> HIDE DEF t
<1>2. /\ t \o s \in Seq(X) /\ Len(t \o s) = Len(t) + Len(s)
      /\ \A i \in 1 .. Len(t) + Len(s) : (t \o s)[i] = IF i <= Len(t) THEN t[i] ELSE s[i - Len(t)]
      /\ r \o s \in Seq(X) /\ Len(r \o s) = Len(r) + Len(s)
      /\ \A i \in 1 .. Len(r) + Len(s) : (r \o s)[i] = IF i <= Len(r) THEN r[i] ELSE s[i - Len(r)]
  BY <1>1, SeqConcat, ZenonT(30)
<1>3. ASSUME NEW i \in 1 .. Len(t \o s) PROVE (t \o s)[i] = (r \o s)[IF i < 1 THEN i ELSE i + 1]
  <2>1. /\ ~(i < 1) /\ i \in 1 .. Len(t) + Len(s) /\ i + 1 \in 1 .. Len(r) + Len(s)
        /\ (i <= Len(t) <=> i + 1 <= Len(r)) /\ i - Len(t) = (i + 1) - Len(r)
    BY <1>1, <1>2
  <2>2. (t \o s)[i] = (r \o s)[i + 1]
    <3>1. CASE i <= Len(t)
      <4>1. i \in 1 .. Len(r) - 1
        BY <1>1, <2>1, <3>1
      <4> QED BY <1>1, <1>2, <2>1, <3>1, <4>1, Zenon
    <3>2. CASE ~(i <= Len(t))
      BY <1>2, <2>1, <3>2, Zenon
    <3> QED BY <3>1, <3>2, ZenonT(30)
  <2> QED BY <2>1, <2>2, Zenon
<1>4. 1 \in 1 .. Len(r \o s) /\ Len(t \o s) = Len(r \o s) - 1
  BY <1>1, <1>2
<1>5. Without(r \o s, t \o s, 1)
  BY <1>3, <1>4, Zenon DEF Without
<1> QED BY <1>2, <1>5, Zenon DEF t

Streams(bf, ch, o) ==
  \A v \in VCs : Unmixed(bf[v] \o ch, v) /\ Ends(bf[v] \o ch, v, o[v])

(* A flit is sent. *)
LEMMA SendStreams ==
  ASSUME NEW bf \in [VCs -> Seq(FlitSet)], NEW ch \in Seq(FlitSet), NEW o, DOMAIN o = VCs,
         Streams(bf, ch, o), NEW f \in FlitSet, NEW q,
         f.head <=> ~o[f.vc].begun, o[f.vc].begun => f.pid = o[f.vc].pid,
         f.tail <=> ~q.begun, q.begun => f.pid = q.pid
  PROVE  Streams(bf, Append(ch, f), [o EXCEPT ![f.vc] = q])
<1> DEFINE p == [o EXCEPT ![f.vc] = q]
<1> SUFFICES ASSUME NEW v \in VCs
             PROVE  /\ Unmixed(bf[v] \o Append(ch, f), v)
                    /\ Ends(bf[v] \o Append(ch, f), v, p[v])
  BY Zenon DEF Streams
<1>1. f.vc \in VCs
  BY FlitTyped, Zenon
<1> DEFINE s == bf[v] \o ch
<1>2. bf[v] \o Append(ch, f) = Append(s, f) /\ s \in Seq(FlitSet)
  BY ConcatAppend, Zenon
<1>3. Unmixed(s, v) /\ Ends(s, v, o[v])
  BY Zenon DEF Streams
<1> HIDE DEF s
<1>4. CASE f.vc = v
  <2>1. p[v] = q
    BY <1>1, <1>4, Zenon
  <2>2. Unmixed(Append(s, f), v) /\ Ends(Append(s, f), v, q)
    <3>1. (f.head <=> ~o[v].begun) /\ (o[v].begun => f.pid = o[v].pid)
      BY <1>4, Zenon
    <3> QED BY <1>2, <1>3, <1>4, <3>1, NextFlit, Zenon
  <2> QED BY <1>2, <2>1, <2>2, Zenon
<1>5. CASE f.vc # v
  <2>1. p[v] = o[v]
    BY <1>1, <1>5, Zenon
  <2>2. Unmixed(Append(s, f), v) /\ Ends(Append(s, f), v, o[v])
    BY <1>2, <1>3, <1>5, OtherFlit, Zenon
  <2> QED BY <1>2, <2>1, <2>2, Zenon
<1> QED BY <1>4, <1>5, Zenon

(* A flit arrives. *)
LEMMA ArriveStreams ==
  ASSUME NEW bf \in [VCs -> Seq(FlitSet)], NEW ch \in Seq(FlitSet), ch # <<>>, NEW o,
         Streams(bf, ch, o), NEW f, f = Head(ch)
  PROVE  Streams([bf EXCEPT ![f.vc] = Append(@, f)], Tail(ch), o)
<1> DEFINE b == [bf EXCEPT ![f.vc] = Append(@, f)]
<1> SUFFICES ASSUME NEW v \in VCs
             PROVE  Unmixed(b[v] \o Tail(ch), v) /\ Ends(b[v] \o Tail(ch), v, o[v])
  BY Zenon DEF Streams
<1>1. f \in FlitSet /\ f.vc \in VCs
  BY SeqHeadTail, FlitTyped, Zenon
<1>2. Unmixed(bf[v] \o ch, v) /\ Ends(bf[v] \o ch, v, o[v])
  BY Zenon DEF Streams
<1>3. CASE f.vc = v
  <2>1. b[v] = Append(bf[v], f)
    BY <1>1, <1>3, Zenon
  <2>2. b[v] \o Tail(ch) = bf[v] \o ch
    BY <2>1, ConcatMove, ZenonT(30)
  <2> QED BY <1>2, <2>2, ZenonT(30)
<1>4. CASE f.vc # v
  <2>1. b[v] = bf[v]
    BY <1>1, <1>4, Zenon
  <2> DEFINE s == bf[v] \o ch
             t == bf[v] \o Tail(ch)
             p == Len(bf[v]) + 1
  <2>2. Without(s, t, p) /\ s[p] = f /\ s \in Seq(FlitSet) /\ t \in Seq(FlitSet)
    BY ConcatTail, Zenon
  <2> HIDE DEF s, t, p
  <2>3. s[p].vc # v
    BY <1>4, <2>2, Zenon
  <2>4. (Unmixed(s, v) => Unmixed(t, v)) /\ (Ends(s, v, o[v]) => Ends(t, v, o[v]))
    BY <2>2, <2>3, WithoutKeeps, Zenon
  <2> QED BY <1>2, <2>1, <2>4, Zenon DEF s, t
<1> QED BY <1>3, <1>4, Zenon

(* A flit leaves the router. *)
LEMMA DrainStreams ==
  ASSUME NEW bf \in [VCs -> Seq(FlitSet)], NEW ch \in Seq(FlitSet), NEW o,
         Streams(bf, ch, o), NEW u \in VCs, bf[u] # <<>>
  PROVE  Streams([bf EXCEPT ![u] = Tail(@)], ch, o)
<1> DEFINE b == [bf EXCEPT ![u] = Tail(@)]
<1> SUFFICES ASSUME NEW v \in VCs
             PROVE  Unmixed(b[v] \o ch, v) /\ Ends(b[v] \o ch, v, o[v])
  BY Zenon DEF Streams
<1>1. Unmixed(bf[v] \o ch, v) /\ Ends(bf[v] \o ch, v, o[v])
  BY Zenon DEF Streams
<1>2. CASE u = v
  <2>1. b[v] = Tail(bf[v])
    BY <1>2, Zenon
  <2> DEFINE s == bf[v] \o ch
             t == Tail(bf[v]) \o ch
  <2>2. Without(s, t, 1) /\ s \in Seq(FlitSet) /\ t \in Seq(FlitSet)
    BY <1>2, TailConcat, Zenon
  <2> HIDE DEF s, t
  <2>3. (Unmixed(s, v) => Unmixed(t, v)) /\ (Ends(s, v, o[v]) => Ends(t, v, o[v]))
    BY <2>2, WithoutKeeps, Zenon
  <2> QED BY <1>1, <2>1, <2>3, Zenon DEF s, t
<1>3. CASE u # v
  BY <1>1, <1>3, Zenon
<1> QED BY <1>2, <1>3, Zenon

-----------------------------------------------------------------------------
(* What a VC of the router expects (_expected_pid): the packet x of the next  *)
(* flit on the channel, or of the packet o being sent if there is none.       *)
Awaited(ch, v, x, o) ==
  /\ OfVC(ch, v) = {} => (x >= 0 <=> o.begun) /\ (o.begun => x = o.pid)
  /\ \A i \in OfVC(ch, v) :
       (\A k \in OfVC(ch, v) : i <= k) => (x >= 0 <=> ~ch[i].head) /\ (x >= 0 => ch[i].pid = x)

(* The flits on the channel end the stream. *)
LEMMA SecondPart ==
  ASSUME NEW X, NEW r \in Seq(X), NEW s \in Seq(X), NEW v, NEW o,
         Unmixed(r \o s, v), Ends(r \o s, v, o)
  PROVE  Unmixed(s, v) /\ Ends(s, v, o)
<1> DEFINE c == r \o s
           m == Len(r)
<1>1. /\ Len(c) = m + Len(s) /\ DOMAIN c = 1 .. m + Len(s) /\ DOMAIN s = 1 .. Len(s)
      /\ m \in Nat /\ Len(s) \in Nat
      /\ \A i \in 1 .. m + Len(s) : c[i] = IF i <= m THEN r[i] ELSE s[i - m]
  BY SeqConcat, SeqLen
<1> HIDE DEF c, m
<1>2. \A i \in 1 .. Len(s) : i + m \in 1 .. m + Len(s) /\ c[i + m] = s[i]
  <2> SUFFICES ASSUME NEW i \in 1 .. Len(s)
               PROVE  i + m \in 1 .. m + Len(s) /\ c[i + m] = s[i]
    BY Zenon
  <2>1. i + m \in 1 .. m + Len(s) /\ ~(i + m <= m) /\ (i + m) - m = i
    BY <1>1
  <2> QED BY <1>1, <2>1, Zenon
<1>3. \A i \in OfVC(s, v) : i \in Int /\ 1 <= i /\ i + m \in OfVC(c, v) /\ c[i + m] = s[i]
  BY <1>1, <1>2 DEF OfVC
<1>4. ASSUME NEW k \in OfVC(c, v)
      PROVE  k \in Int /\ (k <= m \/ (k - m \in OfVC(s, v)))
  <2>1. k \in 1 .. m + Len(s) /\ c[k].vc = v
    BY <1>1, Zenon DEF OfVC
  <2>2. CASE k > m
    <3>1. k - m \in 1 .. Len(s) /\ (k - m) + m = k
      BY <1>1, <2>1, <2>2
    <3>2. s[k - m] = c[k]
      BY <1>2, <3>1, Zenon
    <3> QED BY <1>1, <2>1, <3>1, <3>2 DEF OfVC
  <2> QED BY <1>1, <2>1, <2>2
<1>5. Unmixed(s, v)
  <2> SUFFICES ASSUME NEW i \in OfVC(s, v), NEW j \in OfVC(s, v), i < j,
                      \A k \in OfVC(s, v) : k <= i \/ j <= k
               PROVE  Follows(s[i], s[j])
    BY Zenon DEF Unmixed
  <2>1. i + m \in OfVC(c, v) /\ j + m \in OfVC(c, v) /\ i + m < j + m
    BY <1>1, <1>3
  <2>2. ASSUME NEW k \in OfVC(c, v) PROVE k <= i + m \/ j + m <= k
    <3>1. CASE k <= m
      BY <1>1, <1>3, <1>4, <3>1
    <3>2. CASE k - m \in OfVC(s, v)
      <4>1. k - m <= i \/ j <= k - m
        BY <3>2, Zenon
      <4> QED BY <1>1, <1>3, <1>4, <4>1
    <3> QED BY <1>4, <3>1, <3>2, Zenon
  <2>3. Follows(c[i + m], c[j + m])
    BY <2>1, <2>2, ZenonT(30) DEF Unmixed, c
  <2> QED BY <1>3, <2>3, Zenon
<1>6. Ends(s, v, o)
  <2> SUFFICES ASSUME NEW i \in OfVC(s, v), \A k \in OfVC(s, v) : k <= i
               PROVE  (s[i].tail <=> ~o.begun) /\ (o.begun => s[i].pid = o.pid)
    BY Zenon DEF Ends
  <2>1. i + m \in OfVC(c, v)
    BY <1>3, Zenon
  <2>2. ASSUME NEW k \in OfVC(c, v) PROVE k <= i + m
    <3>1. CASE k <= m
      BY <1>1, <1>3, <1>4, <3>1
    <3>2. CASE k - m \in OfVC(s, v)
      <4>1. k - m <= i
        BY <3>2, Zenon
      <4> QED BY <1>1, <1>3, <1>4, <4>1
    <3> QED BY <1>4, <3>1, <3>2, Zenon
  <2>3. (c[i + m].tail <=> ~o.begun) /\ (o.begun => c[i + m].pid = o.pid)
    BY <2>1, <2>2, ZenonT(30) DEF Ends, c
  <2> QED BY <1>3, <2>3, Zenon
<1> QED BY <1>5, <1>6, Zenon

(* A flit is sent on the VC. *)
LEMMA AwaitSend ==
  ASSUME NEW X, NEW ch \in Seq(X), NEW f \in X, NEW v, NEW x, NEW o, NEW q, f.vc = v,
         Awaited(ch, v, x, o), f.head <=> ~o.begun, o.begun => f.pid = o.pid
  PROVE  Awaited(Append(ch, f), v, x, q)
<1> DEFINE t == Append(ch, f)
           n == Len(ch) + 1
<1>1. /\ DOMAIN ch = 1 .. Len(ch) /\ Len(ch) \in Nat
      /\ DOMAIN t = 1 .. n /\ t[n] = f
      /\ \A i \in 1 .. Len(ch) : t[i] = ch[i]
  BY SeqAppend, SeqLen
<1> HIDE DEF t
<1>2. \A k \in OfVC(ch, v) : t[k] = ch[k] /\ ~(n <= k)
  BY <1>1 DEF OfVC
<1>3. OfVC(t, v) = OfVC(ch, v) \cup {n}
  BY <1>1 DEF OfVC
<1> HIDE DEF n
<1>4. ASSUME NEW i \in OfVC(t, v), \A k \in OfVC(t, v) : i <= k
      PROVE  (x >= 0 <=> ~t[i].head) /\ (x >= 0 => t[i].pid = x)
  <2>1. CASE i \in OfVC(ch, v)
    <3>1. \A k \in OfVC(ch, v) : i <= k
      BY <1>3, <1>4, Zenon
    <3>2. (x >= 0 <=> ~ch[i].head) /\ (x >= 0 => ch[i].pid = x)
      BY <2>1, <3>1, Zenon DEF Awaited
    <3> QED BY <1>2, <2>1, <3>2, Zenon
  <2>2. CASE i \notin OfVC(ch, v)
    <3>1. i = n
      BY <1>3, <2>2, Zenon
    <3>2. OfVC(ch, v) = {}
      BY <1>2, <1>3, <1>4, <3>1, Zenon
    <3>3. (x >= 0 <=> o.begun) /\ (o.begun => x = o.pid)
      BY <3>2, Zenon DEF Awaited
    <3> QED BY <1>1, <3>1, <3>3, Zenon
  <2> QED BY <2>1, <2>2, Zenon
<1>5. Awaited(t, v, x, q)
  BY <1>3, <1>4, Zenon DEF Awaited
<1> QED BY <1>5, Zenon DEF t

(* A flit is sent on another VC. *)
LEMMA AwaitOther ==
  ASSUME NEW X, NEW ch \in Seq(X), NEW f \in X, NEW v, NEW x, NEW o, f.vc # v,
         Awaited(ch, v, x, o)
  PROVE  Awaited(Append(ch, f), v, x, o)
<1> DEFINE t == Append(ch, f)
           n == Len(ch) + 1
<1>1. /\ DOMAIN ch = 1 .. Len(ch) /\ Len(ch) \in Nat
      /\ DOMAIN t = 1 .. n /\ t[n] = f
      /\ \A i \in 1 .. Len(ch) : t[i] = ch[i]
  BY SeqAppend, SeqLen
<1> HIDE DEF t
<1>2. OfVC(t, v) = OfVC(ch, v) /\ \A k \in OfVC(ch, v) : t[k] = ch[k]
  BY <1>1 DEF OfVC
<1>3. Awaited(t, v, x, o)
  BY <1>2, Zenon DEF Awaited
<1> QED BY <1>3, Zenon DEF t

(* The first flit of the channel, and what is behind it. *)
Behind(ch, t, v) ==
  /\ Head(ch) = ch[1] /\ (1 \in OfVC(ch, v) <=> ch[1].vc = v)
  /\ \A i \in OfVC(t, v) :
       i \in Int /\ 1 <= i /\ i + 1 \in OfVC(ch, v) /\ t[i] = ch[i + 1]
  /\ \A k \in OfVC(ch, v) : k \in Int /\ 1 <= k /\ (k = 1 \/ k - 1 \in OfVC(t, v))

(* What is behind the first flit moves up by one place. *)
LEMMA BehindFirst ==
  ASSUME NEW X, NEW ch \in Seq(X), ch # <<>>, NEW v
  PROVE  Behind(ch, Tail(ch), v)
<1> DEFINE t == Tail(ch)
<1>1. /\ DOMAIN ch = 1 .. Len(ch) /\ Len(ch) \in Nat \ {0} /\ DOMAIN t = 1 .. Len(ch) - 1
      /\ Head(ch) = ch[1] /\ \A i \in 1 .. Len(ch) - 1 : t[i] = ch[i + 1]
  BY SeqHeadTail, SeqLen
<1> HIDE DEF t
<1>2. 1 \in OfVC(ch, v) <=> ch[1].vc = v
  BY <1>1 DEF OfVC
<1>3. \A i \in OfVC(t, v) : i \in Int /\ 1 <= i /\ i + 1 \in OfVC(ch, v) /\ t[i] = ch[i + 1]
  BY <1>1 DEF OfVC
<1>4. ASSUME NEW k \in OfVC(ch, v) PROVE k \in Int /\ 1 <= k /\ (k = 1 \/ k - 1 \in OfVC(t, v))
  <2>1. k \in 1 .. Len(ch) /\ ch[k].vc = v
    BY <1>1, Zenon DEF OfVC
  <2>2. CASE k # 1
    <3>1. k - 1 \in 1 .. Len(ch) - 1 /\ (k - 1) + 1 = k
      BY <1>1, <2>1, <2>2
    <3>2. t[k - 1] = ch[k]
      BY <1>1, <3>1, Zenon
    <3> QED BY <1>1, <2>1, <3>1, <3>2 DEF OfVC
  <2> QED BY <1>1, <2>1, <2>2
<1>5. Behind(ch, t, v)
  BY <1>1, <1>2, <1>3, <1>4, Zenon DEF Behind
<1> QED BY <1>5, Zenon DEF t

(* A flit of the VC arrives. *)
LEMMA AwaitArrive ==
  ASSUME NEW X, NEW ch \in Seq(X), ch # <<>>, NEW v, NEW x \in Int, NEW o,
         NEW f, f = Head(ch), f.vc = v, f.pid \in Nat, ToInt(f.pid) = f.pid,
         f.tail \in BOOLEAN,
         Unmixed(ch, v), Ends(ch, v, o), Awaited(ch, v, x, o)
  PROVE  Awaited(Tail(ch), v, NextExpected(x, f), o)
<1> DEFINE y == NextExpected(x, f)
           t == Tail(ch)
<1>0. Behind(ch, t, v)
  BY BehindFirst, Zenon
<1> HIDE DEF t
<1>1. /\ f = ch[1] /\ 1 \in OfVC(ch, v)
      /\ \A i \in OfVC(t, v) : i \in Int /\ 1 <= i /\ i + 1 \in OfVC(ch, v) /\ t[i] = ch[i + 1]
      /\ \A k \in OfVC(ch, v) : k \in Int /\ 1 <= k /\ (k = 1 \/ k - 1 \in OfVC(t, v))
  BY <1>0, Zenon DEF Behind
<1>2. (x >= 0 <=> ~f.head) /\ (x >= 0 => f.pid = x)
  BY <1>1, Zenon DEF Awaited
<1>3. (y >= 0 <=> ~f.tail) /\ (~f.tail => y = f.pid)
  BY <1>2 DEF NextExpected
<1> HIDE DEF y
<1>4. ASSUME OfVC(t, v) = {} PROVE (y >= 0 <=> o.begun) /\ (o.begun => y = o.pid)
  <2>1. \A k \in OfVC(ch, v) : k <= 1
    BY <1>1, <1>4, Zenon
  <2>2. (f.tail <=> ~o.begun) /\ (o.begun => f.pid = o.pid)
    BY <1>1, <2>1, Zenon DEF Ends
  <2> QED BY <1>3, <2>2, Zenon
<1>5. ASSUME NEW i \in OfVC(t, v), \A k \in OfVC(t, v) : i <= k
      PROVE  (y >= 0 <=> ~t[i].head) /\ (y >= 0 => t[i].pid = y)
  <2>1. i + 1 \in OfVC(ch, v) /\ 1 < i + 1 /\ t[i] = ch[i + 1]
    BY <1>1
  <2>2. ASSUME NEW k \in OfVC(ch, v) PROVE k <= 1 \/ i + 1 <= k
    <3>1. k \in Int /\ i \in Int
      BY <1>1, Zenon
    <3>2. k = 1 \/ k - 1 \in OfVC(t, v)
      BY <1>1, Zenon
    <3>3. CASE k - 1 \in OfVC(t, v)
      <4>1. i <= k - 1
        BY <1>5, <3>3, Zenon
      <4> QED BY <3>1, <4>1
    <3> QED BY <3>1, <3>2, <3>3
  <2>3. Follows(ch[1], ch[i + 1])
    BY <1>1, <2>1, <2>2, Zenon DEF Unmixed
  <2>4. (t[i].head <=> f.tail) /\ (~f.tail => t[i].pid = f.pid)
    BY <1>1, <2>1, <2>3, Zenon DEF Follows
  <2> QED BY <1>3, <2>4, Zenon
<1>6. Awaited(t, v, y, o)
  BY <1>4, <1>5, Zenon DEF Awaited
<1> QED BY <1>6, Zenon DEF t, y

(* A flit of another VC arrives. *)
LEMMA AwaitPass ==
  ASSUME NEW X, NEW ch \in Seq(X), ch # <<>>, NEW v, NEW x, NEW o,
         NEW f, f = Head(ch), f.vc # v, Awaited(ch, v, x, o)
  PROVE  Awaited(Tail(ch), v, x, o)
<1> DEFINE t == Tail(ch)
<1>0. Behind(ch, t, v)
  BY BehindFirst, Zenon
<1> HIDE DEF t
<1>1. /\ f = ch[1] /\ 1 \notin OfVC(ch, v)
      /\ \A i \in OfVC(t, v) : i \in Int /\ 1 <= i /\ i + 1 \in OfVC(ch, v) /\ t[i] = ch[i + 1]
      /\ \A k \in OfVC(ch, v) : k \in Int /\ 1 <= k /\ (k = 1 \/ k - 1 \in OfVC(t, v))
  BY <1>0, Zenon DEF Behind
<1>2. OfVC(t, v) = {} => OfVC(ch, v) = {}
  BY <1>1, Zenon
<1>3. ASSUME NEW i \in OfVC(t, v), \A k \in OfVC(t, v) : i <= k
      PROVE  (x >= 0 <=> ~t[i].head) /\ (x >= 0 => t[i].pid = x)
  <2>1. i + 1 \in OfVC(ch, v) /\ t[i] = ch[i + 1]
    BY <1>1, Zenon
  <2>2. ASSUME NEW k \in OfVC(ch, v) PROVE i + 1 <= k
    <3>1. k \in Int /\ i \in Int /\ k - 1 \in OfVC(t, v)
      BY <1>1, Zenon
    <3>2. i <= k - 1
      BY <1>3, <3>1, Zenon
    <3> QED BY <3>1, <3>2
  <2>3. (x >= 0 <=> ~ch[i + 1].head) /\ (x >= 0 => ch[i + 1].pid = x)
    BY <2>1, <2>2, Zenon DEF Awaited
  <2> QED BY <2>1, <2>3, Zenon
<1>4. Awaited(t, v, x, o)
  BY <1>2, <1>3, Zenon DEF Awaited
<1> QED BY <1>4, Zenon DEF t

-----------------------------------------------------------------------------
(* The invariant of the loop when packet numbers fit. *)
Arrivals(ch, x, o) == \A v \in VCs : Awaited(ch, v, x[v], o[v])
HolderInv ==
  /\ CreditInv /\ HeldFor(bs, open)
  /\ Streams(buffer, channel, open) /\ Arrivals(channel, expected, open)

(* A packet that has begun is a packet. *)
LEMMA BegunIsPacket == \A o : o.begun => o # NoPacket
BY DEF NoPacket

(* A VC is taken: no flit of the packet has been sent. *)
LEMMA TakeStreams ==
  ASSUME NEW bf, NEW ch, NEW x, NEW o, DOMAIN o = VCs, NEW v \in VCs, NEW e,
         o[v] = NoPacket, ~e.begun,
         Streams(bf, ch, o), Arrivals(ch, x, o)
  PROVE  Streams(bf, ch, [o EXCEPT ![v] = e]) /\ Arrivals(ch, x, [o EXCEPT ![v] = e])
<1> DEFINE p == [o EXCEPT ![v] = e]
<1>1. \A u \in VCs : u # v => p[u] = o[u]
  BY Zenon
<1>2. p[v] = e /\ ~o[v].begun
  BY DEF NoPacket
<1> HIDE DEF p
<1>3. ASSUME NEW u \in VCs PROVE Unmixed(bf[u] \o ch, u) /\ Ends(bf[u] \o ch, u, p[u])
  <2>1. Unmixed(bf[u] \o ch, u) /\ Ends(bf[u] \o ch, u, o[u])
    BY Zenon DEF Streams
  <2>2. CASE u = v
    <3>1. ~p[u].begun /\ ~o[u].begun
      BY <1>2, <2>2, Zenon
    <3> QED BY <2>1, <3>1, ZenonT(30) DEF Ends
  <2>3. CASE u # v
    BY <1>1, <2>1, <2>3, Zenon
  <2> QED BY <2>2, <2>3, Zenon
<1>4. ASSUME NEW u \in VCs PROVE Awaited(ch, u, x[u], p[u])
  <2>1. Awaited(ch, u, x[u], o[u])
    BY Zenon DEF Arrivals
  <2>2. CASE u = v
    <3>1. ~p[u].begun /\ ~o[u].begun
      BY <1>2, <2>2, Zenon
    <3> QED BY <2>1, <3>1, Zenon DEF Awaited
  <2>3. CASE u # v
    BY <1>1, <2>1, <2>3, Zenon
  <2> QED BY <2>2, <2>3, Zenon
<1>5. Streams(bf, ch, p) /\ Arrivals(ch, x, p)
  BY <1>3, <1>4, Zenon DEF Streams, Arrivals
<1> QED BY <1>5, Zenon DEF p

(* A flit is sent. *)
LEMMA SendArrivals ==
  ASSUME NEW ch \in Seq(FlitSet), NEW x, NEW o, DOMAIN o = VCs, Arrivals(ch, x, o),
         NEW f \in FlitSet, NEW q,
         f.head <=> ~o[f.vc].begun, o[f.vc].begun => f.pid = o[f.vc].pid
  PROVE  Arrivals(Append(ch, f), x, [o EXCEPT ![f.vc] = q])
<1> DEFINE p == [o EXCEPT ![f.vc] = q]
<1>1. f.vc \in VCs
  BY FlitTyped, Zenon
<1> SUFFICES ASSUME NEW v \in VCs PROVE Awaited(Append(ch, f), v, x[v], p[v])
  BY Zenon DEF Arrivals
<1>2. Awaited(ch, v, x[v], o[v])
  BY Zenon DEF Arrivals
<1>3. CASE f.vc = v
  <2>1. (f.head <=> ~o[v].begun) /\ (o[v].begun => f.pid = o[v].pid)
    BY <1>3, Zenon
  <2> HIDE DEF p
  <2> QED BY <1>2, <1>3, <2>1, AwaitSend, ZenonT(30)
<1>4. CASE f.vc # v
  <2>1. p[v] = o[v]
    BY <1>1, <1>4, Zenon
  <2>2. Awaited(Append(ch, f), v, x[v], o[v])
    BY <1>2, <1>4, AwaitOther, Zenon
  <2> HIDE DEF p
  <2> QED BY <2>1, <2>2, Zenon
<1> QED BY <1>3, <1>4, Zenon

(* SendOn keeps what is known of the holders. *)
LEMMA SendOnHolds ==
  ASSUME NEW b, NEW o \in [VCs -> Packets], Keeping(b, o), HeldFor(b, o),
         NEW bf \in [VCs -> Seq(FlitSet)], NEW ch \in Seq(FlitSet), NEW x,
         Streams(bf, ch, o), Arrivals(ch, x, o),
         NEW f \in FlitSet, o[f.vc] # NoPacket, f.pid = o[f.vc].pid, f.head <=> ~o[f.vc].begun,
         NEW e, e = IF f.tail THEN NoPacket ELSE [pid |-> f.pid, begun |-> TRUE],
         NEW n, n = SendingFlit(b, f.vc, f.tail)
  PROVE  /\ HeldFor(n, [o EXCEPT ![f.vc] = e])
         /\ Streams(bf, Append(ch, f), [o EXCEPT ![f.vc] = e])
         /\ Arrivals(Append(ch, f), x, [o EXCEPT ![f.vc] = e])
<1>1. f.vc \in VCs /\ f.tail \in BOOLEAN /\ f.pid \in Pids /\ f.pid # -1 /\ DOMAIN o = VCs
  BY FlitTyped, LoopAssumption DEF Pids
<1>2. (f.tail <=> e = NoPacket) /\ (f.tail <=> ~e.begun) /\ (e.begun => f.pid = e.pid)
  BY <1>1, Zenon DEF NoPacket
<1>3. HeldFor(n, [o EXCEPT ![f.vc] = e])
  <2> DEFINE v == f.vc
             t == f.tail
  <2>1. /\ v \in VCs /\ t \in BOOLEAN /\ o[v] # NoPacket /\ (t <=> e = NoPacket)
        /\ n = SendingFlit(b, v, t)
    BY <1>1, <1>2, Zenon
  <2> HIDE DEF v, t
  <2>2. HeldFor(n, [o EXCEPT ![v] = e])
    BY <1>1, <2>1, SendHolds, ZenonT(30)
  <2> QED BY <2>2, Zenon DEF v
<1>4. o[f.vc].begun => f.pid = o[f.vc].pid
  BY Zenon
<1>5. Streams(bf, Append(ch, f), [o EXCEPT ![f.vc] = e])
  BY <1>1, <1>2, <1>4, SendStreams, ZenonT(30)
<1>6. Arrivals(Append(ch, f), x, [o EXCEPT ![f.vc] = e])
  BY <1>1, <1>4, SendArrivals, ZenonT(30)
<1> QED BY <1>3, <1>5, <1>6, Zenon

(* The steps. *)
LEMMA TakeHolder ==
  ASSUME PidsFit, HolderInv, NEW pid \in Pids, NEW v \in VCs, Take(pid, v)
  PROVE  HolderInv'
<1> DEFINE e == [pid |-> pid, begun |-> FALSE]
<1>1. /\ bs' = TakeBuffer(bs, v, pid) /\ open' = [open EXCEPT ![v] = e]
      /\ UNCHANGED <<channel, buffer, expected, credits>> /\ IsAvailableFor(bs, v)
  BY Zenon DEF Take
<1>2. pid \in 0 .. IntHalf - 1 /\ e # NoPacket /\ ~e.begun
  BY LoopAssumption, BufferAssumption DEF Pids, NoPacket, PidsFit
<1> HIDE DEF e
<1>3. CreditInv'
  BY TakeStep, Zenon DEF HolderInv
<1>4. Keeping(bs, open) /\ DOMAIN open = VCs
  BY Zenon DEF HolderInv, CreditInv, Typed
<1>5. HeldFor(bs', open') /\ open[v] = NoPacket
  BY <1>1, <1>2, <1>4, TakeHolds, ZenonT(30) DEF HolderInv
<1>6. Streams(buffer, channel, open') /\ Arrivals(channel, expected, open')
  BY <1>1, <1>2, <1>4, <1>5, TakeStreams, ZenonT(30) DEF HolderInv
<1> QED BY <1>1, <1>3, <1>5, <1>6, Zenon DEF HolderInv

(* A flit of a packet that holds its VC. *)
LEMMA SendHolder ==
  ASSUME HolderInv, NEW v \in VCs, NEW tail \in BOOLEAN, Send(v, tail)
  PROVE  HolderInv'
<1> DEFINE f == Flit(open[v].pid, ~open[v].begun, tail, v)
           e == IF f.tail THEN NoPacket ELSE [pid |-> f.pid, begun |-> TRUE]
           n == SendingFlit(bs, f.vc, f.tail)
<1>1. /\ open \in [VCs -> Packets] /\ Keeping(bs, open) /\ HeldFor(bs, open)
      /\ buffer \in [VCs -> Seq(FlitSet)] /\ channel \in Seq(FlitSet)
      /\ Streams(buffer, channel, open) /\ Arrivals(channel, expected, open)
  BY Zenon DEF HolderInv, CreditInv, Typed
<1>2. /\ f \in FlitSet /\ f.vc = v /\ f.pid = open[v].pid /\ (f.head <=> ~open[v].begun)
      /\ open[v] # NoPacket
  <2>1. open[v] \in [pid : Pids, begun : BOOLEAN] /\ open[v] # NoPacket
    BY <1>1, Zenon DEF Send, Packets
  <2> QED BY <2>1, ZenonT(30) DEF Flit, FlitSet
<1>3. /\ bs' = n /\ channel' = Append(channel, f) /\ open' = [open EXCEPT ![f.vc] = e]
      /\ UNCHANGED <<buffer, expected, credits>>
  BY Zenon DEF Send, SendOn
<1>4. CreditInv'
  BY SendStep, Zenon DEF HolderInv
<1> HIDE DEF f
<1>5. /\ HeldFor(n, [open EXCEPT ![f.vc] = e])
      /\ Streams(buffer, Append(channel, f), [open EXCEPT ![f.vc] = e])
      /\ Arrivals(Append(channel, f), expected, [open EXCEPT ![f.vc] = e])
  <2>1. open[f.vc] # NoPacket /\ f.pid = open[f.vc].pid /\ (f.head <=> ~open[f.vc].begun)
    BY <1>2, Zenon
  <2>2. /\ e = IF f.tail THEN NoPacket ELSE [pid |-> f.pid, begun |-> TRUE]
        /\ n = SendingFlit(bs, f.vc, f.tail)
    BY Zenon
  <2> HIDE DEF e, n
  <2> QED BY <1>1, <1>2, <2>1, <2>2, SendOnHolds, ZenonT(30)
<1> HIDE DEF e, n
<1> QED BY <1>3, <1>4, <1>5, Zenon DEF HolderInv

(* The traffic manager takes a VC and sends the head. *)
LEMMA TakeAndSendHolder ==
  ASSUME PidsFit, HolderInv, NEW pid \in Pids, NEW v \in VCs, NEW tail \in BOOLEAN,
         TakeAndSend(pid, v, tail)
  PROVE  HolderInv'
<1> DEFINE b == TakeBuffer(bs, v, pid)
           d == [pid |-> pid, begun |-> FALSE]
           o == [open EXCEPT ![v] = d]
           f == Flit(pid, TRUE, tail, v)
           e == IF f.tail THEN NoPacket ELSE [pid |-> f.pid, begun |-> TRUE]
           n == SendingFlit(b, f.vc, f.tail)
<1>1. /\ open \in [VCs -> Packets] /\ Keeping(bs, open) /\ HeldFor(bs, open)
      /\ buffer \in [VCs -> Seq(FlitSet)] /\ channel \in Seq(FlitSet)
      /\ Streams(buffer, channel, open) /\ Arrivals(channel, expected, open)
      /\ DOMAIN open = VCs
  BY Zenon DEF HolderInv, CreditInv, Typed
<1>2. /\ pid \in 0 .. IntHalf - 1 /\ pid \in Int /\ d # NoPacket /\ ~d.begun /\ d.pid = pid
      /\ d \in Packets
  BY LoopAssumption, BufferAssumption DEF Pids, NoPacket, PidsFit, Packets
<1>3. f \in FlitSet /\ f.vc = v /\ f.pid = pid /\ f.head
  BY Zenon DEF Flit, FlitSet
<1>4. /\ bs' = n /\ channel' = Append(channel, f) /\ open' = [open EXCEPT ![f.vc] = e]
      /\ UNCHANGED <<buffer, expected, credits>> /\ IsAvailableFor(bs, v)
  BY Zenon DEF TakeAndSend, SendOn
<1>5. CreditInv'
  BY TakeAndSendStep, Zenon DEF HolderInv
<1> HIDE DEF f, d
<1>6. Keeping(b, o)
  BY <1>1, <1>2, TakeKeeps, ZenonT(30)
<1>7. HeldFor(b, o) /\ open[v] = NoPacket
  BY <1>1, <1>2, <1>4, TakeHolds, ZenonT(30)
<1>8. Streams(buffer, channel, o) /\ Arrivals(channel, expected, o)
  BY <1>1, <1>2, <1>7, TakeStreams, ZenonT(30)
<1>9. o \in [VCs -> Packets] /\ o[f.vc] = d /\ open' = [o EXCEPT ![f.vc] = e]
  BY <1>1, <1>2, <1>3, <1>4, Zenon
<1> HIDE DEF b, o
<1>10. /\ HeldFor(n, [o EXCEPT ![f.vc] = e])
       /\ Streams(buffer, Append(channel, f), [o EXCEPT ![f.vc] = e])
       /\ Arrivals(Append(channel, f), expected, [o EXCEPT ![f.vc] = e])
  <2>1. o[f.vc] # NoPacket /\ f.pid = o[f.vc].pid /\ (f.head <=> ~o[f.vc].begun)
    BY <1>2, <1>3, <1>9, Zenon
  <2>2. /\ e = IF f.tail THEN NoPacket ELSE [pid |-> f.pid, begun |-> TRUE]
        /\ n = SendingFlit(b, f.vc, f.tail)
    BY Zenon
  <2> HIDE DEF e, n
  <2> QED BY <1>1, <1>3, <1>6, <1>7, <1>8, <1>9, <2>1, <2>2, SendOnHolds, ZenonT(30)
<1> HIDE DEF e, n
<1> QED BY <1>4, <1>5, <1>9, <1>10, ZenonT(30) DEF HolderInv

(* A flit arrives. *)
LEMMA ArriveHolder ==
  ASSUME PidsFit, HolderInv, Arrive
  PROVE  HolderInv'
<1> DEFINE f == Head(channel)
<1>1. /\ channel \in Seq(FlitSet) /\ channel # <<>> /\ buffer \in [VCs -> Seq(FlitSet)]
      /\ expected \in [VCs -> Int]
      /\ Streams(buffer, channel, open) /\ Arrivals(channel, expected, open)
  BY Zenon DEF HolderInv, CreditInv, Typed, Arrive
<1>2. /\ channel' = Tail(channel) /\ buffer' = [buffer EXCEPT ![f.vc] = Append(@, f)]
      /\ expected' = [expected EXCEPT ![f.vc] = NextExpected(@, f)]
      /\ UNCHANGED <<bs, open, credits>>
  BY Zenon DEF Arrive
<1>3. f \in FlitSet
  BY <1>1, SeqHeadTail, Zenon
<1>4. f.vc \in VCs /\ f.tail \in BOOLEAN /\ f.pid \in Pids
  BY <1>3, FlitTyped, Zenon
<1>5. f.pid \in Nat /\ ToInt(f.pid) = f.pid
  <2>1. f.pid \in 0 .. IntHalf - 1
    BY <1>4, LoopAssumption, BufferAssumption DEF Pids, PidsFit
  <2> QED BY <2>1, ToIntSame, BufferAssumption
<1>6. f = Head(channel)
  BY Zenon
<1> HIDE DEF f
<1>7. CreditInv'
  BY ArriveStep, Zenon DEF HolderInv
<1>8. Streams(buffer', channel', open)
  BY <1>1, <1>2, <1>6, ArriveStreams, ZenonT(30)
<1>9. ASSUME NEW v \in VCs PROVE Awaited(channel', v, expected'[v], open[v])
  <2>1. Awaited(channel, v, expected[v], open[v])
    BY <1>1, Zenon DEF Arrivals
  <2>2. CASE f.vc = v
    <3>1. expected'[v] = NextExpected(expected[v], f)
      BY <1>1, <1>2, <2>2, Zenon
    <3>2. Unmixed(channel, v) /\ Ends(channel, v, open[v])
      <4>1. Unmixed(buffer[v] \o channel, v) /\ Ends(buffer[v] \o channel, v, open[v])
        BY <1>1, Zenon DEF Streams
      <4>2. buffer[v] \in Seq(FlitSet)
        BY <1>1, Zenon
      <4> QED BY <1>1, <4>1, <4>2, SecondPart, Zenon
    <3>3. expected[v] \in Int
      BY <1>1, Zenon
    <3>4. Awaited(Tail(channel), v, NextExpected(expected[v], f), open[v])
      BY <1>1, <1>4, <1>5, <1>6, <2>1, <2>2, <3>2, <3>3, AwaitArrive, ZenonT(30)
    <3> QED BY <1>2, <3>1, <3>4, Zenon
  <2>3. CASE f.vc # v
    <3>1. expected'[v] = expected[v]
      BY <1>1, <1>2, <2>3, Zenon
    <3>2. Awaited(Tail(channel), v, expected[v], open[v])
      BY <1>1, <1>6, <2>1, <2>3, AwaitPass, Zenon
    <3> QED BY <1>2, <3>1, <3>2, Zenon
  <2> QED BY <2>2, <2>3, Zenon
<1>10. Arrivals(channel', expected', open)
  BY <1>9, Zenon DEF Arrivals
<1> QED BY <1>2, <1>7, <1>8, <1>10, Zenon DEF HolderInv

(* A flit leaves the router. *)
LEMMA DrainHolder ==
  ASSUME HolderInv, NEW u \in VCs, Drain(u)
  PROVE  HolderInv'
<1>1. /\ channel \in Seq(FlitSet) /\ buffer \in [VCs -> Seq(FlitSet)]
      /\ Streams(buffer, channel, open) /\ Arrivals(channel, expected, open) /\ HeldFor(bs, open)
  BY Zenon DEF HolderInv, CreditInv, Typed
<1>2. /\ buffer[u] # <<>> /\ buffer' = [buffer EXCEPT ![u] = Tail(@)]
      /\ UNCHANGED <<bs, open, channel, expected>>
  BY Zenon DEF Drain
<1>3. CreditInv'
  BY DrainStep, Zenon DEF HolderInv
<1>4. Streams(buffer', channel, open)
  BY <1>1, <1>2, DrainStreams, ZenonT(30)
<1> QED BY <1>1, <1>2, <1>3, <1>4, Zenon DEF HolderInv

(* The sender reads a credit. *)
LEMMA ReadCreditHolder ==
  ASSUME HolderInv, ReadCredit
  PROVE  HolderInv'
<1> DEFINE u == Head(credits)
<1>1. /\ Keeping(bs, open) /\ HeldFor(bs, open) /\ credits \in Seq(VCs) /\ credits # <<>>
      /\ Streams(buffer, channel, open) /\ Arrivals(channel, expected, open)
  BY Zenon DEF HolderInv, CreditInv, Typed, ReadCredit
<1>2. bs' = ProcessCredit(bs, u) /\ UNCHANGED <<open, channel, buffer, expected>>
  BY Zenon DEF ReadCredit
<1>3. u \in VCs
  BY <1>1, SeqHeadTail, Zenon
<1>4. bs.vc_occupancy[u] > 0
  BY HeadCounted, Zenon DEF HolderInv, ReadCredit
<1> HIDE DEF u
<1>5. CreditInv'
  BY ReadCreditStep, Zenon DEF HolderInv
<1>6. \A x \in VCs : open[x].begun => open[x] # NoPacket
  BY BegunIsPacket, Zenon
<1>7. HeldFor(bs', open)
  BY <1>1, <1>2, <1>3, <1>4, <1>6, CreditHolds, Zenon
<1> QED BY <1>1, <1>2, <1>5, <1>7, Zenon DEF HolderInv

(* Every step keeps the invariant. *)
LEMMA StepKeepsHolders ==
  ASSUME PidsFit, HolderInv, [LoopNext]_loopVars
  PROVE  HolderInv'
<1>1. CASE LoopNext
  BY <1>1, TakeHolder, SendHolder, TakeAndSendHolder, ArriveHolder, DrainHolder,
     ReadCreditHolder, Zenon DEF LoopNext
<1>2. CASE UNCHANGED loopVars
  BY <1>2, Zenon DEF loopVars, HolderInv, CreditInv, Typed
<1> QED BY <1>1, <1>2, Zenon

(* It holds at the start. *)
LEMMA InitKeepsHolders ==
  ASSUME LoopInit
  PROVE  HolderInv
<1>1. PICK p \in SomePolicies, w \in SomeWaits : bs = NewBufferState(p, w)
  BY DEF LoopInit
<1>2. CreditInv
  BY InitKeepsCredits, Zenon
<1>3. /\ bs.vc_occupancy = [v \in VCs |-> 0] /\ bs.policy = p /\ bs.active_vcs = 0
      /\ bs.max_held_slots = IF p = "limited" THEN MaxHeldSlots ELSE BufSize
  BY <1>1, Zenon DEF NewBufferState
<1>4. /\ open = [v \in VCs |-> NoPacket] /\ channel = <<>> /\ buffer = [v \in VCs |-> <<>>]
      /\ expected = [v \in VCs |-> -1]
  BY Zenon DEF LoopInit
<1>5. HeldFor(bs, open)
  <2>1. \A v \in VCs : VCHeld(bs, open, v)
    BY <1>3, <1>4 DEF VCHeld, NoPacket
  <2>2. Busy(open) = {}
    BY <1>4, Zenon DEF Busy
  <2>3. Cardinality(Busy(open)) = 0
    BY <2>2, FS_EmptySet, Zenon
  <2>4. bs.max_held_slots \in Nat \ {0}
    BY <1>3, BufferAssumption, PolicyAssumption
  <2> QED BY <1>3, <2>1, <2>3, <2>4, Zenon DEF HeldFor
<1>6. \A v \in VCs : OfVC(channel, v) = {} /\ buffer[v] \o channel = <<>>
  BY <1>4 DEF OfVC
<1>7. Streams(buffer, channel, open)
  <2> SUFFICES ASSUME NEW v \in VCs
               PROVE  Unmixed(buffer[v] \o channel, v) /\ Ends(buffer[v] \o channel, v, open[v])
    BY Zenon DEF Streams
  <2>1. OfVC(buffer[v] \o channel, v) = {}
    BY <1>4, <1>6, Zenon
  <2> QED BY <2>1, Zenon DEF Unmixed, Ends
<1>8. Arrivals(channel, expected, open)
  BY <1>4, <1>6 DEF Arrivals, Awaited, NoPacket
<1> QED BY <1>2, <1>5, <1>7, <1>8, Zenon DEF HolderInv

(***************************************************************************)
(* While packet numbers fit into an int, a credit never returns for a VC   *)
(* that looks free: with wait_for_tail_credit a VC stays in use until its  *)
(* last slot is back (buffer_state.cpp TakeBuffer, SendingFlit and         *)
(* ProcessCredit).                                                         *)
(***************************************************************************)
THEOREM NoCreditForIdleVC == PidsFit => (LoopSpec => []NoIdleCredit)
<1> SUFFICES ASSUME PidsFit PROVE LoopSpec => []NoIdleCredit
  BY Zenon
<1>0. HolderInv /\ [LoopNext]_loopVars => HolderInv'
  BY StepKeepsHolders, Zenon
<1>1. HolderInv => NoIdleCredit
  <2> SUFFICES ASSUME HolderInv, bs.wait_for_tail_credit, NEW v \in VCs, ~IsEmptyFor(bs, v)
               PROVE  ~IsAvailableFor(bs, v)
    BY Zenon DEF NoIdleCredit
  <2>1. bs.vc_occupancy[v] \in Nat /\ bs.in_use_by[v] \in Int /\ VCHeld(bs, open, v)
    BY Zenon DEF HolderInv, CreditInv, Keeping, Counting, Raw, HeldFor
  <2>2. bs.vc_occupancy[v] > 0
    BY <2>1 DEF IsEmptyFor
  <2>3. bs.in_use_by[v] >= 0
    BY <2>1, <2>2 DEF VCHeld
  <2> QED BY <2>1, <2>3 DEF IsAvailableFor
<1> QED BY <1>0, <1>1, InitKeepsHolders, PTL DEF LoopSpec

(***************************************************************************)
(* The flits of a VC reach the router packet by packet, the head first and *)
(* the tail last, whatever the sender does with the other VCs and however  *)
(* long channel and buffer are.                                            *)
(***************************************************************************)
THEOREM PacketsStayWhole == PidsFit => (LoopSpec => []NoInterleaving)
<1> SUFFICES ASSUME PidsFit PROVE LoopSpec => []NoInterleaving
  BY Zenon
<1>0. HolderInv /\ [LoopNext]_loopVars => HolderInv'
  BY StepKeepsHolders, Zenon
<1>1. HolderInv => NoInterleaving
  BY Zenon DEF HolderInv, Streams, NoInterleaving
<1> QED BY <1>0, <1>1, InitKeepsHolders, PTL DEF LoopSpec

(***************************************************************************)
(* VC::AddFlit never finds a flit of another packet than the one whose     *)
(* tail it waits for.                                                      *)
(***************************************************************************)
THEOREM FlitIsExpected == PidsFit => (LoopSpec => []ExpectedArrives)
<1> SUFFICES ASSUME PidsFit PROVE LoopSpec => []ExpectedArrives
  BY Zenon
<1>0. HolderInv /\ [LoopNext]_loopVars => HolderInv'
  BY StepKeepsHolders, Zenon
<1>1. HolderInv => ExpectedArrives
  <2> SUFFICES ASSUME HolderInv, channel # <<>>, expected[Head(channel).vc] >= 0
               PROVE  Head(channel).pid = expected[Head(channel).vc]
    BY Zenon DEF ExpectedArrives
  <2> DEFINE f == Head(channel)
  <2>1. channel \in Seq(FlitSet) /\ f \in FlitSet /\ f = channel[1] /\ 1 \in DOMAIN channel
    BY SeqHeadTail, SeqLen, SeqEmpty DEF HolderInv, CreditInv, Typed
  <2>2. f.vc \in VCs
    BY <2>1, FlitTyped, Zenon
  <2>3. Awaited(channel, f.vc, expected[f.vc], open[f.vc])
    BY <2>2, Zenon DEF HolderInv, Arrivals
  <2>4. 1 \in OfVC(channel, f.vc) /\ \A k \in OfVC(channel, f.vc) : 1 <= k
    BY <2>1, SeqLen DEF OfVC
  <2> HIDE DEF f
  <2>5. expected[f.vc] >= 0 => channel[1].pid = expected[f.vc]
    BY <2>3, <2>4, Zenon DEF Awaited
  <2> QED BY <2>1, <2>5, Zenon DEF f
<1> QED BY <1>0, <1>1, InitKeepsHolders, PTL DEF LoopSpec

(***************************************************************************)
(* The limited policies count exactly the packets that hold a VC: the      *)
(* counter neither exceeds the number of VCs nor falls below zero.         *)
(***************************************************************************)
THEOREM ActiveCountExact == PidsFit => (LoopSpec => []ActiveVCsCounted)
<1> SUFFICES ASSUME PidsFit PROVE LoopSpec => []ActiveVCsCounted
  BY Zenon
<1>0. HolderInv /\ [LoopNext]_loopVars => HolderInv'
  BY StepKeepsHolders, Zenon
<1>1. HolderInv => ActiveVCsCounted
  BY Zenon DEF HolderInv, HeldFor, Busy, ActiveVCsCounted
<1> QED BY <1>0, <1>1, InitKeepsHolders, PTL DEF LoopSpec

(***************************************************************************)
(* The assertion _max_held_slots > 0 of the dynamic and shifting policies  *)
(* (buffer_state.cpp).  Shifting needs a buffer with enough slots for the  *)
(* number of VCs, which the code does not ask for.                         *)
(***************************************************************************)
THEOREM LimitStaysPositive == PidsFit /\ ShiftingFits => (LoopSpec => []HeldSlotsPositive)
<1> SUFFICES ASSUME PidsFit, ShiftingFits PROVE LoopSpec => []HeldSlotsPositive
  BY Zenon
<1>0. HolderInv /\ [LoopNext]_loopVars => HolderInv'
  BY StepKeepsHolders, Zenon
<1>1. HolderInv => HeldSlotsPositive
  BY DEF HolderInv, HeldFor, HeldSlotsPositive
<1> QED BY <1>0, <1>1, InitKeepsHolders, PTL DEF LoopSpec

(***************************************************************************)
(* A packet that has begun and whose VC has drained is never refused by    *)
(* IsFullFor, under any policy: packets that hold VCs cannot wait for one  *)
(* another's slots (_reserved_slots in SharedBufferPolicy::FreeSlotFor).   *)
(***************************************************************************)
THEOREM HolderGoesOn == PidsFit /\ ShiftingFits => (LoopSpec => []HolderHasRoom)
<1> SUFFICES ASSUME PidsFit, ShiftingFits PROVE LoopSpec => []HolderHasRoom
  BY Zenon
<1>0. HolderInv /\ [LoopNext]_loopVars => HolderInv'
  BY StepKeepsHolders, Zenon
<1>1. HolderInv => HolderHasRoom
  <2> SUFFICES ASSUME HolderInv, NEW v \in VCs,
                      open[v].begun, IsEmptyFor(bs, v), IsFullFor(bs, v)
               PROVE  FALSE
    BY Zenon DEF HolderHasRoom
  <2>1. VCHeld(bs, open, v) /\ (Limited(bs) => bs.max_held_slots \in Nat \ {0})
    BY Zenon DEF HolderInv, HeldFor
  <2>2. bs.vc_occupancy[v] = 0
    BY Zenon DEF IsEmptyFor
  <2>3. CASE ~Shared(bs)
    <3>1. VcBufSize \in Nat \ {0}
      BY PartsFit, Zenon
    <3>2. ~Limited(bs)
      BY <2>3, Zenon DEF Shared, Limited
    <3>3. 0 >= VcBufSize
      BY <2>2, <2>3, <3>2, Zenon DEF IsFullFor, PrivateIsFullFor
    <3> QED BY <3>1, <3>3
  <2>4. CASE Shared(bs)
    <3>1. bs.reserved_slots[v] > 0
      BY <2>1, <2>2, <2>4, Zenon DEF VCHeld
    <3>2. ~SharedIsFullFor(bs, v)
      BY <3>1 DEF SharedIsFullFor
    <3>3. Limited(bs) /\ 0 >= bs.max_held_slots
      BY <2>2, <2>4, <3>2 DEF IsFullFor, LimitedIsFullFor
    <3> QED BY <2>1, <3>3
  <2> QED BY <2>3, <2>4, Zenon
<1> QED BY <1>0, <1>1, InitKeepsHolders, PTL DEF LoopSpec

(***************************************************************************)
(* IsFullFor and AvailableFor, two computations of the same policy, never  *)
(* disagree on whether a VC has room.                                      *)
(***************************************************************************)
THEOREM RoomQuestionsAgree == PidsFit /\ ShiftingFits => (LoopSpec => []FullIffNoneAvailable)
<1> SUFFICES ASSUME PidsFit, ShiftingFits PROVE LoopSpec => []FullIffNoneAvailable
  BY Zenon
<1>0. HolderInv /\ [LoopNext]_loopVars => HolderInv'
  BY StepKeepsHolders, Zenon
<1>1. HolderInv => FullIffNoneAvailable
  <2> SUFFICES ASSUME HolderInv, NEW v \in VCs
               PROVE  IsFullFor(bs, v) <=> AvailableFor(bs, v) <= 0
    BY Zenon DEF FullIffNoneAvailable
  <2> DEFINE i == PrivateOf[v]
             p == bs.private_buf_occupancy[i]
             ps == PrivateSize[i]
             r == bs.reserved_slots[v]
             s == bs.shared_buf_occupancy
             c == bs.vc_occupancy[v]
             m == bs.max_held_slots
  <2>1. i \in PrivateBufs
    BY Zenon DEF PrivateBufs
  <2>2. bs \in Raw /\ Counting(bs) /\ s <= SharedSize
    BY Zenon DEF HolderInv, CreditInv, Keeping
  <2>3. p \in Nat /\ ps \in Nat /\ r \in Nat /\ c \in Nat /\ s \in Int /\ SharedSize \in Nat
    BY <2>1, <2>2, PolicyAssumption, SharedSizeNat, Zenon DEF Counting, Raw
  <2>4. VcBufSize \in Nat
    BY PartsFit, Zenon
  <2>5. Limited(bs) => m \in Nat
    BY Zenon DEF HolderInv, HeldFor
  <2>6. SharedIsFullFor(bs, v) <=> (r = 0 /\ p >= ps /\ s >= SharedSize)
    BY Zenon DEF SharedIsFullFor
  <2>7. SharedAvailableFor(bs, v) = r + Positive(ps - p) + (SharedSize - s)
    BY Zenon DEF SharedAvailableFor
  <2> DEFINE a == SharedAvailableFor(bs, v)
             full == SharedIsFullFor(bs, v)
  <2>8. a \in Int /\ (full <=> a <= 0)
    <3> HIDE DEF a, full, p, ps, r, s
    <3>1. (full <=> (r = 0 /\ p >= ps /\ s >= SharedSize)) /\ a = r + Positive(ps - p) + (SharedSize - s)
      BY <2>6, <2>7, Zenon DEF a, full, p, ps, r, s
    <3> QED BY <2>2, <2>3, <3>1 DEF Positive
  <2>9. CASE ~Shared(bs)
    <3>1. ~Limited(bs)
      BY <2>9, Zenon DEF Shared, Limited
    <3> QED BY <2>3, <2>4, <2>9, <3>1
            DEF IsFullFor, AvailableFor, PrivateIsFullFor, PrivateAvailableFor
  <2>10. CASE Shared(bs) /\ ~Limited(bs)
    BY <2>8, <2>10, Zenon DEF IsFullFor, AvailableFor
  <2>11. CASE Limited(bs)
    <3>1. Shared(bs)
      BY <2>11, Zenon DEF Shared, Limited
    <3>2. IsFullFor(bs, v) <=> (full \/ c >= m)
      BY <2>11, <3>1, Zenon DEF IsFullFor, LimitedIsFullFor
    <3>3. AvailableFor(bs, v) = Least(a, m - c)
      BY <2>11, <3>1, Zenon DEF AvailableFor, LimitedAvailableFor
    <3> HIDE DEF a, c, m, full
    <3> QED BY <2>3, <2>5, <2>8, <2>11, <3>2, <3>3 DEF Least
  <2> QED BY <2>9, <2>10, <2>11, Zenon
<1> QED BY <1>0, <1>1, InitKeepsHolders, PTL DEF LoopSpec

=============================================================================
