-------------------------- MODULE CreditLoopProofs --------------------------
(***************************************************************************)
(* Proofs about CreditLoop, for any number of virtual channels, any size   *)
(* and division of the buffer and every buffer policy.                     *)
(***************************************************************************)
EXTENDS CreditLoop, FiniteSetTheorems, TLAPS

(* More time than by default for the provers. *)
USE SMTT(30), ZenonT(30)

-----------------------------------------------------------------------------
(* Sequences, as the provers know them. *)

(* Length and domain of a sequence. *)
LEMMA SeqLen ==
  ASSUME NEW S, NEW q \in Seq(S)
  PROVE  Len(q) \in Nat /\ DOMAIN q = 1 .. Len(q) /\ q \in [1 .. Len(q) -> S]
OBVIOUS

(* An element of a sequence. *)
LEMMA SeqAt ==
  ASSUME NEW S, NEW q \in Seq(S), NEW i \in 1 .. Len(q)
  PROVE  q[i] \in S
OBVIOUS

(* The empty sequence. *)
LEMMA SeqEmpty ==
  ASSUME NEW S
  PROVE  /\ <<>> \in Seq(S) /\ Len(<<>>) = 0
         /\ \A q \in Seq(S) : q # <<>> => Len(q) \in Nat \ {0}
OBVIOUS

(* One element more. *)
LEMMA SeqAppend ==
  ASSUME NEW S, NEW q \in Seq(S), NEW e \in S
  PROVE  /\ Append(q, e) \in Seq(S) /\ Append(q, e) # <<>>
         /\ Len(Append(q, e)) = Len(q) + 1
         /\ \A i \in 1 .. Len(q) : Append(q, e)[i] = q[i]
         /\ Append(q, e)[Len(q) + 1] = e
OBVIOUS

(* One element less. *)
LEMMA SeqHeadTail ==
  ASSUME NEW S, NEW q \in Seq(S), q # <<>>
  PROVE  /\ Head(q) \in S /\ Tail(q) \in Seq(S)
         /\ Len(Tail(q)) = Len(q) - 1
         /\ \A i \in 1 .. Len(Tail(q)) : Tail(q)[i] = q[i + 1]
OBVIOUS

(* Two sequences one after the other. *)
LEMMA SeqConcat ==
  ASSUME NEW S, NEW q \in Seq(S), NEW r \in Seq(S)
  PROVE  /\ q \o r \in Seq(S) /\ Len(q \o r) = Len(q) + Len(r)
         /\ \A i \in 1 .. Len(q) + Len(r) :
              (q \o r)[i] = IF i <= Len(q) THEN q[i] ELSE r[i - Len(q)]
OBVIOUS

(* Sequences with the same elements are the same. *)
LEMMA SeqSame ==
  ASSUME NEW S, NEW q \in Seq(S), NEW r \in Seq(S), Len(q) = Len(r),
         \A i \in 1 .. Len(q) : q[i] = r[i]
  PROVE  q = r
OBVIOUS

(* One element replaced. *)
LEMMA SeqExcept ==
  ASSUME NEW S, NEW q \in Seq(S), NEW i \in 1 .. Len(q), NEW e \in S
  PROVE  /\ [q EXCEPT ![i] = e] \in Seq(S)
         /\ Len([q EXCEPT ![i] = e]) = Len(q)
         /\ \A j \in 1 .. Len(q) : [q EXCEPT ![i] = e][j] = IF j = i THEN e ELSE q[j]
OBVIOUS

(* Appending is putting a sequence of one element behind. *)
LEMMA SeqAppendIs ==
  ASSUME NEW S, NEW q \in Seq(S), NEW e \in S
  PROVE  Append(q, e) = q \o <<e>>
OBVIOUS

-----------------------------------------------------------------------------
(* Sums. *)
Natural(f, S) == \A x \in S : f[x] \in Nat

(* The slots are finitely many. *)
LEMMA SlotsFinite ==
  ASSUME NEW S, IsFiniteSet(S), NEW f, Natural(f, S)
  PROVE  IsFiniteSet(SlotsOf(f, S)) /\ Total(f, S) \in Nat
<1> DEFINE g == [x \in S |-> {x} \X (1 .. f[x])]
           T == {{x} \X (1 .. f[x]) : x \in S}
<1>1. g \in Surjection(S, T)
  BY Zenon DEF Surjection
<1>2. IsFiniteSet(T)
  BY <1>1, FS_Surjection, Zenon
<1>3. ASSUME NEW x \in S PROVE IsFiniteSet({x} \X (1 .. f[x]))
  <2>1. f[x] \in Int /\ 1 \in Int
    BY DEF Natural
  <2>2. IsFiniteSet(1 .. f[x])
    BY <2>1, FS_Interval, Zenon
  <2>3. IsFiniteSet({x})
    BY FS_Singleton, ZenonT(30)
  <2> QED BY <2>2, <2>3, FS_Product, ZenonT(30)
<1>4. IsFiniteSet(UNION T)
  BY <1>2, <1>3, FS_UNION, ZenonT(30)
<1> QED BY <1>4, FS_CardinalityType, Zenon DEF SlotsOf, Total

(* What the slots are. *)
LEMMA SlotsAre ==
  ASSUME NEW S, NEW f
  PROVE  \A y : y \in SlotsOf(f, S) <=> \E x \in S : \E k \in 1 .. f[x] : y = <<x, k>>
BY DEF SlotsOf

(* Sums agree if their terms do, and are ordered if their terms are. *)
LEMMA TotalLeq ==
  ASSUME NEW S, IsFiniteSet(S), NEW f, NEW g, Natural(f, S), Natural(g, S),
         \A x \in S : f[x] <= g[x]
  PROVE  Total(f, S) <= Total(g, S)
<1>1. SlotsOf(f, S) \in SUBSET SlotsOf(g, S)
  <2> SUFFICES ASSUME NEW x \in S, NEW k \in 1 .. f[x] PROVE k \in 1 .. g[x]
    BY SlotsAre
  <2> QED BY DEF Natural
<1>2. IsFiniteSet(SlotsOf(g, S))
  BY SlotsFinite, Zenon
<1> QED BY <1>1, <1>2, FS_Subset, Zenon DEF Total

(* Equal terms, equal sums. *)
LEMMA TotalSame ==
  ASSUME NEW S, NEW f, NEW g, \A x \in S : f[x] = g[x]
  PROVE  Total(f, S) = Total(g, S)
<1>1. SlotsOf(f, S) = SlotsOf(g, S)
  BY Zenon DEF SlotsOf
<1> QED BY <1>1, Zenon DEF Total

(* One term grows by one. *)
LEMMA TotalMore ==
  ASSUME NEW S, IsFiniteSet(S), NEW f, NEW g, Natural(f, S),
         NEW y \in S, g[y] = f[y] + 1, \A x \in S \ {y} : g[x] = f[x]
  PROVE  Total(g, S) = Total(f, S) + 1
<1> DEFINE e == <<y, f[y] + 1>>
<1>1. f[y] \in Nat
  BY Zenon DEF Natural
<1>2. e \notin SlotsOf(f, S)
  BY <1>1, SlotsAre
<1>3. SlotsOf(g, S) = SlotsOf(f, S) \cup {e}
  <2>1. ASSUME NEW z \in SlotsOf(g, S) PROVE z \in SlotsOf(f, S) \cup {e}
    <3>1. PICK x \in S : \E k \in 1 .. g[x] : z = <<x, k>>
      BY <2>1, SlotsAre
    <3>2. PICK k \in 1 .. g[x] : z = <<x, k>>
      BY <3>1, Zenon
    <3>3. (x = y /\ k = f[y] + 1) \/ k \in 1 .. f[x]
      BY <1>1, <3>2
    <3> QED BY <3>2, <3>3, SlotsAre, Zenon
  <2>2. ASSUME NEW z \in SlotsOf(f, S) PROVE z \in SlotsOf(g, S)
    <3>1. PICK x \in S : \E k \in 1 .. f[x] : z = <<x, k>>
      BY <2>2, SlotsAre
    <3>2. PICK k \in 1 .. f[x] : z = <<x, k>>
      BY <3>1, Zenon
    <3>3. k \in 1 .. g[x]
      BY <1>1, <3>2
    <3> QED BY <3>2, <3>3, SlotsAre, Zenon
  <2>3. e \in SlotsOf(g, S)
    <3>1. f[y] + 1 \in 1 .. g[y]
      BY <1>1
    <3> QED BY <3>1, SlotsAre, Zenon
  <2> QED BY <2>1, <2>2, <2>3, Zenon
<1>4. IsFiniteSet(SlotsOf(f, S))
  BY SlotsFinite, Zenon
<1> HIDE DEF e
<1> QED BY <1>2, <1>3, <1>4, FS_AddElement, ZenonT(30) DEF Total

(* One term changes by at most one. *)
LEMMA TotalBy ==
  ASSUME NEW S, IsFiniteSet(S), NEW f, NEW g, Natural(f, S), Natural(g, S),
         NEW k \in {-1, 0, 1}, NEW y \in S, g[y] = f[y] + k, \A x \in S \ {y} : g[x] = f[x]
  PROVE  Total(g, S) = Total(f, S) + k
<1>0. Total(f, S) \in Nat /\ Total(g, S) \in Nat /\ f[y] \in Nat /\ g[y] \in Nat
  BY SlotsFinite, Zenon DEF Natural
<1>1. CASE k = 1
  BY <1>1, TotalMore, Zenon
<1>2. CASE k = 0
  <2>1. \A x \in S : f[x] = g[x]
    BY <1>0, <1>2
  <2>2. Total(f, S) = Total(g, S)
    BY <2>1, TotalSame, Zenon
  <2> QED BY <1>0, <1>2, <2>2
<1>3. CASE k = -1
  <2>1. f[y] = g[y] + 1 /\ \A x \in S \ {y} : f[x] = g[x]
    BY <1>0, <1>3
  <2>2. Total(f, S) = Total(g, S) + 1
    BY <2>1, TotalMore, ZenonT(30)
  <2> QED BY <1>0, <1>3, <2>2
<1> QED BY <1>1, <1>2, <1>3, Zenon

(* A sum is at least each of its terms, if that is one, and zero if all are. *)
LEMMA TotalPositive ==
  ASSUME NEW S, IsFiniteSet(S), NEW f, Natural(f, S)
  PROVE  /\ \A y \in S : f[y] > 0 => Total(f, S) > 0
         /\ (\A y \in S : f[y] = 0) => Total(f, S) = 0
<1>1. IsFiniteSet(SlotsOf(f, S)) /\ Total(f, S) \in Nat
  BY SlotsFinite, Zenon
<1>2. ASSUME NEW y \in S, f[y] > 0 PROVE Total(f, S) > 0
  <2>1. 1 \in 1 .. f[y]
    BY <1>2 DEF Natural
  <2>2. <<y, 1>> \in SlotsOf(f, S)
    BY <2>1, SlotsAre, Zenon
  <2>3. Total(f, S) # 0
    BY <1>1, <2>2, FS_EmptySet, Zenon DEF Total
  <2> QED BY <1>1, <2>3
<1>3. ASSUME \A y \in S : f[y] = 0 PROVE Total(f, S) = 0
  <2>1. \A y \in S : 1 .. f[y] = {}
    BY <1>3
  <2>2. SlotsOf(f, S) = {}
    BY <2>1, SlotsAre, Zenon
  <2> QED BY <2>2, FS_EmptySet, Zenon DEF Total
<1> QED BY <1>2, <1>3, Zenon

-----------------------------------------------------------------------------
(* Counting in a sequence. *)
Hits(q, E) == {i \in DOMAIN q : q[i] \in E}

(* The positions of a sequence are finitely many. *)
LEMMA HitsFinite ==
  ASSUME NEW X, NEW q \in Seq(X), NEW E
  PROVE  IsFiniteSet(Hits(q, E)) /\ Cardinality(Hits(q, E)) \in Nat
<1>1. DOMAIN q = 1 .. Len(q) /\ Len(q) \in Nat
  BY SeqLen, Zenon
<1>2. IsFiniteSet(1 .. Len(q)) /\ Hits(q, E) \in SUBSET (1 .. Len(q))
  BY <1>1, FS_Interval DEF Hits
<1> QED BY <1>2, FS_Subset, FS_CardinalityType, Zenon

(* Append adds at most one. *)
LEMMA CountAppend ==
  ASSUME NEW X, NEW q \in Seq(X), NEW e \in X, NEW E
  PROVE  Cardinality(Hits(Append(q, e), E)) =
           Cardinality(Hits(q, E)) + (IF e \in E THEN 1 ELSE 0)
<1> DEFINE n == Len(q) + 1
<1>1. /\ DOMAIN q = 1 .. Len(q) /\ Len(q) \in Nat
      /\ DOMAIN Append(q, e) = 1 .. n /\ Append(q, e)[n] = e
      /\ \A i \in 1 .. Len(q) : Append(q, e)[i] = q[i]
  BY SeqAppend, SeqLen
<1>2. IsFiniteSet(Hits(q, E)) /\ Cardinality(Hits(q, E)) \in Nat
  BY HitsFinite, Zenon
<1>3. n \notin Hits(q, E)
  BY <1>1 DEF Hits
<1>4. CASE e \in E
  <2>1. Hits(Append(q, e), E) = Hits(q, E) \cup {n}
    BY <1>1, <1>4 DEF Hits
  <2> QED BY <1>2, <1>3, <1>4, <2>1, FS_AddElement, ZenonT(30)
<1>5. CASE e \notin E
  <2>1. Hits(Append(q, e), E) = Hits(q, E)
    BY <1>1, <1>5 DEF Hits
  <2> QED BY <1>2, <1>5, <2>1
<1> QED BY <1>4, <1>5, Zenon

(* Tail removes at most one. *)
LEMMA CountTail ==
  ASSUME NEW X, NEW q \in Seq(X), q # <<>>, NEW E
  PROVE  Cardinality(Hits(q, E)) =
           Cardinality(Hits(Tail(q), E)) + (IF Head(q) \in E THEN 1 ELSE 0)
<1> DEFINE H == Hits(q, E) \ {1}
           f == [i \in Hits(Tail(q), E) |-> i + 1]
<1>1. /\ DOMAIN q = 1 .. Len(q) /\ Len(q) \in Nat \ {0} /\ Tail(q) \in Seq(X)
      /\ DOMAIN Tail(q) = 1 .. Len(q) - 1 /\ Head(q) = q[1]
      /\ \A i \in 1 .. Len(q) - 1 : Tail(q)[i] = q[i + 1]
  BY SeqHeadTail, SeqLen
<1>2. f \in Bijection(Hits(Tail(q), E), H)
  <2>1. f \in [Hits(Tail(q), E) -> H]
    BY <1>1 DEF Hits
  <2>2. ASSUME NEW i \in H PROVE \E j \in Hits(Tail(q), E) : f[j] = i
    <3>1. i - 1 \in Hits(Tail(q), E) /\ (i - 1) + 1 = i
      BY <1>1 DEF Hits
    <3> QED BY <3>1, Zenon
  <2>3. \A i, j \in Hits(Tail(q), E) : f[i] = f[j] => i = j
    BY <1>1 DEF Hits
  <2> QED BY <2>1, <2>2, <2>3, Zenon DEF Bijection, Injection, Surjection, IsInjective
<1>3. IsFiniteSet(Hits(Tail(q), E)) /\ Cardinality(Hits(Tail(q), E)) \in Nat
  BY <1>1, HitsFinite, ZenonT(30)
<1>4. Cardinality(H) = Cardinality(Hits(Tail(q), E)) /\ IsFiniteSet(H)
  BY <1>2, <1>3, FS_Bijection, Zenon DEF ExistsBijection
<1>5. 1 \in Hits(q, E) <=> Head(q) \in E
  BY <1>1 DEF Hits
<1>6. CASE Head(q) \in E
  <2>1. Hits(q, E) = H \cup {1} /\ 1 \notin H
    BY <1>5, <1>6, Zenon
  <2> HIDE DEF H
  <2> QED BY <1>3, <1>4, <1>6, <2>1, FS_AddElement, ZenonT(30)
<1>7. CASE Head(q) \notin E
  <2>1. Hits(q, E) = H
    BY <1>5, <1>7, Zenon
  <2> HIDE DEF H
  <2> QED BY <1>3, <1>4, <1>7, <2>1
<1> QED BY <1>6, <1>7, Zenon


-----------------------------------------------------------------------------
(* What the operations of BufferState change.  The limit on held slots may   *)
(* be any value that a policy computes.                                      *)
Held == Nat \cup {HeldLimit(p, n) : p \in Policies, n \in Int}
Raw ==
  [policy : Policies, wait_for_tail_credit : BOOLEAN,
   occupancy : Int, vc_occupancy : [VCs -> Int],
   in_use_by : [VCs -> Int], tail_sent : [VCs -> BOOLEAN],
   private_buf_occupancy : [PrivateBufs -> Int],
   shared_buf_occupancy : Int, reserved_slots : [VCs -> Int],
   active_vcs : Int, max_held_slots : Held]

SameKind(b, n) ==
  n.policy = b.policy /\ n.wait_for_tail_credit = b.wait_for_tail_credit
SameUse(b, n) == n.in_use_by = b.in_use_by /\ n.tail_sent = b.tail_sent
SameCounts(b, n) == n.occupancy = b.occupancy /\ n.vc_occupancy = b.vc_occupancy
SameSlots(b, n) ==
  /\ n.private_buf_occupancy = b.private_buf_occupancy
  /\ n.shared_buf_occupancy = b.shared_buf_occupancy
  /\ n.reserved_slots = b.reserved_slots
SameHeld(b, n) == n.active_vcs = b.active_vcs /\ n.max_held_slots = b.max_held_slots

(* A slot of the buffer is filled, or a reserved one is. *)
Fills(b, n, v) ==
  /\ n.reserved_slots = b.reserved_slots
  /\ n.private_buf_occupancy = [b.private_buf_occupancy EXCEPT ![PrivateOf[v]] = @ + 1]
  /\ n.shared_buf_occupancy = b.shared_buf_occupancy +
       (IF b.private_buf_occupancy[PrivateOf[v]] >= PrivateSize[PrivateOf[v]] THEN 1 ELSE 0)
Claims(b, n, v) ==
  /\ n.reserved_slots = [b.reserved_slots EXCEPT ![v] = @ - 1]
  /\ n.private_buf_occupancy = b.private_buf_occupancy
  /\ n.shared_buf_occupancy = b.shared_buf_occupancy

(* The number of packets being sent becomes k. *)
Active(b, n, k) ==
  /\ n.active_vcs = k
  /\ n.max_held_slots = IF k > 0 THEN HeldLimit(b.policy, k) ELSE b.max_held_slots

(* Every VC has a private buffer. *)
LEMMA HasPrivate ==
  ASSUME NEW v \in VCs
  PROVE  /\ PrivateOf[v] \in PrivateBufs /\ PrivateSize[PrivateOf[v]] \in Nat
BY PolicyAssumption, Zenon DEF PrivateBufs

(* New counts of slots. *)
LEMMA RawSlots ==
  ASSUME NEW b \in Raw, NEW p \in [PrivateBufs -> Int], NEW s \in Int,
         NEW n, n = [b EXCEPT !.private_buf_occupancy = p, !.shared_buf_occupancy = s]
  PROVE  n \in Raw
BY ZenonT(30) DEF Raw

(* New counts of flits, and new users. *)
Recounted(b, n, o, c) == n = [b EXCEPT !.occupancy = o, !.vc_occupancy = c]
Reused(b, n, t, u) == n = [b EXCEPT !.tail_sent = t, !.in_use_by = u]

(* With new counts of flits the record keeps its shape. *)
LEMMA RawCounts ==
  ASSUME NEW b \in Raw, NEW o \in Int, NEW c \in [VCs -> Int],
         NEW n, Recounted(b, n, o, c)
  PROVE  /\ n \in Raw /\ SameKind(b, n) /\ SameUse(b, n) /\ SameSlots(b, n) /\ SameHeld(b, n)
         /\ n.occupancy = o /\ n.vc_occupancy = c
<1>1. n \in Raw
  BY ZenonT(30) DEF Raw, Recounted
<1> QED BY <1>1, Zenon DEF Raw, SameKind, SameUse, SameSlots, SameHeld, Recounted

(* The same for the users. *)
LEMMA RawUse ==
  ASSUME NEW b \in Raw, NEW u \in [VCs -> Int], NEW t \in [VCs -> BOOLEAN],
         NEW n, Reused(b, n, t, u)
  PROVE  /\ n \in Raw /\ SameKind(b, n) /\ SameCounts(b, n) /\ SameSlots(b, n) /\ SameHeld(b, n)
         /\ n.tail_sent = t /\ n.in_use_by = u
<1>1. n \in Raw
  BY ZenonT(30) DEF Raw, Reused
<1> QED BY <1>1, Zenon DEF Raw, SameKind, SameCounts, SameSlots, SameHeld, Reused

(* UseSlot. *)
LEMMA UseSlotEffect ==
  ASSUME NEW b \in Raw, NEW v \in VCs, NEW n, n = UseSlot(b, v)
  PROVE  /\ n \in Raw /\ SameKind(b, n) /\ SameUse(b, n) /\ SameCounts(b, n) /\ SameHeld(b, n)
         /\ b.reserved_slots[v] > 0 => Claims(b, n, v)
         /\ ~(b.reserved_slots[v] > 0) => Fills(b, n, v)
<1> DEFINE i == PrivateOf[v]
<1>1. i \in PrivateBufs /\ PrivateSize[i] \in Nat
  BY HasPrivate, Zenon
<1>2. CASE b.reserved_slots[v] > 0
  <2>1. n = [b EXCEPT !.reserved_slots[v] = @ - 1]
    BY <1>2, Zenon DEF UseSlot
  <2> QED BY <1>2, <2>1 DEF Raw, SameKind, SameUse, SameCounts, SameHeld, Claims
<1>3. CASE ~(b.reserved_slots[v] > 0)
  <2>1. n = [b EXCEPT !.private_buf_occupancy[i] = @ + 1,
                      !.shared_buf_occupancy =
                        IF b.private_buf_occupancy[i] >= PrivateSize[i] THEN @ + 1 ELSE @]
    BY <1>3, Zenon DEF UseSlot
  <2>2. b.private_buf_occupancy[i] \in Int /\ b.shared_buf_occupancy \in Int
    BY <1>1, Zenon DEF Raw
  <2>3. /\ n.private_buf_occupancy = [b.private_buf_occupancy EXCEPT ![i] = @ + 1]
        /\ n.shared_buf_occupancy = IF b.private_buf_occupancy[i] >= PrivateSize[i]
                                    THEN b.shared_buf_occupancy + 1 ELSE b.shared_buf_occupancy
        /\ n.reserved_slots = b.reserved_slots
        /\ SameKind(b, n) /\ SameUse(b, n) /\ SameCounts(b, n) /\ SameHeld(b, n)
    BY <2>1, Zenon DEF Raw, SameKind, SameUse, SameCounts, SameHeld
  <2>4. n \in Raw
    <3> DEFINE p == [b.private_buf_occupancy EXCEPT ![i] = @ + 1]
               s == IF b.private_buf_occupancy[i] >= PrivateSize[i]
                    THEN b.shared_buf_occupancy + 1 ELSE b.shared_buf_occupancy
    <3>1. p \in [PrivateBufs -> Int] /\ s \in Int
      BY <1>1, <2>2 DEF Raw
    <3>2. n = [b EXCEPT !.private_buf_occupancy = p, !.shared_buf_occupancy = s]
      BY <2>1, Zenon DEF Raw
    <3> HIDE DEF p, s
    <3> QED BY <3>1, <3>2, RawSlots, ZenonT(30)
  <2>5. Fills(b, n, v)
    BY <2>2, <2>3 DEF Fills
  <2> QED BY <1>3, <2>3, <2>4, <2>5, Zenon
<1> QED BY <1>2, <1>3, Zenon

(* ProcessFreeSlot, once or not at all. *)
LEMMA FreeSlotsEffect ==
  ASSUME NEW b \in Raw, NEW v \in VCs, NEW k \in {0, 1}, NEW n, n = FreeSlots(b, v, k)
  PROVE  /\ n \in Raw /\ SameKind(b, n) /\ SameUse(b, n) /\ SameCounts(b, n) /\ SameHeld(b, n)
         /\ k = 0 => SameSlots(b, n)
         /\ k = 1 => Fills(n, b, v)
<1> DEFINE i == PrivateOf[v]
           p == b.private_buf_occupancy
           beyond == Positive(p[i] - PrivateSize[i])
<1>1. i \in PrivateBufs /\ PrivateSize[i] \in Nat
  BY HasPrivate, Zenon
<1>2. n = [b EXCEPT !.private_buf_occupancy[i] = @ - k,
                    !.shared_buf_occupancy = @ - Least(k, beyond)]
  BY Zenon DEF FreeSlots
<1>3. p \in [PrivateBufs -> Int] /\ p[i] \in Int /\ b.shared_buf_occupancy \in Int
  BY <1>1, Zenon DEF Raw
<1>4. /\ k = 0 => Least(k, beyond) = 0
      /\ k = 1 => Least(k, beyond) = IF p[i] - 1 >= PrivateSize[i] THEN 1 ELSE 0
  BY <1>1, <1>3 DEF Least, Positive
<1>5. Least(k, beyond) \in Int
  BY <1>4
<1> HIDE DEF beyond
<1>6. /\ n.private_buf_occupancy = [p EXCEPT ![i] = @ - k]
      /\ n.shared_buf_occupancy = b.shared_buf_occupancy - Least(k, beyond)
      /\ n.reserved_slots = b.reserved_slots
      /\ SameKind(b, n) /\ SameUse(b, n) /\ SameCounts(b, n) /\ SameHeld(b, n)
  BY <1>2, Zenon DEF Raw, SameKind, SameUse, SameCounts, SameHeld
<1>7. n \in Raw
  <2> DEFINE q == [p EXCEPT ![i] = @ - k]
             s == b.shared_buf_occupancy - Least(k, beyond)
  <2>1. q \in [PrivateBufs -> Int] /\ s \in Int
    BY <1>1, <1>3, <1>5
  <2>2. n = [b EXCEPT !.private_buf_occupancy = q, !.shared_buf_occupancy = s]
    BY <1>2, Zenon DEF Raw
  <2> HIDE DEF q, s
  <2> QED BY <2>1, <2>2, RawSlots, ZenonT(30)
<1>8. CASE k = 0
  <2>1. n.private_buf_occupancy = p /\ n.shared_buf_occupancy = b.shared_buf_occupancy
    BY <1>3, <1>4, <1>6, <1>8
  <2> QED BY <1>6, <1>7, <1>8, <2>1 DEF SameSlots
<1>9. CASE k = 1
  <2>1. /\ p = [n.private_buf_occupancy EXCEPT ![i] = @ + 1]
        /\ n.private_buf_occupancy[i] = p[i] - 1
    BY <1>1, <1>3, <1>6, <1>9
  <2>2. b.shared_buf_occupancy = n.shared_buf_occupancy +
          (IF n.private_buf_occupancy[i] >= PrivateSize[i] THEN 1 ELSE 0)
    BY <1>3, <1>4, <1>6, <1>9, <2>1
  <2> QED BY <1>6, <1>7, <1>9, <2>1, <2>2 DEF Fills
<1> QED BY <1>8, <1>9, Zenon

(* ReleaseReserved, when nothing is reserved. *)
LEMMA ReleaseEffect ==
  ASSUME NEW b \in Raw, NEW v \in VCs, b.reserved_slots[v] = 0,
         NEW n, n = ReleaseReserved(b, v)
  PROVE  /\ n \in Raw /\ SameKind(b, n) /\ SameUse(b, n) /\ SameCounts(b, n) /\ SameHeld(b, n)
         /\ SameSlots(b, n)
<1> DEFINE f == FreeSlots(b, v, 0)
<1>1. /\ f \in Raw /\ SameKind(b, f) /\ SameUse(b, f) /\ SameCounts(b, f) /\ SameHeld(b, f)
      /\ SameSlots(b, f)
  BY FreeSlotsEffect, Zenon
<1>2. n = [f EXCEPT !.reserved_slots[v] = 0]
  BY Zenon DEF ReleaseReserved
<1> HIDE DEF f
<1>3. n = f
  <2>1. f.reserved_slots \in [VCs -> Int] /\ f.reserved_slots[v] = 0
    BY <1>1, Zenon DEF SameSlots, Raw
  <2>2. [f.reserved_slots EXCEPT ![v] = 0] = f.reserved_slots
    BY <2>1, Zenon
  <2> QED BY <1>1, <1>2, <2>2 DEF Raw
<1> QED BY <1>1, <1>3, Zenon

(* The count of active VCs changes, and with it the limit. *)
LEMMA SetActiveEffect ==
  ASSUME NEW b \in Raw, NEW k \in Int, NEW n, n = SetActive(b, k)
  PROVE  /\ n \in Raw /\ SameKind(b, n) /\ SameUse(b, n) /\ SameCounts(b, n) /\ SameSlots(b, n)
         /\ Active(b, n, k)
<1>1. HeldLimit(b.policy, k) \in Held /\ b.max_held_slots \in Held
  BY DEF Held, Raw
<1> QED BY <1>1, ZenonT(30) DEF SetActive, Raw, SameKind, SameUse, SameCounts, SameSlots, Active

(* _tail_sent after a tail. *)
Ended(b, n, v, tail) ==
  n.tail_sent = IF tail THEN [b.tail_sent EXCEPT ![v] = TRUE] ELSE b.tail_sent

(* SendingFlit: one flit more, in a reserved slot if there is one. *)
LEMMA SendEffect ==
  ASSUME NEW b \in Raw, NEW v \in VCs, NEW tail \in BOOLEAN, b.reserved_slots[v] \in {0, 1},
         NEW n, n = SendingFlit(b, v, tail)
  PROVE  /\ n \in Raw /\ SameKind(b, n)
         /\ n.occupancy = b.occupancy + 1
         /\ n.vc_occupancy = [b.vc_occupancy EXCEPT ![v] = @ + 1]
         /\ Ended(b, n, v, tail)
         /\ n.in_use_by = IF tail /\ ~b.wait_for_tail_credit
                          THEN [b.in_use_by EXCEPT ![v] = -1] ELSE b.in_use_by
         /\ ~Shared(b) => SameSlots(b, n)
         /\ Shared(b) /\ b.reserved_slots[v] > 0 => Claims(b, n, v)
         /\ Shared(b) /\ ~(b.reserved_slots[v] > 0) => Fills(b, n, v)
         /\ IF Limited(b) /\ tail THEN Active(b, n, b.active_vcs - 1) ELSE SameHeld(b, n)
<1> DEFINE c == [b EXCEPT !.occupancy = @ + 1, !.vc_occupancy[v] = @ + 1]
           u == UseSlot(c, v)
           r == ReleaseReserved(u, v)
           a == SetActive(r, r.active_vcs - 1)
           s == PolicySendingFlit(c, v, tail)
<1>1. /\ c \in Raw /\ SameKind(b, c) /\ SameUse(b, c) /\ SameSlots(b, c) /\ SameHeld(b, c)
      /\ c.occupancy = b.occupancy + 1
      /\ c.vc_occupancy = [b.vc_occupancy EXCEPT ![v] = @ + 1]
  <2> DEFINE o == b.occupancy + 1
             x == [b.vc_occupancy EXCEPT ![v] = @ + 1]
  <2>1. o \in Int /\ x \in [VCs -> Int]
    BY DEF Raw
  <2>2. Recounted(b, c, o, x)
    BY Zenon DEF Raw, Recounted
  <2> HIDE DEF o, x, c
  <2>3. /\ c \in Raw /\ SameKind(b, c) /\ SameUse(b, c) /\ SameSlots(b, c) /\ SameHeld(b, c)
        /\ c.occupancy = o /\ c.vc_occupancy = x
    BY <2>1, <2>2, RawCounts
  <2> QED BY <2>3, Zenon DEF o, x
<1>2. s = IF ~Shared(c) THEN c ELSE IF ~tail THEN u ELSE IF Limited(r) THEN a ELSE r
  BY Zenon DEF PolicySendingFlit
<1>3. n = IF ~tail THEN s
          ELSE [s EXCEPT !.tail_sent[v] = TRUE,
                         !.in_use_by[v] = IF b.wait_for_tail_credit THEN @ ELSE -1]
  BY Zenon DEF SendingFlit
<1> HIDE DEF c, s
<1>4. /\ u \in Raw /\ SameKind(c, u) /\ SameUse(c, u) /\ SameCounts(c, u) /\ SameHeld(c, u)
      /\ c.reserved_slots[v] > 0 => Claims(c, u, v)
      /\ ~(c.reserved_slots[v] > 0) => Fills(c, u, v)
  BY <1>1, UseSlotEffect, Zenon
<1> HIDE DEF u
<1>5. u.reserved_slots[v] = 0
  <2>1. c.reserved_slots = b.reserved_slots /\ c.reserved_slots \in [VCs -> Int]
    BY <1>1, Zenon DEF SameSlots, Raw
  <2> QED BY <1>4, <2>1 DEF Claims, Fills
<1>6. /\ r \in Raw /\ SameKind(u, r) /\ SameUse(u, r) /\ SameCounts(u, r) /\ SameHeld(u, r)
      /\ SameSlots(u, r)
  BY <1>4, <1>5, ReleaseEffect, Zenon
<1> HIDE DEF r
<1>7. r.active_vcs - 1 \in Int
  BY <1>6 DEF Raw
<1>8. /\ a \in Raw /\ SameKind(r, a) /\ SameUse(r, a) /\ SameCounts(r, a) /\ SameSlots(r, a)
      /\ Active(r, a, r.active_vcs - 1)
  BY <1>6, <1>7, SetActiveEffect, Zenon
<1> HIDE DEF a
<1>9. /\ s \in Raw /\ SameKind(c, s) /\ SameUse(c, s) /\ SameCounts(c, s)
      /\ ~Shared(c) => SameSlots(c, s)
      /\ Shared(c) /\ c.reserved_slots[v] > 0 => Claims(c, s, v)
      /\ Shared(c) /\ ~(c.reserved_slots[v] > 0) => Fills(c, s, v)
      /\ IF Limited(c) /\ tail THEN Active(c, s, c.active_vcs - 1) ELSE SameHeld(c, s)
  <2>1. CASE ~Shared(c)
    <3>1. s = c /\ ~Limited(c)
      BY <1>2, <2>1, Zenon DEF Shared, Limited
    <3> QED BY <1>1, <2>1, <3>1, Zenon DEF SameKind, SameUse, SameCounts, SameSlots, SameHeld
  <2>2. CASE Shared(c) /\ ~tail
    <3>1. s = u
      BY <1>2, <2>2, Zenon
    <3> QED BY <1>4, <2>2, <3>1, Zenon
  <2>3. CASE Shared(c) /\ tail
    <3>1. /\ r \in Raw /\ SameKind(c, r) /\ SameUse(c, r) /\ SameCounts(c, r)
          /\ SameHeld(c, r) /\ (Limited(r) <=> Limited(c))
      BY <1>4, <1>6, Zenon DEF SameKind, SameUse, SameCounts, SameHeld, Limited
    <3>2. /\ c.reserved_slots[v] > 0 => Claims(c, r, v)
          /\ ~(c.reserved_slots[v] > 0) => Fills(c, r, v)
      BY <1>4, <1>6, Zenon DEF SameSlots, Claims, Fills
    <3>3. CASE ~Limited(c)
      <4>1. s = r
        BY <1>2, <2>3, <3>1, <3>3, Zenon
      <4> QED BY <2>3, <3>1, <3>2, <3>3, <4>1, Zenon
    <3>4. CASE Limited(c)
      <4>1. s = a
        BY <1>2, <2>3, <3>1, <3>4, Zenon
      <4>2. SameKind(c, a) /\ SameUse(c, a) /\ SameCounts(c, a)
        BY <1>8, <3>1, Zenon DEF SameKind, SameUse, SameCounts
      <4>3. /\ c.reserved_slots[v] > 0 => Claims(c, a, v)
            /\ ~(c.reserved_slots[v] > 0) => Fills(c, a, v)
        BY <1>8, <3>2, Zenon DEF SameSlots, Claims, Fills
      <4>4. Active(c, a, c.active_vcs - 1)
        BY <1>8, <3>1, Zenon DEF Active, SameHeld, SameKind
      <4> QED BY <1>8, <2>3, <3>4, <4>1, <4>2, <4>3, <4>4, Zenon
    <3> QED BY <3>3, <3>4, Zenon
  <2> QED BY <2>1, <2>2, <2>3, Zenon
<1>10. /\ n \in Raw /\ SameKind(s, n) /\ SameCounts(s, n) /\ SameSlots(s, n) /\ SameHeld(s, n)
       /\ n.tail_sent = IF tail THEN [s.tail_sent EXCEPT ![v] = TRUE] ELSE s.tail_sent
       /\ n.in_use_by = IF tail /\ ~b.wait_for_tail_credit
                        THEN [s.in_use_by EXCEPT ![v] = -1] ELSE s.in_use_by
  <2>1. CASE ~tail
    <3>1. n = s
      BY <1>3, <2>1, Zenon
    <3> QED BY <1>9, <2>1, <3>1, Zenon DEF SameKind, SameCounts, SameSlots, SameHeld
  <2>2. CASE tail /\ b.wait_for_tail_credit
    <3>1. n = [s EXCEPT !.tail_sent[v] = TRUE, !.in_use_by[v] = @]
      BY <1>3, <2>2, Zenon
    <3> DEFINE x == s.in_use_by
               t == [s.tail_sent EXCEPT ![v] = TRUE]
    <3>2. x \in [VCs -> Int] /\ t \in [VCs -> BOOLEAN]
      BY <1>9, Zenon DEF Raw
    <3>3. Reused(s, n, t, x)
      BY <1>9, <3>1, ZenonT(30) DEF Raw, Reused
    <3> HIDE DEF x, t
    <3>4. /\ n \in Raw /\ SameKind(s, n) /\ SameCounts(s, n) /\ SameSlots(s, n) /\ SameHeld(s, n)
          /\ n.tail_sent = t /\ n.in_use_by = x
      BY <1>9, <3>2, <3>3, RawUse
    <3> QED BY <2>2, <3>4, ZenonT(30) DEF x, t
  <2>3. CASE tail /\ ~b.wait_for_tail_credit
    <3>1. n = [s EXCEPT !.tail_sent[v] = TRUE, !.in_use_by[v] = -1]
      BY <1>3, <2>3, Zenon
    <3> DEFINE x == [s.in_use_by EXCEPT ![v] = -1]
               t == [s.tail_sent EXCEPT ![v] = TRUE]
    <3>2. x \in [VCs -> Int] /\ t \in [VCs -> BOOLEAN]
      BY <1>9 DEF Raw
    <3>3. Reused(s, n, t, x)
      BY <1>9, <3>1, Zenon DEF Raw, Reused
    <3> HIDE DEF x, t
    <3>4. /\ n \in Raw /\ SameKind(s, n) /\ SameCounts(s, n) /\ SameSlots(s, n) /\ SameHeld(s, n)
          /\ n.tail_sent = t /\ n.in_use_by = x
      BY <1>9, <3>2, <3>3, RawUse
    <3> QED BY <2>3, <3>4, ZenonT(30) DEF x, t
  <2> QED BY <2>1, <2>2, <2>3, Zenon
<1>11. Shared(c) <=> Shared(b)
  BY <1>1, Zenon DEF SameKind, Shared
<1>12. Limited(c) <=> Limited(b)
  BY <1>1, Zenon DEF SameKind, Limited
<1>13. /\ n \in Raw /\ SameKind(b, n) /\ n.occupancy = b.occupancy + 1
       /\ n.vc_occupancy = [b.vc_occupancy EXCEPT ![v] = @ + 1]
  BY <1>1, <1>9, <1>10, Zenon DEF SameKind, SameCounts
<1>14. /\ Ended(b, n, v, tail)
       /\ n.in_use_by = IF tail /\ ~b.wait_for_tail_credit
                        THEN [b.in_use_by EXCEPT ![v] = -1] ELSE b.in_use_by
  BY <1>1, <1>9, <1>10, Zenon DEF SameUse, Ended
<1>15. /\ ~Shared(b) => SameSlots(b, n)
       /\ Shared(b) /\ b.reserved_slots[v] > 0 => Claims(b, n, v)
       /\ Shared(b) /\ ~(b.reserved_slots[v] > 0) => Fills(b, n, v)
  BY <1>1, <1>9, <1>10, <1>11, Zenon DEF SameSlots, Claims, Fills
<1>16. IF Limited(b) /\ tail THEN Active(b, n, b.active_vcs - 1) ELSE SameHeld(b, n)
  BY <1>1, <1>9, <1>10, <1>12, Zenon DEF SameHeld, Active, SameKind
<1> QED BY <1>13, <1>14, <1>15, <1>16, Zenon

(* ProcessCredit: one flit less; the slot is kept for a packet that holds    *)
(* the VC and has no other.                                                  *)
LEMMA CreditEffect ==
  ASSUME NEW b \in Raw, NEW v \in VCs, NEW n, n = ProcessCredit(b, v)
  PROVE  /\ n \in Raw /\ SameKind(b, n) /\ SameHeld(b, n) /\ n.tail_sent = b.tail_sent
         /\ n.occupancy = b.occupancy - 1
         /\ n.vc_occupancy = [b.vc_occupancy EXCEPT ![v] = @ - 1]
         /\ n.in_use_by = IF b.wait_for_tail_credit /\ b.vc_occupancy[v] = 1 /\ b.tail_sent[v]
                          THEN [b.in_use_by EXCEPT ![v] = -1] ELSE b.in_use_by
         /\ ~Shared(b) => SameSlots(b, n)
         /\ Shared(b) => IF n.in_use_by[v] >= 0 /\ n.vc_occupancy[v] = 0
                         THEN Claims(n, b, v) ELSE Fills(n, b, v)
<1> DEFINE c == [b EXCEPT !.occupancy = @ - 1, !.vc_occupancy[v] = @ - 1]
           d == IF c.wait_for_tail_credit /\ c.vc_occupancy[v] = 0 /\ c.tail_sent[v]
                THEN [c EXCEPT !.in_use_by[v] = -1] ELSE c
           f == FreeSlots(d, v, 1)
<1>1. n = FreeSlotFor(d, v)
  BY Zenon DEF ProcessCredit
<1>2. /\ c \in Raw /\ SameKind(b, c) /\ SameUse(b, c) /\ SameSlots(b, c) /\ SameHeld(b, c)
      /\ c.occupancy = b.occupancy - 1
      /\ c.vc_occupancy = [b.vc_occupancy EXCEPT ![v] = @ - 1]
  <2> DEFINE o == b.occupancy - 1
             x == [b.vc_occupancy EXCEPT ![v] = @ - 1]
  <2>1. o \in Int /\ x \in [VCs -> Int]
    BY DEF Raw
  <2>2. Recounted(b, c, o, x)
    BY Zenon DEF Raw, Recounted
  <2> HIDE DEF o, x, c
  <2>3. /\ c \in Raw /\ SameKind(b, c) /\ SameUse(b, c) /\ SameSlots(b, c) /\ SameHeld(b, c)
        /\ c.occupancy = o /\ c.vc_occupancy = x
    BY <2>1, <2>2, RawCounts
  <2> QED BY <2>3, Zenon DEF o, x
<1>3. c.vc_occupancy[v] = 0 <=> b.vc_occupancy[v] = 1
  <2>1. b.vc_occupancy \in [VCs -> Int]
    BY Zenon DEF Raw
  <2> QED BY <1>2, <2>1
<1> HIDE DEF c
<1>4. /\ d \in Raw /\ SameKind(c, d) /\ SameSlots(c, d) /\ SameHeld(c, d) /\ SameCounts(c, d)
      /\ d.tail_sent = c.tail_sent
      /\ d.in_use_by = IF c.wait_for_tail_credit /\ c.vc_occupancy[v] = 0 /\ c.tail_sent[v]
                       THEN [c.in_use_by EXCEPT ![v] = -1] ELSE c.in_use_by
  <2>1. CASE c.wait_for_tail_credit /\ c.vc_occupancy[v] = 0 /\ c.tail_sent[v]
    <3>1. d = [c EXCEPT !.in_use_by[v] = -1]
      BY <2>1, Zenon
    <3> HIDE DEF d
    <3> DEFINE x == [c.in_use_by EXCEPT ![v] = -1]
               t == c.tail_sent
    <3>2. x \in [VCs -> Int] /\ t \in [VCs -> BOOLEAN]
      BY <1>2 DEF Raw
    <3>3. Reused(c, d, t, x)
      BY <1>2, <3>1, ZenonT(30) DEF Raw, Reused
    <3> HIDE DEF x, t
    <3>4. /\ d \in Raw /\ SameKind(c, d) /\ SameCounts(c, d) /\ SameSlots(c, d) /\ SameHeld(c, d)
          /\ d.tail_sent = t /\ d.in_use_by = x
      BY <1>2, <3>2, <3>3, RawUse
    <3> QED BY <2>1, <3>4, Zenon DEF x, t
  <2>2. CASE ~(c.wait_for_tail_credit /\ c.vc_occupancy[v] = 0 /\ c.tail_sent[v])
    <3>1. d = c
      BY <2>2, Zenon
    <3> HIDE DEF d
    <3> QED BY <1>2, <2>2, <3>1, Zenon DEF SameKind, SameSlots, SameHeld, SameCounts
  <2> QED BY <2>1, <2>2, Zenon
<1> HIDE DEF d
<1>5. /\ f \in Raw /\ SameKind(d, f) /\ SameUse(d, f) /\ SameCounts(d, f) /\ SameHeld(d, f)
      /\ Fills(f, d, v)
  BY <1>4, FreeSlotsEffect, Zenon
<1>6. n = IF ~Shared(d) THEN d
          ELSE IF ~(d.in_use_by[v] < 0) /\ d.vc_occupancy[v] = 0
          THEN [d EXCEPT !.reserved_slots[v] = @ + 1] ELSE f
  BY <1>1, Zenon DEF FreeSlotFor, IsAvailableFor, IsEmptyFor
<1> HIDE DEF f
<1>7. d.in_use_by[v] \in Int
  BY <1>4, Zenon DEF Raw
<1>8. /\ n \in Raw /\ SameKind(d, n) /\ SameUse(d, n) /\ SameCounts(d, n) /\ SameHeld(d, n)
      /\ ~Shared(d) => SameSlots(d, n)
      /\ Shared(d) => IF d.in_use_by[v] >= 0 /\ d.vc_occupancy[v] = 0
                      THEN Claims(n, d, v) ELSE Fills(n, d, v)
  <2>1. CASE ~Shared(d)
    <3>1. n = d
      BY <1>6, <2>1, Zenon
    <3> QED BY <1>4, <2>1, <3>1, Zenon DEF SameKind, SameUse, SameCounts, SameHeld, SameSlots
  <2>2. CASE Shared(d) /\ d.in_use_by[v] >= 0 /\ d.vc_occupancy[v] = 0
    <3>1. n = [d EXCEPT !.reserved_slots[v] = @ + 1]
      BY <1>6, <1>7, <2>2
    <3>2. n \in Raw /\ n.reserved_slots = [d.reserved_slots EXCEPT ![v] = @ + 1]
      BY <1>4, <3>1 DEF Raw
    <3>3. /\ SameKind(d, n) /\ SameUse(d, n) /\ SameCounts(d, n) /\ SameHeld(d, n)
          /\ n.private_buf_occupancy = d.private_buf_occupancy
          /\ n.shared_buf_occupancy = d.shared_buf_occupancy
      BY <1>4, <3>1, Zenon DEF Raw, SameKind, SameUse, SameCounts, SameHeld
    <3>4. d.reserved_slots = [n.reserved_slots EXCEPT ![v] = @ - 1]
      <4>1. d.reserved_slots \in [VCs -> Int]
        BY <1>4, Zenon DEF Raw
      <4> QED BY <3>2, <4>1
    <3> QED BY <2>2, <3>2, <3>3, <3>4, Zenon DEF Claims
  <2>3. CASE Shared(d) /\ ~(d.in_use_by[v] >= 0 /\ d.vc_occupancy[v] = 0)
    <3>1. n = f
      BY <1>6, <1>7, <2>3
    <3> QED BY <1>5, <2>3, <3>1, Zenon
  <2> QED BY <2>1, <2>2, <2>3, Zenon
<1>9. Shared(d) <=> Shared(b)
  BY <1>2, <1>4, Zenon DEF SameKind, Shared
<1>10. /\ n \in Raw /\ SameKind(b, n) /\ SameHeld(b, n) /\ n.tail_sent = b.tail_sent
       /\ n.occupancy = b.occupancy - 1
       /\ n.vc_occupancy = [b.vc_occupancy EXCEPT ![v] = @ - 1]
  BY <1>2, <1>4, <1>8, Zenon DEF SameKind, SameHeld, SameUse, SameCounts
<1>11. n.in_use_by = IF b.wait_for_tail_credit /\ b.vc_occupancy[v] = 1 /\ b.tail_sent[v]
                     THEN [b.in_use_by EXCEPT ![v] = -1] ELSE b.in_use_by
  BY <1>2, <1>3, <1>4, <1>8, Zenon DEF SameKind, SameUse
<1>12. /\ ~Shared(b) => SameSlots(b, n)
       /\ Shared(b) => IF n.in_use_by[v] >= 0 /\ n.vc_occupancy[v] = 0
                       THEN Claims(n, b, v) ELSE Fills(n, b, v)
  <2>1. SameSlots(b, d)
    BY <1>2, <1>4, Zenon DEF SameSlots
  <2>2. d.in_use_by = n.in_use_by /\ d.vc_occupancy = n.vc_occupancy
    BY <1>8, Zenon DEF SameUse, SameCounts
  <2> QED BY <1>8, <1>9, <2>1, <2>2, Zenon DEF SameSlots, Claims, Fills
<1> QED BY <1>10, <1>11, <1>12, Zenon

NewTail(b, n, v) == ~n.tail_sent[v] /\ \A x \in VCs \ {v} : n.tail_sent[x] = b.tail_sent[x]

(* TakeBuffer: the VC is in use. *)
LEMMA TakeEffect ==
  ASSUME NEW b \in Raw, NEW v \in VCs, NEW tag \in Int, NEW n, n = TakeBuffer(b, v, tag)
  PROVE  /\ n \in Raw /\ SameKind(b, n) /\ SameCounts(b, n) /\ SameSlots(b, n)
         /\ n.in_use_by = [b.in_use_by EXCEPT ![v] = ToInt(tag)] /\ ToInt(tag) \in Int
         /\ NewTail(b, n, v)
         /\ IF Limited(b) THEN Active(b, n, b.active_vcs + 1) ELSE SameHeld(b, n)
<1> DEFINE t == [b EXCEPT !.in_use_by[v] = ToInt(tag), !.tail_sent[v] = FALSE]
           a == SetActive(t, t.active_vcs + 1)
<1>1. n = IF Limited(t) THEN a ELSE t
  BY Zenon DEF TakeBuffer
<1>2. ToInt(tag) \in Int
  BY BufferAssumption DEF ToInt
<1>3. /\ t \in Raw /\ SameKind(b, t) /\ SameCounts(b, t) /\ SameSlots(b, t) /\ SameHeld(b, t)
      /\ t.in_use_by = [b.in_use_by EXCEPT ![v] = ToInt(tag)]
      /\ ~t.tail_sent[v] /\ \A x \in VCs \ {v} : t.tail_sent[x] = b.tail_sent[x]
  BY <1>2, ZenonT(30) DEF Raw, SameKind, SameCounts, SameSlots, SameHeld
<1> HIDE DEF t
<1>4. (Limited(t) <=> Limited(b)) /\ t.active_vcs + 1 \in Int
  BY <1>3 DEF SameKind, Limited, Raw
<1>5. /\ a \in Raw /\ SameKind(t, a) /\ SameUse(t, a) /\ SameCounts(t, a) /\ SameSlots(t, a)
      /\ Active(t, a, t.active_vcs + 1)
  BY <1>3, <1>4, SetActiveEffect, Zenon
<1> HIDE DEF a
<1>6. CASE Limited(b)
  <2>1. n = a
    BY <1>1, <1>4, <1>6, Zenon
  <2>2. Active(b, a, b.active_vcs + 1)
    BY <1>3, <1>5, Zenon DEF Active, SameHeld, SameKind
  <2> QED BY <1>2, <1>3, <1>5, <1>6, <2>1, <2>2, Zenon
         DEF SameKind, SameUse, SameCounts, SameSlots, NewTail
<1>7. CASE ~Limited(b)
  BY <1>1, <1>2, <1>3, <1>4, <1>7, Zenon DEF NewTail
<1> QED BY <1>6, <1>7, Zenon

-----------------------------------------------------------------------------
(* The sums that the counters keep: SlotsAddUp, and two more that say how     *)
(* the counts of the private buffers relate to the others.                   *)
Kept(b) == [v \in VCs |-> b.vc_occupancy[v] + b.reserved_slots[v]]
MineOf(i) == {v \in VCs : PrivateOf[v] = i}
Above(b) == [i \in PrivateBufs |-> Positive(b.private_buf_occupancy[i] - PrivateSize[i])]
Below(b) == [i \in PrivateBufs |-> Positive(PrivateSize[i] - b.private_buf_occupancy[i])]

OccSum(b) == b.occupancy = Total(b.vc_occupancy, VCs)
PrivateSum(b) == \A i \in PrivateBufs : b.private_buf_occupancy[i] = Total(Kept(b), MineOf(i))
SharedSum(b) == b.shared_buf_occupancy = Total(Above(b), PrivateBufs)
AllSum(b) ==
  b.occupancy + Total(b.reserved_slots, VCs) = Total(b.private_buf_occupancy, PrivateBufs)
RoomSum(b) ==
  Total(b.private_buf_occupancy, PrivateBufs) + Total(Below(b), PrivateBufs) =
    Total(PrivateSize, PrivateBufs) + b.shared_buf_occupancy
Sums(b) ==
  /\ OccSum(b)
  /\ Shared(b) => PrivateSum(b) /\ SharedSum(b) /\ AllSum(b) /\ RoomSum(b)

Counting(b) ==
  /\ b.vc_occupancy \in [VCs -> Nat] /\ b.reserved_slots \in [VCs -> Nat]
  /\ b.private_buf_occupancy \in [PrivateBufs -> Nat]

(* The sets are finite. *)
LEMMA FiniteParts ==
  /\ IsFiniteSet(VCs) /\ Cardinality(VCs) = NumVCs /\ IsFiniteSet(PrivateBufs)
  /\ \A i : IsFiniteSet(MineOf(i))
<1>1. NumVCs \in Nat \ {0}
  BY BufferAssumption, Zenon
<1>2. IsFiniteSet(VCs) /\ Cardinality(VCs) = NumVCs
  BY <1>1, FS_Interval DEF VCs
<1>3. IsFiniteSet(PrivateBufs)
  <2> DEFINE g == [v \in VCs |-> PrivateOf[v]]
  <2>1. g \in Surjection(VCs, PrivateBufs)
    BY Zenon DEF Surjection, PrivateBufs
  <2> HIDE DEF g
  <2> QED BY <1>2, <2>1, FS_Surjection, Zenon
<1>4. \A i : MineOf(i) \in SUBSET VCs
  BY Zenon DEF MineOf
<1> QED BY <1>2, <1>3, <1>4, FS_Subset, Zenon

(* The sums are natural numbers. *)
LEMMA SumsNatural ==
  ASSUME NEW b, Counting(b)
  PROVE  /\ Natural(b.vc_occupancy, VCs) /\ Natural(b.reserved_slots, VCs)
         /\ Natural(Kept(b), VCs) /\ (\A i : Natural(Kept(b), MineOf(i)))
         /\ Natural(b.private_buf_occupancy, PrivateBufs)
         /\ Natural(Above(b), PrivateBufs) /\ Natural(Below(b), PrivateBufs)
         /\ Natural(PrivateSize, PrivateBufs)
<1>1. /\ Natural(b.vc_occupancy, VCs) /\ Natural(b.reserved_slots, VCs)
      /\ Natural(b.private_buf_occupancy, PrivateBufs) /\ Natural(PrivateSize, PrivateBufs)
  BY PolicyAssumption, Zenon DEF Counting, Natural
<1>2. Natural(Kept(b), VCs)
  BY <1>1 DEF Kept, Natural
<1>3. \A i : Natural(Kept(b), MineOf(i))
  BY <1>2, Zenon DEF MineOf, Natural
<1>4. Natural(Above(b), PrivateBufs) /\ Natural(Below(b), PrivateBufs)
  BY <1>1 DEF Above, Below, Positive, Natural
<1> QED BY <1>1, <1>2, <1>3, <1>4, Zenon

(* Nothing sent, nothing counted. *)
LEMMA SumsInitial ==
  ASSUME NEW p \in Policies, NEW w \in BOOLEAN, NEW b, b = NewBufferState(p, w)
  PROVE  b \in Raw /\ Counting(b) /\ Sums(b)
<1>1. /\ b.policy = p /\ b.wait_for_tail_credit = w /\ b.occupancy = 0
      /\ b.vc_occupancy = [v \in VCs |-> 0] /\ b.in_use_by = [v \in VCs |-> -1]
      /\ b.tail_sent = [v \in VCs |-> FALSE]
      /\ b.private_buf_occupancy = [i \in PrivateBufs |-> 0]
      /\ b.shared_buf_occupancy = 0 /\ b.reserved_slots = [v \in VCs |-> 0]
      /\ b.active_vcs = 0
      /\ b.max_held_slots = IF p = "limited" THEN MaxHeldSlots ELSE BufSize
  BY Zenon DEF NewBufferState
<1>2. b \in Raw
  <2>1. MaxHeldSlots \in Held /\ BufSize \in Held
    BY BufferAssumption, PolicyAssumption DEF Held
  <2> QED BY <2>1 DEF NewBufferState, Raw
<1>3. Counting(b)
  BY <1>1 DEF Counting
<1>4. \A i : Total(Kept(b), MineOf(i)) = 0
  <2> SUFFICES ASSUME NEW i PROVE Total(Kept(b), MineOf(i)) = 0
    BY Zenon
  <2>1. \A v \in MineOf(i) : Kept(b)[v] = 0
    BY <1>1 DEF Kept, MineOf
  <2>2. IsFiniteSet(MineOf(i)) /\ Natural(Kept(b), MineOf(i))
    BY <1>3, FiniteParts, SumsNatural, Zenon
  <2> QED BY <2>1, <2>2, TotalPositive, Zenon
<1>5. Total(b.vc_occupancy, VCs) = 0 /\ Total(b.reserved_slots, VCs) = 0
  <2>1. \A v \in VCs : b.vc_occupancy[v] = 0 /\ b.reserved_slots[v] = 0
    BY <1>1
  <2>2. IsFiniteSet(VCs) /\ Natural(b.vc_occupancy, VCs) /\ Natural(b.reserved_slots, VCs)
    BY <1>3, FiniteParts, SumsNatural, Zenon
  <2> QED BY <2>1, <2>2, TotalPositive, Zenon
<1>6. Total(b.private_buf_occupancy, PrivateBufs) = 0 /\ Total(Above(b), PrivateBufs) = 0
  <2>1. \A i \in PrivateBufs : b.private_buf_occupancy[i] = 0 /\ Above(b)[i] = 0
    BY <1>1, PolicyAssumption DEF Above, Positive
  <2>2. /\ IsFiniteSet(PrivateBufs) /\ Natural(b.private_buf_occupancy, PrivateBufs)
        /\ Natural(Above(b), PrivateBufs)
    BY <1>3, FiniteParts, SumsNatural, Zenon
  <2> QED BY <2>1, <2>2, TotalPositive, Zenon
<1>7. Total(Below(b), PrivateBufs) = Total(PrivateSize, PrivateBufs)
  <2>1. \A i \in PrivateBufs : Below(b)[i] = PrivateSize[i]
    BY <1>1, PolicyAssumption DEF Below, Positive
  <2> QED BY <2>1, TotalSame, Zenon
<1>8. Total(PrivateSize, PrivateBufs) \in Nat
  BY <1>3, FiniteParts, SumsNatural, SlotsFinite, Zenon
<1>9. PrivateSum(b)
  BY <1>1, <1>4, Zenon DEF PrivateSum
<1> QED BY <1>1, <1>2, <1>3, <1>5, <1>6, <1>7, <1>8, <1>9
        DEF Sums, OccSum, SharedSum, AllSum, RoomSum

(* One flit more keeps the sums; read backwards, so does one less. *)
LEMMA SumsStep ==
  ASSUME NEW b \in Raw, NEW n \in Raw, NEW v \in VCs, Counting(b), Counting(n),
         SameKind(b, n), n.occupancy = b.occupancy + 1,
         n.vc_occupancy = [b.vc_occupancy EXCEPT ![v] = @ + 1],
         Shared(b) => Claims(b, n, v) \/ Fills(b, n, v)
  PROVE  Sums(b) <=> Sums(n)
<1> DEFINE i == PrivateOf[v]
<1>1. i \in PrivateBufs /\ PrivateSize[i] \in Nat
  BY HasPrivate, Zenon
<1>2. /\ b.vc_occupancy \in [VCs -> Nat] /\ b.reserved_slots \in [VCs -> Nat]
      /\ b.private_buf_occupancy \in [PrivateBufs -> Nat]
      /\ n.vc_occupancy \in [VCs -> Nat] /\ n.reserved_slots \in [VCs -> Nat]
      /\ n.private_buf_occupancy \in [PrivateBufs -> Nat]
  BY Zenon DEF Counting
<1>3. /\ b.occupancy \in Int /\ b.shared_buf_occupancy \in Int
      /\ n.occupancy \in Int /\ n.shared_buf_occupancy \in Int
  BY Zenon DEF Raw
<1>4. /\ Total(b.vc_occupancy, VCs) \in Nat /\ Total(n.vc_occupancy, VCs) \in Nat
      /\ Total(n.vc_occupancy, VCs) = Total(b.vc_occupancy, VCs) + 1
  <2>1. /\ n.vc_occupancy[v] = b.vc_occupancy[v] + 1
        /\ \A x \in VCs \ {v} : n.vc_occupancy[x] = b.vc_occupancy[x]
    BY <1>2, Zenon
  <2>2. IsFiniteSet(VCs) /\ Natural(b.vc_occupancy, VCs) /\ Natural(n.vc_occupancy, VCs)
    BY FiniteParts, SumsNatural, Zenon
  <2> QED BY <2>1, <2>2, TotalMore, SlotsFinite, ZenonT(30)
<1>5. OccSum(b) <=> OccSum(n)
  BY <1>3, <1>4 DEF OccSum
<1>6. Shared(b) <=> Shared(n)
  BY Zenon DEF SameKind, Shared
<1>7. CASE ~Shared(b)
  BY <1>5, <1>6, <1>7, Zenon DEF Sums
<1>8. /\ Total(b.reserved_slots, VCs) \in Nat /\ Total(n.reserved_slots, VCs) \in Nat
      /\ Total(b.private_buf_occupancy, PrivateBufs) \in Nat
      /\ Total(n.private_buf_occupancy, PrivateBufs) \in Nat
      /\ Total(Above(b), PrivateBufs) \in Nat /\ Total(Above(n), PrivateBufs) \in Nat
      /\ Total(Below(b), PrivateBufs) \in Nat /\ Total(Below(n), PrivateBufs) \in Nat
      /\ Total(PrivateSize, PrivateBufs) \in Nat
  BY FiniteParts, SumsNatural, SlotsFinite, Zenon
<1>9. CASE Shared(b) /\ Claims(b, n, v)
  <2>1. /\ n.reserved_slots = [b.reserved_slots EXCEPT ![v] = @ - 1]
        /\ n.private_buf_occupancy = b.private_buf_occupancy
        /\ n.shared_buf_occupancy = b.shared_buf_occupancy
    BY <1>9, Zenon DEF Claims
  <2>2. Total(b.reserved_slots, VCs) = Total(n.reserved_slots, VCs) + 1
    <3>1. /\ b.reserved_slots[v] = n.reserved_slots[v] + 1
          /\ \A x \in VCs \ {v} : b.reserved_slots[x] = n.reserved_slots[x]
      BY <1>2, <2>1
    <3>2. IsFiniteSet(VCs) /\ Natural(n.reserved_slots, VCs)
      BY FiniteParts, SumsNatural, Zenon
    <3> QED BY <3>1, <3>2, TotalMore
  <2>3. Kept(n) = Kept(b)
    <3>1. \A x \in VCs : n.vc_occupancy[x] + n.reserved_slots[x] =
                           b.vc_occupancy[x] + b.reserved_slots[x]
      BY <1>2, <2>1
    <3> QED BY <3>1, Zenon DEF Kept
  <2>4. Above(n) = Above(b) /\ Below(n) = Below(b)
    BY <2>1, Zenon DEF Above, Below
  <2>5. PrivateSum(b) <=> PrivateSum(n)
    BY <2>1, <2>3, Zenon DEF PrivateSum
  <2>6. SharedSum(b) <=> SharedSum(n)
    BY <2>1, <2>4, Zenon DEF SharedSum
  <2>7. AllSum(b) <=> AllSum(n)
    BY <1>3, <1>8, <2>1, <2>2 DEF AllSum
  <2>8. RoomSum(b) <=> RoomSum(n)
    BY <2>1, <2>4, Zenon DEF RoomSum
  <2> QED BY <1>5, <1>6, <2>5, <2>6, <2>7, <2>8, Zenon DEF Sums
<1>10. CASE Shared(b) /\ Fills(b, n, v)
  <2> DEFINE a == IF b.private_buf_occupancy[i] >= PrivateSize[i] THEN 1 ELSE 0
  <2>0. a \in {0, 1}
    BY Zenon
  <2>1. /\ n.reserved_slots = b.reserved_slots
        /\ n.private_buf_occupancy = [b.private_buf_occupancy EXCEPT ![i] = @ + 1]
        /\ n.shared_buf_occupancy = b.shared_buf_occupancy + a
    BY <1>10, Zenon DEF Fills
  <2>2. /\ n.private_buf_occupancy[i] = b.private_buf_occupancy[i] + 1
        /\ \A x \in PrivateBufs \ {i} : n.private_buf_occupancy[x] = b.private_buf_occupancy[x]
    BY <1>1, <1>2, <2>1, Zenon
  <2>3. Total(n.private_buf_occupancy, PrivateBufs) =
          Total(b.private_buf_occupancy, PrivateBufs) + 1
    <3>1. IsFiniteSet(PrivateBufs) /\ Natural(b.private_buf_occupancy, PrivateBufs)
      BY FiniteParts, SumsNatural, Zenon
    <3> QED BY <1>1, <2>2, <3>1, TotalMore
  <2>4. /\ Above(n)[i] = Above(b)[i] + a /\ Below(n)[i] = Below(b)[i] + (a - 1)
        /\ \A x \in PrivateBufs \ {i} : Above(n)[x] = Above(b)[x] /\ Below(n)[x] = Below(b)[x]
    <3>1. Above(n)[i] = Above(b)[i] + a /\ Below(n)[i] = Below(b)[i] + (a - 1)
      BY <1>1, <1>2, <2>2 DEF Above, Below, Positive
    <3> QED BY <2>2, <3>1, Zenon DEF Above, Below
  <2>5. /\ Total(Above(n), PrivateBufs) = Total(Above(b), PrivateBufs) + a
        /\ Total(Below(n), PrivateBufs) = Total(Below(b), PrivateBufs) + (a - 1)
    <3>1. /\ IsFiniteSet(PrivateBufs)
          /\ Natural(Above(b), PrivateBufs) /\ Natural(Above(n), PrivateBufs)
          /\ Natural(Below(b), PrivateBufs) /\ Natural(Below(n), PrivateBufs)
      BY FiniteParts, SumsNatural, Zenon
    <3>2. a \in {-1, 0, 1} /\ a - 1 \in {-1, 0, 1}
      BY <2>0
    <3> HIDE DEF a
    <3>3. Total(Above(n), PrivateBufs) = Total(Above(b), PrivateBufs) + a
      BY <1>1, <2>4, <3>1, <3>2, TotalBy
    <3>4. Total(Below(n), PrivateBufs) = Total(Below(b), PrivateBufs) + (a - 1)
      BY <1>1, <2>4, <3>1, <3>2, TotalBy
    <3> QED BY <3>3, <3>4, Zenon
  <2>6. \A j \in PrivateBufs : /\ Total(Kept(b), MineOf(j)) \in Nat
                               /\ Total(Kept(n), MineOf(j)) =
                                    Total(Kept(b), MineOf(j)) + (IF j = i THEN 1 ELSE 0)
    <3> SUFFICES ASSUME NEW j \in PrivateBufs
                 PROVE  /\ Total(Kept(b), MineOf(j)) \in Nat
                        /\ Total(Kept(n), MineOf(j)) =
                             Total(Kept(b), MineOf(j)) + (IF j = i THEN 1 ELSE 0)
      BY Zenon
    <3>1. /\ Kept(n)[v] = Kept(b)[v] + 1
          /\ \A x \in VCs \ {v} : Kept(n)[x] = Kept(b)[x]
      BY <1>2, <2>1 DEF Kept
    <3>2. /\ IsFiniteSet(MineOf(j)) /\ Natural(Kept(b), MineOf(j)) /\ Natural(Kept(n), MineOf(j))
      BY FiniteParts, SumsNatural, Zenon
    <3>3. Total(Kept(b), MineOf(j)) \in Nat
      BY <3>2, SlotsFinite, Zenon
    <3>4. CASE j = i
      <4>1. v \in MineOf(j) /\ \A x \in MineOf(j) \ {v} : Kept(n)[x] = Kept(b)[x]
        BY <3>1, <3>4, Zenon DEF MineOf
      <4>2. Total(Kept(n), MineOf(j)) = Total(Kept(b), MineOf(j)) + 1
        BY <3>1, <3>2, <4>1, TotalMore, Zenon
      <4> QED BY <3>3, <3>4, <4>2, Zenon
    <3>5. CASE j # i
      <4>1. \A x \in MineOf(j) : Kept(b)[x] = Kept(n)[x]
        BY <3>1, <3>5, Zenon DEF MineOf
      <4>2. Total(Kept(b), MineOf(j)) = Total(Kept(n), MineOf(j))
        BY <4>1, TotalSame, Zenon
      <4> QED BY <3>3, <3>5, <4>2
    <3> QED BY <3>4, <3>5, Zenon
  <2> HIDE DEF a
  <2>7. PrivateSum(b) <=> PrivateSum(n)
    <3>1. ASSUME NEW j \in PrivateBufs
          PROVE  b.private_buf_occupancy[j] = Total(Kept(b), MineOf(j)) <=>
                   n.private_buf_occupancy[j] = Total(Kept(n), MineOf(j))
      <4>1. b.private_buf_occupancy[j] \in Nat
        BY <1>2, Zenon
      <4>2. CASE j = i
        BY <2>2, <2>6, <4>1, <4>2
      <4>3. CASE j # i
        BY <2>2, <2>6, <4>1, <4>3
      <4> QED BY <4>2, <4>3, Zenon
    <3> QED BY <3>1, Zenon DEF PrivateSum
  <2>8. SharedSum(b) <=> SharedSum(n)
    BY <1>3, <1>8, <2>0, <2>1, <2>5 DEF SharedSum
  <2>9. AllSum(b) <=> AllSum(n)
    BY <1>3, <1>8, <2>1, <2>3 DEF AllSum
  <2>10. RoomSum(b) <=> RoomSum(n)
    BY <1>3, <1>8, <2>0, <2>1, <2>3, <2>5 DEF RoomSum
  <2> QED BY <1>5, <1>6, <2>7, <2>8, <2>9, <2>10, Zenon DEF Sums
<1> QED BY <1>7, <1>9, <1>10, Zenon

-----------------------------------------------------------------------------
(* What holds of a sender's BufferState b whose VCs carry the packets o, for *)
(* any packet numbers.                                                       *)
VCKept(b, o, v) ==
  /\ b.reserved_slots[v] \in {0, 1}
  /\ b.reserved_slots[v] = 1 => b.vc_occupancy[v] = 0 /\ o[v] # NoPacket
  /\ ~Shared(b) => b.reserved_slots[v] = 0 /\ b.vc_occupancy[v] <= VcBufSize
  /\ b.in_use_by[v] >= 0 =>
       \/ o[v] # NoPacket
       \/ b.wait_for_tail_credit /\ b.tail_sent[v] /\ b.vc_occupancy[v] > 0
Keeping(b, o) ==
  /\ b \in Raw /\ Counting(b) /\ Sums(b)
  /\ b.shared_buf_occupancy <= SharedSize
  /\ \A v \in VCs : VCKept(b, o, v)

HasRoom(b, v) ==
  /\ ~Shared(b) => b.vc_occupancy[v] < VcBufSize
  /\ Shared(b) => ~SharedIsFullFor(b, v)

(* IsFullFor asks for room, whatever the policy. *)
LEMMA NotFullHasRoom ==
  ASSUME NEW b \in Raw, NEW v \in VCs, ~IsFullFor(b, v)
  PROVE  HasRoom(b, v)
<1>1. b.vc_occupancy[v] \in Int /\ VcBufSize \in Int
  BY BufferAssumption DEF Raw, VcBufSize
<1> QED BY <1>1 DEF IsFullFor, HasRoom, PrivateIsFullFor, LimitedIsFullFor, Shared, Limited

(* The size of the shared part is a natural number. *)
LEMMA SharedSizeNat == SharedSize \in Nat
<1>1. Natural(PrivateSize, PrivateBufs) /\ IsFiniteSet(PrivateBufs)
  BY PolicyAssumption, FiniteParts, Zenon DEF Natural
<1>2. Total(PrivateSize, PrivateBufs) \in Nat
  BY <1>1, SlotsFinite, Zenon
<1> QED BY <1>2, BufferAssumption, PolicyAssumption DEF SharedSize

(* The same counts have the same sums. *)
LEMMA SumsSame ==
  ASSUME NEW b, NEW n, SameKind(b, n), SameCounts(b, n), SameSlots(b, n)
  PROVE  (Counting(b) => Counting(n)) /\ (Sums(b) => Sums(n))
<1>1. Kept(n) = Kept(b) /\ Above(n) = Above(b) /\ Below(n) = Below(b)
  BY Zenon DEF SameCounts, SameSlots, Kept, Above, Below
<1> QED BY <1>1, Zenon DEF SameKind, SameCounts, SameSlots, Counting, Sums, Shared,
                    OccSum, PrivateSum, SharedSum, AllSum, RoomSum

(* Taking a VC for a packet keeps it. *)
LEMMA TakeKeeps ==
  ASSUME NEW b, NEW o, Keeping(b, o), NEW v \in VCs, NEW tag \in Int, NEW e, e # NoPacket,
         DOMAIN o = VCs, NEW n, n = TakeBuffer(b, v, tag)
  PROVE  Keeping(n, [o EXCEPT ![v] = e])
<1> DEFINE p == [o EXCEPT ![v] = e]
<1>1. b \in Raw /\ Counting(b) /\ Sums(b) /\ b.shared_buf_occupancy <= SharedSize
  BY Zenon DEF Keeping
<1>2. /\ n \in Raw /\ SameKind(b, n) /\ SameCounts(b, n) /\ SameSlots(b, n)
      /\ n.in_use_by = [b.in_use_by EXCEPT ![v] = ToInt(tag)] /\ ToInt(tag) \in Int
      /\ NewTail(b, n, v)
  BY <1>1, TakeEffect
<1>3. Counting(n) /\ Sums(n) /\ n.shared_buf_occupancy <= SharedSize
  BY <1>1, <1>2, SumsSame, Zenon DEF SameSlots
<1>4. ASSUME NEW x \in VCs PROVE VCKept(n, p, x)
  <2>1. VCKept(b, o, x)
    BY Zenon DEF Keeping
  <2>2. p[v] = e /\ (x # v => p[x] = o[x])
    BY Zenon
  <2>3. x # v => n.in_use_by[x] = b.in_use_by[x] /\ n.tail_sent[x] = b.tail_sent[x]
    BY <1>1, <1>2, Zenon DEF Raw, NewTail
  <2> HIDE DEF p
  <2>4. /\ n.reserved_slots[x] = b.reserved_slots[x] /\ n.vc_occupancy[x] = b.vc_occupancy[x]
        /\ n.wait_for_tail_credit = b.wait_for_tail_credit /\ (Shared(n) <=> Shared(b))
    BY <1>2, Zenon DEF SameKind, SameCounts, SameSlots, Shared
  <2> QED BY <2>1, <2>2, <2>3, <2>4, Zenon DEF VCKept
<1> QED BY <1>2, <1>3, <1>4, ZenonT(30) DEF Keeping

(* Sending a flit to a VC that has room keeps it. *)
LEMMA SendKeeps ==
  ASSUME NEW b, NEW o, Keeping(b, o), NEW v \in VCs, NEW tail \in BOOLEAN, HasRoom(b, v),
         NEW e, ~tail => e # NoPacket, DOMAIN o = VCs,
         NEW n, n = SendingFlit(b, v, tail)
  PROVE  Keeping(n, [o EXCEPT ![v] = e])
<1> DEFINE p == [o EXCEPT ![v] = e]
           i == PrivateOf[v]
<1>1. b \in Raw /\ Counting(b) /\ Sums(b) /\ b.shared_buf_occupancy <= SharedSize
  BY Zenon DEF Keeping
<1>2. VCKept(b, o, v)
  BY Zenon DEF Keeping
<1>3. b.reserved_slots[v] \in {0, 1}
  BY <1>2, Zenon DEF VCKept
<1>4. /\ n \in Raw /\ SameKind(b, n)
      /\ n.occupancy = b.occupancy + 1
      /\ n.vc_occupancy = [b.vc_occupancy EXCEPT ![v] = @ + 1]
      /\ Ended(b, n, v, tail)
      /\ n.in_use_by = IF tail /\ ~b.wait_for_tail_credit
                       THEN [b.in_use_by EXCEPT ![v] = -1] ELSE b.in_use_by
      /\ ~Shared(b) => SameSlots(b, n)
      /\ Shared(b) /\ b.reserved_slots[v] > 0 => Claims(b, n, v)
      /\ Shared(b) /\ ~(b.reserved_slots[v] > 0) => Fills(b, n, v)
  BY <1>1, <1>3, SendEffect
<1>5. /\ b.vc_occupancy \in [VCs -> Nat] /\ b.reserved_slots \in [VCs -> Nat]
      /\ b.private_buf_occupancy \in [PrivateBufs -> Nat] /\ b.shared_buf_occupancy \in Int
      /\ b.in_use_by \in [VCs -> Int] /\ b.tail_sent \in [VCs -> BOOLEAN]
  BY <1>1, Zenon DEF Counting, Raw
<1>6. i \in PrivateBufs /\ PrivateSize[i] \in Nat /\ SharedSize \in Nat
  BY HasPrivate, SharedSizeNat, Zenon
<1>7. /\ n.vc_occupancy[v] = b.vc_occupancy[v] + 1
      /\ \A x \in VCs \ {v} : n.vc_occupancy[x] = b.vc_occupancy[x]
  BY <1>4, <1>5, Zenon
<1>8. /\ n.reserved_slots \in [VCs -> Nat] /\ n.reserved_slots[v] = 0
      /\ \A x \in VCs \ {v} : n.reserved_slots[x] = b.reserved_slots[x]
      /\ n.private_buf_occupancy \in [PrivateBufs -> Nat]
      /\ n.shared_buf_occupancy <= SharedSize
  <2>1. CASE ~Shared(b)
    BY <1>1, <1>2, <1>4, <1>5, <2>1, Zenon DEF SameSlots, VCKept
  <2>2. CASE Shared(b) /\ b.reserved_slots[v] > 0
    BY <1>1, <1>3, <1>4, <1>5, <2>2 DEF Claims
  <2>3. CASE Shared(b) /\ ~(b.reserved_slots[v] > 0)
    <3>1. b.reserved_slots[v] = 0
      BY <1>3, <2>3
    <3>2. b.private_buf_occupancy[i] >= PrivateSize[i] => b.shared_buf_occupancy < SharedSize
      BY <1>5, <1>6, <2>3, <3>1 DEF HasRoom, SharedIsFullFor
    <3>3. /\ n.reserved_slots = b.reserved_slots
          /\ n.private_buf_occupancy = [b.private_buf_occupancy EXCEPT ![i] = @ + 1]
          /\ n.shared_buf_occupancy = b.shared_buf_occupancy +
               (IF b.private_buf_occupancy[i] >= PrivateSize[i] THEN 1 ELSE 0)
      BY <1>4, <2>3, Zenon DEF Fills
    <3>4. n.shared_buf_occupancy <= SharedSize
      BY <1>1, <1>5, <1>6, <3>2, <3>3
    <3> QED BY <1>5, <1>6, <3>1, <3>3, <3>4
  <2> QED BY <2>1, <2>2, <2>3, Zenon
<1>9. Counting(n)
  <2>1. n.vc_occupancy \in [VCs -> Nat]
    BY <1>4, <1>5
  <2> QED BY <1>8, <2>1, Zenon DEF Counting
<1>10. Sums(n)
  BY <1>1, <1>4, <1>9, SumsStep, Zenon
<1>11. ASSUME NEW x \in VCs PROVE VCKept(n, p, x)
  <2>1. VCKept(b, o, x)
    BY Zenon DEF Keeping
  <2>2. n.wait_for_tail_credit = b.wait_for_tail_credit /\ (Shared(n) <=> Shared(b))
    BY <1>4, Zenon DEF SameKind, Shared
  <2>3. CASE x = v
    <3>1. p[x] = e
      BY <2>3, Zenon
    <3>2. ~Shared(n) => n.vc_occupancy[x] <= VcBufSize
      <4>1. VcBufSize \in Int /\ b.vc_occupancy[v] \in Nat
        BY <1>5, BufferAssumption DEF VcBufSize
      <4> QED BY <1>7, <2>2, <2>3, <4>1 DEF HasRoom
    <3>3. tail => n.tail_sent[x] /\ (~b.wait_for_tail_credit => n.in_use_by[x] = -1)
      BY <1>4, <1>5, <2>3, Zenon DEF Ended
    <3>4. n.vc_occupancy[x] > 0
      BY <1>5, <1>7, <2>3
    <3> HIDE DEF p
    <3> QED BY <1>8, <2>2, <2>3, <3>1, <3>2, <3>3, <3>4 DEF VCKept
  <2>4. CASE x # v
    <3>1. p[x] = o[x]
      BY <2>4, Zenon
    <3>2. n.in_use_by[x] = b.in_use_by[x] /\ n.tail_sent[x] = b.tail_sent[x]
      BY <1>4, <1>5, <2>4, Zenon DEF Ended
    <3> HIDE DEF p
    <3> QED BY <1>7, <1>8, <2>1, <2>2, <2>4, <3>1, <3>2 DEF VCKept
  <2> QED BY <2>3, <2>4, Zenon
<1> QED BY <1>4, <1>8, <1>9, <1>10, <1>11, ZenonT(30) DEF Keeping

(* A credit for a VC that has a slot in use keeps it. *)
LEMMA CreditKeeps ==
  ASSUME NEW b, NEW o, Keeping(b, o), NEW v \in VCs, b.vc_occupancy[v] > 0,
         NEW n, n = ProcessCredit(b, v)
  PROVE  Keeping(n, o)
<1> DEFINE i == PrivateOf[v]
<1>1. b \in Raw /\ Counting(b) /\ Sums(b) /\ b.shared_buf_occupancy <= SharedSize
  BY Zenon DEF Keeping
<1>2. VCKept(b, o, v)
  BY Zenon DEF Keeping
<1>3. /\ n \in Raw /\ SameKind(b, n) /\ n.tail_sent = b.tail_sent
      /\ n.occupancy = b.occupancy - 1
      /\ n.vc_occupancy = [b.vc_occupancy EXCEPT ![v] = @ - 1]
      /\ n.in_use_by = IF b.wait_for_tail_credit /\ b.vc_occupancy[v] = 1 /\ b.tail_sent[v]
                       THEN [b.in_use_by EXCEPT ![v] = -1] ELSE b.in_use_by
      /\ ~Shared(b) => SameSlots(b, n)
      /\ Shared(b) => IF n.in_use_by[v] >= 0 /\ n.vc_occupancy[v] = 0
                      THEN Claims(n, b, v) ELSE Fills(n, b, v)
  BY <1>1, CreditEffect
<1>4. /\ b.vc_occupancy \in [VCs -> Nat] /\ b.reserved_slots \in [VCs -> Nat]
      /\ b.private_buf_occupancy \in [PrivateBufs -> Nat] /\ b.shared_buf_occupancy \in Int
      /\ b.in_use_by \in [VCs -> Int] /\ b.tail_sent \in [VCs -> BOOLEAN] /\ b.occupancy \in Int
  BY <1>1, Zenon DEF Counting, Raw
<1>5. /\ n.reserved_slots \in [VCs -> Int] /\ n.private_buf_occupancy \in [PrivateBufs -> Int]
      /\ n.shared_buf_occupancy \in Int
  BY <1>3, Zenon DEF Raw
<1>6. i \in PrivateBufs /\ PrivateSize[i] \in Nat /\ SharedSize \in Nat
  BY HasPrivate, SharedSizeNat, Zenon
<1>7. /\ n.vc_occupancy[v] = b.vc_occupancy[v] - 1
      /\ \A x \in VCs \ {v} : n.vc_occupancy[x] = b.vc_occupancy[x]
      /\ n.vc_occupancy \in [VCs -> Nat]
  BY <1>3, <1>4
<1>8. b.reserved_slots[v] = 0
  BY <1>2, <1>4 DEF VCKept
<1>9. Shared(b) => b.private_buf_occupancy[i] > 0
  <2> SUFFICES ASSUME Shared(b) PROVE b.private_buf_occupancy[i] > 0
    BY Zenon
  <2>1. b.private_buf_occupancy[i] = Total(Kept(b), MineOf(i))
    BY <1>1, <1>6, Zenon DEF Sums, PrivateSum
  <2>2. v \in MineOf(i) /\ Kept(b)[v] > 0
    BY <1>4 DEF MineOf, Kept
  <2>3. IsFiniteSet(MineOf(i)) /\ Natural(Kept(b), MineOf(i))
    BY <1>1, FiniteParts, SumsNatural, Zenon
  <2> QED BY <2>1, <2>2, <2>3, TotalPositive, Zenon
<1> DEFINE keeps == n.in_use_by[v] >= 0 /\ n.vc_occupancy[v] = 0
<1>10. /\ n.reserved_slots \in [VCs -> Nat]
       /\ n.reserved_slots[v] = IF Shared(b) /\ keeps THEN 1 ELSE 0
       /\ \A x \in VCs \ {v} : n.reserved_slots[x] = b.reserved_slots[x]
       /\ n.private_buf_occupancy \in [PrivateBufs -> Nat]
       /\ n.shared_buf_occupancy <= SharedSize
  <2>1. CASE ~Shared(b)
    BY <1>1, <1>3, <1>4, <1>8, <2>1, Zenon DEF SameSlots
  <2>2. CASE Shared(b) /\ keeps
    <3>1. /\ b.reserved_slots = [n.reserved_slots EXCEPT ![v] = @ - 1]
          /\ b.private_buf_occupancy = n.private_buf_occupancy
          /\ b.shared_buf_occupancy = n.shared_buf_occupancy
      BY <1>3, <2>2, Zenon DEF Claims
    <3>2. n.reserved_slots[v] = 1 /\ \A x \in VCs \ {v} : n.reserved_slots[x] = b.reserved_slots[x]
      BY <1>5, <1>8, <3>1
    <3>3. n.reserved_slots \in [VCs -> Nat]
      BY <1>4, <1>5, <3>2
    <3> HIDE DEF keeps
    <3> QED BY <1>1, <1>4, <2>2, <3>1, <3>2, <3>3, Zenon
  <2>3. CASE Shared(b) /\ ~keeps
    <3>1. /\ b.reserved_slots = n.reserved_slots
          /\ b.private_buf_occupancy = [n.private_buf_occupancy EXCEPT ![i] = @ + 1]
          /\ b.shared_buf_occupancy = n.shared_buf_occupancy +
               (IF n.private_buf_occupancy[i] >= PrivateSize[i] THEN 1 ELSE 0)
      BY <1>3, <2>3, Zenon DEF Fills
    <3> HIDE DEF keeps
    <3>2. n.private_buf_occupancy \in [PrivateBufs -> Nat]
      <4>1. ASSUME NEW x \in PrivateBufs PROVE n.private_buf_occupancy[x] \in Nat
        <5>1. CASE x = i
          BY <1>4, <1>5, <1>9, <2>3, <3>1, <5>1
        <5>2. CASE x # i
          BY <1>4, <1>5, <3>1, <5>2, Zenon
        <5> QED BY <5>1, <5>2, Zenon
      <4> QED BY <1>5, <4>1, Zenon
    <3>3. n.shared_buf_occupancy <= SharedSize
      BY <1>1, <1>4, <1>5, <1>6, <3>1
    <3> QED BY <1>4, <1>8, <2>3, <3>1, <3>2, <3>3, Zenon
  <2> QED BY <2>1, <2>2, <2>3, Zenon
<1> HIDE DEF keeps
<1>11. Counting(n)
  BY <1>7, <1>10, Zenon DEF Counting
<1>12. Sums(n)
  <2>1. SameKind(n, b) /\ b.occupancy = n.occupancy + 1 /\ (Shared(n) <=> Shared(b))
    BY <1>3, <1>4 DEF SameKind, Shared
  <2>2. b.vc_occupancy = [n.vc_occupancy EXCEPT ![v] = @ + 1]
    BY <1>3, <1>4
  <2>3. Shared(n) => Claims(n, b, v) \/ Fills(n, b, v)
    BY <1>3, <2>1, Zenon
  <2> QED BY <1>1, <1>3, <1>11, <2>1, <2>2, <2>3, SumsStep, ZenonT(30)
<1>13. ASSUME NEW x \in VCs PROVE VCKept(n, o, x)
  <2>1. VCKept(b, o, x)
    BY Zenon DEF Keeping
  <2>2. n.wait_for_tail_credit = b.wait_for_tail_credit /\ (Shared(n) <=> Shared(b))
    BY <1>3, Zenon DEF SameKind, Shared
  <2>3. CASE x = v
    <3>1. n.in_use_by[v] >= 0 =>
            /\ n.in_use_by[v] = b.in_use_by[v]
            /\ ~(b.wait_for_tail_credit /\ b.vc_occupancy[v] = 1 /\ b.tail_sent[v])
      BY <1>3, <1>4
    <3>2. VcBufSize \in Int /\ b.vc_occupancy[v] \in Nat
      BY <1>4, BufferAssumption DEF VcBufSize
    <3>3. ~Shared(n) => n.vc_occupancy[x] <= VcBufSize /\ n.reserved_slots[x] = 0
      BY <1>2, <1>7, <1>10, <2>2, <2>3, <3>2 DEF VCKept
    <3>4. n.in_use_by[v] >= 0 =>
            \/ o[v] # NoPacket
            \/ n.wait_for_tail_credit /\ n.tail_sent[v] /\ n.vc_occupancy[v] > 0
      BY <1>2, <1>3, <1>7, <2>2, <3>1, <3>2 DEF VCKept
    <3>5. keeps => o[v] # NoPacket
      BY <3>4, <1>7, <3>2 DEF keeps
    <3>6. keeps => n.vc_occupancy[v] = 0
      BY Zenon DEF keeps
    <3> QED BY <1>10, <2>3, <3>3, <3>4, <3>5, <3>6 DEF VCKept
  <2>4. CASE x # v
    <3>1. n.in_use_by[x] = b.in_use_by[x] /\ n.tail_sent[x] = b.tail_sent[x]
      BY <1>3, <1>4, <2>4
    <3> QED BY <1>7, <1>10, <2>1, <2>2, <2>4, <3>1, Zenon DEF VCKept
  <2> QED BY <2>3, <2>4, Zenon
<1> QED BY <1>3, <1>10, <1>11, <1>12, <1>13, Zenon DEF Keeping

-----------------------------------------------------------------------------
(* The invariant of the loop, for any packet numbers. *)
Packets == {NoPacket} \cup [pid : Pids, begun : BOOLEAN]
Typed ==
  /\ open \in [VCs -> Packets]
  /\ channel \in Seq(FlitSet)
  /\ buffer \in [VCs -> Seq(FlitSet)]
  /\ expected \in [VCs -> Int]
  /\ credits \in Seq(VCs)

FlitsOf(v) == {f \in FlitSet : f.vc = v}
Conserved(occ, ch, bf, cr) ==
  \A v \in VCs :
    occ[v] = Cardinality(Hits(ch, FlitsOf(v))) + Len(bf[v]) + Cardinality(Hits(cr, {v}))

CreditInv ==
  /\ Typed /\ Keeping(bs, open)
  /\ Conserved(bs.vc_occupancy, channel, buffer, credits)

(* Counting as CreditsConserved does. *)
LEMMA CountsAre ==
  ASSUME NEW v \in VCs, NEW ch \in Seq(FlitSet), NEW cr \in Seq(VCs)
  PROVE  /\ {i \in DOMAIN ch : ch[i].vc = v} = Hits(ch, FlitsOf(v))
         /\ {i \in DOMAIN cr : cr[i] = v} = Hits(cr, {v})
         /\ Cardinality(Hits(ch, FlitsOf(v))) \in Nat /\ Cardinality(Hits(cr, {v})) \in Nat
<1>1. \A i \in DOMAIN ch : ch[i] \in FlitSet
  BY SeqAt, SeqLen, Zenon
<1>2. {i \in DOMAIN ch : ch[i].vc = v} = Hits(ch, FlitsOf(v))
  BY <1>1, Zenon DEF Hits, FlitsOf
<1>3. {i \in DOMAIN cr : cr[i] = v} = Hits(cr, {v})
  BY Zenon DEF Hits
<1> QED BY <1>2, <1>3, HitsFinite, ZenonT(30)

(* The values that an action gives the channel, the packets and a VC. *)
LEMMA FlitTyped ==
  ASSUME NEW f \in FlitSet
  PROVE  /\ f.vc \in VCs /\ f.pid \in Pids /\ f.head \in BOOLEAN /\ f.tail \in BOOLEAN
         /\ f.pid \in Int /\ ToInt(f.pid) \in Int
<1>1. f.vc \in VCs /\ f.pid \in Pids /\ f.head \in BOOLEAN /\ f.tail \in BOOLEAN
  BY Zenon DEF FlitSet
<1>2. f.pid \in Int
  BY <1>1, LoopAssumption DEF Pids
<1> QED BY <1>1, <1>2, BufferAssumption DEF ToInt

(* SendingFlit counts one flit more. *)
OneMore(b, n, v) ==
  \A x \in VCs : n.vc_occupancy[x] = b.vc_occupancy[x] + (IF v = x THEN 1 ELSE 0)

(* SendingFlit counts the flit on its VC and on no other. *)
LEMMA SendCounts ==
  ASSUME NEW b, NEW o, Keeping(b, o), NEW v \in VCs, NEW tail \in BOOLEAN,
         NEW n, n = SendingFlit(b, v, tail)
  PROVE  OneMore(b, n, v)
<1>1. b \in Raw /\ b.reserved_slots[v] \in {0, 1} /\ b.vc_occupancy \in [VCs -> Nat]
  BY Zenon DEF Keeping, VCKept, Counting
<1>2. /\ n \in Raw /\ SameKind(b, n)
      /\ n.occupancy = b.occupancy + 1
      /\ n.vc_occupancy = [b.vc_occupancy EXCEPT ![v] = @ + 1]
      /\ Ended(b, n, v, tail)
      /\ n.in_use_by = IF tail /\ ~b.wait_for_tail_credit
                       THEN [b.in_use_by EXCEPT ![v] = -1] ELSE b.in_use_by
      /\ ~Shared(b) => SameSlots(b, n)
      /\ Shared(b) /\ b.reserved_slots[v] > 0 => Claims(b, n, v)
      /\ Shared(b) /\ ~(b.reserved_slots[v] > 0) => Fills(b, n, v)
  BY <1>1, SendEffect
<1> QED BY <1>1, <1>2 DEF OneMore

(* SendOn: one flit more on the channel and one slot more in use. *)
LEMMA SendOnStep ==
  ASSUME NEW b, NEW o \in [VCs -> Packets], Keeping(b, o), Typed,
         Conserved(b.vc_occupancy, channel, buffer, credits),
         NEW f \in FlitSet, HasRoom(b, f.vc),
         bs' = SendingFlit(b, f.vc, f.tail), channel' = Append(channel, f),
         open' = [o EXCEPT ![f.vc] = IF f.tail THEN NoPacket
                                     ELSE [pid |-> f.pid, begun |-> TRUE]],
         UNCHANGED <<buffer, expected, credits>>
  PROVE  CreditInv'
<1> DEFINE e == IF f.tail THEN NoPacket ELSE [pid |-> f.pid, begun |-> TRUE]
<1>1. f.vc \in VCs /\ f.tail \in BOOLEAN /\ f.pid \in Pids /\ f.pid # -1
  BY FlitTyped, LoopAssumption DEF Pids
<1>2. e \in Packets /\ (~f.tail => e # NoPacket)
  BY <1>1, Zenon DEF Packets, NoPacket
<1>3. open' = [o EXCEPT ![f.vc] = e]
  BY Zenon
<1> HIDE DEF e
<1>4. Typed'
  <2>1. open' \in [VCs -> Packets]
    BY <1>1, <1>2, <1>3, Zenon
  <2>2. channel' \in Seq(FlitSet)
    BY SeqAppend, Zenon DEF Typed
  <2> QED BY <2>1, <2>2, Zenon DEF Typed
<1>5. Keeping(bs', open')
  <2> DEFINE v == f.vc
             t == f.tail
             n == SendingFlit(b, v, t)
  <2>1. v \in VCs /\ t \in BOOLEAN /\ HasRoom(b, v) /\ (~t => e # NoPacket) /\ DOMAIN o = VCs
    BY <1>1, <1>2, Zenon
  <2>2. bs' = n /\ open' = [o EXCEPT ![v] = e]
    BY <1>3, ZenonT(30)
  <2> HIDE DEF v, t
  <2>3. Keeping(n, [o EXCEPT ![v] = e])
    BY <2>1, SendKeeps, ZenonT(30)
  <2> QED BY <2>2, <2>3, ZenonT(30)
<1>6. Conserved(bs'.vc_occupancy, channel', buffer', credits')
  <2>1. OneMore(b, bs', f.vc)
    <3> DEFINE v == f.vc
               t == f.tail
               n == SendingFlit(b, v, t)
    <3>1. v \in VCs /\ t \in BOOLEAN /\ bs' = n /\ n = SendingFlit(b, v, t)
      BY <1>1, Zenon
    <3> HIDE DEF v, t, n
    <3>2. OneMore(b, n, v)
      BY <3>1, SendCounts, Zenon
    <3> QED BY <3>1, <3>2, Zenon DEF v
  <2> SUFFICES ASSUME NEW v \in VCs
               PROVE  bs'.vc_occupancy[v] = Cardinality(Hits(channel', FlitsOf(v)))
                                              + Len(buffer'[v]) + Cardinality(Hits(credits', {v}))
    BY ZenonT(30) DEF Conserved
  <2>2. b.vc_occupancy[v] = Cardinality(Hits(channel, FlitsOf(v)))
                              + Len(buffer[v]) + Cardinality(Hits(credits, {v}))
    BY Zenon DEF Conserved
  <2>3. Cardinality(Hits(channel', FlitsOf(v))) =
          Cardinality(Hits(channel, FlitsOf(v))) + (IF f.vc = v THEN 1 ELSE 0)
    <3>1. f \in FlitsOf(v) <=> f.vc = v
      BY Zenon DEF FlitsOf
    <3>2. channel \in Seq(FlitSet)
      BY Zenon DEF Typed
    <3>3. Cardinality(Hits(channel', FlitsOf(v))) =
            Cardinality(Hits(channel, FlitsOf(v))) + (IF f \in FlitsOf(v) THEN 1 ELSE 0)
      BY <3>2, CountAppend, Zenon
    <3> QED BY <3>1, <3>3, Zenon
  <2>4. /\ Cardinality(Hits(channel, FlitsOf(v))) \in Nat /\ Cardinality(Hits(credits, {v})) \in Nat
        /\ Len(buffer[v]) \in Nat
    <3>1. channel \in Seq(FlitSet) /\ credits \in Seq(VCs) /\ buffer[v] \in Seq(FlitSet)
      BY Zenon DEF Typed
    <3> QED BY <3>1, CountsAre, SeqLen, ZenonT(30)
  <2>5. bs'.vc_occupancy[v] = b.vc_occupancy[v] + (IF f.vc = v THEN 1 ELSE 0)
    BY <2>1, Zenon DEF OneMore
  <2> QED BY <2>2, <2>3, <2>4, <2>5
<1> QED BY <1>4, <1>5, <1>6, Zenon DEF CreditInv

(* A router takes a VC. *)
LEMMA TakeStep ==
  ASSUME CreditInv, NEW pid \in Pids, NEW v \in VCs, Take(pid, v)
  PROVE  CreditInv'
<1> DEFINE e == [pid |-> pid, begun |-> FALSE]
<1>1. /\ bs' = TakeBuffer(bs, v, pid) /\ open' = [open EXCEPT ![v] = e]
      /\ UNCHANGED <<channel, buffer, expected, credits>>
  BY Zenon DEF Take
<1>2. pid \in Int /\ e # NoPacket /\ e \in Packets
  BY LoopAssumption DEF Pids, NoPacket, Packets
<1> HIDE DEF e
<1>3. open \in [VCs -> Packets] /\ Keeping(bs, open) /\ bs \in Raw
  BY Zenon DEF CreditInv, Typed, Keeping
<1>4. Typed'
  BY <1>1, <1>2, <1>3, Zenon DEF CreditInv, Typed
<1>5. Keeping(bs', open')
  BY <1>1, <1>2, <1>3, TakeKeeps, ZenonT(30)
<1>6. SameCounts(bs, bs')
  BY <1>1, <1>2, <1>3, TakeEffect, ZenonT(30)
<1>7. Conserved(bs'.vc_occupancy, channel', buffer', credits')
  BY <1>1, <1>6, Zenon DEF CreditInv, SameCounts
<1> QED BY <1>4, <1>5, <1>7, Zenon DEF CreditInv

(* A flit of a packet that holds its VC. *)
LEMMA SendStep ==
  ASSUME CreditInv, NEW v \in VCs, NEW tail \in BOOLEAN, Send(v, tail)
  PROVE  CreditInv'
<1> DEFINE f == Flit(open[v].pid, ~open[v].begun, tail, v)
<1>1. open \in [VCs -> Packets] /\ Keeping(bs, open) /\ bs \in Raw /\ Typed
  BY Zenon DEF CreditInv, Typed, Keeping
<1>2. f \in FlitSet /\ f.vc = v
  <2>1. open[v] \in [pid : Pids, begun : BOOLEAN]
    BY <1>1, Zenon DEF Send, Packets
  <2> QED BY <2>1, Zenon DEF Flit, FlitSet
<1>3. SendOn(bs, f) /\ UNCHANGED <<buffer, expected, credits>>
  BY Zenon DEF Send
<1> HIDE DEF f
<1>4. HasRoom(bs, f.vc)
  BY <1>1, <1>2, NotFullHasRoom, Zenon DEF Send
<1>5. /\ bs' = SendingFlit(bs, f.vc, f.tail) /\ channel' = Append(channel, f)
      /\ open' = [open EXCEPT ![f.vc] = IF f.tail THEN NoPacket
                                        ELSE [pid |-> f.pid, begun |-> TRUE]]
  BY <1>3, Zenon DEF SendOn
<1>6. Conserved(bs.vc_occupancy, channel, buffer, credits)
  BY Zenon DEF CreditInv
<1> QED BY <1>1, <1>2, <1>3, <1>4, <1>5, <1>6, SendOnStep, ZenonT(30)

(* The traffic manager takes a VC and sends the head. *)
LEMMA TakeAndSendStep ==
  ASSUME CreditInv, NEW pid \in Pids, NEW v \in VCs, NEW tail \in BOOLEAN,
         TakeAndSend(pid, v, tail)
  PROVE  CreditInv'
<1> DEFINE b == TakeBuffer(bs, v, pid)
           e == [pid |-> pid, begun |-> FALSE]
           o == [open EXCEPT ![v] = e]
           f == Flit(pid, TRUE, tail, v)
<1>1. open \in [VCs -> Packets] /\ Keeping(bs, open) /\ bs \in Raw /\ Typed
  BY Zenon DEF CreditInv, Typed, Keeping
<1>2. pid \in Int /\ e # NoPacket /\ e \in Packets
  BY LoopAssumption DEF Pids, NoPacket, Packets
<1> HIDE DEF e
<1>3. f \in FlitSet /\ f.vc = v
  BY Zenon DEF Flit, FlitSet
<1>4. SendOn(b, f) /\ UNCHANGED <<buffer, expected, credits>>
  BY ZenonT(30) DEF TakeAndSend
<1> HIDE DEF f
<1>5. Keeping(b, o)
  BY <1>1, <1>2, TakeKeeps, ZenonT(30)
<1>6. SameKind(bs, b) /\ SameCounts(bs, b) /\ SameSlots(bs, b)
  BY <1>1, <1>2, TakeEffect, ZenonT(30)
<1> HIDE DEF b
<1>7. HasRoom(b, f.vc)
  <2>1. HasRoom(bs, v)
    BY <1>1, NotFullHasRoom, Zenon DEF TakeAndSend
  <2> QED BY <1>3, <1>6, <2>1, Zenon
          DEF SameKind, SameCounts, SameSlots, HasRoom, Shared, SharedIsFullFor
<1>8. /\ bs' = SendingFlit(b, f.vc, f.tail) /\ channel' = Append(channel, f)
      /\ open' = [o EXCEPT ![f.vc] = IF f.tail THEN NoPacket
                                     ELSE [pid |-> f.pid, begun |-> TRUE]]
  BY <1>1, <1>3, <1>4, ZenonT(30) DEF SendOn
<1>9. Conserved(b.vc_occupancy, channel, buffer, credits)
  BY <1>6, Zenon DEF CreditInv, SameCounts
<1>10. o \in [VCs -> Packets]
  BY <1>1, <1>2, Zenon
<1> HIDE DEF o
<1> QED BY <1>1, <1>3, <1>4, <1>5, <1>7, <1>8, <1>9, <1>10, SendOnStep, ZenonT(30)

(* A flit arrives at the router. *)
LEMMA ArriveStep ==
  ASSUME CreditInv, Arrive
  PROVE  CreditInv'
<1> DEFINE f == Head(channel)
<1>1. /\ open \in [VCs -> Packets] /\ channel \in Seq(FlitSet) /\ channel # <<>>
      /\ buffer \in [VCs -> Seq(FlitSet)] /\ expected \in [VCs -> Int] /\ credits \in Seq(VCs)
  BY Zenon DEF CreditInv, Typed, Arrive
<1>2. f \in FlitSet /\ Tail(channel) \in Seq(FlitSet)
  BY <1>1, SeqHeadTail, Zenon
<1>3. /\ channel' = Tail(channel) /\ buffer' = [buffer EXCEPT ![f.vc] = Append(@, f)]
      /\ expected' = [expected EXCEPT ![f.vc] = NextExpected(@, f)]
      /\ UNCHANGED <<bs, open, credits>>
  BY Zenon DEF Arrive
<1>4. f.vc \in VCs /\ f.tail \in BOOLEAN /\ ToInt(f.pid) \in Int
  BY <1>2, FlitTyped, Zenon
<1> HIDE DEF f
<1>5. NextExpected(expected[f.vc], f) \in Int
  <2>1. expected[f.vc] \in Int
    BY <1>1, <1>4, Zenon
  <2> QED BY <1>4, <2>1 DEF NextExpected
<1>6. buffer[f.vc] \in Seq(FlitSet)
  BY <1>1, <1>4, Zenon
<1>7. /\ Append(buffer[f.vc], f) \in Seq(FlitSet)
      /\ Len(Append(buffer[f.vc], f)) = Len(buffer[f.vc]) + 1
  BY <1>2, <1>6, SeqAppend
<1>8. buffer' \in [VCs -> Seq(FlitSet)] /\ expected' \in [VCs -> Int]
  BY <1>1, <1>3, <1>4, <1>5, <1>7, Zenon
<1>9. Typed'
  BY <1>1, <1>2, <1>3, <1>8, Zenon DEF Typed
<1>10. Conserved(bs'.vc_occupancy, channel', buffer', credits')
  <2> SUFFICES ASSUME NEW v \in VCs
               PROVE  bs'.vc_occupancy[v] = Cardinality(Hits(channel', FlitsOf(v)))
                                              + Len(buffer'[v]) + Cardinality(Hits(credits', {v}))
    BY Zenon DEF Conserved
  <2>1. bs.vc_occupancy[v] = Cardinality(Hits(channel, FlitsOf(v)))
                               + Len(buffer[v]) + Cardinality(Hits(credits, {v}))
    BY Zenon DEF CreditInv, Conserved
  <2>2. Cardinality(Hits(channel, FlitsOf(v))) =
          Cardinality(Hits(channel', FlitsOf(v))) + (IF f.vc = v THEN 1 ELSE 0)
    <3>1. f \in FlitsOf(v) <=> f.vc = v
      BY <1>2, Zenon DEF FlitsOf
    <3>2. Cardinality(Hits(channel, FlitsOf(v))) =
            Cardinality(Hits(Tail(channel), FlitsOf(v))) + (IF f \in FlitsOf(v) THEN 1 ELSE 0)
      BY <1>1, CountTail, Zenon DEF f
    <3> QED BY <1>3, <3>1, <3>2, Zenon
  <2>3. Len(buffer'[v]) = Len(buffer[v]) + (IF f.vc = v THEN 1 ELSE 0) /\ Len(buffer[v]) \in Nat
    <3>1. Len(buffer[v]) \in Nat
      BY <1>1, SeqLen, Zenon
    <3>2. CASE f.vc = v
      BY <1>1, <1>3, <1>7, <3>1, <3>2, Zenon
    <3>3. CASE f.vc # v
      <4>1. buffer'[v] = buffer[v]
        BY <1>1, <1>3, <3>3, Zenon
      <4> QED BY <3>1, <3>3, <4>1
    <3> QED BY <3>2, <3>3, ZenonT(30)
  <2>4. /\ Cardinality(Hits(channel', FlitsOf(v))) \in Nat /\ Cardinality(Hits(credits, {v})) \in Nat
    BY <1>1, <1>2, <1>3, CountsAre, ZenonT(30)
  <2>5. bs'.vc_occupancy[v] = bs.vc_occupancy[v] /\ credits' = credits
    BY <1>3, Zenon
  <2> DEFINE was == Cardinality(Hits(channel, FlitsOf(v)))
             is == Cardinality(Hits(channel', FlitsOf(v)))
             back == Cardinality(Hits(credits, {v}))
             k == IF f.vc = v THEN 1 ELSE 0
  <2>6. /\ bs.vc_occupancy[v] = was + Len(buffer[v]) + back /\ was = is + k
        /\ Len(buffer'[v]) = Len(buffer[v]) + k /\ k \in {0, 1}
        /\ is \in Nat /\ back \in Nat /\ Len(buffer[v]) \in Nat
        /\ back = Cardinality(Hits(credits', {v})) /\ bs'.vc_occupancy[v] = bs.vc_occupancy[v]
    BY <2>1, <2>2, <2>3, <2>4, <2>5, Zenon
  <2> HIDE DEF was, back, k
  <2> SUFFICES bs'.vc_occupancy[v] = is + Len(buffer'[v]) + back
    BY <2>6, Zenon
  <2> HIDE DEF is
  <2> QED BY <2>6
<1> QED BY <1>3, <1>9, <1>10, Zenon DEF CreditInv

(* The router passes a flit on. *)
LEMMA DrainStep ==
  ASSUME CreditInv, NEW u \in VCs, Drain(u)
  PROVE  CreditInv'
<1>1. /\ open \in [VCs -> Packets] /\ channel \in Seq(FlitSet)
      /\ buffer \in [VCs -> Seq(FlitSet)] /\ expected \in [VCs -> Int] /\ credits \in Seq(VCs)
  BY Zenon DEF CreditInv, Typed
<1>2. /\ buffer[u] \in Seq(FlitSet) /\ buffer[u] # <<>>
      /\ buffer' = [buffer EXCEPT ![u] = Tail(@)] /\ credits' = Append(credits, u)
      /\ UNCHANGED <<bs, open, channel, expected>>
  BY <1>1, Zenon DEF Drain
<1>3. Tail(buffer[u]) \in Seq(FlitSet) /\ Len(Tail(buffer[u])) = Len(buffer[u]) - 1
  BY <1>2, SeqHeadTail, Zenon
<1>4. credits' \in Seq(VCs)
  BY <1>1, <1>2, SeqAppend, Zenon
<1>5. Typed'
  BY <1>1, <1>2, <1>3, <1>4, Zenon DEF Typed
<1>6. Conserved(bs'.vc_occupancy, channel', buffer', credits')
  <2> SUFFICES ASSUME NEW v \in VCs
               PROVE  bs'.vc_occupancy[v] = Cardinality(Hits(channel', FlitsOf(v)))
                                              + Len(buffer'[v]) + Cardinality(Hits(credits', {v}))
    BY Zenon DEF Conserved
  <2> DEFINE on == Cardinality(Hits(channel, FlitsOf(v)))
             was == Cardinality(Hits(credits, {v}))
             is == Cardinality(Hits(credits', {v}))
             k == IF u = v THEN 1 ELSE 0
  <2>1. bs.vc_occupancy[v] = on + Len(buffer[v]) + was
    BY Zenon DEF CreditInv, Conserved
  <2>2. is = was + k
    <3>1. u \in {v} <=> u = v
      BY Zenon
    <3>2. is = was + (IF u \in {v} THEN 1 ELSE 0)
      BY <1>1, <1>2, CountAppend
    <3> QED BY <3>1, <3>2, Zenon
  <2>3. Len(buffer'[v]) = Len(buffer[v]) - k /\ Len(buffer[v]) \in Nat
    <3>1. Len(buffer[v]) \in Nat
      BY <1>1, SeqLen, Zenon
    <3>2. CASE u = v
      BY <1>1, <1>2, <1>3, <3>1, <3>2, Zenon
    <3>3. CASE u # v
      <4>1. buffer'[v] = buffer[v]
        BY <1>1, <1>2, <3>3, Zenon
      <4> QED BY <3>1, <3>3, <4>1
    <3> QED BY <3>2, <3>3, ZenonT(30)
  <2>4. on \in Nat /\ was \in Nat /\ k \in {0, 1}
    BY <1>1, CountsAre, ZenonT(30)
  <2>5. bs' = bs /\ channel' = channel
    BY <1>2, Zenon
  <2> DEFINE held == Len(buffer[v])
             holds == Len(buffer'[v])
  <2>6. /\ bs.vc_occupancy[v] = on + held + was /\ is = was + k /\ holds = held - k
        /\ on \in Nat /\ was \in Nat /\ held \in Nat /\ k \in {0, 1}
    BY <2>1, <2>2, <2>3, <2>4, Zenon
  <2> SUFFICES bs.vc_occupancy[v] = on + holds + is
    BY <2>5, Zenon
  <2> HIDE DEF on, was, is, k, held, holds
  <2> QED BY <2>6
<1> QED BY <1>2, <1>5, <1>6, Zenon DEF CreditInv

(* A credit under way stands for a slot in use. *)
LEMMA HeadCounted ==
  ASSUME CreditInv, credits # <<>>
  PROVE  bs.vc_occupancy[Head(credits)] > 0
<1> DEFINE u == Head(credits)
           on == Cardinality(Hits(channel, FlitsOf(u)))
           was == Cardinality(Hits(credits, {u}))
           rest == Cardinality(Hits(Tail(credits), {u}))
           held == Len(buffer[u])
           all == bs.vc_occupancy[u]
<1>1. /\ channel \in Seq(FlitSet) /\ buffer \in [VCs -> Seq(FlitSet)] /\ credits \in Seq(VCs)
  BY Zenon DEF CreditInv, Typed
<1>2. u \in VCs /\ Tail(credits) \in Seq(VCs)
  BY <1>1, SeqHeadTail, Zenon
<1>3. was = rest + (IF u \in {u} THEN 1 ELSE 0)
  BY <1>1, CountTail, Zenon
<1>4. on \in Nat /\ held \in Nat /\ rest \in Nat
  BY <1>1, <1>2, CountsAre, SeqLen, ZenonT(30)
<1>5. all = on + held + was
  BY <1>2, Zenon DEF CreditInv, Conserved
<1> HIDE DEF on, was, rest, held, all
<1>6. was = rest + 1
  BY <1>3, Zenon
<1>7. all > 0
  BY <1>4, <1>5, <1>6
<1> QED BY <1>7, Zenon DEF all

(* The sender reads a credit. *)
LEMMA ReadCreditStep ==
  ASSUME CreditInv, ReadCredit
  PROVE  CreditInv'
<1> DEFINE u == Head(credits)
           n == ProcessCredit(bs, u)
<1>1. /\ open \in [VCs -> Packets] /\ channel \in Seq(FlitSet) /\ credits # <<>>
      /\ buffer \in [VCs -> Seq(FlitSet)] /\ expected \in [VCs -> Int] /\ credits \in Seq(VCs)
      /\ Keeping(bs, open)
  BY Zenon DEF CreditInv, Typed, ReadCredit
<1>2. u \in VCs /\ Tail(credits) \in Seq(VCs)
  BY <1>1, SeqHeadTail, Zenon
<1>3. bs' = n /\ credits' = Tail(credits) /\ UNCHANGED <<open, channel, buffer, expected>>
  BY Zenon DEF ReadCredit
<1>4. \A v \in VCs : Cardinality(Hits(credits, {v})) =
                       Cardinality(Hits(credits', {v})) + (IF u = v THEN 1 ELSE 0)
  <2> SUFFICES ASSUME NEW v \in VCs
               PROVE  Cardinality(Hits(credits, {v})) =
                        Cardinality(Hits(credits', {v})) + (IF u = v THEN 1 ELSE 0)
    BY Zenon
  <2>1. u \in {v} <=> u = v
    BY Zenon
  <2>2. Cardinality(Hits(credits, {v})) =
          Cardinality(Hits(Tail(credits), {v})) + (IF u \in {v} THEN 1 ELSE 0)
    BY <1>1, CountTail, Zenon
  <2> HIDE DEF u
  <2> QED BY <1>3, <2>1, <2>2, Zenon
<1>5. \A v \in VCs : /\ Cardinality(Hits(channel, FlitsOf(v))) \in Nat /\ Len(buffer[v]) \in Nat
                     /\ Cardinality(Hits(credits', {v})) \in Nat
  BY <1>1, <1>2, <1>3, CountsAre, SeqLen, ZenonT(30)
<1>6. \A v \in VCs : bs.vc_occupancy[v] = Cardinality(Hits(channel, FlitsOf(v)))
                               + Len(buffer[v]) + Cardinality(Hits(credits, {v}))
  BY Zenon DEF CreditInv, Conserved
<1> HIDE DEF u, n
<1>7. bs.vc_occupancy[u] > 0
  BY <1>1, HeadCounted, Zenon DEF u
<1>8. Keeping(n, open)
  BY <1>1, <1>2, <1>7, CreditKeeps, Zenon DEF n
<1>9. \A v \in VCs : n.vc_occupancy[v] = bs.vc_occupancy[v] - (IF u = v THEN 1 ELSE 0)
  <2>1. bs \in Raw /\ bs.vc_occupancy \in [VCs -> Nat]
    BY <1>1, Zenon DEF Keeping, Counting
  <2>2. /\ n \in Raw /\ SameKind(bs, n) /\ SameHeld(bs, n) /\ n.tail_sent = bs.tail_sent
        /\ n.occupancy = bs.occupancy - 1
        /\ n.vc_occupancy = [bs.vc_occupancy EXCEPT ![u] = @ - 1]
        /\ n.in_use_by = IF bs.wait_for_tail_credit /\ bs.vc_occupancy[u] = 1 /\ bs.tail_sent[u]
                         THEN [bs.in_use_by EXCEPT ![u] = -1] ELSE bs.in_use_by
        /\ ~Shared(bs) => SameSlots(bs, n)
        /\ Shared(bs) => IF n.in_use_by[u] >= 0 /\ n.vc_occupancy[u] = 0
                         THEN Claims(n, bs, u) ELSE Fills(n, bs, u)
    BY <1>2, <2>1, CreditEffect, ZenonT(30) DEF n
  <2> QED BY <1>2, <2>1, <2>2
<1>10. Conserved(bs'.vc_occupancy, channel', buffer', credits')
  <2> SUFFICES ASSUME NEW v \in VCs
               PROVE  bs'.vc_occupancy[v] = Cardinality(Hits(channel', FlitsOf(v)))
                                              + Len(buffer'[v]) + Cardinality(Hits(credits', {v}))
    BY Zenon DEF Conserved
  <2> DEFINE on == Cardinality(Hits(channel, FlitsOf(v)))
             was == Cardinality(Hits(credits, {v}))
             is == Cardinality(Hits(credits', {v}))
             k == IF u = v THEN 1 ELSE 0
  <2>1. /\ bs.vc_occupancy[v] = on + Len(buffer[v]) + was /\ was = is + k
        /\ n.vc_occupancy[v] = bs.vc_occupancy[v] - k /\ k \in {0, 1}
        /\ on \in Nat /\ is \in Nat /\ Len(buffer[v]) \in Nat
    BY <1>4, <1>5, <1>6, <1>9, Zenon
  <2> SUFFICES n.vc_occupancy[v] = on + Len(buffer[v]) + is
    BY <1>3, Zenon
  <2> HIDE DEF on, was, is, k
  <2> QED BY <2>1
<1>11. Typed'
  BY <1>1, <1>2, <1>3, Zenon DEF Typed
<1> QED BY <1>3, <1>8, <1>10, <1>11, Zenon DEF CreditInv

(* Every step keeps the invariant. *)
LEMMA StepKeepsCredits ==
  ASSUME CreditInv, [LoopNext]_loopVars
  PROVE  CreditInv'
<1>1. CASE LoopNext
  BY <1>1, TakeStep, SendStep, TakeAndSendStep, ArriveStep, DrainStep, ReadCreditStep, Zenon
     DEF LoopNext
<1>2. CASE UNCHANGED loopVars
  BY <1>2, Zenon DEF loopVars, CreditInv, Typed
<1> QED BY <1>1, <1>2, Zenon

(* It holds at the start. *)
LEMMA InitKeepsCredits ==
  ASSUME LoopInit
  PROVE  CreditInv
<1>1. PICK p \in SomePolicies, w \in SomeWaits : bs = NewBufferState(p, w)
  BY DEF LoopInit
<1>2. p \in Policies /\ w \in BOOLEAN
  BY LoopAssumption, Zenon
<1>3. bs \in Raw /\ Counting(bs) /\ Sums(bs)
  BY <1>1, <1>2, SumsInitial, Zenon
<1>4. /\ bs.vc_occupancy = [v \in VCs |-> 0] /\ bs.in_use_by = [v \in VCs |-> -1]
      /\ bs.shared_buf_occupancy = 0 /\ bs.reserved_slots = [v \in VCs |-> 0]
  BY <1>1, Zenon DEF NewBufferState
<1>5. Keeping(bs, open)
  <2>1. VcBufSize >= 0
    BY BufferAssumption DEF VcBufSize
  <2>2. ASSUME NEW v \in VCs PROVE VCKept(bs, open, v)
    BY <1>4, <2>1 DEF VCKept
  <2> QED BY <1>3, <1>4, <2>2, SharedSizeNat DEF Keeping
<1>6. Typed
  BY SeqEmpty DEF LoopInit, Typed, Packets
<1>7. Conserved(bs.vc_occupancy, channel, buffer, credits)
  <2> SUFFICES ASSUME NEW v \in VCs
               PROVE  bs.vc_occupancy[v] = Cardinality(Hits(channel, FlitsOf(v)))
                                             + Len(buffer[v]) + Cardinality(Hits(credits, {v}))
    BY Zenon DEF Conserved
  <2>1. Hits(channel, FlitsOf(v)) = {} /\ Hits(credits, {v}) = {} /\ Len(buffer[v]) = 0
    BY DEF LoopInit, Hits
  <2>2. Cardinality({}) = 0
    BY FS_EmptySet, Zenon
  <2>3. bs.vc_occupancy[v] = 0
    BY <1>4, Zenon
  <2>4. Cardinality(Hits(channel, FlitsOf(v))) = 0 /\ Cardinality(Hits(credits, {v})) = 0
    BY <2>1, <2>2, ZenonT(30)
  <2>5. Len(buffer[v]) = 0
    BY <2>1, Zenon
  <2> HIDE DEF LoopInit
  <2> QED BY <2>3, <2>4, <2>5
<1> QED BY <1>5, <1>6, <1>7, Zenon DEF CreditInv

(* No credit is lost or invented, whatever the policy, the sizes and the      *)
(* order in which flits and credits travel: what SendingFlit and              *)
(* ProcessCredit count is what is under way and in the router.                *)
THEOREM CreditsAreConserved == LoopSpec => []CreditsConserved
<1>1. CreditInv => CreditsConserved
  <2> SUFFICES ASSUME CreditInv, NEW v \in VCs
               PROVE  bs.vc_occupancy[v] = InChannel(v) + Len(buffer[v]) + InCredits(v)
    BY Zenon DEF CreditsConserved
  <2>1. channel \in Seq(FlitSet) /\ credits \in Seq(VCs)
    BY Zenon DEF CreditInv, Typed
  <2>2. /\ InChannel(v) = Cardinality(Hits(channel, FlitsOf(v)))
        /\ InCredits(v) = Cardinality(Hits(credits, {v}))
    BY <2>1, CountsAre, ZenonT(30) DEF InChannel, InCredits
  <2> QED BY <2>2, Zenon DEF CreditInv, Conserved
<1> QED BY <1>1, InitKeepsCredits, StepKeepsCredits, PTL DEF LoopSpec

(* A slot is reserved only for a packet that holds its VC and has no flit     *)
(* under way on it (_reserved_slots of SharedBufferPolicy).                   *)
THEOREM ReservedForHolder == LoopSpec => []ReservedIsHeld
<1>1. CreditInv => ReservedIsHeld
  BY DEF CreditInv, Keeping, VCKept, ReservedIsHeld, IsEmptyFor
<1> QED BY <1>1, InitKeepsCredits, StepKeepsCredits, PTL DEF LoopSpec

(* The VCs' parts of a divided buffer fit into it. *)
LEMMA PartsFit ==
  /\ VcBufSize \in Nat \ {0}
  /\ Total([v \in VCs |-> VcBufSize], VCs) <= BufSize
<1> DEFINE f == [v \in VCs |-> VcBufSize]
<1>1. NumVCs \in Nat \ {0} /\ BufSize \in Nat /\ NumVCs <= BufSize
  BY BufferAssumption, Zenon
<1>2. VcBufSize \in Nat \ {0} /\ NumVCs * VcBufSize <= BufSize
  BY <1>1 DEF VcBufSize
<1>3. SlotsOf(f, VCs) = VCs \X (1 .. VcBufSize)
  <2>1. \A v \in VCs : f[v] = VcBufSize
    BY Zenon
  <2> HIDE DEF f
  <2> QED BY <2>1 DEF SlotsOf
<1>4. IsFiniteSet(1 .. VcBufSize) /\ Cardinality(1 .. VcBufSize) = VcBufSize
  BY <1>2, FS_Interval
<1>5. Cardinality(VCs \X (1 .. VcBufSize)) = NumVCs * VcBufSize
  BY <1>4, FiniteParts, FS_Product, ZenonT(30)
<1>6. Total(f, VCs) = NumVCs * VcBufSize
  BY <1>3, <1>5, ZenonT(30) DEF Total
<1> QED BY <1>2, <1>6, Zenon

(* The buffer never overflows, by the sender's count or at the router, and    *)
(* nobody uses more of the shared part than there is (the Error calls of      *)
(* BufferState::SendingFlit, SharedBufferPolicy::SendingFlit and              *)
(* Buffer::AddFlit are not reached).                                          *)
THEOREM BufferNeverOverflows == LoopSpec => []NoOverflow
<1>1. CreditInv => NoOverflow
  <2> SUFFICES ASSUME CreditInv PROVE NoOverflow
    BY Zenon
  <2>1. /\ bs \in Raw /\ Counting(bs) /\ Sums(bs) /\ bs.shared_buf_occupancy <= SharedSize
        /\ \A v \in VCs : VCKept(bs, open, v)
    BY Zenon DEF CreditInv, Keeping
  <2>2. ~Shared(bs) => \A v \in VCs : bs.vc_occupancy[v] <= VcBufSize
    BY <2>1, Zenon DEF VCKept
  <2>3. /\ Natural(bs.vc_occupancy, VCs) /\ IsFiniteSet(VCs) /\ Total(bs.vc_occupancy, VCs) \in Nat
        /\ Total(bs.reserved_slots, VCs) \in Nat
        /\ Total(bs.private_buf_occupancy, PrivateBufs) \in Nat
        /\ Total(Below(bs), PrivateBufs) \in Nat /\ Total(PrivateSize, PrivateBufs) \in Nat
    BY <2>1, FiniteParts, SumsNatural, SlotsFinite, Zenon
  <2>4. bs.occupancy = Total(bs.vc_occupancy, VCs)
    BY <2>1, Zenon DEF Sums, OccSum
  <2>5. bs.occupancy <= BufSize
    <3>1. CASE Shared(bs)
      <4>1. /\ bs.occupancy + Total(bs.reserved_slots, VCs) =
                 Total(bs.private_buf_occupancy, PrivateBufs)
            /\ Total(bs.private_buf_occupancy, PrivateBufs) + Total(Below(bs), PrivateBufs) =
                 Total(PrivateSize, PrivateBufs) + bs.shared_buf_occupancy
        BY <2>1, <3>1, Zenon DEF Sums, AllSum, RoomSum
      <4>2. SharedSize = BufSize - Total(PrivateSize, PrivateBufs) /\ BufSize \in Nat
        BY BufferAssumption, Zenon DEF SharedSize
      <4>3. bs.shared_buf_occupancy \in Int /\ bs.occupancy \in Int
        BY <2>1, Zenon DEF Raw
      <4> QED BY <2>1, <2>3, <4>1, <4>2, <4>3
    <3>2. CASE ~Shared(bs)
      <4> DEFINE f == [v \in VCs |-> VcBufSize]
      <4>1. Natural(f, VCs) /\ \A v \in VCs : bs.vc_occupancy[v] <= f[v]
        BY <2>2, <3>2, PartsFit, Zenon DEF Natural
      <4>2. Total(f, VCs) <= BufSize
        BY PartsFit, Zenon
      <4> HIDE DEF f
      <4>3. Total(bs.vc_occupancy, VCs) <= Total(f, VCs) /\ Total(f, VCs) \in Nat
        BY <2>3, <4>1, TotalLeq, SlotsFinite, Zenon
      <4> QED BY <2>3, <2>4, <4>2, <4>3, BufferAssumption
    <3> QED BY <3>1, <3>2, Zenon
  <2>6. Total([v \in VCs |-> Len(buffer[v])], VCs) <= BufSize
    <3> DEFINE f == [v \in VCs |-> Len(buffer[v])]
    <3>1. ASSUME NEW v \in VCs PROVE f[v] \in Nat /\ f[v] <= bs.vc_occupancy[v]
      <4>1. channel \in Seq(FlitSet) /\ credits \in Seq(VCs) /\ buffer[v] \in Seq(FlitSet)
        BY Zenon DEF CreditInv, Typed
      <4>2. /\ Len(buffer[v]) \in Nat
            /\ Cardinality(Hits(channel, FlitsOf(v))) \in Nat /\ Cardinality(Hits(credits, {v})) \in Nat
        BY <4>1, CountsAre, SeqLen, ZenonT(30)
      <4>3. bs.vc_occupancy[v] = Cardinality(Hits(channel, FlitsOf(v)))
                                   + Len(buffer[v]) + Cardinality(Hits(credits, {v}))
        BY Zenon DEF CreditInv, Conserved
      <4> DEFINE on == Cardinality(Hits(channel, FlitsOf(v)))
                 back == Cardinality(Hits(credits, {v}))
                 held == Len(buffer[v])
      <4>4. /\ f[v] = held /\ held \in Nat /\ on \in Nat /\ back \in Nat
            /\ bs.vc_occupancy[v] = on + held + back
        BY <4>2, <4>3, Zenon
      <4> HIDE DEF f, on, back, held
      <4> QED BY <4>4
    <3> HIDE DEF f
    <3>2. Natural(f, VCs) /\ \A v \in VCs : f[v] <= bs.vc_occupancy[v]
      BY <3>1, Zenon DEF Natural
    <3>3. Total(f, VCs) <= Total(bs.vc_occupancy, VCs) /\ Total(f, VCs) \in Nat
      BY <2>3, <3>2, TotalLeq, SlotsFinite, Zenon
    <3>4. Total(f, VCs) <= BufSize
      BY <2>3, <2>4, <2>5, <3>3, BufferAssumption
    <3> QED BY <3>4, Zenon DEF f
  <2> QED BY <2>1, <2>2, <2>5, <2>6, Zenon DEF NoOverflow
<1> QED BY <1>1, InitKeepsCredits, StepKeepsCredits, PTL DEF LoopSpec

(* The counters that BufferState and the shared policy keep one flit at a     *)
(* time are the sums they stand for.                                          *)
THEOREM CountersAddUp == LoopSpec => []SlotsAddUp
<1>1. CreditInv => SlotsAddUp
  <2> SUFFICES ASSUME CreditInv PROVE SlotsAddUp
    BY Zenon
  <2>1. Sums(bs)
    BY Zenon DEF CreditInv, Keeping
  <2>2. bs.occupancy = Total(bs.vc_occupancy, VCs)
    BY <2>1, Zenon DEF Sums, OccSum
  <2>3. ASSUME Shared(bs)
        PROVE  /\ \A i \in PrivateBufs :
                    bs.private_buf_occupancy[i] =
                      Total([v \in VCs |-> bs.vc_occupancy[v] + bs.reserved_slots[v]],
                            {v \in VCs : PrivateOf[v] = i})
               /\ bs.shared_buf_occupancy =
                    Total([i \in PrivateBufs |->
                             Positive(bs.private_buf_occupancy[i] - PrivateSize[i])], PrivateBufs)
    <3>1. PrivateSum(bs) /\ SharedSum(bs)
      BY <2>1, <2>3, Zenon DEF Sums
    <3> QED BY <3>1, Zenon DEF PrivateSum, SharedSum, Kept, MineOf, Above
  <2> QED BY <2>2, <2>3, Zenon DEF SlotsAddUp
<1> QED BY <1>1, InitKeepsCredits, StepKeepsCredits, PTL DEF LoopSpec

(***************************************************************************)
(* No count of the sender falls below zero, whatever the order in which    *)
(* credits come back: the Error calls "occupancy fell below zero" of       *)
(* BufferState::ProcessCredit and SharedBufferPolicy::ProcessFreeSlot are  *)
(* out of reach.                                                           *)
(***************************************************************************)
THEOREM CountersStayNatural == LoopSpec => []CountersNatural
<1>1. CreditInv => CountersNatural
  <2> SUFFICES ASSUME CreditInv PROVE CountersNatural
    BY Zenon
  <2>1. Counting(bs) /\ Sums(bs)
    BY Zenon DEF CreditInv, Keeping
  <2>2. Natural(bs.vc_occupancy, VCs) /\ Natural(Above(bs), PrivateBufs)
    BY <2>1, SumsNatural, Zenon
  <2>3. Total(bs.vc_occupancy, VCs) \in Nat /\ Total(Above(bs), PrivateBufs) \in Nat
    BY <2>2, FiniteParts, SlotsFinite, Zenon
  <2>4. bs.occupancy \in Nat
    BY <2>1, <2>3, Zenon DEF Sums, OccSum
  <2>5. Shared(bs) => bs.shared_buf_occupancy \in Nat
    BY <2>1, <2>3, Zenon DEF Sums, SharedSum
  <2> QED BY <2>1, <2>4, <2>5, Zenon DEF Counting, CountersNatural
<1> QED BY <1>1, InitKeepsCredits, StepKeepsCredits, PTL DEF LoopSpec

=============================================================================
