--------------------------- MODULE AllocatorProofs --------------------------
(***************************************************************************)
(* Proofs about Allocator, for any number of inputs and outputs: the       *)
(* allocators compute matchings of the requests; wavefront, and enough     *)
(* iterations, leave nothing to match; and every round with requests       *)
(* grants one.                                                             *)
(***************************************************************************)
EXTENDS Allocator, TLAPS, WellFoundedInduction, FiniteSetTheorems

(* More time than by default for the provers. *)
USE SMTT(30), ZenonT(30)

-----------------------------------------------------------------------------
(* Arithmetic modulo a size. *)

(* A remainder indexes a vector of n elements. *)
LEMMA ModRange ==
  ASSUME NEW n \in Nat \ {0}, NEW x \in Int
  PROVE  x % n \in 0 .. n - 1
  BY SMT

(* Numbers below 3n, which DiagonalInput takes modulo n. *)
LEMMA ModSmall ==
  ASSUME NEW n \in Nat \ {0}, NEW x \in 0 .. n - 1
  PROVE  x % n = x /\ (x + n) % n = x /\ (x + n + n) % n = x
  <1>1. x % n = x
    BY SMT
  <1>2. (x + n) % n = x
    BY SMT
  <1>3. (x + n + n) % n = x
    BY SMT
  <1> QED BY <1>1, <1>2, <1>3, Zenon

(* Such a number is its remainder plus 0, n or 2n. *)
LEMMA ModCases ==
  ASSUME NEW n \in Nat \ {0}, NEW x \in 0 .. 3 * n - 1
  PROVE  x % n \in 0 .. n - 1 /\ x \in {x % n, (x % n) + n, (x % n) + n + n}
  <1>1. PICK y \in 0 .. n - 1 : x = y \/ x = y + n \/ x = y + n + n
    <2>1. CASE x < n
      BY <2>1
    <2>2. CASE n <= x /\ x < n + n
      <3>1. x - n \in 0 .. n - 1 /\ x = (x - n) + n
        BY <2>2
      <3> QED BY <3>1, Zenon
    <2>3. CASE n + n <= x
      <3>1. x - n - n \in 0 .. n - 1 /\ x = (x - n - n) + n + n
        BY <2>3
      <3> QED BY <3>1, Zenon
    <2> QED BY <2>1, <2>2, <2>3
  <1>2. x % n = y
    BY <1>1, ModSmall, Zenon
  <1> QED BY <1>1, <1>2, Zenon

(* Two of them with one remainder that are less than n apart are equal. *)
LEMMA ModInjective ==
  ASSUME NEW n \in Nat \ {0}, NEW x \in 0 .. 3 * n - 1, NEW y \in 0 .. 3 * n - 1,
         x % n = y % n, x - y < n, y - x < n
  PROVE  x = y
  <1>1. x % n \in 0 .. n - 1
    BY ModCases, Zenon
  <1>2. x \in {x % n, (x % n) + n, (x % n) + n + n}
    BY ModCases, Zenon
  <1>3. y \in {x % n, (x % n) + n, (x % n) + n + n}
    BY ModCases, Zenon
  <1> DEFINE m == x % n
  <1> HIDE DEF m
  <1>4. m \in 0 .. n - 1 /\ x \in {m, m + n, m + n + n} /\ y \in {m, m + n, m + n + n}
    BY <1>1, <1>2, <1>3, Zenon DEF m
  <1> QED BY <1>4

-----------------------------------------------------------------------------
(* Arbiters. *)

(* A nonempty set has an element whose key is least. *)
LEMMA LeastKey ==
  ASSUME NEW S, S # {}, NEW key \in [S -> Nat]
  PROVE  \E x \in S : \A y \in S : key[x] <= key[y]
  <1> DEFINE T == {key[x] : x \in S}
  <1>1. T \subseteq Nat /\ T # {}
    BY Zenon
  <1>2. PICK m \in T : \A k \in T : ~(<<k, m>> \in OpToRel(<, Nat))
    BY <1>1, WFMin, NatLessThanWellFounded, Zenon
  <1>3. \A j, k \in Nat : j < k => <<j, k>> \in OpToRel(<, Nat)
    BY Zenon DEF OpToRel
  <1>4. \A k \in T : ~(k < m)
    BY <1>1, <1>2, <1>3, Zenon
  <1>5. \A k \in T : m <= k
    BY <1>1, <1>4
  <1> QED BY <1>5, Zenon

(* A round-robin arbiter with requests selects one of them. *)
LEMMA RoundRobinSelects ==
  ASSUME NEW n \in Nat \ {0}, NEW S \in SUBSET (0 .. n - 1), NEW ptr \in 0 .. n - 1
  PROVE  /\ S # {} => RoundRobin(S, ptr, n) \in S
         /\ S = {} => RoundRobin(S, ptr, n) = None
  <1>1. ASSUME S # {} PROVE RoundRobin(S, ptr, n) \in S
    <2> DEFINE key == [x \in S |-> Distance(x, ptr, n)]
    <2>1. key \in [S -> Nat]
      <3>1. ASSUME NEW x \in S PROVE Distance(x, ptr, n) \in Nat
        <4>1. (x - ptr) + n \in Int
          OBVIOUS
        <4> QED BY <4>1, ModRange DEF Distance
      <3> QED BY <3>1, Zenon
    <2>2. \E x \in S : \A y \in S : key[x] <= key[y]
      <3> HIDE DEF key
      <3> QED BY <1>1, <2>1, LeastKey, Zenon
    <2>3. \E x \in S : \A y \in S : Distance(x, ptr, n) <= Distance(y, ptr, n)
      BY <2>2, Zenon
    <2> QED BY <1>1, <2>3, Zenon DEF RoundRobin
  <1> QED BY <1>1, Zenon DEF RoundRobin

(* A matrix arbiter selects one of its requests or none. *)
LEMMA MatrixPickSelects ==
  ASSUME NEW S \in SUBSET Nat, NEW beats
  PROVE  MatrixPick(S, beats) \in S \cup {None}
  <1> DEFINE U == {x \in S : \A y \in S : <<y, x>> \notin beats}
  <1>1. ASSUME U # {} PROVE \E x \in U : \A y \in U : x <= y
    <2> DEFINE key == [x \in U |-> x]
    <2>1. key \in [U -> Nat]
      BY Zenon
    <2>2. \E x \in U : \A y \in U : key[x] <= key[y]
      <3> HIDE DEF key, U
      <3> QED BY <1>1, <2>1, LeastKey, Zenon
    <2> QED BY <2>2, Zenon
  <1>2. U # {} => (CHOOSE x \in U : \A y \in U : x <= y) \in U
    BY <1>1, Zenon
  <1>3. MatrixPick(S, beats) =
          IF U = {} THEN None ELSE CHOOSE x \in U : \A y \in U : x <= y
    BY Zenon DEF MatrixPick
  <1>4. U \subseteq S
    BY Zenon
  <1> HIDE DEF U
  <1> QED BY <1>2, <1>3, <1>4, Zenon

(* A finite set that gains an element has one more at least. *)
LEMMA StrictlyMore ==
  ASSUME NEW T, IsFiniteSet(T), NEW S \in SUBSET T, NEW x \in T, x \notin S
  PROVE  Cardinality(S) + 1 <= Cardinality(T)
  <1>1. /\ IsFiniteSet(S) /\ Cardinality(S) <= Cardinality(T)
        /\ Cardinality(S) # Cardinality(T)
    BY FS_Subset, Zenon
  <1>2. Cardinality(S) \in Nat /\ Cardinality(T) \in Nat
    BY <1>1, FS_CardinalityType, Zenon
  <1> QED BY <1>1, <1>2

(* The matrix of an arbiter is a strict order, so one request is unbeaten. *)
StrictOrder(beats) ==
  /\ \A p \in beats : p[1] # p[2]
  /\ \A p, q \in beats : p[2] = q[1] => <<p[1], q[2]>> \in beats

(* Of some requests, the one that beats most others is beaten by none. *)
LEMMA MatrixPickDecides ==
  ASSUME NEW n \in Nat \ {0}, NEW S \in SUBSET (0 .. n - 1), S # {},
         NEW beats \in SUBSET ((0 .. n - 1) \X (0 .. n - 1)), StrictOrder(beats)
  PROVE  MatrixPick(S, beats) \in S
  <1> DEFINE N == 0 .. n - 1
             Below(x) == {y \in N : <<x, y>> \in beats}
             key == [x \in S |-> n - Cardinality(Below(x))]
  <1>1. IsFiniteSet(N) /\ Cardinality(N) = n
    BY FS_Interval
  <1>2. \A x \in S : /\ IsFiniteSet(Below(x)) /\ Cardinality(Below(x)) \in Nat
                     /\ Cardinality(Below(x)) <= n
    <2>1. \A x \in S : Below(x) \in SUBSET N
      BY Zenon
    <2> HIDE DEF N, Below
    <2> QED BY <1>1, <2>1, FS_Subset, FS_CardinalityType, Zenon
  <1>3. key \in [S -> Nat]
    <2> HIDE DEF Below
    <2> QED BY <1>2
  <1>4. PICK x \in S : \A y \in S : key[x] <= key[y]
    <2> HIDE DEF key
    <2> QED BY <1>3, LeastKey, Zenon
  <1>5. ASSUME NEW y \in S, <<y, x>> \in beats PROVE FALSE
    <2>1. Below(x) \in SUBSET Below(y)
      BY <1>5, Zenon DEF StrictOrder
    <2>2. x \in Below(y) /\ x \notin Below(x)
      BY <1>5, Zenon DEF StrictOrder
    <2>3. Cardinality(Below(x)) + 1 <= Cardinality(Below(y))
      <3> HIDE DEF Below
      <3> QED BY <1>2, <2>1, <2>2, StrictlyMore, Zenon
    <2>4. key[x] > key[y]
      <3> HIDE DEF Below
      <3> QED BY <1>2, <2>3
    <2> HIDE DEF key
    <2> QED BY <1>3, <1>4, <2>4
  <1> DEFINE U == {z \in S : \A y \in S : <<y, z>> \notin beats}
  <1>6. U # {}
    BY <1>5, Zenon
  <1>7. MatrixPick(S, beats) = CHOOSE z \in U : \A y \in U : z <= y
    BY <1>6, Zenon DEF MatrixPick
  <1>8. \E z \in U : \A y \in U : z <= y
    <2> DEFINE id == [z \in U |-> z]
    <2>1. id \in [U -> Nat]
      <3>1. S \subseteq Nat /\ U \subseteq S
        <4> HIDE DEF key, Below
        <4> QED OBVIOUS
      <3> HIDE DEF U
      <3> QED BY <3>1, Zenon
    <2>2. \E z \in U : \A y \in U : id[z] <= id[y]
      <3> HIDE DEF id, U
      <3> QED BY <1>6, <2>1, LeastKey, Zenon
    <2> QED BY <2>2, Zenon
  <1>9. U \subseteq S
    BY Zenon
  <1> HIDE DEF U
  <1> QED BY <1>7, <1>8, <1>9, Zenon

(* Either arbiter selects a request or none; one if its matrix is in order. *)
LEMMA ArbiterSelects ==
  ASSUME NEW n \in Nat \ {0}, NEW S \in SUBSET (0 .. n - 1), NEW ptr \in 0 .. n - 1,
         NEW beats \in SUBSET ((0 .. n - 1) \X (0 .. n - 1))
  PROVE  /\ Arbitrate(S, ptr, beats, n) \in S \cup {None}
         /\ StrictOrder(beats) /\ S # {} => Arbitrate(S, ptr, beats, n) \in S
  <1>1. S \in SUBSET Nat
    OBVIOUS
  <1> QED BY <1>1, RoundRobinSelects, MatrixPickSelects, MatrixPickDecides, Zenon DEF Arbitrate

-----------------------------------------------------------------------------
(* The inductive invariant. *)

(* SelAlloc computes a matching only with one iteration: a second one sees   *)
(* old grants.  The search of MaxSizeMatch is a recursive function, which is *)
(* left to TLC.                                                              *)
Provable == Iters["select"] = 1 /\ "max_size" \notin SomeTypes

Untouched ==
  /\ \A i \in Inputs : inmatch[i] = None
  /\ \A o \in Outputs : outmatch[o] = None /\ grants[o] = None

MatchingInv ==
  /\ TypeOK
  /\ Matching
  /\ phase = "allocate" /\ iter = 0 => Untouched
  /\ phase = "allocate" /\ type \in Iterative => iter < Iters[type]
  /\ phase = "allocate" /\ type \in Wavefronts => iter < Square
  /\ type \in Separables => arb \in SomeArbs

(* The matrices of all arbiters are in order. *)
Ordered ==
  /\ \A i \in Inputs : StrictOrder(inBeats[i])
  /\ \A o \in Outputs : StrictOrder(outBeats[o])

(* A request whose input or output is matched, and the cells of a diagonal. *)
Settled(r) == inmatch[r[1]] # None \/ outmatch[r[2]] # None
AllSettled == \A r \in requests : Settled(r)
OnDiagonal(r, p) == r[1] = ((pri + p) + (Square - r[2])) % Square

(* The sizes are positive. *)
LEMMA Sizes ==
  /\ NumInputs \in Nat \ {0} /\ NumOutputs \in Nat \ {0} /\ Square \in Nat \ {0}
  /\ NumInputs <= Square /\ NumOutputs <= Square
  /\ None \notin Inputs /\ None \notin Outputs
  BY AllocatorAssumption DEF AllocatorAssumption, Square, Inputs, Outputs, None

(* Every type of allocator is of one kind. *)
LEMMA TypesAre ==
  ASSUME TypeOK
  PROVE  type \in Types /\ Iters[type] \in Nat \ {0}
  BY AllocatorAssumption, Zenon DEF TypeOK, AllocatorAssumption

-----------------------------------------------------------------------------
(* Iterations. *)

(* What the grants of an iteration and the accepted ones have in common. *)
IsGrant(g) ==
  /\ g \in [Outputs -> Inputs \cup {None}]
  /\ \A o \in Outputs : g[o] # None => g[o] \in Candidates(o)
  /\ \A o \in Outputs : Candidates(o) # {} => g[o] # None
IsAccept(g, a) ==
  /\ a \in [Inputs -> Outputs \cup {None}]
  /\ \A i \in Inputs : a[i] # None => a[i] \in Offers(i, g)
  /\ \A i \in Inputs : Offers(i, g) # {} => a[i] # None

(* The round-robin grants of iSLIP and SelAlloc. *)
LEMMA GrantPhaseGrants ==
  ASSUME MatchingInv, Provable, phase = "allocate", type \in {"islip", "select"}
  PROVE  IsGrant(GrantPhase)
  <1>1. ASSUME NEW o \in Outputs PROVE OldGrant(o) = None
    <2>1. CASE type = "select"
      <3>1. Iters[type] = 1 /\ iter < Iters[type] /\ iter \in Nat
        BY <2>1, Zenon DEF Provable, MatchingInv, Iterative, TypeOK
      <3>2. iter = 0
        BY <3>1
      <3> QED BY <3>2, Zenon DEF MatchingInv, Untouched, OldGrant
    <2>2. CASE type # "select"
      BY <2>2, Zenon DEF OldGrant
    <2> QED BY <2>1, <2>2, Zenon
  <1>2. ASSUME NEW o \in Outputs, Candidates(o) # {}
        PROVE  RoundRobin(Candidates(o), gptr[o], NumInputs) \in Candidates(o)
    <2>1. Candidates(o) \in SUBSET (0 .. NumInputs - 1)
      BY Zenon DEF Candidates, Wanting, Inputs
    <2>2. gptr[o] \in 0 .. NumInputs - 1
      BY Zenon DEF MatchingInv, TypeOK, Inputs
    <2> QED BY <1>2, <2>1, <2>2, Sizes, RoundRobinSelects, Zenon
  <1>3. \A o \in Outputs : Candidates(o) \subseteq Inputs
    BY Zenon DEF Candidates, Wanting
  <1>4. \A o \in Outputs : GrantPhase[o] =
          IF Candidates(o) = {} THEN None
          ELSE RoundRobin(Candidates(o), gptr[o], NumInputs)
    BY <1>1, Zenon DEF GrantPhase
  <1>5. GrantPhase \in [Outputs -> Inputs \cup {None}]
    <2>1. \A o \in Outputs : GrantPhase[o] \in Inputs \cup {None}
      BY <1>2, <1>3, <1>4, Zenon
    <2>2. GrantPhase = [o \in Outputs |-> GrantPhase[o]]
      BY Zenon DEF GrantPhase
    <2> QED BY <2>1, <2>2, Zenon
  <1> QED BY <1>2, <1>3, <1>4, <1>5, Sizes DEF IsGrant

(* The round-robin choice of an input among its offers. *)
LEMMA AcceptPhaseAccepts ==
  ASSUME TypeOK, NEW g
  PROVE  IsAccept(g, AcceptPhase(g))
  <1>1. ASSUME NEW i \in Inputs
        PROVE  /\ Offers(i, g) # {} => AcceptPhase(g)[i] \in Offers(i, g)
               /\ Offers(i, g) = {} => AcceptPhase(g)[i] = None
    <2>1. Offers(i, g) \in SUBSET (0 .. NumOutputs - 1)
      BY Zenon DEF Offers, Wanted, Outputs
    <2>2. aptr[i] \in 0 .. NumOutputs - 1
      BY Zenon DEF TypeOK, Outputs
    <2>3. AcceptPhase(g)[i] = RoundRobin(Offers(i, g), aptr[i], NumOutputs)
      BY Zenon DEF AcceptPhase
    <2> QED BY <2>1, <2>2, <2>3, Sizes, RoundRobinSelects
  <1>2. \A i \in Inputs : Offers(i, g) \subseteq Outputs
    BY Zenon DEF Offers, Wanted
  <1>3. AcceptPhase(g) \in [Inputs -> Outputs \cup {None}]
    <2>1. \A i \in Inputs : AcceptPhase(g)[i] \in Outputs \cup {None}
      BY <1>1, <1>2, Zenon
    <2>2. AcceptPhase(g) = [i \in Inputs |-> AcceptPhase(g)[i]]
      BY Zenon DEF AcceptPhase
    <2> QED BY <2>1, <2>2, Zenon
  <1> QED BY <1>1, <1>2, <1>3, Sizes, Zenon DEF IsAccept

(* PIM's random choices. *)
LEMMA RandomChoices ==
  ASSUME NEW g \in RandomGrants, NEW a \in RandomAccepts(g)
  PROVE  IsGrant(g) /\ IsAccept(g, a)
  <1>1. \A o \in Outputs : None \notin Candidates(o)
    BY Sizes, Zenon DEF Candidates, Wanting
  <1>2. \A i \in Inputs : None \notin Offers(i, g)
    BY Sizes, Zenon DEF Offers, Wanted
  <1>3. IsGrant(g)
    BY <1>1, Zenon DEF RandomGrants, IsGrant
  <1>4. IsAccept(g, a)
    BY <1>2, Zenon DEF RandomAccepts, IsAccept
  <1> QED BY <1>3, <1>4, Zenon

(* The vectors after an iteration are a matching, and extend the old one. *)
LEMMA MatchKeepsMatching ==
  ASSUME TypeOK, Matching, NEW g, NEW a, IsGrant(g), IsAccept(g, a),
         Match(g, a), requests' = requests
  PROVE  /\ Matching'
         /\ inmatch' \in [Inputs -> Outputs \cup {None}]
         /\ outmatch' \in [Outputs -> Inputs \cup {None}]
         /\ \A i \in Inputs : inmatch[i] # None => inmatch'[i] = inmatch[i]
         /\ \A o \in Outputs : outmatch[o] # None => outmatch'[o] = outmatch[o]
  <1>1. /\ \A i \in Inputs : inmatch'[i] = IF a[i] # None THEN a[i] ELSE inmatch[i]
        /\ \A o \in Outputs : outmatch'[o] = IF Taken(o, g, a) THEN g[o] ELSE outmatch[o]
    BY Zenon DEF Match
  <1>2. /\ inmatch \in [Inputs -> Outputs \cup {None}]
        /\ outmatch \in [Outputs -> Inputs \cup {None}]
    BY Zenon DEF TypeOK
  <1>3. /\ g \in [Outputs -> Inputs \cup {None}]
        /\ a \in [Inputs -> Outputs \cup {None}]
    BY Zenon DEF IsGrant, IsAccept
  <1>4. ASSUME NEW o \in Outputs, g[o] # None
        PROVE  g[o] \in Inputs /\ inmatch[g[o]] = None /\ outmatch[o] = None
    BY <1>4, <1>3, Zenon DEF IsGrant, Candidates
  <1>5. ASSUME NEW i \in Inputs, a[i] # None
        PROVE  a[i] \in Outputs /\ g[a[i]] = i /\ <<i, a[i]>> \in requests
    BY <1>5, <1>3, Zenon DEF IsAccept, Offers, Wanted
  <1>6. inmatch' \in [Inputs -> Outputs \cup {None}]
    BY <1>2, <1>3, Zenon DEF Match
  <1>7. outmatch' \in [Outputs -> Inputs \cup {None}]
    BY <1>2, <1>3, Zenon DEF Match
  <1>8. \A i \in Inputs : inmatch[i] # None => inmatch'[i] = inmatch[i]
    <2> SUFFICES ASSUME NEW i \in Inputs, inmatch[i] # None PROVE a[i] = None
      BY <1>1, Zenon
    <2>1. SUFFICES ASSUME a[i] # None PROVE FALSE
      BY Zenon
    <2>2. g[a[i]] = i /\ a[i] \in Outputs /\ i # None
      BY <1>5, <2>1, Sizes, Zenon
    <2> QED BY <2>2, <1>4, Zenon
  <1>9. \A o \in Outputs : outmatch[o] # None => outmatch'[o] = outmatch[o]
    BY <1>1, <1>4, Zenon DEF Taken
  <1>10. ASSUME NEW i \in Inputs, inmatch'[i] # None
         PROVE  <<i, inmatch'[i]>> \in requests' /\ outmatch'[inmatch'[i]] = i
    <2>1. CASE a[i] # None
      <3>1. inmatch'[i] = a[i] /\ a[i] \in Outputs /\ g[a[i]] = i
            /\ <<i, a[i]>> \in requests /\ i # None
        BY <2>1, <1>1, <1>5, Sizes, Zenon
      <3>2. Taken(a[i], g, a)
        BY <3>1, Zenon DEF Taken
      <3> QED BY <3>1, <3>2, <1>1, Zenon
    <2>2. CASE a[i] = None
      <3>1. inmatch'[i] = inmatch[i] /\ inmatch[i] # None /\ inmatch[i] \in Outputs
        BY <2>2, <1>1, <1>2, <1>10, Zenon
      <3>2. <<i, inmatch[i]>> \in requests /\ outmatch[inmatch[i]] = i /\ i # None
        BY <3>1, Sizes, Zenon DEF Matching
      <3> QED BY <3>1, <3>2, <1>9, Zenon
    <2> QED BY <2>1, <2>2, Zenon
  <1>11. ASSUME NEW o \in Outputs, outmatch'[o] # None
         PROVE  inmatch'[outmatch'[o]] = o
    <2>1. CASE Taken(o, g, a)
      <3>1. outmatch'[o] = g[o] /\ g[o] \in Inputs /\ a[g[o]] = o /\ o # None
        BY <2>1, <1>1, <1>4, Sizes, Zenon DEF Taken
      <3> QED BY <3>1, <1>1, Zenon
    <2>2. CASE ~Taken(o, g, a)
      <3>1. outmatch'[o] = outmatch[o] /\ outmatch[o] \in Inputs
            /\ inmatch[outmatch[o]] = o /\ o # None
        BY <2>2, <1>1, <1>2, <1>11, Sizes, Zenon DEF Matching
      <3> QED BY <3>1, <1>8, Zenon
    <2> QED BY <2>1, <2>2, Zenon
  <1>12. Matching'
    BY <1>10, <1>11, Zenon DEF Matching
  <1> QED BY <1>6, <1>7, <1>8, <1>9, <1>12, Zenon

(* If a request is still free at both ends, an iteration adds a match. *)
LEMMA MatchAdds ==
  ASSUME TypeOK, NEW g, NEW a, IsGrant(g), IsAccept(g, a), Match(g, a), ~AllSettled
  PROVE  /\ \E i \in Inputs : inmatch[i] = None /\ inmatch'[i] # None
         /\ \E o \in Outputs : outmatch[o] = None /\ outmatch'[o] # None
  <1>1. PICK r \in requests : inmatch[r[1]] = None /\ outmatch[r[2]] = None
    BY Zenon DEF AllSettled, Settled
  <1>2. r[1] \in Inputs /\ r[2] \in Outputs /\ r = <<r[1], r[2]>>
    BY DEF TypeOK
  <1>3. r[1] \in Candidates(r[2])
    BY <1>1, <1>2, Zenon DEF Candidates, Wanting
  <1> DEFINE i == g[r[2]]
  <1>4. i # None /\ i \in Candidates(r[2])
    BY <1>2, <1>3, Zenon DEF IsGrant
  <1>5. i \in Inputs /\ inmatch[i] = None /\ r[2] \in Offers(i, g)
    BY <1>2, <1>4, Zenon DEF Candidates, Wanting, Offers, Wanted
  <1> DEFINE o == a[i]
  <1>6. o # None /\ o \in Offers(i, g)
    BY <1>5, Zenon DEF IsAccept
  <1>7. o \in Outputs /\ g[o] = i
    BY <1>6, Zenon DEF Offers, Wanted
  <1>8. outmatch[o] = None
    BY <1>4, <1>7, Zenon DEF IsGrant, Candidates
  <1>9. Taken(o, g, a)
    BY <1>4, <1>7, Zenon DEF Taken
  <1>10. inmatch'[i] = o /\ outmatch'[o] = i
    BY <1>5, <1>6, <1>7, <1>9, Zenon DEF Match
  <1> QED BY <1>4, <1>5, <1>6, <1>7, <1>8, <1>10, Zenon

-----------------------------------------------------------------------------
(* LOA and the separable allocators. *)

(* Pairs that both stages chose, of those requested, are a matching. *)
LEMMA BothKeepMatching ==
  ASSUME NEW g \in [Outputs -> Inputs \cup {None}],
         NEW a \in [Inputs -> Outputs \cup {None}],
         \A i \in Inputs : a[i] # None /\ g[a[i]] = i => <<i, a[i]>> \in requests,
         MatchBoth(g, a), requests' = requests
  PROVE  /\ Matching'
         /\ inmatch' \in [Inputs -> Outputs \cup {None}]
         /\ outmatch' \in [Outputs -> Inputs \cup {None}]
  <1>1. /\ \A i \in Inputs : inmatch'[i] = IF a[i] # None /\ g[a[i]] = i THEN a[i] ELSE None
        /\ \A o \in Outputs : outmatch'[o] = IF Taken(o, g, a) THEN g[o] ELSE None
    BY Zenon DEF MatchBoth
  <1>2. /\ inmatch' \in [Inputs -> Outputs \cup {None}]
        /\ outmatch' \in [Outputs -> Inputs \cup {None}]
    BY Zenon DEF MatchBoth
  <1>3. ASSUME NEW i \in Inputs, inmatch'[i] # None
        PROVE  <<i, inmatch'[i]>> \in requests' /\ outmatch'[inmatch'[i]] = i
    <2>1. a[i] # None /\ g[a[i]] = i /\ inmatch'[i] = a[i] /\ a[i] \in Outputs /\ i # None
      BY <1>1, <1>3, Sizes, Zenon
    <2>2. Taken(a[i], g, a)
      BY <2>1, Zenon DEF Taken
    <2> QED BY <1>1, <2>1, <2>2, Zenon
  <1>4. ASSUME NEW o \in Outputs, outmatch'[o] # None
        PROVE  inmatch'[outmatch'[o]] = o
    <2>1. g[o] # None /\ a[g[o]] = o /\ outmatch'[o] = g[o] /\ g[o] \in Inputs /\ o # None
      BY <1>1, <1>4, Sizes, Zenon DEF Taken
    <2> QED BY <1>1, <2>1, Zenon
  <1>5. Matching'
    BY <1>3, <1>4, Zenon DEF Matching
  <1> QED BY <1>2, <1>5, Zenon

(* What one arbiter of each stage selects. *)
LEMMA StageSelects ==
  ASSUME TypeOK
  PROVE  /\ \A i \in Inputs : \A S \in SUBSET Outputs :
              /\ InputArb(i, S) \in S \cup {None}
              /\ Ordered /\ S # {} => InputArb(i, S) \in S
         /\ \A o \in Outputs : \A S \in SUBSET Inputs :
              /\ OutputArb(o, S) \in S \cup {None}
              /\ Ordered /\ S # {} => OutputArb(o, S) \in S
  <1>1. ASSUME NEW i \in Inputs, NEW S \in SUBSET Outputs
        PROVE  /\ InputArb(i, S) \in S \cup {None}
               /\ Ordered /\ S # {} => InputArb(i, S) \in S
    <2>1. /\ S \in SUBSET (0 .. NumOutputs - 1) /\ aptr[i] \in 0 .. NumOutputs - 1
          /\ inBeats[i] \in SUBSET ((0 .. NumOutputs - 1) \X (0 .. NumOutputs - 1))
      BY Zenon DEF TypeOK, Outputs
    <2> QED BY <2>1, Sizes, ArbiterSelects, Zenon DEF InputArb, Ordered
  <1>2. ASSUME NEW o \in Outputs, NEW S \in SUBSET Inputs
        PROVE  /\ OutputArb(o, S) \in S \cup {None}
               /\ Ordered /\ S # {} => OutputArb(o, S) \in S
    <2>1. /\ S \in SUBSET (0 .. NumInputs - 1) /\ gptr[o] \in 0 .. NumInputs - 1
          /\ outBeats[o] \in SUBSET ((0 .. NumInputs - 1) \X (0 .. NumInputs - 1))
      BY Zenon DEF TypeOK, Inputs
    <2> QED BY <2>1, Sizes, ArbiterSelects, Zenon DEF OutputArb, Ordered
  <1> QED BY <1>1, <1>2, Zenon

(* The two stages of LOA and of the separable allocators, as choices. *)
IsTwoStage(g, a) ==
  /\ g \in [Outputs -> Inputs \cup {None}]
  /\ a \in [Inputs -> Outputs \cup {None}]
  /\ \A i \in Inputs : a[i] # None /\ g[a[i]] = i => <<i, a[i]>> \in requests
FindsSome(g, a) ==
  requests # {} => \E i \in Inputs : a[i] # None /\ g[a[i]] = i

(* A request names its input and its output. *)
LEMMA SomeRequest ==
  ASSUME TypeOK, requests # {}
  PROVE  \E r \in requests : /\ r[1] \in Inputs /\ r[2] \in Outputs
                             /\ r[2] \in Wanted(r[1]) /\ r[1] \in Wanting(r[2])
  <1>1. PICK r \in requests : r \in Inputs \X Outputs
    BY Zenon DEF TypeOK
  <1>2. r[1] \in Inputs /\ r[2] \in Outputs /\ <<r[1], r[2]>> \in requests
    BY <1>1
  <1> QED BY <1>2, Zenon DEF Wanted, Wanting

(* separable_input_first. *)
LEMMA InputFirstStages ==
  ASSUME TypeOK, NEW a, a = InputFirst
  PROVE  /\ IsTwoStage(OutputSecond(a), a)
         /\ Ordered => FindsSome(OutputSecond(a), a)
  <1> DEFINE g == OutputSecond(a)
             Asking(o) == {i \in Inputs : a[i] = o}
  <1>1. \A i \in Inputs : /\ a[i] \in Wanted(i) \cup {None}
                          /\ Ordered /\ Wanted(i) # {} => a[i] \in Wanted(i)
    <2>1. \A i \in Inputs : Wanted(i) \in SUBSET Outputs /\ a[i] = InputArb(i, Wanted(i))
      BY Zenon DEF Wanted, InputFirst
    <2> QED BY <2>1, StageSelects
  <1>2. \A o \in Outputs : /\ g[o] \in Asking(o) \cup {None}
                           /\ Ordered /\ Asking(o) # {} => g[o] \in Asking(o)
    <2>1. \A o \in Outputs : Asking(o) \in SUBSET Inputs /\ g[o] = OutputArb(o, Asking(o))
      BY Zenon DEF OutputSecond
    <2> HIDE DEF g, Asking
    <2> QED BY <2>1, StageSelects
  <1>3. \A i \in Inputs : Wanted(i) \subseteq Outputs
    BY Zenon DEF Wanted
  <1>4. a \in [Inputs -> Outputs \cup {None}]
    <2>1. \A i \in Inputs : a[i] \in Outputs \cup {None}
      BY <1>1, <1>3, Zenon
    <2>2. a = [i \in Inputs |-> a[i]]
      BY Zenon DEF InputFirst
    <2> QED BY <2>1, <2>2, Zenon
  <1>5. g \in [Outputs -> Inputs \cup {None}]
    <2>1. \A o \in Outputs : g[o] \in Inputs \cup {None}
      BY <1>2, Zenon
    <2>2. g = [o \in Outputs |-> g[o]]
      BY Zenon DEF OutputSecond
    <2> QED BY <2>1, <2>2, Zenon
  <1>6. \A i \in Inputs : a[i] # None => <<i, a[i]>> \in requests
    BY <1>1, Zenon DEF Wanted
  <1>7. ASSUME Ordered, requests # {}
        PROVE  \E i \in Inputs : a[i] # None /\ g[a[i]] = i
    <2>1. PICK r \in requests : r[1] \in Inputs /\ r[2] \in Wanted(r[1])
      BY <1>7, SomeRequest, Zenon
    <2>2. a[r[1]] \in Outputs /\ a[r[1]] # None
      BY <1>1, <1>3, <1>7, <2>1, Sizes, Zenon
    <2>3. r[1] \in Asking(a[r[1]])
      BY <2>1, Zenon
    <2>4. g[a[r[1]]] \in Asking(a[r[1]])
      BY <1>2, <1>7, <2>2, <2>3, Zenon
    <2> QED BY <2>2, <2>4, Zenon
  <1> QED BY <1>4, <1>5, <1>6, <1>7, Zenon DEF IsTwoStage, FindsSome

(* separable_output_first. *)
LEMMA OutputFirstStages ==
  ASSUME TypeOK, NEW g, g = OutputFirst
  PROVE  /\ IsTwoStage(g, InputSecond(g))
         /\ Ordered => FindsSome(g, InputSecond(g))
  <1> DEFINE a == InputSecond(g)
             Offering(i) == {o \in Outputs : g[o] = i}
  <1>1. \A o \in Outputs : /\ g[o] \in Wanting(o) \cup {None}
                           /\ Ordered /\ Wanting(o) # {} => g[o] \in Wanting(o)
    <2>1. \A o \in Outputs : Wanting(o) \in SUBSET Inputs /\ g[o] = OutputArb(o, Wanting(o))
      BY Zenon DEF Wanting, OutputFirst
    <2> QED BY <2>1, StageSelects
  <1>2. \A i \in Inputs : /\ a[i] \in Offering(i) \cup {None}
                          /\ Ordered /\ Offering(i) # {} => a[i] \in Offering(i)
    <2>1. \A i \in Inputs : Offering(i) \in SUBSET Outputs /\ a[i] = InputArb(i, Offering(i))
      BY Zenon DEF InputSecond
    <2> HIDE DEF a, Offering
    <2> QED BY <2>1, StageSelects
  <1>3. \A o \in Outputs : Wanting(o) \subseteq Inputs
    BY Zenon DEF Wanting
  <1>4. g \in [Outputs -> Inputs \cup {None}]
    <2>1. \A o \in Outputs : g[o] \in Inputs \cup {None}
      BY <1>1, <1>3, Zenon
    <2>2. g = [o \in Outputs |-> g[o]]
      BY Zenon DEF OutputFirst
    <2> QED BY <2>1, <2>2, Zenon
  <1>5. a \in [Inputs -> Outputs \cup {None}]
    <2>1. \A i \in Inputs : a[i] \in Outputs \cup {None}
      BY <1>2, Zenon
    <2>2. a = [i \in Inputs |-> a[i]]
      BY Zenon DEF InputSecond
    <2> QED BY <2>1, <2>2, Zenon
  <1>6. \A i \in Inputs : a[i] # None => a[i] \in Outputs /\ g[a[i]] = i
    BY <1>2, Zenon
  <1>7. \A i \in Inputs : a[i] # None => <<i, a[i]>> \in requests
    <2> SUFFICES ASSUME NEW i \in Inputs, a[i] # None PROVE <<i, a[i]>> \in requests
      BY Zenon
    <2>1. a[i] \in Outputs /\ g[a[i]] = i /\ i # None
      BY <1>6, Sizes, Zenon
    <2>2. i \in Wanting(a[i])
      BY <1>1, <2>1, Zenon
    <2> QED BY <2>2, Zenon DEF Wanting
  <1>8. ASSUME Ordered, requests # {}
        PROVE  \E i \in Inputs : a[i] # None /\ g[a[i]] = i
    <2>1. PICK r \in requests : r[2] \in Outputs /\ r[1] \in Wanting(r[2])
      BY <1>8, SomeRequest, Zenon
    <2>2. g[r[2]] \in Inputs
      BY <1>1, <1>3, <1>8, <2>1, Zenon
    <2>3. r[2] \in Offering(g[r[2]])
      BY <2>1, Zenon
    <2>4. a[g[r[2]]] \in Offering(g[r[2]])
      BY <1>2, <1>8, <2>2, <2>3, Zenon
    <2>5. a[g[r[2]]] # None
      BY <2>4, Sizes, Zenon
    <2> QED BY <2>2, <2>5, <1>6, Zenon
  <1> QED BY <1>4, <1>5, <1>7, <1>8, Zenon DEF IsTwoStage, FindsSome

(* An input with requests has an output that is loneliest among them. *)
LEMMA SomeLonely ==
  ASSUME NEW i \in Inputs
  PROVE  /\ Lonely(i) \subseteq Wanted(i)
         /\ Wanted(i) # {} => Lonely(i) # {}
  <1>1. ASSUME Wanted(i) # {} PROVE Lonely(i) # {}
    <2> DEFINE key == [o \in Wanted(i) |-> Cardinality(Wanting(o))]
    <2>1. key \in [Wanted(i) -> Nat]
      <3>1. ASSUME NEW o PROVE Cardinality(Wanting(o)) \in Nat
        <4>1. IsFiniteSet(Inputs)
          BY Sizes, FS_Interval DEF Inputs
        <4>2. Wanting(o) \in SUBSET Inputs
          BY Zenon DEF Wanting
        <4>3. IsFiniteSet(Wanting(o))
          BY <4>1, <4>2, FS_Subset, Zenon
        <4> QED BY <4>3, FS_CardinalityType, Zenon
      <3> QED BY <3>1, Zenon
    <2>2. \E o \in Wanted(i) : \A q \in Wanted(i) : key[o] <= key[q]
      <3> HIDE DEF key
      <3> QED BY <1>1, <2>1, LeastKey, Zenon
    <2> QED BY <2>2, Zenon DEF Lonely
  <1> QED BY <1>1, Zenon DEF Lonely

(* The grants of LOA. *)
LonelyGrants(a) ==
  [o \in Outputs |-> RoundRobin({i \in Inputs : a[i] = o}, gptr[o], NumInputs)]

(* LOA: an input asks for its loneliest output, and the output picks one. *)
LEMMA LonelyStages ==
  ASSUME TypeOK, NEW a, a = Asked
  PROVE  IsTwoStage(LonelyGrants(a), a) /\ FindsSome(LonelyGrants(a), a)
  <1> DEFINE g == LonelyGrants(a)
             Asking(o) == {i \in Inputs : a[i] = o}
  <1>1. \A i \in Inputs : /\ Wanted(i) # {} => a[i] \in Wanted(i)
                          /\ Wanted(i) = {} => a[i] = None
    <2> SUFFICES ASSUME NEW i \in Inputs
                 PROVE  /\ Wanted(i) # {} => a[i] \in Wanted(i)
                        /\ Wanted(i) = {} => a[i] = None
      BY Zenon
    <2>1. Lonely(i) \in SUBSET (0 .. NumOutputs - 1) /\ aptr[i] \in 0 .. NumOutputs - 1
      BY Zenon DEF TypeOK, Outputs, Lonely, Wanted
    <2>2. a[i] = RoundRobin(Lonely(i), aptr[i], NumOutputs)
      BY Zenon DEF Asked
    <2>3. /\ Lonely(i) # {} => a[i] \in Lonely(i)
          /\ Lonely(i) = {} => a[i] = None
      BY <2>1, <2>2, Sizes, RoundRobinSelects
    <2> QED BY <2>3, SomeLonely, Zenon
  <1>2. \A o \in Outputs : /\ Asking(o) # {} => g[o] \in Asking(o)
                           /\ Asking(o) = {} => g[o] = None
    <2> SUFFICES ASSUME NEW o \in Outputs
                 PROVE  /\ Asking(o) # {} => g[o] \in Asking(o)
                        /\ Asking(o) = {} => g[o] = None
      BY Zenon
    <2>1. Asking(o) \in SUBSET (0 .. NumInputs - 1) /\ gptr[o] \in 0 .. NumInputs - 1
      BY Zenon DEF TypeOK, Inputs
    <2>2. g[o] = RoundRobin(Asking(o), gptr[o], NumInputs)
      BY Zenon DEF LonelyGrants
    <2> HIDE DEF g, Asking
    <2> QED BY <2>1, <2>2, Sizes, RoundRobinSelects
  <1>3. \A i \in Inputs : Wanted(i) \subseteq Outputs
    BY Zenon DEF Wanted
  <1>4. a \in [Inputs -> Outputs \cup {None}]
    <2>1. \A i \in Inputs : a[i] \in Outputs \cup {None}
      BY <1>1, <1>3, Zenon
    <2>2. a = [i \in Inputs |-> a[i]]
      BY Zenon DEF Asked
    <2> QED BY <2>1, <2>2, Zenon
  <1>5. g \in [Outputs -> Inputs \cup {None}]
    <2>1. \A o \in Outputs : g[o] \in Inputs \cup {None}
      BY <1>2, Zenon
    <2>2. g = [o \in Outputs |-> g[o]]
      BY Zenon DEF LonelyGrants
    <2> QED BY <2>1, <2>2, Zenon
  <1>6. \A i \in Inputs : a[i] # None => <<i, a[i]>> \in requests
    BY <1>1, Zenon DEF Wanted
  <1>7. ASSUME requests # {}
        PROVE  \E i \in Inputs : a[i] # None /\ g[a[i]] = i
    <2>1. PICK r \in requests : r[1] \in Inputs /\ r[2] \in Wanted(r[1])
      BY <1>7, SomeRequest, Zenon
    <2>2. a[r[1]] \in Outputs /\ a[r[1]] # None
      BY <1>1, <1>3, <2>1, Sizes, Zenon
    <2>3. r[1] \in Asking(a[r[1]])
      BY <2>1, Zenon
    <2>4. g[a[r[1]]] \in Asking(a[r[1]])
      BY <1>2, <2>2, <2>3, Zenon
    <2> QED BY <2>2, <2>4, Zenon
  <1> QED BY <1>4, <1>5, <1>6, <1>7, Zenon DEF IsTwoStage, FindsSome

-----------------------------------------------------------------------------
(* Wavefront. *)

(* A diagonal has one cell in each row. *)
LEMMA DiagonalInjective ==
  ASSUME TypeOK, iter < Square, NEW o \in Outputs, NEW q \in Outputs,
         DiagonalInput(o) = DiagonalInput(q)
  PROVE  o = q
  <1> DEFINE x == (pri + iter) + (Square - o)
             y == (pri + iter) + (Square - q)
  <1>1. /\ pri \in 0 .. Square - 1 /\ iter \in 0 .. Square - 1
        /\ o \in 0 .. Square - 1 /\ q \in 0 .. Square - 1 /\ Square \in Nat \ {0}
    BY Sizes DEF TypeOK, Outputs
  <1>2. x \in 0 .. 3 * Square - 1 /\ y \in 0 .. 3 * Square - 1
    BY <1>1
  <1>3. x - y < Square /\ y - x < Square
    BY <1>1
  <1>4. x % Square = y % Square
    BY Zenon DEF DiagonalInput
  <1>5. x = y
    <2> HIDE DEF x, y
    <2> QED BY <1>1, <1>2, <1>3, <1>4, ModInjective, Zenon
  <1> QED BY <1>1, <1>5

(* Every request is on one of the diagonals. *)
LEMMA EveryCellVisited ==
  ASSUME TypeOK, NEW r \in requests
  PROVE  \E p \in 0 .. Square - 1 : OnDiagonal(r, p)
  <1>1. /\ pri \in 0 .. Square - 1 /\ Square \in Nat \ {0}
        /\ r[1] \in 0 .. Square - 1 /\ r[2] \in 0 .. Square - 1
    <2>1. r[1] \in Inputs /\ r[2] \in Outputs /\ pri \in 0 .. Square - 1
      BY Zenon DEF TypeOK
    <2> QED BY <2>1, Sizes DEF Inputs, Outputs
  <1> DEFINE d == (r[1] + r[2]) - pri
  <1>2. CASE d < 0
    <2>1. d + Square \in 0 .. Square - 1
      BY <1>1, <1>2
    <2>2. (pri + (d + Square)) + (Square - r[2]) = (r[1] + Square) + Square
      BY <1>1
    <2>3. OnDiagonal(r, d + Square)
      BY <1>1, <2>2, ModSmall, Zenon DEF OnDiagonal
    <2> QED BY <2>1, <2>3, Zenon
  <1>3. CASE d \in 0 .. Square - 1
    <2>1. (pri + d) + (Square - r[2]) = r[1] + Square
      BY <1>1
    <2>2. OnDiagonal(r, d)
      BY <1>1, <2>1, ModSmall, Zenon DEF OnDiagonal
    <2> QED BY <1>3, <2>2, Zenon
  <1>4. CASE d >= Square
    <2>1. d - Square \in 0 .. Square - 1
      BY <1>1, <1>4
    <2>2. (pri + (d - Square)) + (Square - r[2]) = r[1]
      BY <1>1
    <2>3. OnDiagonal(r, d - Square)
      BY <1>1, <2>2, ModSmall, Zenon DEF OnDiagonal
    <2> QED BY <2>1, <2>3, Zenon
  <1>5. d \in Int
    BY <1>1
  <1>6. d < 0 \/ d \in 0 .. Square - 1 \/ d >= Square
    BY <1>1, <1>5
  <1> QED BY <1>2, <1>3, <1>4, <1>6, Zenon

(* A diagonal extends the matching, and settles its requests. *)
LEMMA DiagonalKeepsMatching ==
  ASSUME TypeOK, Matching, iter < Square, Diagonal
  PROVE  /\ Matching'
         /\ inmatch' \in [Inputs -> Outputs \cup {None}]
         /\ outmatch' \in [Outputs -> Inputs \cup {None}]
         /\ \A i \in Inputs : inmatch[i] # None => inmatch'[i] = inmatch[i]
         /\ \A o \in Outputs : outmatch[o] # None => outmatch'[o] = outmatch[o]
         /\ \A r \in requests : OnDiagonal(r, iter) => Settled(r)'
  <1> DEFINE Cell(i, o) == <<i, o>> \in Cells
  <1>1. ASSUME NEW i \in Inputs, NEW o \in Outputs
        PROVE  Cell(i, o) <=> /\ <<i, o>> \in requests /\ i = DiagonalInput(o)
                              /\ inmatch[i] = None /\ outmatch[o] = None
    BY Zenon DEF Cells
  <1>2. ASSUME NEW i \in Inputs, NEW o \in Outputs, NEW q \in Outputs, Cell(i, o), Cell(i, q)
        PROVE  o = q
    BY <1>1, <1>2, DiagonalInjective, Zenon
  <1>3. requests' = requests
    BY Zenon DEF Diagonal, EndOfStep
  <1> HIDE DEF Cell
  <1>4. ASSUME NEW i \in Inputs
        PROVE  \/ (\E o \in Outputs : Cell(i, o)) /\ inmatch'[i] \in Outputs
                  /\ Cell(i, inmatch'[i])
               \/ ~(\E o \in Outputs : Cell(i, o)) /\ inmatch'[i] = inmatch[i]
    <2>1. inmatch'[i] = IF \E o \in Outputs : Cell(i, o)
                        THEN CHOOSE o \in Outputs : Cell(i, o) ELSE inmatch[i]
      BY Zenon DEF Diagonal, Cell
    <2> QED BY <2>1, Zenon
  <1>5. ASSUME NEW o \in Outputs
        PROVE  \/ (\E i \in Inputs : Cell(i, o)) /\ outmatch'[o] = DiagonalInput(o)
                  /\ outmatch'[o] \in Inputs /\ Cell(outmatch'[o], o)
               \/ ~(\E i \in Inputs : Cell(i, o)) /\ outmatch'[o] = outmatch[o]
    <2>1. outmatch'[o] = IF \E i \in Inputs : Cell(i, o)
                         THEN DiagonalInput(o) ELSE outmatch[o]
      BY Zenon DEF Diagonal, Cell
    <2>2. \A i \in Inputs : Cell(i, o) => i = DiagonalInput(o)
      BY <1>1, Zenon
    <2> QED BY <2>1, <2>2, Zenon
  <1>6. /\ inmatch \in [Inputs -> Outputs \cup {None}]
        /\ outmatch \in [Outputs -> Inputs \cup {None}]
    BY Zenon DEF TypeOK
  <1>7. inmatch' \in [Inputs -> Outputs \cup {None}]
    <2>1. inmatch' = [i \in Inputs |-> inmatch'[i]]
      BY Zenon DEF Diagonal
    <2>2. \A i \in Inputs : inmatch'[i] \in Outputs \cup {None}
      BY <1>4, <1>6, Zenon
    <2> QED BY <2>1, <2>2, Zenon
  <1>8. outmatch' \in [Outputs -> Inputs \cup {None}]
    <2>1. outmatch' = [o \in Outputs |-> outmatch'[o]]
      BY Zenon DEF Diagonal
    <2>2. \A o \in Outputs : outmatch'[o] \in Inputs \cup {None}
      BY <1>5, <1>6, Zenon
    <2> QED BY <2>1, <2>2, Zenon
  <1>9. \A i \in Inputs : inmatch[i] # None => inmatch'[i] = inmatch[i]
    BY <1>1, <1>4, Zenon
  <1>10. \A o \in Outputs : outmatch[o] # None => outmatch'[o] = outmatch[o]
    BY <1>1, <1>5, Zenon
  <1>11. ASSUME NEW i \in Inputs, NEW o \in Outputs, Cell(i, o)
         PROVE  inmatch'[i] = o /\ outmatch'[o] = i
    <2>1. inmatch'[i] \in Outputs /\ Cell(i, inmatch'[i])
      BY <1>4, <1>11, Zenon
    <2>2. outmatch'[o] = DiagonalInput(o)
      BY <1>5, <1>11, Zenon
    <2>3. i = DiagonalInput(o)
      BY <1>1, <1>11, Zenon
    <2>4. inmatch'[i] = o
      BY <2>1, <1>2, <1>11, Zenon
    <2> QED BY <2>2, <2>3, <2>4, Zenon
  <1>12. ASSUME NEW i \in Inputs, inmatch'[i] # None
         PROVE  <<i, inmatch'[i]>> \in requests' /\ outmatch'[inmatch'[i]] = i
    <2>1. CASE \E o \in Outputs : Cell(i, o)
      <3>1. PICK o \in Outputs : Cell(i, o)
        BY <2>1, Zenon
      <3> QED BY <3>1, <1>1, <1>3, <1>11
    <2>2. CASE ~\E o \in Outputs : Cell(i, o)
      <3>1. inmatch'[i] = inmatch[i] /\ inmatch[i] \in Outputs
        BY <2>2, <1>4, <1>6, <1>12, Zenon
      <3>2. <<i, inmatch[i]>> \in requests /\ outmatch[inmatch[i]] = i /\ i # None
        BY <3>1, <1>12, Sizes, Zenon DEF Matching
      <3> QED BY <3>1, <3>2, <1>3, <1>10, Zenon
    <2> QED BY <2>1, <2>2, Zenon
  <1>13. ASSUME NEW o \in Outputs, outmatch'[o] # None
         PROVE  inmatch'[outmatch'[o]] = o
    <2>1. CASE \E i \in Inputs : Cell(i, o)
      <3>1. PICK i \in Inputs : Cell(i, o)
        BY <2>1, Zenon
      <3> QED BY <3>1, <1>11, Zenon
    <2>2. CASE ~\E i \in Inputs : Cell(i, o)
      <3>1. outmatch'[o] = outmatch[o] /\ outmatch[o] \in Inputs
        BY <2>2, <1>5, <1>6, <1>13, Zenon
      <3>2. inmatch[outmatch[o]] = o /\ o # None
        BY <3>1, <1>13, Sizes, Zenon DEF Matching
      <3> QED BY <3>1, <3>2, <1>9, Zenon
    <2> QED BY <2>1, <2>2, Zenon
  <1>14. Matching'
    BY <1>12, <1>13, Zenon DEF Matching
  <1>15. ASSUME NEW r \in requests, OnDiagonal(r, iter)
         PROVE  Settled(r)'
    <2>1. r[1] \in Inputs /\ r[2] \in Outputs /\ r = <<r[1], r[2]>>
      BY DEF TypeOK
    <2>2. r[1] = DiagonalInput(r[2])
      BY <1>15, Zenon DEF OnDiagonal, DiagonalInput
    <2>3. CASE inmatch[r[1]] # None
      BY <2>1, <2>3, <1>9, Zenon DEF Settled
    <2>4. CASE outmatch[r[2]] # None
      BY <2>1, <2>4, <1>10, Zenon DEF Settled
    <2>5. CASE inmatch[r[1]] = None /\ outmatch[r[2]] = None
      <3>1. Cell(r[1], r[2])
        BY <2>1, <2>2, <2>5, <1>1, Zenon
      <3>2. inmatch'[r[1]] = r[2] /\ r[2] # None
        BY <2>1, <3>1, <1>11, Sizes, Zenon
      <3> QED BY <3>2, Zenon DEF Settled
    <2> QED BY <2>3, <2>4, <2>5, Zenon
  <1> QED BY <1>7, <1>8, <1>9, <1>10, <1>14, <1>15, Zenon

-----------------------------------------------------------------------------
(* Every step keeps MatchingInv. *)

(* Pointers stay in their range. *)
LEMMA AfterInRange ==
  ASSUME NEW x \in Int
  PROVE  After(x, NumInputs) \in Inputs /\ After(x, NumOutputs) \in Outputs
  <1>1. x + 1 \in Int
    OBVIOUS
  <1> QED BY <1>1, Sizes, ModRange, Zenon DEF After, Inputs, Outputs

(* So they do when the arbiters of matches are updated. *)
LEMMA UpdateStateTypes ==
  ASSUME TypeOK, NEW g \in [Outputs -> Inputs \cup {None}],
         NEW a \in [Inputs -> Outputs \cup {None}], UpdateState(g, a)
  PROVE  /\ aptr' \in [Inputs -> Outputs] /\ gptr' \in [Outputs -> Inputs]
         /\ inBeats' \in [Inputs -> SUBSET (Outputs \X Outputs)]
         /\ outBeats' \in [Outputs -> SUBSET (Inputs \X Inputs)]
  <1> DEFINE in == {i \in Inputs : a[i] # None /\ g[a[i]] = i}
             out == {o \in Outputs : Taken(o, g, a)}
  <1>1. /\ \A i \in in : a[i] \in Outputs /\ a[i] \in Int
        /\ \A o \in out : g[o] \in Inputs /\ g[o] \in Int
    BY DEF Taken, Inputs, Outputs
  <1>2. aptr' \in [Inputs -> Outputs]
    <2>1. aptr' = [i \in Inputs |-> IF i \in in THEN After(a[i], NumOutputs) ELSE aptr[i]]
      BY Zenon DEF UpdateState
    <2>2. \A i \in Inputs : (IF i \in in THEN After(a[i], NumOutputs) ELSE aptr[i]) \in Outputs
      BY <1>1, AfterInRange, Zenon DEF TypeOK
    <2> HIDE DEF in
    <2> QED BY <2>1, <2>2, Zenon
  <1>3. gptr' \in [Outputs -> Inputs]
    <2>1. gptr' = [o \in Outputs |-> IF o \in out THEN After(g[o], NumInputs) ELSE gptr[o]]
      BY Zenon DEF UpdateState
    <2>2. \A o \in Outputs : (IF o \in out THEN After(g[o], NumInputs) ELSE gptr[o]) \in Inputs
      BY <1>1, AfterInRange, Zenon DEF TypeOK
    <2> HIDE DEF out
    <2> QED BY <2>1, <2>2, Zenon
  <1>4. inBeats' \in [Inputs -> SUBSET (Outputs \X Outputs)]
    <2>1. inBeats' = [i \in Inputs |->
            IF i \in in THEN Demote(inBeats[i], a[i], Outputs) ELSE inBeats[i]]
      BY Zenon DEF UpdateState
    <2>2. \A i \in Inputs :
            (IF i \in in THEN Demote(inBeats[i], a[i], Outputs) ELSE inBeats[i])
              \in SUBSET (Outputs \X Outputs)
      BY <1>1 DEF TypeOK, Demote
    <2> HIDE DEF in
    <2> QED BY <2>1, <2>2, Zenon
  <1>5. outBeats' \in [Outputs -> SUBSET (Inputs \X Inputs)]
    <2>1. outBeats' = [o \in Outputs |->
            IF o \in out THEN Demote(outBeats[o], g[o], Inputs) ELSE outBeats[o]]
      BY Zenon DEF UpdateState
    <2>2. \A o \in Outputs :
            (IF o \in out THEN Demote(outBeats[o], g[o], Inputs) ELSE outBeats[o])
              \in SUBSET (Inputs \X Inputs)
      BY <1>1 DEF TypeOK, Demote
    <2> HIDE DEF out
    <2> QED BY <2>1, <2>2, Zenon
  <1> QED BY <1>2, <1>3, <1>4, <1>5, Zenon

(* A round begins. *)
LEMMA AddRequestsStep ==
  ASSUME MatchingInv, NEW R \in SUBSET (Inputs \X Outputs), AddRequests(R)
  PROVE  MatchingInv'
  <1>1. TypeOK'
    BY Zenon DEF MatchingInv, TypeOK, AddRequests, rest, arbiters
  <1>2. Untouched'
    BY Zenon DEF AddRequests, Untouched
  <1>3. Matching'
    BY <1>2, Zenon DEF Untouched, Matching
  <1>4. iter' = 0 /\ type' = type /\ arb' = arb
    BY Zenon DEF AddRequests, rest
  <1>5. Iters[type] > 0 /\ Square > 0
    BY TypesAre, Sizes DEF MatchingInv
  <1> QED BY <1>1, <1>2, <1>3, <1>4, <1>5, Zenon DEF MatchingInv

(* The end of a step, whichever it was. *)
LEMMA EndOfStepKeeps ==
  ASSUME MatchingInv, NEW last \in BOOLEAN, EndOfStep(last), TypeOK', Matching',
         ~last /\ type \in Iterative => iter + 1 < Iters[type],
         ~last /\ type \in Wavefronts => iter + 1 < Square
  PROVE  MatchingInv'
  <1>1. iter' = iter + 1 /\ iter \in Nat /\ iter' # 0
    BY DEF EndOfStep, MatchingInv, TypeOK
  <1>2. type' = type /\ arb' = arb /\ (phase' = "allocate" => ~last)
    BY Zenon DEF EndOfStep, rest, MatchingInv, TypeOK
  <1> QED BY <1>1, <1>2, Zenon DEF MatchingInv

(* An iteration of iSLIP or SelAlloc. *)
LEMMA IterateStep ==
  ASSUME MatchingInv, Provable, Iterate
  PROVE  MatchingInv'
  <1> DEFINE g == GrantPhase
             a == AcceptPhase(g)
  <1>1. TypeOK /\ Matching /\ requests' = requests
    BY Zenon DEF MatchingInv, Iterate, EndOfStep
  <1>2. IsGrant(g)
    BY GrantPhaseGrants, Zenon DEF Iterate
  <1>3. IsAccept(g, a)
    BY <1>1, AcceptPhaseAccepts, Zenon
  <1>4. Match(g, a) /\ UpdatePointers(g, a) /\ grants' = g
    BY Zenon DEF Iterate
  <1>5. /\ g \in [Outputs -> Inputs \cup {None}]
        /\ a \in [Inputs -> Outputs \cup {None}]
    BY <1>2, <1>3, Zenon DEF IsGrant, IsAccept
  <1> HIDE DEF g, a
  <1>6. /\ Matching'
        /\ inmatch' \in [Inputs -> Outputs \cup {None}]
        /\ outmatch' \in [Outputs -> Inputs \cup {None}]
    BY <1>1, <1>2, <1>3, <1>4, MatchKeepsMatching, Zenon
  <1>7. /\ \A o \in Outputs : g[o] # None => g[o] \in Int
        /\ \A i \in Inputs : a[i] # None => a[i] \in Int
    BY <1>5 DEF Inputs, Outputs
  <1>8. gptr' \in [Outputs -> Inputs]
    <2>1. \A o \in Outputs : (IF iter = 0 /\ Taken(o, g, a) THEN After(g[o], NumInputs)
                              ELSE gptr[o]) \in Inputs
      BY <1>1, <1>7, AfterInRange, Zenon DEF TypeOK, Taken
    <2> QED BY <1>4, <2>1, Zenon DEF UpdatePointers
  <1>9. aptr' \in [Inputs -> Outputs]
    <2>1. \A i \in Inputs : (IF iter = 0 /\ a[i] # None THEN After(a[i], NumOutputs)
                             ELSE aptr[i]) \in Outputs
      BY <1>1, <1>7, AfterInRange, Zenon DEF TypeOK
    <2> QED BY <1>4, <2>1, Zenon DEF UpdatePointers
  <1>10. TypeOK'
    BY <1>1, <1>4, <1>5, <1>6, <1>8, <1>9 DEF TypeOK, Iterate, EndOfStep, rest, wave
  <1>11. type \in Iterative /\ type \notin Wavefronts /\ iter < Iters[type]
         /\ iter \in Nat /\ Iters[type] \in Nat /\ EndOfStep(LastIter)
    BY <1>1, TypesAre, Zenon DEF Iterate, Iterative, Wavefronts, MatchingInv, TypeOK
  <1>12. ~LastIter => iter + 1 < Iters[type]
    BY <1>11 DEF LastIter
  <1>13. LastIter \in BOOLEAN
    BY Zenon DEF LastIter
  <1> QED BY <1>6, <1>10, <1>11, <1>12, <1>13, EndOfStepKeeps, Zenon

(* An iteration of PIM. *)
LEMMA IterateRandomlyStep ==
  ASSUME MatchingInv, IterateRandomly
  PROVE  MatchingInv'
  <1>1. TypeOK /\ Matching /\ requests' = requests
    BY Zenon DEF MatchingInv, IterateRandomly, EndOfStep
  <1>2. PICK g \in RandomGrants : \E a \in RandomAccepts(g) : Match(g, a) /\ grants' = g
    BY Zenon DEF IterateRandomly
  <1>3. PICK a \in RandomAccepts(g) : Match(g, a) /\ grants' = g
    BY <1>2, Zenon
  <1>4. IsGrant(g) /\ IsAccept(g, a)
    BY RandomChoices, Zenon
  <1>5. /\ Matching'
        /\ inmatch' \in [Inputs -> Outputs \cup {None}]
        /\ outmatch' \in [Outputs -> Inputs \cup {None}]
        /\ grants' \in [Outputs -> Inputs \cup {None}]
    BY <1>1, <1>3, <1>4, MatchKeepsMatching, Zenon DEF IsGrant
  <1>6. TypeOK'
    BY <1>1, <1>5 DEF TypeOK, IterateRandomly, EndOfStep, rest, wave, arbiters
  <1>7. type \in Iterative /\ type \notin Wavefronts /\ iter < Iters[type]
         /\ iter \in Nat /\ Iters[type] \in Nat /\ EndOfStep(LastIter)
    BY <1>1, TypesAre, Zenon DEF IterateRandomly, Iterative, Wavefronts, MatchingInv, TypeOK
  <1>8. ~LastIter => iter + 1 < Iters[type]
    BY <1>7 DEF LastIter
  <1>9. LastIter \in BOOLEAN
    BY Zenon DEF LastIter
  <1> QED BY <1>5, <1>6, <1>7, <1>8, <1>9, EndOfStepKeeps, Zenon

(* LOA. *)
LEMMA LonelyOutputStep ==
  ASSUME MatchingInv, LonelyOutput
  PROVE  MatchingInv'
  <1> DEFINE a == Asked
             g == LonelyGrants(a)
  <1>1. TypeOK /\ requests' = requests
    BY Zenon DEF MatchingInv, LonelyOutput, EndOfStep
  <1>2. IsTwoStage(g, a)
    BY <1>1, LonelyStages, Zenon
  <1>3. /\ MatchBoth(g, a)
        /\ gptr' = [o \in Outputs |->
                      IF g[o] # None THEN After(gptr[o], NumInputs) ELSE gptr[o]]
        /\ aptr' = [i \in Inputs |->
                      IF a[i] # None /\ g[a[i]] = i THEN After(aptr[i], NumOutputs)
                      ELSE aptr[i]]
    BY Zenon DEF LonelyOutput, LonelyGrants
  <1> HIDE DEF g, a
  <1>4. /\ Matching'
        /\ inmatch' \in [Inputs -> Outputs \cup {None}]
        /\ outmatch' \in [Outputs -> Inputs \cup {None}]
    BY <1>1, <1>2, <1>3, BothKeepMatching, Zenon DEF IsTwoStage
  <1>5. /\ \A o \in Outputs : gptr[o] \in Inputs /\ gptr[o] \in Int
        /\ \A i \in Inputs : aptr[i] \in Outputs /\ aptr[i] \in Int
    <2>1. gptr \in [Outputs -> Inputs] /\ aptr \in [Inputs -> Outputs]
      BY <1>1, Zenon DEF TypeOK
    <2>2. Inputs \subseteq Int /\ Outputs \subseteq Int
      BY DEF Inputs, Outputs
    <2> QED BY <2>1, <2>2, Zenon
  <1>6. gptr' \in [Outputs -> Inputs] /\ aptr' \in [Inputs -> Outputs]
    BY <1>3, <1>5, AfterInRange, Zenon
  <1>7. TypeOK'
    <2>1. /\ type' = type /\ arb' = arb /\ patient' = patient /\ grants' = grants
          /\ inBeats' = inBeats /\ outBeats' = outBeats /\ pri' = pri /\ first' = first
      BY Zenon DEF LonelyOutput, EndOfStep, rest, wave
    <2>2. iter' \in Nat /\ phase' \in {"request", "allocate"}
      BY <1>1 DEF LonelyOutput, EndOfStep, TypeOK
    <2> QED BY <1>1, <1>4, <1>6, <2>1, <2>2, Zenon DEF TypeOK
  <1>8. EndOfStep(TRUE)
    BY Zenon DEF LonelyOutput
  <1> QED BY <1>4, <1>7, <1>8, EndOfStepKeeps, Zenon

(* The separable allocators. *)
LEMMA SeparableStep ==
  ASSUME MatchingInv, SeparableInputFirst \/ SeparableOutputFirst
  PROVE  MatchingInv'
  <1>1. TypeOK /\ requests' = requests
    BY Zenon DEF MatchingInv, SeparableInputFirst, SeparableOutputFirst, EndOfStep
  <1>2. PICK g, a : IsTwoStage(g, a) /\ MatchBoth(g, a) /\ UpdateState(g, a)
    <2>1. CASE SeparableInputFirst
      <3>1. /\ MatchBoth(OutputSecond(InputFirst), InputFirst)
            /\ UpdateState(OutputSecond(InputFirst), InputFirst)
        BY <2>1, Zenon DEF SeparableInputFirst
      <3> QED BY <1>1, <3>1, InputFirstStages, Zenon
    <2>2. CASE SeparableOutputFirst
      <3>1. /\ MatchBoth(OutputFirst, InputSecond(OutputFirst))
            /\ UpdateState(OutputFirst, InputSecond(OutputFirst))
        BY <2>2, Zenon DEF SeparableOutputFirst
      <3> QED BY <1>1, <3>1, OutputFirstStages, Zenon
    <2> QED BY <2>1, <2>2, Zenon
  <1>3. /\ Matching'
        /\ inmatch' \in [Inputs -> Outputs \cup {None}]
        /\ outmatch' \in [Outputs -> Inputs \cup {None}]
    BY <1>1, <1>2, BothKeepMatching, Zenon DEF IsTwoStage
  <1>4. /\ aptr' \in [Inputs -> Outputs] /\ gptr' \in [Outputs -> Inputs]
        /\ inBeats' \in [Inputs -> SUBSET (Outputs \X Outputs)]
        /\ outBeats' \in [Outputs -> SUBSET (Inputs \X Inputs)]
    BY <1>1, <1>2, UpdateStateTypes, Zenon DEF IsTwoStage
  <1>5. TypeOK'
    <2>1. /\ type' = type /\ arb' = arb /\ patient' = patient /\ grants' = grants
          /\ pri' = pri /\ first' = first
      BY Zenon DEF SeparableInputFirst, SeparableOutputFirst, EndOfStep, rest, wave
    <2>2. iter' \in Nat /\ phase' \in {"request", "allocate"}
      BY <1>1 DEF SeparableInputFirst, SeparableOutputFirst, EndOfStep, TypeOK
    <2> QED BY <1>1, <1>3, <1>4, <2>1, <2>2, Zenon DEF TypeOK
  <1>6. EndOfStep(TRUE)
    BY Zenon DEF SeparableInputFirst, SeparableOutputFirst
  <1> QED BY <1>3, <1>5, <1>6, EndOfStepKeeps, Zenon

(* A diagonal. *)
LEMMA DiagonalStep ==
  ASSUME MatchingInv, Diagonal
  PROVE  MatchingInv'
  <1>1. TypeOK /\ Matching /\ requests' = requests /\ phase = "allocate"
        /\ type \in Wavefronts /\ iter < Square
    BY Zenon DEF MatchingInv, Diagonal, EndOfStep
  <1>2. /\ Matching'
        /\ inmatch' \in [Inputs -> Outputs \cup {None}]
        /\ outmatch' \in [Outputs -> Inputs \cup {None}]
    BY <1>1, DiagonalKeepsMatching, Zenon
  <1>3. FirstDiag \in {None} \cup Nat
    <2>1. CASE first = None /\ Cells # {}
      <3> DEFINE r == CHOOSE r \in Cells : TRUE
      <3>1. r \in Cells
        BY <2>1, Zenon
      <3>2. r \in Inputs \X Outputs
        BY <1>1, <3>1, Zenon DEF Cells, TypeOK
      <3>3. r[1] + r[2] \in Nat
        BY <3>2, Sizes DEF Inputs, Outputs
      <3>4. FirstDiag = r[1] + r[2]
        BY <2>1, Zenon DEF FirstDiag
      <3> QED BY <3>3, <3>4, Zenon
    <2>2. CASE ~(first = None /\ Cells # {})
      BY <1>1, <2>2, Zenon DEF FirstDiag, TypeOK
    <2> QED BY <2>1, <2>2, Zenon
  <1>4. NextPri(FirstDiag) \in 0 .. Square - 1
    <2> DEFINE x == (IF type = "rr_wavefront" THEN FirstDiag ELSE pri) + 1
    <2>1. x \in Int
      BY <1>1, <1>3 DEF TypeOK, None
    <2>2. x % Square \in 0 .. Square - 1
      BY <2>1, Sizes, ModRange, Zenon
    <2> QED BY <1>1, <2>2, Zenon DEF NextPri, TypeOK
  <1>5. pri' \in 0 .. Square - 1 /\ first' \in {None} \cup Nat
    BY <1>1, <1>3, <1>4, Zenon DEF Diagonal, TypeOK
  <1>6. TypeOK'
    <2>1. /\ type' = type /\ arb' = arb /\ patient' = patient /\ grants' = grants
          /\ aptr' = aptr /\ gptr' = gptr /\ inBeats' = inBeats /\ outBeats' = outBeats
      BY Zenon DEF Diagonal, EndOfStep, rest, arbiters
    <2>2. iter' \in Nat /\ phase' \in {"request", "allocate"}
      BY <1>1 DEF Diagonal, EndOfStep, TypeOK
    <2> QED BY <1>1, <1>2, <1>5, <2>1, <2>2, Zenon DEF TypeOK
  <1>7. /\ EndOfStep(LastDiagonal) /\ LastDiagonal \in BOOLEAN
        /\ type \notin Iterative
        /\ ~LastDiagonal => iter + 1 < Square
    BY <1>1, Sizes DEF Diagonal, LastDiagonal, TypeOK, Iterative, Wavefronts
  <1> QED BY <1>2, <1>6, <1>7, EndOfStepKeeps, Zenon

(* MatchingInv is inductive. *)
LEMMA MatchingInvInit ==
  ASSUME Init
  PROVE  MatchingInv
  <1>1. TypeOK
    <2>1. 0 \in Inputs /\ 0 \in Outputs /\ 0 \in 0 .. Square - 1
      BY Sizes DEF Inputs, Outputs
    <2>2. /\ inBeats \in [Inputs -> SUBSET (Outputs \X Outputs)]
          /\ outBeats \in [Outputs -> SUBSET (Inputs \X Inputs)]
      BY Zenon DEF Init, LowerTriangle
    <2> QED BY <2>1, <2>2, Zenon DEF Init, TypeOK
  <1>2. Matching
    BY Zenon DEF Init, Matching
  <1> QED BY <1>1, <1>2, Zenon DEF Init, MatchingInv

(* Every step of an allocator and every new set of requests preserves it. *)
LEMMA MatchingInvNext ==
  ASSUME MatchingInv, Provable, [Next]_vars
  PROVE  MatchingInv'
  <1>1. ASSUME NEW R \in SUBSET (Inputs \X Outputs), AddRequests(R) PROVE MatchingInv'
    BY <1>1, AddRequestsStep, Zenon
  <1>2. CASE UNCHANGED vars
    BY <1>2, Zenon DEF vars, rest, match, arbiters, wave, MatchingInv, TypeOK, Matching, Untouched
  <1>3. ~ShortestAugmenting
    BY Zenon DEF ShortestAugmenting, Provable, MatchingInv, TypeOK
  <1> QED BY <1>1, <1>2, <1>3, IterateStep, IterateRandomlyStep, LonelyOutputStep,
             SeparableStep, DiagonalStep, Zenon DEF Next

(* The allocators compute matchings of the requests, whatever their pointers *)
(* and however often the router calls them, if SelAlloc makes one iteration; *)
(* MaxSizeMatch apart.                                                       *)
THEOREM AllocatesMatching == Provable => (Spec => []Matching)
  <1> SUFFICES ASSUME Provable PROVE Spec => []Matching
    BY Zenon
  <1>1. Init => MatchingInv
    BY MatchingInvInit, Zenon
  <1>2. MatchingInv /\ [Next]_vars => MatchingInv'
    BY MatchingInvNext, Zenon
  <1>3. MatchingInv => Matching
    BY Zenon DEF MatchingInv
  <1> QED BY <1>1, <1>2, <1>3, PTL DEF Spec

-----------------------------------------------------------------------------
(* How much is granted. *)

MatchedInputs == {i \in Inputs : inmatch[i] # None}
MatchedOutputs == {o \in Outputs : outmatch[o] # None}

(* Every iteration adds a match until nothing is left to match, and the      *)
(* diagonals that are done leave nothing to match.                           *)
MaximalInv ==
  /\ type \in Iterative =>
       \/ AllSettled
       \/ iter <= Cardinality(MatchedInputs) /\ iter <= Cardinality(MatchedOutputs)
  /\ phase = "request" /\ type \in Iterative => requests = {} \/ iter = Iters[type]
  /\ phase = "allocate" /\ type \in Wavefronts =>
       \A r \in requests : \A p \in 0 .. iter - 1 : OnDiagonal(r, p) => Settled(r)
  /\ phase = "request" /\ type \in Wavefronts => AllSettled

(* The sets whose sizes count are finite. *)
LEMMA FiniteMatches ==
  /\ IsFiniteSet(Inputs) /\ Cardinality(Inputs) = NumInputs
  /\ IsFiniteSet(Outputs) /\ Cardinality(Outputs) = NumOutputs
  /\ \A S \in SUBSET Inputs : IsFiniteSet(S) /\ Cardinality(S) \in Nat
  /\ \A S \in SUBSET Outputs : IsFiniteSet(S) /\ Cardinality(S) \in Nat
  <1>1. IsFiniteSet(Inputs) /\ Cardinality(Inputs) = NumInputs
    BY Sizes, FS_Interval DEF Inputs
  <1>2. IsFiniteSet(Outputs) /\ Cardinality(Outputs) = NumOutputs
    BY Sizes, FS_Interval DEF Outputs
  <1>3. \A S \in SUBSET Inputs : IsFiniteSet(S)
    BY <1>1, FS_Subset, Zenon
  <1>4. \A S \in SUBSET Outputs : IsFiniteSet(S)
    BY <1>2, FS_Subset, Zenon
  <1> QED BY <1>1, <1>2, <1>3, <1>4, FS_CardinalityType, Zenon

(* What is matched stays matched within a round. *)
LEMMA StaysSettled ==
  ASSUME TypeOK, requests' = requests,
         \A i \in Inputs : inmatch[i] # None => inmatch'[i] = inmatch[i],
         \A o \in Outputs : outmatch[o] # None => outmatch'[o] = outmatch[o]
  PROVE  \A r \in requests : Settled(r) => Settled(r)'
  <1> SUFFICES ASSUME NEW r \in requests, Settled(r) PROVE Settled(r)'
    BY Zenon
  <1>1. r[1] \in Inputs /\ r[2] \in Outputs
    BY Zenon DEF TypeOK
  <1> QED BY <1>1, Zenon DEF Settled

(* An iteration of iSLIP, PIM or SelAlloc. *)
LEMMA IterationGrows ==
  ASSUME MatchingInv, MaximalInv, phase = "allocate", type \in Iterative,
         NEW g, NEW a, IsGrant(g), IsAccept(g, a), Match(g, a), EndOfStep(LastIter)
  PROVE  MaximalInv'
  <1>1. /\ TypeOK /\ Matching /\ iter \in Nat
        /\ requests' = requests /\ type' = type /\ iter' = iter + 1
    BY Zenon DEF MatchingInv, TypeOK, EndOfStep, rest
  <1>2. /\ \A i \in Inputs : inmatch[i] # None => inmatch'[i] = inmatch[i]
        /\ \A o \in Outputs : outmatch[o] # None => outmatch'[o] = outmatch[o]
    BY <1>1, MatchKeepsMatching, Zenon
  <1>3. ASSUME AllSettled PROVE AllSettled'
    BY <1>1, <1>2, <1>3, StaysSettled, Zenon DEF AllSettled
  <1>4. ASSUME ~AllSettled
        PROVE  iter' <= Cardinality(MatchedInputs') /\ iter' <= Cardinality(MatchedOutputs')
    <2>1. /\ \E i \in Inputs : inmatch[i] = None /\ inmatch'[i] # None
          /\ \E o \in Outputs : outmatch[o] = None /\ outmatch'[o] # None
      BY <1>1, <1>4, MatchAdds, Zenon
    <2>2. Cardinality(MatchedInputs) + 1 <= Cardinality(MatchedInputs')
      <3>1. PICK i \in Inputs : inmatch[i] = None /\ inmatch'[i] # None
        BY <2>1, Zenon
      <3>2. i \in MatchedInputs' /\ i \notin MatchedInputs
        BY <3>1, Zenon DEF MatchedInputs
      <3>3. MatchedInputs \in SUBSET (MatchedInputs') /\ MatchedInputs' \in SUBSET Inputs
        BY <1>2, Zenon DEF MatchedInputs
      <3> QED BY <3>2, <3>3, FiniteMatches, StrictlyMore, Zenon
    <2>3. Cardinality(MatchedOutputs) + 1 <= Cardinality(MatchedOutputs')
      <3>1. PICK o \in Outputs : outmatch[o] = None /\ outmatch'[o] # None
        BY <2>1, Zenon
      <3>2. o \in MatchedOutputs' /\ o \notin MatchedOutputs
        BY <3>1, Zenon DEF MatchedOutputs
      <3>3. MatchedOutputs \in SUBSET (MatchedOutputs') /\ MatchedOutputs' \in SUBSET Outputs
        BY <1>2, Zenon DEF MatchedOutputs
      <3> QED BY <3>2, <3>3, FiniteMatches, StrictlyMore, Zenon
    <2>4. /\ Cardinality(MatchedInputs) \in Nat /\ Cardinality(MatchedInputs') \in Nat
          /\ Cardinality(MatchedOutputs) \in Nat /\ Cardinality(MatchedOutputs') \in Nat
      BY FiniteMatches, Zenon DEF MatchedInputs, MatchedOutputs
    <2>5. iter <= Cardinality(MatchedInputs) /\ iter <= Cardinality(MatchedOutputs)
      BY <1>4, Zenon DEF MaximalInv
    <2> QED BY <1>1, <2>2, <2>3, <2>4, <2>5
  <1>5. \/ AllSettled'
        \/ iter' <= Cardinality(MatchedInputs') /\ iter' <= Cardinality(MatchedOutputs')
    BY <1>3, <1>4, Zenon
  <1>6. phase' = "request" => iter' = Iters[type']
    BY <1>1, Zenon DEF EndOfStep, LastIter
  <1>7. type' \notin Wavefronts
    BY <1>1, Zenon DEF Iterative, Wavefronts
  <1> QED BY <1>5, <1>6, <1>7, Zenon DEF MaximalInv

(* A diagonal of Wavefront. *)
LEMMA DiagonalSettles ==
  ASSUME MatchingInv, MaximalInv, Diagonal
  PROVE  MaximalInv'
  <1>1. /\ TypeOK /\ Matching /\ iter \in Nat /\ iter < Square /\ phase = "allocate"
        /\ requests' = requests /\ type' = type /\ iter' = iter + 1
        /\ type \in Wavefronts /\ type \notin Iterative
    BY Zenon DEF MatchingInv, TypeOK, Diagonal, EndOfStep, rest, Iterative, Wavefronts
  <1>2. /\ \A i \in Inputs : inmatch[i] # None => inmatch'[i] = inmatch[i]
        /\ \A o \in Outputs : outmatch[o] # None => outmatch'[o] = outmatch[o]
        /\ \A r \in requests : OnDiagonal(r, iter) => Settled(r)'
    BY <1>1, DiagonalKeepsMatching, Zenon
  <1>3. ASSUME NEW r \in requests, NEW p \in 0 .. iter, OnDiagonal(r, p)
        PROVE  Settled(r)'
    <2>1. CASE p = iter
      BY <1>2, <1>3, <2>1, Zenon
    <2>2. CASE p # iter
      <3>1. p \in 0 .. iter - 1
        BY <1>1, <2>2
      <3>2. Settled(r)
        BY <1>1, <1>3, <3>1, Zenon DEF MaximalInv
      <3> QED BY <1>1, <1>2, <3>2, StaysSettled, Zenon
    <2> QED BY <2>1, <2>2, Zenon
  <1>4. CASE LastDiagonal
    <2>1. phase' = "request" /\ 0 .. iter = 0 .. Square - 1
      BY <1>1, <1>4, Sizes DEF Diagonal, EndOfStep, LastDiagonal
    <2>2. ASSUME NEW r \in requests PROVE Settled(r)'
      <3>1. PICK p \in 0 .. Square - 1 : OnDiagonal(r, p)
        BY <1>1, EveryCellVisited, Zenon
      <3> QED BY <1>3, <2>1, <3>1, Zenon
    <2>3. AllSettled'
      BY <1>1, <2>2, Zenon DEF AllSettled
    <2> QED BY <1>1, <2>1, <2>3, Zenon DEF MaximalInv
  <1>5. CASE ~LastDiagonal
    <2>1. phase' = "allocate" /\ pri' = pri
      BY <1>1, <1>5, Zenon DEF Diagonal, EndOfStep
    <2>2. iter' - 1 = iter
      BY <1>1
    <2>3. \A r \in requests' : \A p \in 0 .. iter' - 1 : OnDiagonal(r, p)' => Settled(r)'
      BY <1>1, <1>3, <2>1, <2>2, Zenon DEF OnDiagonal
    <2> QED BY <1>1, <2>1, <2>3, Zenon DEF MaximalInv
  <1> QED BY <1>4, <1>5, Zenon

(* MaximalInv is inductive relative to MatchingInv. *)
LEMMA MaximalInvNext ==
  ASSUME MatchingInv, MaximalInv, Provable, [Next]_vars
  PROVE  MaximalInv'
  <1>1. TypeOK
    BY Zenon DEF MatchingInv
  <1>2. ASSUME NEW R \in SUBSET (Inputs \X Outputs), AddRequests(R) PROVE MaximalInv'
    <2>1. iter' = 0 /\ phase' = "allocate"
      BY <1>2, Zenon DEF AddRequests
    <2>2. MatchedInputs' \in SUBSET Inputs /\ MatchedOutputs' \in SUBSET Outputs
      BY Zenon DEF MatchedInputs, MatchedOutputs
    <2>3. 0 <= Cardinality(MatchedInputs') /\ 0 <= Cardinality(MatchedOutputs')
      BY <2>2, FiniteMatches
    <2>4. 0 .. iter' - 1 = {}
      BY <2>1
    <2> QED BY <2>1, <2>3, <2>4, Zenon DEF MaximalInv
  <1>3. CASE Iterate
    <2>1. IsGrant(GrantPhase) /\ IsAccept(GrantPhase, AcceptPhase(GrantPhase))
      BY <1>1, <1>3, GrantPhaseGrants, AcceptPhaseAccepts, Zenon DEF Iterate
    <2>2. /\ Match(GrantPhase, AcceptPhase(GrantPhase)) /\ EndOfStep(LastIter)
          /\ phase = "allocate" /\ type \in Iterative
      BY <1>3, Zenon DEF Iterate, Iterative
    <2> QED BY <2>1, <2>2, IterationGrows, Zenon
  <1>4. CASE IterateRandomly
    <2>1. PICK g \in RandomGrants : \E a \in RandomAccepts(g) : Match(g, a)
      BY <1>4, Zenon DEF IterateRandomly
    <2>2. PICK a \in RandomAccepts(g) : Match(g, a)
      BY <2>1, Zenon
    <2>3. EndOfStep(LastIter) /\ phase = "allocate" /\ type \in Iterative
      BY <1>4, Zenon DEF IterateRandomly, Iterative
    <2> QED BY <2>2, <2>3, RandomChoices, IterationGrows, Zenon
  <1>5. CASE LonelyOutput \/ SeparableInputFirst \/ SeparableOutputFirst
    <2>1. type' = type /\ type \notin Iterative /\ type \notin Wavefronts
      BY <1>5, Zenon DEF LonelyOutput, SeparableInputFirst, SeparableOutputFirst, EndOfStep,
                  rest, Iterative, Wavefronts
    <2> QED BY <2>1, Zenon DEF MaximalInv
  <1>6. CASE Diagonal
    BY <1>6, DiagonalSettles, Zenon
  <1>7. CASE UNCHANGED vars
    BY <1>7, Zenon DEF vars, rest, match, wave, MaximalInv, AllSettled, Settled, OnDiagonal,
                MatchedInputs, MatchedOutputs
  <1>8. ~ShortestAugmenting
    BY <1>1, Zenon DEF ShortestAugmenting, Provable, TypeOK
  <1> QED BY <1>2, <1>3, <1>4, <1>5, <1>6, <1>7, <1>8, Zenon DEF Next

(* What MaximalInv means at the end of a round. *)
LEMMA MaximalFollows ==
  ASSUME MatchingInv, MaximalInv
  PROVE  Maximal
  <1> SUFFICES ASSUME phase = "request", Thorough, NEW r \in requests
               PROVE  inmatch[r[1]] # None \/ outmatch[r[2]] # None
    BY Zenon DEF Maximal
  <1>1. r[1] \in Inputs /\ r[2] \in Outputs /\ iter \in Nat
    BY Zenon DEF MatchingInv, TypeOK
  <1>2. CASE AllSettled
    BY <1>2, Zenon DEF AllSettled, Settled
  <1>3. CASE type \in Wavefronts
    BY <1>2, <1>3, Zenon DEF MaximalInv
  <1>4. CASE type \in Iterative /\ ~AllSettled
    <2>1. /\ iter <= Cardinality(MatchedInputs) /\ iter <= Cardinality(MatchedOutputs)
          /\ iter = Iters[type]
      BY <1>4, Zenon DEF MaximalInv, AllSettled
    <2>2. type \notin Wavefronts
      BY <1>4, Zenon DEF Iterative, Wavefronts
    <2>3. MatchedInputs \in SUBSET Inputs /\ MatchedOutputs \in SUBSET Outputs
      BY Zenon DEF MatchedInputs, MatchedOutputs
    <2>4. /\ Cardinality(MatchedInputs) \in Nat
          /\ Cardinality(MatchedInputs) <= NumInputs
          /\ Cardinality(MatchedInputs) = NumInputs => MatchedInputs = Inputs
      BY <2>3, FiniteMatches, FS_Subset, Zenon
    <2>5. /\ Cardinality(MatchedOutputs) \in Nat
          /\ Cardinality(MatchedOutputs) <= NumOutputs
          /\ Cardinality(MatchedOutputs) = NumOutputs => MatchedOutputs = Outputs
      BY <2>3, FiniteMatches, FS_Subset, Zenon
    <2>6. iter >= NumInputs \/ iter >= NumOutputs
      BY <2>1, <2>2, Zenon DEF Thorough
    <2>7. Cardinality(MatchedInputs) = NumInputs \/ Cardinality(MatchedOutputs) = NumOutputs
      BY <1>1, <2>1, <2>4, <2>5, <2>6, Sizes
    <2>8. MatchedInputs = Inputs \/ MatchedOutputs = Outputs
      BY <2>4, <2>5, <2>7, Zenon
    <2> QED BY <1>1, <2>8, Zenon DEF MatchedInputs, MatchedOutputs
  <1> QED BY <1>2, <1>3, <1>4, Zenon DEF Thorough

(* Wavefront, and iterations as many as inputs or outputs, leave no request  *)
(* whose input and output are both free.                                     *)
THEOREM LeavesNothing == Provable => (Spec => []Maximal)
  <1> SUFFICES ASSUME Provable PROVE Spec => []Maximal
    BY Zenon
  <1>1. Init => MatchingInv
    BY MatchingInvInit, Zenon
  <1>2. Init => MaximalInv
    BY Zenon DEF Init, MaximalInv, AllSettled
  <1>3. MatchingInv /\ [Next]_vars => MatchingInv'
    BY MatchingInvNext, Zenon
  <1>4. MatchingInv /\ MaximalInv /\ [Next]_vars => MaximalInv'
    BY MaximalInvNext, Zenon
  <1>5. MatchingInv /\ MaximalInv => Maximal
    BY MaximalFollows, Zenon
  <1> QED BY <1>1, <1>2, <1>3, <1>4, <1>5, PTL DEF Spec

-----------------------------------------------------------------------------
(* Every round with requests grants one. *)

(* A matrix that is in order stays so when its winner is put last. *)
LEMMA DemoteOrders ==
  ASSUME NEW S, NEW beats \in SUBSET (S \X S), NEW x \in S, StrictOrder(beats)
  PROVE  StrictOrder(Demote(beats, x, S))
  <1> DEFINE old == {p \in beats : p[1] # x}
             new == {<<y, x>> : y \in S \ {x}}
             D == Demote(beats, x, S)
  <1>1. D = old \cup new
    BY Zenon DEF Demote
  <1>2. \A p \in D : p[1] # p[2] /\ p[1] # x /\ p[1] \in S
    BY <1>1 DEF StrictOrder
  <1>3. \A p \in D : p[2] # x => p \in beats
    BY <1>1
  <1>4. ASSUME NEW p \in D, NEW q \in D, p[2] = q[1] PROVE <<p[1], q[2]>> \in D
    <2>1. p[1] # x /\ p[1] \in S /\ q[1] # x
      BY <1>2, Zenon
    <2>2. CASE q[2] = x
      BY <1>1, <2>1, <2>2, Zenon
    <2>3. CASE q[2] # x
      <3>1. p \in beats /\ q \in beats
        BY <1>3, <1>4, <2>1, <2>3, Zenon
      <3>2. <<p[1], q[2]>> \in beats
        BY <1>4, <3>1, Zenon DEF StrictOrder
      <3> QED BY <1>1, <2>1, <3>2, Zenon
    <2> QED BY <2>2, <2>3, Zenon
  <1> HIDE DEF D
  <1> QED BY <1>2, <1>4, Zenon DEF StrictOrder, D

(* UpdateState keeps every matrix in order. *)
LEMMA UpdateStateOrders ==
  ASSUME TypeOK, Ordered, NEW g \in [Outputs -> Inputs \cup {None}],
         NEW a \in [Inputs -> Outputs \cup {None}], UpdateState(g, a)
  PROVE  Ordered'
  <1>1. ASSUME NEW i \in Inputs PROVE StrictOrder(inBeats'[i])
    <2>1. inBeats[i] \in SUBSET (Outputs \X Outputs) /\ StrictOrder(inBeats[i])
      BY Zenon DEF TypeOK, Ordered
    <2>2. CASE a[i] # None /\ g[a[i]] = i
      <3>1. inBeats'[i] = Demote(inBeats[i], a[i], Outputs) /\ a[i] \in Outputs
        BY <2>2, Zenon DEF UpdateState
      <3> QED BY <2>1, <3>1, DemoteOrders, Zenon
    <2>3. CASE ~(a[i] # None /\ g[a[i]] = i)
      <3>1. inBeats'[i] = inBeats[i]
        BY <2>3, Zenon DEF UpdateState
      <3> QED BY <2>1, <3>1, Zenon
    <2> QED BY <2>2, <2>3, Zenon
  <1>2. ASSUME NEW o \in Outputs PROVE StrictOrder(outBeats'[o])
    <2>1. outBeats[o] \in SUBSET (Inputs \X Inputs) /\ StrictOrder(outBeats[o])
      BY Zenon DEF TypeOK, Ordered
    <2>2. CASE Taken(o, g, a)
      <3>1. outBeats'[o] = Demote(outBeats[o], g[o], Inputs) /\ g[o] \in Inputs
        BY <2>2, Zenon DEF UpdateState, Taken
      <3> QED BY <2>1, <3>1, DemoteOrders, Zenon
    <2>3. CASE ~Taken(o, g, a)
      <3>1. outBeats'[o] = outBeats[o]
        BY <2>3, Zenon DEF UpdateState
      <3> QED BY <2>1, <3>1, Zenon
    <2> QED BY <2>2, <2>3, Zenon
  <1> QED BY <1>1, <1>2, Zenon DEF Ordered

(* The matrices are in order, and a round of LOA or of a separable           *)
(* allocator has made a match; the other allocators are left to MaximalInv.  *)
GrantInv ==
  /\ Ordered
  /\ type \in Separables \cup {"loa"} => SomeGrant

(* LOA and the separable allocators match one request at least. *)
LEMMA TwoStageGrants ==
  ASSUME MatchingInv, Ordered, LonelyOutput \/ SeparableInputFirst \/ SeparableOutputFirst
  PROVE  GrantInv'
  <1>1. TypeOK /\ requests' = requests
    BY Zenon DEF MatchingInv, LonelyOutput, SeparableInputFirst, SeparableOutputFirst, EndOfStep
  <1>2. PICK g, a : /\ IsTwoStage(g, a) /\ FindsSome(g, a) /\ MatchBoth(g, a)
                    /\ UpdateState(g, a) \/ UNCHANGED <<inBeats, outBeats>>
    <2>1. CASE LonelyOutput
      <3>1. MatchBoth(LonelyGrants(Asked), Asked) /\ UNCHANGED <<inBeats, outBeats>>
        BY <2>1, Zenon DEF LonelyOutput, LonelyGrants
      <3> QED BY <1>1, <3>1, LonelyStages, Zenon
    <2>2. CASE SeparableInputFirst
      <3>1. /\ MatchBoth(OutputSecond(InputFirst), InputFirst)
            /\ UpdateState(OutputSecond(InputFirst), InputFirst)
        BY <2>2, Zenon DEF SeparableInputFirst
      <3> QED BY <1>1, <3>1, InputFirstStages, Zenon
    <2>3. CASE SeparableOutputFirst
      <3>1. /\ MatchBoth(OutputFirst, InputSecond(OutputFirst))
            /\ UpdateState(OutputFirst, InputSecond(OutputFirst))
        BY <2>3, Zenon DEF SeparableOutputFirst
      <3> QED BY <1>1, <3>1, OutputFirstStages, Zenon
    <2> QED BY <2>1, <2>2, <2>3, Zenon
  <1>3. requests # {} => \E i \in Inputs : inmatch'[i] # None
    BY <1>2, Zenon DEF FindsSome, MatchBoth
  <1>4. Ordered'
    <2>1. CASE UpdateState(g, a)
      BY <1>1, <1>2, <2>1, UpdateStateOrders, Zenon DEF IsTwoStage
    <2>2. CASE UNCHANGED <<inBeats, outBeats>>
      BY <2>2, Zenon DEF Ordered
    <2> QED BY <1>2, <2>1, <2>2, Zenon
  <1> QED BY <1>1, <1>3, <1>4, Zenon DEF GrantInv, SomeGrant

(* GrantInv is inductive relative to MatchingInv. *)
LEMMA GrantInvNext ==
  ASSUME MatchingInv, GrantInv, Provable, [Next]_vars
  PROVE  GrantInv'
  <1>1. ASSUME NEW R \in SUBSET (Inputs \X Outputs), AddRequests(R) PROVE GrantInv'
    BY <1>1, Zenon DEF AddRequests, GrantInv, SomeGrant, Ordered, arbiters
  <1>2. CASE Iterate \/ IterateRandomly \/ Diagonal
    <2>1. /\ type' = type /\ inBeats' = inBeats /\ outBeats' = outBeats
          /\ type \notin Separables \cup {"loa"}
      BY <1>2, Zenon DEF Iterate, IterateRandomly, Diagonal, EndOfStep, rest, arbiters, Separables,
                  Wavefronts
    <2> QED BY <2>1, Zenon DEF GrantInv, Ordered
  <1>3. CASE LonelyOutput \/ SeparableInputFirst \/ SeparableOutputFirst
    BY <1>3, TwoStageGrants, Zenon DEF GrantInv
  <1>4. CASE UNCHANGED vars
    BY <1>4, Zenon DEF vars, rest, match, arbiters, GrantInv, SomeGrant, Ordered
  <1>5. ~ShortestAugmenting
    BY Zenon DEF ShortestAugmenting, Provable, MatchingInv, TypeOK
  <1> QED BY <1>1, <1>2, <1>3, <1>4, <1>5, Zenon DEF Next

(* In a round of any allocator some request has been matched. *)
LEMMA SomeGrantFollows ==
  ASSUME MatchingInv, MaximalInv, GrantInv, Provable
  PROVE  SomeGrant
  <1> SUFFICES ASSUME phase = "request", requests # {}
               PROVE  \E i \in Inputs : inmatch[i] # None
    BY Zenon DEF SomeGrant
  <1>1. TypeOK /\ Matching /\ type \in Types \ {"max_size"}
    BY AllocatorAssumption, Zenon DEF MatchingInv, TypeOK, Provable
  <1>2. CASE type \in Separables \cup {"loa"}
    BY <1>2, Zenon DEF GrantInv, SomeGrant
  <1>3. CASE AllSettled
    <2>1. PICK r \in requests : r[1] \in Inputs /\ r[2] \in Outputs
      BY <1>1, SomeRequest, Zenon
    <2>2. CASE inmatch[r[1]] # None
      BY <2>1, <2>2, Zenon
    <2>3. CASE outmatch[r[2]] # None
      <3>1. outmatch[r[2]] \in Inputs /\ inmatch[outmatch[r[2]]] = r[2]
        BY <1>1, <2>1, <2>3 DEF TypeOK, Matching
      <3> QED BY <2>1, <3>1, Sizes, Zenon
    <2> QED BY <1>3, <2>1, <2>2, <2>3, Zenon DEF AllSettled, Settled
  <1>4. CASE type \in Wavefronts
    BY <1>3, <1>4, Zenon DEF MaximalInv
  <1>5. CASE type \in Iterative /\ ~AllSettled
    <2>1. iter <= Cardinality(MatchedInputs) /\ iter = Iters[type]
      BY <1>5, Zenon DEF MaximalInv
    <2>2. Iters[type] \in Nat \ {0}
      BY <1>1, AllocatorAssumption, Zenon
    <2>3. MatchedInputs # {}
      BY <2>1, <2>2, FS_EmptySet
    <2> QED BY <2>3, Zenon DEF MatchedInputs
  <1> QED BY <1>1, <1>2, <1>3, <1>4, <1>5, Zenon DEF Types

(* Whatever the pointers and matrices have become, a round with requests     *)
(* grants at least one.                                                      *)
THEOREM GrantsSome == Provable => (Spec => []SomeGrant)
  <1> SUFFICES ASSUME Provable PROVE Spec => []SomeGrant
    BY Zenon
  <1>1. Init => MatchingInv
    BY MatchingInvInit, Zenon
  <1>2. Init => MaximalInv
    BY Zenon DEF Init, MaximalInv, AllSettled
  <1>3. Init => GrantInv
    <2> SUFFICES ASSUME Init PROVE GrantInv
      BY Zenon
    <2>1. StrictOrder(LowerTriangle(Inputs)) /\ StrictOrder(LowerTriangle(Outputs))
      BY DEF StrictOrder, LowerTriangle, Inputs, Outputs
    <2> QED BY <2>1, Zenon DEF Init, GrantInv, Ordered, SomeGrant
  <1>4. MatchingInv /\ [Next]_vars => MatchingInv'
    BY MatchingInvNext, Zenon
  <1>5. MatchingInv /\ MaximalInv /\ [Next]_vars => MaximalInv'
    BY MaximalInvNext, Zenon
  <1>6. MatchingInv /\ GrantInv /\ [Next]_vars => GrantInv'
    BY GrantInvNext, Zenon
  <1>7. MatchingInv /\ MaximalInv /\ GrantInv => SomeGrant
    BY SomeGrantFollows, Zenon
  <1> QED BY <1>1, <1>2, <1>3, <1>4, <1>5, <1>6, <1>7, PTL DEF Spec

=============================================================================
