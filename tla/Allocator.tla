------------------------------ MODULE Allocator -----------------------------
(***************************************************************************)
(* The allocators of booksim2/src/allocators with the arbiters they use:   *)
(* in every cycle a router clears an allocator, adds requests of inputs    *)
(* for outputs, calls Allocate and reads the matching.                     *)
(*                                                                         *)
(* A round of Allocate takes the steps of its outer loop: an iteration of  *)
(* iSLIP, PIM and SelAlloc, a diagonal of Wavefront, an augmenting path of *)
(* MaxSizeMatch, everything at once in LOA and the separable allocators.   *)
(* Nothing runs between these steps; the pointers and matrices that make   *)
(* later rounds fair are the only state that a round leaves behind.  All   *)
(* requests have one priority.                                             *)
(***************************************************************************)
EXTENDS Integers, FiniteSets, Sequences

CONSTANTS
  NumInputs,   \* _inputs
  NumOutputs,  \* _outputs
  SomeTypes,   \* the values of sw_allocator or vc_allocator to choose from
  SomeArbs,    \* the values of arb_type to choose from
  Iters        \* alloc_iters, for each of the types

Inputs == 0 .. NumInputs - 1
Outputs == 0 .. NumOutputs - 1
Square == IF NumInputs >= NumOutputs THEN NumInputs ELSE NumOutputs
None == -1

Iterative == {"islip", "pim", "select"}
Wavefronts == {"wavefront", "rr_wavefront"}
Separables == {"separable_input_first", "separable_output_first"}
Types == Iterative \cup Wavefronts \cup Separables \cup {"loa", "max_size"}

ASSUME AllocatorAssumption ==
  /\ NumInputs \in Nat \ {0} /\ NumOutputs \in Nat \ {0}
  /\ SomeTypes \subseteq Types /\ SomeArbs \subseteq {"round_robin", "matrix"}
  /\ Iters \in [Types -> Nat \ {0}]
  /\ "max_size" \in SomeTypes => NumOutputs <= NumInputs  \* the length of _from

VARIABLES
  type,       \* the class of the allocator ...
  arb,        \* ... and of its arbiters, never changed
  patient,    \* do requesters repeat what they were not granted? never changed
  requests,   \* set of <<input, output>>: _in_req and _out_req, or _request
  inmatch,    \* [Inputs -> Outputs or None]: _inmatch
  outmatch,   \* [Outputs -> Inputs or None]: _outmatch
  grants,     \* [Outputs -> Inputs or None]: grants of the last iteration
  aptr,       \* [Inputs -> Outputs]: _aptrs, _rptr, _pointer of _input_arb
  gptr,       \* [Outputs -> Inputs]: _gptrs, _gptr, _pointer of _output_arb
  inBeats,    \* [Inputs -> pairs of outputs]: _matrix of _input_arb
  outBeats,   \* [Outputs -> pairs of inputs]: _matrix of _output_arb
  pri,        \* _pri of Wavefront, _prio of MaxSizeMatch
  first,      \* first_diag of Wavefront
  phase,      \* "request", or "allocate" within Allocate
  iter        \* iterations or diagonals done

rest == <<type, arb, patient>>
match == <<inmatch, outmatch>>
arbiters == <<aptr, gptr, inBeats, outBeats>>
wave == <<pri, first>>
vars == <<rest, requests, match, grants, arbiters, wave, phase, iter>>

(* The matrix starts with ones below the diagonal. *)
LowerTriangle(S) == {p \in S \X S : p[2] < p[1]}

Init ==
  /\ type \in SomeTypes /\ patient \in BOOLEAN
  /\ arb \in (IF type \in Separables THEN SomeArbs ELSE {"none"})
  /\ requests = {}
  /\ inmatch = [i \in Inputs |-> None]
  /\ outmatch = [o \in Outputs |-> None]
  /\ grants = [o \in Outputs |-> None]
  /\ aptr = [i \in Inputs |-> 0]
  /\ gptr = [o \in Outputs |-> 0]
  /\ inBeats = [i \in Inputs |-> LowerTriangle(Outputs)]
  /\ outBeats = [o \in Outputs |-> LowerTriangle(Inputs)]
  /\ pri = 0 /\ first = None
  /\ phase = "request" /\ iter = 0

-----------------------------------------------------------------------------
(* Arbiters. *)

(* A round-robin pointer moves behind the winner. *)
After(x, n) == (x + 1) % n

(* The first of S from the pointer on: the order of Supersedes, and of the   *)
(* loops of islip.cpp that wrap around a sorted map.                         *)
Distance(x, ptr, n) == ((x - ptr) + n) % n
RoundRobin(S, ptr, n) ==
  IF S = {} THEN None
  ELSE CHOOSE x \in S : \A y \in S : Distance(x, ptr, n) <= Distance(y, ptr, n)

(* The first of S that no other one of S has priority over. *)
MatrixPick(S, beats) ==
  LET unbeaten == {x \in S : \A y \in S : <<y, x>> \notin beats}
  IN IF unbeaten = {} THEN None
     ELSE CHOOSE x \in unbeaten : \A y \in unbeaten : x <= y

Arbitrate(S, ptr, beats, n) ==
  IF arb = "round_robin" THEN RoundRobin(S, ptr, n) ELSE MatrixPick(S, beats)

(* UpdateState of a matrix arbiter: the winner x comes last. *)
Demote(beats, x, S) ==
  {p \in beats : p[1] # x} \cup {<<y, x>> : y \in S \ {x}}

-----------------------------------------------------------------------------
(* The router: requests of a cycle, in any order. *)
Ungranted == {r \in requests : inmatch[r[1]] # r[2]}

(* Clear, and AddRequest for each of R. *)
AddRequests(R) ==
  /\ phase = "request"
  /\ patient => Ungranted \subseteq R
  /\ requests' = R
  /\ inmatch' = [i \in Inputs |-> None]
  /\ outmatch' = [o \in Outputs |-> None]
  /\ grants' = [o \in Outputs |-> None]
  /\ first' = None
  /\ phase' = "allocate" /\ iter' = 0
  /\ UNCHANGED <<rest, arbiters, pri>>

Wanted(i) == {o \in Outputs : <<i, o>> \in requests}
Wanting(o) == {i \in Inputs : <<i, o>> \in requests}

-----------------------------------------------------------------------------
(* iSLIP, PIM and SelAlloc. *)

(* Mutant: an output that is matched already grants again. *)
CandidatesAll(o) == {i \in Wanting(o) : inmatch[i] = None}

(* The inputs an output may grant: none if it is matched. *)
Candidates(o) == {i \in Wanting(o) : inmatch[i] = None /\ outmatch[o] = None}

(* SelAlloc declares grants outside its loop: old ones stay.  *)
OldGrant(o) == IF type = "select" THEN grants[o] ELSE None
GrantPhase ==
  [o \in Outputs |-> IF Candidates(o) = {} THEN OldGrant(o)
                     ELSE RoundRobin(Candidates(o), gptr[o], NumInputs)]
(* An input that holds g's grants, and the one it accepts. *)
Offers(i, g) == {o \in Wanted(i) : g[o] = i}
AcceptPhase(g) ==
  [i \in Inputs |-> RoundRobin(Offers(i, g), aptr[i], NumOutputs)]

(* RandomInt gives PIM any candidate and any offer. *)
RandomGrants ==
  {g \in [Outputs -> Inputs \cup {None}] :
     \A o \in Outputs : g[o] \in (IF Candidates(o) = {} THEN {None} ELSE Candidates(o))}
RandomAccepts(g) ==
  {a \in [Inputs -> Outputs \cup {None}] :
     \A i \in Inputs : a[i] \in (IF Offers(i, g) = {} THEN {None} ELSE Offers(i, g))}

(* Output o's offer was taken, when inputs accept a of the grants g. *)
Taken(o, g, a) == g[o] # None /\ a[g[o]] = o

Match(g, a) ==
  /\ inmatch' = [i \in Inputs |-> IF a[i] # None THEN a[i] ELSE inmatch[i]]
  /\ outmatch' = [o \in Outputs |-> IF Taken(o, g, a) THEN g[o] ELSE outmatch[o]]

(* Mutant: the pointers of a match stay at it, not behind it. *)
UpdatePointersToMatch(g, a) ==
  /\ gptr' = [o \in Outputs |-> IF iter = 0 /\ Taken(o, g, a) THEN g[o] ELSE gptr[o]]
  /\ aptr' = [i \in Inputs |-> IF iter = 0 /\ a[i] # None THEN a[i] ELSE aptr[i]]

(* Only matches of the first iteration move pointers. *)
UpdatePointers(g, a) ==
  /\ gptr' = [o \in Outputs |->
                IF iter = 0 /\ Taken(o, g, a) THEN After(g[o], NumInputs) ELSE gptr[o]]
  /\ aptr' = [i \in Inputs |->
                IF iter = 0 /\ a[i] # None THEN After(a[i], NumOutputs) ELSE aptr[i]]

(* Mutant: the last iteration is left out. *)
LastIterEarly == iter + 2 >= Iters[type]

LastIter == iter + 1 = Iters[type]

EndOfStep(last) ==
  /\ iter' = iter + 1
  /\ phase' = IF last THEN "request" ELSE phase
  /\ UNCHANGED <<rest, requests>>

Iterate ==
  /\ phase = "allocate" /\ type \in {"islip", "select"}
  /\ LET g == GrantPhase
         a == AcceptPhase(g)
     IN Match(g, a) /\ UpdatePointers(g, a) /\ grants' = g
  /\ EndOfStep(LastIter)
  /\ UNCHANGED <<inBeats, outBeats, wave>>

IterateRandomly ==
  /\ phase = "allocate" /\ type = "pim"
  /\ \E g \in RandomGrants : \E a \in RandomAccepts(g) : Match(g, a) /\ grants' = g
  /\ EndOfStep(LastIter)
  /\ UNCHANGED <<arbiters, wave>>

-----------------------------------------------------------------------------
(* LOA, "lonely output": each input asks for the output with fewest requests. *)
Lonely(i) ==
  {o \in Wanted(i) : \A q \in Wanted(i) : Cardinality(Wanting(o)) <= Cardinality(Wanting(q))}
Asked == [i \in Inputs |-> RoundRobin(Lonely(i), aptr[i], NumOutputs)]

(* The inputs and outputs of the pairs a[i] = o that g[o] = i confirms. *)
MatchBoth(g, a) ==
  /\ inmatch' = [i \in Inputs |-> IF a[i] # None /\ g[a[i]] = i THEN a[i] ELSE None]
  /\ outmatch' = [o \in Outputs |-> IF Taken(o, g, a) THEN g[o] ELSE None]

(* The pointers of a match move on by one, wherever the match is. *)
LonelyOutput ==
  /\ phase = "allocate" /\ type = "loa"
  /\ LET a == Asked
         g == [o \in Outputs |->
                 RoundRobin({i \in Inputs : a[i] = o}, gptr[o], NumInputs)]
     IN /\ MatchBoth(g, a)
        /\ gptr' = [o \in Outputs |->
                      IF g[o] # None THEN After(gptr[o], NumInputs) ELSE gptr[o]]
        /\ aptr' = [i \in Inputs |->
                      IF a[i] # None /\ g[a[i]] = i THEN After(aptr[i], NumOutputs)
                      ELSE aptr[i]]
  /\ EndOfStep(TRUE)
  /\ UNCHANGED <<grants, inBeats, outBeats, wave>>

-----------------------------------------------------------------------------
(* The separable allocators: one stage of arbiters, then the other. *)
InputArb(i, S) == Arbitrate(S, aptr[i], inBeats[i], NumOutputs)
OutputArb(o, S) == Arbitrate(S, gptr[o], outBeats[o], NumInputs)

InputFirst ==
  [i \in Inputs |-> InputArb(i, Wanted(i))]
OutputSecond(a) ==
  [o \in Outputs |-> OutputArb(o, {i \in Inputs : a[i] = o})]
OutputFirst ==
  [o \in Outputs |-> OutputArb(o, Wanting(o))]
InputSecond(g) ==
  [i \in Inputs |-> InputArb(i, {o \in Outputs : g[o] = i})]

(* UpdateState of the two arbiters of each match, and of no others. *)
UpdateState(g, a) ==
  LET in == {i \in Inputs : a[i] # None /\ g[a[i]] = i}
      out == {o \in Outputs : Taken(o, g, a)}
  IN /\ aptr' = [i \in Inputs |-> IF i \in in THEN After(a[i], NumOutputs) ELSE aptr[i]]
     /\ gptr' = [o \in Outputs |-> IF o \in out THEN After(g[o], NumInputs) ELSE gptr[o]]
     /\ inBeats' = [i \in Inputs |->
          IF i \in in THEN Demote(inBeats[i], a[i], Outputs) ELSE inBeats[i]]
     /\ outBeats' = [o \in Outputs |->
          IF o \in out THEN Demote(outBeats[o], g[o], Inputs) ELSE outBeats[o]]

SeparableInputFirst ==
  /\ phase = "allocate" /\ type = "separable_input_first"
  /\ LET a == InputFirst
         g == OutputSecond(a)
     IN MatchBoth(g, a) /\ UpdateState(g, a)
  /\ EndOfStep(TRUE)
  /\ UNCHANGED <<grants, wave>>

SeparableOutputFirst ==
  /\ phase = "allocate" /\ type = "separable_output_first"
  /\ LET g == OutputFirst
         a == InputSecond(g)
     IN MatchBoth(g, a) /\ UpdateState(g, a)
  /\ EndOfStep(TRUE)
  /\ UNCHANGED <<grants, wave>>

-----------------------------------------------------------------------------
(* Wavefront: the diagonals of the request matrix, from _pri on. *)
DiagonalInput(o) == ((pri + iter) + (Square - o)) % Square
Cells ==
  {r \in requests : /\ r[1] = DiagonalInput(r[2])
                    /\ inmatch[r[1]] = None /\ outmatch[r[2]] = None}

(* first_diag = input + output is the same on a diagonal, but for Square. *)
FirstDiag ==
  IF first = None /\ Cells # {} THEN LET r == CHOOSE r \in Cells : TRUE IN r[1] + r[2]
  ELSE first

(* Mutant: the loop ends one diagonal too early. *)
LastDiagonalEarly == iter + 2 >= Square

LastDiagonal == iter + 1 = Square

(* Round-robin the priority diagonal; without requests Allocate returns first. *)
NextPri(fst) ==
  IF requests = {} THEN pri
  ELSE ((IF type = "rr_wavefront" THEN fst ELSE pri) + 1) % Square

Diagonal ==
  /\ phase = "allocate" /\ type \in Wavefronts
  /\ inmatch' = [i \in Inputs |->
       IF \E o \in Outputs : <<i, o>> \in Cells THEN CHOOSE o \in Outputs : <<i, o>> \in Cells
       ELSE inmatch[i]]
  /\ outmatch' = [o \in Outputs |->
       IF \E i \in Inputs : <<i, o>> \in Cells THEN DiagonalInput(o) ELSE outmatch[o]]
  /\ first' = FirstDiag
  /\ pri' = IF LastDiagonal THEN NextPri(FirstDiag) ELSE pri
  /\ EndOfStep(LastDiagonal)
  /\ UNCHANGED <<grants, arbiters>>

-----------------------------------------------------------------------------
(* MaxSizeMatch: shortest augmenting paths until there are none. *)
Ascending(S) == SelectSeq([k \in 1 .. NumOutputs |-> k - 1], LAMBDA j : j \in S)
Unassigned ==
  SelectSeq([k \in 1 .. NumInputs |-> (k - 1 + pri) % NumInputs], LAMBDA i : inmatch[i] = None)

(* The outputs that the first input of the queue gets to; _s and _ns are two *)
(* parts of one queue.  An output that is free ends the search.              *)
Visit(s) ==
  LET i == Head(s.queue)
      new == {j \in Wanted(i) : inmatch[i] # j /\ s.from[j] = None}
      free == {j \in new : outmatch[j] = None}
      leaves == Ascending(new)
  IN [from |-> [j \in Outputs |-> IF j \in new THEN i ELSE s.from[j]],
      end |-> IF free = {} THEN None ELSE Head(Ascending(free)),
      queue |-> Tail(s.queue) \o [k \in DOMAIN leaves |-> outmatch[leaves[k]]]]

(* Mutant: an output that is matched is not searched through. *)
ShortestFirstOnly ==
  LET S[k \in 0 .. NumInputs] ==
        IF k = 0 THEN [from |-> [j \in Outputs |-> None], end |-> None, queue |-> Unassigned]
        ELSE IF S[k - 1].end # None \/ S[k - 1].queue = <<>> THEN S[k - 1]
        ELSE [Visit(S[k - 1]) EXCEPT !.queue = Tail(S[k - 1].queue)]
  IN S[NumInputs]

(* The search after every input has had its turn: each enters the queue once. *)
Shortest ==
  LET S[k \in 0 .. NumInputs] ==
        IF k = 0 THEN [from |-> [j \in Outputs |-> None], end |-> None, queue |-> Unassigned]
        ELSE IF S[k - 1].end # None \/ S[k - 1].queue = <<>> THEN S[k - 1]
        ELSE Visit(S[k - 1])
  IN S[NumInputs]

(* The outputs on the way back from s.end to an input that was not matched. *)
Path(s) ==
  LET P[k \in 0 .. NumInputs] ==
        IF k = 0 THEN {s.end}
        ELSE P[k - 1] \cup ({inmatch[s.from[j]] : j \in P[k - 1]} \ {None})
  IN P[NumInputs]

ShortestAugmenting ==
  /\ phase = "allocate" /\ type = "max_size"
  /\ LET s == Shortest
         on == Path(s)
     IN IF s.end = None
        THEN pri' = (pri + 1) % NumInputs /\ UNCHANGED match
        ELSE /\ outmatch' = [o \in Outputs |-> IF o \in on THEN s.from[o] ELSE outmatch[o]]
             /\ inmatch' = [i \in Inputs |->
                  IF \E o \in on : s.from[o] = i THEN CHOOSE o \in on : s.from[o] = i
                  ELSE inmatch[i]]
             /\ pri' = pri
  /\ EndOfStep(Shortest.end = None)
  /\ UNCHANGED <<grants, arbiters, first>>

-----------------------------------------------------------------------------
Next ==
  \/ \E R \in SUBSET (Inputs \X Outputs) : AddRequests(R)
  \/ Iterate \/ IterateRandomly \/ LonelyOutput
  \/ SeparableInputFirst \/ SeparableOutputFirst \/ Diagonal \/ ShortestAugmenting

Spec == Init /\ [][Next]_vars

(* Rounds go on, as the router allocates in every cycle: fairness of Next,   *)
(* which is always enabled.                                                  *)
FairSpec == Spec /\ []<>(phase = "request") /\ []<>(phase = "allocate")

-----------------------------------------------------------------------------
(* Properties. *)

(* Pointers and matches stay within the inputs and outputs, which index the  *)
(* vectors of the code.                                                      *)
TypeOK ==
  /\ type \in SomeTypes /\ arb \in SomeArbs \cup {"none"} /\ patient \in BOOLEAN
  /\ requests \subseteq Inputs \X Outputs
  /\ inmatch \in [Inputs -> Outputs \cup {None}]
  /\ outmatch \in [Outputs -> Inputs \cup {None}]
  /\ grants \in [Outputs -> Inputs \cup {None}]
  /\ aptr \in [Inputs -> Outputs] /\ gptr \in [Outputs -> Inputs]
  /\ inBeats \in [Inputs -> SUBSET (Outputs \X Outputs)]
  /\ outBeats \in [Outputs -> SUBSET (Inputs \X Inputs)]
  /\ pri \in 0 .. Square - 1 /\ first \in {None} \cup Nat
  /\ phase \in {"request", "allocate"} /\ iter \in Nat

(* The two match vectors agree, so that no output is given to two inputs and *)
(* no input to two outputs, and only what was requested is granted: what the *)
(* router builds on when it moves flits by OutputAssigned alone.             *)
Matching ==
  /\ \A i \in Inputs : inmatch[i] # None =>
       <<i, inmatch[i]>> \in requests /\ outmatch[inmatch[i]] = i
  /\ \A o \in Outputs : outmatch[o] # None => inmatch[outmatch[o]] = o

(* A round with requests grants at least one (assert(first_diag >= 0) in     *)
(* Wavefront::Allocate, assert(output > -1) in the separable allocators).    *)
SomeGrant ==
  phase = "request" /\ requests # {} => \E i \in Inputs : inmatch[i] # None

(* MaxSizeMatch matches as many inputs as any matching of the requests does  *)
(* ("this is an O(N^3) maximum-size matching algorithm").                    *)
MaximumSize ==
  phase = "request" /\ type = "max_size" =>
    \A M \in SUBSET requests :
      (\A p, q \in M : p # q => p[1] # q[1] /\ p[2] # q[2]) =>
        Cardinality(M) <= Cardinality({i \in Inputs : inmatch[i] # None})

(* Wavefront, and iterations as many as inputs or outputs, leave no request  *)
(* whose input and output are both free.                                     *)
Thorough ==
  \/ type \in Wavefronts
  \/ type \in Iterative /\ (Iters[type] >= NumInputs \/ Iters[type] >= NumOutputs)
Maximal ==
  phase = "request" /\ Thorough =>
    \A r \in requests : inmatch[r[1]] # None \/ outmatch[r[2]] # None

(* No request starves: one that is repeated in every round is granted, with  *)
(* Wavefront whatever else is requested, with pointers and matrices if the   *)
(* others repeat their requests as well.  LOA and PIM promise nothing, and   *)
(* MaxSizeMatch, under the same condition, that each input is served ("start *)
(* at next input to ensure fairness").                                       *)
StarvationFree == type \in Wavefronts \/ (type \notin {"loa", "pim", "max_size"} /\ patient)
EveryRequestServed ==
  /\ StarvationFree => \A i \in Inputs, o \in Outputs :
                         []<>(<<i, o>> \in requests => inmatch[i] = o)
  /\ type = "max_size" /\ patient => \A i \in Inputs :
                         []<>(Wanted(i) # {} => inmatch[i] # None)

=============================================================================
