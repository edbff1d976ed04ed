---------------------------- MODULE BufferState -----------------------------
(***************************************************************************)
(* Class BufferState of booksim2/src/buffer_state.{hpp,cpp}: what a sender *)
(* knows about the input buffer at the far end of its channel.  It counts  *)
(* the slots in use for each virtual channel and for the buffer, remembers *)
(* which virtual channels (VCs) are taken by a packet, and leaves to a     *)
(* buffer policy the question whether a VC has room for one more flit.     *)
(*                                                                         *)
(* The operations are functions from the record of the object's fields to  *)
(* the record.  Policies: private, shared, limited, dynamic and shifting;  *)
(* which one an object has, and whether it waits for the tail's credit, is *)
(* fixed when it is made.                                                  *)
(* Where the code stops the simulation (Error, assert) the model goes on,  *)
(* and a property says that the case never happens.                        *)
(***************************************************************************)
EXTENDS Integers, FiniteSets

CONSTANTS
  NumVCs,             \* num_vcs
  BufSize,            \* buf_size, or num_vcs * vc_buf_size: slots of the buffer
  PrivateOf,          \* _private_buf_vc_map: the private buffer of a VC
  PrivateSize,        \* _private_buf_size: its slots
  MaxHeldSlots,       \* max_held_slots: slots a VC may hold (limited)
  IntHalf             \* 2^31: values of C++ int are -IntHalf .. IntHalf - 1

VCs == 0 .. NumVCs - 1
PrivateBufs == {PrivateOf[v] : v \in VCs}
Policies == {"private", "shared", "limited", "dynamic", "shifting"}

(* The sum of f over S, counted as the slots <<x, 1>> .. <<x, f[x]>> of each x. *)
SlotsOf(f, S) == UNION {{x} \X (1 .. f[x]) : x \in S}
Total(f, S) == Cardinality(SlotsOf(f, S))

(* _shared_buf_size: the slots that belong to no private buffer. *)
SharedSize == BufSize - Total(PrivateSize, PrivateBufs)

ASSUME BufferAssumption ==
  /\ NumVCs \in Nat \ {0} /\ BufSize \in Nat /\ BufSize >= NumVCs
  /\ IntHalf \in Nat \ {0}
ASSUME PolicyAssumption ==
  /\ DOMAIN PrivateOf = VCs
  /\ PrivateSize \in [PrivateBufs -> Nat]
  /\ SharedSize >= 0
  /\ MaxHeldSlots \in Nat \ {0}

VcBufSize == BufSize \div NumVCs
Shared(b) == b.policy # "private"
Limited(b) == b.policy \in {"limited", "dynamic", "shifting"}

(* _in_use_by is a vector of int; the tag it stores is a long. *)
ToInt(n) == ((n + IntHalf) % (2 * IntHalf)) - IntHalf

-----------------------------------------------------------------------------
NewBufferState(policy, wait) ==
  [policy |-> policy, wait_for_tail_credit |-> wait,
   occupancy |-> 0, vc_occupancy |-> [v \in VCs |-> 0],
   in_use_by |-> [v \in VCs |-> -1], tail_sent |-> [v \in VCs |-> FALSE],
   private_buf_occupancy |-> [i \in PrivateBufs |-> 0],
   shared_buf_occupancy |-> 0, reserved_slots |-> [v \in VCs |-> 0],
   active_vcs |-> 0,
   max_held_slots |-> IF policy = "limited" THEN MaxHeldSlots ELSE BufSize]

IsAvailableFor(b, v) == b.in_use_by[v] < 0
IsEmptyFor(b, v) == b.vc_occupancy[v] = 0

PrivateIsFullFor(b, v) == b.vc_occupancy[v] >= VcBufSize
SharedIsFullFor(b, v) ==
  /\ b.reserved_slots[v] = 0
  /\ b.private_buf_occupancy[PrivateOf[v]] >= PrivateSize[PrivateOf[v]]
  /\ b.shared_buf_occupancy >= SharedSize
LimitedIsFullFor(b, v) ==
  SharedIsFullFor(b, v) \/ b.vc_occupancy[v] >= b.max_held_slots

IsFullFor(b, v) ==
  \/ ~Shared(b) /\ PrivateIsFullFor(b, v)
  \/ Shared(b) /\ ~Limited(b) /\ SharedIsFullFor(b, v)
  \/ Limited(b) /\ LimitedIsFullFor(b, v)

Least(m, n) == IF m < n THEN m ELSE n
Positive(n) == IF n > 0 THEN n ELSE 0

PrivateAvailableFor(b, v) == VcBufSize - b.vc_occupancy[v]
SharedAvailableFor(b, v) ==
  b.reserved_slots[v]
    + Positive(PrivateSize[PrivateOf[v]] - b.private_buf_occupancy[PrivateOf[v]])
    + (SharedSize - b.shared_buf_occupancy)
LimitedAvailableFor(b, v) ==
  Least(SharedAvailableFor(b, v), b.max_held_slots - b.vc_occupancy[v])

AvailableFor(b, v) ==
  IF ~Shared(b) THEN PrivateAvailableFor(b, v)
  ELSE IF Limited(b) THEN LimitedAvailableFor(b, v) ELSE SharedAvailableFor(b, v)

-----------------------------------------------------------------------------
(* The policies' reactions. *)

(* ProcessFreeSlot, n times: slots beyond the private ones are shared. *)
FreeSlots(b, v, n) ==
  LET i == PrivateOf[v]
      beyond == Positive(b.private_buf_occupancy[i] - PrivateSize[i])
  IN [b EXCEPT !.private_buf_occupancy[i] = @ - n,
               !.shared_buf_occupancy = @ - Least(n, beyond)]

(* Mutant: no slot is reserved. *)
FreeSlotForAll(b, v) == IF ~Shared(b) THEN b ELSE FreeSlots(b, v, 1)

(* A VC that a packet still holds keeps its last slot. *)
FreeSlotFor(b, v) ==
  IF ~Shared(b) THEN b
  ELSE IF ~IsAvailableFor(b, v) /\ IsEmptyFor(b, v)
  THEN [b EXCEPT !.reserved_slots[v] = @ + 1]
  ELSE FreeSlots(b, v, 1)

(* Mutant: a flit does not use the slot that is reserved for it. *)
UseSlotAnother(b, v) ==
  LET i == PrivateOf[v]
  IN [b EXCEPT !.private_buf_occupancy[i] = @ + 1,
               !.shared_buf_occupancy =
                   IF b.private_buf_occupancy[i] >= PrivateSize[i] THEN @ + 1 ELSE @]
UseSlot(b, v) ==
  LET i == PrivateOf[v]
  IN IF b.reserved_slots[v] > 0 THEN [b EXCEPT !.reserved_slots[v] = @ - 1]
     ELSE [b EXCEPT !.private_buf_occupancy[i] = @ + 1,
                    !.shared_buf_occupancy =
                        IF b.private_buf_occupancy[i] >= PrivateSize[i] THEN @ + 1 ELSE @]

ReleaseReserved(b, v) ==
  [FreeSlots(b, v, b.reserved_slots[v]) EXCEPT !.reserved_slots[v] = 0]

(* dynamic divides the buffer among the active VCs, shifting halves it once  *)
(* for every binary digit of active_vcs - 1.                                 *)
BitLength(n) == CHOOSE k \in 0 .. n : n < 2^k /\ (k > 0 => 2^(k - 1) <= n)
DynamicLimit(active) == BufSize \div active
ShiftingLimit(active) == BufSize \div 2^BitLength(active - 1)

HeldLimit(policy, active) ==
  IF policy = "dynamic" THEN DynamicLimit(active)
  ELSE IF policy = "shifting" THEN ShiftingLimit(active)
  ELSE MaxHeldSlots

SetActive(b, n) ==
  [b EXCEPT !.active_vcs = n,
            !.max_held_slots = IF n > 0 THEN HeldLimit(b.policy, n) ELSE @]

PolicySendingFlit(b, v, tail) ==
  IF ~Shared(b) THEN b
  ELSE IF ~tail THEN UseSlot(b, v)
  ELSE LET r == ReleaseReserved(UseSlot(b, v), v)
       IN IF Limited(r) THEN SetActive(r, r.active_vcs - 1) ELSE r

-----------------------------------------------------------------------------
(* The operations of BufferState. *)

TakeBuffer(b, v, tag) ==
  LET t == [b EXCEPT !.in_use_by[v] = ToInt(tag), !.tail_sent[v] = FALSE]
  IN IF Limited(t) THEN SetActive(t, t.active_vcs + 1) ELSE t

(* Mutant: the tail frees the VC, whatever wait_for_tail_credit says. *)
SendingFlitFrees(b, v, tail) ==
  LET s == PolicySendingFlit([b EXCEPT !.occupancy = @ + 1, !.vc_occupancy[v] = @ + 1],
                             v, tail)
  IN IF tail THEN [s EXCEPT !.tail_sent[v] = TRUE, !.in_use_by[v] = -1] ELSE s

SendingFlit(b, v, tail) ==
  LET s == PolicySendingFlit([b EXCEPT !.occupancy = @ + 1, !.vc_occupancy[v] = @ + 1],
                             v, tail)
  IN IF ~tail THEN s
     ELSE [s EXCEPT !.tail_sent[v] = TRUE,
                    !.in_use_by[v] = IF b.wait_for_tail_credit THEN @ ELSE -1]

(* Mutant: a credit misses the count of the VC. *)
ProcessCreditLost(b, v) == FreeSlotFor([b EXCEPT !.occupancy = @ - 1], v)

(* One VC of a credit: the body of the loop of ProcessCredit. *)
ProcessCredit(b, v) ==
  LET c == [b EXCEPT !.occupancy = @ - 1, !.vc_occupancy[v] = @ - 1]
  IN FreeSlotFor(
       IF c.wait_for_tail_credit /\ c.vc_occupancy[v] = 0 /\ c.tail_sent[v]
       THEN [c EXCEPT !.in_use_by[v] = -1]
       ELSE c, v)

=============================================================================
