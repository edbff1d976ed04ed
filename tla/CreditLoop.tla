----------------------------- MODULE CreditLoop -----------------------------
(***************************************************************************)
(* Credit flow control between a sender and the input buffer of a BookSim  *)
(* router: the sender's BufferState, the channel that carries flits        *)
(* (booksim2/src/channel.hpp), the Buffer with its VCs (buffer.cpp,        *)
(* vc.cpp) and the channel that carries credits back.                      *)
(*                                                                         *)
(* The sender is the most general one that keeps the rules every user of   *)
(* BufferState has to keep: it takes only an available VC, sends only to a *)
(* VC that is not full, and sends the flits of one packet at a time on a   *)
(* VC, the tail last.  The traffic manager takes a VC and sends the head   *)
(* in one go; a router takes it when VC allocation succeeds.               *)
(*                                                                         *)
(* Channels are FIFOs with any delay.  The router takes flits out of its   *)
(* buffer when it likes.  A Credit object may name several VCs; here each  *)
(* VC is a credit of its own, read one after the other.                    *)
(***************************************************************************)
EXTENDS BufferState, Sequences

CONSTANTS
  SomePolicies,  \* the buffer policies to choose from
  SomeWaits,     \* the values of wait_for_tail_credit to choose from
  MaxPid         \* bound: packet numbers are 0 .. MaxPid - 1

ASSUME LoopAssumption ==
  /\ SomePolicies \subseteq Policies /\ SomeWaits \subseteq BOOLEAN
  /\ MaxPid \in Nat

VARIABLES
  bs,        \* the sender's BufferState
  open,      \* [VCs -> the packet being sent on a VC, and whether its head was sent]
  channel,   \* the FlitChannel: flits under way
  buffer,    \* [VCs -> the flits of the router's VC]
  expected,  \* [VCs -> Int]: _expected_pid of the VC
  credits    \* the CreditChannel: VCs of the credits under way

loopVars == <<bs, open, channel, buffer, expected, credits>>

Pids == 0 .. MaxPid - 1
NoPacket == [pid |-> -1, begun |-> FALSE]
Flit(pid, head, tail, vc) == [pid |-> pid, head |-> head, tail |-> tail, vc |-> vc]

LoopInit ==
  /\ bs \in {NewBufferState(p, w) : p \in SomePolicies, w \in SomeWaits}
  /\ open = [v \in VCs |-> NoPacket]
  /\ channel = <<>>
  /\ buffer = [v \in VCs |-> <<>>]
  /\ expected = [v \in VCs |-> -1]
  /\ credits = <<>>

-----------------------------------------------------------------------------
(* What a sender's calls do. *)

(* Mutant: the flit overtakes the ones under way. *)
SendOnFront(b, f) ==
  /\ bs' = SendingFlit(b, f.vc, f.tail)
  /\ channel' = <<f>> \o channel
  /\ open' = [open EXCEPT ![f.vc] = IF f.tail THEN NoPacket
                                    ELSE [pid |-> f.pid, begun |-> TRUE]]

(* SendingFlit on the state b, and the flit is put on the channel. *)
SendOn(b, f) ==
  /\ bs' = SendingFlit(b, f.vc, f.tail)
  /\ channel' = Append(channel, f)
  /\ open' = [open EXCEPT ![f.vc] = IF f.tail THEN NoPacket
                                    ELSE [pid |-> f.pid, begun |-> TRUE]]

(* Packets have different numbers. *)
Fresh(pid) ==
  /\ \A v \in VCs : open[v].pid # pid
  /\ \A v \in VCs : \A i \in DOMAIN buffer[v] : buffer[v][i].pid # pid
  /\ \A i \in DOMAIN channel : channel[i].pid # pid

(* A router that was granted a VC takes it for a new packet.  Its tag names  *)
(* its input VC, not the packet; BufferState looks only at the tag's sign.   *)
Take(pid, v) ==
  /\ Fresh(pid)
  /\ IsAvailableFor(bs, v)
  /\ bs' = TakeBuffer(bs, v, pid)
  /\ open' = [open EXCEPT ![v] = [pid |-> pid, begun |-> FALSE]]
  /\ UNCHANGED <<channel, buffer, expected, credits>>

(* Mutant: nobody asks whether the VC is full. *)
SendFull(v, tail) ==
  /\ open[v] # NoPacket
  /\ SendOn(bs, Flit(open[v].pid, ~open[v].begun, tail, v))
  /\ UNCHANGED <<buffer, expected, credits>>

Send(v, tail) ==
  /\ open[v] # NoPacket
  /\ ~IsFullFor(bs, v)
  /\ SendOn(bs, Flit(open[v].pid, ~open[v].begun, tail, v))
  /\ UNCHANGED <<buffer, expected, credits>>

(* The traffic manager takes a VC and sends the head of packet pid. *)
TakeAndSend(pid, v, tail) ==
  /\ Fresh(pid)
  /\ IsAvailableFor(bs, v)
  /\ ~IsFullFor(bs, v)
  /\ SendOn(TakeBuffer(bs, v, pid), Flit(pid, TRUE, tail, v))
  /\ UNCHANGED <<buffer, expected, credits>>

-----------------------------------------------------------------------------
(* VC::AddFlit tracks the packet that is arriving, in an int. *)
NextExpected(e, f) ==
  IF e >= 0 THEN (IF f.tail THEN -1 ELSE e)
  ELSE IF f.tail THEN e ELSE ToInt(f.pid)

(* The router reads the channel and adds the flit to its buffer. *)
Arrive ==
  /\ channel # <<>>
  /\ LET f == Head(channel)
     IN /\ channel' = Tail(channel)
        /\ buffer' = [buffer EXCEPT ![f.vc] = Append(@, f)]
        /\ expected' = [expected EXCEPT ![f.vc] = NextExpected(@, f)]
  /\ UNCHANGED <<bs, open, credits>>

(* The router passes a flit on and returns the slot. *)
Drain(v) ==
  /\ buffer[v] # <<>>
  /\ buffer' = [buffer EXCEPT ![v] = Tail(@)]
  /\ credits' = Append(credits, v)
  /\ UNCHANGED <<bs, open, channel, expected>>

ReadCredit ==
  /\ credits # <<>>
  /\ bs' = ProcessCredit(bs, Head(credits))
  /\ credits' = Tail(credits)
  /\ UNCHANGED <<open, channel, buffer, expected>>

LoopNext ==
  \/ \E pid \in Pids, v \in VCs : Take(pid, v)
  \/ \E v \in VCs, tail \in BOOLEAN : Send(v, tail)
  \/ \E pid \in Pids, v \in VCs, tail \in BOOLEAN : TakeAndSend(pid, v, tail)
  \/ Arrive
  \/ \E v \in VCs : Drain(v)
  \/ ReadCredit

LoopSpec == LoopInit /\ [][LoopNext]_loopVars

-----------------------------------------------------------------------------
(* Properties. *)
FlitSet == [pid : Pids, head : BOOLEAN, tail : BOOLEAN, vc : VCs]

(* What some properties rest on: the numbers of packets fit into the int of   *)
(* _in_use_by and _expected_pid, and the shifting policy leaves every packet  *)
(* a slot.  The code checks neither.                                          *)
PidsFit == MaxPid <= IntHalf
ShiftingFits ==
  "shifting" \in SomePolicies => \A n \in 1 .. NumVCs : ShiftingLimit(n) \in Nat \ {0}

(* No count of the sender falls below zero (the Error calls of                *)
(* BufferState::ProcessCredit and of the shared policy).                      *)
CountersNatural ==
  /\ bs.occupancy \in Nat /\ bs.vc_occupancy \in [VCs -> Nat]
  /\ Shared(bs) =>
       /\ bs.private_buf_occupancy \in [PrivateBufs -> Nat]
       /\ bs.shared_buf_occupancy \in Nat
       /\ bs.reserved_slots \in [VCs -> Nat]

InChannel(v) == Cardinality({i \in DOMAIN channel : channel[i].vc = v})
InCredits(v) == Cardinality({i \in DOMAIN credits : credits[i] = v})

(* No slot is lost or invented: the slots the sender counts as used on a VC   *)
(* are the flits under way and in the router and the credits coming back      *)
(* (SendingFlit, AddFlit, RemoveFlit and ProcessCredit together).             *)
CreditsConserved ==
  \A v \in VCs :
    bs.vc_occupancy[v] = InChannel(v) + Len(buffer[v]) + InCredits(v)

(* The sum that BufferState and the shared policy keep incrementally: the     *)
(* slots of all VCs, and for a private buffer its VCs' slots with the ones    *)
(* reserved for them.                                                         *)
SlotsAddUp ==
  /\ bs.occupancy = Total(bs.vc_occupancy, VCs)
  /\ Shared(bs) =>
       /\ \A i \in PrivateBufs :
            bs.private_buf_occupancy[i] =
              Total([v \in VCs |-> bs.vc_occupancy[v] + bs.reserved_slots[v]],
                    {v \in VCs : PrivateOf[v] = i})
       /\ bs.shared_buf_occupancy =
            Total([i \in PrivateBufs |->
                     Positive(bs.private_buf_occupancy[i] - PrivateSize[i])], PrivateBufs)

(* The buffer never overflows: neither by the sender's count nor at the       *)
(* router (Error "Buffer overflow.", "Shared buffer overflow.", "Flit buffer  *)
(* overflow." in BufferState::SendingFlit and Buffer::AddFlit).               *)
NoOverflow ==
  /\ bs.occupancy <= BufSize
  /\ bs.shared_buf_occupancy <= SharedSize
  /\ ~Shared(bs) => \A v \in VCs : bs.vc_occupancy[v] <= VcBufSize
  /\ Total([v \in VCs |-> Len(buffer[v])], VCs) <= BufSize

(* Packets do not mix on a VC: after a flit that is not a tail comes the next *)
(* flit of the same packet, and only after a tail a head.  The router sees    *)
(* the flits of a VC in the order of its buffer, then of the channel.         *)
Follows(f, g) == (g.head <=> f.tail) /\ (~f.tail => g.pid = f.pid)
OfVC(s, v) == {i \in DOMAIN s : s[i].vc = v}
Unmixed(s, v) ==
  LET mine == OfVC(s, v)
  IN \A i, j \in mine :
       i < j /\ (\A k \in mine : k <= i \/ j <= k) => Follows(s[i], s[j])
NoInterleaving == \A v \in VCs : Unmixed(buffer[v] \o channel, v)

(* VC::AddFlit finds the packet it expects (Error "Received flit ... with     *)
(* unexpected packet ID").                                                    *)
ExpectedArrives ==
  channel # <<>> =>
    LET f == Head(channel) IN expected[f.vc] >= 0 => f.pid = expected[f.vc]

(* A packet whose VC has drained can always go on: the shared policies keep a *)
(* slot for it (_reserved_slots), or the packets that hold a VC could wait    *)
(* for one another.                                                           *)
HolderHasRoom ==
  \A v \in VCs :
    open[v].begun /\ IsEmptyFor(bs, v) => ~IsFullFor(bs, v)

(* A reserved slot belongs to a packet that can use or give it back.  *)
ReservedIsHeld ==
  \A v \in VCs : bs.reserved_slots[v] > 0 =>
    open[v] # NoPacket /\ IsEmptyFor(bs, v) /\ bs.reserved_slots[v] = 1

(* The two ways to ask for room agree: IsFullFor steers injection and the     *)
(* router, AvailableFor the routing functions and reports.                    *)
FullIffNoneAvailable ==
  \A v \in VCs : IsFullFor(bs, v) <=> AvailableFor(bs, v) <= 0

(* The limited policies count the packets being sent (Error "Number of active *)
(* VCs is too large" and "fell below zero").                                  *)
ActiveVCsCounted ==
  Limited(bs) => bs.active_vcs = Cardinality({v \in VCs : open[v] # NoPacket})

(* assert(_max_held_slots > 0) in the dynamic policies. *)
HeldSlotsPositive == Limited(bs) => bs.max_held_slots > 0

(* With wait_for_tail_credit a VC with credits outstanding is not idle (Error *)
(* "Received credit for idle VC").                                            *)
NoIdleCredit ==
  bs.wait_for_tail_credit =>
    \A v \in VCs : ~IsEmptyFor(bs, v) => ~IsAvailableFor(bs, v)

=============================================================================
