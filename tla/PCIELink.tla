------------------------------ MODULE PCIELink ------------------------------
(***************************************************************************)
(* The PCI-Express link of gem5/src/mem/pcie_link.{hh,cc}: two link        *)
(* interfaces (class PCIELink::Link), each transmitting on its own         *)
(* unidirectional link, with the simplified Ack protocol between them.     *)
(*                                                                         *)
(* A gem5 packet handed over by a device becomes a TLP with a sequence     *)
(* number; it stays in the sender's replay buffer until the other          *)
(* interface acknowledges it with an Ack DLLP.  A replay timer             *)
(* retransmits the buffer; a refused TLP (the device returned false from   *)
(* sendTimingReq / sendTimingResp) is simply not acknowledged.             *)
(*                                                                         *)
(* Time is explicit: every scheduled gem5 event is a countdown, Tick       *)
(* lowers all countdowns by one, and an event that reached zero runs       *)
(* before the next Tick.  Events due at the same tick run in any order.    *)
(***************************************************************************)
EXTENDS Integers, Sequences

CONSTANTS
  Links,         \* the two link interfaces of a PCIELink
  MaxQueueSize,  \* max_queue_size: capacity of the replay buffer
  Lanes,         \* number of lanes, selects the ack factor
  MpsTime,       \* ticks to transmit a TLP with the maximum payload
  TLPTime,       \* [Kind -> ticks]: transmission time of a TLP of each kind
  DLLPTime,      \* ticks to transmit an Ack DLLP
  LinkDelay,     \* linkDelay: propagation delay, 0 in every configuration
  IntHalf,       \* 2^31: values of C++ int are -IntHalf .. IntHalf - 1
  SeqMod,        \* 2^64: number of values of a uint64_t
  RefuseFirst,   \* may a device refuse the very first TLP of a direction?
  MaxTLP         \* [Links -> Nat], bound: TLPs accepted from the devices of an interface

Kind == {"req", "resp"}   \* requests enter by slavePortSrc, responses by masterPortSrc

ASSUME LinksAssumption == \E a, b \in Links : a # b /\ Links = {a, b}
ASSUME SizesAssumption == MaxQueueSize \in Nat \ {0} /\ MaxTLP \in [Links -> Nat]
ASSUME TimesAssumption ==
  /\ MpsTime \in Nat \ {0}
  /\ TLPTime \in [Kind -> 1 .. MpsTime]
  /\ DLLPTime \in 1 .. MpsTime
  /\ LinkDelay \in Nat
  /\ Lanes \in Nat \ {0}
ASSUME WidthAssumption ==
  /\ IntHalf \in Nat \ {0}
  /\ SeqMod \in Nat
  /\ SeqMod >= 2 * IntHalf
  /\ \A l \in Links : MaxTLP[l] < SeqMod
ASSUME RefuseAssumption == RefuseFirst \in BOOLEAN

VARIABLES
  link,       \* [Links -> state of a Link object and of the devices that feed it]
  accepted,   \* [Links -> Seq(Kind)]: packets linkTransmitInterface returned true for
  delivered   \* [Links -> Seq(Kind)]: of those, the ones the far device took

vars == <<link, accepted, delivered>>

Other(l) == CHOOSE m \in Links : m # l

-----------------------------------------------------------------------------
(* Packets: PCIELinkPacket and DataLinkPacket. *)

NoPkt == [kind |-> "none", seq |-> 0]
TLP(k, n) == [kind |-> k, seq |-> n]
IsTLP(p) == p.kind \in Kind
Size(p) == IF IsTLP(p) THEN TLPTime[p.kind] ELSE DLLPTime

(* The expression recvSeqNum - 1 is a uint64_t; the DataLinkPacket           *)
(* constructor takes it as an int and stores it back in a uint64_t.          *)
Dec(n) == IF n = 0 THEN SeqMod - 1 ELSE n - 1
ToInt(n) == IF n < IntHalf THEN n ELSE ((n + IntHalf) % (2 * IntHalf)) - IntHalf
ToU64(i) == IF i >= 0 THEN i ELSE SeqMod + i
(* Mutant: the Ack carries the next expected number. *)
AckNext(n) == [kind |-> "ack", seq |-> ToU64(ToInt(n))]

Ack(n) == [kind |-> "ack", seq |-> ToU64(ToInt(Dec(n)))]

-----------------------------------------------------------------------------
(* ReplayBuffer: a deque padded with NULLs is the sequence of its entries. *)

PushBack(buf, p) == IF Len(buf) >= MaxQueueSize THEN buf ELSE Append(buf, p)

(* Mutant: one entry too many is popped. *)
PurgeOneMore(buf, n) ==
  LET later == {i \in DOMAIN buf : buf[i].seq > n + 1}
  IN IF later = {} THEN <<>>
     ELSE SubSeq(buf, CHOOSE i \in later : \A j \in later : i <= j, Len(buf))

(* The loop of linkReceiveInterface that pops entries until it meets a later one. *)
Purge(buf, n) ==
  LET later == {i \in DOMAIN buf : buf[i].seq > n}
  IN IF later = {} THEN <<>>
     ELSE SubSeq(buf, CHOOSE i \in later : \A j \in later : i <= j, Len(buf))

-----------------------------------------------------------------------------
(* Timers.  retryTime is computed in the constructor of Link. *)

Off == -1
AckFactor10 == IF Lanes >= 12 THEN 30 ELSE IF Lanes = 8 THEN 25 ELSE 14
RetryTime == (3 * AckFactor10 * MpsTime) \div 10
AckTime == RetryTime \div 3

Arm(L) == IF L.timeoutEvent = Off THEN [L EXCEPT !.timeoutEvent = RetryTime] ELSE L

-----------------------------------------------------------------------------
(* Operations of a Link object, as functions from its state to its state. *)

NewLink ==
  [packet |-> NoPkt, doneEvent |-> 0, txQueue |-> <<>>,
   buffer |-> <<>>, sendSeqNum |-> 0, recvSeqNum |-> 0, lastAcked |-> 0,
   retry |-> {}, stalled |-> {},
   replayPacket |-> NoPkt, replayDLLP |-> NoPkt,
   retransmit |-> FALSE, retransmitIdx |-> 0,
   timeoutEvent |-> Off, ackEvent |-> Off]

Busy(L) == L.packet # NoPkt

Transmit(L, p) ==
  IF Busy(L) THEN L ELSE [L EXCEPT !.packet = p, !.doneEvent = Size(p)]

(* Mutant: both flags are cleared but only the request side is told. *)
SendRetryReqOnly(L) == [L EXCEPT !.stalled = @ \ (L.retry \cap {"req"}), !.retry = {}]

(* sendRetryReq / sendRetryResp for the flags that are set: the devices that *)
(* were refused may call again.                                              *)
SendRetries(L) == [L EXCEPT !.stalled = @ \ L.retry, !.retry = {}]

(* Mutant: full is tested with > instead of >=. *)
RefusesLate(L) ==
  \/ L.replayPacket # NoPkt
  \/ Len(L.buffer) > MaxQueueSize
  \/ L.retransmit

(* linkTransmitInterface(pkt, master) *)
Refuses(L) ==
  \/ L.replayPacket # NoPkt
  \/ Len(L.buffer) >= MaxQueueSize
  \/ L.retransmit

TransmitInterface(L, k) ==
  IF Refuses(L)
  THEN [L EXCEPT !.retry = @ \cup {k}, !.stalled = @ \cup {k}]
  ELSE LET p == TLP(k, L.sendSeqNum)
       IN [Transmit([L EXCEPT !.replayPacket = p], p) EXCEPT !.sendSeqNum = @ + 1]

(* linkReceiveInterface for a TLP; took is what the device answers when the  *)
(* sequence number is the expected one.                                      *)
QueueAck(L) ==
  IF L.ackEvent # Off THEN L
  ELSE IF Busy(L)
  THEN [L EXCEPT !.replayDLLP = Ack(L.recvSeqNum), !.lastAcked = Dec(L.recvSeqNum),
                 !.ackEvent = AckTime]
  ELSE Transmit(L, Ack(L.recvSeqNum))

ReceiveTLP(L, p, took) ==
  IF p.seq # L.recvSeqNum THEN QueueAck(L)
  ELSE IF took THEN QueueAck([L EXCEPT !.recvSeqNum = @ + 1])
  ELSE L

(* Mutant: an Ack restarts the timer and deletes nothing. *)
ReceiveDLLPNoPurge(L, p) == SendRetries([L EXCEPT !.timeoutEvent = RetryTime])

(* linkReceiveInterface for an Ack DLLP *)
ReceiveDLLP(L, p) ==
  LET rest == Purge(L.buffer, p.seq)
  IN SendRetries([L EXCEPT !.buffer = rest,
                           !.timeoutEvent = IF rest = <<>> THEN Off ELSE RetryTime])

LinkReceiveInterface(L, p, took) ==
  IF IsTLP(p) THEN ReceiveTLP(L, p, took) ELSE ReceiveDLLP(L, p)

(* What txDone does once the packet has been handed on, in the order of the code. *)
SendPendingAck(L) ==
  IF L.replayDLLP = NoPkt THEN L
  ELSE [Transmit(L, L.replayDLLP) EXCEPT !.replayDLLP = NoPkt]

(* Mutant: the first transmission does not start the replay timer. *)
StoreUnarmed(L, p) ==
  IF p # L.replayPacket THEN L
  ELSE SendRetries([L EXCEPT !.buffer = PushBack(@, p), !.replayPacket = NoPkt])

StoreFirstTransmission(L, p) ==
  IF p # L.replayPacket THEN L
  ELSE SendRetries(Arm([L EXCEPT !.buffer = PushBack(@, p), !.replayPacket = NoPkt]))

SendPendingTLP(L) ==
  IF L.replayPacket = NoPkt THEN L ELSE Transmit(L, L.replayPacket)

Replay(L) ==
  IF ~L.retransmit THEN SendPendingTLP(L)
  ELSE IF L.retransmitIdx >= Len(L.buffer)
  THEN SendPendingTLP(SendRetries([Arm(L) EXCEPT !.retransmitIdx = 0, !.retransmit = FALSE]))
  ELSE [Transmit(Arm(L), L.buffer[L.retransmitIdx + 1]) EXCEPT !.retransmitIdx = @ + 1]

(* With a propagation delay the packet is queued instead of handed over. *)
Propagate(L, p) == [L EXCEPT !.txQueue = Append(@, [due |-> LinkDelay, pkt |-> p])]

AfterTransmission(L) ==
  Replay(StoreFirstTransmission(SendPendingAck([L EXCEPT !.packet = NoPkt]), L.packet))

(* Mutant: a timeout sends only the newest entry again. *)
TimeoutNewest(L) ==
  IF L.buffer = <<>> \/ L.retransmit THEN L
  ELSE [Transmit(L, L.buffer[Len(L.buffer)]) EXCEPT !.retransmit = TRUE,
                                                    !.retransmitIdx = Len(L.buffer)]

(* timeoutFunc and sendAck *)
TimeoutFunc(L) ==
  IF L.buffer = <<>> \/ L.retransmit THEN L
  ELSE [Transmit(L, L.buffer[1]) EXCEPT !.retransmit = TRUE,
                                        !.retransmitIdx = IF Busy(L) THEN 0 ELSE 1]

SendAck(L) ==
  IF L.lastAcked = Dec(L.recvSeqNum) THEN L
  ELSE LET a == Ack(L.recvSeqNum)
           A == [L EXCEPT !.lastAcked = Dec(L.recvSeqNum), !.ackEvent = AckTime]
       IN IF Busy(A) THEN [A EXCEPT !.replayDLLP = a] ELSE Transmit(A, a)

-----------------------------------------------------------------------------
(* The events. *)

Init ==
  /\ link = [l \in Links |-> NewLink]
  /\ accepted = [l \in Links |-> <<>>]
  /\ delivered = [l \in Links |-> <<>>]

(* LinkSlavePort::recvTimingReq / LinkMasterPort::recvTimingResp: a device   *)
(* that is not waiting for a retry offers a packet.                          *)
Offer(l, k) ==
  /\ k \notin link[l].stalled
  /\ Len(accepted[l]) < MaxTLP[l]
  /\ link' = [link EXCEPT ![l] = TransmitInterface(@, k)]
  /\ accepted' = IF Refuses(link[l]) THEN accepted
                 ELSE [accepted EXCEPT ![l] = Append(@, k)]
  /\ UNCHANGED delivered

(* The device's answer, and what reaches it, when p from l arrives at Other(l). *)
MayAnswer(l, p, took) ==
  took \/ (IsTLP(p) /\ p.seq = link[Other(l)].recvSeqNum
                    /\ (RefuseFirst \/ link[Other(l)].recvSeqNum > 0))

(* Mutant: the device gets a TLP twice. *)
DeliverTwice(l, p, took) ==
  delivered' = IF IsTLP(p) /\ p.seq = link[Other(l)].recvSeqNum /\ took
               THEN [delivered EXCEPT ![l] = @ \o <<p.kind, p.kind>>]
               ELSE delivered

Deliver(l, p, took) ==
  delivered' = IF IsTLP(p) /\ p.seq = link[Other(l)].recvSeqNum /\ took
               THEN [delivered EXCEPT ![l] = Append(@, p.kind)]
               ELSE delivered

TxDone(l, took) ==
  /\ Busy(link[l]) /\ link[l].doneEvent = 0
  /\ UNCHANGED accepted
  /\ LET p == link[l].packet
     IN IF LinkDelay > 0
        THEN /\ took
             /\ link' = [link EXCEPT ![l] = AfterTransmission(Propagate(@, p))]
             /\ UNCHANGED delivered
        ELSE /\ MayAnswer(l, p, took)
             /\ link' = [link EXCEPT ![l] = AfterTransmission(@),
                                     ![Other(l)] = LinkReceiveInterface(@, p, took)]
             /\ Deliver(l, p, took)

ProcessTxQueue(l, took) ==
  /\ link[l].txQueue # <<>>
  /\ LET cur == Head(link[l].txQueue)
     IN /\ cur.due = 0
        /\ MayAnswer(l, cur.pkt, took)
        /\ link' = [link EXCEPT ![l].txQueue = Tail(@),
                                ![Other(l)] = LinkReceiveInterface(@, cur.pkt, took)]
        /\ Deliver(l, cur.pkt, took)
  /\ UNCHANGED accepted

TimeoutEvent(l) ==
  /\ link[l].timeoutEvent = 0
  /\ link' = [link EXCEPT ![l] = TimeoutFunc([link[l] EXCEPT !.timeoutEvent = Off])]
  /\ UNCHANGED <<accepted, delivered>>

AckEvent(l) ==
  /\ link[l].ackEvent = 0
  /\ link' = [link EXCEPT ![l] = SendAck([link[l] EXCEPT !.ackEvent = Off])]
  /\ UNCHANGED <<accepted, delivered>>

(* The event queue advances time only past ticks at which nothing is due. *)
NothingDue(L) ==
  /\ Busy(L) => L.doneEvent > 0
  /\ \A i \in DOMAIN L.txQueue : L.txQueue[i].due > 0
  /\ L.timeoutEvent # 0
  /\ L.ackEvent # 0

CountDown(n) == IF n > 0 THEN n - 1 ELSE n

Elapse(L) ==
  [L EXCEPT !.doneEvent = CountDown(@),
            !.txQueue = [i \in DOMAIN L.txQueue |->
                           [due |-> CountDown(L.txQueue[i].due), pkt |-> L.txQueue[i].pkt]],
            !.timeoutEvent = CountDown(@),
            !.ackEvent = CountDown(@)]

Tick ==
  /\ \A l \in Links : NothingDue(link[l])
  /\ link' = [l \in Links |-> Elapse(link[l])]
  /\ UNCHANGED <<accepted, delivered>>

Next ==
  \/ \E l \in Links, k \in Kind : Offer(l, k)
  \/ \E l \in Links, took \in BOOLEAN : TxDone(l, took)
  \/ \E l \in Links, took \in BOOLEAN : ProcessTxQueue(l, took)
  \/ \E l \in Links : TimeoutEvent(l)
  \/ \E l \in Links : AckEvent(l)
  \/ Tick

Spec == Init /\ [][Next]_vars

-----------------------------------------------------------------------------
(* Properties. *)

Packet == [kind : Kind \cup {"ack", "none"}, seq : Nat]
Delayed == [due : Nat, pkt : Packet]
Timer == Nat \cup {Off}
LinkState ==
  [packet : Packet, doneEvent : Nat, txQueue : Seq(Delayed),
   buffer : Seq(Packet), sendSeqNum : Nat, recvSeqNum : Nat, lastAcked : Nat,
   retry : SUBSET Kind, stalled : SUBSET Kind,
   replayPacket : Packet, replayDLLP : Packet,
   retransmit : BOOLEAN, retransmitIdx : Nat,
   timeoutEvent : Timer, ackEvent : Timer]

(* Every field of a Link object keeps its type. *)
TypeOK ==
  /\ link \in [Links -> LinkState]
  /\ accepted \in [Links -> Seq(Kind)]
  /\ delivered \in [Links -> Seq(Kind)]

(* The packets of l that are on the wire: being clocked out, or propagating. *)
OnWire(l) ==
  {link[l].packet} \cup {link[l].txQueue[i].pkt : i \in DOMAIN link[l].txQueue}

(* The TLPs the sending interface still holds a pointer to and may send again. *)
Held(l) ==
  {link[l].buffer[i] : i \in DOMAIN link[l].buffer} \cup {link[l].replayPacket}

(* Reliability (linkReceiveInterface / txDone): a TLP taken from a device and  *)
(* not yet taken by the far device is still held by the sending interface,     *)
(* with its own payload and number, so a timeout can send it again.            *)
NoLoss ==
  \A l \in Links : \A n \in DOMAIN accepted[l] :
    n > Len(delivered[l]) => TLP(accepted[l][n], n - 1) \in Held(l)

(* The sequence check of linkReceiveInterface gives in-order, exactly-once     *)
(* delivery: what the far device took is a prefix of what this one handed in.  *)
InOrder ==
  \A l \in Links :
    /\ Len(delivered[l]) <= Len(accepted[l])
    /\ \A n \in DOMAIN delivered[l] : delivered[l][n] = accepted[l][n]

(* An Ack DLLP, on the wire or waiting in replayDLLP, only ever acknowledges   *)
(* TLPs that the device on the acknowledging side has taken.                   *)
AckSound ==
  \A l \in Links : \A p \in OnWire(l) \cup {link[l].replayDLLP} :
    p.kind = "ack" => p.seq < Len(delivered[Other(l)])

(* The replay buffer never refuses an entry: pushBack returns silently when    *)
(* the buffer is full, so the place must be free while the TLP is on the wire. *)
ReplayRoom ==
  \A l \in Links :
    Len(link[l].buffer) + (IF link[l].replayPacket # NoPkt THEN 1 ELSE 0) <= MaxQueueSize

(* No lost retry: a device waits for a retry exactly when the flag that will   *)
(* wake it is set, and then something is pending that ends in txDone or in an  *)
(* Ack and so looks at the flag.                                               *)
RetryPending ==
  \A l \in Links :
    /\ link[l].stalled = link[l].retry
    /\ link[l].retry # {} => Refuses(link[l])

(* Progress never depends on a timer nobody armed: unacknowledged TLPs have a  *)
(* running replay timer or a replay pass, and a pass or a waiting packet has a *)
(* transmission under way whose txDone continues it.                           *)
ReplayArmed ==
  \A l \in Links :
    /\ link[l].buffer # <<>> => link[l].timeoutEvent # Off \/ link[l].retransmit
    /\ \/ link[l].retransmit
       \/ link[l].replayPacket # NoPkt
       \/ link[l].replayDLLP # NoPkt
       => Busy(link[l])

-----------------------------------------------------------------------------
(* Liveness.  The gem5 event queue runs every scheduled event; devices offer   *)
(* packets when they like.  A device that refuses a packet takes it at some    *)
(* later presentation: its queue drains.                                       *)

Simulate ==
  \/ \E l \in Links, took \in BOOLEAN : TxDone(l, took) \/ ProcessTxQueue(l, took)
  \/ \E l \in Links : TimeoutEvent(l) \/ AckEvent(l)
  \/ Tick

DeviceTakes(l) ==
  /\ TxDone(l, TRUE) \/ ProcessTxQueue(l, TRUE)
  /\ delivered' # delivered

FairSpec ==
  /\ Spec
  /\ WF_vars(Simulate)
  /\ \A l \in Links : SF_vars(DeviceTakes(l))

Channel == INSTANCE LinkChannel WITH Links <- Links, Kind <- Kind,
                                     accepted <- accepted, delivered <- delivered

(* Whatever the timers, the wire and the replay buffers do, the devices see a  *)
(* channel: a step accepts one packet, hands over the oldest undelivered one,  *)
(* or is invisible to them.                                                    *)
SafeChannel == Channel!Spec

(* The link implements the reliable in-order channel, liveness included: every *)
(* packet accepted from a device is eventually delivered.                      *)
ReliableChannel == Channel!FairSpec

(* A device that keeps calling, as one that was refused does at every retry,   *)
(* is not refused for ever: its packets all get into the link.                 *)
NotRefusedForever ==
  \A l \in Links :
    []<><<\E k \in Kind : Offer(l, k)>>_vars => <>(Len(accepted[l]) = MaxTLP[l])

-----------------------------------------------------------------------------
(* The inductive invariant behind NoLoss, InOrder, AckSound and ReplayRoom.  A *)
(* is what the devices of L handed in, D what L handed to its devices.         *)

(* Limits within which the protocol is reliable: the first TLP of a direction *)
(* is not refused, and Ack numbers fit in the int they pass through.           *)
WithinLimits == ~RefuseFirst /\ \A l \in Links : MaxTLP[l] <= IntHalf

GoodTLP(p, A) == IsTLP(p) => p.seq < Len(A) /\ p.kind = A[p.seq + 1]
GoodAck(p, D) == ~IsTLP(p) /\ p # NoPkt => p.seq < Len(D)

(* The number of the oldest TLP in the window of unacknowledged ones. *)
Base(L) ==
  L.sendSeqNum - (IF L.replayPacket = NoPkt THEN 0 ELSE 1) - Len(L.buffer)

(* Buffer and replayPacket hold the last TLPs handed in, without a gap. *)
WindowOK(L, A) ==
  /\ L.sendSeqNum = Len(A)
  /\ Base(L) >= 0
  /\ Len(L.buffer) + (IF L.replayPacket = NoPkt THEN 0 ELSE 1) <= MaxQueueSize
  /\ \A i \in DOMAIN L.buffer : L.buffer[i] = TLP(A[Base(L) + i], Base(L) + i - 1)
  /\ L.replayPacket # NoPkt => L.replayPacket = TLP(A[Len(A)], Len(A) - 1)

WireOK(L, A, D) ==
  /\ GoodTLP(L.packet, A) /\ GoodAck(L.packet, D)
  /\ \A i \in DOMAIN L.txQueue :
       /\ L.txQueue[i].pkt # NoPkt
       /\ GoodTLP(L.txQueue[i].pkt, A) /\ GoodAck(L.txQueue[i].pkt, D)
  /\ L.replayDLLP.kind \in {"ack", "none"} /\ GoodAck(L.replayDLLP, D)

ReceiverOK(L, D) ==
  /\ L.recvSeqNum = Len(D)
  /\ L.ackEvent # Off => Len(D) > 0

IsFirst(p) == IsTLP(p) /\ p.seq = 0

(* D is what the far end took.  Nothing overtakes the first TLP. *)
DirectionOK(L, A, D) ==
  /\ Len(D) <= Len(A) /\ \A n \in DOMAIN D : D[n] = A[n]
  /\ Base(L) <= Len(D)
  /\ LinkDelay = 0 => L.txQueue = <<>>
  /\ Len(D) = 0 =>
       /\ L.buffer # <<>> => \E j \in DOMAIN L.txQueue : IsFirst(L.txQueue[j].pkt)
       /\ \A i \in DOMAIN L.txQueue :
            IsTLP(L.txQueue[i].pkt) => \E j \in 1 .. i : IsFirst(L.txQueue[j].pkt)

IInv ==
  /\ TypeOK
  /\ \A l \in Links :
       /\ Len(accepted[l]) <= MaxTLP[l]
       /\ WindowOK(link[l], accepted[l])
       /\ WireOK(link[l], accepted[l], delivered[Other(l)])
       /\ ReceiverOK(link[l], delivered[Other(l)])
       /\ DirectionOK(link[l], accepted[l], delivered[l])

=============================================================================
