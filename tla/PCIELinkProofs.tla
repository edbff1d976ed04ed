--------------------------- MODULE PCIELinkProofs ---------------------------
(***************************************************************************)
(* Proofs about PCIELink for any replay buffer size, any transmission and  *)
(* propagation times and any number of TLPs: the protocol is reliable, and *)
(* the link never sleeps with work left.                                   *)
(*                                                                         *)
(* First, each operation of one Link keeps its own state consistent; then  *)
(* the two ends are put together and IInv is shown to be inductive; last,  *)
(* the timers and retries that keep the link going.                        *)
(***************************************************************************)
EXTENDS PCIELink, WellFoundedInduction, TLAPS

(* More time than by default for the provers. *)
USE SMTT(30), ZenonT(30)

-----------------------------------------------------------------------------
(* The two interfaces are each other's other end. *)
LEMMA OtherEnd ==
  ASSUME NEW l \in Links
  PROVE  /\ Other(l) \in Links
         /\ Other(l) # l
         /\ Other(Other(l)) = l
BY LinksAssumption DEF Other

(* Constants the timers are computed from are natural numbers. *)
LEMMA TimesType ==
  /\ RetryTime \in Nat /\ AckTime \in Nat
  /\ \A p \in Packet : Size(p) \in Nat
  /\ Off \notin Nat
<1>1. AckFactor10 \in Nat
  BY TimesAssumption, Zenon DEF AckFactor10
<1>2. 3 * AckFactor10 * MpsTime \in Nat
  BY <1>1, TimesAssumption
<1>3. \A n \in Nat : n \div 10 \in Nat /\ n \div 3 \in Nat
  OBVIOUS
<1>4. RetryTime \in Nat
  BY <1>2, <1>3, Zenon DEF RetryTime
<1>5. AckTime \in Nat
  BY <1>4, <1>3, Zenon DEF AckTime
<1>6. \A p \in Packet : Size(p) \in Nat
  BY TimesAssumption DEF Packet, Size, IsTLP, Kind
<1> QED BY <1>4, <1>5, <1>6 DEF Off

(* The conversions behind an Ack number stay within uint64_t. *)
LEMMA AckType ==
  ASSUME NEW n \in Nat
  PROVE  Ack(n) \in Packet /\ Dec(n) \in Nat
<1>1. Dec(n) \in Nat
  BY WidthAssumption DEF Dec
<1>2. ASSUME NEW m \in Nat
      PROVE  ToInt(m) \in Int /\ ToInt(m) >= -IntHalf
  <2>1. (m + IntHalf) % (2 * IntHalf) \in Nat
    <3>1. m + IntHalf \in Int /\ 2 * IntHalf \in Nat \ {0}
      BY WidthAssumption
    <3> QED BY <3>1
  <2> QED BY <2>1, WidthAssumption DEF ToInt
<1>3. ToU64(ToInt(Dec(n))) \in Nat
  BY <1>1, <1>2, WidthAssumption DEF ToU64
<1> QED BY <1>1, <1>3, Zenon DEF Ack, Packet

(* Purge returns a suffix of the buffer: the entries from the first later one on. *)
LEMMA PurgeSuffix ==
  ASSUME NEW buf \in Seq(Packet), NEW n \in Nat
  PROVE  \/ Purge(buf, n) = <<>> /\ \A i \in DOMAIN buf : buf[i].seq <= n
         \/ \E i \in DOMAIN buf :
              /\ Purge(buf, n) = SubSeq(buf, i, Len(buf))
              /\ \A j \in 1 .. i - 1 : buf[j].seq <= n
<1> DEFINE later == {i \in DOMAIN buf : buf[i].seq > n}
<1>a. DOMAIN buf = 1 .. Len(buf) /\ Len(buf) \in Nat
  OBVIOUS
<1>b. \A i \in DOMAIN buf : buf[i] \in Packet
  OBVIOUS
<1>0. /\ DOMAIN buf = 1 .. Len(buf) /\ Len(buf) \in Nat
      /\ \A i \in DOMAIN buf : buf[i].seq \in Nat
  BY <1>a, <1>b, Zenon DEF Packet
<1>1. CASE later = {}
  BY <1>0, <1>1 DEF Purge
<1>2. CASE later # {}
  <2>1. later \subseteq Nat
    BY <1>0
  <2> DEFINE R == OpToRel(<, Nat)
  <2>a. IsWellFoundedOn(R, Nat)
    BY NatLessThanWellFounded, Zenon
  <2>b. \A x, y \in Nat : <<y, x>> \in R <=> y < x
    BY Zenon DEF OpToRel
  <2> HIDE DEF R
  <2>2. \E x \in later : \A y \in later : ~ (<<y, x>> \in R)
    BY <1>2, <2>1, <2>a, WFMin, Zenon
  <2>3. \E x \in later : \A y \in later : x <= y
    <3> HIDE DEF later
    <3>1. PICK x \in later : \A y \in later : ~ (<<y, x>> \in R)
      BY <2>2, Zenon
    <3>2. \A y \in later : ~ (y < x)
      BY <2>1, <2>b, <3>1, Zenon
    <3>3. \A y \in later : x <= y
      BY <2>1, <3>2
    <3> QED BY <3>3, Zenon
  <2>4. PICK i \in later : i = (CHOOSE x \in later : \A y \in later : x <= y)
                           /\ \A y \in later : i <= y
    BY <2>3, Zenon
  <2>5. Purge(buf, n) = SubSeq(buf, i, Len(buf))
    BY <1>2, <2>4, Zenon DEF Purge
  <2>6. \A j \in 1 .. i - 1 : buf[j].seq <= n
    BY <2>4, <1>0
  <2> QED BY <2>4, <2>5, <2>6, Zenon
<1> QED BY <1>1, <1>2, Zenon

(* The end of a sequence. *)
LEMMA EndOfSeq ==
  ASSUME NEW S, NEW q \in Seq(S), NEW i \in DOMAIN q
  PROVE  /\ SubSeq(q, i, Len(q)) \in Seq(S)
         /\ Len(SubSeq(q, i, Len(q))) = Len(q) - (i - 1)
         /\ \A j \in 1 .. Len(q) - (i - 1) : SubSeq(q, i, Len(q))[j] = q[(i - 1) + j]
OBVIOUS

(* What is left of the replay buffer after an Ack is a sequence of packets. *)
LEMMA PurgeType ==
  ASSUME NEW buf \in Seq(Packet), NEW n \in Nat
  PROVE  Purge(buf, n) \in Seq(Packet)
<1>1. /\ DOMAIN buf = 1 .. Len(buf) /\ Len(buf) \in Nat
      /\ \A i \in DOMAIN buf : buf[i] \in Packet
  OBVIOUS
<1>2. \A i \in DOMAIN buf : SubSeq(buf, i, Len(buf)) \in Seq(Packet)
  BY EndOfSeq, Zenon
<1>3. <<>> \in Seq(Packet)
  OBVIOUS
<1> QED BY <1>2, <1>3, PurgeSuffix, Zenon

-----------------------------------------------------------------------------
(* Type correctness: every operation of a Link keeps the types of its fields. *)

(* The absent packet has the shape of a packet. *)
LEMMA NoPktType == NoPkt \in Packet
BY Zenon DEF NoPkt, Packet

(* transmit keeps the interface well typed. *)
LEMMA TransmitType ==
  ASSUME NEW L \in LinkState, NEW p \in Packet
  PROVE  Transmit(L, p) \in LinkState
BY TimesType, Zenon DEF Transmit, LinkState

(* Starting the replay timer keeps the interface well typed. *)
LEMMA ArmType ==
  ASSUME NEW L \in LinkState
  PROVE  Arm(L) \in LinkState
BY TimesType, Zenon DEF Arm, LinkState, Timer

(* Asking stalled devices to retry keeps the interface well typed. *)
LEMMA SendRetriesType ==
  ASSUME NEW L \in LinkState
  PROVE  SendRetries(L) \in LinkState
BY Zenon DEF SendRetries, LinkState

(* Counting a sequence number or the replay position up keeps the interface well typed. *)
LEMMA CountersType ==
  ASSUME NEW L \in LinkState
  PROVE  /\ [L EXCEPT !.recvSeqNum = @ + 1] \in LinkState
         /\ [L EXCEPT !.sendSeqNum = @ + 1] \in LinkState
         /\ [L EXCEPT !.retransmitIdx = @ + 1] \in LinkState
<1>1. L.recvSeqNum + 1 \in Nat /\ L.sendSeqNum + 1 \in Nat /\ L.retransmitIdx + 1 \in Nat
  BY DEF LinkState
<1>2. [L EXCEPT !.recvSeqNum = @ + 1] \in LinkState
  BY <1>1, Zenon DEF LinkState
<1>3. [L EXCEPT !.sendSeqNum = @ + 1] \in LinkState
  BY <1>1, Zenon DEF LinkState
<1>4. [L EXCEPT !.retransmitIdx = @ + 1] \in LinkState
  BY <1>1, Zenon DEF LinkState
<1> QED BY <1>2, <1>3, <1>4, Zenon

(* Taking a TLP from a device keeps the interface well typed. *)
LEMMA TransmitInterfaceType ==
  ASSUME NEW L \in LinkState, NEW k \in Kind
  PROVE  TransmitInterface(L, k) \in LinkState
<1> DEFINE p == TLP(k, L.sendSeqNum)
           M == [L EXCEPT !.replayPacket = p]
<1>1. p \in Packet
  BY Zenon DEF TLP, Packet, LinkState
<1>2. M \in LinkState
  BY <1>1, Zenon DEF LinkState
<1>3. Transmit(M, p) \in LinkState
  BY <1>1, <1>2, TransmitType, Zenon
<1>4. [Transmit(M, p) EXCEPT !.sendSeqNum = @ + 1] \in LinkState
  BY <1>3, CountersType, Zenon
<1>5. [L EXCEPT !.retry = @ \cup {k}, !.stalled = @ \cup {k}] \in LinkState
  BY Zenon DEF LinkState
<1> QED BY <1>4, <1>5, Zenon DEF TransmitInterface

(* Sending or scheduling an Ack keeps the interface well typed. *)
LEMMA QueueAckType ==
  ASSUME NEW L \in LinkState
  PROVE  QueueAck(L) \in LinkState
<1>1. L.recvSeqNum \in Nat
  BY Zenon DEF LinkState
<1>2. Ack(L.recvSeqNum) \in Packet /\ Dec(L.recvSeqNum) \in Nat
  BY <1>1, AckType, Zenon
<1>3. Transmit(L, Ack(L.recvSeqNum)) \in LinkState
  BY <1>2, TransmitType, Zenon
<1>4. [L EXCEPT !.replayDLLP = Ack(L.recvSeqNum), !.lastAcked = Dec(L.recvSeqNum),
                !.ackEvent = AckTime] \in LinkState
  BY <1>2, TimesType, Zenon DEF LinkState, Timer
<1> QED BY <1>3, <1>4, Zenon DEF QueueAck

(* The arrival of a TLP or an Ack keeps the receiving interface well typed. *)
LEMMA LinkReceiveInterfaceType ==
  ASSUME NEW L \in LinkState, NEW p \in Packet, NEW took \in BOOLEAN
  PROVE  LinkReceiveInterface(L, p, took) \in LinkState
<1>1. ReceiveTLP(L, p, took) \in LinkState
  <2>1. [L EXCEPT !.recvSeqNum = @ + 1] \in LinkState
    BY CountersType, Zenon
  <2> QED BY <2>1, QueueAckType, Zenon DEF ReceiveTLP
<1>2. ReceiveDLLP(L, p) \in LinkState
  <2>1. Purge(L.buffer, p.seq) \in Seq(Packet)
    BY PurgeType, Zenon DEF LinkState, Packet
  <2>2. [L EXCEPT !.buffer = Purge(L.buffer, p.seq),
                  !.timeoutEvent = IF Purge(L.buffer, p.seq) = <<>> THEN Off ELSE RetryTime]
          \in LinkState
    BY <2>1, TimesType, Zenon DEF LinkState, Timer
  <2> QED BY <2>2, SendRetriesType, Zenon DEF ReceiveDLLP
<1> QED BY <1>1, <1>2, Zenon DEF LinkReceiveInterface

(* txDone's bookkeeping keeps the sending interface well typed. *)
LEMMA AfterTransmissionType ==
  ASSUME NEW L \in LinkState
  PROVE  AfterTransmission(L) \in LinkState
<1> DEFINE A == [L EXCEPT !.packet = NoPkt]
           B == SendPendingAck(A)
           C == StoreFirstTransmission(B, L.packet)
<1>1. A \in LinkState
  BY NoPktType, Zenon DEF LinkState
<1>2. B \in LinkState
  <2>1. Transmit(A, A.replayDLLP) \in LinkState
    BY <1>1, TransmitType, Zenon DEF LinkState
  <2>2. [Transmit(A, A.replayDLLP) EXCEPT !.replayDLLP = NoPkt] \in LinkState
    BY <2>1, NoPktType, Zenon DEF LinkState
  <2> QED BY <1>1, <2>2, Zenon DEF SendPendingAck
<1>3. C \in LinkState
  <2> HIDE DEF B
  <2>1. L.packet \in Packet
    BY Zenon DEF LinkState
  <2>2. PushBack(B.buffer, L.packet) \in Seq(Packet)
    BY <1>2, <2>1 DEF PushBack, LinkState
  <2>3. [B EXCEPT !.buffer = PushBack(@, L.packet), !.replayPacket = NoPkt] \in LinkState
    BY <1>2, <2>2, NoPktType, Zenon DEF LinkState
  <2> QED BY <1>2, <2>3, ArmType, SendRetriesType, Zenon DEF StoreFirstTransmission
<1>4. Replay(C) \in LinkState
  <2> HIDE DEF C
  <2>1. \A M \in LinkState : SendPendingTLP(M) \in LinkState
    <3> TAKE M \in LinkState
    <3>1. M.replayPacket \in Packet
      BY Zenon DEF LinkState
    <3> QED BY <3>1, TransmitType, Zenon DEF SendPendingTLP
  <2>2. Arm(C) \in LinkState
    BY <1>3, ArmType, Zenon
  <2>3. [Arm(C) EXCEPT !.retransmitIdx = 0, !.retransmit = FALSE] \in LinkState
    BY <2>2, Zenon DEF LinkState
  <2>4. ASSUME ~(C.retransmitIdx >= Len(C.buffer))
        PROVE  [Transmit(Arm(C), C.buffer[C.retransmitIdx + 1]) EXCEPT !.retransmitIdx = @ + 1]
                 \in LinkState
    <3>0. C.buffer \in Seq(Packet) /\ C.retransmitIdx \in Nat
      BY <1>3, Zenon DEF LinkState
    <3>1. C.buffer \in Seq(Packet) /\ C.retransmitIdx + 1 \in 1 .. Len(C.buffer)
      BY <2>4, <3>0
    <3>2. C.buffer[C.retransmitIdx + 1] \in Packet
      BY <3>1
    <3>3. Transmit(Arm(C), C.buffer[C.retransmitIdx + 1]) \in LinkState
      BY <2>2, <3>2, TransmitType, Zenon
    <3> QED BY <3>3, CountersType, Zenon
  <2> QED BY <1>3, <2>1, <2>3, <2>4, SendRetriesType, Zenon DEF Replay
<1> QED BY <1>4, Zenon DEF AfterTransmission

(* The replay timer and the ack timer keep the interface well typed. *)
LEMMA EventsType ==
  ASSUME NEW L \in LinkState
  PROVE  /\ TimeoutFunc([L EXCEPT !.timeoutEvent = Off]) \in LinkState
         /\ SendAck([L EXCEPT !.ackEvent = Off]) \in LinkState
<1> DEFINE T == [L EXCEPT !.timeoutEvent = Off]
           A == [L EXCEPT !.ackEvent = Off]
<1>1. T \in LinkState /\ A \in LinkState
  BY Zenon DEF LinkState, Timer
<1>2. ASSUME NEW M \in LinkState
      PROVE  TimeoutFunc(M) \in LinkState
  <2>1. CASE M.buffer = <<>> \/ M.retransmit
    BY <2>1, Zenon DEF TimeoutFunc
  <2>2. CASE ~(M.buffer = <<>> \/ M.retransmit)
    <3>1. M.buffer \in Seq(Packet) /\ M.buffer # <<>>
      BY <2>2, Zenon DEF LinkState
    <3>2. M.buffer[1] \in Packet
      BY <3>1
    <3>3. Transmit(M, M.buffer[1]) \in LinkState
      BY <3>2, TransmitType, Zenon
    <3>4. [Transmit(M, M.buffer[1]) EXCEPT !.retransmit = TRUE,
             !.retransmitIdx = IF Busy(M) THEN 0 ELSE 1] \in LinkState
      BY <3>3, Zenon DEF LinkState
    <3> QED BY <2>2, <3>4, Zenon DEF TimeoutFunc
  <2> QED BY <2>1, <2>2, Zenon
<1>3. ASSUME NEW M \in LinkState
      PROVE  SendAck(M) \in LinkState
  <2> DEFINE a == Ack(M.recvSeqNum)
             B == [M EXCEPT !.lastAcked = Dec(M.recvSeqNum), !.ackEvent = AckTime]
  <2>1. M.recvSeqNum \in Nat
    BY Zenon DEF LinkState
  <2>2. a \in Packet /\ Dec(M.recvSeqNum) \in Nat
    BY <2>1, AckType, Zenon
  <2>3. B \in LinkState
    BY <2>2, TimesType, Zenon DEF LinkState, Timer
  <2>4. [B EXCEPT !.replayDLLP = a] \in LinkState
    BY <2>2, <2>3, Zenon DEF LinkState
  <2>5. Transmit(B, a) \in LinkState
    BY <2>2, <2>3, TransmitType, Zenon
  <2> QED BY <2>4, <2>5, Zenon DEF SendAck
<1> QED BY <1>1, <1>2, <1>3, Zenon

(* Putting a packet on the delay line keeps the interface well typed. *)
LEMMA PropagateType ==
  ASSUME NEW L \in LinkState
  PROVE  Propagate(L, L.packet) \in LinkState
<1>1. L.packet \in Packet /\ L.txQueue \in Seq(Delayed)
  BY Zenon DEF LinkState
<1>2. [due |-> LinkDelay, pkt |-> L.packet] \in Delayed
  BY <1>1, TimesAssumption, Zenon DEF Delayed
<1>3. Append(L.txQueue, [due |-> LinkDelay, pkt |-> L.packet])
        \in Seq(Delayed)
  BY <1>1, <1>2
<1> QED BY <1>3, Zenon DEF Propagate, LinkState

(* The passing of a tick keeps the interface well typed. *)
LEMMA ElapseType ==
  ASSUME NEW L \in LinkState
  PROVE  Elapse(L) \in LinkState
<1> DEFINE Q == [i \in DOMAIN L.txQueue |->
                   [due |-> CountDown(L.txQueue[i].due), pkt |-> L.txQueue[i].pkt]]
<1>1. \A n \in Nat : CountDown(n) \in Nat
  BY DEF CountDown
<1>2. \A t \in Timer : CountDown(t) \in Timer
  BY DEF CountDown, Timer, Off
<1>3. L.txQueue \in Seq(Delayed)
  BY Zenon DEF LinkState
<1>4. \A i \in DOMAIN L.txQueue : L.txQueue[i] \in Delayed
  BY <1>3
<1>5. \A i \in DOMAIN L.txQueue : Q[i] \in Delayed
  BY <1>1, <1>4, Zenon DEF Delayed
<1>6. Q \in Seq(Delayed)
  <2>1. Len(L.txQueue) \in Nat /\ DOMAIN L.txQueue = 1 .. Len(L.txQueue)
    BY <1>3
  <2>2. Q \in [1 .. Len(L.txQueue) -> Delayed]
    BY <1>5, <2>1, Zenon
  <2> HIDE DEF Q
  <2> QED BY <2>1, <2>2
<1>7. /\ CountDown(L.doneEvent) \in Nat
      /\ CountDown(L.timeoutEvent) \in Timer
      /\ CountDown(L.ackEvent) \in Timer
  BY <1>1, <1>2, Zenon DEF LinkState
<1>8. Elapse(L) = [L EXCEPT !.doneEvent = CountDown(L.doneEvent), !.txQueue = Q,
                            !.timeoutEvent = CountDown(L.timeoutEvent),
                            !.ackEvent = CountDown(L.ackEvent)]
  BY Zenon DEF Elapse
<1> HIDE DEF Q
<1> QED BY <1>6, <1>7, <1>8, ZenonT(40) DEF LinkState

(* The type invariant is inductive: it needs nothing but itself. *)
LEMMA TypeInductive ==
  /\ Init => TypeOK
  /\ TypeOK /\ [Next]_vars => TypeOK'
<1>1. Init => TypeOK
  <2>1. NewLink \in LinkState
    <3>1. <<>> \in Seq(Packet) /\ <<>> \in Seq(Delayed)
      OBVIOUS
    <3> QED BY <3>1, NoPktType, Zenon DEF NewLink, LinkState, Timer
  <2>2. <<>> \in Seq(Kind)
    OBVIOUS
  <2> QED BY <2>1, <2>2, Zenon DEF Init, TypeOK
<1>2. TypeOK /\ [Next]_vars => TypeOK'
  <2> SUFFICES ASSUME TypeOK, [Next]_vars
               PROVE  TypeOK'
    BY Zenon
  <2>0. ASSUME NEW l \in Links, NEW p \in Packet, NEW took \in BOOLEAN, Deliver(l, p, took)
        PROVE  delivered' \in [Links -> Seq(Kind)]
    <3>1. IsTLP(p) => Append(delivered[l], p.kind) \in Seq(Kind)
      BY DEF TypeOK, IsTLP
    <3> QED BY <2>0, <3>1, Zenon DEF Deliver, TypeOK
  <2>1. ASSUME NEW l \in Links, NEW k \in Kind, Offer(l, k)
        PROVE  TypeOK'
    <3>1. TransmitInterface(link[l], k) \in LinkState
      BY TransmitInterfaceType, Zenon DEF TypeOK
    <3>2. Append(accepted[l], k) \in Seq(Kind)
      BY DEF TypeOK
    <3> QED BY <2>1, <3>1, <3>2, Zenon DEF Offer, TypeOK
  <2>2. ASSUME NEW l \in Links, NEW took \in BOOLEAN, TxDone(l, took)
        PROVE  TypeOK'
    <3> DEFINE p == link[l].packet
    <3>1. link[l] \in LinkState /\ link[Other(l)] \in LinkState /\ p \in Packet
      BY OtherEnd, Zenon DEF TypeOK, LinkState
    <3>2. AfterTransmission(link[l]) \in LinkState
      BY <3>1, AfterTransmissionType, Zenon
    <3>3. AfterTransmission(Propagate(link[l], p)) \in LinkState
      BY <3>1, PropagateType, AfterTransmissionType, Zenon
    <3>4. LinkReceiveInterface(link[Other(l)], p, took) \in LinkState
      BY <3>1, LinkReceiveInterfaceType, Zenon
    <3>5. CASE LinkDelay > 0
      BY <2>2, <3>3, <3>5, Zenon DEF TxDone, TypeOK
    <3>6. CASE ~(LinkDelay > 0)
      <4>1. delivered' \in [Links -> Seq(Kind)]
        BY <2>0, <2>2, <3>1, <3>6, Zenon DEF TxDone
      <4>2. link' = [link EXCEPT ![l] = AfterTransmission(link[l]),
                                 ![Other(l)] = LinkReceiveInterface(link[Other(l)], p, took)]
        BY <2>2, <3>6, OtherEnd, Zenon DEF TxDone, TypeOK
      <4>3. link' \in [Links -> LinkState]
        BY <3>2, <3>4, <4>2, Zenon DEF TypeOK
      <4> QED BY <2>2, <4>1, <4>3, Zenon DEF TxDone, TypeOK
    <3> QED BY <3>5, <3>6, Zenon
  <2>3. ASSUME NEW l \in Links, NEW took \in BOOLEAN, ProcessTxQueue(l, took)
        PROVE  TypeOK'
    <3> DEFINE cur == Head(link[l].txQueue)
    <3>1. link[l] \in LinkState /\ link[Other(l)] \in LinkState
      BY OtherEnd, Zenon DEF TypeOK
    <3>2. link[l].txQueue \in Seq(Delayed) /\ link[l].txQueue # <<>>
      BY <2>3, <3>1, Zenon DEF ProcessTxQueue, LinkState
    <3>3. cur \in Delayed
          /\ Tail(link[l].txQueue) \in Seq(Delayed)
      BY <3>2
    <3>4. cur.pkt \in Packet
      BY <3>3, Zenon DEF Delayed
    <3> HIDE DEF cur
    <3>5. LinkReceiveInterface(link[Other(l)], cur.pkt, took) \in LinkState
      BY <3>1, <3>4, LinkReceiveInterfaceType, Zenon
    <3>6. [link[l] EXCEPT !.txQueue = Tail(link[l].txQueue)] \in LinkState
      BY <3>1, <3>3, Zenon DEF LinkState
    <3>7. link' = [link EXCEPT ![l] = [link[l] EXCEPT !.txQueue = Tail(link[l].txQueue)],
                               ![Other(l)] = LinkReceiveInterface(link[Other(l)], cur.pkt, took)]
      BY <2>3, OtherEnd, Zenon DEF ProcessTxQueue, TypeOK, cur
    <3>8. delivered' \in [Links -> Seq(Kind)]
      BY <2>0, <2>3, <3>4, Zenon DEF ProcessTxQueue, cur
    <3>9. link' \in [Links -> LinkState]
      BY <3>5, <3>6, <3>7, Zenon DEF TypeOK
    <3> QED BY <2>3, <3>8, <3>9, Zenon DEF ProcessTxQueue, TypeOK
  <2>4. ASSUME NEW l \in Links, TimeoutEvent(l) \/ AckEvent(l)
        PROVE  TypeOK'
    <3>1. link[l] \in LinkState
      BY Zenon DEF TypeOK
    <3> QED BY <2>4, <3>1, EventsType, Zenon DEF TimeoutEvent, AckEvent, TypeOK
  <2>5. CASE Tick
    BY <2>5, ElapseType, Zenon DEF Tick, TypeOK
  <2>6. CASE UNCHANGED vars
    BY <2>6, Zenon DEF vars, TypeOK
  <2> QED BY <2>1, <2>2, <2>3, <2>4, <2>5, <2>6, Zenon DEF Next
<1> QED BY <1>1, <1>2, Zenon

(* Every reachable state of the link is well typed, for every value of the   *)
(* constants: no handler of pcie_link.cc leaves a field outside its domain.  *)
THEOREM TypeCorrect == Spec => []TypeOK
BY TypeInductive, PTL DEF Spec

-----------------------------------------------------------------------------
(* Reliability.  The operations of a Link keep its window, its wire and its  *)
(* receiver consistent with what the devices handed in and took.             *)

Consistent(L, A, D) == WindowOK(L, A) /\ WireOK(L, A, D) /\ ReceiverOK(L, D)

(* The fields DirectionOK looks at. *)
SameWindow(L, M) ==
  /\ M.sendSeqNum = L.sendSeqNum
  /\ M.replayPacket = L.replayPacket
  /\ M.buffer = L.buffer

(* An empty packet slot says nothing wrong. *)
LEMMA NoPktGood ==
  ASSUME NEW A \in Seq(Kind), NEW D \in Seq(Kind)
  PROVE  GoodTLP(NoPkt, A) /\ GoodAck(NoPkt, D)
BY Zenon DEF GoodTLP, GoodAck, NoPkt, IsTLP, Kind

(* A step that leaves the replay window alone keeps what is said of it. *)
LEMMA SameWindowOK ==
  ASSUME NEW L \in LinkState, NEW M \in LinkState, NEW A \in Seq(Kind),
         SameWindow(L, M), WindowOK(L, A)
  PROVE  WindowOK(M, A) /\ Base(M) = Base(L)
BY Zenon DEF SameWindow, WindowOK, Base

(* transmit puts a good packet on a free wire and leaves the rest alone. *)
LEMMA TransmitKeeps ==
  ASSUME NEW L \in LinkState, NEW p \in Packet, NEW A \in Seq(Kind), NEW D \in Seq(Kind),
         Consistent(L, A, D), GoodTLP(p, A), GoodAck(p, D)
  PROVE  /\ Consistent(Transmit(L, p), A, D)
         /\ SameWindow(L, Transmit(L, p))
         /\ Transmit(L, p).txQueue = L.txQueue
<1> DEFINE T == Transmit(L, p)
<1>0. T \in LinkState
  BY TransmitType, Zenon
<1>1. /\ SameWindow(L, T) /\ T.txQueue = L.txQueue /\ T.replayDLLP = L.replayDLLP
      /\ T.recvSeqNum = L.recvSeqNum /\ T.ackEvent = L.ackEvent
      /\ T.packet = L.packet \/ T.packet = p
  BY Zenon DEF Transmit, LinkState, SameWindow
<1> HIDE DEF T
<1>2. WindowOK(T, A)
  BY <1>0, <1>1, SameWindowOK, Zenon DEF Consistent
<1>3. WireOK(T, A, D)
  BY <1>1, Zenon DEF Consistent, WireOK
<1>4. ReceiverOK(T, D)
  BY <1>1, Zenon DEF Consistent, ReceiverOK
<1> QED BY <1>1, <1>2, <1>3, <1>4, Zenon DEF Consistent, T

(* Starting the replay timer keeps the interface consistent. *)
LEMMA ArmKeeps ==
  ASSUME NEW L \in LinkState, NEW A \in Seq(Kind), NEW D \in Seq(Kind),
         Consistent(L, A, D)
  PROVE  /\ Consistent(Arm(L), A, D)
         /\ SameWindow(L, Arm(L))
         /\ Arm(L).txQueue = L.txQueue
         /\ Arm(L).retransmitIdx = L.retransmitIdx
<1> DEFINE T == Arm(L)
<1>0. T \in LinkState
  BY ArmType, Zenon
<1>1. /\ SameWindow(L, T) /\ T.txQueue = L.txQueue /\ T.replayDLLP = L.replayDLLP
      /\ T.recvSeqNum = L.recvSeqNum /\ T.ackEvent = L.ackEvent
      /\ T.packet = L.packet /\ T.retransmitIdx = L.retransmitIdx
  BY Zenon DEF Arm, LinkState, SameWindow
<1> HIDE DEF T
<1>2. WindowOK(T, A)
  BY <1>0, <1>1, SameWindowOK, Zenon DEF Consistent
<1>3. WireOK(T, A, D) /\ ReceiverOK(T, D)
  BY <1>1, Zenon DEF Consistent, WireOK, ReceiverOK
<1> QED BY <1>1, <1>2, <1>3, Zenon DEF Consistent, T

(* Asking stalled devices to retry keeps the interface consistent. *)
LEMMA SendRetriesKeeps ==
  ASSUME NEW L \in LinkState, NEW A \in Seq(Kind), NEW D \in Seq(Kind),
         Consistent(L, A, D)
  PROVE  /\ Consistent(SendRetries(L), A, D)
         /\ SameWindow(L, SendRetries(L))
         /\ SendRetries(L).txQueue = L.txQueue
<1> DEFINE T == SendRetries(L)
<1>0. T \in LinkState
  BY SendRetriesType, Zenon
<1>1. /\ SameWindow(L, T) /\ T.txQueue = L.txQueue /\ T.replayDLLP = L.replayDLLP
      /\ T.recvSeqNum = L.recvSeqNum /\ T.ackEvent = L.ackEvent /\ T.packet = L.packet
  BY Zenon DEF SendRetries, LinkState, SameWindow
<1> HIDE DEF T
<1>2. WindowOK(T, A)
  BY <1>0, <1>1, SameWindowOK, Zenon DEF Consistent
<1>3. WireOK(T, A, D) /\ ReceiverOK(T, D)
  BY <1>1, Zenon DEF Consistent, WireOK, ReceiverOK
<1> QED BY <1>1, <1>2, <1>3, Zenon DEF Consistent, T

(* An Ack for at most 2^31 received TLPs carries the number of the last one. *)
LEMMA AckValue ==
  ASSUME NEW n \in Nat, n > 0, n <= IntHalf
  PROVE  Ack(n) = [kind |-> "ack", seq |-> n - 1]
<1>1. Dec(n) = n - 1 /\ ToInt(n - 1) = n - 1 /\ ToU64(n - 1) = n - 1
  BY WidthAssumption DEF Dec, ToInt, ToU64
<1> QED BY <1>1, Zenon DEF Ack

(* The Ack that is built acknowledges what was delivered, and no more. *)
LEMMA AckGood ==
  ASSUME NEW A \in Seq(Kind), NEW D \in Seq(Kind), Len(D) > 0, Len(D) <= IntHalf
  PROVE  GoodTLP(Ack(Len(D)), A) /\ GoodAck(Ack(Len(D)), D)
BY AckValue DEF GoodTLP, GoodAck, IsTLP, Kind

(* An entry of the replay buffer is a TLP that was handed in. *)
LEMMA BufferGood ==
  ASSUME NEW L \in LinkState, NEW A \in Seq(Kind), NEW D \in Seq(Kind),
         WindowOK(L, A), NEW i \in DOMAIN L.buffer
  PROVE  L.buffer[i] \in Packet /\ GoodTLP(L.buffer[i], A) /\ GoodAck(L.buffer[i], D)
<1>1. L.buffer \in Seq(Packet) /\ i \in 1 .. Len(L.buffer) /\ Len(L.buffer) \in Nat
  BY DEF LinkState
<1>2. L.buffer[i] = TLP(A[Base(L) + i], Base(L) + i - 1)
  BY Zenon DEF WindowOK
<1>3. Base(L) \in Nat /\ Base(L) + i <= Len(A)
  <2>1. L.sendSeqNum = Len(A) /\ Base(L) >= 0 /\ Len(A) \in Nat
    BY DEF WindowOK
  <2>2. PICK r \in {0, 1} : Base(L) = L.sendSeqNum - r - Len(L.buffer)
    BY Zenon DEF Base
  <2>3. Base(L) = Len(A) - r - Len(L.buffer) /\ r \in Nat
    BY <2>1, <2>2
  <2>4. Base(L) \in Int
    BY <1>1, <2>1, <2>3
  <2>5. Base(L) \in Nat
    BY <2>1, <2>4
  <2>6. Base(L) + i <= Len(A)
    <3>1. \A a, n, t, j \in Nat : j <= n => (a - t - n) + j <= a
      OBVIOUS
    <3>2. i \in Nat /\ i <= Len(L.buffer)
      BY <1>1
    <3> QED BY <1>1, <2>1, <2>3, <3>1, <3>2, Zenon
  <2> QED BY <2>5, <2>6, Zenon
<1>4. A[Base(L) + i] \in Kind
  BY <1>1, <1>3
<1>5. /\ L.buffer[i].kind = A[Base(L) + i] /\ L.buffer[i].seq = Base(L) + i - 1
      /\ Base(L) + i - 1 < Len(A) /\ (Base(L) + i - 1) + 1 = Base(L) + i
  BY <1>1, <1>2, <1>3 DEF TLP
<1> QED BY <1>1, <1>4, <1>5 DEF GoodTLP, GoodAck, IsTLP

(* So is the TLP in replayPacket. *)
LEMMA ReplayPacketGood ==
  ASSUME NEW L \in LinkState, NEW A \in Seq(Kind), NEW D \in Seq(Kind),
         WindowOK(L, A), L.replayPacket # NoPkt
  PROVE  /\ Len(A) > 0 /\ IsTLP(L.replayPacket) /\ L.replayPacket.seq = Len(A) - 1
         /\ L.replayPacket.kind = A[Len(A)]
         /\ GoodTLP(L.replayPacket, A) /\ GoodAck(L.replayPacket, D)
<1>1. L.buffer \in Seq(Packet) /\ Len(L.buffer) \in Nat
  BY DEF LinkState
<1>2. L.replayPacket = TLP(A[Len(A)], Len(A) - 1) /\ Len(A) > 0
  BY <1>1 DEF WindowOK, Base, LinkState
<1>3. A[Len(A)] \in Kind
  BY <1>2
<1> QED BY <1>2, <1>3 DEF GoodTLP, GoodAck, TLP, IsTLP, Kind

(* The window is the numbers from Base(L) up to the last one assigned. *)
LEMMA WindowSize ==
  ASSUME NEW L \in LinkState, NEW A \in Seq(Kind), WindowOK(L, A)
  PROVE  /\ Base(L) \in Nat
         /\ L.replayPacket = NoPkt => Base(L) + Len(L.buffer) = Len(A)
         /\ L.replayPacket # NoPkt => Base(L) + Len(L.buffer) + 1 = Len(A)
<1>1. Len(L.buffer) \in Nat /\ Len(A) \in Nat /\ L.sendSeqNum = Len(A) /\ Base(L) >= 0
  BY DEF WindowOK, LinkState
<1>2. CASE L.replayPacket = NoPkt
  <2>1. Base(L) = Len(A) - 0 - Len(L.buffer)
    BY <1>1, <1>2, Zenon DEF Base
  <2> QED BY <1>1, <1>2, <2>1
<1>3. CASE L.replayPacket # NoPkt
  <2>1. Base(L) = Len(A) - 1 - Len(L.buffer)
    BY <1>1, <1>3, Zenon DEF Base
  <2> QED BY <1>1, <1>3, <2>1
<1> QED BY <1>2, <1>3, Zenon

(* Storing a TLP after its first transmission moves it from replayPacket to  *)
(* the end of the buffer; pushBack finds a free place.                       *)
LEMMA StoreKeeps ==
  ASSUME NEW L \in LinkState, NEW p \in Packet, p # NoPkt,
         NEW A \in Seq(Kind), NEW D \in Seq(Kind), Consistent(L, A, D)
  PROVE  LET M == StoreFirstTransmission(L, p)
         IN /\ M \in LinkState /\ Consistent(M, A, D)
            /\ Base(M) = Base(L) /\ M.txQueue = L.txQueue
            /\ p # L.replayPacket => M.buffer = L.buffer
<1>1. CASE p # L.replayPacket
  BY <1>1, Zenon DEF StoreFirstTransmission
<1>2. CASE p = L.replayPacket
  <2> DEFINE S == [L EXCEPT !.buffer = PushBack(@, p), !.replayPacket = NoPkt]
  <2>1. /\ L.buffer \in Seq(Packet) /\ Len(L.buffer) \in Nat
        /\ Len(A) \in Nat /\ L.sendSeqNum = Len(A)
    BY DEF LinkState, Consistent, WindowOK
  <2>2. L.replayPacket # NoPkt
    BY <1>2, Zenon
  <2>3. /\ Base(L) \in Nat /\ Base(L) + Len(L.buffer) + 1 = Len(A)
    BY <2>2, WindowSize, Zenon DEF Consistent
  <2>4. Len(L.buffer) + 1 <= MaxQueueSize
    BY <2>2, Zenon DEF Consistent, WindowOK
  <2>5. PushBack(L.buffer, p) = Append(L.buffer, p)
    BY <2>1, <2>4, SizesAssumption DEF PushBack
  <2>6. Append(L.buffer, p) \in Seq(Packet) /\ Len(Append(L.buffer, p)) = Len(L.buffer) + 1
        /\ DOMAIN Append(L.buffer, p) = 1 .. Len(L.buffer) + 1
        /\ Append(L.buffer, p)[Len(L.buffer) + 1] = p
        /\ \A i \in 1 .. Len(L.buffer) : Append(L.buffer, p)[i] = L.buffer[i]
    BY <2>1
  <2>7. S \in LinkState
    BY <2>5, <2>6, NoPktType, Zenon DEF LinkState
  <2>8. /\ S.buffer = Append(L.buffer, p) /\ S.replayPacket = NoPkt
        /\ S.sendSeqNum = L.sendSeqNum /\ S.txQueue = L.txQueue
        /\ S.packet = L.packet /\ S.replayDLLP = L.replayDLLP
        /\ S.recvSeqNum = L.recvSeqNum /\ S.ackEvent = L.ackEvent
    BY <2>5, Zenon DEF LinkState
  <2> HIDE DEF S
  <2>9. Base(S) = Len(A) - 0 - (Len(L.buffer) + 1)
    BY <2>1, <2>6, <2>8, Zenon DEF Base
  <2>10. Base(S) = Base(L)
    BY <2>1, <2>3, <2>9
  <2>11. WindowOK(S, A)
    <3>1. ASSUME NEW i \in DOMAIN S.buffer
          PROVE  S.buffer[i] = TLP(A[Base(S) + i], Base(S) + i - 1)
      <4>1. CASE i \in 1 .. Len(L.buffer)
        <5>1. L.buffer[i] = TLP(A[Base(L) + i], Base(L) + i - 1)
          BY <2>1, <4>1 DEF Consistent, WindowOK
        <5> QED BY <2>6, <2>8, <2>10, <4>1, <5>1, Zenon
      <4>2. CASE i = Len(L.buffer) + 1
        <5>1. Base(L) + i = Len(A)
          BY <2>1, <2>3, <4>2
        <5>2. p = TLP(A[Len(A)], Len(A) - 1)
          BY <1>2, <2>2, Zenon DEF Consistent, WindowOK
        <5>3. Base(S) + i = Len(A) /\ Base(S) + i - 1 = Len(A) - 1
          BY <2>1, <2>3, <2>10, <4>2
        <5>4. S.buffer[i] = p
          BY <2>6, <2>8, <4>2, Zenon
        <5> QED BY <5>2, <5>3, <5>4, Zenon
      <4>3. i \in 1 .. Len(L.buffer) + 1
        BY <2>6, <2>8, Zenon
      <4>4. i \in 1 .. Len(L.buffer) \/ i = Len(L.buffer) + 1
        BY <2>1, <4>3
      <4> QED BY <4>1, <4>2, <4>4, Zenon
    <3>2. Base(S) >= 0
      BY <2>3, <2>10
    <3>3. Len(S.buffer) + 0 <= MaxQueueSize
      BY <2>1, <2>4, <2>6, <2>8, SizesAssumption
    <3> QED BY <2>1, <2>8, <3>1, <3>2, <3>3, Zenon DEF WindowOK
  <2>12. Consistent(S, A, D)
    BY <2>8, <2>11, Zenon DEF Consistent, WireOK, ReceiverOK
  <2>13. StoreFirstTransmission(L, p) = SendRetries(Arm(S))
    BY <1>2, Zenon DEF StoreFirstTransmission, S
  <2>14. /\ Arm(S) \in LinkState /\ Consistent(Arm(S), A, D)
         /\ SameWindow(S, Arm(S)) /\ Arm(S).txQueue = S.txQueue
    BY <2>7, <2>12, ArmType, ArmKeeps, Zenon
  <2>15. /\ SendRetries(Arm(S)) \in LinkState /\ Consistent(SendRetries(Arm(S)), A, D)
         /\ SameWindow(Arm(S), SendRetries(Arm(S))) /\ SendRetries(Arm(S)).txQueue = S.txQueue
    BY <2>14, SendRetriesType, SendRetriesKeeps, Zenon
  <2>16. Base(SendRetries(Arm(S))) = Base(S)
    BY <2>7, <2>12, <2>14, <2>15, SameWindowOK, Zenon DEF Consistent
  <2> QED BY <1>2, <2>8, <2>10, <2>13, <2>15, <2>16, Zenon
<1> QED BY <1>1, <1>2, Zenon

(* Steps of a replay pass, and the transmission of a waiting TLP. *)
LEMMA ReplayKeeps ==
  ASSUME NEW L \in LinkState, NEW A \in Seq(Kind), NEW D \in Seq(Kind), Consistent(L, A, D)
  PROVE  /\ Consistent(Replay(L), A, D)
         /\ SameWindow(L, Replay(L))
         /\ Replay(L).txQueue = L.txQueue
<1>1. ASSUME NEW M \in LinkState, Consistent(M, A, D)
      PROVE  /\ Consistent(SendPendingTLP(M), A, D)
             /\ SameWindow(M, SendPendingTLP(M))
             /\ SendPendingTLP(M).txQueue = M.txQueue
  <2>1. CASE M.replayPacket = NoPkt
    BY <1>1, <2>1, Zenon DEF SendPendingTLP, SameWindow
  <2>2. CASE M.replayPacket # NoPkt
    <3>1. M.replayPacket \in Packet
      BY Zenon DEF LinkState
    <3>2. GoodTLP(M.replayPacket, A) /\ GoodAck(M.replayPacket, D)
      BY <1>1, <2>2, ReplayPacketGood, Zenon DEF Consistent
    <3> QED BY <1>1, <2>2, <3>1, <3>2, TransmitKeeps, Zenon DEF SendPendingTLP
  <2> QED BY <2>1, <2>2, Zenon
<1>2. CASE ~L.retransmit
  BY <1>1, <1>2, Zenon DEF Replay
<1> DEFINE R == Arm(L)
<1>3. /\ R \in LinkState /\ Consistent(R, A, D) /\ SameWindow(L, R)
      /\ R.txQueue = L.txQueue
  BY ArmType, ArmKeeps, Zenon
<1> HIDE DEF R
<1>4. CASE L.retransmit /\ L.retransmitIdx >= Len(L.buffer)
  <2> DEFINE E == [R EXCEPT !.retransmitIdx = 0, !.retransmit = FALSE]
             F == SendRetries(E)
  <2>1. E \in LinkState
    BY <1>3, Zenon DEF LinkState
  <2>2. /\ SameWindow(R, E) /\ E.txQueue = R.txQueue /\ E.replayDLLP = R.replayDLLP
        /\ E.recvSeqNum = R.recvSeqNum /\ E.ackEvent = R.ackEvent /\ E.packet = R.packet
    BY <1>3, Zenon DEF LinkState, SameWindow
  <2>3. Replay(L) = SendPendingTLP(F)
    BY <1>4, Zenon DEF Replay, R
  <2> HIDE DEF E
  <2>4. Consistent(E, A, D)
    <3>1. WindowOK(E, A)
      BY <1>3, <2>1, <2>2, SameWindowOK, Zenon DEF Consistent
    <3> QED BY <1>3, <2>2, <3>1, Zenon DEF Consistent, WireOK, ReceiverOK
  <2>5. F \in LinkState /\ Consistent(F, A, D) /\ SameWindow(E, F) /\ F.txQueue = E.txQueue
    BY <2>1, <2>4, SendRetriesType, SendRetriesKeeps, Zenon
  <2> HIDE DEF F
  <2> QED BY <1>1, <1>3, <2>2, <2>3, <2>5, Zenon DEF SameWindow
<1>5. CASE L.retransmit /\ ~(L.retransmitIdx >= Len(L.buffer))
  <2> DEFINE p == L.buffer[L.retransmitIdx + 1]
             T == Transmit(R, p)
             E == [T EXCEPT !.retransmitIdx = @ + 1]
  <2>1. L.retransmitIdx + 1 \in DOMAIN L.buffer
    BY <1>5 DEF LinkState
  <2>2. p \in Packet /\ GoodTLP(p, A) /\ GoodAck(p, D)
    BY <2>1, BufferGood, Zenon DEF Consistent
  <2>3. Replay(L) = E
    BY <1>5, Zenon DEF Replay, R
  <2> HIDE DEF p
  <2>4. T \in LinkState /\ Consistent(T, A, D) /\ SameWindow(R, T) /\ T.txQueue = R.txQueue
    BY <1>3, <2>2, TransmitType, TransmitKeeps, Zenon
  <2> HIDE DEF T
  <2>5. E \in LinkState
    BY <2>4, CountersType, Zenon
  <2>6. /\ SameWindow(T, E) /\ E.txQueue = T.txQueue /\ E.replayDLLP = T.replayDLLP
        /\ E.recvSeqNum = T.recvSeqNum /\ E.ackEvent = T.ackEvent /\ E.packet = T.packet
    BY <2>4, Zenon DEF LinkState, SameWindow
  <2> HIDE DEF E
  <2>7. Consistent(E, A, D)
    <3>1. WindowOK(E, A)
      BY <2>4, <2>5, <2>6, SameWindowOK, Zenon DEF Consistent
    <3> QED BY <2>4, <2>6, <3>1, Zenon DEF Consistent, WireOK, ReceiverOK
  <2> QED BY <1>3, <2>3, <2>4, <2>6, <2>7, Zenon DEF SameWindow
<1> QED BY <1>2, <1>4, <1>5, Zenon

(* txDone after the packet has been handed on. *)
LEMMA AfterTransmissionKeeps ==
  ASSUME NEW L \in LinkState, NEW A \in Seq(Kind), NEW D \in Seq(Kind),
         Consistent(L, A, D), Busy(L)
  PROVE  LET M == AfterTransmission(L)
         IN /\ Consistent(M, A, D)
            /\ Base(M) = Base(L) /\ M.txQueue = L.txQueue
            /\ L.packet # L.replayPacket => M.buffer = L.buffer
<1> DEFINE F == [L EXCEPT !.packet = NoPkt]
           B == SendPendingAck(F)
           C == StoreFirstTransmission(B, L.packet)
<1>1. /\ F \in LinkState /\ SameWindow(L, F) /\ F.txQueue = L.txQueue
      /\ F.replayDLLP = L.replayDLLP /\ F.recvSeqNum = L.recvSeqNum
      /\ F.ackEvent = L.ackEvent /\ F.packet = NoPkt
  BY NoPktType, Zenon DEF LinkState, SameWindow
<1>2. L.packet \in Packet /\ L.packet # NoPkt
  BY Zenon DEF LinkState, Busy
<1>3. AfterTransmission(L) = Replay(C)
  BY Zenon DEF AfterTransmission
<1> HIDE DEF F
<1>4. Consistent(F, A, D)
  <2>1. WindowOK(F, A)
    BY <1>1, SameWindowOK, Zenon DEF Consistent
  <2> QED BY <1>1, <2>1, NoPktGood, Zenon DEF Consistent, WireOK, ReceiverOK
<1>5. B \in LinkState /\ Consistent(B, A, D) /\ SameWindow(L, B) /\ B.txQueue = L.txQueue
  <2>1. CASE F.replayDLLP = NoPkt
    BY <1>1, <1>4, <2>1, Zenon DEF SendPendingAck
  <2>2. CASE F.replayDLLP # NoPkt
    <3> DEFINE p == F.replayDLLP
               T == Transmit(F, p)
               E == [T EXCEPT !.replayDLLP = NoPkt]
    <3>1. p \in Packet
      BY <1>1, Zenon DEF LinkState
    <3>2. GoodTLP(p, A) /\ GoodAck(p, D)
      BY <1>4, Zenon DEF Consistent, WireOK, GoodTLP, IsTLP, Kind
    <3>3. B = E
      BY <2>2, Zenon DEF SendPendingAck
    <3> HIDE DEF p
    <3>4. T \in LinkState /\ Consistent(T, A, D) /\ SameWindow(F, T) /\ T.txQueue = F.txQueue
      BY <1>1, <1>4, <3>1, <3>2, TransmitType, TransmitKeeps, Zenon
    <3> HIDE DEF T
    <3>5. /\ E \in LinkState /\ SameWindow(T, E) /\ E.txQueue = T.txQueue
          /\ E.replayDLLP = NoPkt /\ E.recvSeqNum = T.recvSeqNum
          /\ E.ackEvent = T.ackEvent /\ E.packet = T.packet
      BY <3>4, NoPktType, ZenonT(40) DEF LinkState, SameWindow
    <3> HIDE DEF E
    <3>6. Consistent(E, A, D)
      <4>1. WindowOK(E, A)
        BY <3>4, <3>5, SameWindowOK, Zenon DEF Consistent
      <4>2. NoPkt.kind = "none"
        BY Zenon DEF NoPkt
      <4> QED BY <3>4, <3>5, <4>1, <4>2, NoPktGood, Zenon DEF Consistent, WireOK, ReceiverOK
    <3> QED BY <1>1, <3>3, <3>4, <3>5, <3>6, Zenon DEF SameWindow
  <2> QED BY <2>1, <2>2, Zenon
<1> HIDE DEF B
<1>6. /\ C \in LinkState /\ Consistent(C, A, D)
      /\ Base(C) = Base(B) /\ C.txQueue = B.txQueue
      /\ L.packet # B.replayPacket => C.buffer = B.buffer
  BY <1>2, <1>5, StoreKeeps, Zenon
<1> HIDE DEF C
<1>7. /\ Consistent(Replay(C), A, D) /\ SameWindow(C, Replay(C))
      /\ Replay(C).txQueue = C.txQueue
  BY <1>6, ReplayKeeps, Zenon
<1>8. Base(B) = Base(L) /\ Base(Replay(C)) = Base(C)
  BY <1>5, <1>7, Zenon DEF SameWindow, Base
<1> QED BY <1>3, <1>5, <1>6, <1>7, <1>8, Zenon DEF SameWindow

(* Queueing an Ack once something was received. *)
LEMMA QueueAckKeeps ==
  ASSUME NEW L \in LinkState, NEW A \in Seq(Kind), NEW D \in Seq(Kind),
         Consistent(L, A, D), Len(D) > 0, Len(D) <= IntHalf
  PROVE  /\ Consistent(QueueAck(L), A, D)
         /\ SameWindow(L, QueueAck(L))
         /\ QueueAck(L).txQueue = L.txQueue
<1>1. L.recvSeqNum = Len(D) /\ Len(D) \in Nat
  BY DEF Consistent, ReceiverOK
<1> DEFINE a == Ack(L.recvSeqNum)
<1>2. a \in Packet /\ Dec(L.recvSeqNum) \in Nat
  BY <1>1, AckType, Zenon
<1>3. GoodTLP(a, A) /\ GoodAck(a, D) /\ a.kind = "ack"
  BY <1>1, AckGood, Zenon DEF Ack
<1>4. CASE L.ackEvent # Off
  BY <1>4, Zenon DEF QueueAck, SameWindow
<1>5. CASE L.ackEvent = Off /\ ~Busy(L)
  BY <1>2, <1>3, <1>5, TransmitKeeps, Zenon DEF QueueAck
<1>6. CASE L.ackEvent = Off /\ Busy(L)
  <2> DEFINE E == [L EXCEPT !.replayDLLP = a, !.lastAcked = Dec(L.recvSeqNum),
                            !.ackEvent = AckTime]
  <2>1. QueueAck(L) = E
    BY <1>6, Zenon DEF QueueAck
  <2> HIDE DEF a
  <2>2. /\ E \in LinkState /\ SameWindow(L, E) /\ E.txQueue = L.txQueue
        /\ E.replayDLLP = a /\ E.recvSeqNum = L.recvSeqNum /\ E.packet = L.packet
    BY <1>2, TimesType, Zenon DEF LinkState, SameWindow, Timer
  <2> HIDE DEF E
  <2>3. WindowOK(E, A)
    BY <2>2, SameWindowOK, Zenon DEF Consistent
  <2>4. WireOK(E, A, D) /\ ReceiverOK(E, D)
    BY <1>3, <2>2, Zenon DEF Consistent, WireOK, ReceiverOK
  <2> QED BY <2>1, <2>2, <2>3, <2>4, Zenon DEF Consistent
<1> QED BY <1>4, <1>5, <1>6, Zenon

(* What was good stays good as more is handed in and taken. *)
LEMMA GoodGrows ==
  ASSUME NEW A \in Seq(Kind), NEW D \in Seq(Kind), NEW k \in Kind, NEW p \in Packet
  PROVE  /\ GoodTLP(p, A) => GoodTLP(p, Append(A, k))
         /\ GoodAck(p, D) => GoodAck(p, Append(D, k))
<1>1. /\ Len(Append(A, k)) = Len(A) + 1 /\ Len(A) \in Nat
      /\ \A i \in 1 .. Len(A) : Append(A, k)[i] = A[i]
  OBVIOUS
<1>2. Len(Append(D, k)) = Len(D) + 1 /\ Len(D) \in Nat
  OBVIOUS
<1>3. p.seq \in Nat
  BY Zenon DEF Packet
<1>4. GoodTLP(p, A) => GoodTLP(p, Append(A, k))
  <2> SUFFICES ASSUME IsTLP(p), p.seq < Len(A), p.kind = A[p.seq + 1]
               PROVE  p.seq < Len(Append(A, k)) /\ p.kind = Append(A, k)[p.seq + 1]
    BY Zenon DEF GoodTLP
  <2>1. p.seq + 1 \in 1 .. Len(A)
    BY <1>1, <1>3
  <2> QED BY <1>1, <1>3, <2>1
<1>5. GoodAck(p, D) => GoodAck(p, Append(D, k))
  BY <1>2, <1>3 DEF GoodAck
<1> QED BY <1>4, <1>5, Zenon

(* Packets under way stay good when a TLP is handed in or delivered. *)
LEMMA WireGrows ==
  ASSUME NEW L \in LinkState, NEW A \in Seq(Kind), NEW D \in Seq(Kind), NEW k \in Kind,
         WireOK(L, A, D)
  PROVE  WireOK(L, Append(A, k), D) /\ WireOK(L, A, Append(D, k))
<1>1. L.packet \in Packet /\ L.replayDLLP \in Packet /\ L.txQueue \in Seq(Delayed)
  BY Zenon DEF LinkState
<1>2. \A i \in DOMAIN L.txQueue : L.txQueue[i] \in Delayed
  BY <1>1
<1>3. \A i \in DOMAIN L.txQueue : L.txQueue[i].pkt \in Packet
  BY <1>2, Zenon DEF Delayed
<1> QED BY <1>1, <1>3, GoodGrows, Zenon DEF WireOK

(* linkReceiveInterface for a TLP.  T is what the device has taken afterwards. *)
LEMMA ReceiveTLPKeeps ==
  ASSUME NEW L \in LinkState, NEW p \in Packet, NEW took \in BOOLEAN,
         NEW A \in Seq(Kind), NEW D \in Seq(Kind), Consistent(L, A, D), IsTLP(p),
         Len(D) = 0 => p.seq = 0 /\ took,
         Len(D) <= IntHalf, p.seq = Len(D) => Len(D) < IntHalf
  PROVE  LET M == ReceiveTLP(L, p, took)
             T == IF p.seq = L.recvSeqNum /\ took THEN Append(D, p.kind) ELSE D
         IN Consistent(M, A, T) /\ SameWindow(L, M) /\ M.txQueue = L.txQueue
<1>1. L.recvSeqNum = Len(D) /\ Len(D) \in Nat /\ p.seq \in Nat /\ p.kind \in Kind
  BY DEF Consistent, ReceiverOK, Packet, IsTLP
<1>2. CASE p.seq # L.recvSeqNum
  <2>1. Len(D) > 0
    BY <1>1, <1>2
  <2> QED BY <1>2, <2>1, QueueAckKeeps, Zenon DEF ReceiveTLP
<1>3. CASE p.seq = L.recvSeqNum /\ ~took
  BY <1>3, Zenon DEF ReceiveTLP, SameWindow
<1>4. CASE p.seq = L.recvSeqNum /\ took
  <2> DEFINE T == Append(D, p.kind)
             E == [L EXCEPT !.recvSeqNum = @ + 1]
  <2>1. T \in Seq(Kind) /\ Len(T) = Len(D) + 1
    BY <1>1
  <2>2. Len(T) > 0 /\ Len(T) <= IntHalf
    BY <1>1, <1>4, <2>1, WidthAssumption
  <2>3. E \in LinkState
    BY CountersType, Zenon
  <2>4. /\ SameWindow(L, E) /\ E.txQueue = L.txQueue /\ E.replayDLLP = L.replayDLLP
        /\ E.recvSeqNum = L.recvSeqNum + 1 /\ E.ackEvent = L.ackEvent /\ E.packet = L.packet
    BY Zenon DEF LinkState, SameWindow
  <2>5. ReceiveTLP(L, p, took) = QueueAck(E)
    BY <1>4, Zenon DEF ReceiveTLP
  <2>6. WireOK(L, A, T)
    BY <1>1, WireGrows, Zenon DEF Consistent
  <2> HIDE DEF E, T
  <2>7. WindowOK(E, A)
    BY <2>3, <2>4, SameWindowOK, Zenon DEF Consistent
  <2>8. WireOK(E, A, T)
    BY <2>4, <2>6, Zenon DEF WireOK
  <2>9. ReceiverOK(E, T)
    BY <1>1, <2>1, <2>2, <2>4, Zenon DEF ReceiverOK
  <2>10. /\ Consistent(QueueAck(E), A, T) /\ SameWindow(E, QueueAck(E))
         /\ QueueAck(E).txQueue = E.txQueue
    BY <2>1, <2>2, <2>3, <2>7, <2>8, <2>9, QueueAckKeeps, Zenon DEF Consistent
  <2> QED BY <1>4, <2>4, <2>5, <2>10, Zenon DEF SameWindow, T
<1> QED BY <1>2, <1>3, <1>4, Zenon

(* Dropping d entries of the buffer moves the base of the window by d. *)
LEMMA BaseMoves ==
  ASSUME NEW L \in LinkState, NEW E \in LinkState, NEW d \in Nat,
         E.sendSeqNum = L.sendSeqNum, E.replayPacket = L.replayPacket,
         Len(E.buffer) = Len(L.buffer) - d
  PROVE  Base(E) = Base(L) + d
<1>1. \A s, n, e \in Nat : /\ s - 0 - (n - e) = (s - 0 - n) + e
                          /\ s - 1 - (n - e) = (s - 1 - n) + e
  OBVIOUS
<1>2. L.sendSeqNum \in Nat /\ Len(L.buffer) \in Nat
  BY DEF LinkState
<1>3. CASE L.replayPacket = NoPkt
  <2>1. /\ Base(L) = L.sendSeqNum - 0 - Len(L.buffer)
        /\ Base(E) = L.sendSeqNum - 0 - (Len(L.buffer) - d)
    BY <1>3, Zenon DEF Base
  <2> QED BY <1>1, <1>2, <2>1
<1>4. CASE L.replayPacket # NoPkt
  <2>1. /\ Base(L) = L.sendSeqNum - 1 - Len(L.buffer)
        /\ Base(E) = L.sendSeqNum - 1 - (Len(L.buffer) - d)
    BY <1>4, Zenon DEF Base
  <2> QED BY <1>1, <1>2, <2>1
<1> QED BY <1>3, <1>4, Zenon

(* linkReceiveInterface for an Ack: the window loses its oldest entries, all *)
(* of them TLPs the far device has taken (F).                                *)
LEMMA ReceiveDLLPKeeps ==
  ASSUME NEW L \in LinkState, NEW p \in Packet,
         NEW A \in Seq(Kind), NEW D \in Seq(Kind), NEW F \in Seq(Kind),
         Consistent(L, A, D), p.seq < Len(F), Base(L) <= Len(F)
  PROVE  LET M == ReceiveDLLP(L, p)
         IN /\ Consistent(M, A, D) /\ M.txQueue = L.txQueue
            /\ Base(M) <= Len(F)
            /\ M.buffer # <<>> => L.buffer # <<>>
<1> DEFINE rest == Purge(L.buffer, p.seq)
           E == [L EXCEPT !.buffer = rest,
                          !.timeoutEvent = IF rest = <<>> THEN Off ELSE RetryTime]
           len == Len(L.buffer)
<1>1. /\ L.buffer \in Seq(Packet) /\ len \in Nat /\ DOMAIN L.buffer = 1 .. len
      /\ p.seq \in Nat /\ Len(F) \in Nat /\ Len(A) \in Nat /\ L.sendSeqNum = Len(A)
  BY DEF LinkState, Packet, Consistent, WindowOK
<1>2. /\ Base(L) \in Nat
      /\ L.replayPacket = NoPkt => Base(L) + len = Len(A)
      /\ L.replayPacket # NoPkt => Base(L) + len + 1 = Len(A)
  BY WindowSize, Zenon DEF Consistent
<1>3. rest \in Seq(Packet)
  BY <1>1, PurgeType, Zenon
<1>4. \A i \in 1 .. len : L.buffer[i] = TLP(A[Base(L) + i], Base(L) + i - 1)
  BY <1>1, Zenon DEF Consistent, WindowOK
<1>5. \A i \in 1 .. len : L.buffer[i].seq = Base(L) + i - 1
  <2> TAKE i \in 1 .. len
  <2>1. L.buffer[i] = TLP(A[Base(L) + i], Base(L) + i - 1)
    BY <1>4, Zenon
  <2> QED BY <2>1 DEF TLP
<1> HIDE DEF len
<1>6. PICK d \in 0 .. len :
        /\ Len(rest) = len - d
        /\ DOMAIN rest = 1 .. len - d
        /\ \A i \in 1 .. len - d : rest[i] = L.buffer[d + i]
        /\ Base(L) + d <= Len(F)
  <2>1. CASE rest = <<>> /\ \A i \in DOMAIN L.buffer : L.buffer[i].seq <= p.seq
    <3>1. len > 0 => Base(L) + len - 1 <= p.seq
      <4>1. len > 0 => len \in 1 .. len
        BY <1>1
      <4>2. len > 0 => L.buffer[len].seq = Base(L) + len - 1 /\ L.buffer[len].seq <= p.seq
        BY <1>1, <1>5, <2>1, <4>1, ZenonT(40)
      <4> QED BY <4>2, Zenon
    <3>2. Base(L) + len <= Len(F)
      BY <1>1, <1>2, <3>1
    <3>3. Len(rest) = 0 /\ DOMAIN rest = {}
      BY <2>1
    <3>4. Len(rest) = len - len /\ DOMAIN rest = 1 .. len - len /\ len \in 0 .. len
      BY <1>1, <3>3
    <3> QED BY <1>1, <3>2, <3>4
  <2>2. CASE \E i \in DOMAIN L.buffer :
               /\ rest = SubSeq(L.buffer, i, len)
               /\ \A j \in 1 .. i - 1 : L.buffer[j].seq <= p.seq
    <3>1. PICK i \in 1 .. len : /\ rest = SubSeq(L.buffer, i, len)
                                /\ \A j \in 1 .. i - 1 : L.buffer[j].seq <= p.seq
      BY <1>1, <2>2, ZenonT(40)
    <3>2. /\ Len(rest) = len - (i - 1)
          /\ \A j \in 1 .. len - (i - 1) : rest[j] = L.buffer[(i - 1) + j]
      BY <1>1, <3>1, EndOfSeq
    <3>3. i > 1 => Base(L) + (i - 1) - 1 <= p.seq
      <4>1. i > 1 => i - 1 \in 1 .. len /\ i - 1 \in 1 .. i - 1
        BY <1>1, <3>1
      <4>2. i > 1 => /\ L.buffer[i - 1].seq = Base(L) + (i - 1) - 1
                     /\ L.buffer[i - 1].seq <= p.seq
        BY <1>5, <3>1, <4>1, Zenon
      <4> QED BY <4>2, Zenon
    <3>4. Base(L) + (i - 1) <= Len(F)
      BY <1>1, <1>2, <3>1, <3>3
    <3>5. DOMAIN rest = 1 .. Len(rest)
      BY <1>3
    <3>6. i - 1 \in 0 .. len
      BY <1>1, <3>1
    <3> QED BY <3>2, <3>4, <3>5, <3>6, Zenon
  <2> QED BY <1>1, <2>1, <2>2, PurgeSuffix, Zenon DEF len
<1>d. d \in Nat /\ d <= len /\ Len(rest) = len - d
  BY <1>1, <1>6
<1>7. ReceiveDLLP(L, p) = SendRetries(E)
  BY Zenon DEF ReceiveDLLP
<1>8. /\ E \in LinkState /\ E.buffer = rest /\ E.sendSeqNum = L.sendSeqNum
      /\ E.replayPacket = L.replayPacket /\ E.txQueue = L.txQueue
      /\ E.replayDLLP = L.replayDLLP /\ E.recvSeqNum = L.recvSeqNum
      /\ E.ackEvent = L.ackEvent /\ E.packet = L.packet
  <2> HIDE DEF rest
  <2> QED BY <1>3, TimesType, Zenon DEF LinkState, Timer
<1> HIDE DEF rest, E
<1>9. Base(E) = Base(L) + d
  <2>1. Len(E.buffer) = Len(L.buffer) - d
    BY <1>d, <1>8, Zenon DEF len
  <2> QED BY <1>d, <1>8, <2>1, BaseMoves, Zenon
<1>10. WindowOK(E, A)
  <2>1. ASSUME NEW i \in DOMAIN E.buffer
        PROVE  E.buffer[i] = TLP(A[Base(E) + i], Base(E) + i - 1)
    <3>1. i \in 1 .. len - d /\ d + i \in 1 .. len
      BY <1>1, <1>6, <1>8
    <3>2. E.buffer[i] = TLP(A[Base(L) + (d + i)], Base(L) + (d + i) - 1)
      BY <1>4, <1>6, <1>8, <3>1, Zenon
    <3>3. Base(L) + (d + i) = Base(E) + i /\ Base(L) + (d + i) - 1 = Base(E) + i - 1
      BY <1>1, <1>2, <1>d, <1>9, <3>1
    <3> QED BY <3>2, <3>3, Zenon
  <2>2. Base(E) >= 0
    BY <1>2, <1>6, <1>9
  <2>3. Len(E.buffer) <= len
    BY <1>1, <1>6, <1>8
  <2>4. Len(E.buffer) + (IF E.replayPacket = NoPkt THEN 0 ELSE 1) <= MaxQueueSize
    <3>1. len + (IF L.replayPacket = NoPkt THEN 0 ELSE 1) <= MaxQueueSize
      BY Zenon DEF Consistent, WindowOK, len
    <3>2. Len(E.buffer) \in Nat
      BY <1>3, <1>8
    <3>3. CASE L.replayPacket = NoPkt
      BY <1>1, <1>8, <2>3, <3>1, <3>2, <3>3, SizesAssumption
    <3>4. CASE L.replayPacket # NoPkt
      BY <1>1, <1>8, <2>3, <3>1, <3>2, <3>4, SizesAssumption
    <3> QED BY <3>3, <3>4, Zenon
  <2>5. E.replayPacket # NoPkt => E.replayPacket = TLP(A[Len(A)], Len(A) - 1)
    BY <1>8, Zenon DEF Consistent, WindowOK
  <2> QED BY <1>1, <1>8, <2>1, <2>2, <2>4, <2>5, Zenon DEF WindowOK
<1>11. Consistent(E, A, D)
  BY <1>8, <1>10, Zenon DEF Consistent, WireOK, ReceiverOK
<1>12. /\ Consistent(SendRetries(E), A, D) /\ SameWindow(E, SendRetries(E))
       /\ SendRetries(E).txQueue = E.txQueue
  BY <1>8, <1>11, SendRetriesKeeps, Zenon
<1>13. Base(SendRetries(E)) = Base(E)
  BY <1>12, Zenon DEF SameWindow, Base
<1>14. rest # <<>> => L.buffer # <<>>
  <2>1. ASSUME L.buffer = <<>> PROVE rest = <<>>
    <3>1. len = 0
      BY <2>1 DEF len
    <3>2. Len(rest) = 0
      <4>1. d = 0
        BY <1>d, <3>1
      <4> QED BY <1>d, <3>1, <4>1
    <3> QED BY <1>3, <3>2
  <2> QED BY <2>1, Zenon
<1> QED BY <1>6, <1>7, <1>8, <1>9, <1>12, <1>13, <1>14, Zenon DEF SameWindow

(* A step that leaves the window, the wire and the receiver's count alone. *)
LEMMA SameKeeps ==
  ASSUME NEW L \in LinkState, NEW M \in LinkState, NEW A \in Seq(Kind), NEW D \in Seq(Kind),
         Consistent(L, A, D), SameWindow(L, M), M.txQueue = L.txQueue,
         M.packet = L.packet, M.replayDLLP = L.replayDLLP, M.recvSeqNum = L.recvSeqNum,
         M.ackEvent # Off => Len(D) > 0
  PROVE  Consistent(M, A, D)
<1>1. WindowOK(M, A)
  BY SameWindowOK, Zenon DEF Consistent
<1> QED BY <1>1, Zenon DEF Consistent, WireOK, ReceiverOK

(* linkTransmitInterface refusing a packet: only the retry flags change. *)
LEMMA RefusalKeeps ==
  ASSUME NEW L \in LinkState, NEW k \in Kind, NEW A \in Seq(Kind), NEW D \in Seq(Kind),
         Consistent(L, A, D), Refuses(L)
  PROVE  LET M == TransmitInterface(L, k)
         IN Consistent(M, A, D) /\ SameWindow(L, M) /\ M.txQueue = L.txQueue
<1> DEFINE M == TransmitInterface(L, k)
<1>1. M \in LinkState
  BY TransmitInterfaceType, Zenon
<1>2. /\ SameWindow(L, M) /\ M.txQueue = L.txQueue /\ M.packet = L.packet
      /\ M.replayDLLP = L.replayDLLP /\ M.recvSeqNum = L.recvSeqNum /\ M.ackEvent = L.ackEvent
  BY Zenon DEF TransmitInterface, LinkState, SameWindow
<1> HIDE DEF M
<1>3. Consistent(M, A, D)
  BY <1>1, <1>2, SameKeeps, Zenon DEF Consistent, ReceiverOK
<1> QED BY <1>2, <1>3, Zenon DEF M

(* linkTransmitInterface accepting a packet: the window grows by the TLP in  *)
(* replayPacket, which carries the next sequence number.                     *)
LEMMA AcceptKeeps ==
  ASSUME NEW L \in LinkState, NEW k \in Kind, NEW A \in Seq(Kind), NEW D \in Seq(Kind),
         Consistent(L, A, D), ~Refuses(L)
  PROVE  LET M == TransmitInterface(L, k)
         IN /\ Consistent(M, Append(A, k), D)
            /\ Base(M) = Base(L) /\ M.buffer = L.buffer /\ M.txQueue = L.txQueue
<1> DEFINE p == TLP(k, L.sendSeqNum)
           R == [L EXCEPT !.replayPacket = p]
           T == Transmit(R, p)
           M == [T EXCEPT !.sendSeqNum = @ + 1]
           B == Append(A, k)
           len == Len(L.buffer)
<1>1. TransmitInterface(L, k) = M
  BY Zenon DEF TransmitInterface
<1>2. /\ L.sendSeqNum = Len(A) /\ Len(A) \in Nat /\ L.replayPacket = NoPkt
      /\ L.buffer \in Seq(Packet) /\ len \in Nat /\ DOMAIN L.buffer = 1 .. len
      /\ len + 1 <= MaxQueueSize
  BY SizesAssumption DEF Consistent, WindowOK, Refuses, LinkState
<1>3. /\ B \in Seq(Kind) /\ Len(B) = Len(A) + 1 /\ B[Len(A) + 1] = k
      /\ \A i \in 1 .. Len(A) : B[i] = A[i]
  OBVIOUS
<1>4. p \in Packet /\ p.kind = k /\ p.seq = Len(A) /\ p # NoPkt
  BY <1>2, Zenon DEF TLP, Packet, NoPkt, Kind
<1>5. GoodTLP(p, B) /\ GoodAck(p, D)
  BY <1>2, <1>3, <1>4 DEF GoodTLP, GoodAck, IsTLP
<1> HIDE DEF p
<1>6. /\ R \in LinkState /\ R.replayPacket = p /\ R.buffer = L.buffer
      /\ R.sendSeqNum = L.sendSeqNum /\ R.txQueue = L.txQueue /\ R.packet = L.packet
      /\ R.replayDLLP = L.replayDLLP /\ R.recvSeqNum = L.recvSeqNum /\ R.ackEvent = L.ackEvent
  BY <1>4, Zenon DEF LinkState
<1> HIDE DEF R
<1>7. /\ T \in LinkState /\ T.replayPacket = p /\ T.buffer = L.buffer
      /\ T.sendSeqNum = L.sendSeqNum /\ T.txQueue = L.txQueue
      /\ T.packet = L.packet \/ T.packet = p
      /\ T.replayDLLP = L.replayDLLP /\ T.recvSeqNum = L.recvSeqNum /\ T.ackEvent = L.ackEvent
  <2>1. T \in LinkState
    BY <1>4, <1>6, TransmitType, Zenon
  <2> QED BY <1>6, <2>1, Zenon DEF Transmit, LinkState
<1> HIDE DEF T
<1>8. /\ M \in LinkState /\ M.replayPacket = p /\ M.buffer = L.buffer
      /\ M.sendSeqNum = Len(A) + 1 /\ M.txQueue = L.txQueue
      /\ M.packet = L.packet \/ M.packet = p
      /\ M.replayDLLP = L.replayDLLP /\ M.recvSeqNum = L.recvSeqNum /\ M.ackEvent = L.ackEvent
  <2>1. M \in LinkState
    BY <1>7, CountersType, Zenon
  <2> QED BY <1>2, <1>7, <2>1, Zenon DEF LinkState
<1> HIDE DEF M, B, len
<1>9. Base(L) \in Nat /\ Base(L) + len = Len(A)
  BY <1>2, WindowSize, Zenon DEF Consistent, len
<1>10. Base(M) = Base(L)
  <2>1. Base(M) = (Len(A) + 1) - 1 - len
    BY <1>4, <1>8, Zenon DEF Base, len
  <2> QED BY <1>2, <1>9, <2>1
<1>11. WindowOK(M, B)
  <2>1. ASSUME NEW i \in DOMAIN M.buffer
        PROVE  M.buffer[i] = TLP(B[Base(M) + i], Base(M) + i - 1)
    <3>1. L.buffer[i] = TLP(A[Base(L) + i], Base(L) + i - 1)
      BY <1>8, Zenon DEF Consistent, WindowOK
    <3>2. i \in 1 .. len
      BY <1>2, <1>8, Zenon
    <3>3. Base(L) + i \in 1 .. Len(A)
      BY <1>2, <1>9, <3>2
    <3> QED BY <1>3, <1>8, <1>10, <3>1, <3>3, Zenon
  <2>2. Len(M.buffer) + (IF M.replayPacket = NoPkt THEN 0 ELSE 1) <= MaxQueueSize
    BY <1>2, <1>4, <1>8, Zenon DEF len
  <2>3. M.replayPacket = TLP(B[Len(B)], Len(B) - 1)
    <3>1. Len(B) - 1 = Len(A) /\ B[Len(B)] = k
      BY <1>2, <1>3
    <3> QED BY <1>2, <1>8, <3>1, Zenon DEF p
  <2>4. Base(M) >= 0 /\ M.sendSeqNum = Len(B)
    BY <1>3, <1>8, <1>9, <1>10
  <2> QED BY <2>1, <2>2, <2>3, <2>4, ZenonT(40) DEF WindowOK
<1>12. WireOK(M, B, D)
  <2>1. WireOK(L, B, D)
    BY WireGrows, Zenon DEF Consistent, B
  <2> QED BY <1>5, <1>8, <2>1, Zenon DEF WireOK
<1>13. ReceiverOK(M, D)
  BY <1>8, Zenon DEF Consistent, ReceiverOK
<1> QED BY <1>1, <1>8, <1>10, <1>11, <1>12, <1>13, Zenon DEF Consistent, B

(* timeoutFunc starts a replay with an entry of the buffer. *)
LEMMA TimeoutKeeps ==
  ASSUME NEW L \in LinkState, NEW A \in Seq(Kind), NEW D \in Seq(Kind), Consistent(L, A, D)
  PROVE  LET M == TimeoutFunc([L EXCEPT !.timeoutEvent = Off])
         IN Consistent(M, A, D) /\ SameWindow(L, M) /\ M.txQueue = L.txQueue
<1> DEFINE E == [L EXCEPT !.timeoutEvent = Off]
<1>1. /\ E \in LinkState /\ SameWindow(L, E) /\ E.txQueue = L.txQueue /\ E.packet = L.packet
      /\ E.replayDLLP = L.replayDLLP /\ E.recvSeqNum = L.recvSeqNum /\ E.ackEvent = L.ackEvent
  BY Zenon DEF LinkState, SameWindow, Timer
<1> HIDE DEF E
<1>2. Consistent(E, A, D)
  BY <1>1, SameKeeps, Zenon DEF Consistent, ReceiverOK
<1>3. CASE E.buffer = <<>> \/ E.retransmit
  BY <1>1, <1>2, <1>3, Zenon DEF TimeoutFunc, E
<1>4. CASE ~(E.buffer = <<>> \/ E.retransmit)
  <2> DEFINE p == E.buffer[1]
             T == Transmit(E, p)
             M == [T EXCEPT !.retransmit = TRUE, !.retransmitIdx = IF Busy(E) THEN 0 ELSE 1]
  <2>1. 1 \in DOMAIN E.buffer
    <3>1. E.buffer \in Seq(Packet) /\ E.buffer # <<>>
      BY <1>1, <1>4, Zenon DEF LinkState
    <3> QED BY <3>1
  <2>2. p \in Packet /\ GoodTLP(p, A) /\ GoodAck(p, D)
    BY <1>1, <1>2, <2>1, BufferGood, Zenon DEF Consistent
  <2>3. TimeoutFunc(E) = M
    BY <1>4, Zenon DEF TimeoutFunc
  <2> HIDE DEF p
  <2>4. /\ T \in LinkState /\ Consistent(T, A, D) /\ SameWindow(E, T)
        /\ T.txQueue = E.txQueue
    BY <1>1, <1>2, <2>2, TransmitType, TransmitKeeps, Zenon
  <2> HIDE DEF T
  <2>5. /\ M \in LinkState /\ SameWindow(T, M) /\ M.txQueue = T.txQueue /\ M.packet = T.packet
        /\ M.replayDLLP = T.replayDLLP /\ M.recvSeqNum = T.recvSeqNum
        /\ M.ackEvent = T.ackEvent
    BY <2>4, Zenon DEF LinkState, SameWindow
  <2> HIDE DEF M
  <2>6. Consistent(M, A, D)
    BY <2>4, <2>5, SameKeeps, Zenon DEF Consistent, ReceiverOK
  <2> QED BY <1>1, <2>3, <2>4, <2>5, <2>6, Zenon DEF SameWindow, E
<1> QED BY <1>3, <1>4, Zenon

(* sendAck acknowledges what was received; its timer ran, so that is something. *)
LEMMA SendAckKeeps ==
  ASSUME NEW L \in LinkState, NEW A \in Seq(Kind), NEW D \in Seq(Kind), Consistent(L, A, D),
         Len(D) > 0, Len(D) <= IntHalf
  PROVE  LET M == SendAck([L EXCEPT !.ackEvent = Off])
         IN Consistent(M, A, D) /\ SameWindow(L, M) /\ M.txQueue = L.txQueue
<1> DEFINE E == [L EXCEPT !.ackEvent = Off]
           a == Ack(E.recvSeqNum)
           S == [E EXCEPT !.lastAcked = Dec(E.recvSeqNum), !.ackEvent = AckTime]
<1>1. /\ E \in LinkState /\ SameWindow(L, E) /\ E.txQueue = L.txQueue /\ E.packet = L.packet
      /\ E.replayDLLP = L.replayDLLP /\ E.recvSeqNum = L.recvSeqNum
  BY Zenon DEF LinkState, SameWindow, Timer
<1> HIDE DEF E
<1>2. Consistent(E, A, D)
  BY <1>1, SameKeeps, Zenon
<1>3. E.recvSeqNum = Len(D) /\ Len(D) \in Nat
  BY <1>2 DEF Consistent, ReceiverOK
<1>4. a \in Packet /\ Dec(E.recvSeqNum) \in Nat
  BY <1>3, AckType, Zenon
<1>5. GoodTLP(a, A) /\ GoodAck(a, D) /\ a.kind = "ack"
  BY <1>3, AckGood, Zenon DEF Ack
<1>6. CASE E.lastAcked = Dec(E.recvSeqNum)
  BY <1>1, <1>2, <1>6, Zenon DEF SendAck, E
<1>7. CASE E.lastAcked # Dec(E.recvSeqNum)
  <2>1. SendAck(E) = IF Busy(S) THEN [S EXCEPT !.replayDLLP = a] ELSE Transmit(S, a)
    BY <1>7, Zenon DEF SendAck
  <2> HIDE DEF a
  <2>2. /\ S \in LinkState /\ SameWindow(E, S) /\ S.txQueue = E.txQueue /\ S.packet = E.packet
        /\ S.replayDLLP = E.replayDLLP /\ S.recvSeqNum = E.recvSeqNum
    BY <1>1, <1>4, TimesType, Zenon DEF LinkState, SameWindow, Timer
  <2> HIDE DEF S
  <2>3. Consistent(S, A, D)
    BY <1>1, <1>2, <2>2, SameKeeps, Zenon
  <2>4. CASE Busy(S)
    <3> DEFINE Q == [S EXCEPT !.replayDLLP = a]
    <3>1. /\ Q \in LinkState /\ SameWindow(S, Q) /\ Q.txQueue = S.txQueue
          /\ Q.packet = S.packet /\ Q.replayDLLP = a /\ Q.recvSeqNum = S.recvSeqNum
      BY <1>4, <2>2, Zenon DEF LinkState, SameWindow
    <3> HIDE DEF Q
    <3>2. WindowOK(Q, A)
      BY <2>2, <2>3, <3>1, SameWindowOK, Zenon DEF Consistent
    <3>3. WireOK(Q, A, D) /\ ReceiverOK(Q, D)
      BY <1>5, <2>3, <3>1, Zenon DEF Consistent, WireOK, ReceiverOK
    <3>4. SendAck(E) = Q
      BY <2>1, <2>4, Zenon DEF Q
    <3> QED BY <1>1, <2>2, <3>1, <3>2, <3>3, <3>4, Zenon DEF Consistent, SameWindow, E
  <2>5. CASE ~Busy(S)
    <3>1. /\ Consistent(Transmit(S, a), A, D) /\ SameWindow(S, Transmit(S, a))
          /\ Transmit(S, a).txQueue = S.txQueue
      BY <1>4, <1>5, <2>2, <2>3, TransmitKeeps, Zenon
    <3>2. SendAck(E) = Transmit(S, a)
      BY <2>1, <2>5, Zenon
    <3> QED BY <1>1, <2>2, <3>1, <3>2, Zenon DEF SameWindow, E
  <2> QED BY <2>4, <2>5, Zenon
<1> QED BY <1>6, <1>7, Zenon

(* txDone with a propagation delay: the packet joins the delay queue. *)
LEMMA PropagateKeeps ==
  ASSUME NEW L \in LinkState, NEW A \in Seq(Kind), NEW D \in Seq(Kind), Consistent(L, A, D),
         Busy(L)
  PROVE  LET M == Propagate(L, L.packet)
         IN /\ Consistent(M, A, D) /\ SameWindow(L, M) /\ M.packet = L.packet
            /\ Len(M.txQueue) = Len(L.txQueue) + 1
            /\ \A i \in 1 .. Len(L.txQueue) : M.txQueue[i] = L.txQueue[i]
            /\ M.txQueue[Len(L.txQueue) + 1].pkt = L.packet
<1> DEFINE d == [due |-> LinkDelay, pkt |-> L.packet]
           Q == Append(L.txQueue, d)
           M == Propagate(L, L.packet)
<1>1. M \in LinkState
  BY PropagateType, Zenon
<1>2. L.txQueue \in Seq(Delayed) /\ Len(L.txQueue) \in Nat /\ L.packet # NoPkt
  BY DEF LinkState, Busy
<1>3. /\ SameWindow(L, M) /\ M.txQueue = Q /\ M.packet = L.packet
      /\ M.replayDLLP = L.replayDLLP /\ M.recvSeqNum = L.recvSeqNum /\ M.ackEvent = L.ackEvent
  BY Zenon DEF Propagate, LinkState, SameWindow
<1>4. d.pkt = L.packet /\ d \in Delayed
  BY TimesAssumption, Zenon DEF LinkState, Delayed
<1> HIDE DEF d, M
<1>5. /\ Len(Q) = Len(L.txQueue) + 1 /\ DOMAIN Q = 1 .. Len(L.txQueue) + 1
      /\ \A i \in 1 .. Len(L.txQueue) : Q[i] = L.txQueue[i]
      /\ Q[Len(L.txQueue) + 1] = d
  BY <1>2, <1>4
<1> HIDE DEF Q
<1>6. WindowOK(M, A)
  BY <1>1, <1>3, SameWindowOK, Zenon DEF Consistent
<1>7. ASSUME NEW i \in DOMAIN M.txQueue
      PROVE  /\ M.txQueue[i].pkt # NoPkt
             /\ GoodTLP(M.txQueue[i].pkt, A) /\ GoodAck(M.txQueue[i].pkt, D)
  <2>1. CASE i = Len(L.txQueue) + 1
    BY <1>2, <1>3, <1>4, <1>5, <2>1, ZenonT(40) DEF Consistent, WireOK
  <2>2. CASE i # Len(L.txQueue) + 1
    <3>1. i \in 1 .. Len(L.txQueue)
      BY <1>2, <1>3, <1>5, <2>2
    <3>2. i \in DOMAIN L.txQueue
      BY <1>2, <3>1
    <3> QED BY <1>3, <1>5, <3>1, <3>2, Zenon DEF Consistent, WireOK
  <2> QED BY <2>1, <2>2, Zenon
<1>8. WireOK(M, A, D) /\ ReceiverOK(M, D)
  BY <1>3, <1>7, Zenon DEF Consistent, WireOK, ReceiverOK
<1> QED BY <1>3, <1>4, <1>5, <1>6, <1>8, ZenonT(40) DEF Consistent, M

(* processTxQueue takes the oldest packet off the delay queue. *)
LEMMA DequeueKeeps ==
  ASSUME NEW L \in LinkState, NEW A \in Seq(Kind), NEW D \in Seq(Kind), Consistent(L, A, D),
         L.txQueue # <<>>
  PROVE  LET M == [L EXCEPT !.txQueue = Tail(L.txQueue)]
         IN /\ Consistent(M, A, D) /\ SameWindow(L, M)
            /\ Len(M.txQueue) = Len(L.txQueue) - 1
            /\ \A i \in 1 .. Len(L.txQueue) - 1 : M.txQueue[i] = L.txQueue[i + 1]
<1> DEFINE Q == Tail(L.txQueue)
           M == [L EXCEPT !.txQueue = Q]
<1>1. /\ L.txQueue \in Seq(Delayed) /\ Len(L.txQueue) \in Nat /\ Len(L.txQueue) > 0
      /\ DOMAIN L.txQueue = 1 .. Len(L.txQueue)
  BY DEF LinkState
<1>2. /\ Q \in Seq(Delayed) /\ Len(Q) = Len(L.txQueue) - 1
      /\ DOMAIN Q = 1 .. Len(L.txQueue) - 1
      /\ \A i \in 1 .. Len(L.txQueue) - 1 : Q[i] = L.txQueue[i + 1]
  BY <1>1
<1> HIDE DEF Q
<1>3. /\ M \in LinkState /\ SameWindow(L, M) /\ M.txQueue = Q /\ M.packet = L.packet
      /\ M.replayDLLP = L.replayDLLP /\ M.recvSeqNum = L.recvSeqNum /\ M.ackEvent = L.ackEvent
  BY <1>2, Zenon DEF LinkState, SameWindow
<1> HIDE DEF M
<1>4. WindowOK(M, A)
  BY <1>3, SameWindowOK, Zenon DEF Consistent
<1>5. ASSUME NEW i \in DOMAIN M.txQueue
      PROVE  /\ M.txQueue[i].pkt # NoPkt
             /\ GoodTLP(M.txQueue[i].pkt, A) /\ GoodAck(M.txQueue[i].pkt, D)
  <2>1. i + 1 \in DOMAIN L.txQueue /\ M.txQueue[i] = L.txQueue[i + 1]
    BY <1>1, <1>2, <1>3
  <2> QED BY <2>1, Zenon DEF Consistent, WireOK
<1>6. WireOK(M, A, D) /\ ReceiverOK(M, D)
  BY <1>3, <1>5, Zenon DEF Consistent, WireOK, ReceiverOK
<1> QED BY <1>2, <1>3, <1>4, <1>6, Zenon DEF Consistent, M, Q

(* The passing of time changes no packet. *)
LEMMA ElapseKeeps ==
  ASSUME NEW L \in LinkState, NEW A \in Seq(Kind), NEW D \in Seq(Kind), Consistent(L, A, D)
  PROVE  LET M == Elapse(L)
         IN /\ Consistent(M, A, D) /\ SameWindow(L, M)
            /\ DOMAIN M.txQueue = DOMAIN L.txQueue
            /\ \A i \in DOMAIN L.txQueue : M.txQueue[i].pkt = L.txQueue[i].pkt
            /\ L.txQueue = <<>> => M.txQueue = <<>>
<1> DEFINE Q == [i \in DOMAIN L.txQueue |->
                   [due |-> CountDown(L.txQueue[i].due), pkt |-> L.txQueue[i].pkt]]
           M == Elapse(L)
<1>1. M \in LinkState
  BY ElapseType, Zenon
<1>2. /\ SameWindow(L, M) /\ M.txQueue = Q /\ M.packet = L.packet
      /\ M.replayDLLP = L.replayDLLP /\ M.recvSeqNum = L.recvSeqNum
      /\ M.ackEvent = CountDown(L.ackEvent)
  BY Zenon DEF Elapse, LinkState, SameWindow
<1>3. DOMAIN Q = DOMAIN L.txQueue /\ \A i \in DOMAIN L.txQueue : Q[i].pkt = L.txQueue[i].pkt
  BY Zenon
<1> HIDE DEF M, Q
<1>4. L.txQueue = <<>> => M.txQueue = <<>>
  <2>1. M.txQueue \in Seq(Delayed)
    BY <1>1, Zenon DEF LinkState
  <2>2. L.txQueue = <<>> => DOMAIN M.txQueue = {}
    BY <1>2, <1>3
  <2>3. Len(M.txQueue) \in Nat /\ DOMAIN M.txQueue = 1 .. Len(M.txQueue)
    BY <2>1
  <2>4. L.txQueue = <<>> => Len(M.txQueue) = 0
    <3>1. Len(M.txQueue) # 0 => 1 \in DOMAIN M.txQueue
      BY <2>3
    <3> QED BY <2>2, <3>1, Zenon
  <2> QED BY <2>1, <2>4
<1>5. CountDown(Off) = Off
  BY DEF CountDown, Off
<1>6. WindowOK(M, A)
  BY <1>1, <1>2, SameWindowOK, Zenon DEF Consistent
<1>7. WireOK(M, A, D) /\ ReceiverOK(M, D)
  BY <1>2, <1>3, <1>5, Zenon DEF Consistent, WireOK, ReceiverOK
<1> QED BY <1>2, <1>3, <1>4, <1>6, <1>7, Zenon DEF Consistent, M

-----------------------------------------------------------------------------
(* The two ends together. *)

(* While nothing was taken and the buffer is empty, a TLP on the wire is the first. *)
LEMMA FirstOnly ==
  ASSUME NEW L \in LinkState, NEW A \in Seq(Kind), NEW D \in Seq(Kind), NEW p \in Packet,
         WindowOK(L, A), DirectionOK(L, A, D), Len(D) = 0, L.buffer = <<>>,
         IsTLP(p), GoodTLP(p, A)
  PROVE  IsFirst(p)
<1>1. Len(L.buffer) = 0 /\ Base(L) <= 0 /\ Len(A) \in Nat /\ p.seq \in Nat /\ p.seq < Len(A)
  BY DEF DirectionOK, GoodTLP, Packet
<1>2. Base(L) \in Nat /\ (Base(L) + 0 = Len(A) \/ Base(L) + 0 + 1 = Len(A))
  BY <1>1, WindowSize, Zenon
<1>3. p.seq = 0
  BY <1>1, <1>2
<1> QED BY <1>3, Zenon DEF IsFirst

(* DirectionOK looks at the window's base, the buffer's emptiness and txQueue. *)
LEMMA DirectionSame ==
  ASSUME NEW L \in LinkState, NEW M \in LinkState, NEW A \in Seq(Kind), NEW D \in Seq(Kind),
         DirectionOK(L, A, D), Base(M) <= Len(D), M.txQueue = L.txQueue,
         M.buffer # <<>> => L.buffer # <<>>
  PROVE  DirectionOK(M, A, D)
BY Zenon DEF DirectionOK

(* What the far device has taken after being offered p. *)
Taken(D, p, took) == IF IsTLP(p) /\ p.seq = Len(D) /\ took THEN Append(D, p.kind) ELSE D

(* It stays a prefix of what was handed in. *)
LEMMA TakenPrefix ==
  ASSUME NEW A \in Seq(Kind), NEW D \in Seq(Kind), NEW p \in Packet, NEW took \in BOOLEAN,
         GoodTLP(p, A), Len(D) <= Len(A), \A n \in DOMAIN D : D[n] = A[n]
  PROVE  LET T == Taken(D, p, took)
         IN /\ T \in Seq(Kind) /\ Len(D) <= Len(T) /\ Len(T) <= Len(A)
            /\ \A n \in DOMAIN T : T[n] = A[n]
            /\ T # D => Len(T) = Len(D) + 1
<1>1. Len(D) \in Nat /\ Len(A) \in Nat /\ p.seq \in Nat /\ DOMAIN D = 1 .. Len(D)
  BY DEF Packet
<1>2. CASE IsTLP(p) /\ p.seq = Len(D) /\ took
  <2> DEFINE T == Append(D, p.kind)
  <2>1. Taken(D, p, took) = T /\ p.kind \in Kind /\ p.kind = A[Len(D) + 1] /\ Len(D) < Len(A)
    BY <1>2, Zenon DEF Taken, IsTLP, GoodTLP
  <2>2. /\ T \in Seq(Kind) /\ Len(T) = Len(D) + 1 /\ DOMAIN T = 1 .. Len(D) + 1
        /\ T[Len(D) + 1] = p.kind /\ \A n \in 1 .. Len(D) : T[n] = D[n]
    BY <2>1
  <2> HIDE DEF T
  <2>3. ASSUME NEW n \in DOMAIN T PROVE T[n] = A[n]
    <3>1. n = Len(D) + 1 \/ n \in 1 .. Len(D)
      BY <1>1, <2>2
    <3> QED BY <1>1, <2>1, <2>2, <3>1, Zenon
  <2>4. Len(D) <= Len(T) /\ Len(T) <= Len(A)
    BY <1>1, <2>1, <2>2
  <2> QED BY <2>1, <2>2, <2>3, <2>4, Zenon
<1>3. CASE ~(IsTLP(p) /\ p.seq = Len(D) /\ took)
  <2>1. Taken(D, p, took) = D
    BY <1>3, Zenon DEF Taken
  <2> QED BY <1>1, <2>1
<1> QED BY <1>2, <1>3, Zenon

(* The receiving end: M is fed by its devices with A, and these took D from  *)
(* the wire; F is what the far devices took of A.                            *)
LEMMA ReceiveKeeps ==
  ASSUME NEW M \in LinkState, NEW p \in Packet, NEW took \in BOOLEAN,
         NEW A \in Seq(Kind), NEW D \in Seq(Kind), NEW F \in Seq(Kind),
         Consistent(M, A, D), DirectionOK(M, A, F), p # NoPkt, GoodAck(p, F),
         IsTLP(p) /\ Len(D) = 0 => p.seq = 0 /\ took,
         Len(D) <= IntHalf, IsTLP(p) /\ p.seq = Len(D) => Len(D) < IntHalf
  PROVE  LET R == LinkReceiveInterface(M, p, took)
         IN Consistent(R, A, Taken(D, p, took)) /\ DirectionOK(R, A, F)
<1> DEFINE R == LinkReceiveInterface(M, p, took)
<1>1. R \in LinkState
  BY LinkReceiveInterfaceType, Zenon
<1>2. M.recvSeqNum = Len(D) /\ Base(M) <= Len(F)
  BY Zenon DEF Consistent, ReceiverOK, DirectionOK
<1>3. CASE IsTLP(p)
  <2>1. R = ReceiveTLP(M, p, took)
    BY <1>3, Zenon DEF LinkReceiveInterface
  <2> HIDE DEF R
  <2>2. Consistent(R, A, Taken(D, p, took)) /\ SameWindow(M, R) /\ R.txQueue = M.txQueue
    BY <1>2, <1>3, <2>1, ReceiveTLPKeeps, Zenon DEF Taken
  <2>3. Base(R) = Base(M)
    BY <2>2, Zenon DEF SameWindow, Base
  <2>4. DirectionOK(R, A, F)
    BY <1>1, <1>2, <2>2, <2>3, DirectionSame, Zenon DEF SameWindow
  <2> QED BY <2>2, <2>4, Zenon DEF R
<1>4. CASE ~IsTLP(p)
  <2>1. R = ReceiveDLLP(M, p) /\ Taken(D, p, took) = D /\ p.seq < Len(F)
    BY <1>4, Zenon DEF LinkReceiveInterface, Taken, GoodAck
  <2> HIDE DEF R
  <2>2. /\ Consistent(R, A, D) /\ R.txQueue = M.txQueue /\ Base(R) <= Len(F)
        /\ R.buffer # <<>> => M.buffer # <<>>
    BY <1>2, <2>1, ReceiveDLLPKeeps, Zenon
  <2>3. DirectionOK(R, A, F)
    BY <1>1, <2>2, DirectionSame, Zenon
  <2> QED BY <2>1, <2>2, <2>3, Zenon DEF R
<1> QED BY <1>3, <1>4, Zenon

(* The sending end with no propagation delay: txDone clears the wire and     *)
(* stores a first transmission, while the far device answers.                *)
LEMMA SendKeeps ==
  ASSUME NEW L \in LinkState, NEW took \in BOOLEAN,
         NEW A \in Seq(Kind), NEW D \in Seq(Kind), NEW F \in Seq(Kind),
         Consistent(L, A, D), DirectionOK(L, A, F), Busy(L), LinkDelay = 0,
         IsTLP(L.packet) /\ L.packet.seq = Len(F) /\ Len(F) = 0 => took
  PROVE  LET M == AfterTransmission(L)
             T == Taken(F, L.packet, took)
         IN /\ Consistent(M, A, D) /\ DirectionOK(M, A, T)
            /\ IsTLP(L.packet) /\ Len(F) = 0 => L.packet.seq = 0 /\ took
<1> DEFINE M == AfterTransmission(L)
           p == L.packet
           T == Taken(F, p, took)
<1>1. M \in LinkState /\ p \in Packet
  BY AfterTransmissionType, Zenon DEF LinkState
<1>2. /\ Consistent(M, A, D) /\ Base(M) = Base(L) /\ M.txQueue = L.txQueue
      /\ p # L.replayPacket => M.buffer = L.buffer
  BY AfterTransmissionKeeps, Zenon
<1> HIDE DEF M, p
<1>3. GoodTLP(p, A) /\ WindowOK(L, A)
  BY Zenon DEF Consistent, WireOK, p
<1>4. /\ L.txQueue = <<>> /\ Len(F) <= Len(A) /\ \A n \in DOMAIN F : F[n] = A[n]
      /\ Base(L) <= Len(F)
  BY Zenon DEF DirectionOK
<1>5. IsTLP(p) /\ Len(F) = 0 => p.seq = 0 /\ took
  <2> SUFFICES ASSUME IsTLP(p), Len(F) = 0
               PROVE  p.seq = 0 /\ took
    BY Zenon
  <2>1. L.buffer = <<>>
    BY <1>4 DEF DirectionOK
  <2>2. p.seq = 0
    BY <1>1, <1>3, <2>1, FirstOnly, ZenonT(40) DEF IsFirst
  <2> QED BY <2>2, Zenon DEF p
<1>6. /\ T \in Seq(Kind) /\ Len(F) <= Len(T) /\ Len(T) <= Len(A)
      /\ \A n \in DOMAIN T : T[n] = A[n]
      /\ T # F => Len(T) = Len(F) + 1
  BY <1>1, <1>3, <1>4, TakenPrefix
<1>7. Base(M) <= Len(T)
  <2>1. Base(L) \in Nat /\ Len(F) \in Nat /\ Len(T) \in Nat
    BY <1>3, <1>6, WindowSize
  <2> QED BY <1>2, <1>4, <1>6, <2>1
<1>8. Len(T) = 0 => M.buffer = <<>>
  <2> SUFFICES ASSUME Len(T) = 0
               PROVE  M.buffer = <<>>
    BY Zenon
  <2>1. Len(F) = 0 /\ T = F
    <3>1. Len(F) \in Nat
      OBVIOUS
    <3> QED BY <1>6, <3>1
  <2>2. ~IsTLP(p)
    <3>1. ASSUME IsTLP(p) PROVE FALSE
      <4>1. T = Append(F, p.kind)
        BY <1>5, <2>1, <3>1, Zenon DEF Taken
      <4>2. p.kind \in Kind
        BY <3>1, Zenon DEF IsTLP
      <4> QED BY <2>1, <4>1, <4>2
    <3> QED BY <3>1, Zenon
  <2>3. p # L.replayPacket
    <3>1. p # NoPkt
      BY Zenon DEF Busy, p
    <3> QED BY <1>3, <2>2, <3>1, ReplayPacketGood, Zenon
  <2>4. L.buffer = <<>>
    BY <1>4, <2>1 DEF DirectionOK
  <2> QED BY <1>2, <2>3, <2>4, Zenon
<1> HIDE DEF T
<1>9. DirectionOK(M, A, T)
  <2>1. M.txQueue = <<>> /\ DOMAIN M.txQueue = {}
    BY <1>2, <1>4
  <2> QED BY <1>6, <1>7, <1>8, <2>1, Zenon DEF DirectionOK
<1> QED BY <1>2, <1>5, <1>9, Zenon DEF M, p, T

(* The sending end with a propagation delay: the packet is queued behind the *)
(* first TLP, or is the first TLP.                                           *)
LEMMA DelayKeeps ==
  ASSUME NEW L \in LinkState, NEW A \in Seq(Kind), NEW D \in Seq(Kind), NEW F \in Seq(Kind),
         Consistent(L, A, D), DirectionOK(L, A, F), Busy(L), LinkDelay > 0
  PROVE  LET M == AfterTransmission(Propagate(L, L.packet))
         IN Consistent(M, A, D) /\ DirectionOK(M, A, F)
<1> DEFINE p == L.packet
           E == Propagate(L, p)
           M == AfterTransmission(E)
           n == Len(L.txQueue)
<1>1. E \in LinkState /\ M \in LinkState /\ p \in Packet
  BY PropagateType, AfterTransmissionType, Zenon DEF LinkState
<1>2. /\ Consistent(E, A, D) /\ SameWindow(L, E) /\ E.packet = p
      /\ Len(E.txQueue) = n + 1 /\ \A i \in 1 .. n : E.txQueue[i] = L.txQueue[i]
      /\ E.txQueue[n + 1].pkt = p
  BY PropagateKeeps, Zenon
<1>3. /\ n \in Nat /\ DOMAIN L.txQueue = 1 .. n
      /\ E.txQueue \in Seq(Delayed) /\ DOMAIN E.txQueue = 1 .. n + 1
  <2>1. L.txQueue \in Seq(Delayed) /\ E.txQueue \in Seq(Delayed)
    BY <1>1, Zenon DEF LinkState
  <2>2. n \in Nat /\ DOMAIN L.txQueue = 1 .. n /\ DOMAIN E.txQueue = 1 .. Len(E.txQueue)
    BY <2>1
  <2> QED BY <1>2, <2>1, <2>2, Zenon
<1> HIDE DEF E
<1>4. Busy(E)
  BY <1>2, Zenon DEF Busy
<1>5. /\ Consistent(M, A, D) /\ Base(M) = Base(E) /\ M.txQueue = E.txQueue
      /\ E.packet # E.replayPacket => M.buffer = E.buffer
  BY <1>1, <1>2, <1>4, AfterTransmissionKeeps, Zenon
<1> HIDE DEF M, p, n
<1>6. GoodTLP(p, A) /\ WindowOK(L, A) /\ p # NoPkt
  BY Zenon DEF Consistent, WireOK, Busy, p
<1>7. ASSUME Len(F) = 0, L.buffer # <<>>
      PROVE  \E j \in 1 .. n : IsFirst(M.txQueue[j].pkt)
  BY <1>2, <1>3, <1>5, <1>7 DEF DirectionOK
<1>8. ASSUME Len(F) = 0, L.buffer = <<>>, IsTLP(p)
      PROVE  IsFirst(M.txQueue[n + 1].pkt)
  <2>1. IsFirst(p)
    BY <1>1, <1>6, <1>8, FirstOnly, Zenon
  <2> QED BY <1>2, <1>5, <2>1, Zenon
<1>9. \A j \in 1 .. n : j \in 1 .. n + 1
  BY <1>3
<1>10. n + 1 \in 1 .. n + 1
  BY <1>3
<1>11. Len(F) = 0 /\ M.buffer # <<>> => \E j \in DOMAIN M.txQueue : IsFirst(M.txQueue[j].pkt)
  <2> SUFFICES ASSUME Len(F) = 0, M.buffer # <<>>, L.buffer = <<>>
               PROVE  \E j \in DOMAIN M.txQueue : IsFirst(M.txQueue[j].pkt)
    BY <1>3, <1>5, <1>7, <1>9, Zenon
  <2>1. p = L.replayPacket
    BY <1>2, <1>5, Zenon DEF SameWindow
  <2>2. IsTLP(p)
    BY <1>6, <2>1, ReplayPacketGood, Zenon
  <2> QED BY <1>3, <1>5, <1>8, <1>10, <2>2, Zenon
<1>12. ASSUME Len(F) = 0, NEW i \in DOMAIN M.txQueue, IsTLP(M.txQueue[i].pkt)
       PROVE  \E j \in 1 .. i : IsFirst(M.txQueue[j].pkt)
  <2>1. CASE i = n + 1
    <3>1. IsTLP(p)
      BY <1>2, <1>5, <1>12, <2>1, Zenon
    <3>2. CASE L.buffer = <<>>
      BY <1>8, <1>10, <1>12, <2>1, <3>1, <3>2, Zenon
    <3>3. CASE L.buffer # <<>>
      BY <1>7, <1>9, <1>12, <2>1, <3>3, Zenon
    <3> QED BY <3>2, <3>3, Zenon
  <2>2. CASE i # n + 1
    <3>1. i \in 1 .. n /\ \A j \in 1 .. i : j \in 1 .. n
      BY <1>3, <1>5, <2>2
    <3>2. IsTLP(L.txQueue[i].pkt)
      BY <1>2, <1>5, <1>12, <3>1, Zenon
    <3>3. \E j \in 1 .. i : IsFirst(L.txQueue[j].pkt)
      BY <1>3, <1>12, <3>1, <3>2, Zenon DEF DirectionOK
    <3> QED BY <1>2, <1>5, <3>1, <3>3, Zenon
  <2> QED BY <2>1, <2>2, Zenon
<1>13. Base(M) = Base(L)
  BY <1>2, <1>5, Zenon DEF SameWindow, Base
<1>14. DirectionOK(M, A, F)
  BY <1>11, <1>12, <1>13 DEF DirectionOK
<1> QED BY <1>5, <1>14, Zenon DEF M, E, p

(* processTxQueue at the sending end: the first TLP is the first to arrive. *)
LEMMA ArrivalKeeps ==
  ASSUME NEW L \in LinkState, NEW took \in BOOLEAN,
         NEW A \in Seq(Kind), NEW D \in Seq(Kind), NEW F \in Seq(Kind),
         Consistent(L, A, D), DirectionOK(L, A, F), L.txQueue # <<>>,
         LET p == L.txQueue[1].pkt
         IN IsTLP(p) /\ p.seq = Len(F) /\ Len(F) = 0 => took
  PROVE  LET M == [L EXCEPT !.txQueue = Tail(L.txQueue)]
             p == L.txQueue[1].pkt
         IN /\ Consistent(M, A, D) /\ DirectionOK(M, A, Taken(F, p, took))
            /\ p \in Packet /\ p # NoPkt /\ GoodTLP(p, A) /\ GoodAck(p, D)
            /\ IsTLP(p) /\ Len(F) = 0 => p.seq = 0 /\ took
<1> DEFINE M == [L EXCEPT !.txQueue = Tail(L.txQueue)]
           p == L.txQueue[1].pkt
           T == Taken(F, p, took)
           n == Len(L.txQueue)
<1>1. /\ L.txQueue \in Seq(Delayed) /\ n \in Nat /\ DOMAIN L.txQueue = 1 .. n
      /\ 1 \in 1 .. n /\ L.txQueue[1] \in Delayed /\ LinkDelay # 0
  <2>1. L.txQueue \in Seq(Delayed)
    BY Zenon DEF LinkState
  <2> QED BY <2>1 DEF DirectionOK
<1>2. p \in Packet /\ p # NoPkt /\ GoodTLP(p, A) /\ GoodAck(p, D) /\ WindowOK(L, A)
  BY <1>1, Zenon DEF Delayed, Consistent, WireOK
<1>3. /\ Consistent(M, A, D) /\ SameWindow(L, M) /\ Len(M.txQueue) = n - 1
      /\ \A i \in 1 .. n - 1 : M.txQueue[i] = L.txQueue[i + 1]
  BY DequeueKeeps, Zenon
<1>4. M.txQueue = Tail(L.txQueue)
  BY Zenon DEF LinkState
<1>5. DOMAIN M.txQueue = 1 .. n - 1
  BY <1>1, <1>4
<1> HIDE DEF M
<1>6. IsTLP(p) /\ Len(F) = 0 => p.seq = 0 /\ took
  <2> SUFFICES ASSUME IsTLP(p), Len(F) = 0
               PROVE  p.seq = 0 /\ took
    BY Zenon
  <2>1. PICK j \in 1 .. 1 : IsFirst(L.txQueue[j].pkt)
    BY <1>1, Zenon DEF DirectionOK
  <2>2. p.seq = 0
    BY <2>1 DEF IsFirst
  <2> QED BY <2>2, Zenon
<1> HIDE DEF p
<1>7. /\ T \in Seq(Kind) /\ Len(F) <= Len(T) /\ Len(T) <= Len(A)
      /\ \A i \in DOMAIN T : T[i] = A[i]
      /\ T # F => Len(T) = Len(F) + 1
  BY <1>2, TakenPrefix DEF DirectionOK
<1>8. Base(M) <= Len(T)
  <2>1. Base(L) \in Nat /\ Len(F) \in Nat /\ Len(T) \in Nat /\ Base(L) <= Len(F)
    BY <1>2, <1>7, WindowSize DEF DirectionOK
  <2>2. Base(M) = Base(L)
    BY <1>3, Zenon DEF SameWindow, Base
  <2> QED BY <1>7, <2>1, <2>2
<1>9. Len(T) = 0 => Len(F) = 0 /\ ~IsTLP(p)
  <2> SUFFICES ASSUME Len(T) = 0
               PROVE  Len(F) = 0 /\ ~IsTLP(p)
    BY Zenon
  <2>1. Len(F) = 0
    <3>1. Len(F) \in Nat
      OBVIOUS
    <3> QED BY <1>7, <3>1
  <2>2. ASSUME IsTLP(p) PROVE FALSE
    <3>1. T = Append(F, p.kind)
      BY <1>6, <2>1, <2>2, Zenon DEF Taken
    <3>2. p.kind \in Kind
      BY <2>2, Zenon DEF IsTLP
    <3>3. Len(Append(F, p.kind)) = Len(F) + 1
      BY <3>2
    <3> QED BY <2>1, <3>1, <3>3
  <2> QED BY <2>1, <2>2, Zenon
<1> HIDE DEF T, n
<1>10. ASSUME Len(T) = 0, NEW j \in 1 .. n, IsFirst(L.txQueue[j].pkt)
       PROVE  j - 1 \in 1 .. n - 1 /\ IsFirst(M.txQueue[j - 1].pkt)
  <2>1. j # 1
    BY <1>9, <1>10, Zenon DEF IsFirst, p
  <2>2. j - 1 \in 1 .. n - 1 /\ (j - 1) + 1 = j
    BY <1>1, <2>1
  <2> QED BY <1>3, <1>10, <2>2, Zenon
<1>11. Len(T) = 0 /\ M.buffer # <<>> => \E j \in DOMAIN M.txQueue : IsFirst(M.txQueue[j].pkt)
  <2> SUFFICES ASSUME Len(T) = 0, L.buffer # <<>>
               PROVE  \E j \in DOMAIN M.txQueue : IsFirst(M.txQueue[j].pkt)
    BY <1>3, Zenon DEF SameWindow
  <2>1. PICK j \in 1 .. n : IsFirst(L.txQueue[j].pkt)
    BY <1>1, <1>9, Zenon DEF DirectionOK
  <2> QED BY <1>5, <1>10, <2>1, Zenon
<1>12. ASSUME Len(T) = 0, NEW i \in DOMAIN M.txQueue, IsTLP(M.txQueue[i].pkt)
       PROVE  \E j \in 1 .. i : IsFirst(M.txQueue[j].pkt)
  <2>1. i + 1 \in 1 .. n /\ M.txQueue[i] = L.txQueue[i + 1] /\ i \in Nat
    BY <1>1, <1>3, <1>5
  <2>2. PICK j \in 1 .. i + 1 : IsFirst(L.txQueue[j].pkt)
    BY <1>1, <1>9, <1>12, <2>1, Zenon DEF DirectionOK
  <2>3. j \in 1 .. n
    BY <1>1, <2>1
  <2>4. j - 1 \in 1 .. n - 1 /\ IsFirst(M.txQueue[j - 1].pkt)
    BY <1>10, <1>12, <2>2, <2>3, Zenon
  <2>5. j - 1 \in 1 .. i
    BY <2>1, <2>4
  <2> QED BY <2>4, <2>5, Zenon
<1>13. DirectionOK(M, A, T)
  BY <1>1, <1>7, <1>8, <1>11, <1>12, Zenon DEF DirectionOK
<1> QED BY <1>2, <1>3, <1>6, <1>13, Zenon DEF M, T, p

(* IInv, one end at a time. *)
LEMMA EndOK ==
  ASSUME IInv, NEW l \in Links
  PROVE  /\ link[l] \in LinkState /\ accepted[l] \in Seq(Kind) /\ delivered[l] \in Seq(Kind)
         /\ Len(accepted[l]) <= MaxTLP[l]
         /\ Consistent(link[l], accepted[l], delivered[Other(l)])
         /\ DirectionOK(link[l], accepted[l], delivered[l])
BY Zenon DEF IInv, TypeOK, Consistent

(* A step of end l is correct when it re-establishes both ends. *)
LEMMA BothEnds ==
  ASSUME TypeOK', NEW l \in Links, NEW m \in Links, m = Other(l),
         Len(accepted'[l]) <= MaxTLP[l], Len(accepted'[m]) <= MaxTLP[m],
         Consistent(link'[l], accepted'[l], delivered'[m]),
         DirectionOK(link'[l], accepted'[l], delivered'[l]),
         Consistent(link'[m], accepted'[m], delivered'[l]),
         DirectionOK(link'[m], accepted'[m], delivered'[m])
  PROVE  IInv'
<1>1. Links = {l, m} /\ Other(m) = l
  BY OtherEnd, LinksAssumption
<1>2. ASSUME NEW x \in Links
      PROVE  /\ Len(accepted'[x]) <= MaxTLP[x]
             /\ WindowOK(link'[x], accepted'[x])
             /\ WireOK(link'[x], accepted'[x], delivered'[Other(x)])
             /\ ReceiverOK(link'[x], delivered'[Other(x)])
             /\ DirectionOK(link'[x], accepted'[x], delivered'[x])
  <2>1. CASE x = l
    BY <2>1, Zenon DEF Consistent
  <2>2. CASE x = m
    BY <1>1, <2>2, Zenon DEF Consistent
  <2> QED BY <1>1, <2>1, <2>2, Zenon
<1> QED BY <1>2, Zenon DEF IInv

(* What arrives within the limits: the receiver's count fits in an int, and  *)
(* the first TLP is taken.                                                   *)
LEMMA ArrivalLimits ==
  ASSUME WithinLimits, IInv, NEW l \in Links, NEW p \in Packet, NEW took \in BOOLEAN,
         GoodTLP(p, accepted[l]), MayAnswer(l, p, took), Deliver(l, p, took)
  PROVE  /\ Len(delivered[l]) <= IntHalf
         /\ IsTLP(p) /\ p.seq = Len(delivered[l]) => Len(delivered[l]) < IntHalf
         /\ IsTLP(p) /\ p.seq = Len(delivered[l]) /\ Len(delivered[l]) = 0 => took
         /\ delivered' = [delivered EXCEPT ![l] = Taken(delivered[l], p, took)]
<1>1. link[Other(l)].recvSeqNum = Len(delivered[l])
  BY OtherEnd, EndOK, Zenon DEF Consistent, ReceiverOK
<1>2. /\ Len(delivered[l]) <= Len(accepted[l]) /\ Len(accepted[l]) <= MaxTLP[l]
      /\ Len(accepted[l]) \in Nat /\ Len(delivered[l]) \in Nat /\ MaxTLP[l] <= IntHalf
      /\ MaxTLP[l] \in Nat /\ IntHalf \in Nat
  BY EndOK, SizesAssumption, WidthAssumption DEF DirectionOK, WithinLimits
<1>3. IsTLP(p) => p.seq < Len(accepted[l]) /\ p.seq \in Nat
  BY Zenon DEF GoodTLP, Packet
<1>4. IsTLP(p) /\ p.seq = Len(delivered[l]) /\ Len(delivered[l]) = 0 => took
  BY <1>1, <1>2 DEF MayAnswer, WithinLimits
<1>5. delivered' = [delivered EXCEPT ![l] = Taken(delivered[l], p, took)]
  BY <1>1, Zenon DEF Deliver, Taken, IInv, TypeOK
<1> QED BY <1>2, <1>3, <1>4, <1>5

(* The initial state. *)
LEMMA InitOK == Init => IInv
<1> SUFFICES ASSUME Init PROVE IInv
  BY Zenon
<1>1. TypeOK
  BY TypeInductive, Zenon
<1>2. ASSUME NEW l \in Links
      PROVE  link[l] = NewLink /\ accepted[l] = <<>> /\ delivered[l] = <<>>
             /\ delivered[Other(l)] = <<>>
  BY OtherEnd, Zenon DEF Init
<1>3. Base(NewLink) = 0 /\ DOMAIN <<>> = {} /\ Len(<<>>) = 0
  BY DEF Base, NewLink
<1>4. WindowOK(NewLink, <<>>)
  BY <1>3, SizesAssumption DEF WindowOK, NewLink
<1>5. WireOK(NewLink, <<>>, <<>>)
  BY <1>3, ZenonT(40) DEF WireOK, NewLink, GoodTLP, GoodAck, NoPkt, IsTLP, Kind
<1>6. ReceiverOK(NewLink, <<>>) /\ DirectionOK(NewLink, <<>>, <<>>)
  BY <1>3 DEF ReceiverOK, DirectionOK, NewLink
<1>7. \A l \in Links : MaxTLP[l] >= 0
  BY SizesAssumption
<1> QED BY <1>1, <1>2, <1>3, <1>4, <1>5, <1>6, <1>7, Zenon DEF IInv

(* Every event keeps the invariant, within the limits. *)
LEMMA StepOK == WithinLimits /\ IInv /\ [Next]_vars => IInv'
<1> SUFFICES ASSUME WithinLimits, IInv, [Next]_vars
             PROVE  IInv'
  BY Zenon
<1>0. TypeOK /\ TypeOK'
  BY TypeInductive, Zenon DEF IInv
<1>1. ASSUME NEW l \in Links, NEW k \in Kind, Offer(l, k)
      PROVE  IInv'
  <2> DEFINE m == Other(l)
             L == link[l]
             M == TransmitInterface(L, k)
  <2>1. m \in Links /\ m # l /\ Other(m) = l
    BY OtherEnd, Zenon
  <2> HIDE DEF m
  <2>2. /\ link'[l] = M /\ link'[m] = link[m] /\ delivered' = delivered
        /\ accepted'[m] = accepted[m] /\ M \in LinkState
    BY <1>0, <1>1, <2>1, Zenon DEF Offer, TypeOK
  <2>3. /\ Consistent(link[m], accepted[m], delivered[l])
        /\ DirectionOK(link[m], accepted[m], delivered[m])
        /\ Len(accepted[m]) <= MaxTLP[m]
    BY <2>1, EndOK, Zenon
  <2>4. /\ L \in LinkState /\ accepted[l] \in Seq(Kind)
        /\ delivered[l] \in Seq(Kind) /\ delivered[m] \in Seq(Kind)
        /\ Consistent(L, accepted[l], delivered[m])
        /\ DirectionOK(L, accepted[l], delivered[l])
        /\ Len(accepted[l]) < MaxTLP[l] /\ Len(accepted[l]) \in Nat /\ MaxTLP[l] \in Nat
    <3>1. /\ L \in LinkState /\ accepted[l] \in Seq(Kind) /\ delivered[l] \in Seq(Kind)
          /\ Consistent(L, accepted[l], delivered[m])
          /\ DirectionOK(L, accepted[l], delivered[l])
      BY EndOK, Zenon DEF m
    <3>2. delivered[m] \in Seq(Kind)
      BY <1>0, <2>1, Zenon DEF TypeOK
    <3>3. Len(accepted[l]) < MaxTLP[l] /\ Len(accepted[l]) \in Nat /\ MaxTLP[l] \in Nat
      BY <1>1, <3>1, SizesAssumption DEF Offer
    <3> QED BY <3>1, <3>2, <3>3, Zenon
  <2> HIDE DEF L, M
  <2>5. CASE Refuses(L)
    <3>1. accepted'[l] = accepted[l]
      BY <1>1, <2>5, Zenon DEF Offer, L
    <3>2. /\ Consistent(M, accepted[l], delivered[m]) /\ SameWindow(L, M)
          /\ M.txQueue = L.txQueue
      BY <2>4, <2>5, RefusalKeeps, Zenon DEF M
    <3>3. Base(M) = Base(L)
      BY <3>2, Zenon DEF SameWindow, Base
    <3>4. DirectionOK(M, accepted[l], delivered[l])
      BY <2>2, <2>4, <3>2, <3>3, DirectionSame, Zenon DEF SameWindow, DirectionOK
    <3> QED BY <1>0, <2>1, <2>2, <2>3, <2>4, <3>1, <3>2, <3>4, BothEnds DEF m
  <2>6. CASE ~Refuses(L)
    <3> DEFINE B == Append(accepted[l], k)
    <3>1. accepted'[l] = B
      BY <1>0, <1>1, <2>6, Zenon DEF Offer, L, TypeOK
    <3>2. /\ B \in Seq(Kind) /\ Len(B) = Len(accepted[l]) + 1
          /\ \A i \in 1 .. Len(accepted[l]) : B[i] = accepted[l][i]
      BY <2>4
    <3>3. /\ Consistent(M, B, delivered[m]) /\ Base(M) = Base(L)
          /\ M.buffer = L.buffer /\ M.txQueue = L.txQueue
      BY <2>4, <2>6, AcceptKeeps, Zenon DEF M
    <3> HIDE DEF B
    <3>4. Len(delivered[l]) \in Nat /\ DOMAIN delivered[l] = 1 .. Len(delivered[l])
          /\ Len(delivered[l]) <= Len(accepted[l])
      BY <2>4 DEF DirectionOK
    <3>5. Len(delivered[l]) <= Len(B) /\ \A n \in DOMAIN delivered[l] : delivered[l][n] = B[n]
      <4>1. \A n \in DOMAIN delivered[l] :
              n \in 1 .. Len(accepted[l]) /\ delivered[l][n] = accepted[l][n]
        BY <2>4, <3>4 DEF DirectionOK
      <4> QED BY <2>4, <3>2, <3>4, <4>1
    <3>6. DirectionOK(M, B, delivered[l])
      BY <2>4, <3>3, <3>5, Zenon DEF DirectionOK
    <3>7. Len(B) <= MaxTLP[l]
      BY <2>4, <3>2
    <3> QED BY <1>0, <2>1, <2>2, <2>3, <3>1, <3>3, <3>6, <3>7, BothEnds, Zenon DEF m
  <2> QED BY <2>5, <2>6, Zenon
<1>2. ASSUME NEW l \in Links, NEW took \in BOOLEAN, TxDone(l, took)
      PROVE  IInv'
  <2> DEFINE m == Other(l)
             L == link[l]
             p == L.packet
  <2>1. m \in Links /\ m # l /\ Other(m) = l
    BY OtherEnd, Zenon
  <2> HIDE DEF m
  <2>2. /\ link[m] \in LinkState /\ accepted[m] \in Seq(Kind) /\ delivered[m] \in Seq(Kind)
        /\ Consistent(link[m], accepted[m], delivered[l])
        /\ DirectionOK(link[m], accepted[m], delivered[m])
        /\ Len(accepted[m]) <= MaxTLP[m]
    BY <2>1, EndOK, Zenon
  <2>3. /\ L \in LinkState /\ accepted[l] \in Seq(Kind) /\ delivered[l] \in Seq(Kind)
        /\ Consistent(L, accepted[l], delivered[m])
        /\ DirectionOK(L, accepted[l], delivered[l])
        /\ Len(accepted[l]) <= MaxTLP[l]
    BY EndOK, Zenon DEF m
  <2>4. /\ Busy(L) /\ accepted' = accepted
        /\ p \in Packet /\ p # NoPkt
        /\ GoodTLP(p, accepted[l]) /\ GoodAck(p, delivered[m])
    BY <1>2, <2>3, Zenon DEF TxDone, Consistent, WireOK, LinkState, Busy
  <2>5. CASE LinkDelay > 0
    <3>1. /\ link'[l] = AfterTransmission(Propagate(L, p)) /\ link'[m] = link[m]
          /\ delivered' = delivered
      BY <1>0, <1>2, <2>1, <2>5, Zenon DEF TxDone, TypeOK
    <3>2. /\ Consistent(link'[l], accepted[l], delivered[m])
          /\ DirectionOK(link'[l], accepted[l], delivered[l])
      BY <2>2, <2>3, <2>4, <2>5, <3>1, DelayKeeps, ZenonT(40)
    <3> QED BY <1>0, <2>1, <2>2, <2>3, <2>4, <3>1, <3>2, BothEnds, ZenonT(40) DEF m
  <2>6. CASE ~(LinkDelay > 0)
    <3> DEFINE T == Taken(delivered[l], p, took)
    <3>0. LinkDelay = 0
      BY <2>6, TimesAssumption
    <3>1. MayAnswer(l, p, took) /\ Deliver(l, p, took)
      BY <1>2, <2>6, Zenon DEF TxDone
    <3>2. link'[l] = AfterTransmission(L) /\ link'[m] = LinkReceiveInterface(link[m], p, took)
      BY <1>0, <1>2, <2>1, <2>6, Zenon DEF TxDone, TypeOK, m
    <3> HIDE DEF p, L
    <3>3. /\ Len(delivered[l]) <= IntHalf
          /\ IsTLP(p) /\ p.seq = Len(delivered[l]) => Len(delivered[l]) < IntHalf
          /\ IsTLP(p) /\ p.seq = Len(delivered[l]) /\ Len(delivered[l]) = 0 => took
          /\ delivered' = [delivered EXCEPT ![l] = T]
      BY <2>4, <3>1, ArrivalLimits, Zenon
    <3>4. delivered'[l] = T /\ delivered'[m] = delivered[m]
      BY <1>0, <2>1, <3>3, Zenon DEF TypeOK
    <3> HIDE DEF T
    <3>5. /\ Consistent(link'[l], accepted[l], delivered[m])
          /\ DirectionOK(link'[l], accepted[l], T)
          /\ IsTLP(p) /\ Len(delivered[l]) = 0 => p.seq = 0 /\ took
      BY <2>2, <2>3, <2>4, <3>0, <3>2, <3>3, SendKeeps, ZenonT(40) DEF p, T
    <3>6. /\ Consistent(link'[m], accepted[m], T)
          /\ DirectionOK(link'[m], accepted[m], delivered[m])
      BY <2>2, <2>3, <2>4, <3>2, <3>3, <3>5, ReceiveKeeps, ZenonT(40) DEF T
    <3> QED BY <1>0, <2>1, <2>2, <2>3, <2>4, <3>4, <3>5, <3>6, BothEnds, ZenonT(40) DEF m
  <2> QED BY <2>5, <2>6, Zenon
<1>3. ASSUME NEW l \in Links, NEW took \in BOOLEAN, ProcessTxQueue(l, took)
      PROVE  IInv'
  <2> DEFINE m == Other(l)
             L == link[l]
             p == L.txQueue[1].pkt
             T == Taken(delivered[l], p, took)
  <2>1. m \in Links /\ m # l /\ Other(m) = l
    BY OtherEnd, Zenon
  <2> HIDE DEF m
  <2>2. /\ link[m] \in LinkState /\ accepted[m] \in Seq(Kind) /\ delivered[m] \in Seq(Kind)
        /\ Consistent(link[m], accepted[m], delivered[l])
        /\ DirectionOK(link[m], accepted[m], delivered[m])
        /\ Len(accepted[m]) <= MaxTLP[m]
    BY <2>1, EndOK, Zenon
  <2>3. /\ L \in LinkState /\ accepted[l] \in Seq(Kind) /\ delivered[l] \in Seq(Kind)
        /\ Consistent(L, accepted[l], delivered[m])
        /\ DirectionOK(L, accepted[l], delivered[l])
        /\ Len(accepted[l]) <= MaxTLP[l]
    BY EndOK, Zenon DEF m
  <2>4. L.txQueue # <<>> /\ accepted' = accepted
    BY <1>3, Zenon DEF ProcessTxQueue
  <2>5. L.txQueue \in Seq(Delayed) /\ Head(L.txQueue) = L.txQueue[1]
    BY <2>3, <2>4 DEF LinkState
  <2>6. MayAnswer(l, p, took) /\ Deliver(l, p, took)
    BY <1>3, <2>5, Zenon DEF ProcessTxQueue
  <2>7. /\ link'[l] = [L EXCEPT !.txQueue = Tail(L.txQueue)]
        /\ link'[m] = LinkReceiveInterface(link[m], p, took)
    BY <1>0, <1>3, <2>1, <2>5, ZenonT(40) DEF ProcessTxQueue, TypeOK, m
  <2>8. p \in Packet /\ GoodTLP(p, accepted[l])
    <3>1. 1 \in DOMAIN L.txQueue /\ L.txQueue[1] \in Delayed
      BY <2>4, <2>5
    <3> QED BY <2>3, <3>1, Zenon DEF Delayed, Consistent, WireOK
  <2> HIDE DEF p, L
  <2>9. /\ Len(delivered[l]) <= IntHalf
        /\ IsTLP(p) /\ p.seq = Len(delivered[l]) => Len(delivered[l]) < IntHalf
        /\ IsTLP(p) /\ p.seq = Len(delivered[l]) /\ Len(delivered[l]) = 0 => took
        /\ delivered' = [delivered EXCEPT ![l] = T]
    BY <2>6, <2>8, ArrivalLimits, Zenon
  <2>10. delivered'[l] = T /\ delivered'[m] = delivered[m]
    BY <1>0, <2>1, <2>9, Zenon DEF TypeOK
  <2> HIDE DEF T
  <2>11. /\ Consistent(link'[l], accepted[l], delivered[m])
         /\ DirectionOK(link'[l], accepted[l], T)
         /\ p # NoPkt /\ GoodAck(p, delivered[m])
         /\ IsTLP(p) /\ Len(delivered[l]) = 0 => p.seq = 0 /\ took
    <3> DEFINE M == [L EXCEPT !.txQueue = Tail(L.txQueue)]
    <3>1. IsTLP(L.txQueue[1].pkt) /\ L.txQueue[1].pkt.seq = Len(delivered[l])
            /\ Len(delivered[l]) = 0 => took
      BY <2>9, Zenon DEF p
    <3>2. /\ Consistent(M, accepted[l], delivered[m])
          /\ DirectionOK(M, accepted[l], Taken(delivered[l], L.txQueue[1].pkt, took))
          /\ L.txQueue[1].pkt # NoPkt /\ GoodAck(L.txQueue[1].pkt, delivered[m])
          /\ IsTLP(L.txQueue[1].pkt) /\ Len(delivered[l]) = 0
               => L.txQueue[1].pkt.seq = 0 /\ took
      BY <2>2, <2>3, <2>4, <3>1, ArrivalKeeps, ZenonT(40)
    <3> HIDE DEF M
    <3>3. link'[l] = M
      BY <2>7, Zenon DEF M
    <3> QED BY <3>2, <3>3, Zenon DEF p, T
  <2>12. /\ Consistent(link'[m], accepted[m], T)
         /\ DirectionOK(link'[m], accepted[m], delivered[m])
    <3> DEFINE R == LinkReceiveInterface(link[m], p, took)
    <3>1. /\ Consistent(R, accepted[m], Taken(delivered[l], p, took))
          /\ DirectionOK(R, accepted[m], delivered[m])
      BY <2>2, <2>3, <2>8, <2>9, <2>11, ReceiveKeeps, Zenon
    <3> HIDE DEF R
    <3>2. link'[m] = R
      BY <2>7, Zenon DEF R
    <3> QED BY <3>1, <3>2, Zenon DEF T
  <2> QED BY <1>0, <2>1, <2>2, <2>3, <2>4, <2>10, <2>11, <2>12, BothEnds, ZenonT(40) DEF m
<1>4. ASSUME NEW l \in Links, TimeoutEvent(l) \/ AckEvent(l)
      PROVE  IInv'
  <2> DEFINE m == Other(l)
             L == link[l]
             M == link'[l]
  <2>1. m \in Links /\ m # l /\ Other(m) = l
    BY OtherEnd, Zenon
  <2> HIDE DEF m
  <2>2. /\ delivered[m] \in Seq(Kind)
        /\ Consistent(link[m], accepted[m], delivered[l])
        /\ DirectionOK(link[m], accepted[m], delivered[m])
        /\ Len(accepted[m]) <= MaxTLP[m]
    BY <2>1, EndOK, Zenon
  <2>3. /\ L \in LinkState /\ accepted[l] \in Seq(Kind) /\ delivered[l] \in Seq(Kind)
        /\ Consistent(L, accepted[l], delivered[m])
        /\ DirectionOK(L, accepted[l], delivered[l])
        /\ Len(accepted[l]) <= MaxTLP[l]
    BY EndOK, Zenon DEF m
  <2>4. /\ link'[m] = link[m] /\ accepted' = accepted /\ delivered' = delivered
        /\ M \in LinkState
    BY <1>0, <1>4, <2>1, Zenon DEF TimeoutEvent, AckEvent, TypeOK
  <2>5. Consistent(M, accepted[l], delivered[m]) /\ SameWindow(L, M) /\ M.txQueue = L.txQueue
    <3>1. CASE TimeoutEvent(l)
      <4>1. M = TimeoutFunc([L EXCEPT !.timeoutEvent = Off])
        BY <1>0, <3>1, Zenon DEF TimeoutEvent, TypeOK
      <4> QED BY <2>2, <2>3, <4>1, TimeoutKeeps, Zenon
    <3>2. CASE AckEvent(l)
      <4>1. M = SendAck([L EXCEPT !.ackEvent = Off]) /\ L.ackEvent = 0
        BY <1>0, <3>2, Zenon DEF AckEvent, TypeOK
      <4>2. Len(delivered[m]) > 0
        BY <2>3, <4>1 DEF Consistent, ReceiverOK, Off
      <4>3. Len(delivered[m]) <= IntHalf
        <5>1. /\ Len(delivered[m]) <= Len(accepted[m]) /\ MaxTLP[m] <= IntHalf
              /\ accepted[m] \in Seq(Kind)
          BY <1>0, <2>1, <2>2, Zenon DEF DirectionOK, WithinLimits, TypeOK
        <5>2. Len(accepted[m]) \in Nat /\ Len(delivered[m]) \in Nat /\ MaxTLP[m] \in Nat
              /\ IntHalf \in Nat
          BY <2>1, <2>2, <5>1, SizesAssumption, WidthAssumption
        <5> QED BY <2>2, <5>1, <5>2
      <4> QED BY <2>2, <2>3, <4>1, <4>2, <4>3, SendAckKeeps, ZenonT(40)
    <3> QED BY <1>4, <3>1, <3>2, Zenon
  <2> HIDE DEF L, M
  <2>6. Base(M) = Base(L)
    BY <2>5, Zenon DEF SameWindow, Base
  <2>7. DirectionOK(M, accepted[l], delivered[l])
    BY <2>3, <2>4, <2>5, <2>6, DirectionSame, ZenonT(40) DEF SameWindow, DirectionOK
  <2> QED BY <1>0, <2>1, <2>2, <2>3, <2>4, <2>5, <2>7, BothEnds, ZenonT(40) DEF m, M
<1>5. CASE Tick
  <2>1. accepted' = accepted /\ delivered' = delivered
    BY <1>5, Zenon DEF Tick
  <2>2. ASSUME NEW l \in Links
        PROVE  /\ Consistent(link'[l], accepted[l], delivered[Other(l)])
               /\ DirectionOK(link'[l], accepted[l], delivered[l])
               /\ Len(accepted[l]) <= MaxTLP[l]
    <3>1. link'[l] = Elapse(link[l])
      BY <1>5, Zenon DEF Tick
    <3>2. /\ link[l] \in LinkState /\ accepted[l] \in Seq(Kind) /\ delivered[l] \in Seq(Kind)
          /\ delivered[Other(l)] \in Seq(Kind) /\ Len(accepted[l]) <= MaxTLP[l]
          /\ Consistent(link[l], accepted[l], delivered[Other(l)])
          /\ DirectionOK(link[l], accepted[l], delivered[l])
      BY EndOK, OtherEnd, Zenon
    <3> DEFINE L == link[l]
               M == Elapse(L)
    <3> HIDE DEF L
    <3>3. /\ Consistent(M, accepted[l], delivered[Other(l)]) /\ SameWindow(L, M)
          /\ DOMAIN M.txQueue = DOMAIN L.txQueue
          /\ \A i \in DOMAIN L.txQueue : M.txQueue[i].pkt = L.txQueue[i].pkt
          /\ L.txQueue = <<>> => M.txQueue = <<>>
      BY <3>2, ElapseKeeps, ZenonT(40) DEF L
    <3> HIDE DEF M
    <3>4. Base(M) = Base(L) /\ M.buffer = L.buffer
      BY <3>3, Zenon DEF SameWindow, Base
    <3>5. L.txQueue \in Seq(Delayed)
      BY <3>2, Zenon DEF LinkState, L
    <3>6. \A i \in DOMAIN L.txQueue : \A j \in 1 .. i : j \in DOMAIN L.txQueue
      BY <3>5
    <3>7. DirectionOK(L, accepted[l], delivered[l])
      BY <3>2, Zenon DEF L
    <3>8. DirectionOK(M, accepted[l], delivered[l])
      BY <3>3, <3>4, <3>6, <3>7, Zenon DEF DirectionOK
    <3> QED BY <3>1, <3>2, <3>3, <3>8, ZenonT(40) DEF M, L
  <2>3. PICK l \in Links : TRUE
    BY LinksAssumption, Zenon
  <2>4. Other(l) \in Links /\ Other(Other(l)) = l
    BY OtherEnd, Zenon
  <2> QED BY <1>0, <2>1, <2>2, <2>4, BothEnds, Zenon
<1>6. CASE UNCHANGED vars
  BY <1>6, EndOK, Zenon DEF IInv, vars, TypeOK
<1> QED BY <1>1, <1>2, <1>3, <1>4, <1>5, <1>6, Zenon DEF Next

(* The invariant implies the properties. *)
LEMMA InvariantImplies == IInv => NoLoss /\ InOrder /\ AckSound /\ ReplayRoom
<1> SUFFICES ASSUME IInv PROVE NoLoss /\ InOrder /\ AckSound /\ ReplayRoom
  BY Zenon
<1>1. NoLoss
  <2> SUFFICES ASSUME NEW l \in Links, NEW n \in DOMAIN accepted[l], n > Len(delivered[l])
               PROVE  TLP(accepted[l][n], n - 1) \in Held(l)
    BY Zenon DEF NoLoss
  <2> DEFINE L == link[l]
             A == accepted[l]
  <2>1. /\ L \in LinkState /\ A \in Seq(Kind) /\ delivered[l] \in Seq(Kind)
        /\ WindowOK(L, A) /\ Base(L) <= Len(delivered[l])
    BY EndOK, Zenon DEF Consistent, DirectionOK
  <2>2. L.buffer \in Seq(Packet)
    BY <2>1, Zenon DEF LinkState
  <2> HIDE DEF L, A
  <2>3. /\ Len(L.buffer) \in Nat /\ DOMAIN L.buffer = 1 .. Len(L.buffer)
        /\ Len(A) \in Nat /\ n \in 1 .. Len(A) /\ Len(delivered[l]) \in Nat
    BY <2>1, <2>2 DEF A
  <2>4. /\ Base(L) \in Nat
        /\ L.replayPacket = NoPkt => Base(L) + Len(L.buffer) = Len(A)
        /\ L.replayPacket # NoPkt => Base(L) + Len(L.buffer) + 1 = Len(A)
    BY <2>1, WindowSize, Zenon
  <2>5. n > Base(L)
    BY <2>1, <2>3, <2>4
  <2>6. CASE n <= Base(L) + Len(L.buffer)
    <3>1. PICK i \in DOMAIN L.buffer : Base(L) + i = n
      <4>1. n - Base(L) \in DOMAIN L.buffer /\ Base(L) + (n - Base(L)) = n
        BY <2>3, <2>4, <2>5, <2>6
      <4> QED BY <4>1, Zenon
    <3>2. L.buffer[i] = TLP(A[n], n - 1)
      <4>1. L.buffer[i] = TLP(A[Base(L) + i], Base(L) + i - 1)
        BY <2>1, Zenon DEF WindowOK
      <4>2. Base(L) + i - 1 = n - 1
        BY <2>3, <2>4, <3>1
      <4> QED BY <3>1, <4>1, <4>2, ZenonT(40)
    <3> QED BY <3>1, <3>2, Zenon DEF Held, L, A
  <2>7. CASE ~(n <= Base(L) + Len(L.buffer))
    <3>1. L.replayPacket # NoPkt /\ n = Len(A)
      BY <2>3, <2>4, <2>7
    <3>2. L.replayPacket = TLP(A[n], n - 1)
      BY <2>1, <3>1, Zenon DEF WindowOK
    <3> QED BY <3>2, Zenon DEF Held, L, A
  <2> QED BY <2>6, <2>7, Zenon
<1>2. InOrder
  BY EndOK, ZenonT(40) DEF InOrder, DirectionOK
<1>3. AckSound
  <2> SUFFICES ASSUME NEW l \in Links, NEW p \in OnWire(l) \cup {link[l].replayDLLP},
                      p.kind = "ack"
               PROVE  p.seq < Len(delivered[Other(l)])
    BY Zenon DEF AckSound
  <2>1. ~IsTLP(p) /\ p # NoPkt
    BY DEF IsTLP, Kind, NoPkt
  <2>2. WireOK(link[l], accepted[l], delivered[Other(l)])
    BY Zenon DEF IInv
  <2> QED BY <2>1, <2>2, Zenon DEF WireOK, OnWire, GoodAck
<1>4. ReplayRoom
  BY EndOK, Zenon DEF ReplayRoom, Consistent, WindowOK
<1> QED BY <1>1, <1>2, <1>3, <1>4, Zenon

(* The protocol of pcie_link.cc is reliable for every buffer size, every     *)
(* lane count and payload time, every propagation delay and every number of  *)
(* TLPs up to 2^31, provided no device refuses the first TLP of a direction. *)
(* This is the inductive invariant: window, wire, receiver and direction.    *)
THEOREM LinkInvariant == WithinLimits => (Spec => []IInv)
<1> SUFFICES ASSUME WithinLimits PROVE Spec => []IInv
  BY Zenon
<1>1. Init => IInv
  BY InitOK, Zenon
<1>2. IInv /\ [Next]_vars => IInv'
  BY StepOK, Zenon
<1> QED BY <1>1, <1>2, PTL DEF Spec

(* linkTransmitInterface / linkReceiveInterface: a TLP that was accepted and *)
(* not yet taken by the far device is still held for retransmission.         *)
THEOREM NothingLost == WithinLimits => (Spec => []NoLoss)
<1>1. IInv => NoLoss
  BY InvariantImplies, Zenon
<1> QED BY <1>1, LinkInvariant, PTL

(* The sequence check of linkReceiveInterface: none is delivered out of      *)
(* order or twice.                                                           *)
THEOREM InOrderOnce == WithinLimits => (Spec => []InOrder)
<1>1. IInv => InOrder
  BY InvariantImplies, Zenon
<1> QED BY <1>1, LinkInvariant, PTL

(* No Ack DLLP acknowledges a TLP that the device has not taken.             *)
THEOREM AcksAreSound == WithinLimits => (Spec => []AckSound)
<1>1. IInv => AckSound
  BY InvariantImplies, Zenon
<1> QED BY <1>1, LinkInvariant, PTL

(* ReplayBuffer::pushBack always finds room for the TLP that was sent.       *)
THEOREM ReplayBufferRoom == WithinLimits => (Spec => []ReplayRoom)
<1>1. IInv => ReplayRoom
  BY InvariantImplies, Zenon
<1> QED BY <1>1, LinkInvariant, PTL

-----------------------------------------------------------------------------
(* The link implements the channel of LinkChannel. *)

(* A TLP that arrives with the expected number and is taken is the oldest    *)
(* undelivered packet; anything else that arrives is invisible.              *)
LEMMA ArrivalImplements ==
  ASSUME WithinLimits, IInv, NEW l \in Links, NEW p \in Packet, NEW took \in BOOLEAN,
         GoodTLP(p, accepted[l]), MayAnswer(l, p, took), Deliver(l, p, took),
         accepted' = accepted
  PROVE  Channel!Deliver(l) \/ UNCHANGED <<accepted, delivered>>
<1> DEFINE D == delivered[l]
<1>1. delivered' = [delivered EXCEPT ![l] = Taken(D, p, took)]
  BY ArrivalLimits, ZenonT(40)
<1>2. delivered \in [Links -> Seq(Kind)] /\ D \in Seq(Kind)
  BY Zenon DEF IInv, TypeOK
<1>3. CASE IsTLP(p) /\ p.seq = Len(D) /\ took
  <2>1. Len(D) < Len(accepted[l]) /\ p.kind = accepted[l][Len(D) + 1]
    BY <1>3, Zenon DEF GoodTLP
  <2>2. delivered' = [delivered EXCEPT ![l] = Append(delivered[l], accepted[l][Len(delivered[l]) + 1])]
    BY <1>1, <1>3, <2>1, Zenon DEF Taken
  <2> QED BY <2>1, <2>2, Zenon DEF Channel!Deliver
<1>4. CASE ~(IsTLP(p) /\ p.seq = Len(D) /\ took)
  <2>1. delivered' = delivered
    BY <1>1, <1>2, <1>4, Zenon DEF Taken
  <2> QED BY <2>1, Zenon
<1> QED BY <1>3, <1>4, Zenon

(* Every event of the link is a step of the channel or invisible to it.      *)
LEMMA StepImplements ==
  WithinLimits /\ IInv /\ [Next]_vars => [Channel!Next]_(Channel!channelVars)
<1> SUFFICES ASSUME WithinLimits, IInv, [Next]_vars
             PROVE  Channel!Next \/ UNCHANGED <<accepted, delivered>>
  BY Zenon DEF Channel!channelVars
<1>1. ASSUME NEW l \in Links, NEW k \in Kind, Offer(l, k)
      PROVE  Channel!Accept(l, k) \/ UNCHANGED <<accepted, delivered>>
  BY <1>1, Zenon DEF Offer, Channel!Accept
<1>2. ASSUME NEW l \in Links, NEW took \in BOOLEAN, TxDone(l, took)
      PROVE  Channel!Deliver(l) \/ UNCHANGED <<accepted, delivered>>
  <2> DEFINE p == link[l].packet
  <2>1. accepted' = accepted
    BY <1>2, Zenon DEF TxDone
  <2>2. CASE LinkDelay > 0
    BY <1>2, <2>1, <2>2, Zenon DEF TxDone
  <2>3. CASE ~(LinkDelay > 0)
    <3>1. MayAnswer(l, p, took) /\ Deliver(l, p, took)
      BY <1>2, <2>3, Zenon DEF TxDone
    <3>2. p \in Packet /\ GoodTLP(p, accepted[l])
      BY Zenon DEF IInv, TypeOK, LinkState, WireOK
    <3> HIDE DEF p
    <3> QED BY <2>1, <3>1, <3>2, ArrivalImplements, Zenon
  <2> QED BY <2>2, <2>3, Zenon
<1>3. ASSUME NEW l \in Links, NEW took \in BOOLEAN, ProcessTxQueue(l, took)
      PROVE  Channel!Deliver(l) \/ UNCHANGED <<accepted, delivered>>
  <2> DEFINE p == link[l].txQueue[1].pkt
  <2>1. /\ link[l].txQueue \in Seq(Delayed) /\ link[l].txQueue # <<>>
        /\ WireOK(link[l], accepted[l], delivered[Other(l)])
    BY <1>3, Zenon DEF ProcessTxQueue, IInv, TypeOK, LinkState
  <2>2. /\ accepted' = accepted /\ Head(link[l].txQueue) = link[l].txQueue[1]
        /\ 1 \in DOMAIN link[l].txQueue
    BY <1>3, <2>1 DEF ProcessTxQueue
  <2>3. MayAnswer(l, p, took) /\ Deliver(l, p, took)
    BY <1>3, <2>2, Zenon DEF ProcessTxQueue
  <2>4. p \in Packet /\ GoodTLP(p, accepted[l])
    <3>1. link[l].txQueue[1] \in Delayed
      BY <2>1, <2>2
    <3>2. GoodTLP(p, accepted[l])
      BY <2>1, <2>2, Zenon DEF WireOK
    <3> QED BY <3>1, <3>2, Zenon DEF Delayed
  <2> HIDE DEF p
  <2> QED BY <2>2, <2>3, <2>4, ArrivalImplements, Zenon
<1>4. ASSUME NEW l \in Links, TimeoutEvent(l) \/ AckEvent(l)
      PROVE  UNCHANGED <<accepted, delivered>>
  BY <1>4, Zenon DEF TimeoutEvent, AckEvent
<1>5. CASE Tick
  BY <1>5, Zenon DEF Tick
<1>6. CASE UNCHANGED vars
  BY <1>6, Zenon DEF vars
<1> QED BY <1>1, <1>2, <1>3, <1>4, <1>5, <1>6, Zenon DEF Next, Channel!Next

(* The link, seen from the devices, is the reliable in-order channel that    *)
(* the comment on linkReceiveInterface promises (its safety part).           *)
THEOREM ImplementsChannel == WithinLimits => (Spec => SafeChannel)
<1> SUFFICES ASSUME WithinLimits PROVE Spec => Channel!Spec
  BY Zenon DEF SafeChannel
<1>1. Init => Channel!Init
  BY Zenon DEF Init, Channel!Init
<1>2. IInv /\ [Next]_vars => [Channel!Next]_(Channel!channelVars)
  BY StepImplements, Zenon
<1> QED BY <1>1, <1>2, LinkInvariant, PTL DEF Spec, Channel!Spec

-----------------------------------------------------------------------------
(* The link never goes to sleep with work left: RetryPending and ReplayArmed *)
(* hold for every value of the constants.  Both speak of one interface at a  *)
(* time, so it is enough that each operation of a Link keeps them; no limit  *)
(* on sequence numbers or refusals is needed.                                *)

(* An interface between two events. *)
Waiting(L) ==
  /\ L.stalled = L.retry
  /\ L.retry # {} => Refuses(L)
Armed(L) ==
  /\ L.buffer # <<>> => L.timeoutEvent # Off \/ L.retransmit
  /\ \A i \in DOMAIN L.buffer : L.buffer[i] # NoPkt
Working(L) ==
  L.retransmit \/ L.replayPacket # NoPkt \/ L.replayDLLP # NoPkt => Busy(L)
Progressing(L) == Waiting(L) /\ Armed(L) /\ Working(L)

(* The fields Waiting and Armed look at. *)
SameWork(L, M) ==
  /\ M.stalled = L.stalled /\ M.retry = L.retry
  /\ M.replayPacket = L.replayPacket /\ M.retransmit = L.retransmit
  /\ M.buffer = L.buffer /\ M.timeoutEvent = L.timeoutEvent

(* Waiting and Armed depend on those fields only. *)
LEMMA SameWorkKeeps ==
  ASSUME NEW L \in LinkState, NEW M \in LinkState, SameWork(L, M)
  PROVE  (Waiting(L) => Waiting(M)) /\ (Armed(L) => Armed(M))
BY Zenon DEF SameWork, Waiting, Armed, Refuses

(* transmit puts a packet on an idle wire and touches nothing else. *)
LEMMA TransmitWorks ==
  ASSUME NEW L \in LinkState, NEW p \in Packet, p # NoPkt
  PROVE  LET M == Transmit(L, p)
         IN /\ M \in LinkState /\ Busy(M) /\ SameWork(L, M)
            /\ M.replayDLLP = L.replayDLLP /\ M.retransmitIdx = L.retransmitIdx
<1>1. Transmit(L, p) \in LinkState
  BY TransmitType, Zenon
<1>2. CASE Busy(L)
  BY <1>1, <1>2, Zenon DEF Transmit, SameWork
<1>3. CASE ~Busy(L)
  <2>1. Transmit(L, p) = [L EXCEPT !.packet = p, !.doneEvent = Size(p)]
    BY <1>3, Zenon DEF Transmit
  <2> QED BY <1>1, <2>1, Zenon DEF SameWork, Busy, LinkState
<1> QED BY <1>2, <1>3, Zenon

(* Acks and TLPs are packets, never NoPkt. *)
LEMMA RealPackets ==
  /\ \A n \in Nat : Ack(n) \in Packet /\ Ack(n) # NoPkt
  /\ \A k \in Kind, n \in Nat : TLP(k, n) \in Packet /\ TLP(k, n) # NoPkt
<1>1. \A n \in Nat : Ack(n) \in Packet /\ Ack(n) # NoPkt
  BY AckType, Zenon DEF Ack, NoPkt
<1>2. \A k \in Kind, n \in Nat : TLP(k, n) \in Packet /\ TLP(k, n) # NoPkt
  BY Zenon DEF TLP, NoPkt, Kind, Packet
<1> QED BY <1>1, <1>2, Zenon

(* sendRetryReq / sendRetryResp: the flags and the waiting devices are       *)
(* cleared together.                                                         *)
LEMMA RetriesClear ==
  ASSUME NEW L \in LinkState, L.stalled = L.retry
  PROVE  LET M == SendRetries(L)
         IN /\ M \in LinkState /\ Waiting(M)
            /\ M.buffer = L.buffer /\ M.timeoutEvent = L.timeoutEvent
            /\ M.retransmit = L.retransmit /\ M.retransmitIdx = L.retransmitIdx
            /\ M.replayPacket = L.replayPacket /\ M.replayDLLP = L.replayDLLP
            /\ M.packet = L.packet
<1>1. SendRetries(L) \in LinkState
  BY SendRetriesType, Zenon
<1>2. L.stalled \ L.retry = {}
  BY Zenon
<1> QED BY <1>1, <1>2, Zenon DEF SendRetries, Waiting, LinkState

-----------------------------------------------------------------------------
(* The operations of an interface. *)

(* linkTransmitInterface: refusing sets both the flag and the wait, and      *)
(* accepting puts a packet on the wire.                                      *)
LEMMA TransmitInterfaceWorks ==
  ASSUME NEW L \in LinkState, NEW k \in Kind, Progressing(L)
  PROVE  Progressing(TransmitInterface(L, k))
<1>1. CASE Refuses(L)
  <2> DEFINE M == [L EXCEPT !.retry = @ \cup {k}, !.stalled = @ \cup {k}]
  <2>1. TransmitInterface(L, k) = M
    BY <1>1, Zenon DEF TransmitInterface
  <2>2. /\ M.retry = L.retry \cup {k} /\ M.stalled = L.stalled \cup {k}
        /\ M.buffer = L.buffer /\ M.timeoutEvent = L.timeoutEvent
        /\ M.retransmit = L.retransmit /\ M.packet = L.packet
        /\ M.replayPacket = L.replayPacket /\ M.replayDLLP = L.replayDLLP
    BY Zenon DEF LinkState
  <2> HIDE DEF M
  <2>3. Waiting(M)
    BY <1>1, <2>2, Zenon DEF Progressing, Waiting, Refuses
  <2>4. Armed(M) /\ Working(M)
    BY <2>2, Zenon DEF Progressing, Armed, Working, Busy
  <2> QED BY <2>1, <2>3, <2>4, Zenon DEF Progressing
<1>2. CASE ~Refuses(L)
  <2> DEFINE p == TLP(k, L.sendSeqNum)
             A == [L EXCEPT !.replayPacket = p]
             T == Transmit(A, p)
             M == [T EXCEPT !.sendSeqNum = @ + 1]
  <2>1. TransmitInterface(L, k) = M
    BY <1>2, Zenon DEF TransmitInterface
  <2>2. L.sendSeqNum \in Nat /\ L.retry = {}
    BY <1>2, Zenon DEF Progressing, Waiting, LinkState
  <2>3. p \in Packet /\ p # NoPkt
    BY <2>2, RealPackets, Zenon
  <2> HIDE DEF p
  <2>4. A \in LinkState
    BY <2>3, Zenon DEF LinkState
  <2>5. /\ A.retry = L.retry /\ A.stalled = L.stalled /\ A.buffer = L.buffer
        /\ A.timeoutEvent = L.timeoutEvent /\ A.retransmit = L.retransmit
    BY Zenon DEF LinkState
  <2>6. Waiting(A) /\ Armed(A)
    BY <2>2, <2>5, Zenon DEF Progressing, Waiting, Armed
  <2> HIDE DEF A
  <2>7. T \in LinkState /\ Busy(T) /\ SameWork(A, T)
    BY <2>3, <2>4, TransmitWorks, Zenon
  <2>8. Waiting(T) /\ Armed(T)
    BY <2>4, <2>6, <2>7, SameWorkKeeps, Zenon
  <2> HIDE DEF T
  <2>9. M \in LinkState /\ SameWork(T, M) /\ M.packet = T.packet
    BY <2>7, CountersType, Zenon DEF SameWork, LinkState
  <2>10. Waiting(M) /\ Armed(M) /\ Busy(M)
    BY <2>7, <2>8, <2>9, SameWorkKeeps, Zenon DEF Busy
  <2> QED BY <2>1, <2>10, Zenon DEF Progressing, Working
<1> QED BY <1>1, <1>2, Zenon

(* Acknowledging: an Ack waits in replayDLLP only behind a busy wire. *)
LEMMA QueueAckWorks ==
  ASSUME NEW L \in LinkState, Progressing(L)
  PROVE  Progressing(QueueAck(L))
<1> DEFINE a == Ack(L.recvSeqNum)
<1>1. a \in Packet /\ a # NoPkt
  BY RealPackets, Zenon DEF LinkState
<1> HIDE DEF a
<1>2. CASE L.ackEvent # Off
  BY <1>2, Zenon DEF QueueAck
<1>3. CASE L.ackEvent = Off /\ Busy(L)
  <2> DEFINE M == [L EXCEPT !.replayDLLP = a, !.lastAcked = Dec(L.recvSeqNum),
                            !.ackEvent = AckTime]
  <2>1. QueueAck(L) = M
    BY <1>3, Zenon DEF QueueAck, a
  <2>2. SameWork(L, M) /\ M.packet = L.packet
    BY Zenon DEF SameWork, LinkState
  <2> HIDE DEF M
  <2>3. Waiting(M) /\ Armed(M) /\ Working(M)
    BY <1>3, <2>2, Zenon DEF SameWork, Progressing, Waiting, Armed, Working, Busy, Refuses
  <2> QED BY <2>1, <2>3, Zenon DEF Progressing
<1>4. CASE L.ackEvent = Off /\ ~Busy(L)
  <2> DEFINE M == Transmit(L, a)
  <2>1. QueueAck(L) = M
    BY <1>4, Zenon DEF QueueAck, a
  <2>2. M \in LinkState /\ Busy(M) /\ SameWork(L, M)
    BY <1>1, TransmitWorks, Zenon
  <2> HIDE DEF M
  <2>3. Waiting(M) /\ Armed(M)
    BY <2>2, SameWorkKeeps, Zenon DEF Progressing
  <2> QED BY <2>1, <2>2, <2>3, Zenon DEF Progressing, Working
<1> QED BY <1>2, <1>3, <1>4, Zenon

(* What Purge leaves of the replay buffer are entries that were in it. *)
LEMMA PurgeEntries ==
  ASSUME NEW buf \in Seq(Packet), NEW n \in Nat, \A i \in DOMAIN buf : buf[i] # NoPkt
  PROVE  \A j \in DOMAIN Purge(buf, n) : Purge(buf, n)[j] # NoPkt
<1>1. CASE Purge(buf, n) = <<>>
  BY <1>1
<1>2. CASE \E i \in DOMAIN buf : Purge(buf, n) = SubSeq(buf, i, Len(buf))
  <2>1. PICK i \in DOMAIN buf : Purge(buf, n) = SubSeq(buf, i, Len(buf))
    BY <1>2, Zenon
  <2>2. /\ i \in 1 .. Len(buf) /\ Len(buf) \in Nat /\ DOMAIN buf = 1 .. Len(buf)
    BY <2>1
  <2>3. \A j \in DOMAIN SubSeq(buf, i, Len(buf)) :
          /\ SubSeq(buf, i, Len(buf))[j] = buf[i + j - 1]
          /\ i + j - 1 \in DOMAIN buf
    BY <2>2
  <2> QED BY <2>1, <2>3, Zenon
<1> QED BY <1>1, <1>2, PurgeSuffix, Zenon

(* linkReceiveInterface: an Ack purges the buffer, restarts the timer if     *)
(* entries are left and wakes the devices; a TLP only queues an Ack.         *)
LEMMA ReceiveWorks ==
  ASSUME NEW L \in LinkState, NEW p \in Packet, NEW took \in BOOLEAN, Progressing(L)
  PROVE  Progressing(LinkReceiveInterface(L, p, took))
<1>1. Progressing(ReceiveTLP(L, p, took))
  <2> DEFINE M == [L EXCEPT !.recvSeqNum = @ + 1]
  <2>1. M \in LinkState
    BY CountersType, Zenon
  <2>2. SameWork(L, M) /\ M.packet = L.packet /\ M.replayDLLP = L.replayDLLP
    BY Zenon DEF SameWork, LinkState
  <2> HIDE DEF M
  <2>3. Progressing(M)
    BY <2>1, <2>2, SameWorkKeeps, Zenon DEF Progressing, Working, Busy, SameWork
  <2>4. Progressing(QueueAck(L)) /\ Progressing(QueueAck(M))
    BY <2>1, <2>3, QueueAckWorks, Zenon
  <2> QED BY <2>4, Zenon DEF ReceiveTLP, M
<1>2. Progressing(ReceiveDLLP(L, p))
  <2> DEFINE rest == Purge(L.buffer, p.seq)
             t == IF rest = <<>> THEN Off ELSE RetryTime
             A == [L EXCEPT !.buffer = rest, !.timeoutEvent = t]
  <2>1. L.buffer \in Seq(Packet) /\ p.seq \in Nat
    BY Zenon DEF LinkState, Packet
  <2>2. rest \in Seq(Packet) /\ \A j \in DOMAIN rest : rest[j] # NoPkt
    BY <2>1, PurgeType, PurgeEntries, Zenon DEF Progressing, Armed
  <2> HIDE DEF rest
  <2>3. t \in Timer /\ (rest # <<>> => t # Off)
    BY TimesType, Zenon DEF Timer
  <2> HIDE DEF t
  <2>4. A \in LinkState
    BY <2>2, <2>3, Zenon DEF LinkState
  <2>5. /\ A.buffer = rest /\ A.timeoutEvent = t /\ A.packet = L.packet
        /\ A.stalled = L.stalled /\ A.retry = L.retry /\ A.retransmit = L.retransmit
        /\ A.replayPacket = L.replayPacket /\ A.replayDLLP = L.replayDLLP
    BY Zenon DEF LinkState
  <2> HIDE DEF A
  <2> DEFINE M == SendRetries(A)
  <2>6. /\ Waiting(M) /\ M.buffer = rest /\ M.timeoutEvent = t /\ M.packet = L.packet
        /\ M.retransmit = L.retransmit
        /\ M.replayPacket = L.replayPacket /\ M.replayDLLP = L.replayDLLP
    BY <2>4, <2>5, RetriesClear DEF Progressing, Waiting
  <2> HIDE DEF M
  <2>7. Armed(M) /\ Working(M)
    BY <2>2, <2>3, <2>6, Zenon DEF Progressing, Armed, Working, Busy
  <2>8. ReceiveDLLP(L, p) = M
    BY Zenon DEF ReceiveDLLP, M, A, t, rest
  <2> QED BY <2>6, <2>7, <2>8, Zenon DEF Progressing
<1> QED BY <1>1, <1>2, Zenon DEF LinkReceiveInterface

-----------------------------------------------------------------------------
(* txDone, in its own order: the waiting Ack, the first transmission, the    *)
(* replay pass.                                                              *)

(* Starting the replay timer touches nothing else. *)
LEMMA ArmWorks ==
  ASSUME NEW L \in LinkState
  PROVE  LET M == Arm(L)
         IN /\ M \in LinkState /\ M.timeoutEvent # Off
            /\ M.stalled = L.stalled /\ M.retry = L.retry /\ M.buffer = L.buffer
            /\ M.retransmit = L.retransmit /\ M.retransmitIdx = L.retransmitIdx
            /\ M.replayPacket = L.replayPacket /\ M.replayDLLP = L.replayDLLP
            /\ M.packet = L.packet
<1>1. Arm(L) \in LinkState /\ RetryTime # Off
  BY ArmType, TimesType, Zenon
<1>2. CASE L.timeoutEvent = Off
  <2>1. Arm(L) = [L EXCEPT !.timeoutEvent = RetryTime]
    BY <1>2, Zenon DEF Arm
  <2> QED BY <1>1, <2>1, Zenon DEF LinkState
<1>3. CASE L.timeoutEvent # Off
  BY <1>1, <1>3, Zenon DEF Arm
<1> QED BY <1>2, <1>3, Zenon

(* The waiting Ack goes out first. *)
LEMMA PendingAckWorks ==
  ASSUME NEW L \in LinkState, Waiting(L), Armed(L)
  PROVE  LET M == SendPendingAck(L)
         IN M \in LinkState /\ Waiting(M) /\ Armed(M) /\ M.replayDLLP = NoPkt
<1>1. CASE L.replayDLLP = NoPkt
  BY <1>1, Zenon DEF SendPendingAck
<1>2. CASE L.replayDLLP # NoPkt
  <2> DEFINE T == Transmit(L, L.replayDLLP)
             M == [T EXCEPT !.replayDLLP = NoPkt]
  <2>1. L.replayDLLP \in Packet
    BY Zenon DEF LinkState
  <2>2. T \in LinkState /\ SameWork(L, T)
    BY <1>2, <2>1, TransmitWorks, Zenon
  <2> HIDE DEF T
  <2>3. M \in LinkState
    BY <2>2, NoPktType, Zenon DEF LinkState
  <2>4. SameWork(T, M) /\ M.replayDLLP = NoPkt
    BY <2>2, Zenon DEF SameWork, LinkState
  <2>5. SendPendingAck(L) = M
    BY <1>2, Zenon DEF SendPendingAck, T
  <2> HIDE DEF M
  <2>6. Waiting(M) /\ Armed(M)
    BY <2>2, <2>3, <2>4, SameWorkKeeps, Zenon
  <2> QED BY <2>3, <2>4, <2>5, <2>6, Zenon
<1> QED BY <1>1, <1>2, Zenon

(* The first transmission of a TLP moves it to the replay buffer, starts the *)
(* timer and wakes the devices.                                              *)
LEMMA StoreWorks ==
  ASSUME NEW L \in LinkState, NEW p \in Packet, p # NoPkt,
         Waiting(L), Armed(L), L.replayDLLP = NoPkt
  PROVE  LET M == StoreFirstTransmission(L, p)
         IN M \in LinkState /\ Waiting(M) /\ Armed(M) /\ M.replayDLLP = NoPkt
<1>1. CASE p # L.replayPacket
  BY <1>1, Zenon DEF StoreFirstTransmission
<1>2. CASE p = L.replayPacket
  <2> DEFINE b == PushBack(L.buffer, p)
             A == [L EXCEPT !.buffer = b, !.replayPacket = NoPkt]
             B == Arm(A)
             M == SendRetries(B)
  <2>1. L.buffer \in Seq(Packet)
    BY Zenon DEF LinkState
  <2>2. b \in Seq(Packet) /\ \A i \in DOMAIN b : b[i] # NoPkt
    BY <2>1 DEF PushBack, Armed
  <2>3. StoreFirstTransmission(L, p) = M
    BY <1>2, Zenon DEF StoreFirstTransmission
  <2> HIDE DEF b
  <2>4. A \in LinkState
    BY <2>2, NoPktType, Zenon DEF LinkState
  <2>5. A.stalled = L.stalled /\ A.retry = L.retry /\ A.buffer = b /\ A.replayDLLP = NoPkt
    BY Zenon DEF LinkState
  <2> HIDE DEF A
  <2>6. /\ B \in LinkState /\ B.timeoutEvent # Off /\ B.stalled = B.retry
        /\ B.buffer = b /\ B.replayDLLP = NoPkt
    BY <2>4, <2>5, ArmWorks, Zenon DEF Waiting
  <2> HIDE DEF B
  <2>7. /\ M \in LinkState /\ Waiting(M) /\ M.replayDLLP = NoPkt
        /\ M.buffer = b /\ M.timeoutEvent # Off
    BY <2>6, RetriesClear, Zenon
  <2> HIDE DEF M
  <2> QED BY <2>2, <2>3, <2>7, Zenon DEF Armed
<1> QED BY <1>1, <1>2, Zenon

(* A TLP whose first transmission had to wait goes out next. *)
LEMMA PendingTLPWorks ==
  ASSUME NEW L \in LinkState, Waiting(L), Armed(L), L.replayDLLP = NoPkt, ~L.retransmit
  PROVE  Progressing(SendPendingTLP(L))
<1>1. CASE L.replayPacket = NoPkt
  BY <1>1, Zenon DEF SendPendingTLP, Progressing, Working
<1>2. CASE L.replayPacket # NoPkt
  <2> DEFINE M == Transmit(L, L.replayPacket)
  <2>1. L.replayPacket \in Packet
    BY Zenon DEF LinkState
  <2>2. M \in LinkState /\ SameWork(L, M) /\ Busy(M)
    BY <1>2, <2>1, TransmitWorks, Zenon
  <2>3. SendPendingTLP(L) = M
    BY <1>2, Zenon DEF SendPendingTLP
  <2> HIDE DEF M
  <2>4. Waiting(M) /\ Armed(M)
    BY <2>2, SameWorkKeeps, Zenon
  <2> QED BY <2>2, <2>3, <2>4, Zenon DEF Progressing, Working
<1> QED BY <1>1, <1>2, Zenon

(* A replay pass goes on, or ends by waking the devices. *)
LEMMA ReplayWorks ==
  ASSUME NEW L \in LinkState, Waiting(L), Armed(L), L.replayDLLP = NoPkt
  PROVE  Progressing(Replay(L))
<1>1. CASE ~L.retransmit
  BY <1>1, PendingTLPWorks, Zenon DEF Replay
<1> DEFINE A == Arm(L)
<1>2. /\ A \in LinkState /\ A.timeoutEvent # Off
      /\ A.stalled = L.stalled /\ A.retry = L.retry /\ A.buffer = L.buffer
      /\ A.retransmit = L.retransmit /\ A.retransmitIdx = L.retransmitIdx
      /\ A.replayPacket = L.replayPacket /\ A.replayDLLP = NoPkt
  BY ArmWorks, Zenon
<1>3. L.buffer \in Seq(Packet) /\ L.retransmitIdx \in Nat
  BY Zenon DEF LinkState
<1>4. CASE L.retransmit /\ L.retransmitIdx >= Len(L.buffer)
  <2> DEFINE E == [A EXCEPT !.retransmitIdx = 0, !.retransmit = FALSE]
             M == SendRetries(E)
  <2>1. Replay(L) = SendPendingTLP(M)
    BY <1>4, Zenon DEF Replay
  <2> HIDE DEF A
  <2>2. E \in LinkState
    BY <1>2, Zenon DEF LinkState
  <2>3. /\ E.stalled = E.retry /\ E.buffer = L.buffer /\ E.timeoutEvent # Off
        /\ E.replayDLLP = NoPkt /\ ~E.retransmit
    BY <1>2, Zenon DEF Waiting, LinkState
  <2> HIDE DEF E
  <2>4. /\ M \in LinkState /\ Waiting(M) /\ M.buffer = L.buffer /\ M.timeoutEvent # Off
        /\ M.replayDLLP = NoPkt /\ ~M.retransmit
    BY <2>2, <2>3, RetriesClear, Zenon
  <2> HIDE DEF M
  <2>5. Armed(M)
    BY <2>4, Zenon DEF Armed
  <2> QED BY <2>1, <2>4, <2>5, PendingTLPWorks, Zenon
<1>5. CASE L.retransmit /\ ~(L.retransmitIdx >= Len(L.buffer))
  <2> DEFINE q == L.buffer[L.retransmitIdx + 1]
             T == Transmit(A, q)
             M == [T EXCEPT !.retransmitIdx = @ + 1]
  <2>1. Replay(L) = M
    BY <1>5, Zenon DEF Replay
  <2>2. L.retransmitIdx + 1 \in DOMAIN L.buffer
    BY <1>3, <1>5
  <2>3. q \in Packet /\ q # NoPkt
    BY <1>3, <2>2 DEF Armed
  <2> HIDE DEF A, q
  <2>4. Waiting(A) /\ Armed(A)
    BY <1>2, Zenon DEF Waiting, Armed, Refuses
  <2>5. T \in LinkState /\ Busy(T) /\ SameWork(A, T)
    BY <1>2, <2>3, TransmitWorks, Zenon
  <2> HIDE DEF T
  <2>6. M \in LinkState /\ SameWork(T, M) /\ M.packet = T.packet
    BY <2>5, CountersType, Zenon DEF SameWork, LinkState
  <2> HIDE DEF M
  <2>7. Waiting(M) /\ Armed(M)
    BY <1>2, <2>4, <2>5, <2>6, SameWorkKeeps, Zenon
  <2> QED BY <2>1, <2>5, <2>6, <2>7, Zenon DEF Progressing, Working, Busy
<1> QED BY <1>1, <1>4, <1>5, Zenon

(* txDone after the hand-over. *)
LEMMA AfterTransmissionWorks ==
  ASSUME NEW L \in LinkState, Busy(L), Progressing(L)
  PROVE  Progressing(AfterTransmission(L))
<1> DEFINE A == [L EXCEPT !.packet = NoPkt]
           B == SendPendingAck(A)
           C == StoreFirstTransmission(B, L.packet)
<1>1. A \in LinkState /\ L.packet \in Packet /\ L.packet # NoPkt
  BY NoPktType, Zenon DEF LinkState, Busy
<1>2. SameWork(L, A)
  BY Zenon DEF SameWork, LinkState
<1>3. AfterTransmission(L) = Replay(C)
  BY Zenon DEF AfterTransmission
<1> HIDE DEF A
<1>4. Waiting(A) /\ Armed(A)
  BY <1>1, <1>2, SameWorkKeeps, Zenon DEF Progressing
<1>5. B \in LinkState /\ Waiting(B) /\ Armed(B) /\ B.replayDLLP = NoPkt
  BY <1>1, <1>4, PendingAckWorks, Zenon
<1> HIDE DEF B
<1>6. C \in LinkState /\ Waiting(C) /\ Armed(C) /\ C.replayDLLP = NoPkt
  BY <1>1, <1>5, StoreWorks, Zenon
<1> HIDE DEF C
<1> QED BY <1>3, <1>6, ReplayWorks, Zenon

(* Steps that leave the work, the wire and the waiting Ack alone. *)
LEMMA SameProgress ==
  ASSUME NEW L \in LinkState, NEW M \in LinkState, Progressing(L), SameWork(L, M),
         M.packet = L.packet, M.replayDLLP = L.replayDLLP
  PROVE  Progressing(M)
<1>1. Waiting(M) /\ Armed(M)
  BY SameWorkKeeps, Zenon DEF Progressing
<1>2. Working(M)
  BY Zenon DEF Progressing, Working, Busy, SameWork
<1> QED BY <1>1, <1>2, Zenon DEF Progressing

-----------------------------------------------------------------------------
(* The timers. *)

(* timeoutFunc: the expired timer is replaced by a replay pass. *)
LEMMA TimeoutWorks ==
  ASSUME NEW L \in LinkState, Progressing(L)
  PROVE  Progressing(TimeoutFunc([L EXCEPT !.timeoutEvent = Off]))
<1> DEFINE T == [L EXCEPT !.timeoutEvent = Off]
<1>1. T \in LinkState
  BY Zenon DEF LinkState, Timer
<1>2. /\ T.stalled = L.stalled /\ T.retry = L.retry /\ T.buffer = L.buffer
      /\ T.retransmit = L.retransmit /\ T.replayPacket = L.replayPacket
      /\ T.replayDLLP = L.replayDLLP /\ T.packet = L.packet
  BY Zenon DEF LinkState
<1> HIDE DEF T
<1>3. CASE T.buffer = <<>> \/ T.retransmit
  <2>1. TimeoutFunc(T) = T
    BY <1>3, Zenon DEF TimeoutFunc
  <2>2. Waiting(T) /\ Armed(T) /\ Working(T)
    BY <1>2, <1>3, Zenon DEF Progressing, Waiting, Armed, Working, Refuses, Busy
  <2> QED BY <2>1, <2>2, Zenon DEF Progressing, T
<1>4. CASE ~(T.buffer = <<>> \/ T.retransmit)
  <2> DEFINE q == T.buffer[1]
             U == Transmit(T, q)
             n == IF Busy(T) THEN 0 ELSE 1
             M == [U EXCEPT !.retransmit = TRUE, !.retransmitIdx = n]
  <2>1. TimeoutFunc(T) = M
    BY <1>4, Zenon DEF TimeoutFunc
  <2>2. T.buffer \in Seq(Packet) /\ T.buffer # <<>>
    BY <1>1, <1>4, Zenon DEF LinkState
  <2>3. q \in Packet /\ q # NoPkt
    BY <1>2, <2>2 DEF Progressing, Armed
  <2> HIDE DEF q, n
  <2>4. U \in LinkState /\ Busy(U) /\ SameWork(T, U)
    BY <1>1, <2>3, TransmitWorks, Zenon
  <2> HIDE DEF U
  <2>5. /\ M.stalled = L.stalled /\ M.retry = L.retry /\ M.buffer = L.buffer
        /\ M.retransmit = TRUE /\ M.packet = U.packet
    BY <1>2, <2>4, Zenon DEF SameWork, LinkState
  <2> HIDE DEF M
  <2>6. Waiting(M) /\ Armed(M) /\ Working(M)
    BY <2>4, <2>5, Zenon DEF Progressing, Waiting, Armed, Working, Refuses, Busy
  <2> QED BY <2>1, <2>6, Zenon DEF Progressing, T
<1> QED BY <1>3, <1>4, Zenon

(* sendAck: the coalesced Ack is sent or waits behind a busy wire. *)
LEMMA SendAckWorks ==
  ASSUME NEW L \in LinkState, Progressing(L)
  PROVE  Progressing(SendAck([L EXCEPT !.ackEvent = Off]))
<1> DEFINE T == [L EXCEPT !.ackEvent = Off]
<1>1. T \in LinkState
  BY Zenon DEF LinkState, Timer
<1>2. SameWork(L, T) /\ T.packet = L.packet /\ T.replayDLLP = L.replayDLLP
  BY Zenon DEF SameWork, LinkState
<1> HIDE DEF T
<1>3. Progressing(T)
  BY <1>1, <1>2, SameProgress, Zenon
<1> DEFINE a == Ack(T.recvSeqNum)
           d == Dec(T.recvSeqNum)
           A == [T EXCEPT !.lastAcked = d, !.ackEvent = AckTime]
<1>4. a \in Packet /\ a # NoPkt /\ d \in Nat
  BY <1>1, RealPackets, AckType, Zenon DEF LinkState
<1>5. SendAck(T) = IF T.lastAcked = d THEN T
                   ELSE IF Busy(A) THEN [A EXCEPT !.replayDLLP = a] ELSE Transmit(A, a)
  BY Zenon DEF SendAck
<1> HIDE DEF a, d
<1>6. A \in LinkState
  BY <1>1, <1>4, TimesType, Zenon DEF LinkState, Timer
<1>7. SameWork(T, A) /\ A.packet = T.packet /\ A.replayDLLP = T.replayDLLP
  BY <1>1, Zenon DEF SameWork, LinkState
<1> HIDE DEF A
<1>8. Progressing(A)
  BY <1>1, <1>3, <1>6, <1>7, SameProgress, Zenon
<1>9. Busy(A) => Progressing([A EXCEPT !.replayDLLP = a])
  <2> DEFINE M == [A EXCEPT !.replayDLLP = a]
  <2>1. M \in LinkState
    BY <1>4, <1>6, Zenon DEF LinkState
  <2>2. SameWork(A, M) /\ M.packet = A.packet
    BY <1>6, Zenon DEF SameWork, LinkState
  <2> HIDE DEF M
  <2>3. Waiting(M) /\ Armed(M)
    BY <1>6, <1>8, <2>1, <2>2, SameWorkKeeps, Zenon DEF Progressing
  <2>4. Busy(A) => Progressing(M)
    BY <2>2, <2>3, Zenon DEF Progressing, Working, Busy
  <2> QED BY <2>4, Zenon DEF M
<1>10. Progressing(Transmit(A, a))
  <2> DEFINE M == Transmit(A, a)
  <2>1. M \in LinkState /\ Busy(M) /\ SameWork(A, M)
    BY <1>4, <1>6, TransmitWorks, Zenon
  <2> HIDE DEF M
  <2>2. Waiting(M) /\ Armed(M)
    BY <1>6, <1>8, <2>1, SameWorkKeeps, Zenon DEF Progressing
  <2>3. Progressing(M)
    BY <2>1, <2>2, Zenon DEF Progressing, Working
  <2> QED BY <2>3, Zenon DEF M
<1> QED BY <1>3, <1>5, <1>9, <1>10, Zenon DEF T

(* Time passing stops no timer. *)
LEMMA ElapseWorks ==
  ASSUME NEW L \in LinkState, Progressing(L)
  PROVE  Progressing(Elapse(L))
<1> DEFINE M == Elapse(L)
<1>1. \A t \in Timer : t # Off => CountDown(t) # Off
  BY DEF Timer, Off, CountDown
<1>2. L.timeoutEvent \in Timer
  BY Zenon DEF LinkState
<1>3. /\ M.stalled = L.stalled /\ M.retry = L.retry /\ M.buffer = L.buffer
      /\ M.retransmit = L.retransmit /\ M.replayPacket = L.replayPacket
      /\ M.replayDLLP = L.replayDLLP /\ M.packet = L.packet
      /\ M.timeoutEvent = CountDown(L.timeoutEvent)
  BY Zenon DEF LinkState, Elapse
<1> HIDE DEF M
<1>4. Waiting(M) /\ Armed(M) /\ Working(M)
  BY <1>1, <1>2, <1>3, Zenon DEF Progressing, Waiting, Armed, Working, Refuses, Busy
<1> QED BY <1>4, Zenon DEF Progressing, M

-----------------------------------------------------------------------------
(* Every step of the simulation. *)
AllProgress == \A l \in Links : Progressing(link[l])

(* No event of either interface leaves the other one asleep. *)
LEMMA ProgressStep ==
  ASSUME TypeOK, AllProgress, [Next]_vars
  PROVE  AllProgress'
<1>1. ASSUME NEW l \in Links, NEW k \in Kind, Offer(l, k)
      PROVE  AllProgress'
  <2>1. link[l] \in LinkState /\ Progressing(link[l])
    BY Zenon DEF TypeOK, AllProgress
  <2>2. Progressing(TransmitInterface(link[l], k))
    BY <2>1, TransmitInterfaceWorks, Zenon
  <2>3. link' = [link EXCEPT ![l] = TransmitInterface(link[l], k)]
    BY <1>1, Zenon DEF Offer
  <2> QED BY <2>2, <2>3, Zenon DEF AllProgress, TypeOK
<1>2. ASSUME NEW l \in Links, NEW took \in BOOLEAN, TxDone(l, took)
      PROVE  AllProgress'
  <2> DEFINE p == link[l].packet
             P == Propagate(link[l], p)
  <2>1. /\ link[l] \in LinkState /\ link[Other(l)] \in LinkState /\ p \in Packet
        /\ Progressing(link[l]) /\ Progressing(link[Other(l)]) /\ Busy(link[l])
    BY <1>2, OtherEnd, Zenon DEF TypeOK, LinkState, AllProgress, TxDone
  <2>2. P \in LinkState
    BY <2>1, PropagateType, Zenon
  <2>3. SameWork(link[l], P) /\ P.packet = p /\ P.replayDLLP = link[l].replayDLLP
    BY <2>1, Zenon DEF SameWork, LinkState, Propagate
  <2> HIDE DEF P
  <2>4. Progressing(P) /\ Busy(P)
    BY <2>1, <2>2, <2>3, SameProgress, Zenon DEF Busy
  <2>5. /\ Progressing(AfterTransmission(link[l])) /\ Progressing(AfterTransmission(P))
        /\ Progressing(LinkReceiveInterface(link[Other(l)], p, took))
    BY <2>1, <2>2, <2>4, AfterTransmissionWorks, ReceiveWorks, Zenon
  <2>6. CASE LinkDelay > 0
    <3>1. link' = [link EXCEPT ![l] = AfterTransmission(P)]
      BY <1>2, <2>6, Zenon DEF TxDone, P
    <3> QED BY <2>5, <3>1, Zenon DEF AllProgress, TypeOK
  <2>7. CASE ~(LinkDelay > 0)
    <3>1. link' = [link EXCEPT ![l] = AfterTransmission(link[l]),
                               ![Other(l)] = LinkReceiveInterface(link[Other(l)], p, took)]
      BY <1>2, <2>7, OtherEnd, Zenon DEF TxDone, TypeOK
    <3> QED BY <2>5, <3>1, Zenon DEF AllProgress, TypeOK
  <2> QED BY <2>6, <2>7, Zenon
<1>3. ASSUME NEW l \in Links, NEW took \in BOOLEAN, ProcessTxQueue(l, took)
      PROVE  AllProgress'
  <2> DEFINE q == Head(link[l].txQueue).pkt
             M == [link[l] EXCEPT !.txQueue = Tail(link[l].txQueue)]
             R == LinkReceiveInterface(link[Other(l)], q, took)
  <2>1. /\ link[l] \in LinkState /\ link[Other(l)] \in LinkState
        /\ Progressing(link[l]) /\ Progressing(link[Other(l)])
    BY OtherEnd, Zenon DEF TypeOK, AllProgress
  <2>2. link[l].txQueue \in Seq(Delayed) /\ link[l].txQueue # <<>>
    BY <1>3, <2>1, Zenon DEF ProcessTxQueue, LinkState
  <2>3. Head(link[l].txQueue) \in Delayed /\ Tail(link[l].txQueue) \in Seq(Delayed)
    BY <2>2
  <2>4. q \in Packet
    BY <2>3, Zenon DEF Delayed
  <2>5. M \in LinkState
    BY <2>1, <2>3, Zenon DEF LinkState
  <2>6. SameWork(link[l], M) /\ M.packet = link[l].packet
        /\ M.replayDLLP = link[l].replayDLLP
    BY <2>1, Zenon DEF SameWork, LinkState
  <2>7. link' = [link EXCEPT ![l] = M, ![Other(l)] = R]
    BY <1>3, OtherEnd, Zenon DEF ProcessTxQueue, TypeOK
  <2> HIDE DEF M, q
  <2>8. Progressing(M) /\ Progressing(R)
    BY <2>1, <2>4, <2>5, <2>6, SameProgress, ReceiveWorks, Zenon
  <2> HIDE DEF R
  <2> QED BY <2>7, <2>8, Zenon DEF AllProgress, TypeOK
<1>4. ASSUME NEW l \in Links, TimeoutEvent(l)
      PROVE  AllProgress'
  <2> DEFINE M == TimeoutFunc([link[l] EXCEPT !.timeoutEvent = Off])
  <2>1. Progressing(M)
    BY TimeoutWorks, Zenon DEF TypeOK, AllProgress
  <2>2. link' = [link EXCEPT ![l] = M]
    BY <1>4, Zenon DEF TimeoutEvent
  <2> HIDE DEF M
  <2> QED BY <2>1, <2>2, Zenon DEF AllProgress, TypeOK
<1>5. ASSUME NEW l \in Links, AckEvent(l)
      PROVE  AllProgress'
  <2> DEFINE M == SendAck([link[l] EXCEPT !.ackEvent = Off])
  <2>1. Progressing(M)
    BY SendAckWorks, Zenon DEF TypeOK, AllProgress
  <2>2. link' = [link EXCEPT ![l] = M]
    BY <1>5, Zenon DEF AckEvent
  <2> HIDE DEF M
  <2> QED BY <2>1, <2>2, Zenon DEF AllProgress, TypeOK
<1>6. CASE Tick
  <2>1. \A l \in Links : Progressing(Elapse(link[l]))
    BY ElapseWorks, Zenon DEF TypeOK, AllProgress
  <2> QED BY <1>6, <2>1, Zenon DEF AllProgress, Tick
<1>7. CASE UNCHANGED vars
  BY <1>7, Zenon DEF AllProgress, vars
<1> QED BY <1>1, <1>2, <1>3, <1>4, <1>5, <1>6, <1>7, Zenon DEF Next

(* The interfaces always have their work under way. *)
LEMMA ProgressInvariant == Spec => [](TypeOK /\ AllProgress)
<1>1. Init => AllProgress
  <2>1. Progressing(NewLink)
    BY DEF NewLink, Progressing, Waiting, Armed, Working, NoPkt
  <2> QED BY <2>1, Zenon DEF Init, AllProgress
<1>2. TypeOK /\ AllProgress /\ [Next]_vars => AllProgress'
  BY ProgressStep, Zenon
<1> QED BY <1>1, <1>2, TypeInductive, PTL DEF Spec

(* No lost wake-up in pcie_link.cc, for every buffer size, delay and number  *)
(* of packets: a device that was refused is always remembered by the flag    *)
(* that txDone or an Ack looks at, and the cause of the refusal is still     *)
(* there.                                                                    *)
THEOREM NoLostRetry == Spec => []RetryPending
<1>1. TypeOK /\ AllProgress => RetryPending
  BY Zenon DEF AllProgress, Progressing, Waiting, RetryPending
<1> QED BY <1>1, ProgressInvariant, PTL

(* No sleeping link: unacknowledged packets always have a running replay     *)
(* timer or a replay pass, and a pass or a waiting packet always has a       *)
(* transmission whose txDone continues it.                                   *)
THEOREM ReplayAlwaysArmed == Spec => []ReplayArmed
<1>1. TypeOK /\ AllProgress => ReplayArmed
  BY Zenon DEF AllProgress, Progressing, Armed, Working, ReplayArmed
<1> QED BY <1>1, ProgressInvariant, PTL
=============================================================================
