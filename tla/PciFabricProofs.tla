-------------------------- MODULE PciFabricProofs ---------------------------
(***************************************************************************)
(* Proofs about two bridges and the link between them, for any number of   *)
(* ports and requests and any size of the queues: no promised retry is     *)
(* forgotten.  The last part is about the lists that packets wait in and   *)
(* where the wiring lets a packet be, for PciFabricSlots.                  *)
(***************************************************************************)
EXTENDS PciFabric, WellFoundedInduction, TLAPS

(* More time than by default for the provers. *)
USE SMTT(30), ZenonT(30)

-----------------------------------------------------------------------------
(* Ports. *)

(* A nonempty set of ports has a first one. *)
LEMMA FirstExists ==
  ASSUME NEW S \in SUBSET Nat, S # {}
  PROVE  \E x \in S : \A y \in S : x <= y
<1> DEFINE R == OpToRel(<, Nat)
<1>1. IsWellFoundedOn(R, Nat)
  BY NatLessThanWellFounded, ZenonT(30)
<1>2. \A x, y \in Nat : y < x => <<y, x>> \in R
  BY Zenon DEF OpToRel
<1> HIDE DEF R
<1>3. PICK x \in S : \A y \in S : ~(<<y, x>> \in R)
  BY <1>1, WFMin, ZenonT(30)
<1>4. \A y \in S : ~(y < x)
  BY <1>2, <1>3, ZenonT(30)
<1> QED BY <1>4

(* getMasterPort and getSlavePort return one of the ports they look at, or 0.*)
LEMMA FirstPortIsPort ==
  ASSUME NEW S \in SUBSET Ports
  PROVE  FirstPort(S) \in Configs /\ (S # {} => FirstPort(S) \in S)
<1>1. Ports \subseteq Nat /\ Ports \subseteq Configs /\ 0 \in Configs
  BY ConfigAssumption DEF Ports, Configs
<1>2. CASE S = {}
  BY <1>1, <1>2, Zenon DEF FirstPort
<1>3. CASE S # {}
  <2>1. \E x \in S : \A y \in S : x <= y
    BY <1>1, <1>3, FirstExists, Zenon
  <2>2. FirstPort(S) \in S
    BY <1>3, <2>1, Zenon DEF FirstPort
  <2> QED BY <1>1, <2>2, ZenonT(30)
<1> QED BY <1>2, <1>3, Zenon

-----------------------------------------------------------------------------
(* Sequences, as the provers know them. *)

(* Length and domain of a sequence. *)
LEMMA SeqLen ==
  ASSUME NEW S, NEW q \in Seq(S)
  PROVE  Len(q) \in Nat /\ DOMAIN q = 1 .. Len(q) /\ q \in [1 .. Len(q) -> S]
OBVIOUS

(* The empty sequence. *)
LEMMA SeqEmpty ==
  ASSUME NEW S
  PROVE  /\ <<>> \in Seq(S) /\ Len(<<>>) = 0
         /\ \A q \in Seq(S) : q # <<>> => Len(q) \in Nat \ {0}
OBVIOUS

(* One element more. *)
LEMMA SeqAppend ==
  ASSUME NEW S, NEW q \in Seq(S), NEW e \in S
  PROVE  /\ Append(q, e) \in Seq(S) /\ Append(q, e) # <<>>
         /\ Len(Append(q, e)) = Len(q) + 1
         /\ \A i \in 1 .. Len(q) : Append(q, e)[i] = q[i]
         /\ Append(q, e)[Len(q) + 1] = e
OBVIOUS

(* One element less. *)
LEMMA SeqHeadTail ==
  ASSUME NEW S, NEW q \in Seq(S), q # <<>>
  PROVE  /\ Head(q) \in S /\ Tail(q) \in Seq(S)
         /\ Len(Tail(q)) = Len(q) - 1
         /\ \A i \in 1 .. Len(Tail(q)) : Tail(q)[i] = q[i + 1]
OBVIOUS

-----------------------------------------------------------------------------
(* The shape of a bridge's state.  A queue waits for an event or for a retry *)
(* of its peer exactly while it holds something.                             *)
Evs == {"none", "sched", "wait"}
MasterType == [list : Seq(Reqs), ev : Evs]
SlaveType == [list : Seq(Reqs), ev : Evs, outstanding : Int, retryReq : BOOLEAN]
BridgeType == [slave : [Configs -> SlaveType], master : [Configs -> MasterType]]

QueueOK(q) == q.ev = "none" <=> q.list = <<>>
BridgeOK(b) ==
  /\ b \in BridgeType
  /\ \A p \in Configs : QueueOK(b.slave[p]) /\ QueueOK(b.master[p])

Packets == {"req", "resp"} \X Reqs
Stages == {"ready", "stalled", "sent", "served", "done"}
FabricOK ==
  /\ bridge \in [Bridges -> BridgeType]
  /\ \A b \in Bridges : BridgeOK(bridge[b])
  /\ reqBus \in [Reqs -> Int]
  /\ wire \in [{"down", "up"} -> Seq(Packets)]
  /\ stage \in [Reqs -> Stages]

-----------------------------------------------------------------------------
(* Routing finds a port of the bridge. *)

(* Each request has a master port in each bridge (getMasterPort). *)
LEMMA MasterPortIsPort ==
  ASSUME NEW b \in Bridges, NEW r \in Reqs
  PROVE  MasterPort[b][r] \in Configs
<1>1. GetMasterPort(Config[b], Addr[r]) \in Configs
  BY FirstPortIsPort, Zenon DEF GetMasterPort
<1> QED BY <1>1, Zenon DEF MasterPort

(* Each response has a slave port (getSlavePort). *)
LEMMA SlavePortIsPort ==
  ASSUME NEW c, NEW bus
  PROVE  GetSlavePort(c, bus) \in Configs
BY FirstPortIsPort, Zenon DEF GetSlavePort

-----------------------------------------------------------------------------
(* What the handlers of a bridge leave behind. *)

(* Facts about lists that the provers need spelled out. *)
LEMMA TailEmpty ==
  ASSUME NEW S, NEW q \in Seq(S), q # <<>>
  PROVE  /\ Tail(q) \in Seq(S) /\ Head(q) \in S /\ Len(q) \in Nat \ {0}
         /\ Len(Tail(q)) = Len(q) - 1 /\ (Tail(q) = <<>> <=> Len(q) = 1)
<1>1. Tail(q) \in Seq(S) /\ Head(q) \in S /\ Len(q) \in Nat \ {0} /\ Len(Tail(q)) = Len(q) - 1
  BY SeqEmpty
<1>2. Tail(q) = <<>> => Len(Tail(q)) = 0
  BY SeqEmpty, ZenonT(30)
<1>3. Tail(q) # <<>> => Len(Tail(q)) # 0
  BY <1>1, SeqEmpty, Zenon
<1> QED BY <1>1, <1>2, <1>3

(* schedTimingReq and schedTimingResp. *)
LEMMA EnqueueOK ==
  ASSUME NEW r \in Reqs
  PROVE  /\ \A q \in MasterType : QueueOK(q) =>
              /\ Enqueue(q, r) \in MasterType /\ QueueOK(Enqueue(q, r))
              /\ Enqueue(q, r).list = Append(q.list, r)
         /\ \A q \in SlaveType : QueueOK(q) =>
              /\ Enqueue(q, r) \in SlaveType /\ QueueOK(Enqueue(q, r))
              /\ Enqueue(q, r).list = Append(q.list, r)
              /\ Enqueue(q, r).outstanding = q.outstanding
              /\ Enqueue(q, r).retryReq = q.retryReq
<1>1. ASSUME NEW q \in MasterType, QueueOK(q)
      PROVE  /\ Enqueue(q, r) \in MasterType /\ QueueOK(Enqueue(q, r))
             /\ Enqueue(q, r).list = Append(q.list, r)
  <2> DEFINE n == Enqueue(q, r)
  <2>1. q.list \in Seq(Reqs) /\ q.ev \in Evs
    BY Zenon DEF MasterType
  <2>2. /\ n.list = Append(q.list, r)
        /\ n.ev = IF q.list = <<>> THEN "sched" ELSE q.ev
    BY Zenon DEF MasterType, Enqueue
  <2>3. Append(q.list, r) \in Seq(Reqs) /\ Append(q.list, r) # <<>>
    BY <2>1, SeqAppend
  <2>4. n \in MasterType
    BY <2>3, ZenonT(30) DEF MasterType, Enqueue, Evs
  <2>5. n.ev # "none"
    BY <1>1, <2>2, Zenon DEF QueueOK
  <2> QED BY <2>2, <2>3, <2>4, <2>5, Zenon DEF QueueOK
<1>2. ASSUME NEW q \in SlaveType, QueueOK(q)
      PROVE  /\ Enqueue(q, r) \in SlaveType /\ QueueOK(Enqueue(q, r))
             /\ Enqueue(q, r).list = Append(q.list, r)
             /\ Enqueue(q, r).outstanding = q.outstanding
             /\ Enqueue(q, r).retryReq = q.retryReq
  <2> DEFINE n == Enqueue(q, r)
  <2>1. q.list \in Seq(Reqs) /\ q.ev \in Evs
    BY Zenon DEF SlaveType
  <2>2. /\ n.list = Append(q.list, r)
        /\ n.ev = IF q.list = <<>> THEN "sched" ELSE q.ev
        /\ n.outstanding = q.outstanding
        /\ n.retryReq = q.retryReq
    BY Zenon DEF SlaveType, Enqueue
  <2>3. Append(q.list, r) \in Seq(Reqs) /\ Append(q.list, r) # <<>>
    BY <2>1, SeqAppend
  <2>4. n \in SlaveType
    BY <2>3, ZenonT(30) DEF SlaveType, Enqueue, Evs
  <2>5. n.ev # "none"
    BY <1>2, <2>2, Zenon DEF QueueOK
  <2> QED BY <2>2, <2>3, <2>4, <2>5, Zenon DEF QueueOK
<1> QED BY <1>1, <1>2, Zenon

(* trySendTiming, when the peer takes the head of the list. *)
LEMMA DequeueOK ==
  /\ \A q \in MasterType : QueueOK(q) /\ q.ev # "none" =>
       /\ Dequeue(q) \in MasterType /\ QueueOK(Dequeue(q))
       /\ Dequeue(q).list = Tail(q.list)
       /\ Head(q.list) \in Reqs /\ q.list # <<>>
  /\ \A q \in SlaveType : QueueOK(q) /\ q.ev # "none" =>
       /\ Dequeue(q) \in SlaveType /\ QueueOK(Dequeue(q))
       /\ Dequeue(q).list = Tail(q.list)
       /\ Head(q.list) \in Reqs /\ q.list # <<>>
       /\ Dequeue(q).outstanding = q.outstanding
       /\ Dequeue(q).retryReq = q.retryReq
<1>1. ASSUME NEW q \in MasterType, QueueOK(q), q.ev # "none"
      PROVE  /\ Dequeue(q) \in MasterType /\ QueueOK(Dequeue(q))
             /\ Dequeue(q).list = Tail(q.list)
             /\ Head(q.list) \in Reqs /\ q.list # <<>>
  <2> DEFINE n == Dequeue(q)
  <2>1. q.list \in Seq(Reqs) /\ q.ev \in Evs /\ q.list # <<>>
    BY <1>1, Zenon DEF MasterType, QueueOK
  <2>2. /\ n.list = Tail(q.list)
        /\ n.ev = IF Len(q.list) = 1 THEN "none" ELSE "sched"
    BY Zenon DEF MasterType, Dequeue
  <2>3. Tail(q.list) \in Seq(Reqs) /\ Head(q.list) \in Reqs
    BY <2>1
  <2>4. n \in MasterType
    BY <2>3, ZenonT(30) DEF MasterType, Dequeue, Evs
  <2>5. Tail(q.list) = <<>> <=> Len(q.list) = 1
    BY <2>1, TailEmpty, Zenon
  <2> QED BY <2>1, <2>2, <2>3, <2>4, <2>5 DEF QueueOK
<1>2. ASSUME NEW q \in SlaveType, QueueOK(q), q.ev # "none"
      PROVE  /\ Dequeue(q) \in SlaveType /\ QueueOK(Dequeue(q))
             /\ Dequeue(q).list = Tail(q.list)
             /\ Head(q.list) \in Reqs /\ q.list # <<>>
             /\ Dequeue(q).outstanding = q.outstanding
             /\ Dequeue(q).retryReq = q.retryReq
  <2> DEFINE n == Dequeue(q)
  <2>1. q.list \in Seq(Reqs) /\ q.ev \in Evs /\ q.list # <<>>
    BY <1>2, Zenon DEF SlaveType, QueueOK
  <2>2. /\ n.list = Tail(q.list)
        /\ n.ev = IF Len(q.list) = 1 THEN "none" ELSE "sched"
        /\ n.outstanding = q.outstanding
        /\ n.retryReq = q.retryReq
    BY Zenon DEF SlaveType, Dequeue
  <2>3. Tail(q.list) \in Seq(Reqs) /\ Head(q.list) \in Reqs
    BY <2>1
  <2>4. n \in SlaveType
    BY <2>3, ZenonT(30) DEF SlaveType, Dequeue, Evs
  <2>5. Tail(q.list) = <<>> <=> Len(q.list) = 1
    BY <2>1, TailEmpty, Zenon
  <2> QED BY <2>1, <2>2, <2>3, <2>4, <2>5, Zenon DEF QueueOK
<1> QED BY <1>1, <1>2, Zenon

-----------------------------------------------------------------------------
(* Each handler leaves a bridge of the right shape, and changes these fields.*)
SameSlave(x, y) == x.list = y.list /\ x.outstanding = y.outstanding

(* What recvTimingReq makes of the state b of a bridge when it takes r and   *)
(* when it refuses, and what recvTimingResp makes of it.                     *)
OneRequest(b, n, s, m, r, k) ==
  /\ n.master[m].list = Append(b.master[m].list, r)
  /\ \A p \in Configs \ {m} : n.master[p] = b.master[p]
  /\ \A p \in Configs : n.slave[p].list = b.slave[p].list
  /\ \A p \in Configs : n.slave[p].retryReq = b.slave[p].retryReq
  /\ \A p \in Configs \ {s} : n.slave[p].outstanding = b.slave[p].outstanding
  /\ n.slave[s].outstanding = b.slave[s].outstanding + k
OneRefusal(b, n, s) ==
  /\ n.master = b.master
  /\ \A p \in Configs : SameSlave(n.slave[p], b.slave[p])
  /\ \A p \in Configs \ {s} : n.slave[p].retryReq = b.slave[p].retryReq
  /\ n.slave[s].retryReq
OneResponse(b, n, s, r) ==
  /\ n.master = b.master
  /\ n.slave[s].list = Append(b.slave[s].list, r)
  /\ \A p \in Configs \ {s} : n.slave[p].list = b.slave[p].list
  /\ \A p \in Configs : n.slave[p].outstanding = b.slave[p].outstanding
  /\ \A p \in Configs : n.slave[p].retryReq = b.slave[p].retryReq

(* recvTimingReq of slave port s, which takes the request. *)
LEMMA ReqTaken ==
  ASSUME NEW b, BridgeOK(b), NEW s \in Configs, NEW m \in Configs, NEW r \in Reqs,
         NEW needs \in BOOLEAN, Takes(b, s, m, needs)
  PROVE  /\ BridgeOK(RecvTimingReq(b, s, m, r, needs))
         /\ OneRequest(b, RecvTimingReq(b, s, m, r, needs), s, m, r, IF needs THEN 1 ELSE 0)
<1> DEFINE n == RecvTimingReq(b, s, m, r, needs)
           k == IF needs THEN 1 ELSE 0
           t == [b.slave[s] EXCEPT !.outstanding = @ + k]
<1>0. /\ b \in BridgeType /\ b.slave \in [Configs -> SlaveType]
      /\ b.master \in [Configs -> MasterType]
      /\ \A p \in Configs : QueueOK(b.slave[p]) /\ QueueOK(b.master[p])
  BY Zenon DEF BridgeOK, BridgeType
<1>1. /\ n = [b EXCEPT !.master = [b.master EXCEPT ![m] = Enqueue(b.master[m], r)],
                       !.slave = [b.slave EXCEPT ![s] = t]]
  BY <1>0, Zenon DEF RecvTimingReq, BridgeType
<1>k. k \in Int
  OBVIOUS
<1> HIDE DEF k
<1>2. /\ t \in SlaveType /\ QueueOK(t) /\ t.list = b.slave[s].list
      /\ t.retryReq = b.slave[s].retryReq /\ t.outstanding = b.slave[s].outstanding + k
  <2>1. b.slave[s] \in SlaveType /\ QueueOK(b.slave[s]) /\ b.slave[s].outstanding + k \in Int
    BY <1>0, <1>k DEF SlaveType
  <2>2. t \in SlaveType
    BY <2>1, Zenon DEF SlaveType
  <2>3. /\ t.list = b.slave[s].list /\ t.ev = b.slave[s].ev
        /\ t.retryReq = b.slave[s].retryReq /\ t.outstanding = b.slave[s].outstanding + k
    BY <2>1, Zenon DEF SlaveType
  <2> QED BY <2>1, <2>2, <2>3, Zenon DEF QueueOK
<1>3. /\ Enqueue(b.master[m], r) \in MasterType /\ QueueOK(Enqueue(b.master[m], r))
      /\ Enqueue(b.master[m], r).list = Append(b.master[m].list, r)
  BY <1>0, EnqueueOK, Zenon
<1> HIDE DEF t, n
<1>4. n.master = [b.master EXCEPT ![m] = Enqueue(b.master[m], r)]
  BY <1>0, <1>1, Zenon DEF BridgeType
<1>5. n.slave = [b.slave EXCEPT ![s] = t]
  BY <1>0, <1>1, Zenon DEF BridgeType
<1>6. n \in BridgeType
  BY <1>0, <1>1, <1>2, <1>3, ZenonT(30) DEF BridgeType
<1>7. BridgeOK(n)
  BY <1>0, <1>2, <1>3, <1>4, <1>5, <1>6, Zenon DEF BridgeOK
<1>8. /\ n.master[m].list = Append(b.master[m].list, r)
      /\ \A p \in Configs \ {m} : n.master[p] = b.master[p]
  BY <1>0, <1>3, <1>4, Zenon
<1>9. /\ \A p \in Configs : n.slave[p].list = b.slave[p].list
      /\ \A p \in Configs : n.slave[p].retryReq = b.slave[p].retryReq
      /\ \A p \in Configs \ {s} : n.slave[p].outstanding = b.slave[p].outstanding
      /\ n.slave[s].outstanding = b.slave[s].outstanding + k
  BY <1>0, <1>2, <1>5, Zenon
<1>10. OneRequest(b, n, s, m, r, k)
  BY <1>8, <1>9, Zenon DEF OneRequest
<1> QED BY <1>7, <1>10, Zenon DEF n, k

(* recvTimingReq of slave port s, which refuses the request. *)
LEMMA ReqRefused ==
  ASSUME NEW b, BridgeOK(b), NEW s \in Configs, NEW m \in Configs, NEW r \in Reqs,
         NEW needs \in BOOLEAN, ~Takes(b, s, m, needs)
  PROVE  /\ BridgeOK(RecvTimingReq(b, s, m, r, needs))
         /\ OneRefusal(b, RecvTimingReq(b, s, m, r, needs), s)
<1> DEFINE n == RecvTimingReq(b, s, m, r, needs)
           t == [b.slave[s] EXCEPT !.retryReq = TRUE]
<1>0. /\ b \in BridgeType /\ b.slave \in [Configs -> SlaveType]
      /\ b.master \in [Configs -> MasterType]
      /\ \A p \in Configs : QueueOK(b.slave[p]) /\ QueueOK(b.master[p])
  BY Zenon DEF BridgeOK, BridgeType
<1>1. n = [b EXCEPT !.slave = [b.slave EXCEPT ![s] = t]]
  BY <1>0, Zenon DEF RecvTimingReq, BridgeType
<1>2. /\ t \in SlaveType /\ QueueOK(t) /\ SameSlave(t, b.slave[s]) /\ t.retryReq
  BY <1>0, ZenonT(30) DEF SlaveType, QueueOK, SameSlave
<1> HIDE DEF t, n
<1>3. n.master = b.master /\ n.slave = [b.slave EXCEPT ![s] = t]
  BY <1>0, <1>1, Zenon DEF BridgeType
<1>4. n \in BridgeType
  BY <1>0, <1>1, <1>2, Zenon DEF BridgeType
<1>5. BridgeOK(n)
  BY <1>0, <1>2, <1>3, <1>4, Zenon DEF BridgeOK
<1>6. /\ \A p \in Configs : SameSlave(n.slave[p], b.slave[p])
      /\ \A p \in Configs \ {s} : n.slave[p].retryReq = b.slave[p].retryReq
      /\ n.slave[s].retryReq
  BY <1>0, <1>2, <1>3, Zenon DEF SameSlave
<1>7. OneRefusal(b, n, s)
  BY <1>3, <1>6, Zenon DEF OneRefusal
<1> QED BY <1>5, <1>7, Zenon DEF n

(* recvTimingResp: the response goes into the list of one slave port. *)
LEMMA RespTaken ==
  ASSUME NEW b, BridgeOK(b), NEW c, NEW bus, NEW r \in Reqs
  PROVE  /\ BridgeOK(RecvTimingResp(b, c, bus, r))
         /\ OneResponse(b, RecvTimingResp(b, c, bus, r), GetSlavePort(c, bus), r)
<1> DEFINE n == RecvTimingResp(b, c, bus, r)
           s == GetSlavePort(c, bus)
           t == Enqueue(b.slave[s], r)
<1>0. /\ b \in BridgeType /\ b.slave \in [Configs -> SlaveType]
      /\ b.master \in [Configs -> MasterType]
      /\ \A p \in Configs : QueueOK(b.slave[p]) /\ QueueOK(b.master[p])
  BY Zenon DEF BridgeOK, BridgeType
<1>1. n = [b EXCEPT !.slave = [b.slave EXCEPT ![s] = t]]
  BY <1>0, SlavePortIsPort, Zenon DEF RecvTimingResp, BridgeType
<1>2. s \in Configs
  BY SlavePortIsPort, Zenon
<1> HIDE DEF s
<1>3. /\ t \in SlaveType /\ QueueOK(t) /\ t.list = Append(b.slave[s].list, r)
      /\ t.outstanding = b.slave[s].outstanding /\ t.retryReq = b.slave[s].retryReq
  BY <1>0, <1>2, EnqueueOK, Zenon
<1> HIDE DEF t, n
<1>4. n.master = b.master /\ n.slave = [b.slave EXCEPT ![s] = t]
  BY <1>0, <1>1, Zenon DEF BridgeType
<1>5. n \in BridgeType
  BY <1>0, <1>1, <1>2, <1>3, Zenon DEF BridgeType
<1>6. BridgeOK(n)
  BY <1>0, <1>2, <1>3, <1>4, <1>5, Zenon DEF BridgeOK
<1>7. /\ n.slave[s].list = Append(b.slave[s].list, r)
      /\ \A p \in Configs \ {s} : n.slave[p].list = b.slave[p].list
      /\ \A p \in Configs : n.slave[p].outstanding = b.slave[p].outstanding
      /\ \A p \in Configs : n.slave[p].retryReq = b.slave[p].retryReq
  BY <1>0, <1>2, <1>3, <1>4, Zenon
<1>8. OneResponse(b, n, s, r)
  BY <1>4, <1>7, Zenon DEF OneResponse
<1> QED BY <1>6, <1>8, Zenon DEF n, s

(* trySendTiming of master port m, whose peer takes the request: every       *)
(* slave port is told to try again.                                          *)
LEMMA ReqSent ==
  ASSUME NEW b, BridgeOK(b), NEW m \in Configs, b.master[m].ev # "none"
  PROVE  LET n == TrySendReq(b, m) IN
         /\ BridgeOK(n)
         /\ b.master[m].list \in Seq(Reqs) /\ b.master[m].list # <<>>
         /\ Head(b.master[m].list) \in Reqs
         /\ n.master[m].list = Tail(b.master[m].list)
         /\ \A p \in Configs \ {m} : n.master[p] = b.master[p]
         /\ \A p \in Configs : SameSlave(n.slave[p], b.slave[p])
         /\ \A p \in Configs : ~n.slave[p].retryReq
<1> DEFINE n == TrySendReq(b, m)
           t == [s \in Configs |-> [b.slave[s] EXCEPT !.retryReq = FALSE]]
           q == Dequeue(b.master[m])
<1>0. /\ b \in BridgeType /\ b.slave \in [Configs -> SlaveType]
      /\ b.master \in [Configs -> MasterType]
      /\ \A p \in Configs : QueueOK(b.slave[p]) /\ QueueOK(b.master[p])
  BY Zenon DEF BridgeOK, BridgeType
<1>1. n = [b EXCEPT !.master = [b.master EXCEPT ![m] = q], !.slave = t]
  BY <1>0, Zenon DEF TrySendReq, BridgeType
<1>2. \A p \in Configs :
        /\ t[p] \in SlaveType /\ QueueOK(t[p]) /\ SameSlave(t[p], b.slave[p])
        /\ ~t[p].retryReq
  BY <1>0, ZenonT(30) DEF SlaveType, QueueOK, SameSlave
<1>3. /\ q \in MasterType /\ QueueOK(q) /\ q.list = Tail(b.master[m].list)
      /\ Head(b.master[m].list) \in Reqs /\ b.master[m].list # <<>>
  BY <1>0, DequeueOK, Zenon
<1>d. t \in [Configs -> SlaveType]
  BY <1>2, Zenon
<1> HIDE DEF t, n, q
<1>4. n.master = [b.master EXCEPT ![m] = q] /\ n.slave = t
  BY <1>0, <1>1, Zenon DEF BridgeType
<1>5. n \in BridgeType
  BY <1>0, <1>1, <1>d, <1>3, ZenonT(30) DEF BridgeType
<1>6. BridgeOK(n)
  BY <1>0, <1>2, <1>3, <1>4, <1>5, Zenon DEF BridgeOK
<1>7. /\ n.master[m].list = Tail(b.master[m].list)
      /\ \A p \in Configs \ {m} : n.master[p] = b.master[p]
  BY <1>0, <1>3, <1>4, Zenon
<1>8. b.master[m].list \in Seq(Reqs)
  BY <1>0, Zenon DEF MasterType
<1> QED BY <1>2, <1>3, <1>4, <1>6, <1>7, <1>8, Zenon DEF n

(* trySendTiming of slave port s, whose peer takes the response: its slot is *)
(* free again and the port is told to try again.                             *)
LEMMA RespSent ==
  ASSUME NEW b, BridgeOK(b), NEW s \in Configs, b.slave[s].ev # "none"
  PROVE  LET n == TrySendResp(b, s) IN
         /\ BridgeOK(n)
         /\ b.slave[s].list \in Seq(Reqs) /\ b.slave[s].list # <<>>
         /\ Head(b.slave[s].list) \in Reqs
         /\ n.master = b.master
         /\ \A p \in Configs \ {s} : n.slave[p] = b.slave[p]
         /\ n.slave[s].list = Tail(b.slave[s].list)
         /\ n.slave[s].outstanding = b.slave[s].outstanding - 1
         /\ ~n.slave[s].retryReq
<1> DEFINE n == TrySendResp(b, s)
           q == Dequeue(b.slave[s])
           t == [q EXCEPT !.outstanding = q.outstanding - 1, !.retryReq = FALSE]
<1>0. /\ b \in BridgeType /\ b.slave \in [Configs -> SlaveType]
      /\ b.master \in [Configs -> MasterType]
      /\ \A p \in Configs : QueueOK(b.slave[p]) /\ QueueOK(b.master[p])
  BY Zenon DEF BridgeOK, BridgeType
<1>1. n = [b EXCEPT !.slave = [b.slave EXCEPT ![s] = t]]
  <2>1. n = [b EXCEPT !.slave[s] = t]
    BY Zenon DEF TrySendResp
  <2> HIDE DEF t, q
  <2> QED BY <1>0, <2>1, Zenon DEF BridgeType
<1>2. /\ q \in SlaveType /\ QueueOK(q) /\ q.list = Tail(b.slave[s].list)
      /\ q.outstanding = b.slave[s].outstanding
      /\ Head(b.slave[s].list) \in Reqs /\ b.slave[s].list # <<>>
  BY <1>0, DequeueOK, Zenon
<1> HIDE DEF q
<1>3. /\ t \in SlaveType /\ t.list = q.list /\ t.ev = q.ev
      /\ t.outstanding = q.outstanding - 1 /\ ~t.retryReq
  <2>1. q.outstanding \in Int /\ q.outstanding - 1 \in Int
    BY <1>2 DEF SlaveType
  <2>2. t \in SlaveType
    BY <1>2, <2>1, ZenonT(30) DEF SlaveType
  <2>3. t.list = q.list /\ t.ev = q.ev /\ t.outstanding = q.outstanding - 1 /\ ~t.retryReq
    BY <1>2, <2>1, Zenon DEF SlaveType
  <2> QED BY <2>2, <2>3, Zenon
<1> HIDE DEF t, n
<1>4. QueueOK(t)
  BY <1>2, <1>3, Zenon DEF QueueOK
<1>5. n.master = b.master /\ n.slave = [b.slave EXCEPT ![s] = t]
  BY <1>0, <1>1, Zenon DEF BridgeType
<1>6. n \in BridgeType
  BY <1>0, <1>1, <1>3, Zenon DEF BridgeType
<1>7. BridgeOK(n)
  BY <1>0, <1>3, <1>4, <1>5, <1>6, Zenon DEF BridgeOK
<1>8. /\ \A p \in Configs \ {s} : n.slave[p] = b.slave[p]
      /\ n.slave[s] = t
  BY <1>0, <1>5, Zenon
<1>9. b.slave[s].list \in Seq(Reqs)
  BY <1>0, Zenon DEF SlaveType
<1> QED BY <1>2, <1>3, <1>5, <1>7, <1>8, <1>9, Zenon DEF n

(* A peer that refuses leaves everything but the event as it was. *)
LEMMA ReqWaits ==
  ASSUME NEW b, BridgeOK(b), NEW m \in Configs, b.master[m].ev = "sched"
  PROVE  LET n == [b EXCEPT !.master[m] = Refused(@)] IN
         /\ BridgeOK(n)
         /\ n.slave = b.slave
         /\ \A p \in Configs : n.master[p].list = b.master[p].list
<1> DEFINE n == [b EXCEPT !.master[m] = Refused(@)]
           t == Refused(b.master[m])
<1>0. /\ b \in BridgeType /\ b.slave \in [Configs -> SlaveType]
      /\ b.master \in [Configs -> MasterType]
      /\ \A p \in Configs : QueueOK(b.slave[p]) /\ QueueOK(b.master[p])
  BY Zenon DEF BridgeOK, BridgeType
<1>1. n = [b EXCEPT !.master = [b.master EXCEPT ![m] = t]]
  BY Zenon
<1>2. t \in MasterType /\ t.list = b.master[m].list /\ t.ev = "wait"
  BY <1>0, Zenon DEF MasterType, Refused, Evs
<1> HIDE DEF t, n
<1>3. QueueOK(t)
  BY <1>0, <1>2, Zenon DEF QueueOK
<1>4. n.slave = b.slave /\ n.master = [b.master EXCEPT ![m] = t]
  BY <1>0, <1>1, Zenon DEF BridgeType
<1>5. n \in BridgeType
  BY <1>0, <1>1, <1>2, Zenon DEF BridgeType
<1>6. BridgeOK(n)
  BY <1>0, <1>2, <1>3, <1>4, <1>5, Zenon DEF BridgeOK
<1>7. \A p \in Configs : n.master[p].list = b.master[p].list
  BY <1>0, <1>2, <1>4, Zenon
<1> QED BY <1>4, <1>6, <1>7, Zenon DEF n

(* The same for a response. *)
LEMMA RespWaits ==
  ASSUME NEW b, BridgeOK(b), NEW s \in Configs, b.slave[s].ev = "sched"
  PROVE  LET n == [b EXCEPT !.slave[s] = Refused(@)] IN
         /\ BridgeOK(n)
         /\ n.master = b.master
         /\ \A p \in Configs : /\ SameSlave(n.slave[p], b.slave[p])
                               /\ n.slave[p].retryReq = b.slave[p].retryReq
<1> DEFINE n == [b EXCEPT !.slave[s] = Refused(@)]
           t == Refused(b.slave[s])
<1>0. /\ b \in BridgeType /\ b.slave \in [Configs -> SlaveType]
      /\ b.master \in [Configs -> MasterType]
      /\ \A p \in Configs : QueueOK(b.slave[p]) /\ QueueOK(b.master[p])
  BY Zenon DEF BridgeOK, BridgeType
<1>1. n = [b EXCEPT !.slave = [b.slave EXCEPT ![s] = t]]
  BY Zenon
<1>2. /\ t \in SlaveType /\ t.list = b.slave[s].list /\ t.ev = "wait"
      /\ SameSlave(t, b.slave[s]) /\ t.retryReq = b.slave[s].retryReq
  BY <1>0, Zenon DEF SlaveType, Refused, Evs, SameSlave
<1> HIDE DEF t, n
<1>3. QueueOK(t)
  BY <1>0, <1>2, Zenon DEF QueueOK
<1>4. n.master = b.master /\ n.slave = [b.slave EXCEPT ![s] = t]
  BY <1>0, <1>1, Zenon DEF BridgeType
<1>5. n \in BridgeType
  BY <1>0, <1>1, <1>2, Zenon DEF BridgeType
<1>6. BridgeOK(n)
  BY <1>0, <1>2, <1>3, <1>4, <1>5, Zenon DEF BridgeOK
<1>7. \A p \in Configs : /\ SameSlave(n.slave[p], b.slave[p])
                         /\ n.slave[p].retryReq = b.slave[p].retryReq
  BY <1>0, <1>2, <1>4, Zenon DEF SameSlave
<1> QED BY <1>4, <1>6, <1>7, Zenon DEF n

-----------------------------------------------------------------------------
(* A promised retry has a reason: StalledForAReason for one bridge. *)
Reasonable(b) ==
  \A s \in Configs :
    b.slave[s].retryReq =>
      RespQueueFull(b, s) \/ \E m \in Configs : ReqQueueFull(b, m)

(* A request taken fills queues further and promises nothing. *)
LEMMA TakenReasonable ==
  ASSUME NEW b, BridgeOK(b), Reasonable(b), NEW s \in Configs, NEW m \in Configs,
         NEW r \in Reqs, NEW needs \in BOOLEAN, Takes(b, s, m, needs)
  PROVE  Reasonable(RecvTimingReq(b, s, m, r, needs))
<1> DEFINE n == RecvTimingReq(b, s, m, r, needs)
           k == IF needs THEN 1 ELSE 0
<1>0. OneRequest(b, n, s, m, r, k)
  BY ReqTaken, Zenon
<1> HIDE DEF n, k
<1>1. /\ \A p \in Configs \ {m} : n.master[p] = b.master[p]
      /\ \A p \in Configs : n.slave[p].retryReq = b.slave[p].retryReq
      /\ \A p \in Configs \ {s} : n.slave[p].outstanding = b.slave[p].outstanding
  BY <1>0, Zenon DEF OneRequest
<1>2. ~b.slave[s].retryReq /\ ~ReqQueueFull(b, m)
  BY Zenon DEF Takes
<1>3. ASSUME NEW p \in Configs, n.slave[p].retryReq
      PROVE  RespQueueFull(n, p) \/ \E q \in Configs : ReqQueueFull(n, q)
  <2>1. b.slave[p].retryReq /\ p # s
    BY <1>1, <1>2, <1>3, Zenon
  <2>2. CASE RespQueueFull(b, p)
    BY <1>1, <2>1, <2>2, Zenon DEF RespQueueFull
  <2>3. ASSUME NEW q \in Configs, ReqQueueFull(b, q)
        PROVE  ReqQueueFull(n, q)
    BY <1>1, <1>2, <2>3, Zenon DEF ReqQueueFull
  <2> QED BY <2>1, <2>2, <2>3, Zenon DEF Reasonable
<1> QED BY <1>3, Zenon DEF Reasonable, n

(* A request refused: what it was refused for is the reason. *)
LEMMA RefusedReasonable ==
  ASSUME NEW b, BridgeOK(b), Reasonable(b), NEW s \in Configs, NEW m \in Configs,
         NEW r \in Reqs, NEW needs \in BOOLEAN, ~Takes(b, s, m, needs)
  PROVE  Reasonable(RecvTimingReq(b, s, m, r, needs))
<1> DEFINE n == RecvTimingReq(b, s, m, r, needs)
<1>0. OneRefusal(b, n, s)
  BY ReqRefused, Zenon
<1> HIDE DEF n
<1>1. /\ n.master = b.master
      /\ \A p \in Configs : n.slave[p].outstanding = b.slave[p].outstanding
      /\ \A p \in Configs \ {s} : n.slave[p].retryReq = b.slave[p].retryReq
  BY <1>0, Zenon DEF OneRefusal, SameSlave
<1>2. ASSUME NEW p \in Configs, n.slave[p].retryReq
      PROVE  RespQueueFull(b, p) \/ \E q \in Configs : ReqQueueFull(b, q)
  <2>1. CASE b.slave[p].retryReq
    BY <2>1, Zenon DEF Reasonable
  <2>2. CASE ~b.slave[p].retryReq
    <3>1. p = s
      BY <1>1, <1>2, <2>2, Zenon
    <3> QED BY <2>2, <3>1, Zenon DEF Takes
  <2> QED BY <2>1, <2>2, Zenon
<1> QED BY <1>1, <1>2, Zenon DEF Reasonable, RespQueueFull, ReqQueueFull, n

-----------------------------------------------------------------------------
(* The two bridges together. *)

(* recvTimingReq of a bridge in the fabric: the requester id is a number, and*)
(* the bridge keeps its shape and its reasons.                               *)
LEMMA OfferKeeps ==
  ASSUME FabricOK, NEW b \in Bridges, NEW s \in Configs, NEW r \in Reqs, Offer(b, s, r),
         \A a \in Bridges : Reasonable(bridge[a])
  PROVE  /\ bridge' \in [Bridges -> BridgeType]
         /\ \A a \in Bridges : BridgeOK(bridge'[a]) /\ Reasonable(bridge'[a])
         /\ reqBus' \in [Reqs -> Int]
<1> DEFINE m == MasterPort[b][r]
           n == RecvTimingReq(bridge[b], s, m, r, Needs[r])
<1>1. /\ bridge' = [bridge EXCEPT ![b] = n]
      /\ reqBus' = [reqBus EXCEPT ![r] = Stamp(b, s, r)]
  BY Zenon DEF Offer
<1>2. m \in Configs /\ Needs[r] \in BOOLEAN /\ BridgeOK(bridge[b])
  BY MasterPortIsPort, FabricAssumption, Zenon DEF FabricOK
<1>3. BridgeOK(n) /\ Reasonable(n)
  <2> HIDE DEF m
  <2>1. CASE Takes(bridge[b], s, m, Needs[r])
    BY <1>2, <2>1, ReqTaken, TakenReasonable, Zenon
  <2>2. CASE ~Takes(bridge[b], s, m, Needs[r])
    BY <1>2, <2>2, ReqRefused, RefusedReasonable, Zenon
  <2> QED BY <2>1, <2>2, Zenon
<1> HIDE DEF n
<1>4. Stamp(b, s, r) \in Int
  <2>1. reqBus[r] \in Int
    BY Zenon DEF FabricOK
  <2>2. UpBus[b] \in Int
    BY BusAssumption DEF Bridges
  <2>3. s # 0 => s \in Ports
    BY DEF Configs, Ports
  <2>4. s # 0 => Config[b][s].sec \in Int
    BY <2>3, BusAssumption
  <2> QED BY <2>1, <2>2, <2>4, Zenon DEF Stamp, RequesterBus
<1>5. bridge' \in [Bridges -> BridgeType]
  BY <1>1, <1>3, Zenon DEF FabricOK, BridgeOK
<1>6. \A a \in Bridges : BridgeOK(bridge'[a]) /\ Reasonable(bridge'[a])
  BY <1>1, <1>3, Zenon DEF FabricOK
<1>7. reqBus' \in [Reqs -> Int]
  BY <1>1, <1>4, Zenon DEF FabricOK
<1> QED BY <1>5, <1>6, <1>7, Zenon

(* A step of one bridge that leaves it in shape. *)
LEMMA OneBridge ==
  ASSUME FabricOK, NEW b \in Bridges, NEW n, BridgeOK(n), Reasonable(n),
         bridge' = [bridge EXCEPT ![b] = n],
         \A a \in Bridges : Reasonable(bridge[a])
  PROVE  /\ bridge' \in [Bridges -> BridgeType]
         /\ bridge'[b] = n
         /\ \A a \in Bridges : BridgeOK(bridge'[a]) /\ Reasonable(bridge'[a])
<1>1. n \in BridgeType
  BY Zenon DEF BridgeOK
<1> QED BY <1>1, Zenon DEF FabricOK

(* What goes into the link is a packet. *)
LEMMA IntoOK ==
  ASSUME FabricOK, NEW b \in Bridges, NEW p \in Configs, NEW x \in Packets
  PROVE  Into(Direction(b, p), x) \in [{"down", "up"} -> Seq(Packets)]
<1>1. Direction(b, p) \in {"down", "up", "leaf"}
  BY Zenon DEF Direction
<1>2. wire \in [{"down", "up"} -> Seq(Packets)]
  BY Zenon DEF FabricOK
<1>3. \A d \in {"down", "up"} : Append(wire[d], x) \in Seq(Packets)
  BY <1>2, SeqAppend, Zenon
<1> QED BY <1>1, <1>2, <1>3, Zenon DEF Into

(* A retry only moves stalled requests back. *)
LEMMA RetriedOK ==
  ASSUME NEW st \in [Reqs -> Stages]
  PROVE  Retried(st) \in [Reqs -> Stages]
BY Zenon DEF Retried, Stages

(* The inductive invariant of StalledForAReason. *)
RetryInv == FabricOK /\ StalledForAReason

(* A request is made or tried again. *)
LEMMA RequestKeeps ==
  ASSUME RetryInv, NEW r \in Reqs, Request(r)
  PROVE  RetryInv'
<1> DEFINE b == Entry[r][1]
           s == Entry[r][2]
<1>1. b \in Bridges /\ s \in Configs /\ "rc" \in Bridges /\ 0 \in Configs
  BY FabricAssumption, ConfigAssumption DEF Bridges, Configs
<1>2. /\ FabricOK /\ \A a \in Bridges : Reasonable(bridge[a])
      /\ \A q \in Reqs : stage[q] = "stalled" => bridge.rc.slave[0].retryReq
  BY Zenon DEF RetryInv, StalledForAReason, Reasonable
<1>3. Offer(b, s, r) /\ wire' = wire
  BY Zenon DEF Request
<1>4. stage' = [stage EXCEPT ![r] = IF Taken(b, s, r) THEN "sent"
                                   ELSE IF FromBus(r) THEN "stalled" ELSE @]
  BY Zenon DEF Request
<1>a. Entry[r] = <<b, s>>
  BY FabricAssumption
<1> HIDE DEF b, s
<1>5. /\ bridge' \in [Bridges -> BridgeType]
      /\ \A a \in Bridges : BridgeOK(bridge'[a]) /\ Reasonable(bridge'[a])
      /\ reqBus' \in [Reqs -> Int]
  BY <1>1, <1>2, <1>3, OfferKeeps, Zenon
<1>6. stage' \in [Reqs -> Stages]
  BY <1>2, <1>4, Zenon DEF FabricOK, Stages
<1>7. FabricOK'
  BY <1>2, <1>3, <1>5, <1>6, Zenon DEF FabricOK
<1>8. /\ bridge.rc.slave[0].retryReq => bridge'["rc"].slave[0].retryReq
      /\ FromBus(r) /\ ~Taken(b, s, r) => bridge'["rc"].slave[0].retryReq
  <2> DEFINE m == MasterPort[b][r]
             n == RecvTimingReq(bridge[b], s, m, r, Needs[r])
  <2>1. m \in Configs /\ Needs[r] \in BOOLEAN /\ BridgeOK(bridge[b])
    BY <1>1, <1>2, MasterPortIsPort, FabricAssumption, Zenon DEF FabricOK
  <2>2. bridge'[b] = n /\ \A a \in Bridges \ {b} : bridge'[a] = bridge[a]
    BY <1>1, <1>2, <1>3, Zenon DEF Offer, FabricOK
  <2>3. Taken(b, s, r) <=> Takes(bridge[b], s, m, Needs[r])
    BY Zenon DEF Taken
  <2>f. FromBus(r) => b = "rc" /\ s = 0
    BY <1>a DEF FromBus
  <2> HIDE DEF m, n
  <2>r. ~Taken(b, s, r) => OneRefusal(bridge[b], n, s)
    BY <1>1, <2>1, <2>3, ReqRefused, Zenon DEF n
  <2>4. bridge[b].slave[0].retryReq => n.slave[0].retryReq
    <3>1. CASE Taken(b, s, r)
      <4> DEFINE k == IF Needs[r] THEN 1 ELSE 0
      <4>1. OneRequest(bridge[b], n, s, m, r, k)
        BY <1>1, <2>1, <2>3, <3>1, ReqTaken, Zenon DEF n
      <4> QED BY <1>1, <4>1, Zenon DEF OneRequest
    <3>2. CASE ~Taken(b, s, r)
      BY <1>1, <2>r, <3>2, Zenon DEF OneRefusal
    <3> QED BY <3>1, <3>2, Zenon
  <2>5. ~Taken(b, s, r) => n.slave[s].retryReq
    BY <2>r, Zenon DEF OneRefusal
  <2> QED BY <1>1, <2>2, <2>4, <2>5, <2>f, Zenon
<1>9. \A q \in Reqs : stage'[q] = "stalled" => bridge'["rc"].slave[0].retryReq
  BY <1>2, <1>4, <1>8, Zenon DEF FabricOK
<1> QED BY <1>5, <1>7, <1>9, Zenon
  DEF RetryInv, StalledForAReason, Reasonable, RespQueueFull, ReqQueueFull

(* A request leaves a bridge: all promised retries are sent. *)
LEMMA SendRequestKeeps ==
  ASSUME RetryInv, NEW b \in Bridges, NEW m \in Configs, SendRequest(b, m)
  PROVE  RetryInv'
<1> DEFINE n == TrySendReq(bridge[b], m)
           r == Head(bridge[b].master[m].list)
           st == [stage EXCEPT ![r] = IF Direction(b, m) # "leaf" THEN @
                                      ELSE IF Needs[r] THEN "served" ELSE "done"]
<1>0. /\ FabricOK /\ \A a \in Bridges : Reasonable(bridge[a])
      /\ \A q \in Reqs : stage[q] = "stalled" => bridge.rc.slave[0].retryReq
      /\ "rc" \in Bridges /\ 0 \in Configs
  BY ConfigAssumption DEF RetryInv, StalledForAReason, Reasonable, Bridges, Configs
<1>1. /\ bridge[b].master[m].ev # "none" /\ bridge' = [bridge EXCEPT ![b] = n]
      /\ wire' = Into(Direction(b, m), <<"req", r>>) /\ stage' = Retried(st)
      /\ reqBus' = reqBus
  BY ZenonT(30) DEF SendRequest
<1>2. BridgeOK(bridge[b])
  BY <1>0, Zenon DEF FabricOK
<1>3. BridgeOK(n) /\ r \in Reqs /\ \A p \in Configs : ~n.slave[p].retryReq
  BY <1>1, <1>2, ReqSent, ZenonT(30)
<1>4. Reasonable(n)
  BY <1>3, Zenon DEF Reasonable
<1> HIDE DEF n, r
<1>5. /\ bridge' \in [Bridges -> BridgeType] /\ bridge'[b] = n
      /\ \A a \in Bridges : BridgeOK(bridge'[a]) /\ Reasonable(bridge'[a])
  BY <1>0, <1>1, <1>3, <1>4, OneBridge, ZenonT(30)
<1>6. wire' \in [{"down", "up"} -> Seq(Packets)]
  BY <1>0, <1>1, <1>3, IntoOK, Zenon DEF Packets
<1>7. st \in [Reqs -> Stages]
  BY <1>0, <1>3, Zenon DEF FabricOK, Stages
<1>8. \A q \in Reqs : st[q] = "stalled" => stage[q] = "stalled"
  BY <1>0, <1>3, Zenon DEF FabricOK
<1> HIDE DEF st
<1>9. FabricOK'
  BY <1>0, <1>1, <1>5, <1>6, <1>7, RetriedOK, ZenonT(30) DEF FabricOK
<1>10. \A q \in Reqs : stage'[q] = "stalled" => bridge'["rc"].slave[0].retryReq
  BY <1>0, <1>1, <1>7, <1>8, Zenon DEF Retried
<1> QED BY <1>5, <1>9, <1>10, Zenon
  DEF RetryInv, StalledForAReason, Reasonable, RespQueueFull, ReqQueueFull

(* A response leaves a bridge: the retry promised by its port is sent. *)
LEMMA SendResponseKeeps ==
  ASSUME RetryInv, NEW b \in Bridges, NEW s \in Configs, SendResponse(b, s)
  PROVE  RetryInv'
<1> DEFINE n == TrySendResp(bridge[b], s)
           r == Head(bridge[b].slave[s].list)
           st == [stage EXCEPT ![r] = IF Direction(b, s) = "leaf" THEN "done" ELSE @]
<1>0. /\ FabricOK /\ \A a \in Bridges : Reasonable(bridge[a])
      /\ \A q \in Reqs : stage[q] = "stalled" => bridge.rc.slave[0].retryReq
      /\ "rc" \in Bridges /\ 0 \in Configs
  BY ConfigAssumption DEF RetryInv, StalledForAReason, Reasonable, Bridges, Configs
<1>1. /\ bridge[b].slave[s].ev # "none" /\ bridge' = [bridge EXCEPT ![b] = n]
      /\ wire' = Into(Direction(b, s), <<"resp", r>>) /\ stage' = Retried(st)
      /\ reqBus' = reqBus
  BY Zenon DEF SendResponse
<1>2. BridgeOK(bridge[b]) /\ Reasonable(bridge[b])
  BY <1>0, Zenon DEF FabricOK
<1>3. /\ BridgeOK(n) /\ r \in Reqs /\ n.master = bridge[b].master
      /\ \A p \in Configs \ {s} : n.slave[p] = bridge[b].slave[p]
      /\ ~n.slave[s].retryReq
  BY <1>1, <1>2, RespSent, ZenonT(30)
<1> HIDE DEF n, r
<1>4. Reasonable(n)
  BY <1>2, <1>3, Zenon DEF Reasonable, RespQueueFull, ReqQueueFull
<1>5. /\ bridge' \in [Bridges -> BridgeType] /\ bridge'[b] = n
      /\ \A a \in Bridges : BridgeOK(bridge'[a]) /\ Reasonable(bridge'[a])
  BY <1>0, <1>1, <1>3, <1>4, OneBridge, ZenonT(30)
<1>6. wire' \in [{"down", "up"} -> Seq(Packets)]
  BY <1>0, <1>1, <1>3, IntoOK, Zenon DEF Packets
<1>7. st \in [Reqs -> Stages]
  BY <1>0, <1>3, Zenon DEF FabricOK, Stages
<1>8. \A q \in Reqs : st[q] = "stalled" => stage[q] = "stalled"
  BY <1>0, <1>3, Zenon DEF FabricOK
<1> HIDE DEF st
<1>9. FabricOK'
  BY <1>0, <1>1, <1>5, <1>6, <1>7, RetriedOK, ZenonT(30) DEF FabricOK
<1>10. \A q \in Reqs : stage'[q] = "stalled" => bridge'["rc"].slave[0].retryReq
  BY <1>0, <1>1, <1>7, <1>8, Zenon DEF Retried
<1> QED BY <1>5, <1>9, <1>10, Zenon
  DEF RetryInv, StalledForAReason, Reasonable, RespQueueFull, ReqQueueFull

(* A peer refuses what a bridge offers. *)
LEMMA RefuseKeeps ==
  ASSUME RetryInv, NEW b \in Bridges, NEW p \in Configs,
         RefuseRequest(b, p) \/ RefuseResponse(b, p)
  PROVE  RetryInv'
<1>0. /\ FabricOK /\ \A a \in Bridges : Reasonable(bridge[a])
      /\ \A q \in Reqs : stage[q] = "stalled" => bridge.rc.slave[0].retryReq
      /\ "rc" \in Bridges /\ 0 \in Configs
  BY ConfigAssumption DEF RetryInv, StalledForAReason, Reasonable, Bridges, Configs
<1>1. BridgeOK(bridge[b]) /\ Reasonable(bridge[b])
  BY <1>0, Zenon DEF FabricOK
<1>2. reqBus' = reqBus /\ wire' = wire /\ stage' = stage
  BY Zenon DEF RefuseRequest, RefuseResponse
<1>3. ASSUME NEW n, bridge' = [bridge EXCEPT ![b] = n], BridgeOK(n), Reasonable(n),
             n.slave[0].retryReq = bridge[b].slave[0].retryReq
      PROVE  RetryInv'
  <2>1. /\ bridge' \in [Bridges -> BridgeType] /\ bridge'[b] = n
        /\ \A a \in Bridges : BridgeOK(bridge'[a]) /\ Reasonable(bridge'[a])
    BY <1>0, <1>3, OneBridge, ZenonT(30)
  <2>2. FabricOK'
    BY <1>0, <1>2, <2>1, Zenon DEF FabricOK
  <2>3. bridge'["rc"].slave[0].retryReq = bridge["rc"].slave[0].retryReq
    BY <1>0, <1>3, Zenon DEF FabricOK
  <2> QED BY <1>0, <1>2, <2>1, <2>2, <2>3, Zenon
    DEF RetryInv, StalledForAReason, Reasonable, RespQueueFull, ReqQueueFull
<1>4. CASE RefuseRequest(b, p)
  <2> DEFINE n == [bridge[b] EXCEPT !.master[p] = Refused(@)]
  <2>1. bridge[b].master[p].ev = "sched" /\ bridge' = [bridge EXCEPT ![b] = n]
    BY <1>4, Zenon DEF RefuseRequest
  <2>2. /\ BridgeOK(n) /\ n.slave = bridge[b].slave
        /\ \A q \in Configs : n.master[q].list = bridge[b].master[q].list
    BY <1>1, <2>1, ReqWaits, Zenon
  <2> HIDE DEF n
  <2>3. Reasonable(n)
    BY <1>1, <2>2, Zenon DEF Reasonable, RespQueueFull, ReqQueueFull
  <2> QED BY <1>3, <2>1, <2>2, <2>3, ZenonT(30)
<1>5. CASE RefuseResponse(b, p)
  <2> DEFINE n == [bridge[b] EXCEPT !.slave[p] = Refused(@)]
  <2>1. bridge[b].slave[p].ev = "sched" /\ bridge' = [bridge EXCEPT ![b] = n]
    BY <1>5, Zenon DEF RefuseResponse
  <2>2. /\ BridgeOK(n) /\ n.master = bridge[b].master
        /\ \A q \in Configs : /\ SameSlave(n.slave[q], bridge[b].slave[q])
                              /\ n.slave[q].retryReq = bridge[b].slave[q].retryReq
    BY <1>1, <2>1, RespWaits, Zenon
  <2> HIDE DEF n
  <2>3. Reasonable(n)
    BY <1>1, <2>2, Zenon DEF Reasonable, RespQueueFull, ReqQueueFull, SameSlave
  <2> QED BY <1>0, <1>3, <2>1, <2>2, <2>3, ZenonT(30)
<1> QED BY <1>4, <1>5, Zenon

(* A response comes in, from a device or over the link. *)
LEMMA ResponseKeeps ==
  ASSUME FabricOK, \A a \in Bridges : Reasonable(bridge[a]), NEW b \in Bridges, NEW r \in Reqs,
         bridge' = [bridge EXCEPT ![b] = RecvTimingResp(@, Config[b], reqBus[r], r)]
  PROVE  /\ bridge' \in [Bridges -> BridgeType]
         /\ \A a \in Bridges : BridgeOK(bridge'[a]) /\ Reasonable(bridge'[a])
         /\ \A a \in Bridges, p \in Configs :
              bridge'[a].slave[p].retryReq = bridge[a].slave[p].retryReq
<1> DEFINE n == RecvTimingResp(bridge[b], Config[b], reqBus[r], r)
           s == GetSlavePort(Config[b], reqBus[r])
<1>1. BridgeOK(bridge[b]) /\ Reasonable(bridge[b]) /\ bridge' = [bridge EXCEPT ![b] = n]
  BY Zenon DEF FabricOK
<1>a. BridgeOK(n) /\ OneResponse(bridge[b], n, s, r)
  BY <1>1, RespTaken, Zenon
<1> HIDE DEF n, s
<1>2. /\ BridgeOK(n) /\ n.master = bridge[b].master
      /\ \A p \in Configs : n.slave[p].outstanding = bridge[b].slave[p].outstanding
      /\ \A p \in Configs : n.slave[p].retryReq = bridge[b].slave[p].retryReq
  BY <1>a, Zenon DEF OneResponse
<1>3. Reasonable(n)
  BY <1>1, <1>2, Zenon DEF Reasonable, RespQueueFull, ReqQueueFull
<1>4. /\ bridge' \in [Bridges -> BridgeType] /\ bridge'[b] = n
      /\ \A a \in Bridges : BridgeOK(bridge'[a]) /\ Reasonable(bridge'[a])
  BY <1>1, <1>2, <1>3, OneBridge, ZenonT(30)
<1>5. \A a \in Bridges \ {b} : bridge'[a] = bridge[a]
  BY <1>1, Zenon DEF FabricOK
<1> QED BY <1>2, <1>4, <1>5, Zenon

(* A device or memory answers. *)
LEMMA RespondKeeps ==
  ASSUME RetryInv, NEW r \in Reqs, Respond(r)
  PROVE  RetryInv'
<1>0. /\ FabricOK /\ \A a \in Bridges : Reasonable(bridge[a])
      /\ \A q \in Reqs : stage[q] = "stalled" => bridge.rc.slave[0].retryReq
      /\ "rc" \in Bridges /\ "sw" \in Bridges /\ 0 \in Configs /\ 1 \in Configs
  BY ConfigAssumption DEF RetryInv, StalledForAReason, Reasonable, Bridges, Configs
<1>1. Responder(r) \in Bridges
  BY <1>0, Zenon DEF Responder
<1>2. /\ bridge' = [bridge EXCEPT ![Responder(r)] =
                      RecvTimingResp(@, Config[Responder(r)], reqBus[r], r)]
      /\ stage' = [stage EXCEPT ![r] = "sent"] /\ reqBus' = reqBus /\ wire' = wire
  BY Zenon DEF Respond
<1>3. /\ bridge' \in [Bridges -> BridgeType]
      /\ \A a \in Bridges : BridgeOK(bridge'[a]) /\ Reasonable(bridge'[a])
      /\ \A a \in Bridges, p \in Configs :
           bridge'[a].slave[p].retryReq = bridge[a].slave[p].retryReq
  BY <1>0, <1>1, <1>2, ResponseKeeps, ZenonT(30)
<1>4. FabricOK'
  BY <1>0, <1>2, <1>3, Zenon DEF FabricOK, Stages
<1>5. \A q \in Reqs : stage'[q] = "stalled" => bridge'["rc"].slave[0].retryReq
  BY <1>0, <1>2, <1>3, Zenon DEF FabricOK
<1> QED BY <1>3, <1>4, <1>5, Zenon
  DEF RetryInv, StalledForAReason, Reasonable, RespQueueFull, ReqQueueFull

(* The link hands over a packet. *)
LEMMA ArriveKeeps ==
  ASSUME RetryInv, NEW d \in {"down", "up"}, Arrive(d)
  PROVE  RetryInv'
<1> DEFINE b == IF d = "down" THEN "sw" ELSE "rc"
           s == IF d = "down" THEN 0 ELSE 1
           r == Head(wire[d])[2]
<1>0. /\ FabricOK /\ \A a \in Bridges : Reasonable(bridge[a])
      /\ \A q \in Reqs : stage[q] = "stalled" => bridge.rc.slave[0].retryReq
      /\ "rc" \in Bridges /\ "sw" \in Bridges /\ 0 \in Configs /\ 1 \in Configs
  BY ConfigAssumption DEF RetryInv, StalledForAReason, Reasonable, Bridges, Configs
<1>1. wire[d] # <<>> /\ stage' = stage
  BY Zenon DEF Arrive
<1>2. /\ b \in Bridges /\ s \in Configs /\ wire[d] \in Seq(Packets)
      /\ Head(wire[d]) \in Packets /\ Tail(wire[d]) \in Seq(Packets)
  BY <1>0, <1>1, TailEmpty, Zenon DEF FabricOK
<1>3. r \in Reqs
  BY <1>2, Zenon DEF Packets
<1>4. \/ Offer(b, s, r) /\ wire' \in {wire, [wire EXCEPT ![d] = Tail(@)]}
      \/ /\ bridge' = [bridge EXCEPT ![b] = RecvTimingResp(@, Config[b], reqBus[r], r)]
         /\ wire' = [wire EXCEPT ![d] = Tail(@)] /\ reqBus' = reqBus
  BY Zenon DEF Arrive
<1> HIDE DEF b, s, r
<1>5. wire' \in [{"down", "up"} -> Seq(Packets)]
  BY <1>0, <1>2, <1>4, ZenonT(30) DEF FabricOK
<1>6. /\ bridge' \in [Bridges -> BridgeType] /\ reqBus' \in [Reqs -> Int]
      /\ \A a \in Bridges : BridgeOK(bridge'[a]) /\ Reasonable(bridge'[a])
  <2>1. CASE Offer(b, s, r)
    BY <1>0, <1>2, <1>3, <2>1, OfferKeeps, Zenon
  <2>2. CASE /\ bridge' = [bridge EXCEPT ![b] = RecvTimingResp(@, Config[b], reqBus[r], r)]
             /\ reqBus' = reqBus
    BY <1>0, <1>2, <1>3, <2>2, ResponseKeeps, ZenonT(30) DEF FabricOK
  <2> QED BY <1>4, <2>1, <2>2, Zenon
<1>7. FabricOK'
  BY <1>0, <1>1, <1>5, <1>6, Zenon DEF FabricOK
<1>8. bridge["rc"].slave[0].retryReq => bridge'["rc"].slave[0].retryReq
  <2>1. CASE Offer(b, s, r)
    <3> DEFINE m == MasterPort[b][r]
               n == RecvTimingReq(bridge[b], s, m, r, Needs[r])
    <3>1. m \in Configs /\ Needs[r] \in BOOLEAN /\ BridgeOK(bridge[b])
      BY <1>0, <1>2, <1>3, MasterPortIsPort, FabricAssumption, Zenon DEF FabricOK
    <3>2. bridge'[b] = n /\ \A a \in Bridges \ {b} : bridge'[a] = bridge[a]
      BY <1>0, <1>2, <2>1, Zenon DEF Offer, FabricOK
    <3> HIDE DEF m
    <3>3. bridge[b].slave[0].retryReq => n.slave[0].retryReq
      <4>1. CASE Takes(bridge[b], s, m, Needs[r])
        <5> DEFINE k == IF Needs[r] THEN 1 ELSE 0
        <5>1. OneRequest(bridge[b], n, s, m, r, k)
          BY <1>0, <1>2, <1>3, <3>1, <4>1, ReqTaken, Zenon
        <5> HIDE DEF n
        <5> QED BY <1>0, <5>1, Zenon DEF OneRequest
      <4>2. CASE ~Takes(bridge[b], s, m, Needs[r])
        <5>1. OneRefusal(bridge[b], n, s)
          BY <1>0, <1>2, <1>3, <3>1, <4>2, ReqRefused, Zenon
        <5> HIDE DEF n
        <5> QED BY <1>0, <5>1, Zenon DEF OneRefusal
      <4> QED BY <4>1, <4>2, Zenon
    <3> QED BY <1>0, <3>2, <3>3, Zenon
  <2>2. CASE bridge' = [bridge EXCEPT ![b] = RecvTimingResp(@, Config[b], reqBus[r], r)]
    BY <1>0, <1>2, <1>3, <2>2, ResponseKeeps, ZenonT(30)
  <2> QED BY <1>4, <2>1, <2>2, Zenon
<1>9. \A q \in Reqs : stage'[q] = "stalled" => bridge'["rc"].slave[0].retryReq
  BY <1>0, <1>1, <1>8, Zenon
<1> QED BY <1>6, <1>7, <1>9, Zenon
  DEF RetryInv, StalledForAReason, Reasonable, RespQueueFull, ReqQueueFull

-----------------------------------------------------------------------------
(* The initial state has the right shape and no promises. *)
LEMMA InitOK == Init => RetryInv
<1> SUFFICES ASSUME Init PROVE RetryInv
  BY Zenon
<1>1. NewBridge \in BridgeType
  BY DEF NewBridge, BridgeType, SlaveType, MasterType, Evs
<1>2. \A p \in Configs : /\ QueueOK(NewBridge.slave[p]) /\ QueueOK(NewBridge.master[p])
                         /\ ~NewBridge.slave[p].retryReq
  BY Zenon DEF NewBridge, QueueOK
<1>3. BridgeOK(NewBridge)
  BY <1>1, <1>2, Zenon DEF BridgeOK
<1> HIDE DEF NewBridge
<1>4. FabricOK
  BY <1>1, <1>3 DEF Init, FabricOK, Stages
<1>5. \A b \in Bridges, s \in Configs : ~bridge[b].slave[s].retryReq
  BY <1>2, Zenon DEF Init
<1>6. \A r \in Reqs : stage[r] # "stalled"
  BY Zenon DEF Init
<1> QED BY <1>4, <1>5, <1>6, Zenon DEF RetryInv, StalledForAReason

(* Every step keeps the shape of the bridges and the reasons of their retries. *)
LEMMA StepKeepsReason == RetryInv /\ [Next]_vars => RetryInv'
<1> SUFFICES ASSUME RetryInv, [Next]_vars PROVE RetryInv'
  BY Zenon
<1>1. ASSUME NEW r \in Reqs, Request(r) \/ Respond(r) PROVE RetryInv'
  BY <1>1, RequestKeeps, RespondKeeps, Zenon
<1>2. ASSUME NEW b \in Bridges, NEW p \in Configs,
             \/ SendRequest(b, p) \/ RefuseRequest(b, p)
             \/ SendResponse(b, p) \/ RefuseResponse(b, p)
      PROVE  RetryInv'
  BY <1>2, SendRequestKeeps, SendResponseKeeps, RefuseKeeps, Zenon
<1>3. ASSUME NEW d \in {"down", "up"}, Arrive(d) PROVE RetryInv'
  BY <1>3, ArriveKeeps, Zenon
<1>4. CASE UNCHANGED vars
  BY <1>4, Zenon DEF vars, RetryInv, FabricOK, StalledForAReason, RespQueueFull, ReqQueueFull
<1> QED BY <1>1, <1>2, <1>3, <1>4, Zenon DEF Next

(* Whatever the number of ports and requests and the size of the queues:     *)
(* a slave port that has promised a retry (retryReq) still has the full      *)
(* queue it refused for, and a sender that waits has been promised one.      *)
THEOREM NoRetryForgotten == Spec => []StalledForAReason
<1>1. RetryInv => StalledForAReason
  BY Zenon DEF RetryInv
<1> QED BY <1>1, InitOK, StepKeepsReason, PTL DEF Spec

-----------------------------------------------------------------------------
(* All lists of the fabric in one function: the lists of master ports ("m")  *)
(* and slave ports ("s") and the two directions of the link ("w").           *)
Ways == {"down", "up"}
M(b, p) == <<"m", b, p>>
S(b, p) == <<"s", b, p>>
W(d) == <<"w", d, 0>>
Ids == {"m", "s"} \X Bridges \X Configs \cup {W(d) : d \in Ways}
RequestsIn(w) == [i \in DOMAIN w |-> w[i][2]]
ListsOf(br, w) ==
  [x \in Ids |-> IF x[1] = "m" THEN br[x[2]].master[x[3]].list
                 ELSE IF x[1] = "s" THEN br[x[2]].slave[x[3]].list
                 ELSE RequestsIn(w[x[2]])]
lists == ListsOf(bridge, wire)
ListsOK(F) == F \in [Ids -> Seq(Reqs)]

(* How a step changes the lists. *)
Added(F, G, y, r) == G[y] = Append(F[y], r) /\ \A z \in Ids \ {y} : G[z] = F[z]
Dropped(F, G, x) == G[x] = Tail(F[x]) /\ \A z \in Ids \ {x} : G[z] = F[z]
Moved(F, G, x, y) ==
  /\ G[x] = Tail(F[x]) /\ G[y] = Append(F[y], Head(F[x]))
  /\ \A z \in Ids \ {x, y} : G[z] = F[z]

(* No request is in two places. *)
Once(F) ==
  \A x, y \in Ids : \A i \in DOMAIN F[x], j \in DOMAIN F[y] :
    F[x][i] = F[y][j] => x = y /\ i = j
HeldIn(F) == {r \in Reqs : \E x \in Ids : r \in Range(F[x])}

-----------------------------------------------------------------------------
(* Facts about one list. *)

(* What Append does to the entries of a list. *)
LEMMA AppendRange ==
  ASSUME NEW q \in Seq(Reqs), NEW r \in Reqs
  PROVE  /\ Append(q, r) \in Seq(Reqs)
         /\ Range(Append(q, r)) = Range(q) \cup {r}
         /\ DOMAIN Append(q, r) = DOMAIN q \cup {Len(q) + 1}
         /\ \A i \in DOMAIN q : Append(q, r)[i] = q[i]
         /\ Append(q, r)[Len(q) + 1] = r
<1>1. /\ Append(q, r) \in Seq(Reqs) /\ Len(Append(q, r)) = Len(q) + 1
      /\ \A i \in 1 .. Len(q) : Append(q, r)[i] = q[i]
      /\ Append(q, r)[Len(q) + 1] = r
  BY SeqAppend
<1>2. Len(q) \in Nat /\ DOMAIN q = 1 .. Len(q) /\ DOMAIN Append(q, r) = 1 .. Len(q) + 1
  BY <1>1, SeqLen, Zenon
<1>3. DOMAIN Append(q, r) = DOMAIN q \cup {Len(q) + 1}
  BY <1>2
<1>4. \A i \in DOMAIN q : Append(q, r)[i] = q[i]
  BY <1>1, <1>2, Zenon
<1>5. Range(Append(q, r)) = Range(q) \cup {r}
  BY <1>1, <1>3, <1>4 DEF Range
<1> QED BY <1>1, <1>3, <1>4, <1>5, Zenon

(* What Tail does to the entries of a list without repetitions. *)
LEMMA TailRange ==
  ASSUME NEW q \in Seq(Reqs), q # <<>>
  PROVE  /\ Tail(q) \in Seq(Reqs) /\ Head(q) \in Reqs /\ Head(q) \in Range(q)
         /\ 1 \in DOMAIN q /\ Head(q) = q[1]
         /\ \A i \in DOMAIN Tail(q) : i + 1 \in DOMAIN q /\ i + 1 # 1 /\ Tail(q)[i] = q[i + 1]
         /\ \A i \in DOMAIN q : i # 1 => i - 1 \in DOMAIN Tail(q) /\ Tail(q)[i - 1] = q[i]
         /\ Range(Tail(q)) \subseteq Range(q)
         /\ Range(q) = Range(Tail(q)) \cup {Head(q)}
<1>1. /\ Tail(q) \in Seq(Reqs) /\ Head(q) \in Reqs /\ Len(q) \in Nat \ {0}
      /\ Len(Tail(q)) = Len(q) - 1
  BY TailEmpty, Zenon
<1>2. DOMAIN q = 1 .. Len(q) /\ DOMAIN Tail(q) = 1 .. (Len(q) - 1)
  BY <1>1, SeqLen, Zenon
<1>3. Head(q) = q[1] /\ \A i \in 1 .. Len(Tail(q)) : Tail(q)[i] = q[i + 1]
  BY SeqHeadTail
<1>4. 1 \in DOMAIN q /\ Head(q) \in Range(q)
  BY <1>1, <1>2, <1>3 DEF Range
<1>5. \A i \in DOMAIN Tail(q) : i + 1 \in DOMAIN q /\ i + 1 # 1 /\ Tail(q)[i] = q[i + 1]
  BY <1>1, <1>2, <1>3
<1>6. \A i \in DOMAIN q : i # 1 => i - 1 \in DOMAIN Tail(q) /\ Tail(q)[i - 1] = q[i]
  <2> SUFFICES ASSUME NEW i \in DOMAIN q, i # 1
               PROVE  i - 1 \in DOMAIN Tail(q) /\ Tail(q)[i - 1] = q[i]
    BY Zenon
  <2>1. i - 1 \in DOMAIN Tail(q) /\ (i - 1) + 1 = i
    BY <1>1, <1>2
  <2> QED BY <1>5, <2>1, Zenon
<1>7. Range(Tail(q)) \subseteq Range(q)
  BY <1>5, Zenon DEF Range
<1>8. Range(q) \subseteq Range(Tail(q)) \cup {Head(q)}
  <2> SUFFICES ASSUME NEW i \in DOMAIN q, i # 1
               PROVE  q[i] \in Range(Tail(q))
    BY <1>3, Zenon DEF Range
  <2>1. i - 1 \in DOMAIN Tail(q) /\ Tail(q)[i - 1] = q[i]
    BY <1>6, Zenon
  <2> QED BY <2>1, Zenon DEF Range
<1> QED BY <1>1, <1>3, <1>4, <1>5, <1>6, <1>7, <1>8, Zenon

-----------------------------------------------------------------------------
(* Facts about all lists together. *)

(* A request that is nowhere can be put into a list. *)
LEMMA AddedOnce ==
  ASSUME NEW F, NEW G, ListsOK(F), ListsOK(G), NEW y \in Ids,
         NEW r \in Reqs, Added(F, G, y, r), Once(F), r \notin HeldIn(F)
  PROVE  /\ Once(G) /\ HeldIn(G) = HeldIn(F) \cup {r}
         /\ Range(G[y]) = Range(F[y]) \cup {r}
<1>1. /\ Range(G[y]) = Range(F[y]) \cup {r}
      /\ DOMAIN G[y] = DOMAIN F[y] \cup {Len(F[y]) + 1}
      /\ \A i \in DOMAIN F[y] : G[y][i] = F[y][i]
      /\ G[y][Len(F[y]) + 1] = r
  BY AppendRange DEF Added, ListsOK
<1>2. \A z \in Ids \ {y} : G[z] = F[z]
  BY Zenon DEF Added
<1>3. HeldIn(G) = HeldIn(F) \cup {r}
  BY <1>1, <1>2, Zenon DEF HeldIn
<1>4. \A z \in Ids : \A i \in DOMAIN F[z] : F[z][i] # r
  BY Zenon DEF HeldIn, Range
<1>5. \A z \in Ids : \A i \in DOMAIN G[z] :
        \/ i \in DOMAIN F[z] /\ G[z][i] = F[z][i]
        \/ z = y /\ i = Len(F[y]) + 1 /\ G[z][i] = r
  BY <1>1, <1>2, Zenon
<1>6. Once(G)
  <2> SUFFICES ASSUME NEW u \in Ids, NEW v \in Ids, NEW i \in DOMAIN G[u], NEW j \in DOMAIN G[v],
                      G[u][i] = G[v][j]
               PROVE  u = v /\ i = j
    BY Zenon DEF Once
  <2>1. CASE i \in DOMAIN F[u] /\ G[u][i] = F[u][i] /\ j \in DOMAIN F[v] /\ G[v][j] = F[v][j]
    <3>1. F[u][i] = F[v][j]
      BY <2>1, ZenonT(30)
    <3> QED BY <2>1, <3>1 DEF Once
  <2> QED BY <1>4, <1>5, <2>1
<1> QED BY <1>1, <1>3, <1>6, Zenon

(* The head of a list can be taken out; then it is nowhere. *)
LEMMA DroppedOnce ==
  ASSUME NEW F, NEW G, ListsOK(F), ListsOK(G), NEW x \in Ids,
         F[x] # <<>>, Dropped(F, G, x), Once(F)
  PROVE  /\ Once(G) /\ Head(F[x]) \in HeldIn(F)
         /\ HeldIn(G) = HeldIn(F) \ {Head(F[x])}
         /\ Range(G[x]) = Range(F[x]) \ {Head(F[x])}
         /\ \A z \in Ids \ {x} : Head(F[x]) \notin Range(F[z])
<1> DEFINE r == Head(F[x])
<1>1. /\ r \in Reqs /\ r \in Range(F[x]) /\ 1 \in DOMAIN F[x] /\ r = F[x][1]
      /\ \A i \in DOMAIN G[x] : i + 1 \in DOMAIN F[x] /\ i + 1 # 1 /\ G[x][i] = F[x][i + 1]
      /\ Range(G[x]) \subseteq Range(F[x]) /\ Range(F[x]) = Range(G[x]) \cup {r}
  BY TailRange DEF Dropped, ListsOK
<1>2. \A z \in Ids \ {x} : G[z] = F[z]
  BY Zenon DEF Dropped
<1> HIDE DEF r
<1>3. \A z \in Ids \ {x} : r \notin Range(F[z])
  BY <1>1 DEF Once, Range
<1>4. r \notin Range(G[x])
  <2> SUFFICES ASSUME NEW i \in DOMAIN G[x], G[x][i] = r PROVE FALSE
    BY Zenon DEF Range
  <2> QED BY <1>1 DEF Once
<1>5. Range(G[x]) = Range(F[x]) \ {r}
  BY <1>1, <1>4, Zenon
<1>6. HeldIn(G) = HeldIn(F) \ {r} /\ r \in HeldIn(F)
  <2>1. r \in HeldIn(F)
    BY <1>1, Zenon DEF HeldIn
  <2>2. \A z \in Ids : Range(G[z]) \subseteq Range(F[z]) /\ r \notin Range(G[z])
    BY <1>1, <1>2, <1>3, <1>4, Zenon
  <2>3. \A z \in Ids : Range(F[z]) \subseteq Range(G[z]) \cup {r}
    BY <1>1, <1>2, Zenon
  <2> QED BY <2>1, <2>2, <2>3, ZenonT(30) DEF HeldIn
<1>7. Once(G)
  <2>1. \A i \in DOMAIN G[x] : i \in Int
    BY SeqLen DEF ListsOK
  <2> SUFFICES ASSUME NEW u \in Ids, NEW v \in Ids, NEW i \in DOMAIN G[u], NEW j \in DOMAIN G[v],
                      G[u][i] = G[v][j]
               PROVE  u = v /\ i = j
    BY Zenon DEF Once
  <2>2. CASE u = x /\ v = x
    <3>1. F[x][i + 1] = F[x][j + 1] /\ i + 1 \in DOMAIN F[x] /\ j + 1 \in DOMAIN F[x]
      BY <1>1, <2>2, Zenon
    <3>2. i + 1 = j + 1
      BY <3>1 DEF Once
    <3> QED BY <2>1, <2>2, <3>2
  <2>3. CASE u = x /\ v # x
    BY <1>1, <1>2, <2>3 DEF Once
  <2>4. CASE u # x /\ v = x
    BY <1>1, <1>2, <2>4 DEF Once
  <2>5. CASE u # x /\ v # x
    BY <1>2, <2>5 DEF Once
  <2> QED BY <2>2, <2>3, <2>4, <2>5, Zenon
<1> QED BY <1>3, <1>5, <1>6, <1>7, Zenon DEF r

(* The head of one list can be moved to the end of another. *)
LEMMA MovedOnce ==
  ASSUME NEW F, NEW G, ListsOK(F), ListsOK(G),
         NEW x \in Ids, NEW y \in Ids, x # y, F[x] # <<>>, Moved(F, G, x, y), Once(F)
  PROVE  /\ Once(G) /\ HeldIn(G) = HeldIn(F)
         /\ Range(G[x]) = Range(F[x]) \ {Head(F[x])}
         /\ Range(G[y]) = Range(F[y]) \cup {Head(F[x])}
         /\ \A z \in Ids \ {x} : Head(F[x]) \notin Range(F[z])
         /\ Head(F[x]) \in HeldIn(F)
<1> DEFINE r == Head(F[x])
           H == [F EXCEPT ![x] = Tail(F[x])]
<1>1. Tail(F[x]) \in Seq(Reqs) /\ r \in Reqs
  BY TailRange, Zenon DEF ListsOK
<1>2. ListsOK(H) /\ Dropped(F, H, x) /\ Added(H, G, y, r)
  BY <1>1, Zenon DEF Dropped, Added, Moved, ListsOK
<1> HIDE DEF H
<1>3. /\ Once(H) /\ r \in HeldIn(F) /\ HeldIn(H) = HeldIn(F) \ {r}
      /\ Range(H[x]) = Range(F[x]) \ {r}
      /\ \A z \in Ids \ {x} : r \notin Range(F[z])
  BY <1>2, DroppedOnce
<1>4. r \notin HeldIn(H)
  BY <1>3, Zenon
<1>5. Once(G) /\ HeldIn(G) = HeldIn(H) \cup {r} /\ Range(G[y]) = Range(H[y]) \cup {r}
  BY <1>1, <1>2, <1>3, <1>4, AddedOnce
<1>6. H[y] = F[y] /\ G[x] = H[x]
  BY <1>2, Zenon DEF Dropped, Added
<1> QED BY <1>3, <1>5, <1>6, Zenon

-----------------------------------------------------------------------------
(* The lists of the fabric. *)

(* The requests in the link follow its packets. *)
LEMMA WireRequests ==
  ASSUME NEW w \in Seq(Packets)
  PROVE  /\ RequestsIn(w) \in Seq(Reqs) /\ (w # <<>> => RequestsIn(w) # <<>>)
         /\ \A k \in {"req", "resp"}, r \in Reqs :
              RequestsIn(Append(w, <<k, r>>)) = Append(RequestsIn(w), r)
         /\ w # <<>> => /\ RequestsIn(Tail(w)) = Tail(RequestsIn(w))
                        /\ Head(RequestsIn(w)) = Head(w)[2]
<1>1. Len(w) \in Nat /\ DOMAIN w = 1 .. Len(w) /\ \A i \in 1 .. Len(w) : w[i] \in Packets
  BY SeqLen, Zenon
<1>2. \A i \in 1 .. Len(w) : w[i][2] \in Reqs
  BY <1>1, Zenon DEF Packets
<1> DEFINE q == RequestsIn(w)
<1>3. q \in Seq(Reqs) /\ Len(q) = Len(w) /\ \A i \in 1 .. Len(w) : q[i] = w[i][2]
  BY <1>1, <1>2 DEF RequestsIn
<1>4. w # <<>> => q # <<>>
  BY <1>1, <1>3, SeqEmpty, Zenon
<1>5. ASSUME NEW k \in {"req", "resp"}, NEW r \in Reqs
      PROVE  RequestsIn(Append(w, <<k, r>>)) = Append(q, r)
  <2>1. /\ Append(w, <<k, r>>) \in Seq(Packets) /\ Len(Append(w, <<k, r>>)) = Len(w) + 1
        /\ \A i \in 1 .. Len(w) : Append(w, <<k, r>>)[i] = w[i]
        /\ Append(w, <<k, r>>)[Len(w) + 1] = <<k, r>>
    BY SeqAppend DEF Packets
  <2>2. /\ Append(q, r) \in Seq(Reqs) /\ Len(Append(q, r)) = Len(w) + 1
        /\ \A i \in 1 .. Len(w) : Append(q, r)[i] = w[i][2]
        /\ Append(q, r)[Len(w) + 1] = r
    BY <1>3, SeqAppend
  <2> DEFINE v == Append(w, <<k, r>>)
             u == Append(q, r)
  <2>3. DOMAIN v = 1 .. Len(w) + 1 /\ DOMAIN u = 1 .. Len(w) + 1
    BY <2>1, <2>2, SeqLen, Zenon
  <2>u. u \in [1 .. Len(w) + 1 -> Reqs]
    BY <2>2, SeqLen, ZenonT(30)
  <2> HIDE DEF u, v
  <2>4. \A i \in 1 .. Len(w) + 1 : v[i][2] = u[i]
    <3> TAKE i \in 1 .. Len(w) + 1
    <3>1. i \in 1 .. Len(w) \/ i = Len(w) + 1
      BY <1>1
    <3> QED BY <2>1, <2>2, <3>1 DEF u, v
  <2>5. RequestsIn(v) = u
    BY <2>3, <2>4, <2>u, Zenon DEF RequestsIn
  <2> QED BY <2>5, ZenonT(30) DEF u, v
<1>6. ASSUME w # <<>>
      PROVE  RequestsIn(Tail(w)) = Tail(q) /\ Head(q) = Head(w)[2]
  <2>1. /\ Tail(w) \in Seq(Packets) /\ Len(Tail(w)) = Len(w) - 1 /\ Head(w) = w[1]
        /\ \A i \in 1 .. Len(w) - 1 : Tail(w)[i] = w[i + 1]
    BY <1>6, SeqHeadTail
  <2>2. /\ Tail(q) \in Seq(Reqs) /\ Len(Tail(q)) = Len(w) - 1 /\ Head(q) = q[1]
        /\ \A i \in 1 .. Len(w) - 1 : Tail(q)[i] = q[i + 1]
    BY <1>3, <1>4, <1>6, SeqHeadTail
  <2>3. Len(w) # 0
    BY <1>6, SeqEmpty, Zenon
  <2>4. Head(q) = Head(w)[2]
    BY <1>1, <1>3, <2>1, <2>2, <2>3
  <2> DEFINE v == Tail(w)
             u == Tail(q)
  <2>5. DOMAIN v = 1 .. Len(w) - 1 /\ u \in [1 .. Len(w) - 1 -> Reqs]
    BY <2>1, <2>2, SeqLen, ZenonT(30)
  <2>6. \A i \in 1 .. Len(w) - 1 : v[i][2] = u[i]
    BY <1>1, <1>3, <2>1, <2>2
  <2> HIDE DEF u, v
  <2>7. RequestsIn(v) = u
    BY <2>5, <2>6, Zenon DEF RequestsIn
  <2> QED BY <2>4, <2>7, Zenon DEF u, v
<1> QED BY <1>3, <1>4, <1>5, <1>6, Zenon

(* The names of the lists. *)
LEMMA AllIds ==
  /\ \A x \in Ids : \/ \E b \in Bridges, p \in Configs : x = M(b, p) \/ x = S(b, p)
                    \/ \E d \in Ways : x = W(d)
  /\ \A b \in Bridges, p \in Configs : M(b, p) \in Ids /\ S(b, p) \in Ids
  /\ \A d \in Ways : W(d) \in Ids
BY DEF Ids, Ways, M, S, W

(* Names are different. *)
LEMMA IdsDiffer ==
  \A a, b, p, q :
    /\ M(a, p) = M(b, q) <=> a = b /\ p = q
    /\ S(a, p) = S(b, q) <=> a = b /\ p = q
    /\ W(a) = W(b) <=> a = b
    /\ M(a, p) # S(b, q) /\ M(a, p) # W(b) /\ S(a, p) # W(b)
BY DEF M, S, W

(* The lists themselves. *)
LEMMA Entries ==
  ASSUME NEW br, NEW w
  PROVE  /\ \A b \in Bridges, p \in Configs :
              /\ ListsOf(br, w)[M(b, p)] = br[b].master[p].list
              /\ ListsOf(br, w)[S(b, p)] = br[b].slave[p].list
         /\ \A d \in Ways : ListsOf(br, w)[W(d)] = RequestsIn(w[d])
BY ZenonT(30) DEF ListsOf, Ids, Ways, M, S, W

(* All lists of a fabric in shape are sequences of requests. *)
LEMMA ListsTyped ==
  ASSUME NEW br \in [Bridges -> BridgeType], NEW w \in [Ways -> Seq(Packets)]
  PROVE  ListsOK(ListsOf(br, w))
<1> DEFINE F == ListsOf(br, w)
<1>1. \A b \in Bridges, p \in Configs :
        br[b].master[p].list \in Seq(Reqs) /\ br[b].slave[p].list \in Seq(Reqs)
  BY Zenon DEF BridgeType, MasterType, SlaveType
<1>2. \A d \in Ways : RequestsIn(w[d]) \in Seq(Reqs)
  BY WireRequests, Zenon
<1>3. \A x \in Ids : F[x] \in Seq(Reqs)
  <2> TAKE x \in Ids
  <2>1. ASSUME NEW b \in Bridges, NEW p \in Configs
        PROVE  F[M(b, p)] \in Seq(Reqs) /\ F[S(b, p)] \in Seq(Reqs)
    <3>1. F[M(b, p)] = br[b].master[p].list
      BY Entries
    <3>2. F[S(b, p)] = br[b].slave[p].list
      BY Entries
    <3> HIDE DEF F
    <3> QED BY <1>1, <3>1, <3>2, Zenon
  <2>2. ASSUME NEW d \in Ways
        PROVE  F[W(d)] \in Seq(Reqs)
    <3>1. F[W(d)] = RequestsIn(w[d])
      BY Entries
    <3> HIDE DEF F
    <3> QED BY <1>2, <3>1, Zenon
  <2> HIDE DEF F
  <2> QED BY <2>1, <2>2, AllIds, Zenon
<1> QED BY <1>3, Zenon DEF ListsOK, ListsOf

-----------------------------------------------------------------------------
(* What each handler does to the lists and the slots of the fabric. *)
SameLists(F, G) == \A z \in Ids : G[z] = F[z]
PutAt(D, f, g, a, v) == g[a] = v /\ \A z \in D \ {a} : g[z] = f[z]
Changed(F, G, x, new) == G[x] = new /\ \A z \in Ids \ {x} : G[z] = F[z]

(* Bridge b went from o to n and only list x has changed. *)
OnlyAt(o, n, b, x, new) ==
  \A p \in Configs :
    /\ n.master[p].list = IF x = M(b, p) THEN new ELSE o.master[p].list
    /\ n.slave[p].list = IF x = S(b, p) THEN new ELSE o.slave[p].list

(* A list of one bridge changes, the link does not. *)
LEMMA OneBridgeLists ==
  ASSUME NEW br \in [Bridges -> BridgeType], NEW b \in Bridges, NEW n, NEW w,
         NEW c, PutAt(Bridges, br, c, b, n), NEW p0 \in Configs, NEW x \in {M(b, p0), S(b, p0)},
         NEW new, OnlyAt(br[b], n, b, x, new)
  PROVE  Changed(ListsOf(br, w), ListsOf(c, w), x, new)
<1> DEFINE F == ListsOf(br, w)
           G == ListsOf(c, w)
<1>x. x \in Ids
  BY AllIds, Zenon
<1>1. c[b] = n /\ \A a \in Bridges \ {b} : c[a] = br[a]
  BY Zenon DEF PutAt
<1>2. ASSUME NEW z \in Ids
      PROVE  G[z] = IF z = x THEN new ELSE F[z]
  <2>1. ASSUME NEW a \in Bridges, NEW p \in Configs, z = M(a, p)
        PROVE  G[z] = IF z = x THEN new ELSE F[z]
    <3>a. G[M(a, p)] = c[a].master[p].list
      BY <2>1, Entries
    <3>b. F[M(a, p)] = br[a].master[p].list
      BY <2>1, Entries
    <3> HIDE DEF F, G
    <3>1. G[z] = c[a].master[p].list /\ F[z] = br[a].master[p].list
      BY <2>1, <3>a, <3>b, Zenon
    <3>2. CASE a = b
      BY <1>1, <2>1, <3>1, <3>2, Zenon DEF OnlyAt
    <3>3. CASE a # b
      BY <1>1, <2>1, <3>1, <3>3, IdsDiffer
    <3> QED BY <3>2, <3>3, Zenon
  <2>2. ASSUME NEW a \in Bridges, NEW p \in Configs, z = S(a, p)
        PROVE  G[z] = IF z = x THEN new ELSE F[z]
    <3>a. G[S(a, p)] = c[a].slave[p].list
      BY <2>2, Entries
    <3>b. F[S(a, p)] = br[a].slave[p].list
      BY <2>2, Entries
    <3> HIDE DEF F, G
    <3>1. G[z] = c[a].slave[p].list /\ F[z] = br[a].slave[p].list
      BY <2>2, <3>a, <3>b, Zenon
    <3>2. CASE a = b
      BY <1>1, <2>2, <3>1, <3>2, Zenon DEF OnlyAt
    <3>3. CASE a # b
      BY <1>1, <2>2, <3>1, <3>3, IdsDiffer
    <3> QED BY <3>2, <3>3, Zenon
  <2>3. ASSUME NEW d \in Ways, z = W(d)
        PROVE  G[z] = IF z = x THEN new ELSE F[z]
    <3>1. G[z] = RequestsIn(w[d])
      BY <2>3, Entries
    <3>2. F[z] = RequestsIn(w[d])
      BY <2>3, Entries
    <3> HIDE DEF F, G
    <3> QED BY <2>3, <3>1, <3>2, IdsDiffer
  <2> QED BY <2>1, <2>2, <2>3, AllIds, Zenon
<1> HIDE DEF F, G
<1>3. G[x] = new /\ \A z \in Ids \ {x} : G[z] = F[z]
  BY <1>2, <1>x, Zenon
<1> QED BY <1>3, Zenon DEF F, G, Changed

(* A direction of the link changes, the bridges do not. *)
LEMMA OneWireLists ==
  ASSUME NEW br, NEW w, NEW d \in Ways, NEW v,
         NEW c, PutAt(Ways, w, c, d, v)
  PROVE  Changed(ListsOf(br, w), ListsOf(br, c), W(d), RequestsIn(v))
<1> DEFINE F == ListsOf(br, w)
           G == ListsOf(br, c)
<1>1. c[d] = v /\ \A a \in Ways \ {d} : c[a] = w[a]
  BY Zenon DEF PutAt
<1>2. G[W(d)] = RequestsIn(v)
  BY <1>1, Entries
<1>3. ASSUME NEW z \in Ids, z # W(d)
      PROVE  G[z] = F[z]
  <2>1. ASSUME NEW a \in Bridges, NEW p \in Configs
        PROVE  G[M(a, p)] = F[M(a, p)] /\ G[S(a, p)] = F[S(a, p)]
    <3>1. G[M(a, p)] = br[a].master[p].list /\ G[S(a, p)] = br[a].slave[p].list
      BY Entries
    <3>2. F[M(a, p)] = br[a].master[p].list /\ F[S(a, p)] = br[a].slave[p].list
      BY Entries
    <3> QED BY <3>1, <3>2, Zenon
  <2>2. ASSUME NEW a \in Ways, a # d
        PROVE  G[W(a)] = F[W(a)]
    <3>1. G[W(a)] = RequestsIn(c[a])
      BY Entries
    <3>2. F[W(a)] = RequestsIn(w[a])
      BY Entries
    <3> QED BY <1>1, <2>2, <3>1, <3>2, Zenon
  <2> HIDE DEF F, G
  <2> QED BY <1>3, <2>1, <2>2, AllIds, Zenon
<1> HIDE DEF F, G
<1>4. G[W(d)] = RequestsIn(v) /\ \A z \in Ids \ {W(d)} : G[z] = F[z]
  BY <1>2, <1>3, Zenon
<1> QED BY <1>4, Zenon DEF F, G, Changed

(* The slots of the ports change by k at one port. *)
OutBy(br, cr, b, s, k) ==
  \A a \in Bridges, p \in Configs :
    cr[a].slave[p].outstanding =
      br[a].slave[p].outstanding + (IF a = b /\ p = s THEN k ELSE 0)

(* An outstanding count that does not change. *)
LEMMA PlusNothing == \A x \in Int : x + 0 = x
OBVIOUS

(* The same when one bridge goes from o to n. *)
LEMMA OneBridgeOut ==
  ASSUME NEW br \in [Bridges -> BridgeType], NEW b \in Bridges, NEW n, NEW s \in Configs,
         NEW k \in Int, NEW c, PutAt(Bridges, br, c, b, n),
         n.slave[s].outstanding = br[b].slave[s].outstanding + k,
         \A p \in Configs \ {s} : n.slave[p].outstanding = br[b].slave[p].outstanding
  PROVE  OutBy(br, c, b, s, k)
<1>1. c[b] = n /\ \A a \in Bridges \ {b} : c[a] = br[a]
  BY Zenon DEF PutAt
<1>2. \A a \in Bridges, p \in Configs : br[a].slave[p].outstanding \in Int
  BY Zenon DEF BridgeType, SlaveType
<1>3. ASSUME NEW a \in Bridges, NEW p \in Configs
      PROVE  c[a].slave[p].outstanding =
               br[a].slave[p].outstanding + (IF a = b /\ p = s THEN k ELSE 0)
  <2>1. CASE a # b
    BY <1>1, <1>2, <2>1
  <2>2. CASE a = b /\ p # s
    BY <1>1, <1>2, <2>2
  <2>3. CASE a = b /\ p = s
    BY <1>1, <1>2, <2>3, Zenon
  <2> QED BY <2>1, <2>2, <2>3, Zenon
<1> QED BY <1>3, Zenon DEF OutBy

(* recvTimingReq: a request taken is at the end of a master port's list and  *)
(* has a slot if it needs a response; a request refused is where it was.     *)
LEMMA OfferEffect ==
  ASSUME FabricOK, NEW b \in Bridges, NEW s \in Configs, NEW r \in Reqs, Offer(b, s, r)
  PROVE  /\ Taken(b, s, r) =>
              /\ Added(lists, ListsOf(bridge', wire), M(b, MasterPort[b][r]), r)
              /\ OutBy(bridge, bridge', b, s, IF Needs[r] THEN 1 ELSE 0)
         /\ ~Taken(b, s, r) =>
              /\ SameLists(lists, ListsOf(bridge', wire))
              /\ OutBy(bridge, bridge', b, s, 0)
<1> DEFINE m == MasterPort[b][r]
           o == bridge[b]
           n == RecvTimingReq(o, s, m, r, Needs[r])
           k == IF Needs[r] THEN 1 ELSE 0
           G == ListsOf(bridge', wire)
<1>1. bridge' = [bridge EXCEPT ![b] = n] /\ bridge \in [Bridges -> BridgeType]
  BY Zenon DEF Offer, FabricOK
<1>p. PutAt(Bridges, bridge, bridge', b, n)
  BY <1>1, Zenon DEF PutAt
<1>2. m \in Configs /\ Needs[r] \in BOOLEAN /\ BridgeOK(o) /\ k \in Int /\ 0 \in Int
  BY MasterPortIsPort, FabricAssumption DEF FabricOK
<1>3. lists[M(b, m)] = o.master[m].list
  BY <1>2, Entries DEF lists
<1>o. /\ \A p \in Configs : o.slave[p].outstanding \in Int
      /\ Taken(b, s, r) <=> Takes(o, s, m, Needs[r])
  BY <1>1, Zenon DEF BridgeType, SlaveType, Taken
<1> HIDE DEF m
<1>4. ASSUME Takes(o, s, m, Needs[r])
      PROVE  Added(lists, G, M(b, m), r) /\ OutBy(bridge, bridge', b, s, k)
  <2>a. OneRequest(o, n, s, m, r, k)
    BY <1>2, <1>4, ReqTaken, Zenon
  <2> HIDE DEF n, k
  <2>b. /\ n.master[m].list = Append(o.master[m].list, r)
        /\ \A p \in Configs \ {m} : n.master[p] = o.master[p]
    BY <2>a, Zenon DEF OneRequest
  <2>1. \A p \in Configs : n.slave[p].list = o.slave[p].list
    BY <2>a, Zenon DEF OneRequest
  <2>2. \A p \in Configs \ {s} : n.slave[p].outstanding = o.slave[p].outstanding
    BY <2>a, Zenon DEF OneRequest
  <2>3. n.slave[s].outstanding = o.slave[s].outstanding + k
    BY <2>a, Zenon DEF OneRequest
  <2>4. OnlyAt(o, n, b, M(b, m), Append(o.master[m].list, r))
    <3> HIDE DEF o
    <3>1. ASSUME NEW p \in Configs
          PROVE  /\ n.master[p].list = IF M(b, m) = M(b, p) THEN Append(o.master[m].list, r)
                                      ELSE o.master[p].list
                 /\ n.slave[p].list = IF M(b, m) = S(b, p) THEN Append(o.master[m].list, r)
                                     ELSE o.slave[p].list
      <4>1. (M(b, m) = M(b, p) <=> m = p) /\ M(b, m) # S(b, p)
        BY IdsDiffer
      <4> QED BY <1>2, <2>b, <2>1, <4>1, ZenonT(30)
    <3> QED BY <3>1, Zenon DEF OnlyAt
  <2>5. Changed(lists, G, M(b, m), Append(o.master[m].list, r))
    BY <1>1, <1>2, <1>p, <2>4, OneBridgeLists, Zenon DEF lists
  <2>6. OutBy(bridge, bridge', b, s, k)
    BY <1>1, <1>2, <1>p, <2>2, <2>3, OneBridgeOut, Zenon
  <2> HIDE DEF G
  <2> QED BY <1>3, <2>5, <2>6, Zenon DEF Added, Changed
<1>5. ASSUME ~Takes(o, s, m, Needs[r])
      PROVE  SameLists(lists, G) /\ OutBy(bridge, bridge', b, s, 0)
  <2>0. OneRefusal(o, n, s)
    BY <1>2, <1>5, ReqRefused, Zenon
  <2> HIDE DEF n
  <2>1. n.master = o.master /\ \A p \in Configs : SameSlave(n.slave[p], o.slave[p])
    BY <2>0, Zenon DEF OneRefusal
  <2>2. OnlyAt(o, n, b, M(b, m), o.master[m].list)
    <3> HIDE DEF o
    <3> QED BY <1>2, <2>1, IdsDiffer DEF OnlyAt, SameSlave
  <2>3. Changed(lists, G, M(b, m), o.master[m].list)
    BY <1>1, <1>2, <1>p, <2>2, OneBridgeLists, Zenon DEF lists
  <2>4. \A p \in Configs : n.slave[p].outstanding = o.slave[p].outstanding
    BY <2>1, Zenon DEF SameSlave
  <2>5. n.slave[s].outstanding = o.slave[s].outstanding + 0
    BY <1>o, <2>4, PlusNothing, Zenon
  <2>6. OutBy(bridge, bridge', b, s, 0)
    BY <1>1, <1>2, <1>p, <2>4, <2>5, OneBridgeOut, Zenon
  <2> HIDE DEF G
  <2> QED BY <1>3, <2>3, <2>6, Zenon DEF SameLists, Changed
<1> HIDE DEF o, n
<1> QED BY <1>o, <1>4, <1>5, Zenon DEF m

(* recvTimingResp: the response is at the end of a slave port's list. *)
LEMMA RespEffect ==
  ASSUME FabricOK, NEW b \in Bridges, NEW r \in Reqs, NEW bus,
         bridge' = [bridge EXCEPT ![b] = RecvTimingResp(@, Config[b], bus, r)]
  PROVE  /\ Added(lists, ListsOf(bridge', wire), S(b, GetSlavePort(Config[b], bus)), r)
         /\ OutBy(bridge, bridge', b, 0, 0)
<1> DEFINE s == GetSlavePort(Config[b], bus)
           o == bridge[b]
           n == RecvTimingResp(o, Config[b], bus, r)
           G == ListsOf(bridge', wire)
<1>1. bridge' = [bridge EXCEPT ![b] = n] /\ bridge \in [Bridges -> BridgeType]
  BY Zenon DEF FabricOK
<1>p. PutAt(Bridges, bridge, bridge', b, n)
  BY <1>1, Zenon DEF PutAt
<1>2. s \in Configs /\ 0 \in Configs /\ 0 \in Int /\ BridgeOK(o)
  BY SlavePortIsPort, ConfigAssumption DEF FabricOK, Configs
<1>o. \A p \in Configs : o.slave[p].outstanding \in Int
  BY <1>1 DEF BridgeType, SlaveType
<1>3. lists[S(b, s)] = o.slave[s].list
  BY <1>2, Entries DEF lists
<1>e. OneResponse(o, n, s, r)
  BY <1>2, RespTaken, Zenon
<1> HIDE DEF n, s
<1>4. /\ n.master = o.master
      /\ n.slave[s].list = Append(o.slave[s].list, r)
      /\ \A p \in Configs \ {s} : n.slave[p].list = o.slave[p].list
      /\ \A p \in Configs : n.slave[p].outstanding = o.slave[p].outstanding
  <2> HIDE DEF o
  <2> QED BY <1>e, Zenon DEF OneResponse
<1>5. OnlyAt(o, n, b, S(b, s), Append(o.slave[s].list, r))
  <2> HIDE DEF o
  <2>1. ASSUME NEW p \in Configs
        PROVE  /\ n.master[p].list = IF S(b, s) = M(b, p) THEN Append(o.slave[s].list, r)
                                    ELSE o.master[p].list
               /\ n.slave[p].list = IF S(b, s) = S(b, p) THEN Append(o.slave[s].list, r)
                                   ELSE o.slave[p].list
    <3>1. (S(b, s) = S(b, p) <=> s = p) /\ S(b, s) # M(b, p)
      BY IdsDiffer
    <3> QED BY <1>2, <1>4, <3>1, ZenonT(30)
  <2> QED BY <2>1, Zenon DEF OnlyAt
<1>6. Changed(lists, G, S(b, s), Append(o.slave[s].list, r))
  BY <1>1, <1>2, <1>p, <1>5, OneBridgeLists, Zenon DEF lists
<1>7. /\ n.slave[0].outstanding = bridge[b].slave[0].outstanding + 0
      /\ \A p \in Configs \ {0} : n.slave[p].outstanding = bridge[b].slave[p].outstanding
  BY <1>2, <1>4, <1>o, PlusNothing, Zenon
<1> HIDE DEF G, o
<1>8. OutBy(bridge, bridge', b, 0, 0)
  BY <1>1, <1>2, <1>p, <1>7, OneBridgeOut, Zenon
<1>9. Added(lists, G, S(b, s), r)
  BY <1>3, <1>6, Zenon DEF Added, Changed
<1> QED BY <1>8, <1>9, Zenon DEF G, s

(* trySendTiming of a master port, when the peer takes the request. *)
LEMMA ReqSentEffect ==
  ASSUME FabricOK, NEW b \in Bridges, NEW m \in Configs, bridge[b].master[m].ev # "none",
         bridge' = [bridge EXCEPT ![b] = TrySendReq(@, m)]
  PROVE  /\ lists[M(b, m)] = bridge[b].master[m].list /\ bridge[b].master[m].list # <<>>
         /\ Head(bridge[b].master[m].list) \in Reqs
         /\ Dropped(lists, ListsOf(bridge', wire), M(b, m))
         /\ OutBy(bridge, bridge', b, 0, 0)
<1> DEFINE o == bridge[b]
           n == TrySendReq(o, m)
           G == ListsOf(bridge', wire)
<1>1. bridge' = [bridge EXCEPT ![b] = n] /\ bridge \in [Bridges -> BridgeType]
  BY Zenon DEF FabricOK
<1>p. PutAt(Bridges, bridge, bridge', b, n)
  BY <1>1, Zenon DEF PutAt
<1>2. 0 \in Configs /\ 0 \in Int /\ BridgeOK(o)
  BY ConfigAssumption DEF FabricOK, Configs
<1>o. \A p \in Configs : o.slave[p].outstanding \in Int
  BY <1>1 DEF BridgeType, SlaveType
<1>3. lists[M(b, m)] = o.master[m].list
  BY Entries DEF lists
<1>4. /\ o.master[m].list # <<>> /\ Head(o.master[m].list) \in Reqs
      /\ n.master[m].list = Tail(o.master[m].list)
      /\ \A p \in Configs \ {m} : n.master[p] = o.master[p]
      /\ \A p \in Configs : SameSlave(n.slave[p], o.slave[p])
  BY <1>2, ReqSent, Zenon
<1> HIDE DEF n
<1>5. OnlyAt(o, n, b, M(b, m), Tail(o.master[m].list))
  <2> HIDE DEF o
  <2>1. ASSUME NEW p \in Configs
        PROVE  /\ n.master[p].list = IF M(b, m) = M(b, p) THEN Tail(o.master[m].list)
                                    ELSE o.master[p].list
               /\ n.slave[p].list = IF M(b, m) = S(b, p) THEN Tail(o.master[m].list)
                                   ELSE o.slave[p].list
    <3>1. (M(b, m) = M(b, p) <=> m = p) /\ M(b, m) # S(b, p)
      BY IdsDiffer
    <3> QED BY <1>4, <3>1, Zenon DEF SameSlave
  <2> QED BY <2>1, Zenon DEF OnlyAt
<1>6. Changed(lists, G, M(b, m), Tail(o.master[m].list))
  BY <1>1, <1>p, <1>5, OneBridgeLists, Zenon DEF lists
<1>7. \A p \in Configs : n.slave[p].outstanding = o.slave[p].outstanding
  BY <1>4, Zenon DEF SameSlave
<1>8. n.slave[0].outstanding = o.slave[0].outstanding + 0
  BY <1>2, <1>7, <1>o, PlusNothing, Zenon
<1>9. OutBy(bridge, bridge', b, 0, 0)
  BY <1>1, <1>2, <1>p, <1>7, <1>8, OneBridgeOut, Zenon
<1> HIDE DEF G
<1>10. Dropped(lists, G, M(b, m))
  BY <1>3, <1>6, Zenon DEF Dropped, Changed
<1> QED BY <1>3, <1>4, <1>9, <1>10, Zenon DEF G

(* trySendTiming of a slave port, when the peer takes the response. *)
LEMMA RespSentEffect ==
  ASSUME FabricOK, NEW b \in Bridges, NEW s \in Configs, bridge[b].slave[s].ev # "none",
         bridge' = [bridge EXCEPT ![b] = TrySendResp(@, s)]
  PROVE  /\ lists[S(b, s)] = bridge[b].slave[s].list /\ bridge[b].slave[s].list # <<>>
         /\ Head(bridge[b].slave[s].list) \in Reqs
         /\ Dropped(lists, ListsOf(bridge', wire), S(b, s))
         /\ OutBy(bridge, bridge', b, s, -1)
<1> DEFINE o == bridge[b]
           n == TrySendResp(o, s)
           G == ListsOf(bridge', wire)
<1>1. bridge' = [bridge EXCEPT ![b] = n] /\ bridge \in [Bridges -> BridgeType]
  BY Zenon DEF FabricOK
<1>p. PutAt(Bridges, bridge, bridge', b, n)
  BY <1>1, Zenon DEF PutAt
<1>2. BridgeOK(o)
  BY Zenon DEF FabricOK
<1>o. \A p \in Configs : o.slave[p].outstanding \in Int
  BY <1>1 DEF BridgeType, SlaveType
<1>3. lists[S(b, s)] = o.slave[s].list
  BY Entries DEF lists
<1>4. /\ o.slave[s].list # <<>> /\ Head(o.slave[s].list) \in Reqs
      /\ n.slave[s].list = Tail(o.slave[s].list)
      /\ n.slave[s].outstanding = o.slave[s].outstanding - 1
      /\ \A p \in Configs \ {s} : n.slave[p] = o.slave[p]
      /\ n.master = o.master
  BY <1>2, RespSent, Zenon
<1> HIDE DEF n
<1>5. OnlyAt(o, n, b, S(b, s), Tail(o.slave[s].list))
  <2> HIDE DEF o
  <2>1. ASSUME NEW p \in Configs
        PROVE  /\ n.master[p].list = IF S(b, s) = M(b, p) THEN Tail(o.slave[s].list)
                                    ELSE o.master[p].list
               /\ n.slave[p].list = IF S(b, s) = S(b, p) THEN Tail(o.slave[s].list)
                                   ELSE o.slave[p].list
    <3>1. (S(b, s) = S(b, p) <=> s = p) /\ S(b, s) # M(b, p)
      BY IdsDiffer
    <3> QED BY <1>4, <3>1, Zenon
  <2> QED BY <2>1, Zenon DEF OnlyAt
<1>6. Changed(lists, G, S(b, s), Tail(o.slave[s].list))
  BY <1>1, <1>p, <1>5, OneBridgeLists, Zenon DEF lists
<1>7. /\ n.slave[s].outstanding = o.slave[s].outstanding + (-1)
      /\ \A p \in Configs \ {s} : n.slave[p].outstanding = o.slave[p].outstanding
  BY <1>4, <1>o, Zenon
<1>8. OutBy(bridge, bridge', b, s, -1)
  <2>1. -1 \in Int
    OBVIOUS
  <2> QED BY <1>1, <1>p, <1>7, <2>1, OneBridgeOut, Zenon
<1> HIDE DEF G
<1>9. Dropped(lists, G, S(b, s))
  BY <1>3, <1>6, Zenon DEF Dropped, Changed
<1> QED BY <1>3, <1>4, <1>8, <1>9, Zenon DEF G

(* A peer that refuses changes no list and no slot. *)
LEMMA RefuseEffect ==
  ASSUME FabricOK, NEW b \in Bridges, NEW p \in Configs,
         RefuseRequest(b, p) \/ RefuseResponse(b, p)
  PROVE  SameLists(lists, ListsOf(bridge', wire)) /\ OutBy(bridge, bridge', b, 0, 0)
<1> DEFINE o == bridge[b]
           G == ListsOf(bridge', wire)
<1>a. bridge \in [Bridges -> BridgeType] /\ BridgeOK(o)
  BY Zenon DEF FabricOK
<1>b. 0 \in Configs /\ 0 \in Int
  BY ConfigAssumption DEF Configs
<1>c. \A q \in Configs : o.slave[q].outstanding \in Int
  BY <1>a, Zenon DEF BridgeType, SlaveType
<1>0. /\ bridge \in [Bridges -> BridgeType] /\ 0 \in Configs /\ 0 \in Int /\ BridgeOK(o)
      /\ \A q \in Configs : o.slave[q].outstanding \in Int
  BY <1>a, <1>b, <1>c, Zenon
<1>1. ASSUME NEW n, bridge' = [bridge EXCEPT ![b] = n],
             \A q \in Configs : /\ n.master[q].list = o.master[q].list
                                /\ n.slave[q].list = o.slave[q].list
                                /\ n.slave[q].outstanding = o.slave[q].outstanding
      PROVE  SameLists(lists, G) /\ OutBy(bridge, bridge', b, 0, 0)
  <2>1. PutAt(Bridges, bridge, bridge', b, n)
    BY <1>0, <1>1, Zenon DEF PutAt
  <2>2. OnlyAt(o, n, b, M(b, 0), o.master[0].list)
    <3> HIDE DEF o
    <3>1. ASSUME NEW q \in Configs
          PROVE  /\ n.master[q].list = IF M(b, 0) = M(b, q) THEN o.master[0].list
                                      ELSE o.master[q].list
                 /\ n.slave[q].list = IF M(b, 0) = S(b, q) THEN o.master[0].list
                                     ELSE o.slave[q].list
      <4>1. (M(b, 0) = M(b, q) <=> 0 = q) /\ M(b, 0) # S(b, q)
        BY IdsDiffer
      <4> QED BY <1>0, <1>1, <4>1, Zenon
    <3> QED BY <3>1, Zenon DEF OnlyAt
  <2>3. Changed(lists, G, M(b, 0), o.master[0].list)
    BY <1>0, <2>1, <2>2, OneBridgeLists, Zenon DEF lists
  <2>4. lists[M(b, 0)] = o.master[0].list
    BY <1>0, Entries DEF lists
  <2>5. n.slave[0].outstanding = o.slave[0].outstanding + 0
    BY <1>0, <1>1, PlusNothing, Zenon
  <2>6. OutBy(bridge, bridge', b, 0, 0)
    BY <1>0, <1>1, <2>1, <2>5, OneBridgeOut, Zenon
  <2> HIDE DEF G
  <2> QED BY <2>3, <2>4, <2>6, Zenon DEF Changed, SameLists
<1>2. CASE RefuseRequest(b, p)
  <2> DEFINE n == [o EXCEPT !.master[p] = Refused(@)]
  <2>1. o.master[p].ev = "sched" /\ bridge' = [bridge EXCEPT ![b] = n]
    BY <1>2, Zenon DEF RefuseRequest
  <2>2. n.slave = o.slave /\ \A q \in Configs : n.master[q].list = o.master[q].list
    BY <1>0, <2>1, ReqWaits, Zenon
  <2> HIDE DEF n
  <2> QED BY <1>1, <2>1, <2>2, ZenonT(30)
<1>3. CASE RefuseResponse(b, p)
  <2> DEFINE n == [o EXCEPT !.slave[p] = Refused(@)]
  <2>1. o.slave[p].ev = "sched" /\ bridge' = [bridge EXCEPT ![b] = n]
    BY <1>3, Zenon DEF RefuseResponse
  <2>2. n.master = o.master /\ \A q \in Configs : SameSlave(n.slave[q], o.slave[q])
    BY <1>0, <2>1, RespWaits, ZenonT(30)
  <2> HIDE DEF n
  <2> QED BY <1>1, <2>1, <2>2, ZenonT(30) DEF SameSlave
<1> QED BY <1>2, <1>3, Zenon

-----------------------------------------------------------------------------
(* Where packets may be, from the wiring alone. *)

(* The bridge at the end of a direction of the link, and its port there. *)
End(d) == IF d = "down" THEN "sw" ELSE "rc"
EndPort(d) == IF d = "down" THEN 0 ELSE 1

(* The requester id of a request: the bus of the port it came in. *)
Home(r) == RequesterBus(Config[Entry[r][1]], UpBus[Entry[r][1]], Entry[r][2])

(* Requests go away from the bridge they entered by, responses to it. *)
OnWay(d, packet) ==
  /\ Passes(End(d), packet[2])
  /\ packet[1] = "req" => End(d) # Entry[packet[2]][1]
  /\ packet[1] = "resp" => Needs[packet[2]] /\ End(d) = Entry[packet[2]][1]
WireOK(w) == \A d \in Ways : \A i \in DOMAIN w[d] : OnWay(d, w[d][i])

(* A request waits at the port its address selects, a response at the port   *)
(* its request came in.                                                      *)
AtMaster(b, p, r) == p = MasterPort[b][r] /\ Passes(b, r)
AtSlave(b, p, r) == p = EntryPort(b, r) /\ Passes(b, r) /\ Needs[r]
PortsOK(F) ==
  \A b \in Bridges, p \in Configs :
    /\ \A r \in Range(F[M(b, p)]) : AtMaster(b, p, r)
    /\ \A r \in Range(F[S(b, p)]) : AtSlave(b, p, r)

(* The requester id is set once, and only requests with a response are served.*)
Stamped(bus, st, r) ==
  /\ bus[r] \in {-1, Home(r)}
  /\ st[r] \in {"sent", "served"} => bus[r] = Home(r)
  /\ st[r] = "served" => Needs[r]

(* What entry points and bridges look like. *)
LEMMA EntryShape ==
  ASSUME NEW r \in Reqs
  PROVE  /\ Entry[r][1] \in Bridges /\ Entry[r][2] \in Configs
         /\ Entry[r] = <<Entry[r][1], Entry[r][2]>>
         /\ Entry[r][1] = "rc" => Entry[r][2] # 1
         /\ Entry[r][1] = "sw" => Entry[r][2] # 0
         /\ Entry[r][1] = "sw" => MasterPort["sw"][r] = 0 /\ MasterPort["rc"][r] # 1
         /\ Entry[r][1] = "rc" /\ MasterPort["rc"][r] = 1 => MasterPort["sw"][r] # 0
         /\ Needs[r] \in BOOLEAN
         /\ \A b \in Bridges : EntryPort(b, r) \in Configs
<1>1. Entry[r] \in Bridges \X Configs /\ Needs[r] \in BOOLEAN
  BY FabricAssumption, Zenon
<1>2. /\ Entry[r][1] \in Bridges /\ Entry[r][2] \in Configs
      /\ Entry[r] = <<Entry[r][1], Entry[r][2]>>
  BY <1>1
<1>3. /\ Entry[r] \notin {<<"rc", 1>>, <<"sw", 0>>}
      /\ Entry[r][1] = "sw" => MasterPort["sw"][r] = 0 /\ MasterPort["rc"][r] # 1
      /\ Entry[r][1] = "rc" /\ MasterPort["rc"][r] = 1 => MasterPort["sw"][r] # 0
  BY TrafficAssumption, Zenon
<1>4. /\ Entry[r][1] = "rc" => Entry[r][2] # 1
      /\ Entry[r][1] = "sw" => Entry[r][2] # 0
  BY <1>2, <1>3, Zenon
<1>5. 0 \in Configs /\ 1 \in Configs
  BY ConfigAssumption DEF Configs
<1>6. \A b \in Bridges : EntryPort(b, r) \in Configs
  BY <1>2, <1>5, Zenon DEF EntryPort
<1> QED BY <1>1, <1>2, <1>3, <1>4, <1>6, Zenon

(* A bridge sends a request into the link exactly if it is the first of two, *)
(* a response exactly if it is the second; a device answers the last bridge. *)
LEMMA Routes ==
  ASSUME NEW r \in Reqs, NEW b \in Bridges, Passes(b, r)
  PROVE  /\ Direction(b, MasterPort[b][r]) # "leaf" => b = Entry[r][1]
         /\ Direction(b, MasterPort[b][r]) = "leaf" =>
              \A a \in Bridges : Passes(a, r) => a = b \/ a = Entry[r][1]
         /\ Direction(b, EntryPort(b, r)) = "leaf" <=> b = Entry[r][1]
<1>1. MasterPort.rc = MasterPort["rc"]
  BY Zenon
<1>2. CASE b = "rc"
  BY <1>1, <1>2, EntryShape, Zenon DEF Passes, Direction, EntryPort, Bridges
<1>3. CASE b = "sw"
  BY <1>1, <1>3, EntryShape, Zenon DEF Passes, Direction, EntryPort, Bridges
<1> QED BY <1>2, <1>3, Zenon DEF Bridges

(* The packet that a bridge sends into the link is on its way. *)
LEMMA SentOnWay ==
  ASSUME NEW r \in Reqs, NEW b \in Bridges, Passes(b, r), NEW d \in Ways
  PROVE  /\ Direction(b, MasterPort[b][r]) = d => OnWay(d, <<"req", r>>)
         /\ Direction(b, EntryPort(b, r)) = d /\ Needs[r] => OnWay(d, <<"resp", r>>)
<1>1. MasterPort.rc = MasterPort["rc"]
  BY Zenon
<1>2. CASE b = "rc"
  BY <1>1, <1>2, EntryShape, Zenon DEF Passes, Direction, EntryPort, Bridges, OnWay, End, Ways
<1>3. CASE b = "sw"
  BY <1>1, <1>3, EntryShape, Zenon DEF Passes, Direction, EntryPort, Bridges, OnWay, End, Ways
<1> QED BY <1>2, <1>3, Zenon DEF Bridges

(* A device answers a bridge that the request has passed, the last one. *)
LEMMA RespondsLast ==
  ASSUME NEW r \in Reqs
  PROVE  /\ Responder(r) \in Bridges /\ Passes(Responder(r), r)
         /\ \A a \in Bridges : Passes(a, r) => a = Responder(r) \/ a = Entry[r][1]
<1>1. MasterPort.rc = MasterPort["rc"]
  BY Zenon
<1> QED BY <1>1, EntryShape, Zenon DEF Responder, Passes, Bridges

(* A bridge at the end of the link knows requests by the port of the link. *)
LEMMA EndEntry ==
  ASSUME NEW r \in Reqs, NEW d \in Ways
  PROVE  /\ End(d) \in Bridges /\ EndPort(d) \in Configs
         /\ End(d) # Entry[r][1] => EntryPort(End(d), r) = EndPort(d)
<1>1. 0 \in Configs /\ 1 \in Configs
  BY ConfigAssumption DEF Configs
<1> QED BY <1>1, EntryShape, Zenon DEF End, EndPort, EntryPort, Bridges, Ways

(* The first port with a bus number in its range, if only one has it. *)
LEMMA OnlyPort ==
  ASSUME NEW b \in Bridges, NEW bus \in Nat, NEW p \in Ports, bus \in BusesOf(b, p)
  PROVE  GetSlavePort(Config[b], bus) = p
<1> DEFINE hits == {q \in Ports : /\ Config[b][q].sec <= bus /\ bus <= Config[b][q].sub
                                  /\ Config[b][q].isValid}
<1>1. \A q \in Ports : /\ Config[b][q].isValid = TRUE
                       /\ Config[b][q].sec \in Nat /\ Config[b][q].sub \in Nat
  BY BusAssumption, Zenon
<1>2. p \in hits
  BY <1>1 DEF BusesOf
<1>3. \A q \in hits : bus \in BusesOf(b, q)
  BY <1>1 DEF BusesOf
<1>4. \A q \in Ports \ {p} : BusesOf(b, p) \cap BusesOf(b, q) = {}
  BY BusAssumption, Zenon
<1>5. \A q \in hits : q = p
  BY <1>3, <1>4, Zenon
<1>6. FirstPort(hits) \in hits
  BY <1>2, FirstPortIsPort, Zenon
<1> QED BY <1>5, <1>6, Zenon DEF GetSlavePort

(* A bus number that no port has belongs upstream. *)
LEMMA NoPort ==
  ASSUME NEW b \in Bridges, NEW bus \in Nat, \A p \in Ports : bus \notin BusesOf(b, p)
  PROVE  GetSlavePort(Config[b], bus) = 0
<1>1. \A q \in Ports : Config[b][q].sec \in Nat /\ Config[b][q].sub \in Nat
  BY BusAssumption, Zenon
<1>2. {q \in Ports : /\ Config[b][q].sec <= bus /\ bus <= Config[b][q].sub
                     /\ Config[b][q].isValid} = {}
  BY <1>1 DEF BusesOf
<1> QED BY <1>2, Zenon DEF GetSlavePort, FirstPort

(* getSlavePort finds the port that a request came in, in every bridge on    *)
(* its way, from the requester id that the first bridge has set.             *)
LEMMA HomeFound ==
  ASSUME NEW r \in Reqs, NEW b \in Bridges, Passes(b, r)
  PROVE  Home(r) \in Nat /\ GetSlavePort(Config[b], Home(r)) = EntryPort(b, r)
<1> DEFINE a == Entry[r][1]
           s == Entry[r][2]
<1>1. a \in Bridges /\ s \in Configs /\ (a = "rc" => s # 1) /\ (a = "sw" => s # 0)
  BY EntryShape, Zenon
<1>2. s # 0 => s \in Ports
  BY <1>1 DEF Configs, Ports
<1>3. 1 \in Ports /\ "rc" \in Bridges /\ "sw" \in Bridges
  BY ConfigAssumption DEF Ports, Bridges
<1>4. Home(r) = IF s = 0 THEN UpBus[a] ELSE Config[a][s].sec
  BY Zenon DEF Home, RequesterBus
<1> HIDE DEF a, s
<1>5. CASE s = 0
  <2>1. a = "rc" /\ Home(r) = UpBus["rc"]
    BY <1>1, <1>4, <1>5, Zenon DEF Bridges
  <2>2. Home(r) \in Nat /\ \A p \in Ports : Home(r) \notin BusesOf("rc", p)
    BY <2>1, BusAssumption, Zenon
  <2>3. CASE b = "rc"
    <3>1. EntryPort(b, r) = 0
      BY <1>5, <2>1, <2>3, Zenon DEF EntryPort, a, s
    <3> QED BY <1>3, <2>2, <2>3, <3>1, NoPort, Zenon
  <2>4. CASE b = "sw"
    <3>1. EntryPort(b, r) = 0
      BY <2>1, <2>4, Zenon DEF EntryPort, a
    <3>2. \A p \in Ports : Home(r) \notin BusesOf("sw", p)
      BY <1>3, <2>2, BusAssumption, Zenon
    <3> QED BY <1>3, <2>2, <2>4, <3>1, <3>2, NoPort, Zenon
  <2> QED BY <2>3, <2>4, Zenon DEF Bridges
<1>6. CASE s # 0
  <2>1. /\ Config[a][s].sec \in Nat /\ Config[a][s].sub \in Nat
        /\ Config[a][s].sec <= Config[a][s].sub
    BY <1>1, <1>2, <1>6, BusAssumption, Zenon
  <2>2. Home(r) \in Nat /\ Home(r) \in BusesOf(a, s)
    BY <1>4, <1>6, <2>1 DEF BusesOf
  <2>3. CASE b = a
    <3>1. EntryPort(b, r) = s
      BY <2>3, Zenon DEF EntryPort, a, s
    <3> QED BY <1>2, <1>6, <2>2, <2>3, <3>1, OnlyPort, Zenon
  <2>4. CASE b = "sw" /\ a = "rc"
    <3>1. EntryPort(b, r) = 0
      BY <2>4, Zenon DEF EntryPort, a
    <3>2. BusesOf("rc", 1) \cap BusesOf("rc", s) = {}
      BY <1>1, <1>2, <1>3, <1>6, <2>4, BusAssumption, Zenon
    <3>3. \A p \in Ports : BusesOf("sw", p) \subseteq BusesOf("rc", 1)
      BY BusAssumption, Zenon
    <3>4. \A p \in Ports : Home(r) \notin BusesOf("sw", p)
      BY <2>2, <2>4, <3>2, <3>3, Zenon
    <3> QED BY <1>3, <2>2, <2>4, <3>1, <3>4, NoPort, Zenon
  <2>5. CASE b = "rc" /\ a = "sw"
    <3>1. EntryPort(b, r) = 1
      BY <2>5, Zenon DEF EntryPort, a
    <3>2. Home(r) \in BusesOf("rc", 1)
      BY <1>2, <1>6, <2>2, <2>5, BusAssumption, Zenon
    <3> QED BY <1>3, <2>2, <2>5, <3>1, <3>2, OnlyPort, Zenon
  <2> QED BY <1>1, <2>3, <2>4, <2>5, Zenon DEF Bridges
<1> QED BY <1>5, <1>6, Zenon

-----------------------------------------------------------------------------
(* Where one request is. *)
At(F, x, r) == r \in Range(F[x]) /\ \A z \in Ids \ {x} : r \notin Range(F[z])
Nowhere(F, r) == \A z \in Ids : r \notin Range(F[z])
SameFor(F, G, r) == \A z \in Ids : r \in Range(G[z]) <=> r \in Range(F[z])
InBridge(F, b, r) ==
  \E p \in Configs : r \in Range(F[M(b, p)]) \/ r \in Range(F[S(b, p)])

(* A request in one list of a bridge is in that bridge only, one in the link *)
(* is in none.                                                               *)
LEMMA PlaceBridge ==
  ASSUME NEW F, NEW r, NEW a \in Bridges
  PROVE  /\ \A b \in Bridges, p \in Configs :
              At(F, M(b, p), r) \/ At(F, S(b, p), r) => (InBridge(F, a, r) <=> a = b)
         /\ \A d \in Ways : At(F, W(d), r) => ~InBridge(F, a, r)
         /\ Nowhere(F, r) => ~InBridge(F, a, r)
<1>1. \A p \in Configs : M(a, p) \in Ids /\ S(a, p) \in Ids
  BY AllIds, Zenon
<1>2. ASSUME NEW b \in Bridges, NEW p \in Configs, At(F, M(b, p), r)
      PROVE  InBridge(F, a, r) <=> a = b
  <2>1. CASE a = b
    BY <1>2, <2>1, Zenon DEF At, InBridge
  <2>2. CASE a # b
    <3>1. \A q \in Configs : M(a, q) # M(b, p) /\ S(a, q) # M(b, p)
      BY <2>2, IdsDiffer
    <3>2. \A q \in Configs : r \notin Range(F[M(a, q)]) /\ r \notin Range(F[S(a, q)])
      BY <1>1, <1>2, <3>1, Zenon DEF At
    <3> QED BY <2>2, <3>2, Zenon DEF InBridge
  <2> QED BY <2>1, <2>2, Zenon
<1>3. ASSUME NEW b \in Bridges, NEW p \in Configs, At(F, S(b, p), r)
      PROVE  InBridge(F, a, r) <=> a = b
  <2>1. CASE a = b
    BY <1>3, <2>1, Zenon DEF At, InBridge
  <2>2. CASE a # b
    <3>1. \A q \in Configs : M(a, q) # S(b, p) /\ S(a, q) # S(b, p)
      BY <2>2, IdsDiffer
    <3>2. \A q \in Configs : r \notin Range(F[M(a, q)]) /\ r \notin Range(F[S(a, q)])
      BY <1>1, <1>3, <3>1, Zenon DEF At
    <3> QED BY <2>2, <3>2, Zenon DEF InBridge
  <2> QED BY <2>1, <2>2, Zenon
<1>4. ASSUME NEW d \in Ways, At(F, W(d), r)
      PROVE  ~InBridge(F, a, r)
  <2>1. \A q \in Configs : M(a, q) # W(d) /\ S(a, q) # W(d)
    BY IdsDiffer
  <2>2. \A q \in Configs : r \notin Range(F[M(a, q)]) /\ r \notin Range(F[S(a, q)])
    BY <1>1, <1>4, <2>1, Zenon DEF At
  <2> QED BY <2>2, Zenon DEF InBridge
<1>5. Nowhere(F, r) => ~InBridge(F, a, r)
  BY <1>1, Zenon DEF Nowhere, InBridge
<1> QED BY <1>2, <1>3, <1>4, <1>5, Zenon

(* A request whose places do not change stays in its bridge. *)
LEMMA SameBridge ==
  ASSUME NEW F, NEW G, NEW r, SameFor(F, G, r), NEW b \in Bridges
  PROVE  InBridge(G, b, r) <=> InBridge(F, b, r)
<1>1. \A p \in Configs : M(b, p) \in Ids /\ S(b, p) \in Ids
  BY AllIds, Zenon
<1> QED BY <1>1, Zenon DEF SameFor, InBridge

(* Adding, dropping and moving concern one request. *)
LEMMA AddedPlaces ==
  ASSUME NEW F, NEW G, ListsOK(F), ListsOK(G), NEW y \in Ids,
         NEW r \in Reqs, Added(F, G, y, r), Once(F), r \notin HeldIn(F)
  PROVE  /\ Once(G) /\ HeldIn(G) = HeldIn(F) \cup {r}
         /\ Nowhere(F, r) /\ At(G, y, r)
         /\ \A q \in Reqs \ {r} : SameFor(F, G, q)
<1>1. /\ Once(G) /\ HeldIn(G) = HeldIn(F) \cup {r}
      /\ Range(G[y]) = Range(F[y]) \cup {r}
  BY AddedOnce
<1>2. \A z \in Ids \ {y} : G[z] = F[z]
  BY Zenon DEF Added
<1>3. Nowhere(F, r)
  BY Zenon DEF HeldIn, Nowhere
<1>4. At(G, y, r)
  BY <1>1, <1>2, <1>3, Zenon DEF At, Nowhere
<1>5. \A q \in Reqs \ {r} : SameFor(F, G, q)
  BY <1>1, <1>2, Zenon DEF SameFor
<1> QED BY <1>1, <1>3, <1>4, <1>5, Zenon

(* The same for a request that leaves a list. *)
LEMMA DroppedPlaces ==
  ASSUME NEW F, NEW G, ListsOK(F), ListsOK(G), NEW x \in Ids, NEW r \in Reqs,
         F[x] # <<>>, r = Head(F[x]), Dropped(F, G, x), Once(F)
  PROVE  /\ Once(G) /\ r \in HeldIn(F) /\ HeldIn(G) = HeldIn(F) \ {r}
         /\ At(F, x, r) /\ Nowhere(G, r)
         /\ \A q \in Reqs \ {r} : SameFor(F, G, q)
<1>1. /\ Once(G) /\ r \in HeldIn(F) /\ HeldIn(G) = HeldIn(F) \ {r}
      /\ Range(G[x]) = Range(F[x]) \ {r}
      /\ \A z \in Ids \ {x} : r \notin Range(F[z])
  BY DroppedOnce
<1>2. \A z \in Ids \ {x} : G[z] = F[z]
  BY Zenon DEF Dropped
<1>3. r \in Range(F[x])
  BY TailRange, Zenon DEF ListsOK
<1>4. At(F, x, r) /\ Nowhere(G, r)
  BY <1>1, <1>2, <1>3, Zenon DEF At, Nowhere
<1>5. \A q \in Reqs \ {r} : SameFor(F, G, q)
  BY <1>1, <1>2 DEF SameFor
<1> QED BY <1>1, <1>4, <1>5, Zenon

(* The same for a request that moves from one list to another. *)
LEMMA MovedPlaces ==
  ASSUME NEW F, NEW G, ListsOK(F), ListsOK(G), NEW x \in Ids, NEW y \in Ids, x # y,
         NEW r \in Reqs, F[x] # <<>>, r = Head(F[x]), Moved(F, G, x, y), Once(F)
  PROVE  /\ Once(G) /\ r \in HeldIn(F) /\ HeldIn(G) = HeldIn(F)
         /\ At(F, x, r) /\ At(G, y, r)
         /\ \A q \in Reqs \ {r} : SameFor(F, G, q)
<1>1. /\ Once(G) /\ HeldIn(G) = HeldIn(F)
      /\ Range(G[x]) = Range(F[x]) \ {r}
      /\ Range(G[y]) = Range(F[y]) \cup {r}
      /\ \A z \in Ids \ {x} : r \notin Range(F[z])
      /\ r \in HeldIn(F)
  BY MovedOnce
<1>2. \A z \in Ids \ {x, y} : G[z] = F[z]
  BY Zenon DEF Moved
<1>3. r \in Range(F[x])
  BY TailRange, Zenon DEF ListsOK
<1>4. At(F, x, r) /\ At(G, y, r)
  BY <1>1, <1>2, <1>3, Zenon DEF At
<1>5. \A q \in Reqs \ {r} : SameFor(F, G, q)
  BY <1>1, <1>2, Zenon DEF SameFor
<1> QED BY <1>1, <1>4, <1>5, Zenon

(* Taking from one list and adding to another is moving, in either order. *)
LEMMA DropThenAdd ==
  ASSUME NEW F, NEW G, NEW H, NEW x \in Ids, NEW y \in Ids, x # y,
         Dropped(F, G, x), Changed(G, H, y, Append(F[y], Head(F[x])))
  PROVE  Moved(F, H, x, y)
BY Zenon DEF Dropped, Changed, Moved

(* The other order: the packet is taken from the link after a bridge has it. *)
LEMMA AddThenDrop ==
  ASSUME NEW F, NEW G, NEW H, NEW x \in Ids, NEW y \in Ids, x # y, NEW r,
         Added(F, G, y, r), Changed(G, H, x, Tail(F[x])), r = Head(F[x])
  PROVE  Moved(F, H, x, y)
BY Zenon DEF Added, Changed, Moved

=============================================================================
