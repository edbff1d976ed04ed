----------------------------- MODULE PciBridge ------------------------------
(***************************************************************************)
(* The data path of a PCI bridge (gem5/src/mem/PciBridge.cc): slave ports, *)
(* which accept requests and send responses, and master ports, which send  *)
(* requests and accept responses.  Port 0 faces upstream (slavePort,       *)
(* masterPort_DMA), ports 1 .. NPorts face downstream.  An operator here   *)
(* is the bridge's handler of the same name: it takes the state of the     *)
(* bridge and returns the state the handler leaves.                        *)
(*                                                                         *)
(* ev stands for sendEvent and what trySendTiming waits for: nothing, the  *)
(* event, or a retry of the peer that has refused the head of the list.    *)
(* The delay of a queued packet is left out: its event fires at some time. *)
(***************************************************************************)
EXTENDS PciConfig

CONSTANTS
  ReqLimit,   \* reqQueueLimit, of each master port
  RespLimit   \* respQueueLimit, of each slave port

ASSUME LimitAssumption == ReqLimit \in Nat \ {0} /\ RespLimit \in Nat \ {0}

NewBridge ==
  [slave |-> [s \in Configs |->
               [list |-> <<>>, ev |-> "none", outstanding |-> 0, retryReq |-> FALSE]],
   master |-> [m \in Configs |-> [list |-> <<>>, ev |-> "none"]]]

-----------------------------------------------------------------------------
(* A transmitList: schedTimingReq and schedTimingResp, and trySendTiming     *)
(* when the peer has refused its head and when it has taken it.              *)
Enqueue(q, r) ==
  [q EXCEPT !.list = Append(@, r), !.ev = IF q.list = <<>> THEN "sched" ELSE @]

(* Mutant: recvReqRetry and recvRespRetry do nothing, as they do in the link. *)
RefusedForGood(q) == [q EXCEPT !.ev = "none"]

Refused(q) == [q EXCEPT !.ev = "wait"]

Dequeue(q) ==
  [q EXCEPT !.list = Tail(@), !.ev = IF Len(q.list) = 1 THEN "none" ELSE "sched"]

-----------------------------------------------------------------------------
(* The requester id that the first bridge on the way puts into a packet:     *)
(* the bus of the upstream port, or the secondary bus of the port it came in.*)
RequesterBus(c, upstreamBus, s) == IF s = 0 THEN upstreamBus ELSE c[s].sec

ReqQueueFull(b, m) == Len(b.master[m].list) = ReqLimit
RespQueueFull(b, s) == b.slave[s].outstanding = RespLimit

(* Mutant: a full response queue is not looked at. *)
TakesReqRoom(b, s, m, needsResponse) == ~b.slave[s].retryReq /\ ~ReqQueueFull(b, m)

(* recvTimingReq of slave port s for a request that getMasterPort sends to m. *)
Takes(b, s, m, needsResponse) ==
  /\ ~b.slave[s].retryReq
  /\ ~ReqQueueFull(b, m)
  /\ needsResponse => ~RespQueueFull(b, s)

(* Mutant: no space is reserved for the response. *)
RecvTimingReqUnreserved(b, s, m, r, needsResponse) ==
  IF Takes(b, s, m, needsResponse)
  THEN [b EXCEPT !.master[m] = Enqueue(@, r)]
  ELSE [b EXCEPT !.slave[s].retryReq = TRUE]

RecvTimingReq(b, s, m, r, needsResponse) ==
  IF Takes(b, s, m, needsResponse)
  THEN [b EXCEPT !.master[m] = Enqueue(@, r),
                 !.slave[s].outstanding = @ + (IF needsResponse THEN 1 ELSE 0)]
  ELSE [b EXCEPT !.slave[s].retryReq = TRUE]

(* recvTimingResp of a master port: it never refuses. *)
RecvTimingResp(b, c, bus, r) ==
  [b EXCEPT !.slave[GetSlavePort(c, bus)] = Enqueue(@, r)]

(* Mutant: only the upstream slave port is told to try again. *)
TrySendReqOneRetry(b, m) ==
  [b EXCEPT !.master[m] = Dequeue(@), !.slave[0].retryReq = FALSE]

(* trySendTiming of a master port, when the peer takes the request:          *)
(* retryStalledReq for every slave port.                                     *)
TrySendReq(b, m) ==
  [b EXCEPT !.master[m] = Dequeue(@),
            !.slave = [s \in Configs |-> [@[s] EXCEPT !.retryReq = FALSE]]]

(* trySendTiming of a slave port, when the peer takes the response. *)
TrySendResp(b, s) ==
  LET q == Dequeue(b.slave[s])
  IN [b EXCEPT !.slave[s] =
        [q EXCEPT !.outstanding = q.outstanding - 1, !.retryReq = FALSE]]
=============================================================================
