----------------------------- MODULE PciFabric ------------------------------
(***************************************************************************)
(* Two bridges as configs/common/FSConfig.py connects them: a root complex *)
(* "rc" between the memory bus and its ports, and a switch "sw" behind a   *)
(* PCIe link on port 1 of the root complex.  Requests of the processor go  *)
(* down to devices, requests of devices (DMA) go up to memory; a response  *)
(* goes back the way its request came, found by bus numbers.               *)
(*                                                                         *)
(* The link is what PCIELink provides (ReliableChannel): in each direction *)
(* packets arrive once, in the order sent, and one that the receiver       *)
(* refuses blocks those behind it and is tried again.  It provides that    *)
(* only once a first TLP has been taken in that direction: while none has, *)
(* a TLP behind a refused one makes the receiver acknowledge both, and     *)
(* they are lost (AckSound in PCIELink).  So the model starts when the     *)
(* links are past that, and ends before 2^31 TLPs.  Devices sit behind     *)
(* links of their own, so a request of theirs is tried again too, whereas  *)
(* the memory bus waits for the retry it was promised.                     *)
(***************************************************************************)
EXTENDS PciBridge, FiniteSets, Functions

CONSTANTS
  Reqs,     \* bound: the requests, each made once
  Entry,    \* [Reqs -> <<bridge, slave port>>]: where a request comes in
  Addr,     \* [Reqs -> address]
  Needs,    \* [Reqs -> BOOLEAN]: needsResponse
  Config,   \* [bridge -> config_class of its ports], as enumeration left it
  UpBus,    \* [bridge -> pci_bus of storage_ptr4]
  LinkSize  \* packets the link holds in each direction

Bridges == {"rc", "sw"}
ASSUME FabricAssumption ==
  /\ IsFiniteSet(Reqs)
  /\ Entry \in [Reqs -> Bridges \X Configs] /\ Needs \in [Reqs -> BOOLEAN]
  /\ LinkSize \in Nat \ {0}

(* getMasterPort for each request. *)
MasterPort == [b \in Bridges |-> [r \in Reqs |-> GetMasterPort(Config[b], Addr[r])]]

(* The traffic considered: nothing but the link is connected to its ports,   *)
(* DMA goes up to memory (or to a device beside the switch), and what the    *)
(* root complex sends down is for a device behind the switch.                *)
ASSUME TrafficAssumption ==
  \A r \in Reqs :
    /\ Entry[r] \notin {<<"rc", 1>>, <<"sw", 0>>}
    /\ Entry[r][1] = "sw" => MasterPort["sw"][r] = 0 /\ MasterPort["rc"][r] # 1
    /\ Entry[r][1] = "rc" /\ MasterPort["rc"][r] = 1 => MasterPort["sw"][r] # 0

(* Bus numbers as enumeration leaves them: the ports of a bridge have        *)
(* disjoint ranges, those of the switch lie in the range of the port above.  *)
BusesOf(b, p) == Config[b][p].sec .. Config[b][p].sub
ASSUME BusAssumption ==
  /\ \A b \in Bridges, p \in Ports :
       /\ Config[b][p].isValid = TRUE
       /\ Config[b][p].sec \in Nat /\ Config[b][p].sub \in Nat
       /\ Config[b][p].sec <= Config[b][p].sub
       /\ \A q \in Ports \ {p} : BusesOf(b, p) \cap BusesOf(b, q) = {}
  /\ \A p \in Ports : BusesOf("sw", p) \subseteq BusesOf("rc", 1)
  /\ UpBus["rc"] \in Nat /\ UpBus["sw"] \in Nat
  /\ \A p \in Ports : UpBus["rc"] \notin BusesOf("rc", p)

VARIABLES
  bridge,   \* [Bridges -> the state of a bridge]
  reqBus,   \* [Reqs -> req_bus of the packet, -1 if no bridge has set it]
  wire,     \* ["down", "up" -> packets <<kind, request>> in the link]
  stage     \* [Reqs -> "ready", "stalled", "sent", "served", "done"]

vars == <<bridge, reqBus, wire, stage>>

(* Idle: as the bridges were built, and as they are again whenever all they  *)
(* took has been answered, here after a first packet has crossed each link   *)
(* both ways.                                                                *)
Init ==
  /\ bridge = [b \in Bridges |-> NewBridge]
  /\ reqBus = [r \in Reqs |-> -1]
  /\ wire = [d \in {"down", "up"} |-> <<>>]
  /\ stage = [r \in Reqs |-> "ready"]

-----------------------------------------------------------------------------
(* Mutant: every bridge sets the requester id. *)
StampAlways(b, s, r) == RequesterBus(Config[b], UpBus[b], s)

(* The requester id after slave port s of b has seen the request. *)
Stamp(b, s, r) ==
  IF reqBus[r] = -1 THEN RequesterBus(Config[b], UpBus[b], s) ELSE reqBus[r]

Offer(b, s, r) ==
  /\ reqBus' = [reqBus EXCEPT ![r] = Stamp(b, s, r)]
  /\ bridge' = [bridge EXCEPT ![b] = RecvTimingReq(@, s, MasterPort[b][r], r, Needs[r])]
Taken(b, s, r) == Takes(bridge[b], s, MasterPort[b][r], Needs[r])

(* The memory bus: only it waits for a retry, which is a call of             *)
(* sendRetryReq and so comes whenever retryReq of its port is cleared.       *)
FromBus(r) == Entry[r] = <<"rc", 0>>
Retried(st) ==
  [r \in Reqs |-> IF /\ st[r] = "stalled" /\ bridge.rc.slave[0].retryReq
                     /\ ~bridge'.rc.slave[0].retryReq
                  THEN "ready" ELSE st[r]]

(* A request is made, or tried again. *)
Request(r) ==
  LET b == Entry[r][1]
      s == Entry[r][2]
  IN /\ stage[r] = "ready"
     /\ Offer(b, s, r)
     /\ stage' = [stage EXCEPT ![r] = IF Taken(b, s, r) THEN "sent"
                                      ELSE IF FromBus(r) THEN "stalled" ELSE @]
     /\ UNCHANGED wire

-----------------------------------------------------------------------------
(* Where a port leads: into the link, or to a device or a bus. *)
Direction(b, p) ==
  CASE b = "rc" /\ p = 1 -> "down" [] b = "sw" /\ p = 0 -> "up" [] OTHER -> "leaf"
Room(d) == d # "leaf" => Len(wire[d]) < LinkSize
Into(d, packet) ==
  IF d = "leaf" THEN wire ELSE [wire EXCEPT ![d] = Append(@, packet)]

(* A peer may refuse what it is offered first; the link does when it is full.*)
(* It takes what it is offered after the retry it then owes.                 *)
SendRequest(b, m) ==
  LET q == bridge[b].master[m]
      r == Head(q.list)
      d == Direction(b, m)
  IN /\ q.ev # "none" /\ Room(d)
     /\ bridge' = [bridge EXCEPT ![b] = TrySendReq(@, m)]
     /\ wire' = Into(d, <<"req", r>>)
     /\ stage' = Retried([stage EXCEPT ![r] =
                   IF d # "leaf" THEN @ ELSE IF Needs[r] THEN "served" ELSE "done"])
     /\ UNCHANGED reqBus

SendResponse(b, s) ==
  LET q == bridge[b].slave[s]
      r == Head(q.list)
      d == Direction(b, s)
  IN /\ q.ev # "none" /\ Room(d)
     /\ bridge' = [bridge EXCEPT ![b] = TrySendResp(@, s)]
     /\ wire' = Into(d, <<"resp", r>>)
     /\ stage' = Retried([stage EXCEPT ![r] = IF d = "leaf" THEN "done" ELSE @])
     /\ UNCHANGED reqBus

RefuseRequest(b, m) ==
  /\ bridge[b].master[m].ev = "sched"
  /\ Direction(b, m) = "leaf" \/ ~Room(Direction(b, m))
  /\ bridge' = [bridge EXCEPT ![b].master[m] = Refused(@)]
  /\ UNCHANGED <<reqBus, wire, stage>>

RefuseResponse(b, s) ==
  /\ bridge[b].slave[s].ev = "sched"
  /\ Direction(b, s) = "leaf" \/ ~Room(Direction(b, s))
  /\ bridge' = [bridge EXCEPT ![b].slave[s] = Refused(@)]
  /\ UNCHANGED <<reqBus, wire, stage>>

-----------------------------------------------------------------------------
(* A device, or memory, answers through the master port that reached it. *)
Responder(r) == IF MasterPort.rc[r] = 1 THEN "sw" ELSE "rc"

Respond(r) ==
  LET b == Responder(r)
  IN /\ stage[r] = "served"
     /\ bridge' = [bridge EXCEPT ![b] = RecvTimingResp(@, Config[b], reqBus[r], r)]
     /\ stage' = [stage EXCEPT ![r] = "sent"]
     /\ UNCHANGED <<reqBus, wire>>

(* The link hands over its oldest packet: a request to a slave port, which   *)
(* may refuse it, a response to a master port.  A TLP behind a refused one   *)
(* is acknowledged with recvSeqNum - 1, which frees only what was taken.     *)
Arrive(d) ==
  LET b == IF d = "down" THEN "sw" ELSE "rc"
      s == IF d = "down" THEN 0 ELSE 1
      kind == Head(wire[d])[1]
      r == Head(wire[d])[2]
  IN /\ wire[d] # <<>>
     /\ \/ /\ kind = "req"
           /\ Offer(b, s, r)
           /\ wire' = IF Taken(b, s, r) THEN [wire EXCEPT ![d] = Tail(@)] ELSE wire
        \/ /\ kind = "resp"
           /\ bridge' = [bridge EXCEPT ![b] = RecvTimingResp(@, Config[b], reqBus[r], r)]
           /\ wire' = [wire EXCEPT ![d] = Tail(@)]
           /\ UNCHANGED reqBus
     /\ UNCHANGED stage

Next ==
  \/ \E r \in Reqs : Request(r) \/ Respond(r)
  \/ \E b \in Bridges, p \in Configs :
       \/ SendRequest(b, p) \/ RefuseRequest(b, p)
       \/ SendResponse(b, p) \/ RefuseResponse(b, p)
  \/ \E d \in {"down", "up"} : Arrive(d)

Spec == Init /\ [][Next]_vars

(* The event queue runs every event that is scheduled; a peer keeps its      *)
(* promise of a retry; a link replays, a device answers.                     *)
Fairness ==
  /\ \A r \in Reqs : WF_vars(Request(r)) /\ WF_vars(Respond(r))
  /\ \A b \in Bridges, p \in Configs :
       WF_vars(SendRequest(b, p)) /\ WF_vars(SendResponse(b, p))
  /\ \A d \in {"down", "up"} : WF_vars(Arrive(d))
FairSpec == Spec /\ Fairness

-----------------------------------------------------------------------------
(* Properties. *)
Queued(b) ==
  UNION {Range(bridge[b].master[p].list) \cup Range(bridge[b].slave[p].list) : p \in Configs}

(* The slave port of b that a request enters by, from the wiring alone. *)
Passes(b, r) ==
  b = Entry[r][1] \/ b = "rc" \/ MasterPort.rc[r] = 1
EntryPort(b, r) ==
  IF b = Entry[r][1] THEN Entry[r][2] ELSE IF b = "sw" THEN 0 ELSE 1

(* A request that b has accepted and whose response it has not sent. *)
Owed(b, r) ==
  /\ Needs[r] /\ Passes(b, r)
  /\ \/ stage[r] = "served" \/ r \in Queued(b)
     \/ b = Entry[r][1] /\ stage[r] = "sent"

(* outstandingResponses is exact: one slot of a slave port for every request *)
(* it has let in and not yet answered, wherever in the fabric that request   *)
(* is, so that the space all checks were done for is there when it returns.  *)
SlotPerRequest ==
  \A b \in Bridges, s \in Configs :
    bridge[b].slave[s].outstanding =
      Cardinality({r \in Reqs : Owed(b, r) /\ EntryPort(b, r) = s})

(* getSlavePort sends a response out of the slave port its request came in,  *)
(* through both bridges, with the one requester id the first bridge has set. *)
ResponsesGoHome ==
  \A b \in Bridges, s \in Configs :
    \A r \in Range(bridge[b].slave[s].list) : EntryPort(b, r) = s

(* No retry is forgotten: a slave port that has promised one still has what  *)
(* it refused the request for, a full queue that will move, and a sender     *)
(* that waits for a retry waits for a port that has promised it.             *)
StalledForAReason ==
  /\ \A b \in Bridges, s \in Configs :
       bridge[b].slave[s].retryReq =>
         RespQueueFull(bridge[b], s) \/ \E m \in Configs : ReqQueueFull(bridge[b], m)
  /\ \A r \in Reqs : stage[r] = "stalled" => bridge.rc.slave[0].retryReq

(* What goes down from the root complex comes from the memory bus, not from  *)
(* a device on another port of the root complex.                             *)
DownFromBus ==
  \A r \in Reqs : Entry[r][1] = "rc" /\ MasterPort["rc"][r] = 1 => Entry[r][2] = 0

(* With equal limits in both bridges, the slots of the root complex also     *)
(* bound what the switch must hold for the processor: a request from above   *)
(* never finds the switch without a response slot, so it cannot block the    *)
(* responses behind it in the link for longer than a request queue is full.  *)
SwitchHasRoom ==
  \A i \in DOMAIN wire.down :
    wire.down[i][1] = "req" /\ Needs[wire.down[i][2]] => ~RespQueueFull(bridge.sw, 0)

(* Every request is answered, or delivered if it needs no answer: requests   *)
(* up and down and their responses, in shared queues and one link, never     *)
(* wait for each other in a circle.  It is not true of requests made before  *)
(* the links have taken a first packet, see the head of the module.          *)
AllAnswered == <>(\A r \in Reqs : stage[r] = "done")
=============================================================================
