---------------------------- MODULE BooksimGlue -----------------------------
(***************************************************************************)
(* How gem5 drives BookSim (gem5/src/mem/ruby/network/booksim): messages   *)
(* in the buffers of the switches become packets, the network runs when an *)
(* interface is woken, and a packet that arrives becomes a message again.  *)
(*                                                                         *)
(* BookSim itself is reduced to what the glue sees of it through           *)
(* booksim2/src/trafficmanager_wrapper.cpp: an injection queue of flits    *)
(* for each virtual source and class, which refuses a packet when it is    *)
(* full, and a network that takes at most one flit of a source in a cycle  *)
(* and lets a packet go, some cycle after its last flit has entered.  The  *)
(* inside of it is the subject of Injection and CreditLoop.                *)
(***************************************************************************)
EXTENDS Integers, Sequences, FiniteSets
LOCAL INSTANCE SequencesExt
LOCAL INSTANCE Functions

CONSTANTS
  NSwitches,  \* switches, 1 .. NSwitches
  NInPorts,   \* m_in_buffers.size() of each switch
  NVNets,     \* virtual networks; BookSim's classes
  SwitchOf,   \* [node -> switch]: m_switchID
  Msgs,       \* bound: the messages, each sent once
  From,       \* [Msgs -> <<switch, in port, virtual network>>]
  Dests,      \* [Msgs -> getAllDest(): sequence of nodes]
  Size,       \* [Msgs -> flits of a packet]
  NLanes,     \* virtual nodes of a node: 1, but for the DGX-1's 64
  InjSize,    \* injection_queue_size
  IntHalf,    \* 2^31: an int holds -IntHalf .. IntHalf - 1
  Speedup     \* _internal_speedup: cycles of BookSim in one of gem5

Switches == 1 .. NSwitches
Buffers == Switches \X (0 .. NInPorts - 1) \X (0 .. NVNets - 1)
Lanes == 0 .. NLanes - 1
Queues == Switches \X Lanes \X (0 .. NVNets - 1)

ASSUME GlueAssumption ==
  /\ NSwitches \in Nat \ {0} /\ NInPorts \in Nat \ {0} /\ NVNets \in Nat \ {0}
  /\ From \in [Msgs -> Buffers] /\ Size \in [Msgs -> Nat \ {0}]
  /\ NLanes \in Nat \ {0} /\ InjSize \in Nat \ {0} /\ Speedup \in Nat \ {0}
  /\ IntHalf \in Nat \ {0}

VARIABLES
  unsent,   \* messages no controller has sent yet
  net,      \* the state RunNetwork works on, see Init
  wakeup,   \* [Switches -> the times its interface is to be woken: "now", "next"]
  ran,      \* the network has run in this cycle (m_wakeup_cycles)
  runner,   \* the interface whose wakeup is in RunNetwork, 0 if none
  left      \* cycles of BookSim it has still to run (_internal_cycles)

vars == <<unsent, net, wakeup, ran, runner, left>>

Init ==
  /\ unsent = Msgs
  /\ net = [buf |-> [b \in Buffers |-> <<>>],        \* m_in_buffers: <<message, is it ready>>
            lastPort |-> [s \in Switches |-> 0],     \* m_last_port
            lane |-> [s \in Switches |-> 0],         \* last_vnode
            queue |-> [q \in Queues |-> <<>>],       \* _partial_packets: a packet id per flit
            curPid |-> 0,                            \* _cur_pid
            inFlight |-> {},                         \* packets of _total_in_flight_flits
            packetMap |-> <<>>,                      \* m_packet_map: [pid -> <<message, node>>]
            out |-> <<>>,                            \* <<message, node>> put into m_out_buffers
            refused |-> {}]                          \* the same, refused when last tried
  /\ wakeup = [s \in Switches |-> {}]
  /\ ran = FALSE /\ runner = 0 /\ left = 0

-----------------------------------------------------------------------------
(* ReadMessage: one copy of message m, read from buffer b, for node d. *)
EnqueueMessage(n, m, d) == [n EXCEPT !.out = Append(@, <<m, d>>)]

(* GetVirtualNode: the virtual nodes of a source take turns, also when the   *)
(* packet is then refused.  (What is wrong with the first turn of a DGX-1 is *)
(* in NvidiaDGX1.)                                                           *)
GetVirtualNode(n, s) == [n EXCEPT !.lane[s] = (@ + 1) % NLanes]

AddPacket(n, q, m, d) ==
  [n EXCEPT !.queue[q] = @ \o [i \in 1 .. Size[m] |-> n.curPid],
            !.inFlight = @ \cup {n.curPid},
            !.packetMap = [p \in DOMAIN @ \cup {n.curPid} |->
                             IF p = n.curPid THEN <<m, d>> ELSE @[p]],
            !.curPid = @ + 1,
            !.refused = @ \ {<<m, d>>}]

GeneratePacket(n, b, m, d) ==
  LET q == <<b[1], n.lane[b[1]], b[3]>>
      n1 == GetVirtualNode(n, b[1])
  IN IF Len(n.queue[q]) >= InjSize THEN [n1 EXCEPT !.refused = @ \cup {<<m, d>>}]
     ELSE AddPacket(n1, q, m, d)

SendCopy(n, b, m, d) ==
  IF SwitchOf[d] = b[1] THEN EnqueueMessage(n, m, d) ELSE GeneratePacket(n, b, m, d)

(* Mutant: a message is taken out of its buffer although no copy was sent. *)
ReadBufferAlways(n, b) ==
  IF n.buf[b] = <<>> \/ ~Head(n.buf[b])[2] THEN n
  ELSE LET m == Head(n.buf[b])[1]
           n1 == FoldLeft(LAMBDA acc, d : SendCopy(acc, b, m, d), n, Dests[m])
       IN [n1 EXCEPT !.buf[b] = Tail(@), !.lastPort[b[1]] = b[2]]

(* The message at the head of a buffer is cloned for each destination, and   *)
(* leaves the buffer if it has none or the network has taken at least one.   *)
ReadBuffer(n, b) ==
  IF n.buf[b] = <<>> \/ ~Head(n.buf[b])[2] THEN n
  ELSE LET m == Head(n.buf[b])[1]
           n1 == FoldLeft(LAMBDA acc, d : SendCopy(acc, b, m, d), n, Dests[m])
           taken == \E i \in DOMAIN Dests[m] : <<m, Dests[m][i]>> \notin n1.refused
       IN IF Dests[m] = <<>> \/ taken
          THEN [n1 EXCEPT !.buf[b] = Tail(@), !.lastPort[b[1]] = b[2]]
          ELSE n1

(* All buffers of a switch, the ports in turn from the one after m_last_port.*)
ReadMessage(n, s) ==
  LET ports == [i \in 1 .. NInPorts |-> (n.lastPort[s] + i) % NInPorts]
      order == [i \in 1 .. NInPorts * NVNets |->
                  <<s, ports[((i - 1) \div NVNets) + 1], (i - 1) % NVNets>>]
  IN FoldLeft(ReadBuffer, n, order)

-----------------------------------------------------------------------------
(* RunCycles(1): the network takes a flit from the queues in "taken", at     *)
(* most one of each source, and lets the packets in "arrived" go.            *)
Arrivable(n) == n.inFlight \ UNION {ToSet(n.queue[q]) : q \in Queues}
Takable(n) ==
  {t \in SUBSET {q \in Queues : n.queue[q] # <<>>} :
     \A q, r \in t : q[1] = r[1] /\ q[2] = r[2] => q = r}
RunCycle(n, taken, arrived) ==
  [n EXCEPT !.queue = [q \in Queues |-> IF q \in taken THEN Tail(@[q]) ELSE @[q]],
            !.inFlight = @ \ arrived]

(* A long as an int parameter: its low 32 bits, with their sign. *)
AsInt(pid) == ((pid + IntHalf) % (2 * IntHalf)) - IntHalf

(* Mutant: the entry of a packet that has arrived is not erased. *)
EnqueueBooksimMessageKeeps(n, pid) ==
  LET id == AsInt(pid)
  IN IF id \in DOMAIN n.packetMap
     THEN EnqueueMessage(n, n.packetMap[id][1], n.packetMap[id][2]) ELSE n

(* enqueueBooksimMessage, which RetirePackets calls for each of them.  If    *)
(* the map has no such entry, an empty one is made, which has no switch to   *)
(* give a message to, and is erased again.                                   *)
EnqueueBooksimMessage(n, pid) ==
  LET id == AsInt(pid)
  IN IF id \notin DOMAIN n.packetMap THEN n
     ELSE [EnqueueMessage(n, n.packetMap[id][1], n.packetMap[id][2])
             EXCEPT !.packetMap = Restrict(@, DOMAIN @ \ {id})]
RetirePackets(n, arrived) ==
  FoldLeft(EnqueueBooksimMessage, n, SetToSortSeq(arrived, <))

-----------------------------------------------------------------------------
(* A controller sends a message: it is ready in the next cycle, and its      *)
(* buffer wakes the interface then.                                          *)
Send(m) ==
  /\ runner = 0 /\ m \in unsent
  /\ unsent' = unsent \ {m}
  /\ net' = [net EXCEPT !.buf[From[m]] = Append(@, <<m, FALSE>>)]
  /\ wakeup' = [wakeup EXCEPT ![From[m][1]] = @ \cup {"next"}]
  /\ UNCHANGED <<ran, runner, left>>

(* NetworkInterface::wakeup: the first one of a cycle runs the network. *)
Wakeup(s) ==
  /\ runner = 0 /\ "now" \in wakeup[s]
  /\ wakeup' = [wakeup EXCEPT ![s] = @ \ {"now"}]
  /\ IF ran THEN UNCHANGED <<runner, left>>
            ELSE runner' = s /\ left' = Speedup
  /\ UNCHANGED <<unsent, net, ran>>

(* Mutant: the interface looks only for packets of its own switch. *)
WakeAgainOwn(s, n) ==
  IF \E q \in Queues : q[1] = s /\ n.queue[q] # <<>>
  THEN [wakeup EXCEPT ![s] = @ \cup {"next"}] ELSE wakeup

(* CheckInFlightPackets after the last cycle, and scheduleEvent. *)
WakeAgain(s, n) ==
  IF n.inFlight # {} THEN [wakeup EXCEPT ![s] = @ \cup {"next"}] ELSE wakeup

(* One round of the loop of RunNetwork.  After the last one wakeup goes on.  *)
Cycle ==
  LET read == FoldLeft(ReadMessage, net, [i \in Switches |-> i])
  IN /\ runner # 0
     /\ \E taken \in Takable(read), arrived \in SUBSET Arrivable(read) :
          net' = RetirePackets(RunCycle(read, taken, arrived), arrived)
     /\ left' = left - 1
     /\ IF left > 1 THEN UNCHANGED <<wakeup, ran, runner>>
        ELSE wakeup' = WakeAgain(runner, net') /\ ran' = TRUE /\ runner' = 0
     /\ UNCHANGED unsent

(* The next cycle of gem5, when all events of this one are done. *)
Tick ==
  /\ runner = 0 /\ \A s \in Switches : "now" \notin wakeup[s]
  /\ \E s \in Switches : "next" \in wakeup[s]
  /\ wakeup' = [s \in Switches |-> IF "next" \in wakeup[s] THEN {"now"} ELSE {}]
  /\ ran' = FALSE
  /\ net' = [net EXCEPT !.buf = [b \in Buffers |-> [i \in DOMAIN @[b] |-> <<@[b][i][1], TRUE>>]]]
  /\ UNCHANGED <<unsent, runner, left>>

Next ==
  \/ \E m \in Msgs : Send(m)
  \/ \E s \in Switches : Wakeup(s)
  \/ Cycle
  \/ Tick

Spec == Init /\ [][Next]_vars

-----------------------------------------------------------------------------
(* Properties. *)
InBuffer(m) == \E i \in DOMAIN net.buf[From[m]] : net.buf[From[m]][i][1] = m
Lost(m, d) == Len(Dests[m]) > 1 /\ ~InBuffer(m) /\ <<m, d>> \in net.refused

(* m_packet_map has an entry for exactly the packets BookSim holds: a packet *)
(* that arrives always finds its message, and no message is kept for ever.   *)
(* So it is for packet ids that fit an int.  One that does not never finds   *)
(* its message: from the 2^31st packet on, entries are only added.           *)
MapMatchesNetwork ==
  \A p \in 0 .. net.curPid - 1 :
    p \in DOMAIN net.packetMap <=> p \in net.inFlight \/ p >= IntHalf

(* Every copy of a message that was sent is in one place and in one place    *)
(* only: its buffer, the network (or m_packet_map, where it stays if its     *)
(* packet's id does not fit an int), or the buffer at its destination.  The  *)
(* one exception is a copy of a message to several destinations that the     *)
(* network refused while it took another copy: ReadMessage drops it.         *)
EveryCopyOnce ==
  \A m \in Msgs \ unsent : \A d \in ToSet(Dests[m]) :
    Cardinality({i \in DOMAIN net.out : net.out[i] = <<m, d>>})
      + Cardinality({p \in DOMAIN net.packetMap : net.packetMap[p] = <<m, d>>})
      + (IF InBuffer(m) \/ Lost(m, d) THEN 1 ELSE 0) = 1

(* The network never falls asleep with work the glue has given it or has     *)
(* offered it: while a packet is in flight, or a message waits because the   *)
(* network refused it, some interface is going to be woken, although only    *)
(* the one that ran the network schedules itself again.                      *)
NetworkKeepsRunning ==
  runner = 0 /\ ( \/ net.inFlight # {}
                  \/ \E b \in Buffers, m \in Msgs, d \in DOMAIN SwitchOf :
                       net.buf[b] # <<>> /\ Head(net.buf[b])[1] = m /\ <<m, d>> \in net.refused )
    => \E s \in Switches : wakeup[s] # {}
=============================================================================
