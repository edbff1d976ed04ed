----------------------------- MODULE NvidiaDGX1 -----------------------------
(***************************************************************************)
(* The DGX-1 topology of BookSim, booksim2/src/networks/nvidia_dgx_1.cpp:  *)
(* the constructor, which builds the links and fills the routing tables,   *)
(* and the routing function nccl_nvidiadgx1 that packets follow afterwards.*)
(*                                                                         *)
(* A DGX-1 has two planes of seven routers, each a binary tree of a CPU,   *)
(* two PCIe switches and four GPUs, numbered like a heap from 0; the CPUs  *)
(* are joined by QPI and the GPUs by NVLinks.  Each router has one node.   *)
(* A table names virtual ports: port 0 leads to the node, the next ones to *)
(* the neighbours in ascending order, and each stands for several lanes,   *)
(* which are the actual output ports.                                      *)
(*                                                                         *)
(* Packets do not share anything that routing looks at, so one at a time   *)
(* is in the network; another may be refused meanwhile.  With more than    *)
(* one DGX-1 the search of hypermesh_min_route finds no next router and    *)
(* its loop never ends: the model then stops with RelaxMin disabled.       *)
(***************************************************************************)
EXTENDS Integers, Sequences, FiniteSets
LOCAL INSTANCE FiniteSetsExt
LOCAL INSTANCE SequencesExt

CONSTANTS
  NumDGX,        \* num_dgx1
  SomeVersions,  \* the values of dgx1_version to choose from
  MaxPackets     \* bound: packets sent or refused

ASSUME DGXAssumption ==
  /\ NumDGX \in Nat \ {0} /\ MaxPackets \in Nat
  /\ SomeVersions \subseteq {"P100", "V100"}

NumRouters == 14 * NumDGX
Routers == 0 .. NumRouters - 1
CPUs == {r \in Routers : r % 7 = 0}
Switches == {r \in Routers : r % 7 \in {1, 2}}
GPUs == Routers \ (CPUs \cup Switches)

(* The order of a std::set or std::map. *)
Ascending(S) == SelectSeq([i \in 1 .. NumRouters |-> i - 1], LAMBDA r : r \in S)

-----------------------------------------------------------------------------
(* The links and their BusLatency. *)
PCIe == 16
NVLinkV1 == 6
NVLinkV2 == 2
QPI == 1

SamePlane(a, b) == a \div 7 = b \div 7
Heap(r) == (r % 7) + 1

TreeLink(a, b) ==
  SamePlane(a, b) /\ (Heap(a) = Heap(b) \div 2 \/ Heap(b) = Heap(a) \div 2)

QPILink(a, b) == {a, b} \subseteq CPUs /\ a # b /\ a \div 14 = b \div 14

Diagonal(g) == IF SamePlane(g, g + 2) THEN g + 2 ELSE g - 2
OtherPlane(g) == IF g \div 14 = (g + 7) \div 14 THEN g + 7 ELSE g - 7
Left(g) == IF SamePlane(g, g + 3) THEN g + 3 ELSE g - 1
Right(g) == IF SamePlane(g, g + 1) THEN g + 1 ELSE g - 3

(* The links of GPU g that are NVLink_V2 in a V100 machine. *)
Fast(g) ==
  IF SamePlane(g, g + 3) THEN {OtherPlane(g), Left(g)}
  ELSE IF SamePlane(g, g + 2) THEN {OtherPlane(g), Right(g)}
  ELSE {Left(g), Right(g)}

(* Mutant: the version is not looked at. *)
NVLinkAsV100(v, g, n) == IF n \in Fast(g) THEN NVLinkV2 ELSE NVLinkV1

NVLink(v, g, n) == IF v = "V100" /\ n \in Fast(g) THEN NVLinkV2 ELSE NVLinkV1

(* router_list[ROUTER_ROUTER]: for each router its neighbours and the latency. *)
NVLinked(g) ==
  IF g \in GPUs THEN {Diagonal(g), OtherPlane(g), Left(g), Right(g)} ELSE {}
Neighbours ==
  [a \in Routers |-> {b \in Routers : TreeLink(a, b) \/ QPILink(a, b)} \cup NVLinked(a)]

RouterList ==
  [v \in {"P100", "V100"} |-> [a \in Routers |-> [b \in Neighbours[a] |->
     IF b \in NVLinked(a) THEN NVLink(v, a, b) ELSE IF QPILink(a, b) THEN QPI ELSE PCIe]]]

-----------------------------------------------------------------------------
(* Ports. *)
NodeLanes == 64
LanesNum(lat) == CASE lat = PCIe -> 16 [] lat \in {NVLinkV1, NVLinkV2} -> 8 [] OTHER -> 1

(* The virtual port of a neighbour.  For any other router operator[] makes   *)
(* an entry with port 0.                                                     *)
VirtualPort(r, n) ==
  IF n \in Neighbours[r] THEN 1 + Cardinality({m \in Neighbours[r] : m < n}) ELSE 0

(* actual_outports: the numbers actual_outcnt takes for a virtual port. *)
ActualOutports(v, r, port) ==
  LET before == {n \in Neighbours[r] : VirtualPort(r, n) < port}
      first == (IF port = 0 THEN 0 ELSE NodeLanes)
               + MapThenSumSet(LAMBDA n : LanesNum(RouterList[v][r][n]), before)
      lanes == IF port = 0 THEN NodeLanes
               ELSE LanesNum(RouterList[v][r][CHOOSE n \in Neighbours[r] : VirtualPort(r, n) = port])
  IN first .. first + lanes - 1

(* AddOutputChannel: where the output channels of a router lead, in order;   *)
(* the router itself stands for its node.                                    *)
OutputChannels ==
  [v \in {"P100", "V100"} |-> [r \in Routers |->
     FoldLeft(LAMBDA s, n : s \o [i \in 1 .. LanesNum(RouterList[v][r][n]) |-> n],
              [i \in 1 .. NodeLanes |-> r],
              Ascending(Neighbours[r]))]]

-----------------------------------------------------------------------------
VARIABLES
  version,    \* _v, never changed
  todo,       \* the routers whose table _buildRoutingTable has still to fill, in order
  search,     \* hypermesh_min_route for the first of them: dist, prev and rlist
  table,      \* routing_table: [Routers -> [Routers -> virtual port]], -1 where unset
  lastVnode,  \* [Routers -> last_vnode of the node, End for the end of the set]
  sent,       \* number of packets sent or refused
  packet      \* the packet in the network, NoPacket, or Stopped

buildVars == <<todo, search, table>>
packetVars == <<lastVnode, sent, packet>>
vars == <<version, buildVars, packetVars>>

Infinity == 2147483647
End == -1
NoPacket == [source |-> -1, vnode |-> -1, at |-> -1, dest |-> -1]
Stopped == [NoPacket EXCEPT !.source = -2]  \* Error has ended the simulation
UnderWay == packet \notin {NoPacket, Stopped}

NewSearch(start) ==
  [dist |-> [i \in Routers |-> IF i = start THEN 0 ELSE Infinity],
   prev |-> [i \in Routers |-> -1],
   rlist |-> Routers]
NextSearch(rest) == NewSearch(IF rest = <<>> THEN -1 ELSE Head(rest))

(* last_vnode is set to begin() of a set that is still empty, which is its   *)
(* end() from then on.                                                       *)
Init ==
  /\ version \in SomeVersions
  /\ todo = Ascending(GPUs) \o Ascending(CPUs) \o Ascending(Switches)
  /\ search = NextSearch(todo)
  /\ table = [r \in Routers |-> [d \in Routers |-> -1]]
  /\ lastVnode = [r \in Routers |-> End]
  /\ sent = 0 /\ packet = NoPacket

-----------------------------------------------------------------------------
(* hypermesh_min_route *)

(* The nearest router in rlist, the lowest one if there are several. *)
MinCand ==
  CHOOSE i \in search.rlist : \A j \in search.rlist :
    \/ search.dist[i] < search.dist[j]
    \/ search.dist[i] = search.dist[j] /\ i <= j

(* Mutant: distance is hops, not cycles. *)
NewDistHops(min, i) == search.dist[min] + 1

NewDist(min, i) == search.dist[min] + RouterList[version][min][i]

RelaxMin ==
  /\ todo # <<>> /\ Head(todo) \in GPUs
  /\ \E i \in search.rlist : search.dist[i] < Infinity
  /\ LET min == MinCand
         closer == {i \in Neighbours[min] : NewDist(min, i) < search.dist[i]}
     IN search' = [dist |-> [i \in Routers |-> IF i \in closer THEN NewDist(min, i)
                                               ELSE search.dist[i]],
                   prev |-> [i \in Routers |-> IF i \in closer THEN min ELSE search.prev[i]],
                   rlist |-> search.rlist \ {min}]
  /\ UNCHANGED <<version, todo, table, packetVars>>

(* The walk back along prev to the neighbour of the start. *)
FirstHop(start) ==
  LET hop[i \in Routers] == IF search.prev[i] = start THEN i ELSE hop[search.prev[i]]
  IN hop

FillFromSearch ==
  /\ todo # <<>> /\ Head(todo) \in GPUs
  /\ search.rlist = {}
  /\ LET start == Head(todo)
     IN table' = [table EXCEPT ![start] =
          [i \in Routers |-> IF search.prev[i] = -1 THEN 0
                             ELSE VirtualPort(start, FirstHop(start)[i])]]
  /\ todo' = Tail(todo)
  /\ search' = NextSearch(Tail(todo))
  /\ UNCHANGED <<version, packetVars>>

-----------------------------------------------------------------------------
(* binarytree_route *)
Dep(x) == CHOOSE d \in 1 .. 3 : 2 ^ (d - 1) <= x /\ x < 2 ^ d
Ancestor(y, d) == y \div (2 ^ (Dep(y) - d))

(* next_hop for heap indices x and y with x not deeper than y: the router    *)
(* after x on the way to y, and the one after y on the way to x.             *)
HopDown(x, y) ==
  IF Ancestor(y, Dep(x)) # x THEN x \div 2
  ELSE IF Dep(x) < Dep(y) THEN Ancestor(y, Dep(x) + 1) ELSE y
HopUp(x, y) == IF Dep(x) < Dep(y) THEN y \div 2 ELSE y

NextHop(r, s) ==
  LET x == r + 1  y == s + 1
  IN IF Dep(x) > Dep(y) THEN <<HopUp(y, x) - 1, HopDown(y, x) - 1>>
     ELSE <<HopDown(x, y) - 1, HopUp(x, y) - 1>>

Plane(r) == 7 * (r \div 7)

(* Mutant: a CPU sends what is for the other plane down its own tree. *)
NextXDown(r, i) ==
  IF SamePlane(r, i) THEN NextHop(r % 7, i % 7)[1] + Plane(r)
  ELSE IF r % 7 = 0 THEN r + 1
  ELSE NextHop(0, r % 7)[2] + Plane(r)

(* next_hop_x and next_hop_y: how r goes on towards i, and i towards r. *)
NextX(r, i) ==
  IF SamePlane(r, i) THEN NextHop(r % 7, i % 7)[1] + Plane(r)
  ELSE IF r % 7 = 0 THEN ((r + 7) % 14) + 14 * (r \div 14)
  ELSE NextHop(0, r % 7)[2] + Plane(r)

NextY(r, i) ==
  IF SamePlane(r, i) THEN NextHop(r % 7, i % 7)[2] + Plane(i)
  ELSE NextHop(0, i % 7)[2] + Plane(i)

FillFromTree ==
  /\ todo # <<>> /\ Head(todo) \notin GPUs
  /\ LET r == Head(todo)
     IN table' = [s \in Routers |->
          IF s = r THEN [i \in Routers |-> IF i = r THEN 0 ELSE VirtualPort(r, NextX(r, i))]
          ELSE IF s \in GPUs THEN [table[s] EXCEPT ![r] = VirtualPort(s, NextY(r, s))]
          ELSE table[s]]
  /\ todo' = Tail(todo)
  /\ search' = NextSearch(Tail(todo))
  /\ UNCHANGED <<version, packetVars>>

-----------------------------------------------------------------------------
(* Packets. *)
ActualNode(vnode) == vnode \div NodeLanes
FirstVnode(node) == node * NodeLanes
LastVnode(node) == FirstVnode(node) + NodeLanes - 1

(* GetVirtualNode.  What is read at the end of a std::set is not defined; in *)
(* libstdc++ it is the number of elements, and the iterator steps to the     *)
(* last element.                                                             *)
VirtualNode(node) == IF lastVnode[node] = End THEN NodeLanes ELSE lastVnode[node]
NextVnode(node) ==
  IF lastVnode[node] = End THEN LastVnode(node)
  ELSE IF lastVnode[node] = LastVnode(node) THEN FirstVnode(node)
  ELSE lastVnode[node] + 1

(* _GeneratePacket: the packet enters at the router of the virtual node. *)
GeneratePacket(source, dest) ==
  /\ todo = <<>>
  /\ packet = NoPacket /\ sent < MaxPackets /\ source # dest
  /\ sent' = sent + 1
  /\ lastVnode' = [lastVnode EXCEPT ![source] = NextVnode(source)]
  /\ LET v == VirtualNode(source)
     IN packet' = [source |-> source, vnode |-> v, at |-> ActualNode(v), dest |-> dest]
  /\ UNCHANGED <<version, buildVars>>

(* The same when the queue of that virtual node is full, with flits of the   *)
(* packet under way: the packet is refused, yet the turn is used up.         *)
RefusePacket(source) ==
  /\ UnderWay /\ sent < MaxPackets
  /\ VirtualNode(source) = packet.vnode
  /\ sent' = sent + 1
  /\ lastVnode' = [lastVnode EXCEPT ![source] = NextVnode(source)]
  /\ UNCHANGED <<version, buildVars, packet>>

(* nccl_nvidiadgx1: every lane of the virtual port may be taken. *)
OutPorts == ActualOutports(version, packet.at, table[packet.at][packet.dest])
Leads(port) == OutputChannels[version][packet.at][port + 1]

Hop(port) ==
  /\ Leads(port) # packet.at
  /\ packet' = [packet EXCEPT !.at = Leads(port)]
  /\ UNCHANGED <<version, buildVars, lastVnode, sent>>

(* _RetireFlit, which ends the simulation if the packet is not for this node. *)
Eject(port) ==
  /\ Leads(port) = packet.at
  /\ packet' = IF packet.dest = packet.at THEN NoPacket ELSE Stopped
  /\ UNCHANGED <<version, buildVars, lastVnode, sent>>

Build == RelaxMin \/ FillFromSearch \/ FillFromTree
Move == UnderWay /\ \E port \in OutPorts : Hop(port) \/ Eject(port)
Next ==
  \/ Build
  \/ Move
  \/ \E source, dest \in Routers : GeneratePacket(source, dest)
  \/ \E source \in Routers : RefusePacket(source)

(* The constructor runs to its end, and routers pass packets on. *)
Spec == Init /\ [][Next]_vars /\ WF_vars(Build) /\ WF_vars(Move)
-----------------------------------------------------------------------------
(* Properties. *)

(* The shortest distances from a, as pairs of a router and its distance:     *)
(* paths of one link more in each round.                                     *)
OneLinkMore(v, S) ==
  LET all == S \cup UNION {{<<n, p[2] + RouterList[v][p[1]][n]>> : n \in Neighbours[p[1]]} : p \in S}
  IN {p \in all : \A q \in all : q[1] = p[1] => p[2] <= q[2]}
Distance ==
  [v \in {"P100", "V100"} |-> [a \in Routers |->
     LET S == FoldLeft(LAMBDA D, i : OneLinkMore(v, D), {<<a, 0>>}, [i \in 1 .. NumRouters - 1 |-> i])
     IN [b \in Routers |-> (CHOOSE p \in S : p[1] = b)[2]]]]

(* "hypermesh" routing is "shortest path" (nvidia_dgx_1.hpp:98), although    *)
(* each router has searched on its own and broken ties on its own: every hop *)
(* of a packet between GPUs brings it nearer by the latency of the link, and *)
(* it leaves nowhere but at its destination.  The distance is latency, as    *)
(* the code adds it up.  The comment on that line (nvidia_dgx_1.cpp:463),    *)
(* "distance is hops not cycles", is not what it does: in a V100 machine a   *)
(* packet from 3 to 5 takes two fast links, 2 + 2, instead of the direct     *)
(* one, 6.                                                                   *)
ShortestRoute ==
  [][UnderWay /\ packet' # packet /\ {ActualNode(packet.vnode), packet.dest} \subseteq GPUs =>
       \/ packet' = NoPacket /\ packet.at = packet.dest
       \/ /\ packet'.at \in Neighbours[packet.at]
          /\ Distance[version][packet.at][packet.dest]
               = RouterList[version][packet.at][packet'.at]
                 + Distance[version][packet'.at][packet.dest]]_vars

(* The next router towards d. *)
NextRouter(r, d) == IF r = d THEN d
  ELSE CHOOSE n \in Neighbours[r] : VirtualPort(r, n) = table[r][d]
Channels == {<<a, b>> \in Routers \X Routers : b \in Neighbours[a]}

(* The links that some packet may wait for while it holds link c.  All VCs   *)
(* of a class may be used on every link, so nothing else orders them.        *)
WaitsFor ==
  [c \in Channels |->
     {<<c[2], NextRouter(c[2], d)>> : d \in {d \in Routers \ {c[2]} : NextRouter(c[1], d) = c[2]}}]
(* An order of the links: up the tree, over QPI, down the tree; and for      *)
(* NVLinks to plane 0, within a plane, to plane 1.                           *)
Rank(a, b) ==
  IF b \in NVLinked(a) THEN (IF SamePlane(a, b) THEN 2 ELSE IF b < a THEN 1 ELSE 3)
  ELSE IF QPILink(a, b) THEN 3
  ELSE IF Heap(b) < Heap(a) THEN 3 - Dep(Heap(b)) ELSE 2 + Dep(Heap(b))

(* The constructor comes to its end, and in a P100 machine packets that      *)
(* follow its tables cannot wait for one another in a cycle of full links,   *)
(* though nccl_nvidiadgx1 offers every VC of a class everywhere: a packet    *)
(* always waits for a link further on in the order.                          *)
NoWaitCycle ==
  <>(/\ todo = <<>> /\ sent = 0
     /\ version = "P100" =>
          \A c \in Channels : \A w \in WaitsFor[c] : Rank(c[1], c[2]) < Rank(w[1], w[2]))

(* The tables of GPUs, switches and CPUs, filled by two algorithms, send no  *)
(* packet in circles and none out at a wrong node, where _RetireFlit would   *)
(* stop with "arrived at incorrect output": it arrives at its destination.   *)
EveryPacketArrives == UnderWay ~> packet = NoPacket

(* "[actual node] = {virtual node set}", "Round Robin [actual node] = last   *)
(* used virtual node" (nvidia_dgx_1.hpp): a packet enters the network at a   *)
(* virtual node of its source.                                               *)
EntersAtSource == UnderWay => ActualNode(packet.vnode) = packet.source

=============================================================================
