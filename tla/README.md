# TLA+ models of the LSAIN simulator

LSAIN-Simulator couples two programs: gem5 (directory `gem5/`), a full-system
simulator, and BookSim (directory `booksim2/`), a cycle-level simulator of
interconnection networks. The platform adds to gem5 a PCI-Express hierarchy
(links, root complex and switches) and a Ruby network that hands its messages
to BookSim, and to BookSim the topology of NVIDIA's DGX-1. The modules in this
directory model the parts of it that run a protocol or an algorithm, check them
with TLC on small instances, and prove the most important facts with TLAPS for
every instance.

## The system and its parts

| Part | Source | Modules |
|------|--------|---------|
| PCIe link: data link layer with Acks and replay | `gem5/src/mem/pcie_link.*` | `PCIELink`, `LinkChannel` |
| PCI bridge (root complex, switch): windows and bus numbers | `gem5/src/mem/PciBridge.*` | `PciConfig`, `PciRanges`, `PciEnumeration` |
| PCI bridge: queues, response slots, retries | `gem5/src/mem/PciBridge.*` | `PciBridge`, `PciFabric` |
| gem5-BookSim glue and the BookSim wrapper | `gem5/src/mem/ruby/network/booksim`, `booksim2/src/*_wrapper.cpp` | `BooksimGlue` |
| Buffers, virtual channels (VCs), credits | `booksim2/src/buffer*.cpp`, `vc.cpp`, `credit.cpp` | `BufferState`, `CreditLoop` |
| Traffic manager: generation and injection | `booksim2/src/trafficmanager.cpp` | `Injection` |
| Channels | `booksim2/src/channel.hpp` | `Channel` |
| Input-queued router | `booksim2/src/routers/iq_router.cpp` | `IQRouter` |
| Arbiters and allocators | `booksim2/src/arbiters`, `allocators` | `Allocator` |
| DGX-1 topology and its routing | `booksim2/src/networks/nvidia_dgx_1.*` | `NvidiaDGX1` |

A simulated device hands a request to a link interface; the link clocks it out
as a TLP and the far interface hands it to a bridge port, which queues it for
the next link. Messages of the cache protocol go to a network interface, become
BookSim packets of several flits, cross the routers under credit flow control,
and are handed to the destination's message buffer when the tail is retired.

The modules meet in three places. `PciFabric` uses for its link what
`LinkChannel` promises and `PCIELink` is shown to keep. `Injection` is shown to
be one of the senders that `CreditLoop` allows, so what holds of `CreditLoop`
holds at a node. `IQRouter` takes any nonempty matching for the answer of an
allocator, and `Allocator` shows that the allocators give one.

Modules named `MC...` instantiate a module for TLC. Modules named `...Proofs`,
and `CreditLoopHolders` and `PciFabricSlots`, hold theorems.

## The runs at a glance

| Run | Outcome |
|-----|---------|
| `link` | the link loses, reorders and duplicates nothing, forgets no retry and no timer, and implements the reliable channel, liveness included |
| `first_tlp_refused` | violated: a first TLP that is refused makes the receiver acknowledge everything |
| `credit_loop` | credits, slots and packets are exact under all five buffer policies; injection implements the general sender; no class starves |
| `stale_vc` | violated: with priorities a head keeps a VC that another packet takes |
| `pci_config` | neighbours know the current ranges in every state of the set-up, and routing agrees with them but for a window that ends at the last address |
| `dma_complement` | violated: the ranges of a DMA port miss addresses |
| `pci_fabric` | response slots are exact, responses go home, no retry is forgotten, everything is answered, on links past their first packet |
| `glue` | each copy of a message is in one place, packets find their messages while their numbers fit an `int`, the network is not left asleep |
| `router` | no VC drops out of the pipeline, packets stay whole, credits are exact, no buffer is overrun, every packet gets through |
| `allocator` | every allocator gives a matching, never an empty one, maximal or of maximum size where it promises that |
| `dgx1` | packets arrive, on paths of least latency between GPUs; links of a P100 machine cannot wait in a cycle |
| `first_vnode` | violated: the first packet of a node enters the network at another node |

Each property of a passing run has a mutant, a definition next to the one it
replaces that has a plausible bug; TLC finds the property violated with it.

## PCIELink: the PCIe link

A `PCIELink` object owns two `Link` objects, `Links` in the model. `link[l]` is
the record of the fields of one of them, under the names of the C++ members;
the operations of class `Link` are operators from record to record
(`TransmitInterface`, `LinkReceiveInterface`, `AfterTransmission`,
`TimeoutFunc`, `SendAck`), and the actions are the events that call them:

| Action | Code |
|--------|------|
| `Offer` | `LinkSlavePort::recvTimingReq`, `LinkMasterPort::recvTimingResp` calling `linkTransmitInterface` |
| `TxDone` | `Link::txDone`, with the receiver's `linkReceiveInterface` called from it when `linkDelay` is 0 |
| `ProcessTxQueue` | `Link::processTxQueue`, used when `linkDelay` is positive |
| `TimeoutEvent` | `Link::timeoutFunc`, the replay timer |
| `AckEvent` | `Link::sendAck`, the ack timer |
| `Tick` | the gem5 event queue moving to the next tick |

Scheduled events are countdowns. `Tick` is possible only when nothing is due,
so an event runs at the tick it was scheduled for; events of the same tick run
in any order, which covers every order gem5's queue can pick. gem5 lets a
refused device resend inside the retry call or later; the model takes the
resend as a later `Offer`, which can be the very next step. `accepted` and
`delivered` are history: the packets taken from the devices of an interface and
the ones the far device took. A refusal by a device is the parameter
`took = FALSE`. A TLP is its kind and its sequence number, and its size is only
the ticks it occupies the link. The number keeps the conversions of the code:
`recvSeqNum - 1` is unsigned, the constructor of `DataLinkPacket` takes an
`int`, and the stored number is unsigned again.

`LinkChannel` is what the link promises: each direction delivers what it
accepted, in order, once, eventually. `ReliableChannel` states that `PCIELink`
implements it; the mapping is the identity on `accepted` and `delivered`.

Checked (`link`): `NoLoss`, `InOrder`, `AckSound`, `ReplayRoom`; `RetryPending`,
a waiting device has its flag set while something is pending that looks at it;
`ReplayArmed`, unacknowledged TLPs have a running timer or replay pass;
`ReliableChannel`; `NotRefusedForever`, a device that keeps trying gets its
packets in. Bounds: three TLPs one way and one the other through a replay buffer
of two, so that the buffer fills, a device is refused, and a timeout meets both
new TLPs and returning Acks; `MpsTime` is 2, requests take 1 tick and responses
2, so transmissions overlap in every phase; `LinkDelay` is 1, so packets wait in
the propagation queue. `IntHalf` stands for 2^31 and `SeqMod` for 2^64.
Fairness: weak on the simulator as a whole, since the event queue always runs
its next event, and strong on a device taking a TLP, because it refuses only
while its own queue is full. Devices that offer packets are under none.

Proved, for all buffer sizes, lane counts, transmission times, delays and
numbers of packets (`PCIELinkProofs`): `LinkInvariant`, `NothingLost`,
`InOrderOnce`, `AcksAreSound`, `ReplayBufferRoom`, `ImplementsChannel` under
`WithinLimits`, and `TypeCorrect`, `NoLostRetry` and `ReplayAlwaysArmed` without
it. `WithinLimits` says that the
first TLP of a direction is not refused, which `first_tlp_refused` shows to be
needed, and that the number of packets stays within an `int`: past 2^31 TLPs
the `int` parameter turns the Ack number into a huge one, and a TLP that is
refused then is lost.
`NoLoss` is not inductive: an Ack may free an entry, and only its number says
that the entry was delivered. `IInv` adds `WindowOK` (buffer and `replayPacket`
are the last packets accepted, with consecutive numbers), `WireOK` (what is on
the wire is an accepted TLP or an Ack of something delivered), `ReceiverOK`
(`recvSeqNum` counts the deliveries) and `DirectionOK` (the window starts no
later than the first undelivered packet, and nothing overtakes the first TLP).
The two results about retries and timers rest on `Progressing`, which each
operation of a `Link` keeps.

Observed and not a property of a run: a pending Ack may take the link during a
replay pass, `transmit` fails and the entry is skipped although the index moves
on; a later pass sends it. The replay timer leaves out the propagation delay, so
with a delay long compared with the timer an Ack may free a TLP that is on the
wire; `linkDelay` is 0 in every configuration of the repository. Not modelled:
atomic and functional accesses, `init`, `getPort`; `recvFunctional` sends its
packet down the timing path and ignores a refusal (`pcie_link.cc:557`).

## The PCI bridge

### Registers and ranges

`PciConfig` has the registers of a `config_class` and routing by them
(`GetMasterPort` by address, `GetSlavePort` by bus number); `PciRanges` has
`fill_ranges` and `getAddrRanges`. `PciEnumeration` is the set-up: actions for
writes of every access size the code tells apart (`WriteBase`, `WriteLimit`,
`WriteWindow`, `WriteBaseUpper`, `WriteLimitUpper`, `WriteIOUpper`,
`WriteSecondary`, `WriteSubordinate`, `WriteBusNumbers`), each with the range
change it sends, and `Unserialize`, a bridge restored from a checkpoint, whose
neighbours asked for its ranges when the registers were new and are told again
(`ToldByUnserialize`). `known` is what the neighbour of each slave port was told.
The lower part of a prefetchable window is a product of ints in the code: from a
register of 0x800 on it overflows and enters the 64-bit sum with its sign
(`IntProduct`), which moves the window down by 2^32 or, with an upper register of
0, to the top of the address space.

Checked (`pci_config`): `KnownIsCurrent` and `RoutesWhatItAnnounces`, for a root
complex whose two ports have different windows and for a switch. An address unit
(`Gran`) is 2, the upper registers count 8, there are 32 addresses; registers
start at 0 and are written with 1 or 3, of which 3 overflows, so windows may be
empty, adjacent, nested, half-written, and end at the last address. The last is
the exception in `RoutesWhatItAnnounces` (`EndsAtTop`), and the code's: `RangeIn`
adds one to the limit 2^64 - 1 and announces an empty range, while
`getMasterPort` sends the addresses of the window down. `dma_complement` is the
finding: `AddrRange::end()` is already behind the range, so the gaps that
`getAddrRanges` computes leave an address out and, by a wrap-around, everything
above the last window.

Proved (`PciEnumerationProofs`), for any number of ports and any registers:
`NeighboursUpToDate` (`KnownIsCurrent`), from `CurrentInv`, which adds the shape
of a `config_class`: the ranges of port p depend on config p alone, except those
of the upstream port of a root complex, and bus numbers are in no range. And
`RoutesAnnounced` (`RoutesWhatItAnnounces`) under `WindowsFit`, from
`WritableInv`: a register that no flag marks as written is still zero. Base and
limit of a window are then whole units apart, and the test of `getMasterPort`,
which ignores the flags, and that of `fill_ranges`, which has them, agree in
every half-written state, but for a prefetchable window that ends at the last
address. `WindowsFit` has the proportions of the code: a unit (1 MB, 4 KB for
I/O) is more than one address, 2^32 is a number of whole units and 2^64 one of
2^32, and the windows of memory and I/O are 32-bit numbers that end before the
last address. It says nothing of prefetchable windows, which may overflow. TLC
evaluates it on the instance.

### Queues and the fabric

`PciBridge` has the queues of the ports as records and `recvTimingReq`,
`recvTimingResp`, `trySendTiming` of both kinds as operators on a bridge.
`PciFabric` connects a root complex `rc` and a switch `sw` as
`configs/common/FSConfig.py` does, with a reliable link between them. Reliable is
what `PCIELink` is under `WithinLimits`: a direction of a link that has not taken
its first TLP yet may lose one that is refused and the one behind it
(`first_tlp_refused`), and then a request is never answered. So the model begins
with idle bridges whose links have carried a packet each way, a state the
bridges come back to whenever everything is answered, and ends before 2^31 TLPs;
what is checked and proved here is claimed from there on. Actions:
`Request` (the memory bus or a device hands in a request), `SendRequest`,
`SendResponse` (a queue sends its first packet), `RefuseRequest`,
`RefuseResponse` (its peer refuses), `Respond` (a device or memory answers),
`Arrive` (the link delivers, or is refused and keeps the packet).

Checked (`pci_fabric`): `SlotPerRequest`, `outstandingResponses` counts exactly
the requests owed a response; `ResponsesGoHome`; `StalledForAReason`, whoever
was refused has a retry promised and a full queue to wait for; `SwitchHasRoom`,
a request from above never finds the switch without a response slot;
`AllAnswered`. Five requests, of the processor and of devices on both bridges,
cross in queues of one entry and a link of two. Fairness: weak on every action
but the refusals; the event queue runs what is scheduled, a peer keeps its
promise of a retry, links replay, devices answer. The run ends when everything
is answered, hence `CHECK_DEADLOCK FALSE`.

Proved, for any number of ports and requests and any queue sizes:
`NoRetryForgotten` (`StalledForAReason`, in `PciFabricProofs`) from `RetryInv`,
which adds that a queue has an event or a promised retry exactly while it is not
empty; `ResponsesFindHome`, `SlotsExact` and `RoomInSwitch` in `PciFabricSlots`
from `SlotInv`. `SlotInv` puts all queues of both bridges and the link into one
function `lists` and says that each request under way is in one of them, once,
and in one it may be in by the wiring; that its bus number is the one the first
bridge wrote; and that the slots are those owed. The counting argument for a
step is the same for all of them (`StepAboutOne`). `RoomInSwitch` needs
`DownFromBus`: what goes down comes from the memory bus and not from another
port of the root complex, which has slots of its own. Traffic between devices
and unequal limits of the bridges were not examined.

## BookSim's credit loop and injection

`BufferState` has the class of that name, a sender's view of the buffer behind
its channel, as operators on a record, with the private, shared, limited,
dynamic and shifting policies. Where the code stops with `Error` or `assert`,
the operator goes on and an invariant says that the case does not occur.

`CreditLoop` closes the loop around it: the flits under way to the router, the
router's `Buffer` with a queue and an expected packet per VC, and the credits
under way back. The sender is the most general one that keeps the rules of
`BufferState`: `Take` and `Send` are the steps of a router, `TakeAndSend` the
single step of the traffic manager; `Arrive` and `Drain` are the router's end,
`ReadCredit` the sender's reading of a credit. `open` is history: the packet
that each VC carries.

`Injection` replaces that sender by the real one at a node: `GeneratePacket` is
`_GeneratePacket`, and `Inject(c)` is one pass of `_Step` in which class `c`
wins. The loop over the classes carries the best flit so far; the model says the
same with `Turn` (the order of visits), `Skipped` (passed over because a flit of
at least the same priority was met before) and `Wins`. `Assigned` is the effect
on the classes that lose: their head has a VC now. `Injection` uses the effects
of `CreditLoop` and none of its guards, so the property `LoopSpec` is a
refinement: the traffic manager is one of the senders `CreditLoop` allows.

Checked (`credit_loop`): `CreditsConserved`, the slots a sender counts as used
are the flits and credits under way and in the router; `NoOverflow` on either
side; `HolderHasRoom`, a packet whose VC has drained can go on; `ReservedIsHeld`,
a reserved slot has an owner that will use it; `NoInterleaving`, packets do not
mix on a VC; `NoIdleCredit`, no credit comes for an idle VC; `LoopSpec`; and
`NodePacketsLeave`, no class starves at a node. `Init` chooses the sender (the
general one or the node), the policy, `wait_for_tail_credit` and
`hold_switch_for_packet`, which are fixed when the objects are made, so one run
covers them. Two VCs and three slots, of which one is private and belongs to
both VCs: one VC alone can exhaust the shared part, and a drained VC has room
only if a slot was reserved for it. Two classes share one of their VCs. Three
packet numbers are used again once their packets have left, so behaviours are
endless. Fairness: weak on injection, both channels and each VC of the router.
The first two happen in every cycle of `_Step`; the last assumes that the
network beyond the router does not block for ever. With priorities a class can
starve by design, so `NodePacketsLeave` is about equal priorities; `stale_vc` is
the finding that priorities break more than that.

Proved (`CreditLoopProofs`), for all policies, buffer sizes, numbers of VCs and
packet numbers: `CreditsAreConserved`, `BufferNeverOverflows`,
`ReservedForHolder`, and what the assertions of `buffer_state.cpp` ask, that
occupancies add up and stay natural (`CountersAddUp`, `CountersStayNatural`). The
invariant is `CreditInv`. Its core `Keeping(bs, open)` says that each
incrementally kept sum of a shared policy is the sum over VCs it stands for,
and that a slot is reserved only for a drained VC that carries a packet; it is
shown for each operation of `BufferState` by an argument about finite sums.

`CreditLoopHolders` assumes `PidsFit`: packet numbers fit the `int` in which a
sender marks a VC as taken. It proves `NoCreditForIdleVC`, `PacketsStayWhole`,
`FlitIsExpected` (the router finds the packet it expects) and `ActiveCountExact`
(`_active_vcs`) from `HolderInv`, which adds `HeldFor` (the mark on a VC is that
of its packet), `Streams` (the flits of a VC, in the router and then on the
channel, are a run of packets in order) and `Arrivals` (they start with the
packet the router expects). With `ShiftingFits`, which keeps the shifting
policy's limit from being rounded to zero, it proves `LimitStaysPositive`,
`HolderGoesOn` (`HolderHasRoom`) and `RoomQuestionsAgree` (`IsFullFor` answers
as `AvailableFor` does).

`InjectionProofs` proves the refinement for equal priorities
(`InjectionImplementsLoop`), with `PacketKeepsItsVC` and `HeadTakesFreeVC`, from
`InjInv`: the queue of a class is whole packets but for the first, numbers are
apart, a head that has a VC is at the front and the rest of a packet that has
begun has the VC it began with. So every result about `CreditLoop` holds for the
traffic manager.

The assumptions are needed. From 2^31 packets on the stored number is negative
and a taken VC looks free (`buffer_state.cpp:663`). With three VCs and three
slots the shifting policy quarters the slots to zero and
`assert(_max_held_slots > 0)` fails. `network_age` priorities are cut to `int`
(`trafficmanager.cpp:991`). Left out: the feedback policies, which estimate
round-trip times; `noq`; several subnets, each a copy of the model; replies;
statistics. A `Credit` may name several VCs; the model reads them one after
another, which allows more interleavings than the code.

## BooksimGlue: messages and packets

`net` holds the message buffers of the switches, BookSim's injection queues, the
packets in flight, `packetMap` (from packet to message and node) and what was
put into the buffers of the destinations. A node has `NLanes` virtual nodes, each
with an injection queue per class, and `GetVirtualNode` takes them in turn, also
for a packet that is then refused. `AsInt` is the `int` parameter of
`enqueueBooksimMessage`, whose caller has a `long`. `Send(m)` is a controller's message,
which wakes its interface in the next cycle; `Wakeup(s)` is
`NetworkInterface::wakeup`, of which the first in a cycle runs the network;
`Cycle` is one round of `RunNetwork`: every switch reads its buffers and hands
packets to the wrapper, which may refuse them, BookSim runs a cycle, and packets
that arrive are retired; `Tick` is the next cycle of gem5.

Checked (`glue`): `MapMatchesNetwork`, the map has the message of each packet in
flight and of no other, but for packet numbers from 2^31 on, whose entry is not
found when they arrive: the message is lost and the entry stays; `EveryCopyOnce`,
each copy of each message is in one place; `NetworkKeepsRunning`, while a packet
is in flight or a refused message waits, some interface is going to be woken. Two
switches with two ports, two virtual nodes and two virtual networks, room for two
flits in a queue, internal speedup 2, and four messages: three that
compete for the virtual nodes of a switch, one of them to a local and a remote
node, and one to three remote nodes whose third copy finds its queue full. `IntHalf`, for 2^31, is 4, and packet numbers reach
it. The run ends when all messages have arrived or are lost, hence
`CHECK_DEADLOCK FALSE`. `EveryCopyOnce` has an
exception that the code makes: a copy of a message to several nodes that the
network refuses while it takes another copy is dropped. Also by
the code, a message behind a local one in the same buffer waits for a wakeup
that something else has to cause. Left out: construction, statistics, functional
accesses, a fractional speedup.

## IQRouter: the input-queued router

One router between `Channel`s (a delay line, cycle by cycle, of which the router
has one per port and direction). `ReadInputs`, `InternalStep` and
`WriteOutputs` are the three calls the traffic manager makes in every cycle, and
`phase` and `partial` say which is next; sources and sinks act inside the outer
two. `rt` is the record of the router's fields. `InternalStep` takes the pipeline in the
order of the code: input queuing, routing, VC allocation, held connections,
switch allocation, crossbar, output buffers, credits. An allocator's answer is
any nonempty matching of its requests. A speculative request is made while the
VC is being allocated and confirmed or dropped in the update. Credits that come
back are processed `credit_delay` cycles later and keep the router active until
then.

Checked (`router`): `VCsQueued`, an input VC is in the list of the stage its
state asks for, once; `OwnersMatch`, an output VC is taken by exactly the input
VC that holds it; `WholePackets`; `CreditsKept` on both sides;
`RoomBehindCrossbar`, neither the buffer of the next hop nor the output buffer is
overrun by flits that were under way when room was checked (the bound that
`_SwitchUpdate` asserts, `iq_router.cpp:2209`); `AllDelivered`. Seven
configurations, three of them speculative (with priorities, with an allocator of
its own, with piggyback VC allocation), that vary buffer policy, speedups,
routing and credit delay, held connections and output buffers; with an internal
speedup of 2 and an output buffer of one flit the output buffer does fill. Two
inputs and outputs, two VCs, four slots, channel delays
of 1, packets of one to three flits that meet at an output. Fairness: cycles go on, a source that
again and again can send does, a sink that again and again can free a slot does.

Limits of the code that the configurations respect: `vc_alloc_delay` above 1
ends in an assertion (`iq_router.cpp:785`); a shared buffer policy together with
output speedup 2 can send two flits where one slot is left
(`buffer_state.cpp:223`; the DGX-1 configurations have dynamic buffers with an
output speedup of 20, and 45056 slots); piggyback with output speedup 2 and
two-flit packets can reach `assert(match_vc >= 0)` (`iq_router.cpp:1930`);
piggyback with `spec_check_elig` off and `spec_check_cred` on can keep a packet
from leaving (`iq_router.cpp:1461`), and with both off delivery depends on the
allocators being fair. A speculative head with several possible outputs waits if
one of them is unusable. The due time of a channel is an `int`
(`channel.hpp:105`). Left out: `noq`, lookahead routing, priorities.

## Allocator: arbiters and allocators

One allocator of the nine types, with round-robin or matrix arbiters inside the
separable ones. A round is `AddRequests` and then the steps of `Allocate`: one
iteration of iSLIP, PIM or select (`Iterate`, `IterateRandomly`), one diagonal
of a wavefront (`Diagonal`), `LonelyOutput`, `SeparableInputFirst`,
`SeparableOutputFirst`, one `ShortestAugmenting` path of the maximum-size
allocator.

Checked (`allocator`): `Matching`, the answer is a matching of what was requested
and both directions agree; `SomeGrant`, requests are never answered by nothing;
`Maximal`, wavefront, and iterations as many as ports, leave nothing that could
be added;
`MaximumSize`, against a reference definition; `EveryRequestServed`, a request
made in every round is granted at last. Three inputs and two outputs, two
iterations (one for select). Fairness: rounds go on. Pointers that others move can starve a request, so but for
the wavefronts the last property is about rounds in which the others repeat
their requests as well; LOA, PIM and the maximum-size allocator promise nothing. Select with more than one iteration breaks `Matching`,
because its grants are kept outside the loop (`selalloc.cpp`); the DGX-1
configurations have `alloc_iters = 2` and the default, iSLIP. `maxsize.cpp:117`
sizes `_from` by the inputs.

Proved (`AllocatorProofs`), for any number of inputs and outputs:
`AllocatesMatching` for every type but the maximum-size one and select with
several iterations (`Provable`), from `MatchingInv`; for the same types
`LeavesNothing` (`Maximal`), from `MaximalInv`, which says what the diagonals or
iterations done so far have settled, and `GrantsSome` (`SomeGrant`), from
`GrantInv`, which has the order that each matrix arbiter keeps. `MaximumSize` needs Berge's theorem on
augmenting paths, an induction over paths, and stays with TLC.

## NvidiaDGX1: topology and routing

The links, lanes and ports that the constructor builds are constant operators.
`RelaxMin` and `FillFromSearch` are the search that fills the tables of GPUs,
`FillFromTree` the tables of the PCIe tree (`Build`); `GeneratePacket` picks a
virtual node round robin, and `RefusePacket` is the same when the queue of that
virtual node is full, which uses up its turn; `Hop` and `Eject` (`Move`) follow
`nccl_nvidiadgx1`. A packet that leaves at a node other than its destination
stops the simulation (`Stopped`, the `Error` at `trafficmanager.cpp:566`). Weak
fairness: the constructor runs to its end and packets move.

Checked (`dgx1`): `ShortestRoute`, packets between GPUs follow a path of least
latency and leave at their destination; `NoWaitCycle`, the channel dependences of
a P100 machine are acyclic;
`EveryPacketArrives`. One DGX-1, both versions, all pairs of nodes, two packets,
sent or refused, per behaviour; the machine is the code's own, not a small instance. For a V100
machine the dependences do have a cycle, over the sixteen directed channels of
the ring 3-6-5-4-11-12-13-10. With more than one DGX-1 the constructor does not
return. `first_vnode` is the finding that a node's first packet enters elsewhere.

## Findings

1. `first_tlp_refused` (`pcie_link.cc:456`). Before anything was delivered,
   `recvSeqNum - 1` is 2^64 - 1, and the Ack frees a TLP that was refused.
2. `stale_vc` (`trafficmanager.cpp:919`). The class loop stores a VC in a head
   that may lose; another packet takes the VC, and `TakeBuffer` stops with
   "Buffer taken while in use for VC".
3. `dma_complement` (`PciBridge.cc:1303`). The complement of the downstream
   ranges misses the address behind each window and all above the last.
4. `first_vnode` (`nvidia_dgx_1.cpp:161`). `last_vnode` is `begin()` of an empty
   set; the first packet of each node starts at the router of a PCIe switch.
5. A comment that the code does not follow (`nvidia_dgx_1.cpp:463`): "distance is
   hops not cycles", but the search adds up latencies, as `ShortestRoute` says.
   In a V100 machine GPU 3 reaches GPU 5 over two links of 2 cycles and not over
   the one of 6.

## The proofs, and what stays with TLC

Eight modules hold theorems: `PCIELinkProofs`, `PciEnumerationProofs`,
`PciFabricProofs` and `PciFabricSlots`, `CreditLoopProofs`, `CreditLoopHolders`
and `InjectionProofs`, `AllocatorProofs`. `tlapm <module>.tla` checks one. Each
safety theorem has the same shape: the invariant holds initially, each action
has a lemma that it keeps the invariant, and the property follows from it.
Assumptions on constants are named in the modules that declare them and are
evaluated by TLC on the instances; hypotheses such as `WithinLimits`, `PidsFit`
or `WindowsFit` appear in the statements of the theorems that need them.

Only model-checked:

- liveness: `ReliableChannel` beyond its safety half (`ImplementsChannel`),
  `NotRefusedForever`, `NodePacketsLeave`, `AllAnswered`, `AllDelivered`,
  `EveryRequestServed`, `EveryPacketArrives`. TLAPS has no reasoning about
  fairness and `ENABLED` here;
- `MaximumSize`, `ShortestRoute` and `NoWaitCycle`: inductions over paths, or
  facts about one fixed machine that TLC decides;
- the invariants of `IQRouter` and `BooksimGlue`. Their steps are folds over
  lists of VCs, buffers and packets, and what a fold computes needs an induction
  over data that the installed provers cannot do;
- the behaviour of the code outside the hypotheses named above, which the
  violated runs and the notes of each section describe.

## Not modelled

BookSim's other topologies and routing functions, wired once by constructors;
chaos and event routers; traffic patterns; configuration, statistics, power
model, netrace. In gem5, the PCI host, the Ethernet device and all that is not
the platform's own: gem5 is vendored whole, and so is an older copy of BookSim
below the directory of the glue (gem5 links the one in `booksim2/`). The share of
the repository's lines that is modelled is small for this reason alone; of the
files named in the first table most of the code that changes state is.
