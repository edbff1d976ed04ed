--------------------------- MODULE PciFabricSlots ---------------------------
(***************************************************************************)
(* Proofs about where requests and responses are, for any number of ports  *)
(* and requests and any size of the queues: responses leave by the port    *)
(* their request came in, outstandingResponses counts exactly the requests *)
(* a slave port owes a response for, and the switch has room for what the  *)
(* root complex has let in.                                                *)
(***************************************************************************)
EXTENDS PciFabricProofs, FiniteSetTheorems

(* More time than by default for the provers. *)
USE SMTT(30), ZenonT(30)

-----------------------------------------------------------------------------
(* The slots of the ports. *)
Owing(F, st, b, r) ==
  /\ Needs[r] /\ Passes(b, r)
  /\ \/ st[r] = "served" \/ InBridge(F, b, r)
     \/ b = Entry[r][1] /\ st[r] = "sent"
OwedAt(F, st, b, s) == {r \in Reqs : Owing(F, st, b, r) /\ EntryPort(b, r) = s}
Slots(br, F, st) ==
  \A b \in Bridges, s \in Configs :
    br[b].slave[s].outstanding = Cardinality(OwedAt(F, st, b, s))

(* A request is queued in a bridge if it is in one of its lists. *)
LEMMA SlotsAreLists ==
  ASSUME NEW br, NEW w
  PROVE  \A b \in Bridges, r \in Reqs :
           r \in UNION {Range(br[b].master[p].list) \cup Range(br[b].slave[p].list) : p \in Configs}
             <=> InBridge(ListsOf(br, w), b, r)
<1> SUFFICES ASSUME NEW b \in Bridges, NEW r \in Reqs
             PROVE  (\E p \in Configs : \/ r \in Range(br[b].master[p].list)
                                        \/ r \in Range(br[b].slave[p].list))
                      <=> InBridge(ListsOf(br, w), b, r)
  OBVIOUS
<1> DEFINE F == ListsOf(br, w)
<1>1. \A p \in Configs : /\ F[M(b, p)] = br[b].master[p].list
                         /\ F[S(b, p)] = br[b].slave[p].list
  BY Entries
<1> HIDE DEF F
<1> QED BY <1>1, Zenon DEF InBridge, F

(* SlotPerRequest is Slots. *)
LEMMA SlotsAgree == SlotPerRequest <=> Slots(bridge, lists, stage)
<1>1. \A b \in Bridges, r \in Reqs : r \in Queued(b) <=> InBridge(lists, b, r)
  BY SlotsAreLists, Zenon DEF Queued, lists
<1>2. \A b \in Bridges, r \in Reqs : Owed(b, r) <=> Owing(lists, stage, b, r)
  BY <1>1, Zenon DEF Owed, Owing
<1>3. \A b \in Bridges, s \in Configs :
        {r \in Reqs : Owed(b, r) /\ EntryPort(b, r) = s} = OwedAt(lists, stage, b, s)
  BY <1>2, Zenon DEF OwedAt
<1> QED BY <1>3, ZenonT(30) DEF SlotPerRequest, Slots

(* One request more or less. *)
LEMMA OneMore ==
  ASSUME NEW A \in SUBSET Reqs, NEW r \in Reqs, r \notin A
  PROVE  /\ IsFiniteSet(A) /\ Cardinality(A) \in Nat
         /\ Cardinality(A \cup {r}) = Cardinality(A) + 1
<1>1. IsFiniteSet(A)
  BY FabricAssumption, FS_Subset, Zenon
<1> QED BY <1>1, FS_AddElement, FS_CardinalityType, Zenon

(* A step that makes no difference to what is owed. *)
LEMMA SlotsSame ==
  ASSUME NEW br \in [Bridges -> BridgeType], NEW F, NEW st, Slots(br, F, st),
         NEW cr, NEW G, NEW tt, NEW b0, NEW s0, OutBy(br, cr, b0, s0, 0),
         \A b \in Bridges, r \in Reqs : Owing(G, tt, b, r) <=> Owing(F, st, b, r)
  PROVE  Slots(cr, G, tt)
<1>1. \A b \in Bridges, s \in Configs : OwedAt(G, tt, b, s) = OwedAt(F, st, b, s)
  BY Zenon DEF OwedAt
<1>2. \A b \in Bridges, s \in Configs :
        cr[b].slave[s].outstanding = br[b].slave[s].outstanding
  <2>1. \A b \in Bridges, s \in Configs : br[b].slave[s].outstanding \in Int
    BY Zenon DEF BridgeType, SlaveType
  <2> QED BY <2>1 DEF OutBy
<1> QED BY <1>1, <1>2, Zenon DEF Slots

(* A step after which one more request is owed at one port. *)
LEMMA SlotsMore ==
  ASSUME NEW br \in [Bridges -> BridgeType], NEW F, NEW st, Slots(br, F, st),
         NEW cr, NEW G, NEW tt, NEW b0 \in Bridges, NEW r0 \in Reqs,
         OutBy(br, cr, b0, EntryPort(b0, r0), 1),
         \A b \in Bridges, r \in Reqs :
           ~(b = b0 /\ r = r0) => (Owing(G, tt, b, r) <=> Owing(F, st, b, r)),
         ~Owing(F, st, b0, r0), Owing(G, tt, b0, r0)
  PROVE  Slots(cr, G, tt)
<1> SUFFICES ASSUME NEW b \in Bridges, NEW s \in Configs
             PROVE  cr[b].slave[s].outstanding = Cardinality(OwedAt(G, tt, b, s))
  BY Zenon DEF Slots
<1>1. br[b].slave[s].outstanding \in Int
  BY Zenon DEF BridgeType, SlaveType
<1>2. br[b].slave[s].outstanding = Cardinality(OwedAt(F, st, b, s))
  BY Zenon DEF Slots
<1>3. CASE b = b0 /\ s = EntryPort(b0, r0)
  <2>1. cr[b].slave[s].outstanding = br[b].slave[s].outstanding + 1
    BY <1>3, Zenon DEF OutBy
  <2>2. /\ OwedAt(G, tt, b, s) = OwedAt(F, st, b, s) \cup {r0}
        /\ r0 \notin OwedAt(F, st, b, s) /\ OwedAt(F, st, b, s) \in SUBSET Reqs
    BY <1>3, Zenon DEF OwedAt
  <2> QED BY <1>2, <2>1, <2>2, OneMore, Zenon
<1>4. CASE ~(b = b0 /\ s = EntryPort(b0, r0))
  <2>1. cr[b].slave[s].outstanding = br[b].slave[s].outstanding
    BY <1>1, <1>4 DEF OutBy
  <2>2. OwedAt(G, tt, b, s) = OwedAt(F, st, b, s)
    BY <1>4, Zenon DEF OwedAt
  <2> QED BY <1>2, <2>1, <2>2, Zenon
<1> QED BY <1>3, <1>4, Zenon

(* A step after which one request less is owed at one port. *)
LEMMA SlotsLess ==
  ASSUME NEW br \in [Bridges -> BridgeType], NEW F, NEW st, Slots(br, F, st),
         NEW cr, NEW G, NEW tt, NEW b0 \in Bridges, NEW r0 \in Reqs,
         OutBy(br, cr, b0, EntryPort(b0, r0), -1),
         \A b \in Bridges, r \in Reqs :
           ~(b = b0 /\ r = r0) => (Owing(G, tt, b, r) <=> Owing(F, st, b, r)),
         Owing(F, st, b0, r0), ~Owing(G, tt, b0, r0)
  PROVE  Slots(cr, G, tt)
<1> SUFFICES ASSUME NEW b \in Bridges, NEW s \in Configs
             PROVE  cr[b].slave[s].outstanding = Cardinality(OwedAt(G, tt, b, s))
  BY Zenon DEF Slots
<1>1. br[b].slave[s].outstanding \in Int
  BY Zenon DEF BridgeType, SlaveType
<1>2. br[b].slave[s].outstanding = Cardinality(OwedAt(F, st, b, s))
  BY Zenon DEF Slots
<1>3. CASE b = b0 /\ s = EntryPort(b0, r0)
  <2>1. cr[b].slave[s].outstanding = br[b].slave[s].outstanding + (-1)
    BY <1>3, Zenon DEF OutBy
  <2>2. /\ OwedAt(F, st, b, s) = OwedAt(G, tt, b, s) \cup {r0}
        /\ r0 \notin OwedAt(G, tt, b, s) /\ OwedAt(G, tt, b, s) \in SUBSET Reqs
    BY <1>3, Zenon DEF OwedAt
  <2>3. /\ Cardinality(OwedAt(F, st, b, s)) = Cardinality(OwedAt(G, tt, b, s)) + 1
        /\ Cardinality(OwedAt(G, tt, b, s)) \in Nat
    BY <2>2, OneMore, Zenon
  <2> QED BY <1>2, <2>1, <2>3
<1>4. CASE ~(b = b0 /\ s = EntryPort(b0, r0))
  <2>1. cr[b].slave[s].outstanding = br[b].slave[s].outstanding
    BY <1>1, <1>4 DEF OutBy
  <2>2. OwedAt(G, tt, b, s) = OwedAt(F, st, b, s)
    BY <1>4, Zenon DEF OwedAt
  <2> QED BY <1>2, <2>1, <2>2, Zenon
<1> QED BY <1>3, <1>4, Zenon

-----------------------------------------------------------------------------
(* The invariant, and what a step that concerns one request keeps of it. *)
SlotInv ==
  /\ RetryInv
  /\ Once(lists)
  /\ HeldIn(lists) = {r \in Reqs : stage[r] = "sent"}
  /\ \A r \in Reqs : Stamped(reqBus, stage, r)
  /\ PortsOK(lists)
  /\ WireOK(wire)
  /\ Slots(bridge, lists, stage)

(* A request is under way or served before a step if it is after it. *)
SameStage(st, tt, r) ==
  /\ tt[r] = "sent" <=> st[r] = "sent"
  /\ tt[r] = "served" <=> st[r] = "served"

(* The list x is one where r may be. *)
Fits(x, r) ==
  /\ \A b \in Bridges, p \in Configs : x = M(b, p) => AtMaster(b, p, r)
  /\ \A b \in Bridges, p \in Configs : x = S(b, p) => AtSlave(b, p, r)
PlaceOK(F, r) == Nowhere(F, r) \/ \E x \in Ids : At(F, x, r) /\ Fits(x, r)

(* A list of a bridge, or of the link, is one where r may be. *)
LEMMA WhereItFits ==
  ASSUME NEW r
  PROVE  /\ \A b \in Bridges, p \in Configs : AtMaster(b, p, r) => Fits(M(b, p), r)
         /\ \A b \in Bridges, p \in Configs : AtSlave(b, p, r) => Fits(S(b, p), r)
         /\ \A d \in Ways : Fits(W(d), r)
<1>1. ASSUME NEW b \in Bridges, NEW p \in Configs, AtMaster(b, p, r)
      PROVE  Fits(M(b, p), r)
  BY <1>1, IdsDiffer DEF Fits
<1>2. ASSUME NEW b \in Bridges, NEW p \in Configs, AtSlave(b, p, r)
      PROVE  Fits(S(b, p), r)
  BY <1>2, IdsDiffer DEF Fits
<1>3. ASSUME NEW d \in Ways
      PROVE  Fits(W(d), r)
  BY <1>3, IdsDiffer DEF Fits
<1> QED BY <1>1, <1>2, <1>3, Zenon

(* The other requests stay where they are, so it is enough to look at r. *)
LEMMA PortsKept ==
  ASSUME NEW F, NEW G, ListsOK(F), ListsOK(G), PortsOK(F), NEW r \in Reqs,
         \A q \in Reqs \ {r} : SameFor(F, G, q), PlaceOK(G, r)
  PROVE  PortsOK(G)
<1>1. \A x \in Ids : Range(G[x]) \subseteq Reqs
  <2> SUFFICES ASSUME NEW x \in Ids, NEW i \in DOMAIN G[x] PROVE G[x][i] \in Reqs
    BY Zenon DEF Range
  <2> QED BY DEF ListsOK
<1>2. ASSUME NEW b \in Bridges, NEW p \in Configs, NEW q \in Range(G[M(b, p)])
      PROVE  AtMaster(b, p, q)
  <2>1. M(b, p) \in Ids /\ q \in Reqs
    BY <1>1, AllIds, Zenon
  <2>2. CASE q # r
    <3>1. q \in Range(F[M(b, p)])
      BY <2>1, <2>2, Zenon DEF SameFor
    <3> QED BY <3>1, Zenon DEF PortsOK
  <2>3. CASE q = r
    BY <2>1, <2>3, Zenon DEF PlaceOK, Nowhere, At, Fits
  <2> QED BY <2>2, <2>3, Zenon
<1>3. ASSUME NEW b \in Bridges, NEW p \in Configs, NEW q \in Range(G[S(b, p)])
      PROVE  AtSlave(b, p, q)
  <2>1. S(b, p) \in Ids /\ q \in Reqs
    BY <1>1, AllIds, Zenon
  <2>2. CASE q # r
    <3>1. q \in Range(F[S(b, p)])
      BY <2>1, <2>2, Zenon DEF SameFor
    <3> QED BY <3>1, Zenon DEF PortsOK
  <2>3. CASE q = r
    BY <2>1, <2>3, Zenon DEF PlaceOK, Nowhere, At, Fits
  <2> QED BY <2>2, <2>3, Zenon
<1> QED BY <1>2, <1>3, Zenon DEF PortsOK

(* What is owed for the other requests stays the same. *)
LEMMA OthersOwed ==
  ASSUME NEW F, NEW G, NEW st, NEW tt, NEW q \in Reqs, SameFor(F, G, q), SameStage(st, tt, q)
  PROVE  \A b \in Bridges : Owing(G, tt, b, q) <=> Owing(F, st, b, q)
<1>1. \A b \in Bridges : InBridge(G, b, q) <=> InBridge(F, b, q)
  BY SameBridge, Zenon
<1> QED BY <1>1, Zenon DEF Owing, SameStage

(* A retry concerns no request that is under way or served. *)
LEMMA RetriedStage ==
  ASSUME NEW st \in [Reqs -> Stages], NEW r \in Reqs
  PROVE  /\ Retried(st)[r] = "sent" <=> st[r] = "sent"
         /\ Retried(st)[r] = "served" <=> st[r] = "served"
         /\ Retried(st)[r] = "done" <=> st[r] = "done"
BY Zenon DEF Retried

(* The link keeps packets that are on their way. *)
LEMMA WireTail ==
  ASSUME NEW w \in [Ways -> Seq(Packets)], WireOK(w), NEW d \in Ways, w[d] # <<>>
  PROVE  WireOK([w EXCEPT ![d] = Tail(@)])
<1> DEFINE v == [w EXCEPT ![d] = Tail(@)]
<1>1. w[d] \in Seq(Packets) /\ v[d] = Tail(w[d]) /\ \A e \in Ways \ {d} : v[e] = w[e]
  BY Zenon
<1>2. \A i \in DOMAIN Tail(w[d]) : i + 1 \in DOMAIN w[d] /\ Tail(w[d])[i] = w[d][i + 1]
  <2>1. /\ Tail(w[d]) \in Seq(Packets) /\ Len(Tail(w[d])) = Len(w[d]) - 1
        /\ \A i \in 1 .. Len(Tail(w[d])) : Tail(w[d])[i] = w[d][i + 1]
    BY <1>1, SeqHeadTail, Zenon
  <2>2. Len(w[d]) \in Nat /\ DOMAIN w[d] = 1 .. Len(w[d]) /\ DOMAIN Tail(w[d]) = 1 .. Len(Tail(w[d]))
    BY <1>1, <2>1, SeqLen, Zenon
  <2> QED BY <2>1, <2>2
<1> HIDE DEF v
<1>3. ASSUME NEW e \in Ways, NEW i \in DOMAIN v[e]
      PROVE  OnWay(e, v[e][i])
  <2>1. CASE e = d
    BY <1>1, <1>2, <2>1, Zenon DEF WireOK
  <2>2. CASE e # d
    BY <1>1, <2>2, Zenon DEF WireOK
  <2> QED BY <2>1, <2>2, Zenon
<1> QED BY <1>3, Zenon DEF WireOK, v

(* The same for a packet that is sent. *)
LEMMA WireAppend ==
  ASSUME NEW w \in [Ways -> Seq(Packets)], WireOK(w), NEW d \in Ways,
         NEW x \in Packets, OnWay(d, x)
  PROVE  WireOK([w EXCEPT ![d] = Append(@, x)])
<1> DEFINE v == [w EXCEPT ![d] = Append(@, x)]
<1>1. w[d] \in Seq(Packets) /\ v[d] = Append(w[d], x) /\ \A e \in Ways \ {d} : v[e] = w[e]
  BY Zenon
<1>2. \A i \in DOMAIN Append(w[d], x) :
        Append(w[d], x)[i] = x \/ (i \in DOMAIN w[d] /\ Append(w[d], x)[i] = w[d][i])
  <2>1. /\ Append(w[d], x) \in Seq(Packets) /\ Len(Append(w[d], x)) = Len(w[d]) + 1
        /\ \A i \in 1 .. Len(w[d]) : Append(w[d], x)[i] = w[d][i]
        /\ Append(w[d], x)[Len(w[d]) + 1] = x
    BY <1>1, SeqAppend
  <2>2. /\ Len(w[d]) \in Nat /\ DOMAIN w[d] = 1 .. Len(w[d])
        /\ DOMAIN Append(w[d], x) = 1 .. Len(w[d]) + 1
    BY <1>1, <2>1, SeqLen, Zenon
  <2> QED BY <2>1, <2>2
<1> HIDE DEF v
<1>3. ASSUME NEW e \in Ways, NEW i \in DOMAIN v[e]
      PROVE  OnWay(e, v[e][i])
  <2>1. CASE e = d
    BY <1>1, <1>2, <2>1, ZenonT(30) DEF WireOK
  <2>2. CASE e # d
    BY <1>1, <2>2, Zenon DEF WireOK
  <2> QED BY <2>1, <2>2, Zenon
<1> QED BY <1>3, Zenon DEF WireOK, v

(* A step that concerns request r keeps the invariant if it leaves the other *)
(* requests alone and r in order.                                            *)
LEMMA StepAboutOne ==
  ASSUME SlotInv, RetryInv', NEW r \in Reqs,
         \A q \in Reqs \ {r} : SameFor(lists, lists', q) /\ SameStage(stage, stage', q),
         \A q \in Reqs \ {r} : reqBus'[q] = reqBus[q],
         Once(lists'), r \in HeldIn(lists') <=> stage'[r] = "sent",
         PlaceOK(lists', r), Stamped(reqBus', stage', r),
         WireOK(wire'), Slots(bridge', lists', stage')
  PROVE  SlotInv'
<1> DEFINE F == lists
           G == lists'
<1>1. ListsOK(F) /\ ListsOK(G)
  <2>1. /\ bridge \in [Bridges -> BridgeType] /\ wire \in [Ways -> Seq(Packets)]
        /\ bridge' \in [Bridges -> BridgeType] /\ wire' \in [Ways -> Seq(Packets)]
    BY Zenon DEF SlotInv, RetryInv, FabricOK, Ways
  <2>2. ListsOK(ListsOf(bridge, wire)) /\ ListsOK(ListsOf(bridge', wire'))
    BY <2>1, ListsTyped, Zenon
  <2> QED BY <2>2, Zenon DEF lists
<1>2. /\ Once(F) /\ HeldIn(F) = {q \in Reqs : stage[q] = "sent"} /\ PortsOK(F)
      /\ \A q \in Reqs : Stamped(reqBus, stage, q)
  BY Zenon DEF SlotInv
<1>3. /\ \A q \in Reqs \ {r} : SameFor(F, G, q) /\ SameStage(stage, stage', q)
      /\ r \in HeldIn(G) <=> stage'[r] = "sent"
      /\ PlaceOK(G, r)
  BY Zenon
<1> HIDE DEF F, G
<1>4. HeldIn(G) = {q \in Reqs : stage'[q] = "sent"}
  <2>1. ASSUME NEW q \in Reqs
        PROVE  q \in HeldIn(G) <=> stage'[q] = "sent"
    <3>1. CASE q = r
      BY <1>3, <3>1, Zenon
    <3>2. CASE q # r
      <4>1. q \in HeldIn(G) <=> q \in HeldIn(F)
        BY <1>3, <3>2, Zenon DEF HeldIn, SameFor
      <4> QED BY <1>2, <1>3, <3>2, <4>1, Zenon DEF SameStage
    <3> QED BY <3>1, <3>2, Zenon
  <2>2. HeldIn(G) \subseteq Reqs
    BY Zenon DEF HeldIn
  <2> QED BY <2>1, <2>2, Zenon
<1>5. PortsOK(G)
  BY <1>1, <1>2, <1>3, PortsKept, Zenon
<1>6. \A q \in Reqs : Stamped(reqBus', stage', q)
  <2> TAKE q \in Reqs
  <2>1. CASE q # r
    BY <1>2, <1>3, <2>1, Zenon DEF Stamped, SameStage
  <2> QED BY <2>1, Zenon
<1> QED BY <1>4, <1>5, <1>6, Zenon DEF SlotInv, G

-----------------------------------------------------------------------------
(* The steps of the fabric. *)

(* The lists before and after a step are sequences of requests. *)
LEMMA BothTyped ==
  ASSUME SlotInv, RetryInv'
  PROVE  /\ FabricOK /\ ListsOK(lists) /\ ListsOK(lists')
         /\ bridge \in [Bridges -> BridgeType] /\ wire \in [Ways -> Seq(Packets)]
         /\ lists' = ListsOf(bridge', wire')
<1>1. /\ bridge \in [Bridges -> BridgeType] /\ wire \in [Ways -> Seq(Packets)]
      /\ bridge' \in [Bridges -> BridgeType] /\ wire' \in [Ways -> Seq(Packets)]
  BY Zenon DEF SlotInv, RetryInv, FabricOK, Ways
<1>2. ListsOK(ListsOf(bridge, wire)) /\ ListsOK(ListsOf(bridge', wire'))
  BY <1>1, ListsTyped, Zenon
<1> QED BY <1>1, <1>2, Zenon DEF lists, SlotInv, RetryInv

(* A packet that leaves a bridge for the link moves. *)
LEMMA IntoLink ==
  ASSUME SlotInv, RetryInv', NEW d \in Ways, NEW x \in Ids, x # W(d),
         NEW k \in {"req", "resp"}, NEW r \in Reqs, r = Head(lists[x]),
         Dropped(lists, ListsOf(bridge', wire), x),
         wire' = [wire EXCEPT ![d] = Append(@, <<k, r>>)]
  PROVE  Moved(lists, lists', x, W(d))
<1> DEFINE F == lists
           H == ListsOf(bridge', wire)
           G == lists'
           v == Append(wire[d], <<k, r>>)
<1>1. /\ wire \in [Ways -> Seq(Packets)] /\ G = ListsOf(bridge', wire')
  BY BothTyped, Zenon
<1>2. PutAt(Ways, wire, wire', d, v)
  BY <1>1, Zenon DEF PutAt
<1>3. Changed(H, G, W(d), RequestsIn(v))
  BY <1>1, <1>2, OneWireLists, Zenon
<1>4. RequestsIn(v) = Append(RequestsIn(wire[d]), r)
  BY <1>1, WireRequests, Zenon
<1>5. F[W(d)] = RequestsIn(wire[d]) /\ W(d) \in Ids
  BY Entries, AllIds DEF lists
<1> HIDE DEF F, G, H, v
<1>6. Changed(H, G, W(d), Append(F[W(d)], Head(F[x])))
  BY <1>3, <1>4, <1>5, Zenon DEF F
<1> QED BY <1>5, <1>6, DropThenAdd, Zenon DEF F, G, H

(* A packet that a bridge takes from the link moves. *)
LEMMA FromLink ==
  ASSUME SlotInv, RetryInv', NEW d \in Ways, NEW y \in Ids, y # W(d), wire[d] # <<>>,
         NEW r \in Reqs, r = Head(wire[d])[2],
         Added(lists, ListsOf(bridge', wire), y, r),
         wire' = [wire EXCEPT ![d] = Tail(@)]
  PROVE  Moved(lists, lists', W(d), y) /\ lists[W(d)] # <<>> /\ r = Head(lists[W(d)])
<1> DEFINE F == lists
           H == ListsOf(bridge', wire)
           G == lists'
           v == Tail(wire[d])
<1>1. /\ wire \in [Ways -> Seq(Packets)] /\ G = ListsOf(bridge', wire')
  BY BothTyped, Zenon
<1>2. PutAt(Ways, wire, wire', d, v)
  BY <1>1, Zenon DEF PutAt
<1>3. Changed(H, G, W(d), RequestsIn(v))
  BY <1>1, <1>2, OneWireLists, Zenon
<1>4. /\ RequestsIn(v) = Tail(RequestsIn(wire[d])) /\ r = Head(RequestsIn(wire[d]))
      /\ RequestsIn(wire[d]) # <<>>
  BY <1>1, WireRequests, Zenon
<1>5. F[W(d)] = RequestsIn(wire[d]) /\ W(d) \in Ids
  BY Entries, AllIds DEF lists
<1> HIDE DEF F, G, H, v
<1>6. Changed(H, G, W(d), Tail(F[W(d)])) /\ r = Head(F[W(d)]) /\ F[W(d)] # <<>>
  BY <1>3, <1>4, <1>5, Zenon
<1>7. Added(F, H, y, r)
  BY Zenon DEF F, H
<1>8. Moved(F, G, W(d), y)
  BY <1>5, <1>6, <1>7, AddThenDrop, ZenonT(30)
<1> QED BY <1>6, <1>8, Zenon DEF F, G

(* A step that moves nothing and answers nothing. *)
LEMMA NothingMoves ==
  ASSUME SlotInv, RetryInv', wire' = wire, SameLists(lists, ListsOf(bridge', wire)),
         NEW b0, NEW s0, OutBy(bridge, bridge', b0, s0, 0),
         \A q \in Reqs : SameStage(stage, stage', q),
         \A q \in Reqs : Stamped(reqBus', stage', q)
  PROVE  SlotInv'
<1> DEFINE F == lists
           G == lists'
<1>1. /\ ListsOK(F) /\ ListsOK(G) /\ SameLists(F, G)
      /\ bridge \in [Bridges -> BridgeType] /\ Slots(bridge, F, stage)
  BY BothTyped, Zenon DEF SlotInv
<1>2. /\ Once(F) /\ HeldIn(F) = {r \in Reqs : stage[r] = "sent"} /\ PortsOK(F) /\ WireOK(wire)
  BY Zenon DEF SlotInv
<1> HIDE DEF F, G
<1>3. G = F
  BY <1>1 DEF ListsOK, SameLists
<1>4. \A b \in Bridges, r \in Reqs : Owing(G, stage', b, r) <=> Owing(F, stage, b, r)
  BY <1>3, Zenon DEF Owing, SameStage
<1>5. Slots(bridge', G, stage')
  BY <1>1, <1>4, SlotsSame, Zenon
<1>6. HeldIn(G) = {r \in Reqs : stage'[r] = "sent"}
  BY <1>2, <1>3, Zenon DEF SameStage
<1> QED BY <1>2, <1>3, <1>5, <1>6, Zenon DEF SlotInv, G

(* A request is made or tried again. *)
LEMMA RequestSlots ==
  ASSUME SlotInv, RetryInv', NEW r \in Reqs, Request(r)
  PROVE  SlotInv'
<1> DEFINE b == Entry[r][1]
           s == Entry[r][2]
           F == lists
           G == lists'
           x == M(b, MasterPort[b][r])
<1>1. /\ b \in Bridges /\ s \in Configs /\ Needs[r] \in BOOLEAN /\ Passes(b, r)
      /\ EntryPort(b, r) = s /\ MasterPort[b][r] \in Configs /\ AtMaster(b, MasterPort[b][r], r)
  BY EntryShape, MasterPortIsPort, Zenon DEF Passes, EntryPort, AtMaster
<1>2. /\ stage[r] = "ready" /\ Offer(b, s, r) /\ wire' = wire
      /\ stage' = [stage EXCEPT ![r] = IF Taken(b, s, r) THEN "sent"
                                      ELSE IF FromBus(r) THEN "stalled" ELSE @]
  BY Zenon DEF Request
<1>3. /\ FabricOK /\ ListsOK(F) /\ ListsOK(G) /\ G = ListsOf(bridge', wire)
      /\ bridge \in [Bridges -> BridgeType]
  BY <1>2, BothTyped, Zenon
<1>4. /\ Once(F) /\ HeldIn(F) = {q \in Reqs : stage[q] = "sent"} /\ WireOK(wire)
      /\ Slots(bridge, F, stage) /\ \A q \in Reqs : Stamped(reqBus, stage, q)
  BY Zenon DEF SlotInv
<1>5. /\ reqBus \in [Reqs -> Int] /\ stage \in [Reqs -> Stages]
      /\ reqBus' = [reqBus EXCEPT ![r] = Stamp(b, s, r)]
  BY <1>2, <1>3, Zenon DEF FabricOK, Offer
<1>6. reqBus'[r] = Home(r) /\ \A q \in Reqs \ {r} : reqBus'[q] = reqBus[q]
  <2>1. Stamp(b, s, r) = IF reqBus[r] = -1 THEN Home(r) ELSE reqBus[r]
    BY Zenon DEF Stamp, Home
  <2>2. reqBus[r] \in {-1, Home(r)}
    BY <1>4, Zenon DEF Stamped
  <2> QED BY <1>5, <2>1, <2>2, Zenon
<1>7. /\ stage'[r] = IF Taken(b, s, r) THEN "sent" ELSE IF FromBus(r) THEN "stalled" ELSE "ready"
      /\ \A q \in Reqs \ {r} : stage'[q] = stage[q]
  BY <1>2, <1>5, Zenon
<1>8. \A q \in Reqs \ {r} : SameStage(stage, stage', q)
  BY <1>7, Zenon DEF SameStage
<1>9. Stamped(reqBus', stage', r)
  BY <1>6, <1>7, Zenon DEF Stamped
<1>10. CASE Taken(b, s, r)
  <2>1. /\ Added(F, ListsOf(bridge', wire), x, r)
        /\ OutBy(bridge, bridge', b, s, IF Needs[r] THEN 1 ELSE 0)
    BY <1>1, <1>2, <1>3, <1>10, OfferEffect, Zenon
  <2>2. x \in Ids /\ r \notin HeldIn(F) /\ Added(F, G, x, r)
    BY <1>1, <1>2, <1>3, <1>4, <2>1, AllIds
  <2>3. stage'[r] = "sent"
    BY <1>7, <1>10, Zenon
  <2>x. /\ \A a \in Bridges : At(G, x, r) => (InBridge(G, a, r) <=> a = b)
        /\ \A a \in Bridges : Nowhere(F, r) => ~InBridge(F, a, r)
        /\ Fits(x, r)
    BY <1>1, PlaceBridge, WhereItFits
  <2>b. b = Entry[r][1]
    BY Zenon
  <2> HIDE DEF F, G, x, b, s
  <2>4. /\ Once(G) /\ HeldIn(G) = HeldIn(F) \cup {r} /\ Nowhere(F, r) /\ At(G, x, r)
        /\ \A q \in Reqs \ {r} : SameFor(F, G, q)
    BY <1>3, <1>4, <2>2, AddedPlaces
  <2>5. /\ \A a \in Bridges : InBridge(G, a, r) <=> a = b
        /\ \A a \in Bridges : ~InBridge(F, a, r)
        /\ PlaceOK(G, r)
    BY <2>2, <2>x, <2>4, Zenon DEF PlaceOK
  <2>6. \A a \in Bridges, q \in Reqs \ {r} : Owing(G, stage', a, q) <=> Owing(F, stage, a, q)
    BY <1>8, <2>4, OthersOwed, Zenon
  <2>7. /\ \A a \in Bridges : ~Owing(F, stage, a, r)
        /\ \A a \in Bridges \ {b} : ~Owing(G, stage', a, r)
        /\ Owing(G, stage', b, r) <=> Needs[r]
    BY <1>1, <1>2, <2>3, <2>5, <2>b DEF Owing
  <2>8. Slots(bridge', G, stage')
    <3>1. CASE Needs[r]
      <4>1. OutBy(bridge, bridge', b, EntryPort(b, r), 1)
        BY <1>1, <2>1, <3>1, Zenon
      <4> QED BY <1>1, <1>3, <1>4, <2>6, <2>7, <3>1, <4>1, SlotsMore
    <3>2. CASE ~Needs[r]
      <4>1. OutBy(bridge, bridge', b, s, 0)
        BY <2>1, <3>2, Zenon
      <4>2. \A a \in Bridges, q \in Reqs : Owing(G, stage', a, q) <=> Owing(F, stage, a, q)
        BY <2>6, <2>7, <3>2, Zenon
      <4> QED BY <1>3, <1>4, <4>1, <4>2, SlotsSame
    <3> QED BY <3>1, <3>2, Zenon
  <2> QED BY <1>2, <1>4, <1>6, <1>8, <1>9, <2>3, <2>4, <2>5, <2>8, StepAboutOne, ZenonT(30) DEF F, G
<1>11. CASE ~Taken(b, s, r)
  <2>1. SameLists(F, ListsOf(bridge', wire)) /\ OutBy(bridge, bridge', b, s, 0)
    BY <1>1, <1>2, <1>3, <1>11, OfferEffect
  <2>2. \A q \in Reqs : SameStage(stage, stage', q)
    BY <1>2, <1>7, <1>8, <1>11 DEF SameStage
  <2>3. \A q \in Reqs : Stamped(reqBus', stage', q)
    BY <1>4, <1>6, <1>7, <1>9 DEF Stamped
  <2> QED BY <1>2, <2>1, <2>2, <2>3, NothingMoves, ZenonT(30)
<1> QED BY <1>10, <1>11, Zenon

(* A request leaves a bridge: to a device, or into the link. *)
LEMMA SendRequestSlots ==
  ASSUME SlotInv, RetryInv', NEW b \in Bridges, NEW m \in Configs, SendRequest(b, m)
  PROVE  SlotInv'
<1> DEFINE r == Head(bridge[b].master[m].list)
           d == Direction(b, m)
           st == [stage EXCEPT ![r] =
                    IF d # "leaf" THEN @ ELSE IF Needs[r] THEN "served" ELSE "done"]
           F == lists
           G == lists'
           x == M(b, m)
<1>1. /\ bridge[b].master[m].ev # "none" /\ bridge' = [bridge EXCEPT ![b] = TrySendReq(@, m)]
      /\ wire' = Into(d, <<"req", r>>) /\ stage' = Retried(st) /\ reqBus' = reqBus
  BY ZenonT(30) DEF SendRequest
<1>2. /\ FabricOK /\ ListsOK(F) /\ ListsOK(G) /\ G = ListsOf(bridge', wire')
      /\ bridge \in [Bridges -> BridgeType] /\ wire \in [Ways -> Seq(Packets)]
      /\ stage \in [Reqs -> Stages]
  BY BothTyped, Zenon DEF FabricOK
<1>3. /\ Once(F) /\ HeldIn(F) = {q \in Reqs : stage[q] = "sent"} /\ WireOK(wire) /\ PortsOK(F)
      /\ Slots(bridge, F, stage) /\ \A q \in Reqs : Stamped(reqBus, stage, q)
  BY Zenon DEF SlotInv
<1>4. /\ F[x] # <<>> /\ r = Head(F[x]) /\ r \in Reqs
      /\ Dropped(F, ListsOf(bridge', wire), x) /\ OutBy(bridge, bridge', b, 0, 0)
  BY <1>1, <1>2, ReqSentEffect, ZenonT(30)
<1>5. x \in Ids /\ \A e \in Ways : x # W(e)
  <2>1. x \in Ids
    BY AllIds, Zenon
  <2>2. \A e \in Ways : x # W(e)
    BY IdsDiffer
  <2> QED BY <2>1, <2>2, Zenon
<1>6. AtMaster(b, m, r)
  <2>1. r \in Range(F[x])
    BY <1>2, <1>4, <1>5, TailRange, Zenon DEF ListsOK
  <2> QED BY <1>3, <2>1, Zenon DEF PortsOK
<1>7. m = MasterPort[b][r] /\ Passes(b, r) /\ Needs[r] \in BOOLEAN
  BY <1>4, <1>6, EntryShape, ZenonT(30) DEF AtMaster
<1>d. d \in Ways \cup {"leaf"}
  BY Zenon DEF Direction, Ways
<1>x. /\ \A a \in Bridges : At(F, x, r) => (InBridge(F, a, r) <=> a = b)
      /\ \A a \in Bridges : Nowhere(G, r) => ~InBridge(G, a, r)
  BY PlaceBridge, Zenon
<1>w. \A a \in Bridges, e \in Ways : At(G, W(e), r) => ~InBridge(G, a, r)
  BY PlaceBridge, Zenon
<1>f. \A e \in Ways : Fits(W(e), r) /\ W(e) \in Ids
  BY WhereItFits, AllIds, ZenonT(30)
<1>9. d \in Ways => OnWay(d, <<"req", r>>)
  BY <1>4, <1>7, SentOnWay, ZenonT(30)
<1>10. <<"req", r>> \in Packets
  BY <1>4, Zenon DEF Packets
<1>s. /\ st \in [Reqs -> Stages] /\ \A q \in Reqs \ {r} : st[q] = stage[q]
      /\ st[r] = IF d # "leaf" THEN stage[r] ELSE IF Needs[r] THEN "served" ELSE "done"
  BY <1>2, <1>4, ZenonT(30) DEF Stages
<1> HIDE DEF F, G, x, r, d, st
<1>8. /\ d # "leaf" => b = Entry[r][1]
      /\ d = "leaf" => \A a \in Bridges : Passes(a, r) => a = b \/ a = Entry[r][1]
  BY <1>4, <1>7, Routes, Zenon DEF d
<1>11. /\ \A q \in Reqs \ {r} : SameStage(stage, stage', q)
       /\ stage'[r] = "sent" <=> st[r] = "sent"
       /\ stage'[r] = "served" <=> st[r] = "served"
  BY <1>1, <1>4, <1>s, RetriedStage DEF SameStage
<1>12. CASE d = "leaf"
  <2>1. wire' = wire /\ Dropped(F, G, x)
    BY <1>1, <1>2, <1>4, <1>12, Zenon DEF Into
  <2>2. /\ Once(G) /\ r \in HeldIn(F) /\ HeldIn(G) = HeldIn(F) \ {r}
        /\ At(F, x, r) /\ Nowhere(G, r)
        /\ \A q \in Reqs \ {r} : SameFor(F, G, q)
    BY <1>2, <1>3, <1>4, <1>5, <2>1, DroppedPlaces
  <2>3. /\ stage[r] = "sent" /\ stage'[r] # "sent" /\ (stage'[r] = "served" <=> Needs[r])
    BY <1>3, <1>7, <1>11, <1>12, <1>s, <2>2
  <2>4. \A a \in Bridges : (InBridge(F, a, r) <=> a = b) /\ ~InBridge(G, a, r)
    BY <1>x, <2>2, Zenon
  <2>5. \A a \in Bridges : Owing(G, stage', a, r) <=> Owing(F, stage, a, r)
    BY <1>7, <1>8, <1>12, <2>3, <2>4 DEF Owing
  <2>6. \A a \in Bridges, q \in Reqs : Owing(G, stage', a, q) <=> Owing(F, stage, a, q)
    BY <1>11, <2>2, <2>5, OthersOwed
  <2>7. Slots(bridge', G, stage')
    BY <1>2, <1>3, <1>4, <2>6, SlotsSame, Zenon
  <2>8. Stamped(reqBus', stage', r) /\ PlaceOK(G, r)
    BY <1>1, <1>3, <1>4, <2>2, <2>3, Zenon DEF Stamped, PlaceOK
  <2> QED BY <1>1, <1>3, <1>4, <1>11, <2>1, <2>2, <2>3, <2>7, <2>8, StepAboutOne, ZenonT(30) DEF F, G
<1>13. CASE d \in Ways
  <2>1. d # "leaf" /\ wire' = [wire EXCEPT ![d] = Append(@, <<"req", r>>)]
    BY <1>1, <1>13, Zenon DEF Into, Ways
  <2>2. Moved(F, G, x, W(d))
    BY <1>4, <1>5, <1>13, <2>1, IntoLink, ZenonT(30) DEF F, G
  <2>3. /\ Once(G) /\ r \in HeldIn(F) /\ HeldIn(G) = HeldIn(F)
        /\ At(F, x, r) /\ At(G, W(d), r)
        /\ \A q \in Reqs \ {r} : SameFor(F, G, q)
    BY <1>2, <1>3, <1>4, <1>5, <1>13, <1>f, <2>2, MovedPlaces, Zenon
  <2>4. stage[r] = "sent" /\ stage'[r] = "sent"
    BY <1>3, <1>11, <1>s, <2>1, <2>3
  <2>5. \A a \in Bridges : (InBridge(F, a, r) <=> a = b) /\ ~InBridge(G, a, r)
    BY <1>x, <1>w, <1>13, <2>3, Zenon
  <2>6. \A a \in Bridges : Owing(G, stage', a, r) <=> Owing(F, stage, a, r)
    BY <1>8, <2>1, <2>4, <2>5 DEF Owing
  <2>7. \A a \in Bridges, q \in Reqs : Owing(G, stage', a, q) <=> Owing(F, stage, a, q)
    BY <1>11, <2>3, <2>6, OthersOwed
  <2>8. Slots(bridge', G, stage')
    BY <1>2, <1>3, <1>4, <2>7, SlotsSame, Zenon
  <2>9. Stamped(reqBus', stage', r) /\ PlaceOK(G, r)
    BY <1>1, <1>3, <1>4, <1>13, <1>f, <2>3, <2>4 DEF Stamped, PlaceOK
  <2>10. WireOK(wire')
    BY <1>2, <1>3, <1>9, <1>10, <1>13, <2>1, WireAppend, ZenonT(30)
  <2> QED BY <1>1, <1>4, <1>11, <2>3, <2>4, <2>8, <2>9, <2>10, StepAboutOne, ZenonT(30) DEF F, G
<1> QED BY <1>d, <1>12, <1>13, Zenon

(* A response leaves a bridge: to the requester, or into the link. *)
LEMMA SendResponseSlots ==
  ASSUME SlotInv, RetryInv', NEW b \in Bridges, NEW s \in Configs, SendResponse(b, s)
  PROVE  SlotInv'
<1> DEFINE r == Head(bridge[b].slave[s].list)
           d == Direction(b, s)
           st == [stage EXCEPT ![r] = IF d = "leaf" THEN "done" ELSE @]
           F == lists
           G == lists'
           x == S(b, s)
<1>1. /\ bridge[b].slave[s].ev # "none" /\ bridge' = [bridge EXCEPT ![b] = TrySendResp(@, s)]
      /\ wire' = Into(d, <<"resp", r>>) /\ stage' = Retried(st) /\ reqBus' = reqBus
  BY Zenon DEF SendResponse
<1>2. /\ FabricOK /\ ListsOK(F) /\ ListsOK(G) /\ G = ListsOf(bridge', wire')
      /\ bridge \in [Bridges -> BridgeType] /\ wire \in [Ways -> Seq(Packets)]
      /\ stage \in [Reqs -> Stages]
  BY BothTyped, Zenon DEF FabricOK
<1>3. /\ Once(F) /\ HeldIn(F) = {q \in Reqs : stage[q] = "sent"} /\ WireOK(wire) /\ PortsOK(F)
      /\ Slots(bridge, F, stage) /\ \A q \in Reqs : Stamped(reqBus, stage, q)
  BY Zenon DEF SlotInv
<1>4. /\ F[x] # <<>> /\ r = Head(F[x]) /\ r \in Reqs
      /\ Dropped(F, ListsOf(bridge', wire), x) /\ OutBy(bridge, bridge', b, s, -1)
  BY <1>1, <1>2, RespSentEffect, ZenonT(30)
<1>5. x \in Ids /\ \A e \in Ways : x # W(e)
  <2>1. x \in Ids
    BY AllIds, Zenon
  <2>2. \A e \in Ways : x # W(e)
    BY IdsDiffer
  <2> QED BY <2>1, <2>2, Zenon
<1>6. AtSlave(b, s, r)
  <2>1. r \in Range(F[x])
    BY <1>2, <1>4, <1>5, TailRange, Zenon DEF ListsOK
  <2> QED BY <1>3, <2>1, Zenon DEF PortsOK
<1>7. s = EntryPort(b, r) /\ Passes(b, r) /\ Needs[r]
  BY <1>6, Zenon DEF AtSlave
<1>d. d \in Ways \cup {"leaf"}
  BY Zenon DEF Direction, Ways
<1>x. /\ \A a \in Bridges : At(F, x, r) => (InBridge(F, a, r) <=> a = b)
      /\ \A a \in Bridges : Nowhere(G, r) => ~InBridge(G, a, r)
  BY PlaceBridge, Zenon
<1>w. \A a \in Bridges, e \in Ways : At(G, W(e), r) => ~InBridge(G, a, r)
  BY PlaceBridge, Zenon
<1>f. \A e \in Ways : Fits(W(e), r) /\ W(e) \in Ids
  BY WhereItFits, AllIds, ZenonT(30)
<1>9. d \in Ways => OnWay(d, <<"resp", r>>)
  BY <1>4, <1>7, SentOnWay, ZenonT(30)
<1>10. <<"resp", r>> \in Packets
  BY <1>4, Zenon DEF Packets
<1>s. /\ st \in [Reqs -> Stages] /\ \A q \in Reqs \ {r} : st[q] = stage[q]
      /\ st[r] = IF d = "leaf" THEN "done" ELSE stage[r]
  BY <1>2, <1>4, ZenonT(30) DEF Stages
<1> HIDE DEF F, G, x, r, d, st
<1>8. d = "leaf" <=> b = Entry[r][1]
  BY <1>4, <1>7, Routes, Zenon DEF d
<1>11. /\ \A q \in Reqs \ {r} : SameStage(stage, stage', q)
       /\ stage'[r] = "sent" <=> st[r] = "sent"
       /\ stage'[r] = "served" <=> st[r] = "served"
  BY <1>1, <1>4, <1>s, RetriedStage DEF SameStage
<1>o. OutBy(bridge, bridge', b, EntryPort(b, r), -1)
  BY <1>4, <1>7, Zenon
<1>12. CASE d = "leaf"
  <2>1. wire' = wire /\ Dropped(F, G, x)
    BY <1>1, <1>2, <1>4, <1>12, Zenon DEF Into
  <2>2. /\ Once(G) /\ r \in HeldIn(F) /\ HeldIn(G) = HeldIn(F) \ {r}
        /\ At(F, x, r) /\ Nowhere(G, r)
        /\ \A q \in Reqs \ {r} : SameFor(F, G, q)
    BY <1>2, <1>3, <1>4, <1>5, <2>1, DroppedPlaces
  <2>3. /\ stage[r] = "sent" /\ stage'[r] # "sent" /\ stage'[r] # "served"
    BY <1>3, <1>11, <1>12, <1>s, <2>2
  <2>4. \A a \in Bridges : (InBridge(F, a, r) <=> a = b) /\ ~InBridge(G, a, r)
    BY <1>x, <2>2, Zenon
  <2>5. /\ \A a \in Bridges : ~Owing(G, stage', a, r)
        /\ \A a \in Bridges \ {b} : ~Owing(F, stage, a, r)
        /\ Owing(F, stage, b, r)
    BY <1>7, <1>8, <1>12, <2>3, <2>4, Zenon DEF Owing
  <2>6. \A a \in Bridges, q \in Reqs \ {r} : Owing(G, stage', a, q) <=> Owing(F, stage, a, q)
    BY <1>11, <2>2, OthersOwed, Zenon
  <2>7. Slots(bridge', G, stage')
    BY <1>2, <1>3, <1>4, <1>o, <2>5, <2>6, SlotsLess
  <2>8. Stamped(reqBus', stage', r) /\ PlaceOK(G, r)
    BY <1>1, <1>3, <1>4, <2>2, <2>3, Zenon DEF Stamped, PlaceOK
  <2> QED BY <1>1, <1>3, <1>4, <1>11, <2>1, <2>2, <2>3, <2>7, <2>8, StepAboutOne, ZenonT(30) DEF F, G
<1>13. CASE d \in Ways
  <2>1. d # "leaf" /\ wire' = [wire EXCEPT ![d] = Append(@, <<"resp", r>>)]
    BY <1>1, <1>13, Zenon DEF Into, Ways
  <2>2. Moved(F, G, x, W(d))
    BY <1>4, <1>5, <1>13, <2>1, IntoLink, ZenonT(30) DEF F, G
  <2>3. /\ Once(G) /\ r \in HeldIn(F) /\ HeldIn(G) = HeldIn(F)
        /\ At(F, x, r) /\ At(G, W(d), r)
        /\ \A q \in Reqs \ {r} : SameFor(F, G, q)
    BY <1>2, <1>3, <1>4, <1>5, <1>13, <1>f, <2>2, MovedPlaces
  <2>4. stage[r] = "sent" /\ stage'[r] = "sent"
    BY <1>3, <1>11, <1>s, <2>1, <2>3
  <2>5. \A a \in Bridges : (InBridge(F, a, r) <=> a = b) /\ ~InBridge(G, a, r)
    BY <1>x, <1>w, <1>13, <2>3, Zenon
  <2>6. /\ \A a \in Bridges \ {b} : Owing(G, stage', a, r) <=> Owing(F, stage, a, r)
        /\ Owing(F, stage, b, r) /\ ~Owing(G, stage', b, r)
    BY <1>7, <1>8, <2>1, <2>4, <2>5, Zenon DEF Owing
  <2>7. \A a \in Bridges, q \in Reqs \ {r} : Owing(G, stage', a, q) <=> Owing(F, stage, a, q)
    BY <1>11, <2>3, OthersOwed, Zenon
  <2>8. Slots(bridge', G, stage')
    BY <1>2, <1>3, <1>4, <1>o, <2>6, <2>7, SlotsLess
  <2>9. Stamped(reqBus', stage', r) /\ PlaceOK(G, r)
    BY <1>1, <1>3, <1>4, <1>13, <1>f, <2>3, <2>4, Zenon DEF Stamped, PlaceOK
  <2>10. WireOK(wire')
    BY <1>2, <1>3, <1>9, <1>10, <1>13, <2>1, WireAppend, ZenonT(30)
  <2> QED BY <1>1, <1>4, <1>11, <2>3, <2>4, <2>8, <2>9, <2>10, StepAboutOne, ZenonT(30) DEF F, G
<1> QED BY <1>d, <1>12, <1>13, Zenon

(* A device or memory answers. *)
LEMMA RespondSlots ==
  ASSUME SlotInv, RetryInv', NEW r \in Reqs, Respond(r)
  PROVE  SlotInv'
<1> DEFINE b == Responder(r)
           F == lists
           G == lists'
           x == S(b, EntryPort(b, r))
<1>1. /\ b \in Bridges /\ Passes(b, r) /\ EntryPort(b, r) \in Configs
      /\ \A a \in Bridges : Passes(a, r) => a = b \/ a = Entry[r][1]
  BY RespondsLast, EntryShape, Zenon
<1>2. /\ stage[r] = "served" /\ wire' = wire /\ reqBus' = reqBus
      /\ bridge' = [bridge EXCEPT ![b] = RecvTimingResp(@, Config[b], reqBus[r], r)]
      /\ stage' = [stage EXCEPT ![r] = "sent"]
  BY Zenon DEF Respond
<1>3. /\ FabricOK /\ ListsOK(F) /\ ListsOK(G) /\ G = ListsOf(bridge', wire)
      /\ bridge \in [Bridges -> BridgeType] /\ stage \in [Reqs -> Stages]
  BY <1>2, BothTyped, Zenon DEF FabricOK
<1>4. /\ Once(F) /\ HeldIn(F) = {q \in Reqs : stage[q] = "sent"} /\ WireOK(wire)
      /\ Slots(bridge, F, stage) /\ \A q \in Reqs : Stamped(reqBus, stage, q)
  BY Zenon DEF SlotInv
<1>5. reqBus[r] = Home(r) /\ Needs[r]
  BY <1>2, <1>4, Zenon DEF Stamped
<1>6. /\ Added(F, ListsOf(bridge', wire), S(b, GetSlavePort(Config[b], reqBus[r])), r)
      /\ OutBy(bridge, bridge', b, 0, 0)
  <2> HIDE DEF b
  <2> QED BY <1>1, <1>2, <1>3, RespEffect, ZenonT(30)
<1>7. GetSlavePort(Config[b], reqBus[r]) = EntryPort(b, r)
  BY <1>1, <1>5, HomeFound, Zenon
<1>8. x \in Ids /\ r \notin HeldIn(F) /\ Added(F, G, x, r) /\ Fits(x, r)
  <2>1. AtSlave(b, EntryPort(b, r), r)
    BY <1>1, <1>5, Zenon DEF AtSlave
  <2>2. x \in Ids /\ Fits(x, r)
    BY <1>1, <2>1, AllIds, WhereItFits, ZenonT(30)
  <2>3. r \notin HeldIn(F)
    BY <1>2, <1>4, Zenon
  <2> QED BY <1>3, <1>6, <1>7, <2>2, <2>3, Zenon
<1>x. /\ \A a \in Bridges : At(G, x, r) => (InBridge(G, a, r) <=> a = b)
      /\ \A a \in Bridges : Nowhere(F, r) => ~InBridge(F, a, r)
  BY <1>1, PlaceBridge, Zenon
<1> HIDE DEF F, G, x, b
<1>9. /\ Once(G) /\ HeldIn(G) = HeldIn(F) \cup {r} /\ Nowhere(F, r) /\ At(G, x, r)
      /\ \A q \in Reqs \ {r} : SameFor(F, G, q)
  BY <1>3, <1>4, <1>8, AddedPlaces, Zenon
<1>10. stage'[r] = "sent" /\ \A q \in Reqs \ {r} : SameStage(stage, stage', q)
  BY <1>2, <1>3, Zenon DEF SameStage
<1>11. \A a \in Bridges : (InBridge(G, a, r) <=> a = b) /\ ~InBridge(F, a, r)
  BY <1>x, <1>9, Zenon
<1>12. \A a \in Bridges : Owing(G, stage', a, r) <=> Owing(F, stage, a, r)
  BY <1>1, <1>2, <1>10, <1>11, Zenon DEF Owing
<1>13. \A a \in Bridges, q \in Reqs : Owing(G, stage', a, q) <=> Owing(F, stage, a, q)
  BY <1>9, <1>10, <1>12, OthersOwed
<1>14. Slots(bridge', G, stage')
  BY <1>3, <1>4, <1>6, <1>13, SlotsSame, Zenon
<1>15. Stamped(reqBus', stage', r) /\ PlaceOK(G, r)
  BY <1>2, <1>5, <1>8, <1>9, <1>10, Zenon DEF Stamped, PlaceOK
<1> QED BY <1>2, <1>4, <1>9, <1>10, <1>14, <1>15, StepAboutOne, ZenonT(30) DEF F, G

(* The link hands a request over, and the bridge takes it or not. *)
LEMMA ArriveRequestSlots ==
  ASSUME SlotInv, RetryInv', NEW d \in Ways, NEW r \in Reqs, wire[d] # <<>>,
         Head(wire[d])[1] = "req", r = Head(wire[d])[2], Offer(End(d), EndPort(d), r),
         wire' = IF Taken(End(d), EndPort(d), r) THEN [wire EXCEPT ![d] = Tail(@)] ELSE wire,
         stage' = stage
  PROVE  SlotInv'
<1> DEFINE b == End(d)
           s == EndPort(d)
           F == lists
           G == lists'
           x == M(b, MasterPort[b][r])
<1>1. /\ b \in Bridges /\ s \in Configs /\ Needs[r] \in BOOLEAN /\ MasterPort[b][r] \in Configs
      /\ b # Entry[r][1] => EntryPort(b, r) = s
  BY EndEntry, EntryShape, MasterPortIsPort, Zenon
<1>2. /\ FabricOK /\ ListsOK(F) /\ ListsOK(G) /\ wire \in [Ways -> Seq(Packets)]
      /\ bridge \in [Bridges -> BridgeType] /\ reqBus \in [Reqs -> Int]
  BY BothTyped, Zenon DEF FabricOK
<1>3. /\ Once(F) /\ HeldIn(F) = {q \in Reqs : stage[q] = "sent"} /\ WireOK(wire)
      /\ Slots(bridge, F, stage) /\ \A q \in Reqs : Stamped(reqBus, stage, q)
  BY Zenon DEF SlotInv
<1>4. Passes(b, r) /\ b # Entry[r][1]
  <2>1. 1 \in DOMAIN wire[d] /\ Head(wire[d]) = wire[d][1]
    <3>1. Len(wire[d]) \in Nat \ {0} /\ DOMAIN wire[d] = 1 .. Len(wire[d])
      BY <1>2, TailEmpty, SeqLen, Zenon
    <3> QED BY <1>2, <3>1, SeqHeadTail
  <2>2. OnWay(d, Head(wire[d]))
    BY <1>3, <2>1, Zenon DEF WireOK
  <2> QED BY <2>2, Zenon DEF OnWay
<1>5. r \in Range(F[W(d)])
  <2>1. F[W(d)] = RequestsIn(wire[d])
    BY Entries, Zenon DEF lists
  <2>2. /\ RequestsIn(wire[d]) \in Seq(Reqs) /\ RequestsIn(wire[d]) # <<>>
        /\ Head(RequestsIn(wire[d])) = r
    BY <1>2, WireRequests, Zenon
  <2> QED BY <2>1, <2>2, TailRange
<1>6. stage[r] = "sent"
  <2>1. W(d) \in Ids
    BY AllIds, Zenon
  <2> QED BY <1>3, <1>5, <2>1, Zenon DEF HeldIn
<1>7. reqBus' = reqBus
  <2>1. reqBus[r] = Home(r) /\ Home(r) \in Nat
    BY <1>1, <1>3, <1>4, <1>6, HomeFound, Zenon DEF Stamped
  <2>2. Stamp(b, s, r) = reqBus[r]
    BY <2>1 DEF Stamp
  <2> QED BY <1>2, <2>2, Zenon DEF Offer
<1>8. \A q \in Reqs : SameStage(stage, stage', q)
  BY Zenon DEF SameStage
<1>9. CASE Taken(b, s, r)
  <2>1. wire' = [wire EXCEPT ![d] = Tail(@)]
    BY <1>9, Zenon
  <2>2. /\ Added(F, ListsOf(bridge', wire), x, r)
        /\ OutBy(bridge, bridge', b, s, IF Needs[r] THEN 1 ELSE 0)
    BY <1>1, <1>2, <1>9, OfferEffect, Zenon
  <2>3. x \in Ids /\ x # W(d) /\ W(d) \in Ids /\ Fits(x, r)
    <3>1. AtMaster(b, MasterPort[b][r], r)
      BY <1>4, Zenon DEF AtMaster
    <3>2. x \in Ids /\ W(d) \in Ids
      BY <1>1, AllIds, Zenon
    <3>3. x # W(d)
      BY IdsDiffer
    <3>4. Fits(x, r)
      BY <1>1, <3>1, WhereItFits, ZenonT(30)
    <3> QED BY <3>2, <3>3, <3>4, Zenon
  <2>x. /\ \A a \in Bridges : At(G, x, r) => (InBridge(G, a, r) <=> a = b)
        /\ \A a \in Bridges : At(F, W(d), r) => ~InBridge(F, a, r)
    BY <1>1, PlaceBridge
  <2> HIDE DEF x
  <2>4. Moved(F, G, W(d), x) /\ F[W(d)] # <<>> /\ r = Head(F[W(d)])
    BY <2>1, <2>2, <2>3, FromLink, ZenonT(30)
  <2> HIDE DEF F, G, b, s
  <2>5. /\ Once(G) /\ r \in HeldIn(F) /\ HeldIn(G) = HeldIn(F)
        /\ At(F, W(d), r) /\ At(G, x, r)
        /\ \A q \in Reqs \ {r} : SameFor(F, G, q)
    BY <1>2, <1>3, <2>3, <2>4, MovedPlaces, Zenon
  <2>6. \A a \in Bridges : (InBridge(G, a, r) <=> a = b) /\ ~InBridge(F, a, r)
    BY <2>x, <2>5, Zenon
  <2>7. \A a \in Bridges, q \in Reqs \ {r} : Owing(G, stage', a, q) <=> Owing(F, stage, a, q)
    BY <1>8, <2>5, OthersOwed, Zenon
  <2>8. /\ \A a \in Bridges \ {b} : Owing(G, stage', a, r) <=> Owing(F, stage, a, r)
        /\ ~Owing(F, stage, b, r) /\ (Owing(G, stage', b, r) <=> Needs[r])
    BY <1>1, <1>4, <1>6, <2>6, Zenon DEF Owing
  <2>9. Slots(bridge', G, stage')
    <3>1. CASE Needs[r]
      <4>1. OutBy(bridge, bridge', b, EntryPort(b, r), 1)
        BY <1>1, <1>4, <2>2, <3>1, Zenon
      <4>2. \A a \in Bridges, q \in Reqs :
              ~(a = b /\ q = r) => (Owing(G, stage', a, q) <=> Owing(F, stage, a, q))
        BY <2>7, <2>8, Zenon
      <4>3. ~Owing(F, stage, b, r) /\ Owing(G, stage', b, r)
        BY <2>8, <3>1, Zenon
      <4> QED BY <1>1, <1>2, <1>3, <4>1, <4>2, <4>3, SlotsMore
    <3>2. CASE ~Needs[r]
      <4>1. OutBy(bridge, bridge', b, s, 0)
        BY <2>2, <3>2, Zenon
      <4>2. \A a \in Bridges, q \in Reqs : Owing(G, stage', a, q) <=> Owing(F, stage, a, q)
        BY <1>1, <2>7, <2>8, <3>2, Zenon
      <4> QED BY <1>2, <1>3, <4>1, <4>2, SlotsSame, ZenonT(30)
    <3> QED BY <3>1, <3>2, Zenon
  <2>10. Stamped(reqBus', stage', r) /\ PlaceOK(G, r)
    BY <1>3, <1>7, <2>3, <2>5, Zenon DEF PlaceOK
  <2>11. WireOK(wire')
    <3>1. WireOK([wire EXCEPT ![d] = Tail(@)])
      BY <1>2, <1>3, WireTail, ZenonT(30)
    <3> QED BY <2>1, <3>1, ZenonT(30)
  <2> QED BY <1>3, <1>6, <1>7, <1>8, <2>5, <2>9, <2>10, <2>11, StepAboutOne, ZenonT(30) DEF F, G
<1>10. CASE ~Taken(b, s, r)
  <2>1. SameLists(F, ListsOf(bridge', wire)) /\ OutBy(bridge, bridge', b, s, 0)
    BY <1>1, <1>2, <1>10, OfferEffect, Zenon
  <2> QED BY <1>3, <1>7, <1>8, <1>10, <2>1, NothingMoves, Zenon
<1> QED BY <1>9, <1>10, Zenon

(* The link hands a response over. *)
LEMMA ArriveResponseSlots ==
  ASSUME SlotInv, RetryInv', NEW d \in Ways, NEW r \in Reqs, wire[d] # <<>>,
         Head(wire[d])[1] = "resp", r = Head(wire[d])[2],
         bridge' = [bridge EXCEPT ![End(d)] = RecvTimingResp(@, Config[End(d)], reqBus[r], r)],
         wire' = [wire EXCEPT ![d] = Tail(@)], reqBus' = reqBus, stage' = stage
  PROVE  SlotInv'
<1> DEFINE b == End(d)
           F == lists
           G == lists'
           x == S(b, EntryPort(b, r))
<1>1. b \in Bridges /\ EntryPort(b, r) \in Configs
  BY EndEntry, EntryShape, Zenon
<1>2. /\ FabricOK /\ ListsOK(F) /\ ListsOK(G) /\ wire \in [Ways -> Seq(Packets)]
      /\ bridge \in [Bridges -> BridgeType]
  BY BothTyped, Zenon
<1>3. /\ Once(F) /\ HeldIn(F) = {q \in Reqs : stage[q] = "sent"} /\ WireOK(wire)
      /\ Slots(bridge, F, stage) /\ \A q \in Reqs : Stamped(reqBus, stage, q)
  BY Zenon DEF SlotInv
<1>4. Passes(b, r) /\ b = Entry[r][1] /\ Needs[r]
  <2>1. 1 \in DOMAIN wire[d] /\ Head(wire[d]) = wire[d][1]
    <3>1. Len(wire[d]) \in Nat \ {0} /\ DOMAIN wire[d] = 1 .. Len(wire[d])
      BY <1>2, TailEmpty, SeqLen, Zenon
    <3> QED BY <1>2, <3>1, SeqHeadTail
  <2>2. OnWay(d, Head(wire[d]))
    BY <1>3, <2>1, Zenon DEF WireOK
  <2> QED BY <2>2, Zenon DEF OnWay
<1>5. r \in Range(F[W(d)])
  <2>1. F[W(d)] = RequestsIn(wire[d])
    BY Entries DEF lists
  <2>2. /\ RequestsIn(wire[d]) \in Seq(Reqs) /\ RequestsIn(wire[d]) # <<>>
        /\ Head(RequestsIn(wire[d])) = r
    BY <1>2, WireRequests, Zenon
  <2> QED BY <2>1, <2>2, TailRange
<1>6. stage[r] = "sent"
  <2>1. W(d) \in Ids
    BY AllIds, Zenon
  <2> QED BY <1>3, <1>5, <2>1, Zenon DEF HeldIn
<1>7. reqBus[r] = Home(r) /\ GetSlavePort(Config[b], reqBus[r]) = EntryPort(b, r)
  <2>1. reqBus[r] = Home(r)
    BY <1>3, <1>6, Zenon DEF Stamped
  <2> QED BY <1>1, <1>4, <2>1, HomeFound, ZenonT(30)
<1>8. \A q \in Reqs : SameStage(stage, stage', q)
  BY Zenon DEF SameStage
<1>9. /\ Added(F, ListsOf(bridge', wire), S(b, GetSlavePort(Config[b], reqBus[r])), r)
      /\ OutBy(bridge, bridge', b, 0, 0)
  BY <1>1, <1>2, RespEffect, ZenonT(30)
<1>10. x \in Ids /\ x # W(d) /\ W(d) \in Ids /\ Fits(x, r)
  <2>1. AtSlave(b, EntryPort(b, r), r)
    BY <1>4, ZenonT(30) DEF AtSlave
  <2>2. x \in Ids /\ W(d) \in Ids
    BY <1>1, AllIds, Zenon
  <2>3. x # W(d)
    BY IdsDiffer
  <2>4. Fits(x, r)
    BY <1>1, <2>1, WhereItFits, Zenon
  <2> QED BY <2>2, <2>3, <2>4, Zenon
<1>x. /\ \A a \in Bridges : At(G, x, r) => (InBridge(G, a, r) <=> a = b)
      /\ \A a \in Bridges : At(F, W(d), r) => ~InBridge(F, a, r)
  BY <1>1, PlaceBridge
<1>a. Added(F, ListsOf(bridge', wire), x, r)
  BY <1>7, <1>9, Zenon
<1> HIDE DEF x
<1>11. Moved(F, G, W(d), x) /\ F[W(d)] # <<>> /\ r = Head(F[W(d)])
  BY <1>10, <1>a, FromLink, ZenonT(30)
<1> HIDE DEF F, G, b
<1>12. /\ Once(G) /\ r \in HeldIn(F) /\ HeldIn(G) = HeldIn(F)
       /\ At(F, W(d), r) /\ At(G, x, r)
       /\ \A q \in Reqs \ {r} : SameFor(F, G, q)
  BY <1>2, <1>3, <1>10, <1>11, MovedPlaces, Zenon
<1>13. \A a \in Bridges : (InBridge(G, a, r) <=> a = b) /\ ~InBridge(F, a, r)
  BY <1>x, <1>12, Zenon
<1>14. \A a \in Bridges : Owing(G, stage', a, r) <=> Owing(F, stage, a, r)
  BY <1>4, <1>6, <1>13, Zenon DEF Owing
<1>15. \A a \in Bridges, q \in Reqs : Owing(G, stage', a, q) <=> Owing(F, stage, a, q)
  BY <1>8, <1>12, <1>14, OthersOwed
<1>16. Slots(bridge', G, stage')
  BY <1>2, <1>3, <1>9, <1>15, SlotsSame, ZenonT(30)
<1>17. Stamped(reqBus', stage', r) /\ PlaceOK(G, r) /\ WireOK(wire')
  BY <1>2, <1>3, <1>10, <1>12, WireTail, ZenonT(30) DEF PlaceOK
<1> QED BY <1>3, <1>6, <1>8, <1>12, <1>16, <1>17, StepAboutOne, ZenonT(30) DEF F, G

(* A peer refuses the head of a list. *)
LEMMA RefuseSlots ==
  ASSUME SlotInv, RetryInv', NEW b \in Bridges, NEW p \in Configs,
         RefuseRequest(b, p) \/ RefuseResponse(b, p)
  PROVE  SlotInv'
<1>1. wire' = wire /\ stage' = stage /\ reqBus' = reqBus
  BY Zenon DEF RefuseRequest, RefuseResponse
<1>2. SameLists(lists, ListsOf(bridge', wire)) /\ OutBy(bridge, bridge', b, 0, 0)
  BY RefuseEffect, Zenon DEF SlotInv, RetryInv
<1>3. \A q \in Reqs : SameStage(stage, stage', q) /\ Stamped(reqBus', stage', q)
  BY <1>1, Zenon DEF SlotInv, SameStage
<1> QED BY <1>1, <1>2, <1>3, NothingMoves, Zenon

(* The link hands over its oldest packet. *)
LEMMA ArriveSlots ==
  ASSUME SlotInv, RetryInv', NEW d \in Ways, Arrive(d)
  PROVE  SlotInv'
<1> DEFINE r == Head(wire[d])[2]
<1>1. wire[d] # <<>> /\ wire \in [Ways -> Seq(Packets)]
  BY Zenon DEF Arrive, SlotInv, RetryInv, FabricOK, Ways
<1>2. r \in Reqs
  <2>1. RequestsIn(wire[d]) \in Seq(Reqs) /\ RequestsIn(wire[d]) # <<>>
        /\ Head(RequestsIn(wire[d])) = r
    BY <1>1, WireRequests, Zenon
  <2> QED BY <2>1, TailRange, Zenon
<1>3. stage' = stage
  BY Zenon DEF Arrive
<1>4. CASE Head(wire[d])[1] = "req"
  <2>1. /\ Offer(End(d), EndPort(d), r)
        /\ wire' = IF Taken(End(d), EndPort(d), r) THEN [wire EXCEPT ![d] = Tail(@)] ELSE wire
    BY <1>4, Zenon DEF Arrive, End, EndPort
  <2> HIDE DEF r
  <2> QED BY <1>1, <1>2, <1>3, <1>4, <2>1, ArriveRequestSlots, ZenonT(30) DEF r
<1>5. CASE Head(wire[d])[1] # "req"
  <2>1. /\ Head(wire[d])[1] = "resp" /\ reqBus' = reqBus
        /\ bridge' = [bridge EXCEPT ![End(d)] = RecvTimingResp(@, Config[End(d)], reqBus[r], r)]
        /\ wire' = [wire EXCEPT ![d] = Tail(@)]
    BY <1>5, Zenon DEF Arrive, End
  <2> HIDE DEF r
  <2> QED BY <1>1, <1>2, <1>3, <2>1, ArriveResponseSlots, ZenonT(30) DEF r
<1> QED BY <1>4, <1>5, Zenon

(* At the start all lists are empty. *)
LEMMA InitSlots == Init => SlotInv
<1> SUFFICES ASSUME Init PROVE SlotInv
  BY Zenon
<1>1. RetryInv
  BY InitOK, Zenon
<1>2. /\ bridge = [b \in Bridges |-> NewBridge] /\ reqBus = [r \in Reqs |-> -1]
      /\ wire = [d \in Ways |-> <<>>] /\ stage = [r \in Reqs |-> "ready"]
  BY Zenon DEF Init, Ways
<1>3. \A b \in Bridges, p \in Configs :
        /\ bridge[b].master[p].list = <<>> /\ bridge[b].slave[p].list = <<>>
        /\ bridge[b].slave[p].outstanding = 0
  BY <1>2, Zenon DEF NewBridge
<1>4. \A d \in Ways : RequestsIn(wire[d]) = <<>>
  BY <1>2 DEF RequestsIn
<1>5. \A b \in Bridges, p \in Configs : lists[M(b, p)] = <<>> /\ lists[S(b, p)] = <<>>
  BY <1>3, Entries DEF lists
<1>6. \A d \in Ways : lists[W(d)] = <<>>
  BY <1>4, Entries DEF lists
<1>7. \A x \in Ids : lists[x] = <<>>
  <2> HIDE DEF lists
  <2> QED BY <1>5, <1>6, AllIds, Zenon
<1>8. Range(<<>>) = {} /\ DOMAIN <<>> = {}
  BY DEF Range
<1> HIDE DEF lists
<1>9. Once(lists) /\ HeldIn(lists) = {r \in Reqs : stage[r] = "sent"}
  BY <1>2, <1>7, <1>8, Zenon DEF Once, HeldIn
<1>10. PortsOK(lists)
  BY <1>5, <1>8, Zenon DEF PortsOK
<1>11. WireOK(wire) /\ \A r \in Reqs : Stamped(reqBus, stage, r)
  BY <1>2 DEF WireOK, Stamped
<1>12. Slots(bridge, lists, stage)
  <2> SUFFICES ASSUME NEW b \in Bridges, NEW s \in Configs
               PROVE  bridge[b].slave[s].outstanding = Cardinality(OwedAt(lists, stage, b, s))
    BY Zenon DEF Slots
  <2>1. \A r \in Reqs : ~InBridge(lists, b, r) /\ stage[r] = "ready"
    BY <1>2, <1>5, <1>8, Zenon DEF InBridge
  <2>2. OwedAt(lists, stage, b, s) = {}
    BY <2>1, Zenon DEF OwedAt, Owing
  <2> QED BY <1>3, <2>2, FS_EmptySet, Zenon
<1> QED BY <1>1, <1>9, <1>10, <1>11, <1>12, Zenon DEF SlotInv

(* Every step keeps the invariant. *)
LEMMA StepKeepsSlots == SlotInv /\ [Next]_vars => SlotInv'
<1> SUFFICES ASSUME SlotInv, [Next]_vars PROVE SlotInv'
  BY Zenon
<1>1. RetryInv'
  BY StepKeepsReason, Zenon DEF SlotInv
<1>2. CASE UNCHANGED vars
  <2>1. bridge' = bridge /\ wire' = wire /\ stage' = stage /\ reqBus' = reqBus
    BY <1>2, Zenon DEF vars
  <2>2. lists' = lists
    BY <2>1, Zenon DEF lists, ListsOf
  <2> QED BY <1>1, <2>1, <2>2, Zenon DEF SlotInv
<1>3. ASSUME NEW r \in Reqs, Request(r) PROVE SlotInv'
  BY <1>1, <1>3, RequestSlots, Zenon
<1>4. ASSUME NEW r \in Reqs, Respond(r) PROVE SlotInv'
  BY <1>1, <1>4, RespondSlots, Zenon
<1>5. ASSUME NEW b \in Bridges, NEW p \in Configs, SendRequest(b, p) PROVE SlotInv'
  BY <1>1, <1>5, SendRequestSlots, Zenon
<1>6. ASSUME NEW b \in Bridges, NEW p \in Configs, SendResponse(b, p) PROVE SlotInv'
  BY <1>1, <1>6, SendResponseSlots, Zenon
<1>7. ASSUME NEW b \in Bridges, NEW p \in Configs, RefuseRequest(b, p) \/ RefuseResponse(b, p)
      PROVE  SlotInv'
  BY <1>1, <1>7, RefuseSlots, Zenon
<1>8. ASSUME NEW d \in Ways, Arrive(d) PROVE SlotInv'
  BY <1>1, <1>8, ArriveSlots, Zenon
<1> QED BY <1>2, <1>3, <1>4, <1>5, <1>6, <1>7, <1>8, Zenon DEF Next, Ways

(* What getSlavePort has to get right: a response leaves each bridge by the  *)
(* slave port through which its request came into that bridge.               *)
THEOREM ResponsesFindHome == Spec => []ResponsesGoHome
<1>1. SlotInv => ResponsesGoHome
  <2> SUFFICES ASSUME SlotInv, NEW b \in Bridges, NEW s \in Configs,
                      NEW r \in Range(bridge[b].slave[s].list)
               PROVE  EntryPort(b, r) = s
    BY Zenon DEF ResponsesGoHome
  <2>1. lists[S(b, s)] = bridge[b].slave[s].list
    BY Entries DEF lists
  <2>2. \A q \in Range(lists[S(b, s)]) : AtSlave(b, s, q)
    BY Zenon DEF SlotInv, PortsOK
  <2> QED BY <2>1, <2>2, Zenon DEF AtSlave
<1> QED BY <1>1, InitSlots, StepKeepsSlots, PTL DEF Spec

(* outstandingResponses of a slave port is the number of requests it has let *)
(* in whose response has not left, whatever the order of events.             *)
THEOREM SlotsExact == Spec => []SlotPerRequest
<1>1. SlotInv => SlotPerRequest
  BY SlotsAgree, Zenon DEF SlotInv
<1> QED BY <1>1, InitSlots, StepKeepsSlots, PTL DEF Spec

-----------------------------------------------------------------------------
(* Room in the switch. *)

(* No slave port has let in more than it has slots for. *)
Bounded ==
  \A b \in Bridges, s \in Configs : bridge[b].slave[s].outstanding <= RespLimit

(* A step that gives back a slot, or takes one where one is free. *)
LEMMA BoundKept ==
  ASSUME FabricOK, Bounded, NEW b, NEW s, NEW k \in {-1, 0, 1},
         OutBy(bridge, bridge', b, s, k),
         k = 1 => b \in Bridges /\ s \in Configs /\ bridge[b].slave[s].outstanding # RespLimit
  PROVE  Bounded'
<1> SUFFICES ASSUME NEW a \in Bridges, NEW p \in Configs
             PROVE  bridge'[a].slave[p].outstanding <= RespLimit
  BY Zenon DEF Bounded
<1>1. /\ bridge[a].slave[p].outstanding \in Int /\ bridge[a].slave[p].outstanding <= RespLimit
      /\ RespLimit \in Int
  BY LimitAssumption DEF FabricOK, BridgeType, SlaveType, Bounded
<1>2. bridge'[a].slave[p].outstanding =
        bridge[a].slave[p].outstanding + (IF a = b /\ p = s THEN k ELSE 0)
  BY Zenon DEF OutBy
<1>3. CASE a = b /\ p = s
  BY <1>1, <1>2, <1>3
<1>4. CASE ~(a = b /\ p = s)
  BY <1>1, <1>2, <1>4
<1> QED BY <1>3, <1>4, Zenon

(* recvTimingReq takes a request only if there is a slot for its response. *)
LEMMA OfferBounded ==
  ASSUME FabricOK, Bounded, NEW b \in Bridges, NEW s \in Configs, NEW r \in Reqs,
         Offer(b, s, r)
  PROVE  Bounded'
<1>1. Needs[r] \in BOOLEAN
  BY EntryShape, Zenon
<1>2. CASE Taken(b, s, r)
  <2>1. OutBy(bridge, bridge', b, s, IF Needs[r] THEN 1 ELSE 0)
    BY <1>2, OfferEffect, Zenon
  <2>2. Needs[r] => bridge[b].slave[s].outstanding # RespLimit
    BY <1>2, Zenon DEF Taken, Takes, RespQueueFull
  <2>3. CASE Needs[r]
    <3>1. OutBy(bridge, bridge', b, s, 1)
      BY <2>1, <2>3, Zenon
    <3> QED BY <2>2, <2>3, <3>1, BoundKept, Zenon
  <2>4. CASE ~Needs[r]
    <3>1. OutBy(bridge, bridge', b, s, 0)
      BY <2>1, <2>4, Zenon
    <3> QED BY <3>1, BoundKept
  <2> QED BY <2>3, <2>4, Zenon
<1>3. CASE ~Taken(b, s, r)
  <2>1. OutBy(bridge, bridge', b, s, 0)
    BY <1>3, OfferEffect, Zenon
  <2> QED BY <2>1, BoundKept
<1> QED BY <1>2, <1>3, Zenon

(* Every step keeps the slots within the limit. *)
LEMMA StepKeepsBound == FabricOK /\ Bounded /\ [Next]_vars => Bounded'
<1> SUFFICES ASSUME FabricOK, Bounded, [Next]_vars PROVE Bounded'
  BY Zenon
<1>1. CASE UNCHANGED vars
  BY <1>1, Zenon DEF vars, Bounded
<1>2. ASSUME NEW r \in Reqs, Request(r) PROVE Bounded'
  <2>1. Entry[r][1] \in Bridges /\ Entry[r][2] \in Configs
    BY EntryShape, Zenon
  <2>2. Offer(Entry[r][1], Entry[r][2], r)
    BY <1>2, Zenon DEF Request
  <2> QED BY <2>1, <2>2, OfferBounded, Zenon
<1>3. ASSUME NEW b \in Bridges, NEW r \in Reqs, NEW bus,
             bridge' = [bridge EXCEPT ![b] = RecvTimingResp(@, Config[b], bus, r)]
      PROVE  Bounded'
  <2>1. OutBy(bridge, bridge', b, 0, 0)
    BY <1>3, RespEffect, ZenonT(30)
  <2> QED BY <2>1, BoundKept
<1>4. ASSUME NEW r \in Reqs, Respond(r) PROVE Bounded'
  <2>1. /\ Responder(r) \in Bridges
        /\ bridge' = [bridge EXCEPT ![Responder(r)] =
                        RecvTimingResp(@, Config[Responder(r)], reqBus[r], r)]
    BY <1>4, RespondsLast, Zenon DEF Respond
  <2> QED BY <1>3, <2>1, ZenonT(30)
<1>5. ASSUME NEW b \in Bridges, NEW p \in Configs, SendRequest(b, p) PROVE Bounded'
  <2>1. bridge[b].master[p].ev # "none" /\ bridge' = [bridge EXCEPT ![b] = TrySendReq(@, p)]
    BY <1>5, ZenonT(30) DEF SendRequest
  <2>2. OutBy(bridge, bridge', b, 0, 0)
    BY <2>1, ReqSentEffect, ZenonT(30)
  <2> QED BY <2>2, BoundKept
<1>6. ASSUME NEW b \in Bridges, NEW p \in Configs, SendResponse(b, p) PROVE Bounded'
  <2>1. bridge[b].slave[p].ev # "none" /\ bridge' = [bridge EXCEPT ![b] = TrySendResp(@, p)]
    BY <1>6, Zenon DEF SendResponse
  <2>2. OutBy(bridge, bridge', b, p, -1)
    BY <2>1, RespSentEffect, ZenonT(30)
  <2> QED BY <2>2, BoundKept
<1>7. ASSUME NEW b \in Bridges, NEW p \in Configs, RefuseRequest(b, p) \/ RefuseResponse(b, p)
      PROVE  Bounded'
  <2>1. OutBy(bridge, bridge', b, 0, 0)
    BY <1>7, RefuseEffect, Zenon
  <2> QED BY <2>1, BoundKept
<1>8. ASSUME NEW d \in Ways, Arrive(d) PROVE Bounded'
  <2> DEFINE r == Head(wire[d])[2]
  <2>1. wire[d] # <<>> /\ wire \in [Ways -> Seq(Packets)]
    BY <1>8, Zenon DEF Arrive, FabricOK, Ways
  <2>2. r \in Reqs
    <3>1. RequestsIn(wire[d]) \in Seq(Reqs) /\ RequestsIn(wire[d]) # <<>>
          /\ Head(RequestsIn(wire[d])) = r
      BY <2>1, WireRequests, Zenon
    <3> QED BY <3>1, TailRange, Zenon
  <2>3. End(d) \in Bridges /\ EndPort(d) \in Configs
    BY <2>2, EndEntry, Zenon
  <2>4. \/ Offer(End(d), EndPort(d), r)
        \/ bridge' = [bridge EXCEPT ![End(d)] = RecvTimingResp(@, Config[End(d)], reqBus[r], r)]
    BY <1>8, Zenon DEF Arrive, End, EndPort
  <2> HIDE DEF r
  <2>5. CASE Offer(End(d), EndPort(d), r)
    BY <2>2, <2>3, <2>5, OfferBounded, Zenon
  <2>6. CASE bridge' = [bridge EXCEPT ![End(d)] =
                          RecvTimingResp(@, Config[End(d)], reqBus[r], r)]
    BY <1>3, <2>2, <2>3, <2>6, ZenonT(30)
  <2> QED BY <2>4, <2>5, <2>6, Zenon
<1> QED BY <1>1, <1>2, <1>4, <1>5, <1>6, <1>7, <1>8 DEF Next, Ways

(* For every request the switch owes a response upstream, the root complex   *)
(* owes one to the memory bus.                                               *)
LEMMA OwedAbove ==
  ASSUME SlotInv, DownFromBus, NEW q \in Reqs, Passes("sw", q), EntryPort("sw", q) = 0
  PROVE  /\ Entry[q][1] = "rc" /\ EntryPort("rc", q) = 0
         /\ Owing(lists, stage, "sw", q) => Owing(lists, stage, "rc", q)
<1>1. /\ Entry[q][1] \in Bridges /\ MasterPort.rc = MasterPort["rc"]
      /\ Entry[q][1] = "sw" => Entry[q][2] # 0
  BY EntryShape, Zenon
<1>2. Entry[q][1] = "rc" /\ MasterPort["rc"][q] = 1
  BY <1>1, Zenon DEF EntryPort, Passes, Bridges
<1>3. EntryPort("rc", q) = 0
  BY <1>2, Zenon DEF DownFromBus, EntryPort
<1>4. InBridge(lists, "sw", q) => stage[q] = "sent"
  <2> SUFFICES ASSUME NEW p \in Configs,
                      q \in Range(lists[M("sw", p)]) \/ q \in Range(lists[S("sw", p)])
               PROVE  stage[q] = "sent"
    BY Zenon DEF InBridge
  <2>1. M("sw", p) \in Ids /\ S("sw", p) \in Ids
    BY AllIds, Zenon DEF Bridges
  <2>2. q \in HeldIn(lists)
    BY <2>1, Zenon DEF HeldIn
  <2> QED BY <2>2, Zenon DEF SlotInv
<1>5. Owing(lists, stage, "sw", q) => Owing(lists, stage, "rc", q)
  BY <1>2, <1>4, Zenon DEF Owing, Passes
<1> QED BY <1>2, <1>3, <1>5, Zenon

(* The counting argument: what the switch owes upstream and the request in   *)
(* the link are different requests, and the root complex has a slot for each.*)
LEMMA RoomBelow ==
  ASSUME SlotInv, Bounded, DownFromBus
  PROVE  SwitchHasRoom
<1> SUFFICES ASSUME NEW i \in DOMAIN wire.down, wire.down[i][1] = "req",
                    Needs[wire.down[i][2]]
             PROVE  bridge.sw.slave[0].outstanding # RespLimit
  BY Zenon DEF SwitchHasRoom, RespQueueFull
<1> DEFINE r == wire.down[i][2]
           F == lists
           A == OwedAt(F, stage, "sw", 0)
           B == OwedAt(F, stage, "rc", 0)
<1>1. /\ "down" \in Ways /\ "rc" \in Bridges /\ "sw" \in Bridges /\ 0 \in Configs
      /\ wire.down = wire["down"] /\ wire \in [Ways -> Seq(Packets)]
  BY ConfigAssumption DEF Ways, Bridges, Configs, SlotInv, RetryInv, FabricOK
<1>2. /\ Passes("sw", r) /\ Entry[r][1] # "sw"
  <2>1. OnWay("down", wire["down"][i])
    BY <1>1, Zenon DEF SlotInv, WireOK
  <2> QED BY <1>1, <2>1, Zenon DEF OnWay, End
<1>3. F[W("down")] = RequestsIn(wire["down"]) /\ W("down") \in Ids
  BY <1>1, Entries, AllIds DEF lists
<1>4. i \in DOMAIN F[W("down")] /\ F[W("down")][i] = r
  BY <1>1, <1>3, Zenon DEF RequestsIn
<1>5. r \in Reqs
  <2>1. wire["down"] \in Seq(Packets)
    BY <1>1, Zenon
  <2>2. wire["down"][i] \in Packets
    BY <1>1, <2>1
  <2> QED BY <1>1, <2>2, Zenon DEF Packets
<1>6. r \in HeldIn(F) /\ stage[r] = "sent"
  <2>1. r \in HeldIn(F)
    BY <1>3, <1>4, <1>5, Zenon DEF HeldIn, Range
  <2> QED BY <2>1, Zenon DEF SlotInv
<1>7. ~InBridge(F, "sw", r)
  <2> SUFFICES ASSUME NEW p \in Configs
               PROVE  r \notin Range(F[M("sw", p)]) /\ r \notin Range(F[S("sw", p)])
    BY Zenon DEF InBridge
  <2>1. M("sw", p) \in Ids /\ S("sw", p) \in Ids
    BY <1>1, AllIds, Zenon
  <2>2. M("sw", p) # W("down") /\ S("sw", p) # W("down")
    BY IdsDiffer
  <2>3. Once(F)
    BY Zenon DEF SlotInv
  <2> HIDE DEF F, r
  <2> QED BY <1>3, <1>4, <2>1, <2>2, <2>3 DEF Once, Range
<1>8. r \notin A
  BY <1>2, <1>6, <1>7, Zenon DEF OwedAt, Owing
<1>9. r \in B
  <2>1. EntryPort("sw", r) = 0
    BY <1>2, Zenon DEF EntryPort
  <2>2. Entry[r][1] = "rc" /\ EntryPort("rc", r) = 0
    BY <1>2, <1>5, <2>1, OwedAbove, Zenon
  <2> QED BY <1>5, <1>6, <2>2, Zenon DEF OwedAt, Owing, Passes
<1>10. A \subseteq B
  <2> SUFFICES ASSUME NEW q \in Reqs, Owing(F, stage, "sw", q), EntryPort("sw", q) = 0
               PROVE  Owing(F, stage, "rc", q) /\ EntryPort("rc", q) = 0
    BY Zenon DEF OwedAt
  <2> QED BY OwedAbove, Zenon DEF Owing
<1>11. A \in SUBSET Reqs /\ B \in SUBSET Reqs
  BY Zenon DEF OwedAt
<1>12. /\ bridge.sw.slave[0].outstanding = Cardinality(A)
       /\ bridge.rc.slave[0].outstanding = Cardinality(B)
       /\ bridge.rc.slave[0].outstanding <= RespLimit
  <2>1. bridge.sw = bridge["sw"] /\ bridge.rc = bridge["rc"]
    BY Zenon
  <2> QED BY <1>1, <2>1, Zenon DEF SlotInv, Slots, Bounded
<1> HIDE DEF A, B, r, F
<1>13. Cardinality(A \cup {r}) = Cardinality(A) + 1 /\ Cardinality(A) \in Nat
  BY <1>5, <1>8, <1>11, OneMore, Zenon
<1>14. Cardinality(A \cup {r}) <= Cardinality(B) /\ Cardinality(B) \in Nat
  <2>1. IsFiniteSet(B)
    BY <1>11, FabricAssumption, FS_Subset, Zenon
  <2> QED BY <1>9, <1>10, <2>1, FS_Subset, FS_CardinalityType, Zenon
<1> QED BY <1>12, <1>13, <1>14, LimitAssumption

(* If everything that goes down comes from the memory bus, a request with a  *)
(* response never waits in the link for a response slot of the switch.       *)
THEOREM RoomInSwitch == DownFromBus => (Spec => []SwitchHasRoom)
<1> SUFFICES ASSUME DownFromBus PROVE Spec => []SwitchHasRoom
  BY Zenon
<1>1. Init => SlotInv /\ Bounded
  <2> SUFFICES ASSUME Init PROVE Bounded
    BY InitSlots, Zenon
  <2>1. \A b \in Bridges, s \in Configs : bridge[b].slave[s].outstanding = 0
    BY Zenon DEF Init, NewBridge
  <2> QED BY <2>1, LimitAssumption DEF Bounded
<1>2. SlotInv /\ Bounded /\ [Next]_vars => SlotInv' /\ Bounded'
  <2>1. SlotInv => FabricOK
    BY Zenon DEF SlotInv, RetryInv
  <2> QED BY <2>1, StepKeepsSlots, StepKeepsBound, Zenon
<1>3. SlotInv /\ Bounded => SwitchHasRoom
  BY RoomBelow, Zenon
<1> QED BY <1>1, <1>2, <1>3, PTL DEF Spec
=============================================================================
