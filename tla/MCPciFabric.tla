---------------------------- MODULE MCPciFabric -----------------------------
(* Small instances of PciFabric for TLC. *)
EXTENDS PciFabric

Window(sec, sub, base, limit) ==
  SetBuses(SetLimit(SetBase(NewConfig, "mem", base), "mem", limit), sec, sub)

(* Bus 0 above the root complex; 1 is the link, 2 the switch's own bus, 3    *)
(* and 4 its devices, 5 the device on the second port of the root complex.   *)
TheConfig ==
  [rc |-> <<Window(1, 4, 1, 2), Window(5, 5, 3, 3)>>,
   sw |-> <<Window(3, 3, 1, 1), Window(4, 4, 2, 2)>>]
TheUpBus == [rc |-> 0, sw |-> 1]

(* Two requests of the processor (c), to devices behind the switch, and DMA  *)
(* of those devices (d) and of the one on the root complex (e).              *)
FiveReqs == {"c1", "c2", "d1", "d2", "e1"}
TheEntry ==
  [r \in FiveReqs |->
    CASE r \in {"c1", "c2"} -> <<"rc", 0>> [] r = "d1" -> <<"sw", 1>>
      [] r = "d2" -> <<"sw", 2>> [] r = "e1" -> <<"rc", 2>>]
TheAddr ==
  [r \in FiveReqs |-> CASE r = "c1" -> 2 [] r = "c2" -> 5 [] OTHER -> 30]
TheNeeds == [r \in FiveReqs |-> r # "e1"]

(* No request goes from one port of the root complex to another. *)
ASSUME NoPeers == DownFromBus
=============================================================================
