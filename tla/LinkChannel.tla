---------------------------- MODULE LinkChannel -----------------------------
(***************************************************************************)
(* What a PCIELink promises the devices on its two ends: each direction is *)
(* a channel that delivers the packets it accepted, in order, each exactly *)
(* once, and eventually.  ("reliable in order transmission",               *)
(* gem5/src/mem/pcie_link.hh, the comment on linkReceiveInterface.)        *)
(***************************************************************************)
EXTENDS Naturals, Sequences

CONSTANTS Links, Kind

VARIABLES accepted, delivered

channelVars == <<accepted, delivered>>

Init ==
  /\ accepted = [l \in Links |-> <<>>]
  /\ delivered = [l \in Links |-> <<>>]

Accept(l, k) ==
  /\ accepted' = [accepted EXCEPT ![l] = Append(@, k)]
  /\ UNCHANGED delivered

(* The oldest undelivered packet reaches the far device. *)
Deliver(l) ==
  /\ Len(delivered[l]) < Len(accepted[l])
  /\ delivered' = [delivered EXCEPT ![l] = Append(@, accepted[l][Len(@) + 1])]
  /\ UNCHANGED accepted

Next == \E l \in Links : Deliver(l) \/ \E k \in Kind : Accept(l, k)

Spec == Init /\ [][Next]_channelVars

FairSpec == Spec /\ \A l \in Links : WF_channelVars(Deliver(l))
=============================================================================
