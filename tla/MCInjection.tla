----------------------------- MODULE MCInjection ----------------------------
(* Small instances of Injection and of CreditLoop for TLC.  The sender of a  *)
(* behaviour is the node of Injection or the general sender of CreditLoop,   *)
(* under every buffer policy.                                                *)
EXTENDS Injection

CONSTANTS
  Senders,       \* a subset of {"node", "any"}
  NodePolicies,  \* the buffer policies at the node
  NodeWaits      \* the values of wait_for_tail_credit at the node

VARIABLE sender  \* who sends, never changed

OwnBuffer == [v \in VCs |-> v]
OneSlot == [i \in PrivateBufs |-> 1]
(* A single private buffer for all VCs. *)
OneBuffer == [v \in VCs |-> 0]
(* Every class may use every VC, the default of the routing functions. *)
FirstVC == [c \in Classes |-> 0]
LastVC == [c \in Classes |-> NumVCs - 1]
(* One VC less for each next class, the last one for all. *)
LaterFirst == [c \in Classes |-> c]
(* priority "none", and class 1 above the others. *)
SamePri == [c \in Classes |-> {0}]
OneHigh == [c \in Classes |-> {IF c = 1 THEN 1 ELSE 0}]

(* Packet numbers fit an int and no share of the buffer is empty. *)
ASSUME LoopFits == PidsFit /\ ShiftingFits

EitherInit ==
  /\ sender \in Senders
  /\ InjInit
  /\ sender = "node" => bs.policy \in NodePolicies /\ bs.wait_for_tail_credit \in NodeWaits
  /\ sender = "any" => ~hold

EitherNext ==
  \/ sender = "node" /\ InjNext /\ UNCHANGED sender
  \/ sender = "any" /\ LoopNext /\ UNCHANGED <<injVars, sender>>

EitherSpec ==
  /\ EitherInit /\ [][EitherNext]_<<vars, sender>>
  /\ Fairness

(* Every packet leaves the node and the router, whatever other classes keep  *)
(* sending.                                                                  *)
NodePacketsLeave == sender = "node" => EveryPacketLeaves
=============================================================================
