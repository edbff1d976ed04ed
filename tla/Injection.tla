------------------------------ MODULE Injection -----------------------------
(***************************************************************************)
(* Injection at one node: TrafficManager::_GeneratePacket and the part of  *)
(* TrafficManager::_Step that sends flits (booksim2/src/trafficmanager.cpp)*)
(* on top of the BufferState, the channel and the router of CreditLoop.    *)
(*                                                                         *)
(* Packets wait in a queue for each class.  In a cycle the node visits the *)
(* classes round robin, gives a waiting head a virtual channel, and sends  *)
(* the best flit it met.  Only the effects of CreditLoop's operators are   *)
(* used here, none of its guards: that injection keeps the rules of        *)
(* BufferState is the property LoopSpec.                                   *)
(*                                                                         *)
(* One node, one subnet, and the VCs of a class are the range its routing  *)
(* function returns (no noq).  The phases of a cycle are actions of their  *)
(* own, so channels may take any time.                                     *)
(***************************************************************************)
EXTENDS CreditLoop

CONSTANTS
  NumClasses,  \* _classes
  BeginVC,     \* the first ...
  EndVC,       \* ... and the last VC the routing function offers to a class
  SomeHolds,   \* the values of hold_switch_for_packet to choose from
  InjSize,     \* _inj_size: flits from which a class refuses packets
  Sizes,       \* packet sizes that callers ask for
  PriOf        \* priorities a class may give to a packet; {0} for priority "none"

Classes == 0 .. NumClasses - 1

ASSUME InjectionAssumption ==
  /\ NumClasses \in Nat \ {0}
  /\ BeginVC \in [Classes -> VCs] /\ EndVC \in [Classes -> VCs]
  /\ \A c \in Classes : BeginVC[c] <= EndVC[c]
  /\ SomeHolds \subseteq BOOLEAN
  /\ InjSize \in Nat \ {0}
  /\ Sizes \subseteq Nat \ {0}
  /\ PriOf \in [Classes -> SUBSET Nat]

VARIABLES
  hold,       \* _hold_switch_for_packet, never changed
  partial,    \* [Classes -> flits]: _partial_packets
  lastVC,     \* [Classes -> VCs]: _last_vc
  lastClass   \* _last_class

injVars == <<hold, partial, lastVC, lastClass>>
vars == <<loopVars, injVars>>

InjInit ==
  /\ LoopInit
  /\ hold \in SomeHolds
  /\ partial = [c \in Classes |-> <<>>]
  /\ lastVC = [c \in Classes |-> EndVC[c]]
  /\ lastClass = 0

Waiting(pid) ==
  \E c \in Classes : \E i \in DOMAIN partial[c] : partial[c][i].pid = pid

-----------------------------------------------------------------------------
Packet(pid, size, pri) ==
  [i \in 1 .. size |->
     [pid |-> pid, head |-> i = 1, tail |-> i = size, vc |-> -1, pri |-> pri]]

(* _cur_pid++ gives a number that no packet under way has. *)
GeneratePacket(pid, c, size, pri) ==
  /\ Len(partial[c]) < InjSize
  /\ Fresh(pid) /\ ~Waiting(pid)
  /\ partial' = [partial EXCEPT ![c] = @ \o Packet(pid, size, pri)]
  /\ UNCHANGED <<loopVars, hold, lastVC, lastClass>>

-----------------------------------------------------------------------------
VCCount(c) == (EndVC[c] - BeginVC[c]) + 1

(* The VC that is tried at step i, and the first one that is free. *)
TriedVC(c, i) ==
  IF lastVC[c] \notin BeginVC[c] .. EndVC[c] THEN BeginVC[c]
  ELSE BeginVC[c] + (((lastVC[c] - BeginVC[c]) + i) % VCCount(c))

FindVC(c) ==
  LET free == {i \in 1 .. VCCount(c) :
                 IsAvailableFor(bs, TriedVC(c, i)) /\ ~IsFullFor(bs, TriedVC(c, i))}
      first == CHOOSE i \in free : \A j \in free : i <= j
  IN IF free = {} THEN -1 ELSE TriedVC(c, first)

(* The VC of a class's front flit; a head that has none yet looks for one. *)
Front(c) == Head(partial[c])
FrontVC(c) == IF Front(c).head /\ Front(c).vc = -1 THEN FindVC(c) ELSE Front(c).vc

CanSend(c) ==
  partial[c] # <<>> /\ FrontVC(c) # -1 /\ ~IsFullFor(bs, FrontVC(c))

(* With hold_switch_for_packet a packet on its way goes on first. *)
Holding ==
  /\ hold
  /\ partial[lastClass] # <<>>
  /\ ~Front(lastClass).head
  /\ ~IsFullFor(bs, Front(lastClass).vc)

(* Mutant: the loop starts with class 0 in every cycle. *)
TurnFixed(c) == c

(* The loop visits the classes after the last one round robin, and passes    *)
(* over a class when it already has a flit of at least its priority.         *)
Turn(c) ==
  IF Holding /\ c = lastClass THEN 0
  ELSE 1 + (((c - lastClass) - 1) % NumClasses)
Skipped(c) ==
  \E d \in Classes : CanSend(d) /\ Turn(d) < Turn(c) /\ Front(d).pri >= Front(c).pri
Wins(c) ==
  /\ CanSend(c) /\ ~Skipped(c)
  /\ \A d \in Classes : CanSend(d) /\ Turn(d) > Turn(c) => Skipped(d)

(* A head that was not passed over keeps its VC, also when another flit wins. *)
Assigned(c) ==
  IF partial[c] = <<>> \/ Skipped(c) THEN partial[c]
  ELSE [partial[c] EXCEPT ![1].vc = FrontVC(c)]

(* pop_front, and the VC is passed back to the packet's next flit. *)
PopFlit(pp) ==
  IF Len(pp) > 1 /\ ~Head(pp).tail THEN [Tail(pp) EXCEPT ![1].vc = Head(pp).vc]
  ELSE Tail(pp)

(* Mutant: the VC of a head is not taken. *)
WithVCUntaken(f) == bs

(* A head takes its VC. *)
WithVC(f) == IF f.head THEN TakeBuffer(bs, f.vc, f.pid) ELSE bs

(* Send the winner.  A cycle without one changes nothing: a head that finds  *)
(* a VC can send.                                                            *)
Inject(c) ==
  LET f == Head(Assigned(c))
  IN /\ Wins(c)
     /\ SendOn(WithVC(f), Flit(f.pid, f.head, f.tail, f.vc))
     /\ lastVC' = IF f.head THEN [lastVC EXCEPT ![c] = f.vc] ELSE lastVC
     /\ lastClass' = c
     /\ partial' = [d \in Classes |->
                      IF d = c THEN PopFlit(Assigned(c)) ELSE Assigned(d)]
     /\ UNCHANGED <<buffer, expected, credits, hold>>

InjNext ==
  \/ \E pid \in Pids, c \in Classes : \E size \in Sizes, pri \in PriOf[c] :
       GeneratePacket(pid, c, size, pri)
  \/ \E c \in Classes : Inject(c)
  \/ Arrive /\ UNCHANGED injVars
  \/ \E v \in VCs : Drain(v) /\ UNCHANGED injVars
  \/ ReadCredit /\ UNCHANGED injVars

InjSpec == InjInit /\ [][InjNext]_vars

(* Every cycle injects, reads the channels and lets the router work: weak     *)
(* fairness of Inject, Arrive, each Drain and ReadCredit, with their guards   *)
(* and what only they do written out.                                         *)
Fairness ==
  /\ <>[](\E c \in Classes : Wins(c)) => []<><<Len(channel') > Len(channel)>>_vars
  /\ <>[](channel # <<>>) => []<><<Len(channel') < Len(channel)>>_vars
  /\ \A v \in VCs :
       <>[](buffer[v] # <<>>) => []<><<Len(buffer'[v]) < Len(buffer[v])>>_vars
  /\ <>[](credits # <<>>) => []<><<Len(credits') < Len(credits)>>_vars

-----------------------------------------------------------------------------
(* Properties. *)

(* The queues hold flits of known packets, and no VC but -1 that a class may *)
(* not use.                                                                  *)
InjTypeOK ==
  /\ DOMAIN partial = Classes /\ DOMAIN lastVC = Classes
  /\ \A c \in Classes :
       partial[c] \in Seq([pid : Pids, head : BOOLEAN, tail : BOOLEAN,
                           vc : {-1} \cup BeginVC[c] .. EndVC[c], pri : PriOf[c]])
  /\ \A c \in Classes : lastVC[c] \in BeginVC[c] .. EndVC[c]
  /\ lastClass \in Classes /\ hold \in SomeHolds

(* A packet whose head has gone goes on with the VC it took: its next flit   *)
(* carries that VC (the assert on f->vc for hold_switch_for_packet), and the *)
(* VC is open for that packet and no other.                                  *)
RestHasVC ==
  \A c \in Classes :
    partial[c] # <<>> /\ ~Head(partial[c]).head =>
      /\ Head(partial[c]).vc = lastVC[c]
      /\ open[lastVC[c]] = [pid |-> Head(partial[c]).pid, begun |-> TRUE]

(* A head takes a VC that no packet holds (Error "Buffer taken while in use  *)
(* for VC" in BufferState::TakeBuffer).                                      *)
TakesFreeVC ==
  [][Len(channel') > Len(channel) =>
       LET f == channel'[Len(channel')] IN f.head => IsAvailableFor(bs, f.vc)]_vars

(* Every packet leaves the node and the router, whatever other classes keep  *)
(* sending.                                                                  *)
EveryPacketLeaves ==
  \A pid \in Pids : Waiting(pid) \/ ~Fresh(pid) ~> ~Waiting(pid) /\ Fresh(pid)

=============================================================================
