----------------------------- MODULE MCIQRouter -----------------------------
(* Instances of IQRouter: small loads that compete for the VCs and the         *)
(* crossbar of output 0, each with a configuration of the router.              *)
EXTENDS IQRouter

Packet(p, vc, len) ==
  [k \in 1 .. len |-> [p |-> p, n |-> k, tail |-> k = len, vc |-> vc]]
Load(a, b, c) ==
  [w \in InputVCs |->
     CASE w = <<0, 0>> -> a [] w = <<0, 1>> -> b [] w = <<1, 0>> -> c [] OTHER -> <<>>]
Ports == <<{0}, {0}, {0}, {0, 1}>>

(* Three packets for the two VCs of output 0. *)
ThreePackets == Load(Packet(1, 0, 2), Packet(2, 1, 1), Packet(3, 0, 1))
(* A long packet with another one behind it in its VC, against a second input. *)
TwoInputs == Load(Packet(1, 0, 3) \o Packet(4, 0, 1), <<>>, Packet(3, 0, 1))
(* The same against a second VC of the same input. *)
OneInput == Load(Packet(1, 0, 3) \o Packet(4, 0, 1), Packet(2, 1, 1), <<>>)

(* Two packets at one VC, against one of a second input: enough to fill an     *)
(* output buffer when the crossbar is twice as fast as the channel.            *)
OneEachInput == Load(Packet(1, 0, 2) \o Packet(4, 0, 1), <<>>, Packet(3, 0, 2))

OneEach == [v \in VCs |-> v]
OneSlot == [i \in {0, 1} |-> 1]

(* As configured by default, and variations of what a configuration sets.      *)
Default ==
  [policy |-> "private", wait_for_tail_credit |-> FALSE, vc_busy_when_full |-> FALSE,
   hold_switch_for_packet |-> FALSE, routing_delay |-> 1, internal_speedup |-> One,
   input_speedup |-> 1, output_speedup |-> 1, output_buffer_size |-> -1, credit_delay |-> 0,
   speculative |-> FALSE, piggyback |-> FALSE, spec_sw_allocator |-> FALSE,
   spec_check_elig |-> TRUE, spec_check_cred |-> TRUE, spec_mask_by_reqs |-> FALSE]
(* The mesh and DGX-1 configurations speculate, with the route computed a hop  *)
(* before.                                                                     *)
Speculative == [Default EXCEPT !.speculative = TRUE, !.routing_delay = 0]
SomeConfigs ==
  {[load |-> ThreePackets, config |-> [Default EXCEPT !.output_speedup = 2]],
   [load |-> TwoInputs,
    config |-> [Default EXCEPT !.policy = "shared", !.hold_switch_for_packet = TRUE,
                               !.wait_for_tail_credit = TRUE, !.routing_delay = 2]],
   [load |-> OneEachInput,
    config |-> [Default EXCEPT !.internal_speedup = 2 * One, !.routing_delay = 0,
                               !.output_buffer_size = 1, !.vc_busy_when_full = TRUE]],
   [load |-> OneInput,
    config |-> [Default EXCEPT !.input_speedup = 2, !.internal_speedup = One + 1,
                               !.hold_switch_for_packet = TRUE, !.output_buffer_size = 1]],
   [load |-> ThreePackets,
    config |-> [Speculative EXCEPT !.policy = "dynamic", !.hold_switch_for_packet = TRUE,
                                   !.wait_for_tail_credit = TRUE]],
   [load |-> OneEachInput,
    config |-> [Speculative EXCEPT !.spec_sw_allocator = TRUE, !.routing_delay = 1]],
   [load |-> OneEachInput,
    config |-> [Speculative EXCEPT !.piggyback = TRUE, !.spec_sw_allocator = TRUE,
                                   !.spec_mask_by_reqs = TRUE, !.credit_delay = 2]]}

=============================================================================
